----------------------------- MODULE CuddlManager -----------------------------
(***************************************************************************)
(* The claim protocol of Cuddl on Linux: user processes claim and release  *)
(* memory regions and event sources of managed devices through ioctls on   *)
(* /dev/cuddl; the manager counts the claims of each resource, pins the    *)
(* driver module that owns it, and keeps a list of who claimed what, from  *)
(* which the janitor device frees the claims of a process that ends.       *)
(*                                                                         *)
(* Every ioctl handler runs under the global mutex from before its switch  *)
(* to its end, so each is one step.  The janitor's clean-up holds the same *)
(* mutex over a loop; it is a step per list entry, because loading and     *)
(* unloading of modules does not take the mutex.                           *)
(*                                                                         *)
(* Handlers that only report (GET_*, IS_ENABLED, version and commit        *)
(* queries) change no state and have no action; neither have the error     *)
(* paths that return before a change (bad token range, incompatible        *)
(* version, no matching resource, resource busy).                          *)
(***************************************************************************)
EXTENDS CuddlRegistry

CONSTANTS
  Procs,     \* processes, named by their pid
  Addrs,     \* addresses kzalloc() may give a list node
  Ids,       \* identifiers that processes ask for
  Shared,    \* Shared[d][r] : the resource has the SHARED flag
  Cuddl,     \* the cuddl kernel module
  OwnerOf,   \* OwnerOf[d] : d->owner_ptr; Cuddl when the driver left it NULL
  MaxClaims  \* bound on the claims of one resource a process keeps account of

(***************************************************************************)
(* Further values of Allowed used by this module:                          *)
(*   "stray_release"    release of a token the process does not hold       *)
(*   "decrement_by_id"  cuddl_decrement_*_ref_count(), the emergency       *)
(*                      operation of the management tool                   *)
(*   "info_fault"       copy_to_user() fails in an INFO ioctl              *)
(*   "late_calls"       threads of a process call Cuddl after its          *)
(*                      destructor or exit has closed the janitor file     *)
(*   "claim_going"      a claim reaches a device whose driver's exit       *)
(*                      function has begun                                 *)
(*   "fork"             a process forks after the library's constructor    *)
(*   "no_janitor"       the janitor module may be missing at start-up      *)
(***************************************************************************)

Modules == Drivers \cup {Cuddl}
Tokens == Slots \X Resources

\* A clean-up: the process whose close() runs it, and the pid it is for.
CleanUp == [by : Procs, pid : Procs]

ASSUME ManagerAssumption ==
  /\ OwnerOf \in [Devs -> Modules]
  /\ Shared \in [Devs -> [Resources -> BOOLEAN]]
  /\ MaxClaims \in Nat
  /\ Cuddl \notin Drivers
  /\ NULL \notin CleanUp

VARIABLES
  ref_count,  \* ref_count[d][r] : kernel.ref_count of the resource
  pins,       \* pins[m] : module reference count of m taken by claims
  refs,       \* cuddlk_mem_refs and cuddlk_event_refs
  held,       \* held[p][t] : claims with token t that p has been granted
  pstate,     \* pstate[p] : whether a process with this pid exists
  jfiles,     \* open files of /dev/cuddl_janitor and who holds each open
  janitor,    \* clean-up in progress, which holds the global mutex, or NULL
  oops        \* the kernel has dereferenced a NULL device

claimVars == <<ref_count, pins, refs>>
procVars == <<held, pstate, jfiles, janitor, oops>>
managerVars == <<registryVars, claimVars, procVars>>

\* The fields dev and hostile of a list node are not in the code: they record
\* for the properties which device was claimed and how.
Ref == [addr : Addrs, slot : Slots, res : Resources, pid : Procs,
        dev : Devs, hostile : BOOLEAN]

\* private_data of a janitor file is the pid registered with it.
JanitorFile == [pid : Procs, holders : SUBSET Procs]

ManagerTypeOK ==
  /\ RegistryTypeOK
  /\ ref_count \in [Devs -> [Resources -> Nat]]
  /\ pins \in [Modules -> Nat]
  /\ refs \subseteq Ref /\ IsFiniteSet(refs)
  /\ held \in [Procs -> [Tokens -> Nat]]
  /\ pstate \in [Procs -> {"none", "running", "exiting"}]
  /\ jfiles \subseteq JanitorFile
  /\ janitor \in CleanUp \cup {NULL}
  /\ oops \in BOOLEAN

ManagerInit ==
  /\ RegistryInit
  /\ ref_count = [d \in Devs |-> [r \in Resources |-> 0]]
  /\ pins = [m \in Modules |-> 0]
  /\ refs = {}
  /\ held = [p \in Procs |-> [t \in Tokens |-> 0]]
  /\ pstate = [p \in Procs |-> "none"]
  /\ jfiles = {}
  /\ janitor = NULL
  /\ oops = FALSE

-----------------------------------------------------------------------------
(* Counting *)

MutexFree == janitor = NULL

OwnerLive(d) == OwnerOf[d] = Cuddl \/ modstate[OwnerOf[d]] = "live"

\* Faulty variant: the comparison with zero is off by one.
MayClaimOffByOne(d, r, hostile) == ref_count[d][r] <= 1 \/ Shared[d][r] \/ hostile

\* _memregion_claim, _eventsrc_claim
MayClaim(d, r, hostile) == ref_count[d][r] = 0 \/ Shared[d][r] \/ hostile

CountClaimed(d, r) == [ref_count EXCEPT ![d][r] = @ + 1]

\* Faulty variant: a claim that leaves the driver module unpinned.
PinsNotClaimed(d) == pins

\* try_module_get() of a module that is going fails, which the claim ignores.
PinsClaimed(d) == IF OwnerLive(d) THEN [pins EXCEPT ![OwnerOf[d]] = @ + 1] ELSE pins

\* Faulty variant: no test for zero.
CountDecrUnchecked(count, d, r) == [count EXCEPT ![d][r] = @ - 1]

\* _memregion_decr_ref_count, _eventsrc_decr_ref_count
CountDecr(count, d, r) ==
  IF count[d][r] = 0 THEN count ELSE [count EXCEPT ![d][r] = @ - 1]

\* module_put() leaves a count of zero alone (and warns).
PinsDecr(pinned, count, d, r) ==
  IF count[d][r] = 0 \/ pinned[OwnerOf[d]] = 0
  THEN pinned
  ELSE [pinned EXCEPT ![OwnerOf[d]] = @ - 1]

-----------------------------------------------------------------------------
(* The ioctls of /dev/cuddl *)

Calling(p) ==
  pstate[p] \in {"running"} \cup (IF "late_calls" \in Allowed THEN {"exiting"} ELSE {})

\* p's identifier resolves to resource r of the device in slot s.
Resolved(p, s, r) ==
  /\ MutexFree
  /\ Calling(p)
  /\ \E id \in Ids : <<s, r>> \in Lookup(id, r[1])

Claimable(p, s, r, hostile) ==
  /\ Resolved(p, s, r)
  /\ modstate[DriverOf[devices[s]]] = "live" \/ "claim_going" \in Allowed
  /\ MayClaim(devices[s], r, hostile)

\* The claim succeeds in the kernel.  The process does not get to know when its
\* close() of /dev/cuddl fails afterwards.
Claim(p, s, r, hostile) ==
  /\ Claimable(p, s, r, hostile)
  /\ held[p][<<s, r>>] < MaxClaims
  /\ ref_count' = CountClaimed(devices[s], r)
  /\ pins' = PinsClaimed(devices[s])
  /\ \E a \in Addrs \ {e.addr : e \in refs} :
       refs' = refs \cup {[addr |-> a, slot |-> s, res |-> r, pid |-> p,
                           dev |-> devices[s], hostile |-> hostile]}
  /\ held' \in {held, [held EXCEPT ![p][<<s, r>>] = @ + 1]}
  /\ UNCHANGED <<registryVars, pstate, jfiles, janitor, oops>>

\* Faulty variant: the error path gives the module back but not the count.
ClaimHalfUndone(p, s, r, hostile) ==
  LET d == devices[s]
  IN  /\ Claimable(p, s, r, hostile)
      /\ ref_count' = CountClaimed(d, r)
      /\ UNCHANGED <<registryVars, pins, refs, procVars>>

\* Faulty variant: the error path gives the count back but not the module.
ClaimStaysPinned(p, s, r, hostile) ==
  /\ Claimable(p, s, r, hostile)
  /\ pins' = PinsClaimed(devices[s])
  /\ UNCHANGED <<registryVars, ref_count, refs, procVars>>

\* copy_to_user() of the result or kzalloc() of the list node fails: undone.
ClaimUndone(p, s, r, hostile) ==
  LET d == devices[s]
  IN  /\ Claimable(p, s, r, hostile)
      /\ ref_count' = CountDecr(CountClaimed(d, r), d, r)
      /\ pins' = PinsDecr(PinsClaimed(d), CountClaimed(d, r), d, r)
      /\ UNCHANGED <<registryVars, refs, procVars>>

\* An INFO ioctl whose copy_to_user() fails takes the error path of a claim.
InfoFault(p, s, r) ==
  /\ "info_fault" \in Allowed
  /\ Resolved(p, s, r)
  /\ ref_count' = CountDecr(ref_count, devices[s], r)
  /\ pins' = PinsDecr(pins, ref_count, devices[s], r)
  /\ UNCHANGED <<registryVars, refs, procVars>>

\* Faulty variant: the search of the list compares the token only.
RefsOfAnyone(p, s, r) == {e \in refs : e.slot = s /\ e.res = r}

RefsWith(p, s, r) == {e \in refs : e.pid = p /\ e.slot = s /\ e.res = r}

\* The count goes down first; then a list node with this token and pid is freed,
\* if there is one.
Release(p, s, r) ==
  /\ MutexFree
  /\ Calling(p)
  /\ held[p][<<s, r>>] > 0 \/ "stray_release" \in Allowed
  /\ devices[s] # NULL
  /\ ref_count' = CountDecr(ref_count, devices[s], r)
  /\ pins' = PinsDecr(pins, ref_count, devices[s], r)
  /\ \/ \E e \in RefsWith(p, s, r) : refs' = refs \ {e}
     \/ RefsWith(p, s, r) = {} /\ UNCHANGED refs
  /\ held' = [held EXCEPT ![p][<<s, r>>] = IF @ = 0 THEN 0 ELSE @ - 1]
  /\ UNCHANGED <<registryVars, pstate, jfiles, janitor, oops>>

\* The slot has become empty: -ENODEV, and the list node stays.
ReleaseNoDevice(p, s, r) ==
  /\ MutexFree
  /\ Calling(p)
  /\ held[p][<<s, r>>] > 0
  /\ devices[s] = NULL
  /\ held' = [held EXCEPT ![p][<<s, r>>] = @ - 1]
  /\ UNCHANGED <<registryVars, claimVars, pstate, jfiles, janitor, oops>>

DecrementRefCount(p, s, r) ==
  /\ "decrement_by_id" \in Allowed
  /\ Resolved(p, s, r)
  /\ ref_count' = CountDecr(ref_count, devices[s], r)
  /\ pins' = PinsDecr(pins, ref_count, devices[s], r)
  /\ UNCHANGED <<registryVars, refs, procVars>>

\* The handlers of the two kinds of resource are the same code over
\* different lists and structs.
ClaimIoctl(p, s, r) ==
  \/ \E hostile \in BOOLEAN : Claim(p, s, r, hostile) \/ ClaimUndone(p, s, r, hostile)
  \/ InfoFault(p, s, r)

MemregionClaimIoctl(p) ==
  \E s \in Slots, r \in MemRegions : ClaimIoctl(p, s, r)

EventsrcClaimIoctl(p) ==
  \E s \in Slots, r \in EventSrcs : ClaimIoctl(p, s, r)

MemregionReleaseIoctl(p) ==
  \E s \in Slots, r \in MemRegions : Release(p, s, r) \/ ReleaseNoDevice(p, s, r)

EventsrcReleaseIoctl(p) ==
  \E s \in Slots, r \in EventSrcs : Release(p, s, r) \/ ReleaseNoDevice(p, s, r)

MemregionDecrementIoctl(p) ==
  \E s \in Slots, r \in MemRegions : DecrementRefCount(p, s, r)

EventsrcDecrementIoctl(p) ==
  \E s \in Slots, r \in EventSrcs : DecrementRefCount(p, s, r)

-----------------------------------------------------------------------------
(* Processes and the janitor *)

\* The library's constructor opens the janitor device and registers the pid.
ProcStart(p) ==
  /\ pstate[p] = "none"
  /\ pstate' = [pstate EXCEPT ![p] = "running"]
  /\ jfiles' \in {jfiles \cup {[pid |-> p, holders |-> {p}]}}
                   \cup (IF "no_janitor" \in Allowed THEN {jfiles} ELSE {})
  /\ UNCHANGED <<registryVars, claimVars, held, janitor, oops>>

\* fork(): the child shares the open janitor file; no constructor runs in it.
ProcFork(p, c) ==
  /\ "fork" \in Allowed
  /\ pstate[p] = "running" /\ pstate[c] = "none"
  /\ pstate' = [pstate EXCEPT ![c] = "running"]
  /\ jfiles' = {[f EXCEPT !.holders = IF p \in @ THEN @ \cup {c} ELSE @] : f \in jfiles}
  /\ UNCHANGED <<registryVars, claimVars, held, janitor, oops>>

\* The process exits, is killed or crashes.
ProcExit(p) ==
  /\ pstate[p] = "running"
  /\ pstate' = [pstate EXCEPT ![p] = "exiting"]
  /\ UNCHANGED <<registryVars, claimVars, held, jfiles, janitor, oops>>

\* One holder of a janitor file closes it, another remains.
JanitorClose(p) ==
  /\ pstate[p] = "exiting"
  /\ \E f \in jfiles :
       /\ p \in f.holders /\ f.holders # {p}
       /\ jfiles' = (jfiles \ {f}) \cup {[f EXCEPT !.holders = @ \ {p}]}
  /\ UNCHANGED <<registryVars, claimVars, held, pstate, janitor, oops>>

\* Faulty variant: any holder's close runs the clean-up of the registered pid.
JanitorReleaseEarly(p) ==
  /\ pstate[p] \in {"running", "exiting"}
  /\ MutexFree
  /\ \E f \in jfiles :
       /\ p \in f.holders
       /\ jfiles' = jfiles \ {f}
       /\ janitor' = [by |-> p, pid |-> f.pid]
  /\ UNCHANGED <<registryVars, claimVars, held, pstate, oops>>

\* The last holder closes the file: cuddlk_janitor_release() takes the mutex to
\* free the references of the pid that was registered.
JanitorRelease(p) ==
  /\ pstate[p] = "exiting"
  /\ MutexFree
  /\ \E f \in jfiles :
       /\ f.holders = {p}
       /\ jfiles' = jfiles \ {f}
       /\ janitor' = [by |-> p, pid |-> f.pid]
  /\ UNCHANGED <<registryVars, claimVars, held, pstate, oops>>

\* Faulty variant: a node is skipped when its device has other claims.
FreeRefUnlessShared(e) ==
  /\ ~MutexFree /\ ~oops
  /\ e.pid = janitor.pid
  /\ devices[e.slot] # NULL
  /\ ref_count[devices[e.slot]][e.res] <= 1
  /\ ref_count' = CountDecr(ref_count, devices[e.slot], e.res)
  /\ pins' = PinsDecr(pins, ref_count, devices[e.slot], e.res)
  /\ refs' = refs \ {e}
  /\ UNCHANGED <<registryVars, procVars>>

\* One round of the loops in cuddlk_manager_free_refs_for_pid().
FreeRef(e) ==
  /\ ~MutexFree /\ ~oops
  /\ e.pid = janitor.pid
  /\ devices[e.slot] # NULL
  /\ ref_count' = CountDecr(ref_count, devices[e.slot], e.res)
  /\ pins' = PinsDecr(pins, ref_count, devices[e.slot], e.res)
  /\ refs' = refs \ {e}
  /\ UNCHANGED <<registryVars, procVars>>

FreeRefNullDevice(e) ==
  /\ ~MutexFree /\ ~oops
  /\ e.pid = janitor.pid
  /\ devices[e.slot] = NULL
  /\ oops' = TRUE
  /\ UNCHANGED <<registryVars, claimVars, held, pstate, jfiles, janitor>>

\* Faulty variant: one round of the loop only.
FreeRefsGivenUp ==
  /\ ~MutexFree /\ ~oops
  /\ janitor' = NULL
  /\ UNCHANGED <<registryVars, claimVars, held, pstate, jfiles, oops>>

FreeRefsDone ==
  /\ ~MutexFree /\ ~oops
  /\ \A e \in refs : e.pid # janitor.pid
  /\ janitor' = NULL
  /\ UNCHANGED <<registryVars, claimVars, held, pstate, jfiles, oops>>

CleaningUp(p) == ~MutexFree /\ janitor.by = p

\* All files of the process are closed: the pid may be used again.
ProcReap(p) ==
  /\ pstate[p] = "exiting"
  /\ \A f \in jfiles : p \notin f.holders
  /\ ~CleaningUp(p)
  /\ pstate' = [pstate EXCEPT ![p] = "none"]
  /\ held' = [held EXCEPT ![p] = [t \in Tokens |-> 0]]
  /\ UNCHANGED <<registryVars, claimVars, jfiles, janitor, oops>>

-----------------------------------------------------------------------------
(* Drivers *)

Insmod(m) ==
  /\ ModuleLoad(m)
  /\ ref_count' = [d \in Devs |-> IF DriverOf[d] = m THEN [r \in Resources |-> 0]
                                                    ELSE ref_count[d]]
  /\ pins' = [pins EXCEPT ![m] = 0]
  /\ UNCHANGED <<refs, procVars>>

\* Faulty variant: the module is unloaded although claims pin it.
RmmodForced(m) ==
  /\ ModuleUnloadBegin(m)
  /\ UNCHANGED <<claimVars, procVars>>

\* The module loader refuses to unload a module that is in use.
Rmmod(m) ==
  /\ pins[m] = 0
  /\ ModuleUnloadBegin(m)
  /\ UNCHANGED <<claimVars, procVars>>

RmmodDone(m) ==
  /\ ModuleUnloadEnd(m)
  /\ UNCHANGED <<claimVars, procVars>>

Manage(d) ==
  /\ MutexFree
  /\ DeviceManage(d) \/ DeviceManageRegisterFails(d)
  /\ UNCHANGED <<claimVars, procVars>>

ReleaseDevice(d) ==
  /\ MutexFree
  /\ DeviceRelease(d)
  /\ UNCHANGED <<claimVars, procVars>>

-----------------------------------------------------------------------------

Ioctl(p) ==
  \/ MemregionClaimIoctl(p)
  \/ EventsrcClaimIoctl(p)
  \/ MemregionReleaseIoctl(p)
  \/ EventsrcReleaseIoctl(p)
  \/ MemregionDecrementIoctl(p)
  \/ EventsrcDecrementIoctl(p)

Process(p) ==
  \/ ProcStart(p)
  \/ \E c \in Procs : ProcFork(p, c)
  \/ ProcExit(p)
  \/ JanitorClose(p)
  \/ JanitorRelease(p)
  \/ ProcReap(p)

CleanUpStep ==
  \/ \E e \in refs : FreeRef(e) \/ FreeRefNullDevice(e)
  \/ FreeRefsDone

DriverStep ==
  \/ \E m \in Drivers : Insmod(m) \/ Rmmod(m) \/ RmmodDone(m)
  \/ \E d \in Devs : Manage(d) \/ ReleaseDevice(d)

ManagerNext ==
  \/ \E p \in Procs : Ioctl(p) \/ Process(p)
  \/ CleanUpStep
  \/ DriverStep

ManagerSpec == ManagerInit /\ [][ManagerNext]_managerVars

\* The kernel finishes what it began for a process that ends: it closes its
\* files and reaps it, its mutexes are handed over to waiters, and the clean-up
\* loop runs on.  Nothing obliges a process to end, or a driver to do anything.
ManagerFairness ==
  /\ WF_managerVars(CleanUpStep)
  /\ \A p \in Procs : /\ WF_managerVars(JanitorClose(p))
                      /\ SF_managerVars(JanitorRelease(p))
                      /\ WF_managerVars(ProcReap(p))

ManagerFairSpec == ManagerSpec /\ ManagerFairness

-----------------------------------------------------------------------------
(* Properties *)

ClaimsOn(d, r) == {e \in refs : e.dev = d /\ e.res = r}

UsersOf(m) == {e \in refs : OwnerOf[e.dev] = m}

\* memregion.h and eventsrc.h (kernel): ref_count is the "number of user-space
\* applications that have claimed" the resource.  Through undone claims, releases
\* and clean-ups the count is the number of claims on the list, never one off.
RefCountExact ==
  \A d \in Devs, r \in Resources : ref_count[d][r] = Cardinality(ClaimsOn(d, r))

\* The kernel's count of users of a driver module is the number of claims on its
\* devices, so that a driver can be unloaded exactly when nothing of it is claimed.
PinsExact ==
  \A m \in Modules : pins[m] = Cardinality(UsersOf(m))

\* A token handed out by a claim names a slot of the table.  While the claim is on
\* the list that slot holds the device that was claimed, whatever drivers come and
\* go: a release or a clean-up never touches another device, or none.
TokensNameTheirDevice == \A e \in refs : devices[e.slot] = e.dev

\* common_memregion.h and common_eventsrc.h: a resource without the SHARED flag has
\* one owner, and only a claim with the HOSTILE option gets past it.
Exclusive ==
  \A e, f \in refs :
    (e.dev = f.dev /\ e.res = f.res /\ ~Shared[e.dev][e.res]
       /\ ~e.hostile /\ ~f.hostile) => e = f

\* What a running process has been granted, it has: nobody else's release, exit or
\* clean-up takes one of its claims off the list.
HeldIsClaimed ==
  \A p \in Procs, s \in Slots, r \in Resources :
    pstate[p] = "running" => held[p][<<s, r>>] <= Cardinality(RefsWith(p, s, r))

\* cuddlk_manager_free_refs_for_pid() uses devices[slot] of every list node of the
\* pid without a check; it never meets an empty slot.
CleanUpFindsDevices == ~oops

\* Whatever stray releases, emergency decrements, failing INFO calls and missing
\* clean-ups do to the count of a managed device, it never exceeds the claims on the
\* list: no resource stays busy once everybody who claimed it is off the list. It takes
\* drivers that keep their devices until they are unloaded: cuddlk_device_register()
\* does not clear the counts of a device that was released while it was claimed.
NoPhantomClaims ==
  \A d \in Managed, r \in Resources :
    ref_count[d][r] <= Cardinality(ClaimsOn(d, r))

\* A claim leaves the list only by a release of the process it is for, or by the
\* clean-up of its pid, which the end of the last process holding the janitor file
\* started; releasing a slot's device or unloading a driver leaves the list alone.
ClaimsLeaveByOwnerOnly ==
  [][\A e \in refs \ refs' :
       \/ janitor # NULL /\ janitor.pid = e.pid
       \/ /\ janitor = NULL /\ Calling(e.pid) /\ refs' = refs \ {e}
          /\ \A p \in Procs : held'[p] # held[p] => p = e.pid]_managerVars

\* While a claim is on the list, its driver cannot begin to unload, and something
\* stands ready to free the claim: an open janitor file of its own process, or the
\* clean-up of it that is already running.
ClaimsAccountedFor ==
  \A e \in refs :
    /\ modstate[DriverOf[e.dev]] = "live"
    /\ \/ \E f \in jfiles : f.pid = e.pid /\ e.pid \in f.holders
       \/ janitor # NULL /\ janitor.pid = e.pid

\* impl_linux.h (user): "When the process ends, all resources associated with the
\* process will be freed."
EndedProcessIsFreed ==
  \A p \in Procs : pstate[p] = "exiting" ~> \A e \in refs : e.pid # p

\* The same promise as a state predicate: no claim is left of a process that is gone,
\* so that a new process with the pid of an old one owns nothing it did not claim.
NoClaimOutlivesItsProcess == \A e \in refs : pstate[e.pid] # "none"
-----------------------------------------------------------------------------
(* The abstract specification *)

ProcsIn(state) == {p \in Procs : pstate[p] = state}

PromisedClaims == INSTANCE CuddlClaims WITH
  ClaimRecords <- Ref,
  offered <- Managed,
  running <- ProcsIn("running"),
  ending <- ProcsIn("exiting"),
  claims <- refs

\* What the counts, pins, tokens, lists and janitor files of the manager add up to
\* is a table of claims: granted to running processes on devices that stay, one at a
\* time unless shared or hostile, and in force until their owner gives them up or
\* has been freed of them.
ImplementsClaims == PromisedClaims!ClaimsSpec
=============================================================================
