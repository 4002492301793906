------------------------------ MODULE CuddlClients ------------------------------
(***************************************************************************)
(* The user library at work, composed with what it works on: the kernel    *)
(* modules, the table of managed devices, the UIO device nodes, and the    *)
(* claims, kept as the set that CuddlManager implements (CuddlClaims).     *)
(*                                                                         *)
(* To use a resource a process makes two calls, a claim on /dev/cuddl and  *)
(* an open() of the device node named in its answer; to give it up it      *)
(* closes the node and then releases the claim.  Drivers are loaded and    *)
(* unloaded and processes end between any two of these steps.              *)
(*                                                                         *)
(* UIO's device nodes and its files are external: a registered device has  *)
(* a minor number that no other has, opening /dev/uio<minor> pins the      *)
(* driver's module, and the last close of a file unpins it.  A process     *)
(* makes one call of the library at a time, and has a janitor file.        *)
(*                                                                         *)
(* Further value of Allowed used by this module:                           *)
(*   "claim_going"        a claim is granted on a driver that is going,    *)
(*                        without a pin.  What the release of a claimed    *)
(*                        device leads to in the manager is modelled in    *)
(*                        CuddlManager only; here the claim stays.         *)
(***************************************************************************)
EXTENDS CuddlQueries, CuddlModules

CONSTANTS
  Procs,      \* processes
  Objects,    \* variables of class MemRegion or EventSrc in the processes
  ProcOf,     \* ProcOf[o] : the process that has o
  KindOf,     \* KindOf[o] : "mem" for a MemRegion, "event" for an EventSrc
  Options,    \* Options[o] : whether o is claimed with the HOSTILE option
  Shared,     \* Shared[d][r] : the resource has the SHARED flag
  Ids,        \* identifiers that processes claim by
  Questions,  \* identifiers and kinds that processes ask about
  Minors,     \* minor numbers that UIO gives out
  MaxClaims,  \* bound on the claims of one process on one resource
  MaxLost     \* bound on the claims that are abandoned at one time

\* no tells claims apart that are alike in all else.
Claim == [pid : Procs, dev : Devs, res : Resources, hostile : BOOLEAN, no : 1 .. MaxClaims]
Object == [claim : Claim, slot : Slots]

ASSUME ClientsAssumption ==
  /\ ProcOf \in [Objects -> Procs]
  /\ KindOf \in [Objects -> Kinds]
  /\ Options \in [Objects -> SUBSET BOOLEAN]
  /\ Shared \in [Devs -> [Resources -> BOOLEAN]]
  /\ NULL \notin Minors /\ NULL \notin Object

VARIABLES
  running,    \* processes that can call
  ending,     \* processes whose files are being closed
  claims,     \* claims in force
  minor,      \* minor[d] : number of d's device node, NULL = none
  files,      \* open files on device nodes
  objects,    \* objects[o] : claim and slot of an object in use, else NULL
  calls,      \* calls[p] : the library call p is in, between two system calls
  abandoned   \* claims that no object stands for any more

callVars == <<objects, calls, abandoned>>
clientsVars == <<registryVars, modulesVars, running, ending, claims, minor, files, callVars>>

UioFile == [pid : Procs, dev : Devs, claim : Claim]

\* A claim on its way into an object or out of one; a question about a device.
ClaimCall == [at : {"claimed", "undo", "closed"}, obj : Objects,
              claim : Claim, slot : Slots, node : Minors \cup {NULL}]
Question == [at : {"asked"}, slot : Slots, res : Resources, dev : Devs]

NoCall == [at |-> "idle"]

Table == INSTANCE CuddlClaims WITH offered <- Managed, ClaimRecords <- Claim

ClientsTypeOK ==
  /\ RegistryTypeOK /\ ModulesTypeOK
  /\ running \subseteq Procs /\ ending \subseteq Procs
  /\ claims \subseteq Claim /\ abandoned \subseteq claims
  /\ minor \in [Devs -> Minors \cup {NULL}]
  /\ files \subseteq UioFile
  /\ objects \in [Objects -> Object \cup {NULL}]
  /\ calls \in [Procs -> ClaimCall \cup Question \cup {NoCall}]

ClientsInit ==
  /\ RegistryInit /\ ModulesInit
  /\ running = {} /\ ending = {} /\ claims = {}
  /\ minor = [d \in Devs |-> NULL]
  /\ files = {}
  /\ objects = [o \in Objects |-> NULL]
  /\ calls = [p \in Procs |-> NoCall]
  /\ abandoned = {}

-----------------------------------------------------------------------------
(* Kernel modules and drivers *)

\* The janitor's open files pin it, and the drivers use functions of the manager.
ModuleExit(m) ==
  /\ m = "janitor" => running \cup ending = {}
  /\ m = "manager" => \A k \in Drivers : modstate[k] = "unloaded"
  /\ ExitBegin(m)

KernelModuleStep(m) ==
  /\ ModuleStep(m) \/ ModuleExit(m)
  /\ UNCHANGED <<registryVars, running, ending, claims, minor, files, callVars>>

Insmod(m) ==
  /\ kmod["manager"] = "live"
  /\ ModuleLoad(m)
  /\ UNCHANGED <<modulesVars, running, ending, claims, minor, files, callVars>>

\* Faulty variant: the device has no owner_ptr, and neither claims nor open files pin.
RmmodUnowned(m) ==
  /\ ModuleUnloadBegin(m)
  /\ UNCHANGED <<modulesVars, running, ending, claims, minor, files, callVars>>

\* Faulty variant: open files do not pin the driver.
RmmodOpened(m) ==
  /\ \A c \in claims : DriverOf[c.dev] # m
  /\ ModuleUnloadBegin(m)
  /\ UNCHANGED <<modulesVars, running, ending, claims, minor, files, callVars>>

\* Claims and open files pin the driver.
Rmmod(m) ==
  /\ \A c \in claims : DriverOf[c.dev] # m
  /\ \A f \in files : DriverOf[f.dev] # m
  /\ ModuleUnloadBegin(m)
  /\ UNCHANGED <<modulesVars, running, ending, claims, minor, files, callVars>>

RmmodDone(m) ==
  /\ ModuleUnloadEnd(m)
  /\ UNCHANGED <<modulesVars, running, ending, claims, minor, files, callVars>>

\* Registration gives the device a number that is free; other drivers' UIO devices may
\* have any of the others.
Manage(d) ==
  /\ DeviceManage(d)
  /\ \E n \in Minors :
       /\ \A e \in Devs : minor[e] # n
       /\ minor' = IF d \in Managed' THEN [minor EXCEPT ![d] = n] ELSE minor
  /\ UNCHANGED <<modulesVars, running, ending, claims, files, callVars>>

ManageFails(d) ==
  /\ DeviceManageRegisterFails(d)
  /\ UNCHANGED <<modulesVars, running, ending, claims, minor, files, callVars>>

ReleaseDevice(d) ==
  /\ DeviceRelease(d)
  /\ minor' = [minor EXCEPT ![d] = NULL]
  /\ UNCHANGED <<modulesVars, running, ending, claims, files, callVars>>

-----------------------------------------------------------------------------
(* Processes *)

\* cuddli_startup(): the library opens the janitor device before main().
Start(p) ==
  /\ kmod["janitor"] = "live"
  /\ UNCHANGED <<registryVars, modulesVars, minor, files, callVars>>
  /\ Table!Start(p)

ObjectsOf(p) == {o \in Objects : ProcOf[o] = p}

\* The process exits or is killed, in whatever call it is.  Its memory goes first.
BeginEnd(p) ==
  /\ objects' = [o \in Objects |-> IF ProcOf[o] = p THEN NULL ELSE objects[o]]
  /\ calls' = [calls EXCEPT ![p] = NoCall]
  /\ abandoned' = {c \in abandoned : c.pid # p}
  /\ UNCHANGED <<registryVars, modulesVars, minor, files>>
  /\ Table!BeginEnd(p)

\* Then its files are closed: those on device nodes, and the one on the janitor
\* device, whose close frees its claims.
CloseAtEnd(f) ==
  /\ f.pid \in ending
  /\ files' = files \ {f}
  /\ UNCHANGED <<registryVars, modulesVars, running, ending, claims, minor, callVars>>

Freed(c) ==
  /\ c.pid \in ending
  /\ UNCHANGED <<registryVars, modulesVars, minor, files, callVars>>
  /\ Table!GiveUp(c)

End(p) ==
  /\ \A f \in files : f.pid # p
  /\ UNCHANGED <<registryVars, modulesVars, minor, files, callVars>>
  /\ Table!End(p)

-----------------------------------------------------------------------------
(* Library calls *)

CanCall(p) == p \in running /\ calls[p] = NoCall

\* Faulty variant: a claim on a driver that is going is granted, and pins nothing.
PinIgnored(d) == TRUE

\* The code ignores what try_module_get() returns, which is that the driver is going
\* when rmmod has taken it out of service and its exit has not yet taken the manager's
\* mutex.
MayBeClaimed(d) == modstate[DriverOf[d]] = "live" \/ "claim_going" \in Allowed

\* Faulty variant: device nodes are numbered like slots.
NodeIsSlot(s) == s

\* The number in the answer's device_name
NodeOf(s) == minor[devices[s]]

\* cuddl_memregion_claim(), cuddl_eventsrc_claim() have been granted a claim.  When they
\* fail (nothing matches, the resource is busy) the whole call does, and nothing has
\* changed.  An object already in use is not looked at.
ClaimFor(o, id) ==
  LET p == ProcOf[o] IN
  /\ CanCall(p)
  /\ \E t \in Lookup(id, KindOf[o]), n \in 1 .. MaxClaims :
     \E hostile \in Options[o] :
       LET c == [pid |-> p, dev |-> devices[t[1]], res |-> t[2],
                 hostile |-> hostile, no |-> n]
       IN  /\ MayBeClaimed(c.dev)
           /\ calls' = [calls EXCEPT ![p] =
                [at |-> "claimed", obj |-> o, claim |-> c, slot |-> t[1],
                 node |-> NodeOf(t[1])]]
           /\ UNCHANGED <<registryVars, modulesVars, minor, files, objects, abandoned>>
           /\ Table!Grant(c)

MemregionClaim(o, id) == KindOf[o] = "mem" /\ ClaimFor(o, id)
EventsrcClaim(o, id) == KindOf[o] = "event" /\ ClaimFor(o, id)

Abandon(C) ==
  /\ abandoned' = abandoned \cup C
  /\ Cardinality(abandoned') <= MaxLost

\* What an object stood for that is filled again.
Overwritten(o) == IF objects[o] = NULL THEN {} ELSE {objects[o].claim}

\* open() of the device node succeeds, and what is done with it.
Attach(o) ==
  LET p == ProcOf[o] IN
  /\ calls[p].at = "claimed" /\ calls[p].obj = o
  /\ \E d \in Devs :
       /\ minor[d] = calls[p].node
       /\ modstate[DriverOf[d]] = "live"
       /\ files' = files \cup {[pid |-> p, dev |-> d, claim |-> calls[p].claim]}
  /\ objects' = [objects EXCEPT ![o] = [claim |-> calls[p].claim, slot |-> calls[p].slot]]
  /\ Abandon(Overwritten(o))
  /\ calls' = [calls EXCEPT ![p] = NoCall]
  /\ UNCHANGED <<registryVars, modulesVars, running, ending, claims, minor>>

MemregionMap(o) == KindOf[o] = "mem" /\ Attach(o)
EventsrcOpen(o) == KindOf[o] = "event" /\ Attach(o)

\* Faulty variant: the call returns the error and leaves it at that.
AttachFailsForGood(o) ==
  LET p == ProcOf[o] IN
  /\ calls[p].at = "claimed" /\ calls[p].obj = o
  /\ calls' = [calls EXCEPT ![p] = NoCall]
  /\ UNCHANGED <<registryVars, modulesVars, running, ending, claims, minor, files,
                 objects, abandoned>>

\* open() or mmap() fails, and cuddl_memregion_claim_and_map() and
\* cuddl_eventsrc_claim_and_open() go on to give the claim back.
AttachFails(o) ==
  LET p == ProcOf[o] IN
  /\ calls[p].at = "claimed" /\ calls[p].obj = o
  /\ calls' = [calls EXCEPT ![p].at = "undo"]
  /\ UNCHANGED <<registryVars, modulesVars, running, ending, claims, minor, files,
                 objects, abandoned>>

\* Faulty variant: the memory stays mapped.
DetachNothing(o) ==
  /\ CanCall(ProcOf[o])
  /\ objects[o] # NULL
  /\ calls' = [calls EXCEPT ![ProcOf[o]] =
       [at |-> "closed", obj |-> o, claim |-> objects[o].claim,
        slot |-> objects[o].slot, node |-> NULL]]
  /\ objects' = [objects EXCEPT ![o] = NULL]
  /\ UNCHANGED <<registryVars, modulesVars, running, ending, claims, minor, files,
                 abandoned>>

\* cuddl_memregion_unmap(), cuddl_eventsrc_close() as the first half of giving up, by
\* name or by destructor.  Whatever they return, the release follows.
Detach(o) ==
  /\ CanCall(ProcOf[o])
  /\ objects[o] # NULL
  /\ calls' = [calls EXCEPT ![ProcOf[o]] =
       [at |-> "closed", obj |-> o, claim |-> objects[o].claim,
        slot |-> objects[o].slot, node |-> NULL]]
  /\ objects' = [objects EXCEPT ![o] = NULL]
  /\ files' = {f \in files : f.claim # objects[o].claim}
  /\ UNCHANGED <<registryVars, modulesVars, running, ending, claims, minor, abandoned>>

\* cuddli_memregion_release_by_token(), cuddli_eventsrc_release_by_token()
ReleaseClaim(o) ==
  LET p == ProcOf[o] IN
  /\ calls[p].at \in {"undo", "closed"} /\ calls[p].obj = o
  /\ devices[calls[p].slot] # NULL
  /\ calls' = [calls EXCEPT ![p] = NoCall]
  /\ UNCHANGED <<registryVars, modulesVars, minor, files, objects, abandoned>>
  /\ Table!GiveUp(calls[p].claim)

\* The manager has no memory for its ten buffers, the process no file descriptor for
\* /dev/cuddl, or the slot is empty: nothing is released, and nobody will try again.
ReleaseFails(o) ==
  LET p == ProcOf[o] IN
  /\ calls[p].at \in {"undo", "closed"} /\ calls[p].obj = o
  /\ Abandon({calls[p].claim})
  /\ calls' = [calls EXCEPT ![p] = NoCall]
  /\ UNCHANGED <<registryVars, modulesVars, running, ending, claims, minor, files, objects>>

\* Class MemRegion: claim_and_map() and the constructors that call it,
\* unmap_and_release() and the destructor.
MemRegion(o) ==
  \/ \E id \in Ids : MemregionClaim(o, id)
  \/ MemregionMap(o)
  \/ KindOf[o] = "mem" /\ (AttachFails(o) \/ Detach(o) \/ ReleaseClaim(o) \/ ReleaseFails(o))

\* Class EventSrc: claim_and_open() and the constructors that call it,
\* close_and_release() and the destructor.
EventSrc(o) ==
  \/ \E id \in Ids : EventsrcClaim(o, id)
  \/ EventsrcOpen(o)
  \/ KindOf[o] = "event" /\ (AttachFails(o) \/ Detach(o) \/ ReleaseClaim(o) \/ ReleaseFails(o))

\* cuddl_get_*_id_for_match(), cuddl_get_driver_info_for_id() and the like: the first
\* ioctl gets the token of what matches,
Ask(p, id, kind) ==
  /\ CanCall(p)
  /\ \E t \in InfoForId(id, kind) :
       calls' = [calls EXCEPT ![p] =
         [at |-> "asked", slot |-> t[1], res |-> t[2], dev |-> devices[t[1]]]]
  /\ UNCHANGED <<registryVars, modulesVars, running, ending, claims, minor, files,
                 objects, abandoned>>

\* and the second one what is asked about its slot.
Answer(p) ==
  /\ calls[p].at = "asked"
  /\ calls' = [calls EXCEPT ![p] = NoCall]
  /\ UNCHANGED <<registryVars, modulesVars, running, ending, claims, minor, files,
                 objects, abandoned>>

AnswerAbout(q) ==
  IF StatusForSlot(q.res[1], q.slot, q.res[2]) = "ok"
  THEN {IdForSlot(q.res[1], q.slot, q.res[2])} ELSE {}

\* cuddl_memregion_get_resource_id(), cuddl_eventsrc_get_resource_id(): they ask by the
\* token of an object.
ResourceIdOf(token) ==
  IF StatusForSlot(token.claim.res[1], token.slot, token.claim.res[2]) = "ok"
  THEN {IdForSlot(token.claim.res[1], token.slot, token.claim.res[2])} ELSE {}

\* cuddl_eventsrc_is_enabled() goes by the token as well: the device that is asked.
IsEnabledAsks(token) == EventsrcIsEnabled(token.slot, token.claim.res[2])

-----------------------------------------------------------------------------

DriverStep ==
  \/ \E m \in Drivers : Insmod(m) \/ Rmmod(m) \/ RmmodDone(m)
  \/ \E d \in Devs : Manage(d) \/ ManageFails(d) \/ ReleaseDevice(d)

ProcessStep ==
  \/ \E p \in Procs : Start(p) \/ BeginEnd(p) \/ End(p)
  \/ \E f \in files : CloseAtEnd(f)
  \/ \E c \in claims : Freed(c)

ClientsNext ==
  \/ \E m \in KernelModules : KernelModuleStep(m)
  \/ DriverStep
  \/ ProcessStep
  \/ \E o \in Objects : MemRegion(o) \/ EventSrc(o)
  \/ \E p \in Procs : \/ \E q \in Questions : Ask(p, q[1], q[2])
                      \/ Answer(p)

ClientsSpec == ClientsInit /\ [][ClientsNext]_clientsVars

-----------------------------------------------------------------------------
(* Properties *)

InHand(p) == IF calls[p].at \in {"claimed", "undo", "closed"} THEN {calls[p].claim} ELSE {}

\* memregion.h and eventsrc.h (user): a claim that was made for an object is given back
\* when the object cannot be had and when it is given up.  Every claim of a process that
\* runs is that of one of its objects in use or of the call it is in, apart from those
\* whose release failed or whose object was filled again while in use; and each object
\* in use has its claim and an open file.
ClaimsHaveOwners ==
  \A p \in running :
    LET used == {o \in ObjectsOf(p) : objects[o] # NULL} IN
    /\ {c \in claims : c.pid = p} =
         {objects[o].claim : o \in used} \cup InHand(p) \cup {c \in abandoned : c.pid = p}
    /\ \A o \in used : \E f \in files : f.pid = p /\ f.claim = objects[o].claim

\* memregion.h (user): an exclusive claim keeps other processes away from the resource,
\* and not only from its claim: of the running processes that have it mapped or open at
\* one time, all but one have claimed it with the HOSTILE option.
ExclusiveUse ==
  \A f, g \in files :
    (/\ {f.pid, g.pid} \subseteq running
     /\ f # g /\ Table!Alike(f.claim, g.claim)
     /\ ~Shared[f.claim.dev][f.claim.res])
      => f.claim.hostile \/ g.claim.hostile

\* The device node that a process opens belongs to the device it has claimed, although
\* the node's number is free for another device as soon as the first one is released.
MapsWhatItClaimed == \A f \in files : f.dev = f.claim.dev

\* Between the claim and the last close no driver goes away, not even when the janitor
\* frees the claims of a process before the kernel has closed its other files.
OpenFilesKeepTheirDevice ==
  \A f \in files : f.dev \in Managed /\ modstate[DriverOf[f.dev]] = "live"

\* A token is good from the claim to the release: it names the claimed resource in a
\* query by token, in cuddl_eventsrc_is_enabled() and in the release, although it is but
\* a number of a slot that other devices enter and leave.
TokensStayGood ==
  \A p \in running :
    LET tokens == {objects[o] : o \in {x \in ObjectsOf(p) : objects[x] # NULL}} \cup
                  (IF InHand(p) = {} THEN {} ELSE {[claim |-> calls[p].claim, slot |-> calls[p].slot]})
    IN  \A t \in tokens :
          /\ ResourceIdOf(t) = {IdOf(t.claim.dev, t.claim.res)}
          /\ t.claim.res[1] = "event" => IsEnabledAsks(t) = {t.claim.dev}

\* A question that takes two ioctls is answered about the device of the first one if the
\* process that asks has that device open, which keeps its driver; the table is unlocked
\* between the two.
MatchIsAnswered ==
  \A p \in Procs :
    (calls[p].at = "asked" /\ \E f \in files : f.pid = p /\ f.dev = calls[p].dev)
      => /\ AnswerAbout(calls[p]) = {IdOf(calls[p].dev, calls[p].res)}
         /\ DriverInfo(calls[p].slot) = {calls[p].dev}
         /\ HwInfo(calls[p].slot) = {calls[p].dev}
=============================================================================
