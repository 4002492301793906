-------------------------- MODULE CuddlClients_proofs --------------------------
(***************************************************************************)
(* Proofs about the calls of the user library, for every number of         *)
(* processes, objects, devices, drivers, minor numbers and slots.          *)
(*                                                                         *)
(* The invariant has three parts.  OwnershipInv says who stands for a      *)
(* claim and a file, and holds whatever drivers do.  OpenInv says that     *)
(* devices that are open stay, and holds if drivers release their devices  *)
(* when they are unloaded (no hot unplug).  LinksInv says what slot and    *)
(* node numbers in the hands of processes stand for, and needs claims that *)
(* pin the driver as well.                                                 *)
(***************************************************************************)
EXTENDS CuddlClients, CuddlQueries_proofs, CuddlModules_proofs

-----------------------------------------------------------------------------
(* The invariant *)

\* A claim is granted on drivers in service only, which its try_module_get() then pins: a
\* claim does not race the unloading of its driver, as it can in the code.
ClaimsPin == "claim_going" \notin Allowed

\* p has been granted a claim that it is about to put into an object, or to release.
Holding(p) == calls[p].at \in {"claimed", "undo", "closed"}

InUse(o) == objects[o] # NULL

\* Who claims and opens: processes that are there.
ProcessesInv ==
  /\ running \cap ending = {}
  /\ \A c \in claims : c.pid \in running \cup ending
  /\ \A c \in abandoned : c.pid \in running
  /\ \A f \in files : f.pid \in running \cup ending /\ f.claim.pid = f.pid
  /\ \A f \in files : f.pid \in running => f.claim \in claims
  /\ \A f, g \in files : f.claim = g.claim => f = g

\* An object in use has a claim of its own and an open file for it.
ObjectsInv ==
  /\ \A o \in Objects : InUse(o) =>
       /\ ProcOf[o] \in running /\ objects[o].claim.pid = ProcOf[o]
       /\ objects[o].claim \in claims \ abandoned
       /\ \E f \in files : f.claim = objects[o].claim
  /\ \A o, x \in Objects : InUse(o) /\ InUse(x) /\ objects[o].claim = objects[x].claim => o = x

\* So has a call, but no file.
CallsInv ==
  \A p \in Procs : Holding(p) =>
    /\ p \in running /\ calls[p].claim.pid = p
    /\ calls[p].claim \in claims \ abandoned
    /\ \A o \in Objects : InUse(o) => objects[o].claim # calls[p].claim
    /\ \A f \in files : f.claim # calls[p].claim

\* There are no other claims.
OwnersInv ==
  \A c \in claims : c.pid \in running =>
    \/ c \in abandoned
    \/ \E o \in Objects : InUse(o) /\ objects[o].claim = c
    \/ Holding(c.pid) /\ calls[c.pid].claim = c

ExclusiveInv ==
  \A c, d \in claims : c # d /\ Table!Alike(c, d) /\ ~Shared[c.dev][c.res] => c.hostile \/ d.hostile

ProcessInv == ProcessesInv /\ ObjectsInv /\ CallsInv /\ OwnersInv /\ ExclusiveInv

\* A device is in one slot and has a device node of its own while it is in the table.
NodesInv ==
  /\ \A s, t \in Slots : devices[s] = devices[t] /\ devices[s] # NULL => s = t
  /\ \A d \in Devs : minor[d] # NULL <=> d \in Managed
  /\ \A d, e \in Devs : minor[d] = minor[e] /\ minor[d] # NULL => d = e

Kept(d) == d \in Managed /\ modstate[DriverOf[d]] = "live"

Names(slot, d, r) == devices[slot] = d /\ ResName[d][r] # NULL

\* Devices that processes have open are there to stay.
OpenInv ==
  /\ \A f \in files : Kept(f.dev)
  /\ \A p \in Procs : calls[p].at = "claimed" => calls[p].node # NULL
  /\ \A p \in Procs :
       (calls[p].at = "asked" /\ \E f \in files : f.pid = p /\ f.dev = calls[p].dev) =>
         Names(calls[p].slot, calls[p].dev, calls[p].res)

\* So are devices that they claim, and tokens and node numbers are about them.
LinksInv ==
  /\ \A c \in claims : Kept(c.dev)
  /\ \A f \in files : f.dev = f.claim.dev
  /\ \A o \in Objects : InUse(o) =>
       Names(objects[o].slot, objects[o].claim.dev, objects[o].claim.res)
  /\ \A p \in Procs : Holding(p) =>
       /\ Names(calls[p].slot, calls[p].claim.dev, calls[p].claim.res)
       /\ calls[p].at = "claimed" => calls[p].node = minor[calls[p].claim.dev]

OwnershipInv == ClientsTypeOK /\ ProcessInv /\ NodesInv

ClientsInv == OwnershipInv /\ OpenInv /\ LinksInv

-----------------------------------------------------------------------------
(* Steps *)

processVars == <<running, ending, claims, files, callVars>>
tableVars == <<registryVars, minor>>

\* Each step is one of a kernel module, of a driver or of a process; the first two leave
\* the processes alone, and the last one the table.
LEMMA StepKinds ==
  ASSUME [ClientsNext]_clientsVars
  PROVE  \/ \E m \in KernelModules : KernelModuleStep(m)
         \/ DriverStep
         \/ \/ ProcessStep
            \/ \E o \in Objects :
                 \/ \E id \in Ids : ClaimFor(o, id)
                 \/ Attach(o) \/ AttachFails(o) \/ Detach(o) \/ ReleaseClaim(o) \/ ReleaseFails(o)
            \/ \E p \in Procs : \/ \E id, kind : Ask(p, id, kind)
                                \/ Answer(p)
         \/ UNCHANGED clientsVars
<1>1. ASSUME NEW o \in Objects, MemRegion(o) \/ EventSrc(o)
      PROVE  \/ \E id \in Ids : ClaimFor(o, id)
             \/ Attach(o) \/ AttachFails(o) \/ Detach(o) \/ ReleaseClaim(o) \/ ReleaseFails(o)
  BY <1>1 DEF MemRegion, EventSrc, MemregionClaim, EventsrcClaim, MemregionMap, EventsrcOpen
<1> QED
  BY <1>1 DEF ClientsNext

\* The table of claims: what its steps do to processes and claims.
LEMMA TableSteps ==
  /\ \A p : Table!Start(p) => /\ p \notin running \cup ending
                              /\ running' = running \cup {p} /\ UNCHANGED <<ending, claims>>
  /\ \A p : Table!BeginEnd(p) => /\ p \in running
                                 /\ running' = running \ {p} /\ ending' = ending \cup {p}
                                 /\ UNCHANGED claims
  /\ \A p : Table!End(p) => /\ p \in ending /\ \A c \in claims : c.pid # p
                            /\ ending' = ending \ {p} /\ UNCHANGED <<running, claims>>
  /\ \A c : Table!Grant(c) =>
       /\ c.pid \in running /\ c.dev \in Managed /\ c \notin claims
       /\ Shared[c.dev][c.res] \/ c.hostile \/ \A d \in claims : ~Table!Alike(c, d)
       /\ claims' = claims \cup {c} /\ UNCHANGED <<running, ending>>
  /\ \A c : Table!GiveUp(c) => /\ c \in claims /\ c.pid \in running \cup ending
                               /\ claims' = claims \ {c} /\ UNCHANGED <<running, ending>>
BY DEF Table!Start, Table!BeginEnd, Table!End, Table!Grant, Table!GiveUp

\* What an identifier resolves to is a named resource of a device in the table.
LEMMA LookupNames ==
  ASSUME RegistryTypeOK, NEW id, NEW kind, NEW t \in Lookup(id, kind)
  PROVE  /\ t[1] \in Slots /\ t[2] \in Resources /\ devices[t[1]] \in Devs
         /\ Names(t[1], devices[t[1]], t[2])
<1>1. /\ t \in Slots \X Resources
      /\ t[1] \in DeviceSlotMatching(id, kind, 0) /\ t[2][1] = kind
      /\ t[2][2] \in ResourceSlot(devices[t[1]], kind, id.resource)
  BY DEF Lookup
<1>2. t[1] \in Slots /\ t[2] \in Resources
  BY <1>1
<1>3. devices[t[1]] # NULL
  BY <1>1 DEF DeviceSlotMatching, First
<1>4. t[2] = <<kind, t[2][2]>> /\ kind \in {"mem", "event"}
  BY <1>1, <1>2, ResourcePairs
<1>5. ResName[devices[t[1]]][t[2]] # NULL
  <2>1. CASE kind = "mem"
    BY <1>1, <1>4, <2>1 DEF ResourceSlot, MemregionSlot, First
  <2>2. CASE kind = "event"
    BY <1>1, <1>4, <2>2 DEF ResourceSlot, EventsrcSlot, First
  <2> QED
    BY <1>4, <2>1, <2>2
<1> QED
  BY <1>2, <1>3, <1>5 DEF RegistryTypeOK, Names

-----------------------------------------------------------------------------
(* Types *)

\* The kinds of calls are told apart by where they are.
LEMMA CallKinds ==
  ASSUME ClientsTypeOK, NEW p \in Procs
  PROVE  /\ Holding(p) => calls[p] \in ClaimCall
         /\ calls[p].at = "asked" => calls[p] \in Question
         /\ calls[p] = NoCall => ~Holding(p) /\ calls[p].at # "asked"
<1>1. calls[p] \in ClaimCall \cup Question \cup {NoCall}
  BY DEF ClientsTypeOK
<1>2. /\ \A x \in ClaimCall : x.at \in {"claimed", "undo", "closed"}
      /\ \A x \in Question : x.at = "asked"
      /\ NoCall.at = "idle"
  BY DEF ClaimCall, Question, NoCall
<1> QED
  BY <1>1, <1>2 DEF Holding

LEMMA ModuleTypes ==
  ASSUME ModulesTypeOK, NEW m \in KernelModules, KernelModuleStep(m)
  PROVE  ModulesTypeOK'
<1>1. /\ DOMAIN Rungs(m) = 1 .. Len(Rungs(m)) /\ Len(Rungs(m)) \in Nat
      /\ \A i \in DOMAIN Rungs(m) : Rungs(m)[i] \in Labels \ {"none"}
  <2>1. /\ \A i \in 1 .. 5 : ManagerRungs[i] # "none"
        /\ \A i \in 1 .. 4 : JanitorRungs[i] # "none"
    <3>1. /\ ManagerRungs[1] = "manager" /\ ManagerRungs[2] = "chrdev"
          /\ ManagerRungs[3] = "cdev" /\ ManagerRungs[4] = "class"
          /\ ManagerRungs[5] = "device"
      BY DEF ManagerRungs
    <3>2. /\ JanitorRungs[1] = "chrdev" /\ JanitorRungs[2] = "cdev"
          /\ JanitorRungs[3] = "class" /\ JanitorRungs[4] = "device"
      BY DEF JanitorRungs
    <3>3. /\ \A i \in 1 .. 5 : i = 1 \/ i = 2 \/ i = 3 \/ i = 4 \/ i = 5
          /\ \A i \in 1 .. 4 : i = 1 \/ i = 2 \/ i = 3 \/ i = 4
      OBVIOUS
    <3> QED
      BY <3>1, <3>2, <3>3
  <2>2. \A i \in 1 .. Len(Rungs(m)) : Rungs(m)[i] # "none"
    BY <2>1, Five DEF Rungs, KernelModules
  <2> QED
    BY <2>2, RungsAreSequences
<1> USE DEF ModulesTypeOK
<1>2. CASE InitBegin(m)
  BY <1>2 DEF InitBegin
<1>3. CASE InitStep(m)
  <2>1. PICK i \in DOMAIN Rungs(m) :
          /\ got' = [got EXCEPT ![m] = @ \cup {Rungs(m)[i]}]
          /\ kmod' = [kmod EXCEPT ![m] = IF i = Len(Rungs(m)) THEN "live" ELSE @]
    BY <1>3 DEF InitStep
  <2>2. got[m] \cup {Rungs(m)[i]} \in SUBSET (Labels \ {"none"})
    BY <1>1
  <2> QED
    BY <1>3, <2>1, <2>2 DEF InitStep
<1>4. CASE InitFails(m)
  <2>1. PICK i \in DOMAIN Rungs(m) : failure' = [failure EXCEPT ![m] = Rungs(m)[i]]
    BY <1>4 DEF InitFails
  <2> QED
    BY <1>1, <1>4, <2>1 DEF InitFails
<1>5. CASE Cleanup(m)
  <2>1. got[m] \ CleanedUp(m, failure[m]) \in SUBSET (Labels \ {"none"})
    OBVIOUS
  <2> QED
    BY <1>5, <2>1 DEF Cleanup
<1>6. CASE ModuleExit(m)
  BY <1>6 DEF ModuleExit, ExitBegin, Labels
<1> QED
  BY <1>2, <1>3, <1>4, <1>5, <1>6 DEF KernelModuleStep, ModuleStep

LEMMA ClientsInitType == ClientsInit => ClientsTypeOK
<1> SUFFICES ASSUME ClientsInit
             PROVE  ClientsTypeOK
  OBVIOUS
<1>1. RegistryTypeOK
  BY RegistryInitType DEF ClientsInit
<1>2. ModulesTypeOK
  BY DEF ClientsInit, ModulesInit, ModulesTypeOK, Labels
<1> QED
  BY <1>1, <1>2 DEF ClientsInit, ClientsTypeOK

LEMMA DriverTypes ==
  ASSUME ClientsTypeOK, DriverStep
  PROVE  ClientsTypeOK'
<1>1. RegistryNext
  BY DEF DriverStep, RegistryNext, Insmod, Rmmod, RmmodDone, Manage, ManageFails, ReleaseDevice
<1>2. RegistryTypeOK'
  BY <1>1, RegistryNextType DEF ClientsTypeOK
<1>3. UNCHANGED <<modulesVars, processVars>>
  BY DEF DriverStep, Insmod, Rmmod, RmmodDone, Manage, ManageFails, ReleaseDevice, processVars, callVars
<1>4. ModulesTypeOK'
  BY <1>3 DEF ClientsTypeOK, ModulesTypeOK, modulesVars
<1>5. minor' \in [Devs -> Minors \cup {NULL}]
  BY DEF DriverStep, Insmod, Rmmod, RmmodDone, Manage, ManageFails, ReleaseDevice, ClientsTypeOK
<1> QED
  BY <1>2, <1>3, <1>4, <1>5 DEF ClientsTypeOK, processVars, callVars

\* The types of what processes change.
ProcessTypeOK ==
  /\ running \subseteq Procs /\ ending \subseteq Procs
  /\ claims \subseteq Claim /\ abandoned \subseteq claims
  /\ files \subseteq UioFile
  /\ objects \in [Objects -> Object \cup {NULL}]
  /\ calls \in [Procs -> ClaimCall \cup Question \cup {NoCall}]

LEMMA OtherTypesKept ==
  ASSUME ClientsTypeOK, ProcessTypeOK', UNCHANGED <<tableVars, modulesVars>>
  PROVE  ClientsTypeOK'
BY DEF ClientsTypeOK, ProcessTypeOK, tableVars, registryVars, modulesVars, RegistryTypeOK,
   ModulesTypeOK

-----------------------------------------------------------------------------
(* What processes do *)

ObjectStep(o) ==
  \/ \E id : ClaimFor(o, id)
  \/ Attach(o) \/ AttachFails(o) \/ Detach(o) \/ ReleaseClaim(o) \/ ReleaseFails(o)

CallStep ==
  \/ ProcessStep
  \/ \E o \in Objects : ObjectStep(o)
  \/ \E p \in Procs : Answer(p) \/ \E id, kind : Ask(p, id, kind)

\* The table is not touched.
LEMMA CallsKeepTable ==
  ASSUME CallStep
  PROVE  UNCHANGED <<tableVars, modulesVars>>
<1>1. ProcessStep => UNCHANGED <<tableVars, modulesVars>>
  BY DEF ProcessStep, Start, BeginEnd, End, CloseAtEnd, Freed, tableVars
<1>2. \A o \in Objects : ObjectStep(o) => UNCHANGED <<tableVars, modulesVars>>
  BY DEF ObjectStep, ClaimFor, Attach, AttachFails, Detach, ReleaseClaim, ReleaseFails, tableVars
<1>3. \A p \in Procs : (Answer(p) \/ \E id, kind : Ask(p, id, kind)) => UNCHANGED <<tableVars, modulesVars>>
  BY DEF Ask, Answer, tableVars
<1> QED
  BY <1>1, <1>2, <1>3 DEF CallStep

\* A claim that is granted is a new one.
LEMMA GrantEffect ==
  ASSUME OwnershipInv, NEW o \in Objects, NEW id, ClaimFor(o, id)
  PROVE  \E t \in Lookup(id, KindOf[o]), c \in Claim :
           /\ CanCall(ProcOf[o])
           /\ c.pid = ProcOf[o] /\ c.dev = devices[t[1]] /\ c.res = t[2]
           /\ MayBeClaimed(c.dev) /\ c.dev \in Managed /\ c \notin claims
           /\ Shared[c.dev][c.res] \/ c.hostile \/ \A d \in claims : ~Table!Alike(c, d)
           /\ claims' = claims \cup {c}
           /\ calls' = [calls EXCEPT ![ProcOf[o]] =
                [at |-> "claimed", obj |-> o, claim |-> c, slot |-> t[1], node |-> NodeOf(t[1])]]
           /\ UNCHANGED <<running, ending, files, objects, abandoned>>
<1>1. PICK t \in Lookup(id, KindOf[o]), n \in 1 .. MaxClaims, hostile \in Options[o] :
        LET c == [pid |-> ProcOf[o], dev |-> devices[t[1]], res |-> t[2], hostile |-> hostile, no |-> n]
        IN  /\ MayBeClaimed(c.dev)
            /\ calls' = [calls EXCEPT ![ProcOf[o]] =
                 [at |-> "claimed", obj |-> o, claim |-> c, slot |-> t[1], node |-> NodeOf(t[1])]]
            /\ Table!Grant(c)
  BY DEF ClaimFor
<1> DEFINE c == [pid |-> ProcOf[o], dev |-> devices[t[1]], res |-> t[2], hostile |-> hostile, no |-> n]
<1>2. t[2] \in Resources /\ devices[t[1]] \in Devs
  BY LookupNames DEF OwnershipInv, ClientsTypeOK
<1>3. c \in Claim
  BY <1>2, ClientsAssumption DEF Claim
<1>4. /\ c.pid = ProcOf[o] /\ c.dev = devices[t[1]] /\ c.res = t[2]
  OBVIOUS
<1>5. CanCall(ProcOf[o]) /\ UNCHANGED <<files, objects, abandoned>>
  BY DEF ClaimFor
<1>6. /\ Table!Grant(c) /\ MayBeClaimed(c.dev)
      /\ calls' = [calls EXCEPT ![ProcOf[o]] =
                 [at |-> "claimed", obj |-> o, claim |-> c, slot |-> t[1], node |-> NodeOf(t[1])]]
  BY <1>1
<1> HIDE DEF c
<1> QED
  BY <1>3, <1>4, <1>5, <1>6, TableSteps

\* What an object stands for, and the call about it.
LEMMA AttachEffect ==
  ASSUME OwnershipInv, NEW o \in Objects, Attach(o)
  PROVE  /\ ProcOf[o] \in Procs /\ calls[ProcOf[o]] \in ClaimCall /\ Holding(ProcOf[o])
         /\ calls[ProcOf[o]].at = "claimed"
         /\ \E d \in Devs :
              /\ minor[d] = calls[ProcOf[o]].node
              /\ modstate[DriverOf[d]] = "live"
              /\ files' = files \cup {[pid |-> ProcOf[o], dev |-> d, claim |-> calls[ProcOf[o]].claim]}
         /\ objects' = [objects EXCEPT ![o] =
              [claim |-> calls[ProcOf[o]].claim, slot |-> calls[ProcOf[o]].slot]]
         /\ abandoned' = abandoned \cup Overwritten(o)
         /\ calls' = [calls EXCEPT ![ProcOf[o]] = NoCall]
         /\ UNCHANGED <<running, ending, claims>>
BY CallKinds, ClientsAssumption DEF Attach, Abandon, Holding, OwnershipInv

LEMMA ReleaseEffect ==
  ASSUME OwnershipInv, NEW o \in Objects, ReleaseClaim(o)
  PROVE  /\ ProcOf[o] \in Procs /\ calls[ProcOf[o]] \in ClaimCall /\ Holding(ProcOf[o])
         /\ claims' = claims \ {calls[ProcOf[o]].claim}
         /\ calls' = [calls EXCEPT ![ProcOf[o]] = NoCall]
         /\ UNCHANGED <<running, ending, files, objects, abandoned>>
BY TableSteps, CallKinds, ClientsAssumption DEF ReleaseClaim, Holding, OwnershipInv
-----------------------------------------------------------------------------
(* Claims and their owners *)

ProcessOK == ProcessTypeOK /\ ProcessInv

LEMMA StartKeeps ==
  ASSUME OwnershipInv, NEW p \in Procs, Start(p)
  PROVE  ProcessOK'
<1>1. /\ p \notin running \cup ending /\ running' = running \cup {p}
      /\ UNCHANGED <<ending, claims, files, objects, calls, abandoned>>
  BY TableSteps DEF Start, callVars
<1>2. ProcessTypeOK'
  BY <1>1 DEF OwnershipInv, ClientsTypeOK, ProcessTypeOK
<1>3. ProcessesInv' /\ ObjectsInv' /\ CallsInv' /\ ExclusiveInv'
  BY <1>1 DEF OwnershipInv, ProcessInv, ProcessesInv, ObjectsInv, CallsInv, ExclusiveInv, InUse, Holding
<1>4. OwnersInv'
  BY <1>1 DEF OwnershipInv, ProcessInv, ProcessesInv, OwnersInv, InUse, Holding
<1> QED
  BY <1>2, <1>3, <1>4 DEF ProcessOK, ProcessInv

LEMMA BeginEndKeeps ==
  ASSUME OwnershipInv, NEW p \in Procs, BeginEnd(p)
  PROVE  ProcessOK'
<1>1. /\ p \in running /\ running' = running \ {p} /\ ending' = ending \cup {p}
      /\ objects' = [o \in Objects |-> IF ProcOf[o] = p THEN NULL ELSE objects[o]]
      /\ calls' = [calls EXCEPT ![p] = NoCall]
      /\ abandoned' = {c \in abandoned : c.pid # p}
      /\ UNCHANGED <<claims, files>>
  BY TableSteps DEF BeginEnd
<1>2. ProcessTypeOK'
  BY <1>1 DEF OwnershipInv, ClientsTypeOK, ProcessTypeOK
<1>3. /\ \A o \in Objects : InUse(o)' => InUse(o) /\ objects'[o] = objects[o] /\ ProcOf[o] # p
      /\ \A o \in Objects : InUse(o) /\ ProcOf[o] # p => InUse(o)' /\ objects'[o] = objects[o]
  BY <1>1 DEF InUse
<1>4. \A q \in Procs : /\ Holding(q)' => q # p
                       /\ q # p => calls'[q] = calls[q] /\ Holding(q)' = Holding(q)
  BY <1>1 DEF Holding, NoCall, OwnershipInv, ClientsTypeOK
<1>5. ProcessesInv' /\ ExclusiveInv'
  BY <1>1 DEF OwnershipInv, ProcessInv, ProcessesInv, ExclusiveInv
<1>6. ObjectsInv'
  BY <1>1, <1>3 DEF OwnershipInv, ProcessInv, ObjectsInv
<1>7. CallsInv'
  BY <1>1, <1>3, <1>4 DEF OwnershipInv, ProcessInv, CallsInv
<1>8. OwnersInv'
  <2> SUFFICES ASSUME NEW c \in claims, c.pid \in running', c \notin abandoned'
               PROVE  \/ \E o \in Objects : InUse(o)' /\ objects'[o].claim = c
                      \/ Holding(c.pid)' /\ calls'[c.pid].claim = c
    BY <1>1 DEF OwnersInv
  <2>1. c.pid \in running /\ c.pid # p /\ c \notin abandoned /\ c.pid \in Procs
    BY <1>1 DEF OwnershipInv, ClientsTypeOK
  <2>2. CASE \E o \in Objects : InUse(o) /\ objects[o].claim = c
    BY <1>3, <2>1, <2>2 DEF OwnershipInv, ProcessInv, ObjectsInv
  <2>3. CASE Holding(c.pid) /\ calls[c.pid].claim = c
    BY <1>4, <2>1, <2>3
  <2> QED
    BY <2>1, <2>2, <2>3 DEF OwnershipInv, ProcessInv, OwnersInv
<1> QED
  BY <1>2, <1>5, <1>6, <1>7, <1>8 DEF ProcessOK, ProcessInv

LEMMA EndKeeps ==
  ASSUME OwnershipInv, NEW p \in Procs, End(p)
  PROVE  ProcessOK'
<1>1. /\ p \in ending /\ ending' = ending \ {p}
      /\ \A c \in claims : c.pid # p
      /\ \A f \in files : f.pid # p
      /\ UNCHANGED <<running, claims, files, objects, calls, abandoned>>
  BY TableSteps DEF End, callVars
<1>2. ProcessTypeOK'
  BY <1>1 DEF OwnershipInv, ClientsTypeOK, ProcessTypeOK
<1>3. ProcessesInv' /\ ObjectsInv' /\ CallsInv' /\ OwnersInv' /\ ExclusiveInv'
  BY <1>1 DEF OwnershipInv, ProcessInv, ProcessesInv, ObjectsInv, CallsInv, OwnersInv, ExclusiveInv, InUse, Holding
<1> QED
  BY <1>2, <1>3 DEF ProcessOK, ProcessInv

LEMMA CloseAtEndKeeps ==
  ASSUME OwnershipInv, NEW f \in files, CloseAtEnd(f)
  PROVE  ProcessOK'
<1>1. /\ f.pid \in ending /\ files' = files \ {f}
      /\ UNCHANGED <<running, ending, claims, objects, calls, abandoned>>
  BY DEF CloseAtEnd, callVars
<1>2. ProcessTypeOK'
  BY <1>1 DEF OwnershipInv, ClientsTypeOK, ProcessTypeOK
<1>3. ProcessesInv' /\ CallsInv' /\ OwnersInv' /\ ExclusiveInv'
  BY <1>1 DEF OwnershipInv, ProcessInv, ProcessesInv, CallsInv, OwnersInv, ExclusiveInv, InUse, Holding
<1>4. ObjectsInv'
  BY <1>1 DEF OwnershipInv, ProcessInv, ProcessesInv, ObjectsInv, InUse
<1> QED
  BY <1>2, <1>3, <1>4 DEF ProcessOK, ProcessInv

LEMMA FreedKeeps ==
  ASSUME OwnershipInv, NEW c \in claims, Freed(c)
  PROVE  ProcessOK'
<1>1. /\ c.pid \in ending /\ claims' = claims \ {c}
      /\ UNCHANGED <<running, ending, files, objects, calls, abandoned>>
  BY TableSteps DEF Freed, callVars
<1>2. c.pid \notin running
  BY <1>1 DEF OwnershipInv, ProcessInv, ProcessesInv
<1>3. ProcessTypeOK'
  BY <1>1, <1>2 DEF OwnershipInv, ClientsTypeOK, ProcessTypeOK, ProcessInv, ProcessesInv
<1>4. ProcessesInv' /\ OwnersInv' /\ ExclusiveInv'
  BY <1>1, <1>2 DEF OwnershipInv, ProcessInv, ProcessesInv, OwnersInv, ExclusiveInv, InUse, Holding
<1>5. ObjectsInv' /\ CallsInv'
  BY <1>1, <1>2 DEF OwnershipInv, ProcessInv, ObjectsInv, CallsInv, InUse, Holding
<1> QED
  BY <1>3, <1>4, <1>5 DEF ProcessOK, ProcessInv

LEMMA ClaimForKeeps ==
  ASSUME OwnershipInv, NEW o \in Objects, NEW id, ClaimFor(o, id)
  PROVE  ProcessOK'
<1> DEFINE p == ProcOf[o]
<1>1. PICK t \in Lookup(id, KindOf[o]), c \in Claim :
         /\ CanCall(p)
         /\ c.pid = p /\ c.dev = devices[t[1]] /\ c.res = t[2]
         /\ MayBeClaimed(c.dev) /\ c.dev \in Managed /\ c \notin claims
         /\ Shared[c.dev][c.res] \/ c.hostile \/ \A d \in claims : ~Table!Alike(c, d)
         /\ claims' = claims \cup {c}
         /\ calls' = [calls EXCEPT ![p] =
              [at |-> "claimed", obj |-> o, claim |-> c, slot |-> t[1], node |-> NodeOf(t[1])]]
         /\ UNCHANGED <<running, ending, files, objects, abandoned>>
  BY GrantEffect
<1>2. p \in Procs /\ t[1] \in Slots /\ devices[t[1]] \in Devs
  BY ClientsAssumption, LookupNames DEF OwnershipInv, ClientsTypeOK
<1>3. NodeOf(t[1]) \in Minors \cup {NULL}
  BY <1>2 DEF NodeOf, OwnershipInv, ClientsTypeOK
<1> HIDE DEF p
<1>4. /\ p \in running
      /\ calls'[p].at = "claimed" /\ calls'[p].claim = c /\ Holding(p)' /\ ~Holding(p)
      /\ \A q \in Procs \ {p} : calls'[q] = calls[q] /\ Holding(q)' = Holding(q)
  BY <1>1, <1>2 DEF CanCall, Holding, NoCall, OwnershipInv, ClientsTypeOK
<1>5. ProcessTypeOK'
  BY <1>1, <1>2, <1>3 DEF ProcessTypeOK, OwnershipInv, ClientsTypeOK, ClaimCall
<1>6. ProcessesInv'
  BY <1>1, <1>4 DEF OwnershipInv, ProcessInv, ProcessesInv
<1>7. ObjectsInv'
  BY <1>1 DEF OwnershipInv, ProcessInv, ObjectsInv, InUse
<1>8. CallsInv'
  <2>1. \A x \in Objects : InUse(x) => objects[x].claim # c
    BY <1>1 DEF OwnershipInv, ProcessInv, ObjectsInv
  <2>2. \A f \in files : f.claim # c
    BY <1>1, <1>4 DEF OwnershipInv, ProcessInv, ProcessesInv
  <2>3. c \notin abandoned
    BY <1>1 DEF OwnershipInv, ClientsTypeOK
  <2> QED
    BY <1>1, <1>4, <2>1, <2>2, <2>3 DEF OwnershipInv, ProcessInv, CallsInv, InUse
<1>9. OwnersInv'
  BY <1>1, <1>2, <1>4 DEF OwnershipInv, ClientsTypeOK, Claim, ProcessInv, OwnersInv, InUse
<1>10. ExclusiveInv'
  BY <1>1 DEF OwnershipInv, ProcessInv, ExclusiveInv, Table!Alike
<1> QED
  BY <1>5, <1>6, <1>7, <1>8, <1>9, <1>10 DEF ProcessOK, ProcessInv
LEMMA AttachKeeps ==
  ASSUME OwnershipInv, NEW o \in Objects, Attach(o)
  PROVE  ProcessOK'
<1> DEFINE p == ProcOf[o]
           c == calls[p].claim
           old == Overwritten(o)
<1>1. /\ p \in Procs /\ calls[p] \in ClaimCall /\ Holding(p)
      /\ objects' = [objects EXCEPT ![o] = [claim |-> c, slot |-> calls[p].slot]]
      /\ abandoned' = abandoned \cup old
      /\ calls' = [calls EXCEPT ![p] = NoCall]
      /\ UNCHANGED <<running, ending, claims>>
  BY AttachEffect
<1>2. PICK d \in Devs : files' = files \cup {[pid |-> p, dev |-> d, claim |-> c]}
  BY AttachEffect
<1> DEFINE f == [pid |-> p, dev |-> d, claim |-> c]
<1>3. f.pid = p /\ f.claim = c /\ files' = files \cup {f}
  BY <1>2
<1>4. c \in Claim /\ calls[p].slot \in Slots
  BY <1>1 DEF ClaimCall
<1>5. f \in UioFile
  BY <1>1, <1>4 DEF UioFile
<1> HIDE DEF f
<1>6. /\ p \in running /\ c.pid = p /\ c \in claims \ abandoned
      /\ \A x \in Objects : InUse(x) => objects[x].claim # c
      /\ \A g \in files : g.claim # c
  BY <1>1 DEF OwnershipInv, ProcessInv, CallsInv
<1>7. \A b \in old : InUse(o) /\ b = objects[o].claim /\ b \in claims \ abandoned /\ b.pid = p /\ b # c
  BY <1>6 DEF Overwritten, InUse, OwnershipInv, ProcessInv, ObjectsInv
<1>8. InUse(o) => old = {objects[o].claim}
  BY DEF Overwritten, InUse
<1> HIDE DEF p, c, old
<1>9. [claim |-> c, slot |-> calls[p].slot] \in Object
  BY <1>4 DEF Object
<1>10. /\ InUse(o)' /\ objects'[o].claim = c
       /\ \A x \in Objects \ {o} : objects'[x] = objects[x] /\ InUse(x)' = InUse(x)
  BY <1>1, <1>9, ClientsAssumption DEF InUse, OwnershipInv, ClientsTypeOK
<1>11. /\ ~Holding(p)'
       /\ \A q \in Procs \ {p} : calls'[q] = calls[q] /\ Holding(q)' = Holding(q)
  BY <1>1 DEF Holding, NoCall, OwnershipInv, ClientsTypeOK
<1>12. ProcessTypeOK'
  <2>1. objects' \in [Objects -> Object \cup {NULL}]
    BY <1>1, <1>9 DEF OwnershipInv, ClientsTypeOK
  <2>2. files' \subseteq UioFile
    BY <1>3, <1>5 DEF OwnershipInv, ClientsTypeOK
  <2>3. abandoned' \subseteq claims'
    BY <1>1, <1>7 DEF OwnershipInv, ClientsTypeOK
  <2> QED
    BY <1>1, <2>1, <2>2, <2>3 DEF ProcessTypeOK, OwnershipInv, ClientsTypeOK
<1>13. ProcessesInv'
  BY <1>1, <1>3, <1>6, <1>7 DEF OwnershipInv, ProcessInv, ProcessesInv
<1>14. ObjectsInv'
  <2>1. ASSUME NEW x \in Objects, InUse(x)'
        PROVE  /\ ProcOf[x] \in running' /\ objects'[x].claim.pid = ProcOf[x]
               /\ objects'[x].claim \in claims' \ abandoned'
               /\ \E g \in files' : g.claim = objects'[x].claim
    <3>1. CASE x = o
      BY <1>1, <1>3, <1>6, <1>7, <1>10, <3>1 DEF p
    <3>2. CASE x # o
      <4>1. InUse(x) /\ objects'[x] = objects[x]
        BY <1>10, <2>1, <3>2
      <4>2. objects[x].claim \notin old
        BY <1>7, <3>2, <4>1 DEF OwnershipInv, ProcessInv, ObjectsInv
      <4> QED
        BY <1>1, <1>3, <4>1, <4>2 DEF OwnershipInv, ProcessInv, ObjectsInv
    <3> QED
      BY <3>1, <3>2
  <2>2. ASSUME NEW x \in Objects, NEW y \in Objects, InUse(x)', InUse(y)',
               objects'[x].claim = objects'[y].claim
        PROVE  x = y
    BY <1>6, <1>10, <2>2 DEF OwnershipInv, ProcessInv, ObjectsInv
  <2> QED
    BY <2>1, <2>2 DEF ObjectsInv
<1>15. CallsInv'
  <2> SUFFICES ASSUME NEW q \in Procs, Holding(q)'
               PROVE  /\ q \in running' /\ calls'[q].claim.pid = q
                      /\ calls'[q].claim \in claims' \ abandoned'
                      /\ \A x \in Objects : InUse(x)' => objects'[x].claim # calls'[q].claim
                      /\ \A g \in files' : g.claim # calls'[q].claim
    BY DEF CallsInv
  <2>1. q # p /\ Holding(q) /\ calls'[q] = calls[q]
    BY <1>11
  <2>2. /\ q \in running /\ calls[q].claim.pid = q
        /\ calls[q].claim \in claims \ abandoned
        /\ \A x \in Objects : InUse(x) => objects[x].claim # calls[q].claim
        /\ \A g \in files : g.claim # calls[q].claim
    BY <2>1 DEF OwnershipInv, ProcessInv, CallsInv
  <2>3. calls[q].claim # c /\ calls[q].claim \notin old
    BY <1>6, <1>7, <2>1, <2>2
  <2> QED
    BY <1>1, <1>3, <1>10, <2>1, <2>2, <2>3
<1>16. OwnersInv'
  <2> SUFFICES ASSUME NEW b \in claims, b.pid \in running, b \notin abandoned, b \notin old
               PROVE  \/ \E x \in Objects : InUse(x)' /\ objects'[x].claim = b
                      \/ Holding(b.pid)' /\ calls'[b.pid].claim = b
    BY <1>1 DEF OwnersInv
  <2>1. b.pid \in Procs
    BY DEF OwnershipInv, ClientsTypeOK
  <2>2. CASE \E x \in Objects : InUse(x) /\ objects[x].claim = b
    BY <1>8, <1>10, <2>2
  <2>3. CASE Holding(b.pid) /\ calls[b.pid].claim = b
    BY <1>10, <1>11, <2>1, <2>3 DEF c
  <2> QED
    BY <2>2, <2>3 DEF OwnershipInv, ProcessInv, OwnersInv
<1>17. ExclusiveInv'
  BY <1>1 DEF OwnershipInv, ProcessInv, ExclusiveInv
<1> QED
  BY <1>12, <1>13, <1>14, <1>15, <1>16, <1>17 DEF ProcessOK, ProcessInv

LEMMA AttachFailsKeeps ==
  ASSUME OwnershipInv, NEW o \in Objects, AttachFails(o)
  PROVE  ProcessOK'
<1> DEFINE p == ProcOf[o]
<1>1. /\ p \in Procs /\ calls[p].at = "claimed"
      /\ calls' = [calls EXCEPT ![p].at = "undo"]
      /\ UNCHANGED <<running, ending, claims, files, objects, abandoned>>
  BY ClientsAssumption DEF AttachFails
<1>2. calls[p] \in ClaimCall /\ Holding(p)
  BY <1>1, CallKinds DEF Holding, OwnershipInv
<1> HIDE DEF p
<1>3. /\ calls'[p] \in ClaimCall /\ calls'[p].at = "undo"
      /\ calls'[p].claim = calls[p].claim /\ calls'[p].slot = calls[p].slot
      /\ \A q \in Procs \ {p} : calls'[q] = calls[q]
  BY <1>1, <1>2 DEF ClaimCall, OwnershipInv, ClientsTypeOK
<1>4. \A q \in Procs : Holding(q)' = Holding(q) /\ (Holding(q) => calls'[q].claim = calls[q].claim)
  BY <1>1, <1>3 DEF Holding
<1>5. ProcessTypeOK'
  <2>1. calls' \in [Procs -> ClaimCall \cup Question \cup {NoCall}]
    BY <1>1, <1>2, <1>3 DEF OwnershipInv, ClientsTypeOK
  <2> QED
    BY <1>1, <2>1 DEF ProcessTypeOK, OwnershipInv, ClientsTypeOK
<1>6. ProcessesInv' /\ ObjectsInv' /\ CallsInv' /\ ExclusiveInv'
  BY <1>1, <1>4 DEF OwnershipInv, ProcessInv, ProcessesInv, ObjectsInv, CallsInv, ExclusiveInv, InUse
<1>7. OwnersInv'
  BY <1>1, <1>4 DEF OwnershipInv, ClientsTypeOK, ProcessInv, ProcessesInv, OwnersInv, InUse
<1> QED
  BY <1>5, <1>6, <1>7 DEF ProcessOK, ProcessInv

LEMMA DetachKeeps ==
  ASSUME OwnershipInv, NEW o \in Objects, Detach(o)
  PROVE  ProcessOK'
<1> DEFINE p == ProcOf[o]
           c == objects[o].claim
<1>1. /\ p \in Procs /\ CanCall(p) /\ InUse(o)
      /\ calls' = [calls EXCEPT ![p] =
           [at |-> "closed", obj |-> o, claim |-> c, slot |-> objects[o].slot, node |-> NULL]]
      /\ objects' = [objects EXCEPT ![o] = NULL]
      /\ files' = {f \in files : f.claim # c}
      /\ UNCHANGED <<running, ending, claims, abandoned>>
  BY ClientsAssumption DEF Detach, InUse
<1>2. /\ p \in running /\ c.pid = p /\ c \in claims \ abandoned
      /\ \A x \in Objects : InUse(x) /\ objects[x].claim = c => x = o
  BY <1>1 DEF OwnershipInv, ProcessInv, ObjectsInv
<1>3. c \in Claim /\ objects[o].slot \in Slots
  BY <1>1 DEF InUse, OwnershipInv, ClientsTypeOK, Object
<1> HIDE DEF p, c
<1>4. /\ Holding(p)' /\ calls'[p].claim = c /\ ~Holding(p)
      /\ \A q \in Procs \ {p} : calls'[q] = calls[q] /\ Holding(q)' = Holding(q)
  BY <1>1 DEF CanCall, Holding, NoCall, OwnershipInv, ClientsTypeOK
<1>5. /\ ~InUse(o)'
      /\ \A x \in Objects \ {o} : objects'[x] = objects[x] /\ InUse(x)' = InUse(x)
  BY <1>1 DEF InUse, OwnershipInv, ClientsTypeOK
<1>6. ProcessTypeOK'
  <2>1. [at |-> "closed", obj |-> o, claim |-> c, slot |-> objects[o].slot, node |-> NULL] \in ClaimCall
    BY <1>3 DEF ClaimCall
  <2> QED
    BY <1>1, <2>1 DEF ProcessTypeOK, OwnershipInv, ClientsTypeOK
<1>7. ProcessesInv' /\ ExclusiveInv'
  BY <1>1 DEF OwnershipInv, ProcessInv, ProcessesInv, ExclusiveInv
<1>8. ObjectsInv'
  <2>1. ASSUME NEW x \in Objects, InUse(x)'
        PROVE  /\ ProcOf[x] \in running' /\ objects'[x].claim.pid = ProcOf[x]
               /\ objects'[x].claim \in claims' \ abandoned'
               /\ \E f \in files' : f.claim = objects'[x].claim
    <3>1. x # o /\ InUse(x) /\ objects'[x] = objects[x] /\ objects[x].claim # c
      BY <1>2, <1>5, <2>1
    <3> QED
      BY <1>1, <3>1 DEF OwnershipInv, ProcessInv, ObjectsInv
  <2>2. \A x, y \in Objects : InUse(x)' /\ InUse(y)' /\ objects'[x].claim = objects'[y].claim => x = y
    BY <1>5 DEF OwnershipInv, ProcessInv, ObjectsInv
  <2> QED
    BY <2>1, <2>2 DEF ObjectsInv
<1>9. CallsInv'
  <2> SUFFICES ASSUME NEW q \in Procs, Holding(q)'
               PROVE  /\ q \in running' /\ calls'[q].claim.pid = q
                      /\ calls'[q].claim \in claims' \ abandoned'
                      /\ \A x \in Objects : InUse(x)' => objects'[x].claim # calls'[q].claim
                      /\ \A f \in files' : f.claim # calls'[q].claim
    BY DEF CallsInv
  <2>1. CASE q = p
    BY <1>1, <1>2, <1>4, <1>5, <2>1
  <2>2. CASE q # p
    BY <1>1, <1>4, <1>5, <2>2 DEF OwnershipInv, ProcessInv, CallsInv
  <2> QED
    BY <2>1, <2>2
<1>10. OwnersInv'
  <2> SUFFICES ASSUME NEW b \in claims, b.pid \in running, b \notin abandoned
               PROVE  \/ \E x \in Objects : InUse(x)' /\ objects'[x].claim = b
                      \/ Holding(b.pid)' /\ calls'[b.pid].claim = b
    BY <1>1 DEF OwnersInv
  <2>1. b.pid \in Procs
    BY DEF OwnershipInv, ClientsTypeOK
  <2>2. CASE \E x \in Objects : InUse(x) /\ objects[x].claim = b
    BY <1>2, <1>4, <1>5, <2>2 DEF c
  <2>3. CASE Holding(b.pid) /\ calls[b.pid].claim = b
    BY <1>4, <2>1, <2>3
  <2> QED
    BY <2>2, <2>3 DEF OwnershipInv, ProcessInv, OwnersInv
<1> QED
  BY <1>6, <1>7, <1>8, <1>9, <1>10 DEF ProcessOK, ProcessInv
LEMMA ReleaseClaimKeeps ==
  ASSUME OwnershipInv, NEW o \in Objects, ReleaseClaim(o)
  PROVE  ProcessOK'
<1> DEFINE p == ProcOf[o]
           c == calls[p].claim
<1>1. /\ p \in Procs /\ calls[p] \in ClaimCall /\ Holding(p)
      /\ claims' = claims \ {c}
      /\ calls' = [calls EXCEPT ![p] = NoCall]
      /\ UNCHANGED <<running, ending, files, objects, abandoned>>
  BY ReleaseEffect
<1>2. /\ p \in running /\ c.pid = p /\ c \in claims \ abandoned
      /\ \A x \in Objects : InUse(x) => objects[x].claim # c
      /\ \A f \in files : f.claim # c
  BY <1>1 DEF OwnershipInv, ProcessInv, CallsInv
<1>3. \A q \in Procs \ {p} : Holding(q) => calls[q].claim # c
  BY <1>2 DEF OwnershipInv, ProcessInv, CallsInv
<1> HIDE DEF p
<1>4. /\ ~Holding(p)'
      /\ \A q \in Procs \ {p} : calls'[q] = calls[q] /\ Holding(q)' = Holding(q)
  BY <1>1 DEF Holding, NoCall, OwnershipInv, ClientsTypeOK
<1>5. \A b \in claims : b.pid = p /\ Holding(p) /\ calls[p].claim = b => b = c
  OBVIOUS
<1> HIDE DEF c
<1>6. ProcessTypeOK'
  BY <1>1, <1>2 DEF ProcessTypeOK, OwnershipInv, ClientsTypeOK
<1>7. ProcessesInv' /\ ExclusiveInv'
  BY <1>1, <1>2 DEF OwnershipInv, ProcessInv, ProcessesInv, ExclusiveInv
<1>8. ObjectsInv'
  BY <1>1, <1>2 DEF OwnershipInv, ProcessInv, ObjectsInv, InUse
<1>9. CallsInv'
  <2> SUFFICES ASSUME NEW q \in Procs, Holding(q)'
               PROVE  /\ q \in running' /\ calls'[q].claim.pid = q
                      /\ calls'[q].claim \in claims' \ abandoned'
                      /\ \A x \in Objects : InUse(x)' => objects'[x].claim # calls'[q].claim
                      /\ \A f \in files' : f.claim # calls'[q].claim
    BY DEF CallsInv
  <2>1. q # p /\ Holding(q) /\ calls'[q] = calls[q] /\ calls[q].claim # c
    BY <1>3, <1>4
  <2>2. \A x \in Objects : InUse(x)' = InUse(x) /\ objects'[x] = objects[x]
    BY <1>1 DEF InUse
  <2> QED
    BY <1>1, <2>1, <2>2 DEF OwnershipInv, ProcessInv, CallsInv
<1>10. OwnersInv'
  <2> SUFFICES ASSUME NEW b \in claims, b # c, b.pid \in running, b \notin abandoned
               PROVE  \/ \E x \in Objects : InUse(x)' /\ objects'[x].claim = b
                      \/ Holding(b.pid)' /\ calls'[b.pid].claim = b
    BY <1>1 DEF OwnersInv
  <2>1. b.pid \in Procs
    BY DEF OwnershipInv, ClientsTypeOK
  <2>2. CASE \E x \in Objects : InUse(x) /\ objects[x].claim = b
    BY <1>1, <2>2 DEF InUse
  <2>3. CASE Holding(b.pid) /\ calls[b.pid].claim = b
    BY <1>4, <1>5, <2>1, <2>3
  <2> QED
    BY <2>2, <2>3 DEF OwnershipInv, ProcessInv, OwnersInv
<1> QED
  BY <1>6, <1>7, <1>8, <1>9, <1>10 DEF ProcessOK, ProcessInv

LEMMA ReleaseFailsKeeps ==
  ASSUME OwnershipInv, NEW o \in Objects, ReleaseFails(o)
  PROVE  ProcessOK'
<1> DEFINE p == ProcOf[o]
           c == calls[p].claim
<1>1. /\ p \in Procs /\ calls[p].at \in {"undo", "closed"}
      /\ abandoned' = abandoned \cup {c}
      /\ calls' = [calls EXCEPT ![p] = NoCall]
      /\ UNCHANGED <<running, ending, claims, files, objects>>
  BY ClientsAssumption DEF ReleaseFails, Abandon
<1>2. /\ p \in running /\ c.pid = p /\ c \in claims \ abandoned
      /\ \A x \in Objects : InUse(x) => objects[x].claim # c
      /\ \A f \in files : f.claim # c
  BY <1>1 DEF OwnershipInv, ProcessInv, CallsInv, Holding
<1>3. \A q \in Procs \ {p} : Holding(q) => calls[q].claim # c
  BY <1>2 DEF OwnershipInv, ProcessInv, CallsInv
<1>4. \A b \in claims : b.pid = p /\ Holding(p) /\ calls[p].claim = b => b = c
  OBVIOUS
<1> HIDE DEF p, c
<1>5. /\ ~Holding(p)'
      /\ \A q \in Procs \ {p} : calls'[q] = calls[q] /\ Holding(q)' = Holding(q)
  BY <1>1 DEF Holding, NoCall, OwnershipInv, ClientsTypeOK
<1>6. \A x \in Objects : InUse(x)' = InUse(x) /\ objects'[x] = objects[x]
  BY <1>1 DEF InUse
<1>7. ProcessTypeOK'
  BY <1>1, <1>2 DEF ProcessTypeOK, OwnershipInv, ClientsTypeOK
<1>8. ProcessesInv' /\ ExclusiveInv'
  BY <1>1, <1>2 DEF OwnershipInv, ProcessInv, ProcessesInv, ExclusiveInv
<1>9. ObjectsInv'
  BY <1>1, <1>2, <1>6 DEF OwnershipInv, ProcessInv, ObjectsInv
<1>10. CallsInv'
  <2> SUFFICES ASSUME NEW q \in Procs, Holding(q)'
               PROVE  /\ q \in running' /\ calls'[q].claim.pid = q
                      /\ calls'[q].claim \in claims' \ abandoned'
                      /\ \A x \in Objects : InUse(x)' => objects'[x].claim # calls'[q].claim
                      /\ \A f \in files' : f.claim # calls'[q].claim
    BY DEF CallsInv
  <2>1. q # p /\ Holding(q) /\ calls'[q] = calls[q] /\ calls[q].claim # c
    BY <1>3, <1>5
  <2> QED
    BY <1>1, <1>6, <2>1 DEF OwnershipInv, ProcessInv, CallsInv
<1>11. OwnersInv'
  <2> SUFFICES ASSUME NEW b \in claims, b # c, b.pid \in running, b \notin abandoned
               PROVE  \/ \E x \in Objects : InUse(x)' /\ objects'[x].claim = b
                      \/ Holding(b.pid)' /\ calls'[b.pid].claim = b
    BY <1>1 DEF OwnersInv
  <2>1. b.pid \in Procs
    BY DEF OwnershipInv, ClientsTypeOK
  <2>2. CASE \E x \in Objects : InUse(x) /\ objects[x].claim = b
    BY <1>6, <2>2
  <2>3. CASE Holding(b.pid) /\ calls[b.pid].claim = b
    BY <1>4, <1>5, <2>1, <2>3
  <2> QED
    BY <2>2, <2>3 DEF OwnershipInv, ProcessInv, OwnersInv
<1> QED
  BY <1>7, <1>8, <1>9, <1>10, <1>11 DEF ProcessOK, ProcessInv

\* Questions have nothing to do with claims.
LEMMA QuestionsKeep ==
  ASSUME OwnershipInv, NEW p \in Procs, Answer(p) \/ \E id, kind : Ask(p, id, kind)
  PROVE  ProcessOK'
<1>1. /\ ~Holding(p)
      /\ calls' \in [Procs -> ClaimCall \cup Question \cup {NoCall}]
      /\ ~Holding(p)'
      /\ \A q \in Procs \ {p} : calls'[q] = calls[q]
  <2>1. CASE Answer(p)
    BY <2>1 DEF Answer, Holding, NoCall, OwnershipInv, ClientsTypeOK
  <2>2. ASSUME NEW id, NEW kind, Ask(p, id, kind)
        PROVE  <1>1!:
    <3>1. PICK t \in Lookup(id, kind) :
            calls' = [calls EXCEPT ![p] =
              [at |-> "asked", slot |-> t[1], res |-> t[2], dev |-> devices[t[1]]]]
      BY <2>2 DEF Ask, InfoForId
    <3>2. t[1] \in Slots /\ t[2] \in Resources /\ devices[t[1]] \in Devs
      BY LookupNames DEF OwnershipInv, ClientsTypeOK
    <3>3. [at |-> "asked", slot |-> t[1], res |-> t[2], dev |-> devices[t[1]]] \in Question
      BY <3>2 DEF Question
    <3>4. ~Holding(p)
      BY <2>2 DEF Ask, CanCall, NoCall, Holding
    <3>5. calls' \in [Procs -> ClaimCall \cup Question \cup {NoCall}]
      BY <3>1, <3>3 DEF OwnershipInv, ClientsTypeOK
    <3> QED
      BY <3>1, <3>4, <3>5 DEF Holding, OwnershipInv, ClientsTypeOK
  <2> QED
    BY <2>1, <2>2
<1>2. UNCHANGED <<running, ending, claims, files, objects, abandoned>>
  BY DEF Ask, Answer
<1>3. \A q \in Procs : Holding(q)' = Holding(q) /\ (Holding(q) => calls'[q] = calls[q])
  BY <1>1 DEF Holding
<1>4. ProcessTypeOK'
  BY <1>1, <1>2 DEF ProcessTypeOK, OwnershipInv, ClientsTypeOK
<1>5. ProcessesInv' /\ ObjectsInv' /\ CallsInv' /\ ExclusiveInv'
  BY <1>2, <1>3 DEF OwnershipInv, ProcessInv, ProcessesInv, ObjectsInv, CallsInv, ExclusiveInv, InUse
<1>6. OwnersInv'
  BY <1>2, <1>3 DEF OwnershipInv, ClientsTypeOK, ProcessInv, OwnersInv, InUse
<1> QED
  BY <1>4, <1>5, <1>6 DEF ProcessOK, ProcessInv

LEMMA CallsKeepOwners ==
  ASSUME OwnershipInv, CallStep
  PROVE  ProcessOK'
<1>1. CASE ProcessStep
  BY <1>1, StartKeeps, BeginEndKeeps, EndKeeps, CloseAtEndKeeps, FreedKeeps DEF ProcessStep
<1>2. ASSUME NEW o \in Objects, ObjectStep(o)
      PROVE  ProcessOK'
  BY <1>2, ClaimForKeeps, AttachKeeps, AttachFailsKeeps, DetachKeeps, ReleaseClaimKeeps,
     ReleaseFailsKeeps DEF ObjectStep
<1>3. ASSUME NEW p \in Procs, Answer(p) \/ \E id, kind : Ask(p, id, kind)
      PROVE  ProcessOK'
  BY <1>3, QuestionsKeep
<1> QED
  BY <1>1, <1>2, <1>3 DEF CallStep

\* Modules and drivers leave processes alone.
LEMMA OthersKeepOwners ==
  ASSUME ProcessOK, UNCHANGED processVars
  PROVE  ProcessOK'
<1>1. ProcessTypeOK'
  BY DEF ProcessOK, ProcessTypeOK, processVars, callVars
<1>2. ProcessesInv' /\ ObjectsInv' /\ CallsInv' /\ OwnersInv' /\ ExclusiveInv'
  BY DEF ProcessOK, ProcessInv, processVars, callVars, ProcessesInv, ObjectsInv, CallsInv,
     OwnersInv, ExclusiveInv, InUse, Holding
<1> QED
  BY <1>1, <1>2 DEF ProcessOK, ProcessInv
-----------------------------------------------------------------------------
(* Devices and their nodes *)

LEMMA ReleaseEmptiesSlot ==
  ASSUME RegistryTypeOK, NodesInv, NEW d \in Devs, DeviceRelease(d)
  PROVE  \A s \in Slots : devices'[s] = IF devices[s] = d THEN NULL ELSE devices[s]
<1>1. \A s \in Slots : s \in DeviceSlot(d) <=> devices[s] = d
  <2> SUFFICES ASSUME NEW s \in Slots
               PROVE  s \in DeviceSlot(d) <=> devices[s] = d
    OBVIOUS
  <2>1. s \in DeviceSlot(d) => devices[s] = d
    BY DEF DeviceSlot, First
  <2>2. ASSUME devices[s] = d
        PROVE  \A t \in Slots : devices[t] = d => s <= t
    <3>1. \A t \in Slots : devices[t] = d => s = t
      BY <2>2, RegistryAssumption DEF NodesInv
    <3>2. s <= s
      BY RegistryAssumption DEF Slots
    <3> QED
      BY <3>1, <3>2
  <2>3. devices[s] = d => s \in DeviceSlot(d)
    BY <2>2 DEF DeviceSlot, First
  <2> QED
    BY <2>1, <2>3
<1> QED
  BY <1>1 DEF DeviceRelease

LEMMA NodesInvManage ==
  ASSUME RegistryTypeOK, minor \in [Devs -> Minors \cup {NULL}], NodesInv, NEW d \in Devs, Manage(d)
  PROVE  /\ NodesInv'
         /\ \A e \in Devs \ {d} : minor'[e] = minor[e]
         /\ d \notin Managed
         /\ \A s \in Slots : devices[s] # NULL => devices'[s] = devices[s]
<1>1. PICK n \in Minors : /\ \A e \in Devs : minor[e] # n
                          /\ minor' = IF d \in Managed' THEN [minor EXCEPT ![d] = n] ELSE minor
  BY DEF Manage
<1>2. d \notin Managed /\ d # NULL
  BY RegistryAssumption DEF Manage, DeviceManage, MayManage
<1>3. minor[d] = NULL
  BY <1>2 DEF NodesInv
<1>4. n # NULL
  BY ClientsAssumption
<1>5. CASE UNCHANGED devices
  <2>1. UNCHANGED <<devices, minor>>
    BY <1>1, <1>2, <1>5 DEF Managed
  <2> QED
    BY <1>2, <2>1 DEF NodesInv, Managed
<1>6. CASE \E s \in EmptySlot : devices' = [devices EXCEPT ![s] = d]
  <2>1. PICK s \in EmptySlot : devices' = [devices EXCEPT ![s] = d]
    BY <1>6
  <2>2. s \in Slots /\ devices[s] = NULL
    BY <2>1 DEF EmptySlot, DeviceSlot, First
  <2>3. \A t \in Slots : devices'[t] = IF t = s THEN d ELSE devices[t]
    BY <2>1, <2>2 DEF RegistryTypeOK
  <2>4. \A e \in Devs : e \in Managed' <=> e = d \/ e \in Managed
    BY <2>2, <2>3, RegistryAssumption DEF Managed
  <2>5. \A e \in Devs : minor'[e] = IF e = d THEN n ELSE minor[e]
    BY <1>1, <2>4
  <2>6. \A t, u \in Slots : devices'[t] = devices'[u] /\ devices'[t] # NULL => t = u
    BY <1>2, <2>3 DEF NodesInv, Managed
  <2>7. \A e \in Devs : minor'[e] # NULL <=> e \in Managed'
    BY <1>4, <2>4, <2>5 DEF NodesInv
  <2>8. \A e, g \in Devs : minor'[e] = minor'[g] /\ minor'[e] # NULL => e = g
    BY <1>1, <2>5 DEF NodesInv
  <2> QED
    BY <1>2, <2>2, <2>3, <2>5, <2>6, <2>7, <2>8 DEF NodesInv
<1> QED
  BY <1>5, <1>6 DEF Manage, DeviceManage

LEMMA NodesInvRelease ==
  ASSUME RegistryTypeOK, minor \in [Devs -> Minors \cup {NULL}], NodesInv, NEW d \in Devs, ReleaseDevice(d)
  PROVE  /\ NodesInv'
         /\ \A e \in Devs \ {d} : minor'[e] = minor[e]
         /\ \A s \in Slots : devices[s] # d => devices'[s] = devices[s]
<1>1. /\ \A s \in Slots : devices'[s] = IF devices[s] = d THEN NULL ELSE devices[s]
      /\ \A e \in Devs : minor'[e] = IF e = d THEN NULL ELSE minor[e]
  BY ReleaseEmptiesSlot DEF ReleaseDevice
<1>2. \A e \in Devs : e \in Managed' <=> e # d /\ e \in Managed
  BY <1>1, RegistryAssumption DEF Managed
<1>3. \A t, u \in Slots : devices'[t] = devices'[u] /\ devices'[t] # NULL => t = u
  BY <1>1 DEF NodesInv
<1>4. \A e \in Devs : minor'[e] # NULL <=> e \in Managed'
  BY <1>1, <1>2 DEF NodesInv
<1>5. \A e, g \in Devs : minor'[e] = minor'[g] /\ minor'[e] # NULL => e = g
  BY <1>1 DEF NodesInv
<1> QED
  BY <1>1, <1>3, <1>4, <1>5 DEF NodesInv

\* A device that somebody claims or has open.
Held(d) == (\E c \in claims : c.dev = d) \/ \E f \in files : f.dev = d

DriverRest ==
  \/ \E m \in Drivers : Insmod(m) \/ Rmmod(m) \/ RmmodDone(m)
  \/ \E d \in Devs : ManageFails(d)

\* The other steps of drivers change neither the table nor its device nodes.
LEMMA RestKeepsTable ==
  ASSUME DriverRest
  PROVE  UNCHANGED <<devices, minor>>
BY DEF DriverRest, Insmod, Rmmod, RmmodDone, ManageFails, ModuleLoad, ModuleUnloadBegin,
   ModuleUnloadEnd, DeviceManageRegisterFails

LEMMA DriverKeepsNodes ==
  ASSUME OwnershipInv, DriverStep
  PROVE  NodesInv'
<1>1. RegistryTypeOK /\ minor \in [Devs -> Minors \cup {NULL}] /\ NodesInv
  BY DEF OwnershipInv, ClientsTypeOK
<1>2. DriverRest => NodesInv'
  BY <1>1, RestKeepsTable DEF NodesInv, Managed
<1> QED
  BY <1>1, <1>2, NodesInvManage, NodesInvRelease DEF DriverStep, DriverRest

\* No step of a driver takes a device away that somebody holds.
LEMMA DriverKeepsHeld ==
  ASSUME ReleasedAtUnload, OwnershipInv, DriverStep, NEW d \in Devs, Kept(d), Held(d)
  PROVE  /\ Kept(d)'
         /\ minor'[d] = minor[d]
         /\ \A s \in Slots : devices[s] = d => devices'[s] = d
<1>1. /\ RegistryTypeOK /\ minor \in [Devs -> Minors \cup {NULL}] /\ NodesInv
      /\ DriverOf[d] \in Drivers /\ modstate \in [Drivers -> {"unloaded", "live", "going"}]
      /\ d # NULL
  BY RegistryAssumption DEF OwnershipInv, ClientsTypeOK, RegistryTypeOK
<1>2. /\ \A s \in Slots : devices[s] = d => devices'[s] = d
      /\ minor'[d] = minor[d]
  <2>1. CASE DriverRest
    BY <2>1, RestKeepsTable
  <2>2. ASSUME NEW e \in Devs, Manage(e)
        PROVE  <1>2!:
    <3>1. d # e
      BY <1>1, <2>2, NodesInvManage DEF Kept
    <3> QED
      BY <1>1, <2>2, <3>1, NodesInvManage
  <2>3. ASSUME NEW e \in Devs, ReleaseDevice(e)
        PROVE  <1>2!:
    <3>1. modstate[DriverOf[e]] = "going"
      BY <2>3 DEF ReleaseDevice, DeviceRelease, MayRelease, ReleasedAtUnload
    <3>2. d # e
      BY <3>1 DEF Kept
    <3> QED
      BY <1>1, <2>3, <3>2, NodesInvRelease
  <2> QED
    BY <2>1, <2>2, <2>3 DEF DriverStep, DriverRest
<1>3. modstate'[DriverOf[d]] = "live"
  <2>1. \A m \in Drivers : Insmod(m) => modstate'[DriverOf[d]] = "live"
    BY <1>1 DEF Insmod, ModuleLoad, Kept
  <2>2. \A m \in Drivers : Rmmod(m) => modstate'[DriverOf[d]] = "live"
    BY <1>1 DEF Rmmod, ModuleUnloadBegin, Held, Kept
  <2>3. \A m \in Drivers : RmmodDone(m) => modstate'[DriverOf[d]] = "live"
    BY <1>1 DEF RmmodDone, ModuleUnloadEnd, Kept
  <2>4. \A e \in Devs : Manage(e) \/ ManageFails(e) \/ ReleaseDevice(e) => UNCHANGED modstate
    BY DEF Manage, ManageFails, ReleaseDevice, DeviceManage, DeviceManageRegisterFails, DeviceRelease
  <2> QED
    BY <2>1, <2>2, <2>3, <2>4 DEF DriverStep, Kept
<1>4. d \in Managed'
  BY <1>2 DEF Kept, Managed
<1> QED
  BY <1>2, <1>3, <1>4 DEF Kept
-----------------------------------------------------------------------------
(* What processes hold of the table *)

LEMMA DriverKeepsLinks ==
  ASSUME ReleasedAtUnload, OwnershipInv, OpenInv, LinksInv, DriverStep
  PROVE  LinksInv'
<1>1. UNCHANGED processVars
  BY DEF DriverStep, Insmod, Rmmod, RmmodDone, Manage, ManageFails, ReleaseDevice, processVars, callVars
<1>2. /\ UNCHANGED <<running, claims, files, objects, calls>>
      /\ \A o \in Objects : InUse(o)' = InUse(o)
      /\ \A p \in Procs : Holding(p)' = Holding(p)
  BY <1>1 DEF processVars, callVars, InUse, Holding
<1>3. /\ claims \subseteq Claim /\ files \subseteq UioFile
      /\ \A c \in claims : c.dev \in Devs /\ Held(c.dev)
      /\ \A f \in files : f.dev \in Devs /\ Held(f.dev)
  BY DEF OwnershipInv, ClientsTypeOK, Claim, UioFile, Held
<1>4. ASSUME NEW d \in Devs, Held(d), Kept(d), NEW s \in Slots, NEW r, Names(s, d, r)
      PROVE  Names(s, d, r)'
  BY <1>4, DriverKeepsHeld DEF Names
<1>5. \A c \in claims : Kept(c.dev)'
  BY <1>3, DriverKeepsHeld DEF OwnershipInv, LinksInv
<1>6. \A f \in files : f.dev = f.claim.dev
  BY DEF LinksInv
<1>7. ASSUME NEW o \in Objects, InUse(o)
      PROVE  Names(objects[o].slot, objects[o].claim.dev, objects[o].claim.res)'
  <2>1. objects[o].slot \in Slots
    BY <1>7 DEF InUse, OwnershipInv, ClientsTypeOK, Object
  <2>2. objects[o].claim \in claims
    BY <1>7 DEF OwnershipInv, ProcessInv, ObjectsInv
  <2>3. Names(objects[o].slot, objects[o].claim.dev, objects[o].claim.res) /\ Kept(objects[o].claim.dev)
    BY <1>7, <2>2 DEF OwnershipInv, LinksInv
  <2> QED
    BY <1>2, <1>3, <1>4, <2>1, <2>2, <2>3 DEF Names
<1>8. ASSUME NEW p \in Procs, Holding(p)
      PROVE  /\ Names(calls[p].slot, calls[p].claim.dev, calls[p].claim.res)'
             /\ calls[p].at = "claimed" => calls[p].node = minor'[calls[p].claim.dev]
  <2>1. calls[p].slot \in Slots
    BY <1>8, CallKinds DEF ClaimCall, OwnershipInv
  <2>2. calls[p].claim \in claims
    BY <1>8 DEF OwnershipInv, ProcessInv, CallsInv
  <2>3. /\ Names(calls[p].slot, calls[p].claim.dev, calls[p].claim.res) /\ Kept(calls[p].claim.dev)
        /\ calls[p].at = "claimed" => calls[p].node = minor[calls[p].claim.dev]
    BY <1>8, <2>2 DEF OwnershipInv, LinksInv
  <2>4. Names(calls[p].slot, calls[p].claim.dev, calls[p].claim.res)'
    BY <1>2, <1>3, <1>4, <2>1, <2>2, <2>3 DEF Names
  <2> QED
    BY <1>3, <2>2, <2>3, <2>4, DriverKeepsHeld
<1> QED
  BY <1>2, <1>5, <1>6, <1>7, <1>8 DEF LinksInv

LEMMA DriverKeepsOpen ==
  ASSUME ReleasedAtUnload, OwnershipInv, OpenInv, DriverStep
  PROVE  OpenInv'
<1>1. UNCHANGED <<files, calls>>
  BY DEF DriverStep, Insmod, Rmmod, RmmodDone, Manage, ManageFails, ReleaseDevice, callVars
<1>2. \A f \in files : f.dev \in Devs /\ Held(f.dev) /\ Kept(f.dev)
  BY DEF OwnershipInv, ClientsTypeOK, UioFile, Held, OpenInv
<1>3. \A f \in files : Kept(f.dev)'
  BY <1>2, DriverKeepsHeld
<1>4. ASSUME NEW p \in Procs, calls[p].at = "asked", NEW f \in files, f.pid = p, f.dev = calls[p].dev
      PROVE  Names(calls[p].slot, calls[p].dev, calls[p].res)'
  <2>1. calls[p].slot \in Slots
    BY <1>4, CallKinds DEF Question, OwnershipInv
  <2>2. Names(calls[p].slot, calls[p].dev, calls[p].res)
    BY <1>4 DEF OpenInv
  <2>3. devices'[calls[p].slot] = calls[p].dev
    BY <1>2, <1>4, <2>1, <2>2, DriverKeepsHeld DEF Names
  <2> QED
    BY <1>1, <2>2, <2>3 DEF Names
<1> QED
  BY <1>1, <1>3, <1>4 DEF OpenInv

\* Steps of modules leave all of it alone.
LEMMA ModulesKeepLinks ==
  ASSUME UNCHANGED <<tableVars, processVars>>
  PROVE  (OpenInv => OpenInv') /\ (LinksInv => LinksInv')
BY DEF OpenInv, LinksInv, tableVars, registryVars, processVars, callVars, Kept, Names, InUse, Holding, Managed

\* What all steps of processes need: the table stays, so that only what is new matters.
LEMMA LinksStay ==
  ASSUME UNCHANGED <<tableVars, modulesVars>>
  PROVE  /\ \A d : Kept(d)' = Kept(d)
         /\ \A s, d, r : Names(s, d, r)' = Names(s, d, r)
         /\ minor' = minor
BY DEF tableVars, registryVars, Kept, Names, Managed

LEMMA ProcessKeepsLinks ==
  ASSUME OwnershipInv, LinksInv, ProcessStep, UNCHANGED <<tableVars, modulesVars>>
  PROVE  LinksInv'
<1>1. claims' \subseteq claims /\ files' \subseteq files
  BY TableSteps DEF ProcessStep, Start, BeginEnd, End, CloseAtEnd, Freed
<1>2. \/ UNCHANGED <<objects, calls>>
      \/ \E p \in Procs : /\ objects' = [o \in Objects |-> IF ProcOf[o] = p THEN NULL ELSE objects[o]]
                          /\ calls' = [calls EXCEPT ![p] = NoCall]
  BY DEF ProcessStep, Start, BeginEnd, End, CloseAtEnd, Freed, callVars
<1>3. /\ \A o \in Objects : InUse(o)' => InUse(o) /\ objects'[o] = objects[o]
      /\ \A p \in Procs : Holding(p)' => Holding(p) /\ calls'[p] = calls[p]
  BY <1>2 DEF InUse, Holding, NoCall, OwnershipInv, ClientsTypeOK
<1> QED
  BY <1>1, <1>3, LinksStay DEF OwnershipInv, LinksInv

LEMMA ClaimForKeepsLinks ==
  ASSUME ClaimsPin, OwnershipInv, LinksInv, NEW o \in Objects, NEW id, ClaimFor(o, id), UNCHANGED <<tableVars, modulesVars>>
  PROVE  LinksInv'
<1> DEFINE p == ProcOf[o]
<1>1. PICK t \in Lookup(id, KindOf[o]), c \in Claim :
         /\ CanCall(p)
         /\ c.pid = p /\ c.dev = devices[t[1]] /\ c.res = t[2]
         /\ MayBeClaimed(c.dev) /\ c.dev \in Managed /\ c \notin claims
         /\ Shared[c.dev][c.res] \/ c.hostile \/ \A d \in claims : ~Table!Alike(c, d)
         /\ claims' = claims \cup {c}
         /\ calls' = [calls EXCEPT ![p] =
              [at |-> "claimed", obj |-> o, claim |-> c, slot |-> t[1], node |-> NodeOf(t[1])]]
         /\ UNCHANGED <<running, ending, files, objects, abandoned>>
  BY GrantEffect
<1>2. p \in Procs /\ t[1] \in Slots /\ Names(t[1], devices[t[1]], t[2])
  BY ClientsAssumption, LookupNames DEF OwnershipInv, ClientsTypeOK
<1> HIDE DEF p
<1>3. /\ calls'[p].at = "claimed" /\ calls'[p].claim = c
      /\ calls'[p].slot = t[1] /\ calls'[p].node = minor[c.dev]
      /\ \A q \in Procs \ {p} : calls'[q] = calls[q] /\ Holding(q)' = Holding(q)
  BY <1>1, <1>2 DEF Holding, NodeOf, OwnershipInv, ClientsTypeOK
<1>4. Kept(c.dev)
  BY <1>1 DEF Kept, MayBeClaimed, ClaimsPin
<1>5. \A b \in claims' : Kept(b.dev)
  BY <1>1, <1>4 DEF OwnershipInv, LinksInv
<1>6. \A x \in Objects : InUse(x)' => InUse(x) /\ objects'[x] = objects[x]
  BY <1>1 DEF InUse
<1>7. ASSUME NEW q \in Procs, Holding(q)'
      PROVE  /\ Names(calls'[q].slot, calls'[q].claim.dev, calls'[q].claim.res)
             /\ calls'[q].at = "claimed" => calls'[q].node = minor[calls'[q].claim.dev]
  BY <1>1, <1>2, <1>3, <1>7 DEF OwnershipInv, LinksInv
<1>8. \A f \in files' : f.dev = f.claim.dev
  BY <1>1 DEF OwnershipInv, LinksInv
<1> QED
  BY <1>5, <1>6, <1>7, <1>8, LinksStay DEF OwnershipInv, LinksInv

LEMMA AttachKeepsLinks ==
  ASSUME OwnershipInv, LinksInv, NEW o \in Objects, Attach(o), UNCHANGED <<tableVars, modulesVars>>
  PROVE  LinksInv'
<1> DEFINE p == ProcOf[o]
           c == calls[p].claim
<1>1. /\ p \in Procs /\ calls[p] \in ClaimCall /\ Holding(p) /\ calls[p].at = "claimed"
      /\ objects' = [objects EXCEPT ![o] = [claim |-> c, slot |-> calls[p].slot]]
      /\ calls' = [calls EXCEPT ![p] = NoCall]
      /\ UNCHANGED <<running, ending, claims>>
  BY AttachEffect
<1>2. PICK d \in Devs : /\ minor[d] = calls[p].node
                        /\ files' = files \cup {[pid |-> p, dev |-> d, claim |-> c]}
  BY AttachEffect
<1>3. c \in claims /\ Names(calls[p].slot, c.dev, c.res) /\ minor[c.dev] = calls[p].node
  BY <1>1 DEF OwnershipInv, LinksInv, ProcessInv, CallsInv
<1>4. Kept(c.dev) /\ c.dev \in Devs
  BY <1>3 DEF OwnershipInv, LinksInv, ClientsTypeOK, Claim
<1>5. d = c.dev
  BY <1>2, <1>3, <1>4 DEF OwnershipInv, NodesInv, Kept
<1> HIDE DEF p, c
<1>6. \A f \in files' : f.dev = f.claim.dev
  BY <1>2, <1>4, <1>5 DEF OwnershipInv, LinksInv
<1>7. /\ objects'[o].claim = c /\ objects'[o].slot = calls[p].slot
      /\ \A x \in Objects \ {o} : objects'[x] = objects[x] /\ InUse(x)' = InUse(x)
  BY <1>1 DEF InUse, OwnershipInv, ClientsTypeOK
<1>8. /\ ~Holding(p)'
      /\ \A q \in Procs \ {p} : calls'[q] = calls[q] /\ Holding(q)' = Holding(q)
  BY <1>1 DEF Holding, NoCall, OwnershipInv, ClientsTypeOK
<1>9. \A x \in Objects : InUse(x)' =>
        Names(objects'[x].slot, objects'[x].claim.dev, objects'[x].claim.res)
  BY <1>3, <1>7 DEF OwnershipInv, LinksInv
<1>10. \A q \in Procs : Holding(q)' =>
         /\ Names(calls'[q].slot, calls'[q].claim.dev, calls'[q].claim.res)
         /\ calls'[q].at = "claimed" => calls'[q].node = minor[calls'[q].claim.dev]
  BY <1>8 DEF OwnershipInv, LinksInv
<1> QED
  BY <1>1, <1>6, <1>9, <1>10, LinksStay DEF OwnershipInv, LinksInv

\* Failures, releases and answers end a call; unmapping puts the token into one.
LEMMA OtherCallsKeepLinks ==
  ASSUME OwnershipInv, LinksInv, UNCHANGED <<tableVars, modulesVars>>,
         NEW o \in Objects, AttachFails(o) \/ Detach(o) \/ ReleaseClaim(o) \/ ReleaseFails(o)
  PROVE  LinksInv'
<1> DEFINE p == ProcOf[o]
<1>1. p \in Procs /\ claims' \subseteq claims /\ files' \subseteq files
  BY ClientsAssumption, TableSteps DEF AttachFails, Detach, ReleaseClaim, ReleaseFails
<1>2. /\ \A x \in Objects : InUse(x)' => InUse(x) /\ objects'[x] = objects[x]
      /\ \A q \in Procs \ {p} : calls'[q] = calls[q] /\ Holding(q)' = Holding(q)
  BY <1>1 DEF AttachFails, Detach, ReleaseClaim, ReleaseFails, InUse, Holding, OwnershipInv, ClientsTypeOK
<1>3. /\ calls'[p].at # "claimed"
      /\ Holding(p)' => Names(calls'[p].slot, calls'[p].claim.dev, calls'[p].claim.res)
  <2>1. CASE AttachFails(o)
    <3>1. /\ calls[p].at = "claimed" /\ calls' = [calls EXCEPT ![p].at = "undo"]
          /\ calls[p] \in ClaimCall /\ Holding(p)
      BY <1>1, <2>1, CallKinds DEF AttachFails, Holding, OwnershipInv
    <3>2. /\ calls'[p].at = "undo"
          /\ calls'[p].claim = calls[p].claim /\ calls'[p].slot = calls[p].slot
      BY <1>1, <3>1 DEF ClaimCall, OwnershipInv, ClientsTypeOK
    <3> QED
      BY <1>1, <3>1, <3>2 DEF OwnershipInv, LinksInv
  <2>2. CASE Detach(o)
    <3>1. /\ calls'[p] = [at |-> "closed", obj |-> o, claim |-> objects[o].claim,
                          slot |-> objects[o].slot, node |-> NULL]
          /\ InUse(o)
      BY <1>1, <2>2 DEF Detach, InUse, OwnershipInv, ClientsTypeOK
    <3>2. /\ calls'[p].at = "closed"
          /\ calls'[p].claim = objects[o].claim /\ calls'[p].slot = objects[o].slot
      BY <3>1
    <3> QED
      BY <3>1, <3>2 DEF OwnershipInv, LinksInv
  <2>3. CASE ReleaseClaim(o) \/ ReleaseFails(o)
    BY <1>1, <2>3 DEF ReleaseClaim, ReleaseFails, NoCall, Holding, OwnershipInv, ClientsTypeOK
  <2> QED
    BY <2>1, <2>2, <2>3
<1> HIDE DEF p
<1> QED
  BY <1>1, <1>2, <1>3, LinksStay DEF OwnershipInv, LinksInv

LEMMA QuestionsKeepLinks ==
  ASSUME OwnershipInv, LinksInv, UNCHANGED <<tableVars, modulesVars>>,
         NEW p \in Procs, Answer(p) \/ \E id, kind : Ask(p, id, kind)
  PROVE  LinksInv'
<1>1. UNCHANGED <<running, claims, files, objects>>
  BY DEF Answer, Ask
<1>2. (\A q \in Procs \ {p} : calls'[q] = calls[q]) /\ ~Holding(p)'
  <2>1. CASE Answer(p)
    BY <2>1 DEF Answer, Holding, NoCall, OwnershipInv, ClientsTypeOK
  <2>2. ASSUME NEW id, NEW kind, Ask(p, id, kind)
        PROVE  <1>2!:
    BY <2>2 DEF Ask, Holding, OwnershipInv, ClientsTypeOK
  <2> QED
    BY <2>1, <2>2
<1>3. \A q \in Procs : Holding(q)' => Holding(q) /\ calls'[q] = calls[q]
  BY <1>2 DEF Holding
<1>4. \A x \in Objects : InUse(x)' => InUse(x) /\ objects'[x] = objects[x]
  BY <1>1 DEF InUse
<1> QED
  BY <1>1, <1>3, <1>4, LinksStay DEF OwnershipInv, LinksInv

\* The file that is opened is on a device in service, and a question starts from the slot
\* that its device is in.
LEMMA CallsKeepOpen ==
  ASSUME OwnershipInv, OpenInv, CallStep
  PROVE  OpenInv'
<1>1. UNCHANGED <<tableVars, modulesVars>>
  BY CallsKeepTable
<1>2. ASSUME \A f \in files' : f \in files \/ (Kept(f.dev) /\ calls'[f.pid].at # "asked"),
             \A q \in Procs :
               \/ calls'[q].at \notin {"asked", "claimed"}
               \/ calls'[q] = calls[q]
               \/ calls'[q].at = "claimed" /\ calls'[q].node # NULL
               \/ calls'[q].at = "asked" /\ Names(calls'[q].slot, calls'[q].dev, calls'[q].res)
      PROVE  OpenInv'
  BY <1>1, <1>2, LinksStay DEF OpenInv
<1>3. CASE ProcessStep
  <2>1. files' \subseteq files
    BY <1>3, TableSteps DEF ProcessStep, Start, BeginEnd, End, CloseAtEnd, Freed
  <2>2. calls' = calls \/ \E p \in Procs : calls' = [calls EXCEPT ![p] = NoCall]
    BY <1>3 DEF ProcessStep, Start, BeginEnd, End, CloseAtEnd, Freed, callVars
  <2>3. \A q \in Procs : calls'[q].at \notin {"asked", "claimed"} \/ calls'[q] = calls[q]
    BY <2>2 DEF NoCall, OwnershipInv, ClientsTypeOK
  <2> QED
    BY <1>2, <2>1, <2>3
<1>4. ASSUME NEW o \in Objects, NEW id, ClaimFor(o, id)
      PROVE  OpenInv'
  <2>1. PICK t \in Lookup(id, KindOf[o]), c \in Claim :
           /\ CanCall(ProcOf[o])
           /\ c.pid = ProcOf[o] /\ c.dev = devices[t[1]] /\ c.res = t[2]
           /\ MayBeClaimed(c.dev) /\ c.dev \in Managed /\ c \notin claims
           /\ Shared[c.dev][c.res] \/ c.hostile \/ \A d \in claims : ~Table!Alike(c, d)
           /\ claims' = claims \cup {c}
           /\ calls' = [calls EXCEPT ![ProcOf[o]] =
                [at |-> "claimed", obj |-> o, claim |-> c, slot |-> t[1], node |-> NodeOf(t[1])]]
           /\ UNCHANGED <<running, ending, files, objects, abandoned>>
    BY <1>4, GrantEffect
  <2>2. NodeOf(t[1]) # NULL
    BY <2>1 DEF NodeOf, OwnershipInv, NodesInv, Managed
  <2>3. \A q \in Procs : calls'[q] = calls[q] \/ (calls'[q].at = "claimed" /\ calls'[q].node # NULL)
    BY <2>1, <2>2 DEF OwnershipInv, ClientsTypeOK
  <2> QED
    BY <1>2, <2>1, <2>3
<1>5. ASSUME NEW o \in Objects, Attach(o)
      PROVE  OpenInv'
  <2> DEFINE p == ProcOf[o]
  <2>1. /\ p \in Procs /\ calls[p].at = "claimed"
        /\ calls' = [calls EXCEPT ![p] = NoCall]
    BY <1>5, AttachEffect
  <2>2. PICK d \in Devs :
          /\ minor[d] = calls[p].node /\ modstate[DriverOf[d]] = "live"
          /\ files' = files \cup {[pid |-> p, dev |-> d, claim |-> calls[p].claim]}
    BY <1>5, AttachEffect
  <2>3. Kept(d)
    BY <2>1, <2>2 DEF OpenInv, Kept, OwnershipInv, NodesInv
  <2> HIDE DEF p
  <2>4. \A q \in Procs : calls'[q] = IF q = p THEN NoCall ELSE calls[q]
    BY <2>1 DEF OwnershipInv, ClientsTypeOK
  <2>5. NoCall.at \notin {"asked", "claimed"}
    BY DEF NoCall
  <2> QED
    BY <1>2, <2>1, <2>2, <2>3, <2>4, <2>5
<1>6. ASSUME NEW o \in Objects, AttachFails(o) \/ Detach(o) \/ ReleaseClaim(o) \/ ReleaseFails(o)
      PROVE  OpenInv'
  <2> DEFINE p == ProcOf[o]
  <2>1. p \in Procs /\ files' \subseteq files
    BY <1>6, ClientsAssumption DEF AttachFails, Detach, ReleaseClaim, ReleaseFails
  <2>2. \A q \in Procs \ {p} : calls'[q] = calls[q]
    BY <1>6, <2>1 DEF AttachFails, Detach, ReleaseClaim, ReleaseFails, OwnershipInv, ClientsTypeOK
  <2>3. calls'[p].at \notin {"asked", "claimed"}
    <3>1. CASE AttachFails(o)
      <4>1. calls[p].at = "claimed" /\ calls' = [calls EXCEPT ![p].at = "undo"] /\ calls[p] \in ClaimCall
        BY <2>1, <3>1, CallKinds DEF AttachFails, Holding, OwnershipInv
      <4> QED
        BY <2>1, <4>1 DEF ClaimCall, OwnershipInv, ClientsTypeOK
    <3>2. CASE Detach(o)
      BY <2>1, <3>2 DEF Detach, OwnershipInv, ClientsTypeOK
    <3>3. CASE ReleaseClaim(o) \/ ReleaseFails(o)
      BY <2>1, <3>3 DEF ReleaseClaim, ReleaseFails, NoCall, OwnershipInv, ClientsTypeOK
    <3> QED
      BY <1>6, <3>1, <3>2, <3>3
  <2> HIDE DEF p
  <2> QED
    BY <1>2, <2>1, <2>2, <2>3
<1>7. ASSUME NEW p \in Procs, Answer(p) \/ \E id, kind : Ask(p, id, kind)
      PROVE  OpenInv'
  <2>1. files' = files
    BY <1>7 DEF Answer, Ask
  <2>2. /\ \A q \in Procs \ {p} : calls'[q] = calls[q]
        /\ \/ calls'[p].at \notin {"asked", "claimed"}
           \/ calls'[p].at = "asked" /\ Names(calls'[p].slot, calls'[p].dev, calls'[p].res)
    <3>1. CASE Answer(p)
      BY <3>1 DEF Answer, NoCall, OwnershipInv, ClientsTypeOK
    <3>2. ASSUME NEW id, NEW kind, Ask(p, id, kind)
          PROVE  <2>2!:
      <4>1. PICK t \in Lookup(id, kind) :
              calls' = [calls EXCEPT ![p] =
                [at |-> "asked", slot |-> t[1], res |-> t[2], dev |-> devices[t[1]]]]
        BY <3>2 DEF Ask, InfoForId
      <4>2. Names(t[1], devices[t[1]], t[2])
        BY LookupNames DEF OwnershipInv, ClientsTypeOK
      <4> QED
        BY <4>1, <4>2 DEF OwnershipInv, ClientsTypeOK
    <3> QED
      BY <1>7, <3>1, <3>2
  <2> QED
    BY <1>2, <2>1, <2>2
<1> QED
  BY <1>3, <1>4, <1>5, <1>6, <1>7 DEF CallStep, ObjectStep

LEMMA CallsKeepLinks ==
  ASSUME ClaimsPin, OwnershipInv, LinksInv, CallStep
  PROVE  LinksInv'
BY CallsKeepTable, ProcessKeepsLinks, ClaimForKeepsLinks, AttachKeepsLinks, OtherCallsKeepLinks,
   QuestionsKeepLinks DEF CallStep, ObjectStep
-----------------------------------------------------------------------------
(* The specification *)

LEMMA OwnershipInit == ClientsInit => OwnershipInv
<1> SUFFICES ASSUME ClientsInit
             PROVE  OwnershipInv
  OBVIOUS
<1>1. ClientsTypeOK
  BY ClientsInitType
<1>2. /\ \A o \in Objects : ~InUse(o)
      /\ \A p \in Procs : ~Holding(p)
  BY DEF ClientsInit, InUse, Holding, NoCall
<1>3. ProcessInv
  BY <1>2 DEF ClientsInit, ProcessInv, ProcessesInv, ObjectsInv, CallsInv, OwnersInv, ExclusiveInv
<1>4. NodesInv
  BY RegistryAssumption DEF ClientsInit, RegistryInit, NodesInv, Managed
<1> QED
  BY <1>1, <1>3, <1>4 DEF OwnershipInv

LEMMA LinksInit == ClientsInit => OpenInv /\ LinksInv
<1> SUFFICES ASSUME ClientsInit
             PROVE  OpenInv /\ LinksInv
  OBVIOUS
<1>1. /\ \A o \in Objects : ~InUse(o)
      /\ \A p \in Procs : ~Holding(p) /\ calls[p].at \notin {"asked", "claimed"}
      /\ claims = {} /\ files = {}
  BY DEF ClientsInit, InUse, Holding, NoCall
<1> QED
  BY <1>1 DEF OpenInv, LinksInv

LEMMA OwnershipNext ==
  ASSUME OwnershipInv, [ClientsNext]_clientsVars
  PROVE  OwnershipInv'
<1>1. /\ ClientsTypeOK /\ NodesInv /\ ProcessOK
  BY DEF OwnershipInv, ClientsTypeOK, ProcessTypeOK, ProcessOK
<1>2. CASE \E m \in KernelModules : KernelModuleStep(m)
  <2>1. UNCHANGED <<tableVars, processVars>>
    BY <1>2 DEF KernelModuleStep, tableVars, processVars
  <2>2. ModulesTypeOK'
    BY <1>1, <1>2, ModuleTypes DEF ClientsTypeOK
  <2>3. ProcessOK'
    BY <1>1, <2>1, OthersKeepOwners
  <2>4. ClientsTypeOK'
    BY <1>1, <2>1, <2>2, <2>3 DEF ClientsTypeOK, ProcessOK, ProcessTypeOK, tableVars, registryVars,
       RegistryTypeOK
  <2>5. NodesInv'
    BY <1>1, <2>1 DEF tableVars, registryVars, NodesInv, Managed
  <2> QED
    BY <2>3, <2>4, <2>5 DEF OwnershipInv, ProcessOK
<1>3. CASE DriverStep
  <2>1. UNCHANGED processVars
    BY <1>3 DEF DriverStep, Insmod, Rmmod, RmmodDone, Manage, ManageFails, ReleaseDevice,
       processVars, callVars
  <2> QED
    BY <1>1, <1>3, <2>1, OthersKeepOwners, DriverTypes, DriverKeepsNodes DEF OwnershipInv, ProcessOK
<1>4. CASE CallStep
  <2>1. UNCHANGED <<tableVars, modulesVars>> /\ ProcessOK'
    BY <1>4, CallsKeepTable, CallsKeepOwners
  <2>2. ClientsTypeOK'
    BY <1>1, <2>1, OtherTypesKept DEF ProcessOK
  <2>3. NodesInv'
    BY <1>1, <2>1 DEF tableVars, registryVars, NodesInv, Managed
  <2> QED
    BY <2>1, <2>2, <2>3 DEF OwnershipInv, ProcessOK
<1>5. CASE UNCHANGED clientsVars
  <2>1. UNCHANGED <<tableVars, modulesVars, processVars>>
    BY <1>5 DEF clientsVars, tableVars, processVars
  <2>2. ProcessOK'
    BY <1>1, <2>1, OthersKeepOwners
  <2>3. ClientsTypeOK'
    BY <1>1, <2>1, <2>2, OtherTypesKept DEF ProcessOK
  <2>4. NodesInv'
    BY <1>1, <2>1 DEF tableVars, registryVars, NodesInv, Managed
  <2> QED
    BY <2>2, <2>3, <2>4 DEF OwnershipInv, ProcessOK
<1> QED
  BY <1>2, <1>3, <1>4, <1>5, StepKinds DEF CallStep, ObjectStep

LEMMA OpenNext ==
  ASSUME ReleasedAtUnload, OwnershipInv, OpenInv, [ClientsNext]_clientsVars
  PROVE  OpenInv'
<1>1. (\E m \in KernelModules : KernelModuleStep(m)) \/ UNCHANGED clientsVars =>
        UNCHANGED <<tableVars, processVars>>
  BY DEF KernelModuleStep, clientsVars, tableVars, processVars
<1> QED
  BY <1>1, ModulesKeepLinks, DriverKeepsOpen, CallsKeepOpen, StepKinds DEF CallStep, ObjectStep

LEMMA LinksNext ==
  ASSUME ReleasedAtUnload, ClaimsPin, OwnershipInv, OpenInv, LinksInv, [ClientsNext]_clientsVars
  PROVE  LinksInv'
<1>1. (\E m \in KernelModules : KernelModuleStep(m)) \/ UNCHANGED clientsVars =>
        UNCHANGED <<tableVars, processVars>>
  BY DEF KernelModuleStep, clientsVars, tableVars, processVars
<1> QED
  BY <1>1, ModulesKeepLinks, DriverKeepsLinks, CallsKeepLinks, StepKinds DEF CallStep, ObjectStep

LEMMA OwnershipInvariant == ClientsSpec => []OwnershipInv
<1>1. OwnershipInv /\ [ClientsNext]_clientsVars => OwnershipInv'
  BY OwnershipNext
<1> QED
  BY OwnershipInit, <1>1, PTL DEF ClientsSpec

LEMMA OpenInvariant == ReleasedAtUnload /\ ClientsSpec => [](OwnershipInv /\ OpenInv)
<1> SUFFICES ASSUME ReleasedAtUnload
             PROVE  ClientsSpec => [](OwnershipInv /\ OpenInv)
  OBVIOUS
<1>1. ClientsInit => OwnershipInv /\ OpenInv
  BY OwnershipInit, LinksInit
<1>2. OwnershipInv /\ OpenInv /\ [ClientsNext]_clientsVars => (OwnershipInv /\ OpenInv)'
  BY OwnershipNext, OpenNext
<1> QED
  BY <1>1, <1>2, PTL DEF ClientsSpec

LEMMA ClientsInvariant == ReleasedAtUnload /\ ClaimsPin /\ ClientsSpec => []ClientsInv
<1> SUFFICES ASSUME ReleasedAtUnload, ClaimsPin
             PROVE  ClientsSpec => []ClientsInv
  OBVIOUS
<1>1. ClientsInit => ClientsInv
  BY OwnershipInit, LinksInit DEF ClientsInv
<1>2. ClientsInv /\ [ClientsNext]_clientsVars => ClientsInv'
  BY OwnershipNext, OpenNext, LinksNext DEF ClientsInv
<1> QED
  BY <1>1, <1>2, PTL DEF ClientsSpec
-----------------------------------------------------------------------------
(* Theorems *)

\* Objects, calls and files keep their types, and an abandoned claim is one that is in
\* force: no release that comes later takes it off the list while nobody stands for it.
THEOREM ClientsTypesCorrect == ClientsSpec => []ClientsTypeOK
<1>1. OwnershipInv => ClientsTypeOK
  BY DEF OwnershipInv
<1> QED
  BY <1>1, OwnershipInvariant, PTL

\* cuddl_memregion_claim_and_map() and its like lose no claim at any of their early
\* returns: what a running process has claimed is that of an object in use or of the call
\* it is in, unless a release failed or an object was filled again.  Drivers may release
\* claimed devices (hot unplug); that they are not unloaded under a claim is assumed since
\* the lists of the manager say nothing of use after that.
THEOREM ClaimsAreOwned ==
  ASSUME ClaimsPin
  PROVE  ClientsSpec => []ClaimsHaveOwners
<1>1. ASSUME OwnershipInv
      PROVE  ClaimsHaveOwners
  <2> SUFFICES ASSUME NEW p \in running
               PROVE  LET used == {o \in ObjectsOf(p) : objects[o] # NULL} IN
                      /\ {c \in claims : c.pid = p} =
                           {objects[o].claim : o \in used} \cup InHand(p) \cup {c \in abandoned : c.pid = p}
                      /\ \A o \in used : \E f \in files : f.pid = p /\ f.claim = objects[o].claim
    BY DEF ClaimsHaveOwners
  <2> DEFINE used == {o \in ObjectsOf(p) : objects[o] # NULL}
  <2>1. p \in Procs
    BY <1>1 DEF OwnershipInv, ClientsTypeOK
  <2>2. InHand(p) = IF Holding(p) THEN {calls[p].claim} ELSE {}
    BY DEF InHand, Holding
  <2>3. \A o \in used : o \in Objects /\ InUse(o) /\ ProcOf[o] = p
    BY DEF ObjectsOf, InUse
  <2>4. ASSUME NEW c \in claims, c.pid = p, c \notin abandoned
        PROVE  c \in {objects[o].claim : o \in used} \cup InHand(p)
    <3>1. CASE \E o \in Objects : InUse(o) /\ objects[o].claim = c
      <4>1. PICK o \in Objects : InUse(o) /\ objects[o].claim = c
        BY <3>1
      <4>2. o \in used
        BY <1>1, <2>4, <4>1 DEF OwnershipInv, ProcessInv, ObjectsInv, ObjectsOf, InUse
      <4> QED
        BY <4>1, <4>2
    <3>2. CASE Holding(c.pid) /\ calls[c.pid].claim = c
      BY <2>2, <2>4, <3>2
    <3> QED
      BY <1>1, <2>4, <3>1, <3>2 DEF OwnershipInv, ProcessInv, OwnersInv
  <2>5. \A o \in used : /\ objects[o].claim \in claims /\ objects[o].claim.pid = p
                        /\ \E f \in files : f.pid = p /\ f.claim = objects[o].claim
    BY <1>1, <2>3 DEF OwnershipInv, ProcessInv, ProcessesInv, ObjectsInv
  <2>6. \A c \in InHand(p) : c \in claims /\ c.pid = p
    BY <1>1, <2>1, <2>2 DEF OwnershipInv, ProcessInv, CallsInv
  <2>7. abandoned \subseteq claims
    BY <1>1 DEF OwnershipInv, ClientsTypeOK
  <2> HIDE DEF used
  <2>8. {c \in claims : c.pid = p} =
          {objects[o].claim : o \in used} \cup InHand(p) \cup {c \in abandoned : c.pid = p}
    BY <2>4, <2>5, <2>6, <2>7
  <2> QED
    BY <2>5, <2>8 DEF used
<1> QED
  BY <1>1, OwnershipInvariant, PTL

\* Exclusive claims keep other running processes out of the resource itself: a file on a
\* device node stands for a claim that no other file stands for.  A driver that is unloaded
\* under a claim and loaded again counts from zero, hence the assumption.
THEOREM UseIsExclusive ==
  ASSUME ClaimsPin
  PROVE  ClientsSpec => []ExclusiveUse
<1>1. ASSUME OwnershipInv
      PROVE  ExclusiveUse
  <2> SUFFICES ASSUME NEW f \in files, NEW g \in files, {f.pid, g.pid} \subseteq running, f # g,
                      Table!Alike(f.claim, g.claim), ~Shared[f.claim.dev][f.claim.res]
               PROVE  f.claim.hostile \/ g.claim.hostile
    BY DEF ExclusiveUse
  <2>1. f.claim \in claims /\ g.claim \in claims /\ f.claim # g.claim
    BY <1>1 DEF OwnershipInv, ProcessInv, ProcessesInv
  <2> QED
    BY <1>1, <2>1 DEF OwnershipInv, ProcessInv, ExclusiveInv
<1> QED
  BY <1>1, OwnershipInvariant, PTL

\* The node number in the answer to a claim is still that of the claimed device when the
\* library opens /dev/uio<number>, in another system call, unless the claim was granted
\* while its driver was being unloaded.
THEOREM NodesBelongToClaims ==
  ASSUME ReleasedAtUnload, ClaimsPin
  PROVE  ClientsSpec => []MapsWhatItClaimed
<1>1. ClientsInv => MapsWhatItClaimed
  BY DEF ClientsInv, LinksInv, MapsWhatItClaimed
<1> QED
  BY <1>1, ClientsInvariant, PTL

\* try_module_get() in UIO's open() keeps the driver to the last close, in whichever order
\* the files of a killed process are closed, and whether or not the claim pins it too.
THEOREM DevicesStayWhileOpen ==
  ASSUME ReleasedAtUnload
  PROVE  ClientsSpec => []OpenFilesKeepTheirDevice
<1>1. OpenInv => OpenFilesKeepTheirDevice
  BY DEF OpenInv, Kept, OpenFilesKeepTheirDevice
<1> QED
  BY <1>1, OpenInvariant, PTL

\* What a slot number says when it names a resource of a device.
LEMMA NamesAnswer ==
  ASSUME NamedIsPopulated, ClientsTypeOK, NEW s \in Slots, NEW d \in Devs, NEW r \in Resources,
         Names(s, d, r)
  PROVE  /\ StatusForSlot(r[1], s, r[2]) = "ok"
         /\ IdForSlot(r[1], s, r[2]) = IdOf(d, r)
         /\ DriverInfo(s) = {d} /\ HwInfo(s) = {d}
         /\ r[1] = "event" => EventsrcIsEnabled(s, r[2]) = {d}
<1>1. devices[s] = d /\ d # NULL /\ Populated[d][r]
  BY RegistryAssumption DEF Names, NamedIsPopulated
<1>2. r = <<r[1], r[2]>> /\ r[1] \in {"mem", "event"}
  BY ResourcePairs
<1>3. CASE r[1] = "mem"
  <2>1. r = <<"mem", r[2]>>
    BY <1>2, <1>3
  <2>2. r[2] \in 0 .. CUDDLK_MAX_DEV_MEM_REGIONS - 1
    BY <2>1, ResourcePairs
  <2> QED
    BY <1>1, <1>3, <2>1, <2>2 DEF StatusForSlot, MemregionIdForSlot, IdForSlot, DriverInfo, HwInfo
<1>4. CASE r[1] = "event"
  <2>1. r = <<"event", r[2]>>
    BY <1>2, <1>4
  <2>2. r[2] \in 0 .. CUDDLK_MAX_DEV_EVENTS - 1
    BY <2>1, ResourcePairs
  <2> QED
    BY <1>1, <1>4, <2>1, <2>2 DEF StatusForSlot, EventsrcIdForSlot, IdForSlot, DriverInfo, HwInfo,
       EventsrcIsEnabled
<1> QED
  BY <1>2, <1>3, <1>4

\* A token is a slot number, and yet good from the claim to the release: a claim that pins
\* the driver keeps the slot from being given to another device meanwhile.
THEOREM TokensAreGood ==
  ASSUME ReleasedAtUnload, ClaimsPin, NamedIsPopulated
  PROVE  ClientsSpec => []TokensStayGood
<1>1. ASSUME ClientsInv
      PROVE  TokensStayGood
  <2>1. ASSUME NEW t, t.slot \in Slots, t.claim \in claims, Names(t.slot, t.claim.dev, t.claim.res)
        PROVE  /\ ResourceIdOf(t) = {IdOf(t.claim.dev, t.claim.res)}
               /\ t.claim.res[1] = "event" => IsEnabledAsks(t) = {t.claim.dev}
    <3>1. t.claim.dev \in Devs /\ t.claim.res \in Resources
      BY <1>1, <2>1 DEF ClientsInv, OwnershipInv, ClientsTypeOK, Claim
    <3> QED
      BY <1>1, <2>1, <3>1, NamesAnswer DEF ClientsInv, OwnershipInv, ResourceIdOf, IsEnabledAsks
  <2>2. ASSUME NEW p \in running, NEW o \in ObjectsOf(p), objects[o] # NULL
        PROVE  LET t == objects[o] IN
               t.slot \in Slots /\ t.claim \in claims /\ Names(t.slot, t.claim.dev, t.claim.res)
    <3>1. o \in Objects /\ InUse(o) /\ objects[o] \in Object
      BY <1>1, <2>2 DEF ObjectsOf, InUse, ClientsInv, OwnershipInv, ClientsTypeOK
    <3> QED
      BY <1>1, <3>1 DEF Object, ClientsInv, OwnershipInv, ProcessInv, ObjectsInv, LinksInv
  <2>3. ASSUME NEW p \in running, InHand(p) # {}
        PROVE  LET t == [claim |-> calls[p].claim, slot |-> calls[p].slot] IN
               t.slot \in Slots /\ t.claim \in claims /\ Names(t.slot, t.claim.dev, t.claim.res)
    <3>1. p \in Procs /\ Holding(p) /\ ClientsTypeOK
      BY <1>1, <2>3 DEF InHand, Holding, ClientsInv, OwnershipInv, ClientsTypeOK
    <3>2. calls[p].slot \in Slots
      BY <3>1, CallKinds DEF ClaimCall
    <3> QED
      BY <1>1, <3>1, <3>2 DEF ClientsInv, OwnershipInv, ProcessInv, CallsInv, LinksInv
  <2> QED
    BY <2>1, <2>2, <2>3 DEF TokensStayGood
<1> QED
  BY <1>1, ClientsInvariant, PTL

\* The two ioctls of a question by identifier speak of the same device, although the table
\* is unlocked between them, if the process that asks has that device open.
THEOREM MatchesAreAnswered ==
  ASSUME ReleasedAtUnload, NamedIsPopulated
  PROVE  ClientsSpec => []MatchIsAnswered
<1>1. ASSUME OwnershipInv, OpenInv
      PROVE  MatchIsAnswered
  <2> SUFFICES ASSUME NEW p \in Procs, calls[p].at = "asked",
                      \E f \in files : f.pid = p /\ f.dev = calls[p].dev
               PROVE  /\ AnswerAbout(calls[p]) = {IdOf(calls[p].dev, calls[p].res)}
                      /\ DriverInfo(calls[p].slot) = {calls[p].dev}
                      /\ HwInfo(calls[p].slot) = {calls[p].dev}
    BY DEF MatchIsAnswered
  <2>1. calls[p].slot \in Slots /\ calls[p].dev \in Devs /\ calls[p].res \in Resources
    BY <1>1, CallKinds DEF Question, OwnershipInv
  <2>2. Names(calls[p].slot, calls[p].dev, calls[p].res)
    BY <1>1 DEF OpenInv
  <2> QED
    BY <1>1, <2>1, <2>2, NamesAnswer DEF OwnershipInv, AnswerAbout
<1> QED
  BY <1>1, OpenInvariant, PTL

\* The kernel modules of the composed system step as they do alone, so that what is proved
\* of them holds of it too: users and drivers only keep them from going.
THEOREM ClientsImplementModules == ClientsSpec => ModulesSpec /\ []FailureUndoesWhatWasDone
<1>1. ClientsInit => ModulesInit
  BY DEF ClientsInit
<1>2. [ClientsNext]_clientsVars => [ModulesNext]_modulesVars
  <2>1. ASSUME NEW m \in KernelModules, KernelModuleStep(m)
        PROVE  ModulesNext
    BY <2>1 DEF KernelModuleStep, ModuleExit, ModulesNext
  <2>2. DriverStep => UNCHANGED modulesVars
    BY DEF DriverStep, Insmod, Rmmod, RmmodDone, Manage, ManageFails, ReleaseDevice
  <2>3. CallStep => UNCHANGED modulesVars
    BY CallsKeepTable
  <2>4. UNCHANGED clientsVars => UNCHANGED modulesVars
    BY DEF clientsVars
  <2> QED
    BY <2>1, <2>2, <2>3, <2>4, StepKinds DEF CallStep, ObjectStep
<1> QED
  BY <1>1, <1>2, ModulesUndoWhatTheyDid, PTL DEF ClientsSpec, ModulesSpec

\* The device table of the composed system is that of CuddlRegistry: uses of a device only
\* keep its driver, and what is proved of the table holds under the users' load.
THEOREM ClientsImplementRegistry == ClientsSpec => RegistrySpec
<1>1. ClientsInit => RegistryInit
  BY DEF ClientsInit
<1>2. [ClientsNext]_clientsVars => [RegistryNext]_registryVars
  <2>1. ASSUME NEW m \in KernelModules, KernelModuleStep(m)
        PROVE  UNCHANGED registryVars
    BY <2>1 DEF KernelModuleStep
  <2>2. DriverStep => RegistryNext
    BY DEF DriverStep, RegistryNext, Insmod, Rmmod, RmmodDone, Manage, ManageFails, ReleaseDevice
  <2>3. CallStep => UNCHANGED registryVars
    BY CallsKeepTable DEF tableVars
  <2>4. UNCHANGED clientsVars => UNCHANGED registryVars
    BY DEF clientsVars
  <2> QED
    BY <2>1, <2>2, <2>3, <2>4, StepKinds DEF CallStep, ObjectStep
<1> QED
  BY <1>1, <1>2, PTL DEF ClientsSpec, RegistrySpec
=============================================================================
