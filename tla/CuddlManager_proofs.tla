-------------------------- MODULE CuddlManager_proofs --------------------------
(***************************************************************************)
(* Proofs about the claim protocol, for every number of processes,         *)
(* devices, resources and slots.                                           *)
(***************************************************************************)
EXTENDS CuddlManager, CuddlRegistry_proofs

-----------------------------------------------------------------------------
(* Type correctness *)

\* The operators on counts return counts.
LEMMA CountsTyped ==
  ASSUME ManagerTypeOK, NEW d \in Devs, NEW r \in Resources,
         NEW count \in [Devs -> [Resources -> Nat]],
         NEW pinned \in [Modules -> Nat]
  PROVE  /\ CountClaimed(d, r) \in [Devs -> [Resources -> Nat]]
         /\ PinsClaimed(d) \in [Modules -> Nat]
         /\ CountDecr(count, d, r) \in [Devs -> [Resources -> Nat]]
         /\ PinsDecr(pinned, count, d, r) \in [Modules -> Nat]
<1> USE ManagerAssumption DEF ManagerTypeOK
<1>1. CountClaimed(d, r) \in [Devs -> [Resources -> Nat]]
  BY DEF CountClaimed
<1>2. PinsClaimed(d) \in [Modules -> Nat]
  BY DEF PinsClaimed
<1>3. CountDecr(count, d, r) \in [Devs -> [Resources -> Nat]]
  BY DEF CountDecr
<1>4. PinsDecr(pinned, count, d, r) \in [Modules -> Nat]
  <2>1. OwnerOf[d] \in Modules /\ pinned[OwnerOf[d]] \in Nat
    OBVIOUS
  <2>2. CASE count[d][r] = 0 \/ pinned[OwnerOf[d]] = 0
    BY <2>2 DEF PinsDecr
  <2>3. CASE ~(count[d][r] = 0 \/ pinned[OwnerOf[d]] = 0)
    <3>1. pinned[OwnerOf[d]] - 1 \in Nat
      BY <2>1, <2>3
    <3>2. PinsDecr(pinned, count, d, r) = [pinned EXCEPT ![OwnerOf[d]] = @ - 1]
      BY <2>3 DEF PinsDecr
    <3> QED
      BY <3>1, <3>2
  <2> QED
    BY <2>2, <2>3
<1> QED
  BY <1>1, <1>2, <1>3, <1>4

LEMMA StepCountsTyped ==
  ASSUME ManagerTypeOK, NEW d \in Devs, NEW r \in Resources
  PROVE  /\ CountClaimed(d, r) \in [Devs -> [Resources -> Nat]]
         /\ PinsClaimed(d) \in [Modules -> Nat]
         /\ CountDecr(ref_count, d, r) \in [Devs -> [Resources -> Nat]]
         /\ PinsDecr(pins, ref_count, d, r) \in [Modules -> Nat]
         /\ CountDecr(CountClaimed(d, r), d, r) \in [Devs -> [Resources -> Nat]]
         /\ PinsDecr(PinsClaimed(d), CountClaimed(d, r), d, r) \in [Modules -> Nat]
<1>1. ref_count \in [Devs -> [Resources -> Nat]] /\ pins \in [Modules -> Nat]
  BY DEF ManagerTypeOK
<1>2. /\ CountClaimed(d, r) \in [Devs -> [Resources -> Nat]]
      /\ PinsClaimed(d) \in [Modules -> Nat]
  BY <1>1, CountsTyped
<1> QED
  BY <1>1, <1>2, CountsTyped

\* The account of granted claims stays an account.
LEMMA HeldTyped ==
  ASSUME held \in [Procs -> [Tokens -> Nat]],
         NEW p \in Procs, NEW t \in Tokens
  PROVE  /\ held[p][t] \in Nat
         /\ \A n \in Nat : [held EXCEPT ![p][t] = n] \in [Procs -> [Tokens -> Nat]]
  OBVIOUS

\* The slot an ioctl resolves its identifier to holds a device.
LEMMA ResolvedDevice ==
  ASSUME ManagerTypeOK, NEW p, NEW s \in Slots, NEW r \in Resources,
         Resolved(p, s, r)
  PROVE  devices[s] \in Devs
<1>1. PICK id \in Ids : <<s, r>> \in Lookup(id, r[1])
  BY DEF Resolved
<1> QED
  BY <1>1, LookupFindsDevice DEF ManagerTypeOK

LEMMA MemRegionsAndEventSrcs ==
  MemRegions \subseteq Resources /\ EventSrcs \subseteq Resources
  BY DEF Resources

\* What one ioctl of one process can be.
LEMMA IoctlCases ==
  ASSUME NEW p \in Procs, Ioctl(p)
  PROVE  \E s \in Slots, r \in Resources :
           \/ \E hostile \in BOOLEAN : Claim(p, s, r, hostile)
           \/ \E hostile \in BOOLEAN : ClaimUndone(p, s, r, hostile)
           \/ InfoFault(p, s, r)
           \/ Release(p, s, r)
           \/ ReleaseNoDevice(p, s, r)
           \/ DecrementRefCount(p, s, r)
<1>1. CASE MemregionClaimIoctl(p)
  BY <1>1, MemRegionsAndEventSrcs DEF MemregionClaimIoctl, ClaimIoctl
<1>2. CASE EventsrcClaimIoctl(p)
  BY <1>2, MemRegionsAndEventSrcs DEF EventsrcClaimIoctl, ClaimIoctl
<1>3. CASE MemregionReleaseIoctl(p) \/ EventsrcReleaseIoctl(p)
  BY <1>3, MemRegionsAndEventSrcs DEF MemregionReleaseIoctl, EventsrcReleaseIoctl
<1>4. CASE MemregionDecrementIoctl(p) \/ EventsrcDecrementIoctl(p)
  BY <1>4, MemRegionsAndEventSrcs DEF MemregionDecrementIoctl, EventsrcDecrementIoctl
<1> QED
  BY <1>1, <1>2, <1>3, <1>4 DEF Ioctl

LEMMA ManagerInitType == ManagerInit => ManagerTypeOK
<1> SUFFICES ASSUME ManagerInit PROVE ManagerTypeOK
  OBVIOUS
<1>1. RegistryTypeOK
  BY RegistryInitType DEF ManagerInit
<1>2. IsFiniteSet(refs)
  BY FS_EmptySet DEF ManagerInit
<1> QED
  BY <1>1, <1>2 DEF ManagerInit, ManagerTypeOK

\* An ioctl keeps the types.
LEMMA IoctlType ==
  ASSUME ManagerTypeOK, NEW p \in Procs, Ioctl(p)
  PROVE  ManagerTypeOK'
<1>1. PICK s \in Slots, r \in Resources :
           \/ \E hostile \in BOOLEAN : Claim(p, s, r, hostile)
           \/ \E hostile \in BOOLEAN : ClaimUndone(p, s, r, hostile)
           \/ InfoFault(p, s, r)
           \/ Release(p, s, r)
           \/ ReleaseNoDevice(p, s, r)
           \/ DecrementRefCount(p, s, r)
  BY IoctlCases
<1>2. <<s, r>> \in Tokens
  BY DEF Tokens
<1>3. devices[s] \in Devs \/ devices[s] = NULL
  BY DEF ManagerTypeOK, RegistryTypeOK
<1>4. ASSUME NEW hostile \in BOOLEAN, Claim(p, s, r, hostile)
      PROVE  ManagerTypeOK'
  <2>1. devices[s] \in Devs
    BY <1>4, ResolvedDevice DEF Claim, Claimable
  <2>2. PICK a \in Addrs :
          refs' = refs \cup {[addr |-> a, slot |-> s, res |-> r, pid |-> p,
                              dev |-> devices[s], hostile |-> hostile]}
    BY <1>4 DEF Claim
  <2> DEFINE node == [addr |-> a, slot |-> s, res |-> r, pid |-> p,
                      dev |-> devices[s], hostile |-> hostile]
  <2>a. node \in Ref
    BY <2>1 DEF Ref
  <2>3. refs' \subseteq Ref /\ IsFiniteSet(refs')
    <3>1. IsFiniteSet(refs) /\ refs \subseteq Ref
      BY DEF ManagerTypeOK
    <3>2. IsFiniteSet(refs \cup {node})
      BY <3>1, FS_AddElement
    <3>3. refs' = refs \cup {node}
      BY <2>2
    <3> HIDE DEF node
    <3> QED
      BY <2>a, <3>1, <3>2, <3>3
  <2>4. ref_count' \in [Devs -> [Resources -> Nat]] /\ pins' \in [Modules -> Nat]
    BY <1>4, <2>1, StepCountsTyped DEF Claim
  <2>5. held' \in [Procs -> [Tokens -> Nat]]
    <3> DEFINE t == <<s, r>>
               n == held[p][t] + 1
    <3>1. held' = held \/ held' = [held EXCEPT ![p][t] = n]
      BY <1>4 DEF Claim
    <3>2. t \in Tokens /\ held[p][t] \in Nat
      BY <1>2, HeldTyped DEF ManagerTypeOK
    <3>3. n \in Nat
      BY <3>2
    <3> HIDE DEF t, n
    <3> QED
      BY <3>1, <3>2, <3>3, HeldTyped DEF ManagerTypeOK
  <2>6. RegistryTypeOK'
    BY <1>4, RegistryStutterType DEF Claim, ManagerTypeOK
  <2> QED
    BY <1>4, <2>3, <2>4, <2>5, <2>6 DEF Claim, ManagerTypeOK, Ref, CleanUp, JanitorFile
<1>5. ASSUME NEW hostile \in BOOLEAN, ClaimUndone(p, s, r, hostile)
      PROVE  ManagerTypeOK'
  <2>1. devices[s] \in Devs
    BY <1>5, ResolvedDevice DEF ClaimUndone, Claimable
  <2>2. ref_count' \in [Devs -> [Resources -> Nat]] /\ pins' \in [Modules -> Nat]
    BY <1>5, <2>1, StepCountsTyped DEF ClaimUndone
  <2> QED
    BY <1>5, <2>2, RegistryStutterType
       DEF ClaimUndone, procVars, ManagerTypeOK, Ref, CleanUp, JanitorFile
<1>6. ASSUME InfoFault(p, s, r) \/ DecrementRefCount(p, s, r)
      PROVE  ManagerTypeOK'
  <2>1. devices[s] \in Devs
    BY <1>6, ResolvedDevice DEF InfoFault, DecrementRefCount
  <2>2. ref_count' \in [Devs -> [Resources -> Nat]] /\ pins' \in [Modules -> Nat]
    BY <1>6, <2>1, StepCountsTyped DEF InfoFault, DecrementRefCount
  <2> QED
    BY <1>6, <2>2, RegistryStutterType
       DEF InfoFault, DecrementRefCount, procVars, ManagerTypeOK, Ref, CleanUp, JanitorFile
<1>7. ASSUME Release(p, s, r)
      PROVE  ManagerTypeOK'
  <2>1. devices[s] \in Devs
    BY <1>3, <1>7 DEF Release
  <2>2. ref_count' \in [Devs -> [Resources -> Nat]] /\ pins' \in [Modules -> Nat]
    BY <1>7, <2>1, StepCountsTyped DEF Release
  <2>3. refs' \subseteq refs
    BY <1>7 DEF Release
  <2>4. IsFiniteSet(refs')
    BY <2>3, FS_Subset DEF ManagerTypeOK
  <2>5. held' \in [Procs -> [Tokens -> Nat]]
    <3> DEFINE t == <<s, r>>
               n == IF held[p][t] = 0 THEN 0 ELSE held[p][t] - 1
    <3>1. held' = [held EXCEPT ![p][t] = n]
      BY <1>7 DEF Release
    <3>2. t \in Tokens /\ held[p][t] \in Nat
      BY <1>2, HeldTyped DEF ManagerTypeOK
    <3>3. n \in Nat
      BY <3>2
    <3> HIDE DEF t, n
    <3> QED
      BY <3>1, <3>2, <3>3, HeldTyped DEF ManagerTypeOK
  <2>6. RegistryTypeOK'
    BY <1>7, RegistryStutterType DEF Release, ManagerTypeOK
  <2> QED
    BY <1>7, <2>2, <2>3, <2>4, <2>5, <2>6 DEF Release, ManagerTypeOK, Ref, CleanUp, JanitorFile
<1>8. ASSUME ReleaseNoDevice(p, s, r)
      PROVE  ManagerTypeOK'
  <2>1. held' \in [Procs -> [Tokens -> Nat]]
    <3> DEFINE t == <<s, r>>
               n == held[p][t] - 1
    <3>1. held' = [held EXCEPT ![p][t] = n]
      BY <1>8 DEF ReleaseNoDevice
    <3>2. t \in Tokens /\ held[p][t] \in Nat
      BY <1>2, HeldTyped DEF ManagerTypeOK
    <3>3. held[p][t] > 0
      BY <1>8 DEF ReleaseNoDevice
    <3>4. n \in Nat
      BY <3>2, <3>3
    <3> HIDE DEF t, n
    <3> QED
      BY <3>1, <3>2, <3>4, HeldTyped DEF ManagerTypeOK
  <2> QED
    BY <1>8, <2>1, RegistryStutterType
       DEF ReleaseNoDevice, claimVars, ManagerTypeOK, Ref, CleanUp, JanitorFile
<1> QED
  BY <1>1, <1>4, <1>5, <1>6, <1>7, <1>8

\* A step of a process's life keeps the types.
LEMMA ProcessType ==
  ASSUME ManagerTypeOK, NEW p \in Procs, Process(p)
  PROVE  ManagerTypeOK'
<1> USE RegistryStutterType DEF ManagerTypeOK, claimVars
<1>1. CASE ProcStart(p)
  BY <1>1 DEF ProcStart, JanitorFile, Ref, CleanUp
<1>2. ASSUME NEW c \in Procs, ProcFork(p, c)
      PROVE  ManagerTypeOK'
  BY <1>2 DEF ProcFork, JanitorFile, Ref, CleanUp
<1>3. CASE ProcExit(p)
  BY <1>3 DEF ProcExit, JanitorFile, Ref, CleanUp
<1>4. CASE JanitorClose(p)
  BY <1>4 DEF JanitorClose, JanitorFile, Ref, CleanUp
<1>5. CASE JanitorRelease(p)
  BY <1>5 DEF JanitorRelease, JanitorFile, Ref, CleanUp
<1>6. CASE ProcReap(p)
  BY <1>6 DEF ProcReap, JanitorFile, Ref, CleanUp
<1> QED
  BY <1>1, <1>2, <1>3, <1>4, <1>5, <1>6 DEF Process

\* A round of the clean-up keeps the types.
LEMMA CleanUpType ==
  ASSUME ManagerTypeOK, CleanUpStep
  PROVE  ManagerTypeOK'
<1>1. ASSUME NEW e \in refs, FreeRef(e)
      PROVE  ManagerTypeOK'
  <2>1. e.res \in Resources /\ devices[e.slot] \in Devs
    BY <1>1 DEF FreeRef, ManagerTypeOK, RegistryTypeOK, Ref
  <2>2. ref_count' \in [Devs -> [Resources -> Nat]] /\ pins' \in [Modules -> Nat]
    BY <1>1, <2>1, StepCountsTyped DEF FreeRef
  <2>3. refs' \subseteq refs
    BY <1>1 DEF FreeRef
  <2>4. IsFiniteSet(refs')
    BY <2>3, FS_Subset DEF ManagerTypeOK
  <2> QED
    BY <1>1, <2>2, <2>3, <2>4, RegistryStutterType
       DEF FreeRef, procVars, ManagerTypeOK, Ref, CleanUp, JanitorFile
<1>2. ASSUME NEW e \in refs, FreeRefNullDevice(e)
      PROVE  ManagerTypeOK'
  BY <1>2, RegistryStutterType
     DEF FreeRefNullDevice, claimVars, ManagerTypeOK, Ref, CleanUp, JanitorFile
<1>3. CASE FreeRefsDone
  BY <1>3, RegistryStutterType
     DEF FreeRefsDone, claimVars, ManagerTypeOK, Ref, CleanUp, JanitorFile
<1> QED
  BY <1>1, <1>2, <1>3 DEF CleanUpStep

\* A driver's step keeps the types.
LEMMA DriverType ==
  ASSUME ManagerTypeOK, DriverStep
  PROVE  ManagerTypeOK'
<1>1. RegistryNext
  BY DEF DriverStep, Insmod, Rmmod, RmmodDone, Manage, ReleaseDevice, RegistryNext
<1>2. RegistryTypeOK'
  BY <1>1, RegistryNextType DEF ManagerTypeOK
<1>3. ASSUME NEW m \in Drivers, Insmod(m)
      PROVE  ManagerTypeOK'
  <2>1. ref_count' \in [Devs -> [Resources -> Nat]] /\ pins' \in [Modules -> Nat]
    BY <1>3 DEF Insmod, ManagerTypeOK
  <2> QED
    BY <1>2, <1>3, <2>1 DEF Insmod, procVars, ManagerTypeOK, Ref, CleanUp, JanitorFile
<1>4. CASE UNCHANGED <<claimVars, procVars>>
  BY <1>2, <1>4 DEF claimVars, procVars, ManagerTypeOK, Ref, CleanUp, JanitorFile
<1> QED
  BY <1>3, <1>4 DEF DriverStep, Rmmod, RmmodDone, Manage, ReleaseDevice

LEMMA ManagerNextType == ManagerTypeOK /\ [ManagerNext]_managerVars => ManagerTypeOK'
<1> SUFFICES ASSUME ManagerTypeOK, [ManagerNext]_managerVars
             PROVE  ManagerTypeOK'
  OBVIOUS
<1>1. CASE ManagerNext
  BY <1>1, IoctlType, ProcessType, CleanUpType, DriverType DEF ManagerNext
<1>2. CASE UNCHANGED managerVars
  BY <1>2, RegistryStutterType
     DEF managerVars, claimVars, procVars, ManagerTypeOK, Ref, CleanUp, JanitorFile
<1> QED
  BY <1>1, <1>2

\* Every variable keeps its type, whatever the environment is allowed to do: the
\* counts of resources and modules never go below zero.
THEOREM TypeCorrect == ManagerSpec => []ManagerTypeOK
<1>1. ManagerInit => ManagerTypeOK
  BY ManagerInitType
<1>2. ManagerTypeOK /\ [ManagerNext]_managerVars => ManagerTypeOK'
  BY ManagerNextType
<1> QED
  BY <1>1, <1>2, PTL DEF ManagerSpec

-----------------------------------------------------------------------------
(* Counts and the list *)

\* Claims that were made on the device now in slot s, while it was there.
ClaimsVia(s, r) == {e \in refs : e.slot = s /\ e.dev = devices[s] /\ e.res = r}

\* A struct that a driver may manage has not been counted on since its module was loaded.
PhantomInv ==
  /\ \A s, t \in Slots : devices[s] = devices[t] /\ devices[s] # NULL => s = t
  /\ \A d \in Managed : modstate[DriverOf[d]] # "unloaded"
  /\ \A s \in Slots, r \in Resources :
       devices[s] # NULL => ref_count[devices[s]][r] <= Cardinality(ClaimsVia(s, r))
  /\ \A d \in Devs \ Managed, r \in Resources :
       modstate[DriverOf[d]] = "live" => ref_count[d][r] = 0

LEMMA ListPartCounted ==
  ASSUME ManagerTypeOK, NEW s, NEW r
  PROVE  IsFiniteSet(ClaimsVia(s, r)) /\ Cardinality(ClaimsVia(s, r)) \in Nat
<1>1. ClaimsVia(s, r) \subseteq refs /\ IsFiniteSet(refs)
  BY DEF ClaimsVia, ManagerTypeOK
<1> QED
  BY <1>1, FS_Subset, FS_CardinalityType

\* One of the count and at most one of the list: the release of a token, an emergency
\* decrement, a failing INFO call and a round of the clean-up.
LEMMA CountGoesDown ==
  ASSUME ManagerTypeOK, PhantomInv, UNCHANGED registryVars,
         NEW s \in Slots, NEW r \in Resources, devices[s] # NULL,
         ref_count' = CountDecr(ref_count, devices[s], r),
         UNCHANGED refs \/ \E e \in refs : e.slot = s /\ e.res = r /\ refs' = refs \ {e}
  PROVE  PhantomInv'
<1> DEFINE d == devices[s]
<1>1. /\ devices' = devices /\ modstate' = modstate
      /\ d \in Devs /\ d \in Managed /\ Managed' = Managed
      /\ ref_count[d][r] \in Nat
  BY DEF registryVars, Managed, ManagerTypeOK, RegistryTypeOK
<1>2. \A e \in Devs, q \in Resources : ref_count'[e][q] =
        IF e = d /\ q = r /\ ref_count[d][r] # 0 THEN ref_count[d][r] - 1 ELSE ref_count[e][q]
  BY <1>1 DEF CountDecr, ManagerTypeOK
<1>3. \A t \in Slots, q \in Resources : t # s \/ q # r => ClaimsVia(t, q)' = ClaimsVia(t, q)
  BY <1>1 DEF ClaimsVia
<1>4. Cardinality(ClaimsVia(s, r)') >= Cardinality(ClaimsVia(s, r)) - 1
  <2>1. IsFiniteSet(ClaimsVia(s, r)) /\ Cardinality(ClaimsVia(s, r)) \in Nat
    BY ListPartCounted
  <2>2. CASE UNCHANGED refs
    <3>1. ClaimsVia(s, r)' = ClaimsVia(s, r)
      BY <1>1, <2>2 DEF ClaimsVia
    <3> QED
      BY <2>1, <3>1
  <2>3. ASSUME NEW e \in refs, refs' = refs \ {e}
        PROVE  Cardinality(ClaimsVia(s, r)') >= Cardinality(ClaimsVia(s, r)) - 1
    <3>1. ClaimsVia(s, r)' = ClaimsVia(s, r) \ {e}
      BY <1>1, <2>3 DEF ClaimsVia
    <3>2. Cardinality(ClaimsVia(s, r) \ {e}) = IF e \in ClaimsVia(s, r)
            THEN Cardinality(ClaimsVia(s, r)) - 1 ELSE Cardinality(ClaimsVia(s, r))
      BY <2>1, FS_RemoveElement
    <3> QED
      BY <2>1, <3>1, <3>2
  <2> QED
    BY <2>2, <2>3
<1>5. Cardinality(ClaimsVia(s, r)') \in Nat /\ Cardinality(ClaimsVia(s, r)) \in Nat
  <2>1. ClaimsVia(s, r)' \subseteq ClaimsVia(s, r)
    BY <1>1 DEF ClaimsVia
  <2> QED
    BY <2>1, ListPartCounted, FS_Subset, FS_CardinalityType
<1>6. ref_count'[d][r] <= Cardinality(ClaimsVia(s, r)')
  <2>1. ref_count[d][r] <= Cardinality(ClaimsVia(s, r))
    BY DEF PhantomInv
  <2> QED
    BY <1>1, <1>2, <1>4, <1>5, <2>1
<1> HIDE DEF d
<1>7. ASSUME NEW t \in Slots, NEW q \in Resources, devices[t] # NULL
      PROVE  ref_count'[devices[t]][q] <= Cardinality(ClaimsVia(t, q)')
  <2>1. CASE t = s /\ q = r
    BY <1>6, <2>1 DEF d
  <2>2. CASE ~(t = s /\ q = r)
    <3>1. ~(devices[t] = d /\ q = r)
      BY <1>7, <2>2 DEF PhantomInv, d
    <3>2. devices[t] \in Devs
      BY <1>7 DEF ManagerTypeOK, RegistryTypeOK
    <3> QED
      BY <1>2, <1>3, <1>7, <2>2, <3>1, <3>2 DEF PhantomInv
  <2> QED
    BY <2>1, <2>2
<1>8. \A e \in Devs \ Managed, q \in Resources : modstate[DriverOf[e]] = "live" => ref_count'[e][q] = 0
  BY <1>1, <1>2 DEF PhantomInv
<1> QED
  BY <1>1, <1>7, <1>8 DEF PhantomInv

\* One of the count and one of the list.
LEMMA CountGoesUp ==
  ASSUME ManagerTypeOK, PhantomInv, NEW p \in Procs, NEW s \in Slots, NEW r \in Resources,
         NEW hostile \in BOOLEAN, Claim(p, s, r, hostile)
  PROVE  PhantomInv'
<1> DEFINE d == devices[s]
<1>1. d \in Devs
  BY ResolvedDevice DEF Claim, Claimable
<1>2. /\ devices' = devices /\ modstate' = modstate
      /\ d \in Managed /\ Managed' = Managed /\ d # NULL
      /\ ref_count[d][r] \in Nat
  BY <1>1, RegistryAssumption DEF Claim, registryVars, Managed, ManagerTypeOK
<1>3. PICK a \in Addrs \ {e.addr : e \in refs} :
        refs' = refs \cup {[addr |-> a, slot |-> s, res |-> r, pid |-> p, dev |-> d, hostile |-> hostile]}
  BY DEF Claim
<1> DEFINE node == [addr |-> a, slot |-> s, res |-> r, pid |-> p, dev |-> d, hostile |-> hostile]
<1>4. /\ refs' = refs \cup {node} /\ node \notin refs
      /\ node.slot = s /\ node.dev = d /\ node.res = r
  BY <1>3
<1>5. \A e \in Devs, q \in Resources : ref_count'[e][q] =
        IF e = d /\ q = r THEN ref_count[d][r] + 1 ELSE ref_count[e][q]
  BY <1>1 DEF Claim, CountClaimed, ManagerTypeOK
<1> HIDE DEF node
<1>6. /\ ClaimsVia(s, r)' = ClaimsVia(s, r) \cup {node} /\ node \notin ClaimsVia(s, r)
      /\ \A t \in Slots, q \in Resources : t # s \/ q # r => ClaimsVia(t, q)' = ClaimsVia(t, q)
  BY <1>2, <1>4 DEF ClaimsVia
<1>7. Cardinality(ClaimsVia(s, r)') = Cardinality(ClaimsVia(s, r)) + 1
  BY <1>6, ListPartCounted, FS_AddElement
<1>8. ref_count'[d][r] <= Cardinality(ClaimsVia(s, r)')
  <2>1. ref_count[d][r] <= Cardinality(ClaimsVia(s, r)) /\ Cardinality(ClaimsVia(s, r)) \in Nat
    BY <1>2, ListPartCounted DEF PhantomInv
  <2> QED
    BY <1>1, <1>2, <1>5, <1>7, <2>1
<1> HIDE DEF d
<1>9. ASSUME NEW t \in Slots, NEW q \in Resources, devices[t] # NULL
      PROVE  ref_count'[devices[t]][q] <= Cardinality(ClaimsVia(t, q)')
  <2>1. CASE t = s /\ q = r
    BY <1>8, <2>1 DEF d
  <2>2. CASE ~(t = s /\ q = r)
    <3>1. ~(devices[t] = d /\ q = r)
      BY <1>9, <2>2 DEF PhantomInv, d
    <3>2. devices[t] \in Devs
      BY <1>9 DEF ManagerTypeOK, RegistryTypeOK
    <3> QED
      BY <1>5, <1>6, <1>9, <2>2, <3>1, <3>2 DEF PhantomInv
  <2> QED
    BY <2>1, <2>2
<1>10. \A e \in Devs \ Managed, q \in Resources : modstate[DriverOf[e]] = "live" => ref_count'[e][q] = 0
  BY <1>2, <1>5 DEF PhantomInv
<1> QED
  BY <1>2, <1>9, <1>10 DEF PhantomInv

LEMMA CountsStay ==
  ASSUME PhantomInv, UNCHANGED <<registryVars, ref_count, refs>>
  PROVE  PhantomInv'
BY DEF PhantomInv, registryVars, Managed, ClaimsVia

LEMMA IoctlKeepsPhantomInv ==
  ASSUME ManagerTypeOK, PhantomInv, NEW p \in Procs, Ioctl(p)
  PROVE  PhantomInv'
<1>1. PICK s \in Slots, r \in Resources :
           \/ \E hostile \in BOOLEAN : Claim(p, s, r, hostile)
           \/ \E hostile \in BOOLEAN : ClaimUndone(p, s, r, hostile)
           \/ InfoFault(p, s, r)
           \/ Release(p, s, r)
           \/ ReleaseNoDevice(p, s, r)
           \/ DecrementRefCount(p, s, r)
  BY IoctlCases
<1>2. Resolved(p, s, r) => devices[s] \in Devs /\ devices[s] # NULL
  BY ResolvedDevice, RegistryAssumption
<1>3. ASSUME NEW hostile \in BOOLEAN, ClaimUndone(p, s, r, hostile)
      PROVE  PhantomInv'
  <2>1. devices[s] \in Devs
    BY <1>2, <1>3 DEF ClaimUndone, Claimable
  <2>2. ref_count' = CountDecr(CountClaimed(devices[s], r), devices[s], r)
    BY <1>3 DEF ClaimUndone
  <2>3. ref_count' = ref_count
    <3>1. ref_count[devices[s]][r] \in Nat
      BY <2>1 DEF ManagerTypeOK
    <3>2. CountClaimed(devices[s], r)[devices[s]][r] = ref_count[devices[s]][r] + 1
      BY <2>1 DEF CountClaimed, ManagerTypeOK
    <3>3. ref_count' = [CountClaimed(devices[s], r) EXCEPT ![devices[s]][r] = @ - 1]
      BY <2>2, <3>1, <3>2 DEF CountDecr
    <3>4. ref_count' \in [Devs -> [Resources -> Int]]
      BY <2>1, <3>3 DEF CountClaimed, ManagerTypeOK
    <3>5. \A d \in Devs, q \in Resources : ref_count'[d][q] = ref_count[d][q]
      BY <2>1, <3>1, <3>3 DEF CountClaimed, ManagerTypeOK
    <3> QED
      BY <3>4, <3>5 DEF ManagerTypeOK
  <2> QED
    BY <1>3, <2>3, CountsStay DEF ClaimUndone
<1>4. CASE InfoFault(p, s, r) \/ DecrementRefCount(p, s, r)
  BY <1>2, <1>4, CountGoesDown DEF InfoFault, DecrementRefCount
<1>5. CASE Release(p, s, r)
  BY <1>5, CountGoesDown DEF Release, RefsWith
<1>6. CASE ReleaseNoDevice(p, s, r)
  BY <1>6, CountsStay DEF ReleaseNoDevice, claimVars
<1> QED
  BY <1>1, <1>3, <1>4, <1>5, <1>6, CountGoesUp

LEMMA CleanUpKeepsPhantomInv ==
  ASSUME ManagerTypeOK, PhantomInv, CleanUpStep
  PROVE  PhantomInv'
<1>1. ASSUME NEW e \in refs, FreeRef(e)
      PROVE  PhantomInv'
  <2>1. e.slot \in Slots /\ e.res \in Resources
    BY DEF ManagerTypeOK, Ref
  <2> QED
    BY <1>1, <2>1, CountGoesDown DEF FreeRef
<1>2. ASSUME NEW e \in refs, FreeRefNullDevice(e)
      PROVE  PhantomInv'
  BY <1>2, CountsStay DEF FreeRefNullDevice, claimVars
<1>3. CASE FreeRefsDone
  BY <1>3, CountsStay DEF FreeRefsDone, claimVars
<1> QED
  BY <1>1, <1>2, <1>3 DEF CleanUpStep

LEMMA ProcessKeepsPhantomInv ==
  ASSUME PhantomInv, NEW p \in Procs, Process(p)
  PROVE  PhantomInv'
<1>1. UNCHANGED <<registryVars, ref_count, refs>>
  BY DEF Process, ProcStart, ProcFork, ProcExit, JanitorClose, JanitorRelease, ProcReap, claimVars
<1> QED
  BY <1>1, CountsStay

\* Loading a module clears the counts of its devices; a device enters the table with
\* counts of zero, and keeps the counts that it has when it leaves.
LEMMA DriverKeepsPhantomInv ==
  ASSUME ReleasedAtUnload, ManagerTypeOK, PhantomInv, DriverStep
  PROVE  PhantomInv'
<1> USE RegistryAssumption
<1>1. /\ devices \in [Slots -> Devs \cup {NULL}] /\ \A d \in Devs : DriverOf[d] \in Drivers
      /\ modstate \in [Drivers -> {"unloaded", "live", "going"}]
      /\ \A s, r : Cardinality(ClaimsVia(s, r)) \in Nat
  BY ListPartCounted DEF ManagerTypeOK, RegistryTypeOK
<1>2. UNCHANGED refs
  BY DEF DriverStep, Insmod, Rmmod, RmmodDone, Manage, ReleaseDevice, claimVars
<1>3. UNCHANGED devices => /\ Managed' = Managed
                           /\ \A s, r : ClaimsVia(s, r)' = ClaimsVia(s, r)
  BY <1>2 DEF Managed, ClaimsVia
<1>4. ASSUME NEW m \in Drivers, Insmod(m)
      PROVE  PhantomInv'
  <2>1. /\ modstate[m] = "unloaded" /\ modstate' = [modstate EXCEPT ![m] = "live"] /\ UNCHANGED devices
        /\ \A d \in Devs, r \in Resources :
             ref_count'[d][r] = IF DriverOf[d] = m THEN 0 ELSE ref_count[d][r]
    BY <1>4 DEF Insmod, ModuleLoad
  <2>2. \A d \in Managed : d \in Devs /\ DriverOf[d] # m
    BY <2>1 DEF PhantomInv, Managed
  <2>3. ASSUME NEW s \in Slots, NEW r \in Resources, devices[s] # NULL
        PROVE  ref_count'[devices[s]][r] <= Cardinality(ClaimsVia(s, r))
    <3>1. devices[s] \in Managed
      BY <1>1, <2>3 DEF Managed
    <3> QED
      BY <2>1, <2>2, <2>3, <3>1 DEF PhantomInv
  <2>4. \A d \in Devs \ Managed, r \in Resources : modstate'[DriverOf[d]] = "live" => ref_count'[d][r] = 0
    BY <1>1, <2>1 DEF PhantomInv
  <2>5. \A d \in Managed : modstate'[DriverOf[d]] # "unloaded"
    BY <1>1, <2>1, <2>2 DEF PhantomInv
  <2> QED
    BY <1>3, <2>1, <2>3, <2>4, <2>5 DEF PhantomInv
<1>5. ASSUME NEW m \in Drivers, Rmmod(m) \/ RmmodDone(m)
      PROVE  PhantomInv'
  <2>1. /\ UNCHANGED <<devices, ref_count>>
        /\ \E x \in {"going", "unloaded"} : modstate' = [modstate EXCEPT ![m] = x]
        /\ \A d \in Managed : modstate'[DriverOf[d]] # "unloaded"
    BY <1>1, <1>5 DEF Rmmod, RmmodDone, ModuleUnloadBegin, ModuleUnloadEnd, claimVars, PhantomInv, Managed
  <2>2. \A d \in Devs : modstate'[DriverOf[d]] = "live" => modstate[DriverOf[d]] = "live"
    BY <1>1, <2>1
  <2>3. \A s \in Slots, r \in Resources :
          devices'[s] # NULL => ref_count'[devices'[s]][r] <= Cardinality(ClaimsVia(s, r)')
    BY <1>3, <2>1 DEF PhantomInv
  <2>4. \A d \in Devs \ Managed', r \in Resources : modstate'[DriverOf[d]] = "live" => ref_count'[d][r] = 0
    BY <1>3, <2>1, <2>2 DEF PhantomInv
  <2> QED
    BY <1>3, <2>1, <2>3, <2>4 DEF PhantomInv
<1>6. ASSUME NEW d \in Devs, Manage(d)
      PROVE  PhantomInv'
  <2>1. /\ UNCHANGED <<ref_count, modstate>>
        /\ modstate[DriverOf[d]] = "live" /\ d \notin Managed
    BY <1>6 DEF Manage, DeviceManage, DeviceManageRegisterFails, MayManage, claimVars
  <2>2. CASE UNCHANGED devices
    <3>1. \A s \in Slots, r \in Resources :
            devices'[s] # NULL => ref_count'[devices'[s]][r] <= Cardinality(ClaimsVia(s, r)')
      BY <1>3, <2>1, <2>2 DEF PhantomInv
    <3> QED
      BY <1>3, <2>1, <2>2, <3>1 DEF PhantomInv
  <2>3. ASSUME NEW t \in EmptySlot, devices' = [devices EXCEPT ![t] = d]
        PROVE  PhantomInv'
    <3>1. t \in Slots /\ devices[t] = NULL
      BY <2>3 DEF EmptySlot, DeviceSlot, First
    <3>2. \A s \in Slots : devices'[s] = IF s = t THEN d ELSE devices[s]
      BY <1>1, <2>3
    <3>3. \A e \in Devs : e \in Managed' <=> e = d \/ e \in Managed
      BY <3>1, <3>2 DEF Managed
    <3>4. \A s \in Slots, r \in Resources : s # t => ClaimsVia(s, r)' = ClaimsVia(s, r)
      BY <1>2, <3>2 DEF ClaimsVia
    <3>5. ASSUME NEW s \in Slots, NEW r \in Resources, devices'[s] # NULL
          PROVE  ref_count'[devices'[s]][r] <= Cardinality(ClaimsVia(s, r)')
      <4>1. CASE s = t
        <5>1. ref_count'[devices'[s]][r] = 0
          BY <2>1, <3>2, <4>1 DEF PhantomInv
        <5>2. ClaimsVia(s, r)' \subseteq refs
          BY <1>2 DEF ClaimsVia
        <5>3. Cardinality(ClaimsVia(s, r)') \in Nat
          BY <5>2, FS_Subset, FS_CardinalityType DEF ManagerTypeOK
        <5> QED
          BY <5>1, <5>3
      <4>2. CASE s # t
        BY <2>1, <3>2, <3>4, <3>5, <4>2 DEF PhantomInv
      <4> QED
        BY <4>1, <4>2
    <3>6. \A s, u \in Slots : devices'[s] = devices'[u] /\ devices'[s] # NULL => s = u
      BY <2>1, <3>2 DEF PhantomInv, Managed
    <3>7. \A e \in Managed' : modstate'[DriverOf[e]] # "unloaded"
      BY <2>1, <3>3 DEF PhantomInv, Managed
    <3>8. \A e \in Devs \ Managed', r \in Resources : modstate'[DriverOf[e]] = "live" => ref_count'[e][r] = 0
      BY <2>1, <3>3 DEF PhantomInv
    <3> QED
      BY <3>5, <3>6, <3>7, <3>8 DEF PhantomInv
  <2> QED
    BY <1>6, <2>2, <2>3 DEF Manage, DeviceManage, DeviceManageRegisterFails
<1>7. ASSUME NEW d \in Devs, ReleaseDevice(d)
      PROVE  PhantomInv'
  <2>1. /\ UNCHANGED <<ref_count, modstate>>
        /\ modstate[DriverOf[d]] = "going"
        /\ \A s \in Slots : devices'[s] = devices[s] \/ (devices[s] = d /\ devices'[s] = NULL)
    BY <1>7 DEF ReleaseDevice, DeviceRelease, MayRelease, ReleasedAtUnload, DeviceSlot, First, claimVars
  <2>2. /\ \A e \in Managed' : e \in Managed
        /\ \A e \in Devs \ Managed' : e = d \/ e \notin Managed
    BY <2>1 DEF Managed
  <2>3. \A s \in Slots, r \in Resources : devices'[s] # NULL => ClaimsVia(s, r)' = ClaimsVia(s, r)
    BY <1>2, <2>1 DEF ClaimsVia
  <2>4. \A s \in Slots, r \in Resources :
          devices'[s] # NULL => ref_count'[devices'[s]][r] <= Cardinality(ClaimsVia(s, r)')
    BY <2>1, <2>3 DEF PhantomInv
  <2>5. \A s, u \in Slots : devices'[s] = devices'[u] /\ devices'[s] # NULL => s = u
    BY <2>1 DEF PhantomInv
  <2> QED
    BY <2>1, <2>2, <2>4, <2>5 DEF PhantomInv
<1> QED
  BY <1>4, <1>5, <1>6, <1>7 DEF DriverStep

\* Whatever users do, and although the list keeps nodes of devices that are gone, the
\* count of a managed device never exceeds the claims on the list: a stray decrement can
\* admit a second owner, but nothing can keep a resource busy that nobody has claimed.
THEOREM NobodyClaimsNothing ==
  ASSUME ReleasedAtUnload
  PROVE  ManagerSpec => []NoPhantomClaims
<1> DEFINE Inv == ManagerTypeOK /\ PhantomInv
<1>1. ASSUME ManagerInit
      PROVE  PhantomInv
  BY <1>1, RegistryAssumption DEF ManagerInit, RegistryInit, PhantomInv, Managed
<1>2. ASSUME ManagerTypeOK, PhantomInv, [ManagerNext]_managerVars
      PROVE  PhantomInv'
  <2>1. UNCHANGED managerVars => UNCHANGED <<registryVars, ref_count, refs>>
    BY DEF managerVars, claimVars
  <2> QED
    BY <1>2, <2>1, IoctlKeepsPhantomInv, ProcessKeepsPhantomInv, CleanUpKeepsPhantomInv,
       DriverKeepsPhantomInv, CountsStay DEF ManagerNext
<1>3. ASSUME ManagerTypeOK, PhantomInv
      PROVE  NoPhantomClaims
  <2> SUFFICES ASSUME NEW d \in Managed, NEW r \in Resources
               PROVE  ref_count[d][r] <= Cardinality(ClaimsOn(d, r))
    BY DEF NoPhantomClaims
  <2>1. PICK s \in Slots : devices[s] = d
    BY DEF Managed
  <2>2. d \in Devs /\ d # NULL
    BY RegistryAssumption DEF Managed
  <2>3. ref_count[d][r] <= Cardinality(ClaimsVia(s, r)) /\ ref_count[d][r] \in Nat
    BY <1>3, <2>1, <2>2 DEF PhantomInv, ManagerTypeOK
  <2>4. ClaimsVia(s, r) \subseteq ClaimsOn(d, r) /\ ClaimsOn(d, r) \subseteq refs
    BY <2>1 DEF ClaimsVia, ClaimsOn
  <2>5. IsFiniteSet(ClaimsOn(d, r))
    BY <1>3, <2>4, FS_Subset DEF ManagerTypeOK
  <2>6. /\ Cardinality(ClaimsVia(s, r)) <= Cardinality(ClaimsOn(d, r))
        /\ Cardinality(ClaimsVia(s, r)) \in Nat /\ Cardinality(ClaimsOn(d, r)) \in Nat
    BY <2>4, <2>5, FS_Subset, FS_CardinalityType
  <2> QED
    BY <2>3, <2>6
<1>4. ManagerInit => Inv
  BY <1>1, ManagerInitType
<1>5. Inv /\ [ManagerNext]_managerVars => Inv'
  BY <1>2, ManagerNextType
<1>6. Inv => NoPhantomClaims
  BY <1>3
<1> QED
  BY <1>4, <1>5, <1>6, PTL DEF ManagerSpec

-----------------------------------------------------------------------------
(* The table of devices *)

\* Claims, releases, clean-ups and processes leave the table and the drivers alone.
LEMMA IoctlKeepsRegistry ==
  ASSUME NEW p, Ioctl(p)
  PROVE  UNCHANGED registryVars
<1>1. ASSUME NEW s, NEW r, ClaimIoctl(p, s, r)
      PROVE  UNCHANGED registryVars
  BY <1>1 DEF ClaimIoctl, Claim, ClaimUndone, InfoFault
<1>2. ASSUME NEW s, NEW r, Release(p, s, r) \/ ReleaseNoDevice(p, s, r)
      PROVE  UNCHANGED registryVars
  BY <1>2 DEF Release, ReleaseNoDevice
<1>3. ASSUME NEW s, NEW r, DecrementRefCount(p, s, r)
      PROVE  UNCHANGED registryVars
  BY <1>3 DEF DecrementRefCount
<1> QED
  BY <1>1, <1>2, <1>3 DEF Ioctl, MemregionClaimIoctl, EventsrcClaimIoctl,
     MemregionReleaseIoctl, EventsrcReleaseIoctl, MemregionDecrementIoctl, EventsrcDecrementIoctl

LEMMA ProcessKeepsRegistry ==
  ASSUME NEW p, Process(p) \/ CleanUpStep
  PROVE  UNCHANGED registryVars
<1>1. CASE Process(p)
  BY <1>1 DEF Process, ProcStart, ProcFork, ProcExit, JanitorClose, JanitorRelease, ProcReap
<1>2. CASE CleanUpStep
  BY <1>2 DEF CleanUpStep, FreeRef, FreeRefNullDevice, FreeRefsDone
<1> QED
  BY <1>1, <1>2

\* The device table of the manager is that of CuddlRegistry: pins and the mutex only keep
\* drivers from steps they could take there, and so what is proved of the table, with every
\* identifier search of a claim, holds while processes claim, release, fork and end.
THEOREM ManagerImplementsRegistry == ManagerSpec => RegistrySpec
<1>1. ManagerInit => RegistryInit
  BY DEF ManagerInit
<1>2. [ManagerNext]_managerVars => [RegistryNext]_registryVars
  <2>1. DriverStep => RegistryNext
    BY DEF DriverStep, RegistryNext, Insmod, Rmmod, RmmodDone, Manage, ReleaseDevice
  <2>2. ASSUME NEW p \in Procs, Ioctl(p) \/ Process(p)
        PROVE  UNCHANGED registryVars
    BY <2>2, IoctlKeepsRegistry, ProcessKeepsRegistry
  <2>3. CleanUpStep => UNCHANGED registryVars
    BY ProcessKeepsRegistry
  <2>4. UNCHANGED managerVars => UNCHANGED registryVars
    BY DEF managerVars
  <2> QED
    BY <2>1, <2>2, <2>3, <2>4 DEF ManagerNext
<1> QED
  BY <1>1, <1>2, PTL DEF ManagerSpec, RegistrySpec
=============================================================================
