-------------------------- MODULE CuddlRegistry_proofs --------------------------
(***************************************************************************)
(* Proofs about the table of managed devices, for every number of slots,   *)
(* devices and drivers.                                                    *)
(***************************************************************************)
EXTENDS CuddlRegistry, FiniteSetTheorems, WellFoundedInduction, TLAPS

-----------------------------------------------------------------------------
(* Type correctness *)

\* A successful lookup names a populated slot: the handlers never take a NULL
\* device from cuddlk_manager_find_device_slot_matching().
LEMMA LookupFindsDevice ==
  ASSUME RegistryTypeOK, NEW id, NEW kind, NEW s \in Slots, NEW r \in Resources,
         <<s, r>> \in Lookup(id, kind)
  PROVE  devices[s] \in Devs
<1>1. s \in DeviceSlotMatching(id, kind, 0)
  BY DEF Lookup
<1>2. devices[s] # NULL
  BY <1>1 DEF DeviceSlotMatching, First
<1> QED
  BY <1>2 DEF RegistryTypeOK

\* The registry's steps keep the types of the table and of the drivers.
LEMMA RegistryInitType == RegistryInit => RegistryTypeOK
  BY RegistryAssumption DEF RegistryInit, RegistryTypeOK

LEMMA RegistryNextType ==
  ASSUME RegistryTypeOK, RegistryNext
  PROVE  RegistryTypeOK'
<1> USE DEF RegistryTypeOK
<1>1. ASSUME NEW m \in Drivers, ModuleLoad(m)
      PROVE  RegistryTypeOK'
  BY <1>1, RegistryAssumption DEF ModuleLoad
<1>2. ASSUME NEW m \in Drivers, ModuleUnloadBegin(m) \/ ModuleUnloadEnd(m)
      PROVE  RegistryTypeOK'
  BY <1>2 DEF ModuleUnloadBegin, ModuleUnloadEnd
<1>3. ASSUME NEW d \in Devs
      PROVE  InstanceFor(d) \subseteq Nat
  BY RegistryAssumption DEF InstanceFor, InstanceIds
<1>4. ASSUME NEW d \in Devs, DeviceManage(d)
      PROVE  RegistryTypeOK'
  <2>1. instance' \in [Devs -> Nat]
    BY <1>3, <1>4 DEF DeviceManage
  <2>2. devices' \in [Slots -> Devs \cup {NULL}]
    BY <1>4 DEF DeviceManage, EmptySlot, DeviceSlot, First
  <2>3. uio_registered' \in [Devs -> Int]
    BY <1>4 DEF DeviceManage, DeviceRegister, DeviceUnregister
  <2> QED
    BY <1>4, <2>1, <2>2, <2>3 DEF DeviceManage
<1>5. ASSUME NEW d \in Devs, DeviceManageRegisterFails(d)
      PROVE  RegistryTypeOK'
  BY <1>3, <1>5 DEF DeviceManageRegisterFails
<1>6. ASSUME NEW d \in Devs, DeviceRelease(d)
      PROVE  RegistryTypeOK'
  BY <1>6 DEF DeviceRelease, DeviceUnregister
<1> QED
  BY <1>1, <1>2, <1>4, <1>5, <1>6 DEF RegistryNext

LEMMA RegistryStutterType ==
  RegistryTypeOK /\ UNCHANGED registryVars => RegistryTypeOK'
  BY DEF RegistryTypeOK, registryVars


-----------------------------------------------------------------------------
(* Registration *)

\* Drivers release only devices that are managed.
ReleasesManaged == "unmanaged_release" \notin Allowed

\* Drivers release devices when they are unloaded: there is no hot unplug.
ReleasedAtUnload == "unbind" \notin Allowed

\* What the table and the registrations have to do with each other, without counting.
RegistrationInv ==
  /\ RegistryTypeOK
  /\ \A s, t \in Slots : devices[s] = devices[t] /\ devices[s] # NULL => s = t
  /\ \A d \in Devs : uio_registered[d] = IF d \in Managed THEN 1 ELSE 0

LEMMA RegistrationInvInit == RegistryInit => RegistrationInv
  BY RegistryInitType, RegistryAssumption DEF RegistryInit, RegistrationInv, Managed

LEMMA RegistrationInvNext ==
  ASSUME ReleasesManaged
  PROVE  RegistrationInv /\ [RegistryNext]_registryVars => RegistrationInv'
<1> SUFFICES ASSUME RegistrationInv, [RegistryNext]_registryVars
             PROVE  RegistrationInv'
  OBVIOUS
<1> USE RegistryAssumption
<1>1. RegistryTypeOK /\ RegistryTypeOK'
  BY RegistryNextType, RegistryStutterType DEF RegistrationInv
<1>2. ASSUME UNCHANGED <<devices, uio_registered>>
      PROVE  RegistrationInv'
  BY <1>1, <1>2 DEF RegistrationInv, Managed
<1>3. ASSUME NEW d \in Devs, DeviceManage(d)
      PROVE  RegistrationInv'
  <2>1. d \notin Managed
    BY <1>3 DEF DeviceManage, MayManage
  <2>2. CASE \E s \in EmptySlot : /\ devices' = [devices EXCEPT ![s] = d]
                                 /\ uio_registered' = DeviceRegister(d)
    <3>1. PICK s \in Slots : /\ devices[s] = NULL
                             /\ devices' = [devices EXCEPT ![s] = d]
      BY <2>2 DEF EmptySlot, DeviceSlot, First
    <3>2. \A t \in Slots : devices'[t] = IF t = s THEN d ELSE devices[t]
      BY <1>1, <3>1 DEF RegistryTypeOK
    <3>3. \A e \in Devs : e \in Managed' <=> e = d \/ e \in Managed
      BY <3>1, <3>2 DEF Managed
    <3>4. \A e \in Devs :
            uio_registered'[e] = IF e = d THEN uio_registered[e] + 1 ELSE uio_registered[e]
      BY <1>1, <2>2 DEF DeviceRegister, RegistryTypeOK
    <3>5. \A e \in Devs : uio_registered'[e] = IF e \in Managed' THEN 1 ELSE 0
      BY <2>1, <3>3, <3>4 DEF RegistrationInv
    <3>6. \A t, u \in Slots : devices'[t] = devices'[u] /\ devices'[t] # NULL => t = u
      BY <2>1, <3>2 DEF RegistrationInv, Managed
    <3> QED
      BY <1>1, <3>5, <3>6 DEF RegistrationInv
  <2>3. CASE /\ devices' = devices
             /\ uio_registered' = DeviceUnregister(DeviceRegister(d), d)
    <3>1. uio_registered' = uio_registered
      BY <1>1, <2>3 DEF DeviceUnregister, DeviceRegister, RegistryTypeOK
    <3> QED
      BY <1>2, <2>3, <3>1
  <2> QED
    BY <1>3, <2>2, <2>3 DEF DeviceManage
<1>4. ASSUME NEW d \in Devs, DeviceRelease(d)
      PROVE  RegistrationInv'
  <2>1. PICK s \in Slots : devices[s] = d
    BY <1>4 DEF DeviceRelease, MayRelease, ReleasesManaged, Managed
  <2>2. DeviceSlot(d) = {s}
    BY <2>1 DEF DeviceSlot, First, RegistrationInv, Slots
  <2>3. \A t \in Slots : devices'[t] = IF t = s THEN NULL ELSE devices[t]
    BY <1>4, <2>2 DEF DeviceRelease
  <2>4. \A e \in Devs : e \in Managed' <=> e # d /\ e \in Managed
    BY <2>1, <2>3 DEF RegistrationInv, Managed
  <2>5. \A e \in Devs :
          uio_registered'[e] = IF e = d THEN uio_registered[e] - 1 ELSE uio_registered[e]
    BY <1>1, <1>4 DEF DeviceRelease, DeviceUnregister, RegistryTypeOK
  <2>6. d \in Managed
    BY <2>1 DEF Managed
  <2>7. \A e \in Devs : uio_registered'[e] = IF e \in Managed' THEN 1 ELSE 0
    BY <2>4, <2>5, <2>6 DEF RegistrationInv
  <2>8. \A t, u \in Slots : devices'[t] = devices'[u] /\ devices'[t] # NULL => t = u
    BY <2>3 DEF RegistrationInv
  <2> QED
    BY <1>1, <2>7, <2>8 DEF RegistrationInv
<1> QED
  BY <1>2, <1>3, <1>4 DEF RegistryNext, registryVars, ModuleLoad, ModuleUnloadBegin,
     ModuleUnloadEnd, DeviceManageRegisterFails

\* Through every failure of cuddlk_device_manage() and every release of a managed
\* device, a device is registered once while it is in the table, and else not at all.
THEOREM RegisteredWhileManaged ==
  ASSUME ReleasesManaged
  PROVE  RegistrySpec => []RegistrationMatchesTable
<1>1. RegistryInit => RegistrationInv
  BY RegistrationInvInit
<1>2. RegistrationInv /\ [RegistryNext]_registryVars => RegistrationInv'
  BY RegistrationInvNext
<1>3. RegistrationInv => RegistrationMatchesTable
  <2> SUFFICES ASSUME RegistrationInv, NEW d \in Devs
               PROVE  /\ uio_registered[d] = Cardinality({s \in Slots : devices[s] = d})
                      /\ uio_registered[d] <= 1
    BY DEF RegistrationMatchesTable
  <2>1. CASE d \in Managed
    <3>1. PICK s \in Slots : devices[s] = d
      BY <2>1 DEF Managed
    <3>2. {t \in Slots : devices[t] = d} = {s}
      BY <3>1, RegistryAssumption DEF RegistrationInv
    <3>3. Cardinality({t \in Slots : devices[t] = d}) = 1
      BY <3>2, FS_Singleton
    <3> QED
      BY <2>1, <3>3 DEF RegistrationInv
  <2>2. CASE d \notin Managed
    <3>1. {t \in Slots : devices[t] = d} = {}
      BY <2>2 DEF Managed
    <3>2. Cardinality({t \in Slots : devices[t] = d}) = 0
      BY <3>1, FS_EmptySet
    <3> QED
      BY <2>2, <3>2 DEF RegistrationInv
  <2> QED
    BY <2>1, <2>2
<1> QED
  BY <1>1, <1>2, <1>3, PTL DEF RegistrySpec

-----------------------------------------------------------------------------
(* Induction *)

\* Every set of naturals that is not empty has a least element.  Inductions below are made
\* with it: the least argument at which a claim fails is not the first one, and the claim
\* holds at the one before.
LEMMA LeastNatural ==
  ASSUME NEW S \in SUBSET Nat, S # {}
  PROVE  \E m \in S : \A n \in S : m <= n
<1> DEFINE less == {ss \in Nat \X Nat : ss[1] < ss[2]}
<1>1. IsWellFoundedOn(less, Nat)
  BY NatLessThanWellFounded DEF OpToRel
<1>2. \A m, n \in Nat : <<n, m>> \in less <=> n < m
  OBVIOUS
<1> HIDE DEF less
<1>3. PICK m \in S : \A n \in S : ~ (<<n, m>> \in less)
  BY <1>1, WFMin
<1>4. ASSUME NEW n \in S
      PROVE  m <= n
  <2>1. m \in Nat /\ n \in Nat
    OBVIOUS
  <2>2. ~ (n < m)
    BY <1>2, <1>3, <2>1
  <2> QED
    BY <2>1, <2>2
<1> QED
  BY <1>4


\* Induction from a to b, for a set: what holds is that the number is in T.
LEMMA UpTo ==
  ASSUME NEW a \in Nat, NEW b \in Nat, NEW T, a \in T,
         \A n \in a .. b - 1 : n \in T => n + 1 \in T
  PROVE  a .. b \subseteq T
<1> DEFINE Bad == {n \in a .. b : n \notin T}
<1> SUFFICES ASSUME Bad # {}
             PROVE  FALSE
  OBVIOUS
<1>1. Bad \in SUBSET Nat
  OBVIOUS
<1>2. PICK m \in Bad : \A n \in Bad : m <= n
  <2> HIDE DEF Bad
  <2> QED
    BY <1>1, LeastNatural
<1>3. m - 1 \in a .. b - 1 /\ (m - 1) + 1 = m
  BY <1>2
<1>4. m - 1 \notin Bad
  BY <1>2, <1>3
<1> QED
  BY <1>2, <1>3, <1>4

-----------------------------------------------------------------------------
(* The search for a free instance *)

\* For the table dev and the instances inst.
HitIn(dev, inst, d, s, i) ==
  /\ dev[s] # NULL
  /\ i = 0 \/ inst[dev[s]] = i
  /\ DontCare(Group[d]) \/ Group[dev[s]] = Group[d]
  /\ DontCare(Name[d]) \/ Name[dev[s]] = Name[d]

ScanRounds == 0 .. CUDDLK_MAX_MANAGED_DEVICES

Round(dev, inst, d, scan, s) ==
  IF s = 0 THEN 1
  ELSE IF HitIn(dev, inst, d, s - 1, scan[s - 1]) THEN scan[s - 1] + 1 ELSE scan[s - 1]

Scan(dev, inst, d) ==
  LET scan[s \in ScanRounds] == Round(dev, inst, d, scan, s) IN scan

LEMMA NextIsScan ==
  ASSUME NEW d \in Devs
  PROVE  NextAvailableInstanceId(d) =
           LET last == CUDDLK_MAX_MANAGED_DEVICES - 1
           IN  IF HitIn(devices, instance, d, last, Scan(devices, instance, d)[last])
               THEN {} ELSE {Scan(devices, instance, d)[last + 1]}
<1> DEFINE SameName(i) == [group |-> Group[d], device |-> Name[d], resource |-> NULL, instance |-> i]
<1>1. \A s, i : (devices[s] # NULL /\ DeviceMatches(devices[s], SameName(i), NULL)) =
                 HitIn(devices, instance, d, s, i)
  BY DEF DeviceMatches, HitIn, DontCare
<1> QED
  BY <1>1, Zenon DEF NextAvailableInstanceId, Scan, Round, ScanRounds

\* The recursion is well-founded: a function that is as Scan is to be for the first n
\* rounds can be made longer.
LEMMA ScanDefined ==
  ASSUME NEW dev, NEW inst, NEW d
  PROVE  Scan(dev, inst, d) =
           [s \in ScanRounds |-> Round(dev, inst, d, Scan(dev, inst, d), s)]
<1> USE RegistryAssumption
<1> DEFINE IsScan(f, n) == f = [s \in 0 .. n |-> Round(dev, inst, d, f, s)]
           Done == {n \in Nat : \E f : IsScan(f, n)}
<1>1. ASSUME NEW n \in Nat, NEW f, IsScan(f, n)
      PROVE  \E g : IsScan(g, n + 1)
  <2> DEFINE g == [s \in 0 .. n + 1 |-> IF s = n + 1 THEN Round(dev, inst, d, f, n + 1) ELSE f[s]]
  <2>1. \A s \in 0 .. n + 1 : Round(dev, inst, d, g, s) = Round(dev, inst, d, f, s)
    <3> TAKE s \in 0 .. n + 1
    <3>1. CASE s = 0
      BY <3>1 DEF Round
    <3>2. CASE s # 0
      <4>1. s - 1 \in 0 .. n + 1 /\ s - 1 # n + 1
        BY <3>2
      <4>2. g[s - 1] = f[s - 1]
        BY <4>1
      <4> HIDE DEF g
      <4> QED
        BY <4>2 DEF Round
    <3> QED
      BY <3>1, <3>2
  <2>2. \A s \in 0 .. n + 1 : g[s] = Round(dev, inst, d, f, s)
    <3> TAKE s \in 0 .. n + 1
    <3>1. CASE s = n + 1
      BY <3>1
    <3>2. CASE s # n + 1
      <4>1. s \in 0 .. n
        BY <3>2
      <4> QED
        BY <1>1, <3>2, <4>1
    <3> QED
      BY <3>1, <3>2
  <2>3. g = [s \in 0 .. n + 1 |-> g[s]]
    OBVIOUS
  <2> HIDE DEF g
  <2>4. IsScan(g, n + 1)
    BY <2>1, <2>2, <2>3
  <2> QED
    BY <2>4
<1>2. \E f : IsScan(f, 0)
  <2>1. IsScan([s \in 0 .. 0 |-> 1], 0)
    BY DEF Round
  <2> QED
    BY <2>1
<1>3. CUDDLK_MAX_MANAGED_DEVICES \in Done
  <2> HIDE DEF IsScan
  <2>1. 0 \in Done /\ \A n \in Nat : n \in Done => n + 1 \in Done
    BY <1>1, <1>2
  <2> HIDE DEF Done
  <2>2. 0 .. CUDDLK_MAX_MANAGED_DEVICES \subseteq Done
    BY <2>1, UpTo
  <2> QED
    BY <2>2
<1> QED
  BY <1>3 DEF Scan, ScanRounds

\* The scan begins at 1 and goes up by one at each hit.
LEMMA ScanSteps ==
  ASSUME NEW dev, NEW inst, NEW d
  PROVE  /\ Scan(dev, inst, d)[0] = 1
         /\ \A s \in Slots :
              Scan(dev, inst, d)[s + 1] =
                IF HitIn(dev, inst, d, s, Scan(dev, inst, d)[s])
                THEN Scan(dev, inst, d)[s] + 1 ELSE Scan(dev, inst, d)[s]
<1> USE RegistryAssumption
<1> DEFINE scan == Scan(dev, inst, d)
<1>1. scan = [s \in ScanRounds |-> Round(dev, inst, d, scan, s)]
  BY ScanDefined
<1> HIDE DEF scan
<1>2. \A s \in ScanRounds : scan[s] = Round(dev, inst, d, scan, s)
  BY <1>1
<1>3. 0 \in ScanRounds /\ \A s \in Slots : s + 1 \in ScanRounds /\ s + 1 # 0 /\ (s + 1) - 1 = s
  BY DEF ScanRounds, Slots
<1>4. scan[0] = 1
  BY <1>2, <1>3 DEF Round
<1>5. ASSUME NEW s \in Slots
      PROVE  scan[s + 1] = IF HitIn(dev, inst, d, s, scan[s]) THEN scan[s] + 1 ELSE scan[s]
  <2>1. scan[s + 1] = Round(dev, inst, d, scan, s + 1)
    BY <1>2, <1>3
  <2> QED
    BY <1>3, <2>1 DEF Round
<1> QED
  BY <1>4, <1>5 DEF scan

LEMMA ScanPositive ==
  ASSUME NEW dev, NEW inst, NEW d
  PROVE  \A s \in ScanRounds : Scan(dev, inst, d)[s] \in Nat \ {0}
<1> DEFINE scan == Scan(dev, inst, d)
           T == {s \in ScanRounds : scan[s] \in Nat \ {0}}
<1>1. scan[0] \in Nat \ {0} /\ \A s \in Slots : scan[s] \in Nat \ {0} => scan[s + 1] \in Nat \ {0}
  BY ScanSteps
<1> HIDE DEF scan
<1>2. 0 \in T /\ \A n \in 0 .. CUDDLK_MAX_MANAGED_DEVICES - 1 : n \in T => n + 1 \in T
  BY <1>1, RegistryAssumption DEF ScanRounds, Slots
<1> HIDE DEF T
<1>3. 0 .. CUDDLK_MAX_MANAGED_DEVICES \subseteq T
  BY <1>2, UpTo, RegistryAssumption
<1> QED
  BY <1>3 DEF T, ScanRounds, scan

\* It never goes down.
LEMMA ScanMonotone ==
  ASSUME NEW dev, NEW inst, NEW d, NEW s \in ScanRounds, NEW t \in ScanRounds, s <= t
  PROVE  Scan(dev, inst, d)[s] <= Scan(dev, inst, d)[t]
<1> DEFINE scan == Scan(dev, inst, d)
           T == {u \in ScanRounds : scan[s] <= scan[u]}
<1>1. \A u \in ScanRounds : scan[u] \in Nat
  BY ScanPositive
<1>2. \A u \in Slots : scan[u + 1] \in {scan[u], scan[u] + 1}
  BY ScanSteps
<1> HIDE DEF scan
<1>3. s \in Nat /\ s \in T
  BY <1>1, RegistryAssumption DEF ScanRounds
<1>4. ASSUME NEW n \in s .. CUDDLK_MAX_MANAGED_DEVICES - 1, n \in T
      PROVE  n + 1 \in T
  <2>1. n \in Slots /\ n + 1 \in ScanRounds
    BY <1>3, RegistryAssumption DEF ScanRounds, Slots
  <2> QED
    BY <1>1, <1>2, <1>4, <2>1
<1> HIDE DEF T
<1>5. s .. CUDDLK_MAX_MANAGED_DEVICES \subseteq T
  BY <1>3, <1>4, UpTo, RegistryAssumption
<1>6. t \in s .. CUDDLK_MAX_MANAGED_DEVICES
  BY RegistryAssumption DEF ScanRounds
<1> QED
  BY <1>5, <1>6 DEF T, scan

AlikeBelow(dev, inst, dev2, inst2, t) ==
  \A s \in Slots : s < t => /\ dev2[s] = dev[s]
                            /\ dev[s] # NULL => inst2[dev[s]] = inst[dev[s]]

\* What is found up to a slot depends on the slots before it only.
LEMMA ScanAgrees ==
  ASSUME NEW dev, NEW inst, NEW dev2, NEW inst2, NEW d, NEW t \in ScanRounds,
         AlikeBelow(dev, inst, dev2, inst2, t)
  PROVE  Scan(dev2, inst2, d)[t] = Scan(dev, inst, d)[t]
<1> DEFINE scan == Scan(dev, inst, d)
           scan2 == Scan(dev2, inst2, d)
           T == {u \in ScanRounds : scan2[u] = scan[u]}
<1>1. scan2[0] = scan[0]
  BY ScanSteps
<1>2. ASSUME NEW s \in Slots, s < t, scan2[s] = scan[s]
      PROVE  scan2[s + 1] = scan[s + 1]
  <2>1. \A i : HitIn(dev2, inst2, d, s, i) <=> HitIn(dev, inst, d, s, i)
    BY <1>2 DEF HitIn, AlikeBelow
  <2>2. /\ scan2[s + 1] = IF HitIn(dev2, inst2, d, s, scan2[s]) THEN scan2[s] + 1 ELSE scan2[s]
        /\ scan[s + 1] = IF HitIn(dev, inst, d, s, scan[s]) THEN scan[s] + 1 ELSE scan[s]
    BY ScanSteps
  <2> HIDE DEF scan, scan2
  <2> QED
    BY <1>2, <2>1, <2>2
<1> HIDE DEF scan, scan2
<1>3. t \in Nat /\ 0 \in T
  BY <1>1, RegistryAssumption DEF ScanRounds
<1>4. ASSUME NEW n \in 0 .. t - 1, n \in T
      PROVE  n + 1 \in T
  <2>1. n \in Slots /\ n + 1 \in ScanRounds /\ n < t
    BY <1>3, RegistryAssumption DEF ScanRounds, Slots
  <2> QED
    BY <1>2, <1>4, <2>1
<1> HIDE DEF T
<1>5. 0 .. t \subseteq T
  BY <1>3, <1>4, UpTo, RegistryAssumption
<1>6. t \in T
  BY <1>3, <1>5
<1> QED
  BY <1>6 DEF T, scan, scan2

\* Over empty slots nothing is found.
LEMMA ScanStays ==
  ASSUME NEW dev, NEW inst, NEW d, NEW s \in ScanRounds,
         \A u \in Slots : s <= u => dev[u] = NULL
  PROVE  Scan(dev, inst, d)[CUDDLK_MAX_MANAGED_DEVICES] = Scan(dev, inst, d)[s]
<1> DEFINE scan == Scan(dev, inst, d)
           T == {u \in ScanRounds : scan[u] = scan[s]}
<1>1. ASSUME NEW u \in Slots, s <= u
      PROVE  scan[u + 1] = scan[u]
  <2>1. ~ HitIn(dev, inst, d, u, scan[u])
    BY <1>1 DEF HitIn
  <2> QED
    BY <2>1, ScanSteps
<1> HIDE DEF scan
<1>2. s \in Nat /\ s \in T
  BY RegistryAssumption DEF ScanRounds
<1>3. ASSUME NEW n \in s .. CUDDLK_MAX_MANAGED_DEVICES - 1, n \in T
      PROVE  n + 1 \in T
  <2>1. n \in Slots /\ n + 1 \in ScanRounds /\ s <= n
    BY <1>2, RegistryAssumption DEF ScanRounds, Slots
  <2> QED
    BY <1>1, <1>3, <2>1
<1> HIDE DEF T
<1>4. s .. CUDDLK_MAX_MANAGED_DEVICES \subseteq T
  BY <1>2, <1>3, UpTo, RegistryAssumption
<1>5. CUDDLK_MAX_MANAGED_DEVICES \in s .. CUDDLK_MAX_MANAGED_DEVICES
  BY RegistryAssumption DEF ScanRounds
<1> QED
  BY <1>4, <1>5 DEF T, scan

-----------------------------------------------------------------------------
(* The order of the table *)

ReleasesInOrder == "any_order" \notin Allowed
FreshStructs == "stale_struct" \notin Allowed

\* Devices of one group and name are all numbered automatically.
NumberedAutomatically ==
  \A d, e \in Devs :
    (d # e /\ Group[d] = Group[e] /\ Name[d] = Name[e]) => ConfiguredInstance[d] = 0

\* The devices in the table are the first slots of it, each in one of them; they have a
\* group, a name and a driver that is there.
OrderInv ==
  /\ RegistryTypeOK
  /\ \A s, t \in Slots : devices[s] = devices[t] /\ devices[s] # NULL => s = t
  /\ \A s, t \in Slots : s < t /\ devices[s] = NULL => devices[t] = NULL
  /\ \A d \in Managed : /\ modstate[DriverOf[d]] # "unloaded"
                        /\ Group[d] # NULL /\ Name[d] # NULL

\* Each device in the table has the instance its driver has given it, or the one that the
\* search gives over the slots before its own.
InstancesInv ==
  \A s \in Slots : devices[s] # NULL =>
    instance[devices[s]] =
      IF ConfiguredInstance[devices[s]] # 0 THEN ConfiguredInstance[devices[s]]
      ELSE Scan(devices, instance, devices[s])[s]

\* What the steps of the registry do to the table, in order.
TableGrows(d, s) ==
  /\ d \in Devs /\ s \in Slots
  /\ \A t \in Slots : devices[t] = NULL <=> s <= t
  /\ devices' = [devices EXCEPT ![s] = d]

TableShrinks(s) ==
  /\ s \in Slots
  /\ \A t \in Slots : s < t => devices[t] = NULL
  /\ devices' = [devices EXCEPT ![s] = NULL]

LEMMA ManageGrows ==
  ASSUME OrderInv, NEW d \in Devs, DeviceManage(d)
  PROVE  UNCHANGED devices \/ \E s \in Slots : TableGrows(d, s)
<1> USE RegistryAssumption
<1>1. SUFFICES ASSUME NEW s \in EmptySlot, devices' = [devices EXCEPT ![s] = d]
               PROVE  TableGrows(d, s) /\ s \in Slots
  BY DEF DeviceManage
<1>2. s \in Slots /\ devices[s] = NULL /\ \A t \in Slots : devices[t] = NULL => s <= t
  BY <1>1 DEF EmptySlot, DeviceSlot, First
<1>3. \A t \in Slots : s <= t => devices[t] = NULL
  <2> TAKE t \in Slots
  <2>1. s <= t => s = t \/ s < t
    BY <1>2 DEF Slots
  <2> QED
    BY <1>2, <2>1 DEF OrderInv
<1> QED
  BY <1>1, <1>2, <1>3 DEF TableGrows

LEMMA ReleaseShrinks ==
  ASSUME ReleasesInOrder, OrderInv, NEW d \in Devs, DeviceRelease(d)
  PROVE  UNCHANGED devices \/ \E s \in Slots : TableShrinks(s)
<1> USE RegistryAssumption
<1>0. devices \in [Slots -> Devs \cup {NULL}]
  BY DEF OrderInv, RegistryTypeOK
<1>1. CASE DeviceSlot(d) = {}
  BY <1>0, <1>1 DEF DeviceRelease
<1>2. CASE DeviceSlot(d) # {}
  <2>1. PICK s \in DeviceSlot(d) : \A t \in Slots : t > s => devices[t] = NULL
    BY <1>2 DEF DeviceRelease, MayRelease, ReleasesInOrder
  <2>2. s \in Slots /\ devices[s] = d
    BY <2>1 DEF DeviceSlot, First
  <2>3. \A t \in DeviceSlot(d) : t = s
    BY <2>2 DEF DeviceSlot, First, OrderInv
  <2>4. devices' = [devices EXCEPT ![s] = NULL]
    BY <1>0, <2>1, <2>2, <2>3 DEF DeviceRelease
  <2>5. \A t \in Slots : s < t => devices[t] = NULL
    BY <2>1, <2>2 DEF Slots
  <2> QED
    BY <2>2, <2>4, <2>5 DEF TableShrinks
<1> QED
  BY <1>1, <1>2

LEMMA OrderInvInit == RegistryInit => OrderInv
  BY RegistryInitType, RegistryAssumption DEF RegistryInit, OrderInv, Managed

LEMMA OrderInvNext ==
  ASSUME ReleasesInOrder
  PROVE  OrderInv /\ [RegistryNext]_registryVars => OrderInv'
<1> SUFFICES ASSUME OrderInv, [RegistryNext]_registryVars
             PROVE  OrderInv'
  OBVIOUS
<1> USE RegistryAssumption
<1>1. RegistryTypeOK /\ RegistryTypeOK'
  BY RegistryNextType, RegistryStutterType DEF OrderInv
<1>2. devices \in [Slots -> Devs \cup {NULL}] /\ modstate \in [Drivers -> {"unloaded", "live", "going"}]
  BY <1>1 DEF RegistryTypeOK
<1>3. ASSUME UNCHANGED devices,
             \A d \in Managed : modstate'[DriverOf[d]] # "unloaded"
      PROVE  OrderInv'
  BY <1>1, <1>3 DEF OrderInv, Managed
<1>4. ASSUME NEW m \in Drivers, ModuleLoad(m) \/ ModuleUnloadBegin(m) \/ ModuleUnloadEnd(m)
      PROVE  OrderInv'
  <2>1. \A d \in Managed : d \in Devs /\ DriverOf[d] \in Drivers
    BY DEF Managed
  <2>2. \A d \in Managed : modstate'[DriverOf[d]] # "unloaded"
    BY <1>2, <1>4, <2>1 DEF ModuleLoad, ModuleUnloadBegin, ModuleUnloadEnd, OrderInv
  <2> QED
    BY <1>3, <1>4, <2>2 DEF ModuleLoad, ModuleUnloadBegin, ModuleUnloadEnd
<1>5. ASSUME NEW d \in Devs, DeviceManage(d)
      PROVE  OrderInv'
  <2>1. d \notin Managed /\ modstate[DriverOf[d]] = "live" /\ UNCHANGED modstate
        /\ Group[d] # NULL /\ Name[d] # NULL
    BY <1>5 DEF DeviceManage, MayManage
  <2>2. CASE UNCHANGED devices
    BY <1>3, <2>1, <2>2 DEF OrderInv
  <2>3. ASSUME NEW s \in Slots, TableGrows(d, s)
        PROVE  OrderInv'
    <3>1. \A t \in Slots : devices'[t] = IF t = s THEN d ELSE devices[t]
      BY <1>2, <2>3 DEF TableGrows
    <3>2. \A t \in Slots : devices[t] = NULL <=> s <= t
      BY <2>3 DEF TableGrows
    <3>3. d # NULL /\ \A t \in Slots : devices[t] # d
      BY <2>1 DEF Managed
    <3>4. \A t, u \in Slots : devices'[t] = devices'[u] /\ devices'[t] # NULL => t = u
      BY <3>1, <3>3 DEF OrderInv
    <3>5. \A t, u \in Slots : t < u /\ devices'[t] = NULL => devices'[u] = NULL
      BY <3>1, <3>2, <3>3 DEF Slots
    <3>6. \A e \in Managed' : e = d \/ e \in Managed
      BY <3>1 DEF Managed
    <3> QED
      BY <1>1, <2>1, <3>4, <3>5, <3>6 DEF OrderInv
  <2> QED
    BY <1>5, <2>2, <2>3, ManageGrows
<1>6. ASSUME NEW d \in Devs, DeviceRelease(d)
      PROVE  OrderInv'
  <2>1. UNCHANGED modstate
    BY <1>6 DEF DeviceRelease
  <2>2. CASE UNCHANGED devices
    BY <1>3, <2>1, <2>2 DEF OrderInv
  <2>3. ASSUME NEW s \in Slots, TableShrinks(s)
        PROVE  OrderInv'
    <3>1. \A t \in Slots : devices'[t] = IF t = s THEN NULL ELSE devices[t]
      BY <1>2, <2>3 DEF TableShrinks
    <3>2. \A t \in Slots : s < t => devices[t] = NULL
      BY <2>3 DEF TableShrinks
    <3>4. \A t, u \in Slots : devices'[t] = devices'[u] /\ devices'[t] # NULL => t = u
      BY <3>1 DEF OrderInv
    <3>5. \A t, u \in Slots : t < u /\ devices'[t] = NULL => devices'[u] = NULL
      BY <3>1, <3>2 DEF OrderInv, Slots
    <3>6. Managed' \subseteq Managed
      BY <3>1 DEF Managed
    <3> QED
      BY <1>1, <2>1, <3>4, <3>5, <3>6 DEF OrderInv
  <2> QED
    BY <1>6, <2>2, <2>3, ReleaseShrinks
<1>7. ASSUME NEW d \in Devs, DeviceManageRegisterFails(d)
      PROVE  OrderInv'
  BY <1>3, <1>7 DEF DeviceManageRegisterFails, OrderInv
<1>8. CASE UNCHANGED registryVars
  BY <1>3, <1>8 DEF registryVars, OrderInv
<1> QED
  BY <1>4, <1>5, <1>6, <1>7, <1>8 DEF RegistryNext

LEMMA OrderInvariant ==
  ASSUME ReleasesInOrder
  PROVE  RegistrySpec => []OrderInv
<1>1. OrderInv /\ [RegistryNext]_registryVars => OrderInv'
  BY OrderInvNext
<1> QED
  BY <1>1, OrderInvInit, PTL DEF RegistrySpec

\* manager.h: while drivers release their devices in reverse order, the search for an
\* instance fails only when the table is full, although it gives up at any hit in the last
\* slot: that slot is the last one to be filled.
THEOREM GivesUpOnlyOnFullTable ==
  ASSUME ReleasesInOrder
  PROVE  RegistrySpec => []GivesUpOnlyWhenFull
<1>1. OrderInv => GivesUpOnlyWhenFull
  <2> SUFFICES ASSUME OrderInv, NEW d \in Devs, NextAvailableInstanceId(d) = {}
               PROVE  EmptySlot = {}
    BY DEF GivesUpOnlyWhenFull
  <2> DEFINE last == CUDDLK_MAX_MANAGED_DEVICES - 1
  <2>1. devices[last] # NULL
    BY NextIsScan DEF HitIn
  <2>2. last \in Slots /\ \A s \in Slots : s = last \/ s < last
    BY RegistryAssumption DEF Slots
  <2>3. \A s \in Slots : devices[s] # NULL
    BY <2>1, <2>2 DEF OrderInv
  <2> QED
    BY <2>3 DEF EmptySlot, DeviceSlot, First
<1> QED
  BY <1>1, OrderInvariant, PTL

-----------------------------------------------------------------------------
(* Instances *)

\* Where the table is the same below a slot, and so are the instances of its devices, the
\* search gives the same there.
LEMMA InstanceStays ==
  ASSUME OrderInv, InstancesInv, NEW s \in Slots, devices'[s] = devices[s], devices[s] # NULL,
         \A t \in Slots : t < s => devices'[t] = devices[t],
         \A t \in Slots : devices[t] # NULL => instance'[devices[t]] = instance[devices[t]]
  PROVE  instance'[devices'[s]] =
           IF ConfiguredInstance[devices'[s]] # 0 THEN ConfiguredInstance[devices'[s]]
           ELSE Scan(devices', instance', devices'[s])[s]
<1>1. s \in ScanRounds
  BY RegistryAssumption DEF ScanRounds, Slots
<1>2. Scan(devices', instance', devices[s])[s] = Scan(devices, instance, devices[s])[s]
  <2>1. AlikeBelow(devices, instance, devices', instance', s)
    BY DEF AlikeBelow
  <2> QED
    BY <1>1, <2>1, ScanAgrees
<1>3. instance'[devices[s]] = instance[devices[s]]
  OBVIOUS
<1> QED
  BY <1>2, <1>3 DEF InstancesInv

LEMMA InstancesInvInit == RegistryInit => InstancesInv
  BY DEF RegistryInit, InstancesInv

LEMMA InstancesInvNext ==
  ASSUME ReleasesInOrder, FreshStructs
  PROVE  OrderInv /\ InstancesInv /\ [RegistryNext]_registryVars => InstancesInv'
<1> SUFFICES ASSUME OrderInv, InstancesInv, [RegistryNext]_registryVars
             PROVE  InstancesInv'
  OBVIOUS
<1> USE RegistryAssumption
<1>1. /\ devices \in [Slots -> Devs \cup {NULL}]
      /\ instance \in [Devs -> Nat]
      /\ modstate \in [Drivers -> {"unloaded", "live", "going"}]
  BY DEF OrderInv, RegistryTypeOK
<1>2. \A s \in Slots : devices[s] # NULL => devices[s] \in Managed
  BY <1>1 DEF Managed
<1>3. ASSUME UNCHANGED devices, \A e \in Managed : instance'[e] = instance[e]
      PROVE  InstancesInv'
  <2> SUFFICES ASSUME NEW s \in Slots, devices'[s] # NULL
               PROVE  instance'[devices'[s]] =
                        IF ConfiguredInstance[devices'[s]] # 0 THEN ConfiguredInstance[devices'[s]]
                        ELSE Scan(devices', instance', devices'[s])[s]
    BY DEF InstancesInv
  <2> QED
    BY <1>2, <1>3, InstanceStays
<1>4. ASSUME NEW m \in Drivers, ModuleLoad(m)
      PROVE  InstancesInv'
  <2>1. \A e \in Managed : DriverOf[e] # m
    BY <1>4 DEF ModuleLoad, OrderInv
  <2>2. \A e \in Managed : instance'[e] = instance[e]
    BY <1>4, <2>1 DEF ModuleLoad, Managed
  <2> QED
    BY <1>3, <1>4, <2>2 DEF ModuleLoad
<1>5. ASSUME NEW m \in Drivers, ModuleUnloadBegin(m) \/ ModuleUnloadEnd(m)
      PROVE  InstancesInv'
  BY <1>3, <1>5 DEF ModuleUnloadBegin, ModuleUnloadEnd
<1>6. ASSUME NEW d \in Devs, MayManage(d), NEW i \in InstanceFor(d),
             instance' = [instance EXCEPT ![d] = i]
      PROVE  \A e \in Devs : instance'[e] = IF e = d THEN i ELSE instance[e]
  BY <1>1, <1>6
<1>7. ASSUME NEW d \in Devs, DeviceManage(d)
      PROVE  InstancesInv'
  <2>1. PICK i \in InstanceFor(d) : instance' = [instance EXCEPT ![d] = i]
    BY <1>7 DEF DeviceManage
  <2>2. MayManage(d) /\ d \notin Managed /\ instance[d] = ConfiguredInstance[d]
    BY <1>7 DEF DeviceManage, MayManage, FreshStructs
  <2>3. \A e \in Devs : instance'[e] = IF e = d THEN i ELSE instance[e]
    BY <1>6, <2>1, <2>2
  <2>4. \A e \in Managed : instance'[e] = instance[e]
    BY <2>2, <2>3 DEF Managed
  <2>5. CASE UNCHANGED devices
    BY <1>3, <2>4, <2>5
  <2>6. ASSUME NEW s \in Slots, TableGrows(d, s)
        PROVE  InstancesInv'
    <3>1. \A t \in Slots : devices'[t] = IF t = s THEN d ELSE devices[t]
      BY <1>1, <2>6 DEF TableGrows
    <3>2. \A t \in Slots : devices[t] = NULL <=> s <= t
      BY <2>6 DEF TableGrows
    <3> SUFFICES ASSUME NEW t \in Slots, devices'[t] # NULL
                 PROVE  instance'[devices'[t]] =
                          IF ConfiguredInstance[devices'[t]] # 0 THEN ConfiguredInstance[devices'[t]]
                          ELSE Scan(devices', instance', devices'[t])[t]
      BY DEF InstancesInv
    <3>3. CASE t # s
      <4>1. devices[t] # NULL /\ t < s
        BY <3>1, <3>2, <3>3 DEF Slots
      <4>2. \A u \in Slots : u < t => devices'[u] = devices[u]
        BY <3>1, <4>1 DEF Slots
      <4> QED
        BY <1>2, <2>4, <3>1, <3>3, <4>1, <4>2, InstanceStays
    <3>4. CASE t = s
      <4>1. devices'[t] = d /\ instance'[d] = i
        BY <2>3, <3>1, <3>4
      <4>2. CASE ConfiguredInstance[d] # 0
        BY <2>1, <2>2, <4>1, <4>2 DEF InstanceFor
      <4>3. CASE ConfiguredInstance[d] = 0
        <5>1. i \in NextAvailableInstanceId(d)
          BY <2>1, <2>2, <4>3 DEF InstanceFor
        <5>2. i = Scan(devices, instance, d)[(CUDDLK_MAX_MANAGED_DEVICES - 1) + 1]
          BY <5>1, NextIsScan
        <5>3. (CUDDLK_MAX_MANAGED_DEVICES - 1) + 1 = CUDDLK_MAX_MANAGED_DEVICES
          OBVIOUS
        <5>4. s \in ScanRounds
          BY DEF ScanRounds, Slots
        <5>5. Scan(devices, instance, d)[CUDDLK_MAX_MANAGED_DEVICES] = Scan(devices, instance, d)[s]
          BY <3>2, <5>4, ScanStays
        <5>6. \A u \in Slots : u < s => devices'[u] = devices[u]
          BY <3>1 DEF Slots
        <5>7. AlikeBelow(devices, instance, devices', instance', s)
          BY <1>2, <2>4, <5>6 DEF AlikeBelow
        <5>8. Scan(devices', instance', d)[s] = Scan(devices, instance, d)[s]
          BY <5>4, <5>7, ScanAgrees
        <5> QED
          BY <3>4, <4>1, <4>3, <5>2, <5>3, <5>5, <5>8
      <4> QED
        BY <4>2, <4>3
    <3> QED
      BY <3>3, <3>4
  <2> QED
    BY <1>7, <2>5, <2>6, ManageGrows
<1>8. ASSUME NEW d \in Devs, DeviceManageRegisterFails(d)
      PROVE  InstancesInv'
  <2>1. PICK i \in InstanceFor(d) : instance' = [instance EXCEPT ![d] = i]
    BY <1>8 DEF DeviceManageRegisterFails
  <2>2. MayManage(d) /\ d \notin Managed /\ UNCHANGED devices
    BY <1>8 DEF DeviceManageRegisterFails, MayManage
  <2>3. \A e \in Devs : instance'[e] = IF e = d THEN i ELSE instance[e]
    BY <1>6, <2>1, <2>2
  <2> QED
    BY <1>3, <2>2, <2>3 DEF Managed
<1>9. ASSUME NEW d \in Devs, DeviceRelease(d)
      PROVE  InstancesInv'
  <2>1. UNCHANGED instance
    BY <1>9 DEF DeviceRelease
  <2>2. CASE UNCHANGED devices
    BY <1>3, <2>1, <2>2
  <2>3. ASSUME NEW s \in Slots, TableShrinks(s)
        PROVE  InstancesInv'
    <3>1. \A t \in Slots : devices'[t] = IF t = s THEN NULL ELSE devices[t]
      BY <1>1, <2>3 DEF TableShrinks
    <3>2. \A t \in Slots : s < t => devices[t] = NULL
      BY <2>3 DEF TableShrinks
    <3> SUFFICES ASSUME NEW t \in Slots, devices'[t] # NULL
                 PROVE  instance'[devices'[t]] =
                          IF ConfiguredInstance[devices'[t]] # 0 THEN ConfiguredInstance[devices'[t]]
                          ELSE Scan(devices', instance', devices'[t])[t]
      BY DEF InstancesInv
    <3>3. devices'[t] = devices[t] /\ t < s
      BY <3>1, <3>2 DEF Slots
    <3>4. \A u \in Slots : u < t => devices'[u] = devices[u]
      BY <3>1, <3>3 DEF Slots
    <3> QED
      BY <2>1, <3>3, <3>4, InstanceStays
  <2> QED
    BY <1>9, <2>2, <2>3, ReleaseShrinks
<1>10. CASE UNCHANGED registryVars
  BY <1>3, <1>10 DEF registryVars
<1> QED
  BY <1>4, <1>5, <1>7, <1>8, <1>9, <1>10 DEF RegistryNext

LEMMA InstancesInvariant ==
  ASSUME ReleasesInOrder, FreshStructs
  PROVE  RegistrySpec => [](OrderInv /\ InstancesInv)
<1>1. OrderInv /\ InstancesInv /\ [RegistryNext]_registryVars => (OrderInv /\ InstancesInv)'
  BY OrderInvNext, InstancesInvNext
<1> QED
  BY <1>1, OrderInvInit, InstancesInvInit, PTL DEF RegistrySpec

\* Of two devices of one name the search for the second has counted the first.
LEMMA LaterIsHigher ==
  ASSUME OrderInv, InstancesInv, NEW s \in Slots, NEW t \in Slots, s < t,
         devices[s] # NULL, devices[t] # NULL,
         Group[devices[s]] = Group[devices[t]], Name[devices[s]] = Name[devices[t]],
         ConfiguredInstance[devices[s]] = 0, ConfiguredInstance[devices[t]] = 0
  PROVE  instance[devices[s]] < instance[devices[t]]
<1> DEFINE scan == Scan(devices, instance, devices[t])
<1>1. Scan(devices, instance, devices[s]) = scan
  BY DEF Scan, Round, HitIn
<1>2. instance[devices[s]] = scan[s] /\ instance[devices[t]] = scan[t]
  BY <1>1 DEF InstancesInv
<1>3. scan[s + 1] = scan[s] + 1
  <2>1. HitIn(devices, instance, devices[t], s, scan[s])
    BY <1>2 DEF HitIn
  <2> QED
    BY <2>1, ScanSteps
<1>4. s \in ScanRounds /\ s + 1 \in ScanRounds /\ t \in ScanRounds /\ s + 1 <= t
  BY RegistryAssumption DEF ScanRounds, Slots
<1>5. scan[s + 1] <= scan[t]
  BY <1>4, ScanMonotone
<1>6. scan[s] \in Nat /\ scan[s + 1] \in Nat /\ scan[t] \in Nat
  BY <1>4, ScanPositive
<1> HIDE DEF scan
<1> QED
  BY <1>2, <1>3, <1>5, <1>6

LEMMA InstancesTellApart ==
  ASSUME NumberedAutomatically, OrderInv, InstancesInv
  PROVE  InstancesUnique
<1> SUFFICES ASSUME NEW d \in Managed, NEW e \in Managed, d # e,
                    Group[d] = Group[e], Name[d] = Name[e], instance[d] = instance[e]
             PROVE  FALSE
  BY DEF InstancesUnique
<1>1. PICK s \in Slots, t \in Slots : devices[s] = d /\ devices[t] = e
  BY DEF Managed
<1>2. d \in Devs /\ e \in Devs /\ d # NULL /\ e # NULL
  BY RegistryAssumption DEF Managed
<1>3. ConfiguredInstance[d] = 0 /\ ConfiguredInstance[e] = 0
  BY <1>2 DEF NumberedAutomatically
<1>4. s < t \/ t < s
  BY <1>1, RegistryAssumption DEF Slots
<1>5. instance[d] \in Nat /\ instance[e] \in Nat
  BY <1>2 DEF OrderInv, RegistryTypeOK
<1>6. CASE s < t
  BY <1>1, <1>2, <1>3, <1>5, <1>6, LaterIsHigher
<1>7. CASE t < s
  BY <1>1, <1>2, <1>3, <1>5, <1>7, LaterIsHigher
<1> QED
  BY <1>4, <1>6, <1>7

\* device.h: while drivers release their devices in reverse order, initialise a struct before
\* they manage it and leave the numbering of devices of one name to Cuddl, no two managed
\* devices of one name have one instance.
THEOREM InstancesAreUnique ==
  ASSUME ReleasesInOrder, FreshStructs, NumberedAutomatically
  PROVE  RegistrySpec => []InstancesUnique
<1>1. OrderInv /\ InstancesInv => InstancesUnique
  BY InstancesTellApart
<1> QED
  BY <1>1, InstancesInvariant, PTL

-----------------------------------------------------------------------------
(* Searches *)

\* An ascending scan of a set of indices stops if there is one to stop at.
LEMMA FirstExists ==
  ASSUME NEW S \in SUBSET Nat, S # {}
  PROVE  /\ First(S) # {}
         /\ \A i \in First(S) : i \in S /\ \A j \in S : i <= j
  BY LeastNatural DEF First

\* Resources are pairs of a kind and an index.
LEMMA ResourcePairs ==
  /\ \A r \in Resources : /\ r[1] \in {"mem", "event"} /\ r[2] \in Nat
                          /\ r = <<r[1], r[2]>>
  /\ \A i : <<"mem", i>> \in Resources <=> i \in 0 .. CUDDLK_MAX_DEV_MEM_REGIONS - 1
  /\ \A i : <<"event", i>> \in Resources <=> i \in 0 .. CUDDLK_MAX_DEV_EVENTS - 1
<1> USE RegistryAssumption
<1>1. \A S : \A r \in {"mem"} \X S : \E i \in S : r = <<"mem", i>>
  OBVIOUS
<1>2. \A S : \A r \in {"event"} \X S : \E i \in S : r = <<"event", i>>
  OBVIOUS
<1>3. ASSUME NEW r \in MemRegions
      PROVE  r[1] = "mem" /\ r[2] \in Nat /\ r = <<r[1], r[2]>>
  <2>1. PICK i \in 0 .. CUDDLK_MAX_DEV_MEM_REGIONS - 1 : r = <<"mem", i>>
    BY <1>1 DEF MemRegions
  <2> QED
    BY <2>1
<1>4. ASSUME NEW r \in EventSrcs
      PROVE  r[1] = "event" /\ r[2] \in Nat /\ r = <<r[1], r[2]>>
  <2>1. PICK i \in 0 .. CUDDLK_MAX_DEV_EVENTS - 1 : r = <<"event", i>>
    BY <1>2 DEF EventSrcs
  <2> QED
    BY <2>1
<1>5. ASSUME NEW i
      PROVE  /\ <<"mem", i>> \in Resources <=> i \in 0 .. CUDDLK_MAX_DEV_MEM_REGIONS - 1
             /\ <<"event", i>> \in Resources <=> i \in 0 .. CUDDLK_MAX_DEV_EVENTS - 1
  BY DEF Resources, MemRegions, EventSrcs
<1> QED
  BY <1>3, <1>4, <1>5 DEF Resources

\* Drivers give their devices a group and a name that is not empty.
NamesGiven == \A d \in Devs : Group[d] # "" /\ Name[d] # ""

\* What a complete identifier of a managed device resolves to.
LEMMA IdentifierResolves ==
  ASSUME NumberedAutomatically, NamesGiven, OrderInv, InstancesInv,
         NEW d \in Managed, NEW r \in Resources, ~DontCare(ResName[d][r])
  PROVE  LET id == [group |-> Group[d], device |-> Name[d],
                    resource |-> ResName[d][r], instance |-> instance[d]]
         IN  /\ Lookup(id, r[1]) # {}
             /\ \A t \in Lookup(id, r[1]) : /\ devices[t[1]] = d
                                           /\ ResName[d][t[2]] = ResName[d][r]
                                           /\ t[2][2] <= r[2]
<1> DEFINE name == ResName[d][r]
           id == [group |-> Group[d], device |-> Name[d], resource |-> name, instance |-> instance[d]]
           named(e) == {i \in Nat : <<r[1], i>> \in Resources /\ ResName[e][<<r[1], i>>] = name}
<1> HIDE DEF name
<1>0. name # NULL /\ ~DontCare(name)
  BY DEF name, DontCare
<1>1. r[1] \in {"mem", "event"} /\ r[2] \in Nat /\ r = <<r[1], r[2]>>
  BY ResourcePairs
<1>2. \A e : ResourceSlot(e, r[1], name) = First(named(e))
  <2> TAKE e
  <2>1. CASE r[1] = "mem"
    <3>1. {i \in 0 .. CUDDLK_MAX_DEV_MEM_REGIONS - 1 :
             /\ ResName[e][<<"mem", i>>] # NULL
             /\ DontCare(name) \/ ResName[e][<<"mem", i>>] = name} = named(e)
      BY <1>0, <2>1, ResourcePairs, RegistryAssumption
    <3> HIDE DEF named
    <3> QED
      BY <2>1, <3>1 DEF ResourceSlot, MemregionSlot
  <2>2. CASE r[1] = "event"
    <3>1. {i \in 0 .. CUDDLK_MAX_DEV_EVENTS - 1 :
             /\ ResName[e][<<"event", i>>] # NULL
             /\ DontCare(name) \/ ResName[e][<<"event", i>>] = name} = named(e)
      BY <1>0, <2>2, ResourcePairs, RegistryAssumption
    <3> HIDE DEF named
    <3> QED
      BY <2>2, <3>1 DEF ResourceSlot, EventsrcSlot
  <2> QED
    BY <1>1, <2>1, <2>2
<1>3. /\ d \in Devs /\ ~DontCare(Group[d]) /\ ~DontCare(Name[d])
      /\ \E s \in Slots : devices[s] = d
  BY DEF Managed, OrderInv, NamesGiven, DontCare
<1>4. instance[d] # 0
  <2>1. PICK s \in Slots : devices[s] = d
    BY <1>3
  <2>2. s \in ScanRounds /\ d # NULL
    BY <1>3, RegistryAssumption DEF ScanRounds, Slots
  <2>3. Scan(devices, instance, d)[s] # 0
    BY <2>2, ScanPositive
  <2> QED
    BY <2>1, <2>2, <2>3 DEF InstancesInv
<1>5. \A e \in Managed : DeviceMatches(e, id, r[1]) => e = d
  <2>1. \A e \in Managed : DeviceMatches(e, id, r[1]) =>
          instance[e] = instance[d] /\ Group[e] = Group[d] /\ Name[e] = Name[d]
    BY <1>3, <1>4 DEF DeviceMatches
  <2> QED
    BY <2>1, InstancesTellApart DEF InstancesUnique
<1>6. r[2] \in named(d) /\ named(d) \in SUBSET Nat
  BY <1>1 DEF name
<1>7. First(named(d)) # {} /\ \A i \in First(named(d)) : i \in named(d) /\ i <= r[2]
  <2> HIDE DEF named
  <2>1. named(d) # {}
    BY <1>6
  <2> QED
    BY <1>6, <2>1, FirstExists
<1>8. DeviceMatches(d, id, r[1])
  BY <1>2, <1>7 DEF DeviceMatches
<1> DEFINE matching == {s \in Slots : s >= 0 /\ devices[s] # NULL /\ DeviceMatches(devices[s], id, r[1])}
<1> HIDE DEF named, id
<1>9. matching # {} /\ matching \in SUBSET Nat
  <2>1. PICK s \in Slots : devices[s] = d
    BY <1>3
  <2>2. s >= 0 /\ d # NULL
    BY <1>3, RegistryAssumption DEF Slots
  <2>3. s \in matching
    BY <1>8, <2>1, <2>2
  <2>4. matching \subseteq Slots
    OBVIOUS
  <2> QED
    BY <2>3, <2>4, RegistryAssumption DEF Slots
<1>10. \A s \in matching : devices[s] = d
  BY <1>5 DEF Managed, OrderInv, RegistryTypeOK
<1>11. DeviceSlotMatching(id, r[1], 0) = First(matching)
  BY DEF DeviceSlotMatching
<1> HIDE DEF matching
<1>12. /\ DeviceSlotMatching(id, r[1], 0) # {}
       /\ \A s \in DeviceSlotMatching(id, r[1], 0) : s \in Slots /\ devices[s] = d
  BY <1>9, <1>10, <1>11, FirstExists DEF matching
<1>13. id.resource = name
  BY DEF id
<1>14. Lookup(id, r[1]) # {}
  <2>1. PICK s \in Slots : s \in DeviceSlotMatching(id, r[1], 0) /\ devices[s] = d
    BY <1>12
  <2>2. PICK i \in First(named(d)) : i \in named(d)
    BY <1>7
  <2>3. <<r[1], i>> \in Resources
    BY <2>2 DEF named
  <2>4. <<s, <<r[1], i>>>> \in Lookup(id, r[1])
    BY <1>2, <1>13, <2>1, <2>2, <2>3 DEF Lookup
  <2> QED
    BY <2>4
<1>15. ASSUME NEW t \in Lookup(id, r[1])
       PROVE  devices[t[1]] = d /\ ResName[d][t[2]] = name /\ t[2][2] <= r[2]
  <2>1. /\ t[1] \in DeviceSlotMatching(id, r[1], 0) /\ t[2] \in Resources /\ t[2][1] = r[1]
        /\ t[2][2] \in ResourceSlot(devices[t[1]], r[1], id.resource)
    BY DEF Lookup
  <2>2. devices[t[1]] = d
    BY <1>12, <2>1
  <2>3. t[2][2] \in named(d) /\ t[2][2] <= r[2]
    BY <1>2, <1>7, <1>13, <2>1, <2>2
  <2>4. t[2] = <<r[1], t[2][2]>>
    BY <2>1, ResourcePairs
  <2> QED
    BY <2>2, <2>3, <2>4 DEF named
<1> QED
  BY <1>14, <1>15 DEF id, name

LEMMA FullIdentifierResolves ==
  ASSUME NumberedAutomatically, NamesGiven, OrderInv, InstancesInv
  PROVE  FullIdentifierDenotesItsResource
  BY IdentifierResolves DEF FullIdentifierDenotesItsResource, DontCare

\* Under the same conditions, and if drivers give names at all, a complete identifier of a
\* managed device resolves to that device and its first resource of the name.
THEOREM FullIdentifiersResolve ==
  ASSUME ReleasesInOrder, FreshStructs, NumberedAutomatically, NamesGiven
  PROVE  RegistrySpec => []FullIdentifierDenotesItsResource
<1>1. OrderInv /\ InstancesInv => FullIdentifierDenotesItsResource
  BY FullIdentifierResolves
<1> QED
  BY <1>1, InstancesInvariant, PTL

\* The types of the table hold whatever drivers do.
THEOREM RegistryTypeCorrect == RegistrySpec => []RegistryTypeOK
<1>1. RegistryTypeOK /\ [RegistryNext]_registryVars => RegistryTypeOK'
  BY RegistryNextType, RegistryStutterType
<1> QED
  BY <1>1, RegistryInitType, PTL DEF RegistrySpec
=============================================================================
