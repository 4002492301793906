-------------------------- MODULE CuddlQueries_proofs --------------------------
(***************************************************************************)
(* Proofs about the queries, for every number of slots, devices and        *)
(* drivers, every way to name devices and resources and every way to print *)
(* numbers: enumeration and search know the same resources, and what is    *)
(* printed of an identifier finds what it was printed for.                 *)
(***************************************************************************)
EXTENDS CuddlQueries, CuddlRegistry_proofs

\* A driver that names a resource populates it, so that enumeration (by type or interrupt
\* number) knows what a search (by name) finds.
NamedIsPopulated ==
  \A d \in Devs, r \in Resources : ResName[d][r] # NULL => Populated[d][r]

\* A driver that populates a resource gives it a name that is not empty.
PopulatedIsNamed ==
  \A d \in Devs, r \in Resources : Populated[d][r] => ResName[d][r] \notin {NULL, ""}

-----------------------------------------------------------------------------
(* What is listed *)

\* Slots and resources that are listed: the populated resources of the devices in the table.
LEMMA ListedResources ==
  ASSUME NEW kind \in Kinds, NEW t
  PROVE  t \in Listed(kind) <=>
           \E s \in Slots, r \in Resources :
             /\ t = <<s, r>> /\ r[1] = kind
             /\ devices[s] # NULL /\ Populated[devices[s]][r]
<1> USE RegistryAssumption
<1>1. SlotCounts.devices = CUDDLK_MAX_MANAGED_DEVICES
  BY DEF SlotCounts
<1>2. SlotCounts["mem"] = CUDDLK_MAX_DEV_MEM_REGIONS /\ SlotCounts["event"] = CUDDLK_MAX_DEV_EVENTS
  BY DEF SlotCounts
<1>3. ASSUME NEW s \in Slots, NEW i
      PROVE  i \in 0 .. SlotCounts[kind] - 1 /\ StatusForSlot(kind, s, i) = "ok" <=>
               <<kind, i>> \in Resources /\ devices[s] # NULL /\ Populated[devices[s]][<<kind, i>>]
  <2>1. CASE kind = "mem"
    <3>1. i \in 0 .. SlotCounts[kind] - 1 <=> <<kind, i>> \in Resources
      BY <1>2, <2>1, ResourcePairs
    <3> QED
      BY <1>2, <2>1, <3>1 DEF StatusForSlot, MemregionIdForSlot
  <2>2. CASE kind = "event"
    <3>1. i \in 0 .. SlotCounts[kind] - 1 <=> <<kind, i>> \in Resources
      BY <1>2, <2>2, ResourcePairs
    <3> QED
      BY <1>2, <2>2, <3>1 DEF StatusForSlot, EventsrcIdForSlot
  <2> QED
    BY <2>1, <2>2 DEF Kinds
<1>4. t \in Listed(kind) <=>
        \E s \in Slots : \E i \in 0 .. SlotCounts[kind] - 1 :
          t = <<s, <<kind, i>>>> /\ StatusForSlot(kind, s, i) = "ok"
  <2> DEFINE pairs == {y \in (0 .. SlotCounts.devices - 1) \X (0 .. SlotCounts[kind] - 1) :
                         StatusForSlot(kind, y[1], y[2]) = "ok"}
  <2>1. \A y : y \in pairs <=>
          \E s \in Slots : \E i \in 0 .. SlotCounts[kind] - 1 :
            y = <<s, i>> /\ StatusForSlot(kind, s, i) = "ok"
    BY <1>1 DEF Slots
  <2>2. t \in Listed(kind) <=> \E y \in pairs : t = <<y[1], <<kind, y[2]>>>>
    BY DEF Listed
  <2> HIDE DEF pairs
  <2>3. ASSUME NEW y \in pairs, t = <<y[1], <<kind, y[2]>>>>
        PROVE  \E s \in Slots : \E i \in 0 .. SlotCounts[kind] - 1 :
                 t = <<s, <<kind, i>>>> /\ StatusForSlot(kind, s, i) = "ok"
    BY <2>1, <2>3
  <2>4. ASSUME NEW s \in Slots, NEW i \in 0 .. SlotCounts[kind] - 1,
               t = <<s, <<kind, i>>>>, StatusForSlot(kind, s, i) = "ok"
        PROVE  \E y \in pairs : t = <<y[1], <<kind, y[2]>>>>
    <3>1. <<s, i>> \in pairs
      BY <2>1, <2>4
    <3> QED
      BY <2>4, <3>1
  <2> QED
    BY <2>2, <2>3, <2>4
<1>5. ASSUME NEW s \in Slots, NEW i \in 0 .. SlotCounts[kind] - 1,
             t = <<s, <<kind, i>>>>, StatusForSlot(kind, s, i) = "ok"
      PROVE  \E r \in Resources : /\ t = <<s, r>> /\ r[1] = kind
                                  /\ devices[s] # NULL /\ Populated[devices[s]][r]
  BY <1>3, <1>5
<1>6. ASSUME NEW s \in Slots, NEW r \in Resources, t = <<s, r>>, r[1] = kind,
             devices[s] # NULL, Populated[devices[s]][r]
      PROVE  \E i \in 0 .. SlotCounts[kind] - 1 :
               t = <<s, <<kind, i>>>> /\ StatusForSlot(kind, s, i) = "ok"
  <2>1. r = <<kind, r[2]>>
    BY <1>6, ResourcePairs
  <2> QED
    BY <1>3, <1>6, <2>1
<1> QED
  BY <1>4, <1>5, <1>6

\* What a search finds is a resource with a name of a device that matches.
LEMMA FoundResources ==
  ASSUME NEW id, NEW kind \in Kinds, NEW t \in InfoForId(id, kind)
  PROVE  /\ t[1] \in Slots /\ t[2] \in Resources /\ t[2][1] = kind /\ t = <<t[1], t[2]>>
         /\ devices[t[1]] # NULL /\ DeviceMatches(devices[t[1]], id, kind)
         /\ ResName[devices[t[1]]][t[2]] # NULL
         /\ DontCare(id.resource) \/ ResName[devices[t[1]]][t[2]] = id.resource
<1>1. /\ t \in Slots \X Resources /\ t[2][1] = kind
      /\ t[1] \in DeviceSlotMatching(id, kind, 0)
      /\ t[2][2] \in ResourceSlot(devices[t[1]], kind, id.resource)
  BY DEF InfoForId, Lookup
<1>2. t[1] \in Slots /\ t[2] \in Resources /\ t = <<t[1], t[2]>>
  BY <1>1
<1>3. t[2] = <<kind, t[2][2]>>
  BY <1>1, <1>2, ResourcePairs
<1>4. devices[t[1]] # NULL /\ DeviceMatches(devices[t[1]], id, kind)
  BY <1>1 DEF DeviceSlotMatching, First
<1>5. /\ ResName[devices[t[1]]][<<kind, t[2][2]>>] # NULL
      /\ DontCare(id.resource) \/ ResName[devices[t[1]]][<<kind, t[2][2]>>] = id.resource
  <2>1. CASE kind = "mem"
    BY <1>1, <2>1 DEF ResourceSlot, MemregionSlot, First
  <2>2. CASE kind = "event"
    BY <1>1, <2>2 DEF ResourceSlot, EventsrcSlot, First
  <2> QED
    BY <2>1, <2>2 DEF Kinds
<1> QED
  BY <1>1, <1>2, <1>3, <1>4, <1>5

\* The identifier that is listed with a resource.
LEMMA ListedIdentifier ==
  ASSUME NEW kind \in Kinds, NEW s, NEW r \in Resources, r[1] = kind
  PROVE  IdForSlot(kind, s, r[2]) = IdOf(devices[s], r)
<1>1. r = <<kind, r[2]>>
  BY ResourcePairs
<1> QED
  BY <1>1 DEF IdForSlot

-----------------------------------------------------------------------------
(* Instances can be printed *)

\* The numbers that are printed.
Numbers == DOMAIN Numeral

LEMMA InstancesAreNumbers ==
  InstanceIds \subseteq Numbers /\ \A d \in Devs : ConfiguredInstance[d] \in Numbers
  BY QueriesAssumption DEF Numbers

\* Instances of devices in the table are chosen, whatever drivers do, and can be printed.
NumberedInv ==
  /\ RegistryTypeOK
  /\ \A d \in Devs : instance[d] \in Numbers
  /\ \A d \in Managed : /\ modstate[DriverOf[d]] # "unloaded"
                        /\ Group[d] # NULL /\ Name[d] # NULL /\ instance[d] # 0

LEMMA NumberedInit == RegistryInit => NumberedInv
  BY RegistryInitType, RegistryAssumption, InstancesAreNumbers DEF RegistryInit, NumberedInv, Managed

LEMMA NumberedNext == NumberedInv /\ [RegistryNext]_registryVars => NumberedInv'
<1> SUFFICES ASSUME NumberedInv, [RegistryNext]_registryVars
             PROVE  NumberedInv'
  OBVIOUS
<1> USE RegistryAssumption
<1>1. RegistryTypeOK /\ RegistryTypeOK'
  BY RegistryNextType, RegistryStutterType DEF NumberedInv
<1>2. /\ devices \in [Slots -> Devs \cup {NULL}] /\ instance \in [Devs -> Nat]
      /\ modstate \in [Drivers -> {"unloaded", "live", "going"}]
  BY <1>1 DEF RegistryTypeOK
<1>3. \A d \in Managed : d \in Devs /\ DriverOf[d] \in Drivers
  BY DEF Managed
<1>4. ASSUME NEW m \in Drivers, ModuleLoad(m)
      PROVE  NumberedInv'
  <2>1. Managed' = Managed
    BY <1>4 DEF ModuleLoad, Managed
  <2>2. \A d \in Devs : instance'[d] \in Numbers
    BY <1>4, InstancesAreNumbers DEF ModuleLoad, NumberedInv
  <2>3. \A d \in Managed : instance'[d] = instance[d] /\ modstate'[DriverOf[d]] # "unloaded"
    BY <1>2, <1>3, <1>4 DEF ModuleLoad, NumberedInv
  <2> QED
    BY <1>1, <2>1, <2>2, <2>3 DEF NumberedInv
<1>5. ASSUME NEW m \in Drivers, ModuleUnloadBegin(m) \/ ModuleUnloadEnd(m)
      PROVE  NumberedInv'
  <2>1. Managed' = Managed /\ UNCHANGED instance
    BY <1>5 DEF ModuleUnloadBegin, ModuleUnloadEnd, Managed
  <2>2. \A d \in Managed : modstate'[DriverOf[d]] # "unloaded"
    BY <1>2, <1>3, <1>5 DEF ModuleUnloadBegin, ModuleUnloadEnd, NumberedInv
  <2> QED
    BY <1>1, <2>1, <2>2 DEF NumberedInv
<1>6. ASSUME NEW d \in Devs, DeviceManage(d) \/ DeviceManageRegisterFails(d)
      PROVE  NumberedInv'
  <2>1. /\ d \notin Managed /\ modstate[DriverOf[d]] = "live" /\ UNCHANGED modstate
        /\ Group[d] # NULL /\ Name[d] # NULL
    BY <1>6 DEF DeviceManage, DeviceManageRegisterFails, MayManage
  <2>2. PICK i \in InstanceFor(d) : instance' = [instance EXCEPT ![d] = i]
    BY <1>6 DEF DeviceManage, DeviceManageRegisterFails
  <2>3. i # 0 /\ i \in Numbers
    BY <1>2, <2>2, InstancesAreNumbers DEF InstanceFor, InstanceIds, NumberedInv
  <2>4. \A e \in Devs : instance'[e] = IF e = d THEN i ELSE instance[e]
    BY <1>2, <2>2
  <2>5. Managed' \subseteq Managed \cup {d}
    <3>1. CASE UNCHANGED devices
      BY <3>1 DEF Managed
    <3>2. CASE \E s \in EmptySlot : devices' = [devices EXCEPT ![s] = d]
      <4>1. PICK s \in Slots : devices' = [devices EXCEPT ![s] = d]
        BY <3>2 DEF EmptySlot, DeviceSlot, First
      <4> QED
        BY <1>2, <4>1 DEF Managed
    <3> QED
      BY <1>6, <3>1, <3>2 DEF DeviceManage, DeviceManageRegisterFails
  <2>6. \A e \in Devs : instance'[e] \in Numbers
    BY <2>3, <2>4 DEF NumberedInv
  <2>7. ASSUME NEW e \in Managed'
        PROVE  /\ modstate'[DriverOf[e]] # "unloaded"
               /\ Group[e] # NULL /\ Name[e] # NULL /\ instance'[e] # 0
    <3>1. e \in Devs /\ (e = d \/ e \in Managed)
      BY <2>5 DEF Managed
    <3> QED
      BY <2>1, <2>3, <2>4, <3>1 DEF NumberedInv
  <2> QED
    BY <1>1, <2>6, <2>7 DEF NumberedInv
<1>7. ASSUME NEW d \in Devs, DeviceRelease(d)
      PROVE  NumberedInv'
  <2>1. UNCHANGED <<instance, modstate>>
    BY <1>7 DEF DeviceRelease
  <2>2. Managed' \subseteq Managed
    BY <1>2, <1>7 DEF DeviceRelease, Managed
  <2> QED
    BY <1>1, <2>1, <2>2 DEF NumberedInv
<1>8. CASE UNCHANGED registryVars
  BY <1>1, <1>8 DEF registryVars, NumberedInv, Managed
<1> QED
  BY <1>4, <1>5, <1>6, <1>7, <1>8 DEF RegistryNext

LEMMA NumberedInvariant == RegistrySpec => []NumberedInv
  BY NumberedInit, NumberedNext, PTL DEF RegistrySpec

\* What is read from a numeral is the number it was printed for.
LEMMA NumeralRead ==
  ASSUME NEW n \in Numbers
  PROVE  InstanceOf(Numeral[n]) = n
<1>1. \A m \in Numbers : Numeral[m] = Numeral[n] => m = n
  BY QueriesAssumption DEF Numbers
<1> QED
  BY <1>1 DEF InstanceOf, Numbers

\* An identifier with all its parts, printed.
LEMMA PrintedParts ==
  ASSUME NEW id, id.group # "", id.device # "", id.resource # "", id.instance # 0
  PROVE  FullName(id) = <<id.group, id.device, id.resource, Numeral[id.instance]>>
  BY DEF FullName, Star

\* The identifier of a resource that is listed, with all its parts, none of them empty.
LEMMA ListedParts ==
  ASSUME NamesGiven, PopulatedIsNamed, NumberedInv,
         NEW s \in Slots, NEW r \in Resources, devices[s] # NULL, Populated[devices[s]][r]
  PROVE  /\ devices[s] \in Managed /\ IdOf(devices[s], r) =
              [group |-> Group[devices[s]], device |-> Name[devices[s]],
               resource |-> ResName[devices[s]][r], instance |-> instance[devices[s]]]
         /\ Group[devices[s]] \notin {NULL, ""} /\ Name[devices[s]] \notin {NULL, ""}
         /\ ResName[devices[s]][r] \notin {NULL, ""}
         /\ instance[devices[s]] \in Numbers \ {0}
<1>1. devices[s] \in Devs /\ devices[s] \in Managed
  BY DEF NumberedInv, RegistryTypeOK, Managed
<1> QED
  BY <1>1 DEF IdOf, NamesGiven, PopulatedIsNamed, NumberedInv

\* A part that is left empty.
NoPart == ""

LEMMA NumeralNotEmpty ==
  ASSUME NEW n \in Numbers
  PROVE  Numeral[n] # NoPart
  BY QueriesAssumption DEF Numbers, NoPart

\* What is read from a text of two parts, of three, and of four with an empty one or none
\* at the end.
LEMMA TwoPartsRead ==
  ASSUME NEW text, Len(text) = 2
  PROVE  ParseFullName(text) =
           [group |-> text[1], device |-> text[2], resource |-> NoPart, instance |-> 0]
  BY DEF ParseFullName, NoPart

LEMMA ThreePartsRead ==
  ASSUME NEW text, Len(text) = 3
  PROVE  ParseFullName(text) =
           [group |-> text[1], device |-> text[2], resource |-> text[3], instance |-> 0]
  BY DEF ParseFullName

LEMMA FourPartsRead ==
  ASSUME NEW text, Len(text) = 4
  PROVE  /\ text[4] = NoPart => ParseFullName(text) =
           [group |-> text[1], device |-> text[2], resource |-> text[3], instance |-> 0]
         /\ text[4] # NoPart => ParseFullName(text) =
           [group |-> text[1], device |-> text[2], resource |-> text[3],
            instance |-> InstanceOf(text[4])]
<1>1. ~(Len(text) = 1) /\ Len(text) >= 3 /\ ~(Len(text) < 4)
  OBVIOUS
<1>2. ASSUME text[4] = NoPart
      PROVE  ParseFullName(text) =
               [group |-> text[1], device |-> text[2], resource |-> text[3], instance |-> 0]
  BY <1>1, <1>2, Zenon DEF ParseFullName, NoPart
<1>3. ASSUME text[4] # NoPart
      PROVE  ParseFullName(text) =
               [group |-> text[1], device |-> text[2], resource |-> text[3],
                instance |-> InstanceOf(text[4])]
  BY <1>1, <1>3, Zenon DEF ParseFullName, NoPart
<1> QED
  BY <1>2, <1>3

-----------------------------------------------------------------------------
(* Enumeration and search *)

LEMMA PrintedResolves ==
  ASSUME NumberedAutomatically, NamesGiven, OrderInv, InstancesInv,
         NEW d \in Managed, NEW r \in Resources, ~DontCare(ResName[d][r])
  PROVE  /\ Lookup(IdOf(d, r), r[1]) # {}
         /\ \A u \in Lookup(IdOf(d, r), r[1]) :
              devices[u[1]] = d /\ ResName[d][u[2]] = ResName[d][r]
<1>1. IdOf(d, r) = [group |-> Group[d], device |-> Name[d],
                    resource |-> ResName[d][r], instance |-> instance[d]]
  BY DEF IdOf
<1> QED
  BY <1>1, IdentifierResolves

LEMMA EnumerationAndSearchAgree ==
  ASSUME NamesGiven, NamedIsPopulated, PopulatedIsNamed, NumberedAutomatically,
         OrderInv, InstancesInv, NumberedInv
  PROVE  ListedIsFound
<1>1. ASSUME NEW kind \in Kinds, NEW s \in Slots, NEW r \in Resources, r[1] = kind,
             devices[s] # NULL, Populated[devices[s]][r]
      PROVE  LET id == IdForSlot(kind, s, r[2])
             IN  /\ \E u \in InfoForId(ParseFullName(FullName(id)), kind) : SameResource(<<s, r>>, u)
                 /\ DriverInfoForId(id, kind) = {devices[s]}
                 /\ HwInfoForId(id, kind) = {devices[s]}
  <2> DEFINE d == devices[s]
             id == [group |-> Group[d], device |-> Name[d],
                    resource |-> ResName[d][r], instance |-> instance[d]]
  <2>1. IdForSlot(kind, s, r[2]) = id
    BY <1>1, ListedIdentifier, ListedParts
  <2>2. /\ d \in Managed /\ Group[d] # "" /\ Name[d] # "" /\ ResName[d][r] \notin {NULL, ""}
        /\ instance[d] \in Numbers \ {0}
    BY <1>1, ListedParts
  <2>3. FullName(id) = <<Group[d], Name[d], ResName[d][r], Numeral[instance[d]]>>
    <3>1. /\ id.group = Group[d] /\ id.device = Name[d]
          /\ id.resource = ResName[d][r] /\ id.instance = instance[d]
      OBVIOUS
    <3>2. Group[d] # "" /\ Name[d] # "" /\ ResName[d][r] # "" /\ instance[d] # 0
      BY <2>2
    <3> HIDE DEF id, d
    <3> QED
      BY <3>1, <3>2, PrintedParts
  <2>4. Numeral[instance[d]] # NoPart /\ InstanceOf(Numeral[instance[d]]) = instance[d]
    BY <2>2, NumeralRead, NumeralNotEmpty
  <2>5. ParseFullName(FullName(id)) = id
    <3> DEFINE text == <<Group[d], Name[d], ResName[d][r], Numeral[instance[d]]>>
    <3>1. /\ Len(text) = 4 /\ text[1] = Group[d] /\ text[2] = Name[d]
          /\ text[3] = ResName[d][r] /\ text[4] = Numeral[instance[d]]
      OBVIOUS
    <3> HIDE DEF text
    <3> QED
      BY <2>3, <2>4, <3>1, FourPartsRead DEF text
  <2>6. /\ Lookup(id, kind) # {}
        /\ \A u \in Lookup(id, kind) : devices[u[1]] = d /\ ResName[d][u[2]] = ResName[d][r]
    <3>1. /\ Lookup(id, r[1]) # {}
          /\ \A u \in Lookup(id, r[1]) : devices[u[1]] = d /\ ResName[d][u[2]] = ResName[d][r]
      <4>1. id = IdOf(d, r)
        BY DEF IdOf
      <4> HIDE DEF id, d
      <4> QED
        BY <2>2, <4>1, PrintedResolves DEF DontCare
    <3> QED
      BY <1>1, <3>1
  <2> HIDE DEF id, d
  <2>7. d \in Devs
    BY <2>2 DEF Managed
  <2>8. \E u \in InfoForId(id, kind) : SameResource(<<s, r>>, u)
    BY <2>6 DEF InfoForId, SameResource, d
  <2>9. \A u \in InfoForId(id, kind) : DriverInfo(u[1]) = {d} /\ HwInfo(u[1]) = {d}
    <3> TAKE u \in InfoForId(id, kind)
    <3>1. u[1] \in Slots /\ devices[u[1]] = d
      BY <2>6 DEF InfoForId, Lookup
    <3> QED
      BY <2>7, <3>1 DEF DriverInfo, HwInfo
  <2>10. DriverInfoForId(id, kind) = {d} /\ HwInfoForId(id, kind) = {d}
    <3>1. InfoForId(id, kind) # {}
      BY <2>6 DEF InfoForId
    <3>2. {DriverInfo(u[1]) : u \in InfoForId(id, kind)} = {{d}}
      BY <2>9, <3>1
    <3>3. {HwInfo(u[1]) : u \in InfoForId(id, kind)} = {{d}}
      BY <2>9, <3>1
    <3> QED
      BY <3>2, <3>3 DEF DriverInfoForId, HwInfoForId
  <2> QED
    BY <2>1, <2>5, <2>8, <2>10 DEF d
<1>2. ASSUME NEW kind \in Kinds, NEW t \in Listed(kind)
      PROVE  LET id == IdForSlot(kind, t[1], t[2][2])
             IN  /\ \E u \in InfoForId(ParseFullName(FullName(id)), kind) : SameResource(t, u)
                 /\ DriverInfoForId(id, kind) = {devices[t[1]]}
                 /\ HwInfoForId(id, kind) = {devices[t[1]]}
  <2>1. PICK s \in Slots, r \in Resources : /\ t = <<s, r>> /\ r[1] = kind
                                            /\ devices[s] # NULL /\ Populated[devices[s]][r]
    BY ListedResources
  <2> QED
    BY <1>1, <2>1
<1>3. ASSUME NEW d \in Managed, NEW r \in Resources, NEW id, NEW t \in InfoForId(id, r[1])
      PROVE  t \in Listed(r[1])
  <2>1. r[1] \in Kinds
    BY ResourcePairs DEF Kinds
  <2>2. /\ t[1] \in Slots /\ t[2] \in Resources /\ t[2][1] = r[1] /\ t = <<t[1], t[2]>>
        /\ devices[t[1]] # NULL /\ ResName[devices[t[1]]][t[2]] # NULL
    BY <2>1, FoundResources
  <2>3. devices[t[1]] \in Devs
    BY <2>2 DEF NumberedInv, RegistryTypeOK
  <2>4. Populated[devices[t[1]]][t[2]]
    BY <2>2, <2>3 DEF NamedIsPopulated
  <2> QED
    BY <2>1, <2>2, <2>4, ListedResources
<1> QED
  BY <1>2, <1>3 DEF ListedIsFound

\* Enumeration goes by the type of a memory region and the interrupt number of an event
\* source, and search goes by their names; if drivers set both, and keep to what
\* FullIdentifiersResolve asks of them, the two know the same resources, and the printed
\* identifier of what is listed finds it again.
THEOREM EnumerationMatchesSearch ==
  ASSUME ReleasesInOrder, FreshStructs, NumberedAutomatically, NamesGiven,
         NamedIsPopulated, PopulatedIsNamed
  PROVE  RegistrySpec => []ListedIsFound
<1>1. OrderInv /\ InstancesInv /\ NumberedInv => ListedIsFound
  BY EnumerationAndSearchAgree
<1> QED
  BY <1>1, NumberedInvariant, InstancesInvariant, PTL

-----------------------------------------------------------------------------
(* Identifiers written down *)

\* A text of some first parts of a printed identifier, any of them left empty.
Excerpt(text, full) ==
  /\ Len(text) \in {2, 3, 4}
  /\ \A j \in 1 .. Len(text) : text[j] \in {NoPart, full[j]}

LEMMA ExcerptRead ==
  ASSUME NEW full, NEW i \in Numbers, full[4] = Numeral[i], NEW text, Excerpt(text, full)
  PROVE  /\ ParseFullName(text).group \in {NoPart, full[1]}
         /\ ParseFullName(text).device \in {NoPart, full[2]}
         /\ ParseFullName(text).resource \in {NoPart, full[3]}
         /\ ParseFullName(text).instance \in {0, i}
<1>1. /\ text[1] \in {NoPart, full[1]} /\ text[2] \in {NoPart, full[2]}
      /\ Len(text) \in {3, 4} => text[3] \in {NoPart, full[3]}
      /\ Len(text) = 4 => text[4] \in {NoPart, full[4]}
  BY DEF Excerpt
<1>2. CASE Len(text) = 2
  BY <1>1, <1>2, TwoPartsRead
<1>3. CASE Len(text) = 3
  BY <1>1, <1>3, ThreePartsRead
<1>4. CASE Len(text) = 4 /\ text[4] = NoPart
  BY <1>1, <1>4, FourPartsRead
<1>5. CASE Len(text) = 4 /\ text[4] # NoPart
  <2>1. InstanceOf(text[4]) = i
    BY <1>1, <1>5, NumeralRead
  <2> QED
    BY <1>1, <1>5, <2>1, FourPartsRead
<1> QED
  BY <1>2, <1>3, <1>4, <1>5 DEF Excerpt

\* An identifier whose parts are empty or those of a resource of a device matches it.
LEMMA PartsMatch ==
  ASSUME NEW kind \in Kinds, NEW d \in Devs, NEW r \in Resources, r[1] = kind,
         ResName[d][r] # NULL, NEW match,
         match.group \in {NoPart, Group[d]}, match.device \in {NoPart, Name[d]},
         match.resource \in {NoPart, ResName[d][r]}, match.instance \in {0, instance[d]}
  PROVE  DeviceMatches(d, match, kind)
<1>0. DontCare(NoPart)
  BY DEF DontCare, NoPart
<1>1. r = <<kind, r[2]>>
  BY ResourcePairs
<1>2. ASSUME ~DontCare(match.resource)
      PROVE  ResourceSlot(d, kind, match.resource) # {}
  <2>1. match.resource = ResName[d][r]
    BY <1>0, <1>2
  <2>2. CASE kind = "mem"
    <3> DEFINE S == {i \in 0 .. CUDDLK_MAX_DEV_MEM_REGIONS - 1 :
                       /\ ResName[d][<<"mem", i>>] # NULL
                       /\ DontCare(match.resource) \/ ResName[d][<<"mem", i>>] = match.resource}
    <3>1. r[2] \in S /\ S \in SUBSET Nat
      BY <1>1, <2>1, <2>2, ResourcePairs
    <3>2. ResourceSlot(d, kind, match.resource) = First(S)
      BY <2>2 DEF ResourceSlot, MemregionSlot
    <3> HIDE DEF S
    <3> QED
      BY <3>1, <3>2, FirstExists
  <2>3. CASE kind = "event"
    <3> DEFINE S == {i \in 0 .. CUDDLK_MAX_DEV_EVENTS - 1 :
                       /\ ResName[d][<<"event", i>>] # NULL
                       /\ DontCare(match.resource) \/ ResName[d][<<"event", i>>] = match.resource}
    <3>1. r[2] \in S /\ S \in SUBSET Nat
      BY <1>1, <2>1, <2>3, ResourcePairs
    <3>2. ResourceSlot(d, kind, match.resource) = First(S)
      BY <2>3 DEF ResourceSlot, EventsrcSlot
    <3> HIDE DEF S
    <3> QED
      BY <3>1, <3>2, FirstExists
  <2> QED
    BY <2>2, <2>3 DEF Kinds
<1> QED
  BY <1>0, <1>2 DEF DeviceMatches

\* The texts that ShortNamesMatch speaks of, but for the name alone, are excerpts.
LEMMA BlankedIsExcerpt ==
  ASSUME NEW full, Len(full) = 4, NEW S, full \in Seq(S), NEW n \in 2 .. 4, NEW B
  PROVE  Excerpt([i \in DOMAIN SubSeq(full, 1, n) |-> IF i \in B THEN "" ELSE SubSeq(full, 1, n)[i]],
                 full)
<1> DEFINE parts == SubSeq(full, 1, n)
           text == [i \in DOMAIN parts |-> IF i \in B THEN NoPart ELSE parts[i]]
<1>1. DOMAIN parts = 1 .. n /\ \A j \in 1 .. n : parts[j] = full[j]
  OBVIOUS
<1> HIDE DEF parts
<1>2. \A j \in 1 .. n : text[j] \in {NoPart, full[j]}
  BY <1>1
<1>3. Len(text) = n
  <2>1. text \in [1 .. n -> {NoPart} \cup {parts[j] : j \in 1 .. n}]
    BY <1>1
  <2>2. n \in Nat
    OBVIOUS
  <2> HIDE DEF text
  <2> QED
    BY <2>1, <2>2
<1>4. n \in {2, 3, 4}
  OBVIOUS
<1> HIDE DEF text
<1>5. Excerpt(text, full)
  BY <1>2, <1>3, <1>4 DEF Excerpt
<1> QED
  BY <1>5 DEF text, parts, NoPart

\* A name that stands alone is that of a device.
LEMMA NameRead ==
  ASSUME NEW text, Len(text) = 1
  PROVE  /\ ParseFullName(text).group = NoPart /\ ParseFullName(text).device = text[1]
         /\ ParseFullName(text).resource = NoPart /\ ParseFullName(text).instance = 0
  BY DEF ParseFullName, AnyResource, NoPart

\* An identifier each part of which is empty or that of a resource matches the device of
\* the resource, and what it is answered with matches it.
LEMMA PartsAnswered ==
  ASSUME NumberedInv, NEW kind \in Kinds, NEW d \in Devs, NEW r \in Resources, r[1] = kind,
         Group[d] \notin {NULL, NoPart}, Name[d] \notin {NULL, NoPart},
         ResName[d][r] \notin {NULL, NoPart}, NEW match,
         match.group \in {NoPart, Group[d]}, match.device \in {NoPart, Name[d]},
         match.resource \in {NoPart, ResName[d][r]}, match.instance \in {0, instance[d]}
  PROVE  /\ DeviceMatches(d, match, kind)
         /\ \A id \in IdForMatch(match, kind) :
              /\ match.group \in {NoPart, id.group} /\ match.device \in {NoPart, id.device}
              /\ match.resource \in {NoPart, id.resource}
              /\ match.instance \in {0, id.instance}
<1>1. DeviceMatches(d, match, kind)
  BY PartsMatch
<1>2. ASSUME NEW id \in IdForMatch(match, kind)
      PROVE  /\ match.group \in {NoPart, id.group} /\ match.device \in {NoPart, id.device}
             /\ match.resource \in {NoPart, id.resource}
             /\ match.instance \in {0, id.instance}
  <2>1. PICK u \in InfoForId(match, kind) : id = IdForSlot(kind, u[1], u[2][2])
    BY DEF IdForMatch
  <2> DEFINE e == devices[u[1]]
  <2>2. /\ u[2] \in Resources /\ u[2][1] = kind
        /\ DeviceMatches(e, match, kind)
        /\ DontCare(match.resource) \/ ResName[e][u[2]] = match.resource
    BY FoundResources
  <2>3. id = IdOf(e, u[2])
    BY <2>1, <2>2, ListedIdentifier
  <2>4. /\ id.group = Group[e] /\ id.device = Name[e]
        /\ id.resource = ResName[e][u[2]] /\ id.instance = instance[e]
    BY <2>3 DEF IdOf
  <2> HIDE DEF e
  <2>5. /\ DontCare(match.group) \/ Group[e] = match.group
        /\ DontCare(match.device) \/ Name[e] = match.device
        /\ match.instance = 0 \/ instance[e] = match.instance
    BY <2>2 DEF DeviceMatches
  <2>6. \A x : DontCare(x) <=> x \in {NULL, NoPart}
    BY DEF DontCare, NoPart
  <2> QED
    BY <2>2, <2>4, <2>5, <2>6
<1> QED
  BY <1>1, <1>2

LEMMA ShortNamesFind ==
  ASSUME NamesGiven, PopulatedIsNamed, NumberedInv
  PROVE  ShortNamesMatch
<1>1. ASSUME NEW kind \in Kinds, NEW s \in Slots, NEW r \in Resources, r[1] = kind,
             devices[s] # NULL, Populated[devices[s]][r], NEW text,
             LET full == FullName(IdForSlot(kind, s, r[2]))
             IN  text = <<full[2]>> \/ Excerpt(text, full)
      PROVE  /\ DeviceMatches(devices[s], ParseFullName(text), kind)
             /\ \A id \in IdForMatch(ParseFullName(text), kind) :
                  /\ ParseFullName(text).group \in {NoPart, id.group}
                  /\ ParseFullName(text).device \in {NoPart, id.device}
                  /\ ParseFullName(text).resource \in {NoPart, id.resource}
                  /\ ParseFullName(text).instance \in {0, id.instance}
  <2> DEFINE d == devices[s]
             full == FullName(IdForSlot(kind, s, r[2]))
  <2>1. full = FullName(IdOf(d, r))
    BY <1>1, ListedIdentifier
  <2>2. /\ Group[d] \notin {NULL, NoPart} /\ Name[d] \notin {NULL, NoPart}
        /\ ResName[d][r] \notin {NULL, NoPart} /\ instance[d] \in Numbers \ {0}
    BY <1>1, ListedParts DEF NoPart
  <2>3. d \in Devs
    BY <1>1 DEF NumberedInv, RegistryTypeOK
  <2>4. text = <<full[2]>> \/ Excerpt(text, full)
    BY <1>1
  <2> HIDE DEF d
  <2>5. full = <<Group[d], Name[d], ResName[d][r], Numeral[instance[d]]>>
    <3>1. /\ IdOf(d, r).group = Group[d] /\ IdOf(d, r).device = Name[d]
          /\ IdOf(d, r).resource = ResName[d][r] /\ IdOf(d, r).instance = instance[d]
      BY DEF IdOf
    <3> QED
      BY <2>1, <2>2, <3>1, PrintedParts DEF NoPart
  <2> HIDE DEF full
  <2>6. /\ full[1] = Group[d] /\ full[2] = Name[d]
        /\ full[3] = ResName[d][r] /\ full[4] = Numeral[instance[d]]
    BY <2>5
  <2> DEFINE match == ParseFullName(text)
  <2>7. /\ match.group \in {NoPart, Group[d]} /\ match.device \in {NoPart, Name[d]}
        /\ match.resource \in {NoPart, ResName[d][r]} /\ match.instance \in {0, instance[d]}
    <3>1. CASE text = <<full[2]>>
      <4>1. Len(text) = 1 /\ text[1] = Name[d]
        BY <2>6, <3>1
      <4> QED
        BY <4>1, NameRead
    <3>2. CASE Excerpt(text, full)
      BY <2>2, <2>6, <3>2, ExcerptRead
    <3> QED
      BY <2>4, <3>1, <3>2
  <2> HIDE DEF match
  <2>8. /\ DeviceMatches(d, match, kind)
        /\ \A id \in IdForMatch(match, kind) :
              /\ match.group \in {NoPart, id.group} /\ match.device \in {NoPart, id.device}
              /\ match.resource \in {NoPart, id.resource}
              /\ match.instance \in {0, id.instance}
    BY <1>1, <2>2, <2>3, <2>7, PartsAnswered
  <2> QED
    BY <2>8 DEF match, d
<1>2. ASSUME NEW kind \in Kinds, NEW s \in Slots, NEW r \in Resources, r[1] = kind,
             devices[s] # NULL, Populated[devices[s]][r]
      PROVE  LET full == FullName(IdForSlot(kind, s, r[2]))
                 Blanked(parts, B) == [i \in DOMAIN parts |-> IF i \in B THEN "" ELSE parts[i]]
             IN  \A n \in 2 .. 4 : \A B \in SUBSET (1 .. n) :
                   Excerpt(Blanked(SubSeq(full, 1, n), B), full)
  <2> DEFINE full == FullName(IdForSlot(kind, s, r[2]))
  <2>1. Len(full) = 4 /\ full \in Seq({full[1], full[2], full[3], full[4]})
    BY DEF FullName
  <2> HIDE DEF full
  <2>2. \A n \in 2 .. 4 : \A B \in SUBSET (1 .. n) :
          Excerpt([i \in DOMAIN SubSeq(full, 1, n) |->
                     IF i \in B THEN "" ELSE SubSeq(full, 1, n)[i]], full)
    BY <2>1, BlankedIsExcerpt
  <2> QED
    BY <2>2 DEF full
<1>3. ASSUME NEW kind \in Kinds, NEW t \in Listed(kind)
      PROVE  LET full == FullName(IdForSlot(kind, t[1], t[2][2]))
                 Blanked(parts, B) == [i \in DOMAIN parts |-> IF i \in B THEN "" ELSE parts[i]]
                 texts == {<<full[2]>>} \cup
                          UNION {{Blanked(SubSeq(full, 1, n), B) : B \in SUBSET (1 .. n)} :
                                   n \in 2 .. 4}
             IN  \A text \in texts :
                   LET match == ParseFullName(text)
                   IN  /\ DeviceMatches(devices[t[1]], match, kind)
                       /\ \A id \in IdForMatch(match, kind) :
                            /\ match.group \in {"", id.group} /\ match.device \in {"", id.device}
                            /\ match.resource \in {"", id.resource}
                            /\ match.instance \in {0, id.instance}
  <2>1. PICK s \in Slots, r \in Resources : /\ t = <<s, r>> /\ r[1] = kind
                                            /\ devices[s] # NULL /\ Populated[devices[s]][r]
    BY ListedResources
  <2>0. t[1] = s /\ t[2] = r
    BY <2>1
  <2> DEFINE full == FullName(IdForSlot(kind, t[1], t[2][2]))
             Blanked(parts, B) == [i \in DOMAIN parts |-> IF i \in B THEN "" ELSE parts[i]]
             texts == {<<full[2]>>} \cup
                      UNION {{Blanked(SubSeq(full, 1, n), B) : B \in SUBSET (1 .. n)} : n \in 2 .. 4}
  <2>2. \A n \in 2 .. 4 : \A B \in SUBSET (1 .. n) : Excerpt(Blanked(SubSeq(full, 1, n), B), full)
    BY <1>2, <2>0, <2>1
  <2> HIDE DEF full, Blanked
  <2>3. \A text \in texts : text = <<full[2]>> \/ Excerpt(text, full)
    BY <2>2
  <2>4. ASSUME NEW text \in texts
        PROVE  /\ DeviceMatches(devices[t[1]], ParseFullName(text), kind)
               /\ \A id \in IdForMatch(ParseFullName(text), kind) :
                    /\ ParseFullName(text).group \in {NoPart, id.group}
                    /\ ParseFullName(text).device \in {NoPart, id.device}
                    /\ ParseFullName(text).resource \in {NoPart, id.resource}
                    /\ ParseFullName(text).instance \in {0, id.instance}
    <3> HIDE DEF texts
    <3>1. text = <<full[2]>> \/ Excerpt(text, full)
      BY <2>3
    <3> QED
      BY <1>1, <2>0, <2>1, <3>1 DEF full
  <2> QED
    BY <2>4 DEF full, Blanked, NoPart
<1> QED
  BY <1>3 DEF ShortNamesMatch

\* Whatever order devices come and go in, each way to write down the identifier of a listed
\* resource matches its device, and what cuddl_get_*_id_for_match() answers with matches
\* what was asked for.
THEOREM PrintedIdentifiersMatch ==
  ASSUME NamesGiven, PopulatedIsNamed
  PROVE  RegistrySpec => []ShortNamesMatch
<1>1. NumberedInv => ShortNamesMatch
  BY ShortNamesFind
<1> QED
  BY <1>1, NumberedInvariant, PTL
=============================================================================
