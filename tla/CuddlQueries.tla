----------------------------- MODULE CuddlQueries -----------------------------
(***************************************************************************)
(* The queries of Cuddl about its table of managed devices: enumeration by *)
(* slot, search by identifier, and the printed form of identifiers.  A     *)
(* query of the library is one ioctl on the manager, which changes         *)
(* nothing, or two in a row, between which the table may change.           *)
(*                                                                         *)
(* Not said here: the library returns the error of open() or close() of    *)
(* /dev/cuddl when they fail, and the kernel -ENOMEM, -EOVERFLOW or        *)
(* -ENOEXEC before it looks at the table.                                  *)
(***************************************************************************)
EXTENDS CuddlRegistry, Sequences

CONSTANTS
  Populated,  \* Populated[d][r] : mem[i].type, events[i].intr.irq is not NONE
  Numeral     \* Numeral[n] : std::to_string(n), the text that stoi() reads n from

\* Numerals of two numbers differ and none is empty.  The instances drivers configure
\* and those Cuddl chooses are among the numbers.
ASSUME QueriesAssumption ==
  /\ Populated \in [Devs -> [Resources -> BOOLEAN]]
  /\ DOMAIN Numeral \subseteq Int
  /\ InstanceIds \subseteq DOMAIN Numeral
  /\ \A d \in Devs : ConfiguredInstance[d] \in DOMAIN Numeral
  /\ \A m, n \in DOMAIN Numeral : Numeral[m] = Numeral[n] => m = n
  /\ \A n \in DOMAIN Numeral : Numeral[n] # ""

-----------------------------------------------------------------------------
(* Enumeration by slot *)

IdOf(d, r) == [group |-> Group[d], device |-> Name[d],
               resource |-> ResName[d][r], instance |-> instance[d]]

\* Faulty variant: memory regions are bounded by the number of event sources.
MemregionIdForSlotBadBound(s, i) ==
  IF s \notin Slots \/ i \notin 0 .. CUDDLK_MAX_DEV_EVENTS - 1 THEN "EBADSLT"
  ELSE IF devices[s] = NULL THEN "ENODEV"
  ELSE IF ~Populated[devices[s]][<<"mem", i>>] THEN "EINVAL"
  ELSE "ok"

\* What becomes of CUDDLCI_GET_MEMREGION_ID_IOCTL
MemregionIdForSlot(s, i) ==
  IF s \notin Slots \/ i \notin 0 .. CUDDLK_MAX_DEV_MEM_REGIONS - 1 THEN "EBADSLT"
  ELSE IF devices[s] = NULL THEN "ENODEV"
  ELSE IF ~Populated[devices[s]][<<"mem", i>>] THEN "EINVAL"
  ELSE "ok"

\* What becomes of CUDDLCI_GET_EVENTSRC_ID_IOCTL
EventsrcIdForSlot(s, i) ==
  IF s \notin Slots \/ i \notin 0 .. CUDDLK_MAX_DEV_EVENTS - 1 THEN "EBADSLT"
  ELSE IF devices[s] = NULL THEN "ENODEV"
  ELSE IF ~Populated[devices[s]][<<"event", i>>] THEN "EINVAL"
  ELSE "ok"

\* cuddl_get_memregion_id_for_slot(), cuddl_get_eventsrc_id_for_slot()
StatusForSlot(kind, s, i) ==
  IF kind = "mem" THEN MemregionIdForSlot(s, i) ELSE EventsrcIdForSlot(s, i)

\* The identifier that comes with status "ok".
IdForSlot(kind, s, i) == IdOf(devices[s], <<kind, i>>)

\* Faulty variant: the two counts of a device are mixed up.
SlotCountsMixedUp == [devices |-> CUDDLK_MAX_MANAGED_DEVICES,
                      mem     |-> CUDDLK_MAX_DEV_EVENTS,
                      event   |-> CUDDLK_MAX_DEV_MEM_REGIONS]

\* cuddl_get_max_managed_devices(), _dev_mem_regions(), _dev_events()
SlotCounts == [devices |-> CUDDLK_MAX_MANAGED_DEVICES,
               mem     |-> CUDDLK_MAX_DEV_MEM_REGIONS,
               event   |-> CUDDLK_MAX_DEV_EVENTS]

\* Tokens of the resources an application gets to know that asks for every slot.
Listed(kind) ==
  {<<x[1], <<kind, x[2]>>>> : x \in
     {y \in (0 .. SlotCounts.devices - 1) \X (0 .. SlotCounts[kind] - 1) :
        StatusForSlot(kind, y[1], y[2]) = "ok"}}

-----------------------------------------------------------------------------
(* Search by identifier *)

\* cuddl_get_memregion_info_for_id(), cuddl_get_eventsrc_info_for_id(): the token of
\* the answer, if there is one.
InfoForId(id, kind) == Lookup(id, kind)

\* cuddl_get_*_id_for_match(), when the table does not change between its two ioctls.
IdForMatch(match, kind) ==
  {IdForSlot(kind, t[1], t[2][2]) : t \in
     {u \in InfoForId(match, kind) : StatusForSlot(kind, u[1], u[2][2]) = "ok"}}

\* CUDDLCI_GET_DRIVER_INFO_IOCTL, CUDDLCI_GET_HW_INFO_IOCTL: the device whose
\* information is returned, none with -EBADSLT or -ENODEV.
DriverInfo(s) == {d \in Devs : s \in Slots /\ devices[s] = d}
HwInfo(s) == {d \in Devs : s \in Slots /\ devices[s] = d}

\* cuddl_get_driver_info_for_*_id(), cuddl_get_hw_info_for_*_id(), when the table does
\* not change between their two ioctls.
DriverInfoForId(id, kind) == UNION {DriverInfo(t[1]) : t \in InfoForId(id, kind)}
HwInfoForId(id, kind) == UNION {HwInfo(t[1]) : t \in InfoForId(id, kind)}

\* CUDDLCI_EVENTSRC_IS_ENABLED_IOCTL: the device whose is_enabled() is called, none with
\* -ENODEV or -EBADSLT.  It returns -EINVAL for a device without that callback.
EventsrcIsEnabled(s, i) ==
  {d \in Devs : s \in Slots /\ devices[s] = d /\ i \in 0 .. CUDDLK_MAX_DEV_EVENTS - 1}

-----------------------------------------------------------------------------
(* Printed identifiers *)

\* A text is given by the parts between its slashes, which are texts without one.
Star(part) == IF part = "" THEN "*" ELSE part

\* Faulty variant: the first instance is left out.
FullNameFirstLeftOut(id) ==
  <<Star(id.group), Star(id.device), Star(id.resource),
    IF id.instance <= 1 THEN "*" ELSE Numeral[id.instance]>>

\* ResourceID::full_name() const
FullName(id) ==
  <<Star(id.group), Star(id.device), Star(id.resource),
    IF id.instance = 0 THEN "*" ELSE Numeral[id.instance]>>

\* stoi(), of which an exception gives -1; numbers with more digits than needed or
\* with text behind them are left out.
InstanceOf(part) ==
  IF \E n \in DOMAIN Numeral : Numeral[n] = part
  THEN CHOOSE n \in DOMAIN Numeral : Numeral[n] = part
  ELSE -1

AnyResource == [group |-> "", device |-> "", resource |-> "", instance |-> 0]

\* Faulty variant: what stands alone is taken for the group.
ParseFullNameGroupFirst(parts) ==
  IF Len(parts) = 1 THEN [AnyResource EXCEPT !.group = parts[1]]
  ELSE [AnyResource EXCEPT !.group = parts[1], !.device = parts[2]]

\* ResourceID::full_name(const std::string &)
ParseFullName(parts) ==
  LET n == Len(parts)
  IN  IF n = 1 THEN [AnyResource EXCEPT !.device = parts[1]]
      ELSE [group    |-> parts[1],
            device   |-> parts[2],
            resource |-> IF n >= 3 THEN parts[3] ELSE "",
            instance |-> IF n < 4 \/ (n = 4 /\ parts[4] = "") THEN 0
                         ELSE InstanceOf(parts[4])]

-----------------------------------------------------------------------------
(* Properties *)

\* Whether two tokens stand for resources of one device with one name: resources of a
\* device that have the same name are told apart by nobody.
SameResource(t, u) ==
  /\ devices[t[1]] = devices[u[1]]
  /\ ResName[devices[t[1]]][t[2]] = ResName[devices[u[1]]][u[2]]

\* Enumeration and search know the same resources, though one goes by type or
\* interrupt number and the other by name (a driver sets both, memregion.h:37 and 102):
\* what any search can find is listed, and what is listed is found under the identifier
\* it is listed with, also after printing that and reading it; and what is said about the
\* device of that identifier is about the device listed.
ListedIsFound ==
  /\ \A kind \in Kinds : \A t \in Listed(kind) :
       LET id == IdForSlot(kind, t[1], t[2][2])
       IN  /\ \E u \in InfoForId(ParseFullName(FullName(id)), kind) : SameResource(t, u)
           /\ DriverInfoForId(id, kind) = {devices[t[1]]}
           /\ HwInfoForId(id, kind) = {devices[t[1]]}
  /\ \A d \in Managed, r \in Resources :
       ResName[d][r] # NULL =>
         InfoForId([AnyResource EXCEPT !.device = Name[d], !.resource = ResName[d][r]], r[1])
           \subseteq Listed(r[1])

\* Each way to write an identifier down matches the device it was taken from: device,
\* group/device, group/device/resource or all of it, with any part left empty.  The
\* answer of cuddl_get_*_id_for_match() is in turn an identifier that matches.
ShortNamesMatch ==
  \A kind \in Kinds : \A t \in Listed(kind) :
    LET full == FullName(IdForSlot(kind, t[1], t[2][2]))
        Blanked(parts, B) == [i \in DOMAIN parts |-> IF i \in B THEN "" ELSE parts[i]]
        texts == {<<full[2]>>} \cup
                 UNION {{Blanked(SubSeq(full, 1, n), B) : B \in SUBSET (1 .. n)} :
                          n \in 2 .. 4}
    IN  \A text \in texts :
          LET match == ParseFullName(text)
          IN  /\ DeviceMatches(devices[t[1]], match, kind)
              /\ \A id \in IdForMatch(match, kind) :
                   /\ match.group \in {"", id.group} /\ match.device \in {"", id.device}
                   /\ match.resource \in {"", id.resource}
                   /\ match.instance \in {0, id.instance}
=============================================================================
