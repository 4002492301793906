---------------------------- MODULE CuddlRegistry ----------------------------
(***************************************************************************)
(* The table of managed devices of the Cuddl kernel manager, the searches  *)
(* over it, and the two calls that change it: cuddlk_device_manage() and   *)
(* cuddlk_device_release(), made by driver modules as they are loaded and  *)
(* unloaded.  Both hold the manager's global mutex from their first        *)
(* statement to their last, so each is one step.                           *)
(*                                                                         *)
(* A search of the code returns an index or a negative error; here it is   *)
(* the set that holds the index found, and the empty set for the error.    *)
(***************************************************************************)
EXTENDS Integers, FiniteSets

CONSTANTS
  Devs,                \* the cuddlk_device structs of all drivers
  Drivers,             \* kernel modules that contain them
  DriverOf,            \* DriverOf[d] : the module that holds the struct d
  Group, Name,         \* Group[d], Name[d] : identification of d
  ConfiguredInstance,  \* instance the driver sets in a fresh struct, 0 = automatic
  ResName,             \* ResName[d][r] : name of resource r of d, NULL = not populated
  CUDDLK_MAX_MANAGED_DEVICES,
  CUDDLK_MAX_DEV_MEM_REGIONS,
  CUDDLK_MAX_DEV_EVENTS,
  NULL,
  Allowed              \* what the environment may do beyond the documented protocol

(***************************************************************************)
(* Values of Allowed used by this module:                                  *)
(*   "any_order"          devices need not be released in reverse order    *)
(*   "stale_struct"       a driver manages a struct again without          *)
(*                        initialising it                                  *)
(*   "unbind"             a driver releases a device while it stays loaded *)
(*                        (hot unplug), whoever has claimed it             *)
(*   "unmanaged_release"  a driver releases a device that is not managed   *)
(***************************************************************************)

Slots == 0 .. CUDDLK_MAX_MANAGED_DEVICES - 1
Kinds == {"mem", "event"}
MemRegions == {"mem"} \X (0 .. CUDDLK_MAX_DEV_MEM_REGIONS - 1)
EventSrcs == {"event"} \X (0 .. CUDDLK_MAX_DEV_EVENTS - 1)
Resources == MemRegions \cup EventSrcs
InstanceIds == 1 .. CUDDLK_MAX_MANAGED_DEVICES

ASSUME RegistryAssumption ==
  /\ CUDDLK_MAX_MANAGED_DEVICES \in Nat \ {0}
  /\ CUDDLK_MAX_DEV_MEM_REGIONS \in Nat
  /\ CUDDLK_MAX_DEV_EVENTS \in Nat
  /\ DriverOf \in [Devs -> Drivers]
  /\ ConfiguredInstance \in [Devs -> Nat]
  /\ NULL \notin Devs

VARIABLES
  devices,         \* cuddlk_manager.devices
  instance,        \* instance[d] : d->instance
  uio_registered,  \* UIO (UDD) registrations of d minus unregistrations
  modstate         \* state of each driver module in the kernel's module loader

registryVars == <<devices, instance, uio_registered, modstate>>

RegistryTypeOK ==
  /\ devices \in [Slots -> Devs \cup {NULL}]
  /\ instance \in [Devs -> Nat]
  /\ uio_registered \in [Devs -> Int]
  /\ modstate \in [Drivers -> {"unloaded", "live", "going"}]

-----------------------------------------------------------------------------
(* Searches *)

\* The index at which an ascending scan of S stops.
First(S) == {i \in S : \A j \in S : i <= j}

\* NULL and the empty string in a search match everything.
DontCare(x) == x \in {NULL, ""}

\* cuddlk_device_find_memregion_slot, cuddlk_device_find_eventsrc_slot
MemregionSlot(d, name) ==
  First({i \in 0 .. CUDDLK_MAX_DEV_MEM_REGIONS - 1 :
           /\ ResName[d][<<"mem", i>>] # NULL
           /\ DontCare(name) \/ ResName[d][<<"mem", i>>] = name})

EventsrcSlot(d, name) ==
  First({i \in 0 .. CUDDLK_MAX_DEV_EVENTS - 1 :
           /\ ResName[d][<<"event", i>>] # NULL
           /\ DontCare(name) \/ ResName[d][<<"event", i>>] = name})

ResourceSlot(d, kind, name) ==
  CASE kind = "mem"   -> MemregionSlot(d, name)
    [] kind = "event" -> EventsrcSlot(d, name)
    [] OTHER          -> {}

\* Faulty variant: the instance is not compared.
DeviceMatchesAnyInstance(d, id, kind) ==
  /\ DontCare(id.group) \/ Group[d] = id.group
  /\ DontCare(id.device) \/ Name[d] = id.device
  /\ DontCare(id.resource) \/ ResourceSlot(d, kind, id.resource) # {}

DeviceMatches(d, id, kind) ==
  /\ id.instance = 0 \/ instance[d] = id.instance
  /\ DontCare(id.group) \/ Group[d] = id.group
  /\ DontCare(id.device) \/ Name[d] = id.device
  /\ DontCare(id.resource) \/ ResourceSlot(d, kind, id.resource) # {}

DeviceSlotMatching(id, kind, start_index) ==
  First({s \in Slots : /\ s >= start_index
                       /\ devices[s] # NULL
                       /\ DeviceMatches(devices[s], id, kind)})

DeviceSlot(d) == First({s \in Slots : devices[s] = d})

EmptySlot == DeviceSlot(NULL)

\* Slot and resource the handlers of the manager's ioctl resolve id to: the
\* first matching device, then the first matching resource of that device.
Lookup(id, kind) ==
  {t \in Slots \X Resources :
     /\ t[1] \in DeviceSlotMatching(id, kind, 0)
     /\ t[2][1] = kind
     /\ t[2][2] \in ResourceSlot(devices[t[1]], kind, id.resource)}

\* Faulty variant: gives up at a hit in the last slot but one.
NextInstanceGivesUpEarly(d) ==
  LET SameName(s) == /\ devices[s] # NULL
                     /\ Group[devices[s]] = Group[d] /\ Name[devices[s]] = Name[d]
      last == CUDDLK_MAX_MANAGED_DEVICES - 1
  IN  IF last > 0 /\ SameName(last - 1)
      THEN {} ELSE {Cardinality({s \in Slots : SameName(s)}) + 1}

\* Faulty variant: the search begins behind the first slot.
NextInstanceSkipsFirstSlot(d) ==
  {1 + Cardinality({s \in Slots \ {0} : /\ devices[s] # NULL
                                       /\ Group[devices[s]] = Group[d]
                                       /\ Name[devices[s]] = Name[d]})}

(***************************************************************************)
(* The loop asks for instance 1, 2, ... in turn, each time from the slot   *)
(* after the previous hit, so it is one pass over the table.  A hit in the *)
(* last slot ends it with -ENOMEM.                                         *)
(***************************************************************************)
NextAvailableInstanceId(d) ==
  LET SameName(i) == [group |-> Group[d], device |-> Name[d],
                      resource |-> NULL, instance |-> i]
      Hit(s, i) == devices[s] # NULL /\ DeviceMatches(devices[s], SameName(i), NULL)
      scan[s \in 0 .. CUDDLK_MAX_MANAGED_DEVICES] ==
        IF s = 0 THEN 1
        ELSE IF Hit(s - 1, scan[s - 1]) THEN scan[s - 1] + 1 ELSE scan[s - 1]
      last == CUDDLK_MAX_MANAGED_DEVICES - 1
  IN  IF Hit(last, scan[last]) THEN {} ELSE {scan[last + 1]}

-----------------------------------------------------------------------------
(* Drivers *)

Managed == {d \in Devs : \E s \in Slots : devices[s] = d}

RegistryInit ==
  /\ devices = [s \in Slots |-> NULL]
  /\ instance = ConfiguredInstance
  /\ uio_registered = [d \in Devs |-> 0]
  /\ modstate = [m \in Drivers |-> "unloaded"]

\* insmod: the module's static structs have their initial contents.
ModuleLoad(m) ==
  /\ modstate[m] = "unloaded"
  /\ modstate' = [modstate EXCEPT ![m] = "live"]
  /\ instance' = [d \in Devs |-> IF DriverOf[d] = m THEN ConfiguredInstance[d]
                                                    ELSE instance[d]]
  /\ UNCHANGED <<devices, uio_registered>>

\* rmmod: from here the module's exit function runs.
ModuleUnloadBegin(m) ==
  /\ modstate[m] = "live"
  /\ modstate' = [modstate EXCEPT ![m] = "going"]
  /\ UNCHANGED <<devices, instance, uio_registered>>

ModuleUnloadEnd(m) ==
  /\ modstate[m] = "going"
  /\ \A d \in Managed : DriverOf[d] # m
  /\ modstate' = [modstate EXCEPT ![m] = "unloaded"]
  /\ UNCHANGED <<devices, instance, uio_registered>>

\* What a driver may pass to cuddlk_device_manage().
MayManage(d) ==
  /\ modstate[DriverOf[d]] = "live"
  /\ d \notin Managed
  /\ instance[d] = ConfiguredInstance[d] \/ "stale_struct" \in Allowed

\* What a driver may pass to cuddlk_device_release().
MayRelease(d) ==
  /\ modstate[DriverOf[d]] \in
       {"going"} \cup (IF "unbind" \in Allowed THEN {"live"} ELSE {})
  /\ d \in Managed \/ "unmanaged_release" \in Allowed
  /\ \/ "any_order" \in Allowed
     \/ \A s \in DeviceSlot(d) : \A t \in Slots : t > s => devices[t] = NULL

\* Faulty variant: the error code of the automatic choice is taken for an instance.
InstanceOrErrorCode(d) ==
  LET ENOMEM == 12
  IN  IF instance[d] # 0 THEN {instance[d]}
      ELSE IF NextAvailableInstanceId(d) = {} THEN {-ENOMEM}
      ELSE NextAvailableInstanceId(d)

\* Instance with which d is registered; none when the automatic choice fails.
InstanceFor(d) ==
  IF instance[d] = 0 THEN NextAvailableInstanceId(d) \cap InstanceIds
                     ELSE {instance[d]}

DeviceRegister(d) == [uio_registered EXCEPT ![d] = @ + 1]
\* Faulty variant: the registration stays.
DeviceStaysRegistered(reg, d) == reg

DeviceUnregister(reg, d) == [reg EXCEPT ![d] = @ - 1]

\* cuddlk_device_manage() once registration has succeeded: the device enters
\* the first empty slot, or is unregistered again when there is none.
DeviceManage(d) ==
  /\ MayManage(d)
  /\ Group[d] # NULL /\ Name[d] # NULL
  /\ \E i \in InstanceFor(d) : instance' = [instance EXCEPT ![d] = i]
  /\ \/ \E s \in EmptySlot :
          /\ devices' = [devices EXCEPT ![s] = d]
          /\ uio_registered' = DeviceRegister(d)
     \/ /\ EmptySlot = {}
        /\ uio_registered' = DeviceUnregister(DeviceRegister(d), d)
        /\ UNCHANGED devices
  /\ UNCHANGED modstate

\* cuddlk_device_register() fails (no memory, UIO or UDD refuses): it has undone
\* its own steps, and only the instance chosen for d stays behind.
DeviceManageRegisterFails(d) ==
  /\ MayManage(d)
  /\ Group[d] # NULL /\ Name[d] # NULL
  /\ \E i \in InstanceFor(d) : instance' = [instance EXCEPT ![d] = i]
  /\ UNCHANGED <<devices, uio_registered, modstate>>

\* cuddlk_device_release() unregisters d whether or not it was in the table.
DeviceRelease(d) ==
  /\ MayRelease(d)
  /\ devices' = [s \in Slots |-> IF s \in DeviceSlot(d) THEN NULL ELSE devices[s]]
  /\ uio_registered' = DeviceUnregister(uio_registered, d)
  /\ UNCHANGED <<instance, modstate>>

RegistryNext ==
  \/ \E m \in Drivers : \/ ModuleLoad(m)
                        \/ ModuleUnloadBegin(m)
                        \/ ModuleUnloadEnd(m)
  \/ \E d \in Devs : \/ DeviceManage(d)
                     \/ DeviceManageRegisterFails(d)
                     \/ DeviceRelease(d)

RegistrySpec == RegistryInit /\ [][RegistryNext]_registryVars

-----------------------------------------------------------------------------
(* Properties *)

\* A device is registered with the operating system exactly once while it is in
\* the table and not at all otherwise, through every failure of
\* cuddlk_device_manage() and every release; and it is in one slot at most.
RegistrationMatchesTable ==
  \A d \in Devs :
    /\ uio_registered[d] = Cardinality({s \in Slots : devices[s] = d})
    /\ uio_registered[d] <= 1

\* device.h: cuddlk_device_manage() gives a device the "next available unique
\* instance number for the specified group and name combination", so no two managed
\* devices answer to the same identifier.
InstancesUnique ==
  \A d, e \in Managed :
    (Group[d] = Group[e] /\ Name[d] = Name[e] /\ instance[d] = instance[e]) => d = e

\* manager.h: cuddlk_manager_next_available_instance_id() gives up (-ENOMEM) only
\* when no empty slot is left.
GivesUpOnlyWhenFull ==
  \A d \in Devs \ Managed :
    (Group[d] # NULL /\ Name[d] # NULL /\ NextAvailableInstanceId(d) = {})
      => EmptySlot = {}

\* A complete identifier (group, device, resource and instance) of a managed
\* device resolves, and to nothing but that device and its first resource of that
\* name: the search stops at no other device, however the table came about.
FullIdentifierDenotesItsResource ==
  \A d \in Managed, r \in Resources :
    ResName[d][r] \notin {NULL, ""} =>
      LET id == [group |-> Group[d], device |-> Name[d],
                 resource |-> ResName[d][r], instance |-> instance[d]]
      IN  /\ Lookup(id, r[1]) # {}
          /\ \A t \in Lookup(id, r[1]) : /\ devices[t[1]] = d
                                        /\ ResName[d][t[2]] = ResName[d][r]
                                        /\ t[2][2] <= r[2]

\* memregion.h and eventsrc.h (user): an empty or zero part of the identifier is a
\* "don't care" in the search of the resource list, so a lookup fails only when no
\* managed device has a matching resource.
LookupFindsAnyMatch ==
  \A kind \in Kinds, d \in Managed, i \in {0} \cup InstanceIds :
    LET id == [group |-> Group[d], device |-> "", resource |-> "", instance |-> i]
    IN  (/\ DeviceMatches(d, id, kind)
         /\ \E r \in Resources : r[1] = kind /\ ResName[d][r] # NULL)
          => Lookup(id, kind) # {}
=============================================================================
