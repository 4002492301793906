------------------------------- MODULE MCManager -------------------------------
(* Instances of CuddlManager for TLC: an "adc" device with a memory region    *)
(* that is exclusive and an event source that is shared, and a "dac" device   *)
(* with one exclusive memory region.                                          *)
EXTENDS CuddlManager, TLC

CONSTANTS adc, dac, p1, p2, a1, a2, a3

MCGroup == [d \in Devs |-> "pci"]
MCName == [d \in Devs |-> IF d = adc THEN "adc" ELSE "dac"]
MCDriverOf == [d \in Devs |-> d]
MCConfiguredInstance == [d \in Devs |-> 1]
MCResName ==
  [d \in Devs |-> [r \in Resources |->
     IF r[1] = "mem" THEN "regs" ELSE IF d = adc THEN "irq" ELSE NULL]]
MCShared == [d \in Devs |-> [r \in Resources |-> r[1] = "event"]]

\* Drivers that set owner_ptr to their own module.
MCOwnerSet == [d \in Devs |-> d]

\* Processes ask for a device by name, or for any device.
MCIds ==
  [group : {"pci"}, device : {"adc", "dac", ""}, resource : {""}, instance : {1}]

MCSymmetry == Permutations(Procs) \cup Permutations(Addrs)
=============================================================================
