------------------------------- MODULE MCClients -------------------------------
(* An instance of CuddlClients for TLC: an "adc" device with a memory region  *)
(* that is exclusive and an event source that is shared, and a "dac" device   *)
(* with an event source alone; one process with an object of each class and   *)
(* one with a MemRegion.                                                      *)
EXTENDS CuddlClients, TLC

CONSTANTS adc, dac, p1, p2, mem1, event1, mem2, n0, n1

MCGroup == [d \in Devs |-> "pci"]
MCName == [d \in Devs |-> IF d = adc THEN "adc" ELSE "dac"]
MCDriverOf == [d \in Devs |-> d]
MCConfiguredInstance == [d \in Devs |-> 1]
MCResName ==
  [d \in Devs |-> [r \in Resources |->
     IF r[1] = "event" THEN "irq" ELSE IF d = adc THEN "regs" ELSE NULL]]
MCPopulated == [d \in Devs |-> [r \in Resources |-> MCResName[d][r] # NULL]]
MCNumeral == [n \in -1 .. CUDDLK_MAX_MANAGED_DEVICES + 1 |-> ToString(n)]
MCShared == [d \in Devs |-> [r \in Resources |-> r[1] = "event"]]

MCObjects == {mem1, event1, mem2}
MCProcOf == [o \in Objects |-> IF o = mem2 THEN p2 ELSE p1]
MCKindOf == [o \in Objects |-> IF o = event1 THEN "event" ELSE "mem"]
MCOptions == [o \in Objects |-> IF o = mem2 THEN BOOLEAN ELSE {FALSE}]

MCIds ==
  [group : {"pci"}, device : {"adc", "dac"}, resource : {""}, instance : {1}]
MCQuestions ==
  {<<[group |-> "", device |-> "adc", resource |-> "", instance |-> 0], "mem">>}

\* Numbers of device nodes are compared with each other and nothing else.
MCSymmetry == Permutations(Minors)
=============================================================================
