------------------------------ MODULE MCRegistry ------------------------------
(* Instances of CuddlRegistry for TLC: four devices of one name, whose       *)
(* instances are chosen automatically, and one of another name that has no   *)
(* memory region, each in a driver of its own, for a table of three slots.   *)
EXTENDS CuddlQueries, TLC

CONSTANTS d1, d2, d3, d4, timer

MCDevs == {d1, d2, d3, d4, timer}
MCDriverOf == [d \in MCDevs |-> d]
MCGroup == [d \in MCDevs |-> "pci"]
MCName == [d \in MCDevs |-> IF d = timer THEN "timer" ELSE "fpga"]
MCConfiguredInstance == [d \in MCDevs |-> 0]
MCResName ==
  [d \in MCDevs |-> [r \in Resources |->
     CASE r = <<"mem", 0>> /\ d # timer -> "regs"
       [] r = <<"mem", 1>> /\ d # timer -> "fifo"
       [] r[1] = "event"                -> "irq"
       [] OTHER                         -> NULL]]

MCPopulated == [d \in MCDevs |-> [r \in Resources |-> MCResName[d][r] # NULL]]

MCNumeral == [n \in -1 .. CUDDLK_MAX_MANAGED_DEVICES + 1 |-> ToString(n)]

\* The four devices of one name, with the drivers they stand for, are alike.
MCSymmetry == Permutations({d1, d2, d3, d4})
=============================================================================
