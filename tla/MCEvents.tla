------------------------------- MODULE MCEvents -------------------------------
(* An instance of CuddlEvents for TLC: each thread can have a file of its     *)
(* own (3 and 5), and both may share one (4).                                 *)
EXTENDS CuddlEvents

CONSTANTS adc, t1, t2

MCUsersOf == [f \in Fds |-> IF f = 3 THEN {t1} ELSE IF f = 5 THEN {t2} ELSE {t1, t2}]
==============================================================================
