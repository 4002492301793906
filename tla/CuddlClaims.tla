------------------------------ MODULE CuddlClaims ------------------------------
(***************************************************************************)
(* What the manager promises its users, without its means: devices are     *)
(* offered and withdrawn, processes come and go, and a claim gives a       *)
(* process a resource of an offered device until the process releases it   *)
(* or ends.  There are no slots, tokens, counts, pins, lists or janitors.  *)
(*                                                                         *)
(* CuddlManager implements this module while its users keep to the         *)
(* documented protocol.                                                    *)
(***************************************************************************)
CONSTANTS
  Procs,        \* processes
  Devs,         \* devices
  Shared,       \* Shared[d][r] : several claims of the resource may coexist
  ClaimRecords  \* possible claims: records with fields pid, dev, res, hostile,
                \* and others that tell claims alike in these apart

VARIABLES
  offered,  \* devices whose resources can be claimed
  running,  \* processes that can call
  ending,   \* processes whose claims are being freed
  claims    \* claims in force

claimsVars == <<offered, running, ending, claims>>

ClaimsInit ==
  /\ offered = {}
  /\ running = {} /\ ending = {}
  /\ claims = {}

Offer(d) ==
  /\ d \notin offered
  /\ offered' = offered \cup {d}
  /\ UNCHANGED <<running, ending, claims>>

\* A device stays as long as somebody has claimed a resource of it.
Withdraw(d) ==
  /\ \A c \in claims : c.dev # d
  /\ offered' = offered \ {d}
  /\ UNCHANGED <<running, ending, claims>>

Start(p) ==
  /\ p \notin running \cup ending
  /\ running' = running \cup {p}
  /\ UNCHANGED <<offered, ending, claims>>

BeginEnd(p) ==
  /\ p \in running
  /\ running' = running \ {p}
  /\ ending' = ending \cup {p}
  /\ UNCHANGED <<offered, claims>>

\* A process is gone only when nothing is left of what it had claimed.
End(p) ==
  /\ p \in ending
  /\ \A c \in claims : c.pid # p
  /\ ending' = ending \ {p}
  /\ UNCHANGED <<offered, running, claims>>

Alike(c, d) == c.dev = d.dev /\ c.res = d.res

Grant(c) ==
  /\ c.pid \in running
  /\ c.dev \in offered
  /\ c \notin claims
  /\ Shared[c.dev][c.res] \/ c.hostile \/ \A d \in claims : ~Alike(c, d)
  /\ claims' = claims \cup {c}
  /\ UNCHANGED <<offered, running, ending>>

\* A claim ends by a release of its own process, or in the freeing of what a
\* process that ends leaves behind.
GiveUp(c) ==
  /\ c \in claims
  /\ c.pid \in running \cup ending
  /\ claims' = claims \ {c}
  /\ UNCHANGED <<offered, running, ending>>

ClaimsNext ==
  \/ \E d \in Devs : Offer(d) \/ Withdraw(d)
  \/ \E p \in Procs : Start(p) \/ BeginEnd(p) \/ End(p)
  \/ \E c \in ClaimRecords : Grant(c) \/ GiveUp(c)

ClaimsSpec == ClaimsInit /\ [][ClaimsNext]_claimsVars
=============================================================================
