----------------------------- MODULE CuddlNotices -----------------------------
(***************************************************************************)
(* What event sources promise to the threads that wait on them, without    *)
(* the means: a file that has been opened gets notice of everything that   *)
(* happens on its device, at once or later, until the file is closed or    *)
(* the device withdrawn, and a wait reports what has arrived at one of its *)
(* files.  There are no UIO and UDD devices, relays, counters, open        *)
(* counts, select() or steps of an open or a read.                         *)
(*                                                                         *)
(* CuddlEvents implements this module.                                     *)
(***************************************************************************)
EXTENDS Integers

CONSTANTS
  Devs,      \* devices with an event source
  Fds,       \* file descriptors
  Threads,   \* threads of user processes
  CountMod,  \* notices that have arrived are told apart up to this many
  NULL

VARIABLES
  source,   \* source[f] : the device whose notices f gets, or NULL
  arrived,  \* arrived[f] : notices that no wait has reported, CountMod for more
  coming,   \* coming[f] : notices that are on their way to f
  muted,    \* files opened on a device of which nobody has enabled the interrupt since
  waiting   \* waiting[t] : the files thread t waits on

noticesVars == <<source, arrived, coming, muted, waiting>>

NoticesInit ==
  /\ source = [f \in Fds |-> NULL]
  /\ arrived = [f \in Fds |-> 0]
  /\ coming = [f \in Fds |-> 0]
  /\ muted = {}
  /\ waiting = [t \in Threads |-> {}]

FilesAt(d) == {f \in Fds : source[f] = d}
OneMore(n) == IF n = CountMod THEN n ELSE n + 1
ArrivedAt(S) == [f \in Fds |-> IF f \in S THEN OneMore(arrived[f]) ELSE arrived[f]]
OneComingLess(S) == [f \in Fds |-> IF f \in S THEN coming[f] - 1 ELSE coming[f]]

\* A wait on these files does not have to go on: something has arrived.  Of CountMod
\* notices the count has gone all the way round, and nobody can tell.
Certain(f) == source[f] # NULL /\ arrived[f] > 0 /\ arrived[f] < CountMod

\* An open returns.  What was notified before has been taken, what is on its way has not,
\* which is two notices at most.
Subscribe(f, d) ==
  /\ source[f] = NULL /\ \A t \in Threads : f \notin waiting[t]
  /\ source' = [source EXCEPT ![f] = d]
  /\ \E n \in {0, CountMod} : arrived' = [arrived EXCEPT ![f] = n]
  /\ \E n \in 0 .. 2 : coming' = [coming EXCEPT ![f] = n]
  /\ muted' \in {muted, muted \cup {f}}
  /\ UNCHANGED waiting

Unsubscribe(S) ==
  /\ source' = [f \in Fds |-> IF f \in S THEN NULL ELSE source[f]]
  /\ arrived' = [f \in Fds |-> IF f \in S THEN 0 ELSE arrived[f]]
  /\ coming' = [f \in Fds |-> IF f \in S THEN 0 ELSE coming[f]]
  /\ muted' = muted \ S
  /\ UNCHANGED waiting

\* A file is closed that nobody waits on.
CloseFile(f) ==
  /\ \A t \in Threads : f \notin waiting[t]
  /\ Unsubscribe({f})

\* A device is unregistered, whoever waits on it.
Withdraw(d) == Unsubscribe(FilesAt(d))

\* The interrupt of d is enabled.
Enable(d) ==
  /\ muted' = muted \ FilesAt(d)
  /\ UNCHANGED <<waiting, source, arrived, coming>>

\* Something happens on d, whose interrupt has been enabled since its files were opened:
\* notice of it is on its way to each of them, and none is left out.
Happen(d) ==
  /\ muted \cap FilesAt(d) = {}
  /\ coming' = [f \in Fds |-> IF f \in FilesAt(d) THEN coming[f] + 1 ELSE coming[f]]
  /\ UNCHANGED <<waiting, source, arrived, muted>>

\* On their way, notices may become one: the last one is never lost.
Merge(S) ==
  /\ \A f \in S : coming[f] > 1
  /\ coming' = OneComingLess(S)
  /\ UNCHANGED <<waiting, source, arrived, muted>>

\* A notice arrives, at some files earlier than at others.
Arrive(S) ==
  /\ \A f \in S : coming[f] > 0
  /\ arrived' = ArrivedAt(S)
  /\ coming' = OneComingLess(S)
  /\ UNCHANGED <<waiting, source, muted>>

Call(t, S) ==
  /\ waiting[t] = {} /\ S # {}
  /\ waiting' = [waiting EXCEPT ![t] = S]
  /\ UNCHANGED <<source, arrived, coming, muted>>

\* A wait reports one of its files, and ends or goes on to others.  On a subscribed file
\* it reports only what has arrived.
Report(t, f) ==
  /\ f \in waiting[t]
  /\ source[f] # NULL => arrived[f] > 0
  /\ arrived' = [arrived EXCEPT ![f] = 0]
  /\ waiting' \in {waiting, [waiting EXCEPT ![t] = {}]}
  /\ UNCHANGED <<source, coming, muted>>

WaitEnds(t) ==
  /\ waiting[t] # {}
  /\ waiting' = [waiting EXCEPT ![t] = {}]
  /\ UNCHANGED <<source, arrived, coming, muted>>

\* A wait runs out of time only if none of its files has anything to report.
GiveUp(t) == WaitEnds(t) /\ \A f \in waiting[t] : ~Certain(f)

\* A wait fails only for a device that has been withdrawn.
Fail(t) == WaitEnds(t) /\ \E f \in waiting[t] : source[f] = NULL

NoticesNext ==
  \/ \E t \in Threads :
       \/ \E S \in SUBSET Fds : Call(t, S)
       \/ \E f \in Fds : Report(t, f)
       \/ GiveUp(t) \/ Fail(t)
  \/ \E d \in Devs : Enable(d) \/ Happen(d) \/ Withdraw(d)
  \/ \E S \in SUBSET Fds : Arrive(S) \/ Merge(S)
  \/ \E f \in Fds, d \in Devs : Subscribe(f, d)
  \/ \E f \in Fds : CloseFile(f)

NoticesSpec == NoticesInit /\ [][NoticesNext]_noticesVars
==============================================================================
