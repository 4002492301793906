--------------------------- MODULE CuddlEvents_proofs ---------------------------
(***************************************************************************)
(* Proofs about event sources, for any number of devices, files and        *)
(* threads: types, the relay and the device it notifies, and open counts   *)
(* against the files they count.                                           *)
(***************************************************************************)
EXTENDS CuddlEvents, FiniteSetTheorems, TLAPS

AllRungs == IF udd THEN {"name", "uio", "sig", "udd"} ELSE {"name", "uio"}

\* What a registration holds at one time or another.
Prefixes ==
  {{}, {"name"}, {"name", "uio"}} \cup
  IF udd THEN {{"name", "uio", "sig"}, {"name", "uio", "sig", "udd"}} ELSE {}

\* How far the registration of a device has come, and what goes with it: interrupts and
\* a stand-alone handler need all of it, the relay the two rungs it uses.
LadderInv ==
  \A d \in Devs :
    /\ held[d] \in Prefixes
    /\ phase[d] = "idle" => held[d] \in {{}, AllRungs}
    /\ phase[d] = "registering" => held[d] # AllRungs
    /\ phase[d] = "cleanup" => held[d] # {}
    /\ irqh[d] => phase[d] = "idle" /\ held[d] = AllRungs
    /\ relay[d] => {"sig", "uio"} \subseteq held[d]
    /\ due[d] # {} => held[d] = AllRungs /\ (d \in Custom => irqh[d])
    /\ "pend" \in due[d] => udd

-----------------------------------------------------------------------------
(* The ladder of cuddlk_device_register() and cuddlk_cleanup() as a table *)

LEMMA PrefixSizes ==
  /\ Cardinality({}) = 0
  /\ Cardinality({"name"}) = 1
  /\ Cardinality({"name", "uio"}) = 2
  /\ Cardinality({"name", "uio", "sig"}) = 3
  /\ Cardinality({"name", "uio", "sig", "udd"}) = 4
<1>1. IsFiniteSet({}) /\ Cardinality({}) = 0
  BY FS_EmptySet
<1>2. IsFiniteSet({"name"}) /\ Cardinality({"name"}) = 1
  BY FS_Singleton
<1>3. IsFiniteSet({"name", "uio"}) /\ Cardinality({"name", "uio"}) = 2
  <2>1. {"name", "uio"} = {"name"} \cup {"uio"} /\ "uio" \notin {"name"}
    OBVIOUS
  <2> QED
    BY <1>2, <2>1, FS_AddElement
<1>4. IsFiniteSet({"name", "uio", "sig"}) /\ Cardinality({"name", "uio", "sig"}) = 3
  <2>1. /\ {"name", "uio", "sig"} = {"name", "uio"} \cup {"sig"}
        /\ "sig" \notin {"name", "uio"}
    OBVIOUS
  <2> QED
    BY <1>3, <2>1, FS_AddElement
<1>5. Cardinality({"name", "uio", "sig", "udd"}) = 4
  <2>1. /\ {"name", "uio", "sig", "udd"} = {"name", "uio", "sig"} \cup {"udd"}
        /\ "udd" \notin {"name", "uio", "sig"}
    OBVIOUS
  <2> QED
    BY <1>4, <2>1, FS_AddElement
<1> QED
  BY <1>1, <1>2, <1>3, <1>4, <1>5

LEMMA RungsInOrder ==
  ASSUME udd \in BOOLEAN
  PROVE  /\ Rungs[1] = "name" /\ Rungs[2] = "uio"
         /\ udd => Rungs[3] = "sig" /\ Rungs[4] = "udd"
         /\ Rungs[Len(Rungs)] = IF udd THEN "udd" ELSE "uio"
<1>1. CASE udd
  <2>1. Rungs = <<"name", "uio", "sig", "udd">>
    BY <1>1 DEF Rungs
  <2> QED
    BY <1>1, <2>1
<1>2. CASE ~udd
  <2>1. Rungs = <<"name", "uio">>
    BY <1>2 DEF Rungs
  <2> QED
    BY <1>2, <2>1
<1> QED
  BY <1>1, <1>2

\* The next rung up and the next rung down.
LEMMA LadderTable ==
  ASSUME udd \in BOOLEAN, NEW d \in Devs, held[d] \in Prefixes
  PROVE  /\ held[d] = {} => NextRung(d) = "name"
         /\ held[d] = {"name"} => NextRung(d) = "uio" /\ TopRung(d) = "name"
         /\ held[d] = {"name", "uio"} => TopRung(d) = "uio"
         /\ held[d] = {"name", "uio"} /\ udd => NextRung(d) = "sig"
         /\ held[d] = {"name", "uio", "sig"} => NextRung(d) = "udd" /\ TopRung(d) = "sig"
         /\ held[d] = {"name", "uio", "sig", "udd"} => TopRung(d) = "udd"
<1>1. held[d] = {} => NextRung(d) = "name"
  BY PrefixSizes, RungsInOrder DEF NextRung
<1>2. held[d] = {"name"} => NextRung(d) = "uio" /\ TopRung(d) = "name"
  BY PrefixSizes, RungsInOrder DEF NextRung, TopRung
<1>3. held[d] = {"name", "uio"} => TopRung(d) = "uio"
  BY PrefixSizes, RungsInOrder DEF TopRung
<1>4. ~udd => held[d] \in {{}, {"name"}, {"name", "uio"}}
  BY DEF Prefixes
<1>5. ~udd => "sig" \notin held[d]
  BY <1>4
<1>6. ASSUME held[d] = {"name", "uio"}, udd  PROVE  NextRung(d) = "sig"
  <2>1. Cardinality(held[d]) + 1 = 3
    BY <1>6, PrefixSizes
  <2> QED
    BY <1>6, <2>1, RungsInOrder DEF NextRung
<1>7. held[d] = {"name", "uio", "sig"} => NextRung(d) = "udd" /\ TopRung(d) = "sig"
  BY <1>5, PrefixSizes, RungsInOrder DEF NextRung, TopRung
<1>8. held[d] = {"name", "uio", "sig", "udd"} => TopRung(d) = "udd"
  BY <1>5, PrefixSizes, RungsInOrder DEF TopRung
<1> QED
  BY <1>1, <1>2, <1>3, <1>6, <1>7, <1>8

-----------------------------------------------------------------------------
(* Files and calls keep their types *)

Opened == File \cup {NULL}

LEMMA OpenFileIsFile ==
  ASSUME EventsTypeOK, NEW f \in Fds, IsOpen(f)
  PROVE  files[f] \in File
BY DEF EventsTypeOK, IsOpen

\* Fields of a file that notifications and reads leave alone.
SameFile(fs, f) ==
  /\ fs[f] # NULL <=> IsOpen(f)
  /\ IsOpen(f) => /\ fs[f].dev = files[f].dev
                  /\ fs[f].kind = files[f].kind
                  /\ fs[f].live = files[f].live

LEMMA OwingKeepsFiles ==
  ASSUME EventsTypeOK, NEW d \in Devs
  PROVE  Owing(d) \in [Fds -> Opened] /\ \A f \in Fds : SameFile(Owing(d), f)
<1> DEFINE fs == Owing(d)
<1> SUFFICES ASSUME NEW f \in Fds
             PROVE  fs[f] \in Opened /\ SameFile(fs, f)
  BY DEF Owing
<1>1. CASE CountedFile(f) /\ files[f].dev = d /\ files[f].live
  <2>1. files[f] \in File
    BY <1>1, OpenFileIsFile DEF CountedFile
  <2>2. fs[f] = [files[f] EXCEPT !.owed = TRUE]
    BY <1>1 DEF Owing
  <2>3. /\ fs[f] \in File /\ fs[f].dev = files[f].dev
        /\ fs[f].kind = files[f].kind /\ fs[f].live = files[f].live
    BY <2>1, <2>2 DEF File
  <2> QED
    BY <1>1, <2>3, NullAssumption DEF SameFile, Opened, CountedFile
<1>2. CASE ~(CountedFile(f) /\ files[f].dev = d /\ files[f].live)
  <2>1. fs[f] = files[f]
    BY <1>2 DEF Owing
  <2> QED
    BY <2>1 DEF SameFile, Opened, EventsTypeOK, IsOpen
<1> QED
  BY <1>1, <1>2

LEMMA NotifiedKeepsFiles ==
  ASSUME EventsTypeOK, EventsAssumption, NEW d \in Devs, NEW k \in FileKinds,
         NEW fs \in [Fds -> Opened], \A f \in Fds : SameFile(fs, f)
  PROVE  /\ Notified(fs, d, k) \in [Fds -> Opened]
         /\ \A f \in Fds : SameFile(Notified(fs, d, k), f)
<1> DEFINE gs == Notified(fs, d, k)
<1> SUFFICES ASSUME NEW f \in Fds
             PROVE  gs[f] \in Opened /\ SameFile(gs, f)
  BY DEF Notified
<1>1. CASE f \in FilesOf(d, k) /\ files[f].live
  <2>1. IsOpen(f)
    BY <1>1 DEF FilesOf
  <2>2. fs[f] \in File
    BY <2>1 DEF SameFile, Opened
  <2>3. gs[f] = [fs[f] EXCEPT !.unseen = Capped(@)]
    BY <1>1 DEF Notified
  <2>4. Capped(fs[f].unseen) \in 0 .. CountMod
    BY <2>2 DEF File, Capped, EventsAssumption
  <2>5. /\ gs[f] \in File /\ gs[f].dev = fs[f].dev
        /\ gs[f].kind = fs[f].kind /\ gs[f].live = fs[f].live
    BY <2>2, <2>3, <2>4 DEF File
  <2> QED
    BY <2>1, <2>5, NullAssumption DEF SameFile, Opened
<1>2. CASE ~(f \in FilesOf(d, k) /\ files[f].live)
  <2>1. gs[f] = fs[f]
    BY <1>2 DEF Notified
  <2> QED
    BY <2>1 DEF SameFile
<1> QED
  BY <1>1, <1>2

LEMMA ReportedKeepsFiles ==
  ASSUME EventsTypeOK, EventsAssumption, NEW f \in Fds, IsOpen(f)
  PROVE  Reported(f) \in [Fds -> Opened] /\ \A g \in Fds : SameFile(Reported(f), g)
<1> DEFINE h == files[f]
           n == counter[h.dev][h.kind]
           late == OnItsWay(h.dev, h.kind)
           fs == Reported(f)
<1>1. h \in File
  BY OpenFileIsFile
<1>2. h.dev \in Devs /\ h.kind \in FileKinds
  BY <1>1 DEF File
<1>3. n \in 0 .. CountMod - 1
  BY <1>2 DEF EventsTypeOK
<1>4. late \in BOOLEAN
  BY <1>2 DEF OnItsWay, ByRelay, ByHandler, EventsTypeOK
<1>5. fs = [files EXCEPT ![f] =
              [h EXCEPT !.seen = n, !.unseen = 0, !.owed = late]]
  BY DEF Reported
<1> DEFINE h2 == [h EXCEPT !.seen = n, !.unseen = 0, !.owed = late]
<1>6. h2 \in File /\ h2.dev = h.dev /\ h2.kind = h.kind /\ h2.live = h.live
  <2> HIDE DEF h, n, late
  <2>1. 0 \in 0 .. CountMod
    BY DEF EventsAssumption
  <2>2. \A v : v \in 0 .. CountMod - 1 =>
          /\ [h EXCEPT !.seen = v] \in File
          /\ [h EXCEPT !.seen = v].dev = h.dev
          /\ [h EXCEPT !.seen = v].kind = h.kind
          /\ [h EXCEPT !.seen = v].live = h.live
    BY <1>1 DEF File
  <2>3. \A g \in File :
          /\ [g EXCEPT !.unseen = 0, !.owed = late] \in File
          /\ [g EXCEPT !.unseen = 0, !.owed = late].dev = g.dev
          /\ [g EXCEPT !.unseen = 0, !.owed = late].kind = g.kind
          /\ [g EXCEPT !.unseen = 0, !.owed = late].live = g.live
    BY <1>4, <2>1 DEF File
  <2>4. h2 = [[h EXCEPT !.seen = n] EXCEPT !.unseen = 0, !.owed = late]
    BY <1>1 DEF File
  <2> HIDE DEF h2
  <2> QED
    BY <1>1, <1>3, <1>4, <2>1, <2>2, <2>3, <2>4 DEF File
<1>7. fs[f] = h2 /\ \A g \in Fds : g # f => fs[g] = files[g]
  BY <1>5 DEF EventsTypeOK
<1>8. fs \in [Fds -> Opened]
  BY <1>5, <1>6 DEF EventsTypeOK, Opened
<1>9. SameFile(fs, f)
  BY <1>6, <1>7, NullAssumption DEF SameFile
<1>10. \A g \in Fds : g # f => SameFile(fs, g)
  BY <1>7 DEF SameFile, IsOpen
<1> QED
  BY <1>8, <1>9, <1>10

-----------------------------------------------------------------------------
(* The ladder, the relay and the types *)

LEMMA StartsRight == EventsInit => EventsTypeOK /\ LadderInv
<1> SUFFICES ASSUME EventsInit  PROVE  EventsTypeOK /\ LadderInv
  OBVIOUS
<1>1. NoCall \in Call
  BY DEF NoCall, Call
<1>2. 0 \in 0 .. CountMod - 1
  BY EventsAssumption DEF EventsAssumption
<1>3. EventsTypeOK
  BY <1>1, <1>2 DEF EventsInit, EventsTypeOK
<1>4. LadderInv
  BY DEF EventsInit, LadderInv, Prefixes
<1> QED
  BY <1>3, <1>4

\* A registration goes up the ladder and a clean-up down, one rung at a time.
LEMMA NextRungIsRung ==
  ASSUME udd \in BOOLEAN, LadderInv, NEW d \in Devs, phase[d] = "registering"
  PROVE  /\ NextRung(d) \in {"name", "uio", "sig", "udd"}
         /\ held[d] \cup {NextRung(d)} \in Prefixes
         /\ held[d] \cup {NextRung(d)} = AllRungs <=> NextRung(d) = Rungs[Len(Rungs)]
<1>1. held[d] \in Prefixes /\ held[d] # AllRungs
  BY DEF LadderInv
<1>2. CASE udd
  <2>1. held[d] \in {{}, {"name"}, {"name", "uio"}, {"name", "uio", "sig"}}
    BY <1>1, <1>2 DEF Prefixes, AllRungs
  <2>2. CASE held[d] = {}
    BY <1>1, <1>2, <2>2, LadderTable, RungsInOrder DEF Prefixes, AllRungs
  <2>3. CASE held[d] = {"name"}
    BY <1>1, <1>2, <2>3, LadderTable, RungsInOrder DEF Prefixes, AllRungs
  <2>4. CASE held[d] = {"name", "uio"}
    BY <1>1, <1>2, <2>4, LadderTable, RungsInOrder DEF Prefixes, AllRungs
  <2>5. CASE held[d] = {"name", "uio", "sig"}
    BY <1>1, <1>2, <2>5, LadderTable, RungsInOrder DEF Prefixes, AllRungs
  <2> QED
    BY <2>1, <2>2, <2>3, <2>4, <2>5
<1>3. CASE ~udd
  <2>1. held[d] \in {{}, {"name"}}
    BY <1>1, <1>3 DEF Prefixes, AllRungs
  <2>2. CASE held[d] = {}
    BY <1>1, <1>3, <2>2, LadderTable, RungsInOrder DEF Prefixes, AllRungs
  <2>3. CASE held[d] = {"name"}
    BY <1>1, <1>3, <2>3, LadderTable, RungsInOrder DEF Prefixes, AllRungs
  <2> QED
    BY <2>1, <2>2, <2>3
<1> QED
  BY <1>2, <1>3

LEMMA TopRungIsTop ==
  ASSUME udd \in BOOLEAN, LadderInv, NEW d \in Devs, phase[d] = "cleanup"
  PROVE  /\ TopRung(d) \in held[d]
         /\ held[d] \ {TopRung(d)} \in Prefixes
         /\ held[d] \ {TopRung(d)} # AllRungs
         /\ TopRung(d) \in {"name", "uio"} => "sig" \notin held[d]
         /\ held[d] = AllRungs => TopRung(d) = OwnKind
<1>1. held[d] \in Prefixes /\ held[d] # {}
  BY DEF LadderInv
<1>2. \/ held[d] \in {{"name"}, {"name", "uio"}}
      \/ udd /\ held[d] \in {{"name", "uio", "sig"}, {"name", "uio", "sig", "udd"}}
  BY <1>1 DEF Prefixes
<1>3. CASE held[d] = {"name"}
  BY <1>1, <1>3, LadderTable DEF Prefixes, AllRungs, OwnKind
<1>4. CASE held[d] = {"name", "uio"}
  <2>1. TopRung(d) = "uio" /\ held[d] \ {TopRung(d)} = {"name"}
    BY <1>1, <1>4, LadderTable
  <2> QED
    BY <1>4, <2>1 DEF Prefixes, AllRungs, OwnKind
<1>5. CASE udd /\ held[d] = {"name", "uio", "sig"}
  <2>1. TopRung(d) = "sig" /\ held[d] \ {TopRung(d)} = {"name", "uio"}
    BY <1>1, <1>5, LadderTable
  <2> QED
    BY <1>5, <2>1 DEF Prefixes, AllRungs, OwnKind
<1>6. CASE udd /\ held[d] = {"name", "uio", "sig", "udd"}
  <2>1. TopRung(d) = "udd" /\ held[d] \ {TopRung(d)} = {"name", "uio", "sig"}
    BY <1>1, <1>6, LadderTable
  <2> QED
    BY <1>6, <2>1 DEF Prefixes, AllRungs, OwnKind
<1> QED
  BY <1>2, <1>3, <1>4, <1>5, <1>6

\* Only the steps of devices and interrupts touch the ladder.
LEMMA LadderStep ==
  ASSUME EventsTypeOK, LadderInv, [EventsNext]_eventsVars
  PROVE  LadderInv'
<1>1. ASSUME UNCHANGED <<udd, held, phase, irqh, due, relay>>
      PROVE  LadderInv'
  BY <1>1 DEF LadderInv, Prefixes, AllRungs
<1>2. ASSUME udd' = udd
      PROVE  Prefixes' = Prefixes /\ AllRungs' = AllRungs
  BY <1>2 DEF Prefixes, AllRungs
<1>3. ASSUME NEW d \in Devs, RegisterBegin(d)
      PROVE  LadderInv'
  <2>1. /\ UNCHANGED <<udd, held, irqh, due, relay>> /\ held[d] = {} /\ phase[d] = "idle"
        /\ phase' = [phase EXCEPT ![d] = "registering"]
    BY <1>3 DEF RegisterBegin, irqVars
  <2>2. {} # AllRungs
    BY DEF AllRungs
  <2> QED
    BY <1>2, <2>1, <2>2 DEF LadderInv, EventsTypeOK
<1>4. ASSUME NEW d \in Devs, RegisterStep(d)
      PROVE  LadderInv'
  <2>1. /\ UNCHANGED <<udd, irqh, due, relay>> /\ phase[d] = "registering"
        /\ held' = [held EXCEPT ![d] = @ \cup {NextRung(d)}]
        /\ phase' = [phase EXCEPT ![d] =
             IF NextRung(d) = Rungs[Len(Rungs)] THEN "idle" ELSE @]
    BY <1>4 DEF RegisterStep, irqVars
  <2>2. /\ held[d] \cup {NextRung(d)} \in Prefixes
        /\ held[d] \cup {NextRung(d)} = AllRungs <=> NextRung(d) = Rungs[Len(Rungs)]
    BY <2>1, NextRungIsRung DEF EventsTypeOK
  <2> QED
    BY <1>2, <2>1, <2>2 DEF LadderInv, EventsTypeOK
<1>5. ASSUME NEW d \in Devs, RegisterFails(d)
      PROVE  LadderInv'
  <2>1. /\ UNCHANGED <<udd, held, irqh, due, relay>> /\ phase[d] = "registering"
        /\ phase' = [phase EXCEPT ![d] = IF held[d] = {} THEN "idle" ELSE "cleanup"]
    BY <1>5 DEF RegisterFails, irqVars
  <2> QED
    BY <1>2, <2>1 DEF LadderInv, EventsTypeOK
<1>6. ASSUME NEW d \in Devs, UnregisterBegin(d)
      PROVE  LadderInv'
  <2>1. /\ UNCHANGED <<udd, held, irqh, due, relay>> /\ phase[d] = "idle"
        /\ held[d] # {} /\ ~irqh[d] /\ phase' = [phase EXCEPT ![d] = "cleanup"]
    BY <1>6 DEF UnregisterBegin, Registered, irqVars
  <2> QED
    BY <1>2, <2>1 DEF LadderInv, EventsTypeOK
<1>7. ASSUME NEW d \in Devs, CleanupStep(d)
      PROVE  LadderInv'
  <2> DEFINE r == TopRung(d)
  <2>1. /\ UNCHANGED <<udd, irqh, due>> /\ phase[d] = "cleanup"
        /\ r = OwnKind => due[d] = {}
        /\ held' = [held EXCEPT ![d] = @ \ {r}]
        /\ phase' = [phase EXCEPT ![d] = IF held[d] = {r} THEN "idle" ELSE @]
        /\ relay' = IF r = "sig" THEN [relay EXCEPT ![d] = FALSE] ELSE relay
    BY <1>7 DEF CleanupStep, Undo, irqVars
  <2>2. /\ r \in held[d] /\ held[d] \ {r} \in Prefixes /\ held[d] \ {r} # AllRungs
        /\ r \in {"name", "uio"} => "sig" \notin held[d]
        /\ held[d] = AllRungs => r = OwnKind
    BY <2>1, TopRungIsTop DEF EventsTypeOK
  <2> HIDE DEF r
  <2>3. held[d] = {r} <=> held[d] \ {r} = {}
    BY <2>2
  <2>4. ~irqh[d] /\ due[d] = {}
    BY <2>1, <2>2 DEF LadderInv
  <2>5. relay'[d] => {"sig", "uio"} \subseteq held'[d]
    BY <2>1, <2>2 DEF LadderInv, EventsTypeOK
  <2>6. /\ held'[d] = held[d] \ {r}
        /\ phase'[d] = IF held'[d] = {} THEN "idle" ELSE "cleanup"
        /\ irqh'[d] = irqh[d] /\ due'[d] = due[d]
        /\ \A e \in Devs \ {d} :
              UNCHANGED <<held[e], phase[e], irqh[e], due[e], relay[e]>>
    BY <2>1, <2>3 DEF EventsTypeOK
  <2> QED
    BY <1>2, <2>1, <2>2, <2>4, <2>5, <2>6 DEF LadderInv
<1>8. ASSUME NEW d \in Devs, InterruptRegister(d)
      PROVE  LadderInv'
  <2>1. /\ UNCHANGED <<udd, held, phase, due, relay>> /\ phase[d] = "idle"
        /\ held[d] # {} /\ irqh' = [irqh EXCEPT ![d] = TRUE]
    BY <1>8 DEF InterruptRegister, Registered, deviceVars
  <2>2. held[d] = AllRungs
    BY <2>1 DEF LadderInv
  <2> QED
    BY <1>2, <2>1, <2>2 DEF LadderInv, EventsTypeOK
<1>9. ASSUME NEW d \in Devs, InterruptUnregister(d)
      PROVE  LadderInv'
  <2>1. /\ UNCHANGED <<udd, held, phase, due, relay>> /\ irqh' = [irqh EXCEPT ![d] = FALSE]
        /\ due[d] = {}
    BY <1>9 DEF InterruptUnregister, deviceVars
  <2> QED
    BY <1>2, <2>1 DEF LadderInv, EventsTypeOK
<1>10. ASSUME NEW d \in Devs, Handled(d), held[d] = AllRungs, d \in Custom => irqh[d]
       PROVE  LadderInv'
  <2>1. /\ UNCHANGED <<udd, held, phase, irqh, relay>>
        /\ due' = [due EXCEPT ![d] = IF udd THEN {"pend", "notify"} ELSE {"notify"}]
    BY <1>10 DEF Handled, deviceVars
  <2>2. /\ "pend" \in due'[d] => udd
        /\ \A e \in Devs \ {d} : due'[e] = due[e]
    BY <2>1 DEF EventsTypeOK
  <2> QED
    BY <1>2, <1>10, <2>1, <2>2 DEF LadderInv
<1>11. ASSUME NEW d \in Devs, InterruptStep(d)
       PROVE  LadderInv'
  <2>1. CASE Interrupt(d)
    <3>1. Handled(d) /\ d \notin Custom /\ OwnKind \in held[d]
      BY <2>1 DEF Interrupt
    <3>2. held[d] = AllRungs
      BY <3>1 DEF LadderInv, Prefixes, AllRungs, OwnKind
    <3> QED
      BY <1>10, <3>1, <3>2
  <2>2. CASE CustomInterrupt(d)
    BY <1>10, <2>2 DEF CustomInterrupt, LadderInv
  <2> QED
    BY <1>11, <2>1, <2>2 DEF InterruptStep
<1>12. ASSUME NEW d \in Devs, NotifyStep(d)
       PROVE  LadderInv'
  <2>1. CASE PendRelay(d)
    <3>1. /\ UNCHANGED <<udd, held, phase, irqh>> /\ "pend" \in due[d]
          /\ due' = [due EXCEPT ![d] = @ \ {"pend"}]
          /\ relay' = [relay EXCEPT ![d] = @ \/ opens[d]["uio"] > 0]
      BY <2>1 DEF PendRelay, deviceVars, irqVars
    <3>2. udd /\ held[d] = AllRungs
      BY <3>1 DEF LadderInv
    <3>3. {"sig", "uio"} \subseteq held[d]
      BY <3>2 DEF AllRungs
    <3>4. /\ due'[d] = due[d] \ {"pend"} /\ due[d] # {}
          /\ \A e \in Devs \ {d} : due'[e] = due[e] /\ relay'[e] = relay[e]
      BY <3>1 DEF EventsTypeOK
    <3> QED
      BY <1>2, <3>1, <3>2, <3>3, <3>4 DEF LadderInv
  <2>2. CASE NotifyDevice(d)
    <3>1. /\ UNCHANGED <<udd, held, phase, irqh, relay>> /\ "notify" \in due[d]
          /\ due' = [due EXCEPT ![d] = @ \ {"notify"}]
      BY <2>2 DEF NotifyDevice, deviceVars, irqVars
    <3>2. /\ due'[d] = due[d] \ {"notify"} /\ due[d] # {}
          /\ \A e \in Devs \ {d} : due'[e] = due[e]
      BY <3>1 DEF EventsTypeOK
    <3> QED
      BY <1>2, <3>1, <3>2 DEF LadderInv
  <2> QED
    BY <1>12, <2>1, <2>2 DEF NotifyStep
<1>13. ASSUME NEW d \in Devs, Relay(d)
       PROVE  LadderInv'
  <2>1. /\ UNCHANGED <<udd, held, phase, irqh, due>>
        /\ relay' = [relay EXCEPT ![d] = FALSE]
    BY <1>13 DEF Relay, deviceVars, irqVars
  <2> QED
    BY <1>2, <2>1 DEF LadderInv, EventsTypeOK
<1>14. ASSUME NEW t \in Threads, CallStep(t) \/ NewCall(t)
       PROVE  LadderInv'
  <2>1. UNCHANGED <<udd, held, phase, irqh, due, relay>>
    BY <1>14 DEF CallStep, NewCall, CountOpen, OpenDisable, Select, Timeout, Read,
                 ReadFails, Open, Wait, Close, Control, TimedWait, deviceVars, irqVars
  <2> QED
    BY <1>1, <2>1
<1>15. CASE UNCHANGED eventsVars
  BY <1>1, <1>15 DEF eventsVars, deviceVars, irqVars
<1> QED
  BY <1>3, <1>4, <1>5, <1>6, <1>7, <1>8, <1>9, <1>11, <1>12, <1>13, <1>14, <1>15
     DEF EventsNext, DeviceStep

\* The files after a step that notifies, counts an open, or reads.
LEMMA HandledKeepsTypes ==
  ASSUME EventsTypeOK, NEW d \in Devs, Handled(d)
  PROVE  /\ EventsTypeOK' /\ UNCHANGED <<opens, calls>>
         /\ \A f \in Fds : SameFile(files', f)
<1>1. /\ UNCHANGED <<udd, held, phase, irqh, relay, counter, opens, calls>>
      /\ files' = Owing(d) /\ enabled' \in [Devs -> BOOLEAN]
      /\ due' \in [Devs -> SUBSET {"pend", "notify"}]
  BY DEF Handled, deviceVars, EventsTypeOK
<1>2. files' \in [Fds -> Opened] /\ \A f \in Fds : SameFile(files', f)
  BY <1>1, OwingKeepsFiles
<1> QED
  BY <1>1, <1>2 DEF EventsTypeOK, Opened

LEMMA NotifyKeepsTypes ==
  ASSUME EventsTypeOK, NEW d \in Devs, NotifyDevice(d)
  PROVE  /\ counter' \in [Devs -> [FileKinds -> 0 .. CountMod - 1]]
         /\ due' \in [Devs -> SUBSET {"pend", "notify"}]
         /\ files' \in [Fds -> Opened] /\ \A f \in Fds : SameFile(files', f)
<1> DEFINE k == OwnKind
<1>1. /\ k \in FileKinds /\ counter' = [counter EXCEPT ![d][k] = Inc(@)]
      /\ files' = Notified(files, d, k)
      /\ due' = [due EXCEPT ![d] = @ \ {"notify"}]
  BY DEF NotifyDevice, FileKinds, OwnKind
<1>2. \A n \in 0 .. CountMod - 1 : Inc(n) \in 0 .. CountMod - 1
  BY EventsAssumption DEF Inc, EventsAssumption
<1> HIDE DEF k
<1>3. counter' \in [Devs -> [FileKinds -> 0 .. CountMod - 1]]
  BY <1>1, <1>2 DEF EventsTypeOK
<1>4. files \in [Fds -> Opened] /\ \A f \in Fds : SameFile(files, f)
  BY DEF EventsTypeOK, Opened, SameFile, IsOpen
<1>5. files' \in [Fds -> Opened] /\ \A f \in Fds : SameFile(files', f)
  BY <1>1, <1>4, EventsAssumption, NotifiedKeepsFiles
<1>6. due' \in [Devs -> SUBSET {"pend", "notify"}]
  BY <1>1 DEF EventsTypeOK
<1> QED
  BY <1>3, <1>5, <1>6

LEMMA RelayKeepsTypes ==
  ASSUME EventsTypeOK, NEW d \in Devs, Relay(d)
  PROVE  /\ counter' \in [Devs -> [FileKinds -> 0 .. CountMod - 1]]
         /\ relay' \in [Devs -> BOOLEAN]
         /\ files' \in [Fds -> Opened] /\ \A f \in Fds : SameFile(files', f)
<1>1. /\ counter' = [counter EXCEPT ![d]["uio"] = Inc(@)] /\ "uio" \in FileKinds
      /\ files' = Notified(files, d, "uio") /\ relay' = [relay EXCEPT ![d] = FALSE]
  BY DEF Relay, FileKinds
<1>2. \A n \in 0 .. CountMod - 1 : Inc(n) \in 0 .. CountMod - 1
  BY EventsAssumption DEF Inc, EventsAssumption
<1>3. counter' \in [Devs -> [FileKinds -> 0 .. CountMod - 1]]
  BY <1>1, <1>2 DEF EventsTypeOK
<1>4. files \in [Fds -> Opened] /\ \A f \in Fds : SameFile(files, f)
  BY DEF EventsTypeOK, Opened, SameFile, IsOpen
<1>5. files' \in [Fds -> Opened] /\ \A f \in Fds : SameFile(files', f)
  BY <1>1, <1>4, EventsAssumption, NotifiedKeepsFiles
<1> QED
  BY <1>1, <1>3, <1>5 DEF EventsTypeOK

\* One field of one open file changes.
LEMMA OwedUpdate ==
  ASSUME EventsTypeOK, NEW f \in Fds, IsOpen(f), NEW b \in BOOLEAN,
         files' = [files EXCEPT ![f].owed = b] \/ files' = [files EXCEPT ![f].quiet = b]
  PROVE  files' \in [Fds -> Opened] /\ \A g \in Fds : SameFile(files', g)
<1>1. files[f] \in File
  BY OpenFileIsFile
<1>2. \A h \in File :
        /\ [h EXCEPT !.owed = b] \in File /\ [h EXCEPT !.quiet = b] \in File
        /\ [h EXCEPT !.owed = b].dev = h.dev /\ [h EXCEPT !.quiet = b].dev = h.dev
        /\ [h EXCEPT !.owed = b].kind = h.kind /\ [h EXCEPT !.quiet = b].kind = h.kind
        /\ [h EXCEPT !.owed = b].live = h.live /\ [h EXCEPT !.quiet = b].live = h.live
  BY DEF File
<1>3. /\ files'[f] \in File /\ files'[f].dev = files[f].dev
      /\ files'[f].kind = files[f].kind /\ files'[f].live = files[f].live
      /\ files' \in [Fds -> Opened] /\ \A g \in Fds \ {f} : files'[g] = files[g]
  <2>1. files \in [Fds -> Opened] /\ File \subseteq Opened
    BY DEF EventsTypeOK, Opened
  <2>2. PICK h \in File :
          /\ files' = [files EXCEPT ![f] = h] /\ h.dev = files[f].dev
          /\ h.kind = files[f].kind /\ h.live = files[f].live
    BY <1>1, <1>2
  <2> QED
    BY <2>1, <2>2
<1> QED
  BY <1>3, NullAssumption DEF SameFile, IsOpen

\* A call is about open files, and a file that is being opened has no other call.
CallsInv ==
  \A t \in Threads :
    /\ calls[t].at \in {"entered", "counted"} => calls[t].op = "open"
    /\ calls[t].op = "open" => \E f \in Fds : calls[t].on = {f}
    /\ \A f \in calls[t].on : IsOpen(f)
    /\ calls[t].todo \subseteq calls[t].on
    /\ calls[t].op = "open" =>
         \A u \in Threads \ {t} : calls[t].on \cap calls[u].on = {}

\* How the call of one thread may change.
LEMMA CallUpdate ==
  ASSUME EventsTypeOK, NEW t \in Threads
  PROVE  /\ calls[t] \in Call /\ calls[t].on \subseteq Fds /\ calls[t].todo \subseteq Fds
         /\ \A c \in Call : [calls EXCEPT ![t] = c] \in [Threads -> Call]
         /\ \A a \in {"idle", "entered", "counted", "selecting", "reading"} :
               [calls EXCEPT ![t].at = a] \in [Threads -> Call]
         /\ \A S \in SUBSET Fds : [calls EXCEPT ![t].todo = S] \in [Threads -> Call]
         /\ [calls EXCEPT ![t] = NoCall] \in [Threads -> Call]
<1>1. calls[t] \in Call /\ calls[t].on \subseteq Fds /\ calls[t].todo \subseteq Fds
  BY DEF EventsTypeOK, Call
<1>2. \A c \in Call : [calls EXCEPT ![t] = c] \in [Threads -> Call]
  BY DEF EventsTypeOK
<1>3. ASSUME NEW a \in {"idle", "entered", "counted", "selecting", "reading"}
      PROVE  [calls EXCEPT ![t].at = a] \in [Threads -> Call]
  <2>1. [calls[t] EXCEPT !.at = a] \in Call
    BY <1>1 DEF Call
  <2> QED
    BY <1>2, <2>1
<1>4. ASSUME NEW S \in SUBSET Fds
      PROVE  [calls EXCEPT ![t].todo = S] \in [Threads -> Call]
  <2>1. [calls[t] EXCEPT !.todo = S] \in Call
    BY <1>1 DEF Call
  <2> QED
    BY <1>2, <2>1
<1>5. NoCall \in Call
  BY DEF NoCall, Call
<1> QED
  BY <1>1, <1>2, <1>3, <1>4, <1>5

LEMMA DeviceKeepsTypes ==
  ASSUME EventsTypeOK, LadderInv, NEW d \in Devs,
         \/ RegisterBegin(d) \/ UnregisterBegin(d) \/ RegisterStep(d) \/ RegisterFails(d)
  PROVE  EventsTypeOK' /\ UNCHANGED <<opens, files, calls>>
<1>1. CASE RegisterStep(d)
  <2>1. NextRung(d) \in {"name", "uio", "sig", "udd"}
    BY <1>1, NextRungIsRung DEF RegisterStep, EventsTypeOK
  <2> QED
    BY <1>1, <2>1 DEF RegisterStep, EventsTypeOK, irqVars
<1>2. CASE RegisterBegin(d)
  BY <1>2 DEF RegisterBegin, EventsTypeOK, irqVars
<1>3. CASE UnregisterBegin(d)
  BY <1>3 DEF UnregisterBegin, EventsTypeOK, irqVars
<1>4. CASE RegisterFails(d)
  BY <1>4 DEF RegisterFails, EventsTypeOK, irqVars
<1> QED
  BY <1>1, <1>2, <1>3, <1>4

LEMMA CleanupKeepsTypes ==
  ASSUME EventsTypeOK, NEW d \in Devs, CleanupStep(d)
  PROVE  /\ EventsTypeOK' /\ UNCHANGED <<opens, calls>>
         /\ \A f \in Fds :
               /\ IsOpen(f)' <=> IsOpen(f)
               /\ IsOpen(f) => /\ files'[f].dev = files[f].dev
                               /\ files'[f].kind = files[f].kind
                               /\ files'[f].live => files[f].live
<1> DEFINE r == TopRung(d)
<1>1. /\ UNCHANGED <<udd, enabled, irqh, due, opens, calls>>
      /\ held' = [held EXCEPT ![d] = @ \ {r}]
      /\ phase' = [phase EXCEPT ![d] = IF held[d] = {r} THEN "idle" ELSE @]
      /\ relay' = IF r = "sig" THEN [relay EXCEPT ![d] = FALSE] ELSE relay
      /\ files' = [f \in Fds |-> IF r = "uio" /\ f \in FilesOf(d, "uio")
                                 THEN Detached(f) ELSE files[f]]
      /\ counter' = IF r \in FileKinds THEN [counter EXCEPT ![d][r] = 0] ELSE counter
  BY DEF CleanupStep, Undo, irqVars
<1> HIDE DEF r
<1>2. \A f \in Fds : IsOpen(f) =>
         /\ Detached(f) \in File /\ Detached(f).dev = files[f].dev
         /\ Detached(f).kind = files[f].kind /\ Detached(f).live = FALSE
  <2> SUFFICES ASSUME NEW f \in Fds, IsOpen(f)
               PROVE  /\ Detached(f) \in File /\ Detached(f).dev = files[f].dev
                      /\ Detached(f).kind = files[f].kind /\ Detached(f).live = FALSE
    OBVIOUS
  <2>1. files[f] \in File
    BY OpenFileIsFile
  <2>2. 0 \in 0 .. CountMod - 1 /\ 0 \in 0 .. CountMod
    BY EventsAssumption DEF EventsAssumption
  <2>3. \A h \in File :
          LET g == [h EXCEPT !.live = FALSE, !.seen = 0]
          IN  g \in File /\ g.dev = h.dev /\ g.kind = h.kind /\ g.live = FALSE
    BY <2>2 DEF File
  <2>4. \A h \in File :
          LET g == [h EXCEPT !.unseen = 0, !.owed = FALSE]
          IN  g \in File /\ g.dev = h.dev /\ g.kind = h.kind /\ g.live = h.live
    BY <2>2 DEF File
  <2>5. \A h \in File :
          LET g == [h EXCEPT !.quiet = FALSE]
          IN  g \in File /\ g.dev = h.dev /\ g.kind = h.kind /\ g.live = h.live
    BY DEF File
  <2> DEFINE g1 == [files[f] EXCEPT !.live = FALSE, !.seen = 0]
             g2 == [g1 EXCEPT !.unseen = 0, !.owed = FALSE]
             g3 == [g2 EXCEPT !.quiet = FALSE]
  <2>6. Detached(f) = g3
    BY <2>1 DEF Detached, File
  <2>7. g1 \in File /\ g1.dev = files[f].dev /\ g1.kind = files[f].kind /\ g1.live = FALSE
    BY <2>1, <2>3
  <2> HIDE DEF g1
  <2>8. g2 \in File /\ g2.dev = g1.dev /\ g2.kind = g1.kind /\ g2.live = g1.live
    BY <2>7, <2>4
  <2> HIDE DEF g2
  <2>9. g3 \in File /\ g3.dev = g2.dev /\ g3.kind = g2.kind /\ g3.live = g2.live
    BY <2>8, <2>5
  <2> HIDE DEF g3
  <2> QED
    BY <2>6, <2>7, <2>8, <2>9
<1>3. ASSUME NEW f \in Fds
      PROVE  /\ files'[f] \in Opened
             /\ IsOpen(f)' <=> IsOpen(f)
             /\ IsOpen(f) => /\ files'[f].dev = files[f].dev
                             /\ files'[f].kind = files[f].kind
                             /\ files'[f].live => files[f].live
  <2>1. CASE r = "uio" /\ f \in FilesOf(d, "uio")
    BY <1>1, <1>2, <2>1, NullAssumption DEF FilesOf, IsOpen, Opened
  <2>2. CASE ~(r = "uio" /\ f \in FilesOf(d, "uio"))
    BY <1>1, <2>2 DEF IsOpen, Opened, EventsTypeOK
  <2> QED
    BY <2>1, <2>2
<1>4. files' \in [Fds -> Opened]
  BY <1>1, <1>3
<1>5. counter' \in [Devs -> [FileKinds -> 0 .. CountMod - 1]]
  BY <1>1, EventsAssumption DEF EventsTypeOK, EventsAssumption
<1>6. EventsTypeOK'
  BY <1>1, <1>4, <1>5 DEF EventsTypeOK, Opened
<1> QED
  BY <1>1, <1>3, <1>6

LEMMA InterruptKeepsTypes ==
  ASSUME EventsTypeOK, NEW d \in Devs,
         \/ InterruptStep(d) \/ NotifyStep(d) \/ Relay(d)
         \/ InterruptRegister(d) \/ InterruptUnregister(d)
  PROVE  /\ EventsTypeOK' /\ UNCHANGED <<opens, calls>>
         /\ \A f \in Fds : SameFile(files', f)
<1>1. \A f \in Fds : SameFile(files, f)
  BY DEF SameFile, IsOpen
<1>2. CASE InterruptStep(d)
  BY <1>2, HandledKeepsTypes DEF InterruptStep, Interrupt, CustomInterrupt
<1>3. CASE NotifyStep(d)
  <2>1. CASE PendRelay(d)
    <3>1. /\ UNCHANGED <<udd, held, phase, enabled, irqh, counter, opens, files, calls>>
          /\ relay' = [relay EXCEPT ![d] = @ \/ opens[d]["uio"] > 0]
          /\ due' = [due EXCEPT ![d] = @ \ {"pend"}]
      BY <2>1 DEF PendRelay, deviceVars, irqVars
    <3>2. relay' \in [Devs -> BOOLEAN] /\ due' \in [Devs -> SUBSET {"pend", "notify"}]
      BY <3>1 DEF EventsTypeOK
    <3> QED
      BY <1>1, <3>1, <3>2 DEF EventsTypeOK
  <2>2. CASE NotifyDevice(d)
    <3>1. UNCHANGED <<udd, held, phase, enabled, irqh, relay, opens, calls>>
      BY <2>2 DEF NotifyDevice, deviceVars, irqVars
    <3> QED
      BY <2>2, <3>1, NotifyKeepsTypes DEF EventsTypeOK, Opened
  <2> QED
    BY <1>3, <2>1, <2>2 DEF NotifyStep
<1>4. CASE Relay(d)
  <2>1. UNCHANGED <<udd, held, phase, enabled, irqh, due, opens, calls>>
    BY <1>4 DEF Relay, deviceVars, irqVars
  <2> QED
    BY <1>4, <2>1, RelayKeepsTypes DEF EventsTypeOK, Opened
<1>5. CASE InterruptRegister(d) \/ InterruptUnregister(d)
  <2>1. /\ UNCHANGED <<udd, held, phase, enabled, due, relay, counter, opens, files, calls>>
        /\ irqh' = [irqh EXCEPT ![d] = TRUE] \/ irqh' = [irqh EXCEPT ![d] = FALSE]
    BY <1>5 DEF InterruptRegister, InterruptUnregister, deviceVars
  <2> QED
    BY <1>1, <2>1 DEF EventsTypeOK
<1> QED
  BY <1>2, <1>3, <1>4, <1>5

-----------------------------------------------------------------------------
(* Calls *)

LEMMA CallGoesOn ==
  ASSUME CallsInv, NEW t \in Threads,
         \A u \in Threads \ {t} : calls'[u] = calls[u],
         \/ calls'[t] = NoCall
         \/ /\ calls'[t].op = calls[t].op /\ calls'[t].on = calls[t].on
            /\ calls'[t].todo \subseteq calls[t].todo \cup calls[t].on
            /\ calls'[t].at # "entered" /\ (calls'[t].at = "counted" => calls[t].op = "open"),
         \A f \in Fds : IsOpen(f) => IsOpen(f)', EventsTypeOK
  PROVE  CallsInv'
<1>1. \A u \in Threads : calls[u].on \subseteq Fds
  BY CallUpdate
<1>2. /\ NoCall.op = "none" /\ NoCall.at = "idle"
      /\ NoCall.on = {} /\ NoCall.todo = {}
  BY DEF NoCall
<1>3. \A u \in Threads :
         /\ calls'[u].at \in {"entered", "counted"} => calls'[u].op = "open"
         /\ calls'[u].op = "open" => calls[u].op = "open" /\ calls'[u].on = calls[u].on
         /\ calls'[u].on \subseteq calls[u].on
         /\ calls'[u].todo \subseteq calls'[u].on
  BY <1>2 DEF CallsInv
<1> QED
  BY <1>1, <1>3 DEF CallsInv

LEMMA CallBegins ==
  ASSUME CallsInv, NEW t \in Threads, NEW S \in SUBSET Fds, \A f \in S : Usable(t, f),
         \A u \in Threads \ {t} : calls'[u] = calls[u],
         calls'[t].op # "open", calls'[t].at \notin {"entered", "counted"}, calls'[t].on = S,
         calls'[t].todo \subseteq S,
         UNCHANGED files
  PROVE  CallsInv'
<1>1. \A f \in S : IsOpen(f) /\ \A u \in Threads : calls[u].op = "open" => f \notin calls[u].on
  BY DEF Usable
<1>2. \A f : IsOpen(f)' <=> IsOpen(f)
  BY DEF IsOpen
<1> QED
  BY <1>1, <1>2 DEF CallsInv

\* The steps that touch no variable but calls.
LEMMA CallsOnly ==
  ASSUME EventsTypeOK, CallsInv, NEW t \in Threads,
         \/ Select(t) \/ Timeout(t) \/ \E f \in Fds : ReadFails(t, f) \/ Wait(t, f)
         \/ \E S \in SUBSET Fds : TimedWait(t, S)
  PROVE  /\ EventsTypeOK' /\ CallsInv'
         /\ UNCHANGED <<opens, files>>
         /\ \A u \in Threads : calls'[u].at = "entered" <=> calls[u].at = "entered"
         /\ \A u \in Threads : calls[u].at = "entered" => calls'[u].on = calls[u].on
<1>1. \A f \in Fds : IsOpen(f) => files[f] # NULL
  BY DEF IsOpen
<1>2. NoCall.at = "idle" /\ NoCall.on = {} /\ NoCall.op = "none"
  BY DEF NoCall
<1>3. ASSUME UNCHANGED <<deviceVars, irqVars, due, relay, counter, opens, files>>,
             calls' \in [Threads -> Call]
      PROVE  /\ EventsTypeOK' /\ UNCHANGED <<opens, files>>
             /\ \A f \in Fds : IsOpen(f) => IsOpen(f)'
  BY <1>3 DEF EventsTypeOK, deviceVars, irqVars, IsOpen
<1>4. CASE Select(t)
  <2>1. /\ calls[t].at = "selecting"
        /\ UNCHANGED <<deviceVars, irqVars, due, relay, counter, opens, files>>
        /\ calls' = [calls EXCEPT ![t].at = "reading", ![t].todo = Ready(t)]
    BY <1>4 DEF Select
  <2>2. Ready(t) \in SUBSET Fds /\ Ready(t) \subseteq calls[t].on
    BY CallUpdate DEF Ready
  <2> DEFINE c == [calls[t] EXCEPT !.at = "reading", !.todo = Ready(t)]
  <2>3. /\ c \in Call /\ c.at = "reading" /\ c.op = calls[t].op /\ c.on = calls[t].on
        /\ c.todo = Ready(t)
    BY <2>2, CallUpdate DEF Call
  <2>4. calls' = [calls EXCEPT ![t] = c]
    BY <2>1 DEF EventsTypeOK
  <2> HIDE DEF c
  <2>5. /\ calls' \in [Threads -> Call] /\ calls'[t] = c
        /\ \A u \in Threads \ {t} : calls'[u] = calls[u]
    BY <2>3, <2>4, CallUpdate DEF EventsTypeOK
  <2> QED
    BY <1>3, <2>1, <2>2, <2>3, <2>5, CallGoesOn
<1>5. CASE Timeout(t) \/ \E f \in Fds : ReadFails(t, f)
  <2>1. /\ calls[t].at # "entered"
        /\ UNCHANGED <<deviceVars, irqVars, due, relay, counter, opens, files>>
        /\ calls' = [calls EXCEPT ![t] = NoCall]
    BY <1>5 DEF Timeout, ReadFails, Reading, Return
  <2>2. /\ calls' \in [Threads -> Call] /\ calls'[t] = NoCall
        /\ \A u \in Threads \ {t} : calls'[u] = calls[u]
    BY <2>1, CallUpdate DEF EventsTypeOK
  <2> QED
    BY <1>2, <1>3, <2>1, <2>2, CallGoesOn
<1>6. CASE \/ \E f \in Fds : Wait(t, f)
           \/ \E S \in SUBSET Fds : TimedWait(t, S)
  <2>1. PICK S \in SUBSET Fds, c \in Call :
          /\ Idle(t) /\ \A f \in S : Usable(t, f)
          /\ c.op # "open" /\ c.at \notin {"entered", "counted"} /\ c.on = S /\ c.todo \subseteq S
          /\ calls' = [calls EXCEPT ![t] = c]
          /\ UNCHANGED <<deviceVars, irqVars, due, relay, counter, opens, files>>
    <3>1. ASSUME NEW f \in Fds, Wait(t, f)
          PROVE  \E S \in SUBSET Fds, c \in Call :
                   /\ Idle(t) /\ \A g \in S : Usable(t, g)
                   /\ c.op # "open" /\ c.at \notin {"entered", "counted"} /\ c.on = S /\ c.todo \subseteq S
                   /\ calls' = [calls EXCEPT ![t] = c]
                   /\ UNCHANGED <<deviceVars, irqVars, due, relay, counter, opens, files>>
      <4> DEFINE c == [op |-> "wait", at |-> "reading", on |-> {f}, todo |-> {f}]
      <4>1. c \in Call /\ c.op # "open" /\ c.at \notin {"entered", "counted"} /\ c.on = {f} /\ c.todo \subseteq {f}
        BY DEF Call
      <4>2. /\ Idle(t) /\ \A g \in {f} : Usable(t, g)
            /\ calls' = [calls EXCEPT ![t] = c]
            /\ UNCHANGED <<deviceVars, irqVars, due, relay, counter, opens, files>>
        BY <3>1 DEF Wait
      <4> HIDE DEF c
      <4> QED
        BY <4>1, <4>2
    <3>2. ASSUME NEW S \in SUBSET Fds, TimedWait(t, S)
          PROVE  \E c \in Call :
                   /\ Idle(t) /\ \A g \in S : Usable(t, g)
                   /\ c.op # "open" /\ c.at \notin {"entered", "counted"} /\ c.on = S /\ c.todo \subseteq S
                   /\ calls' = [calls EXCEPT ![t] = c]
                   /\ UNCHANGED <<deviceVars, irqVars, due, relay, counter, opens, files>>
      <4> DEFINE c == [op |-> "timed", at |-> "selecting", on |-> S, todo |-> {}]
      <4>1. c \in Call /\ c.op # "open" /\ c.at \notin {"entered", "counted"} /\ c.on = S /\ c.todo \subseteq S
        BY DEF Call
      <4>2. /\ Idle(t) /\ \A g \in S : Usable(t, g)
            /\ calls' = [calls EXCEPT ![t] = c]
            /\ UNCHANGED <<deviceVars, irqVars, due, relay, counter, opens, files>>
        BY <3>2 DEF TimedWait
      <4> HIDE DEF c
      <4> QED
        BY <4>1, <4>2
    <3> QED
      BY <1>6, <3>1, <3>2
  <2>2. /\ calls' \in [Threads -> Call] /\ calls'[t] = c
        /\ \A u \in Threads \ {t} : calls'[u] = calls[u]
    BY <2>1, CallUpdate DEF EventsTypeOK
  <2>3. calls[t].at # "entered"
    BY <1>2, <2>1 DEF Idle
  <2>4. CallsInv'
    BY <2>1, <2>2, CallBegins
  <2> QED
    BY <1>3, <2>1, <2>2, <2>3, <2>4
<1> QED
  BY <1>4, <1>5, <1>6

-----------------------------------------------------------------------------
(* Open counts *)

\* The files that an open count has to cover.
Counted(d, k) == {f \in FilesOf(d, k) : files[f].live /\ CountedFile(f)}

LEMMA CountedFinite ==
  \A d, k : IsFiniteSet(Counted(d, k)) /\ Cardinality(Counted(d, k)) \in Nat
<1>1. \A d, k : Counted(d, k) \in SUBSET Fds
  BY DEF Counted, FilesOf
<1>2. IsFiniteSet(Fds)
  BY EventsAssumption DEF EventsAssumption
<1> QED
  BY <1>1, <1>2, FS_Subset, FS_CardinalityType

LEMMA CountedFinitePrime ==
  \A d, k : IsFiniteSet(Counted(d, k)') /\ Cardinality(Counted(d, k)') \in Nat
<1>1. \A d, k : Counted(d, k)' \in SUBSET Fds
  BY DEF Counted, FilesOf
<1>2. IsFiniteSet(Fds)
  BY EventsAssumption DEF EventsAssumption
<1> QED
  BY <1>1, <1>2, FS_Subset, FS_CardinalityType

\* A step that opens no file for good and counts none leaves fewer to cover or as many.
LEMMA FewerCounted ==
  ASSUME \A f \in Fds : IsOpen(f)' =>
           \/ Entering(f)'
           \/ /\ IsOpen(f) /\ files'[f].dev = files[f].dev
              /\ files'[f].kind = files[f].kind /\ (files'[f].live => files[f].live),
         \A f \in Fds : Entering(f) => Entering(f)'
  PROVE  \A d, k : Counted(d, k)' \subseteq Counted(d, k)
<1> SUFFICES ASSUME NEW d, NEW k, NEW f \in Counted(d, k)'
             PROVE  f \in Counted(d, k)
  OBVIOUS
<1>1. /\ f \in Fds /\ IsOpen(f)' /\ ~Entering(f)'
      /\ files'[f].dev = d /\ files'[f].kind = k /\ files'[f].live
  BY DEF Counted, FilesOf, CountedFile
<1>2. ~Entering(f)
  BY <1>1
<1>3. /\ IsOpen(f) /\ files'[f].dev = files[f].dev
      /\ files'[f].kind = files[f].kind /\ (files'[f].live => files[f].live)
  BY <1>1
<1> QED
  BY <1>1, <1>2, <1>3 DEF Counted, FilesOf, CountedFile

LEMMA CountsKept ==
  ASSUME EventsTypeOK, OpenCountCoversFiles, UNCHANGED opens,
         \A d, k : Counted(d, k)' \subseteq Counted(d, k)
  PROVE  OpenCountCoversFiles'
<1> SUFFICES ASSUME NEW d \in Devs, NEW k \in FileKinds
             PROVE  opens'[d][k] >= Cardinality(Counted(d, k)')
  BY DEF OpenCountCoversFiles, Counted
<1>1. opens[d][k] >= Cardinality(Counted(d, k))
  BY DEF OpenCountCoversFiles, Counted
<1>2. Cardinality(Counted(d, k)') <= Cardinality(Counted(d, k))
  BY CountedFinite, FS_Subset
<1>3. opens[d][k] \in Int
  BY DEF EventsTypeOK
<1> QED
  BY <1>1, <1>2, <1>3, CountedFinite, CountedFinitePrime

\* The step that the open callbacks make.
LEMMA CountOpenStep ==
  ASSUME EventsTypeOK, CallsInv, OpenCountCoversFiles, NEW t \in Threads, CountOpen(t)
  PROVE  EventsTypeOK' /\ CallsInv' /\ OpenCountCoversFiles'
<1>1. PICK f \in Fds : calls[t].on = {f} /\ IsOpen(f)
  BY DEF CountOpen, CallsInv
<1> DEFINE d0 == files[f].dev
           k0 == files[f].kind
           late == OnItsWay(d0, k0)
<1>2. /\ calls[t].at = "entered" /\ calls' = [calls EXCEPT ![t].at = "counted"]
      /\ opens' = [opens EXCEPT ![d0][k0] = @ + 1]
      /\ files' = [files EXCEPT ![f].owed = late]
      /\ UNCHANGED <<udd, held, phase, enabled, irqh, due, relay, counter>>
  BY <1>1 DEF CountOpen, deviceVars, irqVars
<1>3. files[f] \in File
  BY <1>1, OpenFileIsFile
<1>4. d0 \in Devs /\ k0 \in FileKinds
  BY <1>3 DEF File
<1>5. late \in BOOLEAN
  BY <1>4 DEF OnItsWay, ByRelay, ByHandler, EventsTypeOK
<1> HIDE DEF late
<1>6. files' \in [Fds -> Opened] /\ \A g \in Fds : SameFile(files', g)
  BY <1>1, <1>2, <1>5, OwedUpdate
<1> HIDE DEF d0, k0
<1>7. /\ opens' \in [Devs -> [FileKinds -> Int]] /\ opens'[d0][k0] = opens[d0][k0] + 1
      /\ \A d \in Devs, k \in FileKinds : d # d0 \/ k # k0 => opens'[d][k] = opens[d][k]
  BY <1>2, <1>4 DEF EventsTypeOK
<1>8. /\ calls' \in [Threads -> Call]
      /\ calls'[t].at = "counted" /\ calls'[t].op = calls[t].op
      /\ calls'[t].todo = calls[t].todo
      /\ calls'[t].on = calls[t].on /\ \A u \in Threads \ {t} : calls'[u] = calls[u]
  <2> DEFINE c == [calls[t] EXCEPT !.at = "counted"]
  <2>1. /\ c \in Call /\ c.at = "counted" /\ c.op = calls[t].op
        /\ c.on = calls[t].on /\ c.todo = calls[t].todo
    BY CallUpdate DEF Call
  <2>2. calls' = [calls EXCEPT ![t] = c]
    BY <1>2
  <2> HIDE DEF c
  <2> QED
    BY <2>1, <2>2 DEF EventsTypeOK
<1>9. EventsTypeOK'
  BY <1>2, <1>6, <1>7, <1>8 DEF EventsTypeOK, Opened
<1>10. \A g \in Fds : IsOpen(g) => IsOpen(g)'
  BY <1>6 DEF SameFile, IsOpen
<1>11. CallsInv'
  <2>1. calls[t].op = "open"
    BY <1>2 DEF CallsInv
  <2> QED
    BY <1>8, <1>10, <2>1, CallGoesOn
<1>12. \A g \in Fds : g # f /\ Entering(g) => Entering(g)'
  BY <1>1, <1>8 DEF Entering
<1>13. \A d, k : Counted(d, k)' \subseteq Counted(d, k) \cup {f}
  BY <1>6, <1>12 DEF Counted, FilesOf, CountedFile, IsOpen, SameFile
<1>14. \A d, k : d # d0 \/ k # k0 => f \notin Counted(d, k)'
  BY <1>1, <1>6 DEF Counted, FilesOf, SameFile, d0, k0
<1>15. ASSUME NEW d \in Devs, NEW k \in FileKinds
       PROVE  opens'[d][k] >= Cardinality(Counted(d, k)')
  <2>1. opens[d][k] >= Cardinality(Counted(d, k)) /\ opens[d][k] \in Int
    BY DEF OpenCountCoversFiles, Counted, EventsTypeOK
  <2>2. CASE d = d0 /\ k = k0
    <3>1. /\ IsFiniteSet(Counted(d, k) \cup {f})
          /\ Cardinality(Counted(d, k) \cup {f}) <= Cardinality(Counted(d, k)) + 1
      BY CountedFinite, FS_AddElement
    <3>2. Cardinality(Counted(d, k)') <= Cardinality(Counted(d, k) \cup {f})
      BY <1>13, <3>1, FS_Subset
    <3>3. Cardinality(Counted(d, k) \cup {f}) \in Nat
      BY <3>1, FS_CardinalityType
    <3> QED
      BY <1>7, <2>1, <2>2, <3>1, <3>2, <3>3, CountedFinite, CountedFinitePrime
  <2>3. CASE d # d0 \/ k # k0
    <3>1. Counted(d, k)' \subseteq Counted(d, k)
      BY <1>13, <1>14, <2>3
    <3>2. Cardinality(Counted(d, k)') <= Cardinality(Counted(d, k))
      BY <3>1, CountedFinite, FS_Subset
    <3> QED
      BY <1>7, <2>1, <2>3, <3>2, CountedFinite, CountedFinitePrime
  <2> QED
    BY <2>2, <2>3
<1> QED
  BY <1>9, <1>11, <1>15 DEF OpenCountCoversFiles, Counted

\* Irqcontrol() writes the switch of one device.
LEMMA IrqcontrolKeepsTypes ==
  ASSUME EventsTypeOK, NEW f \in Fds, IsOpen(f), NEW on \in BOOLEAN, Irqcontrol(f, on)
  PROVE  enabled' \in [Devs -> BOOLEAN]
<1>1. files[f].dev \in Devs
  BY OpenFileIsFile DEF File
<1> QED
  BY <1>1 DEF Irqcontrol, EventsTypeOK

\* What is shared by the steps that leave the opening of files alone.
LEMMA SameFilesKeep ==
  ASSUME EventsTypeOK, CallsInv, OpenCountCoversFiles, UNCHANGED opens,
         \A f \in Fds : SameFile(files', f),
         \A u \in Threads : calls[u].at = "entered" =>
                               calls'[u].at = "entered" /\ calls'[u].on = calls[u].on
  PROVE  /\ OpenCountCoversFiles'
         /\ \A f \in Fds : IsOpen(f) => IsOpen(f)'
<1>1. \A f \in Fds : Entering(f) => Entering(f)'
  BY DEF Entering
<1>2. \A f \in Fds : IsOpen(f) <=> IsOpen(f)'
  BY DEF SameFile, IsOpen
<1>3. \A f \in Fds : IsOpen(f)' =>
        /\ IsOpen(f) /\ files'[f].dev = files[f].dev
        /\ files'[f].kind = files[f].kind /\ (files'[f].live => files[f].live)
  BY <1>2 DEF SameFile
<1>4. \A d, k : Counted(d, k)' \subseteq Counted(d, k)
  BY <1>1, <1>3, FewerCounted
<1> QED
  BY <1>2, <1>4, CountsKept

LEMMA OpenDisableStep ==
  ASSUME EventsTypeOK, CallsInv, OpenCountCoversFiles, NEW t \in Threads, OpenDisable(t)
  PROVE  EventsTypeOK' /\ CallsInv' /\ OpenCountCoversFiles'
<1>1. PICK f \in calls[t].on :
         /\ Irqcontrol(f, FALSE)
         /\ files' = [files EXCEPT ![f].quiet = files[f].live /\ files[f].dev \in Maskable]
  BY DEF OpenDisable
<1>2. f \in Fds /\ IsOpen(f)
  BY CallUpdate DEF CallsInv
<1>3. /\ calls[t].at = "counted" /\ calls' = [calls EXCEPT ![t].at = "selecting"]
      /\ UNCHANGED <<udd, held, phase, irqh, due, relay, counter, opens>>
  BY DEF OpenDisable, deviceVars
<1>4. enabled' \in [Devs -> BOOLEAN]
  BY <1>1, <1>2, IrqcontrolKeepsTypes
<1>5. files' \in [Fds -> Opened] /\ \A g \in Fds : SameFile(files', g)
  <2> DEFINE b == files[f].live /\ files[f].dev \in Maskable
  <2>1. b \in BOOLEAN
    OBVIOUS
  <2>2. files' = [files EXCEPT ![f].quiet = b]
    BY <1>1
  <2> HIDE DEF b
  <2> QED
    BY <1>2, <2>1, <2>2, OwedUpdate
<1>6. /\ calls' \in [Threads -> Call]
      /\ calls'[t].at = "selecting" /\ calls'[t].op = calls[t].op
      /\ calls'[t].todo = calls[t].todo
      /\ calls'[t].on = calls[t].on /\ \A u \in Threads \ {t} : calls'[u] = calls[u]
  <2> DEFINE c == [calls[t] EXCEPT !.at = "selecting"]
  <2>1. /\ c \in Call /\ c.at = "selecting" /\ c.op = calls[t].op
        /\ c.on = calls[t].on /\ c.todo = calls[t].todo
    BY CallUpdate DEF Call
  <2>2. calls' = [calls EXCEPT ![t] = c]
    BY <1>3
  <2> HIDE DEF c
  <2> QED
    BY <2>1, <2>2 DEF EventsTypeOK
<1>7. EventsTypeOK'
  BY <1>3, <1>4, <1>5, <1>6 DEF EventsTypeOK, Opened
<1>8. OpenCountCoversFiles' /\ \A g \in Fds : IsOpen(g) => IsOpen(g)'
  BY <1>3, <1>5, <1>6, SameFilesKeep
<1> QED
  BY <1>6, <1>7, <1>8, CallGoesOn

LEMMA ReadStep ==
  ASSUME EventsTypeOK, CallsInv, OpenCountCoversFiles,
         NEW t \in Threads, NEW f \in Fds, Read(t, f)
  PROVE  EventsTypeOK' /\ CallsInv' /\ OpenCountCoversFiles'
<1>1. /\ calls[t].at = "reading" /\ f \in calls[t].todo /\ files' = Reported(f)
      /\ \/ calls' = [calls EXCEPT ![t] = NoCall]
         \/ calls' = [calls EXCEPT ![t].todo = @ \ {f}]
      /\ UNCHANGED <<udd, held, phase, enabled, irqh, due, relay, counter, opens>>
  BY DEF Read, Reading, Return, deviceVars, irqVars
<1>2. f \in Fds /\ IsOpen(f)
  BY <1>1 DEF CallsInv
<1>3. files' \in [Fds -> Opened] /\ \A g \in Fds : SameFile(files', g)
  BY <1>1, <1>2, EventsAssumption, ReportedKeepsFiles
<1>4. calls[t].todo \ {f} \in SUBSET Fds
  BY CallUpdate
<1>5. /\ calls' \in [Threads -> Call] /\ \A u \in Threads \ {t} : calls'[u] = calls[u]
      /\ \/ calls'[t] = NoCall
         \/ /\ calls'[t].op = calls[t].op /\ calls'[t].on = calls[t].on
            /\ calls'[t].at = "reading"
            /\ calls'[t].todo \subseteq calls[t].todo
  <2>1. CASE calls' = [calls EXCEPT ![t] = NoCall]
    BY <2>1, CallUpdate DEF EventsTypeOK
  <2>2. CASE calls' = [calls EXCEPT ![t].todo = @ \ {f}]
    <3> DEFINE c == [calls[t] EXCEPT !.todo = @ \ {f}]
    <3>1. /\ c \in Call /\ c.at = "reading" /\ c.op = calls[t].op
          /\ c.on = calls[t].on /\ c.todo = calls[t].todo \ {f}
      BY <1>1, <1>4, CallUpdate DEF Call
    <3>2. calls' = [calls EXCEPT ![t] = c]
      BY <2>2
    <3> HIDE DEF c
    <3> QED
      BY <3>1, <3>2 DEF EventsTypeOK
  <2> QED
    BY <1>1, <2>1, <2>2
<1>6. EventsTypeOK'
  BY <1>1, <1>3, <1>5 DEF EventsTypeOK, Opened
<1>7. OpenCountCoversFiles' /\ \A g \in Fds : IsOpen(g) => IsOpen(g)'
  BY <1>1, <1>3, <1>5, SameFilesKeep
<1> QED
  BY <1>5, <1>6, <1>7, CallGoesOn

LEMMA OpenStep ==
  ASSUME EventsTypeOK, CallsInv, OpenCountCoversFiles, NEW t \in Threads,
         NEW f \in Fds, NEW d \in Devs, NEW k \in FileKinds, Open(t, f, d, k)
  PROVE  EventsTypeOK' /\ CallsInv' /\ OpenCountCoversFiles'
<1> DEFINE h == [dev |-> d, kind |-> k, live |-> TRUE,
                 seen |-> IF k = "uio" THEN counter[d][k] ELSE 0,
                 unseen |-> IF k = "uio" THEN 0 ELSE counter[d][k],
                 owed |-> FALSE, quiet |-> FALSE]
           c == [op |-> "open", at |-> "entered", on |-> {f}, todo |-> {}]
<1>1. /\ calls[t] = NoCall /\ ~IsOpen(f)
      /\ files' = [files EXCEPT ![f] = h] /\ calls' = [calls EXCEPT ![t] = c]
      /\ UNCHANGED <<udd, held, phase, enabled, irqh, due, relay, counter, opens>>
  BY DEF Open, Idle, deviceVars, irqVars
<1>2. h \in File
  <2>1. /\ counter[d][k] \in 0 .. CountMod - 1 /\ counter[d][k] \in 0 .. CountMod
        /\ 0 \in 0 .. CountMod - 1 /\ 0 \in 0 .. CountMod
    BY EventsAssumption DEF EventsTypeOK, EventsAssumption
  <2> QED
    BY <2>1 DEF File
<1>3. /\ c \in Call /\ c.op = "open" /\ c.at = "entered"
      /\ c.on = {f} /\ c.todo = {}
  BY DEF Call
<1> HIDE DEF h, c
<1>4. EventsTypeOK'
  BY <1>1, <1>2, <1>3 DEF EventsTypeOK
<1>5. calls'[t] = c /\ \A u \in Threads \ {t} : calls'[u] = calls[u]
  BY <1>1 DEF EventsTypeOK
<1>6. files'[f] = h /\ IsOpen(f)' /\ \A g \in Fds \ {f} : files'[g] = files[g]
  BY <1>1, <1>2, NullAssumption DEF EventsTypeOK, IsOpen
<1>7. \A g \in Fds \ {f} : IsOpen(g)' <=> IsOpen(g)
  BY <1>6 DEF IsOpen
<1>8. \A u \in Threads : f \notin calls[u].on /\ calls[u].on \subseteq Fds
  BY <1>1, CallUpdate DEF CallsInv
<1>9. CallsInv'
  <2>1. NoCall.on = {} /\ NoCall.op = "none" /\ NoCall.at = "idle"
    BY DEF NoCall
  <2>2. ASSUME NEW u \in Threads \ {t}
        PROVE  /\ calls'[u].at \in {"entered", "counted"} => calls'[u].op = "open"
               /\ calls'[u].op = "open" => \E g \in Fds : calls'[u].on = {g}
               /\ \A g \in calls'[u].on : IsOpen(g)'
               /\ calls'[u].todo \subseteq calls'[u].on
               /\ calls'[u].op = "open" =>
                    \A v \in Threads \ {u} : calls'[u].on \cap calls'[v].on = {}
    BY <1>3, <1>5, <1>7, <1>8, <2>2 DEF CallsInv
  <2>3. /\ \E g \in Fds : calls'[t].on = {g}
        /\ \A g \in calls'[t].on : IsOpen(g)'
        /\ \A v \in Threads \ {t} : calls'[t].on \cap calls'[v].on = {}
    BY <1>3, <1>5, <1>6, <1>8
  <2> QED
    BY <1>3, <1>5, <2>2, <2>3 DEF CallsInv
<1>10. Entering(f)' /\ \A g \in Fds : Entering(g) => Entering(g)'
  <2>1. calls[t].at # "entered"
    BY <1>1 DEF NoCall
  <2> QED
    BY <1>3, <1>5, <2>1 DEF Entering
<1>11. \A d1, k1 : Counted(d1, k1)' \subseteq Counted(d1, k1)
  BY <1>6, <1>7, <1>10, FewerCounted
<1> QED
  BY <1>1, <1>4, <1>9, <1>11, CountsKept

LEMMA ControlStep ==
  ASSUME EventsTypeOK, CallsInv, OpenCountCoversFiles, NEW t \in Threads,
         NEW f \in Fds, NEW on \in BOOLEAN, Control(t, f, on)
  PROVE  EventsTypeOK' /\ CallsInv' /\ OpenCountCoversFiles'
<1>1. /\ IsOpen(f) /\ Irqcontrol(f, on)
      /\ files' = [g \in Fds |->
           IF on /\ IsOpen(g) /\ files[g].dev = files[f].dev
           THEN [files[g] EXCEPT !.quiet = FALSE] ELSE files[g]]
      /\ UNCHANGED <<udd, held, phase, irqh, due, relay, counter, opens, calls>>
  BY DEF Control, Usable, deviceVars
<1>2. enabled' \in [Devs -> BOOLEAN]
  BY <1>1, IrqcontrolKeepsTypes
<1>3. \A h \in File :
        /\ [h EXCEPT !.quiet = FALSE] \in File
        /\ [h EXCEPT !.quiet = FALSE].dev = h.dev
        /\ [h EXCEPT !.quiet = FALSE].kind = h.kind
        /\ [h EXCEPT !.quiet = FALSE].live = h.live
  BY DEF File
<1>4. ASSUME NEW g \in Fds
      PROVE  files'[g] \in Opened /\ SameFile(files', g)
  <2>1. CASE on /\ IsOpen(g) /\ files[g].dev = files[f].dev
    <3>1. files[g] \in File /\ files'[g] = [files[g] EXCEPT !.quiet = FALSE]
      BY <1>1, <2>1, OpenFileIsFile
    <3> QED
      BY <1>3, <2>1, <3>1, NullAssumption DEF SameFile, Opened
  <2>2. CASE ~(on /\ IsOpen(g) /\ files[g].dev = files[f].dev)
    BY <1>1, <2>2 DEF SameFile, Opened, IsOpen, EventsTypeOK
  <2> QED
    BY <2>1, <2>2
<1>5. files' \in [Fds -> Opened]
  BY <1>1, <1>4
<1>6. EventsTypeOK'
  BY <1>1, <1>2, <1>5 DEF EventsTypeOK, Opened
<1>7. OpenCountCoversFiles' /\ \A g \in Fds : IsOpen(g) => IsOpen(g)'
  BY <1>1, <1>4, SameFilesKeep
<1>8. \A u \in Threads : calls[u].on \subseteq Fds
  BY CallUpdate
<1>9. CallsInv'
  BY <1>1, <1>7, <1>8 DEF CallsInv
<1> QED
  BY <1>6, <1>7, <1>9

LEMMA CloseStep ==
  ASSUME EventsTypeOK, CallsInv, OpenCountCoversFiles, NEW t \in Threads,
         NEW f \in Fds, Close(t, f)
  PROVE  EventsTypeOK' /\ CallsInv' /\ OpenCountCoversFiles'
<1> DEFINE d0 == files[f].dev
           k0 == files[f].kind
<1>1. /\ IsOpen(f) /\ \A u \in Threads : f \notin calls[u].on
      /\ opens' = IF files[f].live THEN [opens EXCEPT ![d0][k0] = @ - 1] ELSE opens
      /\ files' = [files EXCEPT ![f] = NULL]
      /\ UNCHANGED <<udd, held, phase, enabled, irqh, due, relay, counter, calls>>
  BY DEF Close, Usable, Busy, CountClosed, deviceVars, irqVars
<1>2. files[f] \in File /\ d0 \in Devs /\ k0 \in FileKinds
  BY <1>1, OpenFileIsFile DEF File
<1>3. ~IsOpen(f)' /\ \A g \in Fds \ {f} : files'[g] = files[g] /\ (IsOpen(g)' <=> IsOpen(g))
  BY <1>1 DEF IsOpen, EventsTypeOK
<1>4. EventsTypeOK'
  BY <1>1, <1>2 DEF EventsTypeOK
<1>5. CallsInv'
  <2>1. \A u \in Threads : calls[u].on \subseteq Fds
    BY CallUpdate
  <2>2. \A u \in Threads : \A g \in calls[u].on : g # f /\ IsOpen(g)
    BY <1>1 DEF CallsInv
  <2>3. \A u \in Threads : \A g \in calls[u].on : IsOpen(g)'
    BY <1>3, <2>1, <2>2
  <2> QED
    BY <1>1, <2>3 DEF CallsInv
<1>6. \A g \in Fds : Entering(g)' <=> Entering(g)
  BY <1>1 DEF Entering
<1>7. ~Entering(f)
  BY <1>1 DEF Entering
<1>8. \A d, k : Counted(d, k)' \subseteq Counted(d, k)
  BY <1>3, <1>6, FewerCounted
<1>9. \A d, k : f \notin Counted(d, k)'
  BY <1>3 DEF Counted, FilesOf
<1>10. files[f].live => f \in Counted(d0, k0)
  BY <1>1, <1>7 DEF Counted, FilesOf, CountedFile
<1> HIDE DEF d0, k0
<1>11. CASE ~files[f].live
  BY <1>1, <1>4, <1>5, <1>8, <1>11, CountsKept
<1>12. CASE files[f].live
  <2>1. /\ opens'[d0][k0] = opens[d0][k0] - 1
        /\ \A d \in Devs, k \in FileKinds : d # d0 \/ k # k0 => opens'[d][k] = opens[d][k]
    BY <1>1, <1>2, <1>12 DEF EventsTypeOK
  <2>2. ASSUME NEW d \in Devs, NEW k \in FileKinds
        PROVE  opens'[d][k] >= Cardinality(Counted(d, k)')
    <3>1. opens[d][k] >= Cardinality(Counted(d, k)) /\ opens[d][k] \in Int
      BY DEF OpenCountCoversFiles, Counted, EventsTypeOK
    <3>2. CASE d = d0 /\ k = k0
      <4>1. /\ IsFiniteSet(Counted(d, k) \ {f})
            /\ Cardinality(Counted(d, k) \ {f}) = Cardinality(Counted(d, k)) - 1
        BY <1>10, <1>12, <3>2, CountedFinite, FS_RemoveElement
      <4>2. Counted(d, k)' \subseteq Counted(d, k) \ {f}
        BY <1>8, <1>9
      <4>3. Cardinality(Counted(d, k)') <= Cardinality(Counted(d, k) \ {f})
        BY <4>1, <4>2, FS_Subset
      <4> QED
        BY <2>1, <3>1, <3>2, <4>1, <4>3, CountedFinite, CountedFinitePrime
    <3>3. CASE d # d0 \/ k # k0
      <4>1. Cardinality(Counted(d, k)') <= Cardinality(Counted(d, k))
        BY <1>8, CountedFinite, FS_Subset
      <4> QED
        BY <2>1, <3>1, <3>3, <4>1, CountedFinite, CountedFinitePrime
    <3> QED
      BY <3>2, <3>3
  <2> QED
    BY <1>4, <1>5, <2>2 DEF OpenCountCoversFiles, Counted
<1> QED
  BY <1>11, <1>12

-----------------------------------------------------------------------------
(* The theorems *)

EventsInv == EventsTypeOK /\ LadderInv /\ CallsInv /\ OpenCountCoversFiles

LEMMA EventsInvInit == EventsInit => EventsInv
<1> SUFFICES ASSUME EventsInit  PROVE  EventsInv
  OBVIOUS
<1>1. EventsTypeOK /\ LadderInv
  BY StartsRight
<1>2. NoCall.on = {} /\ NoCall.todo = {} /\ NoCall.op = "none" /\ NoCall.at = "idle"
  BY DEF NoCall
<1>3. CallsInv
  BY <1>2 DEF EventsInit, CallsInv
<1>4. \A d, k : Counted(d, k) = {}
  BY DEF EventsInit, Counted, FilesOf, IsOpen
<1>5. \A d \in Devs, k \in FileKinds : opens[d][k] = 0 /\ Cardinality(Counted(d, k)) = 0
  BY <1>4, FS_EmptySet DEF EventsInit
<1>6. OpenCountCoversFiles
  BY <1>5 DEF OpenCountCoversFiles, Counted
<1> QED
  BY <1>1, <1>3, <1>6 DEF EventsInv

LEMMA EventsInvStep == EventsInv /\ [EventsNext]_eventsVars => EventsInv'
<1> SUFFICES ASSUME EventsInv, [EventsNext]_eventsVars  PROVE  EventsInv'
  OBVIOUS
<1> USE DEF EventsInv
<1>1. LadderInv'
  BY LadderStep
<1>2. ASSUME UNCHANGED <<opens, calls>>, EventsTypeOK',
             \A f \in Fds : /\ IsOpen(f)' <=> IsOpen(f)
                            /\ IsOpen(f) => /\ files'[f].dev = files[f].dev
                                            /\ files'[f].kind = files[f].kind
                                            /\ files'[f].live => files[f].live
      PROVE  EventsInv'
  <2>1. \A f \in Fds : Entering(f)' <=> Entering(f)
    BY <1>2 DEF Entering
  <2>2. \A d, k : Counted(d, k)' \subseteq Counted(d, k)
    BY <1>2, <2>1, FewerCounted
  <2>3. OpenCountCoversFiles'
    BY <1>2, <2>2, CountsKept
  <2>4. \A u \in Threads : calls[u].on \subseteq Fds
    BY CallUpdate
  <2>5. CallsInv'
    BY <1>2, <2>4 DEF CallsInv
  <2> QED
    BY <1>1, <1>2, <2>3, <2>5
<1>3. ASSUME NEW d \in Devs,
             \/ RegisterBegin(d) \/ UnregisterBegin(d) \/ RegisterStep(d) \/ RegisterFails(d)
      PROVE  EventsInv'
  <2>1. EventsTypeOK' /\ UNCHANGED <<opens, files, calls>>
    BY <1>3, DeviceKeepsTypes
  <2> QED
    BY <1>2, <2>1 DEF IsOpen
<1>4. ASSUME NEW d \in Devs, CleanupStep(d)
      PROVE  EventsInv'
  BY <1>2, <1>4, CleanupKeepsTypes
<1>5. ASSUME NEW d \in Devs,
             \/ InterruptStep(d) \/ NotifyStep(d) \/ Relay(d)
             \/ InterruptRegister(d) \/ InterruptUnregister(d)
      PROVE  EventsInv'
  <2>1. /\ EventsTypeOK' /\ UNCHANGED <<opens, calls>>
        /\ \A f \in Fds : SameFile(files', f)
    BY <1>5, InterruptKeepsTypes
  <2>2. \A f \in Fds : IsOpen(f)' <=> IsOpen(f)
    BY <2>1 DEF SameFile, IsOpen
  <2> QED
    BY <1>2, <2>1, <2>2 DEF SameFile
<1>6. ASSUME NEW t \in Threads, CallStep(t)
      PROVE  EventsInv'
  <2>1. CASE CountOpen(t)
    BY <1>1, <2>1, CountOpenStep
  <2>2. CASE OpenDisable(t)
    BY <1>1, <2>2, OpenDisableStep
  <2>3. CASE \E f \in Fds : Read(t, f)
    BY <1>1, <2>3, ReadStep
  <2>4. CASE Select(t) \/ Timeout(t) \/ \E f \in Fds : ReadFails(t, f)
    <3>1. /\ EventsTypeOK' /\ CallsInv' /\ UNCHANGED <<opens, files>>
          /\ \A u \in Threads : calls[u].at = "entered" =>
                  calls'[u].at = "entered" /\ calls'[u].on = calls[u].on
      BY <2>4, CallsOnly
    <3>2. \A f \in Fds : SameFile(files', f)
      BY <3>1 DEF SameFile, IsOpen
    <3> QED
      BY <1>1, <3>1, <3>2, SameFilesKeep
  <2> QED
    BY <1>6, <2>1, <2>2, <2>3, <2>4 DEF CallStep
<1>7. ASSUME NEW t \in Threads, NewCall(t)
      PROVE  EventsInv'
  <2>1. CASE \E f \in Fds, d \in Devs, k \in FileKinds : Open(t, f, d, k)
    BY <1>1, <2>1, OpenStep
  <2>2. CASE \E f \in Fds : Close(t, f)
    BY <1>1, <2>2, CloseStep
  <2>3. CASE \E f \in Fds, on \in BOOLEAN : Control(t, f, on)
    BY <1>1, <2>3, ControlStep
  <2>4. CASE (\E f \in Fds : Wait(t, f)) \/ \E S \in SUBSET Fds : TimedWait(t, S)
    <3>1. /\ EventsTypeOK' /\ CallsInv' /\ UNCHANGED <<opens, files>>
          /\ \A u \in Threads : calls[u].at = "entered" =>
                  calls'[u].at = "entered" /\ calls'[u].on = calls[u].on
      BY <2>4, CallsOnly
    <3>2. \A f \in Fds : SameFile(files', f)
      BY <3>1 DEF SameFile, IsOpen
    <3> QED
      BY <1>1, <3>1, <3>2, SameFilesKeep
  <2> QED
    BY <1>7, <2>1, <2>2, <2>3, <2>4 DEF NewCall
<1>8. CASE UNCHANGED eventsVars
  <2>1. EventsTypeOK' /\ UNCHANGED <<opens, files, calls>>
    BY <1>8 DEF eventsVars, deviceVars, irqVars, EventsTypeOK
  <2> QED
    BY <1>2, <2>1 DEF IsOpen
<1> QED
  BY <1>3, <1>4, <1>5, <1>6, <1>7, <1>8 DEF EventsNext, DeviceStep

\* Counters, flags, files and calls stay within their types, whatever devices,
\* interrupts and threads do; a read or a count never meets a closed descriptor.
THEOREM EventsTypesCorrect == EventsSpec => []EventsTypeOK
<1>1. EventsInv => EventsTypeOK
  BY DEF EventsInv
<1> QED
  BY <1>1, EventsInvInit, EventsInvStep, PTL DEF EventsSpec

\* The order of cuddlk_device_register() and cuddlk_cleanup(): no signal is pending, or
\* about to be pended by an interrupt, for a device that has lost the signal or the UIO device it notifies.
THEOREM RelaysHaveTheirDevice == EventsSpec => []RelayHasItsDevice
<1>1. EventsInv => RelayHasItsDevice
  <2>1. udd => {"sig", "uio"} \subseteq AllRungs
    BY DEF AllRungs
  <2> QED
    BY <2>1 DEF EventsInv, LadderInv, RelayHasItsDevice
<1> QED
  BY <1>1, EventsInvInit, EventsInvStep, PTL DEF EventsSpec

\* uio_open_count and udd_open_count are never below the number of files whose open has
\* returned and whose device is there, through registrations, failures and closes.
THEOREM OpenCountsCoverFiles == EventsSpec => []OpenCountCoversFiles
<1>1. EventsInv => OpenCountCoversFiles
  BY DEF EventsInv
<1> QED
  BY <1>1, EventsInvInit, EventsInvStep, PTL DEF EventsSpec
==============================================================================
