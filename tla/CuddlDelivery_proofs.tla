-------------------------- MODULE CuddlDelivery_proofs --------------------------
(***************************************************************************)
(* Proofs about the delivery of events, for any number of devices, files   *)
(* and threads and any width of the event counters: no event is lost, none *)
(* is made up, opening is quiet, calls with a timeout do not block, and    *)
(* all steps together implement the abstract delivery of CuddlNotices.     *)
(***************************************************************************)
EXTENDS CuddlEvents_proofs

\* An open file of a device that is there.
Served(f) == IsOpen(f) /\ files[f].live

\* The counter is as far from what the file has seen as it has been notified.
InStep(h) ==
  h.unseen < CountMod =>
    \/ counter[h.dev][h.kind] = h.seen + h.unseen
    \/ counter[h.dev][h.kind] = h.seen + h.unseen - CountMod

\* How many notices are on their way to f.
NoticesOf(f) == NoticesFor(files[f].dev, files[f].kind)

\* One served file.  What it is owed has been notified or is on its way, until its device
\* goes; what it can read it is owed, once its open is done.  While the interrupt stays
\* disabled, what has arrived and what is on its way come to no more than was on its way
\* when the open returned.
FileGood(f) ==
  LET h == files[f]
  IN  /\ h.kind \in held[h.dev]
      /\ InStep(h)
      /\ CountedFile(f) /\ phase[h.dev] # "cleanup" /\ h.owed =>
           h.unseen > 0 \/ NoticesOf(f) > 0
      /\ ~Opening(f) /\ Readable(f) => h.owed
      /\ CountedFile(f) /\ NoticesOf(f) > 0 => h.owed
      /\ h.quiet => h.dev \in Maskable /\ ~enabled[h.dev]
      /\ h.quiet /\ ~Opening(f) /\ h.unseen < CountMod =>
           h.unseen + NoticesOf(f) <= IF h.kind = OwnKind THEN 1 ELSE 2

FilesGood == \A f \in Fds : Served(f) => FileGood(f)

\* Calls are about files of their own threads, and a read that comes after select() finds
\* what select() found, unless the file is shared.
CallsGood ==
  \A t \in Threads :
    /\ \A f \in calls[t].on : t \in UsersOf[f]
    /\ calls[t].op # "wait" /\ calls[t].at = "reading" =>
         \A f \in calls[t].todo :
           UsersOf[f] = {t} => files[f].unseen > 0 \/ ~files[f].live

DeliveryInv == EventsInv /\ FilesGood /\ CallsGood

-----------------------------------------------------------------------------
(* Counters *)

LEMMA IncValue ==
  \A n \in 0 .. CountMod - 1 : Inc(n) = IF n = CountMod - 1 THEN 0 ELSE n + 1
<1> SUFFICES ASSUME NEW n \in 0 .. CountMod - 1
             PROVE  Inc(n) = IF n = CountMod - 1 THEN 0 ELSE n + 1
  OBVIOUS
<1>1. CountMod \in Nat /\ CountMod > 1
  BY EventsAssumption DEF EventsAssumption
<1>2. CASE n = CountMod - 1
  <2>1. CountMod % CountMod = 0
    BY <1>1
  <2> QED
    BY <1>1, <1>2, <2>1 DEF Inc
<1>3. CASE n # CountMod - 1
  <2>1. n + 1 \in 0 .. CountMod - 1
    BY <1>1, <1>3
  <2>2. \A i \in 0 .. CountMod - 1 : i % CountMod = i
    BY <1>1
  <2> QED
    BY <1>3, <2>1, <2>2 DEF Inc
<1> QED
  BY <1>2, <1>3

\* Fewer unread notifications than CountMod are told from none.
LEMMA ReadableWhenUnseen ==
  ASSUME EventsTypeOK, NEW f \in Fds, Served(f), InStep(files[f])
  PROVE  /\ Readable(f) => files[f].unseen > 0
         /\ files[f].unseen > 0 /\ files[f].unseen < CountMod => Readable(f)
<1> DEFINE h == files[f]
           n == counter[h.dev][h.kind]
<1>1. h \in File
  BY OpenFileIsFile DEF Served
<1>2. /\ h.dev \in Devs /\ h.kind \in FileKinds
      /\ h.seen \in 0 .. CountMod - 1 /\ h.unseen \in 0 .. CountMod
  BY <1>1 DEF File
<1>3. n \in 0 .. CountMod - 1
  BY <1>2 DEF EventsTypeOK
<1>4. CountMod \in Nat /\ CountMod > 1
  BY EventsAssumption DEF EventsAssumption
<1>5. h.unseen < CountMod => n = h.seen + h.unseen \/ n = h.seen + h.unseen - CountMod
  BY DEF InStep
<1>6. Readable(f) <=> h.seen # n
  BY DEF Readable, Served
<1> HIDE DEF h, n
<1>7. h.seen # n => h.unseen > 0
  BY <1>2, <1>3, <1>4, <1>5
<1>8. h.unseen > 0 /\ h.unseen < CountMod => h.seen # n
  BY <1>2, <1>3, <1>4, <1>5
<1> QED
  BY <1>6, <1>7, <1>8 DEF h

\* One more notification keeps the counter in step with the file.
LEMMA NotifiedInStep ==
  ASSUME NEW seen \in 0 .. CountMod - 1, NEW unseen \in 0 .. CountMod,
         NEW n \in 0 .. CountMod - 1,
         unseen < CountMod => n = seen + unseen \/ n = seen + unseen - CountMod,
         Capped(unseen) < CountMod
  PROVE  \/ Inc(n) = seen + Capped(unseen)
         \/ Inc(n) = seen + Capped(unseen) - CountMod
<1>1. CountMod \in Nat /\ CountMod > 1
  BY EventsAssumption DEF EventsAssumption
<1>2. unseen < CountMod /\ Capped(unseen) = unseen + 1
  BY <1>1 DEF Capped
<1>3. Inc(n) = IF n = CountMod - 1 THEN 0 ELSE n + 1
  BY IncValue
<1> QED
  BY <1>1, <1>2, <1>3

-----------------------------------------------------------------------------
(* Notices on their way *)

\* Under UDD a UIO file has at most two notices on their way, one that the handler still
\* has to pass on and one relay; a file of the kernel's own kind has one.
LEMMA NoticesBounded ==
  ASSUME EventsTypeOK, LadderInv, NEW f \in Fds, IsOpen(f)
  PROVE  /\ NoticesOf(f) \in 0 .. 2
         /\ files[f].kind = OwnKind => NoticesOf(f) <= 1
         /\ OnItsWay(files[f].dev, files[f].kind) <=> NoticesOf(f) > 0
<1> DEFINE d == files[f].dev
           k == files[f].kind
<1>1. d \in Devs
  BY OpenFileIsFile DEF File
<1>2. k = OwnKind => ~ByRelay(d, k)
  <2>1. relay[d] => "sig" \in held[d] /\ held[d] \in Prefixes
    BY <1>1 DEF LadderInv
  <2>2. relay[d] => udd
    BY <2>1 DEF Prefixes
  <2> QED
    BY <2>2 DEF ByRelay, OwnKind
<1> HIDE DEF d, k
<1>3. /\ NoticesFor(d, k) \in 0 .. 2
      /\ ~ByRelay(d, k) => NoticesFor(d, k) <= 1
      /\ ByRelay(d, k) \/ ByHandler(d, k) <=> NoticesFor(d, k) > 0
  BY DEF NoticesFor
<1> QED
  BY <1>2, <1>3 DEF NoticesOf, OnItsWay, d, k

LEMMA NoticesKept ==
  ASSUME NEW f \in Fds, udd' = udd,
         files'[f].dev = files[f].dev, files'[f].kind = files[f].kind,
         due'[files[f].dev] = due[files[f].dev], relay'[files[f].dev] = relay[files[f].dev]
  PROVE  NoticesOf(f)' = NoticesOf(f)
BY DEF NoticesOf, NoticesFor, ByRelay, ByHandler, OwnKind

-----------------------------------------------------------------------------
(* Files that a step leaves alone *)

LEMMA GoodFileKept ==
  ASSUME EventsTypeOK, LadderInv, NEW f \in Fds, FileGood(f), Served(f),
         files'[f] = files[f], udd' = udd,
         files[f].kind \in held'[files[f].dev],
         counter'[files[f].dev][files[f].kind] = counter[files[f].dev][files[f].kind],
         due'[files[f].dev] = due[files[f].dev], relay'[files[f].dev] = relay[files[f].dev],
         phase'[files[f].dev] # "cleanup" => phase[files[f].dev] # "cleanup",
         files[f].quiet => ~enabled'[files[f].dev],
         Entering(f) => Entering(f)',
         Opening(f) /\ Readable(f) => Opening(f)'
  PROVE  FileGood(f)'
<1>1. Readable(f)' <=> Readable(f)
  BY DEF Readable
<1>2. CountedFile(f)' => CountedFile(f)
  BY DEF CountedFile, IsOpen
<1>3. InStep(files[f])'
  BY DEF InStep, FileGood
<1>4. NoticesOf(f)' = NoticesOf(f)
  BY NoticesKept
<1>5. ~Opening(f)' /\ Readable(f)' => ~Opening(f) /\ Readable(f)
  BY <1>1
\* An open that returns leaves at most what is on its way.
<1>6. ASSUME files[f].quiet, ~Opening(f)', files[f].unseen < CountMod
      PROVE  files[f].unseen + NoticesOf(f) <= IF files[f].kind = OwnKind THEN 1 ELSE 2
  <2>1. CASE ~Opening(f)
    BY <1>6, <2>1 DEF FileGood
  <2>2. CASE Opening(f)
    <3>1. files[f].unseen \in 0 .. CountMod
      BY OpenFileIsFile DEF Served, File
    <3>2. ~(files[f].unseen > 0)
      BY <1>6, <2>2, ReadableWhenUnseen DEF FileGood
    <3>3. CountMod \in Nat
      BY EventsAssumption DEF EventsAssumption
    <3>4. files[f].unseen = 0
      BY <3>1, <3>2, <3>3
    <3> QED
      BY <3>4, NoticesBounded DEF Served
  <2> QED
    BY <2>1, <2>2
<1>7. OwnKind' = OwnKind
  BY DEF OwnKind
<1> QED
  BY <1>2, <1>3, <1>4, <1>5, <1>6, <1>7 DEF FileGood

\* The variables of devices are left alone, and so are files and calls on them.
LEMMA DeliveryKept ==
  ASSUME DeliveryInv, UNCHANGED <<files, calls, counter, due, relay, enabled, udd>>,
         \A d \in Devs : held[d] \subseteq held'[d],
         \A d \in Devs : phase'[d] # "cleanup" => phase[d] # "cleanup"
  PROVE  FilesGood' /\ CallsGood'
<1>1. EventsTypeOK /\ LadderInv
  BY DEF DeliveryInv, EventsInv
<1>2. ASSUME NEW f \in Fds, Served(f)'
      PROVE  FileGood(f)'
  <2>1. Served(f) /\ FileGood(f)
    BY <1>2 DEF Served, IsOpen, DeliveryInv, FilesGood
  <2>2. files[f].dev \in Devs
    BY <1>1, <2>1, OpenFileIsFile DEF Served, File
  <2>3. files[f].quiet => ~enabled'[files[f].dev]
    BY <2>1 DEF FileGood
  <2>4. files[f].kind \in held'[files[f].dev]
    BY <2>1, <2>2 DEF FileGood
  <2>5. Entering(f)' <=> Entering(f)
    BY DEF Entering
  <2>6. Opening(f)' <=> Opening(f)
    BY DEF Opening
  <2> QED
    BY <1>1, <2>1, <2>2, <2>3, <2>4, <2>5, <2>6, GoodFileKept
<1>3. CallsGood'
  BY DEF DeliveryInv, CallsGood
<1> QED
  BY <1>2, <1>3 DEF FilesGood

LEMMA DeviceDelivers ==
  ASSUME DeliveryInv, NEW d \in Devs,
         \/ RegisterBegin(d) \/ UnregisterBegin(d) \/ RegisterStep(d) \/ RegisterFails(d)
  PROVE  FilesGood' /\ CallsGood'
<1>1. EventsTypeOK
  BY DEF DeliveryInv, EventsInv
<1>2. CASE RegisterBegin(d)
  <2>1. phase[d] = "idle"
    BY <1>2 DEF RegisterBegin
  <2> QED
    BY <1>1, <1>2, <2>1, DeliveryKept DEF RegisterBegin, irqVars, EventsTypeOK
<1>3. CASE UnregisterBegin(d)
  BY <1>1, <1>3, DeliveryKept DEF UnregisterBegin, irqVars, EventsTypeOK
<1>4. CASE RegisterStep(d)
  BY <1>1, <1>4, DeliveryKept DEF RegisterStep, irqVars, EventsTypeOK
<1>5. CASE RegisterFails(d)
  BY <1>1, <1>5, DeliveryKept DEF RegisterFails, irqVars, EventsTypeOK
<1> QED
  BY <1>2, <1>3, <1>4, <1>5

\* What is given up has no served files left.
LEMMA CleanupDelivers ==
  ASSUME DeliveryInv, NEW d \in Devs, CleanupStep(d), EventsInv'
  PROVE  FilesGood' /\ CallsGood'
<1> DEFINE r == TopRung(d)
<1>1. EventsTypeOK /\ LadderInv
  BY DEF DeliveryInv, EventsInv
<1>2. /\ UNCHANGED <<udd, enabled, irqh, due, opens, calls>> /\ phase[d] = "cleanup"
      /\ r = "udd" => FilesOf(d, "udd") = {}
      /\ held' = [held EXCEPT ![d] = @ \ {r}]
      /\ phase' = [phase EXCEPT ![d] = IF held[d] = {r} THEN "idle" ELSE @]
      /\ relay' = IF r = "sig" THEN [relay EXCEPT ![d] = FALSE] ELSE relay
      /\ files' = [f \in Fds |-> IF r = "uio" /\ f \in FilesOf(d, "uio")
                                 THEN Detached(f) ELSE files[f]]
      /\ counter' = IF r \in FileKinds THEN [counter EXCEPT ![d][r] = 0] ELSE counter
  BY DEF CleanupStep, Undo, irqVars
<1> HIDE DEF r
<1>3. \A f \in Fds : IsOpen(f) => Detached(f).live = FALSE
  <2> SUFFICES ASSUME NEW f \in Fds, IsOpen(f)  PROVE  Detached(f).live = FALSE
    OBVIOUS
  <2>1. files[f] \in File
    BY <1>1, OpenFileIsFile
  <2> DEFINE g1 == [files[f] EXCEPT !.live = FALSE, !.seen = 0]
             g2 == [g1 EXCEPT !.unseen = 0, !.owed = FALSE]
  <2>2. Detached(f) = [g2 EXCEPT !.quiet = FALSE]
    BY <2>1 DEF Detached, File
  <2>3. g2.live = FALSE
    BY <2>1 DEF File
  <2> HIDE DEF g2
  <2>4. [g2 EXCEPT !.quiet = FALSE].live = g2.live
    OBVIOUS
  <2> QED
    BY <2>2, <2>3, <2>4
<1>4. ASSUME NEW f \in Fds, Served(f)'
      PROVE  FileGood(f)'
  <2>1. /\ files'[f] = files[f] /\ Served(f)
        /\ ~(r = "uio" /\ files[f].dev = d /\ files[f].kind = "uio")
    BY <1>2, <1>3, <1>4 DEF Served, IsOpen, FilesOf
  <2>2. FileGood(f) /\ files[f].dev \in Devs /\ files[f].kind \in FileKinds
    BY <1>1, <2>1, OpenFileIsFile DEF DeliveryInv, FilesGood, Served, File
  <2>3. ~(files[f].dev = d /\ files[f].kind = r)
    BY <1>2, <2>1, <2>2 DEF FilesOf, Served, FileKinds
  <2>4. files[f].kind \in held'[files[f].dev]
    BY <1>1, <1>2, <2>2, <2>3 DEF FileGood, EventsTypeOK
  <2>5. counter'[files[f].dev][files[f].kind] = counter[files[f].dev][files[f].kind]
    BY <1>1, <1>2, <2>2, <2>3 DEF EventsTypeOK
  <2>6. Entering(f)' <=> Entering(f)
    BY <1>2 DEF Entering
  <2>7. Opening(f)' <=> Opening(f)
    BY <1>2 DEF Opening
  <2>8. CASE files[f].dev # d
    <3>1. relay'[files[f].dev] = relay[files[f].dev] /\ phase'[files[f].dev] = phase[files[f].dev]
      BY <1>1, <1>2, <2>2, <2>8 DEF EventsTypeOK
    <3> QED
      BY <1>1, <1>2, <2>1, <2>2, <2>4, <2>5, <2>6, <2>7, <3>1, GoodFileKept DEF FileGood
  <2>9. CASE files[f].dev = d
    \* Until the ladder is down, phase is "cleanup"; with a file left it is not down.
    <3>1. phase'[d] = "cleanup"
      <4>1. held'[d] # {}
        BY <2>4, <2>9
      <4> QED
        BY <1>1, <1>2, <4>1 DEF EventsTypeOK
    <3>2. relay'[d] => relay[d]
      BY <1>1, <1>2 DEF EventsTypeOK
    <3>3. Readable(f)' <=> Readable(f)
      BY <2>1, <2>5 DEF Readable
    <3>4. InStep(files[f])'
      BY <2>1, <2>2, <2>5 DEF InStep, FileGood
    <3>5. CountedFile(f)' <=> CountedFile(f)
      BY <2>1, <2>6 DEF CountedFile, IsOpen
    <3>6. /\ OwnKind' = OwnKind
          /\ NoticesOf(f)' \in Int /\ NoticesOf(f) \in Int /\ NoticesOf(f)' <= NoticesOf(f)
      BY <1>2, <2>1, <2>9, <3>2
         DEF NoticesOf, NoticesFor, ByRelay, ByHandler, OwnKind
    <3>7. files[f].unseen \in Int
      BY <1>1, <2>1, OpenFileIsFile, EventsAssumption DEF Served, File, EventsAssumption
    <3> QED
      BY <1>2, <2>1, <2>2, <2>4, <2>7, <2>9, <3>1, <3>3, <3>4, <3>5, <3>6, <3>7 DEF FileGood
  <2> QED
    BY <2>8, <2>9
<1>5. ASSUME NEW t \in Threads, NEW f \in calls[t].todo,
             files[f].unseen > 0 \/ ~files[f].live
      PROVE  files'[f].unseen > 0 \/ ~files'[f].live
  <2>1. f \in Fds /\ IsOpen(f)
    BY <1>1, CallUpdate DEF DeliveryInv, EventsInv, CallsInv
  <2> QED
    BY <1>2, <1>3, <1>5, <2>1
<1>6. CallsGood'
  BY <1>2, <1>5 DEF DeliveryInv, CallsGood
<1> QED
  BY <1>4, <1>6 DEF FilesGood

-----------------------------------------------------------------------------
(* Notifications *)

LEMMA OwingFields ==
  ASSUME EventsTypeOK, NEW d \in Devs, NEW f \in Fds, IsOpen(f)
  PROVE  LET h == files[f]
             g == Owing(d)[f]
         IN  /\ g.dev = h.dev /\ g.kind = h.kind /\ g.live = h.live
             /\ g.seen = h.seen /\ g.unseen = h.unseen /\ g.quiet = h.quiet
             /\ g.owed = (h.owed \/ (CountedFile(f) /\ h.dev = d /\ h.live))
             /\ h.dev # d => g = h
<1>1. files[f] \in File
  BY OpenFileIsFile
<1>2. CASE CountedFile(f) /\ files[f].dev = d /\ files[f].live
  <2>1. Owing(d)[f] = [files[f] EXCEPT !.owed = TRUE]
    BY <1>2 DEF Owing
  <2> QED
    BY <1>1, <1>2, <2>1 DEF File
<1>3. CASE ~(CountedFile(f) /\ files[f].dev = d /\ files[f].live)
  <2>1. Owing(d)[f] = files[f]
    BY <1>3 DEF Owing
  <2> QED
    BY <1>1, <1>3, <2>1 DEF File
<1> QED
  BY <1>2, <1>3

LEMMA NotifiedFields ==
  ASSUME EventsTypeOK, NEW d \in Devs, NEW k \in FileKinds,
         NEW fs \in [Fds -> Opened], \A f \in Fds : SameFile(fs, f),
         NEW f \in Fds, IsOpen(f)
  PROVE  LET h == fs[f]
             g == Notified(fs, d, k)[f]
         IN  /\ g.dev = h.dev /\ g.kind = h.kind /\ g.live = h.live
             /\ g.seen = h.seen /\ g.quiet = h.quiet /\ g.owed = h.owed
             /\ IF f \in FilesOf(d, k) /\ files[f].live
                THEN g.unseen = Capped(h.unseen) ELSE g = h
<1>1. fs[f] \in File
  BY DEF SameFile, Opened
<1>2. CASE f \in FilesOf(d, k) /\ files[f].live
  <2>1. Notified(fs, d, k)[f] = [fs[f] EXCEPT !.unseen = Capped(@)]
    BY <1>2 DEF Notified
  <2> QED
    BY <1>1, <1>2, <2>1 DEF File
<1>3. CASE ~(f \in FilesOf(d, k) /\ files[f].live)
  <2>1. Notified(fs, d, k)[f] = fs[f]
    BY <1>3 DEF Notified
  <2> QED
    BY <1>3, <2>1
<1> QED
  BY <1>2, <1>3

\* A notified file stays in step.
LEMMA InStepNotified ==
  ASSUME EventsTypeOK, NEW f \in Fds, Served(f), InStep(files[f]),
         files'[f].dev = files[f].dev, files'[f].kind = files[f].kind,
         files'[f].seen = files[f].seen, files'[f].unseen = Capped(files[f].unseen),
         counter'[files[f].dev][files[f].kind] = Inc(counter[files[f].dev][files[f].kind])
  PROVE  InStep(files[f])'
<1> DEFINE h == files[f]
           n == counter[h.dev][h.kind]
<1>1. h \in File
  BY OpenFileIsFile DEF Served
<1>2. /\ h.dev \in Devs /\ h.kind \in FileKinds
      /\ h.seen \in 0 .. CountMod - 1 /\ h.unseen \in 0 .. CountMod
  BY <1>1 DEF File
<1>3. n \in 0 .. CountMod - 1
  BY <1>2 DEF EventsTypeOK
<1>4. h.unseen < CountMod => n = h.seen + h.unseen \/ n = h.seen + h.unseen - CountMod
  BY DEF InStep
<1> HIDE DEF n
<1>5. Capped(h.unseen) < CountMod =>
         Inc(n) = h.seen + Capped(h.unseen) \/ Inc(n) = h.seen + Capped(h.unseen) - CountMod
  BY <1>2, <1>3, <1>4, NotifiedInStep
<1> QED
  BY <1>5 DEF InStep, n

\* A notification reaches the files of d of kind k: what was on its way has arrived.
LEMMA ArrivalDelivers ==
  ASSUME DeliveryInv, NEW d \in Devs, NEW k \in FileKinds,
         counter' = [counter EXCEPT ![d][k] = Inc(@)],
         files' = Notified(files, d, k),
         UNCHANGED <<udd, held, phase, enabled, calls>>,
         \A f \in Fds : IsOpen(f) =>
           NoticesOf(f) = NoticesOf(f)' + (IF f \in FilesOf(d, k) THEN 1 ELSE 0),
         \A f \in Fds : NoticesOf(f)' \in Nat
  PROVE  FilesGood' /\ CallsGood'
<1>1. /\ EventsTypeOK /\ LadderInv /\ CallsInv /\ CountMod \in Nat /\ CountMod > 1
  BY EventsAssumption DEF DeliveryInv, EventsInv, EventsAssumption
<1>2. files \in [Fds -> Opened] /\ \A g \in Fds : SameFile(files, g)
  BY <1>1 DEF EventsTypeOK, Opened, SameFile, IsOpen
<1>3. ASSUME NEW f \in Fds, IsOpen(f)
      PROVE  LET h == files[f]
                 g == files'[f]
             IN  /\ g.dev = h.dev /\ g.kind = h.kind /\ g.live = h.live
                 /\ g.seen = h.seen /\ g.quiet = h.quiet /\ g.owed = h.owed
                 /\ IF h.live /\ h.dev = d /\ h.kind = k
                    THEN g.unseen = Capped(h.unseen) ELSE g = h
  <2>1. f \in FilesOf(d, k) <=> files[f].dev = d /\ files[f].kind = k
    BY <1>3 DEF FilesOf
  <2> QED
    BY <1>1, <1>2, <1>3, <2>1, NotifiedFields
<1>4. \A f \in Fds : IsOpen(f)' <=> IsOpen(f)
  BY <1>1, <1>2, NotifiedKeepsFiles, EventsAssumption DEF SameFile, IsOpen
<1>5. ASSUME NEW f \in Fds, Served(f)'
      PROVE  FileGood(f)'
  <2> DEFINE h == files[f]
             g == files'[f]
  <2>1. IsOpen(f) /\ h.live /\ Served(f)
    BY <1>3, <1>4, <1>5 DEF Served
  <2>2. FileGood(f)
    BY <2>1 DEF DeliveryInv, FilesGood
  <2>3. h \in File /\ h.dev \in Devs /\ h.kind \in FileKinds /\ h.unseen \in 0 .. CountMod
    BY <1>1, <2>1, OpenFileIsFile DEF File
  <2>4. (Entering(f)' <=> Entering(f)) /\ (Opening(f)' <=> Opening(f))
    BY DEF Entering, Opening
  <2>5. /\ g.dev = h.dev /\ g.kind = h.kind /\ g.live = h.live
        /\ g.seen = h.seen /\ g.quiet = h.quiet /\ g.owed = h.owed
        /\ IF h.dev = d /\ h.kind = k THEN g.unseen = Capped(h.unseen) ELSE g = h
    BY <1>3, <2>1
  <2>6. /\ h.kind \in held'[h.dev]
        /\ h.quiet => h.dev \in Maskable /\ ~enabled'[h.dev]
    BY <2>2 DEF FileGood
  <2>7. (CountedFile(f)' <=> CountedFile(f)) /\ (~Opening(f) => CountedFile(f))
    <3>1. CountedFile(f)' <=> CountedFile(f)
      BY <1>4, <2>4 DEF CountedFile
    <3>2. Entering(f) => Opening(f)
      BY <1>1 DEF Entering, Opening, CallsInv
    <3> QED
      BY <2>1, <3>1, <3>2 DEF CountedFile
  <2>8. /\ OwnKind' = OwnKind /\ NoticesOf(f)' \in Nat
        /\ NoticesOf(f) = NoticesOf(f)' + (IF h.dev = d /\ h.kind = k THEN 1 ELSE 0)
    BY <2>1 DEF OwnKind, FilesOf
  <2>9. CASE h.dev = d /\ h.kind = k
    <3>1. CountedFile(f) => h.owed
      BY <2>2, <2>8, <2>9 DEF FileGood
    <3>2. InStep(files[f])'
      <4>1. counter'[h.dev][h.kind] = Inc(counter[h.dev][h.kind])
        BY <1>1, <2>3, <2>9 DEF EventsTypeOK
      <4> QED
        BY <1>1, <2>1, <2>2, <2>5, <2>9, <4>1, InStepNotified DEF FileGood
    <3>3. g.unseen > 0
      BY <1>1, <2>3, <2>5, <2>9 DEF Capped
    <3>4. ASSUME h.quiet, ~Opening(f), g.unseen < CountMod
          PROVE  g.unseen + NoticesOf(f)' <= IF h.kind = OwnKind THEN 1 ELSE 2
      <4>1. h.unseen < CountMod /\ g.unseen = h.unseen + 1
        BY <1>1, <2>3, <2>5, <2>9, <3>4 DEF Capped
      <4>2. h.unseen + NoticesOf(f) <= IF h.kind = OwnKind THEN 1 ELSE 2
        BY <2>2, <3>4, <4>1 DEF FileGood
      <4> QED
        BY <2>3, <2>8, <2>9, <4>1, <4>2
    <3> QED
      BY <2>4, <2>5, <2>6, <2>7, <2>8, <3>1, <3>2, <3>3, <3>4 DEF FileGood
  <2>10. CASE ~(h.dev = d /\ h.kind = k)
    <3>1. g = h /\ NoticesOf(f)' = NoticesOf(f)
      BY <2>5, <2>8, <2>10
    <3>2. counter'[h.dev][h.kind] = counter[h.dev][h.kind]
      BY <1>1, <2>3, <2>10 DEF EventsTypeOK
    <3>3. Readable(f)' <=> Readable(f)
      BY <3>1, <3>2 DEF Readable
    <3>4. InStep(files[f])'
      BY <2>2, <3>1, <3>2 DEF FileGood, InStep
    <3> QED
      BY <2>2, <2>4, <2>6, <2>7, <2>8, <3>1, <3>3, <3>4 DEF FileGood
  <2> QED
    BY <2>9, <2>10
<1>6. ASSUME NEW t \in Threads, NEW f \in calls[t].todo,
             files[f].unseen > 0 \/ ~files[f].live
      PROVE  files'[f].unseen > 0 \/ ~files'[f].live
  <2>1. f \in Fds /\ IsOpen(f)
    BY <1>1, CallUpdate DEF CallsInv
  <2>2. files[f].unseen \in 0 .. CountMod
    BY <1>1, <2>1, OpenFileIsFile DEF File
  <2>3. files[f].unseen > 0 => Capped(files[f].unseen) > 0
    BY <1>1, <2>2 DEF Capped
  <2> QED
    BY <1>3, <1>6, <2>1, <2>3
<1>7. CallsGood'
  BY <1>6 DEF DeliveryInv, CallsGood
<1> QED
  BY <1>5, <1>7 DEF FilesGood

\* event_nrtsig_handler()
LEMMA RelayNotices ==
  ASSUME EventsTypeOK, LadderInv, EventsTypeOK', NEW d \in Devs, Relay(d)
  PROVE  \A f \in Fds : IsOpen(f) =>
           NoticesOf(f) = NoticesOf(f)' + (IF f \in FilesOf(d, "uio") THEN 1 ELSE 0)
<1> SUFFICES ASSUME NEW f \in Fds, IsOpen(f)
             PROVE  NoticesOf(f) = NoticesOf(f)' + (IF f \in FilesOf(d, "uio") THEN 1 ELSE 0)
  OBVIOUS
<1>1. relay[d] /\ relay' = [relay EXCEPT ![d] = FALSE] /\ UNCHANGED <<udd, due>>
  BY DEF Relay, deviceVars
<1>2. files'[f].dev = files[f].dev /\ files'[f].kind = files[f].kind
  BY RelayKeepsTypes DEF SameFile
<1>3. files[f].dev \in Devs
  BY OpenFileIsFile DEF File
<1>4. relay'[files[f].dev] <=> relay[files[f].dev] /\ files[f].dev # d
  BY <1>1, <1>3 DEF EventsTypeOK
<1>5. f \in FilesOf(d, "uio") <=> files[f].dev = d /\ files[f].kind = "uio"
  BY DEF FilesOf
<1>6. ByRelay(files[f].dev, files[f].kind)' <=>
        ByRelay(files[f].dev, files[f].kind) /\ f \notin FilesOf(d, "uio")
  BY <1>2, <1>4, <1>5 DEF ByRelay
<1>7. f \in FilesOf(d, "uio") => ByRelay(files[f].dev, files[f].kind)
  BY <1>1, <1>5 DEF ByRelay
<1>8. ByHandler(files[f].dev, files[f].kind)' <=> ByHandler(files[f].dev, files[f].kind)
  BY <1>1, <1>2 DEF ByHandler, OwnKind
<1> QED
  BY <1>6, <1>7, <1>8 DEF NoticesOf, NoticesFor

LEMMA RelayDelivers ==
  ASSUME DeliveryInv, EventsInv', NEW d \in Devs, Relay(d)
  PROVE  FilesGood' /\ CallsGood'
<1>1. EventsTypeOK /\ LadderInv /\ EventsTypeOK'
  BY DEF DeliveryInv, EventsInv
<1>2. \A f \in Fds : NoticesOf(f)' \in Nat
  BY DEF NoticesOf, NoticesFor
<1> QED
  BY <1>1, <1>2, RelayNotices, ArrivalDelivers DEF Relay, deviceVars, irqVars, FileKinds

\* udd_notify_event(), uio_event_notify()
LEMMA NotifyNotices ==
  ASSUME EventsTypeOK, NEW d \in Devs, NEW k \in FileKinds, k = OwnKind, NotifyDevice(d)
  PROVE  \A f \in Fds : IsOpen(f) =>
           NoticesOf(f) = NoticesOf(f)' + (IF f \in FilesOf(d, k) THEN 1 ELSE 0)
<1> SUFFICES ASSUME NEW f \in Fds, IsOpen(f)
             PROVE  NoticesOf(f) = NoticesOf(f)' + (IF f \in FilesOf(d, k) THEN 1 ELSE 0)
  OBVIOUS
<1>1. /\ "notify" \in due[d] /\ due' = [due EXCEPT ![d] = @ \ {"notify"}]
      /\ UNCHANGED <<udd, relay>>
  BY DEF NotifyDevice, deviceVars
<1>2. files'[f].dev = files[f].dev /\ files'[f].kind = files[f].kind
  BY NotifyKeepsTypes DEF NotifyDevice, SameFile
<1>3. files[f].dev \in Devs /\ due[files[f].dev] \in SUBSET {"pend", "notify"}
  BY OpenFileIsFile DEF File, EventsTypeOK
<1>4. due'[files[f].dev] =
        IF files[f].dev = d THEN due[files[f].dev] \ {"notify"} ELSE due[files[f].dev]
  BY <1>1, <1>3 DEF EventsTypeOK
<1>5. f \in FilesOf(d, k) <=> files[f].dev = d /\ files[f].kind = k
  BY DEF FilesOf
<1>6. ByHandler(files[f].dev, files[f].kind)' <=>
        ByHandler(files[f].dev, files[f].kind) /\ f \notin FilesOf(d, k)
  BY <1>1, <1>2, <1>4, <1>5 DEF ByHandler, OwnKind
<1>7. f \in FilesOf(d, k) => ByHandler(files[f].dev, files[f].kind)
  BY <1>1, <1>5 DEF ByHandler
<1>8. ByRelay(files[f].dev, files[f].kind)' <=> ByRelay(files[f].dev, files[f].kind)
  BY <1>1, <1>2 DEF ByRelay
<1> QED
  BY <1>6, <1>7, <1>8 DEF NoticesOf, NoticesFor

LEMMA NotifyDelivers ==
  ASSUME DeliveryInv, NEW d \in Devs, NotifyDevice(d)
  PROVE  FilesGood' /\ CallsGood'
<1>1. EventsTypeOK
  BY DEF DeliveryInv, EventsInv
<1>2. \A f \in Fds : NoticesOf(f)' \in Nat
  BY DEF NoticesOf, NoticesFor
<1>3. PICK k \in FileKinds : k = OwnKind
  BY DEF OwnKind, FileKinds
<1>4. /\ counter' = [counter EXCEPT ![d][k] = Inc(@)] /\ files' = Notified(files, d, k)
      /\ UNCHANGED <<udd, held, phase, enabled, calls>>
  BY <1>3 DEF NotifyDevice, deviceVars, irqVars
<1> QED
  BY <1>1, <1>2, <1>3, <1>4, NotifyNotices, ArrivalDelivers

\* A UIO file that is counted as open has the relay pended.
LEMMA PendRelayNotices ==
  ASSUME DeliveryInv, NEW d \in Devs, PendRelay(d), NEW f \in Fds, IsOpen(f)
  PROVE  /\ NoticesOf(f)' \in 0 .. 2 /\ NoticesOf(f)' <= NoticesOf(f)
         /\ Served(f) /\ CountedFile(f) /\ NoticesOf(f) > 0 => NoticesOf(f)' > 0
         /\ files[f].dev = d /\ files[f].kind = "uio" /\ Served(f) /\ CountedFile(f)
              => NoticesOf(f) = 1 + (IF relay[d] THEN 1 ELSE 0) /\ NoticesOf(f)' = 1
         /\ ~(files[f].dev = d /\ files[f].kind = "uio") => NoticesOf(f)' = NoticesOf(f)
<1>1. EventsTypeOK /\ LadderInv /\ OpenCountCoversFiles
  BY DEF DeliveryInv, EventsInv
<1>2. /\ "pend" \in due[d] /\ due' = [due EXCEPT ![d] = @ \ {"pend"}]
      /\ relay' = [relay EXCEPT ![d] = @ \/ opens[d]["uio"] > 0]
      /\ UNCHANGED <<udd, files>>
  BY DEF PendRelay, deviceVars
<1>3. udd /\ OwnKind = "udd" /\ OwnKind' = "udd"
  BY <1>1, <1>2 DEF LadderInv, OwnKind
<1>4. /\ files[f].dev \in Devs /\ files[f].kind \in FileKinds
      /\ due[files[f].dev] \in SUBSET {"pend", "notify"}
  BY <1>1, OpenFileIsFile DEF File, EventsTypeOK
<1>5. CASE ~(files[f].dev = d /\ files[f].kind = "uio")
  <2>1. ByHandler(files[f].dev, files[f].kind)' <=> ByHandler(files[f].dev, files[f].kind)
    BY <1>1, <1>2, <1>3, <1>4, <1>5 DEF ByHandler, EventsTypeOK, FileKinds
  <2>2. ByRelay(files[f].dev, files[f].kind)' <=> ByRelay(files[f].dev, files[f].kind)
    BY <1>1, <1>2, <1>4, <1>5 DEF ByRelay, EventsTypeOK
  <2>3. NoticesOf(f)' = NoticesOf(f)
    BY <2>1, <2>2 DEF NoticesOf, NoticesFor
  <2>4. NoticesOf(f) \in 0 .. 2
    BY <1>1, NoticesBounded
  <2> QED
    BY <1>5, <2>3, <2>4
<1>6. CASE files[f].dev = d /\ files[f].kind = "uio"
  <2>1. ByHandler(files[f].dev, files[f].kind) /\ ~ByHandler(files[f].dev, files[f].kind)'
    BY <1>1, <1>2, <1>3, <1>6 DEF ByHandler, EventsTypeOK
  <2>2. /\ ByRelay(files[f].dev, files[f].kind) <=> relay[d]
        /\ ByRelay(files[f].dev, files[f].kind)' <=> relay[d] \/ opens[d]["uio"] > 0
    BY <1>1, <1>2, <1>6 DEF ByRelay, EventsTypeOK
  <2>3. /\ NoticesOf(f) = 1 + (IF relay[d] THEN 1 ELSE 0)
        /\ NoticesOf(f)' = IF relay[d] \/ opens[d]["uio"] > 0 THEN 1 ELSE 0
    BY <2>1, <2>2 DEF NoticesOf, NoticesFor
  <2>4. ASSUME Served(f), CountedFile(f)
        PROVE  opens[d]["uio"] > 0
    <3>1. f \in Counted(d, "uio")
      BY <1>6, <2>4 DEF Counted, FilesOf, Served
    <3>2. Cardinality(Counted(d, "uio")) # 0
      BY <3>1, CountedFinite, FS_EmptySet
    <3>3. opens[d]["uio"] >= Cardinality(Counted(d, "uio")) /\ opens[d]["uio"] \in Int
      BY <1>1 DEF OpenCountCoversFiles, Counted, EventsTypeOK, FileKinds
    <3> QED
      BY <3>2, <3>3, CountedFinite
  <2> QED
    BY <1>6, <2>3, <2>4
<1> QED
  BY <1>5, <1>6

LEMMA PendRelayDelivers ==
  ASSUME DeliveryInv, NEW d \in Devs, PendRelay(d)
  PROVE  FilesGood' /\ CallsGood'
<1>1. EventsTypeOK /\ LadderInv
  BY DEF DeliveryInv, EventsInv
<1>2. UNCHANGED <<udd, held, phase, enabled, counter, files, calls>>
  BY DEF PendRelay, deviceVars, irqVars
<1>3. ASSUME NEW f \in Fds, Served(f)'
      PROVE  FileGood(f)'
  <2>1. Served(f) /\ FileGood(f) /\ IsOpen(f)
    BY <1>2, <1>3 DEF Served, IsOpen, DeliveryInv, FilesGood
  <2>2. /\ NoticesOf(f)' \in 0 .. 2 /\ NoticesOf(f)' <= NoticesOf(f)
        /\ CountedFile(f) /\ NoticesOf(f) > 0 => NoticesOf(f)' > 0
    BY <2>1, PendRelayNotices
  <2>3. NoticesOf(f) \in 0 .. 2 /\ files[f].unseen \in Int
    BY <1>1, <2>1, NoticesBounded, OpenFileIsFile, EventsAssumption
       DEF File, EventsAssumption
  <2>4. /\ (CountedFile(f)' <=> CountedFile(f)) /\ (Opening(f)' <=> Opening(f))
        /\ (Readable(f)' <=> Readable(f)) /\ OwnKind' = OwnKind
    BY <1>2 DEF CountedFile, IsOpen, Entering, Opening, Readable, OwnKind
  <2>5. InStep(files[f])'
    BY <1>2, <2>1 DEF InStep, FileGood
  <2> QED
    BY <1>2, <2>1, <2>2, <2>3, <2>4, <2>5 DEF FileGood
<1>4. CallsGood'
  BY <1>2 DEF DeliveryInv, CallsGood
<1> QED
  BY <1>3, <1>4 DEF FilesGood

\* What a handler has taken care of is on its way to every file of the device, which is
\* owed it from now on; none of these files is quiet, for the interrupt was enabled.
LEMMA HandledNotices ==
  ASSUME EventsTypeOK, LadderInv, NEW d \in Devs, Handled(d), held[d] = AllRungs,
         NEW f \in Fds, Served(f), files[f].kind \in held[files[f].dev]
  PROVE  NoticesOf(f)' = NoticesOf(f) + (IF files[f].dev = d THEN 1 ELSE 0)
<1>1. /\ due[d] = {} /\ UNCHANGED <<udd, relay>>
      /\ due' = [due EXCEPT ![d] = IF udd THEN {"pend", "notify"} ELSE {"notify"}]
  BY DEF Handled, deviceVars
<1>2. files'[f].dev = files[f].dev /\ files'[f].kind = files[f].kind
  BY HandledKeepsTypes DEF SameFile, Served
<1>3. files[f].dev \in Devs /\ files[f].kind \in FileKinds
  BY OpenFileIsFile DEF File, Served
<1>4. ByRelay(files[f].dev, files[f].kind)' <=> ByRelay(files[f].dev, files[f].kind)
  BY <1>1, <1>2 DEF ByRelay
<1>5. CASE files[f].dev = d
  <2>1. udd \/ files[f].kind = OwnKind
    BY <1>3, <1>5 DEF AllRungs, OwnKind, FileKinds
  <2>2. ~ByHandler(files[f].dev, files[f].kind)
    BY <1>1, <1>5 DEF ByHandler
  <2>3. ByHandler(files[f].dev, files[f].kind)'
    BY <1>1, <1>2, <1>5, <2>1 DEF ByHandler, OwnKind, EventsTypeOK
  <2> QED
    BY <1>4, <1>5, <2>2, <2>3 DEF NoticesOf, NoticesFor
<1>6. CASE files[f].dev # d
  <2>1. ByHandler(files[f].dev, files[f].kind)' <=> ByHandler(files[f].dev, files[f].kind)
    BY <1>1, <1>2, <1>3, <1>6 DEF ByHandler, OwnKind, EventsTypeOK
  <2> QED
    BY <1>4, <1>6, <2>1 DEF NoticesOf, NoticesFor
<1> QED
  BY <1>5, <1>6

LEMMA HandledDelivers ==
  ASSUME DeliveryInv, NEW d \in Devs, Handled(d), held[d] = AllRungs
  PROVE  FilesGood' /\ CallsGood'
<1>1. EventsTypeOK /\ LadderInv /\ CallsInv /\ FilesGood
  BY DEF DeliveryInv, EventsInv
<1>2. /\ enabled[d] /\ files' = Owing(d)
      /\ UNCHANGED <<udd, held, phase, counter, calls>>
      /\ \A e \in Maskable : enabled'[e] => enabled[e]
  BY <1>1, EventsAssumption DEF Handled, deviceVars, EventsTypeOK, EventsAssumption
<1>3. \A f \in Fds : IsOpen(f)' <=> IsOpen(f)
  BY <1>1, HandledKeepsTypes DEF SameFile, IsOpen
<1>4. ASSUME NEW f \in Fds, Served(f)'
      PROVE  FileGood(f)'
  <2> DEFINE h == files[f]
             g == files'[f]
  <2>1. IsOpen(f)
    BY <1>3, <1>4 DEF Served
  <2>2. /\ g.dev = h.dev /\ g.kind = h.kind /\ g.live = h.live
        /\ g.seen = h.seen /\ g.unseen = h.unseen /\ g.quiet = h.quiet
        /\ g.owed <=> h.owed \/ (CountedFile(f) /\ h.dev = d /\ h.live)
    BY <1>1, <1>2, <2>1, OwingFields
  <2>3. Served(f) /\ FileGood(f) /\ h.live
    BY <1>1, <1>4, <2>1, <2>2 DEF Served, FilesGood
  <2>4. NoticesOf(f) \in 0 .. 2 /\ h.unseen \in Int
    BY <1>1, <2>1, NoticesBounded, OpenFileIsFile, EventsAssumption
       DEF File, EventsAssumption
  <2>5. /\ h.dev = d => NoticesOf(f)' > 0
        /\ h.dev # d => NoticesOf(f)' = NoticesOf(f)
    BY <1>1, <2>3, <2>4, HandledNotices DEF FileGood
  <2>6. (Entering(f)' <=> Entering(f)) /\ (Opening(f)' <=> Opening(f))
    BY <1>2 DEF Entering, Opening
  <2>7. /\ (CountedFile(f)' <=> CountedFile(f)) /\ (Readable(f)' <=> Readable(f))
        /\ OwnKind' = OwnKind
    BY <1>2, <1>3, <2>2, <2>6 DEF CountedFile, Readable, OwnKind
  <2>8. h.kind \in held'[h.dev]
    BY <1>2, <2>3 DEF FileGood
  <2>9. InStep(files[f])'
    BY <1>2, <2>2, <2>3 DEF FileGood, InStep
  <2>10. h.quiet => h.dev # d /\ h.dev \in Maskable /\ ~enabled'[h.dev]
    BY <1>2, <2>3 DEF FileGood
  <2>11. CountedFile(f) /\ phase[h.dev] # "cleanup" /\ g.owed =>
           h.unseen > 0 \/ NoticesOf(f)' > 0
    BY <2>2, <2>3, <2>4, <2>5 DEF FileGood
  <2>12. CountedFile(f) /\ NoticesOf(f)' > 0 => g.owed
    BY <2>2, <2>3, <2>4, <2>5 DEF FileGood
  <2>13. ~Opening(f) /\ Readable(f) => g.owed
    BY <2>2, <2>3 DEF FileGood
  <2>14. h.quiet /\ ~Opening(f) /\ h.unseen < CountMod =>
           h.unseen + NoticesOf(f)' <= IF h.kind = OwnKind THEN 1 ELSE 2
    BY <2>3, <2>4, <2>5, <2>10 DEF FileGood
  <2> HIDE DEF h, g
  <2>15. /\ g.kind \in held'[g.dev] /\ (g.quiet => g.dev \in Maskable /\ ~enabled'[g.dev])
    BY <2>2, <2>8, <2>10
  <2> QED
    BY <1>2, <2>2, <2>6, <2>7, <2>9, <2>11, <2>12, <2>13, <2>14, <2>15
       DEF FileGood, h, g
<1>5. ASSUME NEW t \in Threads, NEW f \in calls[t].todo
      PROVE  files'[f].unseen = files[f].unseen /\ files'[f].live = files[f].live
  <2>1. f \in Fds /\ IsOpen(f)
    BY <1>1, CallUpdate DEF CallsInv
  <2> QED
    BY <1>1, <1>2, <2>1, OwingFields
<1>6. CallsGood'
  BY <1>2, <1>5 DEF DeliveryInv, CallsGood
<1> QED
  BY <1>4, <1>6 DEF FilesGood

\* Interrupts come when the ladder is up.
LEMMA InterruptIsHandled ==
  ASSUME EventsTypeOK, LadderInv, NEW d \in Devs, InterruptStep(d)
  PROVE  Handled(d) /\ held[d] = AllRungs
<1>1. CASE Interrupt(d)
  <2>1. OwnKind \in held[d] /\ held[d] \in Prefixes
    BY <1>1 DEF Interrupt, LadderInv
  <2> QED
    BY <1>1, <2>1 DEF Interrupt, OwnKind, AllRungs, Prefixes, EventsTypeOK
<1>2. CASE CustomInterrupt(d)
  BY <1>2 DEF CustomInterrupt, LadderInv
<1> QED
  BY <1>1, <1>2 DEF InterruptStep

LEMMA InterruptDelivers ==
  ASSUME DeliveryInv, NEW d \in Devs, InterruptStep(d) \/ NotifyStep(d)
  PROVE  FilesGood' /\ CallsGood'
<1>1. EventsTypeOK /\ LadderInv
  BY DEF DeliveryInv, EventsInv
<1> QED
  BY <1>1, InterruptIsHandled, HandledDelivers, PendRelayDelivers, NotifyDelivers
     DEF NotifyStep

LEMMA IrqHandlerDelivers ==
  ASSUME DeliveryInv, NEW d \in Devs, InterruptRegister(d) \/ InterruptUnregister(d)
  PROVE  FilesGood' /\ CallsGood'
BY DeliveryKept DEF InterruptRegister, InterruptUnregister, deviceVars

-----------------------------------------------------------------------------
(* Calls *)

\* A file that a step of thread t leaves alone; an open that returns leaves nothing to read.
LEMMA CallKeepsFile ==
  ASSUME DeliveryInv, NEW t \in Threads, \A u \in Threads \ {t} : calls'[u] = calls[u],
         UNCHANGED <<udd, held, phase, due, relay, counter>>,
         NEW f \in Fds, Served(f), files'[f] = files[f],
         files[f].quiet => ~enabled'[files[f].dev],
         calls[t].op = "open" /\ f \in calls[t].on =>
           \/ /\ calls'[t].op = "open" /\ f \in calls'[t].on
              /\ calls[t].at = "entered" => calls'[t].at = "entered"
           \/ calls[t].at # "entered" /\ ~Readable(f)
  PROVE  FileGood(f)'
<1>1. EventsTypeOK /\ LadderInv /\ FileGood(f) /\ CallsInv
  BY DEF DeliveryInv, EventsInv, FilesGood
<1>2. Entering(f) => Entering(f)'
  <2>1. ASSUME NEW u \in Threads, calls[u].at = "entered", f \in calls[u].on
        PROVE  calls'[u].at = "entered" /\ f \in calls'[u].on
    BY <1>1, <2>1 DEF CallsInv
  <2> QED
    BY <2>1 DEF Entering
<1>3. Opening(f) /\ Readable(f) => Opening(f)'
  BY DEF Opening
<1>4. files[f].kind \in held'[files[f].dev]
  BY <1>1 DEF FileGood
<1> QED
  BY <1>1, <1>2, <1>3, <1>4, GoodFileKept

LEMMA CallsOnlyDeliver ==
  ASSUME DeliveryInv, NEW t \in Threads,
         \/ Select(t) \/ Timeout(t) \/ \E f \in Fds : ReadFails(t, f) \/ Wait(t, f)
         \/ \E S \in SUBSET Fds : TimedWait(t, S)
  PROVE  FilesGood' /\ CallsGood'
<1>1. EventsTypeOK /\ CallsInv /\ FilesGood /\ CallsGood
  BY DEF DeliveryInv, EventsInv
<1>2. NoCall.at = "idle" /\ NoCall.op = "none" /\ NoCall.on = {} /\ NoCall.todo = {}
  BY DEF NoCall
<1>3. UNCHANGED <<udd, held, phase, enabled, due, relay, counter, opens, files>>
  BY DEF Select, Timeout, ReadFails, Wait, TimedWait, deviceVars, irqVars
<1>4. calls[t] \in Call /\ calls[t].on \subseteq Fds /\ calls[t].todo \subseteq Fds
  BY <1>1, CallUpdate
<1>5. ASSUME \A u \in Threads \ {t} : calls'[u] = calls[u],
             \A f \in Fds : Served(f) /\ calls[t].op = "open" /\ f \in calls[t].on =>
               \/ /\ calls'[t].op = "open" /\ f \in calls'[t].on
                  /\ calls[t].at = "entered" => calls'[t].at = "entered"
               \/ calls[t].at # "entered" /\ ~Readable(f)
      PROVE  FilesGood'
  <2> SUFFICES ASSUME NEW f \in Fds, Served(f)'  PROVE  FileGood(f)'
    BY DEF FilesGood
  <2>1. Served(f) /\ files'[f] = files[f]
    BY <1>3 DEF Served, IsOpen
  <2>2. files[f].quiet => ~enabled'[files[f].dev]
    BY <1>1, <1>3, <2>1 DEF FilesGood, FileGood
  <2> QED
    BY <1>3, <1>5, <2>1, <2>2, CallKeepsFile
<1>6. CASE Select(t)
  <2> DEFINE c == [calls[t] EXCEPT !.at = "reading", !.todo = Ready(t)]
  <2>1. /\ calls[t].at = "selecting"
        /\ calls' = [calls EXCEPT ![t].at = "reading", ![t].todo = Ready(t)]
    BY <1>6 DEF Select
  <2>2. c.at = "reading" /\ c.op = calls[t].op /\ c.on = calls[t].on /\ c.todo = Ready(t)
    BY <1>4 DEF Call
  <2>3. calls' = [calls EXCEPT ![t] = c]
    BY <2>1, <1>1 DEF EventsTypeOK
  <2> HIDE DEF c
  <2>4. calls'[t] = c /\ \A u \in Threads \ {t} : calls'[u] = calls[u]
    BY <1>1, <2>3 DEF EventsTypeOK
  <2>5. FilesGood'
    BY <1>5, <2>1, <2>2, <2>4
  <2>6. ASSUME NEW f \in Ready(t)
        PROVE  files[f].unseen > 0 \/ ~files[f].live
    <3>1. f \in Fds /\ IsOpen(f) /\ (Readable(f) \/ ~files[f].live)
      BY <1>1, <1>4 DEF Ready, CallsInv
    <3>2. CASE files[f].live
      <4>1. Served(f) /\ InStep(files[f])
        BY <1>1, <3>1, <3>2 DEF Served, FilesGood, FileGood
      <4> QED
        BY <1>1, <3>1, <3>2, <4>1, ReadableWhenUnseen
    <3> QED
      BY <3>2
  <2>7. CallsGood'
    BY <1>1, <1>3, <2>2, <2>4, <2>6 DEF CallsGood
  <2> QED
    BY <2>5, <2>7
<1>7. CASE Timeout(t) \/ \E f \in Fds : ReadFails(t, f)
  <2>1. calls' = [calls EXCEPT ![t] = NoCall]
    BY <1>7 DEF Timeout, ReadFails, Return
  <2>2. calls'[t] = NoCall /\ \A u \in Threads \ {t} : calls'[u] = calls[u]
    BY <1>1, <2>1 DEF EventsTypeOK
  <2>3. ASSUME NEW f \in Fds, Served(f), calls[t].op = "open", f \in calls[t].on
        PROVE  calls[t].at # "entered" /\ ~Readable(f)
    <3>1. CASE Timeout(t)
      BY <2>3, <3>1 DEF Timeout, Ready
    <3>2. CASE \E g \in Fds : ReadFails(t, g)
      <4>1. PICK g \in Fds : ReadFails(t, g)
        BY <3>2
      <4>2. calls[t].at = "reading" /\ g \in calls[t].todo /\ ~files[g].live
        BY <4>1 DEF ReadFails, Reading
      <4>3. g = f
        BY <1>1, <2>3, <4>2 DEF CallsInv
      <4> QED
        BY <2>3, <4>2, <4>3 DEF Served
    <3> QED
      BY <1>7, <3>1, <3>2
  <2>4. FilesGood'
    BY <1>5, <2>2, <2>3
  <2>5. CallsGood'
    BY <1>1, <1>2, <1>3, <2>2 DEF CallsGood
  <2> QED
    BY <2>4, <2>5
<1>8. CASE \/ \E f \in Fds : Wait(t, f)
           \/ \E S \in SUBSET Fds : TimedWait(t, S)
  <2>1. calls[t] = NoCall
    BY <1>8 DEF Wait, TimedWait, Idle
  <2>2. \A u \in Threads \ {t} : calls'[u] = calls[u]
    BY <1>1, <1>8 DEF Wait, TimedWait, EventsTypeOK
  <2>3. FilesGood'
    BY <1>2, <1>5, <2>1, <2>2
  <2>4. /\ \A f \in calls'[t].on : t \in UsersOf[f]
        /\ calls'[t].op = "wait" \/ calls'[t].at # "reading"
    <3>1. ASSUME NEW f \in Fds, Wait(t, f)
          PROVE  calls'[t].op = "wait" /\ calls'[t].on = {f} /\ t \in UsersOf[f]
      BY <1>1, <3>1 DEF Wait, Usable, EventsTypeOK
    <3>2. ASSUME NEW S \in SUBSET Fds, TimedWait(t, S)
          PROVE  /\ calls'[t].at = "selecting" /\ calls'[t].on = S
                 /\ \A f \in S : t \in UsersOf[f]
      BY <1>1, <3>2 DEF TimedWait, Usable, EventsTypeOK
    <3> QED
      BY <1>8, <3>1, <3>2
  <2>5. CallsGood'
    BY <1>1, <1>3, <2>2, <2>4 DEF CallsGood
  <2> QED
    BY <2>3, <2>5
<1> QED
  BY <1>6, <1>7, <1>8

\* A file is counted from here on: what is on its way is owed to it as well.
LEMMA CountOpenDelivers ==
  ASSUME DeliveryInv, NEW t \in Threads, CountOpen(t)
  PROVE  FilesGood' /\ CallsGood'
<1>1. EventsTypeOK /\ LadderInv /\ CallsInv /\ FilesGood /\ CallsGood
  BY DEF DeliveryInv, EventsInv
<1>2. PICK f \in Fds : calls[t].on = {f} /\ IsOpen(f)
  BY <1>1 DEF CountOpen, CallsInv
<1> DEFINE h == files[f]
           g == [h EXCEPT !.owed = OnItsWay(h.dev, h.kind)]
           c == [calls[t] EXCEPT !.at = "counted"]
<1>3. /\ calls[t].at = "entered" /\ calls[t].op = "open"
      /\ files' = [files EXCEPT ![f] = g] /\ calls' = [calls EXCEPT ![t] = c]
      /\ UNCHANGED <<udd, held, phase, enabled, irqh, due, relay, counter>>
  BY <1>1, <1>2 DEF CountOpen, CallsInv, deviceVars, irqVars
<1>4. h \in File
  BY <1>1, <1>2, OpenFileIsFile
<1>5. /\ g.dev = h.dev /\ g.kind = h.kind /\ g.live = h.live /\ g.seen = h.seen
      /\ g.unseen = h.unseen /\ g.quiet = h.quiet /\ g.owed = OnItsWay(h.dev, h.kind)
  BY <1>4 DEF File
<1>6. c.at = "counted" /\ c.op = "open" /\ c.on = {f} /\ c.todo = calls[t].todo
  <2>1. calls[t] \in Call
    BY <1>1 DEF EventsTypeOK
  <2> QED
    BY <1>2, <1>3, <2>1 DEF Call
<1> HIDE DEF g, c
<1>7. /\ files'[f] = g /\ \A e \in Fds \ {f} : files'[e] = files[e]
      /\ calls'[t] = c /\ \A u \in Threads \ {t} : calls'[u] = calls[u]
  BY <1>1, <1>3 DEF EventsTypeOK
<1>8. ASSUME NEW e \in Fds, Served(e)', e # f
      PROVE  FileGood(e)'
  <2>1. Served(e) /\ files'[e] = files[e]
    BY <1>7, <1>8 DEF Served, IsOpen
  <2>2. files[e].quiet => ~enabled'[files[e].dev]
    BY <1>1, <1>3, <2>1 DEF FilesGood, FileGood
  <2> QED
    BY <1>2, <1>3, <1>7, <1>8, <2>1, <2>2, CallKeepsFile
<1>9. ASSUME Served(f)'
      PROVE  FileGood(f)'
  <2>1. Served(f) /\ FileGood(f)
    BY <1>1, <1>2, <1>5, <1>7, <1>9 DEF Served, FilesGood
  <2>2. Opening(f)'
    BY <1>6, <1>7 DEF Opening
  <2>3. NoticesOf(f)' = NoticesOf(f) /\ (g.owed <=> NoticesOf(f) > 0)
    BY <1>1, <1>2, <1>3, <1>5, <1>7, NoticesKept, NoticesBounded
  <2>4. InStep(files[f])'
    BY <1>3, <1>5, <1>7, <2>1 DEF InStep, FileGood
  <2> QED
    BY <1>3, <1>5, <1>7, <2>1, <2>2, <2>3, <2>4 DEF FileGood
<1>10. \A e \in Fds : files'[e].unseen = files[e].unseen /\ files'[e].live = files[e].live
  BY <1>5, <1>7
<1>11. \A u \in Threads : calls[u].todo \subseteq Fds
  BY <1>1, CallUpdate
<1>12. CallsGood'
  <2>1. ASSUME NEW u \in Threads
        PROVE  /\ \A e \in calls'[u].on : u \in UsersOf[e]
               /\ calls'[u].op # "wait" /\ calls'[u].at = "reading" =>
                    \A e \in calls'[u].todo :
                      UsersOf[e] = {u} => files'[e].unseen > 0 \/ ~files'[e].live
    <3>1. CASE u = t
      BY <1>1, <1>2, <1>6, <1>7, <3>1 DEF CallsGood
    <3>2. CASE u # t
      BY <1>1, <1>7, <1>10, <1>11, <3>2 DEF CallsGood
    <3> QED
      BY <3>1, <3>2
  <2> QED
    BY <2>1 DEF CallsGood
<1> QED
  BY <1>8, <1>9, <1>12 DEF FilesGood

\* open disables the interrupt of the device before it takes what has been notified.
LEMMA OpenDisableDelivers ==
  ASSUME DeliveryInv, NEW t \in Threads, OpenDisable(t)
  PROVE  FilesGood' /\ CallsGood'
<1>1. EventsTypeOK /\ LadderInv /\ CallsInv /\ FilesGood /\ CallsGood
  BY DEF DeliveryInv, EventsInv
<1>2. PICK f \in calls[t].on :
         /\ Irqcontrol(f, FALSE)
         /\ files' = [files EXCEPT ![f].quiet = files[f].live /\ files[f].dev \in Maskable]
  BY DEF OpenDisable
<1> DEFINE h == files[f]
           b == h.live /\ h.dev \in Maskable
           g == [h EXCEPT !.quiet = b]
           c == [calls[t] EXCEPT !.at = "selecting"]
<1>3. f \in Fds /\ IsOpen(f)
  BY <1>1, CallUpdate DEF CallsInv
<1>4. h \in File /\ h.dev \in Devs
  BY <1>1, <1>3, OpenFileIsFile DEF File
<1>5. /\ g.dev = h.dev /\ g.kind = h.kind /\ g.live = h.live /\ g.seen = h.seen
      /\ g.unseen = h.unseen /\ g.owed = h.owed /\ g.quiet = b
  BY <1>4 DEF File
<1>6. /\ calls[t].at = "counted"
      /\ files' = [files EXCEPT ![f] = g] /\ calls' = [calls EXCEPT ![t] = c]
      /\ UNCHANGED <<udd, held, phase, irqh, due, relay, counter>>
  BY <1>2 DEF OpenDisable, deviceVars
<1>7. calls[t].op = "open" => calls[t].on = {f}
  BY <1>1 DEF CallsInv
<1>8. /\ c.at = "selecting" /\ c.op = calls[t].op /\ c.on = calls[t].on
      /\ c.todo = calls[t].todo
  <2>1. calls[t] \in Call
    BY <1>1 DEF EventsTypeOK
  <2> QED
    BY <2>1 DEF Call
<1> HIDE DEF g, c, b
<1>9. /\ files'[f] = g /\ \A e \in Fds \ {f} : files'[e] = files[e]
      /\ calls'[t] = c /\ \A u \in Threads \ {t} : calls'[u] = calls[u]
  BY <1>1, <1>3, <1>6 DEF EventsTypeOK
<1>10. /\ \A d \in Devs : enabled'[d] => enabled[d]
       /\ b => ~enabled'[h.dev] /\ h.dev \in Maskable
  BY <1>1, <1>2, <1>4 DEF Irqcontrol, EventsTypeOK, b
<1>11. ASSUME NEW e \in Fds, Served(e)', e # f
       PROVE  FileGood(e)'
  <2>1. Served(e) /\ files'[e] = files[e]
    BY <1>9, <1>11 DEF Served, IsOpen
  <2>2. files[e].dev \in Devs
    BY <1>1, <2>1, OpenFileIsFile DEF Served, File
  <2>3. files[e].quiet => ~enabled'[files[e].dev]
    BY <1>1, <1>10, <2>1, <2>2 DEF FilesGood, FileGood
  <2> QED
    BY <1>6, <1>7, <1>9, <1>11, <2>1, <2>3, CallKeepsFile
<1>12. ASSUME Served(f)'
       PROVE  FileGood(f)'
  <2>1. Served(f) /\ FileGood(f)
    BY <1>1, <1>3, <1>5, <1>9, <1>12 DEF Served, FilesGood
  <2>2. (Opening(f)' <=> Opening(f)) /\ (Entering(f)' <=> Entering(f))
    BY <1>6, <1>8, <1>9 DEF Opening, Entering
  <2>3. NoticesOf(f)' = NoticesOf(f)
    BY <1>3, <1>5, <1>6, <1>9, NoticesKept
  <2>4. InStep(files[f])'
    BY <1>5, <1>6, <1>9, <2>1 DEF InStep, FileGood
  <2>5. Readable(f)' <=> Readable(f)
    BY <1>5, <1>6, <1>9 DEF Readable
  <2>6. CountedFile(f)' => CountedFile(f)
    BY <1>3, <2>2 DEF CountedFile
  <2>7. Opening(f)
    BY <1>1, <1>6 DEF CallsInv, Opening
  <2> QED
    BY <1>5, <1>6, <1>9, <1>10, <2>1, <2>2, <2>3, <2>4, <2>5, <2>6, <2>7 DEF FileGood
<1>13. \A e \in Fds : files'[e].unseen = files[e].unseen /\ files'[e].live = files[e].live
  BY <1>5, <1>9
<1>14. \A u \in Threads : calls[u].todo \subseteq Fds
  BY <1>1, CallUpdate
<1>15. CallsGood'
  <2>1. ASSUME NEW u \in Threads
        PROVE  /\ \A e \in calls'[u].on : u \in UsersOf[e]
               /\ calls'[u].op # "wait" /\ calls'[u].at = "reading" =>
                    \A e \in calls'[u].todo :
                      UsersOf[e] = {u} => files'[e].unseen > 0 \/ ~files'[e].live
    <3>1. CASE u = t
      BY <1>1, <1>8, <1>9, <3>1 DEF CallsGood
    <3>2. CASE u # t
      BY <1>1, <1>9, <1>13, <1>14, <3>2 DEF CallsGood
    <3> QED
      BY <3>1, <3>2
  <2> QED
    BY <2>1 DEF CallsGood
<1> QED
  BY <1>11, <1>12, <1>15 DEF FilesGood

LEMMA ReportedFields ==
  ASSUME EventsTypeOK, NEW f \in Fds, IsOpen(f)
  PROVE  /\ \A e \in Fds \ {f} : Reported(f)[e] = files[e]
         /\ LET h == files[f]
                g == Reported(f)[f]
            IN  /\ g.dev = h.dev /\ g.kind = h.kind /\ g.live = h.live
                /\ g.seen = counter[h.dev][h.kind] /\ g.unseen = 0
                /\ g.owed = OnItsWay(h.dev, h.kind) /\ g.quiet = h.quiet
<1> DEFINE h == files[f]
           n == counter[h.dev][h.kind]
           late == OnItsWay(h.dev, h.kind)
           g1 == [h EXCEPT !.seen = n]
           g2 == [g1 EXCEPT !.unseen = 0, !.owed = late]
<1>1. h \in File
  BY OpenFileIsFile
<1>2. Reported(f) = [files EXCEPT ![f] = [h EXCEPT !.seen = n, !.unseen = 0, !.owed = late]]
  BY DEF Reported
<1> HIDE DEF n, late
<1>3. [h EXCEPT !.seen = n, !.unseen = 0, !.owed = late] = g2
  BY <1>1 DEF File
<1>4. g1 \in [dev : Devs, kind : FileKinds, live : BOOLEAN, seen : {n},
               unseen : 0 .. CountMod, owed : BOOLEAN, quiet : BOOLEAN]
      /\ g1.dev = h.dev /\ g1.kind = h.kind /\ g1.live = h.live
      /\ g1.seen = n /\ g1.quiet = h.quiet
  BY <1>1 DEF File
<1> HIDE DEF g1
<1>5. /\ g2.dev = g1.dev /\ g2.kind = g1.kind /\ g2.live = g1.live
      /\ g2.seen = g1.seen /\ g2.unseen = 0 /\ g2.owed = late /\ g2.quiet = g1.quiet
  BY <1>4
<1> HIDE DEF g2
<1>6. Reported(f)[f] = g2 /\ \A e \in Fds \ {f} : Reported(f)[e] = files[e]
  BY <1>2, <1>3 DEF EventsTypeOK
<1> QED
  BY <1>4, <1>5, <1>6 DEF n, late

LEMMA ReadDelivers ==
  ASSUME DeliveryInv, NEW t \in Threads, NEW f \in Fds, Read(t, f)
  PROVE  FilesGood' /\ CallsGood'
<1>1. EventsTypeOK /\ LadderInv /\ CallsInv /\ FilesGood /\ CallsGood
  BY DEF DeliveryInv, EventsInv
<1>2. NoCall.at = "idle" /\ NoCall.op = "none" /\ NoCall.on = {} /\ NoCall.todo = {}
  BY DEF NoCall
<1>3. /\ calls[t].at = "reading" /\ f \in calls[t].todo /\ files' = Reported(f)
      /\ IF calls[t].todo = {f} THEN calls' = [calls EXCEPT ![t] = NoCall]
         ELSE calls' = [calls EXCEPT ![t].todo = @ \ {f}]
      /\ UNCHANGED <<udd, held, phase, enabled, irqh, due, relay, counter>>
  BY DEF Read, Reading, Return, deviceVars, irqVars
<1>4. f \in calls[t].on /\ IsOpen(f)
  BY <1>1, <1>3 DEF CallsInv
<1> DEFINE h == files[f]
           g == files'[f]
<1>5. /\ g.dev = h.dev /\ g.kind = h.kind /\ g.live = h.live
      /\ g.seen = counter[h.dev][h.kind] /\ g.unseen = 0
      /\ g.owed = OnItsWay(h.dev, h.kind) /\ g.quiet = h.quiet
      /\ \A e \in Fds \ {f} : files'[e] = files[e]
  BY <1>1, <1>3, <1>4, ReportedFields
<1>6. calls[t].op = "open" => calls[t].on = {f} /\ calls[t].todo = {f}
  BY <1>1, <1>3, <1>4 DEF CallsInv
<1>7. /\ \A u \in Threads \ {t} : calls'[u] = calls[u]
      /\ IF calls[t].todo = {f} THEN calls'[t] = NoCall
         ELSE /\ calls'[t].at = "reading" /\ calls'[t].op = calls[t].op
              /\ calls'[t].on = calls[t].on /\ calls'[t].todo = calls[t].todo \ {f}
  <2>1. CASE calls[t].todo = {f}
    BY <1>1, <1>3, <2>1 DEF EventsTypeOK
  <2>2. CASE calls[t].todo # {f}
    <3> DEFINE c == [calls[t] EXCEPT !.todo = @ \ {f}]
    <3>1. calls[t] \in Call
      BY <1>1 DEF EventsTypeOK
    <3>2. /\ c.at = "reading" /\ c.op = calls[t].op
          /\ c.on = calls[t].on /\ c.todo = calls[t].todo \ {f}
      BY <1>3, <3>1 DEF Call
    <3>3. calls' = [calls EXCEPT ![t] = c]
      BY <1>3, <2>2
    <3> HIDE DEF c
    <3> QED
      BY <1>1, <2>2, <3>2, <3>3 DEF EventsTypeOK
  <2> QED
    BY <2>1, <2>2
<1>8. ASSUME NEW e \in Fds, Served(e)', e # f
      PROVE  FileGood(e)'
  <2>1. Served(e) /\ files'[e] = files[e]
    BY <1>5, <1>8 DEF Served, IsOpen
  <2>2. files[e].quiet => ~enabled'[files[e].dev]
    BY <1>1, <1>3, <2>1 DEF FilesGood, FileGood
  <2> QED
    BY <1>3, <1>6, <1>7, <1>8, <2>1, <2>2, CallKeepsFile
<1>9. ASSUME Served(f)'
      PROVE  FileGood(f)'
  <2>1. Served(f) /\ FileGood(f)
    BY <1>1, <1>4, <1>5, <1>9 DEF Served, FilesGood
  <2>2. ~Readable(f)'
    BY <1>3, <1>5 DEF Readable
  <2>3. /\ NoticesOf(f)' = NoticesOf(f) /\ OwnKind' = OwnKind
        /\ g.owed <=> NoticesOf(f) > 0
        /\ NoticesOf(f) \in 0 .. 2 /\ (h.kind = OwnKind => NoticesOf(f) <= 1)
    BY <1>1, <1>3, <1>4, <1>5, NoticesKept, NoticesBounded DEF OwnKind
  <2>4. InStep(files[f])'
    <3>1. h.dev \in Devs /\ h.kind \in FileKinds
      BY <1>1, <1>4, OpenFileIsFile DEF File
    <3>2. counter[h.dev][h.kind] \in 0 .. CountMod - 1
      BY <1>1, <3>1 DEF EventsTypeOK
    <3>3. counter[h.dev][h.kind] = counter[h.dev][h.kind] + 0
      BY <3>2
    <3> QED
      BY <1>3, <1>5, <3>3 DEF InStep
  <2>5. g.unseen + NoticesOf(f)' <= IF g.kind = OwnKind' THEN 1 ELSE 2
    BY <1>5, <2>3
  <2> QED
    BY <1>3, <1>5, <2>1, <2>2, <2>3, <2>4, <2>5 DEF FileGood
<1>10. \A u \in Threads : calls[u].todo \subseteq Fds /\ calls[u].todo \subseteq calls[u].on
  BY <1>1, CallUpdate DEF CallsInv
<1>11. CallsGood'
  <2>1. ASSUME NEW u \in Threads
        PROVE  /\ \A e \in calls'[u].on : u \in UsersOf[e]
               /\ calls'[u].op # "wait" /\ calls'[u].at = "reading" =>
                    \A e \in calls'[u].todo :
                      UsersOf[e] = {u} => files'[e].unseen > 0 \/ ~files'[e].live
    <3>1. CASE u = t
      <4>1. CASE calls[t].todo = {f}
        BY <1>2, <1>7, <3>1, <4>1
      <4>2. CASE calls[t].todo # {f}
        BY <1>1, <1>3, <1>5, <1>7, <1>10, <3>1, <4>2 DEF CallsGood
      <4> QED
        BY <4>1, <4>2
    <3>2. CASE u # t
      <4>1. calls'[u] = calls[u]
        BY <1>7, <3>2
      <4>2. t \in UsersOf[f]
        BY <1>1, <1>4 DEF CallsGood
      <4>3. ASSUME NEW e \in calls[u].todo, UsersOf[e] = {u},
                   files[e].unseen > 0 \/ ~files[e].live
            PROVE  files'[e].unseen > 0 \/ ~files'[e].live
        BY <1>5, <1>10, <3>2, <4>2, <4>3
      <4> QED
        BY <1>1, <4>1, <4>3 DEF CallsGood
    <3> QED
      BY <3>1, <3>2
  <2> QED
    BY <2>1 DEF CallsGood
<1> QED
  BY <1>8, <1>9, <1>11 DEF FilesGood

\* A new file is not counted yet, and no call was about its descriptor.
LEMMA OpenDelivers ==
  ASSUME DeliveryInv, EventsInv', NEW t \in Threads,
         NEW f \in Fds, NEW d \in Devs, NEW k \in FileKinds, Open(t, f, d, k)
  PROVE  FilesGood' /\ CallsGood'
<1> DEFINE h == [dev |-> d, kind |-> k, live |-> TRUE,
                 seen |-> IF k = "uio" THEN counter[d][k] ELSE 0,
                 unseen |-> IF k = "uio" THEN 0 ELSE counter[d][k],
                 owed |-> FALSE, quiet |-> FALSE]
           c == [op |-> "open", at |-> "entered", on |-> {f}, todo |-> {}]
<1>1. EventsTypeOK /\ CallsInv /\ FilesGood /\ CallsGood
  BY DEF DeliveryInv, EventsInv
<1>2. /\ calls[t] = NoCall /\ ~IsOpen(f) /\ t \in UsersOf[f] /\ k \in held[d]
      /\ files' = [files EXCEPT ![f] = h] /\ calls' = [calls EXCEPT ![t] = c]
      /\ UNCHANGED <<udd, held, phase, enabled, irqh, due, relay, counter, opens>>
  BY DEF Open, Idle, deviceVars, irqVars
<1>3. /\ h.dev = d /\ h.kind = k /\ h.live /\ ~h.quiet
      /\ \/ h.seen = counter[d][k] /\ h.unseen = 0
         \/ h.seen = 0 /\ h.unseen = counter[d][k]
  OBVIOUS
<1>4. c.op = "open" /\ c.at = "entered" /\ c.on = {f} /\ c.todo = {}
  OBVIOUS
<1> HIDE DEF h, c
<1>5. /\ files'[f] = h /\ \A e \in Fds \ {f} : files'[e] = files[e]
      /\ calls'[t] = c /\ \A u \in Threads \ {t} : calls'[u] = calls[u]
  BY <1>1, <1>2 DEF EventsTypeOK
<1>6. ASSUME NEW e \in Fds, Served(e)', e # f
      PROVE  FileGood(e)'
  <2>1. Served(e) /\ files'[e] = files[e]
    BY <1>5, <1>6 DEF Served, IsOpen
  <2>2. files[e].quiet => ~enabled'[files[e].dev]
    BY <1>1, <1>2, <2>1 DEF FilesGood, FileGood
  <2>3. calls[t].op # "open"
    BY <1>2 DEF NoCall
  <2> QED
    BY <1>2, <1>5, <2>1, <2>2, <2>3, CallKeepsFile
<1>7. FileGood(f)'
  <2>1. Entering(f)' /\ Opening(f)'
    BY <1>4, <1>5 DEF Entering, Opening
  <2>2. counter[d][k] \in 0 .. CountMod - 1
    BY <1>1 DEF EventsTypeOK
  <2>3. counter[d][k] = counter[d][k] + 0 /\ counter[d][k] = 0 + counter[d][k]
    BY <2>2
  <2>4. counter[d][k] = h.seen + h.unseen
    BY <1>3, <2>3
  <2>5. InStep(files[f])'
    BY <1>2, <1>3, <1>5, <2>4 DEF InStep
  <2>6. ~CountedFile(f)'
    BY <2>1 DEF CountedFile
  <2> QED
    BY <1>2, <1>3, <1>5, <2>1, <2>5, <2>6 DEF FileGood
<1>8. \A u \in Threads : /\ f \notin calls[u].on /\ calls[u].on \subseteq Fds
                        /\ calls[u].todo \subseteq calls[u].on
  BY <1>1, <1>2, CallUpdate DEF CallsInv
<1>9. CallsGood'
  <2>1. ASSUME NEW u \in Threads
        PROVE  /\ \A e \in calls'[u].on : u \in UsersOf[e]
               /\ calls'[u].op # "wait" /\ calls'[u].at = "reading" =>
                    \A e \in calls'[u].todo :
                      UsersOf[e] = {u} => files'[e].unseen > 0 \/ ~files'[e].live
    <3>1. CASE u = t
      BY <1>2, <1>4, <1>5, <3>1
    <3>2. CASE u # t
      <4>1. \A e \in calls[u].todo : files'[e] = files[e]
        BY <1>5, <1>8
      <4> QED
        BY <1>1, <1>5, <3>2, <4>1 DEF CallsGood
    <3> QED
      BY <3>1, <3>2
  <2> QED
    BY <2>1 DEF CallsGood
<1> QED
  BY <1>6, <1>7, <1>9 DEF FilesGood

\* Enabling ends the quiet of all files of the device; nothing else of a file changes.
LEMMA ControlDelivers ==
  ASSUME DeliveryInv, NEW t \in Threads, NEW f \in Fds, NEW on \in BOOLEAN,
         Control(t, f, on)
  PROVE  FilesGood' /\ CallsGood'
<1>1. EventsTypeOK /\ CallsInv /\ FilesGood /\ CallsGood
  BY DEF DeliveryInv, EventsInv
<1>2. /\ IsOpen(f)
      /\ enabled' = IF files[f].live /\ files[f].dev \in Maskable
                    THEN [enabled EXCEPT ![files[f].dev] = on] ELSE enabled
      /\ files' = [g \in Fds |->
           IF on /\ IsOpen(g) /\ files[g].dev = files[f].dev
           THEN [files[g] EXCEPT !.quiet = FALSE] ELSE files[g]]
      /\ UNCHANGED <<udd, held, phase, irqh, due, relay, counter, opens, calls>>
  BY DEF Control, Usable, Irqcontrol, deviceVars
<1>3. files[f].dev \in Devs
  BY <1>1, <1>2, OpenFileIsFile DEF File
<1>4. ASSUME NEW e \in Fds, IsOpen(e)
      PROVE  LET h == files[e]
                 g == files'[e]
             IN  /\ g.dev = h.dev /\ g.kind = h.kind /\ g.live = h.live
                 /\ g.seen = h.seen /\ g.unseen = h.unseen /\ g.owed = h.owed
                 /\ g.quiet => h.quiet
                 /\ on /\ h.dev = files[f].dev => ~g.quiet
  <2>1. files[e] \in File
    BY <1>1, <1>4, OpenFileIsFile
  <2>2. CASE on /\ files[e].dev = files[f].dev
    <3>1. files'[e] = [files[e] EXCEPT !.quiet = FALSE]
      BY <1>2, <1>4, <2>2
    <3> QED
      BY <2>1, <3>1 DEF File
  <2>3. CASE ~(on /\ files[e].dev = files[f].dev)
    <3>1. files'[e] = files[e]
      BY <1>2, <2>3
    <3> QED
      BY <2>3, <3>1
  <2> QED
    BY <2>2, <2>3
<1>5. \A e \in Fds : IsOpen(e)' <=> IsOpen(e)
  <2> SUFFICES ASSUME NEW e \in Fds, IsOpen(e)  PROVE  files'[e] # NULL
    BY <1>2 DEF IsOpen
  <2>1. files[e] \in File
    BY <1>1, OpenFileIsFile
  <2>2. [files[e] EXCEPT !.quiet = FALSE] \in File
    BY <2>1 DEF File
  <2> QED
    BY <1>2, <2>1, <2>2, NullAssumption
<1>6. ASSUME NEW e \in Fds, Served(e)'
      PROVE  FileGood(e)'
  <2> DEFINE h == files[e]
             g == files'[e]
  <2>1. Served(e) /\ FileGood(e)
    BY <1>1, <1>4, <1>5, <1>6 DEF Served, FilesGood
  <2>2. /\ g.dev = h.dev /\ g.kind = h.kind /\ g.live = h.live
        /\ g.seen = h.seen /\ g.unseen = h.unseen /\ g.owed = h.owed
        /\ g.quiet => h.quiet
        /\ on /\ h.dev = files[f].dev => ~g.quiet
    BY <1>4, <2>1 DEF Served
  <2>3. h.dev \in Devs
    BY <1>1, <2>1, OpenFileIsFile DEF Served, File
  <2>4. (Opening(e)' <=> Opening(e)) /\ (Entering(e)' <=> Entering(e))
    BY <1>2 DEF Opening, Entering
  <2>5. CountedFile(e)' <=> CountedFile(e)
    BY <1>5, <2>4 DEF CountedFile
  <2>6. Readable(e)' <=> Readable(e)
    BY <1>2, <2>2 DEF Readable
  <2>7. NoticesOf(e)' = NoticesOf(e) /\ OwnKind' = OwnKind
    BY <1>2, <2>2, NoticesKept DEF OwnKind
  <2>8. InStep(files[e])'
    BY <1>2, <2>1, <2>2 DEF InStep, FileGood
  <2>9. g.quiet => h.dev \in Maskable /\ ~enabled'[h.dev]
    BY <1>1, <1>2, <1>3, <2>1, <2>2, <2>3 DEF FileGood, EventsTypeOK
  <2> QED
    BY <1>2, <2>1, <2>2, <2>4, <2>5, <2>6, <2>7, <2>8, <2>9 DEF FileGood
<1>7. \A u \in Threads : calls[u].todo \subseteq Fds /\ calls[u].todo \subseteq calls[u].on
  BY <1>1, CallUpdate DEF CallsInv
<1>8. \A u \in Threads : \A e \in calls[u].todo :
         files'[e].unseen = files[e].unseen /\ files'[e].live = files[e].live
  BY <1>1, <1>4, <1>7 DEF CallsInv
<1>9. CallsGood'
  BY <1>1, <1>2, <1>8 DEF CallsGood
<1> QED
  BY <1>6, <1>9 DEF FilesGood

LEMMA CloseDelivers ==
  ASSUME DeliveryInv, NEW t \in Threads, NEW f \in Fds, Close(t, f)
  PROVE  FilesGood' /\ CallsGood'
<1>1. EventsTypeOK /\ CallsInv /\ FilesGood /\ CallsGood
  BY DEF DeliveryInv, EventsInv
<1>2. /\ \A u \in Threads : f \notin calls[u].on
      /\ files' = [files EXCEPT ![f] = NULL]
      /\ UNCHANGED <<udd, held, phase, enabled, irqh, due, relay, counter, calls>>
  BY DEF Close, Busy, deviceVars, irqVars
<1>3. files'[f] = NULL /\ \A e \in Fds \ {f} : files'[e] = files[e]
  BY <1>1, <1>2 DEF EventsTypeOK
<1>4. ASSUME NEW e \in Fds, Served(e)'
      PROVE  FileGood(e)'
  <2>1. e # f /\ Served(e) /\ files'[e] = files[e]
    BY <1>3, <1>4 DEF Served, IsOpen
  <2>2. files[e].quiet => ~enabled'[files[e].dev]
    BY <1>1, <1>2, <2>1 DEF FilesGood, FileGood
  <2>3. \A u \in Threads : calls'[u] = calls[u]
    BY <1>2
  <2> QED
    BY <1>2, <2>1, <2>2, <2>3, CallKeepsFile
<1>5. \A u \in Threads : calls[u].todo \subseteq Fds /\ calls[u].todo \subseteq calls[u].on
  BY <1>1, CallUpdate DEF CallsInv
<1>6. \A u \in Threads : \A e \in calls[u].todo : files'[e] = files[e]
  BY <1>2, <1>3, <1>5
<1>7. CallsGood'
  BY <1>1, <1>2, <1>6 DEF CallsGood
<1> QED
  BY <1>4, <1>7 DEF FilesGood

-----------------------------------------------------------------------------
(* The theorems *)

LEMMA DeliveryInvInit == EventsInit => DeliveryInv
<1> SUFFICES ASSUME EventsInit  PROVE  DeliveryInv
  OBVIOUS
<1>1. EventsInv
  BY EventsInvInit
<1>2. \A f \in Fds : ~Served(f)
  BY DEF EventsInit, Served, IsOpen
<1>3. \A t \in Threads : calls[t].on = {} /\ calls[t].todo = {}
  BY DEF EventsInit, NoCall
<1> QED
  BY <1>1, <1>2, <1>3 DEF DeliveryInv, FilesGood, CallsGood

LEMMA DeliveryInvStep == DeliveryInv /\ [EventsNext]_eventsVars => DeliveryInv'
<1> SUFFICES ASSUME DeliveryInv, [EventsNext]_eventsVars  PROVE  DeliveryInv'
  OBVIOUS
<1>1. EventsInv'
  BY EventsInvStep DEF DeliveryInv
<1>2. ASSUME NEW d \in Devs,
             \/ RegisterBegin(d) \/ UnregisterBegin(d) \/ DeviceStep(d)
             \/ InterruptRegister(d) \/ InterruptUnregister(d)
             \/ InterruptStep(d) \/ NotifyStep(d) \/ Relay(d)
      PROVE  FilesGood' /\ CallsGood'
  BY <1>1, <1>2, DeviceDelivers, CleanupDelivers, InterruptDelivers, RelayDelivers,
     IrqHandlerDelivers DEF DeviceStep
<1>3. ASSUME NEW t \in Threads, CallStep(t)
      PROVE  FilesGood' /\ CallsGood'
  <2>1. CASE CountOpen(t)
    BY <2>1, CountOpenDelivers
  <2>2. CASE OpenDisable(t)
    BY <2>2, OpenDisableDelivers
  <2>3. CASE \E f \in Fds : Read(t, f)
    BY <2>3, ReadDelivers
  <2>4. CASE Select(t) \/ Timeout(t) \/ \E f \in Fds : ReadFails(t, f)
    BY <2>4, CallsOnlyDeliver
  <2> QED
    BY <1>3, <2>1, <2>2, <2>3, <2>4 DEF CallStep
<1>4. ASSUME NEW t \in Threads, NewCall(t)
      PROVE  FilesGood' /\ CallsGood'
  <2>1. CASE \E f \in Fds, d \in Devs, k \in FileKinds : Open(t, f, d, k)
    BY <1>1, <2>1, OpenDelivers
  <2>2. CASE \E f \in Fds : Close(t, f)
    BY <2>2, CloseDelivers
  <2>3. CASE \E f \in Fds, on \in BOOLEAN : Control(t, f, on)
    BY <2>3, ControlDelivers
  <2>4. CASE (\E f \in Fds : Wait(t, f)) \/ \E S \in SUBSET Fds : TimedWait(t, S)
    BY <2>4, CallsOnlyDeliver
  <2> QED
    BY <1>4, <2>1, <2>2, <2>3, <2>4 DEF NewCall
<1>5. CASE UNCHANGED eventsVars
  <2>1. UNCHANGED <<files, calls, counter, due, relay, enabled, udd, held, phase>>
    BY <1>5 DEF eventsVars, deviceVars, irqVars
  <2>2. FilesGood' /\ CallsGood'
    BY <2>1, DeliveryKept
  <2> QED
    BY <1>1, <2>2 DEF DeliveryInv
<1> QED
  BY <1>1, <1>2, <1>3, <1>4, <1>5 DEF EventsNext, DeliveryInv

LEMMA AttachedIsServed ==
  ASSUME DeliveryInv, NEW f \in Fds, Attached(f)
  PROVE  /\ Served(f) /\ FileGood(f) /\ ~Opening(f) /\ CountedFile(f)
         /\ phase[files[f].dev] = "idle"
<1>1. CallsInv
  BY DEF DeliveryInv, EventsInv
<1>2. Entering(f) => Opening(f)
  BY <1>1 DEF Entering, Opening, CallsInv
<1> QED
  BY <1>2 DEF Attached, Served, CountedFile, Registered, DeliveryInv, FilesGood

\* Whatever the kernel, the drivers and the other users of a device do, an event that
\* has happened while a file was open can be read there, or is on its way.
THEOREM NoEventIsLost == EventsSpec => []NoEventLost
<1>1. DeliveryInv => NoEventLost
  <2> SUFFICES ASSUME DeliveryInv, NEW f \in Fds, Attached(f), files[f].owed,
                      files[f].unseen < CountMod
               PROVE  Readable(f) \/ OnItsWay(files[f].dev, files[f].kind)
    BY DEF NoEventLost
  <2>1. Served(f) /\ FileGood(f) /\ CountedFile(f) /\ phase[files[f].dev] = "idle"
    BY AttachedIsServed
  <2>2. files[f].unseen > 0 \/ NoticesOf(f) > 0
    BY <2>1 DEF FileGood
  <2>3. EventsTypeOK /\ LadderInv /\ InStep(files[f])
    BY <2>1 DEF FileGood, DeliveryInv, EventsInv
  <2> QED
    BY <2>1, <2>2, <2>3, ReadableWhenUnseen, NoticesBounded DEF Served
<1> QED
  BY <1>1, DeliveryInvInit, DeliveryInvStep, PTL DEF EventsSpec

\* A read returns only for an event that the file has not reported before.
THEOREM NoEventIsMadeUp == EventsSpec => []NoPhantomEvent
<1>1. DeliveryInv => NoPhantomEvent
  <2> SUFFICES ASSUME DeliveryInv, NEW f \in Fds, Attached(f), Readable(f)
               PROVE  files[f].owed
    BY DEF NoPhantomEvent
  <2> QED
    BY AttachedIsServed DEF FileGood
<1> QED
  BY <1>1, DeliveryInvInit, DeliveryInvStep, PTL DEF EventsSpec

\* After cuddl_eventsrc_open() of a device that can be masked, what arrives before the
\* interrupt is enabled is at most what was on its way: the one interrupt that a handler
\* had taken care of and, under UDD, the one run of the relay.
THEOREM OpeningIsQuiet == EventsSpec => []QuietUntilEnabled
<1>1. DeliveryInv => QuietUntilEnabled
  <2> SUFFICES ASSUME DeliveryInv, NEW f \in Fds, Attached(f), files[f].quiet,
                      files[f].unseen < CountMod
               PROVE  files[f].unseen + NoticesFor(files[f].dev, files[f].kind)
                        <= IF files[f].kind = OwnKind THEN 1 ELSE 2
    BY DEF QuietUntilEnabled
  <2> QED
    BY AttachedIsServed DEF FileGood, NoticesOf
<1> QED
  BY <1>1, DeliveryInvInit, DeliveryInvStep, PTL DEF EventsSpec

\* A thread that has found its file ready in select() does not block in read().
THEOREM TimedCallsDoNotBlock == EventsSpec => []TimedCallNeverBlocks
<1>1. DeliveryInv => TimedCallNeverBlocks
  <2> SUFFICES ASSUME DeliveryInv, NEW t \in Threads, NEW f \in Fds,
                      calls[t].op # "wait", Reading(t, f), UsersOf[f] = {t},
                      files[f].unseen < CountMod, files[f].live
               PROVE  Readable(f)
    BY DEF TimedCallNeverBlocks
  <2>1. calls[t].at = "reading" /\ f \in calls[t].todo
    BY DEF Reading
  <2>2. files[f].unseen > 0
    BY <2>1 DEF DeliveryInv, CallsGood
  <2>3. Served(f)
    BY <2>1 DEF DeliveryInv, EventsInv, CallsInv, Served
  <2>4. EventsTypeOK /\ InStep(files[f])
    BY <2>3 DEF DeliveryInv, EventsInv, FilesGood, FileGood
  <2> QED
    BY <2>2, <2>3, <2>4, ReadableWhenUnseen
<1> QED
  BY <1>1, DeliveryInvInit, DeliveryInvStep, PTL DEF EventsSpec

-----------------------------------------------------------------------------
(* The promise of event sources: every step is one of CuddlNotices, or is not seen there *)

PromisedStep == [Promised!NoticesNext]_(Promised!noticesVars)

\* A step that shows nothing of f.
SameNotice(f) ==
  /\ SourceOf(f)' = SourceOf(f)
  /\ ArrivedOf(f)' = ArrivedOf(f)
  /\ ComingTo(f)' = ComingTo(f)
  /\ IsMuted(f)' <=> IsMuted(f)

LEMMA NothingShows ==
  ASSUME \A f \in Fds : SameNotice(f), \A t \in Threads : WaitsOn(t)' = WaitsOn(t)
  PROVE  PromisedStep
<1>1. [f \in Fds |-> SourceOf(f)]' = [f \in Fds |-> SourceOf(f)]
  BY DEF SameNotice
<1>2. [f \in Fds |-> ArrivedOf(f)]' = [f \in Fds |-> ArrivedOf(f)]
  BY DEF SameNotice
<1>3. [f \in Fds |-> ComingTo(f)]' = [f \in Fds |-> ComingTo(f)]
  BY DEF SameNotice
<1>4. {f \in Fds : IsMuted(f)}' = {f \in Fds : IsMuted(f)}
  BY DEF SameNotice
<1>5. [t \in Threads |-> WaitsOn(t)]' = [t \in Threads |-> WaitsOn(t)]
  OBVIOUS
<1> QED
  BY <1>1, <1>2, <1>3, <1>4, <1>5 DEF PromisedStep, Promised!noticesVars

LEMMA NotSubscribed ==
  ASSUME NEW f \in Fds, ~Subscribed(f), ~Subscribed(f)'
  PROVE  SameNotice(f)
BY DEF SameNotice, SourceOf, ArrivedOf, ComingTo, IsMuted

LEMMA SubscribedIsServed ==
  ASSUME DeliveryInv, NEW f \in Fds, Subscribed(f)
  PROVE  /\ Served(f) /\ FileGood(f) /\ CountedFile(f) /\ files[f] \in File
         /\ files[f].dev \in Devs /\ SourceOf(f) = files[f].dev /\ SourceOf(f) # NULL
         /\ ArrivedOf(f) = files[f].unseen /\ files[f].unseen \in 0 .. CountMod
<1>1. Served(f) /\ EventsTypeOK /\ CallsInv
  BY DEF Subscribed, Served, DeliveryInv, EventsInv
<1>2. FileGood(f)
  BY <1>1 DEF DeliveryInv, FilesGood
<1>3. CountedFile(f)
  BY <1>1 DEF Subscribed, CountedFile, Entering, Opening, CallsInv
<1>4. files[f] \in File
  BY <1>1, OpenFileIsFile DEF Served
<1>5. files[f].dev \in Devs /\ files[f].unseen \in 0 .. CountMod
  BY <1>4 DEF File
<1> QED
  BY <1>1, <1>2, <1>3, <1>4, <1>5, NullAssumption
     DEF SourceOf, ArrivedOf, NullAssumption

\* What of a file shows, and nothing else, decides.
LEMMA FileShowsNothing ==
  ASSUME NEW f \in Fds, IsOpen(f), IsOpen(f)',
         files'[f].dev = files[f].dev, files'[f].kind = files[f].kind,
         files'[f].live = files[f].live, files'[f].unseen = files[f].unseen,
         files'[f].quiet = files[f].quiet,
         Opening(f)' <=> Opening(f),
         phase'[files[f].dev] = "cleanup" <=> phase[files[f].dev] = "cleanup",
         udd' = udd, due'[files[f].dev] = due[files[f].dev],
         relay'[files[f].dev] = relay[files[f].dev]
  PROVE  SameNotice(f)
<1>1. Subscribed(f)' <=> Subscribed(f)
  BY DEF Subscribed
<1>2. ComingTo(f)' = ComingTo(f)
  BY <1>1, NoticesKept DEF ComingTo, NoticesOf
<1> QED
  BY <1>1, <1>2 DEF SameNotice, SourceOf, ArrivedOf, IsMuted

LEMMA OpeningKept ==
  ASSUME UNCHANGED calls
  PROVE  /\ \A f : Opening(f)' <=> Opening(f)
         /\ \A t : WaitsOn(t)' = WaitsOn(t)
BY DEF Opening, WaitsOn

\* A device begins to go.
LEMMA DeviceGoes ==
  ASSUME DeliveryInv, NEW d \in Devs, UNCHANGED <<udd, due, relay, files, calls>>,
         phase' = [phase EXCEPT ![d] = "cleanup"]
  PROVE  PromisedStep
<1>1. EventsTypeOK
  BY DEF DeliveryInv, EventsInv
<1>2. ASSUME NEW f \in Fds
      PROVE  IF SourceOf(f) = d
             THEN ~Subscribed(f)'
             ELSE SameNotice(f)
  <2>1. CASE Subscribed(f)
    <3>1. files[f].dev \in Devs /\ SourceOf(f) = files[f].dev
      BY <2>1, SubscribedIsServed
    <3>2. CASE files[f].dev = d
      BY <1>1, <3>1, <3>2 DEF Subscribed, EventsTypeOK
    <3>3. CASE files[f].dev # d
      <4>1. phase'[files[f].dev] = phase[files[f].dev]
        BY <1>1, <3>1, <3>3 DEF EventsTypeOK
      <4>2. IsOpen(f) /\ IsOpen(f)'
        BY <2>1 DEF Subscribed, IsOpen
      <4> QED
        BY <3>1, <3>3, <4>1, <4>2, OpeningKept, FileShowsNothing
    <3> QED
      BY <3>2, <3>3
  <2>2. CASE ~Subscribed(f)
    <3>1. SourceOf(f) # d
      BY <2>2, NullAssumption DEF SourceOf, NullAssumption
    <3>2. ~Subscribed(f)'
      <4>1. IsOpen(f) => files[f].dev \in Devs
        BY <1>1, OpenFileIsFile DEF File
      <4>2. IsOpen(f)' <=> IsOpen(f)
        BY DEF IsOpen
      <4> QED
        BY <1>1, <2>2, <4>1, <4>2, OpeningKept DEF Subscribed, EventsTypeOK
    <3> QED
      BY <2>2, <3>1, <3>2, NotSubscribed
  <2> QED
    BY <2>1, <2>2
<1> DEFINE S == {f \in Fds : SourceOf(f) = d}
<1>3. \A f \in Fds : /\ SourceOf(f)' = IF f \in S THEN NULL ELSE SourceOf(f)
                     /\ ArrivedOf(f)' = IF f \in S THEN 0 ELSE ArrivedOf(f)
                     /\ ComingTo(f)' = IF f \in S THEN 0 ELSE ComingTo(f)
                     /\ IsMuted(f)' <=> IsMuted(f) /\ f \notin S
  BY <1>2 DEF SameNotice, SourceOf, ArrivedOf, ComingTo, IsMuted
<1>4. Promised!FilesAt(d) = S
  BY DEF Promised!FilesAt
<1> HIDE DEF S
<1>5. [f \in Fds |-> SourceOf(f)]' =
        [f \in Fds |-> IF f \in S THEN NULL ELSE [g \in Fds |-> SourceOf(g)][f]]
  BY <1>3
<1>6. [f \in Fds |-> ArrivedOf(f)]' =
        [f \in Fds |-> IF f \in S THEN 0 ELSE [g \in Fds |-> ArrivedOf(g)][f]]
  BY <1>3
<1>7. /\ [f \in Fds |-> ComingTo(f)]' =
           [f \in Fds |-> IF f \in S THEN 0 ELSE [g \in Fds |-> ComingTo(g)][f]]
      /\ {f \in Fds : IsMuted(f)}' = {f \in Fds : IsMuted(f)} \ S
  BY <1>3
<1>8. [t \in Threads |-> WaitsOn(t)]' = [t \in Threads |-> WaitsOn(t)]
  BY OpeningKept
<1>9. Promised!Withdraw(d)
  BY <1>4, <1>5, <1>6, <1>7, <1>8 DEF Promised!Withdraw, Promised!Unsubscribe
<1> QED
  BY <1>9 DEF PromisedStep, Promised!NoticesNext

\* Phases other than that of d are left alone, and d does not begin or cease to go.
LEMMA PhaseShowsNothing ==
  ASSUME DeliveryInv, NEW d \in Devs, UNCHANGED <<udd, due, relay, files, calls>>,
         phase' \in [Devs -> {"idle", "registering", "cleanup"}],
         \A e \in Devs : phase'[e] = "cleanup" <=> phase[e] = "cleanup"
  PROVE  PromisedStep
<1>1. EventsTypeOK
  BY DEF DeliveryInv, EventsInv
<1>2. ASSUME NEW f \in Fds
      PROVE  SameNotice(f)
  <2>1. CASE IsOpen(f)
    <3>1. files[f].dev \in Devs /\ IsOpen(f)'
      BY <1>1, <2>1, OpenFileIsFile DEF File, IsOpen
    <3> QED
      BY <2>1, <3>1, OpeningKept, FileShowsNothing
  <2>2. CASE ~IsOpen(f)
    BY <2>2, NotSubscribed DEF Subscribed, IsOpen
  <2> QED
    BY <2>1, <2>2
<1> QED
  BY <1>2, OpeningKept, NothingShows

LEMMA DeviceKeepsPromise ==
  ASSUME DeliveryInv, EventsInv', NEW d \in Devs,
         \/ RegisterBegin(d) \/ UnregisterBegin(d) \/ RegisterStep(d) \/ RegisterFails(d)
  PROVE  PromisedStep
<1>1. EventsTypeOK /\ EventsTypeOK'
  BY DEF DeliveryInv, EventsInv
<1>2. phase' \in [Devs -> {"idle", "registering", "cleanup"}]
  BY <1>1 DEF EventsTypeOK
<1>3. UNCHANGED <<udd, due, relay, files, calls>>
  BY DEF RegisterBegin, UnregisterBegin, RegisterStep, RegisterFails
<1>4. ASSUME phase[d] # "cleanup", NEW p \in {"idle", "registering"},
             phase' = [phase EXCEPT ![d] = p]
      PROVE  PromisedStep
  <2>1. \A e \in Devs : phase'[e] = "cleanup" <=> phase[e] = "cleanup"
    BY <1>1, <1>4 DEF EventsTypeOK
  <2> QED
    BY <1>2, <1>3, <2>1, PhaseShowsNothing
<1>5. CASE RegisterBegin(d)
  BY <1>4, <1>5 DEF RegisterBegin
<1>6. CASE UnregisterBegin(d)
  BY <1>3, <1>6, DeviceGoes DEF UnregisterBegin
<1>7. CASE RegisterStep(d)
  <2>1. phase[d] = "registering"
        /\ phase' = [phase EXCEPT ![d] =
             IF NextRung(d) = Rungs[Len(Rungs)] THEN "idle" ELSE "registering"]
    BY <1>1, <1>7 DEF RegisterStep, EventsTypeOK
  <2> QED
    BY <1>4, <2>1
<1>8. CASE RegisterFails(d)
  <2>1. phase[d] = "registering"
    BY <1>8 DEF RegisterFails
  <2>2. CASE held[d] = {}
    BY <1>4, <1>8, <2>1, <2>2 DEF RegisterFails
  <2>3. CASE held[d] # {}
    BY <1>3, <1>8, <2>3, DeviceGoes DEF RegisterFails
  <2> QED
    BY <2>2, <2>3
<1> QED
  BY <1>5, <1>6, <1>7, <1>8

\* Nothing of a device that goes shows, nor of one that is gone.
LEMMA CleanupKeepsPromise ==
  ASSUME DeliveryInv, DeliveryInv', NEW d \in Devs, CleanupStep(d)
  PROVE  PromisedStep
<1> DEFINE r == TopRung(d)
<1>1. EventsTypeOK
  BY DEF DeliveryInv, EventsInv
<1>2. /\ UNCHANGED <<udd, due, calls>> /\ phase[d] = "cleanup"
      /\ held' = [held EXCEPT ![d] = @ \ {r}]
      /\ phase' = [phase EXCEPT ![d] = IF held[d] = {r} THEN "idle" ELSE @]
      /\ relay' = IF r = "sig" THEN [relay EXCEPT ![d] = FALSE] ELSE relay
      /\ files' = [f \in Fds |-> IF r = "uio" /\ f \in FilesOf(d, "uio")
                                 THEN Detached(f) ELSE files[f]]
  BY DEF CleanupStep, Undo
<1> HIDE DEF r
<1>3. \A f \in Fds : /\ IsOpen(f)' <=> IsOpen(f)
                     /\ IsOpen(f) => files'[f].dev = files[f].dev /\ files[f].dev \in Devs
  BY <1>1, CleanupKeepsTypes, OpenFileIsFile DEF File
<1>4. ASSUME NEW f \in Fds
      PROVE  SameNotice(f)
  <2>1. CASE ~IsOpen(f)
    BY <1>3, <2>1, NotSubscribed DEF Subscribed
  <2>2. CASE IsOpen(f) /\ files[f].dev = d
    <3>1. ~Subscribed(f)
      BY <1>2, <2>2 DEF Subscribed
    <3>2. ~Subscribed(f)'
      <4>1. SUFFICES ASSUME Subscribed(f)'  PROVE FALSE
        OBVIOUS
      <4>2. phase'[d] = "idle"
        BY <1>1, <1>2, <1>3, <2>2, <4>1 DEF Subscribed, EventsTypeOK
      <4>3. held'[d] = {}
        BY <1>1, <1>2, <4>2 DEF EventsTypeOK
      <4>4. Served(f)'
        BY <4>1 DEF Subscribed, Served
      <4>5. FileGood(f)'
        BY <4>4 DEF DeliveryInv, FilesGood
      <4>6. files'[f].kind \in held'[files'[f].dev]
        BY <4>5 DEF FileGood
      <4> QED
        BY <1>3, <2>2, <4>3, <4>6
    <3> QED
      BY <3>1, <3>2, NotSubscribed
  <2>3. CASE IsOpen(f) /\ files[f].dev # d
    <3>1. files'[f] = files[f]
      BY <1>2, <2>3 DEF FilesOf
    <3>2. files[f].dev \in Devs /\ IsOpen(f)'
      BY <1>3, <2>3
    <3>3. /\ phase'[files[f].dev] = phase[files[f].dev]
          /\ relay'[files[f].dev] = relay[files[f].dev]
      BY <1>1, <1>2, <2>3, <3>2 DEF EventsTypeOK
    <3> QED
      BY <1>2, <2>3, <3>1, <3>2, <3>3, OpeningKept, FileShowsNothing
  <2> QED
    BY <2>1, <2>2, <2>3
<1> QED
  BY <1>2, <1>4, OpeningKept, NothingShows

\* A file that is subscribed before and after, and what is on its way to it.
LEMMA ComingIsNotices ==
  ASSUME NEW f \in Fds
  PROVE  ComingTo(f) = IF Subscribed(f) THEN NoticesOf(f) ELSE 0
BY DEF ComingTo, NoticesOf

\* A notification brings the files of d of kind k what was on its way to them.
LEMMA ArrivalKeepsPromise ==
  ASSUME DeliveryInv, NEW d \in Devs, NEW k \in FileKinds,
         files' = Notified(files, d, k), UNCHANGED <<phase, calls>>,
         \A f \in Fds : IsOpen(f) =>
           NoticesOf(f) = NoticesOf(f)' + (IF f \in FilesOf(d, k) THEN 1 ELSE 0),
         \A f \in Fds : NoticesOf(f)' \in Nat
  PROVE  PromisedStep
<1> DEFINE S == {f \in Fds : Subscribed(f) /\ f \in FilesOf(d, k)}
<1>1. EventsTypeOK
  BY DEF DeliveryInv, EventsInv
<1>2. files \in [Fds -> Opened] /\ \A g \in Fds : SameFile(files, g)
  BY <1>1 DEF EventsTypeOK, Opened, SameFile, IsOpen
<1>3. ASSUME NEW f \in Fds, IsOpen(f)
      PROVE  LET h == files[f]
                 g == files'[f]
             IN  /\ g.dev = h.dev /\ g.kind = h.kind /\ g.live = h.live
                 /\ g.quiet = h.quiet
                 /\ IF f \in FilesOf(d, k) /\ h.live
                    THEN g.unseen = Capped(h.unseen) ELSE g = h
  BY <1>1, <1>2, <1>3, NotifiedFields
<1>4. \A f \in Fds : IsOpen(f)' <=> IsOpen(f)
  BY <1>1, <1>2, NotifiedKeepsFiles, EventsAssumption DEF SameFile, IsOpen
<1>5. \A f \in Fds : Subscribed(f)' <=> Subscribed(f)
  BY <1>3, <1>4, OpeningKept DEF Subscribed
<1>6. \A f \in Fds : SourceOf(f)' = SourceOf(f) /\ (IsMuted(f)' <=> IsMuted(f))
  BY <1>3, <1>5 DEF SourceOf, IsMuted, Subscribed
<1>7. ASSUME NEW f \in Fds
      PROVE  /\ ArrivedOf(f)' = IF f \in S THEN Capped(ArrivedOf(f)) ELSE ArrivedOf(f)
             /\ f \in S => ComingTo(f) > 0
             /\ ComingTo(f)' = IF f \in S THEN ComingTo(f) - 1 ELSE ComingTo(f)
  <2>1. CASE ~Subscribed(f)
    BY <1>5, <2>1, ComingIsNotices DEF ArrivedOf, ComingTo
  <2>2. CASE Subscribed(f)
    <3>1. IsOpen(f) /\ files[f].live /\ Subscribed(f)'
      BY <1>5, <2>2 DEF Subscribed
    <3>2. f \in S <=> f \in FilesOf(d, k)
      BY <2>2
    <3> HIDE DEF S
    <3>3. ArrivedOf(f)' = IF f \in S THEN Capped(ArrivedOf(f)) ELSE ArrivedOf(f)
      BY <1>3, <2>2, <3>1, <3>2 DEF ArrivedOf
    <3>4. ComingTo(f) = NoticesOf(f) /\ ComingTo(f)' = NoticesOf(f)'
      BY <2>2, <3>1 DEF ComingTo, NoticesOf
    <3>5. NoticesOf(f)' \in Nat /\ NoticesOf(f) = NoticesOf(f)' + (IF f \in S THEN 1 ELSE 0)
      BY <3>1, <3>2
    <3> QED
      BY <3>3, <3>4, <3>5
  <2> QED
    BY <2>1, <2>2
<1>8. S \in SUBSET Fds
  OBVIOUS
<1> HIDE DEF S
<1>9. [f \in Fds |-> ArrivedOf(f)]' = Promised!ArrivedAt(S)
  BY <1>7 DEF Promised!ArrivedAt, Promised!OneMore, Capped
<1>10. /\ [f \in Fds |-> ComingTo(f)]' = Promised!OneComingLess(S)
       /\ \A f \in S : [g \in Fds |-> ComingTo(g)][f] > 0
  BY <1>7, <1>8 DEF Promised!OneComingLess
<1>11. /\ [f \in Fds |-> SourceOf(f)]' = [f \in Fds |-> SourceOf(f)]
       /\ {f \in Fds : IsMuted(f)}' = {f \in Fds : IsMuted(f)}
       /\ [t \in Threads |-> WaitsOn(t)]' = [t \in Threads |-> WaitsOn(t)]
  BY <1>6, OpeningKept
<1>12. Promised!Arrive(S)
  BY <1>9, <1>10, <1>11 DEF Promised!Arrive
<1> QED
  BY <1>8, <1>12 DEF PromisedStep, Promised!NoticesNext

LEMMA RelayKeepsPromise ==
  ASSUME DeliveryInv, DeliveryInv', NEW d \in Devs, Relay(d)
  PROVE  PromisedStep
<1>1. EventsTypeOK /\ LadderInv /\ EventsTypeOK'
  BY DEF DeliveryInv, EventsInv
<1>2. \A f \in Fds : NoticesOf(f)' \in Nat
  BY DEF NoticesOf, NoticesFor
<1> QED
  BY <1>1, <1>2, RelayNotices, ArrivalKeepsPromise DEF Relay, deviceVars, FileKinds

LEMMA NotifyKeepsPromise ==
  ASSUME DeliveryInv, NEW d \in Devs, NotifyDevice(d)
  PROVE  PromisedStep
<1>1. EventsTypeOK
  BY DEF DeliveryInv, EventsInv
<1>2. \A f \in Fds : NoticesOf(f)' \in Nat
  BY DEF NoticesOf, NoticesFor
<1>3. PICK k \in FileKinds : k = OwnKind
  BY DEF OwnKind, FileKinds
<1>4. files' = Notified(files, d, k) /\ UNCHANGED <<phase, calls>>
  BY <1>3 DEF NotifyDevice, deviceVars
<1> QED
  BY <1>1, <1>2, <1>3, <1>4, NotifyNotices, ArrivalKeepsPromise

\* A relay that is pended already takes the new notice along; one that is not goes on its
\* way, for a file that is subscribed is counted as open.
LEMMA PendRelayKeepsPromise ==
  ASSUME DeliveryInv, NEW d \in Devs, PendRelay(d)
  PROVE  PromisedStep
<1> DEFINE S == {f \in Fds : Subscribed(f) /\ files[f].dev = d /\ files[f].kind = "uio"}
<1>1. UNCHANGED <<phase, files, calls>>
  BY DEF PendRelay, deviceVars
<1>2. \A f \in Fds : Subscribed(f)' <=> Subscribed(f)
  BY <1>1, OpeningKept DEF Subscribed, IsOpen
<1>3. \A f \in Fds : /\ SourceOf(f)' = SourceOf(f) /\ ArrivedOf(f)' = ArrivedOf(f)
                     /\ IsMuted(f)' <=> IsMuted(f)
  BY <1>1, <1>2 DEF SourceOf, ArrivedOf, IsMuted
<1>4. ASSUME NEW f \in Fds
      PROVE  IF f \in S
             THEN ComingTo(f) = 1 + (IF relay[d] THEN 1 ELSE 0) /\ ComingTo(f)' = 1
             ELSE ComingTo(f)' = ComingTo(f)
  <2>1. CASE ~Subscribed(f)
    BY <1>2, <2>1 DEF ComingTo
  <2>2. CASE Subscribed(f)
    <3>1. IsOpen(f) /\ Served(f) /\ CountedFile(f) /\ Subscribed(f)'
      BY <1>2, <2>2, SubscribedIsServed DEF Subscribed
    <3>2. ComingTo(f) = NoticesOf(f) /\ ComingTo(f)' = NoticesOf(f)'
      BY <2>2, <3>1 DEF ComingTo, NoticesOf
    <3> QED
      BY <2>2, <3>1, <3>2, PendRelayNotices
  <2> QED
    BY <2>1, <2>2
<1>5. S \in SUBSET Fds
  OBVIOUS
<1> HIDE DEF S
<1>6. CASE relay[d]
  <2>1. /\ [f \in Fds |-> ComingTo(f)]' = Promised!OneComingLess(S)
        /\ \A f \in S : [g \in Fds |-> ComingTo(g)][f] > 1
    BY <1>4, <1>5, <1>6 DEF Promised!OneComingLess
  <2>2. /\ [f \in Fds |-> SourceOf(f)]' = [f \in Fds |-> SourceOf(f)]
        /\ [f \in Fds |-> ArrivedOf(f)]' = [f \in Fds |-> ArrivedOf(f)]
        /\ {f \in Fds : IsMuted(f)}' = {f \in Fds : IsMuted(f)}
        /\ [t \in Threads |-> WaitsOn(t)]' = [t \in Threads |-> WaitsOn(t)]
    BY <1>1, <1>3, OpeningKept
  <2>3. Promised!Merge(S)
    BY <2>1, <2>2 DEF Promised!Merge
  <2> QED
    BY <1>5, <2>3 DEF PromisedStep, Promised!NoticesNext
<1>7. CASE ~relay[d]
  <2>1. \A f \in Fds : ComingTo(f)' = ComingTo(f)
    BY <1>4, <1>7
  <2>2. \A f \in Fds : SameNotice(f)
    BY <1>3, <2>1 DEF SameNotice
  <2> QED
    BY <1>1, <2>2, OpeningKept, NothingShows
<1> QED
  BY <1>6, <1>7

\* Notice of what a handler has taken care of is on its way to everything that is
\* subscribed to d, none of which is muted.
LEMMA HandledKeepsPromise ==
  ASSUME DeliveryInv, NEW d \in Devs, Handled(d), held[d] = AllRungs
  PROVE  PromisedStep
<1> DEFINE here == {f \in Fds : Subscribed(f) /\ files[f].dev = d}
<1>1. EventsTypeOK /\ LadderInv
  BY DEF DeliveryInv, EventsInv
<1>2. enabled[d] /\ files' = Owing(d) /\ UNCHANGED <<phase, calls>>
  BY DEF Handled, deviceVars
<1>3. ASSUME NEW f \in Fds, IsOpen(f)
      PROVE  LET h == files[f]
                 g == files'[f]
             IN  /\ g.dev = h.dev /\ g.kind = h.kind /\ g.live = h.live
                 /\ g.unseen = h.unseen /\ g.quiet = h.quiet
  BY <1>1, <1>2, <1>3, OwingFields
<1>4. \A f \in Fds : IsOpen(f)' <=> IsOpen(f)
  BY <1>1, HandledKeepsTypes DEF SameFile, IsOpen
<1>5. \A f \in Fds : Subscribed(f)' <=> Subscribed(f)
  BY <1>2, <1>3, <1>4, OpeningKept DEF Subscribed
<1>6. \A f \in Fds : /\ SourceOf(f)' = SourceOf(f) /\ ArrivedOf(f)' = ArrivedOf(f)
                     /\ IsMuted(f)' <=> IsMuted(f)
  BY <1>3, <1>5 DEF SourceOf, ArrivedOf, IsMuted, Subscribed
<1>7. ASSUME NEW f \in Fds
      PROVE  ComingTo(f)' = IF f \in here THEN ComingTo(f) + 1 ELSE ComingTo(f)
  <2>1. CASE ~Subscribed(f)
    BY <1>5, <2>1 DEF ComingTo
  <2>2. CASE Subscribed(f)
    <3>1. Served(f) /\ files[f].kind \in held[files[f].dev] /\ Subscribed(f)'
      BY <1>5, <2>2, SubscribedIsServed DEF FileGood
    <3>2. ComingTo(f) = NoticesOf(f) /\ ComingTo(f)' = NoticesOf(f)'
      BY <2>2, <3>1 DEF ComingTo, NoticesOf
    <3>3. NoticesOf(f) \in 0 .. 2
      BY <1>1, <3>1, NoticesBounded DEF Served
    <3>4. NoticesOf(f)' = NoticesOf(f) + (IF files[f].dev = d THEN 1 ELSE 0)
      BY <1>1, <3>1, HandledNotices
    <3> QED
      BY <2>2, <3>2, <3>3, <3>4
  <2> QED
    BY <2>1, <2>2
<1>8. Promised!FilesAt(d) = here
  BY NullAssumption DEF Promised!FilesAt, SourceOf, NullAssumption
<1>9. {f \in Fds : IsMuted(f)} \cap here = {}
  BY <1>2, SubscribedIsServed DEF IsMuted, FileGood
<1> HIDE DEF here
<1>10. [f \in Fds |-> ComingTo(f)]' =
         [f \in Fds |-> IF f \in here THEN [g \in Fds |-> ComingTo(g)][f] + 1
                        ELSE [g \in Fds |-> ComingTo(g)][f]]
  BY <1>7
<1>11. /\ [f \in Fds |-> SourceOf(f)]' = [f \in Fds |-> SourceOf(f)]
       /\ [f \in Fds |-> ArrivedOf(f)]' = [f \in Fds |-> ArrivedOf(f)]
       /\ {f \in Fds : IsMuted(f)}' = {f \in Fds : IsMuted(f)}
       /\ [t \in Threads |-> WaitsOn(t)]' = [t \in Threads |-> WaitsOn(t)]
  BY <1>2, <1>6, OpeningKept
<1>12. Promised!Happen(d)
  BY <1>8, <1>9, <1>10, <1>11 DEF Promised!Happen
<1> QED
  BY <1>12 DEF PromisedStep, Promised!NoticesNext

LEMMA InterruptKeepsPromise ==
  ASSUME DeliveryInv, NEW d \in Devs, InterruptStep(d) \/ NotifyStep(d)
  PROVE  PromisedStep
<1>1. EventsTypeOK /\ LadderInv
  BY DEF DeliveryInv, EventsInv
<1> QED
  BY <1>1, InterruptIsHandled, HandledKeepsPromise, PendRelayKeepsPromise,
     NotifyKeepsPromise DEF NotifyStep

LEMMA IrqHandlerKeepsPromise ==
  ASSUME DeliveryInv, NEW d \in Devs, InterruptRegister(d) \/ InterruptUnregister(d)
  PROVE  PromisedStep
<1>1. UNCHANGED <<udd, phase, due, relay, files, calls>> /\ EventsTypeOK
  BY DEF InterruptRegister, InterruptUnregister, deviceVars, DeliveryInv, EventsInv
<1> QED
  BY <1>1, PhaseShowsNothing DEF EventsTypeOK

-----------------------------------------------------------------------------
(* Calls keep the promise *)

\* The call of t begins, goes on or ends; f is not a file that it opens.
LEMMA OpeningOfOthers ==
  ASSUME NEW t \in Threads, \A u \in Threads \ {t} : calls'[u] = calls[u], NEW f \in Fds,
         calls[t].op = "open" => f \notin calls[t].on,
         calls'[t].op = "open" => f \notin calls'[t].on
  PROVE  Opening(f)' <=> Opening(f)
BY DEF Opening

LEMMA FileLeftAlone ==
  ASSUME NEW f \in Fds, files'[f] = files[f], UNCHANGED <<udd, phase, due, relay>>,
         Opening(f)' <=> Opening(f)
  PROVE  SameNotice(f)
<1>1. CASE IsOpen(f)
  BY <1>1, FileShowsNothing DEF IsOpen
<1>2. CASE ~IsOpen(f)
  BY <1>2, NotSubscribed DEF Subscribed, IsOpen
<1> QED
  BY <1>1, <1>2

\* What an open does before it returns.
LEMMA OpenGoesOn ==
  ASSUME DeliveryInv, NEW t \in Threads,
         \/ CountOpen(t) \/ OpenDisable(t) \/ Select(t)
         \/ \E f \in Fds, d \in Devs, k \in FileKinds : Open(t, f, d, k)
  PROVE  PromisedStep
<1>1. EventsTypeOK /\ CallsInv
  BY DEF DeliveryInv, EventsInv
<1>2. UNCHANGED <<udd, phase, due, relay>>
  BY DEF CountOpen, OpenDisable, Select, Open, deviceVars, irqVars
<1>3. /\ \A u \in Threads \ {t} : calls'[u] = calls[u]
      /\ \/ calls'[t].op = calls[t].op /\ calls'[t].on = calls[t].on
         \/ Idle(t) /\ calls'[t].op = "open"
  <2>1. CASE CountOpen(t) \/ OpenDisable(t) \/ Select(t)
    <3>1. calls' = [calls EXCEPT ![t].at = "counted"]
          \/ calls' = [calls EXCEPT ![t].at = "selecting"]
          \/ calls' = [calls EXCEPT ![t].at = "reading", ![t].todo = Ready(t)]
      BY <2>1 DEF CountOpen, OpenDisable, Select
    <3>2. calls[t] \in Call /\ calls \in [Threads -> Call]
      BY <1>1 DEF EventsTypeOK
    <3>3. \A u \in Threads \ {t} : calls'[u] = calls[u]
      BY <3>1, <3>2
    <3>4. \/ \E a : calls'[t] = [calls[t] EXCEPT !.at = a]
          \/ \E a, S : calls'[t] = [calls[t] EXCEPT !.at = a, !.todo = S]
      BY <3>1, <3>2
    <3>5. calls'[t].op = calls[t].op /\ calls'[t].on = calls[t].on
      BY <3>2, <3>4 DEF Call
    <3> QED
      BY <3>3, <3>5
  <2>2. CASE \E f \in Fds, d \in Devs, k \in FileKinds : Open(t, f, d, k)
    BY <1>1, <2>2 DEF Open, EventsTypeOK
  <2> QED
    BY <2>1, <2>2
<1>4. \A f \in Fds : \/ files'[f] = files[f]
                     \/ (Opening(f)' /\ (IsOpen(f) => Opening(f)))
  <2>1. CASE CountOpen(t) \/ OpenDisable(t)
    <3>1. /\ calls[t].op = "open" /\ calls'[t].op = "open" /\ calls'[t].on = calls[t].on
          /\ \A f \in Fds : f \notin calls[t].on => files'[f] = files[f]
      <4>1. calls[t].at \in {"entered", "counted"}
        BY <2>1 DEF CountOpen, OpenDisable
      <4>2. calls[t].op = "open" /\ ~Idle(t)
        BY <1>1, <4>1 DEF CallsInv, Idle, NoCall
      <4>3. PICK f \in calls[t].on :
              \E b : \/ files' = [files EXCEPT ![f].owed = b]
                    \/ files' = [files EXCEPT ![f].quiet = b]
        BY <2>1 DEF CountOpen, OpenDisable
      <4>4. \A g \in Fds : g # f => files'[g] = files[g]
        BY <1>1, <4>3 DEF EventsTypeOK
      <4> QED
        BY <1>3, <4>2, <4>3, <4>4
    <3> QED
      BY <3>1 DEF Opening
  <2>2. CASE Select(t)
    BY <2>2 DEF Select
  <2>3. ASSUME NEW f \in Fds, NEW d \in Devs, NEW k \in FileKinds, Open(t, f, d, k)
        PROVE  \A g \in Fds : files'[g] = files[g] \/ (Opening(g)' /\ ~IsOpen(g))
    <3>1. /\ calls'[t].op = "open" /\ f \in calls'[t].on /\ ~IsOpen(f)
          /\ \A g \in Fds \ {f} : files'[g] = files[g]
      BY <1>1, <2>3 DEF Open, EventsTypeOK
    <3>2. Opening(f)'
      BY <3>1 DEF Opening
    <3> QED
      BY <3>1, <3>2
  <2> QED
    BY <2>1, <2>2, <2>3
<1>5. ASSUME NEW f \in Fds
      PROVE  SameNotice(f)
  <2>1. Idle(t) => calls[t].op = "none"
    BY DEF Idle, NoCall
  <2>2. Opening(f) => Opening(f)'
    BY <1>3, <2>1 DEF Opening
  <2>3. CASE Opening(f)'
    <3>1. ~Subscribed(f)'
      BY <2>3 DEF Subscribed
    <3>2. ~Subscribed(f)
      <4>1. ASSUME ~Opening(f)  PROVE ~IsOpen(f)
        <5>1. calls'[t].op = "open" /\ f \in calls'[t].on /\ Idle(t)
          BY <1>3, <2>3, <4>1 DEF Opening
        <5>2. PICK d \in Devs, k \in FileKinds : Open(t, f, d, k)
          <6>1. calls[t].at = "idle"
            BY <5>1 DEF Idle, NoCall
          <6>2. PICK g \in Fds, d \in Devs, k \in FileKinds : Open(t, g, d, k)
            BY <6>1 DEF CountOpen, OpenDisable, Select
          <6>3. calls'[t].on = {g}
            BY <1>1, <6>2 DEF Open, EventsTypeOK
          <6> QED
            BY <5>1, <6>2, <6>3
        <5> QED
          BY <5>2 DEF Open
      <4> QED
        BY <4>1 DEF Subscribed
    <3> QED
      BY <3>1, <3>2, NotSubscribed
  <2>4. CASE ~Opening(f)'
    BY <1>2, <1>4, <2>2, <2>4, FileLeftAlone
  <2> QED
    BY <2>3, <2>4
<1>6. \A u \in Threads : WaitsOn(u)' = WaitsOn(u)
  <2>1. Idle(t) => WaitsOn(t) = {}
    BY DEF Idle, NoCall, WaitsOn
  <2> QED
    BY <1>3, <2>1 DEF WaitsOn
<1> QED
  BY <1>5, <1>6, NothingShows

\* An open returns: unless its device goes, its file is subscribed from now on, with what
\* was notified before taken.
LEMMA OpenReturns ==
  ASSUME DeliveryInv, DeliveryInv', NEW t \in Threads, calls[t].op = "open",
         calls' = [calls EXCEPT ![t] = NoCall], UNCHANGED <<udd, phase, due, relay>>,
         NEW f \in Fds, calls[t].on = {f}, \A g \in Fds \ {f} : files'[g] = files[g],
         Subscribed(f)' => files'[f].unseen \in {0, CountMod}
  PROVE  PromisedStep
<1>1. EventsTypeOK /\ CallsInv
  BY DEF DeliveryInv, EventsInv
<1>2. calls'[t] = NoCall /\ \A u \in Threads \ {t} : calls'[u] = calls[u]
  BY <1>1 DEF EventsTypeOK
<1>3. NoCall.op = "none" /\ NoCall.on = {}
  BY DEF NoCall
<1>4. Opening(f) /\ ~Subscribed(f)
  BY DEF Opening, Subscribed
<1>5. ASSUME NEW g \in Fds \ {f}
      PROVE  SameNotice(g)
  <2>1. Opening(g)' <=> Opening(g)
    BY <1>2, <1>3, OpeningOfOthers
  <2> QED
    BY <2>1, FileLeftAlone
<1>6. \A u \in Threads : WaitsOn(u)' = WaitsOn(u) /\ f \notin WaitsOn(u)
  <2>1. WaitsOn(t) = {} /\ WaitsOn(t)' = {}
    BY <1>2, <1>3 DEF WaitsOn
  <2>2. ASSUME NEW u \in Threads \ {t}
        PROVE  WaitsOn(u)' = WaitsOn(u) /\ f \notin WaitsOn(u)
    <3>1. calls[t].on \cap calls[u].on = {}
      BY <1>1 DEF CallsInv
    <3>2. f \notin calls[u].on
      BY <3>1
    <3> QED
      BY <1>2, <3>2 DEF WaitsOn
  <2> QED
    BY <2>1, <2>2
<1>7. CASE ~Subscribed(f)'
  <2>1. SameNotice(f)
    BY <1>4, <1>7, NotSubscribed
  <2> QED
    BY <1>5, <1>6, <2>1, NothingShows
<1>8. CASE Subscribed(f)'
  <2> DEFINE d == files'[f].dev
             n == files'[f].unseen
  <2>1. d \in Devs /\ n \in {0, CountMod}
    <3>1. EventsTypeOK'
      BY DEF DeliveryInv, EventsInv
    <3>2. files'[f] \in File
      BY <1>8, <3>1 DEF Subscribed, IsOpen, EventsTypeOK
    <3> QED
      BY <1>8, <3>2 DEF File
  <2>2. SourceOf(f) = NULL /\ SourceOf(f)' = d /\ ArrivedOf(f)' = n
    BY <1>4, <1>8 DEF SourceOf, ArrivedOf
  <2>3. ~IsMuted(f) /\ ComingTo(f)' \in 0 .. 2
    BY <1>4 DEF IsMuted, ComingTo, NoticesFor
  <2> HIDE DEF d, n
  <2>4. [g \in Fds |-> SourceOf(g)]' = [[g \in Fds |-> SourceOf(g)] EXCEPT ![f] = d]
    BY <1>5, <2>2 DEF SameNotice
  <2>5. [g \in Fds |-> ArrivedOf(g)]' = [[g \in Fds |-> ArrivedOf(g)] EXCEPT ![f] = n]
    BY <1>5, <2>2 DEF SameNotice
  <2>6. PICK m \in 0 .. 2 :
           [g \in Fds |-> ComingTo(g)]' = [[g \in Fds |-> ComingTo(g)] EXCEPT ![f] = m]
    BY <1>5, <2>3 DEF SameNotice
  <2>7. {g \in Fds : IsMuted(g)}'
          \in {{g \in Fds : IsMuted(g)}, {g \in Fds : IsMuted(g)} \cup {f}}
    BY <1>5, <2>3 DEF SameNotice
  <2>8. [u \in Threads |-> WaitsOn(u)]' = [u \in Threads |-> WaitsOn(u)]
    BY <1>6
  <2>9. [g \in Fds |-> SourceOf(g)][f] = NULL
    BY <2>2
  <2>10. \A u \in Threads : f \notin [v \in Threads |-> WaitsOn(v)][u]
    BY <1>6
  <2>11. Promised!Subscribe(f, d)
    BY <2>1, <2>4, <2>5, <2>6, <2>7, <2>8, <2>9, <2>10 DEF Promised!Subscribe
  <2> QED
    BY <2>1, <2>11 DEF PromisedStep, Promised!NoticesNext
<1> QED
  BY <1>7, <1>8

\* A step of a wait: no file is being opened by it, and none that it waits on by others.
LEMMA WaitIsNoOpen ==
  ASSUME DeliveryInv, NEW t \in Threads, \A u \in Threads \ {t} : calls'[u] = calls[u],
         calls[t].op # "open", calls'[t].op # "open"
  PROVE  /\ \A f \in Fds : Opening(f)' <=> Opening(f)
         /\ WaitsOn(t) = calls[t].on /\ WaitsOn(t)' = calls'[t].on
         /\ \A u \in Threads \ {t} : WaitsOn(u)' = WaitsOn(u)
         /\ \A f \in calls[t].on : ~Opening(f) /\ f \in Fds
<1>1. EventsTypeOK /\ CallsInv
  BY DEF DeliveryInv, EventsInv
<1>2. \A f \in calls[t].on : ~Opening(f) /\ f \in Fds
  BY <1>1, CallUpdate DEF Opening, CallsInv
<1>3. \A f \in Fds : Opening(f)' <=> Opening(f)
  BY OpeningOfOthers
<1> QED
  BY <1>2, <1>3 DEF WaitsOn

\* A wait that begins or ends, and changes nothing else.
LEMMA WaitShows ==
  ASSUME DeliveryInv, NEW t \in Threads, \A u \in Threads \ {t} : calls'[u] = calls[u],
         calls[t].op # "open", calls'[t].op # "open", UNCHANGED <<udd, phase, due, relay, files>>
  PROVE  /\ UNCHANGED <<[f \in Fds |-> SourceOf(f)], [f \in Fds |-> ArrivedOf(f)],
                        [f \in Fds |-> ComingTo(f)], {f \in Fds : IsMuted(f)}>>
         /\ [u \in Threads |-> WaitsOn(u)]' =
              [[u \in Threads |-> WaitsOn(u)] EXCEPT ![t] = calls'[t].on]
         /\ WaitsOn(t) = calls[t].on
<1>1. \A f \in Fds : SameNotice(f)
  BY WaitIsNoOpen, FileLeftAlone
<1>2. \A u \in Threads : WaitsOn(u)' = IF u = t THEN calls'[t].on ELSE WaitsOn(u)
  BY WaitIsNoOpen
<1>3. WaitsOn(t) = calls[t].on
  BY WaitIsNoOpen
<1>4. [f \in Fds |-> SourceOf(f)]' = [f \in Fds |-> SourceOf(f)]
  BY <1>1 DEF SameNotice
<1>5. [f \in Fds |-> ArrivedOf(f)]' = [f \in Fds |-> ArrivedOf(f)]
  BY <1>1 DEF SameNotice
<1>6. [f \in Fds |-> ComingTo(f)]' = [f \in Fds |-> ComingTo(f)]
  BY <1>1 DEF SameNotice
<1>7. {f \in Fds : IsMuted(f)}' = {f \in Fds : IsMuted(f)}
  BY <1>1 DEF SameNotice
<1>8. [u \in Threads |-> WaitsOn(u)]' =
        [[u \in Threads |-> WaitsOn(u)] EXCEPT ![t] = calls'[t].on]
  BY <1>2
<1> QED
  BY <1>3, <1>4, <1>5, <1>6, <1>7, <1>8

LEMMA CallBeginsKeepsPromise ==
  ASSUME DeliveryInv, NEW t \in Threads,
         \/ \E f \in Fds : Wait(t, f)
         \/ \E S \in SUBSET Fds : TimedWait(t, S)
  PROVE  PromisedStep
<1>1. EventsTypeOK
  BY DEF DeliveryInv, EventsInv
<1>2. calls[t].op = "none" /\ calls[t].on = {} /\ UNCHANGED <<udd, phase, due, relay, files>>
  BY DEF Wait, TimedWait, Idle, NoCall, deviceVars
<1>3. /\ \A u \in Threads \ {t} : calls'[u] = calls[u]
      /\ calls'[t].op # "open"
      /\ calls'[t].on \in SUBSET Fds /\ calls'[t].on # {}
  <2>1. CASE \E f \in Fds : Wait(t, f)
    BY <1>1, <2>1 DEF Wait, EventsTypeOK
  <2>2. CASE \E S \in SUBSET Fds : TimedWait(t, S)
    BY <1>1, <2>2 DEF TimedWait, EventsTypeOK
  <2> QED
    BY <2>1, <2>2
<1> DEFINE S == calls'[t].on
<1>4. [u \in Threads |-> WaitsOn(u)][t] = {}
  BY <1>2, <1>3, WaitShows
<1>5. S \in SUBSET Fds /\ S # {}
  BY <1>3
<1>6. /\ UNCHANGED <<[f \in Fds |-> SourceOf(f)], [f \in Fds |-> ArrivedOf(f)],
                     [f \in Fds |-> ComingTo(f)], {f \in Fds : IsMuted(f)}>>
      /\ [u \in Threads |-> WaitsOn(u)]' =
           [[u \in Threads |-> WaitsOn(u)] EXCEPT ![t] = S]
  BY <1>2, <1>3, WaitShows
<1> HIDE DEF S
<1>7. Promised!Call(t, S)
  BY <1>4, <1>5, <1>6 DEF Promised!Call
<1> QED
  BY <1>5, <1>7 DEF PromisedStep, Promised!NoticesNext

\* Nothing is ready when select() runs out of time, so nothing has certainly arrived.
LEMMA TimeoutKeepsPromise ==
  ASSUME DeliveryInv, DeliveryInv', NEW t \in Threads, Timeout(t)
  PROVE  PromisedStep
<1>1. EventsTypeOK /\ CallsInv
  BY DEF DeliveryInv, EventsInv
<1>2. /\ Ready(t) = {} /\ calls' = [calls EXCEPT ![t] = NoCall]
      /\ UNCHANGED <<udd, phase, due, relay, files>>
  BY DEF Timeout, Return, deviceVars
<1>3. NoCall.op = "none" /\ NoCall.on = {}
  BY DEF NoCall
<1>4. calls'[t] = NoCall /\ \A u \in Threads \ {t} : calls'[u] = calls[u]
  BY <1>1, <1>2 DEF EventsTypeOK
<1>5. ASSUME NEW f \in calls[t].on
      PROVE  f \in Fds /\ files[f].unseen \in {0, CountMod}
  <2>1. f \in Fds /\ Served(f) /\ ~Readable(f)
    BY <1>1, <1>2, <1>5, CallUpdate DEF Ready, Served, CallsInv
  <2>2. InStep(files[f]) /\ files[f] \in File
    BY <1>1, <2>1, OpenFileIsFile DEF DeliveryInv, FilesGood, FileGood, Served
  <2>3. files[f].unseen \in 0 .. CountMod /\ CountMod \in Nat
    BY <2>2, EventsAssumption DEF File, EventsAssumption
  <2>4. ~(files[f].unseen > 0 /\ files[f].unseen < CountMod)
    BY <1>1, <2>1, <2>2, ReadableWhenUnseen
  <2> QED
    BY <2>1, <2>3, <2>4
<1>6. CASE calls[t].op = "open"
  <2>1. PICK f \in Fds : calls[t].on = {f}
    BY <1>1, <1>6 DEF CallsInv
  <2> QED
    BY <1>2, <1>5, <1>6, <2>1, OpenReturns
<1>7. CASE calls[t].op # "open"
  <2>1. /\ UNCHANGED <<[f \in Fds |-> SourceOf(f)], [f \in Fds |-> ArrivedOf(f)],
                       [f \in Fds |-> ComingTo(f)], {f \in Fds : IsMuted(f)}>>
        /\ [u \in Threads |-> WaitsOn(u)]' =
             [[u \in Threads |-> WaitsOn(u)] EXCEPT ![t] = {}]
        /\ [u \in Threads |-> WaitsOn(u)][t] = calls[t].on
    BY <1>2, <1>3, <1>4, <1>7, WaitShows
  <2>2. CASE calls[t].on = {}
    <3>1. [u \in Threads |-> WaitsOn(u)]' = [u \in Threads |-> WaitsOn(u)]
      BY <2>1, <2>2
    <3> QED
      BY <2>1, <3>1 DEF PromisedStep, Promised!noticesVars
  <2>3. CASE calls[t].on # {}
    <3>1. \A f \in calls[t].on : ~Promised!Certain(f)
      <4> SUFFICES ASSUME NEW f \in calls[t].on  PROVE ~Promised!Certain(f)
        OBVIOUS
      <4>1. f \in Fds /\ ArrivedOf(f) \in {0, CountMod}
        BY <1>5 DEF ArrivedOf
      <4>2. CountMod \in Nat
        BY EventsAssumption DEF EventsAssumption
      <4> QED
        BY <4>1, <4>2 DEF Promised!Certain
    <3>2. Promised!GiveUp(t)
      BY <2>1, <2>3, <3>1 DEF Promised!GiveUp, Promised!WaitEnds
    <3> QED
      BY <3>2 DEF PromisedStep, Promised!NoticesNext
  <2> QED
    BY <2>2, <2>3
<1> QED
  BY <1>6, <1>7

\* A call fails on a file that is subscribed to nothing any more.
LEMMA FailureKeepsPromise ==
  ASSUME DeliveryInv, DeliveryInv', NEW t \in Threads, NEW f \in Fds, ReadFails(t, f)
  PROVE  PromisedStep
<1>1. EventsTypeOK /\ CallsInv
  BY DEF DeliveryInv, EventsInv
<1>2. /\ f \in calls[t].todo /\ ~files[f].live
      /\ calls' = [calls EXCEPT ![t] = NoCall]
      /\ UNCHANGED <<udd, phase, due, relay, files>>
  BY DEF ReadFails, Reading, Return, deviceVars
<1>3. NoCall.op = "none" /\ NoCall.on = {}
  BY DEF NoCall
<1>4. calls'[t] = NoCall /\ \A u \in Threads \ {t} : calls'[u] = calls[u]
  BY <1>1, <1>2 DEF EventsTypeOK
<1>5. f \in calls[t].on /\ ~Subscribed(f) /\ ~Subscribed(f)'
  BY <1>1, <1>2 DEF CallsInv, Subscribed
<1>6. CASE calls[t].op = "open"
  <2>1. calls[t].on = {f}
    BY <1>1, <1>5, <1>6 DEF CallsInv
  <2> QED
    BY <1>2, <1>5, <1>6, <2>1, OpenReturns
<1>7. CASE calls[t].op # "open"
  <2>1. /\ UNCHANGED <<[e \in Fds |-> SourceOf(e)], [e \in Fds |-> ArrivedOf(e)],
                       [e \in Fds |-> ComingTo(e)], {e \in Fds : IsMuted(e)}>>
        /\ [u \in Threads |-> WaitsOn(u)]' =
             [[u \in Threads |-> WaitsOn(u)] EXCEPT ![t] = {}]
        /\ [u \in Threads |-> WaitsOn(u)][t] = calls[t].on
    BY <1>2, <1>3, <1>4, <1>7, WaitShows
  <2>2. [e \in Fds |-> SourceOf(e)][f] = NULL
    BY <1>5 DEF SourceOf
  <2>3. Promised!Fail(t)
    BY <1>5, <2>1, <2>2 DEF Promised!Fail, Promised!WaitEnds
  <2> QED
    BY <2>3 DEF PromisedStep, Promised!NoticesNext
<1> QED
  BY <1>6, <1>7

\* A read returns what has arrived; the last one of an open leaves nothing from before.
LEMMA ReadKeepsPromise ==
  ASSUME DeliveryInv, DeliveryInv', NEW t \in Threads, NEW f \in Fds, Read(t, f)
  PROVE  PromisedStep
<1>1. EventsTypeOK /\ CallsInv
  BY DEF DeliveryInv, EventsInv
<1>2. /\ f \in calls[t].todo /\ Readable(f) /\ files' = Reported(f)
      /\ IF calls[t].todo = {f} THEN calls' = [calls EXCEPT ![t] = NoCall]
         ELSE calls' = [calls EXCEPT ![t].todo = @ \ {f}]
      /\ UNCHANGED <<udd, phase, due, relay>>
  BY DEF Read, Reading, Return, deviceVars
<1>3. f \in calls[t].on /\ Served(f)
  BY <1>1, <1>2 DEF CallsInv, Served, Readable
<1>4. /\ \A e \in Fds \ {f} : files'[e] = files[e]
      /\ files'[f].dev = files[f].dev /\ files'[f].kind = files[f].kind
      /\ files'[f].live = files[f].live /\ files'[f].unseen = 0
      /\ files'[f].quiet = files[f].quiet
      /\ IsOpen(f) /\ IsOpen(f)'
  <2>1. SameFile(Reported(f), f)
    BY <1>1, <1>3, ReportedKeepsFiles, EventsAssumption DEF Served
  <2> QED
    BY <1>1, <1>2, <1>3, <2>1, ReportedFields DEF Served, SameFile, IsOpen
<1>5. CASE calls[t].op = "open"
  <2>1. calls[t].on = {f} /\ calls[t].todo = {f}
    BY <1>1, <1>2, <1>3, <1>5 DEF CallsInv
  <2> QED
    BY <1>2, <1>4, <1>5, <2>1, OpenReturns
<1>6. CASE calls[t].op # "open"
  <2>1. NoCall.op = "none" /\ NoCall.on = {}
    BY DEF NoCall
  <2>2. /\ \A u \in Threads \ {t} : calls'[u] = calls[u]
        /\ calls'[t].op # "open"
        /\ calls'[t].on = {} \/ calls'[t].on = calls[t].on
    <3>1. CASE calls[t].todo = {f}
      BY <1>1, <1>2, <2>1, <3>1 DEF EventsTypeOK
    <3>2. CASE calls[t].todo # {f}
      <4> DEFINE c == [calls[t] EXCEPT !.todo = @ \ {f}]
      <4>1. calls[t] \in Call
        BY <1>1 DEF EventsTypeOK
      <4>2. c.op = calls[t].op /\ c.on = calls[t].on
        BY <4>1 DEF Call
      <4>3. calls' = [calls EXCEPT ![t] = c]
        BY <1>2, <3>2
      <4> HIDE DEF c
      <4>4. calls'[t] = c /\ \A u \in Threads \ {t} : calls'[u] = calls[u]
        BY <1>1, <4>3 DEF EventsTypeOK
      <4> QED
        BY <1>6, <4>2, <4>4
    <3> QED
      BY <3>1, <3>2
  <2>3. /\ \A g \in Fds : Opening(g)' <=> Opening(g)
        /\ WaitsOn(t) = calls[t].on /\ WaitsOn(t)' = calls'[t].on
        /\ \A u \in Threads \ {t} : WaitsOn(u)' = WaitsOn(u)
    BY <1>6, <2>2, WaitIsNoOpen
  <2>4. \A g \in Fds \ {f} : SameNotice(g)
    BY <1>2, <1>4, <2>3, FileLeftAlone
  <2>5. Subscribed(f)' <=> Subscribed(f)
    BY <1>2, <1>4, <2>3 DEF Subscribed
  <2>6. /\ SourceOf(f)' = SourceOf(f) /\ ArrivedOf(f)' = 0
        /\ ComingTo(f)' = ComingTo(f)
        /\ IsMuted(f)' <=> IsMuted(f)
    BY <1>2, <1>4, <2>5, NoticesKept DEF SourceOf, ArrivedOf, ComingTo, IsMuted, NoticesOf
  <2>7. SourceOf(f) # NULL => ArrivedOf(f) > 0
    <3> SUFFICES ASSUME Subscribed(f)  PROVE ArrivedOf(f) > 0
      BY DEF SourceOf
    <3>1. FileGood(f) /\ ArrivedOf(f) = files[f].unseen
      BY SubscribedIsServed
    <3> QED
      BY <1>1, <1>2, <1>3, <3>1, ReadableWhenUnseen DEF FileGood
  <2>8. [g \in Fds |-> SourceOf(g)]' = [g \in Fds |-> SourceOf(g)]
    BY <2>4, <2>6 DEF SameNotice
  <2>9. [g \in Fds |-> ArrivedOf(g)]' = [[g \in Fds |-> ArrivedOf(g)] EXCEPT ![f] = 0]
    BY <2>4, <2>6 DEF SameNotice
  <2>10. [g \in Fds |-> ComingTo(g)]' = [g \in Fds |-> ComingTo(g)]
    BY <2>4, <2>6 DEF SameNotice
  <2>11. {g \in Fds : IsMuted(g)}' = {g \in Fds : IsMuted(g)}
    BY <2>4, <2>6 DEF SameNotice
  <2>12. [u \in Threads |-> WaitsOn(u)]' \in
           {[u \in Threads |-> WaitsOn(u)], [[u \in Threads |-> WaitsOn(u)] EXCEPT ![t] = {}]}
    <3>1. CASE WaitsOn(t)' = WaitsOn(t)
      <4>1. [u \in Threads |-> WaitsOn(u)]' = [u \in Threads |-> WaitsOn(u)]
        BY <2>3, <3>1
      <4> QED
        BY <4>1
    <3>2. CASE WaitsOn(t)' = {}
      <4>1. [u \in Threads |-> WaitsOn(u)]' =
              [[u \in Threads |-> WaitsOn(u)] EXCEPT ![t] = {}]
        BY <2>3, <3>2
      <4> QED
        BY <4>1
    <3> QED
      BY <2>2, <2>3, <3>1, <3>2
  <2>13. f \in [u \in Threads |-> WaitsOn(u)][t]
    BY <1>3, <2>3
  <2>14. [g \in Fds |-> SourceOf(g)][f] # NULL => [g \in Fds |-> ArrivedOf(g)][f] > 0
    BY <2>7
  <2>15. Promised!Report(t, f)
    BY <2>8, <2>9, <2>10, <2>11, <2>12, <2>13, <2>14 DEF Promised!Report
  <2> QED
    BY <2>15 DEF PromisedStep, Promised!NoticesNext
<1> QED
  BY <1>5, <1>6

LEMMA ControlKeepsPromise ==
  ASSUME DeliveryInv, NEW t \in Threads, NEW f \in Fds, NEW on \in BOOLEAN,
         Control(t, f, on)
  PROVE  PromisedStep
<1> DEFINE d == files[f].dev
           here == {g \in Fds : Subscribed(g) /\ files[g].dev = d}
<1>1. EventsTypeOK
  BY DEF DeliveryInv, EventsInv
<1>2. /\ IsOpen(f) /\ UNCHANGED <<udd, phase, due, relay, calls>>
      /\ files' = [g \in Fds |-> IF on /\ IsOpen(g) /\ files[g].dev = d
                                 THEN [files[g] EXCEPT !.quiet = FALSE] ELSE files[g]]
  BY DEF Control, Usable, deviceVars
<1>3. d \in Devs
  BY <1>1, <1>2, OpenFileIsFile DEF File
<1> HIDE DEF d
<1>4. ASSUME NEW g \in Fds, IsOpen(g)
      PROVE  LET h == files[g]
                 i == files'[g]
             IN  /\ i.dev = h.dev /\ i.kind = h.kind /\ i.live = h.live
                 /\ i.unseen = h.unseen
                 /\ i.quiet = IF on /\ h.dev = d THEN FALSE ELSE h.quiet
                 /\ IsOpen(g)'
  <2>1. files[g] \in File
    BY <1>1, <1>4, OpenFileIsFile
  <2>2. CASE on /\ files[g].dev = d
    <3>1. files'[g] = [files[g] EXCEPT !.quiet = FALSE]
      BY <1>2, <1>4, <2>2
    <3>2. files'[g] \in File
      BY <2>1, <3>1 DEF File
    <3>3. files'[g] # NULL
      BY <3>2, NullAssumption DEF NullAssumption
    <3> QED
      BY <2>1, <2>2, <3>1, <3>3 DEF File, IsOpen
  <2>3. CASE ~(on /\ files[g].dev = d)
    BY <1>2, <1>4, <2>3 DEF IsOpen
  <2> QED
    BY <2>2, <2>3
<1>5. \A g \in Fds : Subscribed(g)' <=> Subscribed(g)
  <2>1. \A g \in Fds : IsOpen(g)' <=> IsOpen(g)
    BY <1>2, <1>4 DEF IsOpen
  <2> QED
    BY <1>2, <1>4, <2>1, OpeningKept DEF Subscribed
<1>6. \A g \in Fds : Subscribed(g) => IsOpen(g)
  BY DEF Subscribed
<1>7. \A g \in Fds : SourceOf(g)' = SourceOf(g) /\ ArrivedOf(g)' = ArrivedOf(g)
  BY <1>4, <1>5, <1>6 DEF SourceOf, ArrivedOf
<1>8. \A g \in Fds : ComingTo(g)' = ComingTo(g)
  BY <1>2, <1>4, <1>5, <1>6, NoticesKept DEF ComingTo, NoticesOf
<1>9. \A g \in Fds : IsMuted(g)' <=> IsMuted(g) /\ ~(on /\ g \in here)
  BY <1>4, <1>5, <1>6 DEF IsMuted
<1>10. Promised!FilesAt(d) = here
  BY <1>3, NullAssumption DEF Promised!FilesAt, SourceOf, NullAssumption
<1> HIDE DEF here
<1>11. CASE on
  <2>1. {g \in Fds : IsMuted(g)}' = {g \in Fds : IsMuted(g)} \ here
    BY <1>9, <1>11
  <2>2. /\ [g \in Fds |-> SourceOf(g)]' = [g \in Fds |-> SourceOf(g)]
        /\ [g \in Fds |-> ArrivedOf(g)]' = [g \in Fds |-> ArrivedOf(g)]
        /\ [g \in Fds |-> ComingTo(g)]' = [g \in Fds |-> ComingTo(g)]
        /\ [u \in Threads |-> WaitsOn(u)]' = [u \in Threads |-> WaitsOn(u)]
    BY <1>2, <1>7, <1>8, OpeningKept
  <2>3. Promised!Enable(d)
    BY <1>10, <2>1, <2>2 DEF Promised!Enable
  <2> QED
    BY <1>3, <2>3 DEF PromisedStep, Promised!NoticesNext
<1>12. CASE ~on
  <2>1. \A g \in Fds : SameNotice(g)
    BY <1>7, <1>8, <1>9, <1>12 DEF SameNotice
  <2> QED
    BY <1>2, <2>1, OpeningKept, NothingShows
<1> QED
  BY <1>11, <1>12

LEMMA CloseKeepsPromise ==
  ASSUME DeliveryInv, NEW t \in Threads, NEW f \in Fds, Close(t, f)
  PROVE  PromisedStep
<1>1. EventsTypeOK
  BY DEF DeliveryInv, EventsInv
<1>2. /\ files' = [files EXCEPT ![f] = NULL] /\ ~Busy(f)
      /\ UNCHANGED <<udd, phase, due, relay, calls>>
  BY DEF Close, deviceVars, irqVars
<1>3. \A g \in Fds \ {f} : SameNotice(g)
  BY <1>1, <1>2, OpeningKept, FileLeftAlone DEF EventsTypeOK
<1>4. ~Subscribed(f)'
  BY <1>1, <1>2 DEF Subscribed, IsOpen, EventsTypeOK
<1>5. SourceOf(f)' = NULL /\ ArrivedOf(f)' = 0 /\ ComingTo(f)' = 0 /\ ~IsMuted(f)'
  BY <1>4 DEF SourceOf, ArrivedOf, ComingTo, IsMuted
<1>6. [g \in Fds |-> SourceOf(g)]' =
        [g \in Fds |-> IF g \in {f} THEN NULL ELSE [e \in Fds |-> SourceOf(e)][g]]
  BY <1>3, <1>5 DEF SameNotice
<1>7. [g \in Fds |-> ArrivedOf(g)]' =
        [g \in Fds |-> IF g \in {f} THEN 0 ELSE [e \in Fds |-> ArrivedOf(e)][g]]
  BY <1>3, <1>5 DEF SameNotice
<1>8. [g \in Fds |-> ComingTo(g)]' =
        [g \in Fds |-> IF g \in {f} THEN 0 ELSE [e \in Fds |-> ComingTo(e)][g]]
  BY <1>3, <1>5 DEF SameNotice
<1>9. {g \in Fds : IsMuted(g)}' = {g \in Fds : IsMuted(g)} \ {f}
  BY <1>3, <1>5 DEF SameNotice
<1>10. [u \in Threads |-> WaitsOn(u)]' = [u \in Threads |-> WaitsOn(u)]
  BY <1>2, OpeningKept
<1>11. \A u \in Threads : f \notin [v \in Threads |-> WaitsOn(v)][u]
  BY <1>2 DEF Busy, WaitsOn
<1>12. Promised!CloseFile(f)
  BY <1>6, <1>7, <1>8, <1>9, <1>10, <1>11 DEF Promised!CloseFile, Promised!Unsubscribe
<1> QED
  BY <1>12 DEF PromisedStep, Promised!NoticesNext

-----------------------------------------------------------------------------

LEMMA EveryStepKeepsPromise ==
  DeliveryInv /\ DeliveryInv' /\ [EventsNext]_eventsVars => PromisedStep
<1> SUFFICES ASSUME DeliveryInv, DeliveryInv', [EventsNext]_eventsVars  PROVE PromisedStep
  OBVIOUS
<1>1. EventsInv'
  BY DEF DeliveryInv
<1>2. ASSUME NEW d \in Devs,
             \/ RegisterBegin(d) \/ UnregisterBegin(d) \/ DeviceStep(d)
             \/ InterruptRegister(d) \/ InterruptUnregister(d)
             \/ InterruptStep(d) \/ NotifyStep(d) \/ Relay(d)
      PROVE  PromisedStep
  BY <1>1, <1>2, DeviceKeepsPromise, CleanupKeepsPromise, InterruptKeepsPromise,
     RelayKeepsPromise, IrqHandlerKeepsPromise DEF DeviceStep
<1>3. ASSUME NEW t \in Threads, CallStep(t)
      PROVE  PromisedStep
  <2>1. CASE CountOpen(t) \/ OpenDisable(t) \/ Select(t)
    BY <2>1, OpenGoesOn
  <2>2. CASE Timeout(t)
    BY <2>2, TimeoutKeepsPromise
  <2>3. CASE \E f \in Fds : Read(t, f)
    BY <2>3, ReadKeepsPromise
  <2>4. CASE \E f \in Fds : ReadFails(t, f)
    BY <2>4, FailureKeepsPromise
  <2> QED
    BY <1>3, <2>1, <2>2, <2>3, <2>4 DEF CallStep
<1>4. ASSUME NEW t \in Threads, NewCall(t)
      PROVE  PromisedStep
  <2>1. CASE \E f \in Fds, d \in Devs, k \in FileKinds : Open(t, f, d, k)
    BY <2>1, OpenGoesOn
  <2>2. CASE \E f \in Fds : Close(t, f)
    BY <2>2, CloseKeepsPromise
  <2>3. CASE \E f \in Fds, on \in BOOLEAN : Control(t, f, on)
    BY <2>3, ControlKeepsPromise
  <2>4. CASE (\E f \in Fds : Wait(t, f)) \/ \E S \in SUBSET Fds : TimedWait(t, S)
    BY <2>4, CallBeginsKeepsPromise
  <2> QED
    BY <1>4, <2>1, <2>2, <2>3, <2>4 DEF NewCall
<1>5. CASE UNCHANGED eventsVars
  <2>1. UNCHANGED <<udd, phase, due, relay, files, calls>>
    BY <1>5 DEF eventsVars, deviceVars
  <2>2. \A f \in Fds : SameNotice(f)
    BY <2>1, OpeningKept, FileLeftAlone
  <2> QED
    BY <2>1, <2>2, OpeningKept, NothingShows
<1> QED
  BY <1>2, <1>3, <1>4, <1>5 DEF EventsNext

LEMMA PromisedInit == EventsInit => Promised!NoticesInit
<1> SUFFICES ASSUME EventsInit  PROVE  Promised!NoticesInit
  OBVIOUS
<1>1. \A f \in Fds : ~Subscribed(f)
  BY DEF EventsInit, Subscribed, IsOpen
<1>2. \A f \in Fds : SourceOf(f) = NULL /\ ArrivedOf(f) = 0 /\ ComingTo(f) = 0 /\ ~IsMuted(f)
  BY <1>1 DEF SourceOf, ArrivedOf, ComingTo, IsMuted
<1>3. \A t \in Threads : WaitsOn(t) = {}
  BY DEF EventsInit, WaitsOn, NoCall
<1>4. [f \in Fds |-> SourceOf(f)] = [f \in Fds |-> NULL]
  BY <1>2
<1>5. [f \in Fds |-> ArrivedOf(f)] = [f \in Fds |-> 0]
  BY <1>2
<1>6. [f \in Fds |-> ComingTo(f)] = [f \in Fds |-> 0] /\ {f \in Fds : IsMuted(f)} = {}
  BY <1>2
<1>7. [t \in Threads |-> WaitsOn(t)] = [t \in Threads |-> {}]
  BY <1>3
<1> QED
  BY <1>4, <1>5, <1>6, <1>7 DEF Promised!NoticesInit

\* For any devices, files and threads, on kernels with and without UDD: registration,
\* interrupts, the relay and the calls of the library implement the abstract delivery
\* of notices.
THEOREM EventsKeepTheirPromise == EventsSpec => ImplementsNotices
<1>1. EventsInit => DeliveryInv
  BY DeliveryInvInit
<1>2. DeliveryInv /\ [EventsNext]_eventsVars => DeliveryInv'
  BY DeliveryInvStep
<1>3. DeliveryInv /\ DeliveryInv' /\ [EventsNext]_eventsVars
        => [Promised!NoticesNext]_(Promised!noticesVars)
  BY EveryStepKeepsPromise DEF PromisedStep
<1>4. EventsInit => Promised!NoticesInit
  BY PromisedInit
<1> QED
  BY <1>1, <1>2, <1>3, <1>4, PTL DEF EventsSpec, ImplementsNotices, Promised!NoticesSpec
==============================================================================
