----------------------------- MODULE CuddlEvents -----------------------------
(***************************************************************************)
(* Event sources of Cuddl on Linux: the registration of a device with UIO  *)
(* and, in a kernel built with CUDDLK_USE_UDD, with Xenomai UDD; its       *)
(* interrupts; their notification to the files opened by user processes;   *)
(* and the waiting calls of the user library on those files.               *)
(*                                                                         *)
(* In a kernel with UDD an interrupt is handled in real-time context and   *)
(* notified to UDD files.  UIO files get to know of it through a "relay",  *)
(* an RTDM signal that runs event_nrtsig_handler() in Linux context later. *)
(* A relay that is pended twice before it runs runs once.                  *)
(*                                                                         *)
(* The driver's handler only returns.  Pending the relay and notifying the *)
(* kernel's own kind of device come after, and anything a process does on  *)
(* another CPU may come in between.                                        *)
(*                                                                         *)
(* A notification increments a counter of the device.  Every open file     *)
(* remembers the counter it has seen; read() blocks until the two differ.  *)
(* UIO, UDD, select() and interrupt delivery are external to Cuddl.  The   *)
(* fields unseen, owed and quiet of a file are not in the code: they       *)
(* record for the properties what happened to it.                          *)
(***************************************************************************)
EXTENDS Integers, FiniteSets, Sequences

CONSTANTS
  Devs,      \* devices with an event source, which is events[0] of each
  Fds,       \* file descriptors; a set wait reads them in ascending order
  Threads,   \* threads of user processes
  UsersOf,   \* UsersOf[f] : the threads that use the file opened as f
  CountMod,  \* event counters are numbers modulo CountMod (2^32 in the code)
  Maskable,  \* devices whose driver has enable() and disable() callbacks
  Custom,    \* devices whose intr.irq is CUDDLK_IRQ_CUSTOM, notified by the driver
  MaxStale,  \* bound on what an earlier registration left in uio_open_count
  NULL

ASSUME EventsAssumption ==
  /\ Fds \subseteq Nat /\ IsFiniteSet(Fds)
  /\ UsersOf \in [Fds -> SUBSET Threads]
  /\ CountMod \in Nat \ {0, 1}
  /\ MaxStale \in Nat
  /\ Maskable \subseteq Devs
  /\ Custom \subseteq Devs

VARIABLES
  udd,      \* whether the kernel is built with CUDDLK_USE_UDD
  held,     \* held[d] : what the registration of d has acquired
  phase,    \* phase[d] : "idle", "registering" or "cleanup"
  enabled,  \* enabled[d] : the hardware raises interrupts
  irqh,     \* irqh[d] : a stand-alone handler of d's driver is registered
  due,      \* due[d] : what is still to be done for an interrupt that has been handled
  relay,    \* relay[d] : nrt_sig of d is pended
  counter,  \* counter[d][k] : event counter of d's device of kind k
  opens,    \* opens[d][k] : uio_open_count and udd_open_count of d
  files,    \* open files by file descriptor
  calls     \* calls[t] : the library call thread t is in

deviceVars == <<udd, held, phase>>
irqVars == <<enabled, irqh>>
eventsVars == <<deviceVars, irqVars, due, relay, counter, opens, files, calls>>

FileKinds == {"uio", "udd"}
Rungs == IF udd THEN <<"name", "uio", "sig", "udd">> ELSE <<"name", "uio">>

File == [dev : Devs, kind : FileKinds,
         live : BOOLEAN,          \* its device is still registered
         seen : 0 .. CountMod - 1,
         unseen : 0 .. CountMod,  \* notifications since the last read
         owed : BOOLEAN,          \* an event has happened that no read reported
         quiet : BOOLEAN]         \* disabled by its open, not enabled since

ASSUME NullAssumption == NULL \notin File /\ NULL \notin Devs

\* A call on the file descriptors in on, with those in todo still to be read.
Call == [op : {"none", "open", "wait", "timed"},
         at : {"idle", "entered", "counted", "selecting", "reading"},
         on : SUBSET Fds, todo : SUBSET Fds]

NoCall == [op |-> "none", at |-> "idle", on |-> {}, todo |-> {}]

EventsTypeOK ==
  /\ udd \in BOOLEAN
  /\ held \in [Devs -> SUBSET {"name", "uio", "sig", "udd"}]
  /\ phase \in [Devs -> {"idle", "registering", "cleanup"}]
  /\ enabled \in [Devs -> BOOLEAN]
  /\ irqh \in [Devs -> BOOLEAN]
  /\ due \in [Devs -> SUBSET {"pend", "notify"}]
  /\ relay \in [Devs -> BOOLEAN]
  /\ counter \in [Devs -> [FileKinds -> 0 .. CountMod - 1]]
  /\ opens \in [Devs -> [FileKinds -> Int]]
  /\ files \in [Fds -> File \cup {NULL}]
  /\ calls \in [Threads -> Call]

EventsInit ==
  /\ udd \in BOOLEAN
  /\ held = [d \in Devs |-> {}]
  /\ phase = [d \in Devs |-> "idle"]
  /\ enabled \in [Devs -> BOOLEAN]
  /\ irqh = [d \in Devs |-> FALSE]
  /\ due = [d \in Devs |-> {}]
  /\ relay = [d \in Devs |-> FALSE]
  /\ counter = [d \in Devs |-> [k \in FileKinds |-> 0]]
  /\ opens = [d \in Devs |-> [k \in FileKinds |-> 0]]
  /\ files = [f \in Fds |-> NULL]
  /\ calls = [t \in Threads |-> NoCall]

-----------------------------------------------------------------------------
(* Registration of a device *)

IsOpen(f) == files[f] # NULL
FilesOf(d, k) == {f \in Fds : IsOpen(f) /\ files[f].dev = d /\ files[f].kind = k}

Registered(d) == phase[d] = "idle" /\ held[d] # {}

\* A call has opened f and has not yet come to increment the open count.
Entering(f) == \E t \in Threads : calls[t].at = "entered" /\ f \in calls[t].on

\* Bounded: no device is registered again with more than MaxStale left in its count.
RegisterBegin(d) ==
  /\ phase[d] = "idle" /\ held[d] = {}
  /\ opens[d]["uio"] <= MaxStale
  /\ phase' = [phase EXCEPT ![d] = "registering"]
  /\ UNCHANGED <<udd, held, irqVars, due, relay, counter, opens, files, calls>>

\* The kind of device that this kernel registers an interrupt with.
OwnKind == IF udd THEN "udd" ELSE "uio"

NextRung(d) == Rungs[Cardinality(held[d]) + 1]
TopRung(d) == Rungs[Cardinality(held[d])]

\* The open counts go on from where an earlier registration left them.
RegisterStep(d) ==
  /\ phase[d] = "registering"
  /\ held' = [held EXCEPT ![d] = @ \cup {NextRung(d)}]
  /\ phase' = [phase EXCEPT ![d] =
       IF NextRung(d) = Rungs[Len(Rungs)] THEN "idle" ELSE @]
  /\ UNCHANGED <<udd, irqVars, due, relay, counter, opens, files, calls>>

\* kasprintf(), UIO or UDD refuses; initialising the relay cannot fail.
RegisterFails(d) ==
  /\ phase[d] = "registering"
  /\ NextRung(d) # "sig"
  /\ phase' = [phase EXCEPT ![d] = IF held[d] = {} THEN "idle" ELSE "cleanup"]
  /\ UNCHANGED <<udd, held, irqVars, due, relay, counter, opens, files, calls>>

\* The driver has unregistered its stand-alone interrupt handler before.
UnregisterBegin(d) ==
  /\ Registered(d) /\ ~irqh[d]
  /\ phase' = [phase EXCEPT ![d] = "cleanup"]
  /\ UNCHANGED <<udd, held, irqVars, due, relay, counter, opens, files, calls>>

Detached(f) ==
  [files[f] EXCEPT !.live = FALSE, !.seen = 0, !.unseen = 0,
                   !.owed = FALSE, !.quiet = FALSE]

\* Giving up r.  Freeing the interrupt waits for its handler and what follows it.  UDD
\* waits for its open files; UIO waits for calls in its open and turns its open files
\* into files without a device.  The next UIO or UDD device counts from zero.
Undo(d, r) ==
  /\ r = OwnKind => due[d] = {}
  /\ r = "udd" => FilesOf(d, "udd") = {}
  /\ r = "uio" => \A f \in FilesOf(d, "uio") : files[f].live => ~Entering(f)
  /\ held' = [held EXCEPT ![d] = @ \ {r}]
  /\ phase' = [phase EXCEPT ![d] = IF held[d] = {r} THEN "idle" ELSE @]
  /\ relay' = IF r = "sig" THEN [relay EXCEPT ![d] = FALSE] ELSE relay
  /\ files' = [f \in Fds |-> IF r = "uio" /\ f \in FilesOf(d, "uio")
                             THEN Detached(f) ELSE files[f]]
  /\ counter' = IF r \in FileKinds THEN [counter EXCEPT ![d][r] = 0] ELSE counter
  /\ UNCHANGED <<udd, irqVars, due, opens, calls>>

\* Faulty variant: the relay is destroyed while UDD still delivers interrupts.
CleanupStepSigFirst(d) ==
  /\ phase[d] = "cleanup"
  /\ Undo(d, IF "sig" \in held[d] THEN "sig" ELSE TopRung(d))

\* One case of the switch in cuddlk_cleanup(), falling through to the next.
CleanupStep(d) ==
  /\ phase[d] = "cleanup"
  /\ Undo(d, TopRung(d))

-----------------------------------------------------------------------------
(* Interrupts and notification *)

CountedFile(f) == IsOpen(f) /\ ~Entering(f)

\* Faulty variant: a counter that does not wrap around.
IncNoWrap(n) == n + 1

Inc(n) == (n + 1) % CountMod
Capped(n) == IF n = CountMod THEN n ELSE n + 1

\* The device of kind k counts one notification.
Notified(fs, d, k) ==
  [f \in Fds |-> IF f \in FilesOf(d, k) /\ files[f].live
                 THEN [fs[f] EXCEPT !.unseen = Capped(@)] ELSE fs[f]]

\* For the properties: an event has happened for every file counted as open.
Owing(d) ==
  [f \in Fds |-> IF CountedFile(f) /\ files[f].dev = d /\ files[f].live
                 THEN [files[f] EXCEPT !.owed = TRUE] ELSE files[f]]

\* The hardware interrupts and the driver's handler takes care of it; it may mask the
\* interrupt.  One that returns NOT_HANDLED notifies nobody and changes nothing.  The
\* next interrupt of a device is not handled before the last one is done with.
Handled(d) ==
  /\ enabled[d] /\ due[d] = {}
  /\ due' = [due EXCEPT ![d] = IF udd THEN {"pend", "notify"} ELSE {"notify"}]
  /\ files' = Owing(d)
  /\ enabled' \in {enabled, [enabled EXCEPT ![d] = d \notin Maskable]}
  /\ UNCHANGED <<deviceVars, irqh, relay, counter, opens, calls>>

\* cuddlk_udd_interrupt_handler(), cuddlk_uio_interrupt_handler()
Interrupt(d) == d \notin Custom /\ OwnKind \in held[d] /\ Handled(d)

\* The stand-alone handler of the driver, which then calls cuddlk_eventsrc_notify().
CustomInterrupt(d) == irqh[d] /\ Handled(d)

\* Faulty variant: the relay is pended when a UDD file is open.
PendRelayForUdd(d) ==
  /\ "pend" \in due[d] /\ (d \in Custom => "notify" \notin due[d])
  /\ due' = [due EXCEPT ![d] = @ \ {"pend"}]
  /\ relay' = [relay EXCEPT ![d] = @ \/ opens[d]["udd"] > 0]
  /\ UNCHANGED <<deviceVars, irqVars, counter, opens, files, calls>>

\* The relay is pended if a UIO file is open: by the handler registered with UDD before
\* it returns, by cuddlk_eventsrc_notify() after it has notified UDD.
PendRelay(d) ==
  /\ "pend" \in due[d] /\ (d \in Custom => "notify" \notin due[d])
  /\ due' = [due EXCEPT ![d] = @ \ {"pend"}]
  /\ relay' = [relay EXCEPT ![d] = @ \/ opens[d]["uio"] > 0]
  /\ UNCHANGED <<deviceVars, irqVars, counter, opens, files, calls>>

\* udd_notify_event() or uio_event_notify(), by the caller of the handler or by
\* cuddlk_eventsrc_notify().
NotifyDevice(d) ==
  /\ "notify" \in due[d] /\ (d \notin Custom => "pend" \notin due[d])
  /\ due' = [due EXCEPT ![d] = @ \ {"notify"}]
  /\ counter' = [counter EXCEPT ![d][OwnKind] = Inc(@)]
  /\ files' = Notified(files, d, OwnKind)
  /\ UNCHANGED <<deviceVars, irqVars, relay, opens, calls>>

\* cuddlk_interrupt_register() and cuddlk_interrupt_unregister(), which waits for the
\* handler.
InterruptRegister(d) ==
  /\ d \in Custom /\ Registered(d) /\ ~irqh[d]
  /\ irqh' = [irqh EXCEPT ![d] = TRUE]
  /\ UNCHANGED <<deviceVars, enabled, due, relay, counter, opens, files, calls>>

InterruptUnregister(d) ==
  /\ irqh[d] /\ due[d] = {}
  /\ irqh' = [irqh EXCEPT ![d] = FALSE]
  /\ UNCHANGED <<deviceVars, enabled, due, relay, counter, opens, files, calls>>

\* event_nrtsig_handler()
Relay(d) ==
  /\ relay[d]
  /\ relay' = [relay EXCEPT ![d] = FALSE]
  /\ counter' = [counter EXCEPT ![d]["uio"] = Inc(@)]
  /\ files' = Notified(files, d, "uio")
  /\ UNCHANGED <<deviceVars, irqVars, due, opens, calls>>

-----------------------------------------------------------------------------
(* Files: the callbacks that UIO and UDD call *)

\* What is on its way to files of kind k of d: the relay runs, or the interrupt that has
\* been handled comes to notify them.
ByRelay(d, k) == k = "uio" /\ relay[d]
ByHandler(d, k) == (IF k = OwnKind THEN "notify" ELSE "pend") \in due[d]

OnItsWay(d, k) == ByRelay(d, k) \/ ByHandler(d, k)

NoticesFor(d, k) ==
  (IF ByRelay(d, k) THEN 1 ELSE 0) + (IF ByHandler(d, k) THEN 1 ELSE 0)

\* Faulty variant: the open count is not kept.
CountOpenNot(t) ==
  /\ calls[t].at = "entered"
  /\ calls' = [calls EXCEPT ![t].at = "counted"]
  /\ \E f \in calls[t].on :
       files' = [files EXCEPT ![f].owed = OnItsWay(files[f].dev, files[f].kind)]
  /\ UNCHANGED <<deviceVars, irqVars, due, relay, counter, opens>>

\* cuddlk_uio_eventsrc_or_mem_open(), cuddlk_udd_eventsrc_open()
CountOpen(t) ==
  /\ calls[t].at = "entered"
  /\ calls' = [calls EXCEPT ![t].at = "counted"]
  /\ \E f \in calls[t].on :
       /\ opens' = [opens EXCEPT ![files[f].dev][files[f].kind] = @ + 1]
       /\ files' = [files EXCEPT ![f].owed = OnItsWay(files[f].dev, files[f].kind)]
  /\ UNCHANGED <<deviceVars, irqVars, due, relay, counter>>

\* Faulty variant: the count goes down for every file of the device.
CountClosedAll(f) == [opens EXCEPT ![files[f].dev][files[f].kind] = 0]

\* cuddlk_uio_eventsrc_or_mem_close(), cuddlk_udd_eventsrc_close(): not called for
\* a file whose device is gone.
CountClosed(f) ==
  IF files[f].live THEN [opens EXCEPT ![files[f].dev][files[f].kind] = @ - 1] ELSE opens

\* cuddlk_uio_eventsrc_or_mem_irqcontrol(), cuddlk_udd_eventsrc_ioctl(): -EINVAL
\* without a callback, and an error for a file whose device is gone.
Irqcontrol(f, on) ==
  LET d == files[f].dev
  IN  enabled' = IF files[f].live /\ d \in Maskable
                 THEN [enabled EXCEPT ![d] = on] ELSE enabled

Readable(f) ==
  files[f].live /\ files[f].seen # counter[files[f].dev][files[f].kind]

\* A read that returns takes notice of the counter.
Reported(f) ==
  [files EXCEPT ![f].seen = counter[files[f].dev][files[f].kind],
                ![f].unseen = 0,
                ![f].owed = OnItsWay(files[f].dev, files[f].kind)]

-----------------------------------------------------------------------------
(* The user library *)

Idle(t) == calls[t] = NoCall
Busy(f) == \E t \in Threads : f \in calls[t].on
Usable(t, f) == IsOpen(f) /\ t \in UsersOf[f] /\ ~(\E u \in Threads :
                  calls[u].op = "open" /\ f \in calls[u].on)

Return(t) == calls' = [calls EXCEPT ![t] = NoCall]

\* cuddl_eventsrc_open() begins.  A UIO file has seen what was counted so far, a UDD
\* file nothing.
Open(t, f, d, k) ==
  /\ Idle(t) /\ ~IsOpen(f) /\ t \in UsersOf[f]
  /\ k \in held[d]
  /\ files' = [files EXCEPT ![f] =
       [dev |-> d, kind |-> k, live |-> TRUE,
        seen |-> IF k = "uio" THEN counter[d][k] ELSE 0,
        unseen |-> IF k = "uio" THEN 0 ELSE counter[d][k],
        owed |-> FALSE, quiet |-> FALSE]]
  /\ calls' = [calls EXCEPT ![t] =
       [op |-> "open", at |-> "entered", on |-> {f}, todo |-> {}]]
  /\ UNCHANGED <<deviceVars, irqVars, due, relay, counter, opens>>

\* Faulty variant: open leaves the events from before alone.
OpenDisableNoFlush(t) ==
  /\ calls[t].at = "counted"
  /\ \E f \in calls[t].on : Irqcontrol(f, FALSE)
  /\ Return(t)
  /\ UNCHANGED <<deviceVars, irqh, due, relay, counter, opens, files>>

\* Faulty variant: open does not disable the interrupt.
OpenNoDisable(t) ==
  /\ calls[t].at = "counted"
  /\ calls' = [calls EXCEPT ![t].at = "selecting"]
  /\ \E f \in calls[t].on :
       files' = [files EXCEPT ![f].quiet = @ \/ files[f].dev \in Maskable]
  /\ UNCHANGED <<deviceVars, irqVars, due, relay, counter, opens>>

\* open goes on to cuddl_eventsrc_disable() and cuddl_eventsrc_try_wait(), and
\* ignores what they return.
OpenDisable(t) ==
  /\ calls[t].at = "counted"
  /\ calls' = [calls EXCEPT ![t].at = "selecting"]
  /\ \E f \in calls[t].on :
       /\ Irqcontrol(f, FALSE)
       /\ files' = [files EXCEPT ![f].quiet = files[f].live /\ files[f].dev \in Maskable]
  /\ UNCHANGED <<deviceVars, irqh, due, relay, counter, opens>>

\* cuddl_eventsrc_wait()
Wait(t, f) ==
  /\ Idle(t) /\ Usable(t, f)
  /\ calls' = [calls EXCEPT ![t] =
       [op |-> "wait", at |-> "reading", on |-> {f}, todo |-> {f}]]
  /\ UNCHANGED <<deviceVars, irqVars, due, relay, counter, opens, files>>

\* cuddl_eventsrcset_timed_wait() and, with one event source, timed_wait, try_wait.
TimedWait(t, S) ==
  /\ Idle(t) /\ S # {} /\ \A f \in S : Usable(t, f)
  /\ calls' = [calls EXCEPT ![t] =
       [op |-> "timed", at |-> "selecting", on |-> S, todo |-> {}]]
  /\ UNCHANGED <<deviceVars, irqVars, due, relay, counter, opens, files>>

\* Faulty variant: the number passed to select() is the highest file descriptor, not one
\* more, and leaves that file out.
ReadyBelowMax(t) ==
  {f \in calls[t].on : (Readable(f) \/ ~files[f].live) /\ \E g \in calls[t].on : f < g}

Ready(t) == {f \in calls[t].on : Readable(f) \/ ~files[f].live}

\* Faulty variant: every file of the set is read, ready or not.
SelectAll(t) ==
  /\ calls[t].at = "selecting"
  /\ Ready(t) # {}
  /\ calls' = [calls EXCEPT ![t].at = "reading", ![t].todo = calls[t].on]
  /\ UNCHANGED <<deviceVars, irqVars, due, relay, counter, opens, files>>

\* select() returns the files on which read() would not block.
Select(t) ==
  /\ calls[t].at = "selecting"
  /\ Ready(t) # {}
  /\ calls' = [calls EXCEPT ![t].at = "reading", ![t].todo = Ready(t)]
  /\ UNCHANGED <<deviceVars, irqVars, due, relay, counter, opens, files>>

\* select() runs out of time: nothing is ready.
Timeout(t) ==
  /\ calls[t].at = "selecting"
  /\ Ready(t) = {}
  /\ Return(t)
  /\ UNCHANGED <<deviceVars, irqVars, due, relay, counter, opens, files>>

\* The file read next: a set is read in ascending order of file descriptors.
Reading(t, f) ==
  /\ calls[t].at = "reading"
  /\ f \in calls[t].todo /\ \A g \in calls[t].todo : f <= g

Read(t, f) ==
  /\ Reading(t, f)
  /\ Readable(f)
  /\ files' = Reported(f)
  /\ IF calls[t].todo = {f} THEN Return(t)
     ELSE calls' = [calls EXCEPT ![t].todo = @ \ {f}]
  /\ UNCHANGED <<deviceVars, irqVars, due, relay, counter, opens>>

\* The device is gone: the call fails, whatever it has read from other files.
ReadFails(t, f) ==
  /\ Reading(t, f)
  /\ ~files[f].live
  /\ Return(t)
  /\ UNCHANGED <<deviceVars, irqVars, due, relay, counter, opens, files>>

\* cuddl_eventsrc_enable(), cuddl_eventsrc_disable()
Control(t, f, on) ==
  /\ Idle(t) /\ Usable(t, f)
  /\ Irqcontrol(f, on)
  /\ files' = [g \in Fds |->
       IF on /\ IsOpen(g) /\ files[g].dev = files[f].dev
       THEN [files[g] EXCEPT !.quiet = FALSE] ELSE files[g]]
  /\ UNCHANGED <<deviceVars, irqh, due, relay, counter, opens, calls>>

\* cuddl_eventsrc_close(), or the end of the process that holds the file.
Close(t, f) ==
  /\ Idle(t) /\ Usable(t, f) /\ ~Busy(f)
  /\ opens' = CountClosed(f)
  /\ files' = [files EXCEPT ![f] = NULL]
  /\ UNCHANGED <<deviceVars, irqVars, due, relay, counter, calls>>

-----------------------------------------------------------------------------

DeviceStep(d) == RegisterStep(d) \/ RegisterFails(d) \/ CleanupStep(d)

InterruptStep(d) == Interrupt(d) \/ CustomInterrupt(d)

\* The rest of an interrupt that has been handled.
NotifyStep(d) == PendRelay(d) \/ NotifyDevice(d)

\* The steps by which a call that has been made goes on.
CallStep(t) ==
  \/ CountOpen(t)
  \/ OpenDisable(t)
  \/ Select(t)
  \/ Timeout(t)
  \/ \E f \in Fds : Read(t, f) \/ ReadFails(t, f)

NewCall(t) ==
  \/ \E f \in Fds, d \in Devs, k \in FileKinds : Open(t, f, d, k)
  \/ \E f \in Fds : Wait(t, f) \/ Close(t, f)
  \/ \E f \in Fds, on \in BOOLEAN : Control(t, f, on)
  \/ \E S \in SUBSET Fds : TimedWait(t, S)

EventsNext ==
  \/ \E d \in Devs :
       \/ RegisterBegin(d) \/ UnregisterBegin(d) \/ DeviceStep(d)
       \/ InterruptRegister(d) \/ InterruptUnregister(d)
       \/ InterruptStep(d) \/ NotifyStep(d) \/ Relay(d)
  \/ \E t \in Threads : CallStep(t) \/ NewCall(t)

EventsSpec == EventsInit /\ [][EventsNext]_eventsVars

\* An interrupt that has been handled is notified, a pended relay is run, a call that can
\* go on does, and a registration or clean-up goes on, which waits at most for a mutex or
\* a handler that others take again and again.  No device has to interrupt and no thread
\* has to call.
EventsFairness ==
  /\ \A d \in Devs : /\ WF_eventsVars(NotifyStep(d)) /\ WF_eventsVars(Relay(d))
                     /\ SF_eventsVars(DeviceStep(d))
  /\ \A t \in Threads : WF_eventsVars(CallStep(t))

EventsFairSpec == EventsSpec /\ EventsFairness

-----------------------------------------------------------------------------
(* Properties *)

Opening(f) == \E t \in Threads : calls[t].op = "open" /\ f \in calls[t].on

\* A file whose open has returned and whose device has stayed registered.
Attached(f) ==
  /\ IsOpen(f) /\ ~Opening(f)
  /\ files[f].live /\ Registered(files[f].dev)

\* eventsrc.h (user): a wait succeeds when "an event has occurred since the last
\* check".  Whichever way an event takes, each file opened before it gets to see it, or
\* will when the handler's caller has notified it or the relay has run; other readers,
\* relays that coalesce, files opened and closed meanwhile never take it away.  A counter
\* that has gone all the way round looks as if it had not moved.
NoEventLost ==
  \A f \in Fds :
    Attached(f) /\ files[f].owed /\ files[f].unseen < CountMod =>
      Readable(f) \/ OnItsWay(files[f].dev, files[f].kind)

\* The converse: a read returns only for an event that this file has not reported
\* yet.  One that was on its way when the file was opened counts.
NoPhantomEvent ==
  \A f \in Fds : Attached(f) /\ Readable(f) => files[f].owed

\* cuddl_eventsrc_open() disables the interrupt and then takes what has been notified
\* before, in this order.  What was on its way then may arrive on the new file after all,
\* one interrupt that another CPU was handling and, under UDD, one run of the relay, but
\* nothing else does until somebody enables the interrupt.
QuietUntilEnabled ==
  \A f \in Fds :
    LET d == files[f].dev
        k == files[f].kind
    IN  Attached(f) /\ files[f].quiet /\ files[f].unseen < CountMod =>
          files[f].unseen + NoticesFor(d, k) <= IF k = OwnKind THEN 1 ELSE 2

\* A call with a timeout has seen its files ready before it reads them.  Unless
\* another thread reads the same file, or the counter goes all the way round, it does
\* not block in read(), after the timeout or while it opens.
TimedCallNeverBlocks ==
  \A t \in Threads, f \in Fds :
    /\ calls[t].op # "wait" /\ Reading(t, f)
    /\ UsersOf[f] = {t} /\ files[f].unseen < CountMod
    => Readable(f) \/ ~files[f].live

\* impl_linux.h (kernel): uio_open_count and udd_open_count are the "count of open"
\* files, by which interrupts decide whether to pend the relay.  They are read there
\* without open_mutex and never too low, and never reach below zero.
OpenCountCoversFiles ==
  \A d \in Devs, k \in FileKinds :
    opens[d][k] >= Cardinality({f \in FilesOf(d, k) : files[f].live /\ CountedFile(f)})

\* cuddlk_cleanup() unregisters in an order in which no interrupt finds the relay
\* destroyed, and no relay finds the UIO device gone that it notifies.
RelayHasItsDevice ==
  \A d \in Devs : relay[d] \/ "pend" \in due[d] => {"sig", "uio"} \subseteq held[d]

\* A thread that waits for an event that has happened does not sleep through it: the
\* handler, the relay and the scheduler bring it a count that it reads.  Of threads that
\* share one file, another may take every event.
EventReachesWaiter ==
  \A t \in Threads, f \in Fds :
    (Reading(t, f) /\ files[f].owed /\ UsersOf[f] = {t}) ~>
      (~Reading(t, f) \/ ~files[f].owed \/ files[f].unseen = CountMod)

-----------------------------------------------------------------------------
(* What event sources promise *)

\* An open of f has returned, and its device has not begun to go.
Subscribed(f) ==
  IsOpen(f) /\ files[f].live /\ phase[files[f].dev] # "cleanup" /\ ~Opening(f)

SourceOf(f) == IF Subscribed(f) THEN files[f].dev ELSE NULL
ArrivedOf(f) == IF Subscribed(f) THEN files[f].unseen ELSE 0
ComingTo(f) == IF Subscribed(f) THEN NoticesFor(files[f].dev, files[f].kind) ELSE 0
IsMuted(f) == Subscribed(f) /\ files[f].quiet
WaitsOn(t) == IF calls[t].op = "open" THEN {} ELSE calls[t].on

Promised == INSTANCE CuddlNotices WITH
  source <- [f \in Fds |-> SourceOf(f)],
  arrived <- [f \in Fds |-> ArrivedOf(f)],
  coming <- [f \in Fds |-> ComingTo(f)],
  muted <- {f \in Fds : IsMuted(f)},
  waiting <- [t \in Threads |-> WaitsOn(t)]

\* The two kinds of kernel devices, the relay between them, what is left to do when a
\* handler has returned, the counters that wrap around and the order of disabling,
\* emptying, select() and read() keep the promise of eventsrc.h (user), step by step: an
\* open file gets notice of everything that happens on its device and of nothing else; of
\* what happened before its interrupt is enabled it gets no more than was on its way when
\* it was opened; a wait reports only what has arrived, and gives up only when nothing has.
ImplementsNotices == Promised!NoticesSpec
==============================================================================
