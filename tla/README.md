# Cuddl in TLA+

Cuddl gives user-space programs on Linux (and Xenomai) access to hardware devices:
kernel drivers hand *managed devices* with memory regions and event sources to a
kernel manager, and processes claim those resources, map them or wait for their
events, and release them. This directory holds TLA+ modules of its protocols, the
TLC configurations that check them on small instances, and proofs, checked by TLAPS,
that hold for every number of processes, devices, resources and table slots.

## The system

| Part | Source | State | Operations |
|---|---|---|---|
| Device table | `kernel/src/cuddlk_manager_common.c`, `cuddlk_common.c` | `devices[256]` of the manager, `dev->instance` | `cuddlk_device_manage`, `cuddlk_device_release`, the searches |
| UIO/UDD registration | `kernel/linux/src/cuddlk_linux.c` | registrations, `owner_ptr`, open counts | `cuddlk_device_register`, `_unregister`, interrupt handlers, `cuddlk_eventsrc_notify` |
| Manager device `/dev/cuddl` | `kernel/linux/src/cuddlk_manager_linux.c` | `ref_count` of every resource, module pins, `cuddlk_mem_refs`, `cuddlk_event_refs` | claim, info, release, reference count, queries, all by ioctl |
| Janitor `/dev/cuddl_janitor` | `kernel/linux/src/cuddlk_janitor_linux.c` | the pid in `file->private_data` | register a pid; last close frees that pid's claims |
| User library | `user/src/cuddl_linux.c` | the janitor's descriptor; tokens and descriptors in the caller's structs | claim, map, open, wait, release, queries; constructor and destructor |
| C++ wrappers, RTEMS headers, I/O memory and version headers | `user/include`, `kernel/include`, `kernel/rtems` | none | |

How the parts interact:

- Driver modules call `cuddlk_device_manage()` as they are loaded and
  `cuddlk_device_release()` as they are unloaded. Both hold the manager's
  `global_mutex` from their first statement to their last.
- A process opens `/dev/cuddl`, makes one ioctl and closes it. The handler holds the
  same mutex around its switch.
- The library's constructor opens `/dev/cuddl_janitor` and registers the pid. When the
  last descriptor of that file is closed, by exit, crash or the destructor,
  `cuddlk_manager_free_refs_for_pid()` takes the mutex and frees what is on the lists
  for the pid.
- A claim pins the driver (`try_module_get()`), and so does, by UIO's doing, an open
  descriptor of its device node. The module loader, which does not take Cuddl's mutex,
  refuses to unload a pinned module.
- An interrupt is handled in the driver; when the handler has returned, its caller notifies
  the open files of the device: UIO, or UDD in real-time context with a signal ("relay")
  that notifies UIO later.

What is hard: a token is a slot number, good only while the slot keeps its device, and a
device node is named by a number that UIO gives out again; a claim and the opening of
the node are two system calls; an interrupt is handled on one processor while a process
makes its calls on another, and reads open counts that no lock protects;
three records of a claim (the resource's `ref_count`, the module's use count, the
list) are updated by five code paths; drivers come and go between the steps of
processes; processes crash anywhere; pids are reused and descriptors inherited. What
makes each part correct:

- *Device table*: an identifier names one device; registration and table agree after
  every failure; a search finds what it should; `-ENOMEM` only from a full table.
- *Claims*: the three records agree; one owner unless shared; tokens stay good;
  nobody loses a claim by somebody else's doing.
- *Janitor*: what a process had when it ended is freed, all of it, once, and only that.
- *Event sources*: no event is lost, read twice or waited for in vain, whichever way it
  takes from the interrupt to the file; a call with a timeout keeps it.
- *Library calls*: the halves of a call that takes several system calls fit together,
  whatever happens between them; what a failing call has begun is undone.
- *Queries*: what is listed is found, under each way to write its name down.
- *Modules*: what a failing initialisation has acquired is given back, and no more.

## The modules

### CuddlRegistry

`devices` is the manager's array, `instance[d]` the field of the device struct,
`uio_registered[d]` counts registrations minus unregistrations with the operating
system, and `modstate[m]` is the module loader's view of a driver (`unloaded`, `live`,
`going` from the start of `rmmod`; there is no Cuddl code for it, it is the
environment). Searches return the set holding the index the C function returns, empty
for its error code.

| Operator or action | Code |
|---|---|
| `DeviceSlotMatching`, `DeviceMatches` | `cuddlk_manager_find_device_slot_matching` |
| `DeviceSlot`, `EmptySlot` | `cuddlk_manager_find_device_slot`, `_find_empty_slot` |
| `MemregionSlot`, `EventsrcSlot` | `cuddlk_device_find_*_slot` |
| `Lookup` | the two searches in a row that every handler with an identifier makes |
| `NextAvailableInstanceId` | the function of that name, as one pass over the table |
| `DeviceManage`, `DeviceManageRegisterFails` | `cuddlk_device_manage`: success or full table; failed registration |
| `DeviceRelease` | `cuddlk_device_release` |

### CuddlManager

Extends CuddlRegistry. One action per ioctl that changes state, per event in a
process's life, per round of the clean-up loop and per driver operation. Identifiers,
resource names and list addresses are model values; `copy_to_user()` and `kzalloc()`
fail or not by choice of the environment; a claim is granted to the process (`held`) or,
when its `close()` of `/dev/cuddl` fails, is not known to it. The pid of a request and
the calling process are the same, as the library fills it in. The two handlers of each
kind (memory regions, event sources) are separate actions over a shared operator, as
their code is the same text over different structs. Their two lists are one set, whose
members name a resource that says which list it is; the clean-up may take the members in
any order, where the code takes memory regions first. The driver stays pinned by
claims only: the pins that open descriptors of `/dev/uioN` add are UIO's own and could
only delay an unload.

`CUDDLK_MAX_DEV_EVENTS` is 1 in the code; the model takes any number. Handlers that only
report are in CuddlQueries; returns before any change (version mismatch, token out of
range, no match, busy) are left out.

`Allowed` says what the environment may do beyond the documented protocol:

| Value | Meaning |
|---|---|
| `any_order` | devices are released in any order, not only last managed first |
| `stale_struct` | a driver manages a struct again without initialising it |
| `unbind` | a driver releases a device while it stays loaded |
| `unmanaged_release` | a driver releases a device that is not managed |
| `stray_release` | a process releases a token it does not hold |
| `decrement_by_id` | `cuddl_decrement_*_ref_count_for_id()`, the emergency operation |
| `info_fault` | `copy_to_user()` fails in an INFO ioctl |
| `late_calls` | threads of a process call after its destructor or exit began |
| `claim_going` | a claim reaches a device whose driver `rmmod` has begun to unload: it is granted without a pin (CuddlClients has this too) |
| `fork` | a process forks after the constructor has run |
| `no_janitor` | the janitor module may be missing when a process starts |

Definitions marked "Faulty variant" are not part of the specification: each is a plausible
mistake in the definition it follows or precedes, and shows, put in that definition's
place, that a property can fail.

### CuddlClaims

What users of the manager may rely on: a set of claims, granted on offered devices to running
processes, given up by their owners or in the freeing of what an ended process had.
Slots, tokens, counts, pins, lists and janitor files are gone. `CuddlManager` has the refinement
mapping (`PromisedClaims`) and the property `ImplementsClaims`: `offered` is the set of
managed devices, `claims` the list of references, `running` and `ending` are read off
`pstate`. `CuddlClients` uses the steps of this module as its manager.

### CuddlQueries

Extends CuddlRegistry with the queries, which change nothing: operators and no actions.

| Operator | Code |
|---|---|
| `MemregionIdForSlot`, `EventsrcIdForSlot`, `StatusForSlot`, `IdForSlot` | the two ioctls by slot and the calls over them |
| `SlotCounts`, `Listed` | `cuddl_get_max_*`; the tokens one gets who asks for every slot |
| `InfoForId`, `IdForMatch` | `cuddl_get_*_info_for_id`, `cuddl_get_*_id_for_match` |
| `DriverInfo`, `HwInfo`, `DriverInfoForId`, `HwInfoForId` | driver and hardware information, by slot and by identifier |
| `EventsrcIsEnabled` | the ioctl of `cuddl_eventsrc_is_enabled` |
| `FullName`, `ParseFullName` | `ResourceID::full_name`, printing and parsing |

A text is the sequence of the parts between its slashes. How an instance number is written is
a constant, `Numeral`, for `std::to_string()` and `std::stoi()`: all that is assumed of it is that
two numbers have two texts, and that none is empty. Printing an identifier with empty
parts gives "*" for each, which parsing does not read back as empty; `ListedIsFound`
therefore prints complete identifiers, which is what queries return.

### CuddlEvents

One or more devices with an event source, registered and unregistered step by step, on a
kernel with or without UDD (`udd`, chosen once); files opened on them by descriptor; threads in
library calls. `opens` are the open counts of `struct cuddlki_eventsrc_priv`, `held` is what
the registration has acquired, `due` what is still to be done for an interrupt that has been handled,
`relay` the pending `nrt_sig`. UIO and UDD are external: a
counter per device and kind of file, and per file the counter seen. The fields `unseen`,
`owed` and `quiet` of a file record for the properties what happened to it.

| Action | Code |
|---|---|
| `RegisterBegin`, `RegisterStep`, `RegisterFails` | `cuddlk_device_register` |
| `UnregisterBegin`, `CleanupStep` | `cuddlk_device_unregister`, `cuddlk_cleanup` |
| `Interrupt` | the driver's handler, called by the UIO and UDD interrupt handlers |
| `PendRelay` | the UDD handler pends `nrt_sig`; `cuddlk_eventsrc_notify` does |
| `NotifyDevice` | UIO or UDD, when Cuddl's handler has returned; `cuddlk_eventsrc_notify` |
| `InterruptRegister`, `InterruptUnregister`, `CustomInterrupt` | stand-alone handlers of drivers that notify by `cuddlk_eventsrc_notify` |
| `Relay` | `event_nrtsig_handler` |
| `CountOpen`, `CountClosed`, `Irqcontrol` | the open, close and interrupt control callbacks of UIO and UDD |
| `Open`, `CountOpen`, `OpenDisable`, `Select`, `Read` | `cuddl_eventsrc_open`: open, disable, try_wait |
| `Wait`, `Read` | `cuddl_eventsrc_wait` |
| `TimedWait`, `Select`, `Timeout`, `Read`, `ReadFails` | `timed_wait`, `try_wait`, `cuddl_eventsrcset_timed_wait` |
| `Control`, `Close` | enable, disable, close |

Between the handler and each notification after it (`NotifyStep`) threads may do anything, on another processor:
open, disable and try to wait, for one. One interrupt of a device is in flight at a time, and
unregistering waits for it, as freeing an interrupt line does. Opening a file
does not wait for it. So `QuietUntilEnabled` does not say that a file just opened stays silent until
the interrupt is enabled: it says that it gets at most what was in flight when its open disabled the
interrupt, which is one notification, and for a UIO file under UDD one more for a relay already pended.

Reading a file and the counter of its device is one step in UIO and UDD. Open counts change
under `open_mutex` and are read by interrupts without it; each access is of one machine
word. A UIO file that outlives its device keeps its place in `uio_open_count`, which
registration does not reset: the count is then too high, never too low, and costs a
relay that nobody needs (`OpenCountCoversFiles` says "at least"). Mapping memory opens
the same node and is counted too.

### CuddlNotices

What the threads that wait on event sources may rely on. What happens on a device (`Happen`) puts a notice on
its way to each file opened on it, which arrives sooner or later (`Arrive`); two that are on their way may become
one (`Merge`). Nothing happens for a file until somebody has enabled the interrupt (`muted`), though what
was on its way when it was opened still arrives, two notices at most. This goes on until the file is closed (`CloseFile`) or the device begins
to be unregistered (`Withdraw`). A wait reports files at which something has arrived (`Report`), gives
up only when nothing has (`GiveUp`), and fails only for a device that has gone (`Fail`). There are no UIO
and UDD devices, counters, open counts, `select()`, or steps of an open. `CuddlEvents` has the
refinement mapping (`Promised`) and the property `ImplementsNotices`: a file has a
`source` from the return of its open until its device goes, `arrived` is `unseen`, `coming` counts what
an interrupt in flight and a pending relay have for the file (`NoticesFor`). After `CountMod` notices the counter looks as if it had not moved; `Certain` leaves that case out, as it
does for a file that has just been opened.

### CuddlModules

`cuddl_manager` and `cuddl_janitor` being loaded and unloaded: the things each acquires in order
(`ManagerRungs`, `JanitorRungs`), and the switch of its cleanup function as the list of its
labels and statements, entered at a label and falling through (`FromLabel`).

### CuddlClients

Extends CuddlQueries and CuddlModules: the library calls that take several system calls.
Objects are variables of the C++ classes `MemRegion` and `EventSrc` (or the C structs inside). A claim
is a step of CuddlClaims; `minor` is the number UIO has given each device node.

| Action | Code |
|---|---|
| `MemregionClaim`, `EventsrcClaim` | the claim inside `claim_and_map`, `claim_and_open` |
| `MemregionMap`, `EventsrcOpen` | `open()` of the device node named in the answer, and `mmap()` |
| `AttachFails`, then `ReleaseClaim` | the error path of `claim_and_map`, `claim_and_open` |
| `Detach`, then `ReleaseClaim` | `unmap_and_release`, `close_and_release`, the destructors |
| `ReleaseFails` | the release fails for want of memory or descriptors; its result is ignored |
| `Ask`, `Answer` | queries of two ioctls |
| `Start`, `BeginEnd`, `CloseAtEnd`, `Freed`, `End` | constructor; the kernel closing the files of a process, in any order, the janitor's among them |
| `Manage`, `ReleaseDevice`, `Insmod`, `Rmmod` | drivers; claims and open files pin them |

A claim may be made on a device of a live driver; `MayBeClaimed` adds drivers that are going if `Allowed` has
`claim_going`, since the manager ignores the result of `try_module_get()`. A claim that fails changes nothing
and has no action. An object that is filled while it is in use,
and a release that fails, leave a claim with no owner; `abandoned` keeps account of
those, and `ClaimsHaveOwners` says that there are no others.

### Proof modules and instances

`CuddlRegistry_proofs`, `CuddlQueries_proofs`, `CuddlManager_proofs` (types; the manager as an
extension of the device table), `CuddlManagerClaims_proofs` (the claim protocol and its refinement of
CuddlClaims), `CuddlEvents_proofs` (types, relays, open counts), `CuddlDelivery_proofs` (delivery of
events and its refinement of CuddlNotices), `CuddlModules_proofs` and
`CuddlClients_proofs` (the composition) hold the theorems; `MCRegistry`, `MCManager`, `MCEvents` and `MCClients` the instances.

## What the runs check

| Run | Result | What it shows |
|---|---|---|
| `MCRegistry_lifo` | holds | Five devices, four of one name, contend for three slots; devices are released last first. Automatic instances are unique, `-ENOMEM` comes only from a full table, registrations match the table through every failure, a complete identifier denotes one resource; what is listed is found by its printed name and by every shorter form of it. |
| `MCRegistry_any_order` | violated | Two devices of one name get one instance once devices are released in any order. |
| `MCRegistry_wildcard` | violated | A search with an empty resource name stops at a device that has no such resource. |
| `MCManager_core` | holds | Two processes, two drivers that change places in the table, exclusive memory regions and a shared event source: counts, pins, list, tokens and grants agree; clean-up is safe and complete; the whole implements CuddlClaims. |
| `MCManager_wild` | holds | Two devices that change places in one slot, and everything outside the protocol except `unbind` and `unmanaged_release`: types; counts may come to be too low, never above the claims on the list; claims leave by their owner only. |
| `MCManager_liveness` | holds | Claims of a process that ends are freed. |
| `MCManager_info_fault` | violated | A failing INFO ioctl decrements the count of somebody's claim. |
| `MCManager_rmmod_race` | violated | A claim during `rmmod` is not pinned; the clean-up then meets a NULL device with the mutex held. |
| `MCManager_fork` | violated | The claims of a forked child are not freed when it ends. |
| `MCEvents_safety` | holds | One device with enable and disable, two threads, a file of one of them and a shared file, both kernels: no event is lost or read twice, opening is quiet but for what was in flight, timeouts are kept, open counts cover the files, the relay is never without its device; the whole implements CuddlNotices. |
| `MCEvents_liveness` | holds | A driver that notifies by itself, a file for each thread: what has happened reaches the thread that waits. |
| `MCClients_core` | holds | Two processes, three objects, two drivers, both modules of Cuddl: claims have owners, exclusive resources are mapped by one process, nodes and tokens stand for the device claimed, questions about a device one has open are answered about that device, modules undo what they did. |

Bounds. Three slots are enough for a gap, a hit after it and a full table; four devices
of one name overfill it, and a fifth of another name stands in between. Two slots and two
drivers let a slot change its device, and a device its slot. Two processes make
every pair of owner and other; three list nodes let one process hold an
exclusive and a shared resource while the other holds the shared one, and make allocation fail
(`Addrs` exhausted) as well. `MaxClaims` bounds how often a process may hold one token; a
second claim of the same token by the same process, which puts two identical nodes on the
list, is within the bound of 2. Processes, and addresses, are symmetric in the runs
without liveness properties; so are devices of equal name in `MCRegistry`.
`MCManager_wild` switches the deadlock check off, because a kernel that has
dereferenced NULL with the mutex held may stop for good.

In `MCEvents` event counters count modulo 2, the smallest number for which a counter that moved differs from
one that did not: two unread events look like none, the case the code has after 2^32, and
properties that this breaks say so (`unseen < CountMod`). `MaxStale` bounds
what an earlier registration may have left in `uio_open_count`: nothing in the safety run, where the device and its
files still come and go, and one file in the liveness run, where a count is then too high. With
the two files of `MCEvents_safety`, each thread has a call in the middle of another's, on the same
file and on different ones, and a set of two. The liveness run gives each thread its own file,
since of two threads at one file one may take all events, and has no masking, which adds
nothing to it. Both switch the deadlock check off: a UIO kernel whose device is
gone may be left with threads in `select()` or `read()` that nobody wakes.

In `MCClients` one minor number is free when both devices are registered to none, so that a node's number passes from
one device to the other; minor numbers are symmetric. `MaxClaims` is 1 claim
of each resource by each process at a time and `MaxLost` 1 claim without owner at a time; both
limit the claims that can pile up, not the steps that make them. One process can claim
with the HOSTILE option. The region is on one device and event sources are on both, so that an object can move
from one device to the other. A process makes one library call at a time.

Fairness (`ManagerFairSpec`). The kernel closes the descriptors of a process that ends
and reaps it (weak fairness of `JanitorClose`, `ProcReap`), the loop of the clean-up goes on (weak
fairness of `CleanUpStep`), and a task that waits for `global_mutex` gets it in the end,
since Linux mutexes hand over to a waiter that has starved (strong fairness of
`JanitorRelease`, which other holders of the mutex disable again and again). No process is
obliged to end and no driver to do anything. `EventsFairSpec`: a pended signal is delivered
(weak fairness of `Relay`), an interrupt that has been handled
is notified (weak fairness of `NotifyStep`), a thread that can run does (weak fairness of
`CallStep`), and a registration or clean-up that waits at a mutex of UIO gets it (strong
fairness of `DeviceStep`). No device is obliged to interrupt.

## What the runs that are violated say about the code

1. `cuddlk_manager_next_available_instance_id()` searches each further number only behind the previous
   hit (`cuddlk_manager_common.c:99-106`). With devices managed as instances 1, 2, 3 and
   the first released and managed by another driver in between, a number in use is returned.
   `manager.h:215-217` promises one that is not used. The same loop reports
   `-ENOMEM` on a hit in the last slot when earlier slots are free.
2. Empty parts of an identifier select the device first and the resource second
   (`cuddlk_manager_linux.c:424-442`); `memregion.h:82-85` describes a search for a
   matching resource.
3. The error path of a failing `copy_to_user()` is shared by CLAIM and INFO
   (`cuddlk_manager_linux.c:474-479`, `577-582`).
4. `try_module_get()` is not checked (`cuddlk_manager_linux.c:98`, `144`). `MCManager_rmmod_race` shows
   what it does to the manager. For library calls it means that the slot in a token, or the node number in the
   answer to a claim, may pass to another device before it is used: with `claim_going` added to `Allowed` of
   `MCClients_core`, TLC finds `MapsWhatItClaimed` and `TokensStayGood` violated. The run, and the
   theorems about the two, are about claims that pin the driver.
5. The janitor's promise in `impl_linux.h:110-111` does not reach forked children.

## What is proved

For every number of slots, devices, drivers, processes, addresses, resources and every
identifier set, from `RegistryAssumption` and `ManagerAssumption` alone (sizes are naturals,
functions have their domains, `NULL` is no device and no clean-up, the cuddl module is no driver)
of the claim protocol and the registrations:

- `TypeCorrect`: `ManagerTypeOK`, whatever `Allowed` is. Counts never go below zero.
- `OnlyOwnersGiveUpClaims`: `ClaimsLeaveByOwnerOnly`, whatever `Allowed` is. It needs
  the type invariant only, because each handler identifies the node it frees by pid.
- `RegisteredWhileManaged`: `RegistrationMatchesTable`, unless drivers release devices
  that are not managed. The invariant (`RegistrationInv`) says that a device
  is in one slot at most and has one registration if it is in any; counting comes last.

Under `WellBehaved` (`Allowed` has at most `any_order`, `stale_struct`, `unmanaged_release` and `no_janitor`, and
drivers set `owner_ptr` to their own module):

- `RefCountsAreExact`, `PinsAreExact`, `TokensStayValid`, `ClaimsAreExclusive`,
  `GrantsAreKept`, `CleanUpIsSafe`.

The library only warns when it cannot open the janitor device (`cuddl_linux.c:1205-1208`), so processes without
one are part of the hypothesis: what they leave claimed stays on the list, counted and pinned, and misleads nobody.

Under `Disciplined`, which is `WellBehaved` with a janitor for every process (no `no_janitor`):

- `ClaimsStayAccountedFor`, `NothingOutlivesItsProcess`, and the refinement `ManagerImplementsClaims`. With `no_janitor`
  added to `MCManager_core`, TLC finds both invariants violated: the claims of a process that had none stay.

The six share one inductive invariant, `ClaimInv`, because none of them is inductive
alone. The argument goes round in a circle that only the conjunction closes: tokens name
their devices because no claimed driver unloads (`ClaimedDriverLive`); no claimed driver unloads because
its pins are exact; pins and counts are exact because every release and every round of the
clean-up finds the node's own device in the node's slot (tokens) and a node to free (`HeldIsClaimed`);
a process keeps its nodes because a clean-up runs only for a pid that is ending
(`CleanUpOfEnding`), which follows from janitor files not being shared
(`JanitorFilesPrivate`); and a pid that starts has nothing on the account
(`EndedHoldsNothing`). Exclusiveness rests on exact counts: a claim is let in on
`ref_count = 0`, which then means an empty list. The lemmas `NodeAdded` and
`NodeRemoved` say how the sizes of the parts of the list change with one node,
`ClaimKeepsCounts` and `ReleaseKeepsCounts` carry that over to the counts, and one lemma per
action carries the invariant over.

`AccountInv` adds what the janitor is for: every running process has a janitor file (`RunningHasJanitor`),
and every claim has a file or a clean-up that will free it. A claim is granted to a running process only, the last close
of a file turns into the clean-up of its pid, and the clean-up ends when the list has nothing of that pid.

The refinement (`ManagerImplementsClaims`) rests on both: exact counts make a
grant one that the abstract table allows, tokens make each release and each round of the clean-up the
end of one claim of the right process, and pins keep a device offered while it is claimed. One lemma per
action shows that it maps to a step of CuddlClaims or to none.

`ModulesUndoWhatTheyDid`: `FailureUndoesWhatWasDone`, for the two modules as they stand, from
an invariant that says that what a module holds is a prefix of its rungs, the one its
failure label stands for (`LadderInv`). The tables of labels are evaluated by the prover once for each module
(`ManagerTable`, `JanitorTable`).

About event sources, for every number of devices, files and threads, every width of the
counters and every assignment of files to threads, from `EventsAssumption` and
`NullAssumption`: each of the invariants of CuddlEvents.

- `EventsTypesCorrect`, `RelaysHaveTheirDevice`, `OpenCountsCoverFiles` share the invariant
  `EventsInv`: what a registration holds is a prefix of its rungs, a stand-alone handler has all
  of it, a relay the two rungs it uses (`LadderInv`); calls are about open files, and a
  file that is being opened has one call (`CallsInv`). With it each open, close and clean-up
  changes the files to count by at most the one it counts.
- `NoEventIsLost`, `NoEventIsMadeUp`, `OpeningIsQuiet`, `TimedCallsDoNotBlock` add what holds of each file whose
  device is there (`FileGood`): its counter is as far ahead of it as it has been notified, modulo
  `CountMod`; what it is owed has been notified or is on its way, in an interrupt in flight or a relay; and what
  has been notified it is owed. While a file is quiet the two together do not grow, because no interrupt is
  handled and each step in flight moves one notice. The events of UIO files in a kernel with UDD need `OpenCountsCoverFiles` here: the relay
  is pended because an open count that covers the file is not zero. `CallsGood` carries what
  `select()` has found over to the read.
- `EventsKeepTheirPromise`: `ImplementsNotices`, from the same invariant. Each action gets one lemma that maps it
  to a step of CuddlNotices or shows that nothing of it shows there. Four of them carry the argument: an
  interrupt puts a notice on its way to every file, the ones of the other kind included, because open counts
  cover them and the relay is then pended (`HandledKeepsPromise`); pending a relay that is pended merges two
  notices and loses none (`PendRelayKeepsPromise`); an open returns with nothing unread that could
  be told from nothing (`OpenReturns`); and when `select()` finds nothing ready, counters that are in step
  with their files say that nothing has arrived (`TimeoutKeepsPromise`).

About the device table, for every table size:

- `RegistryTypeCorrect`: `RegistryTypeOK`, whatever drivers do.
- `GivesUpOnlyOnFullTable`: `GivesUpOnlyWhenFull`, if drivers release the device managed last
  (`ReleasesInOrder`). The table is then a stack (`OrderInv`: the devices fill the first
  slots), so that a hit in the last slot, where the search for a number gives up, means a full table.
- `InstancesAreUnique`: `InstancesUnique`, if structs are initialised before they are managed as
  well (`FreshStructs`) and devices of one name are all numbered by Cuddl
  (`NumberedAutomatically`; a driver that asks for a number gets it, used or not). In a stack
  the number of a device stays what the search gives over the slots below its own
  (`InstancesInv`), and of two devices of one name the search for the higher one has counted the
  other (`LaterIsHigher`). What the recursive function of the search returns is shown by the
  least slot at which a claim about it would fail (`LeastNatural`, from the well-foundedness of the
  naturals); the induction theorems of the library cannot be instantiated here.
- `FullIdentifiersResolve`: `FullIdentifierDenotesItsResource`, if group and name are not empty
  besides (`NamesGiven`; an empty part of an identifier stands for any).

`MCRegistry_any_order` shows what becomes of these without `ReleasesInOrder`.

- `ManagerImplementsRegistry`: each step of CuddlManager is a step of the device table or leaves it
  alone, so that all of these hold of the manager with its processes, whatever `Allowed` is, where their
  hypotheses on drivers hold.

About the queries, for every numbering and every spelling of numbers that `QueriesAssumption` admits:

- `EnumerationMatchesSearch`: `ListedIsFound`, under the hypotheses of `FullIdentifiersResolve` and if drivers
  populate what they name and name what they populate (`NamedIsPopulated`, `PopulatedIsNamed`; enumeration goes by
  the type of a memory region or the number of an interrupt, search by the name). What is listed
  has a number that can be written (`NumberedInv`: the instance of a device in the table is a configured one or
  one of those Cuddl gives out), so its text parses back to the identifier (the spelling is injective),
  which denotes the resource (`IdentifierResolves`); and the first slot that a complete
  identifier matches is the one it was listed for.
- `PrintedIdentifiersMatch`: `ShortNamesMatch`, in whatever order devices are managed and released: each of the
  shorter forms leaves out parts that parsing turns into wildcards.

`NobodyClaimsNothing` (`NoPhantomClaims`), whatever processes do and whatever fails, if drivers release
devices when they are unloaded only (`ReleasedAtUnload`). The invariant, `PhantomInv`, is about the claims
made on the device that is in a slot now through that slot: a release goes by the slot, so only these
can be taken for the device's own. A device outside the table has a count of zero, because loading its module
cleared it. With `unbind`, added to `MCManager_wild`, TLC finds it violated: one device is released while it
is claimed, the other takes its slot, the release of the claim counts down the other, and the first is managed
again with the count it had.

About the composition (CuddlClients), from `ClientsAssumption` (a claim of an object is no `NULL`, among
others) and the assumptions of the modules it extends:

- `ClientsTypesCorrect`, whatever drivers do, and `ClaimsAreOwned`, `UseIsExclusive`, if claims pin the driver
  (`ClaimsPin`: `Allowed` has no `claim_going`), since a driver that is unloaded under a claim and loaded
  again counts from zero. They share
  `OwnershipInv`: claims and files are those of processes that run or are being ended, and a file of a
  running process has its claim in force (`ProcessesInv`); each object in use and each call has a claim
  for itself (`ObjectsInv`, `CallsInv`), and what is left is abandoned (`OwnersInv`); of two like
  claims on an exclusive resource one is HOSTILE (`ExclusiveInv`); a device in the table has one slot
  and one device node (`NodesInv`).
- `DevicesStayWhileOpen` and `MatchesAreAnswered` rest on the pins of open files alone, and hold with
  `claim_going` too. They add `OpenInv`: under `ReleasedAtUnload`, a device with an open file stays in its slot,
  with its driver live and its node number (`Kept`). `MatchesAreAnswered` is about the device of the first of
  two ioctls as long as the process has it open, and needs drivers to populate what they name
  (`NamedIsPopulated`; enumeration goes by the type of a resource and search by its name). Of a device that the process has neither
  open nor claimed nothing can be said: it may change between the two.
- `NodesBelongToClaims` and `TokensAreGood` need `ClaimsPin` besides, the latter `NamedIsPopulated` too. They add
  `LinksInv`: a device with a claim is `Kept` as well, and every number that a call has in hand,
  slot or node, belongs to the device of its claim.
- `ClientsImplementRegistry`, `ClientsImplementModules`: each step of the composition is a
  step of the device table and of the modules of Cuddl, or leaves them
  alone; what is proved of them holds of the composition. Claims need no such theorem: the
  composition takes the steps of CuddlClaims as they are, and `ManagerImplementsClaims` says that the manager
  provides them where claims are pinned.

Only model-checked: `EndedProcessIsFreed` and `EventReachesWaiter`; liveness under fairness is outside
TLAPS, as is `ENABLED`. Every other property of a run that holds is a theorem.

## Not modelled

- RTEMS: the repository has headers for it and no source.
- Access to mapped memory (`cuddl_iomem_*`): single loads and stores.
- Version, commit and variant queries, the version check at the head of each ioctl, headers that
  choose compilation options: constants and error paths before any change.
- Lengths of strings and their truncation, wording, printing to streams, sets of flags, exceptions.
- The description of memory regions to UIO and UDD, page offsets and lengths: data that no
  protocol step depends on.
- `cuddl_get_*_ref_count_for_id`: it returns the count that `RefCountExact` is about.
- In CuddlClients: processes without a janitor file (CuddlManager has them, `no_janitor`), whose claims would stay after
  their end; what a release of a claimed device does to the manager and its clean-up (`MCManager_rmmod_race`): here
  a claim without a pin just stays; several threads in one process, `fork()`, `close()` of `/dev/cuddl` failing after a claim
  (CuddlManager has both), UDD device nodes (named by device, not by number).
- In CuddlEvents: drivers whose exit leaves interrupts on; errors of `select()` by signals;
  claims, which CuddlClients has.
- `unmanaged_release` has no run, as nothing bounds how often a driver does so; the proofs that
  allow it say so. `unbind` is in no run: no document says what should
  hold for a driver that releases a claimed device and stays. `ManagerTypeOK` and
  `ClaimsLeaveByOwnerOnly` are proved with it; `NoPhantomClaims` fails.
- A set wait that fails at one file after it has read others loses what it read
  (`cuddl_linux.c:661`); a count above 2^31 is returned as a negative number
  (`cuddl_linux.c:516`). Both can be read off the code.
- Build and documentation.
