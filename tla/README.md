# Panthera: models and proofs

Specifications of parts of Panthera, a system built from the open-source
releases of Darwin with a userland of its own. The TLA+ modules are translated
from the sources; TLC checks them on small instances, and TLAPS proves the main
results for every instance. `PROJECT.json` maps each definition to the lines it
models and lists the runs, the mutants, the hazards and the theorems.

## The parts and how they interact

Two paths through the system are modelled.

* **Network state.** `configd` is a dictionary with subscriptions. Its start-up
  forks helpers and loads the IPConfiguration plug-in, which writes service
  dictionaries. From these it derives global keys, a default route and a signal
  to launchd.
* **Storage.** The HFS journal makes changes of several metadata blocks atomic
  on a disk. The disk is `PantheraATAStorage`, which cuts transfers into ATA
  commands. `IOATAController` with the PIIX driver queues, issues and completes
  these commands, and builds DMA descriptor chains for them.

| part | source | modules |
| --- | --- | --- |
| dynamic store, route manager, publisher | `userland/configd/panthera_configd.c`, `panthera_route_manager.c`, `panthera_network_state_publisher.c` | `Configd`, `MCConfigd`, `ConfigdTypeProofs`, `ConfigdProofs` |
| pattern matcher | `panthera_configd.c` | `StorePattern`, `MCStorePattern`, `StorePatternProofs` |
| start-up | `panthera_configd.c`, `panthera_kernel_event_monitor_main.c` | `ConfigdStartup`, `MCConfigdStartup`, `ConfigdStartupProofs` |
| HFS journal | `hfs-650.0.2/core/hfs_journal.c` | `HFSJournal`, `JournalRing`, `AtomicTransactions`, `MCHFSJournal`, `JournalRingProofs` |
| block storage driver | `PantheraATAStorage.cpp` | `ATAStorage`, `BlockDevice`, `MCATAStorage`, `ATAStorageProofs` |
| ATA controller, timer, PIIX driver, device nub | `IOATAController.cpp`, `ATATimerEventSource.cpp`, `AppleIntelPIIXPATA.cpp`, `ATADeviceNub.cpp` | `ATAController`, `MCATAController` |
| DMA descriptor chains | `AppleIntelPIIXPATA.cpp` | `DMAChain`, `MCDMAChain`, `DMAChainProofs` |

`BlockDevice` and `AtomicTransactions` are abstract specifications: what the
disk promises the file system, and what the journal promises its users.
`ATAStorage` and `HFSJournal` are shown to implement them. The journal's model
has a disk of its own, in the two forms `BlockDevice` allows: one that keeps
every write, and one that may lose writes until it is told to synchronize.

To check a run, `tlc -config <cfg> <module>` in this directory; to check the
proofs of a module, `tlapm <module>.tla`.

## configd: `Configd`, `StorePattern`, `ConfigdStartup`

### State and actions

`userland/configd/panthera_configd.c` keeps one dictionary (`g_store`, here
`store`) under one mutex and one list of notification sessions under another.
A request handler is not one critical section but several: the write, the route
manager, the notification of the sessions, the derived global keys.
`Configd` therefore gives every thread a list `todo[t]` of the critical
sections its handler has still to run. One step runs the first of them, so two
threads interleave exactly where the code releases its locks.

| code | model |
| --- | --- |
| `g_store`, `g_instance` | `store`, `instance` (capped by `MaxInstance`) |
| `g_network_state_published`, `g_launchd_network_up_notified` | `published`, `notified` |
| `notify_session_t`: keys, patterns, changes, ports | `keys`, `patterns`, `changes`, `port` |
| messages in a client's notification port | `queued`, at most `QLimit` |
| `kill(1, SIGUSR1)` | `signals` counts them |
| the kernel's default route | `route` |
| a client's run loop: woken, keys to read, values read | `woken`, `toRead`, `seen` |
| `_configset`, `_configadd`, `_configremove`, `_configset_m`, `_configopen`, `_configlist`, `_configget`, `_configget_m` | `ConfigSet`, `ConfigAdd`, `ConfigRemove`, `ConfigSetMultiple`, `ConfigOpen`, `ConfigList`, `ConfigGet`, `ConfigGetMultiple` |
| `_notifyadd`, `_notifyremove`, `_notifyset`, `_notifyviaport`, `_notifycancel`, `_notifychanges` | `NotifyAdd` … `NotifyChanges` |
| `panthera_configd_store_set_value`, `..._set_multiple` | `StoreSetValue`, `StoreSetMultiple`, on a thread of `Callers` |

Keys are pairs of a kind and a name; values are records with the fields the
code looks at. Serialisation, logging and failed allocations are left out.

`StorePattern` is `string_matches_store_pattern` as its two pointers move.
`Matches` says what a pattern denotes: a cut of the key into one part for each
element of the pattern.

`ConfigdStartup` is `main` and `start_ipconfiguration_plugin`: the helpers that
are forked before anyone serves the port, the server thread, the open request
the main thread sends to its own service, and the wait for an Ethernet
interface with its growing delays. The server thread may end
(`ServerThreadReturns`): its `mach_msg_server` returns on an error, the process
lives on, and nobody answers the requests that come later. `RequestsAreServed`
and `StartupEnds` make that one exception.

## HFS journal: `HFSJournal`

A thread of the file system opens a transaction with
`journal_start_transaction` and lists the blocks it changes. Transactions are
gathered in a group; `end_transaction` keeps a small one for the next
transaction, else it makes room, takes the next place in the circular journal
and hands the group to the pipelined thread (`finish_end_transaction`). That
thread writes the group, then the journal header, then sends the blocks to
their own places; `buffer_flushed_callback` counts them in. The space is taken
back only when a later group needs it (`check_free_space`), and a third thread
writes a header with the new start first. `journal_open` replays what it finds.

| code | model |
| --- | --- |
| `struct journal` (owner, `nested_count`, `active_tr`, `cur_tr`, `jhdr->start/end`, `active_start`, `old_start[]`, `completed_trs`, the conditions) | the record `jnl` |
| a thread inside a call | `thread[t]`: where it is, its flags, its group |
| locals of `finish_end_transaction` | `finish` |
| blocks on their way to their places | `home` |
| the journal on the disk: `disk.now` what a read returns, `disk.old` what a unit may still hold if power is lost | `disk` |
| metadata blocks in place | `fs` (the number of the group that wrote each last) |
| `co_buf` while it is being written back | `redo` |
| `journal_start_transaction`, `journal_modify_block_*`, `journal_kill_block`, `journal_end_transaction` | `StartCalled`, `Start`, `StartNested`, `ModifyBlock`, `ModifyBlockFails`, `KillBlock`, `EndTransaction`, `EndNested` |
| `end_transaction`, `check_free_space` | `BeginFlush`, `BumpStart`, `BumpToActive`, `TakePlace` |
| `write_header_thread`, `finish_end_transaction`, `bad_journal` | `WriteStart`, `WriteLog`, `Commit`, `SendHome`, `Abort`, `Invalidate` and the failing variants |
| `buffer_flushed_callback` | `WriteHome`, `InPlace`, `Coalesce` |
| `journal_flush`, `journal_close` | `FlushCalled` … `FlushReturns`, `CloseCalled` … `Close` |
| `journal_open`, `replay_journal` | `Open`, `Replay`, `RedoBlock`, `Opened` |

The unit is a block of the journal; a checksum is the content it is computed
from, so it matches exactly when the content does. `Replay` is the loop of
`replay_journal` with its look beyond the recorded end and its retries. The
history variables `hist`, `applied` and `acked` hold the groups in order, how
many of them a mount would find, and what callers have been told.

`JournalRing` is the arithmetic of the circular journal: `free_space`, and how
`do_journal_io` wraps.

`AtomicTransactions` says what it is all for: groups are submitted, each takes
effect whole and in order, a crash loses only those that had not. The
refinement mapping is what a mount would find *now* (`Recovered`), so the
property is about every moment at which the machine might stop, not only about
those at which it does.

## Block storage driver: `ATAStorage`

`doAsyncReadWrite`, `executeSectors`, `doSynchronize` and `flushCache` run on
the calling thread; each step between two accesses to shared state is an
action. A transfer is a loop of commands (`Prepare`, `Execute`) under `_ioLock`.
The drive is external: it moves what a command names, or fails having moved
some of it, and `PowerFails` forgets what was only cached. `IsBlockDevice` maps
the driver to `BlockDevice`: while the lock is held, callers see the disk as it
was when the lock was taken.

`setup` ranges over the two ways the launch script (`run_phase2_qemu.sh`)
permits: the host writes through, or `panthera_ata_noflush=0` makes
`doSynchronize` flush.

## ATA controller: `ATAController`, `DMAChain`

Everything the controller does happens behind its command gate, in one call
chain: `completeIO` calls `dispatchNext`, which may run a polled command to its
end and complete it inside. `stack` holds what the chain has still to do.
The device, the interrupt filter and the timer's thread call run outside the
gate, between any two steps. Bus resets call out to drivers, who issue immediate
commands inside the callout.

| code | model |
| --- | --- |
| command queue, `_queueState`, `_busState`, `_currentCommand` | `queue`, `locked`, `busy`, `current` |
| a command's state, remaining blocks, result, and its caller | `state`, `left`, `result`, `client`, `syncer` |
| `ATATimerEventSource` | `enabled`, `armed`, `expired`; thread calls before and after its test: `started`, `waiting` |
| device registers, nIEN, interrupt latch, line and source | `dev`, `nien`, `latch`, `edge`, `masked`, `pending` |
| `interruptFilter`: test of the latch, then its clear | `InterruptFilter`, `FilterAccepts`, with `filtering` between them |
| `interruptOccurred`, `handleDeviceInterrupt`: clear of the latch, then the status read | `InterruptOccurred`, `HandleDeviceInterrupt` |

`executeCallback` calls a completion function or signals a syncer. The only
completion function, that of `getDeviceID`, signals the caller, so `syncer`
stands for either: the pointer is cleared first and the caller told last.

`DMAChain` is `createChannelCommands`: segments come one by one, are split at
64K boundaries and written to the descriptor table, which keeps what earlier
transfers left in it.

## Runs

| run | instance | what it shows |
| --- | --- | --- |
| `configd_notify` | server thread, one in-process caller, one client, one plain key, one pattern, ports of one message | a change of a watched key is never lost although messages are dropped when a port is full; the client again and again has read all it watches |
| `configd_services` | internal publisher on; server thread and the plug-in's thread, two interfaces, two routers, three services, updates of several services, removals, link changes, reads that publish | the interface of the Global IPv4 entity is always there, and agrees with it once the threads are done; after the first publication derived state is only replaced by derived state; launchd is told, by each thread at most once, and not too early |
| `store_pattern` | keys of up to five characters, patterns of up to four elements | the matcher is sound, and complete for patterns whose tokens stand for whole components |
| `configd_startup` | every mix of helpers and plug-in; a deadline the delays do not divide | requests are served, start-up ends, the wait keeps its deadline |
| `ata_nesting` | every kind of request; two commands at once, or a flush and two transfers; callouts two deep; a legacy line | every command is in exactly one place; completions have a command; callouts never sleep with the gate closed |
| `ata_polled` | up to three of: DMA, an interrupt-driven read of two blocks, a polled read, a polled write of two blocks; a shared line; a device that answers late, or stays busy for longer than a polled wait | however `synchronousIO` and `selectDevice` are nested, interrupts are enabled again; a programmed-I/O read that succeeds was finished by the device; a command on the bus always has its timer, whatever interrupt is lost |
| `ata_completes` | two commands, resets and immediate writes, a device that may fall silent, a legacy line | every caller gets its command back |
| `dma_chain` | segments one or two bytes around 64K boundaries, four entries | no entry crosses a boundary; a chain is exactly its transfer; the table suffices |
| `ata_storage` | two callers, three blocks, two per command, failures and loss of power | the driver implements `BlockDevice`; `_ioLock` is always given back |
| `hfs_journal` | eight setups of two threads, at most three groups of up to three blocks, a ring of seven units and the header, a crash or a failing write | the journal implements `AtomicTransactions`; flushed groups survive; whichever header the disk keeps describes a log that is there; marks in `old_start` always go; no deadlock between flush, lock and I/O |

Two runs end in a counterexample on purpose (`findings` in `PROJECT.json`
quotes the comment or document the code disagrees with):

* `configd_silent_refresh`: with `PANTHERA_CONFIGD_NETWORK_STATE_INTERNAL`, a
  read request publishes network state and tells no session.
* `hfs_flush`: `journal_flush` returns success while a group is still on its
  way, if the buffered group has no blocks. The wait its comment speaks of is
  only in the branch without a buffered group.

## Bounds, and why they are enough

* **configd.** Sessions do not interact, so one client is enough; two threads
  give every order of two critical sections. The theorem removes both bounds.
  `MaxInstance` bounds writes: four in `configd_services` let a service come,
  move to the other interface, and go, around the lazy publication. The run is
  the configuration that is staged: `com.apple.configd.plist` sets
  `PANTHERA_CONFIGD_NETWORK_STATE_INTERNAL`, and the root file system
  `PANTHERA_CONFIGD_IPCONFIGURATION`. Its plug-in is the only writer of service
  keys; with two, the router of the last writer may differ between the entity of
  the interface and the global one. Clients that write or remove those two
  entities directly are not in the run.
* **Matcher.** Five characters and four elements include two tokens separated by
  a slash, a token at either end, and a pattern too long for its buffer.
* **Controller.** A third command matters for what a flush finds in the queue,
  and for what the completion of a polled command finds there: a command is
  queued behind a polled one only if both came while a third had the bus.
  `TwoOrFlush` and `Nested` keep three commands to these cases; the second
  allows two DMA commands and a polled write, or a DMA command and two polled
  writes. `ata_nesting` has a legacy line, without the filter: every edge gets
  through, so interrupts that are late or false come more often. `MaxFlight` allows one thread call of the timer on either side of its
  test (`Nested`: one in all, and in both none while three commands are out).
  `MaxCallouts` allows a reset inside a reset. Commands are symmetric.
* **DMA.** Splitting depends only on an address's place in its 64K block; the
  segments start just before, at and after one. The proofs remove the bound.
* **Storage.** Three blocks and commands of two give requests of one and of two
  commands, an address 28 bits do not reach, and overlaps. The proof removes
  the bound.
* **Journal.** With seven units and groups of two blocks (three units) the third
  group wraps and needs the space of the first. In a setup with groups of three
  blocks two groups do not fit, so the second waits for the blocks of the first.
  `OldStarts = 2` makes the table overflow. `FlushAt` puts the size at which a
  group is flushed in reach. Each setup fixes which calls each thread makes, so
  that between them every pair of calls that can interfere runs together.
  Deadlock is not checked because threads stop when the groups are used up.

Three restrictions of the journal runs exclude behaviour that the code has:

1. A group has one block list header (`PerHeader`). `replay_journal` looks for
   groups beyond the recorded end by their sequence number, header by header. Of
   a group with several headers that is only partly written, it replays the part
   that is there: with `PerHeader = 1` TLC refutes `IsAtomic`.
2. Where there is a crash, a group is smaller than half of the ring. After a
   replay that found an extra group, the journal continues with the sequence
   number of the header (line 1500), so the next group has the number of a stale
   one. If it fills the ring up to that stale header, the replay after another
   crash takes it for the next group and goes round for ever.
3. `journal_kill_block` leaves at least one block (`KillsAll = FALSE`). A group
   without blocks never clears its mark in `old_start`, and `check_free_space`
   would panic on it.

Also excluded are a failing write during `journal_close`, where
`finish_end_transaction` asks for the lock its own thread holds, and a close
while an aborted flush has yet to mark the journal invalid. A synchronize
request of the disk always succeeds; the code logs a failing one and goes on,
and above a disk that caches `HeaderDescribesLog` is then lost. Force-unit-access
writes are a disk that writes through. Crashes, and with
them `IsAtomic` and `Durable`, are for a disk that writes through, as the launch
script demands; above a disk that caches only `HeaderDescribesLog` is checked.

## Fairness

* `Configd`: every thread that has work runs (weak fairness of its next
  section), the client's run loop runs, and a waiting request of a client is
  taken from the FIFO request port, although others come between (strong
  fairness of `NotifyChanges` and `ConfigGetMultiple`). Writes are finite.
* `ConfigdStartup`: threads and helper processes are scheduled; neither an
  interface nor a working clock is assumed.
* `ATAController`: the chain inside the gate goes on, and a filter that has begun
  ends; the timer's call and the
  interrupt get the gate eventually (strong fairness: the gate is a lock others
  take in between); callouts end. The device owes nothing: it may stay silent.
* `ATAStorage`: every caller's thread runs. `_ioLock` need not be fair.
* `HFSJournal`: the pipelined thread, the header thread and the disk make
  progress, and a thread inside `end_transaction` runs. No thread is made to
  call the journal or to end a transaction.

## Proofs

| theorem | for every | argument |
| --- | --- | --- |
| `ConfigdTypeProofs!TypeCorrect` | set of threads, sessions, services, keys | `TypeOK` is inductive; one lemma per section of a handler |
| `ConfigdProofs!NoChangeIsLost` | the same, internal publisher off | `NoLostChange` with `TypeOK` and the fact that a session that is not open watches nothing. A section changes one key at most and leaves its notification on the thread's list (`SectionKeeps`); a notification records the key and leaves a message or finds one |
| `StorePatternProofs!MatcherCorrect` | key and pattern | `Consumed`: what lies behind the two pointers matches. Without it a positive answer says nothing of the earlier characters |
| `ConfigdStartupProofs!WaitIsBounded` | deadline, step, maximal delay | `WaitInv`: the time slept is at most the time elapsed, also when the clock fails and the code adds up its own sleeps |
| `DMAChainProofs!TypeCorrect`, `!NeverCrosses` | table, transfer, segments | `BlockInv`: the rest of the segment ends where `ptr2EndData` says, and the next boundary is the one after the pointer |
| `DMAChainProofs!ChainsAreTransfers`, `!TableSuffices` | the same | `ChainInv`: the entries so far cover the segments so far, and the number of entries is bounded by two per segment and one per 64K |
| `ATAStorageProofs!TypeCorrect` | drive, callers, requests, command size | `Inv`: the lock has one holder, who alone is inside; what it has done of its request is what the drive differs by; a host that writes through has nothing unstable |
| `ATAStorageProofs!Implements` | the same | from `Inv`, each step is one of `BlockDevice` or changes nothing callers see; `LeaveSectors` is where a transfer takes effect |
| `JournalRingProofs!SpaceIsTaken`, `!GroupsDoNotOverlap` | size of the journal | arithmetic of `free_space` and the wrap; case distinction on the order of start and end |

The assumptions on constants (`StorageAssumption`, `ChainAssumption`,
`SizeAssumption` and so on) say that numbers are numbers and `None` is not a
member of the sets; TLC evaluates them in the runs.

Only model-checked: all liveness properties and anything with `ENABLED`, which
the prover does not handle; `ATAController` and the protocol of `HFSJournal`;
completeness of the matcher, which needs induction over the key; what
`Coalesce` and `Replay` compute, which are recursive.

## Known behaviour outside the runs

These came up as counterexamples, or while translating, and are behaviour of
the code, not of a run:

* ATA timer: `myTimeout` tests `enabled` and then waits for the gate. If its
  command completes meanwhile, `handleTimeout` fails the next command, whose own
  time is not up. An interrupt that comes after a timeout is likewise taken for
  the answer to the next command.
* ATA status: `asyncStatus` looks at ERR, BSY or not. After a polled write of
  several blocks the device is still busy with the last one, and after a polled
  wait that was given up with any command; a late or false interrupt has the
  status of a DMA command, a non-data command or the last block of an
  interrupt-driven write read too early. An error that comes later is then
  reported as a success. Only reads by programmed I/O cannot be reported too
  early (`ReadsAreComplete`).
* ATA nesting: the completion of a polled command dispatches the next one inside
  `synchronousIO`. If that one is interrupt-driven and its interrupt comes before
  the outer `synchronousIO` clears the latch, the filter takes it for another
  device's, and the command ends with a timeout. If its device cannot be
  selected, `selectDevice` enables the interrupt source while nIEN is still set,
  which the masking in `synchronousIO` is there to prevent.
* ATA queue flush: completes every queued command, not itself (deadlock is
  therefore not checked in `ata_nesting`). Immediate commands may overtake a
  normal one for ever. On the legacy lines there is no filter, and an edge that
  comes while the source is disabled is lost.
* configd: a DNS dictionary in an update of its own does not reach the Global
  DNS entity; routes are only ever added; with the internal publisher on, a read
  request replaces derived state once.
* configd: nothing clears the Global entities when a service's keys go.
* Journal: `journal_flush` returns 0 also when its group was aborted;
  `buffer_flushed_callback` does not look at I/O errors; a header whose checksum
  does not match is only reported.

## Not modelled

* **In the modelled parts**: configd's self test, serialisation and lack of
  memory, torn reads of a dictionary without its mutex, and the stand-alone
  publisher's polling loop. The controller's packet protocol, drive scanning,
  timing registers, power management, hibernation and the ACPI media path, which
  this port never registers. The storage driver's choice of transfer mode, which
  `ATAController` has in all forms. The journal's trimming of free extents,
  relocation, external journal devices, byte order, change of block size, and
  `ENOSPC`.
* **Upstream code with small local changes**: launchd, libdispatch, dyld, the
  other IOKit families, patched kernel files. Much of it is a fragment of a
  larger program that is not in the repository; libdispatch needs a memory model.
* **Sequential programs**: boot loader, shell, login, network and mount tools,
  syslogd, corecrypto, build scripts. Their correctness is about their input and
  output, not about states and steps.
* **Candidates**, which have states and steps worth modelling and are not
  modelled yet: the rings of the RTL8139 driver, libxpc's connection life
  cycle, launchd's job states, the shutdown schedule.

`PROJECT.json` lists each of these parts with its reason. Together the
definitions stand for about 6,500 lines, about 1% of the repository's 610,000
lines of C and C++, most of which is the upstream code above.
