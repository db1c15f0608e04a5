# Verification of openpower-hw-diags

TLA+ models of the hardware diagnostics service of OpenBMC for POWER systems,
the TLC configurations that check them, and theorems about them checked by
TLAPS. Paths are those of the repository, under `src/`.

1. The system
2. What is modelled, and how it corresponds to the code
3. Runs
4. Proofs
5. What disagrees with the documents and comments
6. Not modelled

## 1. The system

A BMC process watches the attention line of the host's processors. An attention
is of one of four types; the handler of each logs a PEL (platform event log),
may have a dump collected, and restarts, quiesces or powers off the host. For a
checkstop, and for recoverable errors before a TI, the analyzer isolates the
attentions of all chips, blames one of them, and calls out parts.

| Component | State it keeps | Operations | Talks to |
|---|---|---|---|
| main, `main.cpp`, `main_nl.cpp` | none but its exit status | handle pending attentions, become the daemon or not, send the command line | listener (queue), attention handler (call) |
| listener and command line, `listener.cpp`, `cli.cpp` | the message queue (a shared memory object that outlives it), the configuration, whether the GPIO thread exists | collect a command, set flags, start the GPIO thread, stop | clients (queue), GPIO thread (shared configuration, `pthread_cancel`) |
| GPIO monitor, `attn/attn_monitor.cpp`, `attn_main.cpp` | the request of the line, its event descriptor | wait, read an event and the line, call the handler, wait again | kernel, attention handler |
| attention handler, `attn/attn_handler.cpp` | per invocation: the active attentions, a heap by priority | clear latched interrupts, scan processors, try attentions until one is handled | all handlers below, CFAM registers |
| vital, checkstop, TI, breakpoint handlers | the TI data of the invocation | recover the SBE by an hreset, analyze, log, dump, transition | PLDM, analyzer, logging, dump manager, systemd |
| PEL creation, `attn/attn_logging.cpp`, `attn/pel/` | FFDC files | create a PEL, read it back, commit a raw one | logging service (D-Bus) |
| dump monitor, `attn/attn_dump.cpp` | status of the dump, remaining time; the watchdog's property | disable the watchdog, create the dump, wait for its end, enable the watchdog | dump manager, watchdog (D-Bus) |
| PLDM, `util/pldm.cpp` | instance IDs, the transport, the status of the hreset | look up PDRs, allocate an ID, send, wait for an event | PLDM daemon, hostboot runtime |
| analyzer, `analyzer/analyzer_main.cpp` | the isolation data and the service data of one analysis | isolate (libhei), filter, resolve, commit a PEL | hardware, logging service |
| root cause filter, `analyzer/filter-root-cause.cpp` | none | apply its rules to the list of signatures | RAS data |
| RAS data parser, `analyzer/ras-data/` | the data files, a static stack of actions | flags of a signature, resolution of a signature | files |
| resolutions, plugins, service data, `analyzer/` | callout list, FFDC of the callouts, the SRC's subsystem | make the callouts of an action | device tree, hardware registers |
| utilities, `util/` | none that lasts | D-Bus requests, device tree, files | D-Bus, pdbg |

There are two builds. With option `nlmode` the daemon is one thread: it parses its
options, handles pending attentions, and monitors the line (`main_nl.cpp`). Without
it, a listener thread takes commands from other processes (`main.cpp`,
`listener.cpp`), and the line is monitored by a thread the listener creates.

What is hard about it:

* **Concurrency** (build with a listener). `attnHandler()` has no lock. The GPIO
  thread runs it, and so does `main()` of *every* process started in daemon mode, also of one that only
  passes an option to the daemon. Listener and GPIO thread share the
  configuration. Processes share one named queue, which any of them may remove.
* **Events that are late.** Attentions are raised and cleared while the handler
  runs; the kernel queues edges, not levels; an hreset may be answered after its
  call has given up.
* **Failure.** Register accesses, D-Bus calls, PEL creation, dump creation, the
  systemd request and the watchdog's property may each fail; most failures are
  only traced and the handler carries on. The analyzer throws exceptions, and
  asserts, in the middle of a resolution.
* **Ordering.** The status of a dump is signalled from the moment `CreateDump`
  is served, the match rule is registered after its reply. The watchdog must be
  off for the dump and on afterwards. Signatures come in no order, and the rules
  that choose among them in a strict one.
* **Timeouts.** One hour for a hardware dump, one minute for an hreset.
* **Stop and crash.** `--stop` cancels the GPIO thread wherever it is; a process
  that is killed leaves its queue behind; static data outlive an analysis.

What makes the components correct, in one line each:

* attention handler: tries attentions by priority, each once; after it has asked
  for a dump or a transition it never goes on to another attention;
* handlers: transition the host at most once, last, after a PEL, and not under a
  dump that has neither ended nor timed out;
* dump monitor: always returns; the watchdog is off exactly during the request;
* GPIO monitor: an attention that made an edge is seen, and served once per edge;
* listener: executes whole commands, each once; a queue with the name has a
  listener; clients return; `--start` and `--stop` take effect;
* PLDM: the wait is bounded, instance IDs are accounted for, a result is only
  taken from an event about the SBE in question;
* filter: blames the first signature of the best kind, in whatever order they come;
* service data: the callout list says what was called out, neither less nor more,
  and an exception never leaves it silent.

`PROJECT.json` lists every component with its status and the hazards at their
lines.

## 2. What is modelled

| Module | Models | Proved in |
|---|---|---|
| `AttnService` | what one invocation of the handler promises (abstract) | `AttnServiceProofs` |
| `AttnConfig` | flags and their defaults (`attn/attn_config.cpp`) | |
| `AttnHandler` | `attnHandler()` and all it calls, several threads | `AttnHandlerProofs` |
| `AttnMonitor` | the daemon of the build without a listener, latches, line and edges | `AttnMonitorProofs` |
| `Cli` | `parseConfig()` (`cli.cpp`) | |
| `AttnDaemon` | `main()`, the queue, the listener, the GPIO thread's life | `AttnDaemonProofs` |
| `SbeHreset` | `hresetSbe()` and the PLDM exchange (`util/pldm.cpp`) | `SbeHresetProofs` |
| `DevTree` | parents, buses, location codes, active chips (`util/pdbg.cpp`) | |
| `RasData` | flags and actions of a signature (`analyzer/ras-data/`) | |
| `RootCause` | the rules of the filter (`analyzer/filter-root-cause.cpp`) | `RootCauseProofs` |
| `ServiceData` | callouts, priorities, guard, subsystem (`analyzer/service_data.cpp`) | |
| `Plugins` | resolutions and plugins (`analyzer/resolution.cpp`, `analyzer/plugins/`) | |
| `Analyzer` | `analyzeHardware()`, composing the five above | `AnalyzerProofs` |
| `ListLemmas` | first index of a kind, flattening: lemmas about lists for the proofs | itself |
| `MC...` | constants for TLC | |

How they fit together. `AttnHandler` calls `analyzeHardware()` and `hresetSbe()`
and sees their outcome only; `Analyzer` and `SbeHreset` are what is behind it.
`AttnMonitor` and `AttnDaemon` are two ways to enter the handler: the first keeps
of it what bears on the line (what it clears and scans), the second no more than
that it takes time.

### AttnHandler

Each thread `t` has a control point `pc[t]`, named by the part of the code it is
in; an action is the code between two points at which other actors can be
noticed. `isr` and `intr` are the CFAM registers 0x1007 and 0x100b, `watchdog`
is the D-Bus property, `config[t]` what `attnConfig` holds for the thread;
everything else is local to one invocation.

| Label | Code |
|---|---|
| `clear` | the loop of `clearAttnInterrupts()`, one processor per step; `cont` is where it returns to |
| `scan` | the loop of `attnHandler()` over the processors; `attns` is `active_attentions` |
| `pick` | the loop over the heap; `cur` is the attention taken from its front |
| `vStart` .. `vFailed` | `handleVital()`, `checkstopActive()`, `attemptSbeRecovery()` |
| `cStart` | `handleCheckstop()` |
| `sStart`, `sDispatch`, `ti`, `tiPel` | `handleSpecial()`, `bpHandler()`, `tiHandler()` and its branches, `event()` |
| `dump` .. `dumpEnd` | `requestDump()`, `monitorDump()`; `cont` is where it returns to |
| `transition` | `transitionHost()` |
| `idle`, `dead` | not in the handler; cancelled |

The build without a listener is the case of one thread, in `Daemon`, whose
configuration changes (`SetConfig`) before it enters only, and with `Stops` FALSE.

Abstractions:

* The heap is a set, its front any member of the highest priority (`Front`):
  `std::make_heap` says nothing of the order of equal ones.
* Everything another service answers (power good, host state, dump policy, log
  IDs, chip operations) is chosen when it is read.
* TI data are reduced to what the branches test: who wrote them, whether
  hostboot gave an EID, asked for a dump, a shutdown or a key transition.
* Of the PELs only which were asked for is kept (`sent`), and whether the log ID
  that goes to the dump exists (`log`).
* `NotHandled` stands for a nonzero return code (the attention is removed from
  the heap), `Handled` for `RC_SUCCESS` (`attnHandler()` leaves its loop).
* The environment raises attentions (`Raise`, at most `MaxRaise`), clears them
  (`HostClears`), changes the configuration (`SetConfig`), cancels the GPIO
  thread (`Cancel`), and ends dumps (`DumpCompletes`): the end is `heard` only if
  the thread is in its wait, else `missed`.

### AttnService, and how AttnHandler implements it

`AttnService` knows neither processors nor types of attention: an invocation
collects a set of attentions, chooses one that none outranks, gives it up or
not, asks for one dump, then for one transition, and is done. The refinement
mapping (`Phases`, `Pendings`, `Askeds`, with `cur` as the attention served) sends
`clear` and `scan` to collecting, `pick` to choosing and everything inside a handler
to serving. That `GiveUp` requires that nothing has been asked, and `AskDump` that
no dump was asked for, is what the handlers must establish.

### AttnMonitor

`phase` is the place of the one thread: `off` or `ended`, in the handler (`clear`,
`scan`, `handle`, `return`), at `requestGPIOEvent()` (`request`), in the I/O service
(`wait`), between the read of an event and that of the line (`value`). `isr` holds
the attentions that are active, `intr` the latches; the line is low while any
latch is set, and clearing the latch of an active attention has no effect.
`Raise` puts an edge into the kernel's queue of `Fifo` events if the line was
requested and high. `Unmasked` is the register 0x100d: a masked attention may or
may not latch an interrupt, and a scan skips it. `found` is `active_attentions`;
`falls`, `runs`, `unseen`, `edges`, `lost` are history variables. A failed request of
the line or wait ends the process (`MonitorEnds`); a failed read of the event comes
back to it (`ReadEventFails`); a failed read of the line drops the event
(`LineUnknown`). A processor whose registers cannot be read, or read as invalid, is
passed over by the loop that was to clear its interrupts (`ClearUnreadable`) or to
see its attentions (`ScanUnreadable`), which goes on with the next one. `lost` holds
the attentions that such a failure has passed over and no scan has found since.

### AttnDaemon and Cli

Each process has a main thread (`mainPc`), possibly a listener (`lisPc`) and a
GPIO thread (`monitor`). Queues are numbered objects; `named` is the one that has
the name, which `remove()` takes away while others may keep using the object.
A message is `<<p, i>>`, word `i` of process `p`'s command line; number
`Len(Argv[p]) + 1` is the end marker. So messages keep their identity although
the listener, which sees the words only, has no way to tell whose they are.
`executed` is a history variable.

| Label of main / listener | Code |
|---|---|
| `pending` | `attnHandler()` in `main()`, then `listenerMqExists()` |
| `ready` | the polling loop for the new queue |
| `open`, `send` | `sendCmdLine()` |
| `join` | `pthread_join()` |
| `remove`, `open`, `receive`, `execute` | `threadListener()`: before the loop, at its top, in the inner loop, after it |

`Overlap` says when a process may be started: any time, only to find a daemon
that has taken its own command line (`clients`), or only when all earlier
commands are done (`none`). It distinguishes how the service is used, which the
code cannot control, and each run states it.

The model leaves out partial initialisation of the shared memory by boost, and
the effect of a kill inside a queue operation on its lock.

### SbeHreset

One call after another, in `phase` order: `Request` (the effecter look-up),
`Alloc` with its one retry, `Encode`, `FetchSensorInfo` and the registration of the
match, `Open`, `Send`, the wait (`Wake` is one turn of its loop), `Finish`. What
outlives a call are `held` (IDs not given back), `transport`, and `pending` (requests
that hostboot has yet to answer, however late). PDRs are records of an ID and the
state sets they are composed of; instances are counted in the order of the IDs.

`freePLDMInstanceID()` is given an ID read from the address of the vector object
(`&request` where `request.data()` was meant). That is memory of the object, not
undefined, but no function of the request: `FreeStray` chooses any ID of `Stray`,
and libpldm refuses one this process does not hold. Time is `elapsed`, in units
of `Timeout`; a wake-up may come at any time with a signal, or at the end of what
remains.

### The analyzer

`DevTree`, `RasData`, `RootCause`, `ServiceData` and `Plugins` are operators
without variables, since these parts of the code compute and keep nothing but
what they return. An exception yields `Threw` (in the filter `Thrown`), a failed
assertion `Aborted`, so that it can be followed to where the code catches it.

* `RootCause`: each `__find...` function is an operator that returns the index of a
  signature, `NotFound`, or `Thrown`; `FindRootCause` is their order.
  `Scan` stops at the first signature that needs RAS data of a chip that has none.
* `RasData`: a data file is a record; `ParseAction[<<model, action, stack>>]` is the
  recursive walk with the static stack as it finds and leaves it. `Walk` is its loop
  over the elements of the action, and `Extend` one turn of that loop.
* `ServiceData`: what `addTargetCallout()` and the rest append; `AddCallout` merges
  with an entry for the same part or procedure.
* `DevTree`: `Order` is the list in which the device tree names its targets, each
  once and after the one it is part of (`OrderAssumption`); a walk over a class of
  targets follows it.
* `Plugins`: the calls each resolution and plugin makes, as a list, from what the
  hardware answers (`seen`); for the TOD the status, error and port registers
  of each processor, the search for the chip that sources the clock, and the
  order of faults. `Selected` stands for the code's copies of those elements of a
  list that pass a test, `InOrder` for its walks over the targets of the tree.

`Analyzer` keeps the state of one analysis (`phase`, `sigs`, `root`, `callouts`, `ffdc`,
`subsystem`, ...) and what survives it (`stack`). `Analyze` lets libhei find any list
of `Isolated` on the chips that are active; `Filter`, `Parse`, `Resolve` and `Call` are
the steps in which an exception may end the resolution; `CommitPel` may fail.
Phase `aborted` is a failed assertion, or an exception that nothing catches (an
active OCMB without an MCC, `MaskThrows`), which ends the process. `Machine` says
whether there is a file of bus peers for the machine: without one,
`GetTargetAcrossBus` fails its assertion. Data files conform
to the schema (`SchemaAssumption`): the parser validates each file and asserts that
it does before it takes it (`ras-data-parser.cpp:272`). The early return
where hardware analysis is not supported is not modelled: it does nothing.
Each call out of a resolution is one step, so that exceptions come between them.

## 3. Runs

All runs set `CHECK_DEADLOCK FALSE`: the hardware may stop raising attentions,
processes are started once, an assertion may end the analyzer, and everything
may rest.

| Run | Shows | Instance |
|---|---|---|
| `HandlerOne` | order and number of what one invocation asks for, priority, watchdog, termination, `ImplementsService` | 1 thread, 2 processors, 2 attentions, 4 configurations changed at any time, failing register accesses |
| `HandlerThreads` | no transition under a dump, with concurrency, cancellation and a failing watchdog | GPIO thread and a command line process, 1 processor, 1 attention |
| `DaemonSerial` | commands take effect, each whole; start and stop | 3 processes in every order, one after the other |
| `DaemonClients` | clients return, nothing is left over | a daemon and 2 clients at the same time |
| `DaemonAny` | no word lost or executed twice; who may be blocked for ever | 2 processes started at any time, one that asks for a stop and has a word that is too long; failing threads and line requests, one process killed |
| `Analysis` | blame, callouts, guard, exceptions | 2 processors, 4 OCMBs of 3 models, every list of at most 2 of 26 signatures and of 3 of 5 mixed ones, 3 states of the hardware, 11 readings, 4 types of analysis, any number of analyses |
| `Hreset` | bound of the wait, IDs, results, termination | 2 SBEs, 2 IDs shared with another process, 3 calls, timeout 3, 1 unrelated event |
| `Monitor` | edges seen and served | 2 processors, 2 kinds of attention, one of the four masked, queue of 2, 4 attentions, 2 faults, 2 starts |
| `Doc...` | see section 5 | the smallest that shows it, or that of the passing run |

Properties of the handler:

* `OneTransition`: an invocation starts one systemd target at most, and takes
  another attention only as long as it has asked for neither dump nor target.
* `DumpHasLog`: a hardware or hostboot dump goes with an error log that exists.
* `TransitionAfterDump`: no transition under a dump in progress, or one whose end
  was missed, unless the wait has timed out.
* `TransitionLogged`: no transition without a PEL, except for the two kinds of
  hostboot TI that need none.
* `WatchdogExact`: the watchdog is off exactly while a watched dump is in hand.
  It needs a single thread, no cancellation and a property that can be written;
  `DocWatchdog` and the hazards say what happens otherwise.
* `DownInPriority`, `TriedOnce`: the invariants of the abstract service, of the handler.
* `Returns`: every invocation returns, whatever happens to its dump.
* `ImplementsService`: refinement of `AttnService`.

Properties of the monitor:

* `EdgeServed`: an attention that pulled the line down, and is not masked, is unseen
  when the monitor waits with an empty queue only if it is `lost`: the scan that came
  for it could not read its processor's registers, or the line's value could not be
  read. A failure on one processor is no excuse for an attention on another.
* `RunsBounded`: handler runs do not outnumber edges and starts.
* `EdgeSeen`: the scan gets to such an attention, unless it is lost in that way or the
  monitoring fails. Nothing brings a lost one back but another edge or a start.

Properties of the daemon:

* `CommandWhole`, `OffAsked`, `QueueServed`, `Delivered`, `StopStops`, `StartMonitors`
  for commands that do not overlap. `OffAsked` relates the parser to the command
  lines: no flag is off that no command has turned off.
* `NothingLeft`, `ProcessReturns` for clients of a running daemon.
* `OptionsOnce` for any overlap: a word that was sent is in one queue, with one
  listener, or in one executed command.
* `BlockedUnread` for any overlap, stops, failures and a kill: a process may be
  blocked in `send()` for ever, but only on a queue that nobody reads any more. A sender
  and a listener never block each other.

Properties of the hreset:

* `WaitBounded`: what was waited and what may still be waited is within the
  timeout, whatever signals come. `Returns`: the call returns.
* `IdsAccounted`: no ID is with two processes, and each that is lost goes with one
  request that was made ready.
* `ResultHeard`: a result is taken from an event that answers a request of this
  process; where all sensors are known, of one about this SBE. It may be an
  earlier request for the same SBE: nothing in the event tells.

Properties of the analysis:

* `BlamesBest` and `NoneToBlame` compare the filter with a declarative ranking of
  single signatures (`RankIn`): the one blamed is the first of the best rank, or a
  known cause of it; if none is blamed there is none to blame. They hold for lists
  all of whose chips have data (`Complete`); without, the filter may throw.
* `RelayNotBlamed`: an attention that relays one of an OCMB.
* `CalloutsExact`, `SubsystemExact`: list and subsystem, which the code builds up
  call by call, against what they should be for the set of calls made.
* `CalloutsKept` (an action property): no callout disappears, moves or is lowered.
* `SomebodyCalled`: a system checkstop or an exception never ends without a callout.
* `StackHoldsBroken`: the static stack holds nothing but actions that a file calls for
  and that cannot be resolved: with complete data files it is empty between analyses.
* `TodGuards`: where the plugin for the step check faults is all the resolution a
  signature has, a chip is guarded either for an internal fault of its own, if no
  processor reports a fault of the active network (at its MDMT or on a path to a
  chip that follows it), or because it reported the fault, if neither topology
  shows any fault. Other resolutions of a TOD
  error guard on their own account: the data files have bits that call out and
  guard the chip itself next to the plugin, and the property is not about them.

Bounds. `MaxRaise` bounds the attentions ever raised; two on two processors let
any two types be pending at once, on one processor or on both, or one be raised
during the handling of another, which is what the order of service depends on. A
second thread matters for the watchdog and for double service only. Two clients
are enough to mix commands, two daemons to orphan a queue and use the new one.
`MaxQueue` is not reached: each listener removes the name once before it creates a
queue, and one more is created only after a stop. In `Monitor` the queue holds
fewer events than attentions are raised, so that it can be full. In
`Hreset` three calls let one answer be late for two others, two IDs run out with
another process, and a timeout of 3 gives the shrinking of the remaining time
two wake-ups before its end. In `Analysis` each rule of the filter has a signature,
two of them decide every pair of rules, three the combination of a relayed
attention, an OCMB and a third; analyses follow one another without bound, which
is finite because only the stack survives.

Fairness. `AttnHandler`: `WF_vars(Step(t))`, a thread inside the handler goes on;
its D-Bus calls and register accesses have timeouts of their own and the waits
for dumps and hresets are bounded by the code. Nothing obliges hardware, host,
listener or dump manager to act, so `Returns` does not depend on a dump ending. In
`AttnDaemon` each thread is weakly fair by itself; nobody is obliged to start a
process, and a blocked `send()` or `receive()` is not enabled, so that a wait for
ever shows up as a violated liveness property. In `SbeHreset` and `AttnMonitor` the
one thread is weakly fair, and the other side is not: no answer has to come, no
attention has to be cleared. `Analyzer` has safety properties only.

## 4. Proofs

`AttnServiceProofs`, for any set of attentions that are ranked by numbers
(`WellRanked`):

* `ServedInOrder` (`DownInPriority`) and `ServedOnce` (`TriedOnce`). The invariant
  `OrderInv` adds to both that an invocation that is collecting has served nothing
  yet (`Fresh`): without it, the step that collects could not be shown to
  keep the order.

`AttnHandlerProofs`, for any threads, processors, masks, configurations, bound
on the attentions and set of failures:

* `TypeCorrect`: `Spec => []TypeOK`.
* `Safe`: `Spec => []SafeInv`, the inductive invariant behind the next four. Its
  parts: `OrderInv`, what is still empty before a control point (`Before`) and at
  the points that lead back to `pick` (`Leaving`); `LogInv`, a log exists from the
  request of a watched dump on; `WaitInv`, past the wait a dump has
  been heard, timed out or is unknown; `RecordInv`, a PEL was sent or none is
  needed from the point on that leads to the transition. None of the
  properties is inductive alone: each speaks of `targets`, which change in one
  step at the end, while what makes that step right happened many steps before.
* `OneTransitionHolds`, `DumpHasLogHolds`, `TransitionAfterDumpHolds`,
  `TransitionLoggedHolds`: consequences of `SafeInv`.
* `Implementation`: `Spec => ImplementsService`. `ServiceInit` and `ServiceStep` show
  that initial states map to initial states and each step, from a state in
  `SafeInv`, to a step of the service or to a stutter. Handlers that give up need
  `OneTransition`'s second half; `Pick` needs the definition of `Front`.
* `DownInPriorityHolds` and `TriedOnceHolds` come from the abstract service: the
  theorems of `AttnServiceProofs` are instantiated under the refinement mapping
  (`Order`), the ranks of the handler are numbers (`Ranked`), and `Implementation`
  carries the invariants over.

`SbeHresetProofs`, for any SBEs, IDs, PDRs, descriptors and timeout:

* `TypeCorrect`, by `TypeInv`: the types, and that no more requests are made ready
  than calls were made, which bounds `encoded`.
* `WaitBoundedHolds`. The arithmetic lemma is about `Left`: the time waited so far,
  which includes that of earlier turns, is taken off again at each turn, so what
  remains shrinks at least by what was waited.
* `IdsAccountedHolds`, by `AccountInv`, which adds that the ID of a call that is
  about to encode is held: so the one ID it is allowed in advance is the one that
  `Encode` counts or gives back.

`AttnMonitorProofs`, for any processors, kinds, queue length and bounds:

* `TypeCorrect` and `RunsBoundedHolds`.
* `EdgeServedHolds`, by `EdgeInv`: each attention that is `Due` (it made an edge, is not
  masked, and is neither seen nor lost) is `Covered`, by an event in the queue, a scan
  that has yet to come to its processor, or an event just read. That
  attentions that are active and not masked are latched (a part of `TypeOK`) keeps the
  line low, so that the event just read leads to a scan.

`AttnDaemonProofs`, for any number of processes, command lines and message limits:

* `TypeInvHolds`. Besides the types, `TypeInv` says that a process that sends has a
  queue object and words left.
* `OptionsOnceHolds`, for any overlap, kills and failures, by `OnceInv` and `KeptInv`.
  `OnceInv` says of the places of a word (what each listener has collected, each
  queue object, each executed command) that they are pairwise `Apart`, hold a word
  `Once` and none that has not been sent. `KeptInv` says that a word that was sent is
  in one of them unless a process was killed. The property itself speaks of
  numbers of places, which no step can be shown to preserve without both.
* `CommandWholeHolds`, under `Serial`: processes take turns, nobody is killed, no
  word is too long (run `DaemonSerial`). `SerialInv` is `Turns` (one process and one
  listener are active, and they use the queue that has the name) and `Talk`: there
  is one sender `p` and a number `n` such that the listener has collected exactly the
  first `n` words of `p` and the queue holds nothing or the next one.
* `QueueServedHolds`, under `Serial` where threads can be created, by `ServedInv` on top
  of `SerialInv`. `OffAskedHolds`, under `Serial`: the words given to `parseConfig()` are a
  command line, and it is enough to follow the flags through it.
* `NothingLeftHolds`, under `Clients`: any number of processes at once, none of which
  asks for a stop (run `DaemonClients`). `OneDaemon` says that there is one listener
  and that clients use its queue; `Pending` that each word on its way belongs to
  a process still sending, or the end of its command is on its way as well.

`AttnHandlerProofs` also has `WatchdogExactHolds`, under `Alone`: one thread, no
cancellation, writes of the property that succeed (run `HandlerOne`). `SbeHresetProofs`
has `ResultHeardHolds`, under `TruthfulDaemon`: the PDRs give the hreset state one
place, and list the sensors in the order of the SBEs (run `Hreset`). `HeardInv` says
what may be in the inbox (`Told`), that the IDs that were looked up belong to their
sensors (`SensorsRight`), and that a status, once set, was set by an event about this
SBE (`Deciding`).

`RootCauseProofs`, for any device tree, data files and lists of signatures:

* Each rule of the filter finds the first signature of a kind (`SimpleRules`,
  `FlagRules`), a sequence of rules the first that any finds (`FirstOfIs`,
  `RulesInOrder`), and the ranking names the same one (`RankIsBest`, `BestIsRanked`,
  `NoneRanked`); `SpecialCases` adds the known causes. `FilterYields` combines them.
* `RootInvHolds`: `root` is what the filter yields for the list and the type that are
  held, and no root was found only if the filter finds none. It is what links a
  state late in the analysis with a computation at its begin.
* `BlamesBestHolds`, `NoneToBlameHolds` follow from both. `RelayNotBlamedHolds` needs
  `RelayFlags`: only bits of `MC_DSTL_FIR` and `MC_USTL_FIR` of processors carry
  `attn_from_ocmb`, as in the repository's data files.
* `ParseActionIs`: the recursion of the walk has a solution for any files, cyclic ones
  too. An action is walked in the walk of another only with the other's name on the
  stack, but the code does not pass the stack down: it takes what the walks before
  have left. So that the recursion ends can only be shown together with what it yields.
  `SoundBelow` and `TurnRight` show for `k`, the number of actions off the stack
  (`Height`), that a function that is right below `k` restores the stack in each walk
  that succeeds (`Sound`) and can be made right below `k + 1`.
* `WalksSound`, then, is about all walks. `ShorterStack`: names that are left on the stack
  make no difference to a later walk but to abort it. `WalkLeaves`: a walk adds only
  names the file calls for, and only of actions that throw from an empty stack
  (`Broken`) if an exception ends it. Both by `FromTheTop`, an induction over stacks
  from the highest down.

`AnalyzerProofs`, for any device tree, data files, lists of signatures and readings:

* `CalloutInvHolds`: `CalloutInv` says that the list names no part and no procedure
  twice (`Unique`), that procedures are no more than their names and priorities
  (`Plain`), and that next level support is called out once something failed.
* `CalloutsKeptHolds` (`CalloutsKept`), `CalloutsUnique`, `FailureReported` follow; the
  lemmas on `AddCallout` are about any list, so they do not depend on what the
  resolutions and plugins compute.
* `DataInvHolds`: the list is exact (`Exact`) for the entries of the calls made so far
  (`Said`), the subsystem follows them (`Follows`), and there are none between
  analyses. `AddExact` shows that one more entry changes the list as it changes the
  set of strongest entries; `SaidAppend` that one more call appends its entries.
  `CalloutsExactHolds` and `SubsystemExactHolds` follow, for any sequence of calls.
* `SomebodyCalledHolds`, under `CheckstopsCall`. `SpokenInv` holds a
  promise: until something was called out for a checkstop there is a call left to
  make, or a resolution that makes one whatever the hardware answers (`Speaks`).
  That one of the resolutions of a blamed signature is of that kind is up to the
  data files, and is what `CheckstopsCall` says of the walk from an empty stack;
  `ResolutionSound`, which sums up the lemmas on walks, carries it over to any stack.
* `StackHoldsBrokenHolds`: by `StackInv`, each name on the stack is broken in some file, in
  every phase but after a failed assertion, which ends the process.

* `TypeInvHolds` and `TypeOKHolds` (`TypeOK`), whatever the plugins compute from the
  hardware's answers. `TypeInv` says more than `TypeOK`: a resolution that waits
  conforms to the schema (`LeafOK`), and a call that waits has what it is about
  (`GoodCall`): a target, where it is about one, or a procedure that exists.
  `ResolutionGood` shows that each resolution and plugin makes calls of that kind
  only, `CallTyped` that each such call adds entries of their type, and
  `SignatureLeaves` that the walk over the actions yields elements of the files
  only. What goes up the device tree (`Above`, `GetLocationCode`) is a recursion
  over the parents: `TreeRecursion` proves that any such recursion has a solution, by
  following `Order`, and `TreeInduction` that a set is the whole tree if it has the
  roots and, with each target, its children; `AboveIs`, `LocationIs` and `TreeAnswers` follow. `SelectedIs`
  shows that `Selected` yields the elements at the places asked for and no others.
* `TodInvHolds` and `TodGuardsHolds` (`TodGuards`). `TodCallsAre` is about the plugin: each
  call it makes that guards is justified (`TodCall`). `PathSource` says that a path at
  fault has a source, and `NetworkFaultsAre` that the list of path faults is empty
  only if no processor reports one, which is what the guards for internal faults and of the reporter are about. For the guard of the reporter,
  which the code gives when it has found nothing, it takes that no search for the
  source of a clock ended in an exception (`NoTrouble`). `TodInv` is about the analysis:
  the plugin is asked once, nothing else adds a call, and all calls, those made
  and those left, are of the plugin. `DataInv` and `SaidFrom` trace an entry of
  the list to a call that was made, `GuardingEntry` its guard to that call.

`ListLemmas` has what these proofs say of lists. That `FlattenSeq`, a recursive
function, exists and what one more element adds to it is proved by taking the
least length for which it would fail (`FlatteningExists`, `FlattenAppend`), which
needs no induction rule. `SelectingExists`, `TreeRecursion` and `TreeInduction` of
`AnalyzerProofs` are proved in the same way.

All of them assume the named assumptions on the constants (`HandlerAssumption`,
`ServiceAssumption`, `HresetAssumption`, `MonitorAssumption`, `DaemonAssumption` and those of
the analyzer's modules), which TLC evaluates in the runs. The further hypotheses of
single theorems are conditions under which the property holds at all: each says
how the service is used or what the data files contain, and holds of the constants
of the run that checks the property. `RelayFlags`, `CheckstopsCall` and `TruthfulDaemon`,
which are about tables of the instance, are assumptions of `MCAnalyzer` and
`MCSbeHreset`, so that TLC evaluates them as well; `Alone`, `Serial` and `Clients` can be
read off the configuration files.

`OrderAssumption` and `SchemaAssumption` are assumptions of `DevTree` and `Analyzer`: the
first says how pdbg lists targets, the second what the code asserts of a file.

Only model-checked: the liveness properties `Returns`, `EdgeSeen`, `ProcessReturns`,
`BlockedUnread`, `Delivered`, `StopStops`, `StartMonitors`, since liveness under fairness is out of the
prover's reach. Every invariant and action property of the passing runs is also
the statement of a theorem.

## 5. What disagrees with the documents and comments

Each of the first four is a run that TLC must find violated.

| Run | Said | Done |
|---|---|---|
| `DocWatchdog` | `attn/attn_dump.cpp:130`: watchdog disabled while a dump is collected | the end of one request enables it under another's dump |
| `DocFlags` | `analyzer/filter-root-cause.cpp:341`: signatures with flags recovered_error, informational_only, attn_from_ocmb are skipped | flags given by way of an action are never seen: `isFlagSet()` discards the result of its search (`ras-data-parser.cpp:164`) |
| `DocStack` | `analyzer/ras-data/ras-data-parser.cpp:362`: the assertion prevents cyclic recursion | it also fails for an action that is not cyclic, after an exception has left its name on the static stack |
| `DocSend` | `util/pldm.cpp:37`, `:258`: a file descriptor on success, false if sending fails | a positive descriptor is taken for a failure, and nothing is sent |

What `DocStack` needs exists in the data files: the default action `level2_M_th1` of
`parseSignature()` is missing from the P10 and Odyssey files, so that a signature
without a data entry throws, and the next one aborts the process.

Seen while modelling, each to be read off the code and without a run of its own:

* `attn/Attention_Handler.md:27` gives the order vital, TI, BP, checkstop; in
  `attn/attention.hpp:31` a checkstop outranks a special attention.
* `attn/Attention_Handler.md:137` assumes a breakpoint if the TI info is valid and
  names no TI; `attn/attn_handler.cpp:348` does only if it is not valid.
* `attn/Attention_Handler.md:176` wants at least one PEL for any special attention;
  a breakpoint, a TI with EID, a clean shutdown of hostboot and disabled handling
  make none.
* `attn/Attention_Handler.md:14` allows one instance of the service per signal; in
  the build with a listener every daemon mode process serves pending attentions,
  before it knows whether a daemon runs.
* `attn/Attention_Handler.md:81` begins with the signal becoming active. An attention
  raised between the scan of `main_nl.cpp:75` and the request of the line, or while
  the line is low already, for one because a memory preserving restart has left a
  latch set, makes no edge: it is seen at the next edge or start, not before. So
  `EdgeServed` is about attentions that made an edge.
* `attn/attn_handler.cpp:128`, `:148`: a register that cannot be read, or reads as all
  ones, passes its processor over, and only the failed read makes a PEL. The line
  stays low, so the attention makes no further edge of its own and waits for
  the next edge or start.
* `attn/Attention_Handler.md:74` has the service restarted by systemd when it fails;
  `main_nl.cpp:77` ignores what `attnDaemon()` returns, so that a monitoring that
  failed ends with status 0, and the unit says `Restart=on-failure`.
* `listener.cpp:65`: the end marker says that all parameters of a command were sent;
  with two clients at once any client's marker ends the command of both, and a
  command may mix their words. `CommandWhole` is checked without overlap.
* `main.cpp:104` takes the listener to be running if its queue exists; the queue
  outlives a daemon that was killed, and clients then wait for nobody.
* `main.cpp:115`: the new daemon waits for *a* queue of that name, which may be one
  that its own listener is about to remove.
* `listener.cpp:156` assumes that nothing was sent when `sendCmdLine()` fails, but
  the words before the one that failed were.
* `util/pldm.cpp:600` and `attn/attn_dump.cpp:92`: the minute, and the hour, are upper
  bounds; every unrelated signal takes the time since the start off once more.
* `analyzer/filter-root-cause.cpp:505`: the root cause of a failed channel is searched
  for on all chips, so that an IUE of another OCMB may be blamed.
* `analyzer/plugins/p10-tod-plugins.cpp:331`: the chips sourcing the errors are to be
  called out, not those reporting them; `setNetworkFault()` is given both.
* `analyzer/plugins/p10-tod-plugins.cpp:273`: a port register that cannot be read also
  skips the check for internal faults of that chip.
* `analyzer/plugins/p10-plugins.cpp:34`: the PLL unlocks that P10's plugin counts
  include those of Odyssey OCMBs.

## 6. Not modelled

* Payload: raw PEL sections (`attn/pel/`), the additional data, SRC words and FFDC of
  PELs (`attn_logging.cpp`, `create_pel.cpp`), TI data for the PEL, register capture
  (`addHbStatusRegs()`, `addPrdScratchRegs()`), the JSON of callouts. No decision
  of the service reads them.
* Files and tracing (`util/ffdc*`, `temporary_file`, `trace`): input and output.
* The bodies of D-Bus requests whose result is a choice in the model, and register
  access (`getScom()`, `getCfam()`), which are wrappers without decisions.
* RAS data files and their schema: the model takes a file as a record, and the
  instance of `MCAnalyzer` cuts those of the repository down to one action of each
  kind. That actions are acyclic is assumed of them: the search for flags
  (`ras-data-parser.cpp:67`) would recurse without bound before the assertion of
  `parseAction()` were reached.
* The use of `attnConfig` by a GPIO thread that is cancelled but not yet gone, after
  the listener's stack has ended (`listener.cpp:45`): it has no defined outcome.
* libhei's isolation, pdbg, libpldm, the PLDM daemon, hostboot, the kernel, systemd
  and the logging service are external; the models say what they may do.

Further work would be an instance of `Analyzer` with the repository's data files in
full.
