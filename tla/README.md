# framewalk in TLA+

framewalk lets an MCP client drive GDB: a server (`framewalk-mcp`) turns tool
calls and Scheme programs into GDB/MI commands, a transport
(`framewalk-mi-transport`) runs GDB as a child process and talks to it over
pipes, a sans-IO connection (`framewalk-mi-protocol`) pairs answers with
commands and keeps a picture of the target, and a framer and a codec
(`framewalk-mi-wire`, `framewalk-mi-codec`) cut and parse GDB's output.

This directory holds TLA+ models of that program, TLC configurations that check
them on small instances, and TLAPS proofs of what matters most. Every path
below is relative to `src/crates/`. `PROJECT.json` maps each definition of a
model to the lines it stands for.

Contents: [the system](#the-system) - [the plan](#the-plan) -
[the modules](#the-modules) - [the runs](#the-runs) - [fairness](#fairness) -
[the proofs](#the-proofs) - [findings](#findings) -
[what is not modelled](#what-is-not-modelled)

## The system

```
 MCP client
     |  tools                               scheme_eval
 server, tools/*  --------------------->  SchemeWorker thread  (own block_on)
     |  submit, drain_events                |  submit_raw, *-and-wait, wait-for-stop
     +-------------------+------------------+
                  TransportHandle ---- SharedState (pending map, journal, alive, notify)
                     |  mpsc channel        ^
                  run_writer             run_reader --- Connection (tokens, registries)
                     |  stdin               |  stdout        Framer, codec
                     +-------->  GDB  ------+
```

### Command path (`framewalk-mi-transport`: handle, shared, pump)

State: the pending map of oneshot senders in `SharedState` and the pending map
of operations in the `Connection`, each under a lock of its own; `reader_alive`;
the bounded channel to the writer. Operations: `submit`, `submit_raw`, the
reader and writer tasks, the guard that drains the map when the reader ends,
`shutdown`. Hard: `submit` takes three locks and waits twice, its caller may
abandon it at either wait, the reader and the writer end for their own reasons,
and nothing in `submit` times out, so that somebody must fire or drop each
sender. Correct when a call gets the answer to its own command, `Exited` is said
only of a session that is over, no call waits for ever, and `shutdown` returns.

### Event path (shared, handle, pump; the Scheme bindings; `drain_events`)

State: the event journal (bounded, with eviction), `latest_stopped`, the
`Notify`. Operations: recording an event, recording a synthetic log,
`next_stop_after`, `current_or_next_stop`, the trigger-and-wait primitives,
`drain_observed_events`. Hard: the waits run on the Scheme thread while the
reader runs on the runtime's; the reader classifies a chunk under one lock and
journals it afterwards; the journal may evict what a wait has not read. Correct
when no wakeup is lost, a wait returns the first stop after its cursor, a
trigger misses no stop of its own command, and a drain says what it lost.

### Connection and registries (`framewalk-mi-protocol`)

State: token allocator, token-to-operation map, outbound queue, the target
state and the registries of threads, frames, breakpoints, variable objects and
features. Operations: `submit`, `submit_raw`, `consume_outbound`, and the
classification of result, exec and notify records. Hard: GDB's replies do not
say what they answer, they mix with notifications of threads that start, stop
and exit unasked, and all of it has to leave one coherent picture. Correct when
a snapshot never contradicts itself, and agrees with GDB when the reader has
caught up.

### Framer (`framewalk-mi-wire`)

State: a byte buffer and a read position. Operations: `push` (with lazy
compaction) and `pop`. Hard: chunks end inside a line, on a CR, between the CR
and the LF; positions shift with compaction. Correct when the frames depend on
the stream only, never on how it was cut.

### Codec (`framewalk-mi-codec`)

No state: the builders of a command and its encoder, with C-string quoting and
the `--` separator; a recursive-descent parser of one line of GDB's output.
Hard: two quoting rules that must agree with GDB's reader, octal escapes with
digits behind them, lists whose kind is decided by their first item, and texts
of a client that look like options. Correct when GDB reads each command as it
was meant, and the parser reads each record as GDB printed it.

### GDB subprocess and bootstrap (`framewalk-mi-transport/src/subprocess`)

`spawn` starts GDB and the pump tasks, then sends `mi-async`, `non-stop` (if
asked for), `pagination` and `confirm`, two seconds each. Hard: each command can
be refused, time out or find GDB gone. Correct when `spawn` comes to an end, and
a session is served only if every command was accepted.

### MCP session and target selection (`server_helpers.rs`, `tools/operator.rs`)

State: `last_target_selection_command`, GDB's non-stop setting, the probes for
vmlinux. Operations: `target_select` with its downgrade to all-stop and retry,
the startup `--connect`, raw and Scheme selections, `reconnect_target`. Hard: a
sequence of commands of which any may fail after the ones before it have changed
GDB, with the sequences of other callers between its steps. Correct when what is
remembered is what GDB has, a selection is retried once, and no request outlives
GDB.

### Scheme worker (`scheme/worker.rs`, `bindings.rs`, `route.rs`)

State: a channel of 32 requests, an engine on a thread of its own, the deadline
of the current eval, a watchdog thread per eval. Operations: call, time out,
receive, the primitives that block on GDB, interrupt, rebuild after a panic.
Hard: the caller times out while the engine runs on; the interrupt reaches a
program that computes and not one that blocks; the watchdog may expire just as
the eval ends. Correct when an eval keeps to its budget, an interrupt hits only
the eval it is meant for, every call returns, and calls are served in order.

### Background tasks and process shutdown (`background.rs`, `main.rs`)

The order of the start and of the end: spawn GDB, connect, spawn the worker,
serve; then abort the background tasks, close the channel and join the worker,
take the transport out of its `Arc`, `shutdown`. Hard: whoever still holds the
`Arc` prevents the orderly end of GDB.

### Raw guard (`raw_guard.rs`) and tool surface (`tools/*`, `types/*`, ...)

The guard classifies raw command lines by an allowlist of operations. 122 tools
make one MI command each of their arguments, and keep no state. Correct when the
operation that the guard judges is the one that GDB runs, and every argument of
a tool reaches GDB as that argument.

## The plan

Modules, in the order of their importance; all of them exist.

| module | what it is | composes or refines |
|---|---|---|
| `Transport` | command path | implements `CommandService` |
| `CommandService` | what a caller of `submit` may rely on | abstract |
| `EventJournal` | event path | GDB's records as an abstract stream |
| `Framer` | framer | implements `LineStream` |
| `LineStream` | the lines of a byte stream | abstract |
| `Connection` | classification and registries, any records | |
| `GdbSession` | a session with a GDB that has an inferior | extends `Connection` |
| `SchemeWorker` | channel, callers, budgets, watchdog, engine | the transport's calls as outcomes |
| `Server` | start and end of the process | extends `SchemeWorker` |
| `TargetSession` | bootstrap, target selection, downgrade, reconnect | a GDB that refuses, is silent or exits |
| `MiCodec`, `MiParser` | encoder and c-strings; the parser of a record | |
| `GdbInput`, `GdbOutput` | how GDB reads a command and prints a record | over `MiCodec`, `MiParser` |
| `RawGuard` | the guard of raw commands | extends `GdbInput` |
| `TextItem` | a text that is made step by step | over `MiCodec` |
| `CommandText` | commands built and raw lines typed, and both ends compared | extends `RawGuard`, `TextItem` |
| `ToolArgs`, `Tools`, `ToolCalls` | arguments and commands of the tools, and both ends compared | extends `RawGuard`, `TextItem` |
| `RecordText` | records printed and parsed | extends `GdbOutput`, `TextItem` |
| `MiText` | all that crosses the pipes as text | extends the three above |

Theorems, in the order of their worth; all of them are proved: the inductive
invariant of `Transport`, its consequences, and that it implements
`CommandService`; types and coherence of the `Connection`, carried to
`GdbSession`, whose registries agree with GDB; the invariants of `EventJournal`
(`NoLostWakeup`, `FoundIsFirstRetained`, `TriggerPrecedesStops`) and its drains;
the budget of an eval, the order of the calls and the end of the process, for every
program and every budget; `OneRetry` and `MemoIsLatest` for any number of
callers; `Framer` implements `LineStream`; a command of any texts is read as
itself, and the guard agrees with GDB on every raw line. The parser of
records is recursive and stays with TLC, as the tables of tools and liveness do.

## The modules

### Transport.tla

A call is one invocation of `submit` or `submit_raw`; a caller that submits
twice is two calls. `Quit` is the call that `shutdown` makes. One action is the
code between two lock operations or two await points, so that TLC sees every
interleaving the locks permit.

| actions | code |
|---|---|
| `SubmitBegin`, `SubmitRefused` | the test of `reader_alive` |
| `ConnectionSubmit` | under the connection lock: `Connection::submit`, `drain_outbound` |
| `RegisterPending` | the sender goes into `SharedState::pending` |
| `Send`, `Park`, `SendClosed`, `Rollback` | `write_tx.send`, the wait for room, the failure path |
| `Receive`, `Cancel` | the oneshot; the caller drops the future at an await point |
| `ReadChunk`, `Dispatch` | a read classified under the lock, then one event at a time |
| `ReadFails`, `ReadEof`, `MarkReaderExited`, `DrainPending` | the exits of `run_reader` and its drop guard, in its order |
| `WriterRecv`, `WriterWrite`, `WriterFails`, `WriterEnds` | `run_writer` |
| `BeginShutdown`, `QuitReturned`, `ChildWaited`, `TasksJoined` | `shutdown`, `finish_shutdown` |
| `GdbServe`, `GdbRepeat`, `GdbExit`, `StdoutCloses` | external: GDB and its pipes |

A oneshot is `slot` (the fate of its sender) and `value` (what went through it).
A command line is its token, a result record a token with an outcome.
`SingleThreaded` chooses tokio's runtime: on `current_thread`, which the binary
uses (`framewalk-mcp/src/main.rs:33`), no task starts a poll inside another's;
the crate itself does not ask for that runtime. `ReadFailures` chooses whether
a read may fail, or overflow the framer, while GDB lives.

`CommandService.tla` is what is left when tokens, maps, channels and tasks are
taken away: GDB gives one verdict on each command, and the call returns it, or
`Exited` when the session is over, or is given up. `Transport!ServiceSpec` is
that specification under the mapping `Service`.

### EventJournal.tla

The reader, the tasks that record synthetic logs and the tools share the
runtime's thread (`RuntimeFree`); each wait has a thread of its own. A record is
what it does to the target and to the journal, and whose completion it is. In
non-stop mode records of several threads mix, so GDB prints any sequence of
them. A wait begins with `CaptureCursor` (a trigger-and-wait: the cursor, the
command, its completion, then `next_stop_after`) or with `Snapshot`
(`current_or_next_stop`: three reads under three locks). `Find`, `CheckAlive`,
`Arm`, `Find`, `CheckAlive`, `Notified`/`Timeout` are `next_stop_after`.
`Notify` is the count of its calls: a `Notified` made at count g is ready when
the count has left g, which is what tokio documents of `notify_waiters`.
`DrainEarliest`, `DrainEvents`, `DrainCursor` are `drain_observed_events`,
called again with the cursor it returned.

The history variables `stops` and `seen` number the stops, so that "current"
can be said of one. The journal is a sequence of every event ever recorded with
the number of the oldest one retained, instead of a deque.

### Framer.tla and LineStream.tla

Bytes are LF, CR, blanks, others, and `Prompt` for the five bytes of `(gdb)`.
`push` compacts and appends, `pop` cuts the next line. `LineStream` has no
positions and no chunks: bytes arrive, a line is cut. `Framer!LinesSpec` is its
specification under `rest <- ` the bytes after the read position.

### Connection.tla and GdbSession.tla

`Connection` has one action per operation: `submit`, `submit_raw`,
`consume_outbound`, `classify_record`. A record's payload keeps what the
registries read: a thread's state, a frame's place, whether a breakpoint is
enabled, a variable object's value, the features. Its own `Spec` lets GDB print
any record at all, and is what the theorems are about.

`GdbSession` extends it with a GDB (external) that has an inferior: it answers
commands in order, or refuses them, while its threads spawn, stop and exit and
its breakpoints change unasked. A step of GDB prints its records at once and
`Receive` takes one, so that every split of the output into chunks occurs. What
the model takes for granted of GDB: it prints `*running` for a thread it resumes
or spawns (for `all` in all-stop mode), `=thread-exited` for each thread and
then `*stopped` with an exit reason at the end of a process,
`=thread-exited` and then `^done` on a detach, `^running` on `-exec-run` and
`-exec-continue`, `^connected` on `-target-select`; `-exec-run` kills the
process there is; `-var-delete` deletes children.

Whether non-stop is on and which commands a session uses are chosen by
`SessionInit`. `submit_raw` does not route the reply, so what a raw command
changes in GDB is not expected in the registries.

Four divergences between GDB and the registries are known from the code and kept
out of the properties, which would be about them only: in all-stop mode
`*stopped` names one thread and `stopped-threads` is not read, so that the
other threads stay Running (`RegistriesAreCurrent` speaks of their states in
non-stop mode, the default); GDB prints no notification for `-break-delete` and
`-break-disable`, so that the registry keeps the breakpoint; `-var-delete`
removes the object and not its children; the frame of a thread that has exited
stays (`RegistriesAreCurrent` speaks of threads that live).

### SchemeWorker.tla and Server.tla

`SchemeWorker` is four actors: the callers (`Call`, `PollCall`, `PollGranted`,
`CallerTimesOut`: `scheme_eval_route` and `SchemeHandle::eval`), the worker
thread (`Receive` to `Reply`: `worker_loop`, `process_one`,
`run_engine_with_budget`), the watchdog thread and the Scheme program, which
computes, calls primitives or panics as it likes.

| actions | code |
|---|---|
| `CallRefused`, `Call` | `budget_secs` absent, zero or capped; the task of the request is spawned |
| `PollCall`, `PollGranted` | `tx.send`: in the channel at once, or in a queue for room |
| `Receive`, `WorkerExits` | `blocking_recv`; the deadline is set, the watchdog spawned |
| `Mi`, `SubmitAnswered`, `SubmitTimesOut` | `submit_raw_with_timeout`, on the runtime, awaited by the thread |
| `WaitForStop`, `TriggerAndWait`, `WaitEnds` | the stop primitives, their timeouts checked or cut |
| `WatchdogExpires`, `WatchdogInterrupts`, `VmInterrupted` | `recv_timeout`, `interrupt`, the VM's next operation |
| `EngineEnds`, `EvalDone`, `JoinWatchdog`, `Reply` | `engine.run` returns or panics, `done_tx`, `join` and `resume`, rebuild and reply |

Time is discrete: a timer is a countdown, and `Tick` lets one unit pass for all
of them. It does not overtake a timer that is due or a VM that has been
interrupted: `RunsWithinBudget` is about the code's arithmetic of budgets, not
about the latency of the machine. A program that calls a Rust function which
never returns by itself is not modelled; the primitives are all the ones there
are that block.

`Server` puts main around it: `Holders` are those who hold an
`Arc<TransportHandle>`; `Disconnect` drops the service, and with it the calls in
progress (rmcp, external), whose requests stay in the channel; `AbortAndWait`,
`JoinWorker`, `TakeTransport` are the ordered shutdown. Nothing orders `TakeTransport`
after the drop of a submit task that was aborted. The end of `shutdown` itself is
`Transport`'s.

### TargetSession.tla

GDB answers its queue of commands in order, each with success, a refusal or (of
a selection in non-stop mode) a mismatch, may stay silent, and may exit; then
the reader fails what is left. Tasks of the runtime resume in the order of
their answers (`runq`); the Scheme thread takes its answer when it gets to run,
or gives up. A request is a chain of points: `first`, `off`, `retry` for
`perform_target_select` and its downgrade, `disconnect`, `reselect` for
`reconnect_target`, `raw` for a raw line. `tries` and `latest` are history: how
often a request has selected, and what GDB accepted last.

### MiCodec, MiParser, GdbInput, GdbOutput

A byte is an element of a sequence: its character, or a name. A word the codec
never looks into (an operation, an option's name, a class) is one element.
`MiCodec` is the encoder and `parse_cstring`, function for function, `MiParser`
the parser of a record; its values nest, and only it (with what prints them)
declares recursive operators. The loop of `parse_cstring` is a recursive
function of the position in the line (`CStringFrom`).

`GdbInput` is how GDB reads a line (external): the digits of a token, a dash and
an operation, then words apart by blanks, of which a quoted one is a C-string;
the words up to `--` or to the first without a dash are options, and some
options take the next word. `GdbOutput` is what GDB prints (external). What
they take for granted of GDB is what the comments of the encoder say: the blanks
are those of `is_non_blank_sequence`, a quoted word is an argument all the same, and
GDB reads a C-string, `\xNN` included, as `parse_cstring` does, whose inverse the
encoder is (`framewalk-mi-codec/src/encode/cstring.rs:4`).

### RawGuard, TextItem, CommandText

`RawGuard` is `validate_raw_mi_command` over words; `Lower` is what
`to_ascii_lowercase` makes of a word. `TextItem` holds one text that is made step by
step, so that each reachable state is one input, and `CommandText` makes a command
by its builders, or a raw line by typing it. The keys of a raw line have no newline, which
`submit_raw` asks of its caller (`framewalk-mi-protocol/src/connection.rs:157`), nor a form feed
or a vertical tab: Rust takes these two for blanks in one or both of the guard's tests,
and nothing in the repository says what GDB takes them for.

### ToolArgs, Tools, ToolCalls, RecordText, MiText

`Tools` gives a handler as data, the operation and the list of
what is made of each field in the handler's order; `Command` is the handler.
`ToolArgs` gives every field its domain. A state of `ToolCalls` is one call with
its arguments, a state of `RecordText` one value of up to `MaxDepth` levels, which
GDB prints in records of each kind. `MiText` puts the three together for the
run: the first step chooses what the text is, and it stays that, so that a
behaviour of `TextSpec` that makes a command or a raw line is one of
`CommandText!Spec`, which the theorems are about.

### MC modules

`MCTransport`, `MCEventJournal`, `MCFramer`, `MCGdbSession`, `MCServer`,
`MCTargetSession` and `MCMiText` give the constants their sets. A name with an
underscore and a capital after it (`SubmitBegin_Unchecked`) is a mutant: the
definition it is named after with a plausible bug, used by no specification.

## The runs

`tlc -config <cfg> <module>` in this directory. States are distinct states found.

| run | cfg, module | states | what it shows |
|---|---|---|---|
| `transport_safety` | `TransportSafety`, `MCTransport` | 452,459 | types, `OutcomeIsOwn`, `ExitedIsFinal`, `NoOrphanSender`; implements `CommandService` |
| `transport_liveness` | `TransportLiveness`, `MCTransport` | 27,731 | on the binary's runtime: `NoStrandedCall`, `ReaderExitWakesCalls`, `ShutdownTerminates` |
| `shutdown_hang` | `ShutdownHang`, `MCTransport` | violated | `ShutdownTerminates` when a read fails while GDB lives |
| `event_journal` | `EventJournal`, `MCEventJournal` | 231,808 | `NoLostWakeup`, `FoundIsFirstRetained`, `TriggerPrecedesStops`, `WaitsReturn`, `DrainLosesNothing` |
| `stale_stop` | `StaleStop`, `MCEventJournal` | violated | `CurrentStopIsCurrent` |
| `framer` | `Framer`, `MCFramer` | 71,338 | `ChunkingIrrelevant`, `MemoryBound`; implements `LineStream` |
| `gdb_session` | `GdbSession`, `MCGdbSession` | 3,131,533 | `Coherent`, `RegistriesAreCurrent`, `TargetIsCurrent`, `LastReportKept`, `FeaturesStaleOnlyUnseen` |
| `stale_features` | `StaleFeatures`, `MCGdbSession` | violated | `TargetFeaturesCurrent` |
| `server` | `Server`, `MCServer` | 160,095 | `RunsWithinBudget`, `InterruptIsDue`, `ServedInOrder`, `EngineIsSound`, `OnlyAbortedHolds`, `EveryCallReturns`, `DisconnectEnds` |
| `shared_transport` | `SharedTransport`, `MCServer` | violated | `TransportIsUnique` |
| `target_session` | `TargetSession`, `MCTargetSession` | 125,032 | `MemoIsLatest`, `OneRetry`, `BootstrapEnds`, `GdbExitEndsRequests` |
| `text` | `MiText`, `MCMiText` | 36,678 | `CommandsArrive`, `GuardAgrees`, `CallsArrive`, `RecordsArrive` |

A "violated" run is kept beside the code as the shortest account of a
[finding](#findings); its property holds where the others pass.

### Bounds

- **Transport.** Two ordinary calls and `Quit`; a channel and a pipe of one line
  each (the code: 64 and the kernel's), so that both fill up, the second call
  parks, and the writer blocks; one repeated result (`MaxExtra`, in the safety
  run), enough to answer a token twice. Two outcomes, to tell a call's own from
  another's. The hazards are between one call, the reader, the writer and at
  most one other call whose token or entry could be confused with its own. The
  theorems below have no such bound. The two ordinary calls are symmetric, which
  the safety run uses; the liveness run does not.
- **EventJournal.** A journal of two events: what is retained has a first and a last,
  two retained stops can be told apart, and a third event evicts the first while a
  wait is between its cursor and its look. Up to three records of GDB's own
  (`MaxRecords`), the completion of the trigger, one synthetic log (`MaxLogs`). A
  behaviour has the wait or the two drains (`MaxDrains`), since waits and drains only
  read the journal and none sees another (`OneClient`); beside the wait GDB prints at most
  two records of its own (`WaitRecords`), which with the completion and the log are
  four events. `WaitsReturn` is about a wait that has begun; from then on `OneClient` holds
  back GDB and the drains, of which `Fairness` asks nothing, and no step that the wait needs.
  In `stale_stop` the capacity is the code's 1024, so that no eviction takes part.
- **Framer.** Streams of up to six bytes (`MaxInput`) over five kinds of byte,
  chunks of up to three (`MaxChunk`): two whole lines with their CRLF and a
  terminator, cut everywhere, and enough pops to pass the threshold of
  compaction in both directions.
- **GdbSession.** Two threads, one of them spawned; two places, so that a frame
  can be stale; one breakpoint, a variable object and its child; three commands (`MaxCommands`)
  in flight at once, and three unasked steps of GDB (`MaxAsync`). The command
  sets (`MCScripts`) are three, since commands on execution, on data and on
  targets touch different registries; within a set every order occurs. The set on targets
  has `-exec-run`, routed and raw selections and the list of the target's features, so that
  the cases in which the features go stale occur beside those in which they may not.
- **Server.** Three calls (`MaxEvals`): one that runs, one in the channel, one
  that waits for room, with a channel of one request (the code: 32). Budgets are
  one unit and the default wait two, so that a default is cut and an explicit
  timeout is refused; one background task (`Probes`). A client asks for zero, which
  is refused, or for more than the cap.
- **TargetSession.** Two tool calls at once, the Scheme thread and the startup
  connect, one remote and one local target, three requests in all
  (`MaxRequests`): a request between any two steps of another, and one after both.
- **Text.** Texts of up to two bytes (`MaxText`) over ten kinds of byte, one
  to a branch of the codec; up to two options and parameters (`MaxParts`), so that
  the first parameter follows an option with a value, one without, or none; raw
  lines of up to five keys (`MaxLine`): a word, blanks and a second word. A call
  gives each field every value of its domain, the two signed offsets a negative
  number (`I64`), and a tool's texts are a plain
  word, two dashes, and a text with a leading dash, a blank and a quote. Values are nested
  twice (`MaxDepth`), so that a list is in a tuple is in a list, and records cut at
  every byte; the limit of a token is 255 instead of 2^64 - 1 (`MaxToken`).

`CHECK_DEADLOCK FALSE` is set where the environment may go quiet for good (GDB
prints nothing more, no more bytes come). `Transport` keeps the check: it may
only stop when `shutdown` is closed.

## Fairness

`Transport` (`Fairness`): the runtime polls what can make progress, so a call's
own steps, the reader's, the writer's and `shutdown`'s are weakly fair; the
timer around `-gdb-exit` expires (`Cancel(Quit)`); the stdout pipe of a dead GDB
closes. Nothing is assumed of a live GDB, which may ignore every command, nor
of the timeouts of other calls: `ReaderExitWakesCalls` does not need them, and
`ShutdownTerminates` needs the one timeout that the code has.

`EventJournal`: the reader's tasks, a log or a drain that has begun, and the
threads of the waits are weakly fair. Nothing is assumed of GDB or of the
timeouts, so that `WaitsReturn` says that the *notification* wakes a wait. It
allows for the stop to be evicted before the wait looks, because the code does.

`Server`: the worker and watchdog threads run, the runtime polls the calls,
the aborted tasks and the background tasks, main goes on, and time passes
(`Tick`). Nothing is assumed of GDB, which may leave every command unanswered,
of the client, or of the Scheme programs, which may compute for ever:
`EveryCallReturns` and `DisconnectEnds` rest on the watchdog and on the timeouts of the
primitives. That an aborted task is dropped in the end is assumed, and not that it
is before main goes on: `DisconnectEnds` counts the panic of `shared_transport` as an end.

`TargetSession`: the runtime resumes tasks, the bootstrap's timer and a probe's
expire, the Scheme thread runs and its timer expires, and the reader fails the
commands of a GDB that is gone. A live GDB may stay silent, and then a tool call
waits for ever: the code gives it no timeout.

## The proofs

`tlapm` checks seven modules of theorems, `TransportProofs`, `EventJournalProofs`,
`FramerProofs`, `GdbSessionProofs`, `ServerProofs`, `TargetSessionProofs` and
`CommandTextProofs`, and `Lemmas` (least and greatest elements of sets of
naturals, pieces of sequences, loops), which several of them use. Every safety property
that a passing run checks is proved for all values of the constants, but for the
two named [below](#what-only-tlc-checks); the runs show on a small instance what
the theorem says of all.

### Transport (TransportProofs.tla)

`Inductive` is `Spec => []IInv`, from `CallsAssumption`, `ModeAssumption` and
`CapacityAssumption`: any set of calls, any capacities, either runtime, reads
that fail or not. The promises are parts or consequences of `IInv`:

| theorem | says |
|---|---|
| `TypeCorrect` | `TypeOK` |
| `OwnOutcome` | `OutcomeIsOwn`: the outcome a call returns is the first that GDB printed for its token |
| `ExitedFinal` | `ExitedIsFinal` |
| `PendingMapsAgree` | `NoOrphanSender` |
| `NobodyStranded` | `NoStrandedCall`, if `SingleThreaded` |
| `ImplementsService` | `ServiceSpec`: the command path implements `CommandService` |

None of them is inductive by itself. `OutcomeIsOwn` needs to know that what was
fired into a oneshot was the first record for its token (`ValueInv`). That holds
because, for a registered token, the first record that has not been dispatched is
GDB's first (`FirstInv`): the reader dispatches in order, and takes a sender out
of the map with the first record it meets. `FirstInv` is kept by `RegisterPending`
because a command that was not sent has left no record (`UnsentInv`), and by
`ConnectionSubmit` because tokens that were used are below `nextToken`
(`TokenInv`, `SentInv`). `MapInv` ties the map to the oneshots and the calls, so
that firing or dropping a sender reaches the call that waits for it; `DropInv`
and `EventsInv` say in which states of the reader senders are dropped and
events are left. `NoStrandedCall` needs `PollInv`, the only part that
depends on the runtime: on `current_thread` no call is inside a poll while the
reader ends, so that none stands between the test of `reader_alive` and its
registration when the map is drained. One lemma per part (`TypeStep`, `MapStep`,
`OrphanStep`, ...) shows that each step preserves it, with one proof step per action.

For `ImplementsService` the service's variables are written out as `State`,
`Verdict`, `Result` and `Over`, and `ServiceStep` says of each step what the
service sees of it. Most steps only move calls between the points of `submit`
(`Invisible`); `GdbServe` is GDB's verdict on the call whose token it answers; a
return is allowed because the outcome is that verdict (`OutcomeIsOwn`), or the
session is over (`ExitedIsFinal`). `LinesInv` is all that is needed beside
`IInv`: each line on its way to GDB, and each answer, has the token of a call, and
never the 0 of a call that has none yet.

### Event path (EventJournalProofs.tla)

`Inductive` is `Spec => []IInv`, from `WaitersAssumption` and
`BoundsAssumption`: any number of waits, any capacity of the journal, any number of
records, logs and drains.

| theorem | says |
|---|---|
| `TypeCorrect` | `TypeOK` |
| `NoWakeupIsLost` | `NoLostWakeup` |
| `FoundIsFirst` | `FoundIsFirstRetained` |
| `TriggerPrecedes` | `TriggerPrecedesStops` |
| `NoEventIsDrainedAway` | `DrainLosesNothing` (an action property) |

`NoLostWakeup` speaks of a wait that sleeps. The step that could break it is
the one that goes to sleep, so that `WakeInv` says the same of the second look
at the journal on: a stop that is recorded after that look comes with a
notification that is still due, and since the wait was armed before the look, the
notification reaches it. `CursorInv` is why an old notification cannot be
taken for a new one: nothing that a wait holds is from the future.
`FoundIsFirstRetained` needs that the journal is appended to and `earliest`
never moves back (`Push`, `JournalGrows`), so that what was the first retained stop
when the wait looked stays the first but for evictions. `TriggerInv` says that before a wait submits
its trigger no record of that command is anywhere, whether printed,
in the batch or in the journal: the cursor is captured while that holds.
`DrainInv` is that a drain runs in one poll of the runtime's thread, so that
nothing is recorded or evicted between its three reads.

### Framer (FramerProofs.tla)

`Inductive` is `Spec => []IInv`, from `BoundsAssumption` alone:
any bytes, chunks and streams of any length, `push` and `pop` in any order. `Ends` are the positions of the line
feeds of the whole input, `Line(e)` is the line that ends at e, and `Rank(e)` its number.

| theorem | says |
|---|---|
| `ChunksDoNotMatter` | `ChunkingIrrelevant` |
| `MemoryIsBounded` | `MemoryBound` (an action property) |
| `ImplementsLines` | `LinesSpec`: the framer implements `LineStream` |

`TailInv` is that the buffer holds the end of the input, whatever compaction has
dropped; `ConsumedInv` that what is consumed ends with a line feed and each of
its lines has its frame, at its number. `push` moves neither (`PushShape`: it drops
all consumed bytes or none; `LinesStay`: lines do not change when the input
grows); `pop` consumes exactly up to the next element of `Ends` (`PopStep`), whose
rank is one more (`Ranks`).

### Connection (GdbSessionProofs.tla, first part)

Both theorems are about `Connection!Spec`, hence about any sequence of commands
and any sequence of records, whether GDB would print it or not.

`ConnectionTypes`: `TypeOK`, split into `CommandsOK`, `ExecutionOK` and
`RegistriesOK` so that a step only has to restore what it touches.
`SnapshotCoherent`: `Coherent`, the target state, the threads and the frames
never contradict each other. It is inductive by itself: `classify_running`
takes the frame of each thread that it marks as running, and a stop sets the
thread and its frame in one record. It uses `ThreadAssumption` (the pseudo-ids are
not threads), and that a record with an exit reason has no frame (`Records`).

### Sessions (GdbSessionProofs.tla, second part)

About `GdbSession!SessionSpec`: any threads, scripts, breakpoints and variable
objects, any number of commands and of unasked steps of GDB, either mode. Beside
those of `Connection` it uses `MainAssumption`, `ModesAssumption`, `MovingAssumption` and
`ScriptsAssumption` (a script's commands are commands, and the breakpoint that
`break-insert` is given is one).

| theorem | says |
|---|---|
| `SessionIsConnection` | a session is a behaviour of `Connection!Spec` |
| `SessionTypeOK`, `SessionCoherent` | hence `TypeOK` and `Coherent` hold in it |
| `RegistriesCaughtUp` | `RegistriesAreCurrent` |
| `TargetCaughtUp` | `TargetIsCurrent` |
| `ReportsCaughtUp` | `LastReportKept` |
| `FeaturesCaughtUp` | `FeaturesStaleOnlyUnseen` |

The last four say that the connection agrees with GDB when the wire is empty. What
is inductive says it of any wire: *of the records on the wire that touch an
entry of a registry, the last one leaves it as GDB has it; if there is none, the entry
already is* (`Settled`). One such part belongs to each registry, with the
records that touch an entry and those that leave it right: `ThreadsKnown`, `StatesKnown`,
`FramesKnown`, `TargetKnown`, `BreaksKnown`, `VarsKnown`, `FeaturesKnown`. Three
lemmas about `Settled` carry all of them: what GDB prints keeps it if the last record
printed about the entry is right or none is and the entry has not changed
(`PrintGood`, `PrintOthers`), and taking one record keeps it if the registry does
what that record says (`Read`). What is left is one lemma per registry
(`ThreadsKnownKept`, ...) with a step for each thing GDB does.

Two more parts are needed. In all-stop mode the threads stand still together
(`AllStop`), since a `*stopped` for one of them would otherwise
contradict `TargetKnown`. And what a result does depends on the operation
that the connection remembers for its token, so that `PendingInv` has each
command on its way to GDB, and each result on its way back, under a token of
its own for which that operation is remembered.

`FeaturesCaughtUp` assumes nothing of the scripts. That the features are those of the target
is false of a session that runs the program or selects a target raw (`stale_features`); the
history variable `unseen` says when: the target was changed by a command whose answer
drops no features, because it is `^running` or is not routed, and they have not been listed since. While it
is FALSE, the features are the target's or none, and `FeaturesKnown` is claimed
only then.

### Server (ServerProofs.tla)

`Inductive` is `Spec => []IInv`, from `TimesAssumption`, `BudgetsAssumption` and
`ServerAssumption`: any number of calls and background tasks, any budgets and
timeouts, any capacity of the channel, engines that rebuild or not.

| theorem | says |
|---|---|
| `TypeCorrect` | `TypeOK` |
| `BudgetHolds` | `RunsWithinBudget` |
| `NoStrayInterrupt` | `InterruptIsDue` |
| `InOrder` | `ServedInOrder` |
| `EngineSound` | `EngineIsSound`, unless `RebuildFails` |
| `TransportReleased` | `OnlyAbortedHolds` |

`TimeInv` carries the first two: while an eval executes, what it has run and what
is left in its `EvalDeadline` add up to its budget, an armed watchdog has the same time
left as that deadline, one that is no longer armed has none, and no
primitive blocks beyond it. Time cannot pass when nothing is left, because then the
watchdog, the primitive or the interrupted VM is due. Between evals the
controller is resumed and there is no watchdog. A later `Call` does not change the budget of
the eval that runs, because the queues hold calls that arrived (`ChannelInv`).

`InOrder` needs to know where every earlier call is: `SessionInv` (refused, polled or
ready), `ReadyInv` (the ready ones are later than the polled ones, and in order)
and `OrderInv` (a call that a polled one left behind is served, found no
room, or is ahead in the channel). The last needs the two facts about positions in
the channel that make a first-in first-out queue carry the order to `served`.

`EngineInv` says that an engine that panicked has `result` "panic" until `Reply`, which
rebuilds it. `HoldInv` follows the shutdown: no background task after
`abort_and_wait`, no worker after `join`, and no submit task without a primitive
that waits for it, unless a timeout has aborted it. `EngineSound` depends on its
assumption as the code does: with `RebuildFails` the loop of the worker goes on with the
engine that panicked. `TransportReleased` has none: an aborted task may hold the
transport to the end, and nothing else does.

### Target session (TargetSessionProofs.tla)

`Inductive` is `Spec => []IInv`, from `NamesAssumption`: any tools, any targets
(which are not named as the settings of the bootstrap are) and any number of requests.

| theorem | says |
|---|---|
| `TypeCorrect` | `TypeOK` |
| `AtMostOneRetry` | `OneRetry` |
| `MemoIsTheLatest` | `MemoIsLatest` |

`MemoIsLatest` holds although an answer is remembered some steps after GDB
has given it, because the runtime resumes tasks in the order of their answers. `MemoInv`
says it while answers are still to be taken: of the tasks in `runq` whose
selection GDB accepted, the last has the latest selection, and if there is
none, it is remembered already. For that a task must await one thing at a time
(`TaskInv`: it has one command in the queue, or one answer in `runq`), and what
the queue holds must be what the task awaits (`EntryInv`). `PhaseInv` keeps
bootstrap, startup connect and tools apart. The parts on tasks are claimed
until the session has failed, since `MemoIsLatest` is about a session that connects or serves.
`OneRetry` needs `SelectInv`: a request that awaits its first selection or the downgrade has
selected once.

### Text (CommandTextProofs.tla)

From `TextAssumption`, which says how the model writes bytes (a letter is no
blank, and so on) and what a raw line may not contain: any alphabet, texts and raw
lines of any length, any number of options and parameters.

| theorem | says |
|---|---|
| `CStringsArrive` | a UTF-8 text written by `encode_cstring` is read by `parse_cstring` as that text, wherever it stands in a line, up to its closing quote |
| `CommandsAreRead` | a command with any options and parameters is one line, and GDB reads it as that command, under any token or none |
| `SchemeIsRead` | the same of the lines that Scheme writes with `mi-quote`, of ASCII parameters of which the first has no leading dash |
| `ItemsMade` | the inductive invariant, `ItemOK` |
| `CommandsArriveAlways` | `CommandsArrive` |
| `GuardAgreesAlways` | `GuardAgrees` |

The first three are about every well-formed command (`CommandSet`) and use no bound
of the model: an operation and names of options that are words, options that have a value
exactly if GDB takes one for their name, and any UTF-8 texts. The argument goes from
the small to the large.

- *An escape is its byte.* Of each byte, `encode_cstring` writes the byte, a
  named escape or a hex escape (`EscapeCases`), and `decode_escape` reads it
  back, whatever follows (`DecodeWritten`).
- *A text is its c-string* (`BodyRead`, `CStringsArrive`): what
  `framewalk-mi-codec/src/encode/cstring.rs:7` guarantees. A hex escape has exactly two digits and
  the encoder writes no octal one, so that no digit of the text is taken for part of an escape.
- *A word ends where it should* (`WordRead`). A word is written as it is only if it is
  not empty, has no blank and does not begin with a quote (`ParameterWritten`,
  `QuoteWritten`); what follows begins with a space (`SpacedBound`). Any
  number of words by induction (`PiecesRead`), and an option is one word or two
  (`OptionRead`, `OptionsRead`).
- *The words are parsed as the command* (`OptionsParsed`, `ParamsParse`). Each option
  takes its own words. Behind the last one stands `--`, or a parameter without a dash, or
  nothing: that is what `should_emit_double_dash` is for, and where the
  proof would fail without it.
- *It is one line* (`BodyClean`, `LineRead`): a newline is always escaped, and
  the digits of the token end at the dash.

The loops of `parse_cstring`, of the words and of the options are recursive functions. That
such a definition has the value of its recursion is proved once, in `Lemmas` (`Descent`,
`Loops`), for any loop with a measure that decreases, here what is left of the line;
`CStringTurns`, `WordsTurns` and `OptionsTurns` are its instances. Induction over
a sequence is over the set of those for which the claim holds (`SeqInduct`).

`GuardAgreesAlways` compares two readers of one line. The guard trims and takes the
bytes from the dash to Rust's next blank (`GuardReads`), GDB those from the dash
to its own next blank (`OperationRead`). They are the same because a raw line
begins with a dash and has no blank that only one of them knows (`RawBytes`).

`ItemOK` says that the steps make well-formed commands and lines that begin
with a dash; TLC has checked it under `Spec`, with the constants of the run `text`.

### What only TLC checks

- Liveness under fairness, which is out of the prover's reach: `WaitsReturn`,
  `ReaderExitWakesCalls`, `ShutdownTerminates`, `EveryCallReturns`,
  `DisconnectEnds`, `BootstrapEnds`, `GdbExitEndsRequests`.
- `RecordsArrive`. Values nest, so that the printer and the parser of a value are
  recursive operators, of which the prover accepts none; as functions, they would
  need a set of all values, which is not bounded by the length of any line.
- `CallsArrive`. It is about a table of 121 tools, not
  about any number of anything, and the run goes through all of them. What every
  handler's command has in common, that it arrives whatever its texts, is
  `CommandsAreRead`.

## Findings

Each is a run whose property the code violates; `PROJECT.json` quotes the line
that says otherwise.

1. `shutdown_hang`. When the reader has ended with GDB alive, `submit(-gdb-exit)`
   returns `Exited` at once; `shutdown` takes that for an answer, kills nothing,
   and waits for the child without a bound.
2. `stale_stop`. The connection knows a stop before the journal has it, so that
   `wait-for-stop` may find the target stopped and return the stop before.
3. `stale_features`. The code that drops the target's features after `-exec-run` runs
   for `^done` and `^connected` only; GDB answers `^running`, and what was listed
   before the run stays.
4. `shared_transport`. An `(mi ..)` that times out aborts its submit task, which only schedules
   the drop of the task and of its `Arc`. If main awaits the join of the worker
   meanwhile, the join wakes it, and `block_on` polls it before the queue of tasks: main finds the
   transport shared and panics, and GDB is killed instead of being asked to exit.

### Divergences without a run

Met while modelling; each can be seen by changing one constant or one property, as said.

In the modules of state:

- `submit` tests `reader_alive` (`framewalk-mi-transport/src/handle.rs:87`) and
  registers its sender later. On a multi-threaded runtime the reader may end and
  drain the map in between, and the call waits for ever: `NoStrandedCall` fails
  in `TransportSafety.cfg` (`SingleThreaded = FALSE`). The binary's runtime
  excludes it (`NobodyStranded`); the Scheme thread does not bring it back, because it spawns
  its calls of `submit` on that runtime.
- For the reason of `stale_stop`, `wait-for-stop` may find the target stopped, find no
  stop in the journal, and capture its cursor after the stop was recorded: it
  then waits for a stop that need not come (`StoppedTargetIsSeen` in `StaleStop.cfg`).
- A detach prints no `*stopped`: the target stays Running or Stopped with no
  process (`LiveTarget` with `DetachScripts` in `GdbSession.cfg`).
- The comment on the order of evals (`scheme/worker.rs:243`) holds while the
  channel has room: a task that waited for room is woken from another thread, and a
  new task may be polled before it. `ServedInOrder` says no more than that.
- The caller's timeout starts when its request is in the channel, the eval's
  budget when the worker takes it: a call that queued may time out before its eval
  begins, and the eval runs all the same. The wait for room is under no timeout.
- The comment on `worker_loop` says that a failed rebuild exits the loop; the code
  reports it and goes on with the engine that panicked (`RebuildFails = TRUE`
  breaks `EngineIsSound`).
- `downgrade_non_stop_and_retry` says that on any failure the original error
  is preserved; a failed retry returns its own.
- `reconnect_target` speaks of the most recent remote target. It selects again
  whatever was remembered, a native target too, and what was remembered before it
  awaited the disconnect, even if another tool has selected since.
- A selection by `(mi ..)` that times out is not remembered though GDB accepts it, and
  one that is answered may be remembered after a later one of a tool
  (`MemoIsLatest` excepts sessions with either).

In the texts:

- The reverse tools send `-exec-step -reverse`, with one dash; their reference
  (`framewalk-mcp/src/resources/reference-execution.md:131`), `docs/scheme-reference.md:210` and the
  Scheme prelude have `--reverse` (`ReverseIsAsked` in place of `CallsArrive` in `MiText.cfg`).
- The reference calls `type_regexp` and `include_nondebug` of `symbol_info_types` accepted but
  unused, and of `symbol_info_modules` all but `name`
  (`resources/reference-symbols.md:33-35`, `:63-64`). `build_symbol_info_cmd`
  (`server_helpers.rs:87-102`) sends every argument for every tool. `CallsArrive` demands
  nothing of them (`Unused`); `UnusedIsUnsent` in its place in `MiText.cfg` is violated.
- `break_commands` puts quotes around each command and the encoder quotes the result
  again, so that GDB gets a command with quotes in it
  (`tools/breakpoints.rs:143`; `resources/reference-breakpoints.md:124`). `AllTools` leaves it
  out of `CallsArrive`.
- Options of several letters are sent with one dash (`skip-unavailable`,
  `include-nondebug`, `opcodes`, ...), as the reverse tools' is;
  `CallsArrive` has GDB take any word with a dash for an option.
- `disassemble` appends a parameter `--` itself, before which the encoder puts
  another.
- `list_arguments` and `var_list_children` drop one bound
  that is given without the other; `catch_assert` ignores `exception_name` and
  `unhandled`, `catch_handlers` ignores `unhandled` (`Dropped`).
- `mi-quote` writes a byte beyond ASCII as the character of that code, so that a
  quoted text comes out doubly encoded, where its comment says that it mirrors
  the encoder. Raw lines of Scheme have no `--`, so that a leading dash of a
  parameter makes an option of it. `CommandsArrive` excepts both.
- The guard looks at the trimmed line, and the transport writes it untrimmed after
  the token, so that a line with a leading blank is judged as an MI command and not
  read as one. The raw lines of `CommandText` begin with a dash.
- A record with bytes that are not UTF-8 is lost as a whole.

## What is not modelled

- In the Scheme worker, the conversion of Scheme values (`marshal.rs`), the
  capture of streams, the prelude, and the rendering of results.
- In the MCP session, the JSON of outcomes, `target_state` and `drain_events`
  beyond what `EventJournal` has of it.
- In the tool surface, resources, the catalog's profiles and the command line
  of the binary: static text and filters of it, with no state.
- In the bootstrap, finding and starting the executable. In the codec, the kinds
  and offsets of errors.
- In the event path, the broadcast channel, which has no subscriber in the
  binary. In the connection, the features of the interpreter
  (`-list-features`), and the payloads that no registry keeps.
- The stderr logger of the transport: it changes no state.
- The kernel, tokio, GDB: external, modelled from how the code uses them.
