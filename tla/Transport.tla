------------------------------ MODULE Transport ------------------------------
(***************************************************************************)
(* The command path of framewalk-mi-transport: the calls of                *)
(* TransportHandle::submit / submit_raw, the reader and the writer task,   *)
(* the two maps of pending commands, the drain guard that runs when the    *)
(* reader ends, and TransportHandle::shutdown.  GDB and the pipes to it    *)
(* are external and are modelled from how the code uses them.              *)
(*                                                                         *)
(* One step of this specification is what the code does between two lock   *)
(* operations or two await points.  A call is one invocation of submit;    *)
(* a caller that submits twice is two calls.  A command line is its token, *)
(* a result record of GDB is a token with an outcome.                      *)
(***************************************************************************)
EXTENDS Naturals, Sequences, Functions

CONSTANTS
  Calls,            \* the invocations of submit and submit_raw
  Quit,             \* the one that TransportHandle::shutdown makes
  Outcomes,         \* result classes with their payload
  SingleThreaded,   \* TRUE: tokio's current_thread runtime (the binary's)
  ReadFailures,     \* TRUE: reading stdout may fail while GDB lives
  ChannelCapacity,  \* WRITE_CHANNEL_CAPACITY
  PipeCapacity,     \* lines that GDB's stdin pipe holds
  MaxExtra          \* bound on repeated result records GDB may emit

ASSUME CallsAssumption    == Quit \in Calls
ASSUME ModeAssumption     == SingleThreaded \in BOOLEAN /\ ReadFailures \in BOOLEAN
ASSUME CapacityAssumption == /\ ChannelCapacity \in Nat \ {0}
                             /\ PipeCapacity \in Nat \ {0}
                             /\ MaxExtra \in Nat

VARIABLES
  pc,           \* where each call is in submit
  ret,          \* what each call has returned
  tok,          \* the token of each call, 0 before it has one
  slot,         \* the oneshot of each call: its sender's fate ...
  value,        \* ... and what was sent through it, at most one record
  nextToken,    \* TokenAllocator::next
  connPending,  \* the tokens in Connection::pending
  pending,      \* SharedState::pending: token -> the call that holds the receiver
  alive,        \* SharedState::reader_alive
  reader,       \* where the reader task is in run_reader
  events,       \* completions drained from the connection, not yet dispatched
  writer,       \* where the writer task is in run_writer
  writing,      \* the line the writer has taken from the channel, 0 if none
  outq,         \* the mpsc channel from the calls to the writer
  stdin,        \* lines written to GDB that it has not read
  stdout,       \* result records GDB has printed that were not read
  gdb,          \* the child process
  eof,          \* every writing end of the stdout pipe is closed
  answered,     \* the first outcome GDB printed for each token (history)
  extra,        \* repeated result records printed so far
  shutdown      \* where TransportHandle::shutdown is

callVars   == <<pc, ret, tok, slot, value>>
connVars   == <<nextToken, connPending>>
readerVars == <<alive, reader, events>>
writerVars == <<writer, writing, outq>>
gdbVars    == <<stdin, stdout, gdb, eof, answered, extra>>
vars == <<callVars, connVars, pending, readerVars, writerVars, gdbVars, shutdown>>

Record == [token : Nat, outcome : Outcomes]

(* Program points inside one poll of a task: the code runs from the point  *)
(* before them to the point after them without an await.                   *)
CallMidPoll   == {"submit", "register", "send", "rollback"}
ReaderMidPoll == {"dispatch", "unwind", "drain"}

(* A current_thread runtime starts to poll a task only when no other task  *)
(* is inside a poll.                                                       *)
RuntimeFree ==
  SingleThreaded => /\ \A c \in Calls : pc[c] \notin CallMidPoll
                    /\ reader \notin ReaderMidPoll

NoEntries == [t \in {} |-> Quit]
Without(f, x) == [y \in DOMAIN f \ {x} |-> f[y]]
With(f, x, v) == [y \in DOMAIN f \cup {x} |-> IF y = x THEN v ELSE f[y]]

Init ==
  /\ pc = [c \in Calls |-> "idle"]
  /\ ret = [c \in Calls |-> "none"]
  /\ tok = [c \in Calls |-> 0]
  /\ slot = [c \in Calls |-> "unmade"]
  /\ value = [c \in Calls |-> <<>>]
  /\ nextToken = 1 /\ connPending = {}
  /\ pending = NoEntries
  /\ alive = TRUE /\ reader = "read" /\ events = <<>>
  /\ writer = "recv" /\ writing = 0 /\ outq = <<>>
  /\ stdin = <<>> /\ stdout = <<>> /\ gdb = "running" /\ eof = FALSE
  /\ answered = NoEntries /\ extra = 0
  /\ shutdown = "open"

-----------------------------------------------------------------------------
(* submit and submit_raw.                                                  *)

Goto(c, point) == pc' = [pc EXCEPT ![c] = point]

Return(c, r) == Goto(c, "done") /\ ret' = [ret EXCEPT ![c] = r]

(* shutdown takes the handle by value, so that no other call runs with or  *)
(* after it.                                                               *)
MayCall(c) ==
  /\ pc[c] = "idle"
  /\ RuntimeFree
  /\ shutdown = IF c = Quit THEN "quitting" ELSE "open"

SubmitRefused(c) ==
  /\ MayCall(c) /\ ~alive
  /\ Return(c, "exited")
  /\ UNCHANGED <<tok, slot, value, connVars, pending, readerVars, writerVars, gdbVars, shutdown>>

(* A mutant of SubmitBegin: reader_alive is not tested.                    *)
SubmitBegin_Unchecked(c) ==
  /\ MayCall(c)
  /\ Goto(c, "submit")
  /\ UNCHANGED <<ret, tok, slot, value, connVars, pending, readerVars, writerVars, gdbVars, shutdown>>

SubmitBegin(c) ==
  /\ MayCall(c) /\ alive
  /\ Goto(c, "submit")
  /\ UNCHANGED <<ret, tok, slot, value, connVars, pending, readerVars, writerVars, gdbVars, shutdown>>

(* Mutants of ConnectionSubmit: the allocator does not advance, or wraps   *)
(* around to the reserved token.                                           *)
ConnectionSubmit_SameToken(c) ==
  /\ pc[c] = "submit"
  /\ tok' = [tok EXCEPT ![c] = nextToken]
  /\ slot' = [slot EXCEPT ![c] = "open"]
  /\ connPending' = connPending \cup {nextToken}
  /\ Goto(c, "register")
  /\ UNCHANGED <<ret, value, nextToken, pending, readerVars, writerVars, gdbVars, shutdown>>

ConnectionSubmit_Wraps(c) ==
  /\ pc[c] = "submit"
  /\ tok' = [tok EXCEPT ![c] = nextToken]
  /\ slot' = [slot EXCEPT ![c] = "open"]
  /\ nextToken' = (nextToken + 1) % 3
  /\ connPending' = connPending \cup {nextToken}
  /\ Goto(c, "register")
  /\ UNCHANGED <<ret, value, pending, readerVars, writerVars, gdbVars, shutdown>>

(* Under the connection lock: Connection::submit takes a token, remembers  *)
(* it and encodes the command, drain_outbound takes the encoded line away. *)
ConnectionSubmit(c) ==
  /\ pc[c] = "submit"
  /\ tok' = [tok EXCEPT ![c] = nextToken]
  /\ slot' = [slot EXCEPT ![c] = "open"]
  /\ nextToken' = nextToken + 1
  /\ connPending' = connPending \cup {nextToken}
  /\ Goto(c, "register")
  /\ UNCHANGED <<ret, value, pending, readerVars, writerVars, gdbVars, shutdown>>

RegisterPending(c) ==
  /\ pc[c] = "register"
  /\ pending' = With(pending, tok[c], c)
  /\ Goto(c, "send")
  /\ UNCHANGED <<ret, tok, slot, value, connVars, readerVars, writerVars, gdbVars, shutdown>>

AtSend(c) == pc[c] = "send" \/ (pc[c] = "parked" /\ RuntimeFree)

Send(c) ==
  /\ AtSend(c) /\ writer # "done"
  /\ Len(outq) < ChannelCapacity
  /\ outq' = Append(outq, tok[c])
  /\ Goto(c, "await")
  /\ UNCHANGED <<ret, tok, slot, value, connVars, pending, readerVars, writer, writing, gdbVars, shutdown>>

(* The channel is full: the call waits inside write_tx.send.               *)
Park(c) ==
  /\ pc[c] = "send" /\ writer # "done"
  /\ Len(outq) >= ChannelCapacity
  /\ Goto(c, "parked")
  /\ UNCHANGED <<ret, tok, slot, value, connVars, pending, readerVars, writerVars, gdbVars, shutdown>>

SendClosed(c) ==
  /\ AtSend(c) /\ writer = "done"
  /\ Goto(c, "rollback")
  /\ UNCHANGED <<ret, tok, slot, value, connVars, pending, readerVars, writerVars, gdbVars, shutdown>>

Rollback(c) ==
  /\ pc[c] = "rollback"
  /\ pending' = Without(pending, tok[c])
  /\ slot' = [slot EXCEPT ![c] = IF tok[c] \in DOMAIN pending THEN "dropped" ELSE @]
  /\ Return(c, "exited")
  /\ UNCHANGED <<tok, value, connVars, readerVars, writerVars, gdbVars, shutdown>>

Receive(c) ==
  /\ pc[c] = "await" /\ RuntimeFree
  /\ \/ slot[c] = "fired"   /\ Return(c, "outcome")
     \/ slot[c] = "dropped" /\ Return(c, "exited")
  /\ UNCHANGED <<tok, slot, value, connVars, pending, readerVars, writerVars, gdbVars, shutdown>>

(* The caller drops the future at one of its await points: a timeout, or   *)
(* the abort of the task that polls it.  Nothing is taken out of the maps. *)
Cancel(c) ==
  /\ pc[c] \in {"parked", "await"} /\ RuntimeFree
  /\ Return(c, "cancelled")
  /\ UNCHANGED <<tok, slot, value, connVars, pending, readerVars, writerVars, gdbVars, shutdown>>

-----------------------------------------------------------------------------
(* The reader task.                                                        *)

TokensOf(records) == {records[i].token : i \in DOMAIN records}

(* One read of n records: under the connection lock every record is        *)
(* classified and every completion is drained.                             *)
ReadChunk(n) ==
  /\ reader = "read" /\ RuntimeFree
  /\ n \in 1..Len(stdout)
  /\ connPending' = connPending \ TokensOf(SubSeq(stdout, 1, n))
  /\ events' = SubSeq(stdout, 1, n)
  /\ stdout' = SubSeq(stdout, n + 1, Len(stdout))
  /\ reader' = "dispatch"
  /\ UNCHANGED <<callVars, nextToken, pending, alive, writerVars, stdin, gdb, eof, answered, extra, shutdown>>

(* A mutant of ReadFails: the reader goes on after the error.              *)
ReadFails_Continues(n) ==
  /\ reader = "read" /\ RuntimeFree /\ ReadFailures
  /\ n \in 0..Len(stdout)
  /\ connPending' = connPending \ TokensOf(SubSeq(stdout, 1, n))
  /\ stdout' = SubSeq(stdout, n + 1, Len(stdout))
  /\ UNCHANGED <<callVars, nextToken, pending, alive, reader, events, writerVars, stdin, gdb, eof, answered, extra, shutdown>>

(* The read fails, or what it read makes the framer exceed                 *)
(* MAX_PENDING_BYTES: the completions of that chunk are never drained.     *)
ReadFails(n) ==
  /\ reader = "read" /\ RuntimeFree /\ ReadFailures
  /\ n \in 0..Len(stdout)
  /\ connPending' = connPending \ TokensOf(SubSeq(stdout, 1, n))
  /\ stdout' = SubSeq(stdout, n + 1, Len(stdout))
  /\ reader' = "unwind"
  /\ UNCHANGED <<callVars, nextToken, pending, alive, events, writerVars, stdin, gdb, eof, answered, extra, shutdown>>

(* A mutant of ReadEof: the map is drained before the reader is marked.    *)
ReadEof_DrainsFirst ==
  /\ reader = "read" /\ RuntimeFree
  /\ stdout = <<>> /\ eof
  /\ reader' = "drain"
  /\ UNCHANGED <<callVars, connVars, pending, alive, events, writerVars, gdbVars, shutdown>>

ReadEof ==
  /\ reader = "read" /\ RuntimeFree
  /\ stdout = <<>> /\ eof
  /\ reader' = "unwind"
  /\ UNCHANGED <<callVars, connVars, pending, alive, events, writerVars, gdbVars, shutdown>>

(* dispatch_event on a completion: take the sender out of the map, fire it.*)
Dispatch ==
  /\ reader = "dispatch"
  /\ LET r == Head(events) IN
       IF r.token \in DOMAIN pending
       THEN /\ pending' = Without(pending, r.token)
            /\ slot' = [slot EXCEPT ![pending[r.token]] = "fired"]
            /\ value' = [value EXCEPT ![pending[r.token]] = <<r>>]
       ELSE UNCHANGED <<pending, slot, value>>
  /\ events' = Tail(events)
  /\ reader' = IF Len(events) = 1 THEN "read" ELSE "dispatch"
  /\ UNCHANGED <<pc, ret, tok, connVars, alive, writerVars, gdbVars, shutdown>>

(* PendingDrainGuard::drop: first mark_reader_exited ...                   *)
MarkReaderExited ==
  /\ reader = "unwind"
  /\ alive' = FALSE
  /\ reader' = "drain"
  /\ UNCHANGED <<callVars, connVars, pending, events, writerVars, gdbVars, shutdown>>

(* A mutant of DrainPending: the guard does not clear the map.             *)
DrainPending_Forgets ==
  /\ reader = "drain"
  /\ reader' = "done"
  /\ UNCHANGED <<callVars, connVars, pending, alive, events, writerVars, gdbVars, shutdown>>

(* ... then, under the lock of the map, drop every sender in it.           *)
DrainPending ==
  /\ reader = "drain"
  /\ slot' = [c \in Calls |-> IF \E t \in DOMAIN pending : pending[t] = c
                              THEN "dropped" ELSE slot[c]]
  /\ pending' = NoEntries
  /\ reader' = "done"
  /\ UNCHANGED <<pc, ret, tok, value, connVars, alive, events, writerVars, gdbVars, shutdown>>

-----------------------------------------------------------------------------
(* The writer task.                                                        *)

WriterRecv ==
  /\ writer = "recv" /\ outq # <<>> /\ RuntimeFree
  /\ writing' = Head(outq)
  /\ outq' = Tail(outq)
  /\ writer' = "write"
  /\ UNCHANGED <<callVars, connVars, pending, readerVars, gdbVars, shutdown>>

WriterWrite ==
  /\ writer = "write" /\ RuntimeFree
  /\ gdb = "running" /\ Len(stdin) < PipeCapacity
  /\ stdin' = Append(stdin, writing)
  /\ writing' = 0
  /\ writer' = "recv"
  /\ UNCHANGED <<callVars, connVars, pending, readerVars, outq, stdout, gdb, eof, answered, extra, shutdown>>

(* The pipe is broken: run_writer returns, which drops the receiver of the *)
(* channel and every line still in it.                                     *)
WriterFails ==
  /\ writer = "write" /\ RuntimeFree
  /\ gdb = "exited"
  /\ writer' = "done" /\ writing' = 0 /\ outq' = <<>>
  /\ UNCHANGED <<callVars, connVars, pending, readerVars, gdbVars, shutdown>>

(* Every sender of the channel is dropped and the channel is empty.        *)
WriterEnds ==
  /\ writer = "recv" /\ outq = <<>> /\ RuntimeFree
  /\ shutdown = "joining"
  /\ writer' = "done"
  /\ UNCHANGED <<callVars, connVars, pending, readerVars, writing, outq, gdbVars, shutdown>>

-----------------------------------------------------------------------------
(* GDB (external): serves its stdin in order and prints one result record  *)
(* for each line; may print a result again, and may end at any moment.     *)

GdbServe(o) ==
  /\ gdb = "running" /\ stdin # <<>>
  /\ stdin' = Tail(stdin)
  /\ stdout' = Append(stdout, [token |-> Head(stdin), outcome |-> o])
  /\ answered' = IF Head(stdin) \in DOMAIN answered THEN answered
                                                    ELSE With(answered, Head(stdin), o)
  /\ gdb' = IF Head(stdin) = tok[Quit] THEN "exited" ELSE "running"
  /\ UNCHANGED <<callVars, connVars, pending, readerVars, writerVars, eof, extra, shutdown>>

GdbRepeat(t, o) ==
  /\ gdb = "running" /\ extra < MaxExtra
  /\ t \in DOMAIN answered
  /\ stdout' = Append(stdout, [token |-> t, outcome |-> o])
  /\ extra' = extra + 1
  /\ UNCHANGED <<callVars, connVars, pending, readerVars, writerVars, stdin, gdb, eof, answered, shutdown>>

GdbExit ==
  /\ gdb = "running"
  /\ gdb' = "exited"
  /\ UNCHANGED <<callVars, connVars, pending, readerVars, writerVars, stdin, stdout, eof, answered, extra, shutdown>>

StdoutCloses ==
  /\ gdb = "exited" /\ ~eof
  /\ eof' = TRUE
  /\ UNCHANGED <<callVars, connVars, pending, readerVars, writerVars, stdin, stdout, gdb, answered, extra, shutdown>>

-----------------------------------------------------------------------------
(* shutdown and finish_shutdown.                                           *)

BeginShutdown ==
  /\ shutdown = "open" /\ RuntimeFree
  /\ \A c \in Calls \ {Quit} : pc[c] \in {"idle", "done"}
  /\ shutdown' = "quitting"
  /\ UNCHANGED <<callVars, connVars, pending, readerVars, writerVars, gdbVars>>

(* A mutant of QuitReturned: the timeout does not kill the child.          *)
QuitReturned_NoKill ==
  /\ shutdown = "quitting" /\ pc[Quit] = "done" /\ RuntimeFree
  /\ shutdown' = "waiting"
  /\ UNCHANGED <<callVars, connVars, pending, readerVars, writerVars, gdbVars>>

(* submit(-gdb-exit) has returned, or its timeout has dropped it: only the *)
(* timeout kills the child.                                                *)
QuitReturned ==
  /\ shutdown = "quitting" /\ pc[Quit] = "done" /\ RuntimeFree
  /\ shutdown' = "waiting"
  /\ gdb' = IF ret[Quit] = "cancelled" THEN "exited" ELSE gdb
  /\ UNCHANGED <<callVars, connVars, pending, readerVars, writerVars, stdin, stdout, eof, answered, extra>>

ChildWaited ==
  /\ shutdown = "waiting" /\ gdb = "exited" /\ RuntimeFree
  /\ shutdown' = "joining"
  /\ UNCHANGED <<callVars, connVars, pending, readerVars, writerVars, gdbVars>>

TasksJoined ==
  /\ shutdown = "joining" /\ reader = "done" /\ writer = "done"
  /\ shutdown' = "closed"
  /\ UNCHANGED <<callVars, connVars, pending, readerVars, writerVars, gdbVars>>

Terminated == shutdown = "closed" /\ UNCHANGED vars

-----------------------------------------------------------------------------
CallStep(c) ==
  \/ ConnectionSubmit(c) \/ RegisterPending(c)
  \/ Send(c) \/ Park(c) \/ SendClosed(c) \/ Rollback(c)
  \/ Receive(c)

ReaderStep ==
  \/ \E n \in 1..Len(stdout) : ReadChunk(n)
  \/ ReadEof \/ Dispatch \/ MarkReaderExited \/ DrainPending

WriterStep == WriterRecv \/ WriterWrite \/ WriterFails \/ WriterEnds

GdbStep ==
  \/ \E o \in Outcomes : GdbServe(o)
  \/ \E t \in DOMAIN answered, o \in Outcomes : GdbRepeat(t, o)
  \/ GdbExit

ShutdownStep == QuitReturned \/ ChildWaited \/ TasksJoined

Next ==
  \/ \E c \in Calls : SubmitRefused(c) \/ SubmitBegin(c) \/ CallStep(c) \/ Cancel(c)
  \/ ReaderStep
  \/ \E n \in 0..Len(stdout) : ReadFails(n)
  \/ WriterStep
  \/ GdbStep \/ StdoutCloses
  \/ BeginShutdown \/ ShutdownStep
  \/ Terminated

Spec == Init /\ [][Next]_vars

(* The runtime polls every task that can make progress, the timer of       *)
(* shutdown expires, and the stdout pipe of a dead GDB closes.  Nothing is *)
(* assumed of a live GDB, and nothing of the timeouts of other calls.      *)
Fairness ==
  /\ \A c \in Calls : WF_vars(CallStep(c))
  /\ WF_vars(SubmitRefused(Quit)) /\ WF_vars(SubmitBegin(Quit)) /\ WF_vars(Cancel(Quit))
  /\ WF_vars(ReaderStep) /\ WF_vars(WriterStep)
  /\ WF_vars(StdoutCloses)
  /\ WF_vars(ShutdownStep)

FairSpec == Spec /\ Fairness

-----------------------------------------------------------------------------
(* What the command path promises.                                         *)

(* The variables have the types the code gives them.                       *)
TypeOK ==
  /\ pc \in [Calls -> {"idle", "submit", "register", "send", "parked", "await", "rollback", "done"}]
  /\ ret \in [Calls -> {"none", "outcome", "exited", "cancelled"}]
  /\ tok \in [Calls -> Nat]
  /\ slot \in [Calls -> {"unmade", "open", "fired", "dropped"}]
  /\ value \in [Calls -> Seq(Record)]
  /\ nextToken \in Nat \ {0}
  /\ connPending \subseteq Nat
  /\ DOMAIN pending \subseteq Nat /\ pending \in [DOMAIN pending -> Calls]
  /\ alive \in BOOLEAN
  /\ reader \in {"read", "dispatch", "unwind", "drain", "done"}
  /\ events \in Seq(Record)
  /\ writer \in {"recv", "write", "done"}
  /\ writing \in Nat
  /\ outq \in Seq(Nat)
  /\ stdin \in Seq(Nat)
  /\ stdout \in Seq(Record)
  /\ gdb \in {"running", "exited"}
  /\ eof \in BOOLEAN
  /\ DOMAIN answered \subseteq Nat /\ answered \in [DOMAIN answered -> Outcomes]
  /\ extra \in Nat
  /\ shutdown \in {"open", "quitting", "waiting", "joining", "closed"}

(* A call that returns an outcome returns the first result GDB printed for *)
(* the token of that very call, whatever was repeated, abandoned or        *)
(* submitted in between.                                                   *)
OutcomeIsOwn ==
  \A c \in Calls : ret[c] = "outcome" =>
    /\ Len(value[c]) = 1
    /\ value[c][1].token = tok[c]
    /\ tok[c] \in DOMAIN answered
    /\ value[c][1].outcome = answered[tok[c]]

(* submit says Exited only when the session is over: the reader has ended  *)
(* or the writer has closed the channel.                                   *)
ExitedIsFinal ==
  \A c \in Calls : ret[c] = "exited" => ~alive \/ writer = "done"

(* The two pending maps agree: a sender waits in SharedState::pending only *)
(* while its completion can still come, that is while the connection waits *)
(* for the token, or the completion is about to be dispatched, or the      *)
(* reader is ending or has ended.                                          *)
NoOrphanSender ==
  \A t \in DOMAIN pending :
    t \in connPending \cup TokensOf(events) \/ reader \in {"unwind", "drain", "done"}

(* Seen from its callers, the transport is the CommandService: every step  *)
(* is one of the service's steps or invisible to them.                     *)
Service == INSTANCE CommandService WITH
  state   <- [c \in Calls |-> IF pc[c] = "done" THEN ret[c]
                              ELSE IF pc[c] = "idle" THEN "new" ELSE "asked"],
  verdict <- [c \in Calls |-> IF tok[c] \in DOMAIN answered
                              THEN {answered[tok[c]]} ELSE {}],
  result  <- [c \in Calls |-> IF ret[c] = "outcome" THEN {value[c][1].outcome} ELSE {}],
  over    <- ~alive \/ writer = "done"

ServiceSpec == Service!Spec

(* No call waits for a sender nobody will ever use: once the drain guard   *)
(* has run, no call waits on an open oneshot.                              *)
NoStrandedCall ==
  reader = "done" =>
    \A c \in Calls : pc[c] = "await" => slot[c] # "open"

(* When the reader has ended, every call in flight returns.                *)
ReaderExitWakesCalls ==
  \A c \in Calls :
    (reader = "done" /\ pc[c] \notin {"idle", "done"}) ~> (pc[c] = "done")

(* shutdown returns.                                                       *)
ShutdownTerminates == (shutdown = "quitting") ~> (shutdown = "closed")
-----------------------------------------------------------------------------
(* The inductive strengthening from which the promises follow.             *)

(* The tokens of the lines that have left submit: in the channel, with the *)
(* writer (0 if it has none), in a pipe, with GDB, or on their way back.   *)
Sent ==
  UNION {Range(outq), {writing}, Range(stdin), TokensOf(stdout), TokensOf(events), DOMAIN answered}

(* Tokens are fresh, and belong to one call.                               *)
TokenInv ==
  /\ \A c \in Calls : tok[c] < nextToken
  /\ \A c, d \in Calls : tok[c] = tok[d] /\ tok[c] # 0 => c = d
  /\ \A c \in Calls : pc[c] # "done" => ret[c] = "none"
  /\ \A c \in Calls : pc[c] \in {"idle", "submit"} => tok[c] = 0 /\ slot[c] = "unmade"
  /\ \A c \in Calls : pc[c] \in {"register", "send", "parked", "await", "rollback"} => tok[c] # 0

SentInv == Sent \subseteq 0..(nextToken - 1)

(* A command that was not sent has no trace outside submit but its entry   *)
(* in the connection.                                                      *)
UnsentInv ==
  \A c \in Calls : pc[c] \in {"register", "send", "parked"} =>
    tok[c] \in connPending /\ tok[c] \notin Sent

(* A registered sender is open and is registered under the token of its    *)
(* call; a call in flight whose sender is open finds it registered.        *)
MapInv ==
  /\ \A t \in DOMAIN pending :
       /\ t # 0 /\ tok[pending[t]] = t
       /\ slot[pending[t]] = "open"
       /\ pc[pending[t]] # "register"
  /\ \A c \in Calls : pc[c] = "register" => slot[c] = "open"
  /\ \A c \in Calls :
       pc[c] \in {"send", "parked", "await", "rollback"} /\ slot[c] = "open" =>
         tok[c] \in DOMAIN pending /\ pending[tok[c]] = c

(* A sender is dropped unused only when the session is over.               *)
DropInv ==
  /\ reader \in {"drain", "done"} => ~alive
  /\ \A c \in Calls : pc[c] = "rollback" => writer = "done"
  /\ \A c \in Calls : slot[c] = "dropped" => ~alive \/ writer = "done"

EventsInv ==
  /\ reader = "read" => events = <<>>
  /\ reader = "dispatch" => events # <<>>

(* The first record for token t, if there is one, carries outcome o.       *)
FirstIs(records, t, o) ==
  \A i \in DOMAIN records :
    records[i].token = t /\ (\A j \in 1..(i - 1) : records[j].token # t) =>
      records[i].outcome = o

(* While the reader lives, the first record still to be dispatched for a   *)
(* registered token carries GDB's first outcome for it.                    *)
FirstInv ==
  /\ TokensOf(events) \cup TokensOf(stdout) \subseteq DOMAIN answered
  /\ reader \in {"read", "dispatch"} =>
       \A t \in DOMAIN pending :
         /\ t \in DOMAIN answered => t \in TokensOf(events) \cup TokensOf(stdout)
         /\ FirstIs(events, t, answered[t])
         /\ t \notin TokensOf(events) => FirstIs(stdout, t, answered[t])

ValueInv ==
  /\ \A c \in Calls : ret[c] = "outcome" => slot[c] = "fired"
  /\ \A c \in Calls : slot[c] = "fired" =>
       /\ Len(value[c]) = 1
       /\ value[c][1].token = tok[c]
       /\ tok[c] \in DOMAIN answered
       /\ value[c][1].outcome = answered[tok[c]]

(* On a current_thread runtime no call is inside a poll while the reader   *)
(* is, so none is between the test of reader_alive and its registration    *)
(* when the map is drained.                                                *)
PollInv ==
  SingleThreaded =>
    /\ reader \in ReaderMidPoll => \A c \in Calls : pc[c] \notin CallMidPoll
    /\ reader = "done" => \A c \in Calls :
         /\ pc[c] \notin {"submit", "register"}
         /\ pc[c] \in {"send", "parked", "await"} => slot[c] # "open"

IInv ==
  /\ TypeOK /\ TokenInv /\ SentInv /\ UnsentInv /\ MapInv /\ DropInv /\ EventsInv
  /\ FirstInv /\ ValueInv /\ PollInv /\ ExitedIsFinal /\ NoOrphanSender
=============================================================================
