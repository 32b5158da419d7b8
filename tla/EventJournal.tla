---------------------------- MODULE EventJournal ----------------------------
(***************************************************************************)
(* The event path of framewalk: the reader classifies what GDB prints,     *)
(* records every event in the bounded journal of SharedState and notifies; *)
(* the wait-for-stop and *-and-wait primitives of the Scheme thread wait   *)
(* for a stop through the journal; the drain_events tool polls it.         *)
(*                                                                         *)
(* The reader, the tasks that record synthetic logs and the tools run on   *)
(* the runtime's thread, the waits on threads of their own (block_on).     *)
(* One step is what the code does under one lock, or between two.          *)
(***************************************************************************)
EXTENDS Naturals, Sequences, FiniteSetsExt

CONSTANTS
  Waiters,          \* calls of wait-for-stop, and of cont-and-wait and its like
  NoCall,           \* the owner of a record that completes no command
  Capacity,         \* EVENT_JOURNAL_CAPACITY
  MaxRecords,       \* bound on the records GDB prints of itself
  MaxLogs,          \* bound on the synthetic logs
  MaxDrains         \* bound on the drains

ASSUME WaitersAssumption == NoCall \notin Waiters
ASSUME BoundsAssumption  == /\ Capacity \in Nat \ {0}
                            /\ MaxRecords \in Nat /\ MaxLogs \in Nat /\ MaxDrains \in Nat

VARIABLES
  commands,     \* waits whose trigger command GDB has not answered
  printed,      \* records GDB has printed that were not read
  budget,       \* records GDB may still print of itself
  target,       \* Connection::target
  reader,       \* where the reader task is
  batch,        \* classified events not yet recorded
  journal,      \* every event recorded: event i has the sequence number i
  earliest,     \* the oldest sequence number the journal retains
  latestStop,   \* EventJournal::latest_stopped, 0 for None
  generation,   \* the calls of notify_waiters so far
  alive,        \* SharedState::reader_alive
  advisor,      \* where record_synthetic_log is
  logs,         \* synthetic logs recorded so far
  outcome,      \* the completion of each wait's trigger command
  wpc,          \* where each wait is, or how it returned
  after,        \* the cursor each wait has captured
  armed,        \* the generation at which each wait made its Notified
  found,        \* the stop each wait returned
  drain,        \* where the drain_events tool is
  from,         \* the cursor its client holds
  oldest,       \* what it read of earliest_event_seq, 0 for None
  taken,        \* the sequence numbers of the events it reports
  drains,       \* drains begun so far
  stops,        \* stops classified so far (history)
  seen          \* stops classified when a wait found the target stopped (history)

gdbVars     == <<commands, printed, budget>>
readerVars  == <<target, reader, batch, outcome, stops>>
journalVars == <<journal, earliest, latestStop>>
logVars     == <<advisor, logs>>
waitVars    == <<wpc, after, armed, found, seen>>
drainVars   == <<drain, from, oldest, taken, drains>>
vars == <<gdbVars, readerVars, journalVars, generation, alive, logVars, waitVars, drainVars>>

(* What matters of a record: *stopped leaves the target stopped; *stopped  *)
(* with an exit reason is a stop too, but leaves it exited; *running, and  *)
(* an ^error of a structured execution command, leave it neither.  The     *)
(* completion of a trigger is ^running (an "other" record) or ^error: its  *)
(* command is raw, so that it does not touch the target.                   *)
TargetKinds == {"stopped", "exited", "running"}
Kinds == TargetKinds \cup {"other", "error"}
Record == [kind : Kinds, of : Waiters \cup {NoCall}]
IsStop(r) == r.kind \in {"stopped", "exited"}

Loop  == {"find", "check", "arm", "refind", "recheck", "wait"}
Final == {"current", "got", "timeout", "exited", "failed"}

Init ==
  /\ commands = {} /\ printed = <<>> /\ budget = MaxRecords
  /\ target = "unknown" /\ reader = "read" /\ batch = <<>>
  /\ journal = <<>> /\ earliest = 1 /\ latestStop = 0
  /\ generation = 0 /\ alive = TRUE
  /\ advisor = "idle" /\ logs = 0
  /\ outcome = [w \in Waiters |-> "none"]
  /\ wpc = [w \in Waiters |-> "start"]
  /\ after = [w \in Waiters |-> 0]
  /\ armed = [w \in Waiters |-> 0]
  /\ found = [w \in Waiters |-> 0]
  /\ drain = "idle" /\ from = 0 /\ oldest = 0 /\ taken = {} /\ drains = 0
  /\ stops = 0 /\ seen = [w \in Waiters |-> 0]

(* The runtime is current_thread: it starts to poll a task only when no    *)
(* other task is inside a poll.                                            *)
RuntimeFree == reader \in {"read", "done"} /\ advisor = "idle" /\ drain = "idle"

-----------------------------------------------------------------------------
(* GDB (external): answers a trigger's command, and prints what happens to *)
(* the target.  In non-stop mode the records of several threads mix, so    *)
(* any order of them is possible.                                          *)

Emit(r) == printed' = Append(printed, r)

GdbPrints(k) ==
  /\ budget > 0
  /\ Emit([kind |-> k, of |-> NoCall])
  /\ budget' = budget - 1
  /\ UNCHANGED <<commands, readerVars, journalVars, generation, alive, logVars, waitVars, drainVars>>

GdbAnswers(w, k) ==
  /\ w \in commands
  /\ Emit([kind |-> k, of |-> w])
  /\ commands' = commands \ {w}
  /\ UNCHANGED <<budget, readerVars, journalVars, generation, alive, logVars, waitVars, drainVars>>

-----------------------------------------------------------------------------
(* EventJournal.                                                           *)

(* A mutant of push: latest_stopped gets the number of the next event.     *)
push_NumbersLate(r) ==
  LET seq == Len(journal) + 1 IN
  /\ journal' = Append(journal, r)
  /\ latestStop' = IF IsStop(r) THEN seq + 1 ELSE latestStop
  /\ earliest' = IF seq - earliest + 1 > Capacity THEN earliest + 1 ELSE earliest

push(r) ==
  LET seq == Len(journal) + 1 IN
  /\ journal' = Append(journal, r)
  /\ latestStop' = IF IsStop(r) THEN seq ELSE latestStop
  /\ earliest' = IF seq - earliest + 1 > Capacity THEN earliest + 1 ELSE earliest

cursor == Len(journal)

Retained == earliest..Len(journal)

StopsAfter(s) == {i \in Retained : i > s /\ IsStop(journal[i])}

-----------------------------------------------------------------------------
(* The reader task.                                                        *)

TargetAfter(t, records) ==
  LET ofTarget == {i \in DOMAIN records : records[i].kind \in TargetKinds}
  IN IF ofTarget = {} THEN t ELSE records[Max(ofTarget)].kind

StopCount(records) == Cardinality({i \in DOMAIN records : IsStop(records[i])})

ReadChunk(n) ==
  /\ reader = "read" /\ RuntimeFree
  /\ n \in 1..Len(printed)
  /\ LET chunk == SubSeq(printed, 1, n) IN
       /\ batch' = chunk
       /\ target' = TargetAfter(target, chunk)
       /\ stops' = stops + StopCount(chunk)
  /\ printed' = SubSeq(printed, n + 1, Len(printed))
  /\ reader' = "fire"
  /\ UNCHANGED <<commands, budget, outcome, journalVars, generation, alive, logVars, waitVars, drainVars>>

(* dispatch_event: complete the command, record the event, notify.         *)
Fire ==
  /\ reader = "fire"
  /\ LET r == Head(batch) IN
       outcome' = IF r.of = NoCall THEN outcome
                  ELSE [outcome EXCEPT ![r.of] = IF r.kind = "other" THEN "running" ELSE "error"]
  /\ reader' = "record"
  /\ UNCHANGED <<gdbVars, target, batch, stops, journalVars, generation, alive, logVars, waitVars, drainVars>>

RecordEvent ==
  /\ reader = "record"
  /\ push(Head(batch))
  /\ batch' = Tail(batch)
  /\ reader' = "notify"
  /\ UNCHANGED <<gdbVars, target, outcome, stops, generation, alive, logVars, waitVars, drainVars>>

NotifyEvent ==
  /\ reader = "notify"
  /\ generation' = generation + 1
  /\ reader' = IF batch = <<>> THEN "read" ELSE "fire"
  /\ UNCHANGED <<gdbVars, target, batch, outcome, stops, journalVars, alive, logVars, waitVars, drainVars>>

(* The end of stdout or a failed read: mark_reader_exited.                 *)
ReaderEnds ==
  /\ reader = "read" /\ RuntimeFree
  /\ alive' = FALSE
  /\ reader' = "notifyExit"
  /\ UNCHANGED <<gdbVars, target, batch, outcome, stops, journalVars, generation, logVars, waitVars, drainVars>>

(* A mutant of NotifyExit: the end of the reader wakes nobody.             *)
NotifyExit_Silent ==
  /\ reader = "notifyExit"
  /\ reader' = "done"
  /\ UNCHANGED <<gdbVars, target, batch, outcome, stops, journalVars, generation, alive, logVars, waitVars, drainVars>>

NotifyExit ==
  /\ reader = "notifyExit"
  /\ generation' = generation + 1
  /\ reader' = "done"
  /\ UNCHANGED <<gdbVars, target, batch, outcome, stops, journalVars, alive, logVars, waitVars, drainVars>>

(* record_synthetic_log, from a tool or a background task.                 *)
RecordLog ==
  /\ RuntimeFree /\ logs < MaxLogs
  /\ push([kind |-> "other", of |-> NoCall])
  /\ logs' = logs + 1
  /\ advisor' = "notify"
  /\ UNCHANGED <<gdbVars, readerVars, generation, alive, waitVars, drainVars>>

NotifyLog ==
  /\ advisor = "notify"
  /\ generation' = generation + 1
  /\ advisor' = "idle"
  /\ UNCHANGED <<gdbVars, readerVars, journalVars, alive, logs, waitVars, drainVars>>

-----------------------------------------------------------------------------
(* The waits.  A wait's first step makes it one of the two primitives:     *)
(* CaptureCursor a trigger-and-wait, Snapshot a wait-for-stop.             *)

Goto(w, point) == wpc' = [wpc EXCEPT ![w] = point]

Capture(w) == after' = [after EXCEPT ![w] = cursor]

ReturnStop(w, how, seq) == Goto(w, how) /\ found' = [found EXCEPT ![w] = seq]

(* submit_and_await_stop: the cursor first, then the command.              *)
CaptureCursor(w) ==
  /\ wpc[w] = "start"
  /\ Capture(w)
  /\ Goto(w, "submit")
  /\ UNCHANGED <<gdbVars, readerVars, journalVars, generation, alive, logVars, armed, found, seen, drainVars>>

SubmitTrigger(w) ==
  /\ wpc[w] = "submit"
  /\ \/ alive /\ Goto(w, "outcome") /\ commands' = commands \cup {w}
     \/ ~alive /\ Goto(w, "failed") /\ UNCHANGED commands
  /\ UNCHANGED <<printed, budget, readerVars, journalVars, generation, alive, logVars, after, armed, found, seen, drainVars>>

(* A mutant of TriggerOutcome: the cursor is captured after the command.   *)
TriggerOutcome_CapturesLate(w) ==
  /\ wpc[w] = "outcome" /\ outcome[w] # "none"
  /\ Capture(w)
  /\ Goto(w, IF outcome[w] = "running" THEN "find" ELSE "failed")
  /\ UNCHANGED <<gdbVars, readerVars, journalVars, generation, alive, logVars, armed, found, seen, drainVars>>

TriggerOutcome(w) ==
  /\ wpc[w] = "outcome" /\ outcome[w] # "none"
  /\ Goto(w, IF outcome[w] = "running" THEN "find" ELSE "failed")
  /\ UNCHANGED <<gdbVars, readerVars, journalVars, generation, alive, logVars, after, armed, found, seen, drainVars>>

(* submit_raw times out or GDB is gone.                                    *)
TriggerFails(w) ==
  /\ wpc[w] = "outcome" /\ outcome[w] = "none"
  /\ Goto(w, "failed")
  /\ UNCHANGED <<gdbVars, readerVars, journalVars, generation, alive, logVars, after, armed, found, seen, drainVars>>

(* current_or_next_stop: the snapshot, latest_stopped, the cursor.         *)
Snapshot(w) ==
  /\ wpc[w] = "start"
  /\ IF target = "stopped"
     THEN Goto(w, "latest") /\ seen' = [seen EXCEPT ![w] = stops]
     ELSE Goto(w, "cursor") /\ UNCHANGED seen
  /\ UNCHANGED <<gdbVars, readerVars, journalVars, generation, alive, logVars, after, armed, found, drainVars>>

LatestStopped(w) ==
  /\ wpc[w] = "latest"
  /\ IF latestStop # 0 THEN ReturnStop(w, "current", latestStop)
                       ELSE Goto(w, "cursor") /\ UNCHANGED found
  /\ UNCHANGED <<gdbVars, readerVars, journalVars, generation, alive, logVars, after, armed, seen, drainVars>>

NextStopCursor(w) ==
  /\ wpc[w] = "cursor"
  /\ Capture(w)
  /\ Goto(w, "find")
  /\ UNCHANGED <<gdbVars, readerVars, journalVars, generation, alive, logVars, armed, found, seen, drainVars>>

(* A mutant of Find: the journal is searched from its end.                 *)
Find_Last(w, here, next) ==
  /\ wpc[w] = here
  /\ IF StopsAfter(after[w]) # {} THEN ReturnStop(w, "got", Max(StopsAfter(after[w])))
                                  ELSE Goto(w, next) /\ UNCHANGED found
  /\ UNCHANGED <<gdbVars, readerVars, journalVars, generation, alive, logVars, after, armed, seen, drainVars>>

(* next_stop_after: look, look again after arming the notification, wait.  *)
Find(w, here, next) ==
  /\ wpc[w] = here
  /\ IF StopsAfter(after[w]) # {} THEN ReturnStop(w, "got", Min(StopsAfter(after[w])))
                                  ELSE Goto(w, next) /\ UNCHANGED found
  /\ UNCHANGED <<gdbVars, readerVars, journalVars, generation, alive, logVars, after, armed, seen, drainVars>>

CheckAlive(w, here, next) ==
  /\ wpc[w] = here
  /\ Goto(w, IF alive THEN next ELSE "exited")
  /\ UNCHANGED <<gdbVars, readerVars, journalVars, generation, alive, logVars, after, armed, found, seen, drainVars>>

(* A mutant of Arm: the journal is not looked at again.                    *)
Arm_Sleeps(w) ==
  /\ wpc[w] = "arm"
  /\ armed' = [armed EXCEPT ![w] = generation]
  /\ Goto(w, "wait")
  /\ UNCHANGED <<gdbVars, readerVars, journalVars, generation, alive, logVars, after, found, seen, drainVars>>

Arm(w) ==
  /\ wpc[w] = "arm"
  /\ armed' = [armed EXCEPT ![w] = generation]
  /\ Goto(w, "refind")
  /\ UNCHANGED <<gdbVars, readerVars, journalVars, generation, alive, logVars, after, found, seen, drainVars>>

Notified(w) ==
  /\ wpc[w] = "wait" /\ generation # armed[w]
  /\ Goto(w, "find")
  /\ UNCHANGED <<gdbVars, readerVars, journalVars, generation, alive, logVars, after, armed, found, seen, drainVars>>

Timeout(w) ==
  /\ wpc[w] = "wait" /\ generation = armed[w]
  /\ Goto(w, "timeout")
  /\ UNCHANGED <<gdbVars, readerVars, journalVars, generation, alive, logVars, after, armed, found, seen, drainVars>>

-----------------------------------------------------------------------------
(* drain_observed_events, called again with the cursor it returned.        *)

DrainEarliest ==
  /\ RuntimeFree /\ drains < MaxDrains
  /\ drains' = drains + 1
  /\ oldest' = IF journal = <<>> THEN 0 ELSE earliest
  /\ drain' = "events"
  /\ UNCHANGED <<gdbVars, readerVars, journalVars, generation, alive, logVars, waitVars, from, taken>>

(* summarize_event reports no completions.                                 *)
DrainEvents ==
  /\ drain = "events"
  /\ taken' = {s \in Retained : s > from /\ journal[s].of = NoCall}
  /\ drain' = "cursor"
  /\ UNCHANGED <<gdbVars, readerVars, journalVars, generation, alive, logVars, waitVars, from, oldest, drains>>

DrainCursor ==
  /\ drain = "cursor"
  /\ from' = cursor
  /\ drain' = "idle" /\ oldest' = 0 /\ taken' = {}
  /\ UNCHANGED <<gdbVars, readerVars, journalVars, generation, alive, logVars, waitVars, drains>>

(* A mutant of truncated: one evicted event goes unnoticed.                *)
truncated_OffByOne == oldest # 0 /\ from + 2 < oldest

truncated == oldest # 0 /\ from + 1 < oldest

-----------------------------------------------------------------------------
GdbStep ==
  \/ \E k \in TargetKinds \cup {"other"} : GdbPrints(k)
  \/ \E w \in Waiters, k \in {"other", "error"} : GdbAnswers(w, k)

ReaderStep ==
  \/ \E n \in 1..Len(printed) : ReadChunk(n)
  \/ Fire \/ RecordEvent \/ NotifyEvent \/ NotifyExit

LogStep == RecordLog \/ NotifyLog

WaitStep(w) ==
  \/ CaptureCursor(w) \/ SubmitTrigger(w) \/ TriggerOutcome(w)
  \/ Snapshot(w) \/ LatestStopped(w) \/ NextStopCursor(w)
  \/ Find(w, "find", "check") \/ CheckAlive(w, "check", "arm")
  \/ Arm(w)
  \/ Find(w, "refind", "recheck") \/ CheckAlive(w, "recheck", "wait")
  \/ Notified(w)

DrainStep == DrainEarliest \/ DrainEvents \/ DrainCursor

Next ==
  \/ GdbStep \/ ReaderStep \/ ReaderEnds \/ LogStep
  \/ \E w \in Waiters : WaitStep(w) \/ TriggerFails(w) \/ Timeout(w)
  \/ DrainStep

Spec == Init /\ [][Next]_vars

(* The runtime polls its tasks and the threads of the waits run.  Nothing  *)
(* is assumed of GDB, of the timers or of the drain tool's client, but a   *)
(* drain or a log that has begun ends.                                     *)
Fairness ==
  /\ WF_vars(ReaderStep) /\ WF_vars(NotifyLog)
  /\ WF_vars(DrainEvents \/ DrainCursor)
  /\ \A w \in Waiters : WF_vars(WaitStep(w))

FairSpec == Spec /\ Fairness

-----------------------------------------------------------------------------
(* What the event path promises.                                           *)

(* The variables have the types the code gives them.                       *)
TypeOK ==
  /\ commands \subseteq Waiters
  /\ printed \in Seq(Record) /\ budget \in Nat
  /\ target \in TargetKinds \cup {"unknown"}
  /\ reader \in {"read", "fire", "record", "notify", "notifyExit", "done"}
  /\ batch \in Seq(Record)
  /\ journal \in Seq(Record)
  /\ earliest \in 1..(Len(journal) + 1) /\ latestStop \in 0..Len(journal)
  /\ generation \in Nat /\ alive \in BOOLEAN
  /\ advisor \in {"idle", "notify"} /\ logs \in Nat
  /\ outcome \in [Waiters -> {"none", "running", "error"}]
  /\ wpc \in [Waiters -> {"start", "submit", "outcome", "latest", "cursor"} \cup Loop \cup Final]
  /\ after \in [Waiters -> Nat] /\ armed \in [Waiters -> Nat] /\ found \in [Waiters -> Nat]
  /\ drain \in {"idle", "events", "cursor"}
  /\ from \in Nat /\ oldest \in Nat /\ taken \subseteq Nat /\ drains \in Nat
  /\ stops \in Nat /\ seen \in [Waiters -> Nat]

(* No lost wakeup: a wait that sleeps un-notified sleeps for a reason.  No *)
(* stop after its cursor is in the journal, and the reader lives, unless   *)
(* the one who recorded the event or ended the reader is about to notify.  *)
NoLostWakeup ==
  \A w \in Waiters : wpc[w] = "wait" /\ armed[w] = generation =>
    /\ StopsAfter(after[w]) # {} => reader = "notify" \/ advisor = "notify"
    /\ ~alive => reader = "notifyExit"

(* The stop that next_stop_after returns is after the wait's cursor, and a *)
(* stop between the two was passed over only because the journal has       *)
(* evicted it.                                                             *)
FoundIsFirstRetained ==
  \A w \in Waiters : wpc[w] = "got" =>
    /\ found[w] \in (after[w] + 1)..Len(journal) /\ IsStop(journal[found[w]])
    /\ \A s \in (after[w] + 1)..(found[w] - 1) : IsStop(journal[s]) => s < earliest

(* A *-and-wait primitive misses no stop of its own command: everything    *)
(* GDB prints from the completion of the command on comes after its cursor.*)
TriggerPrecedesStops ==
  \A w \in Waiters, s \in DOMAIN journal : journal[s].of = w => after[w] < s

(* A client that drains with the cursor of its last drain misses no event: *)
(* what was not reported was evicted, and the report said truncated.       *)
DrainLosesNothing ==
  [][\A s \in (from + 1)..from' :
       journal[s].of = NoCall => s \in taken \/ (truncated /\ s < oldest)]_vars

(* A wait with a stop to return returns, with no help from its timeout,    *)
(* unless the journal evicts the stop first; and when the reader ends,     *)
(* every wait returns.                                                     *)
WaitsReturn ==
  \A w \in Waiters :
    /\ (wpc[w] \in Loop /\ StopsAfter(after[w]) # {}) ~>
         (wpc[w] \in Final \/ StopsAfter(after[w]) = {})
    /\ (wpc[w] \in Loop /\ ~alive) ~> (wpc[w] \in Final)

(* wait-for-stop returns the current stop when it finds the target         *)
(* stopped: not a stop that a later one had already replaced.              *)
CurrentStopIsCurrent ==
  \A w \in Waiters : wpc[w] = "current" =>
    Cardinality({s \in 1..found[w] : IsStop(journal[s])}) >= seen[w]

(* wait-for-stop does not wait for another stop when it finds the target   *)
(* stopped: the stop it found is still ahead of its cursor.                *)
StoppedTargetIsSeen ==
  \A w \in Waiters : wpc[w] = "wait" /\ seen[w] # 0 =>
    Cardinality({s \in 1..after[w] : IsStop(journal[s])}) < seen[w]
=============================================================================
