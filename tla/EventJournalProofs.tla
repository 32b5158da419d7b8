-------------------------- MODULE EventJournalProofs --------------------------
(***************************************************************************)
(* Theorems about the event path, for any number of waits, any capacity of *)
(* the journal and any number of records, logs and drains.                 *)
(***************************************************************************)
EXTENDS EventJournal, Lemmas

(* The reader fires and records only an event of its batch.                *)
BatchInv == reader \in {"fire", "record"} => batch # <<>>

(* No cursor and no armed notification is from the future.                 *)
CursorInv ==
  /\ from <= Len(journal)
  /\ \A w \in Waiters : after[w] <= Len(journal) /\ armed[w] <= generation

(* NoLostWakeup holds from the second look at the journal on: between it   *)
(* and the sleep a stop may be recorded, but then its notification is due. *)
WakeInv ==
  \A w \in Waiters : armed[w] = generation =>
    /\ wpc[w] \in {"recheck", "wait"} /\ StopsAfter(after[w]) # {} =>
         reader = "notify" \/ advisor = "notify"
    /\ wpc[w] = "wait" /\ ~alive => reader = "notifyExit"

(* Before a wait has submitted its trigger, and in a wait that has none,   *)
(* no record of the trigger's command is anywhere.                         *)
Early == {"start", "submit", "latest", "cursor"}
NotOf(w, records) == \A i \in DOMAIN records : records[i].of # w
TriggerInv ==
  \A w \in Waiters : wpc[w] \in Early =>
    w \notin commands /\ NotOf(w, printed) /\ NotOf(w, batch) /\ NotOf(w, journal)

(* The drain runs in one poll: nothing is recorded between its reads.      *)
DrainInv ==
  /\ drain # "idle" =>
       /\ reader \in {"read", "done"} /\ advisor = "idle"
       /\ oldest = IF journal = <<>> THEN 0 ELSE earliest
  /\ drain = "cursor" => taken = {s \in Retained : s > from /\ journal[s].of = NoCall}

IInv ==
  /\ TypeOK /\ BatchInv /\ CursorInv /\ WakeInv /\ TriggerInv /\ DrainInv
  /\ FoundIsFirstRetained /\ TriggerPrecedesStops

-----------------------------------------------------------------------------
(* Lemmas about the operators of the model.                                *)

(* push appends one event and never moves earliest back.                   *)
LEMMA Push ==
  ASSUME TypeOK, NEW r \in Record, push(r)
  PROVE  /\ journal' \in Seq(Record) /\ Len(journal') = Len(journal) + 1
         /\ \A i \in 1..Len(journal) : journal'[i] = journal[i]
         /\ journal'[Len(journal) + 1] = r
         /\ earliest' \in 1..(Len(journal') + 1) /\ earliest' >= earliest
         /\ latestStop' \in 0..Len(journal')
<1>1. /\ journal \in Seq(Record) /\ earliest \in 1..(Len(journal) + 1)
      /\ latestStop \in 0..Len(journal) /\ Len(journal) \in Nat
  BY LenProperties DEF TypeOK
<1>2. /\ journal' \in Seq(Record) /\ Len(journal') = Len(journal) + 1
      /\ \A i \in 1..Len(journal) : journal'[i] = journal[i]
      /\ journal'[Len(journal) + 1] = r
  BY <1>1, AppendProperties DEF push
<1>3. earliest' \in 1..(Len(journal') + 1) /\ earliest' >= earliest
  BY <1>1, <1>2, BoundsAssumption DEF push
<1>4. latestStop' \in 0..Len(journal')
  BY <1>1, <1>2 DEF push
<1> QED  BY <1>2, <1>3, <1>4

(* The state of the target follows from the last record that changes it;   *)
(* the stops of a chunk can be counted.                                    *)
LEMMA ChunkTypes ==
  ASSUME NEW s \in Seq(Record), NEW t \in TargetKinds \cup {"unknown"}
  PROVE  TargetAfter(t, s) \in TargetKinds \cup {"unknown"} /\ StopCount(s) \in Nat
<1>1. DOMAIN s = 1..Len(s) /\ Len(s) \in Nat
  BY LenProperties
<1>2. StopCount(s) \in Nat
  <2>1. IsFiniteSet(DOMAIN s)
    BY <1>1, FS_Interval
  <2>2. {i \in DOMAIN s : IsStop(s[i])} \in SUBSET DOMAIN s
    OBVIOUS
  <2> QED  BY <2>1, <2>2, FS_Subset, FS_CardinalityType DEF StopCount
<1>3. TargetAfter(t, s) \in TargetKinds \cup {"unknown"}
  <2> DEFINE ofTarget == {i \in DOMAIN s : s[i].kind \in TargetKinds}
  <2>1. CASE ofTarget = {}
    BY <2>1 DEF TargetAfter
  <2>2. CASE ofTarget # {}
    <3>1. ofTarget \in SUBSET (0..Len(s))
      BY <1>1
    <3>2. Max(ofTarget) \in ofTarget
      <4> HIDE DEF ofTarget
      <4> QED  BY <1>1, <2>2, <3>1, MaxOfNat
    <3>3. s[Max(ofTarget)].kind \in TargetKinds
      BY <3>2
    <3> QED  BY <2>2, <3>3 DEF TargetAfter
  <2> QED  BY <2>1, <2>2
<1> QED  BY <1>2, <1>3

(* The first stop after a cursor is retained, and no other is before it.   *)
LEMMA FirstStop ==
  ASSUME TypeOK, NEW c \in Nat, StopsAfter(c) # {}
  PROVE  /\ Min(StopsAfter(c)) \in (c + 1)..Len(journal)
         /\ IsStop(journal[Min(StopsAfter(c))])
         /\ \A s \in (c + 1)..(Min(StopsAfter(c)) - 1) : IsStop(journal[s]) => s < earliest
<1>1. earliest \in 1..(Len(journal) + 1) /\ Len(journal) \in Nat
  BY LenProperties DEF TypeOK
<1>2. StopsAfter(c) \in SUBSET Nat
  BY <1>1 DEF StopsAfter, Retained
<1> DEFINE m == Min(StopsAfter(c))
<1>3. m \in StopsAfter(c) /\ \A s \in StopsAfter(c) : m <= s
  BY <1>2, MinOfNat
<1> HIDE DEF m
<1>4. m \in (c + 1)..Len(journal) /\ IsStop(journal[m])
  BY <1>1, <1>3 DEF StopsAfter, Retained
<1>5. ASSUME NEW s \in (c + 1)..(m - 1), IsStop(journal[s]), ~(s < earliest) PROVE FALSE
  <2>1. s \in StopsAfter(c)
    BY <1>1, <1>4, <1>5 DEF StopsAfter, Retained
  <2> QED  BY <1>1, <1>3, <1>4, <2>1
<1> QED  BY <1>4, <1>5 DEF m

-----------------------------------------------------------------------------
(* The inductive invariant, part by part.                                  *)

(* What a step of a wait leaves alone, and what it may do to its cursors.  *)
LEMMA WaitFrame ==
  ASSUME TypeOK, NEW w \in Waiters, WaitStep(w) \/ TriggerFails(w) \/ Timeout(w)
  PROVE  /\ UNCHANGED <<printed, budget, readerVars, journalVars, generation, alive, logVars, drainVars>>
         /\ \E point : Goto(w, point)
         /\ \A v \in Waiters \ {w} : UNCHANGED <<after[v], armed[v], found[v]>>
<1>1. UNCHANGED <<printed, budget, readerVars, journalVars, generation, alive, logVars, drainVars>>
  BY DEF WaitStep, CaptureCursor, SubmitTrigger, TriggerOutcome, Snapshot, LatestStopped, NextStopCursor,
    Find, CheckAlive, Arm, Notified, TriggerFails, Timeout, gdbVars
<1>2. \E point : Goto(w, point)
  BY DEF WaitStep, CaptureCursor, SubmitTrigger, TriggerOutcome, Snapshot, LatestStopped, NextStopCursor,
    Find, CheckAlive, Arm, Notified, TriggerFails, Timeout, ReturnStop
<1>3. \A v \in Waiters \ {w} : UNCHANGED <<after[v], armed[v], found[v]>>
  BY DEF TypeOK, WaitStep, CaptureCursor, SubmitTrigger, TriggerOutcome, Snapshot, LatestStopped, NextStopCursor,
    Find, CheckAlive, Arm, Notified, TriggerFails, Timeout, ReturnStop, Capture
<1> QED  BY <1>1, <1>2, <1>3

(* The types of what the waits have of their own.                         *)
WaitTypes ==
  /\ commands \subseteq Waiters
  /\ wpc \in [Waiters -> {"start", "submit", "outcome", "latest", "cursor"} \cup Loop \cup Final]
  /\ after \in [Waiters -> Nat] /\ armed \in [Waiters -> Nat] /\ found \in [Waiters -> Nat]
  /\ seen \in [Waiters -> Nat]

(* Each variable keeps its type.                                           *)
LEMMA TypeStep == IInv /\ [Next]_vars => TypeOK'
<1> SUFFICES ASSUME TypeOK, BatchInv, [Next]_vars PROVE TypeOK'
  BY DEF IInv
<1>1. ASSUME NEW k \in Kinds, NEW o \in Waiters \cup {NoCall}, Emit([kind |-> k, of |-> o])
      PROVE  printed' \in Seq(Record)
  <2>1. [kind |-> k, of |-> o] \in Record
    BY DEF Record
  <2> QED  BY <1>1, <2>1, AppendProperties DEF Emit, TypeOK
<1>2. ASSUME NEW k \in TargetKinds \cup {"other"}, GdbPrints(k) PROVE TypeOK'
  <2>1. printed' \in Seq(Record)
    BY <1>1, <1>2 DEF GdbPrints, Kinds
  <2> QED  BY <1>2, <2>1 DEF GdbPrints, TypeOK, readerVars, journalVars, logVars, waitVars, drainVars
<1>3. ASSUME NEW w \in Waiters, NEW k \in {"other", "error"}, GdbAnswers(w, k) PROVE TypeOK'
  <2>1. printed' \in Seq(Record)
    BY <1>1, <1>3 DEF GdbAnswers, Kinds
  <2> QED  BY <1>3, <2>1 DEF GdbAnswers, TypeOK, readerVars, journalVars, logVars, waitVars, drainVars
<1>4. ASSUME NEW n \in 1..Len(printed), ReadChunk(n) PROVE TypeOK'
  <2> DEFINE chunk == SubSeq(printed, 1, n)
  <2>1. chunk \in Seq(Record) /\ SubSeq(printed, n + 1, Len(printed)) \in Seq(Record)
    BY Cut DEF TypeOK
  <2>2. TargetAfter(target, chunk) \in TargetKinds \cup {"unknown"} /\ StopCount(chunk) \in Nat
    BY <2>1, ChunkTypes DEF TypeOK
  <2>3. batch' = chunk /\ target' = TargetAfter(target, chunk) /\ stops' = stops + StopCount(chunk)
    BY <1>4 DEF ReadChunk
  <2> HIDE DEF chunk
  <2>4. target' \in TargetKinds \cup {"unknown"} /\ stops' \in Nat
    BY <2>2, <2>3 DEF TypeOK
  <2> QED  BY <1>4, <2>1, <2>3, <2>4 DEF ReadChunk, TypeOK, journalVars, logVars, waitVars, drainVars
<1>5. CASE Fire
  <2>1. batch # <<>> /\ Head(batch) \in Record
    BY <1>5, HeadTailProperties DEF Fire, BatchInv, TypeOK
  <2>2. outcome' \in [Waiters -> {"none", "running", "error"}]
    BY <1>5, <2>1 DEF Fire, TypeOK, Record
  <2> QED  BY <1>5, <2>2 DEF Fire, TypeOK, gdbVars, journalVars, logVars, waitVars, drainVars
<1>6. CASE RecordEvent
  <2>1. batch # <<>> /\ Head(batch) \in Record /\ Tail(batch) \in Seq(Record)
    BY <1>6, HeadTailProperties DEF RecordEvent, BatchInv, TypeOK
  <2>2. /\ journal' \in Seq(Record) /\ earliest' \in 1..(Len(journal') + 1)
        /\ latestStop' \in 0..Len(journal')
    BY <1>6, <2>1, Push DEF RecordEvent
  <2> QED  BY <1>6, <2>1, <2>2 DEF RecordEvent, TypeOK, gdbVars, logVars, waitVars, drainVars
<1>7. CASE RecordLog
  <2>1. [kind |-> "other", of |-> NoCall] \in Record
    BY DEF Record, Kinds
  <2>2. /\ journal' \in Seq(Record) /\ earliest' \in 1..(Len(journal') + 1)
        /\ latestStop' \in 0..Len(journal')
    BY <1>7, <2>1, Push DEF RecordLog
  <2>3. logs' \in Nat /\ advisor' \in {"idle", "notify"}
    BY <1>7 DEF RecordLog, TypeOK
  <2>4. UNCHANGED <<gdbVars, readerVars, generation, alive, waitVars, drainVars>>
    BY <1>7 DEF RecordLog
  <2> QED  BY <2>2, <2>3, <2>4 DEF TypeOK, gdbVars, readerVars, waitVars, drainVars
<1>8. ASSUME NotifyEvent \/ NotifyExit \/ NotifyLog \/ ReaderEnds PROVE TypeOK'
  <2>1. CASE NotifyEvent
    BY <2>1 DEF NotifyEvent, TypeOK, gdbVars, journalVars, logVars, waitVars, drainVars
  <2>4. CASE NotifyExit
    BY <2>4 DEF NotifyExit, TypeOK, gdbVars, journalVars, logVars, waitVars, drainVars
  <2>2. CASE NotifyLog
    BY <2>2 DEF NotifyLog, TypeOK, gdbVars, readerVars, journalVars, waitVars, drainVars
  <2>3. CASE ReaderEnds
    BY <2>3 DEF ReaderEnds, TypeOK, gdbVars, journalVars, logVars, waitVars, drainVars
  <2> QED  BY <1>8, <2>1, <2>2, <2>3, <2>4
<1>9. ASSUME NEW w \in Waiters, WaitStep(w) \/ TriggerFails(w) \/ Timeout(w) PROVE TypeOK'
  <2> USE DEF WaitTypes
  <2>1. Len(journal) \in Nat /\ latestStop \in Nat /\ generation \in Nat /\ stops \in Nat /\ WaitTypes
    BY LenProperties DEF TypeOK
  <2>2. ASSUME NEW here, NEW next \in Loop, Find(w, here, next) PROVE WaitTypes'
    <3>1. CASE StopsAfter(after[w]) = {}
      BY <2>1, <2>2, <3>1 DEF Find, Goto, gdbVars
    <3>2. CASE StopsAfter(after[w]) # {}
      <4>1. Min(StopsAfter(after[w])) \in Nat
        BY <2>1, <3>2, FirstStop
      <4> QED  BY <2>1, <2>2, <3>2, <4>1 DEF Find, ReturnStop, Goto, Final, gdbVars
    <3> QED  BY <3>1, <3>2
  <2>3. ASSUME NEW here, NEW next \in Loop, CheckAlive(w, here, next) PROVE WaitTypes'
    BY <2>1, <2>3 DEF CheckAlive, Goto, Final, gdbVars
  <2>4. ASSUME CaptureCursor(w) PROVE WaitTypes'
    BY <2>1, <2>4 DEF CaptureCursor, Capture, cursor, Goto, gdbVars
  <2>5. ASSUME NextStopCursor(w) PROVE WaitTypes'
    BY <2>1, <2>5 DEF NextStopCursor, Capture, cursor, Goto, Loop, gdbVars
  <2>6. ASSUME Arm(w) PROVE WaitTypes'
    BY <2>1, <2>6 DEF Arm, Goto, Loop, gdbVars
  <2>7. ASSUME SubmitTrigger(w) PROVE WaitTypes'
    BY <2>1, <2>7 DEF SubmitTrigger, Goto, Final
  <2>8. ASSUME TriggerOutcome(w) \/ TriggerFails(w) PROVE WaitTypes'
    BY <2>1, <2>8 DEF TriggerOutcome, TriggerFails, Goto, Loop, Final, gdbVars
  <2>9. ASSUME Notified(w) \/ Timeout(w) PROVE WaitTypes'
    BY <2>1, <2>9 DEF Notified, Timeout, Goto, Loop, Final, gdbVars
  <2>10. ASSUME Snapshot(w) PROVE WaitTypes'
    BY <2>1, <2>10 DEF Snapshot, Goto, gdbVars
  <2>11. ASSUME LatestStopped(w) PROVE WaitTypes'
    BY <2>1, <2>11 DEF LatestStopped, ReturnStop, Goto, Final, gdbVars
  <2>12. WaitTypes'
    BY <1>9, <2>2, <2>3, <2>4, <2>5, <2>6, <2>7, <2>8, <2>9, <2>10, <2>11 DEF WaitStep, Loop
  <2>13. UNCHANGED <<printed, budget, readerVars, journalVars, generation, alive, logVars, drainVars>>
    BY <1>9, WaitFrame
  <2> QED  BY <2>12, <2>13 DEF TypeOK, readerVars, journalVars, logVars, drainVars
<1>10. CASE DrainStep
  <2>1. Len(journal) \in Nat /\ Retained \subseteq Nat
    BY LenProperties DEF Retained, TypeOK
  <2>3. taken' \subseteq Nat
    BY <1>10, <2>1 DEF DrainStep, DrainEarliest, DrainEvents, DrainCursor, TypeOK
  <2>2. oldest' \in Nat /\ from' \in Nat /\ drains' \in Nat
    <3>1. CASE DrainEarliest
      BY <3>1, <2>1 DEF DrainEarliest, journalVars, TypeOK
    <3>2. CASE DrainEvents
      BY <3>2 DEF DrainEvents, TypeOK
    <3>3. CASE DrainCursor
      BY <3>3, <2>1 DEF DrainCursor, cursor, TypeOK
    <3> QED  BY <1>10, <3>1, <3>2, <3>3 DEF DrainStep
  <2>4. drain' \in {"idle", "events", "cursor"}
    BY <1>10 DEF DrainStep, DrainEarliest, DrainEvents, DrainCursor
  <2>5. UNCHANGED <<gdbVars, readerVars, journalVars, generation, alive, logVars, waitVars>>
    BY <1>10 DEF DrainStep, DrainEarliest, DrainEvents, DrainCursor
  <2> QED  BY <2>2, <2>3, <2>4, <2>5 DEF TypeOK, gdbVars, readerVars, journalVars, logVars, waitVars
<1>11. CASE UNCHANGED vars
  BY <1>11 DEF vars, TypeOK, gdbVars, readerVars, journalVars, logVars, waitVars, drainVars
<1> QED  BY <1>2, <1>3, <1>4, <1>5, <1>6, <1>7, <1>8, <1>9, <1>10, <1>11
  DEF Next, GdbStep, ReaderStep, LogStep

LEMMA BatchStep == IInv /\ [Next]_vars => BatchInv'
<1> SUFFICES ASSUME TypeOK, BatchInv, [Next]_vars PROVE BatchInv'
  BY DEF IInv
<1>1. ASSUME UNCHANGED <<reader, batch>> PROVE BatchInv'
  BY <1>1 DEF BatchInv
<1>2. ASSUME NEW n \in 1..Len(printed), ReadChunk(n) PROVE BatchInv'
  <2>1. SubSeq(printed, 1, n) # <<>>
    BY Cut DEF TypeOK
  <2> QED  BY <1>2, <2>1 DEF ReadChunk, BatchInv
<1>3. ASSUME Fire \/ RecordEvent \/ NotifyEvent \/ NotifyExit \/ ReaderEnds PROVE BatchInv'
  BY <1>3 DEF Fire, RecordEvent, NotifyEvent, NotifyExit, ReaderEnds, BatchInv
<1>4. ASSUME GdbStep \/ LogStep \/ DrainStep PROVE BatchInv'
  BY <1>1, <1>4 DEF GdbStep, GdbPrints, GdbAnswers, LogStep, RecordLog, NotifyLog, DrainStep, DrainEarliest,
    DrainEvents, DrainCursor, readerVars
<1>5. ASSUME NEW w \in Waiters, WaitStep(w) \/ TriggerFails(w) \/ Timeout(w) PROVE BatchInv'
  BY <1>1, <1>5 DEF WaitStep, CaptureCursor, SubmitTrigger, TriggerOutcome, Snapshot, LatestStopped, NextStopCursor,
    Find, CheckAlive, Arm, Notified, TriggerFails, Timeout, readerVars
<1>6. CASE UNCHANGED vars
  BY <1>1, <1>6 DEF vars, readerVars
<1> QED  BY <1>2, <1>3, <1>4, <1>5, <1>6 DEF Next, ReaderStep

LEMMA CursorStep == IInv /\ [Next]_vars => CursorInv'
<1> SUFFICES ASSUME TypeOK, BatchInv, CursorInv, [Next]_vars PROVE CursorInv'
  BY DEF IInv
<1>1. Len(journal) \in Nat /\ generation \in Nat
  BY LenProperties DEF TypeOK
<1>2. ASSUME UNCHANGED <<from, after, armed>>, Len(journal') \in Nat, Len(journal) <= Len(journal'),
             generation' \in {generation, generation + 1}
      PROVE  CursorInv'
  BY <1>1, <1>2 DEF CursorInv, TypeOK
<1>3. CASE RecordEvent
  <2>1. Len(journal') = Len(journal) + 1
    BY <1>3, HeadTailProperties, Push DEF RecordEvent, BatchInv, TypeOK
  <2> QED  BY <1>1, <1>2, <1>3, <2>1 DEF RecordEvent, waitVars, drainVars
<1>4. CASE RecordLog
  <2>1. [kind |-> "other", of |-> NoCall] \in Record
    BY DEF Record, Kinds
  <2>2. Len(journal') = Len(journal) + 1
    BY <1>4, <2>1, Push DEF RecordLog
  <2> QED  BY <1>1, <1>2, <1>4, <2>2 DEF RecordLog, waitVars, drainVars
<1>5. ASSUME GdbStep \/ (\E n \in 1..Len(printed) : ReadChunk(n)) \/ Fire \/ ReaderEnds PROVE CursorInv'
  <2>1. UNCHANGED <<journal, generation, from, after, armed>>
    BY <1>5 DEF GdbStep, GdbPrints, GdbAnswers, ReadChunk, Fire, ReaderEnds, journalVars, waitVars, drainVars
  <2> QED  BY <1>1, <1>2, <2>1
<1>9. ASSUME NotifyEvent \/ NotifyExit \/ NotifyLog PROVE CursorInv'
  BY <1>1, <1>2, <1>9 DEF NotifyEvent, NotifyExit, NotifyLog, journalVars, waitVars, drainVars
<1>6. CASE DrainStep
  BY <1>1, <1>2, <1>6 DEF CursorInv, DrainStep, DrainEarliest, DrainEvents, DrainCursor, cursor, journalVars, waitVars
<1>7. ASSUME NEW w \in Waiters, WaitStep(w) \/ TriggerFails(w) \/ Timeout(w) PROVE CursorInv'
  <2>1. UNCHANGED <<journal, from, generation>>
    BY <1>7, WaitFrame DEF journalVars, drainVars
  <2>2. after' \in {after, [after EXCEPT ![w] = Len(journal)]} /\ armed' \in {armed, [armed EXCEPT ![w] = generation]}
    BY <1>7 DEF WaitStep, CaptureCursor, SubmitTrigger, TriggerOutcome, Snapshot, LatestStopped, NextStopCursor,
      Find, CheckAlive, Arm, Notified, TriggerFails, Timeout, Capture, cursor
  <2>3. \A v \in Waiters : after'[v] \in {after[v], Len(journal)} /\ armed'[v] \in {armed[v], generation}
    BY <2>2 DEF TypeOK
  <2> QED  BY <1>1, <2>1, <2>3 DEF CursorInv
<1>8. CASE UNCHANGED vars
  BY <1>1, <1>2, <1>8 DEF vars, journalVars, waitVars, drainVars
<1> QED  BY <1>3, <1>4, <1>5, <1>6, <1>7, <1>8, <1>9 DEF Next, ReaderStep, LogStep

(* A stop recorded while a wait is about to sleep is notified, and so is   *)
(* the end of the reader.                                                  *)
LEMMA WakeStep == IInv /\ [Next]_vars => WakeInv'
<1> SUFFICES ASSUME TypeOK, CursorInv, WakeInv, [Next]_vars, NEW v \in Waiters, armed'[v] = generation'
             PROVE  /\ wpc'[v] \in {"recheck", "wait"} /\ StopsAfter(after[v])' # {} =>
                         reader' = "notify" \/ advisor' = "notify"
                    /\ wpc'[v] = "wait" /\ ~alive' => reader' = "notifyExit"
  BY DEF IInv, WakeInv
<1> DEFINE Stop == wpc'[v] \in {"recheck", "wait"} /\ StopsAfter(after[v])' # {} =>
                     reader' = "notify" \/ advisor' = "notify"
           Exit == wpc'[v] = "wait" /\ ~alive' => reader' = "notifyExit"
<1>1. generation \in Nat /\ armed[v] \in Nat /\ armed[v] <= generation
  BY DEF TypeOK, CursorInv
<1>2. armed[v] = generation =>
        /\ wpc[v] \in {"recheck", "wait"} /\ StopsAfter(after[v]) # {} => reader = "notify" \/ advisor = "notify"
        /\ wpc[v] = "wait" /\ ~alive => reader = "notifyExit"
  BY DEF WakeInv
<1>3. ASSUME UNCHANGED <<armed, wpc, after, generation, journal, earliest, alive, reader, advisor>>
      PROVE  Stop /\ Exit
  BY <1>2, <1>3 DEF StopsAfter, Retained
<1>4. ASSUME UNCHANGED armed, generation' = generation + 1 PROVE Stop /\ Exit
  BY <1>1, <1>4
<1>5. CASE \E n \in 1..Len(printed) : ReadChunk(n)
  BY <1>2, <1>5 DEF ReadChunk, RuntimeFree, StopsAfter, Retained, journalVars, logVars, waitVars
<1>6. CASE Fire
  BY <1>2, <1>6 DEF Fire, StopsAfter, Retained, journalVars, logVars, waitVars
<1>7. CASE RecordEvent
  BY <1>2, <1>7 DEF RecordEvent, logVars, waitVars
<1>8. CASE RecordLog
  BY <1>2, <1>8 DEF RecordLog, readerVars, waitVars
<1>9. CASE ReaderEnds
  BY <1>2, <1>9 DEF ReaderEnds, RuntimeFree, StopsAfter, Retained, journalVars, logVars, waitVars
<1>10. ASSUME NotifyEvent \/ NotifyExit \/ NotifyLog PROVE Stop /\ Exit
  BY <1>4, <1>10 DEF NotifyEvent, NotifyExit, NotifyLog, waitVars
<1>11. ASSUME GdbStep \/ DrainStep PROVE Stop /\ Exit
  BY <1>3, <1>11 DEF GdbStep, GdbPrints, GdbAnswers, DrainStep, DrainEarliest, DrainEvents, DrainCursor,
    readerVars, journalVars, logVars, waitVars
<1>12. ASSUME NEW w \in Waiters, WaitStep(w) \/ TriggerFails(w) \/ Timeout(w) PROVE Stop /\ Exit
  <2>1. UNCHANGED <<generation, journal, earliest, alive, reader, advisor>>
    BY <1>12, WaitFrame DEF readerVars, journalVars, logVars
  <2>2. CASE v # w
    <3>1. UNCHANGED <<after[v], armed[v], wpc[v]>>
      BY <1>12, <2>2, WaitFrame DEF Goto, TypeOK
    <3> QED  BY <1>2, <2>1, <3>1 DEF StopsAfter, Retained
  <2>3. CASE v = w /\ wpc'[w] \in {"recheck", "wait"}
    <3>1. Find(w, "refind", "recheck") \/ CheckAlive(w, "recheck", "wait")
      BY <1>12, <2>3 DEF WaitStep, CaptureCursor, SubmitTrigger, TriggerOutcome, Snapshot, LatestStopped,
        NextStopCursor, Find, CheckAlive, Arm, Notified, TriggerFails, Timeout, ReturnStop, Goto, TypeOK
    <3>2. CASE Find(w, "refind", "recheck")
      BY <2>1, <2>3, <3>2 DEF Find, ReturnStop, Goto, TypeOK, StopsAfter, Retained
    <3>3. CASE CheckAlive(w, "recheck", "wait")
      BY <1>2, <2>1, <2>3, <3>3 DEF CheckAlive, Goto, TypeOK, StopsAfter, Retained
    <3> QED  BY <3>1, <3>2, <3>3
  <2> QED  BY <2>2, <2>3
<1>13. CASE UNCHANGED vars
  BY <1>3, <1>13 DEF vars, readerVars, journalVars, logVars, waitVars
<1> QED  BY <1>5, <1>6, <1>7, <1>8, <1>9, <1>10, <1>11, <1>12, <1>13 DEF Next, ReaderStep, LogStep

(* A wait owns no record of a longer, a shorter or a cut sequence, if it   *)
(* owned none and none of its own was appended.                            *)
LEMMA NotOfSequences ==
  ASSUME NEW w, NEW s \in Seq(Record), NotOf(w, s)
  PROVE  /\ \A r \in Record : r.of # w => NotOf(w, Append(s, r))
         /\ s # <<>> => NotOf(w, Tail(s)) /\ Head(s).of # w
         /\ \A n \in 1..Len(s) : NotOf(w, SubSeq(s, 1, n)) /\ NotOf(w, SubSeq(s, n + 1, Len(s)))
<1>1. DOMAIN s = 1..Len(s) /\ Len(s) \in Nat
  BY LenProperties
<1>2. ASSUME NEW r \in Record, r.of # w PROVE NotOf(w, Append(s, r))
  <2>1. /\ Append(s, r) \in Seq(Record) /\ Len(Append(s, r)) = Len(s) + 1
        /\ \A i \in 1..Len(s) : Append(s, r)[i] = s[i]
        /\ Append(s, r)[Len(s) + 1] = r
    BY AppendProperties
  <2>2. DOMAIN Append(s, r) = 1..Len(s) + 1
    BY <2>1, LenProperties
  <2> QED  BY <1>1, <1>2, <2>1, <2>2 DEF NotOf
<1>3. ASSUME s # <<>> PROVE NotOf(w, Tail(s)) /\ Head(s).of # w
  <2>1. /\ Tail(s) \in Seq(Record) /\ Len(Tail(s)) = Len(s) - 1
        /\ \A i \in 1..Len(Tail(s)) : Tail(s)[i] = s[i + 1]
    BY <1>3, HeadTailProperties
  <2>2. DOMAIN Tail(s) = 1..Len(s) - 1
    BY <2>1, LenProperties
  <2>3. Len(s) # 0
    BY <1>3, EmptySeq
  <2>4. Head(s) = s[1]
    OBVIOUS
  <2> QED  BY <1>1, <2>1, <2>2, <2>3, <2>4 DEF NotOf
<1>4. ASSUME NEW n \in 1..Len(s) PROVE NotOf(w, SubSeq(s, 1, n)) /\ NotOf(w, SubSeq(s, n + 1, Len(s)))
  BY Cut DEF NotOf
<1> QED  BY <1>2, <1>3, <1>4

(* GDB answers a trigger only after it was submitted.                      *)
LEMMA TriggerStep == IInv /\ [Next]_vars => TriggerInv'
<1> SUFFICES ASSUME TypeOK, BatchInv, TriggerInv, [Next]_vars, NEW v \in Waiters, wpc'[v] \in Early
             PROVE  /\ v \notin commands' /\ NotOf(v, printed') /\ NotOf(v, batch')
                    /\ NotOf(v, journal')
  BY DEF IInv, TriggerInv, NotOf
<1> DEFINE Goal == v \notin commands' /\ NotOf(v, printed') /\ NotOf(v, batch') /\ NotOf(v, journal')
<1>1. v # NoCall /\ printed \in Seq(Record) /\ batch \in Seq(Record) /\ journal \in Seq(Record)
  BY WaitersAssumption DEF TypeOK
<1>2. ASSUME UNCHANGED wpc
      PROVE  v \notin commands /\ NotOf(v, printed) /\ NotOf(v, batch) /\ NotOf(v, journal)
  BY <1>2 DEF TriggerInv
<1>3. ASSUME NEW k \in TargetKinds \cup {"other"}, GdbPrints(k) PROVE Goal
  <2>1. [kind |-> k, of |-> NoCall] \in Record /\ [kind |-> k, of |-> NoCall].of # v
    BY <1>1 DEF Record, Kinds
  <2>2. NotOf(v, printed)
    BY <1>2, <1>3 DEF GdbPrints, waitVars
  <2>3. NotOf(v, printed')
    BY <1>1, <1>3, <2>1, <2>2, NotOfSequences DEF GdbPrints, Emit
  <2> QED  BY <1>2, <1>3, <2>3 DEF GdbPrints, waitVars, readerVars, journalVars
<1>4. ASSUME NEW w \in Waiters, NEW k \in {"other", "error"}, GdbAnswers(w, k) PROVE Goal
  <2>1. v # w
    BY <1>2, <1>4 DEF GdbAnswers, waitVars
  <2>2. [kind |-> k, of |-> w] \in Record /\ [kind |-> k, of |-> w].of # v
    BY <2>1 DEF Record, Kinds
  <2>3. NotOf(v, printed)
    BY <1>2, <1>4 DEF GdbAnswers, waitVars
  <2>4. NotOf(v, printed')
    BY <1>1, <1>4, <2>2, <2>3, NotOfSequences DEF GdbAnswers, Emit
  <2> QED  BY <1>2, <1>4, <2>4 DEF GdbAnswers, waitVars, readerVars, journalVars
<1>5. ASSUME NEW n \in 1..Len(printed), ReadChunk(n) PROVE Goal
  <2>1. NotOf(v, SubSeq(printed, 1, n)) /\ NotOf(v, SubSeq(printed, n + 1, Len(printed)))
    BY <1>1, <1>2, <1>5, NotOfSequences DEF ReadChunk, waitVars
  <2> QED  BY <1>2, <1>5, <2>1 DEF ReadChunk, waitVars, journalVars
<1>6. CASE RecordEvent
  <2>1. batch # <<>> /\ NotOf(v, batch) /\ NotOf(v, journal)
    BY <1>2, <1>6 DEF RecordEvent, BatchInv, waitVars
  <2>2. Head(batch) \in Record /\ Head(batch).of # v /\ NotOf(v, Tail(batch))
    BY <1>1, <2>1, NotOfSequences, HeadTailProperties
  <2>3. NotOf(v, Append(journal, Head(batch)))
    BY <1>1, <2>1, <2>2, NotOfSequences
  <2> QED  BY <1>2, <1>6, <2>2, <2>3 DEF RecordEvent, push, gdbVars, waitVars
<1>7. CASE RecordLog
  <2>1. [kind |-> "other", of |-> NoCall] \in Record /\ [kind |-> "other", of |-> NoCall].of # v
    BY <1>1 DEF Record, Kinds
  <2>2. NotOf(v, Append(journal, [kind |-> "other", of |-> NoCall]))
    BY <1>1, <1>2, <1>7, <2>1, NotOfSequences DEF RecordLog, waitVars
  <2> QED  BY <1>2, <1>7, <2>2 DEF RecordLog, push, gdbVars, readerVars, waitVars
<1>8. ASSUME Fire \/ NotifyEvent \/ NotifyExit \/ ReaderEnds \/ NotifyLog \/ DrainStep PROVE Goal
  <2>1. UNCHANGED <<wpc, commands, printed, batch, journal>>
    BY <1>8 DEF Fire, NotifyEvent, NotifyExit, ReaderEnds, NotifyLog, DrainStep, DrainEarliest, DrainEvents,
      DrainCursor, gdbVars, readerVars, journalVars, waitVars
  <2> QED  BY <1>2, <2>1
<1>9. ASSUME NEW w \in Waiters, WaitStep(w) \/ TriggerFails(w) \/ Timeout(w) PROVE Goal
  <2>1. UNCHANGED <<printed, batch, journal>>
    BY <1>9, WaitFrame DEF readerVars, journalVars
  <2>2. wpc[v] \in Early
    BY <1>9 DEF WaitStep, CaptureCursor, SubmitTrigger, TriggerOutcome, Snapshot, LatestStopped, NextStopCursor,
      Find, CheckAlive, Arm, Notified, TriggerFails, Timeout, ReturnStop, Goto, TypeOK, Early
  <2>3. v \notin commands'
    <3>1. v \notin commands
      BY <2>2 DEF TriggerInv
    <3>2. CASE SubmitTrigger(w)
      <4>1. wpc'[w] \in {"outcome", "failed"}
        BY <3>2 DEF SubmitTrigger, Goto, TypeOK
      <4>2. v # w
        BY <4>1 DEF Early
      <4> QED  BY <3>1, <3>2, <4>2 DEF SubmitTrigger
    <3>3. CASE ~SubmitTrigger(w)
      BY <1>9, <3>1, <3>3 DEF WaitStep, CaptureCursor, TriggerOutcome, Snapshot, LatestStopped, NextStopCursor,
        Find, CheckAlive, Arm, Notified, TriggerFails, Timeout, gdbVars
    <3> QED  BY <3>2, <3>3
  <2> QED  BY <2>1, <2>2, <2>3 DEF TriggerInv
<1>10. CASE UNCHANGED vars
  BY <1>2, <1>10 DEF vars, gdbVars, readerVars, journalVars, waitVars
<1> QED  BY <1>3, <1>4, <1>5, <1>6, <1>7, <1>8, <1>9, <1>10 DEF Next, GdbStep, ReaderStep, LogStep

(* While the tool drains, the runtime runs nothing else.                   *)
LEMMA DrainInvStep == IInv /\ [Next]_vars => DrainInv'
<1> SUFFICES ASSUME TypeOK, DrainInv, [Next]_vars PROVE DrainInv'
  BY DEF IInv
<1>1. ASSUME UNCHANGED <<drain, reader, advisor, journal, earliest, oldest, taken, from>> PROVE DrainInv'
  BY <1>1 DEF DrainInv, Retained
<1>2. ASSUME ReaderStep \/ ReaderEnds \/ LogStep PROVE DrainInv'
  <2>1. drain = "idle" /\ UNCHANGED drain
    BY <1>2 DEF ReaderStep, ReadChunk, Fire, RecordEvent, NotifyEvent, NotifyExit, ReaderEnds, LogStep, RecordLog,
      NotifyLog, RuntimeFree, DrainInv, drainVars
  <2> QED  BY <2>1 DEF DrainInv
<1>3. CASE DrainEarliest
  BY <1>3 DEF DrainEarliest, RuntimeFree, DrainInv, readerVars, journalVars, logVars
<1>4. CASE DrainEvents
  BY <1>4 DEF DrainEvents, DrainInv, Retained, readerVars, journalVars, logVars
<1>5. CASE DrainCursor
  BY <1>5 DEF DrainCursor, DrainInv
<1>6. CASE GdbStep
  BY <1>1, <1>6 DEF GdbStep, GdbPrints, GdbAnswers, readerVars, journalVars, logVars, drainVars
<1>7. ASSUME NEW w \in Waiters, WaitStep(w) \/ TriggerFails(w) \/ Timeout(w) PROVE DrainInv'
  BY <1>1, <1>7, WaitFrame DEF readerVars, journalVars, logVars, drainVars
<1>8. CASE UNCHANGED vars
  BY <1>1, <1>8 DEF vars, readerVars, journalVars, logVars, drainVars
<1> QED  BY <1>2, <1>3, <1>4, <1>5, <1>6, <1>7, <1>8 DEF Next, DrainStep

(* The journal only grows, at its end, and forgets only from its start.    *)
LEMMA JournalGrows ==
  ASSUME TypeOK, BatchInv, [Next]_vars
  PROVE  /\ Len(journal) \in Nat /\ Len(journal') \in Nat /\ Len(journal) <= Len(journal')
         /\ DOMAIN journal = 1..Len(journal) /\ DOMAIN journal' = 1..Len(journal')
         /\ \A i \in 1..Len(journal) : journal'[i] = journal[i]
         /\ earliest \in Nat /\ earliest' \in Nat /\ earliest <= earliest'
<1>1. Len(journal) \in Nat /\ DOMAIN journal = 1..Len(journal) /\ earliest \in Nat
  BY LenProperties DEF TypeOK
<1>2. CASE UNCHANGED journalVars
  BY <1>1, <1>2 DEF journalVars
<1>3. ASSUME NEW r \in Record, push(r)
      PROVE  /\ Len(journal') \in Nat /\ Len(journal) <= Len(journal') /\ DOMAIN journal' = 1..Len(journal')
             /\ \A i \in 1..Len(journal) : journal'[i] = journal[i]
             /\ earliest' \in Nat /\ earliest <= earliest'
  BY <1>1, <1>3, Push, LenProperties
<1>4. CASE RecordEvent
  <2>1. Head(batch) \in Record
    BY <1>4, HeadTailProperties DEF RecordEvent, BatchInv, TypeOK
  <2> QED  BY <1>1, <1>3, <1>4, <2>1 DEF RecordEvent
<1>5. CASE RecordLog
  <2>1. [kind |-> "other", of |-> NoCall] \in Record
    BY DEF Record, Kinds
  <2> QED  BY <1>1, <1>3, <1>5, <2>1 DEF RecordLog
<1>6. ASSUME NEW w \in Waiters, WaitStep(w) \/ TriggerFails(w) \/ Timeout(w) PROVE UNCHANGED journalVars
  BY <1>6, WaitFrame
<1>7. ASSUME ~RecordEvent, ~RecordLog PROVE UNCHANGED journalVars
  BY <1>6, <1>7 DEF Next, GdbStep, GdbPrints, GdbAnswers, ReaderStep, ReadChunk, Fire, NotifyEvent, NotifyExit,
    ReaderEnds, LogStep, NotifyLog, DrainStep, DrainEarliest, DrainEvents, DrainCursor, vars
<1> QED  BY <1>2, <1>4, <1>5, <1>7

(* What a wait has found stays found: its cursor does not move any more,   *)
(* and what the journal held it holds, or has evicted.                     *)
LEMMA FoundStep == IInv /\ [Next]_vars => FoundIsFirstRetained'
<1> SUFFICES ASSUME TypeOK, BatchInv, FoundIsFirstRetained, [Next]_vars, NEW v \in Waiters, wpc'[v] = "got"
             PROVE  /\ found'[v] \in (after'[v] + 1)..Len(journal') /\ IsStop(journal'[found'[v]])
                    /\ \A s \in (after'[v] + 1)..(found'[v] - 1) : IsStop(journal'[s]) => s < earliest'
  BY DEF IInv, FoundIsFirstRetained, IsStop
<1> DEFINE Goal == /\ found'[v] \in (after'[v] + 1)..Len(journal') /\ IsStop(journal'[found'[v]])
                   /\ \A s \in (after'[v] + 1)..(found'[v] - 1) : IsStop(journal'[s]) => s < earliest'
           First(m) == /\ m \in (after[v] + 1)..Len(journal) /\ IsStop(journal[m])
                       /\ \A s \in (after[v] + 1)..(m - 1) : IsStop(journal[s]) => s < earliest
<1>1. after[v] \in Nat /\ found[v] \in Nat
  BY DEF TypeOK
<1>2. ASSUME found'[v] \in Nat, First(found'[v]), UNCHANGED after[v] PROVE Goal
  <2>1. /\ Len(journal) \in Nat /\ Len(journal') \in Nat /\ Len(journal) <= Len(journal')
        /\ \A i \in 1..Len(journal) : journal'[i] = journal[i]
        /\ earliest \in Nat /\ earliest' \in Nat /\ earliest <= earliest'
    BY JournalGrows
  <2>2. \A i \in (after[v] + 1)..found'[v] : i \in 1..Len(journal) /\ journal'[i] = journal[i]
    BY <1>1, <1>2, <2>1
  <2>3. found'[v] \in (after'[v] + 1)..Len(journal')
    BY <1>1, <1>2, <2>1
  <2>4. IsStop(journal'[found'[v]])
    BY <1>1, <1>2, <2>2, <2>3, found'[v] \in (after[v] + 1)..found'[v]
  <2>5. ASSUME NEW s \in (after'[v] + 1)..(found'[v] - 1), IsStop(journal'[s]) PROVE s < earliest'
    <3>1. s \in (after[v] + 1)..found'[v] /\ s \in (after[v] + 1)..(found'[v] - 1)
      BY <1>1, <1>2, <2>5
    <3>2. IsStop(journal[s])
      BY <2>2, <2>5, <3>1
    <3>3. s < earliest
      BY <1>2, <3>1, <3>2
    <3> QED  BY <1>1, <2>1, <3>1, <3>3
  <2> QED  BY <2>3, <2>4, <2>5
<1>3. ASSUME UNCHANGED <<wpc, after, found>> PROVE Goal
  <2>1. First(found[v])
    BY <1>3 DEF FoundIsFirstRetained
  <2> QED  BY <1>1, <1>2, <1>3, <2>1
<1>4. ASSUME NEW w \in Waiters, WaitStep(w) \/ TriggerFails(w) \/ Timeout(w) PROVE Goal
  <2>1. CASE v # w
    <3>1. UNCHANGED <<after[v], found[v], wpc[v]>>
      BY <1>4, <2>1, WaitFrame DEF Goto, TypeOK
    <3>2. First(found[v])
      BY <3>1 DEF FoundIsFirstRetained
    <3> QED  BY <1>1, <1>2, <3>1, <3>2
  <2>2. CASE v = w
    <3>1. Find(w, "find", "check") \/ Find(w, "refind", "recheck")
      BY <1>4, <2>2 DEF WaitStep, CaptureCursor, SubmitTrigger, TriggerOutcome, Snapshot, LatestStopped,
        NextStopCursor, Find, CheckAlive, Arm, Notified, TriggerFails, Timeout, ReturnStop, Goto, TypeOK
    <3>2. StopsAfter(after[v]) # {} /\ found'[v] = Min(StopsAfter(after[v])) /\ UNCHANGED after[v]
      <4>1. ASSUME StopsAfter(after[w]) = {} PROVE FALSE
        BY <2>2, <3>1, <4>1 DEF Find, Goto, TypeOK
      <4> QED  BY <2>2, <3>1, <4>1 DEF Find, ReturnStop, TypeOK
    <3>3. First(found'[v])
      BY <1>1, <3>2, FirstStop
    <3>4. Len(journal) \in Nat
      BY JournalGrows
    <3>5. found'[v] \in Nat
      BY <1>1, <3>3, <3>4
    <3> QED  BY <1>2, <3>2, <3>3, <3>5
  <2> QED  BY <2>1, <2>2
<1>5. ASSUME ~ \E w \in Waiters : WaitStep(w) \/ TriggerFails(w) \/ Timeout(w) PROVE UNCHANGED waitVars
  BY <1>5 DEF Next, GdbStep, GdbPrints, GdbAnswers, ReaderStep, ReadChunk, Fire, RecordEvent, NotifyEvent, NotifyExit,
    ReaderEnds, LogStep, RecordLog, NotifyLog, DrainStep, DrainEarliest, DrainEvents, DrainCursor, vars
<1> QED  BY <1>3, <1>4, <1>5 DEF waitVars

(* A wait moves its cursor only while none of its records exists, and a    *)
(* record is appended after every cursor.                                  *)
LEMMA PrecedesStep == IInv /\ [Next]_vars => TriggerPrecedesStops'
<1> SUFFICES ASSUME TypeOK, BatchInv, CursorInv, TriggerInv, TriggerPrecedesStops, [Next]_vars,
                    NEW v \in Waiters, NEW s \in DOMAIN journal', journal'[s].of = v
             PROVE  after'[v] < s
  BY DEF IInv, TriggerPrecedesStops
<1>1. /\ Len(journal) \in Nat /\ Len(journal') \in Nat /\ Len(journal) <= Len(journal')
      /\ DOMAIN journal = 1..Len(journal) /\ DOMAIN journal' = 1..Len(journal')
      /\ \A i \in 1..Len(journal) : journal'[i] = journal[i]
  BY JournalGrows
<1>2. after[v] \in Nat /\ after[v] <= Len(journal)
  BY DEF TypeOK, CursorInv
<1>3. ASSUME UNCHANGED after[v] PROVE after'[v] < s
  <2>1. CASE s \in DOMAIN journal
    BY <1>1, <1>3, <2>1 DEF TriggerPrecedesStops
  <2>2. CASE s \notin DOMAIN journal
    BY <1>1, <1>2, <1>3, <2>2
  <2> QED  BY <2>1, <2>2
<1>4. ASSUME NEW w \in Waiters, WaitStep(w) \/ TriggerFails(w) \/ Timeout(w) PROVE after'[v] < s
  <2>1. CASE v # w
    BY <1>3, <1>4, <2>1, WaitFrame
  <2>2. CASE v = w /\ (CaptureCursor(w) \/ NextStopCursor(w))
    <3>1. NotOf(v, journal) /\ UNCHANGED journal
      BY <2>2 DEF TriggerInv, CaptureCursor, NextStopCursor, Early, journalVars
    <3> QED  BY <3>1 DEF NotOf
  <2>3. CASE ~(CaptureCursor(w) \/ NextStopCursor(w))
    BY <1>3, <1>4, <2>3 DEF WaitStep, SubmitTrigger, TriggerOutcome, Snapshot, LatestStopped, Find, CheckAlive, Arm,
      Notified, TriggerFails, Timeout
  <2> QED  BY <2>1, <2>2, <2>3
<1>5. ASSUME ~ \E w \in Waiters : WaitStep(w) \/ TriggerFails(w) \/ Timeout(w) PROVE UNCHANGED waitVars
  BY <1>5 DEF Next, GdbStep, GdbPrints, GdbAnswers, ReaderStep, ReadChunk, Fire, RecordEvent, NotifyEvent, NotifyExit,
    ReaderEnds, LogStep, RecordLog, NotifyLog, DrainStep, DrainEarliest, DrainEvents, DrainCursor, vars
<1> QED  BY <1>3, <1>4, <1>5 DEF waitVars

LEMMA Inductive == Spec => []IInv
<1>1. Init => IInv
  <2> SUFFICES ASSUME Init PROVE IInv
    OBVIOUS
  <2>1. <<>> \in Seq(Record) /\ Len(<<>>) = 0 /\ DOMAIN <<>> = {}
    BY EmptySeq
  <2>2. TypeOK
    BY <2>1, BoundsAssumption DEF Init, TypeOK
  <2>3. BatchInv /\ CursorInv /\ WakeInv /\ DrainInv /\ FoundIsFirstRetained
    BY <2>1 DEF Init, BatchInv, CursorInv, WakeInv, DrainInv, FoundIsFirstRetained
  <2>4. TriggerInv /\ TriggerPrecedesStops
    BY <2>1 DEF Init, TriggerInv, NotOf, TriggerPrecedesStops
  <2> QED  BY <2>2, <2>3, <2>4 DEF IInv
<1>2. IInv /\ [Next]_vars => IInv'
  <2> SUFFICES ASSUME IInv, [Next]_vars PROVE IInv'
    OBVIOUS
  <2>1. TypeOK' /\ BatchInv' /\ CursorInv' /\ WakeInv'
    BY TypeStep, BatchStep, CursorStep, WakeStep
  <2>2. TriggerInv' /\ DrainInv' /\ FoundIsFirstRetained' /\ TriggerPrecedesStops'
    BY TriggerStep, DrainInvStep, FoundStep, PrecedesStep
  <2> QED  BY <2>1, <2>2 DEF IInv
<1> QED  BY <1>1, <1>2, PTL DEF Spec

-----------------------------------------------------------------------------
(* The theorems.                                                           *)

(* Every variable of the event path has the type the code gives it: the    *)
(* oldest event retained and the latest stop are numbers of the journal's. *)
THEOREM TypeCorrect == Spec => []TypeOK
<1>1. IInv => TypeOK
  BY DEF IInv
<1> QED  BY <1>1, Inductive, PTL

(* No wait sleeps through a stop: next_stop_after arms its notification    *)
(* before it looks at the journal again, and notify_waiters comes after    *)
(* the record.                                                             *)
THEOREM NoWakeupIsLost == Spec => []NoLostWakeup
<1>1. IInv => NoLostWakeup
  BY DEF IInv, WakeInv, NoLostWakeup
<1> QED  BY <1>1, Inductive, PTL

(* next_stop_after returns the first stop after its cursor that the        *)
(* journal still has.                                                      *)
THEOREM FoundIsFirst == Spec => []FoundIsFirstRetained
<1>1. IInv => FoundIsFirstRetained
  BY DEF IInv
<1> QED  BY <1>1, Inductive, PTL

(* The cursor of a *-and-wait is captured before its command is submitted, *)
(* so that no stop of the command is at or before it.                      *)
THEOREM TriggerPrecedes == Spec => []TriggerPrecedesStops
<1>1. IInv => TriggerPrecedesStops
  BY DEF IInv
<1> QED  BY <1>1, Inductive, PTL

(* A drain reports every event between its client's cursor and the next    *)
(* one, or says that the journal was truncated.                            *)
THEOREM NoEventIsDrainedAway == Spec => DrainLosesNothing
<1>1. IInv /\ [Next]_vars =>
        [\A s \in (from + 1)..from' : journal[s].of = NoCall => s \in taken \/ (truncated /\ s < oldest)]_vars
  <2> SUFFICES ASSUME IInv, [Next]_vars, NEW s \in (from + 1)..from', journal[s].of = NoCall
               PROVE  s \in taken \/ (truncated /\ s < oldest)
    OBVIOUS
  <2>1. from \in Nat /\ Len(journal) \in Nat /\ earliest \in Nat /\ earliest >= 1
    BY LenProperties DEF IInv, TypeOK
  <2>2. from' # from
    BY <2>1
  <2>3. DrainCursor
    <3>1. ASSUME NEW w \in Waiters, WaitStep(w) \/ TriggerFails(w) \/ Timeout(w) PROVE FALSE
      BY <2>2, <3>1, WaitFrame DEF IInv, drainVars
    <3> QED  BY <2>2, <3>1 DEF Next, GdbStep, GdbPrints, GdbAnswers, ReaderStep, ReadChunk, Fire, RecordEvent,
               NotifyEvent, NotifyExit, ReaderEnds, LogStep, RecordLog, NotifyLog, DrainStep, DrainEarliest,
               DrainEvents, drainVars, vars
  <2>4. s \in (from + 1)..Len(journal)
    BY <2>3 DEF DrainCursor, cursor
  <2>5. taken = {i \in Retained : i > from /\ journal[i].of = NoCall} /\ oldest = IF journal = <<>> THEN 0 ELSE earliest
    BY <2>3 DEF DrainCursor, IInv, DrainInv
  <2>6. CASE s >= earliest
    BY <2>1, <2>4, <2>5, <2>6 DEF Retained
  <2>7. CASE s < earliest
    <3>1. journal # <<>>
      BY <2>1, <2>4, EmptySeq
    <3> QED  BY <2>1, <2>4, <2>5, <2>7, <3>1 DEF truncated
  <2> QED  BY <2>1, <2>4, <2>6, <2>7
<1> QED  BY <1>1, Inductive, PTL DEF Spec, DrainLosesNothing
=============================================================================
