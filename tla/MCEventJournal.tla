--------------------------- MODULE MCEventJournal ---------------------------
(* EventJournal for TLC: one wait.                                         *)
EXTENDS EventJournal
CONSTANTS w1,
          WaitRecords   \* bound on the records GDB prints of itself beside the wait
OneWait == {w1}

(* The wait and the drains only read the journal, and neither sees the     *)
(* other: a behaviour has one or the other.  With drains GDB may print all *)
(* of MaxRecords, with the wait WaitRecords of them.  No step that the     *)
(* fairness asks for is held back once the wait has begun.                 *)
OneClient ==
  \/ \A w \in Waiters : wpc[w] = "start"
  \/ drains = 0 /\ MaxRecords - budget <= WaitRecords

MCSpec == Init /\ [][Next /\ OneClient']_vars /\ Fairness
=============================================================================
