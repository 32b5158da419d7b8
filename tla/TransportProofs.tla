--------------------------- MODULE TransportProofs ---------------------------
(***************************************************************************)
(* Proofs about Transport, for every set of calls and outcomes, every      *)
(* capacity and either runtime.                                            *)
(***************************************************************************)
EXTENDS Transport, SequenceTheorems, TLAPS

(* A suffix or a prefix of a sequence over S is a sequence over S.         *)
LEMMA SubSeqInSeq ==
  ASSUME NEW S, NEW s \in Seq(S), NEW n \in 0..Len(s)
  PROVE  /\ SubSeq(s, 1, n) \in Seq(S)
         /\ SubSeq(s, n + 1, Len(s)) \in Seq(S)
<1>1. Len(s) \in Nat /\ \A i \in 1..Len(s) : s[i] \in S
  BY LenProperties
<1>2. /\ \A i \in 1..n : s[i] \in S
      /\ \A i \in (n + 1)..Len(s) : s[i] \in S
  BY <1>1
<1>3. SubSeq(s, 1, n) \in Seq(S)
  BY <1>1, <1>2, SubSeqProperties
<1>4. SubSeq(s, n + 1, Len(s)) \in Seq(S)
  BY <1>1, <1>2, SubSeqProperties
<1> QED
  BY <1>3, <1>4

(* The tail of a sequence is empty when the sequence has one element.      *)
LEMMA TailEmpty ==
  ASSUME NEW S, NEW s \in Seq(S), s # <<>>
  PROVE  Len(s) = 1 <=> Tail(s) = <<>>
<1>1. Len(s) \in Nat /\ Tail(s) \in Seq(S) /\ Len(Tail(s)) = Len(s) - 1
  BY HeadTailProperties, LenProperties
<1>2. Len(Tail(s)) = 0 <=> Tail(s) = <<>>
  BY <1>1, EmptySeq
<1> QED
  BY <1>1, <1>2

(* The records of a chunk that was read are not none.                      *)
LEMMA SubSeqNonEmpty ==
  ASSUME NEW S, NEW s \in Seq(S), NEW n \in 1..Len(s)
  PROVE  SubSeq(s, 1, n) # <<>>
<1>1. Len(s) \in Nat /\ \A i \in 1..n : s[i] \in S
  BY LenProperties
<1>2. Len(SubSeq(s, 1, n)) = n
  BY <1>1, SubSeqProperties
<1> QED
  BY <1>2, EmptySeq

(* What a queue holds after an append, a take and a read of a chunk.       *)
LEMMA RangeAppend ==
  ASSUME NEW S, NEW s \in Seq(S), NEW e \in S
  PROVE  Range(Append(s, e)) = Range(s) \cup {e}
<1>1. /\ Len(s) \in Nat /\ DOMAIN s = 1..Len(s)
      /\ DOMAIN Append(s, e) = 1..(Len(s) + 1)
      /\ \A i \in 1..Len(s) : Append(s, e)[i] = s[i]
      /\ Append(s, e)[Len(s) + 1] = e
  BY AppendProperties, LenProperties
<1> QED
  BY <1>1 DEF Range

LEMMA RangeTail ==
  ASSUME NEW S, NEW s \in Seq(S), s # <<>>
  PROVE  Range(s) = {Head(s)} \cup Range(Tail(s))
<1>1. /\ Len(s) \in Nat \ {0} /\ DOMAIN s = 1..Len(s)
      /\ DOMAIN Tail(s) = 1..(Len(s) - 1)
      /\ \A i \in 1..(Len(s) - 1) : Tail(s)[i] = s[i + 1]
      /\ Head(s) = s[1]
  BY HeadTailProperties, LenProperties, EmptySeq
<1>2. \A i \in DOMAIN s : i = 1 \/ (i - 1 \in DOMAIN Tail(s) /\ Tail(s)[i - 1] = s[i])
  BY <1>1
<1>3. \A i \in DOMAIN Tail(s) : i + 1 \in DOMAIN s /\ Tail(s)[i] = s[i + 1]
  BY <1>1
<1>4. Range(s) \subseteq {Head(s)} \cup Range(Tail(s))
  BY <1>1, <1>2 DEF Range
<1>5. Range(Tail(s)) \subseteq Range(s)
  BY <1>3 DEF Range
<1>6. Head(s) \in Range(s)
  BY <1>1 DEF Range
<1> QED
  BY <1>4, <1>5, <1>6

LEMMA TokensAppend ==
  ASSUME NEW s \in Seq(Record), NEW r \in Record
  PROVE  TokensOf(Append(s, r)) = TokensOf(s) \cup {r.token}
<1>1. /\ Len(s) \in Nat /\ DOMAIN s = 1..Len(s)
      /\ DOMAIN Append(s, r) = 1..(Len(s) + 1)
      /\ \A i \in 1..Len(s) : Append(s, r)[i] = s[i]
      /\ Append(s, r)[Len(s) + 1] = r
  BY AppendProperties, LenProperties
<1> QED
  BY <1>1 DEF TokensOf

LEMMA TokensTail ==
  ASSUME NEW s \in Seq(Record), s # <<>>
  PROVE  TokensOf(s) = {Head(s).token} \cup TokensOf(Tail(s))
<1>1. /\ Len(s) \in Nat \ {0} /\ DOMAIN s = 1..Len(s)
      /\ DOMAIN Tail(s) = 1..(Len(s) - 1)
      /\ \A i \in 1..(Len(s) - 1) : Tail(s)[i] = s[i + 1]
      /\ Head(s) = s[1]
  BY HeadTailProperties, LenProperties, EmptySeq
<1>2. \A i \in DOMAIN s : i = 1 \/ (i - 1 \in DOMAIN Tail(s) /\ Tail(s)[i - 1] = s[i])
  BY <1>1
<1>3. \A i \in DOMAIN Tail(s) : i + 1 \in DOMAIN s /\ Tail(s)[i] = s[i + 1]
  BY <1>1
<1>4. ASSUME NEW i \in DOMAIN s
      PROVE  s[i].token \in {Head(s).token} \cup TokensOf(Tail(s))
  <2>1. CASE i = 1
    BY <1>1, <2>1
  <2>2. CASE i - 1 \in DOMAIN Tail(s) /\ Tail(s)[i - 1] = s[i]
    BY <2>2 DEF TokensOf
  <2> QED
    BY <1>2, <2>1, <2>2
<1>5. TokensOf(Tail(s)) \subseteq TokensOf(s)
  BY <1>3 DEF TokensOf
<1>6. Head(s).token \in TokensOf(s)
  BY <1>1 DEF TokensOf
<1> QED
  BY <1>4, <1>5, <1>6 DEF TokensOf

(* The two parts of a sequence cut after n elements.                       *)
LEMMA CutElements ==
  ASSUME NEW S, NEW s \in Seq(S), NEW n \in 0..Len(s)
  PROVE  /\ DOMAIN s = 1..Len(s) /\ Len(s) \in Nat
         /\ DOMAIN SubSeq(s, 1, n) = 1..n
         /\ \A i \in 1..n : SubSeq(s, 1, n)[i] = s[i]
         /\ DOMAIN SubSeq(s, n + 1, Len(s)) = 1..(Len(s) - n)
         /\ \A i \in 1..(Len(s) - n) : SubSeq(s, n + 1, Len(s))[i] = s[n + i]
<1>1. /\ Len(s) \in Nat /\ DOMAIN s = 1..Len(s)
      /\ \A i \in 1..Len(s) : s[i] \in S
  BY LenProperties
<1>2. /\ \A i \in 1..n : s[i] \in S
      /\ \A i \in (n + 1)..Len(s) : s[i] \in S
  BY <1>1
<1>3. /\ SubSeq(s, 1, n) \in Seq(S) /\ Len(SubSeq(s, 1, n)) = n
      /\ \A i \in 1..n : SubSeq(s, 1, n)[i] = s[i]
  BY <1>1, <1>2, SubSeqProperties
<1>4. /\ SubSeq(s, n + 1, Len(s)) \in Seq(S)
      /\ Len(SubSeq(s, n + 1, Len(s))) = Len(s) - n
      /\ \A i \in 1..(Len(s) - n) : SubSeq(s, n + 1, Len(s))[i] = s[n + i]
  <2> DEFINE q == SubSeq(s, n + 1, Len(s))
  <2>1. /\ q \in Seq(S)
        /\ Len(q) = IF n + 1 <= Len(s) THEN Len(s) - (n + 1) + 1 ELSE 0
        /\ \A i \in 1..(Len(s) - (n + 1) + 1) : q[i] = s[(n + 1) + i - 1]
    BY <1>1, <1>2, SubSeqProperties
  <2> HIDE DEF q
  <2>2. Len(q) = Len(s) - n
    <3>1. n \in Nat /\ Len(s) \in Nat /\ n <= Len(s)
      BY <1>1
    <3>2. CASE n < Len(s)
      BY <2>1, <3>1, <3>2
    <3>3. CASE n = Len(s)
      BY <2>1, <3>1, <3>3
    <3> QED
      BY <3>1, <3>2, <3>3
  <2>3. ASSUME NEW i \in 1..(Len(s) - n)
        PROVE  q[i] = s[n + i]
    <3>1. i \in 1..(Len(s) - (n + 1) + 1) /\ (n + 1) + i - 1 = n + i
      BY <1>1
    <3> QED
      BY <2>1, <3>1
  <2> QED
    BY <2>1, <2>2, <2>3 DEF q
<1> QED
  BY <1>1, <1>3, <1>4, LenProperties

LEMMA TokensCut ==
  ASSUME NEW s \in Seq(Record), NEW n \in 0..Len(s)
  PROVE  TokensOf(s) = TokensOf(SubSeq(s, 1, n)) \cup TokensOf(SubSeq(s, n + 1, Len(s)))
<1> DEFINE p == SubSeq(s, 1, n)
           q == SubSeq(s, n + 1, Len(s))
<1>1. /\ DOMAIN s = 1..Len(s) /\ Len(s) \in Nat
      /\ DOMAIN p = 1..n /\ \A i \in 1..n : p[i] = s[i]
      /\ DOMAIN q = 1..(Len(s) - n) /\ \A i \in 1..(Len(s) - n) : q[i] = s[n + i]
  BY CutElements
<1> HIDE DEF p, q
<1>2. \A i \in DOMAIN s : (i \in DOMAIN p /\ p[i] = s[i]) \/ (i - n \in DOMAIN q /\ q[i - n] = s[i])
  BY <1>1
<1>3. /\ \A i \in DOMAIN p : i \in DOMAIN s /\ p[i] = s[i]
      /\ \A i \in DOMAIN q : n + i \in DOMAIN s /\ q[i] = s[n + i]
  BY <1>1
<1>4. TokensOf(s) = TokensOf(p) \cup TokensOf(q)
  BY <1>2, <1>3 DEF TokensOf
<1> QED
  BY <1>4 DEF p, q

(* Every step keeps the types.                                             *)
LEMMA TypeStep ==
  ASSUME TypeOK, EventsInv, [Next]_vars PROVE TypeOK'
<1> USE DEF TypeOK, callVars, connVars, readerVars, writerVars, gdbVars
<1>1. CASE UNCHANGED vars
  BY <1>1 DEF vars
<1>P. ASSUME NEW c \in Calls,
             NEW p \in {"submit", "parked", "rollback", "done"},
             NEW r \in {"none", "outcome", "exited", "cancelled"},
             pc' = [pc EXCEPT ![c] = p],
             ret' = ret \/ ret' = [ret EXCEPT ![c] = r],
             UNCHANGED <<tok, slot, value, connVars, pending, readerVars, writerVars, gdbVars, shutdown>>
      PROVE  TypeOK'
  <2>1. /\ pc' \in [Calls -> {"idle", "submit", "register", "send", "parked", "await", "rollback", "done"}]
        /\ ret' \in [Calls -> {"none", "outcome", "exited", "cancelled"}]
    BY <1>P
  <2> QED
    BY <1>P, <2>1
<1>2. ASSUME NEW c \in Calls, SubmitRefused(c) PROVE TypeOK'
  BY <1>2, <1>P DEF SubmitRefused, Return, Goto
<1>3. ASSUME NEW c \in Calls, SubmitBegin(c) PROVE TypeOK'
  BY <1>3, <1>P DEF SubmitBegin, Goto
<1>4. ASSUME NEW c \in Calls, ConnectionSubmit(c) PROVE TypeOK'
  <2>1. nextToken + 1 \in Nat \ {0} /\ connPending \cup {nextToken} \subseteq Nat
    OBVIOUS
  <2> QED
    BY <1>4, <2>1 DEF ConnectionSubmit, Goto
<1>5. ASSUME NEW c \in Calls, RegisterPending(c) PROVE TypeOK'
  BY <1>5 DEF RegisterPending, Goto, With
<1>6. ASSUME NEW c \in Calls, Send(c) PROVE TypeOK'
  <2>1. Append(outq, tok[c]) \in Seq(Nat)
    BY AppendProperties
  <2> QED
    BY <1>6, <2>1 DEF Send, Goto
<1>7. ASSUME NEW c \in Calls, Park(c) PROVE TypeOK'
  BY <1>7, <1>P DEF Park, Goto
<1>8. ASSUME NEW c \in Calls, SendClosed(c) PROVE TypeOK'
  BY <1>8, <1>P DEF SendClosed, Goto
<1>9. ASSUME NEW c \in Calls, Rollback(c) PROVE TypeOK'
  <2>1. /\ pc' \in [Calls -> {"idle", "submit", "register", "send", "parked", "await", "rollback", "done"}]
        /\ ret' \in [Calls -> {"none", "outcome", "exited", "cancelled"}]
        /\ slot' \in [Calls -> {"unmade", "open", "fired", "dropped"}]
    BY <1>9 DEF Rollback, Return, Goto
  <2>2. DOMAIN pending' \subseteq Nat /\ pending' \in [DOMAIN pending' -> Calls]
    BY <1>9 DEF Rollback, Without
  <2> QED
    BY <1>9, <2>1, <2>2 DEF Rollback
<1>10. ASSUME NEW c \in Calls, Receive(c) PROVE TypeOK'
  <2>1. CASE slot[c] = "fired" /\ Return(c, "outcome")
    BY <1>10, <2>1, <1>P DEF Receive, Return, Goto
  <2>2. CASE slot[c] = "dropped" /\ Return(c, "exited")
    BY <1>10, <2>2, <1>P DEF Receive, Return, Goto
  <2> QED
    BY <1>10, <2>1, <2>2 DEF Receive
<1>11. ASSUME NEW c \in Calls, Cancel(c) PROVE TypeOK'
  BY <1>11, <1>P DEF Cancel, Return, Goto
<1>12. ASSUME NEW n \in 1..Len(stdout), ReadChunk(n) PROVE TypeOK'
  <2>1. /\ SubSeq(stdout, 1, n) \in Seq(Record)
        /\ SubSeq(stdout, n + 1, Len(stdout)) \in Seq(Record)
    BY SubSeqInSeq
  <2> QED
    BY <1>12, <2>1 DEF ReadChunk
<1>13. ASSUME NEW n \in 0..Len(stdout), ReadFails(n) PROVE TypeOK'
  <2>1. SubSeq(stdout, n + 1, Len(stdout)) \in Seq(Record)
    BY SubSeqInSeq
  <2> QED
    BY <1>13, <2>1 DEF ReadFails
<1>14. CASE ReadEof
  BY <1>14 DEF ReadEof
<1>15. CASE Dispatch
  <2>1. events # <<>> /\ Head(events) \in Record /\ Tail(events) \in Seq(Record)
    BY <1>15, HeadTailProperties DEF Dispatch, EventsInv
  <2>2. <<Head(events)>> \in Seq(Record)
    BY <2>1
  <2>3. CASE Head(events).token \in DOMAIN pending
    <3>1. pending[Head(events).token] \in Calls
      BY <2>3
    <3>2. /\ slot' \in [Calls -> {"unmade", "open", "fired", "dropped"}]
          /\ value' \in [Calls -> Seq(Record)]
      BY <1>15, <2>2, <2>3, <3>1 DEF Dispatch
    <3>3. DOMAIN pending' \subseteq Nat /\ pending' \in [DOMAIN pending' -> Calls]
      BY <1>15, <2>3 DEF Dispatch, Without
    <3> QED
      BY <1>15, <2>1, <3>2, <3>3 DEF Dispatch
  <2>4. CASE Head(events).token \notin DOMAIN pending
    BY <1>15, <2>1, <2>4 DEF Dispatch
  <2> QED
    BY <2>3, <2>4
<1>16. CASE MarkReaderExited
  BY <1>16 DEF MarkReaderExited
<1>17. CASE DrainPending
  BY <1>17 DEF DrainPending, NoEntries
<1>18. CASE WriterRecv
  <2>1. Head(outq) \in Nat /\ Tail(outq) \in Seq(Nat)
    BY <1>18, HeadTailProperties DEF WriterRecv
  <2> QED
    BY <1>18, <2>1 DEF WriterRecv
<1>19. CASE WriterWrite
  <2>1. Append(stdin, writing) \in Seq(Nat)
    BY AppendProperties
  <2> QED
    BY <1>19, <2>1 DEF WriterWrite
<1>20. CASE WriterFails
  <2>1. <<>> \in Seq(Nat)
    BY EmptySeq
  <2> QED
    BY <1>20, <2>1 DEF WriterFails
<1>21. CASE WriterEnds
  BY <1>21 DEF WriterEnds
<1>22. CASE GdbExit
  BY <1>22 DEF GdbExit
<1>23. CASE StdoutCloses
  BY <1>23 DEF StdoutCloses
<1>24. CASE BeginShutdown
  BY <1>24 DEF BeginShutdown
<1>25. CASE QuitReturned
  BY <1>25 DEF QuitReturned
<1>26. CASE ChildWaited
  BY <1>26 DEF ChildWaited
<1>27. CASE TasksJoined
  BY <1>27 DEF TasksJoined
<1>28. ASSUME NEW o \in Outcomes, GdbServe(o) PROVE TypeOK'
  <2>1. Head(stdin) \in Nat /\ Tail(stdin) \in Seq(Nat)
    BY <1>28, HeadTailProperties DEF GdbServe
  <2>2. [token |-> Head(stdin), outcome |-> o] \in Record
    BY <2>1 DEF Record
  <2>3. Append(stdout, [token |-> Head(stdin), outcome |-> o]) \in Seq(Record)
    BY <2>2, AppendProperties
  <2>4. DOMAIN answered' \subseteq Nat /\ answered' \in [DOMAIN answered' -> Outcomes]
    BY <1>28, <2>1 DEF GdbServe, With
  <2> QED
    BY <1>28, <2>1, <2>3, <2>4 DEF GdbServe
<1>29. ASSUME NEW t \in DOMAIN answered, NEW o \in Outcomes, GdbRepeat(t, o) PROVE TypeOK'
  <2>1. [token |-> t, outcome |-> o] \in Record
    BY DEF Record
  <2>2. Append(stdout, [token |-> t, outcome |-> o]) \in Seq(Record)
    BY <2>1, AppendProperties
  <2>3. /\ stdout' \in Seq(Record) /\ extra' \in Nat
        /\ UNCHANGED <<callVars, connVars, pending, readerVars, writerVars, stdin, gdb, eof,
                       answered, shutdown>>
    BY <1>29, <2>2 DEF GdbRepeat
  <2> QED
    BY <2>3
<1> QED
  BY <1>1, <1>2, <1>3, <1>4, <1>5, <1>6, <1>7, <1>8, <1>9, <1>10, <1>11,
     <1>12, <1>13, <1>14, <1>15, <1>16, <1>17, <1>18, <1>19, <1>20, <1>21,
     <1>22, <1>23, <1>24, <1>25, <1>26, <1>27, <1>28, <1>29
  DEF Next, CallStep, ReaderStep, WriterStep, GdbStep, ShutdownStep, Terminated

(* Every step keeps EventsInv.                                             *)
LEMMA EventsStep ==
  ASSUME TypeOK, EventsInv, [Next]_vars PROVE EventsInv'
<1> USE DEF EventsInv, callVars, connVars, readerVars, writerVars, gdbVars
<1>1. ASSUME NEW n \in 1..Len(stdout), ReadChunk(n) PROVE EventsInv'
  <2>1. SubSeq(stdout, 1, n) # <<>>
    BY SubSeqNonEmpty DEF TypeOK
  <2> QED
    BY <1>1, <2>1 DEF ReadChunk
<1>2. ASSUME NEW n \in 0..Len(stdout), ReadFails(n) PROVE EventsInv'
  BY <1>2 DEF ReadFails
<1>3. CASE ReadEof
  BY <1>3 DEF ReadEof
<1>4. CASE Dispatch
  <2>1. events # <<>> /\ events \in Seq(Record)
    BY <1>4 DEF Dispatch, TypeOK
  <2>2. Len(events) = 1 <=> Tail(events) = <<>>
    BY <2>1, TailEmpty
  <2> QED
    BY <1>4, <2>2 DEF Dispatch
<1>5. CASE MarkReaderExited
  BY <1>5 DEF MarkReaderExited
<1>6. CASE DrainPending
  BY <1>6 DEF DrainPending, NoEntries
<1>7. CASE UNCHANGED <<reader, events>>
  BY <1>7
<1> QED
  BY <1>1, <1>2, <1>3, <1>4, <1>5, <1>6, <1>7
  DEF Next, CallStep, ReaderStep, WriterStep, GdbStep, ShutdownStep,
      Terminated, vars, SubmitRefused, SubmitBegin, ConnectionSubmit,
      RegisterPending, Send, Park, SendClosed, Rollback, Receive, Cancel,
      WriterRecv, WriterWrite, WriterFails, WriterEnds, GdbExit, StdoutCloses,
      BeginShutdown, QuitReturned, ChildWaited, TasksJoined, GdbServe,
      GdbRepeat, MayCall, Return, Goto

(* Every step keeps DropInv.                                               *)
LEMMA DropStep ==
  ASSUME TypeOK, MapInv, DropInv, [Next]_vars PROVE DropInv'
<1> USE DEF DropInv, TypeOK, MapInv, callVars, connVars, readerVars,
            writerVars, gdbVars
<1>1. ASSUME NEW c \in Calls, SubmitRefused(c) PROVE DropInv'
  BY <1>1 DEF SubmitRefused, MayCall, Return, Goto
<1>2. ASSUME NEW c \in Calls, SubmitBegin(c) PROVE DropInv'
  BY <1>2 DEF SubmitBegin, MayCall, Goto
<1>3. ASSUME NEW c \in Calls, ConnectionSubmit(c) PROVE DropInv'
  BY <1>3 DEF ConnectionSubmit, Goto
<1>4. ASSUME NEW c \in Calls, RegisterPending(c) PROVE DropInv'
  BY <1>4 DEF RegisterPending, Goto, With
<1>5. ASSUME NEW c \in Calls, Send(c) PROVE DropInv'
  BY <1>5 DEF Send, AtSend, Goto
<1>6. ASSUME NEW c \in Calls, Park(c) PROVE DropInv'
  BY <1>6 DEF Park, Goto
<1>7. ASSUME NEW c \in Calls, SendClosed(c) PROVE DropInv'
  BY <1>7 DEF SendClosed, AtSend, Goto
<1>8. ASSUME NEW c \in Calls, Rollback(c) PROVE DropInv'
  BY <1>8 DEF Rollback, Return, Goto, Without
<1>9. ASSUME NEW c \in Calls, Receive(c) PROVE DropInv'
  BY <1>9 DEF Receive, Return, Goto
<1>10. ASSUME NEW c \in Calls, Cancel(c) PROVE DropInv'
  BY <1>10 DEF Cancel, Return, Goto
<1>11. ASSUME NEW n \in 1..Len(stdout), ReadChunk(n) PROVE DropInv'
  BY <1>11 DEF ReadChunk
<1>12. ASSUME NEW n \in 0..Len(stdout), ReadFails(n) PROVE DropInv'
  BY <1>12 DEF ReadFails
<1>13. CASE ReadEof
  BY <1>13 DEF ReadEof
<1>14. CASE Dispatch
  BY <1>14, SMTT(30) DEF Dispatch, Without
<1>15. CASE MarkReaderExited
  BY <1>15 DEF MarkReaderExited
<1>16. CASE DrainPending
  BY <1>16 DEF DrainPending, NoEntries
<1>17. CASE WriterRecv
  BY <1>17 DEF WriterRecv
<1>18. CASE WriterWrite
  BY <1>18 DEF WriterWrite
<1>19. CASE WriterFails
  BY <1>19 DEF WriterFails
<1>20. CASE WriterEnds
  BY <1>20 DEF WriterEnds
<1>21. CASE UNCHANGED <<pc, slot, alive, reader, writer>>
  BY <1>21
<1> QED
  BY <1>1, <1>2, <1>3, <1>4, <1>5, <1>6, <1>7, <1>8, <1>9, <1>10, <1>11,
     <1>12, <1>13, <1>14, <1>15, <1>16, <1>17, <1>18, <1>19, <1>20, <1>21
  DEF Next, CallStep, ReaderStep, WriterStep, GdbStep, ShutdownStep,
      Terminated, vars, GdbExit, StdoutCloses, BeginShutdown, QuitReturned,
      ChildWaited, TasksJoined, GdbServe, GdbRepeat

(* Every step keeps ExitedIsFinal.                                         *)
LEMMA ExitedStep ==
  ASSUME TypeOK, DropInv, ExitedIsFinal, [Next]_vars PROVE ExitedIsFinal'
<1> USE DEF ExitedIsFinal, DropInv, TypeOK, callVars, connVars, readerVars,
            writerVars, gdbVars
<1>1. ASSUME NEW c \in Calls, SubmitRefused(c) PROVE ExitedIsFinal'
  BY <1>1 DEF SubmitRefused, MayCall, Return, Goto
<1>2. ASSUME NEW c \in Calls, Rollback(c) PROVE ExitedIsFinal'
  BY <1>2 DEF Rollback, Return, Goto, Without
<1>3. ASSUME NEW c \in Calls, Receive(c) PROVE ExitedIsFinal'
  BY <1>3 DEF Receive, Return, Goto
<1>4. ASSUME NEW c \in Calls, Cancel(c) PROVE ExitedIsFinal'
  BY <1>4 DEF Cancel, Return, Goto
<1>5. CASE MarkReaderExited
  BY <1>5 DEF MarkReaderExited
<1>6. CASE WriterRecv
  BY <1>6 DEF WriterRecv
<1>7. CASE WriterWrite
  BY <1>7 DEF WriterWrite
<1>8. CASE WriterFails
  BY <1>8 DEF WriterFails
<1>9. CASE WriterEnds
  BY <1>9 DEF WriterEnds
<1>10. CASE UNCHANGED <<ret, alive, writer>>
  BY <1>10
<1> QED
  BY <1>1, <1>2, <1>3, <1>4, <1>5, <1>6, <1>7, <1>8, <1>9, <1>10
  DEF Next, CallStep, ReaderStep, WriterStep, GdbStep, ShutdownStep,
      Terminated, vars, SubmitBegin, ConnectionSubmit, RegisterPending, Send,
      Park, SendClosed, ReadChunk, ReadFails, ReadEof, Dispatch, DrainPending,
      GdbExit, StdoutCloses, BeginShutdown, QuitReturned, ChildWaited,
      TasksJoined, GdbServe, GdbRepeat, MayCall, Goto

(* Every step keeps PollInv.                                               *)
LEMMA PollStep ==
  ASSUME TypeOK, DropInv, MapInv, PollInv, [Next]_vars PROVE PollInv'
<1> USE DEF PollInv, RuntimeFree, CallMidPoll, ReaderMidPoll, DropInv, MapInv,
            TypeOK, callVars, connVars, readerVars, writerVars, gdbVars
<1>1. ASSUME NEW c \in Calls, SubmitRefused(c) PROVE PollInv'
  BY <1>1 DEF SubmitRefused, MayCall, Return, Goto
<1>2. ASSUME NEW c \in Calls, SubmitBegin(c) PROVE PollInv'
  BY <1>2 DEF SubmitBegin, MayCall, Goto
<1>3. ASSUME NEW c \in Calls, ConnectionSubmit(c) PROVE PollInv'
  BY <1>3 DEF ConnectionSubmit, Goto
<1>4. ASSUME NEW c \in Calls, RegisterPending(c) PROVE PollInv'
  BY <1>4 DEF RegisterPending, Goto, With
<1>5. ASSUME NEW c \in Calls, Send(c) PROVE PollInv'
  BY <1>5 DEF Send, AtSend, Goto
<1>6. ASSUME NEW c \in Calls, Park(c) PROVE PollInv'
  BY <1>6 DEF Park, Goto
<1>7. ASSUME NEW c \in Calls, SendClosed(c) PROVE PollInv'
  BY <1>7 DEF SendClosed, AtSend, Goto
<1>8. ASSUME NEW c \in Calls, Rollback(c) PROVE PollInv'
  BY <1>8 DEF Rollback, Return, Goto, Without
<1>9. ASSUME NEW c \in Calls, Receive(c) PROVE PollInv'
  BY <1>9 DEF Receive, Return, Goto
<1>10. ASSUME NEW c \in Calls, Cancel(c) PROVE PollInv'
  BY <1>10 DEF Cancel, Return, Goto
<1>11. ASSUME NEW n \in 1..Len(stdout), ReadChunk(n) PROVE PollInv'
  BY <1>11 DEF ReadChunk
<1>12. ASSUME NEW n \in 0..Len(stdout), ReadFails(n) PROVE PollInv'
  BY <1>12 DEF ReadFails
<1>13. CASE ReadEof
  BY <1>13 DEF ReadEof
<1>14. CASE Dispatch
  BY <1>14, SMTT(30) DEF Dispatch, Without
<1>15. CASE MarkReaderExited
  BY <1>15 DEF MarkReaderExited
<1>16. CASE DrainPending
  BY <1>16 DEF DrainPending, NoEntries
<1>17. CASE UNCHANGED <<pc, slot, reader>>
  BY <1>17
<1> QED
  BY <1>1, <1>2, <1>3, <1>4, <1>5, <1>6, <1>7, <1>8, <1>9, <1>10, <1>11,
     <1>12, <1>13, <1>14, <1>15, <1>16, <1>17
  DEF Next, CallStep, ReaderStep, WriterStep, GdbStep, ShutdownStep,
      Terminated, vars, WriterRecv, WriterWrite, WriterFails, WriterEnds,
      GdbExit, StdoutCloses, BeginShutdown, QuitReturned, ChildWaited,
      TasksJoined, GdbServe, GdbRepeat

(* Every step keeps MapInv.                                                *)
LEMMA MapStep ==
  ASSUME TypeOK, EventsInv, TokenInv, MapInv, [Next]_vars PROVE MapInv'
<1> USE DEF MapInv, TokenInv, TypeOK, callVars, connVars, readerVars,
            writerVars, gdbVars
<1>1. ASSUME NEW c \in Calls, SubmitRefused(c) PROVE MapInv'
  BY <1>1 DEF SubmitRefused, MayCall, Return, Goto
<1>2. ASSUME NEW c \in Calls, SubmitBegin(c) PROVE MapInv'
  BY <1>2 DEF SubmitBegin, MayCall, Goto
<1>3. ASSUME NEW c \in Calls, ConnectionSubmit(c) PROVE MapInv'
  BY <1>3 DEF ConnectionSubmit, Goto
<1>4. ASSUME NEW c \in Calls, RegisterPending(c) PROVE MapInv'
  BY <1>4 DEF RegisterPending, Goto, With
<1>5. ASSUME NEW c \in Calls, Send(c) PROVE MapInv'
  BY <1>5 DEF Send, AtSend, Goto
<1>6. ASSUME NEW c \in Calls, Park(c) PROVE MapInv'
  BY <1>6 DEF Park, Goto
<1>7. ASSUME NEW c \in Calls, SendClosed(c) PROVE MapInv'
  BY <1>7 DEF SendClosed, AtSend, Goto
<1>8. ASSUME NEW c \in Calls, Rollback(c) PROVE MapInv'
  BY <1>8 DEF Rollback, Return, Goto, Without
<1>9. ASSUME NEW c \in Calls, Receive(c) PROVE MapInv'
  BY <1>9 DEF Receive, Return, Goto
<1>10. ASSUME NEW c \in Calls, Cancel(c) PROVE MapInv'
  BY <1>10 DEF Cancel, Return, Goto
<1>11. CASE Dispatch
  <2>1. CASE Head(events).token \in DOMAIN pending
    <3> DEFINE t == Head(events).token
               d == pending[t]
    <3>1. d \in Calls /\ tok[d] = t /\ pending[t] = d /\ t \in DOMAIN pending
      BY <2>1
    <3>2. /\ pending' = Without(pending, t)
          /\ slot' = [slot EXCEPT ![d] = "fired"]
          /\ UNCHANGED <<pc, tok>>
      BY <1>11, <2>1 DEF Dispatch
    <3> HIDE DEF t, d
    <3> QED
      BY <3>1, <3>2 DEF Without
  <2>2. CASE Head(events).token \notin DOMAIN pending
    BY <1>11, <2>2 DEF Dispatch
  <2> QED
    BY <2>1, <2>2
<1>12. CASE DrainPending
  BY <1>12 DEF DrainPending, NoEntries
<1>13. CASE UNCHANGED <<pc, tok, slot, pending>>
  BY <1>13
<1> QED
  BY <1>1, <1>2, <1>3, <1>4, <1>5, <1>6, <1>7, <1>8, <1>9, <1>10, <1>11,
     <1>12, <1>13
  DEF Next, CallStep, ReaderStep, WriterStep, GdbStep, ShutdownStep,
      Terminated, vars, ReadChunk, ReadFails, ReadEof, MarkReaderExited,
      WriterRecv, WriterWrite, WriterFails, WriterEnds, GdbExit, StdoutCloses,
      BeginShutdown, QuitReturned, ChildWaited, TasksJoined, GdbServe,
      GdbRepeat

(* Only Send makes a token one of those that have left submit.             *)
LEMMA SentStep ==
  ASSUME TypeOK, EventsInv, [Next]_vars
  PROVE  \A t \in Sent' :
           \/ t \in Sent \/ t = 0
           \/ \E c \in Calls : t = tok[c] /\ pc[c] \in {"send", "parked"} /\ pc'[c] = "await"
<1> USE DEF Sent, callVars, connVars, readerVars, writerVars, gdbVars
<1>1. ASSUME NEW c \in Calls, Send(c)
      PROVE  Sent' \subseteq Sent \cup {tok[c]}
  <2>1. Range(outq') = Range(outq) \cup {tok[c]}
    <3>1. outq \in Seq(Nat) /\ tok[c] \in Nat
      BY DEF TypeOK
    <3> QED
      BY <1>1, <3>1, RangeAppend DEF Send
  <2> QED
    BY <1>1, <2>1 DEF Send
<1>A. ASSUME NEW c \in Calls, Send(c)
      PROVE  pc[c] \in {"send", "parked"} /\ pc'[c] = "await"
  BY <1>A DEF Send, AtSend, Goto, TypeOK
<1>2. ASSUME NEW n \in 1..Len(stdout), ReadChunk(n) PROVE Sent' \subseteq Sent
  <2>1. TokensOf(stdout) = TokensOf(events') \cup TokensOf(stdout')
    BY <1>2, TokensCut DEF ReadChunk, TypeOK
  <2> QED
    BY <1>2, <2>1 DEF ReadChunk
<1>3. ASSUME NEW n \in 0..Len(stdout), ReadFails(n) PROVE Sent' \subseteq Sent
  <2>1. TokensOf(stdout') \subseteq TokensOf(stdout)
    BY <1>3, TokensCut DEF ReadFails, TypeOK
  <2> QED
    BY <1>3, <2>1 DEF ReadFails
<1>4. CASE Dispatch
  <2>1. TokensOf(events') \subseteq TokensOf(events)
    BY <1>4, TokensTail DEF Dispatch, TypeOK, EventsInv
  <2> QED
    BY <1>4, <2>1 DEF Dispatch
<1>5. CASE WriterRecv
  <2>1. Range(outq) = {Head(outq)} \cup Range(outq')
    BY <1>5, RangeTail DEF WriterRecv, TypeOK
  <2> QED
    BY <1>5, <2>1 DEF WriterRecv
<1>6. CASE WriterWrite
  <2>1. Range(stdin') = Range(stdin) \cup {writing}
    <3>1. stdin \in Seq(Nat) /\ writing \in Nat
      BY DEF TypeOK
    <3> QED
      BY <1>6, <3>1, RangeAppend DEF WriterWrite
  <2> QED
    BY <1>6, <2>1 DEF WriterWrite
<1>7. CASE WriterFails
  <2>1. Range(<<>>) = {}
    BY DEF Range
  <2> QED
    BY <1>7, <2>1 DEF WriterFails
<1>8. ASSUME NEW o \in Outcomes, GdbServe(o) PROVE Sent' \subseteq Sent
  <2>1. Range(stdin) = {Head(stdin)} \cup Range(stdin') /\ Head(stdin) \in Nat
    BY <1>8, RangeTail, HeadTailProperties DEF GdbServe, TypeOK
  <2>2. TokensOf(stdout') = TokensOf(stdout) \cup {Head(stdin)}
    <3>1. [token |-> Head(stdin), outcome |-> o] \in Record
      BY <2>1 DEF Record
    <3> QED
      BY <1>8, <3>1, TokensAppend DEF GdbServe, TypeOK
  <2>3. DOMAIN answered' = DOMAIN answered \cup {Head(stdin)}
    BY <1>8 DEF GdbServe, With
  <2> QED
    BY <1>8, <2>1, <2>2, <2>3 DEF GdbServe
<1>9. ASSUME NEW t \in DOMAIN answered, NEW o \in Outcomes, GdbRepeat(t, o)
      PROVE  Sent' \subseteq Sent
  <2>1. [token |-> t, outcome |-> o] \in Record
    BY DEF Record, TypeOK
  <2>2. TokensOf(stdout') = TokensOf(stdout) \cup {t}
    BY <1>9, <2>1, TokensAppend DEF GdbRepeat, TypeOK
  <2> QED
    BY <1>9, <2>2 DEF GdbRepeat
<1>10. CASE UNCHANGED <<outq, writing, stdin, stdout, events, answered>>
  BY <1>10
<1> QED
  BY <1>1, <1>A, <1>2, <1>3, <1>4, <1>5, <1>6, <1>7, <1>8, <1>9, <1>10
  DEF Next, CallStep, ReaderStep, WriterStep, GdbStep, ShutdownStep,
      Terminated, vars, SubmitRefused, SubmitBegin, ConnectionSubmit,
      RegisterPending, Park, SendClosed, Rollback, Receive, Cancel, ReadEof,
      MarkReaderExited, DrainPending, WriterEnds, GdbExit, StdoutCloses,
      BeginShutdown, QuitReturned, ChildWaited, TasksJoined, MayCall, Return,
      Goto

(* Every step keeps TokenInv.                                              *)
LEMMA TokenStep ==
  ASSUME TypeOK, MapInv, TokenInv, [Next]_vars PROVE TokenInv'
<1> USE DEF TokenInv, MapInv, TypeOK, callVars, connVars, readerVars,
            writerVars, gdbVars
<1>1. ASSUME NEW c \in Calls, SubmitRefused(c) PROVE TokenInv'
  BY <1>1 DEF SubmitRefused, MayCall, Return, Goto
<1>2. ASSUME NEW c \in Calls, SubmitBegin(c) PROVE TokenInv'
  BY <1>2 DEF SubmitBegin, MayCall, Goto
<1>3. ASSUME NEW c \in Calls, ConnectionSubmit(c) PROVE TokenInv'
  BY <1>3 DEF ConnectionSubmit, Goto
<1>4. ASSUME NEW c \in Calls, RegisterPending(c) PROVE TokenInv'
  BY <1>4 DEF RegisterPending, Goto, With
<1>5. ASSUME NEW c \in Calls, Send(c) PROVE TokenInv'
  BY <1>5 DEF Send, AtSend, Goto
<1>6. ASSUME NEW c \in Calls, Park(c) PROVE TokenInv'
  BY <1>6 DEF Park, Goto
<1>7. ASSUME NEW c \in Calls, SendClosed(c) PROVE TokenInv'
  BY <1>7 DEF SendClosed, AtSend, Goto
<1>8. ASSUME NEW c \in Calls, Rollback(c) PROVE TokenInv'
  BY <1>8 DEF Rollback, Return, Goto, Without
<1>9. ASSUME NEW c \in Calls, Receive(c) PROVE TokenInv'
  BY <1>9 DEF Receive, Return, Goto
<1>10. ASSUME NEW c \in Calls, Cancel(c) PROVE TokenInv'
  BY <1>10 DEF Cancel, Return, Goto
<1>11. CASE Dispatch
  BY <1>11 DEF Dispatch, Without
<1>12. CASE DrainPending
  BY <1>12 DEF DrainPending, NoEntries
<1>13. CASE UNCHANGED <<pc, tok, ret, slot, nextToken>>
  BY <1>13
<1> QED
  BY <1>1, <1>2, <1>3, <1>4, <1>5, <1>6, <1>7, <1>8, <1>9, <1>10, <1>11,
     <1>12, <1>13
  DEF Next, CallStep, ReaderStep, WriterStep, GdbStep, ShutdownStep,
      Terminated, vars, ReadChunk, ReadFails, ReadEof, MarkReaderExited,
      WriterRecv, WriterWrite, WriterFails, WriterEnds, GdbExit, StdoutCloses,
      BeginShutdown, QuitReturned, ChildWaited, TasksJoined, GdbServe,
      GdbRepeat

(* Every step keeps SentInv.                                               *)
LEMMA SentInvStep ==
  ASSUME TypeOK, EventsInv, TokenInv, SentInv, [Next]_vars PROVE SentInv'
<1>1. ASSUME NEW c \in Calls, ConnectionSubmit(c) PROVE nextToken' = nextToken + 1
  BY <1>1 DEF ConnectionSubmit
<1>2. nextToken' = nextToken \/ nextToken' = nextToken + 1
  BY <1>1 DEF Next, CallStep, ReaderStep, WriterStep, GdbStep, ShutdownStep,
      Terminated, vars, callVars, connVars, SubmitRefused, SubmitBegin,
      RegisterPending, Send, Park, SendClosed, Rollback, Receive, Cancel,
      ReadChunk, ReadFails, ReadEof, Dispatch, MarkReaderExited, DrainPending,
      WriterRecv, WriterWrite, WriterFails, WriterEnds, GdbExit, StdoutCloses,
      BeginShutdown, QuitReturned, ChildWaited, TasksJoined, GdbServe,
      GdbRepeat
<1>3. ASSUME NEW t \in Sent' PROVE t \in 0..(nextToken' - 1)
  <2>1. CASE t \in Sent
    BY <1>2, <2>1 DEF SentInv, TypeOK
  <2>2. CASE t = 0
    BY <1>2, <2>2 DEF TypeOK
  <2>3. CASE \E c \in Calls : t = tok[c]
    BY <1>2, <2>3 DEF TypeOK, TokenInv
  <2> QED
    BY <2>1, <2>2, <2>3, SentStep
<1> QED
  BY <1>3 DEF SentInv

(* Every step keeps UnsentInv.                                             *)
LEMMA UnsentStep ==
  ASSUME TypeOK, EventsInv, TokenInv, SentInv, UnsentInv, [Next]_vars PROVE UnsentInv'
<1> USE DEF UnsentInv, TokenInv, TypeOK, callVars, connVars, readerVars,
            writerVars, gdbVars
<1>F. ASSUME UNCHANGED <<tok, connPending>>,
             \A c \in Calls : pc'[c] \in {"register", "send", "parked"} =>
                              pc[c] \in {"register", "send", "parked"}
      PROVE  UnsentInv'
  <2> SUFFICES ASSUME NEW c \in Calls, pc'[c] \in {"register", "send", "parked"},
                      tok[c] \in Sent'
               PROVE  FALSE
    BY <1>F
  <2>1. tok[c] \notin Sent /\ tok[c] # 0
    BY <1>F
  <2>2. PICK d \in Calls : tok[c] = tok[d] /\ pc'[d] = "await"
    BY <2>1, SentStep
  <2>3. c = d
    BY <2>1, <2>2
  <2> QED
    BY <2>2, <2>3
<1>1. ASSUME NEW c \in Calls, SubmitRefused(c) PROVE UnsentInv'
  BY <1>1, <1>F DEF SubmitRefused, MayCall, Return, Goto
<1>2. ASSUME NEW c \in Calls, SubmitBegin(c) PROVE UnsentInv'
  BY <1>2, <1>F DEF SubmitBegin, MayCall, Goto
<1>3. ASSUME NEW c \in Calls, ConnectionSubmit(c) PROVE UnsentInv'
  <2>1. nextToken \notin Sent /\ nextToken # 0
    BY DEF SentInv
  <2>2. nextToken \notin Sent'
    BY <1>3, <2>1, SentStep DEF ConnectionSubmit, Goto
  <2>3. /\ tok' = [tok EXCEPT ![c] = nextToken] /\ pc' = [pc EXCEPT ![c] = "register"]
        /\ connPending' = connPending \cup {nextToken}
    BY <1>3 DEF ConnectionSubmit, Goto
  <2>4. ASSUME NEW d \in Calls, d # c, pc[d] \in {"register", "send", "parked"}
        PROVE  tok[d] \in connPending /\ tok[d] \notin Sent'
    <3>1. tok[d] \notin Sent /\ tok[d] # 0 /\ tok[d] \in connPending
      BY <2>4
    <3>2. \A e \in Calls : pc'[e] # "await" \/ pc[e] = "await"
      BY <2>3
    <3> QED
      BY <3>1, <3>2, SentStep
  <2> QED
    BY <2>2, <2>3, <2>4
<1>4. ASSUME NEW c \in Calls, RegisterPending(c) PROVE UnsentInv'
  BY <1>4, <1>F DEF RegisterPending, Goto, With
<1>5. ASSUME NEW c \in Calls, Send(c) PROVE UnsentInv'
  BY <1>5, <1>F DEF Send, AtSend, Goto
<1>6. ASSUME NEW c \in Calls, Park(c) PROVE UnsentInv'
  BY <1>6, <1>F DEF Park, Goto
<1>7. ASSUME NEW c \in Calls, SendClosed(c) PROVE UnsentInv'
  BY <1>7, <1>F DEF SendClosed, AtSend, Goto
<1>8. ASSUME NEW c \in Calls, Rollback(c) PROVE UnsentInv'
  BY <1>8, <1>F DEF Rollback, Return, Goto, Without
<1>9. ASSUME NEW c \in Calls, Receive(c) PROVE UnsentInv'
  BY <1>9, <1>F DEF Receive, Return, Goto
<1>10. ASSUME NEW c \in Calls, Cancel(c) PROVE UnsentInv'
  BY <1>10, <1>F DEF Cancel, Return, Goto
<1>11. ASSUME NEW n \in 1..Len(stdout), ReadChunk(n) PROVE UnsentInv'
  <2>1. TokensOf(SubSeq(stdout, 1, n)) \subseteq Sent
    BY TokensCut DEF Sent
  <2> QED
    BY <1>11, <2>1, SentStep DEF ReadChunk
<1>12. ASSUME NEW n \in 0..Len(stdout), ReadFails(n) PROVE UnsentInv'
  <2>1. TokensOf(SubSeq(stdout, 1, n)) \subseteq Sent
    BY TokensCut DEF Sent
  <2> QED
    BY <1>12, <2>1, SentStep DEF ReadFails
<1>13. CASE UNCHANGED <<pc, tok, connPending>>
  BY <1>13, <1>F
<1> QED
  BY <1>1, <1>2, <1>3, <1>4, <1>5, <1>6, <1>7, <1>8, <1>9, <1>10, <1>11,
     <1>12, <1>13
  DEF Next, CallStep, ReaderStep, WriterStep, GdbStep, ShutdownStep,
      Terminated, vars, ReadEof, Dispatch, MarkReaderExited, DrainPending,
      WriterRecv, WriterWrite, WriterFails, WriterEnds, GdbExit, StdoutCloses,
      BeginShutdown, QuitReturned, ChildWaited, TasksJoined, GdbServe,
      GdbRepeat

(* Every step keeps NoOrphanSender.                                        *)
LEMMA OrphanStep ==
  ASSUME TypeOK, EventsInv, UnsentInv, MapInv, NoOrphanSender, [Next]_vars PROVE NoOrphanSender'
<1> USE DEF NoOrphanSender, callVars, connVars, readerVars, writerVars,
            gdbVars
<1>1. ASSUME NEW c \in Calls, ConnectionSubmit(c) PROVE NoOrphanSender'
  BY <1>1 DEF ConnectionSubmit, Goto
<1>2. ASSUME NEW c \in Calls, RegisterPending(c) PROVE NoOrphanSender'
  BY <1>2 DEF RegisterPending, Goto, With, UnsentInv
<1>3. ASSUME NEW c \in Calls, Rollback(c) PROVE NoOrphanSender'
  BY <1>3 DEF Rollback, Return, Goto, Without
<1>4. ASSUME NEW n \in 1..Len(stdout), ReadChunk(n) PROVE NoOrphanSender'
  <2>1. TokensOf(events) = {}
    BY <1>4 DEF ReadChunk, EventsInv, TokensOf
  <2> QED
    BY <1>4, <2>1 DEF ReadChunk
<1>5. ASSUME NEW n \in 0..Len(stdout), ReadFails(n) PROVE NoOrphanSender'
  BY <1>5 DEF ReadFails
<1>6. CASE ReadEof
  BY <1>6 DEF ReadEof
<1>7. CASE Dispatch
  <2>1. TokensOf(events) = {Head(events).token} \cup TokensOf(Tail(events))
    BY <1>7, TokensTail DEF Dispatch, TypeOK, EventsInv
  <2>2. DOMAIN pending' = DOMAIN pending \ {Head(events).token}
    BY <1>7 DEF Dispatch, Without
  <2> QED
    BY <1>7, <2>1, <2>2 DEF Dispatch
<1>8. CASE MarkReaderExited
  BY <1>8 DEF MarkReaderExited
<1>9. CASE DrainPending
  BY <1>9 DEF DrainPending, NoEntries
<1>10. CASE UNCHANGED <<pending, connPending, events, reader>>
  BY <1>10
<1> QED
  BY <1>1, <1>2, <1>3, <1>4, <1>5, <1>6, <1>7, <1>8, <1>9, <1>10
  DEF Next, CallStep, ReaderStep, WriterStep, GdbStep, ShutdownStep,
      Terminated, vars, SubmitRefused, SubmitBegin, Send, Park, SendClosed,
      Receive, Cancel, WriterRecv, WriterWrite, WriterFails, WriterEnds,
      GdbExit, StdoutCloses, BeginShutdown, QuitReturned, ChildWaited,
      TasksJoined, GdbServe, GdbRepeat, MayCall, Return, Goto

(* What FirstIs says of a queue after an append, a take and a read.        *)
LEMMA FirstIsAbsent ==
  ASSUME NEW s, NEW t, NEW o, t \notin TokensOf(s) PROVE FirstIs(s, t, o)
BY DEF FirstIs, TokensOf

LEMMA FirstIsHead ==
  ASSUME NEW s \in Seq(Record), s # <<>>, NEW o, FirstIs(s, Head(s).token, o)
  PROVE  Head(s).outcome = o
<1>1. Len(s) \in Nat \ {0} /\ DOMAIN s = 1..Len(s) /\ Head(s) = s[1]
  BY HeadTailProperties, LenProperties, EmptySeq
<1> QED
  BY <1>1 DEF FirstIs

LEMMA FirstIsAppend ==
  ASSUME NEW s \in Seq(Record), NEW r \in Record, NEW t, NEW o, FirstIs(s, t, o),
         r.token # t \/ t \in TokensOf(s) \/ r.outcome = o
  PROVE  FirstIs(Append(s, r), t, o)
<1> DEFINE q == Append(s, r)
<1>1. /\ Len(s) \in Nat /\ DOMAIN s = 1..Len(s)
      /\ DOMAIN q = 1..(Len(s) + 1)
      /\ \A i \in 1..Len(s) : q[i] = s[i]
      /\ q[Len(s) + 1] = r
  BY AppendProperties, LenProperties
<1> HIDE DEF q
<1>2. ASSUME NEW i \in DOMAIN q, q[i].token = t, \A j \in 1..(i - 1) : q[j].token # t
      PROVE  q[i].outcome = o
  <2>1. CASE i \in 1..Len(s)
    BY <1>1, <1>2, <2>1 DEF FirstIs
  <2>2. CASE i = Len(s) + 1
    <3>1. t \notin TokensOf(s)
      BY <1>1, <1>2, <2>2 DEF TokensOf
    <3> QED
      BY <1>1, <1>2, <2>2, <3>1
  <2> QED
    BY <1>1, <2>1, <2>2
<1>3. FirstIs(q, t, o)
  BY <1>2 DEF FirstIs
<1> QED
  BY <1>3 DEF q

LEMMA FirstIsTail ==
  ASSUME NEW s \in Seq(Record), s # <<>>, NEW t, NEW o, FirstIs(s, t, o), Head(s).token # t
  PROVE  FirstIs(Tail(s), t, o)
<1> DEFINE q == Tail(s)
<1>1. /\ Len(s) \in Nat \ {0} /\ DOMAIN s = 1..Len(s)
      /\ DOMAIN q = 1..(Len(s) - 1)
      /\ \A i \in 1..(Len(s) - 1) : q[i] = s[i + 1]
      /\ s[1].token # t
  BY HeadTailProperties, LenProperties, EmptySeq
<1> HIDE DEF q
<1>2. ASSUME NEW i \in DOMAIN q, q[i].token = t, \A j \in 1..(i - 1) : q[j].token # t
      PROVE  q[i].outcome = o
  <2>1. i + 1 \in DOMAIN s /\ s[i + 1] = q[i]
    BY <1>1
  <2>2. ASSUME NEW j \in 1..((i + 1) - 1) PROVE s[j].token # t
    <3>1. CASE j = 1
      BY <1>1, <3>1
    <3>2. CASE j # 1
      <4>1. j - 1 \in 1..(i - 1) /\ q[j - 1] = s[j]
        BY <1>1, <3>2
      <4> QED
        BY <1>2, <4>1
    <3> QED
      BY <3>1, <3>2
  <2> QED
    BY <1>2, <2>1, <2>2 DEF FirstIs
<1>3. FirstIs(q, t, o)
  BY <1>2 DEF FirstIs
<1> QED
  BY <1>3 DEF q

LEMMA FirstIsCut ==
  ASSUME NEW s \in Seq(Record), NEW n \in 0..Len(s), NEW t, NEW o, FirstIs(s, t, o)
  PROVE  /\ FirstIs(SubSeq(s, 1, n), t, o)
         /\ t \notin TokensOf(SubSeq(s, 1, n)) => FirstIs(SubSeq(s, n + 1, Len(s)), t, o)
<1> DEFINE p == SubSeq(s, 1, n)
           q == SubSeq(s, n + 1, Len(s))
<1>1. /\ DOMAIN s = 1..Len(s) /\ Len(s) \in Nat
      /\ DOMAIN p = 1..n /\ \A i \in 1..n : p[i] = s[i]
      /\ DOMAIN q = 1..(Len(s) - n) /\ \A i \in 1..(Len(s) - n) : q[i] = s[n + i]
  BY CutElements
<1> HIDE DEF p, q
<1>2. FirstIs(p, t, o)
  BY <1>1 DEF FirstIs
<1>3. ASSUME t \notin TokensOf(p), NEW i \in DOMAIN q, q[i].token = t,
             \A j \in 1..(i - 1) : q[j].token # t
      PROVE  q[i].outcome = o
  <2>1. n + i \in DOMAIN s /\ s[n + i] = q[i]
    BY <1>1
  <2>2. ASSUME NEW j \in 1..((n + i) - 1) PROVE s[j].token # t
    <3>1. CASE j \in 1..n
      BY <1>1, <1>3, <3>1 DEF TokensOf
    <3>2. CASE j - n \in 1..(i - 1)
      <4>1. q[j - n] = s[j]
        BY <1>1, <3>2
      <4> QED
        BY <1>3, <3>2, <4>1
    <3> QED
      BY <1>1, <3>1, <3>2
  <2> QED
    BY <1>3, <2>1, <2>2 DEF FirstIs
<1>4. t \notin TokensOf(p) => FirstIs(q, t, o)
  BY <1>3 DEF FirstIs
<1> QED
  BY <1>2, <1>4 DEF p, q

(* Every step keeps FirstInv.                                              *)
LEMMA FirstStep ==
  ASSUME TypeOK, EventsInv, UnsentInv, FirstInv, [Next]_vars PROVE FirstInv'
<1> USE DEF callVars, connVars, readerVars, writerVars, gdbVars
<1>1. ASSUME NEW c \in Calls, RegisterPending(c) PROVE FirstInv'
  <2>1. tok[c] \notin Sent
    BY <1>1 DEF RegisterPending, UnsentInv
  <2>2. /\ tok[c] \notin DOMAIN answered
        /\ tok[c] \notin TokensOf(events) /\ tok[c] \notin TokensOf(stdout)
    BY <2>1 DEF Sent
  <2>3. /\ FirstIs(events, tok[c], answered[tok[c]])
        /\ FirstIs(stdout, tok[c], answered[tok[c]])
    BY <2>2, FirstIsAbsent
  <2>4. /\ DOMAIN pending' = DOMAIN pending \cup {tok[c]}
        /\ UNCHANGED <<events, stdout, answered, reader>>
    BY <1>1 DEF RegisterPending, With
  <2> QED
    BY <2>2, <2>3, <2>4 DEF FirstInv
<1>2. ASSUME NEW c \in Calls, Rollback(c) PROVE FirstInv'
  <2>1. /\ DOMAIN pending' \subseteq DOMAIN pending
        /\ UNCHANGED <<events, stdout, answered, reader>>
    BY <1>2 DEF Rollback, Without
  <2> QED
    BY <2>1 DEF FirstInv
<1>3. ASSUME NEW n \in 1..Len(stdout), ReadChunk(n) PROVE FirstInv'
  <2>1. /\ events' = SubSeq(stdout, 1, n) /\ stdout' = SubSeq(stdout, n + 1, Len(stdout))
        /\ reader = "read" /\ events = <<>>
        /\ UNCHANGED <<pending, answered>>
    BY <1>3 DEF ReadChunk, EventsInv
  <2>2. stdout \in Seq(Record) /\ n \in 0..Len(stdout)
    BY DEF TypeOK
  <2>3. TokensOf(events') \cup TokensOf(stdout') = TokensOf(stdout) /\ TokensOf(events) = {}
    <3>1. TokensOf(events) = {}
      BY <2>1 DEF TokensOf
    <3> QED
      BY <2>1, <2>2, <3>1, TokensCut
  <2>4. ASSUME NEW t \in DOMAIN pending
        PROVE  /\ t \in DOMAIN answered => t \in TokensOf(stdout)
               /\ FirstIs(events', t, answered[t])
               /\ t \notin TokensOf(events') => FirstIs(stdout', t, answered[t])
    <3>1. /\ t \in DOMAIN answered => t \in TokensOf(stdout)
          /\ FirstIs(stdout, t, answered[t])
      BY <2>1, <2>3, <2>4 DEF FirstInv
    <3> QED
      BY <2>1, <2>2, <3>1, FirstIsCut
  <2> QED
    BY <2>1, <2>3, <2>4 DEF FirstInv
<1>4. ASSUME NEW n \in 0..Len(stdout), ReadFails(n) PROVE FirstInv'
  <2>1. TokensOf(stdout') \subseteq TokensOf(stdout)
    BY <1>4, TokensCut DEF ReadFails, TypeOK
  <2> QED
    BY <1>4, <2>1 DEF ReadFails, FirstInv
<1>5. CASE ReadEof
  BY <1>5 DEF ReadEof, FirstInv
<1>6. CASE Dispatch
  <2> DEFINE h == Head(events).token
  <2>1. /\ events \in Seq(Record) /\ events # <<>> /\ events' = Tail(events)
        /\ reader = "dispatch" /\ UNCHANGED <<stdout, answered>>
    BY <1>6 DEF Dispatch, EventsInv, TypeOK
  <2>2. DOMAIN pending' = DOMAIN pending \ {h}
    BY <1>6 DEF Dispatch, Without
  <2>3. TokensOf(events) = {h} \cup TokensOf(events')
    BY <2>1, TokensTail
  <2>4. ASSUME NEW t \in DOMAIN pending, t # h
        PROVE  FirstIs(events', t, answered[t])
    <3>1. FirstIs(events, t, answered[t])
      BY <2>1, <2>4 DEF FirstInv
    <3> QED
      BY <2>1, <2>4, <3>1, FirstIsTail
  <2> HIDE DEF h
  <2> QED
    BY <2>1, <2>2, <2>3, <2>4 DEF FirstInv
<1>7. CASE MarkReaderExited
  BY <1>7 DEF MarkReaderExited, FirstInv
<1>8. CASE DrainPending
  BY <1>8 DEF DrainPending, FirstInv
<1>9. ASSUME NEW r \in Record, stdout' = Append(stdout, r),
             UNCHANGED <<events, reader, pending>>,
             DOMAIN answered' = DOMAIN answered \cup {r.token},
             \A t \in DOMAIN answered : answered'[t] = answered[t],
             r.token \in DOMAIN answered \/ answered'[r.token] = r.outcome
      PROVE  FirstInv'
  <2>1. stdout \in Seq(Record)
    BY DEF TypeOK
  <2>2. TokensOf(stdout') = TokensOf(stdout) \cup {r.token}
    BY <1>9, <2>1, TokensAppend
  <2>3. ASSUME NEW t \in DOMAIN pending, reader \in {"read", "dispatch"},
               t \in DOMAIN answered
        PROVE  /\ t \in TokensOf(events) \cup TokensOf(stdout)
               /\ FirstIs(events, t, answered'[t])
               /\ t \notin TokensOf(events) => FirstIs(stdout', t, answered'[t])
    <3>1. /\ t \in TokensOf(events) \cup TokensOf(stdout)
          /\ FirstIs(events, t, answered[t])
          /\ t \notin TokensOf(events) => FirstIs(stdout, t, answered[t])
          /\ answered'[t] = answered[t]
      BY <1>9, <2>3 DEF FirstInv
    <3> QED
      BY <1>9, <2>1, <3>1, FirstIsAppend
  <2>4. ASSUME NEW t \in DOMAIN pending, reader \in {"read", "dispatch"},
               t \notin DOMAIN answered
        PROVE  /\ t = r.token => t \in TokensOf(stdout')
               /\ FirstIs(events, t, answered'[t])
               /\ FirstIs(stdout', t, answered'[t])
    <3>1. t \notin TokensOf(events) /\ t \notin TokensOf(stdout)
      BY <2>4 DEF FirstInv
    <3>2. FirstIs(events, t, answered'[t]) /\ FirstIs(stdout, t, answered'[t])
      BY <3>1, FirstIsAbsent
    <3>3. r.token # t \/ r.outcome = answered'[t]
      BY <1>9, <2>4
    <3> QED
      BY <1>9, <2>1, <2>2, <3>2, <3>3, FirstIsAppend
  <2> QED
    BY <1>9, <2>2, <2>3, <2>4 DEF FirstInv
<1>10. ASSUME NEW o \in Outcomes, GdbServe(o) PROVE FirstInv'
  <2> DEFINE r == [token |-> Head(stdin), outcome |-> o]
  <2>1. Head(stdin) \in Nat
    BY <1>10, HeadTailProperties DEF GdbServe, TypeOK
  <2>2. r \in Record /\ r.token = Head(stdin) /\ r.outcome = o
    BY <2>1 DEF Record
  <2>3. /\ stdout' = Append(stdout, r) /\ UNCHANGED <<events, reader, pending>>
        /\ answered' = IF Head(stdin) \in DOMAIN answered THEN answered
                       ELSE With(answered, Head(stdin), o)
    BY <1>10 DEF GdbServe
  <2>4. /\ DOMAIN answered' = DOMAIN answered \cup {Head(stdin)}
        /\ \A t \in DOMAIN answered : answered'[t] = answered[t]
        /\ Head(stdin) \in DOMAIN answered \/ answered'[Head(stdin)] = o
    BY <2>3 DEF With
  <2> HIDE DEF r
  <2> QED
    BY <1>9, <2>2, <2>3, <2>4
<1>11. ASSUME NEW t \in DOMAIN answered, NEW o \in Outcomes, GdbRepeat(t, o)
       PROVE  FirstInv'
  <2> DEFINE r == [token |-> t, outcome |-> o]
  <2>1. r \in Record /\ r.token = t
    BY DEF Record, TypeOK
  <2>2. /\ stdout' = Append(stdout, r)
        /\ UNCHANGED <<events, reader, pending, answered>>
    BY <1>11 DEF GdbRepeat
  <2> HIDE DEF r
  <2>3. DOMAIN answered' = DOMAIN answered \cup {r.token}
    BY <2>1, <2>2
  <2> QED
    BY <1>9, <2>1, <2>2, <2>3
<1>12. CASE UNCHANGED <<events, stdout, answered, reader, pending>>
  BY <1>12 DEF FirstInv, TokensOf, FirstIs
<1> QED
  BY <1>1, <1>2, <1>3, <1>4, <1>5, <1>6, <1>7, <1>8, <1>10, <1>11, <1>12
  DEF Next, CallStep, ReaderStep, WriterStep, GdbStep, ShutdownStep,
      Terminated, vars, SubmitRefused, SubmitBegin, ConnectionSubmit, Send,
      Park, SendClosed, Receive, Cancel, WriterRecv, WriterWrite, WriterFails,
      WriterEnds, GdbExit, StdoutCloses, BeginShutdown, QuitReturned,
      ChildWaited, TasksJoined, MayCall, Return, Goto

(* Every step keeps ValueInv.                                              *)
LEMMA ValueStep ==
  ASSUME TypeOK, EventsInv, TokenInv, MapInv, FirstInv, ValueInv, [Next]_vars
  PROVE  ValueInv'
<1> USE DEF ValueInv, callVars, connVars, readerVars, writerVars, gdbVars
<1>1. ASSUME NEW c \in Calls, SubmitRefused(c) PROVE ValueInv'
  BY <1>1 DEF SubmitRefused, MayCall, Return, Goto, TypeOK
<1>2. ASSUME NEW c \in Calls, ConnectionSubmit(c) PROVE ValueInv'
  BY <1>2 DEF ConnectionSubmit, Goto, TypeOK, TokenInv
<1>3. ASSUME NEW c \in Calls, Rollback(c) PROVE ValueInv'
  BY <1>3 DEF Rollback, Return, Goto, TypeOK, TokenInv, MapInv
<1>4. ASSUME NEW c \in Calls, Receive(c) PROVE ValueInv'
  BY <1>4 DEF Receive, Return, Goto, TypeOK
<1>5. ASSUME NEW c \in Calls, Cancel(c) PROVE ValueInv'
  BY <1>5 DEF Cancel, Return, Goto, TypeOK
<1>6. CASE Dispatch
  <2> DEFINE r == Head(events)
             d == pending[r.token]
  <2>1. CASE r.token \in DOMAIN pending
    <3>1. /\ slot' = [slot EXCEPT ![d] = "fired"]
          /\ value' = [value EXCEPT ![d] = <<r>>]
          /\ UNCHANGED <<ret, tok, answered>>
      BY <1>6, <2>1 DEF Dispatch
    <3>2. d \in Calls /\ tok[d] = r.token /\ slot[d] = "open"
      BY <2>1 DEF MapInv, TypeOK
    <3>3. events \in Seq(Record) /\ events # <<>> /\ reader = "dispatch"
      BY <1>6 DEF Dispatch, EventsInv, TypeOK
    <3>4. r.token \in DOMAIN answered
      <4>1. r.token \in TokensOf(events)
        BY <3>3, TokensTail
      <4> QED
        BY <4>1 DEF FirstInv
    <3>5. r.outcome = answered[r.token]
      <4>1. FirstIs(events, r.token, answered[r.token])
        BY <2>1, <3>3 DEF FirstInv
      <4> QED
        BY <3>3, <4>1, FirstIsHead
    <3>6. slot \in [Calls -> {"unmade", "open", "fired", "dropped"}]
          /\ value \in [Calls -> Seq(Record)]
      BY DEF TypeOK
    <3> HIDE DEF d, r
    <3>7. Len(<<r>>) = 1 /\ <<r>>[1] = r
      OBVIOUS
    <3> QED
      BY <3>1, <3>2, <3>4, <3>5, <3>6, <3>7
  <2>2. CASE r.token \notin DOMAIN pending
    BY <1>6, <2>2 DEF Dispatch
  <2> QED
    BY <2>1, <2>2
<1>7. CASE DrainPending
  <2>1. \A c \in Calls : slot'[c] = "fired" <=> slot[c] = "fired"
    BY <1>7 DEF DrainPending, MapInv
  <2> QED
    BY <1>7, <2>1 DEF DrainPending
<1>8. ASSUME NEW o \in Outcomes, GdbServe(o) PROVE ValueInv'
  <2>1. /\ DOMAIN answered \subseteq DOMAIN answered'
        /\ \A t \in DOMAIN answered : answered'[t] = answered[t]
        /\ UNCHANGED <<ret, slot, value, tok>>
    BY <1>8 DEF GdbServe, With
  <2> QED
    BY <2>1
<1>9. CASE UNCHANGED <<ret, slot, value, tok, answered>>
  BY <1>9
<1> QED
  BY <1>1, <1>2, <1>3, <1>4, <1>5, <1>6, <1>7, <1>8, <1>9
  DEF Next, CallStep, ReaderStep, WriterStep, GdbStep, ShutdownStep,
      Terminated, vars, SubmitBegin, RegisterPending, Send, Park, SendClosed,
      ReadChunk, ReadFails, ReadEof, MarkReaderExited, WriterRecv, WriterWrite,
      WriterFails, WriterEnds, GdbExit, StdoutCloses, BeginShutdown,
      QuitReturned, ChildWaited, TasksJoined, GdbRepeat, MayCall, Goto

(* The initial state satisfies the inductive invariant.                    *)
LEMMA InitInv == ASSUME Init PROVE IInv
<1> USE CallsAssumption DEF Init, NoEntries
<1>1. TypeOK
  <2>1. /\ DOMAIN pending = {} /\ pending \in [DOMAIN pending -> Calls]
        /\ DOMAIN answered = {} /\ answered \in [DOMAIN answered -> Outcomes]
    OBVIOUS
  <2>2. <<>> \in Seq(Record) /\ <<>> \in Seq(Nat)
    OBVIOUS
  <2>3. value \in [Calls -> Seq(Record)]
    BY <2>2
  <2>4. alive \in BOOLEAN /\ eof \in BOOLEAN
    BY Zenon
  <2>5. /\ pc \in [Calls -> {"idle", "submit", "register", "send", "parked", "await", "rollback", "done"}]
        /\ ret \in [Calls -> {"none", "outcome", "exited", "cancelled"}]
        /\ tok \in [Calls -> Nat]
        /\ slot \in [Calls -> {"unmade", "open", "fired", "dropped"}]
        /\ nextToken \in Nat \ {0} /\ connPending \subseteq Nat
        /\ writing \in Nat /\ extra \in Nat
    OBVIOUS
  <2> QED
    BY <2>1, <2>2, <2>3, <2>4, <2>5, Zenon DEF TypeOK
<1>2. Sent = {0} /\ TokensOf(events) = {} /\ TokensOf(stdout) = {}
  <2>1. Range(<<>>) = {} /\ TokensOf(<<>>) = {}
    BY DEF Range, TokensOf
  <2> QED
    BY <2>1 DEF Sent
<1>3. SentInv
  BY <1>2 DEF SentInv
<1>4. TokenInv /\ UnsentInv /\ MapInv /\ DropInv /\ EventsInv
  BY DEF TokenInv, UnsentInv, MapInv, DropInv, EventsInv
<1>5. FirstInv
  BY <1>2 DEF FirstInv
<1>6. ValueInv /\ PollInv /\ ExitedIsFinal /\ NoOrphanSender
  BY DEF ValueInv, PollInv, ExitedIsFinal, NoOrphanSender, ReaderMidPoll
<1> QED
  BY <1>1, <1>3, <1>4, <1>5, <1>6 DEF IInv

(* Every reachable state of the command path satisfies the inductive       *)
(* invariant, for any number of calls and any capacities.                  *)
THEOREM Inductive == Spec => []IInv
<1>1. Init => IInv
  BY InitInv
<1>2. IInv /\ [Next]_vars => IInv'
  <2> SUFFICES ASSUME IInv, [Next]_vars PROVE IInv'
    OBVIOUS
  <2>1. /\ TypeOK /\ TokenInv /\ SentInv /\ UnsentInv /\ MapInv /\ DropInv
        /\ EventsInv /\ FirstInv /\ ValueInv /\ PollInv /\ ExitedIsFinal
        /\ NoOrphanSender
    BY DEF IInv
  <2>2. TypeOK' /\ EventsInv'
    BY <2>1, TypeStep, EventsStep
  <2>3. TokenInv' /\ SentInv' /\ UnsentInv'
    BY <2>1, TokenStep, SentInvStep, UnsentStep
  <2>4. MapInv' /\ DropInv' /\ PollInv'
    BY <2>1, MapStep, DropStep, PollStep
  <2>5. FirstInv' /\ ValueInv'
    BY <2>1, FirstStep, ValueStep
  <2>6. ExitedIsFinal' /\ NoOrphanSender'
    BY <2>1, ExitedStep, OrphanStep
  <2> QED
    BY <2>2, <2>3, <2>4, <2>5, <2>6 DEF IInv
<1> QED
  BY <1>1, <1>2, PTL DEF Spec

(* The variables keep their types.                                         *)
THEOREM TypeCorrect == Spec => []TypeOK
<1>1. IInv => TypeOK
  BY DEF IInv
<1> QED
  BY <1>1, Inductive, PTL

(* A call of submit that returns an outcome returns the first result GDB   *)
(* printed for the token of that call: dispatch_event never completes a    *)
(* call with another's record, nor with a repeated one.                    *)
THEOREM OwnOutcome == Spec => []OutcomeIsOwn
<1>1. IInv => OutcomeIsOwn
  BY DEF IInv, ValueInv, OutcomeIsOwn
<1> QED
  BY <1>1, Inductive, PTL

(* submit returns Exited only after the reader has marked itself exited or *)
(* the writer has closed the channel.                                      *)
THEOREM ExitedFinal == Spec => []ExitedIsFinal
<1>1. IInv => ExitedIsFinal
  BY DEF IInv
<1> QED
  BY <1>1, Inductive, PTL

(* A sender in SharedState::pending has its token in Connection::pending   *)
(* or its completion in the hands of the reader, until the reader ends.    *)
THEOREM PendingMapsAgree == Spec => []NoOrphanSender
<1>1. IInv => NoOrphanSender
  BY DEF IInv
<1> QED
  BY <1>1, Inductive, PTL

(* On a current_thread runtime the drain guard of the reader leaves no     *)
(* call of submit waiting on a oneshot that nobody can complete.           *)
THEOREM NobodyStranded == ASSUME SingleThreaded PROVE Spec => []NoStrandedCall
<1>1. IInv => NoStrandedCall
  BY DEF IInv, PollInv, NoStrandedCall
<1> QED
  BY <1>1, Inductive, PTL

-----------------------------------------------------------------------------
(* The command path implements CommandService.                             *)

(* What the refinement needs beside IInv: every line on its way to GDB, and *)
(* every answer, has the token of a call, never the 0 of a call that has    *)
(* none yet.                                                               *)
LinesInv ==
  /\ 0 \notin Range(outq) \cup Range(stdin) \cup DOMAIN answered
  /\ writer = "write" => writing # 0

(* The service's variables, as the refinement mapping gives them.          *)
State   == [c \in Calls |-> IF pc[c] = "done" THEN ret[c]
                            ELSE IF pc[c] = "idle" THEN "new" ELSE "asked"]
Verdict == [c \in Calls |-> IF tok[c] \in DOMAIN answered THEN {answered[tok[c]]} ELSE {}]
Result  == [c \in Calls |-> IF ret[c] = "outcome" THEN {value[c][1].outcome} ELSE {}]
Over    == ~alive \/ writer = "done"

LEMMA LinesStep ==
  ASSUME TypeOK, TokenInv, LinesInv, [Next]_vars PROVE LinesInv'
<1> USE DEF LinesInv, callVars, connVars, readerVars, writerVars, gdbVars
<1>1. ASSUME NEW c \in Calls, Send(c) PROVE LinesInv'
  <2>1. outq \in Seq(Nat) /\ tok[c] \in Nat /\ tok[c] # 0
    BY <1>1 DEF Send, AtSend, TypeOK, TokenInv
  <2>2. Range(outq') = Range(outq) \cup {tok[c]}
    BY <1>1, <2>1, RangeAppend DEF Send
  <2> QED  BY <1>1, <2>1, <2>2 DEF Send
<1>2. CASE WriterRecv
  <2>1. Range(outq) = {Head(outq)} \cup Range(outq')
    BY <1>2, RangeTail DEF WriterRecv, TypeOK
  <2> QED  BY <1>2, <2>1 DEF WriterRecv
<1>3. CASE WriterWrite
  <2>1. stdin \in Seq(Nat) /\ writing \in Nat
    BY DEF TypeOK
  <2>2. Range(stdin') = Range(stdin) \cup {writing}
    BY <1>3, <2>1, RangeAppend DEF WriterWrite
  <2> QED  BY <1>3, <2>2 DEF WriterWrite
<1>4. CASE WriterFails
  <2>1. Range(<<>>) = {}
    BY DEF Range
  <2> QED  BY <1>4, <2>1 DEF WriterFails
<1>5. ASSUME NEW o \in Outcomes, GdbServe(o) PROVE LinesInv'
  <2>1. Range(stdin) = {Head(stdin)} \cup Range(stdin')
    BY <1>5, RangeTail DEF GdbServe, TypeOK
  <2>2. DOMAIN answered' = DOMAIN answered \cup {Head(stdin)}
    BY <1>5 DEF GdbServe, With
  <2> QED  BY <1>5, <2>1, <2>2 DEF GdbServe
<1>6. CASE UNCHANGED <<outq, stdin, answered, writing>> /\ writer' \in {writer, "done"}
  BY <1>6
<1> QED
  BY <1>1, <1>2, <1>3, <1>4, <1>5, <1>6
  DEF Next, CallStep, ReaderStep, WriterStep, GdbStep, ShutdownStep,
      Terminated, vars, SubmitRefused, SubmitBegin, ConnectionSubmit,
      RegisterPending, Park, SendClosed, Rollback, Receive, Cancel, ReadChunk,
      ReadFails, ReadEof, Dispatch, MarkReaderExited, DrainPending, WriterEnds,
      GdbRepeat, GdbExit, StdoutCloses, BeginShutdown, QuitReturned,
      ChildWaited, TasksJoined

(* A step that only moves calls between the points of submit is invisible  *)
(* to the callers.                                                         *)
LEMMA Invisible ==
  ASSUME TypeOK, UNCHANGED <<ret, tok, value, alive, answered>>, (writer = "done") = (writer' = "done"),
         NEW c \in Calls, NEW p \in {"register", "send", "parked", "await", "rollback"},
         pc[c] \notin {"idle", "done"}, pc' = [pc EXCEPT ![c] = p]
  PROVE  UNCHANGED <<State, Verdict, Result, Over>>
<1>1. State' = State
  BY DEF State, TypeOK
<1> QED  BY <1>1 DEF Verdict, Result, Over

(* What a caller sees of a call that returns.                              *)
LEMMA Returns ==
  ASSUME TypeOK, NEW c \in Calls, NEW r \in {"outcome", "exited", "cancelled"}, Return(c, r),
         UNCHANGED <<tok, value, alive, answered, writer>>
  PROVE  /\ State' = [State EXCEPT ![c] = r] /\ UNCHANGED <<Verdict, Over>>
         /\ Result' = [d \in Calls |-> IF d = c THEN IF r = "outcome" THEN {value[c][1].outcome} ELSE {}
                                               ELSE Result[d]]
<1>1. State' = [State EXCEPT ![c] = r]
  BY DEF State, TypeOK, Return, Goto
<1>2. Result' = [d \in Calls |-> IF d = c THEN IF r = "outcome" THEN {value[c][1].outcome} ELSE {}
                                          ELSE Result[d]]
  BY DEF Result, TypeOK, Return, Goto
<1> QED  BY <1>1, <1>2 DEF Verdict, Over

(* A call that returns no outcome leaves the results as they are.          *)
LEMMA ReturnsNone ==
  ASSUME TypeOK, TokenInv, NEW c \in Calls, pc[c] # "done", NEW r \in {"exited", "cancelled"}, Return(c, r),
         UNCHANGED <<tok, value, alive, answered, writer>>
  PROVE  State' = [State EXCEPT ![c] = r] /\ UNCHANGED <<Verdict, Result, Over>>
<1>1. ret[c] = "none"
  BY DEF TokenInv
<1>2. Result[c] = {} /\ Result' = [d \in Calls |-> IF d = c THEN {} ELSE Result[d]]
  BY <1>1, Returns DEF Result
<1>3. Result' = Result
  BY <1>2 DEF Result
<1> QED  BY <1>3, Returns

(* Every step of the command path is a step of the service or one its      *)
(* callers do not see.                                                     *)
LEMMA ServiceStep ==
  ASSUME IInv, LinesInv, [Next]_vars
  PROVE  [Service!Next]_(Service!vars)
<1> DEFINE Seen == <<State, Verdict, Result, Over>>
<1>1. TypeOK /\ TokenInv /\ SentInv /\ MapInv /\ DropInv /\ ValueInv /\ EventsInv
  BY DEF IInv
<1>2. ASSUME UNCHANGED Seen PROVE [Service!Next]_(Service!vars)
  BY <1>2 DEF Service!vars, State, Verdict, Result, Over
<1>3. ASSUME NEW c \in Calls, State[c] = "new", State' = [State EXCEPT ![c] = "asked"], UNCHANGED <<Verdict, Result, Over>>
      PROVE  Service!Ask(c)
  BY <1>3 DEF Service!Ask, State, Verdict, Result, Over
<1>4. ASSUME NEW c \in Calls, State[c] \in {"new", "asked"}, Over, State' = [State EXCEPT ![c] = "exited"],
             UNCHANGED <<Verdict, Result, Over>>
      PROVE  Service!Fail(c)
  BY <1>4 DEF Service!Fail, State, Verdict, Result, Over
<1>5. ASSUME NEW c \in Calls, State[c] = "asked", State' = [State EXCEPT ![c] = "cancelled"], UNCHANGED <<Verdict, Result, Over>>
      PROVE  Service!GiveUp(c)
  BY <1>5 DEF Service!GiveUp, State, Verdict, Result, Over
<1>6. ASSUME NEW c \in Calls, State[c] = "asked", Verdict[c] # {}, State' = [State EXCEPT ![c] = "outcome"],
             Result' = [Result EXCEPT ![c] = Verdict[c]], UNCHANGED <<Verdict, Over>>
      PROVE  Service!Answer(c)
  BY <1>6 DEF Service!Answer, State, Verdict, Result, Over
<1>7. ASSUME NEW c \in Calls, NEW o \in Outcomes, State[c] # "new", Verdict[c] = {},
             Verdict' = [Verdict EXCEPT ![c] = {o}], UNCHANGED <<State, Result, Over>>
      PROVE  Service!Decide(c, o)
  BY <1>7 DEF Service!Decide, State, Verdict, Result, Over
<1>8. ASSUME Over', UNCHANGED <<State, Verdict, Result>> PROVE Service!End
  BY <1>8 DEF Service!End, State, Verdict, Result, Over
<1> HIDE DEF Seen
<1>9. ASSUME UNCHANGED <<pc, ret, tok, value, answered, alive, writer>> PROVE UNCHANGED Seen
  BY <1>9 DEF Seen, State, Verdict, Result, Over
<1> USE DEF callVars, connVars, readerVars, writerVars, gdbVars
<1>10. ASSUME NEW c \in Calls, SubmitRefused(c) PROVE Service!Fail(c)
  <2>1. State[c] = "new" /\ Over /\ pc[c] # "done"
    BY <1>10 DEF SubmitRefused, MayCall, State, Over
  <2>2. State' = [State EXCEPT ![c] = "exited"] /\ UNCHANGED <<Verdict, Result, Over>>
    BY <1>1, <1>10, <2>1, ReturnsNone DEF SubmitRefused
  <2> QED  BY <1>4, <2>1, <2>2
<1>11. ASSUME NEW c \in Calls, SubmitBegin(c) PROVE Service!Ask(c)
  <2>1. State[c] = "new"
    BY <1>11 DEF SubmitBegin, MayCall, State
  <2>2. State' = [State EXCEPT ![c] = "asked"]
    BY <1>1, <1>11 DEF SubmitBegin, Goto, State, TypeOK
  <2>3. UNCHANGED <<Verdict, Result, Over>>
    BY <1>11 DEF SubmitBegin, Verdict, Result, Over
  <2> QED  BY <1>3, <2>1, <2>2, <2>3
<1>12. ASSUME NEW c \in Calls, ConnectionSubmit(c) PROVE UNCHANGED Seen
  <2>1. tok[c] = 0 /\ tok' = [tok EXCEPT ![c] = nextToken]
    BY <1>1, <1>12 DEF ConnectionSubmit, TokenInv
  <2>2. 0 \notin DOMAIN answered /\ nextToken \notin DOMAIN answered
    <3>1. DOMAIN answered \subseteq 0..(nextToken - 1) /\ nextToken \in Nat
      BY <1>1 DEF SentInv, Sent, TypeOK
    <3> QED  BY <3>1 DEF LinesInv
  <2>3. Verdict' = Verdict
    <3>1. UNCHANGED answered /\ tok'[c] = nextToken /\ \A d \in Calls \ {c} : tok'[d] = tok[d]
      BY <1>1, <1>12, <2>1 DEF ConnectionSubmit, TypeOK
    <3>2. \A d \in Calls : Verdict'[d] = Verdict[d]
      BY <2>1, <2>2, <3>1 DEF Verdict
    <3> QED  BY <3>2 DEF Verdict
  <2>4. State' = State
    BY <1>1, <1>12 DEF ConnectionSubmit, Goto, State, TypeOK
  <2>5. Result' = Result /\ Over' = Over
    BY <1>12 DEF ConnectionSubmit, Result, Over
  <2> QED  BY <2>3, <2>4, <2>5 DEF Seen
<1>13. ASSUME NEW c \in Calls, RegisterPending(c) \/ Send(c) \/ Park(c) \/ SendClosed(c) PROVE UNCHANGED Seen
  <2>1. /\ UNCHANGED <<ret, tok, value, alive, answered, writer>> /\ pc[c] \notin {"idle", "done"}
        /\ \E p \in {"send", "await", "parked", "rollback"} : pc' = [pc EXCEPT ![c] = p]
    BY <1>13 DEF RegisterPending, Send, Park, SendClosed, AtSend, Goto
  <2> QED  BY <1>1, <2>1, Invisible DEF Seen
<1>14. ASSUME NEW c \in Calls, Rollback(c) PROVE Service!Fail(c)
  <2>1. State[c] = "asked" /\ Over /\ pc[c] # "done"
    BY <1>1, <1>14 DEF Rollback, DropInv, State, Over
  <2>2. State' = [State EXCEPT ![c] = "exited"] /\ UNCHANGED <<Verdict, Result, Over>>
    BY <1>1, <1>14, <2>1, ReturnsNone DEF Rollback
  <2> QED  BY <1>4, <2>1, <2>2
<1>15. ASSUME NEW c \in Calls, Receive(c) PROVE Service!Answer(c) \/ Service!Fail(c)
  <2>1. State[c] = "asked" /\ pc[c] # "done"
    BY <1>15 DEF Receive, State
  <2>2. CASE slot[c] = "fired" /\ Return(c, "outcome")
    <3>1. Verdict[c] # {} /\ Verdict[c] = {value[c][1].outcome}
      BY <1>1, <2>2 DEF ValueInv, Verdict
    <3>2. /\ State' = [State EXCEPT ![c] = "outcome"] /\ UNCHANGED <<Verdict, Over>>
          /\ Result' = [d \in Calls |-> IF d = c THEN {value[c][1].outcome} ELSE Result[d]]
      BY <1>1, <1>15, <2>2, Returns DEF Receive
    <3>3. Result' = [Result EXCEPT ![c] = Verdict[c]]
      BY <3>1, <3>2 DEF Result
    <3> QED  BY <1>6, <2>1, <3>1, <3>2, <3>3
  <2>3. CASE slot[c] = "dropped" /\ Return(c, "exited")
    <3>1. Over
      BY <1>1, <2>3 DEF DropInv, Over
    <3>2. State' = [State EXCEPT ![c] = "exited"] /\ UNCHANGED <<Verdict, Result, Over>>
      BY <1>1, <1>15, <2>1, <2>3, ReturnsNone DEF Receive
    <3> QED  BY <1>4, <2>1, <3>1, <3>2
  <2> QED  BY <1>15, <2>2, <2>3 DEF Receive
<1>16. ASSUME NEW c \in Calls, Cancel(c) PROVE Service!GiveUp(c)
  <2>1. State[c] = "asked" /\ pc[c] # "done"
    BY <1>16 DEF Cancel, State
  <2>2. State' = [State EXCEPT ![c] = "cancelled"] /\ UNCHANGED <<Verdict, Result, Over>>
    BY <1>1, <1>16, <2>1, ReturnsNone DEF Cancel
  <2> QED  BY <1>5, <2>1, <2>2
<1>17. CASE Dispatch
  <2>1. UNCHANGED <<pc, ret, tok, answered, alive, writer>>
    BY <1>17 DEF Dispatch
  <2>2. ASSUME NEW c \in Calls, ret[c] = "outcome" PROVE value'[c] = value[c]
    <3>1. \A t \in DOMAIN pending : pending[t] # c
      BY <1>1, <2>2 DEF ValueInv, MapInv
    <3> QED  BY <1>1, <1>17, <3>1 DEF Dispatch, TypeOK
  <2>3. Result' = Result
    BY <2>1, <2>2 DEF Result
  <2>4. UNCHANGED <<State, Verdict>>
    BY <2>1 DEF State, Verdict
  <2>5. UNCHANGED Over
    BY <2>1 DEF Over
  <2> QED  BY <1>2, <2>3, <2>4, <2>5 DEF Seen
<1>18. CASE MarkReaderExited
  <2>1. Over' /\ UNCHANGED <<State, Verdict, Result>>
    BY <1>18 DEF MarkReaderExited, State, Verdict, Result, Over
  <2> QED  BY <1>8, <2>1 DEF Service!Next
<1>19. CASE WriterFails \/ WriterEnds
  <2>1. Over' /\ UNCHANGED <<State, Verdict, Result>>
    BY <1>19 DEF WriterFails, WriterEnds, State, Verdict, Result, Over
  <2> QED  BY <1>8, <2>1 DEF Service!Next
<1>20. CASE WriterRecv \/ WriterWrite
  <2>1. UNCHANGED <<pc, ret, tok, value, answered, alive>> /\ writer # "done" /\ writer' # "done"
    BY <1>20 DEF WriterRecv, WriterWrite
  <2>2. UNCHANGED <<State, Verdict, Result>>
    BY <2>1 DEF State, Verdict, Result
  <2>3. UNCHANGED Over
    BY <2>1 DEF Over
  <2> QED  BY <1>2, <2>2, <2>3 DEF Seen
<1>21. ASSUME NEW o \in Outcomes, GdbServe(o)
       PROVE  UNCHANGED Seen \/ \E c \in Calls : Service!Decide(c, o)
  <2> DEFINE t == Head(stdin)
  <2>1. /\ UNCHANGED <<pc, ret, tok, value, alive, writer>>
        /\ answered' = IF t \in DOMAIN answered THEN answered ELSE With(answered, t, o)
    BY <1>21 DEF GdbServe
  <2>2. t \in Range(stdin) /\ t # 0
    <3>1. Range(stdin) = {t} \cup Range(Tail(stdin))
      BY <1>1, <1>21, RangeTail DEF GdbServe, TypeOK
    <3> QED  BY <3>1 DEF LinesInv
  <2> HIDE DEF t
  <2>3. UNCHANGED <<State, Result, Over>>
    BY <2>1 DEF State, Result, Over
  <2>4. CASE t \in DOMAIN answered
    BY <2>1, <2>3, <2>4 DEF Seen, Verdict
  <2>5. CASE t \notin DOMAIN answered /\ \A c \in Calls : tok[c] # t
    <3>1. \A c \in Calls : Verdict'[c] = Verdict[c]
      BY <2>1, <2>5 DEF Verdict, With
    <3>2. Verdict' = Verdict
      BY <3>1 DEF Verdict
    <3> QED  BY <2>3, <3>2 DEF Seen
  <2>6. ASSUME t \notin DOMAIN answered, NEW c \in Calls, tok[c] = t PROVE Service!Decide(c, o)
    <3>1. \A d \in Calls \ {c} : tok[d] # t
      BY <1>1, <2>2, <2>6 DEF TokenInv
    <3>2. Verdict[c] = {} /\ Verdict'[c] = {o}
      BY <2>1, <2>6 DEF Verdict, With
    <3>3. \A d \in Calls \ {c} : Verdict'[d] = Verdict[d]
      BY <2>1, <2>6, <3>1 DEF Verdict, With
    <3>4. Verdict' = [Verdict EXCEPT ![c] = {o}]
      BY <3>2, <3>3 DEF Verdict
    <3>5. State[c] # "new"
      BY <1>1, <2>2, <2>6 DEF State, TokenInv, TypeOK
    <3> QED  BY <1>7, <2>3, <3>2, <3>4, <3>5
  <2> QED  BY <2>4, <2>5, <2>6
<1>22. ASSUME UNCHANGED <<pc, ret, tok, value, answered, alive, writer>> PROVE [Service!Next]_(Service!vars)
  BY <1>2, <1>9, <1>22
<1>23. ASSUME NEW c \in Calls, SubmitRefused(c) \/ SubmitBegin(c) \/ CallStep(c) \/ Cancel(c)
       PROVE  [Service!Next]_(Service!vars)
  BY <1>2, <1>10, <1>11, <1>12, <1>13, <1>14, <1>15, <1>16, <1>23 DEF CallStep, Service!Next
<1>24. CASE WriterStep \/ GdbStep \/ StdoutCloses
  BY <1>2, <1>19, <1>20, <1>21, <1>22, <1>24
  DEF WriterStep, GdbStep, GdbRepeat, GdbExit, StdoutCloses, Service!Next
<1>25. CASE ReaderStep \/ \E n \in 0..Len(stdout) : ReadFails(n)
  BY <1>2, <1>17, <1>18, <1>22, <1>25
  DEF ReaderStep, ReadChunk, ReadFails, ReadEof, DrainPending, Service!Next
<1>26. CASE BeginShutdown \/ ShutdownStep \/ Terminated \/ UNCHANGED vars
  BY <1>22, <1>26
  DEF BeginShutdown, ShutdownStep, QuitReturned, ChildWaited, TasksJoined, Terminated, vars
<1> QED  BY <1>23, <1>24, <1>25, <1>26 DEF Next

(* Seen from its callers the transport is the CommandService: a command is *)
(* asked once and answered at most once, with GDB's first verdict on it;   *)
(* Exited comes only when the session is over.                             *)
THEOREM ImplementsService == Spec => ServiceSpec
<1>1. Init => LinesInv /\ Service!Init
  <2> SUFFICES ASSUME Init PROVE LinesInv /\ Service!Init
    OBVIOUS
  <2>1. Range(<<>>) = {} /\ DOMAIN NoEntries = {}
    BY DEF Range, NoEntries
  <2>2. LinesInv
    BY <2>1 DEF Init, LinesInv
  <2>3. Service!Init
    BY <2>1 DEF Init, Service!Init
  <2> QED  BY <2>2, <2>3
<1>2. IInv /\ LinesInv /\ [Next]_vars => LinesInv'
  BY LinesStep DEF IInv
<1>3. IInv /\ LinesInv /\ [Next]_vars => [Service!Next]_(Service!vars)
  BY ServiceStep
<1> QED  BY <1>1, <1>2, <1>3, Inductive, PTL DEF Spec, ServiceSpec, Service!Spec
=============================================================================
