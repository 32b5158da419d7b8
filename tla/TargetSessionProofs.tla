------------------------- MODULE TargetSessionProofs -------------------------
(***************************************************************************)
(* Theorems about the target session, for any tools, any targets and any   *)
(* number of requests.                                                     *)
(***************************************************************************)
EXTENDS TargetSession, SequenceTheorems, FiniteSetTheorems, TLAPS

(* A caller at one of these awaits the answer to a target-select.          *)
Selecting == {"first", "retry", "raw", "reselect"}

Entry == [caller : Callers \cup {Nobody}, op : Targets \cup Ops]
QueueInv == queue \in Seq(Entry)

(* The bootstrap comes first, then --connect, then the tools; a session    *)
(* that failed does nothing any more.                                      *)
PhaseInv ==
  /\ pc[Startup] = "boot" => phase = "bootstrap" /\ settled < Len(BootstrapCommands)
  /\ pc[Startup] \notin {"idle", "boot"} => phase = "connect"
  /\ phase # "serving" => \A c \in Callers \ {Startup} : pc[c] = "idle"
  /\ phase = "failed" => pc[Startup] = "idle"

(* Who selects has a target to select, and has selected it once before the *)
(* retry.                                                                  *)
SelectInv ==
  \A c \in Callers :
    /\ pc[c] \in Selecting \cup {"off", "disconnect"} => sel[c] \in Targets
    /\ tries[c] \in 0..2
    /\ pc[c] \in {"first", "off"} => tries[c] = 1

(* A task has one command at a time: it is queued, or answered and the     *)
(* task is to resume.                                                      *)
TaskInv ==
  /\ \A i, j \in DOMAIN queue : queue[i].caller = queue[j].caller /\ queue[i].caller \in Tasks => i = j
  /\ \A i, j \in DOMAIN runq : runq[i] = runq[j] => i = j
  /\ \A i \in DOMAIN queue, j \in DOMAIN runq : queue[i].caller # runq[j]
  /\ \A j \in DOMAIN runq : pc[runq[j]] # "idle"

(* What is queued is what its caller awaits.                               *)
EntryInv ==
  /\ \A i \in DOMAIN queue :
       LET c == queue[i].caller IN
       c \in Tasks =>
         /\ pc[c] # "idle"
         /\ pc[c] \in Selecting => queue[i].op = sel[c]
         /\ pc[c] \notin Selecting => queue[i].op \in Ops
  /\ \A i \in DOMAIN queue : queue[i].caller = Scheme => queue[i].op \in Targets
  /\ reply[Scheme] = "ok" => byScheme

(* The latest selection is that of the last task to resume with one that   *)
(* GDB accepted; if none is to resume, it is remembered.                   *)
Accepted(i) == pc[runq[i]] \in Selecting /\ reply[runq[i]] = "ok"
MemoInv ==
  ~byScheme =>
    /\ (\A i \in DOMAIN runq : ~Accepted(i)) => memo = latest
    /\ \A i \in DOMAIN runq :
         Accepted(i) /\ (\A j \in DOMAIN runq : Accepted(j) => j <= i) => latest = sel[runq[i]]

IInv ==
  /\ TypeOK /\ QueueInv /\ PhaseInv /\ SelectInv
  /\ phase # "failed" => TaskInv /\ EntryInv /\ MemoInv

-----------------------------------------------------------------------------
(* The callers are distinct, and what the code submits is a command.       *)

LEMMA Names ==
  /\ Startup # Scheme /\ Startup # Nobody /\ Scheme # Nobody
  /\ Startup \in Tasks /\ Scheme \notin Tasks /\ Nobody \notin Tasks /\ Nobody \notin Callers
  /\ Callers = Tasks \cup {Scheme} /\ Tasks \subseteq Callers
  /\ Targets \cap Ops = {} /\ NoTarget \notin Targets
<1>1. ASSUME NEW a, NEW b PROVE Cardinality({a, b}) \in {1, 2}
  <2>1. IsFiniteSet({a}) /\ Cardinality({a}) = 1
    BY FS_Singleton
  <2>2. {a, b} = {a} \cup {b}
    OBVIOUS
  <2> QED  BY <2>1, <2>2, FS_AddElement
<1>2. \A a, b : {a, b} # {Startup, Scheme, Nobody}
  <2> SUFFICES ASSUME NEW a, NEW b, {a, b} = {Startup, Scheme, Nobody} PROVE FALSE
    OBVIOUS
  <2>1. Cardinality({a, b}) = 3
    BY NamesAssumption
  <2>2. Cardinality({a, b}) \in {1, 2}
    BY <1>1
  <2> QED  BY <2>1, <2>2
<1>3. Startup # Scheme
  <2> SUFFICES ASSUME Startup = Scheme PROVE FALSE
    OBVIOUS
  <2>1. {Startup, Nobody} = {Startup, Scheme, Nobody}
    OBVIOUS
  <2> QED  BY <1>2, <2>1
<1>4. Startup # Nobody
  <2> SUFFICES ASSUME Startup = Nobody PROVE FALSE
    OBVIOUS
  <2>1. {Startup, Scheme} = {Startup, Scheme, Nobody}
    OBVIOUS
  <2> QED  BY <1>2, <2>1
<1>5. Scheme # Nobody
  <2> SUFFICES ASSUME Scheme = Nobody PROVE FALSE
    OBVIOUS
  <2>1. {Startup, Scheme} = {Startup, Scheme, Nobody}
    OBVIOUS
  <2> QED  BY <1>2, <2>1
<1> QED  BY <1>3, <1>4, <1>5, NamesAssumption DEF Tasks, Callers, Ops

LEMMA Bootstrap ==
  /\ Len(BootstrapCommands) \in {3, 4}
  /\ \A i \in 1..Len(BootstrapCommands) : BootstrapCommands[i] \in Ops
<1>1. CASE NonStop
  BY <1>1 DEF BootstrapCommands, Ops
<1>2. CASE ~NonStop
  BY <1>2 DEF BootstrapCommands, Ops
<1> QED  BY <1>1, <1>2

-----------------------------------------------------------------------------
(* What the steps of the callers have in common.                           *)

(* An idle caller submits the first command of a request.                  *)
Fits(op, point, t) ==
  /\ point \in Points \ {"idle"}
  /\ IF point \in Selecting THEN op = t /\ t \in Targets ELSE op \in Ops
  /\ point \in {"off", "disconnect"} => t \in Targets

Started(c, op, point) ==
  /\ pc[c] = "idle" /\ point # "boot"
  /\ IF c = Startup THEN phase = "connect" ELSE phase = "serving"
  /\ Submit(c, op, point) /\ Fits(op, point, sel'[c])
  /\ \E t \in Targets \cup {NoTarget} : sel' = [sel EXCEPT ![c] = t]
  /\ tries' \in {tries, [tries EXCEPT ![c] = 1]}
  /\ point \in {"first", "off"} => tries'[c] = 1
  /\ c = Scheme => op \in Targets
  /\ UNCHANGED <<phase, settled, reply, runq, memo, probing, gdbVars>>

LEMMA RequestShape ==
  ASSUME TypeOK, Request
  PROVE  \E c \in Callers, op \in Targets \cup Ops, point \in Points : Started(c, op, point)
<1>1. PICK c \in Callers : TargetSelect(c) \/ RawSelect(c) \/ RawNonStop(c) \/ Reconnect(c)
  BY DEF Request
<1>2. CASE TargetSelect(c)
  <2>1. PICK t \in Targets : sel' = [sel EXCEPT ![c] = t]
    BY <1>2 DEF TargetSelect
  <2>2. sel'[c] = t
    BY <2>1 DEF TypeOK
  <2>3. Started(c, t, "first")
    BY <1>2, <2>1, <2>2, Names DEF TargetSelect, Begins, Select, Started, Fits, Points, Selecting, TypeOK
  <2> QED  BY <2>3 DEF Points
<1>3. CASE RawSelect(c)
  <2>1. PICK t \in Targets : sel' = [sel EXCEPT ![c] = t]
    BY <1>3 DEF RawSelect
  <2>2. sel'[c] = t
    BY <2>1 DEF TypeOK
  <2>3. Started(c, t, "raw")
    BY <1>3, <2>1, <2>2, Names DEF RawSelect, Begins, Select, Started, Fits, Points, Selecting, TypeOK
  <2> QED  BY <2>3 DEF Points
<1>4. CASE RawNonStop(c)
  <2>1. sel' = [sel EXCEPT ![c] = sel[c]] /\ sel[c] \in Targets \cup {NoTarget} /\ c # Scheme
    BY <1>4, Names DEF RawNonStop, TypeOK, Tasks
  <2>2. Started(c, "non-stop", "set")
    BY <1>4, <2>1, Names DEF RawNonStop, Begins, Started, Fits, Points, Selecting, Ops
  <2> QED  BY <2>2 DEF Points, Ops
<1>5. CASE Reconnect(c)
  <2>1. sel' = [sel EXCEPT ![c] = memo] /\ memo \in Targets /\ sel'[c] = memo /\ c # Scheme
    BY <1>5, Names DEF Reconnect, TypeOK, Tasks
  <2>2. Started(c, "disconnect", "disconnect")
    BY <1>5, <2>1, Names DEF Reconnect, Begins, Started, Fits, Points, Selecting, Ops
  <2> QED  BY <2>2 DEF Points, Ops
<1> QED  BY <1>1, <1>2, <1>3, <1>4, <1>5

Continues(c, op, point) ==
  /\ Continue(c, op, point) /\ Fits(op, point, sel[c]) /\ UNCHANGED phase
  /\ \E n \in 0..2 : tries' = [tries EXCEPT ![c] = n] /\ (point \in {"first", "off"} => n = 1)
  /\ pc[c] = "boot" => point = "boot" /\ settled' < Len(BootstrapCommands)
  /\ pc[c] # "boot" => point # "boot"

(* A task resumes with its answer, remembers an accepted selection, and    *)
(* returns or submits its next command.                                    *)
Resumed(c) ==
  /\ runq # <<>> /\ c = Head(runq) /\ runq' = Tail(runq) /\ pc[c] # "idle"
  /\ reply' = [reply EXCEPT ![c] = "none"] /\ UNCHANGED gdbVars
  /\ memo' = IF pc[c] \in Selecting /\ reply[c] = "ok" THEN sel[c] ELSE memo
  /\ probing' \in Nat /\ settled' \in 0..Len(BootstrapCommands)
  /\ \/ /\ Return(c)
        /\ phase' \in IF c = Startup THEN {"connect", "serving", "failed"} ELSE {phase}
     \/ \E op, point : Continues(c, op, point)

LEMMA ResumeShape ==
  ASSUME TypeOK, PhaseInv, SelectInv, Resume
  PROVE  \E c \in Tasks : Resumed(c)
<1> USE DEF Selecting
<1>1. ASSUME NEW c, NEW point \in Points \ {"idle"}, Resumes(c, point)
      PROVE  /\ runq # <<>> /\ c = Head(runq) /\ runq' = Tail(runq) /\ pc[c] = point /\ pc[c] # "idle"
             /\ reply' = [reply EXCEPT ![c] = "none"] /\ UNCHANGED gdbVars
  BY <1>1 DEF Resumes
<1>2. Startup \in Tasks /\ probing \in Nat /\ settled \in 0..Len(BootstrapCommands) /\ Len(BootstrapCommands) \in Nat
  BY Names, Bootstrap DEF TypeOK
<1>3. CASE BootReply
  <2>1. /\ runq # <<>> /\ Startup = Head(runq) /\ runq' = Tail(runq) /\ pc[Startup] = "boot"
        /\ reply' = [reply EXCEPT ![Startup] = "none"] /\ UNCHANGED gdbVars
    BY <1>1, <1>3 DEF BootReply, Points
  <2>2. settled < Len(BootstrapCommands) /\ UNCHANGED <<memo, probing>>
    BY <1>3, <2>1 DEF PhaseInv, BootReply
  <2>3. CASE reply[Startup] # "ok"
    BY <1>2, <1>3, <2>1, <2>2, <2>3 DEF BootReply, Resumed
  <2>4. CASE reply[Startup] = "ok" /\ settled' < Len(BootstrapCommands)
    <3>1. settled' = settled + 1 /\ Continue(Startup, BootstrapCommands[settled' + 1], "boot") /\ UNCHANGED <<phase, tries>>
      BY <1>3, <2>4 DEF BootReply
    <3>2. Fits(BootstrapCommands[settled' + 1], "boot", sel[Startup])
      BY <1>2, <2>4, <3>1, Bootstrap DEF Fits, Points
    <3>3. \E n \in 0..2 : tries' = [tries EXCEPT ![Startup] = n]
      BY <1>2, <3>1, Names DEF SelectInv, TypeOK
    <3>4. Continues(Startup, BootstrapCommands[settled' + 1], "boot")
      BY <2>1, <2>4, <3>1, <3>2, <3>3 DEF Continues
    <3>5. settled' \in 0..Len(BootstrapCommands)
      BY <1>2, <2>2, <3>1
    <3> QED  BY <1>2, <2>1, <2>2, <3>4, <3>5 DEF Resumed
  <2>5. CASE reply[Startup] = "ok" /\ ~(settled' < Len(BootstrapCommands))
    <3>1. settled' = settled + 1 /\ phase' = "connect" /\ Return(Startup)
      BY <1>3, <2>5 DEF BootReply
    <3>2. settled' \in 0..Len(BootstrapCommands)
      BY <1>2, <2>2, <3>1
    <3> QED  BY <1>2, <2>1, <2>2, <3>1, <3>2 DEF Resumed
  <2> QED  BY <2>3, <2>4, <2>5
<1>4. ASSUME NEW c \in Tasks, FirstReply(c) \/ DowngradeReply(c) \/ RetryReply(c) PROVE Resumed(c)
  <2>1. /\ runq # <<>> /\ c = Head(runq) /\ runq' = Tail(runq) /\ pc[c] # "idle" /\ pc[c] \in {"first", "off", "retry"}
        /\ reply' = [reply EXCEPT ![c] = "none"] /\ UNCHANGED <<gdbVars, settled>>
    BY <1>1, <1>4 DEF FirstReply, DowngradeReply, RetryReply, Points
  <2>2. pc[c] \in {"first", "off"} => tries[c] = 1 /\ sel[c] \in Targets
    BY <2>1, Names DEF SelectInv
  <2>3. CASE Selected(c) /\ pc[c] \in {"first", "retry"} /\ reply[c] = "ok"
    BY <1>2, <2>1, <2>3 DEF Selected, Remember, Resumed
  <2>4. CASE Failed(c) /\ ~(pc[c] \in {"first", "retry"} /\ reply[c] = "ok")
    BY <1>2, <2>1, <2>4 DEF Failed, Resumed
  <2>5. CASE FirstReply(c) /\ reply[c] = "mismatch" /\ Continue(c, "off", "off") /\ UNCHANGED <<phase, tries, memo, probing>>
    <3>1. pc[c] = "first" /\ Fits("off", "off", sel[c])
      BY <2>2, <2>5 DEF FirstReply, Resumes, Fits, Points, Ops
    <3>2. tries' = [tries EXCEPT ![c] = 1]
      BY <2>2, <2>5, <3>1, Names DEF TypeOK
    <3>3. \E n \in 0..2 : tries' = [tries EXCEPT ![c] = n] /\ n = 1
      BY <3>2
    <3>4. Continue(c, "off", "off") /\ UNCHANGED phase
      BY <2>5
    <3>5. Continues(c, "off", "off")
      BY <3>1, <3>3, <3>4 DEF Continues
    <3> QED  BY <1>2, <2>1, <2>5, <3>5 DEF Resumed
  <2>6. CASE DowngradeReply(c) /\ reply[c] = "ok"
    <3>1. pc[c] = "off" /\ Continue(c, sel[c], "retry") /\ UNCHANGED <<phase, memo, probing>>
      BY <2>6 DEF DowngradeReply, Resumes
    <3>2. tries' = [tries EXCEPT ![c] = 2] /\ Fits(sel[c], "retry", sel[c])
      BY <2>2, <2>6, <3>1 DEF DowngradeReply, Fits, Points
    <3>3. Continues(c, sel[c], "retry")
      BY <3>1, <3>2 DEF Continues
    <3> QED  BY <1>2, <2>1, <3>1, <3>3 DEF Resumed
  <2> QED  BY <1>4, <2>3, <2>4, <2>5, <2>6 DEF FirstReply, DowngradeReply, RetryReply, Resumes
<1>5. ASSUME NEW c \in Tasks, SetReply(c) \/ RawReply(c) \/ ReselectReply(c) PROVE Resumed(c)
  <2>1. /\ runq # <<>> /\ c = Head(runq) /\ runq' = Tail(runq) /\ pc[c] \in {"set", "raw", "reselect"}
        /\ reply' = [reply EXCEPT ![c] = "none"] /\ UNCHANGED <<gdbVars, settled, phase, probing>> /\ Return(c)
    BY <1>1, <1>5 DEF SetReply, RawReply, ReselectReply, Points
  <2>2. memo' = IF pc[c] \in Selecting /\ reply[c] = "ok" THEN sel[c] ELSE memo
    BY <1>5 DEF SetReply, RawReply, ReselectReply, Resumes, Remember
  <2>3. c = Startup => phase = "connect"
    BY <2>1 DEF PhaseInv
  <2> QED  BY <1>2, <2>1, <2>2, <2>3 DEF Resumed
<1>6. ASSUME NEW c \in Tasks, DisconnectReply(c) PROVE Resumed(c)
  <2>1. /\ runq # <<>> /\ c = Head(runq) /\ runq' = Tail(runq) /\ pc[c] = "disconnect"
        /\ reply' = [reply EXCEPT ![c] = "none"] /\ UNCHANGED <<gdbVars, settled, phase, memo, probing>>
    BY <1>1, <1>6 DEF DisconnectReply, Points
  <2>2. (c = Startup => phase = "connect") /\ sel[c] \in Targets
    BY <2>1, Names DEF PhaseInv, SelectInv
  <2>3. CASE Return(c)
    BY <1>2, <2>1, <2>2, <2>3 DEF Resumed
  <2>4. CASE Continue(c, sel[c], "reselect") /\ tries' = [tries EXCEPT ![c] = 1]
    <3>1. Fits(sel[c], "reselect", sel[c])
      BY <2>2 DEF Fits, Points
    <3>2. Continues(c, sel[c], "reselect")
      BY <2>1, <2>4, <3>1 DEF Continues
    <3> QED  BY <1>2, <2>1, <2>4, <3>2 DEF Resumed
  <2> QED  BY <1>6, <2>3, <2>4 DEF DisconnectReply
<1> QED  BY <1>2, <1>3, <1>4, <1>5, <1>6 DEF Resume

-----------------------------------------------------------------------------
(* The inductive invariant, part by part.                                  *)

(* A command GDB answers leaves the queue; one that is submitted joins it. *)
LEMMA Answered ==
  ASSUME QueueInv, queue # <<>>
  PROVE  /\ Head(queue) \in Entry /\ Tail(queue) \in Seq(Entry)
         /\ Head(queue) = queue[1] /\ 1 \in DOMAIN queue
         /\ \A i \in DOMAIN Tail(queue) : i \in Nat /\ i >= 1 /\ i + 1 \in DOMAIN queue /\ Tail(queue)[i] = queue[i + 1]
<1>1. /\ Head(queue) \in Entry /\ Tail(queue) \in Seq(Entry) /\ Len(Tail(queue)) = Len(queue) - 1
      /\ \A i \in 1..Len(Tail(queue)) : Tail(queue)[i] = queue[i + 1]
  BY HeadTailProperties DEF QueueInv
<1>2. Len(queue) \in Nat /\ Len(queue) # 0 /\ DOMAIN queue = 1..Len(queue)
  BY LenProperties, EmptySeq DEF QueueInv
<1>3. DOMAIN Tail(queue) = 1..Len(queue) - 1
  BY <1>1, LenProperties
<1>4. Head(queue) = queue[1]
  OBVIOUS
<1> QED  BY <1>1, <1>2, <1>3, <1>4

LEMMA Submitted ==
  ASSUME QueueInv, NEW e \in Entry
  PROVE  /\ Append(queue, e) \in Seq(Entry)
         /\ \A i \in DOMAIN Append(queue, e) :
              \/ i \in DOMAIN queue /\ Append(queue, e)[i] = queue[i]
              \/ i = Len(queue) + 1 /\ Append(queue, e)[i] = e
<1>1. Len(queue) \in Nat /\ DOMAIN queue = 1..Len(queue)
  BY LenProperties DEF QueueInv
<1>2. /\ Append(queue, e) \in Seq(Entry) /\ Len(Append(queue, e)) = Len(queue) + 1
      /\ \A i \in 1..Len(queue) : Append(queue, e)[i] = queue[i]
      /\ Append(queue, e)[Len(queue) + 1] = e
  BY AppendProperties DEF QueueInv
<1>3. DOMAIN Append(queue, e) = 1..Len(queue) + 1
  BY <1>2, LenProperties
<1> QED  BY <1>1, <1>2, <1>3

(* The task whose answer comes first resumes; the others keep their order. *)
LEMMA Popped ==
  ASSUME TypeOK, runq # <<>>
  PROVE  /\ Head(runq) \in Tasks /\ Tail(runq) \in Seq(Tasks)
         /\ Head(runq) = runq[1] /\ 1 \in DOMAIN runq
         /\ \A i \in DOMAIN Tail(runq) : i \in Nat /\ i >= 1 /\ i + 1 \in DOMAIN runq /\ Tail(runq)[i] = runq[i + 1]
         /\ \A i \in DOMAIN runq : i \in Nat /\ i >= 1 /\ (i # 1 => i - 1 \in DOMAIN Tail(runq))
<1>1. /\ Head(runq) \in Tasks /\ Tail(runq) \in Seq(Tasks) /\ Len(Tail(runq)) = Len(runq) - 1
      /\ \A i \in 1..Len(Tail(runq)) : Tail(runq)[i] = runq[i + 1]
  BY HeadTailProperties DEF TypeOK
<1>2. Len(runq) \in Nat /\ Len(runq) # 0 /\ DOMAIN runq = 1..Len(runq)
  BY LenProperties, EmptySeq DEF TypeOK
<1>3. DOMAIN Tail(runq) = 1..Len(runq) - 1
  BY <1>1, LenProperties
<1>4. Head(runq) = runq[1]
  OBVIOUS
<1> QED  BY <1>1, <1>2, <1>3, <1>4

LEMMA Pushed ==
  ASSUME TypeOK, NEW c \in Tasks
  PROVE  /\ Append(runq, c) \in Seq(Tasks)
         /\ \A i \in DOMAIN runq : i \in Nat /\ i < Len(runq) + 1 /\ i \in DOMAIN Append(runq, c) /\ Append(runq, c)[i] = runq[i]
         /\ Len(runq) + 1 \in DOMAIN Append(runq, c) /\ Append(runq, c)[Len(runq) + 1] = c
         /\ \A i \in DOMAIN Append(runq, c) : i \in DOMAIN runq \/ i = Len(runq) + 1
<1>1. Len(runq) \in Nat /\ DOMAIN runq = 1..Len(runq)
  BY LenProperties DEF TypeOK
<1>2. /\ Append(runq, c) \in Seq(Tasks) /\ Len(Append(runq, c)) = Len(runq) + 1
      /\ \A i \in 1..Len(runq) : Append(runq, c)[i] = runq[i]
      /\ Append(runq, c)[Len(runq) + 1] = c
  BY AppendProperties DEF TypeOK
<1>3. DOMAIN Append(runq, c) = 1..Len(runq) + 1
  BY <1>2, LenProperties
<1> QED  BY <1>1, <1>2, <1>3

(* The Scheme thread disowns its command, which keeps its place.           *)
LEMMA Disowned ==
  ASSUME QueueInv, SchemeTimesOut
  PROVE  /\ queue' \in Seq(Entry) /\ DOMAIN queue' = DOMAIN queue
         /\ \A i \in DOMAIN queue : /\ queue'[i].op = queue[i].op
                                    /\ queue'[i].caller = IF queue[i].caller = Scheme THEN Nobody ELSE queue[i].caller
<1>1. Len(queue) \in Nat /\ DOMAIN queue = 1..Len(queue) /\ \A i \in 1..Len(queue) : queue[i] \in Entry
  BY LenProperties, ElementOfSeq DEF QueueInv
<1>2. queue' = [i \in 1..Len(queue) |->
                  IF queue[i].caller = Scheme THEN [queue[i] EXCEPT !.caller = Nobody] ELSE queue[i]]
  BY <1>1 DEF SchemeTimesOut
<1>3. \A i \in 1..Len(queue) : queue'[i] \in Entry
  BY <1>1, <1>2 DEF Entry
<1>4. queue' \in [1..Len(queue) -> Entry]
  BY <1>2, <1>3
<1>5. queue' \in Seq(Entry)
  BY <1>1, <1>4, SeqDef
<1>6. \A i \in 1..Len(queue) :
        /\ queue'[i].op = queue[i].op
        /\ queue'[i].caller = IF queue[i].caller = Scheme THEN Nobody ELSE queue[i].caller
  BY <1>1, <1>2 DEF Entry
<1> QED  BY <1>1, <1>2, <1>5, <1>6

LEMMA TypeStep == IInv /\ [Next]_vars => TypeOK' /\ QueueInv'
<1> SUFFICES ASSUME TypeOK, QueueInv, PhaseInv, SelectInv, [Next]_vars PROVE TypeOK' /\ QueueInv'
  BY DEF IInv
<1> DEFINE Rest ==
      /\ phase \in {"bootstrap", "connect", "serving", "failed"} /\ settled \in 0..Len(BootstrapCommands)
      /\ pc \in [Callers -> Points] /\ sel \in [Callers -> Targets \cup {NoTarget}] /\ tries \in [Callers -> Nat]
      /\ reply \in [Callers -> {"none", "ok", "error", "mismatch", "exited"}] /\ runq \in Seq(Tasks)
      /\ memo \in Targets \cup {NoTarget} /\ latest \in Targets \cup {NoTarget}
      /\ probing \in Nat /\ nonstop \in BOOLEAN /\ gone \in BOOLEAN /\ byScheme \in BOOLEAN
<1>1. Rest
  BY DEF TypeOK
<1>2. ASSUME Rest', QueueInv' PROVE TypeOK' /\ QueueInv'
  <2>1. \A i \in DOMAIN queue' : queue'[i] \in Entry
    BY <1>2, LenProperties, ElementOfSeq DEF QueueInv
  <2>2. \A i \in DOMAIN queue' : queue'[i].caller \in Callers \cup {Nobody} /\ queue'[i].op \in Targets \cup Ops
    BY <2>1 DEF Entry
  <2> QED  BY <1>2, <2>2 DEF TypeOK
<1>3. CASE Answer
  <2>1. queue # <<>> /\ queue' = Tail(queue)
    BY <1>3 DEF Answer
  <2>2. QueueInv' /\ Head(queue) \in Entry
    BY <2>1, Answered DEF QueueInv
  <2> DEFINE c == Head(queue).caller  op == Head(queue).op
  <2>3. c \in Callers \cup {Nobody} /\ op \in Targets \cup Ops
    BY <2>2 DEF Entry
  <2>4. PICK r \in {"ok", "error", "mismatch", "exited"} : Give(c, r)
    BY <1>3 DEF Answer, Refusals
  <2>5. (nonstop' \in BOOLEAN /\ latest' \in Targets \cup {NoTarget} /\ byScheme' \in BOOLEAN)
    <3>1. CASE Accepts(c, op)
      <4>1. nonstop' \in BOOLEAN /\ latest' \in Targets \cup {NoTarget}
        BY <1>1, <3>1 DEF Accepts
      <4>2. byScheme' \in BOOLEAN
        BY <1>1, <3>1 DEF Accepts
      <4> QED  BY <4>1, <4>2
    <3>2. CASE UNCHANGED <<nonstop, latest, byScheme>>
      BY <1>1, <3>2
    <3> QED  BY <1>3, <3>1, <3>2 DEF Answer
  <2>6. reply' \in [Callers -> {"none", "ok", "error", "mismatch", "exited"}]
    BY <1>1, <2>4 DEF Give
  <2>7. runq' \in Seq(Tasks)
    BY <2>4, Pushed DEF Give, TypeOK
  <2>8. UNCHANGED <<phase, settled, pc, sel, tries, memo, probing, gone>>
    BY <1>3 DEF Answer
  <2> QED  BY <1>1, <1>2, <2>2, <2>5, <2>6, <2>7, <2>8
<1>4. ASSUME GdbExits \/ NoConnect \/ ProbeEnds \/ UNCHANGED vars PROVE TypeOK' /\ QueueInv'
  <2>1. UNCHANGED <<settled, pc, sel, tries, queue, reply, runq, memo, nonstop, latest, byScheme>>
    BY <1>4 DEF GdbExits, NoConnect, ProbeEnds, vars, callerVars, gdbVars
  <2>2. phase' \in {"bootstrap", "connect", "serving", "failed"} /\ gone' \in BOOLEAN
    BY <1>1, <1>4 DEF GdbExits, NoConnect, ProbeEnds, vars, gdbVars
  <2>3. probing' \in Nat
    BY <1>1, <1>4 DEF GdbExits, NoConnect, ProbeEnds, vars
  <2> QED  BY <1>1, <1>2, <2>1, <2>2, <2>3 DEF QueueInv
<1>5. CASE BootTimesOut
  <2>1. Startup \in Callers /\ <<>> \in Seq(Tasks)
    BY Names, EmptySeq
  <2>2. /\ pc' \in [Callers -> Points] /\ sel' \in [Callers -> Targets \cup {NoTarget}] /\ tries' \in [Callers -> Nat]
        /\ runq' \in Seq(Tasks) /\ phase' = "failed"
    BY <1>1, <1>5, <2>1 DEF BootTimesOut, Return, GivesUp, Points
  <2>3. UNCHANGED <<queue, settled, reply, memo, probing, nonstop, gone, latest, byScheme>>
    BY <1>5 DEF BootTimesOut, Return, gdbVars
  <2> QED  BY <1>1, <1>2, <2>2, <2>3 DEF QueueInv
<1>6. ASSUME SchemeReply \/ SchemeTimesOut PROVE TypeOK' /\ QueueInv'
  <2>1. /\ pc' \in [Callers -> Points] /\ sel' \in [Callers -> Targets \cup {NoTarget}] /\ tries' \in [Callers -> Nat]
    <3>1. GivesUp(Scheme)
      BY <1>6 DEF SchemeReply, SchemeTimesOut, Return
    <3> QED  BY <1>1, <3>1 DEF GivesUp, Points
  <2>2. memo' \in Targets \cup {NoTarget}
    BY <1>1, <1>6, Names DEF SchemeReply, SchemeTimesOut, Remember
  <2>3. reply' \in [Callers -> {"none", "ok", "error", "mismatch", "exited"}]
    BY <1>1, <1>6 DEF SchemeReply, SchemeTimesOut
  <2>4. QueueInv'
    BY <1>6, Disowned DEF SchemeReply, Return, QueueInv
  <2>5. UNCHANGED <<phase, settled, runq, probing, nonstop, gone, latest, byScheme>>
    BY <1>6 DEF SchemeReply, SchemeTimesOut, gdbVars
  <2> QED  BY <1>1, <1>2, <2>1, <2>2, <2>3, <2>4, <2>5
<1>7. CASE Request
  <2>1. PICK c \in Callers, op \in Targets \cup Ops, point \in Points : Started(c, op, point)
    BY <1>7, RequestShape
  <2>2. [caller |-> c, op |-> op] \in Entry
    BY DEF Entry
  <2>3. QueueInv'
    BY <2>1, <2>2, Submitted DEF Started, Submit, QueueInv
  <2>4. pc' \in [Callers -> Points] /\ sel' \in [Callers -> Targets \cup {NoTarget}] /\ tries' \in [Callers -> Nat]
    <3>1. pc' = [pc EXCEPT ![c] = point] /\ tries' \in {tries, [tries EXCEPT ![c] = 1]}
      BY <2>1 DEF Started, Submit
    <3>2. PICK t \in Targets \cup {NoTarget} : sel' = [sel EXCEPT ![c] = t]
      BY <2>1 DEF Started
    <3> QED  BY <1>1, <3>1, <3>2
  <2>5. UNCHANGED <<phase, settled, reply, runq, memo, probing, nonstop, gone, latest, byScheme>>
    BY <2>1 DEF Started, gdbVars
  <2> QED  BY <1>1, <1>2, <2>3, <2>4, <2>5
<1>8. CASE Resume
  <2>1. PICK c \in Tasks : Resumed(c)
    BY <1>8, ResumeShape
  <2>2. c \in Callers
    BY Names
  <2>3. runq' \in Seq(Tasks)
    BY <2>1, Popped DEF Resumed
  <2>4. /\ reply' \in [Callers -> {"none", "ok", "error", "mismatch", "exited"}]
        /\ memo' \in Targets \cup {NoTarget} /\ probing' \in Nat /\ settled' \in 0..Len(BootstrapCommands)
        /\ UNCHANGED <<nonstop, gone, latest, byScheme>>
    BY <1>1, <2>1, <2>2 DEF Resumed, gdbVars
  <2>5. CASE Return(c) /\ phase' \in IF c = Startup THEN {"connect", "serving", "failed"} ELSE {phase}
    <3>1. /\ pc' \in [Callers -> Points] /\ sel' \in [Callers -> Targets \cup {NoTarget}] /\ tries' \in [Callers -> Nat]
          /\ QueueInv' /\ phase' \in {"bootstrap", "connect", "serving", "failed"}
      BY <1>1, <2>2, <2>5 DEF Return, GivesUp, QueueInv, Points
    <3> QED  BY <1>1, <1>2, <2>3, <2>4, <3>1
  <2>6. CASE \E op, point : Continues(c, op, point)
    <3>1. PICK op, point : Continues(c, op, point)
      BY <2>6
    <3>2. op \in Targets \cup Ops /\ point \in Points
      BY <3>1 DEF Continues, Fits
    <3>3. [caller |-> c, op |-> op] \in Entry
      BY <2>2, <3>2 DEF Entry
    <3>4. QueueInv'
      BY <3>1, <3>3, Submitted DEF Continues, Continue, Submit, QueueInv
    <3>5. /\ pc' \in [Callers -> Points] /\ sel' \in [Callers -> Targets \cup {NoTarget}]
          /\ phase' \in {"bootstrap", "connect", "serving", "failed"}
      BY <1>1, <3>1, <3>2 DEF Continues, Continue, Submit
    <3>6. PICK n \in 0..2 : tries' = [tries EXCEPT ![c] = n]
      BY <3>1 DEF Continues
    <3>7. tries' \in [Callers -> Nat]
      <4>1. n \in Nat
        OBVIOUS
      <4> QED  BY <1>1, <3>6, <4>1
    <3> QED  BY <1>1, <1>2, <2>3, <2>4, <3>4, <3>5, <3>7
  <2> QED  BY <2>1, <2>5, <2>6 DEF Resumed
<1> QED  BY <1>3, <1>4, <1>5, <1>6, <1>7, <1>8 DEF Next

LEMMA PhaseStep == IInv /\ [Next]_vars => PhaseInv'
<1> SUFFICES ASSUME TypeOK, QueueInv, PhaseInv, SelectInv, [Next]_vars PROVE PhaseInv'
  BY DEF IInv
<1>0. Startup \in Callers /\ Scheme \in Callers /\ Startup # Scheme /\ pc \in [Callers -> Points]
  BY Names DEF TypeOK
<1>1. ASSUME UNCHANGED <<pc, phase, settled>> PROVE PhaseInv'
  BY <1>1 DEF PhaseInv, BootstrapCommands
<1>2. ASSUME Answer \/ GdbExits \/ ProbeEnds \/ UNCHANGED vars PROVE PhaseInv'
  BY <1>1, <1>2 DEF Answer, GdbExits, ProbeEnds, callerVars, vars
<1>3. CASE BootTimesOut
  BY <1>0, <1>3 DEF BootTimesOut, Return, GivesUp, PhaseInv
<1>4. CASE NoConnect
  BY <1>0, <1>4 DEF NoConnect, PhaseInv, callerVars
<1>5. ASSUME SchemeReply \/ SchemeTimesOut PROVE PhaseInv'
  BY <1>0, <1>5 DEF SchemeReply, SchemeTimesOut, Return, GivesUp, PhaseInv, BootstrapCommands
<1>6. CASE Request
  <2>1. PICK c \in Callers, op \in Targets \cup Ops, point \in Points : Started(c, op, point)
    BY <1>6, RequestShape
  <2>2. /\ pc[c] = "idle" /\ point # "boot" /\ pc' = [pc EXCEPT ![c] = point]
        /\ (IF c = Startup THEN phase = "connect" ELSE phase = "serving") /\ UNCHANGED <<phase, settled>>
    BY <2>1 DEF Started, Submit
  <2> QED  BY <1>0, <2>2 DEF PhaseInv, BootstrapCommands
<1>7. CASE Resume
  <2>1. PICK c \in Tasks : Resumed(c)
    BY <1>7, ResumeShape
  <2>2. c \in Callers /\ pc[c] # "idle" /\ (c # Startup => phase = "serving" /\ pc[Startup] = "idle")
    BY <2>1, Names DEF Resumed, PhaseInv
  <2>3. CASE Return(c) /\ phase' \in IF c = Startup THEN {"connect", "serving", "failed"} ELSE {phase}
    <3>1. pc' = [pc EXCEPT ![c] = "idle"]
      BY <2>3 DEF Return, GivesUp
    <3>2. CASE c = Startup
      BY <1>0, <2>2, <2>3, <3>1, <3>2 DEF PhaseInv
    <3>3. CASE c # Startup
      BY <1>0, <2>2, <2>3, <3>1, <3>3 DEF PhaseInv
    <3> QED  BY <3>2, <3>3
  <2>4. CASE \E op, point : Continues(c, op, point)
    <3>1. PICK op, point : Continues(c, op, point)
      BY <2>4
    <3>2. /\ pc' = [pc EXCEPT ![c] = point] /\ point # "idle" /\ UNCHANGED phase
          /\ pc[c] = "boot" => point = "boot" /\ settled' < Len(BootstrapCommands)
          /\ pc[c] # "boot" => point # "boot"
      BY <3>1 DEF Continues, Continue, Submit, Fits
    <3>3. Len(BootstrapCommands)' = Len(BootstrapCommands)
      BY DEF BootstrapCommands
    <3>4. CASE c = Startup
      BY <1>0, <2>2, <3>2, <3>3, <3>4 DEF PhaseInv
    <3>5. CASE c # Startup
      BY <1>0, <2>2, <3>2, <3>3, <3>5 DEF PhaseInv
    <3> QED  BY <3>4, <3>5
  <2> QED  BY <2>1, <2>3, <2>4 DEF Resumed
<1> QED  BY <1>2, <1>3, <1>4, <1>5, <1>6, <1>7 DEF Next

LEMMA SelectStep == IInv /\ [Next]_vars => SelectInv'
<1> SUFFICES ASSUME TypeOK, PhaseInv, SelectInv, [Next]_vars PROVE SelectInv'
  BY DEF IInv
<1> DEFINE At(c) == /\ pc[c] \in Selecting \cup {"off", "disconnect"} => sel[c] \in Targets
                    /\ tries[c] \in 0..2
                    /\ pc[c] \in {"first", "off"} => tries[c] = 1
<1>1. \A c \in Callers : At(c)
  BY DEF SelectInv
<1>2. ASSUME \A c \in Callers : At(c)' PROVE SelectInv'
  BY <1>2 DEF SelectInv
<1>3. pc \in [Callers -> Points] /\ sel \in [Callers -> Targets \cup {NoTarget}] /\ tries \in [Callers -> Nat]
  BY DEF TypeOK
<1>4. ASSUME UNCHANGED <<pc, sel, tries>> PROVE SelectInv'
  BY <1>1, <1>2, <1>4
<1>5. ASSUME Answer \/ GdbExits \/ ProbeEnds \/ NoConnect \/ UNCHANGED vars PROVE SelectInv'
  BY <1>4, <1>5 DEF Answer, GdbExits, ProbeEnds, NoConnect, callerVars, vars
<1>6. ASSUME NEW c, GivesUp(c) PROVE SelectInv'
  <2> SUFFICES ASSUME NEW d \in Callers PROVE At(d)'
    BY <1>2
  <2>1. CASE d = c
    <3>1. pc'[d] = "idle" /\ tries'[d] = 0
      BY <1>3, <1>6, <2>1 DEF GivesUp
    <3> QED  BY <3>1 DEF Selecting
  <2>2. CASE d # c
    <3>1. UNCHANGED <<pc[d], sel[d], tries[d]>>
      BY <1>3, <1>6, <2>2 DEF GivesUp
    <3> QED  BY <1>1, <3>1
  <2> QED  BY <2>1, <2>2
<1>7. ASSUME BootTimesOut \/ SchemeReply \/ SchemeTimesOut PROVE SelectInv'
  BY <1>6, <1>7 DEF BootTimesOut, SchemeReply, SchemeTimesOut, Return
<1>8. CASE Request
  <2>1. PICK c \in Callers, op \in Targets \cup Ops, point \in Points : Started(c, op, point)
    BY <1>8, RequestShape
  <2> SUFFICES ASSUME NEW d \in Callers PROVE At(d)'
    BY <1>2
  <2>2. /\ pc' = [pc EXCEPT ![c] = point] /\ tries' \in {tries, [tries EXCEPT ![c] = 1]}
        /\ (point \in {"first", "off"} => tries'[c] = 1)
        /\ (point \in Selecting \cup {"off", "disconnect"} => sel'[c] \in Targets)
    BY <2>1 DEF Started, Submit, Fits
  <2>3. CASE d = c
    <3>1. pc'[d] = point /\ tries'[d] \in {tries[d], 1}
      BY <1>3, <2>2, <2>3
    <3> QED  BY <1>1, <2>2, <2>3, <3>1
  <2>4. CASE d # c
    <3>1. PICK t \in Targets \cup {NoTarget} : sel' = [sel EXCEPT ![c] = t]
      BY <2>1 DEF Started
    <3>2. UNCHANGED <<pc[d], sel[d], tries[d]>>
      BY <1>3, <2>2, <2>4, <3>1
    <3> QED  BY <1>1, <3>2
  <2> QED  BY <2>3, <2>4
<1>9. CASE Resume
  <2>1. PICK c \in Tasks : Resumed(c)
    BY <1>9, ResumeShape
  <2>2. CASE Return(c)
    BY <1>6, <2>2 DEF Return
  <2>3. CASE \E op, point : Continues(c, op, point)
    <3>1. PICK op, point : Continues(c, op, point)
      BY <2>3
    <3>2. PICK n \in 0..2 : tries' = [tries EXCEPT ![c] = n] /\ (point \in {"first", "off"} => n = 1)
      BY <3>1 DEF Continues
    <3>3. /\ pc' = [pc EXCEPT ![c] = point] /\ UNCHANGED sel
          /\ (point \in Selecting \cup {"off", "disconnect"} => sel[c] \in Targets)
      BY <3>1 DEF Continues, Continue, Submit, Fits
    <3> SUFFICES ASSUME NEW d \in Callers PROVE At(d)'
      BY <1>2
    <3>4. CASE d = c
      BY <1>3, <3>2, <3>3, <3>4
    <3>5. CASE d # c
      <4>1. UNCHANGED <<pc[d], sel[d], tries[d]>>
        BY <1>3, <3>2, <3>3, <3>5
      <4> QED  BY <1>1, <4>1
    <3> QED  BY <3>4, <3>5
  <2> QED  BY <2>1, <2>2, <2>3 DEF Resumed
<1> QED  BY <1>5, <1>7, <1>8, <1>9 DEF Next

(* A session that failed stays so.                                         *)
LEMMA NotFailed ==
  ASSUME TypeOK, PhaseInv, SelectInv, [Next]_vars, phase' # "failed"
  PROVE  phase # "failed" /\ ~BootTimesOut
<1>1. CASE Resume
  <2>1. PICK c \in Tasks : Resumed(c)
    BY <1>1, ResumeShape
  <2>2. pc[c] # "idle" /\ c \in Callers
    BY <2>1, Names DEF Resumed
  <2>3. ~BootTimesOut
    BY DEF BootTimesOut
  <2> QED  BY <2>2, <2>3 DEF PhaseInv
<1>2. CASE Request
  <2>1. UNCHANGED phase
    BY <1>2, RequestShape DEF Started
  <2> QED  BY <2>1 DEF BootTimesOut
<1>3. CASE ~Resume /\ ~Request
  BY <1>3 DEF Next, Answer, GdbExits, BootTimesOut, NoConnect, ProbeEnds, SchemeReply, SchemeTimesOut, vars
<1> QED  BY <1>1, <1>2, <1>3

LEMMA TaskStep ==
  ASSUME IInv, [Next]_vars, phase' # "failed"
  PROVE  TaskInv'
<1>1. TypeOK /\ QueueInv /\ PhaseInv /\ SelectInv /\ TaskInv /\ EntryInv /\ ~BootTimesOut
  BY NotFailed DEF IInv
<1>2. \A j \in DOMAIN runq : runq[j] \in Tasks
  BY <1>1, LenProperties, ElementOfSeq DEF TypeOK
<1>3. pc \in [Callers -> Points] /\ Tasks \subseteq Callers /\ Scheme \notin Tasks /\ Nobody \notin Tasks
  BY <1>1, Names DEF TypeOK
<1>4. CASE Answer
  <2>1. queue # <<>> /\ queue' = Tail(queue) /\ UNCHANGED pc
    BY <1>4 DEF Answer
  <2> DEFINE c == Head(queue).caller
  <2>2. runq' = IF c \in Tasks THEN Append(runq, c) ELSE runq
    BY <1>4 DEF Answer, Give
  <2>3. /\ c = queue[1].caller /\ 1 \in DOMAIN queue
        /\ \A i \in DOMAIN Tail(queue) : i \in Nat /\ i >= 1 /\ i + 1 \in DOMAIN queue /\ Tail(queue)[i] = queue[i + 1]
    BY <1>1, <2>1, Answered
  <2> HIDE DEF c
  <2>4. CASE c \notin Tasks
    BY <1>1, <2>1, <2>2, <2>3, <2>4 DEF TaskInv
  <2>5. CASE c \in Tasks
    <3>1. /\ \A i \in DOMAIN runq : i \in DOMAIN runq' /\ runq'[i] = runq[i]
          /\ runq'[Len(runq) + 1] = c /\ \A i \in DOMAIN runq' : i \in DOMAIN runq \/ i = Len(runq) + 1
      BY <1>1, <2>2, <2>5, Pushed
    <3>2. pc[c] # "idle" /\ \A j \in DOMAIN runq : runq[j] # c
      BY <1>1, <2>3, <2>5 DEF TaskInv, EntryInv
    <3>3. \A i \in DOMAIN queue' : queue'[i].caller # c
      BY <1>1, <2>1, <2>3, <2>5 DEF TaskInv
    <3>4. \A i, j \in DOMAIN queue' : queue'[i].caller = queue'[j].caller /\ queue'[i].caller \in Tasks => i = j
      BY <1>1, <2>1, <2>3 DEF TaskInv
    <3>5. \A i, j \in DOMAIN runq' : runq'[i] = runq'[j] => i = j
      BY <1>1, <3>1, <3>2 DEF TaskInv
    <3>6. \A i \in DOMAIN queue', j \in DOMAIN runq' : queue'[i].caller # runq'[j]
      BY <1>1, <2>1, <2>3, <3>1, <3>3 DEF TaskInv
    <3>7. \A j \in DOMAIN runq' : pc'[runq'[j]] # "idle"
      BY <1>1, <2>1, <3>1, <3>2 DEF TaskInv
    <3> QED  BY <3>4, <3>5, <3>6, <3>7 DEF TaskInv
  <2> QED  BY <2>4, <2>5
<1>5. ASSUME GdbExits \/ NoConnect \/ ProbeEnds \/ UNCHANGED vars PROVE TaskInv'
  <2>1. UNCHANGED <<queue, runq, pc>>
    BY <1>5 DEF GdbExits, NoConnect, ProbeEnds, vars, callerVars
  <2> QED  BY <1>1, <2>1 DEF TaskInv
<1>6. ASSUME SchemeReply \/ SchemeTimesOut PROVE TaskInv'
  <2>1. UNCHANGED runq /\ pc' = [pc EXCEPT ![Scheme] = "idle"]
    BY <1>6 DEF SchemeReply, SchemeTimesOut, Return, GivesUp
  <2>2. /\ DOMAIN queue' = DOMAIN queue
        /\ \A i \in DOMAIN queue : queue'[i].caller \in Tasks => queue'[i].caller = queue[i].caller
    BY <1>1, <1>3, <1>6, Disowned DEF SchemeReply, Return
  <2>3. \A j \in DOMAIN runq : pc'[runq[j]] = pc[runq[j]]
    BY <1>2, <1>3, <2>1
  <2> QED  BY <1>1, <1>2, <2>1, <2>2, <2>3 DEF TaskInv
<1>7. ASSUME NEW c \in Callers, NEW op, NEW point, [caller |-> c, op |-> op] \in Entry, point # "idle",
             queue' = Append(queue, [caller |-> c, op |-> op]), pc' = [pc EXCEPT ![c] = point],
             c \in Tasks => \A i \in DOMAIN queue : queue[i].caller # c,
             \A j \in DOMAIN runq' : runq'[j] # c,
             \A j \in DOMAIN runq' : runq'[j] \in Tasks /\ pc[runq'[j]] # "idle",
             \A i, j \in DOMAIN runq' : runq'[i] = runq'[j] => i = j,
             \A i \in DOMAIN queue, j \in DOMAIN runq' : queue[i].caller # runq'[j]
      PROVE  TaskInv'
  <2>1. \A i \in DOMAIN queue' :
          \/ i \in DOMAIN queue /\ queue'[i] = queue[i]
          \/ i = Len(queue) + 1 /\ queue'[i] = [caller |-> c, op |-> op]
    BY <1>1, <1>7, Submitted
  <2>2. \A j \in DOMAIN runq' : pc'[runq'[j]] = pc[runq'[j]]
    BY <1>3, <1>7
  <2>3. \A i, j \in DOMAIN queue' : queue'[i].caller = queue'[j].caller /\ queue'[i].caller \in Tasks => i = j
    BY <1>1, <1>7, <2>1 DEF TaskInv
  <2>4. \A i \in DOMAIN queue', j \in DOMAIN runq' : queue'[i].caller # runq'[j]
    BY <1>7, <2>1
  <2> QED  BY <1>7, <2>2, <2>3, <2>4 DEF TaskInv
<1>8. CASE Request
  <2>1. PICK c \in Callers, op \in Targets \cup Ops, point \in Points : Started(c, op, point)
    BY <1>1, <1>8, RequestShape
  <2>2. /\ pc[c] = "idle" /\ point # "idle" /\ UNCHANGED runq
        /\ queue' = Append(queue, [caller |-> c, op |-> op]) /\ pc' = [pc EXCEPT ![c] = point]
    BY <2>1 DEF Started, Submit, Fits
  <2>3. [caller |-> c, op |-> op] \in Entry
    BY DEF Entry
  <2>4. c \in Tasks => \A i \in DOMAIN queue : queue[i].caller # c
    BY <1>1, <2>2 DEF EntryInv
  <2>5. \A j \in DOMAIN runq' : runq'[j] # c /\ runq'[j] \in Tasks /\ pc[runq'[j]] # "idle"
    BY <1>1, <1>2, <2>2 DEF TaskInv
  <2>6. /\ \A i, j \in DOMAIN runq' : runq'[i] = runq'[j] => i = j
        /\ \A i \in DOMAIN queue, j \in DOMAIN runq' : queue[i].caller # runq'[j]
    BY <1>1, <2>2 DEF TaskInv
  <2> QED  BY <1>7, <2>2, <2>3, <2>4, <2>5, <2>6
<1>9. CASE Resume
  <2>1. PICK c \in Tasks : Resumed(c)
    BY <1>1, <1>9, ResumeShape
  <2>2. c = runq[1] /\ 1 \in DOMAIN runq /\ c \in Callers
    BY <1>1, <1>3, <2>1, Popped DEF Resumed
  <2>3. \A j \in DOMAIN runq' : j \in Nat /\ j >= 1 /\ j + 1 \in DOMAIN runq /\ runq'[j] = runq[j + 1]
    BY <1>1, <2>1, Popped DEF Resumed
  <2>4. \A j \in DOMAIN runq' : runq'[j] # c /\ runq'[j] \in Tasks /\ pc[runq'[j]] # "idle"
    BY <1>1, <1>2, <2>2, <2>3 DEF TaskInv
  <2>5. \A i, j \in DOMAIN runq' : runq'[i] = runq'[j] => i = j
    BY <1>1, <2>3 DEF TaskInv
  <2>6. \A i \in DOMAIN queue, j \in DOMAIN runq' : queue[i].caller # runq'[j]
    BY <1>1, <2>3 DEF TaskInv
  <2>7. CASE Return(c)
    <3>1. UNCHANGED queue /\ pc' = [pc EXCEPT ![c] = "idle"]
      BY <2>7 DEF Return, GivesUp
    <3>2. \A j \in DOMAIN runq' : pc'[runq'[j]] = pc[runq'[j]]
      BY <1>3, <2>4, <3>1
    <3>3. \A i, j \in DOMAIN queue' : queue'[i].caller = queue'[j].caller /\ queue'[i].caller \in Tasks => i = j
      BY <1>1, <3>1 DEF TaskInv
    <3> QED  BY <2>4, <2>5, <2>6, <3>1, <3>2, <3>3 DEF TaskInv
  <2>8. CASE \E op, point : Continues(c, op, point)
    <3>1. PICK op, point : Continues(c, op, point)
      BY <2>8
    <3>2. /\ point # "idle" /\ op \in Targets \cup Ops
          /\ queue' = Append(queue, [caller |-> c, op |-> op]) /\ pc' = [pc EXCEPT ![c] = point]
      BY <3>1 DEF Continues, Continue, Submit, Fits
    <3>3. [caller |-> c, op |-> op] \in Entry
      BY <2>2, <3>2 DEF Entry
    <3>4. \A i \in DOMAIN queue : queue[i].caller # c
      BY <1>1, <2>2 DEF TaskInv
    <3> QED  BY <1>7, <2>2, <2>4, <2>5, <2>6, <3>2, <3>3, <3>4
  <2> QED  BY <2>1, <2>7, <2>8 DEF Resumed
<1> QED  BY <1>1, <1>4, <1>5, <1>6, <1>8, <1>9 DEF Next

LEMMA EntryStep ==
  ASSUME IInv, [Next]_vars, phase' # "failed"
  PROVE  EntryInv'
<1>1. TypeOK /\ QueueInv /\ PhaseInv /\ SelectInv /\ TaskInv /\ EntryInv /\ ~BootTimesOut
  BY NotFailed DEF IInv
<1>2. /\ pc \in [Callers -> Points] /\ sel \in [Callers -> Targets \cup {NoTarget}]
      /\ reply \in [Callers -> {"none", "ok", "error", "mismatch", "exited"}]
      /\ Tasks \subseteq Callers /\ Scheme \notin Tasks /\ Nobody \notin Tasks /\ Scheme \in Callers
      /\ Scheme # Nobody /\ byScheme \in BOOLEAN
  BY <1>1, Names DEF TypeOK
<1> DEFINE Holds(e) ==
      /\ e.caller \in Tasks =>
           /\ pc[e.caller] # "idle"
           /\ pc[e.caller] \in Selecting => e.op = sel[e.caller]
           /\ pc[e.caller] \notin Selecting => e.op \in Ops
      /\ e.caller = Scheme => e.op \in Targets
<1>3. \A i \in DOMAIN queue : Holds(queue[i])
  BY <1>1 DEF EntryInv
<1>4. ASSUME \A i \in DOMAIN queue' : Holds(queue[i])', reply'[Scheme] = "ok" => byScheme' PROVE EntryInv'
  BY <1>4 DEF EntryInv
<1>5. reply[Scheme] = "ok" => byScheme
  BY <1>1 DEF EntryInv
<1>6. CASE Answer
  <2>1. queue # <<>> /\ queue' = Tail(queue) /\ UNCHANGED <<pc, sel>>
    BY <1>6 DEF Answer
  <2>2. /\ \A i \in DOMAIN Tail(queue) : i + 1 \in DOMAIN queue /\ Tail(queue)[i] = queue[i + 1]
        /\ Head(queue) = queue[1] /\ 1 \in DOMAIN queue
    BY <1>1, <2>1, Answered
  <2>3. \A i \in DOMAIN queue' : Holds(queue[i])'
    BY <1>3, <2>1, <2>2
  <2> DEFINE c == Head(queue).caller  op == Head(queue).op
  <2>4. CASE c = Scheme
    <3>1. op \in Targets
      BY <1>3, <2>2, <2>4
    <3>2. CASE Give(c, "ok") /\ Accepts(c, op)
      <4>1. byScheme' = (byScheme \/ c \in {Scheme, Nobody})
        BY <3>1, <3>2 DEF Accepts
      <4>2. byScheme'
        BY <2>4, <4>1
      <4> QED  BY <1>4, <2>3, <4>2
    <3>3. CASE \E r \in {"error", "mismatch", "exited"} : Give(c, r)
      <4>1. reply'[Scheme] # "ok"
        BY <1>2, <2>4, <3>3 DEF Give
      <4> QED  BY <1>4, <2>3, <4>1
    <3> QED  BY <1>6, <3>1, <3>2, <3>3 DEF Answer, Refusals
  <2>5. CASE c # Scheme
    <3>1. reply'[Scheme] = reply[Scheme]
      BY <1>2, <1>6, <2>5 DEF Answer, Give
    <3>2. byScheme => byScheme'
      BY <1>6 DEF Answer, Accepts
    <3> QED  BY <1>4, <1>5, <2>3, <3>1, <3>2
  <2> QED  BY <2>4, <2>5
<1>7. ASSUME GdbExits \/ NoConnect \/ ProbeEnds \/ UNCHANGED vars PROVE EntryInv'
  <2>1. UNCHANGED <<queue, reply, pc, sel, byScheme>>
    BY <1>7 DEF GdbExits, NoConnect, ProbeEnds, vars, callerVars, gdbVars
  <2> QED  BY <1>3, <1>4, <1>5, <2>1
<1>8. ASSUME SchemeReply \/ SchemeTimesOut PROVE EntryInv'
  <2>1. UNCHANGED byScheme /\ reply' \in {reply, [reply EXCEPT ![Scheme] = "none"]} /\ GivesUp(Scheme)
    BY <1>8 DEF SchemeReply, SchemeTimesOut, Return, gdbVars
  <2>2. /\ DOMAIN queue' = DOMAIN queue
        /\ \A i \in DOMAIN queue : queue'[i].op = queue[i].op /\ queue'[i].caller \in {queue[i].caller, Nobody}
    BY <1>1, <1>2, <1>8, Disowned DEF SchemeReply, Return
  <2>3. \A d \in Tasks : pc'[d] = pc[d] /\ sel'[d] = sel[d]
    BY <1>2, <2>1 DEF GivesUp
  <2>4. \A i \in DOMAIN queue' : Holds(queue[i])'
    BY <1>2, <1>3, <2>2, <2>3
  <2>5. reply'[Scheme] = "ok" => byScheme'
    BY <1>2, <1>5, <2>1
  <2> QED  BY <1>4, <2>4, <2>5
<1>9. ASSUME NEW c \in Callers, NEW op, NEW point, [caller |-> c, op |-> op] \in Entry, Fits(op, point, sel'[c]),
             queue' = Append(queue, [caller |-> c, op |-> op]), pc' = [pc EXCEPT ![c] = point],
             sel' \in [Callers -> Targets \cup {NoTarget}], \A d \in Callers \ {c} : sel'[d] = sel[d],
             c = Scheme => op \in Targets,
             c \in Tasks => \A i \in DOMAIN queue : queue[i].caller # c
      PROVE  \A i \in DOMAIN queue' : Holds(queue[i])'
  <2> SUFFICES ASSUME NEW i \in DOMAIN queue' PROVE Holds(queue[i])'
    OBVIOUS
  <2>1. \/ i \in DOMAIN queue /\ queue'[i] = queue[i]
        \/ queue'[i] = [caller |-> c, op |-> op]
    BY <1>1, <1>9, Submitted
  <2>2. CASE i \in DOMAIN queue /\ queue'[i] = queue[i]
    BY <1>2, <1>3, <1>9, <2>2
  <2>3. CASE queue'[i] = [caller |-> c, op |-> op]
    <3>1. pc'[c] = point /\ queue'[i].caller = c /\ queue'[i].op = op
      BY <1>2, <1>9, <2>3
    <3>2. point # "idle" /\ (point \in Selecting => op = sel'[c]) /\ (point \notin Selecting => op \in Ops)
      BY <1>9 DEF Fits
    <3> QED  BY <1>9, <3>1, <3>2
  <2> QED  BY <2>1, <2>2, <2>3
<1>10. CASE Request
  <2>1. PICK c \in Callers, op \in Targets \cup Ops, point \in Points : Started(c, op, point)
    BY <1>1, <1>10, RequestShape
  <2>2. /\ pc[c] = "idle" /\ UNCHANGED <<reply, byScheme>> /\ Fits(op, point, sel'[c])
        /\ queue' = Append(queue, [caller |-> c, op |-> op]) /\ pc' = [pc EXCEPT ![c] = point]
        /\ (c = Scheme => op \in Targets)
    BY <2>1 DEF Started, Submit, gdbVars
  <2>3. PICK t \in Targets \cup {NoTarget} : sel' = [sel EXCEPT ![c] = t]
    BY <2>1 DEF Started
  <2>4. sel' \in [Callers -> Targets \cup {NoTarget}] /\ \A d \in Callers \ {c} : sel'[d] = sel[d]
    BY <1>2, <2>3
  <2>5. [caller |-> c, op |-> op] \in Entry
    BY DEF Entry
  <2>6. c \in Tasks => \A i \in DOMAIN queue : queue[i].caller # c
    BY <1>1, <2>2 DEF EntryInv
  <2>7. \A i \in DOMAIN queue' : Holds(queue[i])'
    BY <1>9, <2>2, <2>4, <2>5, <2>6
  <2> QED  BY <1>4, <1>5, <2>2, <2>7
<1>11. CASE Resume
  <2>1. PICK c \in Tasks : Resumed(c)
    BY <1>1, <1>11, ResumeShape
  <2>2. c = runq[1] /\ 1 \in DOMAIN runq /\ c \in Callers /\ c # Scheme
    BY <1>1, <1>2, <2>1, Popped DEF Resumed
  <2>3. \A i \in DOMAIN queue : queue[i].caller # c
    BY <1>1, <2>2 DEF TaskInv
  <2>4. UNCHANGED byScheme /\ reply'[Scheme] = reply[Scheme]
    BY <1>2, <2>1, <2>2 DEF Resumed, gdbVars
  <2>5. CASE Return(c)
    <3>1. UNCHANGED queue /\ \A d \in Callers \ {c} : pc'[d] = pc[d] /\ sel'[d] = sel[d]
      BY <1>2, <2>5 DEF Return, GivesUp
    <3>2. \A i \in DOMAIN queue' : Holds(queue[i])'
      BY <1>2, <1>3, <2>3, <3>1
    <3> QED  BY <1>4, <1>5, <2>4, <3>2
  <2>6. CASE \E op, point : Continues(c, op, point)
    <3>1. PICK op, point : Continues(c, op, point)
      BY <2>6
    <3>2. /\ Fits(op, point, sel'[c]) /\ op \in Targets \cup Ops /\ UNCHANGED sel
          /\ queue' = Append(queue, [caller |-> c, op |-> op]) /\ pc' = [pc EXCEPT ![c] = point]
      BY <3>1 DEF Continues, Continue, Submit, Fits
    <3>3. [caller |-> c, op |-> op] \in Entry
      BY <2>2, <3>2 DEF Entry
    <3>4. \A i \in DOMAIN queue' : Holds(queue[i])'
      BY <1>2, <1>9, <2>2, <2>3, <3>2, <3>3
    <3> QED  BY <1>4, <1>5, <2>4, <3>4
  <2> QED  BY <2>1, <2>5, <2>6 DEF Resumed
<1> QED  BY <1>1, <1>6, <1>7, <1>8, <1>10, <1>11 DEF Next

LEMMA MemoStep ==
  ASSUME IInv, [Next]_vars, phase' # "failed"
  PROVE  MemoInv'
<1>1. TypeOK /\ QueueInv /\ PhaseInv /\ SelectInv /\ TaskInv /\ EntryInv /\ MemoInv /\ ~BootTimesOut
  BY NotFailed DEF IInv
<1>2. /\ pc \in [Callers -> Points] /\ sel \in [Callers -> Targets \cup {NoTarget}]
      /\ reply \in [Callers -> {"none", "ok", "error", "mismatch", "exited"}]
      /\ Tasks \subseteq Callers /\ Scheme \notin Tasks /\ Nobody \notin Tasks /\ Nobody \notin Callers
      /\ byScheme \in BOOLEAN /\ Targets \cap Ops = {} /\ Callers = Tasks \cup {Scheme}
  BY <1>1, Names DEF TypeOK
<1>3. \A j \in DOMAIN runq : runq[j] \in Tasks
  BY <1>1, LenProperties, ElementOfSeq DEF TypeOK
<1>4. ASSUME UNCHANGED <<runq, memo, latest>>, byScheme => byScheme',
             \A j \in DOMAIN runq : UNCHANGED <<pc[runq[j]], sel[runq[j]], reply[runq[j]]>>
      PROVE  MemoInv'
  <2>1. \A j \in DOMAIN runq : Accepted(j)' <=> Accepted(j)
    BY <1>4 DEF Accepted
  <2> SUFFICES ASSUME ~byScheme'
               PROVE  /\ (\A i \in DOMAIN runq' : ~Accepted(i)') => memo' = latest'
                      /\ \A i \in DOMAIN runq' :
                           Accepted(i)' /\ (\A j \in DOMAIN runq' : Accepted(j)' => j <= i) => latest' = sel'[runq'[i]]
    BY DEF MemoInv
  <2>2. /\ (\A i \in DOMAIN runq : ~Accepted(i)) => memo = latest
        /\ \A i \in DOMAIN runq :
             Accepted(i) /\ (\A j \in DOMAIN runq : Accepted(j) => j <= i) => latest = sel[runq[i]]
    BY <1>1, <1>4 DEF MemoInv
  <2>3. (\A i \in DOMAIN runq' : ~Accepted(i)') => memo' = latest'
    BY <1>4, <2>1, <2>2
  <2>4. ASSUME NEW i \in DOMAIN runq', Accepted(i)', \A j \in DOMAIN runq' : Accepted(j)' => j <= i
        PROVE  latest' = sel'[runq'[i]]
    <3>1. i \in DOMAIN runq /\ Accepted(i) /\ \A j \in DOMAIN runq : Accepted(j) => j <= i
      BY <1>4, <2>1, <2>4
    <3> QED  BY <1>4, <2>2, <3>1
  <2> QED  BY <2>3, <2>4
<1>5. ASSUME byScheme' PROVE MemoInv'
  BY <1>5 DEF MemoInv
<1>6. CASE Answer
  <2>1. queue # <<>> /\ queue' = Tail(queue) /\ UNCHANGED <<pc, sel, memo>>
    BY <1>6 DEF Answer
  <2>9. byScheme => byScheme'
    BY <1>6 DEF Answer, Accepts
  <2>2. Head(queue) = queue[1] /\ 1 \in DOMAIN queue /\ Head(queue) \in Entry
    BY <1>1, <2>1, Answered
  <2> DEFINE c == Head(queue).caller  op == Head(queue).op
  <2>3. c \in Callers \cup {Nobody} /\ op \in Targets \cup Ops
    BY <2>2 DEF Entry
  <2>4. CASE c \notin Tasks
    <3>1. UNCHANGED runq /\ \A j \in DOMAIN runq : reply'[runq[j]] = reply[runq[j]]
      BY <1>2, <1>3, <1>6, <2>4 DEF Answer, Give
    <3>2. CASE op \in Targets /\ Accepts(c, op)
      <4>1. byScheme' = (byScheme \/ c \in {Scheme, Nobody}) /\ c \in {Scheme, Nobody}
        BY <1>2, <2>3, <2>4, <3>2 DEF Accepts
      <4>2. byScheme'
        BY <4>1
      <4> QED  BY <1>5, <4>2
    <3>3. CASE UNCHANGED latest
      BY <1>4, <2>1, <2>9, <3>1, <3>3
    <3> QED  BY <1>6, <3>2, <3>3 DEF Answer, Accepts
  <2>5. CASE c \in Tasks
    <3>0. Len(runq) \in Nat
      BY <1>1, LenProperties DEF TypeOK
    <3> PICK n \in Nat : n = Len(runq) + 1
      BY <3>0
    <3>1. /\ \A i \in DOMAIN runq : i \in Nat /\ i < n /\ i \in DOMAIN runq' /\ runq'[i] = runq[i]
          /\ n \in DOMAIN runq' /\ runq'[n] = c
          /\ \A i \in DOMAIN runq' : i \in DOMAIN runq \/ i = n
      BY <1>1, <1>6, <2>5, Pushed DEF Answer, Give
    <3>2. \A j \in DOMAIN runq : runq[j] # c
      BY <1>1, <2>2 DEF TaskInv
    <3>3. \A j \in DOMAIN runq : reply'[runq[j]] = reply[runq[j]]
      BY <1>2, <1>3, <1>6, <3>2 DEF Answer, Give
    <3>4. \A j \in DOMAIN runq : Accepted(j)' <=> Accepted(j)
      BY <2>1, <3>1, <3>3 DEF Accepted
    <3>5. /\ pc[c] \in Selecting => op = sel[c] /\ sel[c] \in Targets
          /\ pc[c] \notin Selecting => op \in Ops
      BY <1>1, <1>2, <2>2, <2>5 DEF EntryInv, SelectInv
    <3>6. c # Nobody /\ c \in Callers
      BY <1>2, <2>5
    <3>7. CASE Give(c, "ok") /\ Accepts(c, op) /\ pc[c] \in Selecting
      <4>1. latest' = sel'[c] /\ reply'[c] = "ok"
        BY <1>2, <2>1, <3>5, <3>6, <3>7 DEF Accepts, Give
      <4>2. Accepted(n)'
        BY <2>1, <3>1, <3>7, <4>1 DEF Accepted
      <4>3. ASSUME NEW i \in DOMAIN runq', \A j \in DOMAIN runq' : Accepted(j)' => j <= i PROVE latest' = sel'[runq'[i]]
        <5>1. n <= i
          BY <3>1, <4>2, <4>3
        <5>2. i = n
          BY <3>1, <5>1
        <5> QED  BY <3>1, <4>1, <5>2
      <4> QED  BY <3>1, <4>2, <4>3 DEF MemoInv
    <3>8. CASE UNCHANGED latest /\ ~Accepted(n)'
      <4> SUFFICES ASSUME ~byScheme'
                   PROVE  /\ (\A i \in DOMAIN runq' : ~Accepted(i)') => memo' = latest'
                          /\ \A i \in DOMAIN runq' :
                               Accepted(i)' /\ (\A j \in DOMAIN runq' : Accepted(j)' => j <= i) => latest' = sel'[runq'[i]]
        BY DEF MemoInv
      <4>1. /\ (\A i \in DOMAIN runq : ~Accepted(i)) => memo = latest
            /\ \A i \in DOMAIN runq :
                 Accepted(i) /\ (\A j \in DOMAIN runq : Accepted(j) => j <= i) => latest = sel[runq[i]]
        BY <1>1, <2>9 DEF MemoInv
      <4>2. (\A i \in DOMAIN runq' : ~Accepted(i)') => memo' = latest'
        BY <2>1, <3>1, <3>4, <3>8, <4>1
      <4>3. ASSUME NEW i \in DOMAIN runq', Accepted(i)', \A j \in DOMAIN runq' : Accepted(j)' => j <= i
            PROVE  latest' = sel'[runq'[i]]
        <5>1. i \in DOMAIN runq
          BY <3>1, <3>8, <4>3
        <5>2. Accepted(i) /\ \A j \in DOMAIN runq : Accepted(j) => j <= i
          BY <3>1, <3>4, <4>3, <5>1
        <5> QED  BY <2>1, <3>1, <3>8, <4>1, <5>1, <5>2
      <4> QED  BY <4>2, <4>3
    <3>9. CASE Give(c, "ok") /\ Accepts(c, op) /\ pc[c] \notin Selecting
      <4>1. UNCHANGED latest
        BY <1>2, <3>5, <3>9 DEF Accepts
      <4>2. ~Accepted(n)'
        BY <2>1, <3>1, <3>9 DEF Accepted
      <4> QED  BY <3>8, <4>1, <4>2
    <3>10. CASE (\E r \in {"error", "mismatch", "exited"} : Give(c, r)) /\ UNCHANGED latest
      <4>1. reply'[c] # "ok"
        BY <1>2, <3>6, <3>10 DEF Give
      <4>2. ~Accepted(n)'
        BY <3>1, <4>1 DEF Accepted
      <4> QED  BY <3>8, <3>10, <4>2
    <3> QED  BY <1>6, <3>7, <3>9, <3>10 DEF Answer, Refusals
  <2> QED  BY <2>4, <2>5
<1>7. ASSUME GdbExits \/ NoConnect \/ ProbeEnds \/ UNCHANGED vars PROVE MemoInv'
  <2>1. UNCHANGED <<pc, sel, reply, runq, memo, latest, byScheme>>
    BY <1>7 DEF GdbExits, NoConnect, ProbeEnds, vars, callerVars, gdbVars
  <2> QED  BY <1>4, <2>1
<1>8. ASSUME SchemeReply \/ SchemeTimesOut PROVE MemoInv'
  <2>1. /\ UNCHANGED <<runq, latest, byScheme>> /\ GivesUp(Scheme)
        /\ reply' \in {reply, [reply EXCEPT ![Scheme] = "none"]}
    BY <1>8 DEF SchemeReply, SchemeTimesOut, Return, gdbVars
  <2>2. \A j \in DOMAIN runq : UNCHANGED <<pc[runq[j]], sel[runq[j]], reply[runq[j]]>>
    BY <1>2, <1>3, <2>1 DEF GivesUp
  <2>3. CASE UNCHANGED memo
    BY <1>4, <2>1, <2>2, <2>3
  <2>4. CASE reply[Scheme] = "ok"
    BY <1>1, <1>5, <2>1, <2>4 DEF EntryInv
  <2> QED  BY <1>8, <2>3, <2>4 DEF SchemeReply, SchemeTimesOut
<1>9. CASE Request
  <2>1. PICK c \in Callers, op \in Targets \cup Ops, point \in Points : Started(c, op, point)
    BY <1>1, <1>9, RequestShape
  <2>2. /\ pc[c] = "idle" /\ pc' = [pc EXCEPT ![c] = point] /\ UNCHANGED <<reply, runq, memo, latest, byScheme>>
    BY <2>1 DEF Started, Submit, gdbVars
  <2>3. PICK t \in Targets \cup {NoTarget} : sel' = [sel EXCEPT ![c] = t]
    BY <2>1 DEF Started
  <2>4. \A j \in DOMAIN runq : runq[j] # c
    BY <1>1, <2>2 DEF TaskInv
  <2>5. \A j \in DOMAIN runq : UNCHANGED <<pc[runq[j]], sel[runq[j]], reply[runq[j]]>>
    BY <1>2, <1>3, <2>2, <2>3, <2>4
  <2> QED  BY <1>4, <2>2, <2>5
<1>10. CASE Resume
  <2>1. PICK c \in Tasks : Resumed(c)
    BY <1>1, <1>10, ResumeShape
  <2>2. /\ c = runq[1] /\ 1 \in DOMAIN runq /\ c \in Callers
        /\ \A i \in DOMAIN runq' : i \in Nat /\ i >= 1 /\ i + 1 \in DOMAIN runq /\ runq'[i] = runq[i + 1]
        /\ \A i \in DOMAIN runq : i \in Nat /\ i >= 1 /\ (i # 1 => i - 1 \in DOMAIN runq')
    BY <1>1, <1>2, <2>1, Popped DEF Resumed
  <2>3. \A i \in DOMAIN runq' : runq'[i] # c /\ runq'[i] \in Callers
    BY <1>1, <1>2, <1>3, <2>2 DEF TaskInv
  <2>4. /\ UNCHANGED <<latest, byScheme>> /\ reply' = [reply EXCEPT ![c] = "none"]
        /\ memo' = IF Accepted(1) THEN sel[c] ELSE memo
    BY <2>1, <2>2 DEF Resumed, Accepted, gdbVars
  <2>5. \A d \in Callers \ {c} : pc'[d] = pc[d] /\ sel'[d] = sel[d]
    <3>1. CASE Return(c)
      BY <1>2, <3>1 DEF Return, GivesUp
    <3>2. CASE \E op, point : Continues(c, op, point)
      BY <1>2, <3>2 DEF Continues, Continue, Submit
    <3> QED  BY <2>1, <3>1, <3>2 DEF Resumed
  <2>6. \A i \in DOMAIN runq' : sel'[runq'[i]] = sel[runq[i + 1]] /\ (Accepted(i)' <=> Accepted(i + 1))
    BY <1>2, <2>2, <2>3, <2>4, <2>5 DEF Accepted
  <2> SUFFICES ASSUME ~byScheme'
               PROVE  /\ (\A i \in DOMAIN runq' : ~Accepted(i)') => memo' = latest'
                      /\ \A i \in DOMAIN runq' :
                           Accepted(i)' /\ (\A j \in DOMAIN runq' : Accepted(j)' => j <= i) => latest' = sel'[runq'[i]]
    BY DEF MemoInv
  <2>7. /\ (\A i \in DOMAIN runq : ~Accepted(i)) => memo = latest
        /\ \A i \in DOMAIN runq :
             Accepted(i) /\ (\A j \in DOMAIN runq : Accepted(j) => j <= i) => latest = sel[runq[i]]
    BY <1>1, <2>4 DEF MemoInv
  <2>8. ASSUME \A i \in DOMAIN runq' : ~Accepted(i)' PROVE memo' = latest'
    <3>1. \A i \in DOMAIN runq : i # 1 => ~Accepted(i)
      <4> SUFFICES ASSUME NEW i \in DOMAIN runq, i # 1, Accepted(i) PROVE FALSE
        OBVIOUS
      <4>1. i - 1 \in DOMAIN runq' /\ (i - 1) + 1 = i
        BY <2>2
      <4> QED  BY <2>6, <2>8, <4>1
    <3>2. CASE Accepted(1)
      <4>1. \A j \in DOMAIN runq : Accepted(j) => j <= 1
        BY <2>2, <3>1
      <4>2. latest = sel[runq[1]]
        BY <2>2, <2>7, <3>2, <4>1
      <4> QED  BY <2>2, <2>4, <3>2, <4>2
    <3>3. CASE ~Accepted(1)
      BY <2>4, <2>7, <3>1, <3>3
    <3> QED  BY <3>2, <3>3
  <2>9. ASSUME NEW i \in DOMAIN runq', Accepted(i)', \A j \in DOMAIN runq' : Accepted(j)' => j <= i
        PROVE  latest' = sel'[runq'[i]]
    <3>1. i + 1 \in DOMAIN runq /\ Accepted(i + 1) /\ i \in Nat /\ i >= 1
      BY <2>2, <2>6, <2>9
    <3>2. ASSUME NEW j \in DOMAIN runq, Accepted(j) PROVE j <= i + 1
      <4>1. CASE j = 1
        BY <3>1, <4>1
      <4>2. CASE j # 1
        <5>1. j \in Nat /\ j - 1 \in DOMAIN runq' /\ (j - 1) + 1 = j
          BY <2>2, <4>2
        <5>2. Accepted(j - 1)'
          BY <2>6, <3>2, <5>1
        <5>3. j - 1 <= i
          BY <2>9, <5>1, <5>2
        <5> QED  BY <3>1, <5>1, <5>3
      <4> QED  BY <4>1, <4>2
    <3>3. latest = sel[runq[i + 1]]
      BY <2>7, <3>1, <3>2
    <3> QED  BY <2>4, <2>6, <3>3
  <2> QED  BY <2>8, <2>9
<1> QED  BY <1>1, <1>6, <1>7, <1>8, <1>9, <1>10 DEF Next

LEMMA Inductive == Spec => []IInv
<1>1. Init => IInv
  <2> SUFFICES ASSUME Init PROVE IInv
    OBVIOUS
  <2>1. /\ Startup \in Tasks /\ Startup \in Callers /\ Scheme \in Callers /\ Startup # Scheme
        /\ BootstrapCommands[1] \in Ops /\ Len(BootstrapCommands) \in {3, 4}
    BY Names, Bootstrap
  <2>2. <<>> \in Seq(Tasks) /\ DOMAIN <<>> = {} /\ Len(<<>>) = 0
    BY EmptySeq
  <2>3. [caller |-> Startup, op |-> BootstrapCommands[1]] \in Entry
    BY <2>1 DEF Entry
  <2> DEFINE e == [caller |-> Startup, op |-> BootstrapCommands[1]]
  <2>4. queue = <<e>>
    BY DEF Init
  <2>5. e.caller = Startup /\ e.op = BootstrapCommands[1] /\ e \in Entry
    BY <2>3
  <2> HIDE DEF e
  <2>6. queue \in Seq(Entry) /\ DOMAIN queue = {1} /\ queue[1] = e
    BY <2>4, <2>5
  <2>7. TypeOK
    <3>1. pc \in [Callers -> Points]
      BY DEF Init, Points
    <3>2. \A i \in DOMAIN queue : queue[i].caller \in Callers \cup {Nobody} /\ queue[i].op \in Targets \cup Ops
      BY <2>1, <2>5, <2>6
    <3>3. phase \in {"bootstrap", "connect", "serving", "failed"} /\ settled \in 0..Len(BootstrapCommands)
      BY <2>1 DEF Init
    <3>4. sel \in [Callers -> Targets \cup {NoTarget}] /\ tries \in [Callers -> Nat]
      BY DEF Init
    <3>5. reply \in [Callers -> {"none", "ok", "error", "mismatch", "exited"}] /\ runq \in Seq(Tasks)
      BY <2>2 DEF Init
    <3>6. /\ memo \in Targets \cup {NoTarget} /\ latest \in Targets \cup {NoTarget}
          /\ probing \in Nat /\ nonstop \in BOOLEAN /\ gone \in BOOLEAN /\ byScheme \in BOOLEAN
      BY DEF Init
    <3> QED  BY <3>1, <3>2, <3>3, <3>4, <3>5, <3>6 DEF TypeOK
  <2>8. PhaseInv
    BY <2>1 DEF Init, PhaseInv
  <2>9. SelectInv
    BY DEF Init, SelectInv, Selecting
  <2>10. TaskInv /\ MemoInv
    BY <2>2, <2>6 DEF Init, TaskInv, MemoInv
  <2>11. EntryInv
    BY <2>1, <2>5, <2>6 DEF Init, EntryInv, Selecting
  <2> QED  BY <2>6, <2>7, <2>8, <2>9, <2>10, <2>11 DEF IInv, QueueInv
<1>2. IInv /\ [Next]_vars => IInv'
  BY TypeStep, PhaseStep, SelectStep, TaskStep, EntryStep, MemoStep DEF IInv
<1> QED  BY <1>1, <1>2, PTL DEF Spec

-----------------------------------------------------------------------------
(* The theorems.                                                           *)

(* Every variable of the session has the type the code gives it: the       *)
(* bootstrap stops at its last command, and no probe ends twice.           *)
THEOREM TypeCorrect == Spec => []TypeOK
<1>1. IInv => TypeOK
  BY DEF IInv
<1> QED  BY <1>1, Inductive, PTL

(* downgrade_non_stop_and_retry retries once, whatever other requests do   *)
(* to the non-stop setting in between.                                     *)
THEOREM AtMostOneRetry == Spec => []OneRetry
<1>1. IInv => OneRetry
  BY DEF IInv, SelectInv, OneRetry
<1> QED  BY <1>1, Inductive, PTL

(* last_target_selection_command is the selection GDB accepted last, once  *)
(* the answers have been taken: the tasks take them in GDB's order.        *)
THEOREM MemoIsTheLatest == Spec => []MemoIsLatest
<1>1. IInv => MemoIsLatest
  <2> SUFFICES ASSUME IInv, runq = <<>>, ~byScheme, phase \in {"connect", "serving"} PROVE memo = latest
    BY DEF MemoIsLatest
  <2>1. DOMAIN runq = {}
    OBVIOUS
  <2>2. MemoInv
    BY DEF IInv
  <2> QED  BY <2>1, <2>2 DEF MemoInv
<1> QED  BY <1>1, Inductive, PTL
=============================================================================
