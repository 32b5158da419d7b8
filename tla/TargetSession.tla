---------------------------- MODULE TargetSession ----------------------------
(***************************************************************************)
(* A GDB session from its bootstrap on: the settings framewalk makes       *)
(* before anything else, the selection of a target with its one-shot       *)
(* downgrade of non-stop mode, what is remembered of it, and reconnecting. *)
(*                                                                         *)
(* The tools are tasks of one single-threaded runtime.  GDB answers in the *)
(* order of the commands, and the tasks resume in the order of their       *)
(* answers.  The Scheme worker is a thread of its own, and gives up on a   *)
(* command when its timeout ends.  GDB is external.                        *)
(***************************************************************************)
EXTENDS Integers, Sequences, FiniteSets

CONSTANTS
  Tools,        \* the tool calls that may run at once
  Startup,      \* main, before the service runs
  Scheme,       \* the Scheme worker thread
  Nobody,       \* the owner of a command its caller has given up
  Targets,      \* what can be selected
  Remote,       \* the targets of a remote transport
  NoTarget,     \* no target
  NonStop,      \* GdbConfig::non_stop
  MaxRequests   \* bound on the requests

ASSUME NamesAssumption ==
  /\ Remote \subseteq Targets /\ NoTarget \notin Targets
  /\ Targets \cap {"mi-async", "non-stop", "pagination", "confirm", "off", "disconnect"} = {}
  /\ Cardinality({Startup, Scheme, Nobody}) = 3 /\ Tools \cap {Startup, Scheme, Nobody} = {}
  /\ NonStop \in BOOLEAN /\ MaxRequests \in Nat

VARIABLES
  phase,        \* where the session is
  settled,      \* how many bootstrap commands GDB has accepted
  pc,           \* what each caller awaits
  sel,          \* the selection it is about
  tries,        \* how often it has selected it
  queue,        \* the commands GDB has not answered
  reply,        \* the answer each caller has or had last
  runq,         \* the tasks to resume, in the order of their answers
  memo,         \* last_target_selection_command
  probing,      \* the probes for vmlinux that run
  nonstop,      \* GDB's non-stop setting
  gone,         \* whether GDB has exited
  latest,       \* the last selection GDB accepted (history)
  byScheme,     \* whether it ever accepted one of the Scheme thread (history)
  requests      \* the requests so far (bound)

callerVars == <<pc, sel, tries, queue, reply, runq, requests>>
gdbVars    == <<nonstop, gone, latest, byScheme>>
vars       == <<phase, settled, callerVars, memo, probing, gdbVars>>

Callers == Tools \cup {Startup, Scheme}
Tasks   == Tools \cup {Startup}
Points  == {"idle", "boot", "first", "off", "retry", "raw", "set", "disconnect", "reselect"}

(* GDB may refuse a target-select because its stub lacks non-stop mode.     *)
Refusals == {"error"} \cup IF nonstop THEN {"mismatch"} ELSE {}

BootstrapCommands == IF NonStop THEN <<"mi-async", "non-stop", "pagination", "confirm">>
                                ELSE <<"mi-async", "pagination", "confirm">>

Init ==
  /\ phase = "bootstrap" /\ settled = 0
  /\ pc = [c \in Callers |-> IF c = Startup THEN "boot" ELSE "idle"]
  /\ sel = [c \in Callers |-> NoTarget] /\ tries = [c \in Callers |-> 0]
  /\ queue = <<[caller |-> Startup, op |-> BootstrapCommands[1]]>>
  /\ reply = [c \in Callers |-> "none"] /\ runq = <<>>
  /\ memo = NoTarget /\ probing = 0
  /\ nonstop = FALSE /\ gone = FALSE /\ latest = NoTarget /\ byScheme = FALSE
  /\ requests = 0

-----------------------------------------------------------------------------
(* GDB, external: it answers its oldest command.  After its exit the reader *)
(* fails them all.                                                         *)

Give(c, r) ==
  /\ reply' = IF c = Nobody THEN reply ELSE [reply EXCEPT ![c] = r]
  /\ runq' = IF c \in Tasks THEN Append(runq, c) ELSE runq

Accepts(c, op) ==
  /\ nonstop' = IF op = "non-stop" THEN TRUE ELSE IF op = "off" THEN FALSE ELSE nonstop
  /\ IF op \in Targets
     THEN latest' = op /\ byScheme' = (byScheme \/ c \in {Scheme, Nobody})
     ELSE UNCHANGED <<latest, byScheme>>

Answer ==
  /\ queue # <<>> /\ queue' = Tail(queue)
  /\ LET c == Head(queue).caller
         op == Head(queue).op
     IN \/ ~gone /\ Give(c, "ok") /\ Accepts(c, op)
        \/ /\ \E r \in IF gone THEN {"exited"} ELSE IF op \in Targets THEN Refusals ELSE {"error"} : Give(c, r)
           /\ UNCHANGED <<nonstop, latest, byScheme>>
  /\ UNCHANGED <<phase, settled, pc, sel, tries, requests, memo, probing, gone>>

GdbExits ==
  /\ ~gone /\ gone' = TRUE
  /\ UNCHANGED <<phase, settled, callerVars, memo, probing, nonstop, latest, byScheme>>

-----------------------------------------------------------------------------
(* Steps of a caller.                                                      *)

Submit(c, op, point) ==
  /\ queue' = Append(queue, [caller |-> c, op |-> op])
  /\ pc' = [pc EXCEPT ![c] = point]

Select(c, point, n) ==
  /\ Submit(c, sel'[c], point)
  /\ tries' = [tries EXCEPT ![c] = n]

Continue(c, op, point) == Submit(c, op, point) /\ UNCHANGED sel

GivesUp(c) ==
  /\ pc' = [pc EXCEPT ![c] = "idle"]
  /\ sel' = [sel EXCEPT ![c] = NoTarget] /\ tries' = [tries EXCEPT ![c] = 0]

Return(c) == GivesUp(c) /\ UNCHANGED queue

Remember(c) == memo' = sel[c]

(* A mutant of Resumes: the tasks resume in any order.                     *)
Resumes_AnyOrder(c, point) ==
  /\ \E i \in DOMAIN runq : runq[i] = c /\ runq' = SubSeq(runq, 1, i - 1) \o SubSeq(runq, i + 1, Len(runq))
  /\ pc[c] = point
  /\ reply' = [reply EXCEPT ![c] = "none"]
  /\ UNCHANGED <<requests, gdbVars>>

(* The runtime resumes a task with its answer.                             *)
Resumes(c, point) ==
  /\ runq # <<>> /\ Head(runq) = c /\ runq' = Tail(runq)
  /\ pc[c] = point
  /\ reply' = [reply EXCEPT ![c] = "none"]
  /\ UNCHANGED <<requests, gdbVars>>

(* perform_target_select and connect_startup_target: main serves only a    *)
(* session whose target is connected.                                      *)
Selected(c) ==
  /\ Return(c) /\ Remember(c)
  /\ probing' = IF sel[c] \in Remote THEN probing + 1 ELSE probing
  /\ phase' = IF c = Startup THEN "serving" ELSE phase

Failed(c) ==
  /\ Return(c)
  /\ phase' = IF c = Startup THEN "failed" ELSE phase
  /\ UNCHANGED <<memo, probing>>

(* bootstrap_session.                                                      *)
BootReply ==
  /\ Resumes(Startup, "boot")
  /\ IF reply[Startup] # "ok"
     THEN phase' = "failed" /\ Return(Startup) /\ UNCHANGED settled
     ELSE /\ settled' = settled + 1
          /\ IF settled' < Len(BootstrapCommands)
             THEN Continue(Startup, BootstrapCommands[settled' + 1], "boot") /\ UNCHANGED <<phase, tries>>
             ELSE phase' = "connect" /\ Return(Startup)
  /\ UNCHANGED <<memo, probing>>

(* A mutant of BootTimesOut: no timeout.                                   *)
BootTimesOut_Never == FALSE /\ UNCHANGED vars

(* Each command has two seconds; the handle is dropped, and GDB killed.    *)
BootTimesOut ==
  /\ pc[Startup] = "boot"
  /\ phase' = "failed" /\ Return(Startup)
  /\ runq' = <<>>
  /\ UNCHANGED <<settled, reply, requests, memo, probing, gdbVars>>

(* No --connect.                                                           *)
NoConnect ==
  /\ phase = "connect" /\ pc[Startup] = "idle"
  /\ phase' = "serving"
  /\ UNCHANGED <<settled, callerVars, memo, probing, gdbVars>>

Begins(c) ==
  /\ pc[c] = "idle" /\ requests < MaxRequests
  /\ IF c = Startup THEN phase = "connect" ELSE phase = "serving"
  /\ requests' = requests + 1
  /\ UNCHANGED <<phase, settled, reply, runq, memo, probing, gdbVars>>

(* target_select, and --connect.                                           *)
TargetSelect(c) ==
  /\ c \in Tasks /\ Begins(c)
  /\ \E t \in Targets : sel' = [sel EXCEPT ![c] = t]
  /\ Select(c, "first", 1)

FirstReply(c) ==
  /\ Resumes(c, "first")
  /\ \/ reply[c] = "ok" /\ Selected(c)
     \/ reply[c] \in {"error", "exited"} /\ Failed(c)
     \/ /\ reply[c] = "mismatch"
        /\ Continue(c, "off", "off")
        /\ UNCHANGED <<phase, tries, memo, probing>>
  /\ UNCHANGED settled

(* downgrade_non_stop_and_retry: a failed downgrade returns the first      *)
(* error, a failed retry returns its own.                                  *)
DowngradeReply(c) ==
  /\ Resumes(c, "off")
  /\ IF reply[c] # "ok" THEN Failed(c)
     ELSE /\ Continue(c, sel[c], "retry")
          /\ tries' = [tries EXCEPT ![c] = @ + 1]
          /\ UNCHANGED <<phase, memo, probing>>
  /\ UNCHANGED settled

(* A mutant of RetryReply: the retry is treated as the first selection.    *)
RetryReply_Recurses(c) ==
  /\ Resumes(c, "retry")
  /\ \/ reply[c] = "ok" /\ Selected(c)
     \/ reply[c] \in {"error", "exited"} /\ Failed(c)
     \/ reply[c] = "mismatch" /\ Continue(c, "off", "off") /\ UNCHANGED <<phase, tries, memo, probing>>
  /\ UNCHANGED settled

RetryReply(c) ==
  /\ Resumes(c, "retry")
  /\ IF reply[c] = "ok" THEN Selected(c) ELSE Failed(c)
  /\ UNCHANGED settled

(* mi_raw_command, and (mi ..): a selection, or a setting.                 *)
RawSelect(c) ==
  /\ c # Startup /\ Begins(c)
  /\ \E t \in Targets : sel' = [sel EXCEPT ![c] = t]
  /\ Select(c, "raw", 1)

RawNonStop(c) ==
  /\ c \in Tools /\ Begins(c)
  /\ Submit(c, "non-stop", "set")
  /\ UNCHANGED <<sel, tries>>

SetReply(c) ==
  /\ Resumes(c, "set") /\ Return(c)
  /\ UNCHANGED <<phase, settled, memo, probing>>

RawReply(c) ==
  /\ Resumes(c, "raw") /\ Return(c)
  /\ IF reply[c] = "ok" THEN Remember(c) ELSE UNCHANGED memo
  /\ UNCHANGED <<phase, settled, probing>>

(* The Scheme thread takes its answer when it gets to run.                 *)
SchemeReply ==
  /\ pc[Scheme] = "raw" /\ reply[Scheme] # "none"
  /\ reply' = [reply EXCEPT ![Scheme] = "none"]
  /\ Return(Scheme)
  /\ IF reply[Scheme] = "ok" THEN Remember(Scheme) ELSE UNCHANGED memo
  /\ UNCHANGED <<phase, settled, runq, requests, probing, gdbVars>>

(* recv_timeout: GDB answers the command all the same.                     *)
SchemeTimesOut ==
  /\ pc[Scheme] = "raw" /\ reply[Scheme] = "none"
  /\ GivesUp(Scheme)
  /\ queue' = [i \in DOMAIN queue |->
                 IF queue[i].caller = Scheme THEN [queue[i] EXCEPT !.caller = Nobody] ELSE queue[i]]
  /\ UNCHANGED <<phase, settled, reply, runq, requests, memo, probing, gdbVars>>

(* A mutant of Reconnect: it disconnects with no selection remembered.     *)
Reconnect_Unremembered(c) ==
  /\ c \in Tools /\ Begins(c)
  /\ sel' = [sel EXCEPT ![c] = memo]
  /\ Submit(c, "disconnect", "disconnect")
  /\ UNCHANGED tries

(* reconnect_target: what is remembered is read before the disconnect.     *)
Reconnect(c) ==
  /\ c \in Tools /\ memo # NoTarget /\ Begins(c)
  /\ sel' = [sel EXCEPT ![c] = memo]
  /\ Submit(c, "disconnect", "disconnect")
  /\ UNCHANGED tries

(* A mutant of DisconnectReply: a reply that never comes is awaited.       *)
DisconnectReply_Waits(c) ==
  /\ Resumes(c, "disconnect") /\ reply[c] # "exited"
  /\ Continue(c, sel[c], "reselect")
  /\ tries' = [tries EXCEPT ![c] = 1]
  /\ UNCHANGED <<phase, settled, memo, probing>>

(* The outcome of the disconnect does not matter, its failure does.        *)
DisconnectReply(c) ==
  /\ Resumes(c, "disconnect")
  /\ IF reply[c] = "exited" THEN Return(c)
     ELSE Continue(c, sel[c], "reselect") /\ tries' = [tries EXCEPT ![c] = 1]
  /\ UNCHANGED <<phase, settled, memo, probing>>

ReselectReply(c) ==
  /\ Resumes(c, "reselect") /\ Return(c)
  /\ IF reply[c] = "ok" THEN Remember(c) ELSE UNCHANGED memo
  /\ UNCHANGED <<phase, settled, probing>>

(* spawn_vmlinux_probe: an answer, or two seconds.                         *)
ProbeEnds ==
  /\ probing > 0 /\ probing' = probing - 1
  /\ UNCHANGED <<phase, settled, callerVars, memo, gdbVars>>

-----------------------------------------------------------------------------
Request == \E c \in Callers :
  TargetSelect(c) \/ RawSelect(c) \/ RawNonStop(c) \/ Reconnect(c)

Resume == BootReply \/ \E c \in Tasks :
  \/ FirstReply(c) \/ DowngradeReply(c) \/ RetryReply(c)
  \/ RawReply(c) \/ SetReply(c) \/ DisconnectReply(c) \/ ReselectReply(c)

Next ==
  \/ phase # "failed" /\ (Answer \/ GdbExits)
  \/ BootTimesOut \/ NoConnect \/ ProbeEnds
  \/ SchemeReply \/ SchemeTimesOut
  \/ Request \/ Resume

Spec == Init /\ [][Next]_vars

(* The runtime polls its tasks and timers, the Scheme thread runs, and the *)
(* reader answers for a GDB that is gone.  A live GDB may stay silent.     *)
Fairness ==
  /\ WF_vars(Resume) /\ WF_vars(BootTimesOut) /\ WF_vars(NoConnect) /\ WF_vars(ProbeEnds)
  /\ WF_vars(SchemeReply) /\ WF_vars(SchemeTimesOut)
  /\ WF_vars(phase # "failed" /\ gone /\ Answer)

FairSpec == Spec /\ Fairness

-----------------------------------------------------------------------------
(* The commands that select no target.                                     *)
Ops == {"mi-async", "non-stop", "pagination", "confirm", "off", "disconnect"}

(* The variables have the types the code gives them; what GDB is sent      *)
(* selects a target or is one of those commands, so that a reconnect never *)
(* selects the target of a session that has none.                          *)
TypeOK ==
  /\ phase \in {"bootstrap", "connect", "serving", "failed"}
  /\ settled \in 0..Len(BootstrapCommands)
  /\ pc \in [Callers -> Points] /\ sel \in [Callers -> Targets \cup {NoTarget}]
  /\ tries \in [Callers -> Nat]
  /\ \A i \in DOMAIN queue : queue[i].caller \in Callers \cup {Nobody} /\ queue[i].op \in Targets \cup Ops
  /\ reply \in [Callers -> {"none", "ok", "error", "mismatch", "exited"}]
  /\ runq \in Seq(Tasks)
  /\ memo \in Targets \cup {NoTarget} /\ latest \in Targets \cup {NoTarget}
  /\ probing \in Nat /\ nonstop \in BOOLEAN /\ gone \in BOOLEAN /\ byScheme \in BOOLEAN

(* What reconnect_target would select is the selection GDB accepted last,  *)
(* whatever the tool calls that overlapped: as soon as every accepted      *)
(* selection has come back to its caller.  A selection that was refused or *)
(* retried leaves no trace.  Only (mi ..) breaks this: it runs on a thread *)
(* of its own, and forgets the answer after its timeout.                   *)
MemoIsLatest ==
  runq = <<>> /\ ~byScheme /\ phase \in {"connect", "serving"} => memo = latest

(* One request selects its target at most twice, also when another client  *)
(* turns non-stop mode on again between the downgrade and the retry.       *)
OneRetry == \A c \in Callers : tries[c] <= 2

(* The bootstrap ends even if GDB never says a word.                       *)
BootstrapEnds == phase = "bootstrap" ~> phase # "bootstrap"

(* When GDB is gone every request comes to its end, at whichever of its    *)
(* commands it was.                                                        *)
GdbExitEndsRequests == \A c \in Callers : gone /\ pc[c] # "idle" ~> pc[c] = "idle"
=============================================================================
