----------------------------- MODULE SchemeWorker -----------------------------
(***************************************************************************)
(* The Scheme worker: scheme_eval calls send requests over a bounded       *)
(* channel to a thread that owns the Steel engine; a watchdog thread per   *)
(* eval interrupts the engine when the budget is used up; the primitives   *)
(* (mi ..), (wait-for-stop ..) and (cont-and-wait ..) block the worker     *)
(* for at most what is left of the budget.                                 *)
(*                                                                         *)
(* A timer is a countdown.  Tick is the passing of one unit of time; it    *)
(* does not overtake a timer that is due, nor an interrupted VM that has   *)
(* not come to its next operation.                                         *)
(***************************************************************************)
EXTENDS Integers, Sequences, FiniteSets

CONSTANTS
  MaxEvals,         \* bound on the scheme_eval calls, which are numbered as they arrive
  EvalTimeout,      \* SchemeSettings::eval_timeout
  WaitTimeout,      \* SchemeSettings::wait_timeout
  MaxBudget,        \* MAX_BUDGET_SECS
  ChannelCapacity,  \* EVAL_CHANNEL_CAPACITY
  BudgetArgs,       \* the values of budget_secs clients send
  RebuildFails      \* whether an engine that was built once may fail to build again

ASSUME TimesAssumption   == /\ EvalTimeout \in Nat \ {0} /\ WaitTimeout \in Nat \ {0}
                            /\ MaxBudget \in Nat \ {0} /\ ChannelCapacity \in Nat \ {0}
                            /\ MaxEvals \in Nat
ASSUME BudgetsAssumption == BudgetArgs \subseteq Nat /\ RebuildFails \in BOOLEAN

VARIABLES
  calls,        \* the calls so far
  epc,          \* where each call is
  budget,       \* its effective_budget
  patience,     \* what is left of the timeout around its reply
  ready,        \* request tasks not yet polled
  parked,       \* tasks that wait in send for room
  granted,      \* tasks that were given room and have not been polled
  queue,        \* the requests in the channel
  closed,       \* whether the Sender has been dropped
  wpc,          \* where the worker thread is
  current,      \* the request it processes
  cell,         \* EvalDeadline: what is left until it, -1 for None
  block,        \* what is left of the timeout of the primitive it is in
  asked,        \* the timeout a *-and-wait primitive was called with
  result,       \* how engine.run returned
  engine,       \* whether the engine has panicked
  interrupt,    \* the ThreadStateController
  watchdog,     \* where the watchdog thread is
  fuse,         \* what is left of its recv_timeout
  submitting,   \* whether a spawned submit task is on the runtime
  aborted,      \* whether the runtime has an aborted submit task to drop
  ran,          \* how long the current eval has run (history)
  served,       \* the requests the worker has received (history)
  crowded       \* the calls that had to wait for room (history)

callVars  == <<calls, epc, budget, patience>>
chanVars  == <<ready, parked, granted, queue, closed>>
primVars  == <<block, asked, submitting, aborted>>
guardVars == <<interrupt, watchdog, fuse>>
history   == <<served, crowded>>
evalVars  == <<wpc, current, cell, result, engine, ran>>
workerVars == <<callVars, chanVars, primVars, guardVars, history, evalVars>>

Evals  == 1..MaxEvals
NoEval == 0

Returned  == {"replied", "expired", "refused", "dropped"}
Blocking  == {"submit", "trigger", "wait"}
Executing == {"run"} \cup Blocking

Least(a, b) == IF a < b THEN a ELSE b

(* A mutant of Less: the subtraction does not saturate.                    *)
Less_BelowZero(t) == t - 1

Less(t) == IF t > 0 THEN t - 1 ELSE t

WorkerInit ==
  /\ calls = 0 /\ epc = [e \in Evals |-> "idle"]
  /\ budget = [e \in Evals |-> 0] /\ patience = [e \in Evals |-> 0]
  /\ ready = <<>> /\ parked = <<>> /\ granted = <<>> /\ queue = <<>> /\ closed = FALSE
  /\ wpc = "init" /\ current = NoEval /\ cell = -1 /\ result = "none"
  /\ engine = "sound" /\ ran = 0
  /\ block = 0 /\ asked = 0 /\ submitting = FALSE /\ aborted = FALSE
  /\ interrupt = FALSE /\ watchdog = "none" /\ fuse = 0
  /\ served = {} /\ crowded = {}

-----------------------------------------------------------------------------
(* scheme_eval_route and SchemeHandle::eval: the caller.                   *)

Goto(e, point) == epc' = [epc EXCEPT ![e] = point]

(* budget_secs is absent, zero (refused) or capped; the request's task is  *)
(* spawned.                                                                *)
NextCall(point) ==
  /\ calls < MaxEvals /\ calls' = calls + 1
  /\ Goto(calls + 1, point)

CallRefused ==
  /\ 0 \in BudgetArgs /\ NextCall("refused")
  /\ UNCHANGED <<budget, patience, chanVars, primVars, guardVars, history, evalVars>>

Call ==
  /\ NextCall("ready")
  /\ \E b \in {EvalTimeout} \cup {Least(s, MaxBudget) : s \in BudgetArgs \ {0}} :
       budget' = [budget EXCEPT ![calls + 1] = b]
  /\ ready' = Append(ready, calls + 1)
  /\ UNCHANGED <<patience, parked, granted, queue, closed, primVars, guardVars, history, evalVars>>

(* A mutant of Room: one place is always kept free.                        *)
Room_KeepsOne == Len(queue) + Len(granted) + 1 < ChannelCapacity

Room == Len(queue) + Len(granted) < ChannelCapacity

(* The request is in the channel, and the timeout around the reply runs.   *)
Sent(e) ==
  /\ queue' = Append(queue, e)
  /\ Goto(e, "waiting")
  /\ patience' = [patience EXCEPT ![e] = budget[e]]

(* A mutant of PollCall: any task that is ready is polled.                 *)
PollCall_AnyOrder ==
  \E i \in DOMAIN ready :
    /\ ready' = SubSeq(ready, 1, i - 1) \o SubSeq(ready, i + 1, Len(ready))
    /\ IF Room /\ parked = <<>>
       THEN Sent(ready[i]) /\ UNCHANGED <<parked, crowded>>
       ELSE /\ parked' = Append(parked, ready[i]) /\ crowded' = crowded \cup {ready[i]}
            /\ Goto(ready[i], "parked")
            /\ UNCHANGED <<queue, patience>>
    /\ UNCHANGED <<calls, budget, granted, closed, primVars, guardVars, served, evalVars>>

(* The runtime polls new tasks in the order in which they were spawned;    *)
(* a send without room waits its turn.                                     *)
PollCall ==
  /\ ready # <<>>
  /\ ready' = Tail(ready)
  /\ IF Room /\ parked = <<>>
     THEN Sent(Head(ready)) /\ UNCHANGED <<parked, crowded>>
     ELSE /\ parked' = Append(parked, Head(ready)) /\ crowded' = crowded \cup {Head(ready)}
          /\ Goto(Head(ready), "parked")
          /\ UNCHANGED <<queue, patience>>
  /\ UNCHANGED <<calls, budget, granted, closed, primVars, guardVars, served, evalVars>>

(* A task woken by the worker's thread is polled apart from the new ones.  *)
PollGranted ==
  /\ granted # <<>>
  /\ granted' = Tail(granted)
  /\ Sent(Head(granted))
  /\ UNCHANGED <<calls, budget, ready, parked, closed, primVars, guardVars, history, evalVars>>

(* tokio::time::timeout: the receiver is dropped, the request is not.      *)
CallerTimesOut(e) ==
  /\ epc[e] = "waiting" /\ patience[e] = 0
  /\ Goto(e, "expired")
  /\ UNCHANGED <<calls, budget, patience, chanVars, primVars, guardVars, history, evalVars>>

-----------------------------------------------------------------------------
(* The worker thread.                                                      *)

(* Phase 1 of spawn: the engine is built.                                  *)
WorkerReady ==
  /\ wpc = "init"
  /\ wpc' = "recv"
  /\ UNCHANGED <<callVars, chanVars, primVars, guardVars, history, current, cell, result, engine, ran>>

(* blocking_recv makes room; process_one sets the deadline and spawns the  *)
(* watchdog of run_engine_with_budget, and the engine runs.                *)
Receive ==
  /\ wpc = "recv" /\ queue # <<>>
  /\ queue' = Tail(queue)
  /\ IF parked = <<>>
     THEN UNCHANGED <<parked, granted, epc>>
     ELSE /\ parked' = Tail(parked) /\ granted' = Append(granted, Head(parked))
          /\ Goto(Head(parked), "granted")
  /\ current' = Head(queue) /\ served' = served \cup {Head(queue)}
  /\ cell' = budget[Head(queue)] /\ fuse' = budget[Head(queue)]
  /\ watchdog' = "armed" /\ result' = "none" /\ ran' = 0
  /\ wpc' = "run"
  /\ UNCHANGED <<calls, budget, patience, ready, closed, primVars, interrupt, crowded, engine>>

(* The channel is closed and empty: the thread ends.                       *)
WorkerExits ==
  /\ wpc = "recv" /\ queue = <<>> /\ closed
  /\ wpc' = "exited"
  /\ UNCHANGED <<callVars, chanVars, primVars, guardVars, history, current, cell, result, engine, ran>>

-----------------------------------------------------------------------------
(* The primitives.  One that is refused raises a Scheme error, which the   *)
(* program may handle: the VM goes on.  A call with a timeout of its own   *)
(* must fit in the budget, a default timeout is cut to what is left.       *)

(* A mutant of clamp_to_eval_budget: the default is used as it is.         *)
clamp_to_eval_budget_Ignores(timeout) == timeout

clamp_to_eval_budget(timeout) == IF cell = -1 THEN timeout ELSE Least(timeout, cell)

check_eval_budget(requested) == cell = -1 \/ requested <= cell

Exhausted == cell = 0

(* What a program may give as seconds: zero and less raise an error.       *)
timeout_from_seconds == 1..MaxBudget

Submits(point, timeout) ==
  /\ wpc' = point /\ block' = timeout /\ submitting' = TRUE

(* (mi ..) and (gdb-version).                                              *)
Mi ==
  /\ wpc = "run" /\ ~Exhausted
  /\ Submits("submit", cell)
  /\ UNCHANGED <<callVars, chanVars, asked, aborted, guardVars, history, current, cell, result, engine, ran>>

(* (wait-for-stop) and (wait-for-stop seconds).                            *)
WaitForStop ==
  /\ wpc = "run"
  /\ \/ ~Exhausted /\ block' = clamp_to_eval_budget(WaitTimeout)
     \/ \E seconds \in timeout_from_seconds : check_eval_budget(seconds) /\ block' = seconds
  /\ wpc' = "wait"
  /\ UNCHANGED <<callVars, chanVars, asked, submitting, aborted, guardVars, history, current, cell, result, engine, ran>>

(* (cont-and-wait) and its like: submit_and_await_stop.                    *)
TriggerAndWait ==
  /\ wpc = "run" /\ ~Exhausted
  /\ \/ asked' = clamp_to_eval_budget(WaitTimeout)
     \/ \E seconds \in timeout_from_seconds : check_eval_budget(seconds) /\ asked' = seconds
  /\ Submits("trigger", clamp_to_eval_budget(asked'))
  /\ UNCHANGED <<callVars, chanVars, aborted, guardVars, history, current, cell, result, engine, ran>>

(* The submit task completes: the outcome is in the channel and the task   *)
(* is dropped in the same poll.                                            *)
SubmitAnswered ==
  /\ wpc \in {"submit", "trigger"} /\ submitting
  /\ submitting' = FALSE /\ asked' = 0
  /\ \/ wpc' = "run" /\ block' = 0
     \/ /\ wpc = "trigger" /\ ~Exhausted
        /\ wpc' = "wait" /\ block' = clamp_to_eval_budget(asked)
  /\ UNCHANGED <<callVars, chanVars, aborted, guardVars, history, current, cell, result, engine, ran>>

(* recv_timeout: task.abort() only schedules the drop of the task.         *)
SubmitTimesOut ==
  /\ wpc \in {"submit", "trigger"} /\ block = 0
  /\ submitting' = FALSE /\ aborted' = TRUE /\ asked' = 0
  /\ wpc' = "run"
  /\ UNCHANGED <<callVars, chanVars, block, guardVars, history, current, cell, result, engine, ran>>

(* A stop arrives, or the wait times out.                                  *)
WaitEnds ==
  /\ wpc = "wait"
  /\ wpc' = "run" /\ block' = 0
  /\ UNCHANGED <<callVars, chanVars, asked, submitting, aborted, guardVars, history, current, cell, result, engine, ran>>

WaitTimesOut == block = 0 /\ WaitEnds

(* The runtime polls the aborted tasks and drops them.                     *)
DropAborted ==
  /\ aborted
  /\ aborted' = FALSE
  /\ UNCHANGED <<callVars, chanVars, block, asked, submitting, guardVars, history, evalVars>>

-----------------------------------------------------------------------------
(* The engine and its watchdog.                                            *)

EngineEnds(r) ==
  /\ wpc = "run"
  /\ result' = r
  /\ engine' = IF r = "panic" THEN "panicked" ELSE engine
  /\ wpc' = "ended" /\ ran' = 0
  /\ UNCHANGED <<callVars, chanVars, primVars, guardVars, history, current, cell>>

(* The VM sees the interrupt at its next operation.                        *)
VmInterrupted == interrupt /\ EngineEnds("returned")

WatchdogExpires ==
  /\ watchdog = "armed" /\ fuse = 0
  /\ watchdog' = "expired"
  /\ UNCHANGED <<callVars, chanVars, primVars, interrupt, fuse, history, evalVars>>

WatchdogInterrupts ==
  /\ watchdog = "expired"
  /\ interrupt' = TRUE /\ watchdog' = "ended"
  /\ UNCHANGED <<callVars, chanVars, primVars, fuse, history, evalVars>>

(* done_tx.send: a watchdog that has not expired ends.                     *)
EvalDone ==
  /\ wpc = "ended"
  /\ watchdog' = IF watchdog = "armed" THEN "ended" ELSE watchdog
  /\ wpc' = "join"
  /\ UNCHANGED <<callVars, chanVars, primVars, interrupt, fuse, history, current, cell, result, engine, ran>>

(* A mutant of JoinWatchdog: no resume once the watchdog has ended.        *)
JoinWatchdog_NoResume ==
  /\ wpc = "join" /\ watchdog = "ended"
  /\ watchdog' = "none" /\ fuse' = 0
  /\ wpc' = "reply"
  /\ UNCHANGED <<callVars, chanVars, primVars, interrupt, history, current, cell, result, engine, ran>>

(* watchdog.join, then resume.                                             *)
JoinWatchdog ==
  /\ wpc = "join" /\ watchdog = "ended"
  /\ watchdog' = "none" /\ fuse' = 0 /\ interrupt' = FALSE
  /\ wpc' = "reply"
  /\ UNCHANGED <<callVars, chanVars, primVars, history, current, cell, result, engine, ran>>

Answer ==
  /\ wpc = "reply"
  /\ cell' = -1
  /\ IF epc[current] = "waiting" THEN Goto(current, "replied") ELSE UNCHANGED epc
  /\ current' = NoEval /\ result' = "none"
  /\ wpc' = "recv"
  /\ UNCHANGED <<calls, budget, patience, chanVars, primVars, guardVars, history, ran>>

(* A mutant of Reply: the engine that panicked is kept.                    *)
Reply_KeepsEngine == Answer /\ UNCHANGED engine

(* After a panic the engine is rebuilt; a failed rebuild is reported, and  *)
(* the loop goes on all the same.  clear_eval_deadline, and the reply,     *)
(* which a caller that gave up ignores.                                    *)
Reply ==
  /\ Answer
  /\ engine' \in IF result # "panic" THEN {engine}
                 ELSE IF RebuildFails THEN {"sound", "panicked"} ELSE {"sound"}

-----------------------------------------------------------------------------
Due ==
  \/ wpc \in Blocking /\ block = 0
  \/ watchdog = "armed" /\ fuse = 0
  \/ watchdog = "expired"
  \/ wpc = "run" /\ interrupt

Tick ==
  /\ ~Due
  /\ patience' = [e \in Evals |-> IF epc[e] = "waiting" THEN Less(patience[e]) ELSE 0]
  /\ cell' = Less(cell) /\ block' = Less(block)
  /\ fuse' = IF watchdog = "armed" THEN Less(fuse) ELSE fuse
  /\ ran' = IF wpc \in Executing THEN ran + 1 ELSE ran
  /\ UNCHANGED <<calls, epc, budget, chanVars, asked, submitting, aborted, interrupt, watchdog, history,
                 wpc, current, result, engine>>

CallStep == PollCall \/ PollGranted \/ \E e \in Evals : CallerTimesOut(e)

WatchdogStep == WatchdogExpires \/ WatchdogInterrupts

(* What the worker does of itself: everything but how the Scheme program   *)
(* goes on and when GDB answers.                                           *)
WorkerStep ==
  \/ WorkerReady \/ Receive \/ WorkerExits
  \/ SubmitTimesOut \/ WaitTimesOut
  \/ VmInterrupted \/ EvalDone \/ JoinWatchdog \/ Reply

ProgramStep == Mi \/ WaitForStop \/ TriggerAndWait \/ \E r \in {"returned", "panic"} : EngineEnds(r)

GdbStep == SubmitAnswered \/ WaitEnds

WorkerNext ==
  \/ CallStep \/ WatchdogStep \/ WorkerStep \/ ProgramStep \/ GdbStep
  \/ DropAborted \/ Tick

-----------------------------------------------------------------------------
(* The variables have the types the code gives them.                       *)
WorkerTypeOK ==
  /\ calls \in 0..MaxEvals
  /\ epc \in [Evals -> {"idle", "ready", "parked", "granted", "waiting"} \cup Returned]
  /\ budget \in [Evals -> Nat] /\ patience \in [Evals -> Nat]
  /\ ready \in Seq(Evals) /\ parked \in Seq(Evals) /\ granted \in Seq(Evals) /\ queue \in Seq(Evals)
  /\ closed \in BOOLEAN
  /\ wpc \in {"init", "recv", "ended", "join", "reply", "exited"} \cup Executing
  /\ current \in Evals \cup {NoEval}
  /\ cell \in Nat \cup {-1} /\ block \in Nat /\ asked \in Nat /\ ran \in Nat
  /\ result \in {"none", "returned", "panic"} /\ engine \in {"sound", "panicked"}
  /\ interrupt \in BOOLEAN /\ watchdog \in {"none", "armed", "expired", "ended"} /\ fuse \in Nat
  /\ submitting \in BOOLEAN /\ aborted \in BOOLEAN
  /\ served \subseteq Evals /\ crowded \subseteq Evals

(* An eval occupies the worker for no longer than its budget, whatever its *)
(* program does and whether or not its caller still waits: the watchdog    *)
(* stops a program that computes, and no primitive blocks for longer than  *)
(* what is left of the budget when it is called.                           *)
RunsWithinBudget == wpc \in Executing => ran <= budget[current]

(* No eval is interrupted while it has budget left: the interrupt of a     *)
(* watchdog that expired as its eval ended never hits the next eval.       *)
InterruptIsDue == wpc \in Executing /\ interrupt => cell = 0

(* Requests are served in the order in which the calls arrived: a call is *)
(* overtaken only if it found the channel full.                            *)
ServedInOrder ==
  \A e, f \in Evals : e < f /\ f \in served /\ epc[e] # "refused" => e \in served \cup crowded

(* No eval runs on an engine that has panicked.                            *)
EngineIsSound == wpc \in Executing => engine = "sound"
=============================================================================
