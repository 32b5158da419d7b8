----------------------------- MODULE ServerProofs -----------------------------
(***************************************************************************)
(* Theorems about the process, for any number of calls, any budgets, any   *)
(* capacity of the channel and any number of background tasks.             *)
(***************************************************************************)
EXTENDS Server, SequenceTheorems, TLAPS

(* Where the requests are; the budget of a call is fixed when it arrives.  *)
ChannelInv ==
  /\ ready \in Seq(1..calls) /\ parked \in Seq(1..calls)
  /\ granted \in Seq(1..calls) /\ queue \in Seq(1..calls)
  /\ current \in 0..calls
  /\ wpc \in Executing => current \in 1..calls

(* The deadline of the eval that runs and the fuse of its watchdog agree.  *)
TimeInv ==
  /\ wpc \in Executing =>
       /\ cell \in Nat /\ ran + cell = budget[current]
       /\ watchdog \in {"armed", "expired", "ended"}
       /\ watchdog = "armed" => fuse = cell
       /\ watchdog # "armed" => cell = 0
       /\ interrupt <=> watchdog = "ended"
  /\ wpc \in Blocking => block <= cell
  /\ wpc \in {"init", "recv", "reply", "exited"} => ~interrupt /\ watchdog = "none"

(* The engine that runs is sound, and Reply sees the panic of one that is  *)
(* not.                                                                    *)
EngineInv ==
  /\ wpc \in {"init", "recv"} \cup Executing => engine = "sound"
  /\ wpc \in {"ended", "join", "reply"} /\ engine = "panicked" => result = "panic"

(* The worker does nothing before it is spawned.                           *)
StartInv == main \in {"connect", "spawn"} => wpc = "init"

(* The order of the shutdown, and who holds the transport.                 *)
HoldInv ==
  /\ main \in {"join", "take", "shutdown", "panicked"} => probes = 0
  /\ main \in {"take", "shutdown", "panicked"} => wpc = "exited"
  /\ submitting => wpc \in {"submit", "trigger"}

(* The calls the runtime has polled.                                       *)
Polled == served \cup Range(queue) \cup Range(parked) \cup Range(granted)

(* Before the session no call has arrived; in it, every call that arrived  *)
(* is refused, polled, or ready; after it none is ready.                   *)
SessionInv ==
  /\ main \in {"connect", "spawn", "init"} => calls = 0
  /\ ready # <<>> => Serving
  /\ Serving => \A e \in 1..calls : epc[e] = "refused" \/ e \in Polled \cup Range(ready)

(* The ready calls are later than the polled ones, and in order.           *)
ReadyInv ==
  /\ \A i, j \in 1..Len(ready) : i < j => ready[i] < ready[j]
  /\ \A f \in Polled, i \in 1..Len(ready) : f < ready[i]

(* A call that a polled one has left behind has found no room; so has one  *)
(* behind a later call in the channel, or served after a later one.        *)
OrderInv ==
  /\ served \subseteq 1..calls
  /\ Range(parked) \cup Range(granted) \subseteq crowded
  /\ \A f \in Polled, e \in 1..calls :
       e < f => epc[e] = "refused" \/ e \in served \cup crowded \cup Range(queue)
  /\ \A i, j \in 1..Len(queue) : i < j /\ queue[j] < queue[i] => queue[j] \in crowded
  /\ \A f \in served, i \in 1..Len(queue) : queue[i] < f => queue[i] \in crowded

-----------------------------------------------------------------------------
(* What a queue holds after an element is taken or added.                  *)
LEMMA Popped ==
  ASSUME NEW S, NEW s \in Seq(S), s # <<>>
  PROVE  /\ Len(s) \in Nat \ {0} /\ Head(s) = s[1] /\ Head(s) \in S
         /\ Tail(s) \in Seq(S) /\ Len(Tail(s)) = Len(s) - 1
         /\ \A i \in 1..Len(Tail(s)) : Tail(s)[i] = s[i + 1]
         /\ Range(s) = {Head(s)} \cup Range(Tail(s))
<1>1. /\ Len(s) \in Nat \ {0} /\ Head(s) = s[1] /\ Head(s) \in S
      /\ Tail(s) \in Seq(S) /\ Len(Tail(s)) = Len(s) - 1
      /\ \A i \in 1..Len(Tail(s)) : Tail(s)[i] = s[i + 1]
  BY HeadTailProperties, EmptySeq
<1>2. DOMAIN s = 1..Len(s) /\ DOMAIN Tail(s) = 1..(Len(s) - 1)
  BY <1>1, LenProperties
<1>3. \A i \in 1..Len(s) : i = 1 \/ (i - 1 \in 1..(Len(s) - 1) /\ Tail(s)[i - 1] = s[i])
  BY <1>1
<1>4. Range(s) \subseteq {Head(s)} \cup Range(Tail(s))
  <2>1. ASSUME NEW i \in DOMAIN s PROVE s[i] = Head(s) \/ s[i] \in Range(Tail(s))
    BY <1>1, <1>2, <1>3 DEF Range
  <2> QED  BY <2>1 DEF Range
<1>5. {Head(s)} \cup Range(Tail(s)) \subseteq Range(s)
  <2>1. Head(s) \in Range(s)
    BY <1>1, <1>2 DEF Range
  <2>2. ASSUME NEW i \in 1..(Len(s) - 1) PROVE i + 1 \in DOMAIN s /\ Tail(s)[i] = s[i + 1]
    BY <1>1, <1>2
  <2> QED  BY <1>2, <2>1, <2>2 DEF Range
<1> QED  BY <1>1, <1>4, <1>5

LEMMA Pushed ==
  ASSUME NEW S, NEW s \in Seq(S), NEW x \in S
  PROVE  /\ Len(s) \in Nat /\ Append(s, x) \in Seq(S) /\ Len(Append(s, x)) = Len(s) + 1
         /\ \A i \in 1..Len(s) : Append(s, x)[i] = s[i]
         /\ Append(s, x)[Len(s) + 1] = x
         /\ Range(Append(s, x)) = Range(s) \cup {x}
<1>1. /\ Len(s) \in Nat /\ Append(s, x) \in Seq(S) /\ Len(Append(s, x)) = Len(s) + 1
      /\ \A i \in 1..Len(s) : Append(s, x)[i] = s[i]
      /\ Append(s, x)[Len(s) + 1] = x
  BY AppendProperties, LenProperties
<1>2. DOMAIN s = 1..Len(s) /\ DOMAIN Append(s, x) = 1..(Len(s) + 1)
  BY <1>1, LenProperties
<1> QED  BY <1>1, <1>2 DEF Range

LEMMA Emptied == Range(<<>>) = {} /\ Len(<<>>) = 0
BY DEF Range

(* The requests are those of calls that arrived.                           *)
LEMMA ChannelStep ==
  ASSUME TypeOK, ChannelInv, [Next]_vars
  PROVE  ChannelInv'
<1> USE DEF callVars, chanVars, primVars, guardVars, history, evalVars, serverVars, workerVars
<1>N. calls \in Nat
  BY DEF TypeOK, WorkerTypeOK
<1>K. ASSUME UNCHANGED <<calls, ready, parked, granted, queue, current>>,
             wpc' \in Executing => wpc \in Executing
      PROVE  ChannelInv'
  BY <1>K DEF ChannelInv, Executing, Blocking
<1>1. CASE UNCHANGED vars
  BY <1>1, <1>K DEF vars
<1>2. CASE Call
  <2>1. calls' = calls + 1 /\ ready' = Append(ready, calls + 1)
        /\ UNCHANGED <<parked, granted, queue, current, wpc>>
    BY <1>2 DEF Call, NextCall
  <2>2. 1..calls \subseteq 1..calls' /\ calls + 1 \in 1..calls'
    BY <2>1, <1>N
  <2>3. /\ ready \in Seq(1..calls') /\ parked \in Seq(1..calls')
        /\ granted \in Seq(1..calls') /\ queue \in Seq(1..calls')
    BY <2>2, SeqMonotonic DEF ChannelInv
  <2>4. ready' \in Seq(1..calls')
    BY <2>1, <2>2, <2>3, AppendProperties
  <2> QED  BY <2>1, <2>3, <2>4, <1>N DEF ChannelInv, Executing, Blocking
<1>3. CASE CallRefused
  <2>1. calls' = calls + 1 /\ UNCHANGED <<ready, parked, granted, queue, current, wpc>>
    BY <1>3 DEF CallRefused, NextCall
  <2>2. 1..calls \subseteq 1..calls'
    BY <2>1, <1>N
  <2>3. /\ ready \in Seq(1..calls') /\ parked \in Seq(1..calls')
        /\ granted \in Seq(1..calls') /\ queue \in Seq(1..calls')
    BY <2>2, SeqMonotonic DEF ChannelInv
  <2> QED  BY <2>1, <2>3, <1>N DEF ChannelInv, Executing, Blocking
<1>4. CASE PollCall
  <2>1. /\ Head(ready) \in 1..calls /\ ready' \in Seq(1..calls)
    BY <1>4, Popped DEF PollCall, ChannelInv
  <2>2. queue' \in Seq(1..calls) /\ parked' \in Seq(1..calls)
    <3>1. Append(queue, Head(ready)) \in Seq(1..calls) /\ Append(parked, Head(ready)) \in Seq(1..calls)
      BY <2>1, AppendProperties DEF ChannelInv
    <3>2. queue' \in {queue, Append(queue, Head(ready))} /\ parked' \in {parked, Append(parked, Head(ready))}
      BY <1>4 DEF PollCall, Sent
    <3> QED  BY <3>1, <3>2 DEF ChannelInv
  <2> QED  BY <1>4, <2>1, <2>2 DEF PollCall, ChannelInv, Executing, Blocking
<1>5. CASE PollGranted
  <2>1. /\ Head(granted) \in 1..calls /\ granted' \in Seq(1..calls)
    BY <1>5, Popped DEF PollGranted, ChannelInv
  <2>2. queue' \in Seq(1..calls)
    BY <1>5, <2>1, AppendProperties DEF PollGranted, Sent, ChannelInv
  <2> QED  BY <1>5, <2>1, <2>2 DEF PollGranted, ChannelInv, Executing, Blocking
<1>6. CASE Receive
  <2>1. /\ current' \in 1..calls /\ queue' \in Seq(1..calls)
    BY <1>6, Popped DEF Receive, ChannelInv
  <2>2. parked' \in Seq(1..calls) /\ granted' \in Seq(1..calls)
    <3>1. CASE parked = <<>>
      BY <1>6, <3>1 DEF Receive, ChannelInv
    <3>2. CASE parked # <<>>
      <4>1. Head(parked) \in 1..calls /\ Tail(parked) \in Seq(1..calls)
        BY <3>2, Popped DEF ChannelInv
      <4>2. Append(granted, Head(parked)) \in Seq(1..calls)
        BY <4>1, AppendProperties DEF ChannelInv
      <4> QED  BY <1>6, <3>2, <4>1, <4>2 DEF Receive
    <3> QED  BY <3>1, <3>2
  <2>3. UNCHANGED <<calls, ready>>
    BY <1>6 DEF Receive
  <2> QED  BY <2>1, <2>2, <2>3, <1>N DEF ChannelInv
<1>7. CASE Reply
  BY <1>7, <1>N DEF Reply, Answer, ChannelInv, NoEval, Executing, Blocking
<1>8. CASE Disconnect
  BY <1>8, EmptySeq DEF Disconnect, ChannelInv
<1>9. CASE WorkerReady \/ WorkerExits \/ EvalDone \/ JoinWatchdog \/ \E r \in {"returned", "panic"} : EngineEnds(r)
  BY <1>9, <1>K DEF WorkerReady, WorkerExits, EvalDone, JoinWatchdog, EngineEnds, Executing, Blocking
<1>10. CASE SubmitTimesOut \/ WaitEnds \/ SubmitAnswered \/ Mi \/ WaitForStop \/ TriggerAndWait
  BY <1>10, <1>K DEF SubmitTimesOut, WaitEnds, SubmitAnswered, Mi, WaitForStop, TriggerAndWait, Submits,
                     Executing, Blocking
<1>11. CASE WatchdogExpires \/ WatchdogInterrupts \/ DropAborted \/ Tick \/ \E e \in Evals : CallerTimesOut(e)
  BY <1>11, <1>K DEF WatchdogExpires, WatchdogInterrupts, DropAborted, Tick, CallerTimesOut
<1>12. CASE SpawnProbe \/ ProbeEnds \/ ConnectFails \/ SchemeInitFails
  BY <1>12, <1>K DEF SpawnProbe, ProbeEnds, ConnectFails, SchemeInitFails, Executing, Blocking
<1>13. CASE MainStep
  BY <1>13, <1>K DEF MainStep, NoProbe, SchemeSpawned, Serve, AbortAndWait, JoinWorker, TakeTransport
<1> QED
  BY <1>1, <1>2, <1>3, <1>4, <1>5, <1>6, <1>7, <1>8, <1>9, <1>10, <1>11, <1>12, <1>13
  DEF Next, WorkerNext, CallStep, WatchdogStep, WorkerStep, ProgramStep, GdbStep, VmInterrupted, WaitTimesOut

-----------------------------------------------------------------------------
(* The parts of the type invariant that one step disturbs together.        *)
CallsOK ==
  /\ calls \in 0..MaxEvals
  /\ epc \in [Evals -> {"idle", "ready", "parked", "granted", "waiting"} \cup Returned]
  /\ budget \in [Evals -> Nat] /\ patience \in [Evals -> Nat]
  /\ closed \in BOOLEAN /\ served \subseteq Evals /\ crowded \subseteq Evals

QueuesOK ==
  /\ ready \in Seq(Evals) /\ parked \in Seq(Evals) /\ granted \in Seq(Evals) /\ queue \in Seq(Evals)
  /\ current \in Evals \cup {NoEval}

EvalOK ==
  /\ wpc \in {"init", "recv", "ended", "join", "reply", "exited"} \cup Executing
  /\ cell \in Nat \cup {-1} /\ block \in Nat /\ asked \in Nat /\ ran \in Nat /\ fuse \in Nat

FlagsOK ==
  /\ result \in {"none", "returned", "panic"} /\ engine \in {"sound", "panicked"}
  /\ interrupt \in BOOLEAN /\ watchdog \in {"none", "armed", "expired", "ended"}
  /\ submitting \in BOOLEAN /\ aborted \in BOOLEAN

ProcessOK ==
  /\ main \in {"connect", "spawn", "init", "serving", "abort", "join", "take", "shutdown", "panicked", "failed"}
  /\ probes \in 0..probed /\ probed \in 0..Probes

LEMMA Parts ==
  /\ TypeOK <=> CallsOK /\ QueuesOK /\ EvalOK /\ FlagsOK /\ ProcessOK
  /\ TypeOK' <=> CallsOK' /\ QueuesOK' /\ EvalOK' /\ FlagsOK' /\ ProcessOK'
BY DEF TypeOK, WorkerTypeOK, CallsOK, QueuesOK, EvalOK, FlagsOK, ProcessOK

(* The queues hold calls that arrived, so they hold calls.                 *)
LEMMA QueuesType == ASSUME CallsOK, ChannelInv PROVE QueuesOK
<1>1. 1..calls \subseteq Evals /\ current \in Evals \cup {NoEval}
  BY TimesAssumption DEF CallsOK, ChannelInv, Evals, NoEval
<1> QED  BY <1>1, SeqMonotonic DEF ChannelInv, QueuesOK

(* The budgets and the timeouts the code computes are natural numbers.     *)
LEMMA Times ==
  /\ \A t \in Nat : Less(t) \in Nat /\ Less(t) <= t
  /\ \A a, b \in Nat : Least(a, b) \in Nat /\ Least(a, b) <= a /\ Least(a, b) <= b
  /\ timeout_from_seconds \subseteq Nat
  /\ \A b \in {EvalTimeout} \cup {Least(s, MaxBudget) : s \in BudgetArgs \ {0}} : b \in Nat
BY TimesAssumption, BudgetsAssumption DEF Less, Least, timeout_from_seconds

LEMMA Clamp ==
  ASSUME cell \in Nat \cup {-1}, NEW timeout \in Nat
  PROVE  clamp_to_eval_budget(timeout) \in Nat /\ (cell # -1 => clamp_to_eval_budget(timeout) <= cell)
BY Times DEF clamp_to_eval_budget

LEMMA CallsStep ==
  ASSUME CallsOK, QueuesOK, [Next]_vars
  PROVE  CallsOK'
<1> USE DEF callVars, chanVars, primVars, guardVars, history, evalVars, serverVars, workerVars, CallsOK, Goto
<1>P. ASSUME NEW e \in Evals,
             NEW p \in {"idle", "ready", "parked", "granted", "waiting"} \cup Returned,
             epc' = [epc EXCEPT ![e] = p],
             UNCHANGED <<calls, budget, closed, served>>,
             patience' \in {patience, [patience EXCEPT ![e] = budget[e]]},
             crowded' \in {crowded, crowded \cup {e}}
      PROVE  CallsOK'
  <2>1. epc' \in [Evals -> {"idle", "ready", "parked", "granted", "waiting"} \cup Returned]
    BY <1>P
  <2>2. patience' \in [Evals -> Nat] /\ crowded' \subseteq Evals
    BY <1>P
  <2> QED  BY <1>P, <2>1, <2>2
<1>1. CASE UNCHANGED <<calls, epc, budget, patience, closed, served, crowded>>
  BY <1>1
<1>2. CASE Call
  <2>1. calls + 1 \in Evals /\ calls + 1 \in 0..MaxEvals
    BY <1>2, TimesAssumption DEF Call, NextCall, Evals
  <2>2. epc' \in [Evals -> {"idle", "ready", "parked", "granted", "waiting"} \cup Returned]
    BY <1>2, <2>1 DEF Call, NextCall
  <2>3. budget' \in [Evals -> Nat]
    <3>1. PICK b \in {EvalTimeout} \cup {Least(s, MaxBudget) : s \in BudgetArgs \ {0}} :
            budget' = [budget EXCEPT ![calls + 1] = b]
      BY <1>2 DEF Call
    <3>2. b \in Nat
      BY Times
    <3> QED  BY <3>1, <3>2
  <2> QED  BY <1>2, <2>1, <2>2, <2>3 DEF Call, NextCall
<1>3. CASE CallRefused
  <2>1. calls + 1 \in Evals /\ calls + 1 \in 0..MaxEvals
    BY <1>3, TimesAssumption DEF CallRefused, NextCall, Evals
  <2>2. epc' \in [Evals -> {"idle", "ready", "parked", "granted", "waiting"} \cup Returned]
    BY <1>3, <2>1 DEF CallRefused, NextCall, Returned
  <2> QED  BY <1>3, <2>1, <2>2 DEF CallRefused, NextCall
<1>4. CASE PollCall
  <2>1. Head(ready) \in Evals
    BY <1>4, HeadTailProperties DEF PollCall, QueuesOK
  <2> QED  BY <1>4, <2>1, <1>P DEF PollCall, Sent
<1>5. CASE PollGranted
  <2>1. Head(granted) \in Evals
    BY <1>5, HeadTailProperties DEF PollGranted, QueuesOK
  <2> QED  BY <1>5, <2>1, <1>P DEF PollGranted, Sent
<1>6. ASSUME NEW e \in Evals, CallerTimesOut(e) PROVE CallsOK'
  BY <1>6, <1>P DEF CallerTimesOut, Returned
<1>7. CASE Receive
  <2>1. Head(queue) \in Evals
    BY <1>7, HeadTailProperties DEF Receive, QueuesOK
  <2>2. epc' \in [Evals -> {"idle", "ready", "parked", "granted", "waiting"} \cup Returned]
    <3>1. CASE parked = <<>>
      BY <1>7, <3>1 DEF Receive
    <3>2. CASE parked # <<>>
      <4>1. epc' = [epc EXCEPT ![Head(parked)] = "granted"]
        BY <1>7, <3>2 DEF Receive
      <4> QED  BY <4>1
    <3> QED  BY <3>1, <3>2
  <2>3. served' = served \cup {Head(queue)}
        /\ UNCHANGED <<calls, budget, patience, closed, crowded>>
    BY <1>7 DEF Receive
  <2> QED  BY <2>1, <2>2, <2>3
<1>8. CASE Reply
  <2>1. epc' \in {epc, [epc EXCEPT ![current] = "replied"]}
        /\ UNCHANGED <<calls, budget, patience, closed, served, crowded>>
    BY <1>8 DEF Reply, Answer
  <2>2. epc' \in [Evals -> {"idle", "ready", "parked", "granted", "waiting"} \cup Returned]
    BY <2>1 DEF Returned
  <2> QED  BY <2>1, <2>2
<1>9. CASE Tick
  <2>1. patience' \in [Evals -> Nat]
    BY <1>9, Times DEF Tick
  <2> QED  BY <1>9, <2>1 DEF Tick
<1>10. CASE Disconnect
  <2>1. epc' \in [Evals -> {"idle", "ready", "parked", "granted", "waiting"} \cup Returned]
    BY <1>10 DEF Disconnect, Returned
  <2> QED  BY <1>10, <2>1 DEF Disconnect
<1>11. CASE AbortAndWait
  BY <1>11 DEF AbortAndWait
<1>12. CASE WorkerReady \/ WorkerExits \/ EvalDone \/ JoinWatchdog \/ \E r \in {"returned", "panic"} : EngineEnds(r)
  BY <1>12, <1>1 DEF WorkerReady, WorkerExits, EvalDone, JoinWatchdog, EngineEnds
<1>13. CASE SubmitTimesOut \/ WaitEnds \/ SubmitAnswered \/ Mi \/ WaitForStop \/ TriggerAndWait
  BY <1>13, <1>1 DEF SubmitTimesOut, WaitEnds, SubmitAnswered, Mi, WaitForStop, TriggerAndWait
<1>14. CASE WatchdogExpires \/ WatchdogInterrupts \/ DropAborted
  BY <1>14, <1>1 DEF WatchdogExpires, WatchdogInterrupts, DropAborted
<1>15. CASE SpawnProbe \/ ProbeEnds \/ ConnectFails \/ SchemeInitFails
  BY <1>15, <1>1 DEF SpawnProbe, ProbeEnds, ConnectFails, SchemeInitFails
<1>16. CASE NoProbe \/ SchemeSpawned \/ Serve \/ JoinWorker \/ TakeTransport
  BY <1>16, <1>1 DEF NoProbe, SchemeSpawned, Serve, JoinWorker, TakeTransport
<1>17. CASE UNCHANGED vars
  BY <1>17, <1>1 DEF vars
<1> QED
  BY <1>2, <1>3, <1>4, <1>5, <1>6, <1>7, <1>8, <1>9, <1>10, <1>11, <1>12, <1>13, <1>14, <1>15, <1>16, <1>17
  DEF Next, WorkerNext, CallStep, WatchdogStep, WorkerStep, ProgramStep, GdbStep, VmInterrupted, WaitTimesOut,
      MainStep

LEMMA EvalStep ==
  ASSUME EvalOK, CallsOK, QueuesOK, TimeInv, [Next]_vars
  PROVE  EvalOK'
<1> USE DEF callVars, chanVars, primVars, guardVars, history, evalVars, serverVars, workerVars, EvalOK, Executing, Blocking
<1>1. CASE UNCHANGED vars
  BY <1>1 DEF vars
<1>2. CASE Receive
  <2>1. budget[Head(queue)] \in Nat
    BY <1>2, HeadTailProperties DEF Receive, QueuesOK, CallsOK
  <2> QED  BY <1>2, <2>1 DEF Receive
<1>3. CASE Mi
  BY <1>3 DEF Mi, Submits, TimeInv
<1>4. CASE WaitForStop
  <2>1. block' \in Nat
    BY <1>4, Clamp, Times, TimesAssumption DEF WaitForStop
  <2> QED  BY <1>4, <2>1 DEF WaitForStop
<1>5. CASE TriggerAndWait
  <2>1. asked' \in Nat
    BY <1>5, Clamp, Times, TimesAssumption DEF TriggerAndWait
  <2>2. block' \in Nat
    BY <1>5, <2>1, Clamp DEF TriggerAndWait, Submits
  <2> QED  BY <1>5, <2>1, <2>2 DEF TriggerAndWait, Submits
<1>6. CASE SubmitAnswered
  BY <1>6, Clamp DEF SubmitAnswered
<1>7. CASE SubmitTimesOut \/ WaitEnds
  BY <1>7 DEF SubmitTimesOut, WaitEnds
<1>8. CASE WorkerReady \/ WorkerExits \/ EvalDone \/ JoinWatchdog \/ \E r \in {"returned", "panic"} : EngineEnds(r)
  BY <1>8 DEF WorkerReady, WorkerExits, EvalDone, JoinWatchdog, EngineEnds
<1>9. CASE Reply
  BY <1>9 DEF Reply, Answer
<1>10. CASE Tick
  <2>1. Less(cell) \in Nat \cup {-1}
    BY DEF Less
  <2>2. fuse' \in Nat /\ block' \in Nat /\ ran' \in Nat
    BY <1>10, Times DEF Tick
  <2> QED  BY <1>10, <2>1, <2>2 DEF Tick
<1>11. CASE PollCall \/ PollGranted \/ \E e \in Evals : CallerTimesOut(e)
  BY <1>11 DEF PollCall, PollGranted, CallerTimesOut
<1>12. CASE WatchdogExpires \/ WatchdogInterrupts \/ DropAborted \/ Call \/ CallRefused
  BY <1>12 DEF WatchdogExpires, WatchdogInterrupts, DropAborted, Call, CallRefused
<1>13. CASE SpawnProbe \/ ProbeEnds \/ ConnectFails \/ SchemeInitFails \/ Disconnect
  BY <1>13 DEF SpawnProbe, ProbeEnds, ConnectFails, SchemeInitFails, Disconnect
<1>14. CASE MainStep
  BY <1>14 DEF MainStep, NoProbe, SchemeSpawned, Serve, AbortAndWait, JoinWorker, TakeTransport
<1> QED
  BY <1>1, <1>2, <1>3, <1>4, <1>5, <1>6, <1>7, <1>8, <1>9, <1>10, <1>11, <1>12, <1>13, <1>14
  DEF Next, WorkerNext, CallStep, WatchdogStep, WorkerStep, ProgramStep, GdbStep, VmInterrupted, WaitTimesOut

LEMMA FlagsStep ==
  ASSUME FlagsOK, [Next]_vars
  PROVE  FlagsOK'
<1> USE DEF callVars, chanVars, primVars, guardVars, history, evalVars, serverVars, workerVars, FlagsOK
<1>1. CASE UNCHANGED vars
  BY <1>1 DEF vars
<1>2. CASE Receive \/ WorkerReady \/ WorkerExits \/ EvalDone \/ JoinWatchdog
  BY <1>2 DEF Receive, WorkerReady, WorkerExits, EvalDone, JoinWatchdog
<1>3. CASE Reply \/ Tick \/ \E r \in {"returned", "panic"} : EngineEnds(r)
  BY <1>3 DEF Reply, Answer, Tick, EngineEnds
<1>4. CASE SubmitTimesOut \/ WaitEnds \/ SubmitAnswered \/ Mi \/ WaitForStop \/ TriggerAndWait
  BY <1>4 DEF SubmitTimesOut, WaitEnds, SubmitAnswered, Mi, WaitForStop, TriggerAndWait, Submits
<1>5. CASE PollCall \/ PollGranted \/ \E e \in Evals : CallerTimesOut(e)
  BY <1>5 DEF PollCall, PollGranted, CallerTimesOut
<1>6. CASE WatchdogExpires \/ WatchdogInterrupts \/ DropAborted \/ Call \/ CallRefused
  BY <1>6 DEF WatchdogExpires, WatchdogInterrupts, DropAborted, Call, CallRefused
<1>7. CASE SpawnProbe \/ ProbeEnds \/ ConnectFails \/ SchemeInitFails \/ Disconnect
  BY <1>7 DEF SpawnProbe, ProbeEnds, ConnectFails, SchemeInitFails, Disconnect
<1>8. CASE MainStep
  BY <1>8 DEF MainStep, NoProbe, SchemeSpawned, Serve, AbortAndWait, JoinWorker, TakeTransport
<1> QED
  BY <1>1, <1>2, <1>3, <1>4, <1>5, <1>6, <1>7, <1>8
  DEF Next, WorkerNext, CallStep, WatchdogStep, WorkerStep, ProgramStep, GdbStep, VmInterrupted, WaitTimesOut

LEMMA ProcessStep ==
  ASSUME ProcessOK, [Next]_vars
  PROVE  ProcessOK'
<1> USE ServerAssumption DEF serverVars, ProcessOK
<1>1. CASE UNCHANGED serverVars
  BY <1>1
<1>2. CASE SpawnProbe \/ ProbeEnds
  BY <1>2 DEF SpawnProbe, ProbeEnds
<1>3. CASE ConnectFails \/ SchemeInitFails \/ Disconnect
  BY <1>3 DEF ConnectFails, SchemeInitFails, Disconnect
<1>4. CASE MainStep
  BY <1>4 DEF MainStep, NoProbe, SchemeSpawned, Serve, AbortAndWait, JoinWorker, TakeTransport
<1> QED  BY <1>1, <1>2, <1>3, <1>4 DEF Next, vars

-----------------------------------------------------------------------------
(* The deadline of the eval that runs.                                     *)
LEMMA TimeStep ==
  ASSUME TypeOK, ChannelInv, TimeInv, StartInv, [Next]_vars
  PROVE  TimeInv'
<1> USE DEF callVars, chanVars, primVars, guardVars, history, evalVars, serverVars, workerVars, Executing, Blocking
<1>T. /\ calls \in Nat /\ budget \in [Evals -> Nat] /\ ran \in Nat /\ block \in Nat /\ fuse \in Nat
      /\ cell \in Nat \cup {-1} /\ interrupt \in BOOLEAN /\ asked \in Nat
      /\ watchdog \in {"none", "armed", "expired", "ended"}
  BY DEF TypeOK, WorkerTypeOK
<1>1. CASE UNCHANGED <<wpc, current, cell, ran, budget, watchdog, fuse, interrupt, block>>
  BY <1>1 DEF TimeInv
<1>2. CASE Call
  <2>1. current \in Nat /\ (wpc \in Executing => current <= calls)
    BY <1>T DEF ChannelInv
  <2>2. wpc \in Executing => budget'[current] = budget[current]
    BY <1>2, <2>1, <1>T DEF Call, NextCall
  <2> QED  BY <1>2, <2>2 DEF Call, NextCall, TimeInv
<1>3. CASE Receive
  <2>1. Head(queue) \in Evals
    BY <1>3, HeadTailProperties DEF Receive, TypeOK, WorkerTypeOK
  <2>2. budget[Head(queue)] \in Nat
    BY <2>1, <1>T
  <2>3. ~interrupt' /\ wpc' = "run" /\ watchdog' = "armed" /\ ran' = 0
        /\ cell' = budget[Head(queue)] /\ fuse' = cell' /\ current' = Head(queue) /\ budget' = budget
    BY <1>3 DEF Receive, TimeInv
  <2> QED  BY <2>2, <2>3 DEF TimeInv
<1>4. CASE Mi
  BY <1>4, <1>T DEF Mi, Submits, TimeInv
<1>5. CASE WaitForStop
  <2>1. wpc = "run" /\ cell \in Nat /\ cell # -1
    BY <1>5 DEF WaitForStop, TimeInv
  <2>2. block' <= cell
    BY <1>5, <2>1, Clamp, TimesAssumption DEF WaitForStop, check_eval_budget
  <2> QED  BY <1>5, <2>1, <2>2 DEF WaitForStop, TimeInv
<1>6. CASE TriggerAndWait
  <2>1. wpc = "run" /\ cell \in Nat /\ cell # -1
    BY <1>6 DEF TriggerAndWait, TimeInv
  <2>2. asked' \in Nat
    BY <1>6, Clamp, Times, TimesAssumption, <2>1 DEF TriggerAndWait
  <2>3. block' <= cell
    BY <1>6, <2>1, <2>2, Clamp DEF TriggerAndWait, Submits
  <2> QED  BY <1>6, <2>1, <2>3 DEF TriggerAndWait, Submits, TimeInv
<1>7. CASE SubmitAnswered
  <2>1. wpc \in {"submit", "trigger"} /\ cell \in Nat /\ cell # -1
    BY <1>7 DEF SubmitAnswered, TimeInv
  <2>2. block' <= cell
    BY <1>7, <2>1, <1>T, Clamp DEF SubmitAnswered
  <2> QED  BY <1>7, <2>1, <2>2 DEF SubmitAnswered, TimeInv
<1>8. CASE SubmitTimesOut \/ WaitEnds
  BY <1>8 DEF SubmitTimesOut, WaitEnds, TimeInv
<1>9. CASE WorkerReady \/ WorkerExits \/ EvalDone \/ JoinWatchdog \/ \E r \in {"returned", "panic"} : EngineEnds(r)
  BY <1>9 DEF WorkerReady, WorkerExits, EvalDone, JoinWatchdog, EngineEnds, TimeInv
<1>10. CASE Reply
  BY <1>10 DEF Reply, Answer, TimeInv
<1>11. CASE WatchdogExpires
  BY <1>11, <1>T DEF WatchdogExpires, TimeInv
<1>12. CASE WatchdogInterrupts
  BY <1>12 DEF WatchdogInterrupts, TimeInv
<1>13. CASE Tick
  <2>1. CASE wpc \in Executing
    <3>1. cell # 0
      <4>1. wpc \in Blocking => block # 0
        BY <1>13 DEF Tick, Due
      <4>2. wpc = "run" => ~interrupt
        BY <1>13 DEF Tick, Due
      <4>3. watchdog # "expired" /\ (watchdog = "armed" => fuse # 0)
        BY <1>13 DEF Tick, Due
      <4> QED  BY <4>1, <4>2, <4>3, <2>1, <1>T DEF TimeInv
    <3>2. cell > 0 /\ watchdog = "armed" /\ fuse = cell /\ ~interrupt /\ ran + cell = budget[current]
      BY <3>1, <2>1, <1>T DEF TimeInv
    <3>3. cell' = cell - 1 /\ fuse' = fuse - 1 /\ ran' = ran + 1
          /\ UNCHANGED <<wpc, current, budget, watchdog, interrupt>>
      BY <1>13, <2>1, <3>2 DEF Tick, Less
    <3>4. wpc \in Blocking => block' <= cell'
      <4>1. block' = Less(block)
        BY <1>13 DEF Tick
      <4> QED  BY <4>1, <3>2, <3>3, <1>T DEF Less, TimeInv
    <3> QED  BY <3>2, <3>3, <3>4, <1>T DEF TimeInv
  <2>2. CASE wpc \notin Executing
    BY <1>13, <2>2 DEF Tick, TimeInv
  <2> QED  BY <2>1, <2>2
<1>14. CASE ConnectFails
  BY <1>14 DEF ConnectFails, TimeInv, StartInv
<1>15. CASE SchemeInitFails
  BY <1>15 DEF SchemeInitFails, TimeInv
<1>16. CASE PollCall \/ PollGranted \/ \E e \in Evals : CallerTimesOut(e)
  BY <1>16, <1>1 DEF PollCall, PollGranted, CallerTimesOut
<1>17. CASE DropAborted \/ CallRefused \/ SpawnProbe \/ ProbeEnds \/ Disconnect
  BY <1>17, <1>1 DEF DropAborted, CallRefused, NextCall, SpawnProbe, ProbeEnds, Disconnect
<1>18. CASE MainStep
  BY <1>18, <1>1 DEF MainStep, NoProbe, SchemeSpawned, Serve, AbortAndWait, JoinWorker, TakeTransport
<1>19. CASE UNCHANGED vars
  BY <1>19, <1>1 DEF vars
<1> QED
  BY <1>2, <1>3, <1>4, <1>5, <1>6, <1>7, <1>8, <1>9, <1>10, <1>11, <1>12, <1>13, <1>14, <1>15, <1>16, <1>17,
     <1>18, <1>19
  DEF Next, WorkerNext, CallStep, WatchdogStep, WorkerStep, ProgramStep, GdbStep, VmInterrupted, WaitTimesOut

(* The engine that runs, when an engine that was built once builds again.  *)
LEMMA EngineStep ==
  ASSUME ~RebuildFails, FlagsOK, EngineInv, [Next]_vars
  PROVE  EngineInv'
<1> USE DEF callVars, chanVars, primVars, guardVars, history, evalVars, serverVars, workerVars, Executing, Blocking, EngineInv
<1>1. CASE UNCHANGED <<wpc, engine, result>>
  BY <1>1
<1>2. CASE Receive \/ WorkerReady \/ WorkerExits \/ EvalDone \/ JoinWatchdog
  BY <1>2 DEF Receive, WorkerReady, WorkerExits, EvalDone, JoinWatchdog
<1>3. ASSUME NEW r \in {"returned", "panic"}, EngineEnds(r) PROVE EngineInv'
  BY <1>3 DEF EngineEnds
<1>4. CASE Reply
  <2>1. result = "panic" => engine' = "sound"
    BY <1>4 DEF Reply
  <2>2. result # "panic" => engine' = engine /\ engine = "sound"
    BY <1>4 DEF Reply, Answer, FlagsOK
  <2> QED  BY <1>4, <2>1, <2>2 DEF Reply, Answer
<1>5. CASE SubmitTimesOut \/ WaitEnds \/ SubmitAnswered \/ Mi \/ WaitForStop \/ TriggerAndWait
  BY <1>5 DEF SubmitTimesOut, WaitEnds, SubmitAnswered, Mi, WaitForStop, TriggerAndWait, Submits
<1>6. CASE ConnectFails \/ SchemeInitFails
  BY <1>6 DEF ConnectFails, SchemeInitFails
<1>7. CASE PollCall \/ PollGranted \/ \E e \in Evals : CallerTimesOut(e)
  BY <1>7, <1>1 DEF PollCall, PollGranted, CallerTimesOut
<1>8. CASE WatchdogExpires \/ WatchdogInterrupts \/ DropAborted \/ Tick \/ Call \/ CallRefused
  BY <1>8, <1>1 DEF WatchdogExpires, WatchdogInterrupts, DropAborted, Tick, Call, CallRefused
<1>9. CASE SpawnProbe \/ ProbeEnds \/ Disconnect
  BY <1>9, <1>1 DEF SpawnProbe, ProbeEnds, Disconnect
<1>10. CASE MainStep
  BY <1>10, <1>1 DEF MainStep, NoProbe, SchemeSpawned, Serve, AbortAndWait, JoinWorker, TakeTransport
<1>11. CASE UNCHANGED vars
  BY <1>11, <1>1 DEF vars
<1> QED
  BY <1>2, <1>3, <1>4, <1>5, <1>6, <1>7, <1>8, <1>9, <1>10, <1>11
  DEF Next, WorkerNext, CallStep, WatchdogStep, WorkerStep, ProgramStep, GdbStep, VmInterrupted, WaitTimesOut

LEMMA StartStep ==
  ASSUME StartInv, [Next]_vars
  PROVE  StartInv'
<1> USE DEF StartInv
<1>1. CASE UNCHANGED vars
  BY <1>1 DEF vars, serverVars, workerVars, evalVars
<1>2. CASE Live /\ UNCHANGED serverVars
  BY <1>2 DEF Live, serverVars
<1>3. CASE Serving /\ UNCHANGED serverVars
  BY <1>3 DEF Serving, serverVars
<1>4. CASE SpawnProbe \/ ProbeEnds
  BY <1>4 DEF SpawnProbe, ProbeEnds, workerVars, evalVars
<1>5. CASE ConnectFails \/ SchemeInitFails \/ Disconnect
  BY <1>5 DEF ConnectFails, SchemeInitFails, Disconnect
<1>6. CASE MainStep
  BY <1>6 DEF MainStep, NoProbe, SchemeSpawned, Serve, AbortAndWait, JoinWorker, TakeTransport, workerVars, evalVars
<1> QED  BY <1>1, <1>2, <1>3, <1>4, <1>5, <1>6 DEF Next

(* The shutdown.                                                           *)
LEMMA HoldStep ==
  ASSUME TypeOK, StartInv, HoldInv, [Next]_vars
  PROVE  HoldInv'
<1> USE DEF callVars, chanVars, primVars, guardVars, history, evalVars, serverVars, workerVars, HoldInv
<1>T. probes \in Nat /\ submitting \in BOOLEAN /\ aborted \in BOOLEAN
  BY ServerAssumption DEF TypeOK, WorkerTypeOK
<1>1. CASE UNCHANGED <<main, probes, wpc, submitting>>
  BY <1>1
<1>2. CASE UNCHANGED serverVars /\ Live /\ wpc # "exited" /\ (submitting' => wpc' \in {"submit", "trigger"})
  BY <1>2 DEF Live
<1>3. ASSUME Live, UNCHANGED serverVars, WorkerNext PROVE HoldInv'
  <2>1. CASE Receive \/ WorkerReady \/ WorkerExits \/ EvalDone \/ JoinWatchdog \/ Reply
    BY <1>2, <1>3, <2>1 DEF Receive, WorkerReady, WorkerExits, EvalDone, JoinWatchdog, Reply, Answer
  <2>2. ASSUME NEW r \in {"returned", "panic"}, EngineEnds(r) PROVE HoldInv'
    BY <1>2, <1>3, <2>2 DEF EngineEnds
  <2>3. CASE SubmitTimesOut \/ WaitEnds \/ SubmitAnswered \/ Mi \/ WaitForStop \/ TriggerAndWait
    BY <1>2, <1>3, <2>3 DEF SubmitTimesOut, WaitEnds, SubmitAnswered, Mi, WaitForStop, TriggerAndWait, Submits
  <2>4. CASE PollCall \/ PollGranted \/ \E e \in Evals : CallerTimesOut(e)
    BY <1>1, <1>3, <2>4 DEF PollCall, PollGranted, CallerTimesOut
  <2>5. CASE WatchdogExpires \/ WatchdogInterrupts \/ DropAborted \/ Tick
    BY <1>1, <1>3, <2>5 DEF WatchdogExpires, WatchdogInterrupts, DropAborted, Tick
  <2> QED
    BY <1>3, <2>1, <2>2, <2>3, <2>4, <2>5
    DEF WorkerNext, CallStep, WatchdogStep, WorkerStep, ProgramStep, GdbStep, VmInterrupted, WaitTimesOut
<1>4. CASE (Call \/ CallRefused) /\ UNCHANGED serverVars
  BY <1>1, <1>4 DEF Call, CallRefused
<1>5. CASE SpawnProbe
  BY <1>5 DEF SpawnProbe
<1>6. CASE ProbeEnds
  BY <1>6, <1>T DEF ProbeEnds
<1>7. CASE ConnectFails \/ SchemeInitFails \/ Disconnect
  BY <1>7 DEF ConnectFails, SchemeInitFails, Disconnect, Serving, StartInv
<1>8. CASE NoProbe \/ SchemeSpawned \/ Serve \/ AbortAndWait \/ JoinWorker
  BY <1>8 DEF NoProbe, SchemeSpawned, Serve, AbortAndWait, JoinWorker
<1>9. CASE TakeTransport
  BY <1>9 DEF TakeTransport
<1>10. CASE UNCHANGED vars
  BY <1>10, <1>1 DEF vars
<1> QED
  BY <1>3, <1>4, <1>5, <1>6, <1>7, <1>8, <1>9, <1>10 DEF Next, MainStep

-----------------------------------------------------------------------------
(* The order of the requests.                                              *)
LEMMA PolledType ==
  ASSUME ChannelInv, OrderInv
  PROVE  Polled \subseteq 1..calls /\ Range(ready) \subseteq 1..calls
<1>1. ASSUME NEW s \in Seq(1..calls) PROVE Range(s) \subseteq 1..calls
  <2>1. \A i \in DOMAIN s : s[i] \in 1..calls
    BY LenProperties, ElementOfSeq
  <2> QED  BY <2>1 DEF Range
<1> QED  BY <1>1 DEF Polled, OrderInv, ChannelInv

LEMMA CallOrder ==
  ASSUME TypeOK, ChannelInv, SessionInv, ReadyInv, OrderInv, Serving, Call, UNCHANGED serverVars
  PROVE  SessionInv' /\ ReadyInv' /\ OrderInv'
<1>1. /\ calls' = calls + 1 /\ ready' = Append(ready, calls + 1) /\ calls \in Nat
      /\ UNCHANGED <<main, parked, granted, queue, served, crowded>>
      /\ \A e \in 1..calls : epc'[e] = epc[e]
  BY DEF Call, NextCall, Goto, chanVars, history, serverVars, TypeOK, WorkerTypeOK
<1>2. ready \in Seq(1..calls') /\ calls + 1 \in 1..calls'
  BY <1>1, SeqMonotonic, 1..calls \subseteq 1..calls' DEF ChannelInv
<1>3. /\ Len(ready) \in Nat /\ Len(ready') = Len(ready) + 1
      /\ \A i \in 1..Len(ready) : ready'[i] = ready[i]
      /\ ready'[Len(ready) + 1] = calls + 1 /\ Range(ready') = Range(ready) \cup {calls + 1}
  BY <1>1, <1>2, Pushed
<1>4. \A i \in 1..Len(ready) : ready[i] \in 1..calls
  BY ElementOfSeq DEF ChannelInv
<1>5. Polled' = Polled /\ Polled \subseteq 1..calls
  BY <1>1, PolledType DEF Polled
<1>6. main = "serving"
  BY DEF Serving
<1>7. SessionInv'
  BY <1>1, <1>3, <1>5, <1>6 DEF SessionInv, Serving
<1>8. ReadyInv'
  BY <1>1, <1>3, <1>4, <1>5 DEF ReadyInv
<1>9. OrderInv'
  BY <1>1, <1>5 DEF OrderInv
<1> QED  BY <1>7, <1>8, <1>9

LEMMA RefusedOrder ==
  ASSUME TypeOK, ChannelInv, SessionInv, ReadyInv, OrderInv, Serving, CallRefused, UNCHANGED serverVars
  PROVE  SessionInv' /\ ReadyInv' /\ OrderInv'
<1>1. /\ calls' = calls + 1 /\ calls \in Nat
      /\ UNCHANGED <<main, ready, parked, granted, queue, served, crowded>>
      /\ \A e \in 1..calls : epc'[e] = epc[e]
  BY DEF CallRefused, NextCall, Goto, chanVars, history, serverVars, TypeOK, WorkerTypeOK
<1>2. epc'[calls + 1] = "refused"
  <2>1. calls + 1 \in Evals
    BY <1>1, TimesAssumption DEF CallRefused, NextCall, Evals
  <2> QED  BY <2>1 DEF CallRefused, NextCall, Goto, TypeOK, WorkerTypeOK
<1>3. Polled' = Polled /\ Polled \subseteq 1..calls
  BY <1>1, PolledType DEF Polled
<1>4. SessionInv'
  BY <1>1, <1>2, <1>3 DEF SessionInv, Serving
<1>5. ReadyInv'
  BY <1>1, <1>3 DEF ReadyInv
<1>6. OrderInv'
  BY <1>1, <1>3 DEF OrderInv
<1> QED  BY <1>4, <1>5, <1>6

(* The oldest of the ready calls goes to the channel or waits for room.    *)
LEMMA PollOrder ==
  ASSUME TypeOK, ChannelInv, SessionInv, ReadyInv, OrderInv, PollCall, UNCHANGED serverVars
  PROVE  SessionInv' /\ ReadyInv' /\ OrderInv'
<1> DEFINE h == Head(ready)
<1>1. /\ Len(ready) \in Nat \ {0} /\ h = ready[1] /\ h \in 1..calls
      /\ Len(Tail(ready)) = Len(ready) - 1
      /\ \A i \in 1..Len(Tail(ready)) : Tail(ready)[i] = ready[i + 1]
      /\ Range(ready) = {h} \cup Range(Tail(ready))
  BY Popped DEF PollCall, ChannelInv
<1>2. \A i \in 1..Len(ready) : ready[i] \in 1..calls
  BY ElementOfSeq DEF ChannelInv
<1>3. \A f \in Polled : f < h /\ f \in 1..calls
  BY <1>1, PolledType DEF ReadyInv
<1>4. /\ ready' = Tail(ready) /\ UNCHANGED <<main, calls, granted, served>>
      /\ \A e \in 1..calls : e = h \/ epc'[e] = epc[e]
  <2>1. \E p \in {"waiting", "parked"} : epc' = [epc EXCEPT ![h] = p]
    BY DEF PollCall, Sent, Goto
  <2>2. \A e \in 1..calls : e \in DOMAIN epc
    BY TimesAssumption DEF TypeOK, WorkerTypeOK, Evals
  <2>3. \A e \in 1..calls : e = h \/ epc'[e] = epc[e]
    BY <2>1, <2>2
  <2> QED  BY <2>3 DEF PollCall, serverVars
<1>5. \/ queue' = Append(queue, h) /\ UNCHANGED <<parked, crowded>>
      \/ queue' = queue /\ parked' = Append(parked, h) /\ crowded' = crowded \cup {h}
  BY DEF PollCall, Sent
<1>6. Range(Append(queue, h)) = Range(queue) \cup {h} /\ Range(Append(parked, h)) = Range(parked) \cup {h}
  BY <1>1, Pushed DEF ChannelInv
<1> HIDE DEF h
<1>7. Polled' = Polled \cup {h}
  BY <1>4, <1>5, <1>6 DEF Polled
<1>8. main = "serving"
  BY DEF SessionInv, PollCall, Serving
<1>9. \A i \in 1..Len(ready) : i = 1 \/ h < ready[i]
  BY <1>1, <1>2 DEF ReadyInv
<1>10. SessionInv'
  BY <1>1, <1>4, <1>7, <1>8 DEF SessionInv, Serving
<1>11. ReadyInv'
  <2>1. Len(ready') = Len(ready) - 1 /\ \A i \in 1..Len(ready') : i + 1 \in 1..Len(ready) /\ ready'[i] = ready[i + 1]
    BY <1>1, <1>4
  <2>2. \A i, j \in 1..Len(ready') : i < j => ready'[i] < ready'[j]
    BY <1>1, <2>1 DEF ReadyInv
  <2>3. \A i \in 1..Len(ready') : h < ready'[i]
    BY <1>1, <1>9, <2>1
  <2>4. \A f \in Polled, i \in 1..Len(ready') : f < ready'[i]
    BY <1>1, <2>1 DEF ReadyInv
  <2> QED  BY <1>7, <2>2, <2>3, <2>4 DEF ReadyInv
<1>12. OrderInv'
  <2>1. served' \subseteq 1..calls'
    BY <1>4 DEF OrderInv
  <2>2. Range(parked') \cup Range(granted') \subseteq crowded'
    BY <1>4, <1>5, <1>6 DEF OrderInv
  <2>3. ASSUME NEW f \in Polled', NEW e \in 1..calls', e < f
        PROVE  epc'[e] = "refused" \/ e \in served' \cup crowded' \cup Range(queue')
    <3>1. e \in 1..calls /\ e # h /\ epc'[e] = epc[e]
      BY <1>1, <1>3, <1>4, <1>7, <2>3
    <3>2. served \cup crowded \cup Range(queue) \subseteq served' \cup crowded' \cup Range(queue')
      BY <1>4, <1>5, <1>6
    <3>3. CASE f \in Polled
      BY <2>3, <3>1, <3>2, <3>3 DEF OrderInv
    <3>4. CASE f = h
      <4>1. e \notin Range(ready)
        <5>1. \A i \in 1..Len(ready) : ready[i] # e
          BY <1>1, <1>2, <1>9, <2>3, <3>1, <3>4
        <5>2. DOMAIN ready = 1..Len(ready)
          BY LenProperties DEF ChannelInv
        <5> QED  BY <5>1, <5>2 DEF Range
      <4>2. epc[e] = "refused" \/ e \in Polled
        BY <1>8, <3>1, <4>1 DEF SessionInv, Serving
      <4> QED  BY <3>1, <3>2, <4>2 DEF Polled, OrderInv
    <3> QED  BY <1>7, <3>3, <3>4
  <2>4. \A f \in Polled' : f <= h
    BY <1>1, <1>3, <1>7
  <2>5. CASE queue' = queue
    BY <1>4, <1>5, <2>1, <2>2, <2>3, <2>5 DEF OrderInv
  <2>6. CASE queue' = Append(queue, h) /\ UNCHANGED <<parked, crowded>>
    <3>1. /\ Len(queue) \in Nat /\ Len(queue') = Len(queue) + 1
          /\ \A i \in 1..Len(queue) : queue'[i] = queue[i]
          /\ queue'[Len(queue) + 1] = h
      BY <1>1, <2>6, Pushed DEF ChannelInv
    <3>2. \A i \in 1..Len(queue) : queue[i] < h /\ queue[i] \in 1..calls
      <4>1. DOMAIN queue = 1..Len(queue)
        BY LenProperties DEF ChannelInv
      <4> QED  BY <1>3, <4>1 DEF Polled, Range
    <3>3. \A i, j \in 1..Len(queue') : i < j /\ queue'[j] < queue'[i] => queue'[j] \in crowded'
      <4>1. ASSUME NEW i \in 1..Len(queue'), NEW j \in 1..Len(queue'), i < j, queue'[j] < queue'[i]
            PROVE  queue'[j] \in crowded'
        <5>1. i \in 1..Len(queue)
          BY <3>1, <4>1
        <5>2. j # Len(queue) + 1
          BY <1>1, <3>1, <3>2, <4>1, <5>1
        <5>3. j \in 1..Len(queue)
          BY <3>1, <5>2
        <5> QED  BY <2>6, <3>1, <4>1, <5>1, <5>3 DEF OrderInv
      <4> QED  BY <4>1
    <3>4. \A f \in served', i \in 1..Len(queue') : queue'[i] < f => queue'[i] \in crowded'
      <4>1. \A f \in served : f < h /\ f \in 1..calls
        BY <1>3 DEF Polled
      <4> QED  BY <1>1, <1>4, <2>6, <3>1, <4>1 DEF OrderInv
    <3> QED  BY <2>1, <2>2, <2>3, <3>3, <3>4 DEF OrderInv
  <2> QED  BY <1>5, <2>5, <2>6
<1> QED  BY <1>10, <1>11, <1>12

(* A task that was given room puts its request behind those in the channel. *)
LEMMA GrantedOrder ==
  ASSUME TypeOK, ChannelInv, SessionInv, ReadyInv, OrderInv, PollGranted, UNCHANGED serverVars
  PROVE  SessionInv' /\ ReadyInv' /\ OrderInv'
<1> DEFINE g == Head(granted)
<1>1. /\ g \in 1..calls /\ Range(granted) = {g} \cup Range(Tail(granted))
  BY Popped DEF PollGranted, ChannelInv
<1>2. /\ Len(queue) \in Nat /\ Len(Append(queue, g)) = Len(queue) + 1
      /\ \A i \in 1..Len(queue) : Append(queue, g)[i] = queue[i]
      /\ Append(queue, g)[Len(queue) + 1] = g
      /\ Range(Append(queue, g)) = Range(queue) \cup {g}
  <2> DEFINE C == 1..calls
  <2>1. queue \in Seq(C) /\ g \in C
    BY <1>1 DEF ChannelInv
  <2> HIDE DEF C, g
  <2> QED  BY <2>1, Pushed
<1>3. /\ granted' = Tail(granted) /\ queue' = Append(queue, g)
      /\ UNCHANGED <<main, calls, ready, parked, served, crowded>>
      /\ \A e \in 1..calls : e = g \/ epc'[e] = epc[e]
  <2>1. epc' = [epc EXCEPT ![g] = "waiting"]
    BY DEF PollGranted, Sent, Goto
  <2>2. \A e \in 1..calls : e \in DOMAIN epc
    BY TimesAssumption DEF TypeOK, WorkerTypeOK, Evals
  <2>3. \A e \in 1..calls : e = g \/ epc'[e] = epc[e]
    BY <2>1, <2>2
  <2> QED  BY <2>3 DEF PollGranted, Sent, serverVars, history
<1> HIDE DEF g
<1>4. g \in crowded /\ g \in Polled /\ Polled' = Polled
  BY <1>1, <1>2, <1>3 DEF Polled, OrderInv
<1>5. SessionInv'
  BY <1>3, <1>4 DEF SessionInv, Serving
<1>6. ReadyInv'
  BY <1>3, <1>4 DEF ReadyInv
<1>7. OrderInv'
  <2>1. served' \subseteq 1..calls' /\ Range(parked') \cup Range(granted') \subseteq crowded'
    BY <1>1, <1>3 DEF OrderInv
  <2>2. \A f \in Polled', e \in 1..calls' :
          e < f => epc'[e] = "refused" \/ e \in served' \cup crowded' \cup Range(queue')
    BY <1>2, <1>3, <1>4 DEF OrderInv
  <2>3. ASSUME NEW i \in 1..Len(queue'), NEW j \in 1..Len(queue'), i < j, queue'[j] < queue'[i]
        PROVE  queue'[j] \in crowded'
    <3>1. CASE j = Len(queue) + 1
      BY <1>2, <1>3, <1>4, <3>1
    <3>2. CASE j # Len(queue) + 1
      <4>1. i \in 1..Len(queue) /\ j \in 1..Len(queue)
        BY <1>2, <1>3, <2>3, <3>2
      <4> QED  BY <1>2, <1>3, <2>3, <4>1 DEF OrderInv
    <3> QED  BY <3>1, <3>2
  <2>4. ASSUME NEW f \in served', NEW i \in 1..Len(queue'), queue'[i] < f
        PROVE  queue'[i] \in crowded'
    <3>1. CASE i = Len(queue) + 1
      BY <1>2, <1>3, <1>4, <3>1
    <3>2. CASE i # Len(queue) + 1
      <4>1. i \in 1..Len(queue)
        BY <1>2, <1>3, <3>2
      <4> QED  BY <1>2, <1>3, <2>4, <4>1 DEF OrderInv
    <3> QED  BY <3>1, <3>2
  <2> QED  BY <2>1, <2>2, <2>3, <2>4 DEF OrderInv
<1> QED  BY <1>5, <1>6, <1>7

(* The worker takes the first request of the channel.                      *)
LEMMA ReceiveOrder ==
  ASSUME TypeOK, ChannelInv, SessionInv, ReadyInv, OrderInv, Receive, UNCHANGED serverVars
  PROVE  SessionInv' /\ ReadyInv' /\ OrderInv'
<1> DEFINE q == Head(queue)
<1>1. /\ Len(queue) \in Nat \ {0} /\ q = queue[1] /\ q \in 1..calls
      /\ Len(Tail(queue)) = Len(queue) - 1
      /\ \A i \in 1..Len(Tail(queue)) : Tail(queue)[i] = queue[i + 1]
      /\ Range(queue) = {q} \cup Range(Tail(queue))
  BY Popped DEF Receive, ChannelInv
<1>2. /\ queue' = Tail(queue) /\ served' = served \cup {q}
      /\ UNCHANGED <<main, calls, ready, crowded>>
  BY DEF Receive, serverVars
<1> HIDE DEF q
<1>3. /\ Range(parked') \cup Range(granted') = Range(parked) \cup Range(granted)
      /\ \A e \in 1..calls : e \in Range(parked) \/ epc'[e] = epc[e]
  <2>1. CASE parked = <<>>
    BY <2>1 DEF Receive
  <2>2. CASE parked # <<>>
    <3>1. /\ parked' = Tail(parked) /\ granted' = Append(granted, Head(parked))
          /\ epc' = [epc EXCEPT ![Head(parked)] = "granted"]
      BY <2>2 DEF Receive, Goto
    <3>2. Head(parked) \in 1..calls /\ Range(parked) = {Head(parked)} \cup Range(Tail(parked))
      BY <2>2, Popped DEF ChannelInv
    <3>3. Range(Append(granted, Head(parked))) = Range(granted) \cup {Head(parked)}
      <4> DEFINE C == 1..calls
      <4>1. granted \in Seq(C) /\ Head(parked) \in C
        BY <3>2 DEF ChannelInv
      <4> HIDE DEF C
      <4> QED  BY <4>1, Pushed
    <3>4. \A e \in 1..calls : e \in DOMAIN epc
      BY TimesAssumption DEF TypeOK, WorkerTypeOK, Evals
    <3>5. \A e \in 1..calls : e \in Range(parked) \/ epc'[e] = epc[e]
      BY <3>1, <3>2, <3>4
    <3> QED  BY <3>1, <3>2, <3>3, <3>5
  <2> QED  BY <2>1, <2>2
<1>4. Polled' = Polled /\ Range(parked) \subseteq Polled \cap crowded
  <2>1. Polled' = Polled
    BY <1>1, <1>2, <1>3 DEF Polled
  <2> QED  BY <2>1 DEF Polled, OrderInv
<1>5. SessionInv'
  <2>1. ASSUME NEW e \in 1..calls, Serving
        PROVE  epc'[e] = "refused" \/ e \in Polled' \cup Range(ready')
    BY <1>2, <1>3, <1>4, <2>1 DEF SessionInv
  <2> QED  BY <1>2, <2>1 DEF SessionInv, Serving
<1>6. ReadyInv'
  BY <1>2, <1>4 DEF ReadyInv
<1>7. OrderInv'
  <2>1. served' \subseteq 1..calls' /\ Range(parked') \cup Range(granted') \subseteq crowded'
    BY <1>1, <1>2, <1>3 DEF OrderInv
  <2>2. ASSUME NEW f \in Polled', NEW e \in 1..calls', e < f
        PROVE  epc'[e] = "refused" \/ e \in served' \cup crowded' \cup Range(queue')
    <3>1. epc[e] = "refused" \/ e \in served \cup crowded \cup Range(queue)
      BY <1>2, <1>4, <2>2 DEF OrderInv
    <3>2. CASE epc[e] = "refused"
      BY <1>2, <1>3, <1>4, <3>2
    <3>3. CASE e \in served \cup crowded \cup Range(queue)
      BY <1>1, <1>2, <3>3
    <3> QED  BY <3>1, <3>2, <3>3
  <2>3. Len(queue') = Len(queue) - 1 /\ \A i \in 1..Len(queue') : i + 1 \in 2..Len(queue) /\ queue'[i] = queue[i + 1]
    BY <1>1, <1>2
  <2>4. ASSUME NEW i \in 1..Len(queue'), NEW j \in 1..Len(queue'), i < j, queue'[j] < queue'[i]
        PROVE  queue'[j] \in crowded'
    <3>1. i + 1 \in 1..Len(queue) /\ j + 1 \in 1..Len(queue) /\ i + 1 < j + 1
      BY <1>1, <2>3, <2>4
    <3> QED  BY <1>2, <2>3, <2>4, <3>1 DEF OrderInv
  <2>5. ASSUME NEW f \in served', NEW i \in 1..Len(queue'), queue'[i] < f
        PROVE  queue'[i] \in crowded'
    <3>1. i + 1 \in 1..Len(queue) /\ 1 \in 1..Len(queue) /\ 1 < i + 1
      BY <1>1, <2>3
    <3> QED  BY <1>1, <1>2, <2>3, <2>5, <3>1 DEF OrderInv
  <2> QED  BY <2>1, <2>2, <2>4, <2>5 DEF OrderInv
<1> QED  BY <1>5, <1>6, <1>7

(* Every step keeps the order.                                             *)
LEMMA OrderStep ==
  ASSUME TypeOK, ChannelInv, SessionInv, ReadyInv, OrderInv, [Next]_vars
  PROVE  SessionInv' /\ ReadyInv' /\ OrderInv'
<1> DEFINE Ordered == SessionInv /\ ReadyInv /\ OrderInv
<1> USE DEF callVars, chanVars, primVars, guardVars, history, evalVars, serverVars, workerVars
<1>T. epc \in [Evals -> {"idle", "ready", "parked", "granted", "waiting"} \cup Returned]
      /\ \A e \in 1..calls : e \in Evals
  BY TimesAssumption DEF TypeOK, WorkerTypeOK, Evals
<1>K. ASSUME UNCHANGED <<calls, ready, parked, granted, queue, served, crowded>>,
             Serving => Serving', Serving' => Serving \/ main = "init",
             main' \in {"connect", "spawn", "init"} => main \in {"connect", "spawn", "init"},
             \A e \in 1..calls : epc[e] = "refused" => epc'[e] = "refused"
      PROVE  Ordered'
  <2>1. Polled' = Polled
    BY <1>K DEF Polled
  <2>2. SessionInv'
    <3>1. main' \in {"connect", "spawn", "init"} => calls' = 0
      BY <1>K DEF SessionInv
    <3>2. ready' # <<>> => Serving'
      BY <1>K DEF SessionInv
    <3>3. CASE main = "init"
      <4>1. calls' = 0
        BY <1>K, <3>3 DEF SessionInv
      <4> QED  BY <3>1, <3>2, <4>1 DEF SessionInv
    <3>4. CASE main # "init"
      <4>1. Serving' => \A e \in 1..calls' : epc'[e] = "refused" \/ e \in Polled' \cup Range(ready')
        BY <1>K, <2>1, <3>4 DEF SessionInv
      <4> QED  BY <3>1, <3>2, <4>1 DEF SessionInv
    <3> QED  BY <3>3, <3>4
  <2>3. ReadyInv' /\ OrderInv'
    BY <1>K, <2>1 DEF ReadyInv, OrderInv
  <2> QED  BY <2>2, <2>3
<1>1. CASE UNCHANGED vars
  BY <1>1, <1>K DEF vars, Serving
<1>2. CASE Serving /\ (Call \/ CallRefused) /\ UNCHANGED serverVars
  BY <1>2, CallOrder, RefusedOrder
<1>3. ASSUME WorkerNext, UNCHANGED serverVars PROVE Ordered'
  <2>1. CASE PollCall \/ PollGranted \/ Receive
    BY <1>3, <2>1, PollOrder, GrantedOrder, ReceiveOrder
  <2>K. ASSUME UNCHANGED <<calls, ready, parked, granted, queue, served, crowded>>,
               \A e \in 1..calls : epc[e] = "refused" => epc'[e] = "refused"
        PROVE  Ordered'
    BY <1>3, <1>K, <2>K DEF Serving
  <2>2. ASSUME NEW e \in Evals, CallerTimesOut(e) PROVE Ordered'
    BY <2>2, <2>K, <1>T DEF CallerTimesOut, Goto
  <2>3. CASE Reply
    <3>1. \A e \in 1..calls : epc[e] = "refused" => epc'[e] = "refused"
      BY <2>3, <1>T DEF Reply, Answer, Goto
    <3> QED  BY <2>3, <2>K, <3>1 DEF Reply, Answer
  <2>4. CASE WorkerReady \/ WorkerExits \/ EvalDone \/ JoinWatchdog \/ \E r \in {"returned", "panic"} : EngineEnds(r)
    BY <2>4, <2>K DEF WorkerReady, WorkerExits, EvalDone, JoinWatchdog, EngineEnds
  <2>5. CASE SubmitTimesOut \/ WaitEnds \/ SubmitAnswered \/ Mi \/ WaitForStop \/ TriggerAndWait
    BY <2>5, <2>K DEF SubmitTimesOut, WaitEnds, SubmitAnswered, Mi, WaitForStop, TriggerAndWait, Submits
  <2>6. CASE WatchdogExpires \/ WatchdogInterrupts \/ DropAborted \/ Tick
    BY <2>6, <2>K DEF WatchdogExpires, WatchdogInterrupts, DropAborted, Tick
  <2> QED
    BY <1>3, <2>1, <2>2, <2>3, <2>4, <2>5, <2>6
    DEF WorkerNext, CallStep, WatchdogStep, WorkerStep, ProgramStep, GdbStep, VmInterrupted, WaitTimesOut
<1>4. CASE SpawnProbe \/ ProbeEnds \/ ConnectFails \/ SchemeInitFails
  BY <1>4, <1>K DEF SpawnProbe, ProbeEnds, ConnectFails, SchemeInitFails, Serving
<1>5. CASE MainStep
  <2>1. main' # "serving" \/ main = "init" \/ Serving
    BY <1>5 DEF MainStep, NoProbe, SchemeSpawned, Serve, AbortAndWait, JoinWorker, TakeTransport, Serving
  <2> QED
    BY <1>5, <1>K DEF MainStep, NoProbe, SchemeSpawned, Serve, AbortAndWait, JoinWorker, TakeTransport, Serving
<1>6. CASE Disconnect
  <2>1. /\ ready' = <<>> /\ parked' = <<>> /\ granted' = <<>> /\ main' = "abort"
        /\ UNCHANGED <<calls, queue, served, crowded>>
    BY <1>6 DEF Disconnect
  <2>2. \A e \in 1..calls : epc[e] = "refused" => epc'[e] = "refused"
    BY <1>6, <1>T DEF Disconnect, Returned
  <2>3. Polled' \subseteq Polled /\ Range(parked') \cup Range(granted') = {} /\ Len(ready') = 0
    BY <2>1, Emptied DEF Polled
  <2>4. SessionInv' /\ ReadyInv'
    BY <2>1, <2>3 DEF SessionInv, ReadyInv, Serving
  <2>5. OrderInv'
    BY <2>1, <2>2, <2>3 DEF OrderInv
  <2> QED  BY <2>4, <2>5
<1> QED
  BY <1>1, <1>2, <1>3, <1>4, <1>5, <1>6 DEF Next

-----------------------------------------------------------------------------
IInv ==
  /\ TypeOK /\ ChannelInv /\ TimeInv /\ StartInv
  /\ SessionInv /\ ReadyInv /\ OrderInv

LEMMA Inductive == Spec => []IInv
<1>1. Init => IInv
  <2> SUFFICES ASSUME Init PROVE IInv
    OBVIOUS
  <2> USE DEF Init, WorkerInit
  <2>1. CallsOK /\ EvalOK /\ FlagsOK /\ ProcessOK
    <3>1. CallsOK
      <4>1. calls \in 0..MaxEvals
        BY TimesAssumption
      <4>2. epc \in [Evals -> {"idle", "ready", "parked", "granted", "waiting"} \cup Returned]
            /\ budget \in [Evals -> Nat] /\ patience \in [Evals -> Nat]
        OBVIOUS
      <4> QED  BY <4>1, <4>2 DEF CallsOK
    <3>2. EvalOK /\ FlagsOK
      BY DEF EvalOK, FlagsOK
    <3>3. ProcessOK
      BY ServerAssumption DEF ProcessOK
    <3> QED  BY <3>1, <3>2, <3>3
  <2>2. ChannelInv
    BY EmptySeq DEF ChannelInv, NoEval, Executing, Blocking
  <2>3. TypeOK
    BY <2>1, <2>2, QueuesType, Parts
  <2>4. TimeInv /\ StartInv
    BY DEF TimeInv, StartInv, Executing, Blocking
  <2>5. Polled = {} /\ SessionInv /\ ReadyInv /\ OrderInv
    BY Emptied DEF Polled, SessionInv, ReadyInv, OrderInv, Serving
  <2> QED  BY <2>2, <2>3, <2>4, <2>5 DEF IInv
<1>2. IInv /\ [Next]_vars => IInv'
  <2> SUFFICES ASSUME IInv, [Next]_vars PROVE IInv'
    OBVIOUS
  <2>1. TypeOK /\ ChannelInv /\ TimeInv /\ StartInv /\ SessionInv /\ ReadyInv /\ OrderInv
    BY DEF IInv
  <2>2. CallsOK /\ QueuesOK /\ EvalOK /\ FlagsOK /\ ProcessOK
    BY <2>1, Parts
  <2>3. ChannelInv'
    BY <2>1, ChannelStep
  <2>4. CallsOK'
    BY <2>2, CallsStep
  <2>5. QueuesOK'
    <3>1. 1..calls' \subseteq Evals /\ current' \in Evals \cup {NoEval}
      BY <2>3, <2>4, TimesAssumption DEF CallsOK, ChannelInv, Evals, NoEval
    <3> QED  BY <2>3, <3>1, SeqMonotonic DEF ChannelInv, QueuesOK
  <2>6. EvalOK' /\ FlagsOK' /\ ProcessOK'
    BY <2>1, <2>2, EvalStep, FlagsStep, ProcessStep
  <2>7. TypeOK'
    BY <2>4, <2>5, <2>6, Parts
  <2>8. TimeInv' /\ StartInv' /\ SessionInv' /\ ReadyInv' /\ OrderInv'
    BY <2>1, TimeStep, StartStep, OrderStep
  <2> QED  BY <2>3, <2>7, <2>8 DEF IInv
<1> QED  BY <1>1, <1>2, PTL DEF Spec

(* The variables of the process keep their types.                          *)
THEOREM TypeCorrect == Spec => []TypeOK
<1>1. IInv => TypeOK
  BY DEF IInv
<1> QED  BY <1>1, Inductive, PTL

(* Whatever programs the clients send, run_engine_with_budget and the      *)
(* clamped timeouts of the primitives give the worker back when the budget *)
(* of an eval is used up.                                                  *)
THEOREM BudgetHolds == Spec => []RunsWithinBudget
<1>1. IInv => RunsWithinBudget
  <2> SUFFICES ASSUME IInv, wpc \in Executing PROVE ran <= budget[current]
    BY DEF RunsWithinBudget
  <2>1. cell \in Nat /\ ran \in Nat /\ ran + cell = budget[current]
    BY DEF IInv, TypeOK, WorkerTypeOK, TimeInv
  <2> QED  BY <2>1
<1> QED  BY <1>1, Inductive, PTL

(* An interrupt reaches only the eval whose budget is used up: the watchdog *)
(* is joined, and the controller resumed, before the next eval starts.     *)
THEOREM NoStrayInterrupt == Spec => []InterruptIsDue
<1>1. IInv => InterruptIsDue
  <2> SUFFICES ASSUME IInv, wpc \in Executing, interrupt PROVE cell = 0
    BY DEF InterruptIsDue
  <2>1. watchdog = "ended"
    BY DEF IInv, TimeInv
  <2> QED  BY <2>1 DEF IInv, TimeInv
<1> QED  BY <1>1, Inductive, PTL

(* A call is served before every later one, unless it found the channel    *)
(* full: spawned tasks are polled in order and the channel is a queue.     *)
THEOREM InOrder == Spec => []ServedInOrder
<1>1. IInv => ServedInOrder
  <2> SUFFICES ASSUME IInv, NEW e \in Evals, NEW f \in Evals, e < f, f \in served, epc[e] # "refused"
               PROVE  e \in served \cup crowded
    BY DEF ServedInOrder
  <2>1. f \in Polled /\ e \in 1..calls
    BY DEF IInv, OrderInv, Polled, TypeOK, WorkerTypeOK, Evals
  <2>2. e \in served \cup crowded \cup Range(queue)
    BY <2>1 DEF IInv, OrderInv
  <2>3. ASSUME e \in Range(queue) PROVE e \in crowded
    <3>1. PICK i \in DOMAIN queue : queue[i] = e
      BY <2>3 DEF Range
    <3>2. i \in 1..Len(queue)
      BY <3>1, LenProperties DEF IInv, ChannelInv
    <3> QED  BY <3>1, <3>2 DEF IInv, OrderInv
  <2> QED  BY <2>2, <2>3
<1> QED  BY <1>1, Inductive, PTL

(* An engine that panicked is rebuilt before the next eval runs on it.     *)
THEOREM EngineSound == ASSUME ~RebuildFails PROVE Spec => []EngineIsSound
<1>1. Init => EngineInv
  BY DEF Init, WorkerInit, EngineInv
<1>2. IInv /\ EngineInv /\ [Next]_vars => EngineInv'
  BY EngineStep, Parts DEF IInv
<1>3. EngineInv => EngineIsSound
  BY DEF EngineInv, EngineIsSound
<1> QED  BY <1>1, <1>2, <1>3, Inductive, PTL DEF Spec

(* Whatever a disconnect finds in progress, when main takes the transport  *)
(* out of its Arc only a submit task that was aborted may still hold it.   *)
THEOREM TransportReleased == Spec => []OnlyAbortedHolds
<1>1. Init => HoldInv
  BY DEF Init, WorkerInit, HoldInv
<1>2. IInv /\ HoldInv /\ [Next]_vars => HoldInv'
  BY HoldStep DEF IInv
<1>3. HoldInv => OnlyAbortedHolds
  BY DEF HoldInv, OnlyAbortedHolds, Holders
<1> QED  BY <1>1, <1>2, <1>3, Inductive, PTL DEF Spec

=============================================================================
