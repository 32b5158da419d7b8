-------------------------------- MODULE Server --------------------------------
(***************************************************************************)
(* The process: main.rs around the Scheme worker.  GDB is spawned, the     *)
(* target of --connect is selected, the worker is spawned, the MCP service *)
(* runs until its client disconnects; then the ordered shutdown takes the  *)
(* transport back from everything that holds an Arc of it.                 *)
(***************************************************************************)
EXTENDS SchemeWorker

CONSTANT
  Probes        \* bound on the background tasks of a session

ASSUME ServerAssumption == Probes \in Nat

VARIABLES
  main,         \* where main is
  probes,       \* background tasks that run
  probed        \* background tasks spawned so far (bound)

serverVars == <<main, probes, probed>>
vars == <<serverVars, workerVars>>

Serving == main = "serving"

Init == WorkerInit /\ main = "connect" /\ probes = 0 /\ probed = 0

(* What of the process holds an Arc<TransportHandle> besides main.         *)
Holders ==
  (IF probes > 0 THEN {"probe"} ELSE {}) \cup (IF wpc # "exited" THEN {"worker"} ELSE {})
    \cup (IF submitting \/ aborted THEN {"submit"} ELSE {})

-----------------------------------------------------------------------------
(* A successful selection of a remote target, at startup or by a tool,     *)
(* spawns a probe, which ends by itself.                                   *)
SpawnProbe ==
  /\ main \in {"connect", "serving"} /\ probed < Probes
  /\ probes' = probes + 1 /\ probed' = probed + 1
  /\ main' = IF main = "connect" THEN "spawn" ELSE main
  /\ UNCHANGED workerVars

ProbeEnds ==
  /\ probes > 0
  /\ probes' = probes - 1
  /\ UNCHANGED <<main, probed, workerVars>>

(* No --connect, or a local target.                                        *)
NoProbe ==
  /\ main = "connect"
  /\ main' = "spawn"
  /\ UNCHANGED <<probes, probed, workerVars>>

(* connect_startup_target fails: the ordered shutdown, without a worker.   *)
ConnectFails ==
  /\ main = "connect"
  /\ main' = "abort"
  /\ wpc' = "exited"
  /\ UNCHANGED <<probes, probed, callVars, chanVars, primVars, guardVars, history,
                 current, cell, result, engine, ran>>

(* SchemeHandle::spawn returns when the engine is built.                   *)
SchemeSpawned ==
  /\ main = "spawn"
  /\ main' = "init"
  /\ UNCHANGED <<probes, probed, workerVars>>

(* The engine or its prelude does not load: main gives up, and GDB is      *)
(* killed with its handle.                                                 *)
SchemeInitFails ==
  /\ main = "init" /\ wpc = "init"
  /\ main' = "failed"
  /\ wpc' = "exited"
  /\ UNCHANGED <<probes, probed, callVars, chanVars, primVars, guardVars, history,
                 current, cell, result, engine, ran>>

Serve ==
  /\ main = "init" /\ wpc = "recv"
  /\ main' = "serving"
  /\ UNCHANGED <<probes, probed, workerVars>>

-----------------------------------------------------------------------------
(* The client disconnects: waiting() returns, and the service and the      *)
(* calls in progress (external) are dropped; their requests are not.       *)
Disconnect ==
  /\ Serving
  /\ main' = "abort"
  /\ epc' = [e \in Evals |-> IF epc[e] \in Returned \cup {"idle"} THEN epc[e] ELSE "dropped"]
  /\ ready' = <<>> /\ parked' = <<>> /\ granted' = <<>>
  /\ UNCHANGED <<probes, probed, calls, budget, patience, queue, closed, primVars, guardVars, history, evalVars>>

(* A mutant of AbortAndWait: the tasks are aborted and not awaited.        *)
AbortAndWait_NoWait ==
  /\ main = "abort"
  /\ main' = "join" /\ closed' = TRUE
  /\ UNCHANGED <<probes, probed, callVars, ready, parked, granted, queue, primVars, guardVars, history, evalVars>>

(* A mutant of AbortAndWait: a Sender survives.                            *)
AbortAndWait_KeepsSender ==
  /\ main = "abort" /\ probes = 0
  /\ main' = "join"
  /\ UNCHANGED <<probes, probed, callVars, chanVars, primVars, guardVars, history, evalVars>>

(* BackgroundTasks::abort_and_wait: ProbeEnds is the end of an aborted     *)
(* task as well.  Then SchemeHandle::join drops the Sender.                *)
AbortAndWait ==
  /\ main = "abort" /\ probes = 0
  /\ main' = "join" /\ closed' = TRUE
  /\ UNCHANGED <<probes, probed, callVars, ready, parked, granted, queue, primVars, guardVars, history, evalVars>>

(* JoinHandle::join, on a blocking thread.                                 *)
JoinWorker ==
  /\ main = "join" /\ wpc = "exited"
  /\ main' = "take"
  /\ UNCHANGED <<probes, probed, workerVars>>

(* Arc::into_inner(transport).expect(..); then TransportHandle::shutdown.  *)
(* Nothing makes main wait for the drop of an aborted submit task: block_on *)
(* polls main, which the join has woken, before the tasks in its queue.    *)
TakeTransport ==
  /\ main = "take"
  /\ main' = IF Holders = {} THEN "shutdown" ELSE "panicked"
  /\ UNCHANGED <<probes, probed, workerVars>>

-----------------------------------------------------------------------------
MainStep == NoProbe \/ SchemeSpawned \/ Serve \/ AbortAndWait \/ JoinWorker \/ TakeTransport

(* The steps of the worker and its calls, while there is a worker.         *)
Live == main \notin {"connect", "spawn", "failed", "panicked", "shutdown"}

Next ==
  \/ SpawnProbe \/ ProbeEnds \/ ConnectFails \/ SchemeInitFails \/ Disconnect \/ MainStep
  \/ Serving /\ (Call \/ CallRefused) /\ UNCHANGED serverVars
  \/ Live /\ WorkerNext /\ UNCHANGED serverVars

Spec == Init /\ [][Next]_vars

(* Threads run, the runtime polls its tasks, and time passes.  Nothing is  *)
(* assumed of GDB, of the Scheme programs or of the client.                *)
Fairness ==
  /\ WF_vars(Live /\ WorkerStep /\ UNCHANGED serverVars)
  /\ WF_vars(Live /\ WatchdogStep /\ UNCHANGED serverVars)
  /\ WF_vars(Live /\ CallStep /\ UNCHANGED serverVars)
  /\ WF_vars(Live /\ DropAborted /\ UNCHANGED serverVars)
  /\ WF_vars(Live /\ Tick /\ UNCHANGED serverVars)
  /\ WF_vars(MainStep) /\ WF_vars(ProbeEnds)

FairSpec == Spec /\ Fairness

-----------------------------------------------------------------------------
(* The variables have the types the code gives them.                       *)
TypeOK ==
  /\ WorkerTypeOK
  /\ main \in {"connect", "spawn", "init", "serving", "abort", "join", "take", "shutdown", "panicked", "failed"}
  /\ probes \in 0..probed /\ probed \in 0..Probes

(* When main takes the transport out of its Arc, every background task has *)
(* ended, wherever the disconnect found it, and so have the worker thread  *)
(* and every submit task it waits for: what may hold it still is a submit  *)
(* task that was aborted when its call of (mi ..) timed out.               *)
OnlyAbortedHolds ==
  main \in {"take", "shutdown", "panicked"} => Holders \subseteq {"submit"} /\ ~submitting

(* When main takes the transport out of its Arc nothing else holds it, and *)
(* its expect does not fail.                                               *)
TransportIsUnique == main # "panicked"

(* Every scheme_eval call returns: a reply, or a timeout, or the end of    *)
(* the session, whatever the programs ahead of it in the queue do.  The    *)
(* timeout of a call does not cover its wait for room in the channel.      *)
EveryCallReturns ==
  \A e \in Evals : epc[e] \in {"ready", "parked", "granted", "waiting"} ~> epc[e] \in Returned

(* Once the client has disconnected the process ends: main comes to the    *)
(* shutdown of GDB, or panics over a transport that is still shared.       *)
DisconnectEnds == main = "abort" ~> main \in {"shutdown", "panicked"}
=============================================================================
