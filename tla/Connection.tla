------------------------------ MODULE Connection ------------------------------
(***************************************************************************)
(* framewalk-mi-protocol: the Connection and its registries.  submit and   *)
(* submit_raw note which operation a token stands for; each record that    *)
(* GDB prints is classified and its payload goes to the registries.  A     *)
(* record is a TLA+ record; "results" has only the fields that GDB sent.   *)
(* Spec lets GDB print anything; GdbSession gives it the behaviour of GDB. *)
(***************************************************************************)
EXTENDS Naturals, Sequences, Functions

CONSTANTS
  ThreadIds,    \* the ids of threads
  All,          \* the pseudo-id "all"
  NoThread,     \* no thread-id in the record
  Locations,    \* the places a thread can stop at
  NoFrame,      \* no frame in the record
  BreakIds,     \* breakpoint numbers
  VarNames,     \* names of variable objects
  Values,       \* what a variable object can show
  Features      \* target features

ASSUME ThreadAssumption == All \notin ThreadIds /\ NoThread \notin ThreadIds /\ All # NoThread
ASSUME FrameAssumption  == NoFrame \notin Locations

VARIABLES
  tokens,       \* TokenAllocator: the next token
  pending,      \* PendingCommands: token -> its operation
  outbound,     \* the command lines on their way to GDB
  target,       \* TargetState
  threads,      \* ThreadRegistry: thread -> its state
  frames,       \* FrameRegistry: thread -> where it stopped
  breakpoints,  \* BreakpointRegistry: number -> whether it is enabled
  varobjs,      \* VarObjRegistry: name -> value
  features      \* FeatureSet::target_features

execution  == <<target, threads, frames>>
registries == <<breakpoints, varobjs, features>>
vars == <<tokens, pending, outbound, execution, registries>>

Maps(D, R)     == UNION {[S -> R] : S \in SUBSET D}
IsMap(f, D, R) == DOMAIN f \subseteq D /\ f \in [DOMAIN f -> R]
EmptyMap       == [k \in {} |-> k]
With(f, k, v)  == [x \in DOMAIN f \cup {k} |-> IF x = k THEN v ELSE f[x]]
Without(f, k)  == Restrict(f, DOMAIN f \ {k})

Unknown    == [state |-> "Unknown", thread |-> NoThread]
Running(t) == [state |-> "Running", thread |-> t]
Stopped(t) == [state |-> "Stopped", thread |-> t]
Exited     == [state |-> "Exited", thread |-> NoThread]

Init ==
  /\ tokens = 1 /\ pending = EmptyMap /\ outbound = <<>>
  /\ target = Unknown /\ threads = EmptyMap /\ frames = EmptyMap
  /\ breakpoints = EmptyMap /\ varobjs = EmptyMap /\ features = {}

-----------------------------------------------------------------------------
Routed == {"break-insert", "break-info", "var-create", "var-update", "var-delete",
           "list-target-features", "target-select", "exec-run"}

ExecCommands == {"exec-run", "exec-continue"}

Operation(name) == IF name \in Routed THEN name ELSE "other"

Enqueue(name, arg, info) ==
  /\ pending' = With(pending, tokens, info)
  /\ outbound' = Append(outbound, [token |-> tokens, name |-> name, arg |-> arg])
  /\ tokens' = tokens + 1
  /\ UNCHANGED <<execution, registries>>

submit(name, arg) ==
  Enqueue(name, arg, [operation |-> Operation(name), name |-> name, arg |-> arg])

submit_raw(name, arg) ==
  Enqueue(name, arg, [operation |-> "raw", name |-> "_raw", arg |-> arg])

(* The transport hands the next command line to GDB.                       *)
consume_outbound ==
  /\ outbound # <<>> /\ outbound' = Tail(outbound)
  /\ UNCHANGED <<tokens, pending, execution, registries>>

-----------------------------------------------------------------------------
Upsert(tuple) == breakpoints' = With(breakpoints, tuple.number, tuple.enabled)

RouteBreakpoint(info, results) ==
  /\ info.operation \in {"break-insert", "break-info"}
  /\ IF "bkpt" \in DOMAIN results THEN Upsert(results.bkpt) ELSE UNCHANGED breakpoints
  /\ UNCHANGED <<varobjs, features>>

(* A mutant of on_var_update: entries of unknown objects are skipped.      *)
on_var_update_KnownOnly(changelist) ==
  [n \in DOMAIN varobjs |-> IF n \in DOMAIN changelist THEN changelist[n] ELSE varobjs[n]]

on_var_update(changelist) ==
  [n \in DOMAIN varobjs \cup DOMAIN changelist |->
    IF n \in DOMAIN changelist THEN changelist[n] ELSE varobjs[n]]

RouteVarObj(info, results) ==
  /\ \/ /\ info.operation = "var-create"
        /\ varobjs' = IF "name" \in DOMAIN results
                      THEN With(varobjs, results.name, results.value) ELSE varobjs
     \/ /\ info.operation = "var-update"
        /\ varobjs' = IF "changelist" \in DOMAIN results
                      THEN on_var_update(results.changelist) ELSE varobjs
     \/ /\ info.operation = "var-delete"
        /\ varobjs' = Without(varobjs, info.arg)
  /\ UNCHANGED <<breakpoints, features>>

(* A mutant of RouteFeatures: the features of the old target are kept.     *)
RouteFeatures_Keeps(info, results) ==
  /\ info.operation \in {"list-target-features", "target-select", "exec-run"}
  /\ features' = IF "features" \in DOMAIN results THEN results.features ELSE features
  /\ UNCHANGED <<breakpoints, varobjs>>

RouteFeatures(info, results) ==
  /\ info.operation \in {"list-target-features", "target-select", "exec-run"}
  /\ features' = IF info.operation = "list-target-features" /\ "features" \in DOMAIN results
                 THEN results.features ELSE {}
  /\ UNCHANGED <<breakpoints, varobjs>>

route_done(info, results) ==
  \/ RouteBreakpoint(info, results)
  \/ RouteVarObj(info, results)
  \/ RouteFeatures(info, results)
  \/ info.operation \in {"other", "raw"} /\ UNCHANGED registries

classify_result(token, class, results) ==
  LET known == token \in DOMAIN pending IN
  /\ pending' = Without(pending, token)
  /\ IF class \in {"done", "connected"} /\ known
     THEN route_done(pending[token], results) ELSE UNCHANGED registries
  /\ IF class = "error" /\ known /\ pending[token].name \in ExecCommands
     THEN target' = Unknown /\ frames' = EmptyMap
     ELSE UNCHANGED <<target, frames>>
  /\ UNCHANGED <<tokens, outbound, threads>>

-----------------------------------------------------------------------------
(* A mutant of Seen: "all" is taken for the id of a thread.                *)
Seen_AllIsAThread(thread, state) ==
  IF thread = NoThread THEN [t \in DOMAIN threads |-> state]
                       ELSE With(threads, thread, state)

(* ThreadRegistry::on_running and on_stopped.                              *)
Seen(thread, state) ==
  IF thread \in {All, NoThread} THEN [t \in DOMAIN threads |-> state]
                                ELSE With(threads, thread, state)

(* A mutant of Invalidated: a thread that resumes keeps its frame.         *)
Invalidated_OnlyAll(thread) == IF thread \in {All, NoThread} THEN EmptyMap ELSE frames

Invalidated(thread) ==
  IF thread \in {All, NoThread} THEN EmptyMap ELSE Without(frames, thread)

classify_running(thread) ==
  /\ target' = Running(thread)
  /\ threads' = Seen(thread, "Running")
  /\ frames' = Invalidated(thread)
  /\ UNCHANGED <<tokens, pending, outbound, registries>>

ExitReasons == {"exited-normally", "exited", "exited-signalled"}

(* A mutant of TargetAfterStop: the death by a signal is a stop.           *)
TargetAfterStop_SignalStops(thread, reason) ==
  IF reason \in ExitReasons \ {"exited-signalled"} THEN Exited ELSE Stopped(thread)

TargetAfterStop(thread, reason) ==
  IF reason \in ExitReasons THEN Exited ELSE Stopped(thread)

classify_stopped(thread, reason, frame) ==
  LET kept == IF reason \in ExitReasons THEN EmptyMap ELSE frames IN
  /\ target' = TargetAfterStop(thread, reason)
  /\ threads' = Seen(thread, "Stopped")
  /\ frames' = IF thread # NoThread /\ frame # NoFrame THEN With(kept, thread, frame) ELSE kept
  /\ UNCHANGED <<tokens, pending, outbound, registries>>

on_thread_created(thread) ==
  /\ threads' = IF thread \in DOMAIN threads THEN threads ELSE With(threads, thread, "None")
  /\ UNCHANGED <<tokens, pending, outbound, target, frames, registries>>

(* A mutant of on_thread_exited: the thread stays in the registry.         *)
on_thread_exited_Keeps(thread) ==
  UNCHANGED vars

on_thread_exited(thread) ==
  /\ threads' = Without(threads, thread)
  /\ UNCHANGED <<tokens, pending, outbound, target, frames, registries>>

on_breakpoint_modified(tuple) ==
  /\ Upsert(tuple)
  /\ UNCHANGED <<tokens, pending, outbound, execution, varobjs, features>>

on_breakpoint_deleted(number) ==
  /\ breakpoints' = Without(breakpoints, number)
  /\ UNCHANGED <<tokens, pending, outbound, execution, varobjs, features>>

-----------------------------------------------------------------------------
Names   == Routed \cup ExecCommands \cup {"target-detach", "break-delete", "var-list-children"}
Args    == ThreadIds \cup VarNames \cup BreakIds
Classes == {"done", "connected", "running", "error", "exit"}
Tuples  == [number : BreakIds, enabled : BOOLEAN]
Results ==
  {EmptyMap} \cup [bkpt : Tuples] \cup [name : VarNames, value : Values]
    \cup [changelist : Maps(VarNames, Values)] \cup [features : SUBSET Features]

(* Everything GDB can print that the connection tells apart; "other" is    *)
(* any other notification, a stream record, a prompt or a malformed line.  *)
classify_record(r) ==
  \/ r.kind = "result" /\ classify_result(r.token, r.class, r.results)
  \/ r.kind = "running" /\ classify_running(r.thread)
  \/ r.kind = "stopped" /\ classify_stopped(r.thread, r.reason, r.frame)
  \/ r.kind = "thread-created" /\ on_thread_created(r.thread)
  \/ r.kind = "thread-exited" /\ on_thread_exited(r.thread)
  \/ r.kind = "breakpoint-modified" /\ on_breakpoint_modified(r.bkpt)
  \/ r.kind = "breakpoint-deleted" /\ on_breakpoint_deleted(r.number)
  \/ r.kind = "other" /\ UNCHANGED vars

(* A process that has exited has no frame to report.                       *)
Records ==
  [kind : {"result"}, token : Nat, class : Classes, results : Results]
    \cup [kind : {"running"}, thread : ThreadIds \cup {All, NoThread}]
    \cup [kind : {"stopped"}, thread : ThreadIds \cup {All, NoThread},
          reason : {"breakpoint-hit"}, frame : Locations \cup {NoFrame}]
    \cup [kind : {"stopped"}, thread : ThreadIds \cup {All, NoThread},
          reason : ExitReasons, frame : {NoFrame}]
    \cup [kind : {"thread-created", "thread-exited"}, thread : ThreadIds]
    \cup [kind : {"breakpoint-modified"}, bkpt : Tuples]
    \cup [kind : {"breakpoint-deleted"}, number : BreakIds]
    \cup [kind : {"other"}]

Next ==
  \/ \E name \in Names, arg \in Args : submit(name, arg) \/ submit_raw(name, arg)
  \/ consume_outbound
  \/ \E r \in Records : classify_record(r)

Spec == Init /\ [][Next]_vars

-----------------------------------------------------------------------------
(* The variables have the types the code gives them; a pending token was   *)
(* allocated.                                                              *)
Infos == [operation : Routed \cup {"other", "raw"}, name : Names \cup {"_raw"}, arg : Args]

TypeOK ==
  /\ tokens \in Nat \ {0} /\ IsMap(pending, 1..(tokens - 1), Infos)
  /\ outbound \in Seq([token : Nat, name : Names, arg : Args])
  /\ target \in [state : {"Unknown", "Running", "Stopped", "Exited"},
                 thread : ThreadIds \cup {All, NoThread}]
  /\ IsMap(threads, ThreadIds, {"None", "Running", "Stopped"})
  /\ IsMap(frames, ThreadIds \cup {All}, Locations)
  /\ IsMap(breakpoints, BreakIds, BOOLEAN)
  /\ IsMap(varobjs, VarNames, Values)
  /\ features \in SUBSET Features

(* Whatever GDB prints, in whatever order, a snapshot never contradicts    *)
(* itself: no thread that runs has a frame, the target state agrees with   *)
(* the states of the threads it speaks of, and a process that is gone has  *)
(* no frames.                                                              *)
SpeaksOf(t) == target.thread \in {All, NoThread, t}

IsIn(t, state) == t \in DOMAIN threads /\ threads[t] = state

Coherent ==
  \A t \in ThreadIds :
    /\ IsIn(t, "Running") => t \notin DOMAIN frames
    /\ target.state = "Running" /\ SpeaksOf(t) =>
         t \notin DOMAIN frames /\ ~IsIn(t, "Stopped")
    /\ target.state = "Stopped" /\ SpeaksOf(t) => ~IsIn(t, "Running")
    /\ target.state = "Exited" => t \notin DOMAIN frames
=============================================================================
