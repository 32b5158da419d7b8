---------------------------- MODULE GdbSessionProofs ----------------------------
(***************************************************************************)
(* Theorems about Connection and GdbSession, for any threads, any scripts, *)
(* any commands and any number of steps of GDB.                            *)
(*                                                                         *)
(* Whatever records it is fed, the registries of a Connection keep their   *)
(* types, and a snapshot never contradicts itself.  A session is a         *)
(* behaviour of Connection; and when the reader has caught up, the         *)
(* registries show what GDB last reported.  The argument about each of     *)
(* them is the same: of the records on the wire that touch an entry of the *)
(* registry, the last one leaves it as GDB has it, and if there is none,   *)
(* it already is.                                                          *)
(***************************************************************************)
EXTENDS GdbSession, Lemmas

-----------------------------------------------------------------------------
(* The connection, fed any records.                                        *)

(* What the two map updates do to a map.                                   *)
LEMMA WithMap ==
  ASSUME NEW D, NEW R, NEW f, IsMap(f, D, R), NEW k \in D, NEW v \in R
  PROVE  IsMap(With(f, k, v), D, R)
BY DEF IsMap, With

LEMMA WithoutMap ==
  ASSUME NEW D, NEW R, NEW f, IsMap(f, D, R), NEW k
  PROVE  IsMap(Without(f, k), D, R) /\ DOMAIN Without(f, k) = DOMAIN f \ {k}
BY DEF IsMap, Without, Restrict

LEMMA EmptyIsMap ==
  ASSUME NEW D, NEW R
  PROVE  IsMap(EmptyMap, D, R)
BY DEF IsMap, EmptyMap

(* A map of the updated keys over the others.                              *)
LEMMA MergeMap ==
  ASSUME NEW changes \in Maps(VarNames, Values), IsMap(varobjs, VarNames, Values)
  PROVE  IsMap(on_var_update(changes), VarNames, Values)
BY DEF IsMap, Maps, on_var_update

(* A field of a result record, if it is there, has its type.               *)
LEMMA ResultFields ==
  ASSUME NEW r \in Results
  PROVE  /\ "bkpt" \in DOMAIN r => r.bkpt \in Tuples
         /\ "name" \in DOMAIN r => r.name \in VarNames /\ r.value \in Values
         /\ "changelist" \in DOMAIN r => r.changelist \in Maps(VarNames, Values)
         /\ "features" \in DOMAIN r => r.features \in SUBSET Features
<1>1. CASE r = EmptyMap
  BY <1>1 DEF EmptyMap
<1>2. CASE r \in [bkpt : Tuples]
  <2>1. DOMAIN r = {"bkpt"} /\ r.bkpt \in Tuples
    BY <1>2
  <2> QED  BY <2>1
<1>3. CASE r \in [name : VarNames, value : Values]
  <2>1. DOMAIN r = {"name", "value"} /\ r.name \in VarNames /\ r.value \in Values
    BY <1>3
  <2> QED  BY <2>1
<1>4. CASE r \in [changelist : Maps(VarNames, Values)]
  <2>1. DOMAIN r = {"changelist"} /\ r.changelist \in Maps(VarNames, Values)
    BY <1>4
  <2> QED  BY <2>1
<1>5. CASE r \in [features : SUBSET Features]
  <2>1. DOMAIN r = {"features"} /\ r.features \in SUBSET Features
    BY <1>5
  <2> QED  BY <2>1
<1> QED  BY <1>1, <1>2, <1>3, <1>4, <1>5 DEF Results

-----------------------------------------------------------------------------
(* The parts of the type invariant that one record disturbs together.      *)
ExecutionOK ==
  /\ target \in [state : {"Unknown", "Running", "Stopped", "Exited"},
                 thread : ThreadIds \cup {All, NoThread}]
  /\ IsMap(threads, ThreadIds, {"None", "Running", "Stopped"})
  /\ IsMap(frames, ThreadIds \cup {All}, Locations)

RegistriesOK ==
  /\ IsMap(breakpoints, BreakIds, BOOLEAN)
  /\ IsMap(varobjs, VarNames, Values)
  /\ features \in SUBSET Features

CommandsOK ==
  /\ tokens \in Nat \ {0} /\ IsMap(pending, 1..(tokens - 1), Infos)
  /\ outbound \in Seq([token : Nat, name : Names, arg : Args])

LEMMA Parts ==
  /\ TypeOK <=> CommandsOK /\ ExecutionOK /\ RegistriesOK
  /\ TypeOK' <=> CommandsOK' /\ ExecutionOK' /\ RegistriesOK'
BY DEF TypeOK, CommandsOK, ExecutionOK, RegistriesOK

(* A record about one thread or all of them leaves a registry of threads.  *)
LEMMA SeenType ==
  ASSUME IsMap(threads, ThreadIds, {"None", "Running", "Stopped"}),
         NEW thread \in ThreadIds \cup {All, NoThread},
         NEW state \in {"None", "Running", "Stopped"}
  PROVE  IsMap(Seen(thread, state), ThreadIds, {"None", "Running", "Stopped"})
<1>1. CASE thread \in {All, NoThread}
  BY <1>1 DEF Seen, IsMap
<1>2. CASE thread \notin {All, NoThread}
  BY <1>2, WithMap, thread \in ThreadIds DEF Seen
<1> QED  BY <1>1, <1>2

LEMMA RouteType ==
  ASSUME RegistriesOK, NEW info \in Infos, NEW results \in Results,
         route_done(info, results)
  PROVE  RegistriesOK'
<1>1. CASE RouteBreakpoint(info, results)
  <2>1. "bkpt" \in DOMAIN results => results.bkpt \in Tuples
    BY ResultFields
  <2>2. IsMap(breakpoints', BreakIds, BOOLEAN)
    <3>1. CASE "bkpt" \in DOMAIN results
      <4>1. results.bkpt.number \in BreakIds /\ results.bkpt.enabled \in BOOLEAN
        BY <2>1, <3>1 DEF Tuples
      <4>2. breakpoints' = With(breakpoints, results.bkpt.number, results.bkpt.enabled)
        BY <1>1, <3>1 DEF RouteBreakpoint, Upsert
      <4> QED  BY <4>1, <4>2, WithMap DEF RegistriesOK
    <3>2. CASE "bkpt" \notin DOMAIN results
      BY <1>1, <3>2 DEF RouteBreakpoint, RegistriesOK
    <3> QED  BY <3>1, <3>2
  <2> QED  BY <1>1, <2>2 DEF RouteBreakpoint, RegistriesOK
<1>2. CASE RouteVarObj(info, results)
  <2>1. IsMap(varobjs', VarNames, Values)
    <3>1. CASE varobjs' = varobjs
      BY <3>1 DEF RegistriesOK
    <3>2. CASE "name" \in DOMAIN results /\ varobjs' = With(varobjs, results.name, results.value)
      BY <3>2, ResultFields, WithMap DEF RegistriesOK
    <3>3. CASE "changelist" \in DOMAIN results /\ varobjs' = on_var_update(results.changelist)
      BY <3>3, ResultFields, MergeMap DEF RegistriesOK
    <3>4. CASE varobjs' = Without(varobjs, info.arg)
      BY <3>4, WithoutMap DEF RegistriesOK
    <3> QED  BY <1>2, <3>1, <3>2, <3>3, <3>4 DEF RouteVarObj
  <2> QED  BY <1>2, <2>1 DEF RouteVarObj, RegistriesOK
<1>3. CASE RouteFeatures(info, results)
  BY <1>3, ResultFields DEF RouteFeatures, RegistriesOK
<1>4. CASE UNCHANGED registries
  BY <1>4 DEF registries, RegistriesOK
<1> QED  BY <1>1, <1>2, <1>3, <1>4 DEF route_done

LEMMA ResultType ==
  ASSUME TypeOK, NEW token \in Nat, NEW class \in Classes, NEW results \in Results,
         classify_result(token, class, results)
  PROVE  TypeOK'
<1> USE Parts
<1>1. CommandsOK'
  BY WithoutMap DEF classify_result, CommandsOK
<1>2. ExecutionOK'
  <2>1. CASE UNCHANGED <<target, frames>>
    BY <2>1 DEF classify_result, ExecutionOK
  <2>2. CASE target' = Unknown /\ frames' = EmptyMap
    BY <2>2, EmptyIsMap DEF classify_result, ExecutionOK, Unknown
  <2> QED  BY <2>1, <2>2 DEF classify_result
<1>3. RegistriesOK'
  <2>1. CASE UNCHANGED registries
    BY <2>1 DEF registries, RegistriesOK
  <2>2. CASE token \in DOMAIN pending /\ route_done(pending[token], results)
    <3>1. pending[token] \in Infos
      BY <2>2 DEF CommandsOK, IsMap
    <3> QED  BY <2>2, <3>1, RouteType
  <2> QED  BY <2>1, <2>2 DEF classify_result
<1> QED  BY <1>1, <1>2, <1>3, Parts

LEMMA ExecType ==
  ASSUME TypeOK, NEW thread \in ThreadIds \cup {All, NoThread},
         \/ classify_running(thread)
         \/ \E reason \in ExitReasons \cup {"breakpoint-hit"},
               frame \in Locations \cup {NoFrame} : classify_stopped(thread, reason, frame)
  PROVE  TypeOK'
<1> USE Parts
<1>1. CommandsOK' /\ RegistriesOK'
  BY DEF classify_running, classify_stopped, registries, CommandsOK, RegistriesOK
<1>2. CASE classify_running(thread)
  <2>1. IsMap(frames', ThreadIds \cup {All}, Locations)
    BY <1>2, EmptyIsMap, WithoutMap DEF classify_running, Invalidated, ExecutionOK
  <2>2. IsMap(threads', ThreadIds, {"None", "Running", "Stopped"})
    BY <1>2, SeenType DEF classify_running, ExecutionOK
  <2>3. target' \in [state : {"Unknown", "Running", "Stopped", "Exited"},
                     thread : ThreadIds \cup {All, NoThread}]
    BY <1>2 DEF classify_running, Running
  <2> QED  BY <1>1, <2>1, <2>2, <2>3 DEF ExecutionOK
<1>3. ASSUME NEW reason \in ExitReasons \cup {"breakpoint-hit"},
             NEW frame \in Locations \cup {NoFrame}, classify_stopped(thread, reason, frame)
      PROVE  TypeOK'
  <2> DEFINE kept == IF reason \in ExitReasons THEN EmptyMap ELSE frames
  <2>1. IsMap(kept, ThreadIds \cup {All}, Locations)
    BY EmptyIsMap DEF ExecutionOK
  <2>2. IsMap(frames', ThreadIds \cup {All}, Locations)
    <3> HIDE DEF kept
    <3>1. CASE thread # NoThread /\ frame # NoFrame
      <4>1. frames' = With(kept, thread, frame)
        BY <1>3, <3>1 DEF classify_stopped, kept
      <4>2. thread \in ThreadIds \cup {All} /\ frame \in Locations
        BY <3>1
      <4> QED  BY <2>1, <4>1, <4>2, WithMap
    <3>2. CASE ~(thread # NoThread /\ frame # NoFrame)
      BY <1>3, <2>1, <3>2 DEF classify_stopped, kept
    <3> QED  BY <3>1, <3>2
  <2>3. target' \in [state : {"Unknown", "Running", "Stopped", "Exited"},
                     thread : ThreadIds \cup {All, NoThread}]
    BY <1>3 DEF classify_stopped, TargetAfterStop, Exited, Stopped
  <2>4. IsMap(threads', ThreadIds, {"None", "Running", "Stopped"})
    BY <1>3, SeenType DEF classify_stopped, ExecutionOK
  <2> QED  BY <1>1, <2>2, <2>3, <2>4 DEF ExecutionOK
<1> QED  BY <1>2, <1>3

LEMMA SubmitType ==
  ASSUME TypeOK, NEW name \in Names, NEW arg \in Args,
         submit(name, arg) \/ submit_raw(name, arg)
  PROVE  TypeOK'
<1> USE Parts
<1>1. PICK info \in Infos : Enqueue(name, arg, info)
  <2>1. CASE submit(name, arg)
    BY <2>1 DEF submit, Operation, Infos
  <2>2. CASE submit_raw(name, arg)
    BY <2>2 DEF submit_raw, Infos
  <2> QED  BY <2>1, <2>2
<1>2. tokens \in Nat \ {0} /\ tokens' = tokens + 1
  BY <1>1 DEF Enqueue, CommandsOK
<1>3. IsMap(pending', 1..(tokens' - 1), Infos)
  <2>1. tokens \in 1..tokens /\ tokens' - 1 = tokens
    BY <1>2
  <2>2. IsMap(pending, 1..tokens, Infos)
    BY <1>2 DEF CommandsOK, IsMap
  <2>3. IsMap(With(pending, tokens, info), 1..tokens, Infos)
    BY <2>1, <2>2, WithMap
  <2> QED  BY <1>1, <2>1, <2>3 DEF Enqueue
<1>4. outbound' \in Seq([token : Nat, name : Names, arg : Args])
  BY <1>1 DEF Enqueue, CommandsOK
<1>5. ExecutionOK' /\ RegistriesOK'
  BY <1>1 DEF Enqueue, execution, registries, ExecutionOK, RegistriesOK
<1> QED  BY <1>1, <1>2, <1>3, <1>4, <1>5 DEF CommandsOK

LEMMA NotifyType ==
  ASSUME TypeOK,
         \/ \E thread \in ThreadIds : on_thread_created(thread) \/ on_thread_exited(thread)
         \/ \E tuple \in Tuples : on_breakpoint_modified(tuple)
         \/ \E number \in BreakIds : on_breakpoint_deleted(number)
  PROVE  TypeOK'
<1> USE Parts
<1>1. ASSUME NEW thread \in ThreadIds, on_thread_created(thread) \/ on_thread_exited(thread)
      PROVE  TypeOK'
  <2>1. CommandsOK' /\ RegistriesOK'
    BY <1>1 DEF on_thread_created, on_thread_exited, registries, CommandsOK, RegistriesOK
  <2>2. IsMap(threads', ThreadIds, {"None", "Running", "Stopped"})
    <3>1. IsMap(threads, ThreadIds, {"None", "Running", "Stopped"})
      BY DEF ExecutionOK
    <3>2. IsMap(With(threads, thread, "None"), ThreadIds, {"None", "Running", "Stopped"})
      BY <3>1, WithMap
    <3>3. IsMap(Without(threads, thread), ThreadIds, {"None", "Running", "Stopped"})
      BY <3>1, WithoutMap
    <3> QED  BY <1>1, <3>1, <3>2, <3>3 DEF on_thread_created, on_thread_exited
  <2>3. ExecutionOK'
    BY <1>1, <2>2 DEF on_thread_created, on_thread_exited, ExecutionOK
  <2> QED  BY <2>1, <2>3
<1>2. ASSUME NEW tuple \in Tuples, on_breakpoint_modified(tuple)
      PROVE  TypeOK'
  <2>1. tuple.number \in BreakIds /\ tuple.enabled \in BOOLEAN
    BY DEF Tuples
  <2>2. CommandsOK' /\ ExecutionOK'
    BY <1>2 DEF on_breakpoint_modified, execution, CommandsOK, ExecutionOK
  <2>3. IsMap(breakpoints', BreakIds, BOOLEAN)
    BY <1>2, <2>1, WithMap DEF on_breakpoint_modified, Upsert, RegistriesOK
  <2>4. RegistriesOK'
    BY <1>2, <2>3 DEF on_breakpoint_modified, RegistriesOK
  <2> QED  BY <2>2, <2>4
<1>3. ASSUME NEW number \in BreakIds, on_breakpoint_deleted(number)
      PROVE  TypeOK'
  <2>1. CommandsOK' /\ ExecutionOK'
    BY <1>3 DEF on_breakpoint_deleted, execution, CommandsOK, ExecutionOK
  <2>2. IsMap(breakpoints', BreakIds, BOOLEAN)
    BY <1>3, WithoutMap DEF on_breakpoint_deleted, RegistriesOK
  <2>3. RegistriesOK'
    BY <1>3, <2>2 DEF on_breakpoint_deleted, RegistriesOK
  <2> QED  BY <2>1, <2>3
<1> QED  BY <1>1, <1>2, <1>3

(* Every record is one of those the lemmas are about.                      *)
LEMMA RecordCases ==
  ASSUME NEW r \in Records, classify_record(r)
  PROVE  \/ \E token \in Nat, class \in Classes, results \in Results :
              classify_result(token, class, results)
         \/ \E thread \in ThreadIds \cup {All, NoThread} : classify_running(thread)
         \/ \E thread \in ThreadIds \cup {All, NoThread}, frame \in Locations \cup {NoFrame} :
              classify_stopped(thread, "breakpoint-hit", frame)
         \/ \E thread \in ThreadIds \cup {All, NoThread}, reason \in ExitReasons :
              classify_stopped(thread, reason, NoFrame)
         \/ \E thread \in ThreadIds : on_thread_created(thread) \/ on_thread_exited(thread)
         \/ \E tuple \in Tuples : on_breakpoint_modified(tuple)
         \/ \E number \in BreakIds : on_breakpoint_deleted(number)
         \/ UNCHANGED vars
<1>1. CASE r \in [kind : {"result"}, token : Nat, class : Classes, results : Results]
  <2>1. r.token \in Nat /\ r.class \in Classes /\ r.results \in Results /\ r.kind = "result"
    BY <1>1
  <2> QED  BY <2>1 DEF classify_record
<1>2. CASE r \in [kind : {"running"}, thread : ThreadIds \cup {All, NoThread}]
  BY <1>2 DEF classify_record
<1>3. CASE r \in [kind : {"stopped"}, thread : ThreadIds \cup {All, NoThread},
                  reason : {"breakpoint-hit"}, frame : Locations \cup {NoFrame}]
  BY <1>3 DEF classify_record
<1>4. CASE r \in [kind : {"stopped"}, thread : ThreadIds \cup {All, NoThread},
                  reason : ExitReasons, frame : {NoFrame}]
  BY <1>4 DEF classify_record
<1>5. CASE r \in [kind : {"thread-created", "thread-exited"}, thread : ThreadIds]
  BY <1>5 DEF classify_record
<1>6. CASE r \in [kind : {"breakpoint-modified"}, bkpt : Tuples]
  BY <1>6 DEF classify_record
<1>7. CASE r \in [kind : {"breakpoint-deleted"}, number : BreakIds]
  BY <1>7 DEF classify_record
<1>8. CASE r \in [kind : {"other"}]
  BY <1>8 DEF classify_record
<1> QED  BY <1>1, <1>2, <1>3, <1>4, <1>5, <1>6, <1>7, <1>8 DEF Records

-----------------------------------------------------------------------------
(* The registries, the pending map and the target state keep their types   *)
(* under any commands and any records.                                     *)
THEOREM ConnectionTypes == Spec => []TypeOK
<1>1. Init => TypeOK
  BY EmptyIsMap DEF Init, TypeOK, Unknown
<1>2. TypeOK /\ [Next]_vars => TypeOK'
  <2> SUFFICES ASSUME TypeOK, [Next]_vars PROVE TypeOK'
    OBVIOUS
  <2>1. ASSUME NEW name \in Names, NEW arg \in Args, submit(name, arg) \/ submit_raw(name, arg)
        PROVE  TypeOK'
    BY <2>1, SubmitType
  <2>2. ASSUME NEW r \in Records, classify_record(r)
        PROVE  TypeOK'
    <3>1. CASE UNCHANGED vars
      BY <3>1 DEF vars, execution, registries, TypeOK
    <3>2. "breakpoint-hit" \in ExitReasons \cup {"breakpoint-hit"}
      OBVIOUS
    <3> QED  BY <2>2, <3>1, <3>2, RecordCases, ResultType, ExecType, NotifyType
  <2>3. CASE consume_outbound
    <3>1. outbound' \in Seq([token : Nat, name : Names, arg : Args])
      BY <2>3 DEF consume_outbound, TypeOK
    <3> QED  BY <2>3, <3>1 DEF consume_outbound, execution, registries, TypeOK
  <2>4. CASE UNCHANGED vars
    BY <2>4 DEF vars, execution, registries, TypeOK
  <2> QED  BY <2>1, <2>2, <2>3, <2>4 DEF Next
<1> QED  BY <1>1, <1>2, PTL DEF Spec

-----------------------------------------------------------------------------
(* What a snapshot shows of a thread after a record about one or all.      *)
LEMMA SeenIn ==
  ASSUME NEW thread \in ThreadIds \cup {All, NoThread}, NEW state, NEW other,
         threads' = Seen(thread, state), NEW t \in ThreadIds
  PROVE  /\ thread \in {All, NoThread, t} => (IsIn(t, other)' => other = state)
         /\ thread \notin {All, NoThread, t} => (IsIn(t, other)' <=> IsIn(t, other))
<1>1. CASE thread \in {All, NoThread}
  BY <1>1, ThreadAssumption DEF Seen, IsIn
<1>2. CASE thread \notin {All, NoThread}
  BY <1>2 DEF Seen, With, IsIn
<1> QED  BY <1>1, <1>2

LEMMA RunningCoherent ==
  ASSUME Coherent, NEW thread \in ThreadIds \cup {All, NoThread}, classify_running(thread)
  PROVE  Coherent'
<1>1. target' = Running(thread) /\ threads' = Seen(thread, "Running")
      /\ frames' = Invalidated(thread)
  BY DEF classify_running
<1>2. target'.state = "Running" /\ target'.thread = thread
  BY <1>1 DEF Running
<1> SUFFICES ASSUME NEW t \in ThreadIds
             PROVE  /\ IsIn(t, "Running")' => t \notin DOMAIN frames'
                    /\ SpeaksOf(t)' => t \notin DOMAIN frames' /\ ~IsIn(t, "Stopped")'
  BY <1>2 DEF Coherent
<1>3. CASE thread \in {All, NoThread, t}
  <2>1. t \notin DOMAIN frames'
    BY <1>1, <1>3 DEF Invalidated, EmptyMap, Without, Restrict
  <2>2. ~IsIn(t, "Stopped")'
    BY <1>1, <1>3, SeenIn
  <2> QED  BY <2>1, <2>2
<1>4. CASE thread \notin {All, NoThread, t}
  <2>1. IsIn(t, "Running")' => IsIn(t, "Running")
    BY <1>1, <1>4, SeenIn
  <2>2. DOMAIN frames' \subseteq DOMAIN frames
    BY <1>1, <1>4 DEF Invalidated, Without, Restrict
  <2>3. ~SpeaksOf(t)'
    BY <1>2, <1>4, ThreadAssumption DEF SpeaksOf
  <2> QED  BY <2>1, <2>2, <2>3 DEF Coherent
<1> QED  BY <1>3, <1>4

LEMMA StoppedCoherent ==
  ASSUME Coherent, NEW thread \in ThreadIds \cup {All, NoThread},
         NEW frame \in Locations \cup {NoFrame},
         classify_stopped(thread, "breakpoint-hit", frame)
  PROVE  Coherent'
<1>1. /\ target' = Stopped(thread) /\ threads' = Seen(thread, "Stopped")
      /\ frames' = frames \/ frames' = With(frames, thread, frame)
  BY DEF classify_stopped, TargetAfterStop, ExitReasons
<1>2. target'.state = "Stopped" /\ target'.thread = thread
  BY <1>1 DEF Stopped
<1> SUFFICES ASSUME NEW t \in ThreadIds
             PROVE  /\ IsIn(t, "Running")' => t \notin DOMAIN frames'
                    /\ SpeaksOf(t)' => ~IsIn(t, "Running")'
  BY <1>2 DEF Coherent
<1>3. CASE thread \in {All, NoThread, t}
  BY <1>1, <1>3, SeenIn
<1>4. CASE thread \notin {All, NoThread, t}
  <2>1. IsIn(t, "Running")' => IsIn(t, "Running")
    BY <1>1, <1>4, SeenIn
  <2>2. t \in DOMAIN frames' => t \in DOMAIN frames
    BY <1>1, <1>4 DEF With
  <2>3. ~SpeaksOf(t)'
    BY <1>2, <1>4, ThreadAssumption DEF SpeaksOf
  <2> QED  BY <2>1, <2>2, <2>3 DEF Coherent
<1> QED  BY <1>3, <1>4

(* Whatever the order of the records, and whatever the commands were, the  *)
(* target state, the thread registry and the frame registry agree.         *)
THEOREM SnapshotCoherent == Spec => []Coherent
<1>1. Init => Coherent
  BY DEF Init, Coherent, IsIn, EmptyMap, Unknown
<1>2. Coherent /\ [Next]_vars => Coherent'
  <2> SUFFICES ASSUME Coherent, [Next]_vars PROVE Coherent'
    OBVIOUS
  <2>1. CASE UNCHANGED execution
    BY <2>1 DEF execution, Coherent, IsIn, SpeaksOf
  <2>2. ASSUME NEW token, NEW class, NEW results, classify_result(token, class, results)
        PROVE  Coherent'
    <3>1. CASE UNCHANGED <<target, frames>>
      BY <2>1, <2>2, <3>1 DEF classify_result, execution
    <3>2. CASE target' = Unknown /\ frames' = EmptyMap
      <4>1. target'.state = "Unknown" /\ DOMAIN frames' = {}
        BY <3>2 DEF Unknown, EmptyMap
      <4> QED  BY <4>1 DEF Coherent
    <3> QED  BY <2>2, <3>1, <3>2 DEF classify_result
  <2>3. ASSUME NEW thread \in ThreadIds \cup {All, NoThread}, NEW reason \in ExitReasons,
               classify_stopped(thread, reason, NoFrame)
        PROVE  Coherent'
    <3>1. target'.state = "Exited" /\ DOMAIN frames' = {}
      BY <2>3 DEF classify_stopped, TargetAfterStop, Exited, EmptyMap
    <3> QED  BY <3>1 DEF Coherent
  <2>4. ASSUME NEW thread \in ThreadIds, on_thread_created(thread) \/ on_thread_exited(thread)
        PROVE  Coherent'
    <3>1. \A t \in ThreadIds, s \in {"Running", "Stopped"} : IsIn(t, s)' => IsIn(t, s)
      BY <2>4 DEF on_thread_created, on_thread_exited, IsIn, With, Without, Restrict
    <3>2. target' = target /\ frames' = frames
      BY <2>4 DEF on_thread_created, on_thread_exited
    <3> QED  BY <3>1, <3>2 DEF Coherent, SpeaksOf
  <2>5. ASSUME NEW r \in Records, classify_record(r)
        PROVE  Coherent'
    <3>1. ASSUME NEW tuple, on_breakpoint_modified(tuple) PROVE UNCHANGED execution
      BY <3>1 DEF on_breakpoint_modified
    <3>2. ASSUME NEW number, on_breakpoint_deleted(number) PROVE UNCHANGED execution
      BY <3>2 DEF on_breakpoint_deleted
    <3>3. CASE UNCHANGED vars
      BY <2>1, <3>3 DEF vars
    <3> QED  BY <2>1, <2>2, <2>3, <2>4, <2>5, <3>1, <3>2, <3>3,
                RecordCases, RunningCoherent, StoppedCoherent
  <2>6. ASSUME NEW name, NEW arg, submit(name, arg) \/ submit_raw(name, arg)
        PROVE  Coherent'
    BY <2>1, <2>6 DEF submit, submit_raw, Enqueue
  <2>7. CASE consume_outbound
    BY <2>1, <2>7 DEF consume_outbound
  <2>8. CASE UNCHANGED vars
    BY <2>1, <2>8 DEF vars
  <2> QED  BY <2>5, <2>6, <2>7, <2>8 DEF Next
<1> QED  BY <1>1, <1>2, PTL DEF Spec

-----------------------------------------------------------------------------
(* The session: the connection and GDB.                                    *)

(* T are the records that touch an entry, G those that leave it as GDB has *)
(* it, and b says that it is.                                              *)
Untouched(w, T) == \A i \in DOMAIN w : w[i] \notin T

LastIsGood(w, T, G) ==
  \A i \in DOMAIN w :
    w[i] \in T /\ (\A j \in DOMAIN w : i < j => w[j] \notin T) => w[i] \in G

Settled(w, T, G, b) == (Untouched(w, T) => b) /\ LastIsGood(w, T, G)

-----------------------------------------------------------------------------
(* The types of what GDB keeps and of what is on its way.                  *)
Commands == {c \in [token : Nat, name : Names, arg : Args] :
               c.name = "break-insert" => c.arg \in BreakIds}

GdbTypes ==
  /\ nonStop \in BOOLEAN /\ script \in Scripts
  /\ outbound \in Seq(Commands) /\ tokens \in Nat /\ wire \in Seq(Records)
  /\ IsMap(inferior, ThreadIds, Locations \cup {Moving}) /\ IsFiniteSet(DOMAIN inferior)
  /\ IsMap(gdbBreaks, BreakIds, BOOLEAN) /\ IsMap(gdbVars, VarNames, Values)
  /\ gdbFeatures \in SUBSET Features /\ unseen \in BOOLEAN

(* In all-stop mode the threads stand still together.                      *)
AllStop ==
  ~nonStop => \/ \A t \in DOMAIN inferior : inferior[t] = Moving
              \/ \A t \in DOMAIN inferior : inferior[t] # Moving

-----------------------------------------------------------------------------
(* Each command on its way, and each result, has a token of its own, for   *)
(* which the connection remembers the command.                             *)
IsResult(r) == r.kind = "result"

InfoOf(c) ==
  {[operation |-> Operation(c.name), name |-> c.name, arg |-> c.arg],
   [operation |-> "raw", name |-> "_raw", arg |-> c.arg]}

PendingInv ==
  /\ \A i \in DOMAIN outbound :
       /\ outbound[i].token \in DOMAIN pending
       /\ pending[outbound[i].token] \in InfoOf(outbound[i])
       /\ \A j \in DOMAIN outbound : outbound[i].token = outbound[j].token => i = j
       /\ \A j \in DOMAIN wire : IsResult(wire[j]) => outbound[i].token # wire[j].token
  /\ \A i \in DOMAIN wire : IsResult(wire[i]) =>
       /\ wire[i].token \in DOMAIN pending
       /\ \A j \in DOMAIN wire :
            IsResult(wire[j]) /\ wire[i].token = wire[j].token => i = j

-----------------------------------------------------------------------------
(* The thread registry: which threads there are.                           *)
ThreadRecords(t) ==
  {r \in Records : r.kind \in {"thread-created", "thread-exited", "running", "stopped"}
                     /\ r.thread = t}

KnownRight(t) ==
  {r \in ThreadRecords(t) : r.kind # "thread-exited" <=> t \in DOMAIN inferior}

ThreadsKnown ==
  \A t \in ThreadIds :
    Settled(wire, ThreadRecords(t), KnownRight(t), t \in DOMAIN threads <=> t \in DOMAIN inferior)

(* The thread registry: whether a thread runs, in non-stop mode.           *)
MoveRecords(t) ==
  {r \in Records : r.kind \in {"thread-created", "thread-exited", "running", "stopped"}
                     /\ r.thread \in {t, All, NoThread}}

StateOf(t) == IF inferior[t] = Moving THEN "Running" ELSE "Stopped"

MoveRight(t) ==
  {r \in MoveRecords(t) :
     r.thread = t /\ r.kind = IF inferior[t] = Moving THEN "running" ELSE "stopped"}

StatesKnown ==
  nonStop => \A t \in DOMAIN inferior :
               Settled(wire, MoveRecords(t), MoveRight(t), IsIn(t, StateOf(t)))

(* The frame registry.                                                     *)
FrameRecords(t) ==
  {r \in Records : \/ r.kind = "running" /\ r.thread \in {t, All, NoThread}
                   \/ r.kind = "stopped" /\ r.thread = t /\ r.frame # NoFrame}

FrameRight(t) ==
  {r \in FrameRecords(t) : r.kind = "stopped" => r.frame = inferior[t]}

FramesKnown ==
  \A t \in DOMAIN inferior :
    Settled(wire, FrameRecords(t), FrameRight(t), t \in DOMAIN frames => frames[t] = inferior[t])

(* The target state.                                                       *)
TargetRecords == {r \in Records : r.kind \in {"running", "stopped"}}

TargetAfter(r) ==
  IF r.kind = "running" THEN Running(r.thread) ELSE TargetAfterStop(r.thread, r.reason)

Fits(s) ==
  /\ s.state = "Exited" => inferior = EmptyMap
  /\ s.state = "Stopped" /\ s.thread \in DOMAIN inferior => inferior[s.thread] # Moving
  /\ s.state = "Running" /\ s.thread \in DOMAIN inferior => inferior[s.thread] = Moving
  /\ s.state = "Stopped" => s.thread # NoThread

TargetRight == {r \in TargetRecords : Fits(TargetAfter(r))}

TargetKnown == Settled(wire, TargetRecords, TargetRight, Fits(target))

-----------------------------------------------------------------------------
(* A result that goes to the registries of an operation; p are the pending *)
(* commands.                                                               *)
Answers(r, operations, p) ==
  /\ IsResult(r) /\ r.class \in {"done", "connected"}
  /\ r.token \in DOMAIN p /\ p[r.token].operation \in operations

BreakAnswers(r, p) ==
  Answers(r, {"break-insert", "break-info"}, p) /\ "bkpt" \in DOMAIN r.results

(* The breakpoint registry.                                                *)
BreakRecords(b, p) ==
  {r \in Records : \/ BreakAnswers(r, p) /\ r.results.bkpt.number = b
                   \/ r.kind = "breakpoint-modified" /\ r.bkpt.number = b
                   \/ r.kind = "breakpoint-deleted" /\ r.number = b}

BreakRight(b, p, e) ==
  {r \in BreakRecords(b, p) : \/ IsResult(r) /\ r.results.bkpt.enabled = e
                              \/ r.kind = "breakpoint-modified" /\ r.bkpt.enabled = e}

BreakShown(b) == b \in DOMAIN breakpoints /\ breakpoints[b] = gdbBreaks[b]

BreaksKnown ==
  \A b \in DOMAIN gdbBreaks :
    Settled(wire, BreakRecords(b, pending), BreakRight(b, pending, gdbBreaks[b]), BreakShown(b))

(* The registry of variable objects.                                       *)
VarSets(r, n, p) ==
  \/ Answers(r, {"var-create"}, p) /\ "name" \in DOMAIN r.results /\ r.results.name = n
  \/ /\ Answers(r, {"var-update"}, p) /\ "changelist" \in DOMAIN r.results
     /\ n \in DOMAIN r.results.changelist

VarValue(r, n) ==
  IF "name" \in DOMAIN r.results THEN r.results.value ELSE r.results.changelist[n]

VarRecords(n, p) ==
  {r \in Records : \/ VarSets(r, n, p)
                   \/ Answers(r, {"var-delete"}, p) /\ p[r.token].arg = n}

VarRight(n, p, v) == {r \in VarRecords(n, p) : VarSets(r, n, p) /\ VarValue(r, n) = v}

VarShown(n) == n \in DOMAIN varobjs /\ varobjs[n] = gdbVars[n]

VarsKnown ==
  \A n \in DOMAIN gdbVars :
    Settled(wire, VarRecords(n, pending), VarRight(n, pending, gdbVars[n]), VarShown(n))

(* The target features.                                                    *)
FeatureRecords(p) ==
  {r \in Records : Answers(r, {"list-target-features", "target-select", "exec-run"}, p)}

FeatureRight(p, f) ==
  {r \in FeatureRecords(p) :
     p[r.token].operation = "list-target-features" /\ "features" \in DOMAIN r.results
       => r.results.features = f}

FeaturesShown == features \in {{}, gdbFeatures}

FeaturesKnown ==
  Settled(wire, FeatureRecords(pending), FeatureRight(pending, gdbFeatures), FeaturesShown)

-----------------------------------------------------------------------------
(* What printing and reading do to an entry that is settled.               *)

(* The elements of a concatenation.                                        *)
LEMMA Concat ==
  ASSUME NEW S, NEW s \in Seq(S), NEW t \in Seq(S)
  PROVE  /\ s \o t \in Seq(S)
         /\ DOMAIN s = 1..Len(s) /\ DOMAIN t = 1..Len(t) /\ DOMAIN (s \o t) = 1..(Len(s) + Len(t))
         /\ Len(s) \in Nat /\ Len(t) \in Nat
         /\ \A i \in DOMAIN s : (s \o t)[i] = s[i]
         /\ \A i \in DOMAIN t : (s \o t)[Len(s) + i] = t[i]
         /\ \A i \in DOMAIN (s \o t) : i \in DOMAIN s \/ i - Len(s) \in DOMAIN t
BY ConcatProperties, LenProperties

(* Records that touch nothing leave it settled.                            *)
LEMMA PrintOthers ==
  ASSUME NEW S, NEW w \in Seq(S), NEW rs \in Seq(S), NEW T, NEW G, NEW b \in BOOLEAN,
         Settled(w, T, G, b), Untouched(rs, T)
  PROVE  Settled(w \o rs, T, G, b)
<1> DEFINE v == w \o rs
<1> DEFINE n == Len(w)
<1>1. /\ DOMAIN w = 1..n /\ DOMAIN rs = 1..Len(rs) /\ DOMAIN v = 1..(n + Len(rs))
      /\ n \in Nat /\ Len(rs) \in Nat
      /\ \A i \in DOMAIN w : v[i] = w[i]
      /\ \A i \in DOMAIN rs : v[n + i] = rs[i]
  BY Concat
<1> HIDE DEF v, n
<1>2. \A i \in DOMAIN w : i \in DOMAIN v
  BY <1>1
<1>3. \A i \in DOMAIN v : v[i] \in T => i \in DOMAIN w
  <2> SUFFICES ASSUME NEW i \in DOMAIN v, v[i] \in T, i \notin DOMAIN w PROVE FALSE
    OBVIOUS
  <2>1. i - n \in DOMAIN rs /\ n + (i - n) = i
    BY <1>1
  <2>2. v[i] = rs[i - n]
    BY <1>1, <2>1
  <2> QED  BY <2>1, <2>2 DEF Untouched
<1>4. Untouched(v, T) => b
  BY <1>1, <1>2 DEF Settled, Untouched
<1>5. LastIsGood(v, T, G)
  <2> SUFFICES ASSUME NEW i \in DOMAIN v, v[i] \in T,
                      \A j \in DOMAIN v : i < j => v[j] \notin T
               PROVE  v[i] \in G
    BY DEF LastIsGood
  <2>1. i \in DOMAIN w /\ w[i] = v[i]
    BY <1>1, <1>3
  <2>2. \A j \in DOMAIN w : i < j => w[j] \notin T
    BY <1>1, <1>2
  <2> QED  BY <2>1, <2>2 DEF Settled, LastIsGood
<1> QED  BY <1>4, <1>5 DEF Settled, v

(* Records of which the last that touches the entry is good settle it,     *)
(* whatever it was before.                                                 *)
LEMMA PrintGood ==
  ASSUME NEW S, NEW w \in Seq(S), NEW rs \in Seq(S), NEW T, NEW G, NEW b \in BOOLEAN,
         Settled(rs, T, G, FALSE)
  PROVE  Settled(w \o rs, T, G, b)
<1> DEFINE v == w \o rs
<1> DEFINE n == Len(w)
<1>1. /\ DOMAIN w = 1..n /\ DOMAIN rs = 1..Len(rs) /\ DOMAIN v = 1..(n + Len(rs))
      /\ n \in Nat /\ Len(rs) \in Nat
      /\ \A i \in DOMAIN rs : v[n + i] = rs[i]
  BY Concat
<1> HIDE DEF v, n
<1>2. \A i \in DOMAIN rs : n + i \in DOMAIN v
  BY <1>1
<1>3. PICK k \in DOMAIN rs : rs[k] \in T
  BY DEF Settled, Untouched
<1>4. ~Untouched(v, T)
  BY <1>1, <1>2, <1>3 DEF Untouched
<1>5. LastIsGood(v, T, G)
  <2> SUFFICES ASSUME NEW i \in DOMAIN v, v[i] \in T,
                      \A j \in DOMAIN v : i < j => v[j] \notin T
               PROVE  v[i] \in G
    BY DEF LastIsGood
  <2>1. ~(i < n + k)
    BY <1>1, <1>2, <1>3
  <2>2. i - n \in DOMAIN rs /\ n + (i - n) = i
    BY <1>1, <2>1
  <2>3. v[i] = rs[i - n]
    BY <1>1, <2>2
  <2>4. \A j \in DOMAIN rs : i - n < j => rs[j] \notin T
    BY <1>1, <1>2, <2>2
  <2> QED  BY <2>2, <2>3, <2>4 DEF Settled, LastIsGood
<1> QED  BY <1>4, <1>5 DEF Settled, v

(* A last record that is good.                                             *)
LEMMA LastRecord ==
  ASSUME NEW S, NEW rs \in Seq(S), NEW T, NEW G, Len(rs) > 0,
         rs[Len(rs)] \in T, rs[Len(rs)] \in G
  PROVE  Settled(rs, T, G, FALSE)
<1>1. DOMAIN rs = 1..Len(rs) /\ Len(rs) \in Nat
  BY LenProperties
<1>2. ~Untouched(rs, T)
  BY <1>1 DEF Untouched
<1>3. LastIsGood(rs, T, G)
  <2> SUFFICES ASSUME NEW i \in DOMAIN rs, \A j \in DOMAIN rs : i < j => rs[j] \notin T
               PROVE  rs[i] \in G
    BY DEF LastIsGood
  <2>1. i = Len(rs)
    BY <1>1
  <2> QED  BY <2>1
<1> QED  BY <1>2, <1>3 DEF Settled

(* The reader takes the first record.                                      *)
LEMMA Read ==
  ASSUME NEW S, NEW w \in Seq(S), w # <<>>, NEW T, NEW G, NEW b \in BOOLEAN, NEW c \in BOOLEAN,
         Settled(w, T, G, b),
         Head(w) \notin T => (b => c),
         Head(w) \in T /\ Head(w) \in G => c
  PROVE  Settled(Tail(w), T, G, c)
<1> DEFINE v == Tail(w)
<1>1. /\ Len(w) \in Nat /\ Len(w) >= 1 /\ DOMAIN w = 1..Len(w)
      /\ DOMAIN v = 1..(Len(w) - 1)
      /\ \A i \in DOMAIN v : v[i] = w[i + 1]
      /\ Head(w) = w[1]
  BY HeadTailProperties, LenProperties, EmptySeq
<1> HIDE DEF v
<1>2. ASSUME NEW i \in DOMAIN w, i # 1 PROVE i - 1 \in DOMAIN v /\ v[i - 1] = w[i]
  <2>1. i - 1 \in DOMAIN v /\ (i - 1) + 1 = i
    BY <1>1, <1>2
  <2> QED  BY <1>1, <2>1
<1>3. Untouched(v, T) => c
  <2> SUFFICES ASSUME Untouched(v, T) PROVE c
    OBVIOUS
  <2>1. \A i \in DOMAIN w : 1 < i => w[i] \notin T
    BY <1>1, <1>2 DEF Untouched
  <2>2. 1 \in DOMAIN w
    BY <1>1
  <2>3. CASE w[1] \in T
    BY <1>1, <2>1, <2>2, <2>3 DEF Settled, LastIsGood
  <2>4. CASE w[1] \notin T
    <3>1. Untouched(w, T)
      BY <1>1, <2>1, <2>4 DEF Untouched
    <3> QED  BY <1>1, <2>4, <3>1 DEF Settled
  <2> QED  BY <2>3, <2>4
<1>4. LastIsGood(v, T, G)
  <2> SUFFICES ASSUME NEW i \in DOMAIN v, v[i] \in T,
                      \A j \in DOMAIN v : i < j => v[j] \notin T
               PROVE  v[i] \in G
    BY DEF LastIsGood
  <2>1. i + 1 \in DOMAIN w /\ w[i + 1] = v[i]
    BY <1>1
  <2>2. ASSUME NEW j \in DOMAIN w, i + 1 < j PROVE w[j] \notin T
    <3>1. j - 1 \in DOMAIN v /\ v[j - 1] = w[j] /\ i < j - 1
      BY <1>1, <1>2, <2>2
    <3> QED  BY <3>1
  <2> QED  BY <2>1, <2>2 DEF Settled, LastIsGood
<1> QED  BY <1>3, <1>4 DEF Settled, v

(* An entry stays settled when the records that touch it stay the same and *)
(* those that were good are.                                               *)
LEMMA StaySettled ==
  ASSUME NEW w, NEW T, NEW G, NEW b \in BOOLEAN, NEW U, NEW H, NEW c \in BOOLEAN,
         Settled(w, T, G, b), b => c,
         \A i \in DOMAIN w : /\ w[i] \in T <=> w[i] \in U
                             /\ w[i] \in T /\ w[i] \in G => w[i] \in H
  PROVE  Settled(w, U, H, c)
<1>1. Untouched(w, U) => c
  BY DEF Settled, Untouched
<1>2. LastIsGood(w, U, H)
  BY DEF Settled, LastIsGood
<1> QED  BY <1>1, <1>2 DEF Settled

(* The threads of a process exit one after the other, each of them.        *)
LEMMA AllExit ==
  ASSUME GdbTypes
  PROVE  /\ ThreadsExit \in Seq(Records)
         /\ \A i \in DOMAIN ThreadsExit :
              \E t \in DOMAIN inferior : ThreadsExit[i] = OnThread("thread-exited", t)
         /\ \A t \in DOMAIN inferior :
              \E i \in DOMAIN ThreadsExit : ThreadsExit[i] = OnThread("thread-exited", t)
<1> DEFINE D == DOMAIN inferior
<1> DEFINE n == Cardinality(D)
<1> DEFINE F == {f \in [1..n -> D] : IsInjective(f)}
<1>1. IsFiniteSet(D) /\ D \subseteq ThreadIds
  BY DEF GdbTypes, IsMap
<1> HIDE DEF D
<1>2. n \in Nat /\ ExistsBijection(1..n, D)
  BY <1>1, FS_CardinalityType
<1>3. \E f \in [1..n -> D] : IsInjective(f)
  BY <1>2 DEF ExistsBijection, Bijection, Injection
<1>4. SetToSeq(D) \in [1..n -> D] /\ IsInjective(SetToSeq(D))
  BY <1>3 DEF SetToSeq
<1>5. PICK order : order = SetToSeq(D)
  OBVIOUS
<1>6. order \in Injection(1..n, D)
  BY <1>4, <1>5 DEF Injection
<1>7. Cardinality(1..n) = n
  BY <1>2, FS_Interval
<1>8. order \in Surjection(1..n, D)
  BY <1>1, <1>6, <1>7, FS_Injection
<1>9. DOMAIN order = 1..n /\ (\A i \in 1..n : order[i] \in D) /\ \A t \in D : \E i \in 1..n : order[i] = t
  BY <1>4, <1>5, <1>8 DEF Surjection
<1>10. ThreadsExit = [i \in 1..n |-> OnThread("thread-exited", order[i])]
  BY <1>5, <1>9 DEF ThreadsExit, D
<1>11. \A t \in ThreadIds : OnThread("thread-exited", t) \in Records
  BY DEF OnThread, Records
<1>12. ThreadsExit \in Seq(Records)
  BY <1>1, <1>2, <1>9, <1>10, <1>11
<1> QED  BY <1>9, <1>10, <1>12 DEF D

-----------------------------------------------------------------------------
(* What GDB prints at a step: records, of which at most one is a result,   *)
(* and that one has the token of the command GDB takes.                    *)
Quiet(rs) == rs \in Seq(Records) /\ \A i \in DOMAIN rs : ~IsResult(rs[i])

Reply(rs) ==
  /\ rs \in Seq(Records)
  /\ \A i \in DOMAIN rs : IsResult(rs[i]) =>
       /\ rs[i].token = Head(outbound).token
       /\ \A j \in DOMAIN rs : IsResult(rs[j]) => i = j

LEMMA RecordTypes ==
  /\ \A t \in ThreadIds \cup {All, NoThread} : [kind |-> "running", thread |-> t] \in Records
  /\ \A t \in ThreadIds :
       OnThread("thread-created", t) \in Records /\ OnThread("thread-exited", t) \in Records
  /\ \A t \in ThreadIds, l \in Locations : OnStopped(t, "breakpoint-hit", l) \in Records
  /\ \A reason \in ExitReasons : OnStopped(NoThread, reason, NoFrame) \in Records
  /\ \A b \in BreakIds, e \in BOOLEAN :
       [kind |-> "breakpoint-modified", bkpt |-> [number |-> b, enabled |-> e]] \in Records
  /\ \A b \in BreakIds : [kind |-> "breakpoint-deleted", number |-> b] \in Records
  /\ [kind |-> "other"] \in Records
<1>1. \A t \in ThreadIds \cup {All, NoThread} : [kind |-> "running", thread |-> t] \in Records
  BY DEF Records
<1>2. \A t \in ThreadIds :
        OnThread("thread-created", t) \in Records /\ OnThread("thread-exited", t) \in Records
  BY DEF Records, OnThread
<1>3. \A t \in ThreadIds, l \in Locations : OnStopped(t, "breakpoint-hit", l) \in Records
  BY DEF Records, OnStopped
<1>4. \A reason \in ExitReasons : OnStopped(NoThread, reason, NoFrame) \in Records
  BY DEF Records, OnStopped
<1>5. \A b \in BreakIds, e \in BOOLEAN :
        [kind |-> "breakpoint-modified", bkpt |-> [number |-> b, enabled |-> e]] \in Records
  BY DEF Records, Tuples
<1>6. \A b \in BreakIds : [kind |-> "breakpoint-deleted", number |-> b] \in Records
  BY DEF Records
<1>7. [kind |-> "other"] \in Records
  BY DEF Records
<1> QED  BY <1>1, <1>2, <1>3, <1>4, <1>5, <1>6, <1>7

LEMMA ThisCommand ==
  ASSUME GdbTypes, outbound # <<>>
  PROVE  /\ Head(outbound) \in Commands /\ Tail(outbound) \in Seq(Commands)
         /\ Head(outbound).token \in Nat
         /\ Head(outbound).name = "break-insert" => Head(outbound).arg \in BreakIds
<1>1. Head(outbound) \in Commands /\ Tail(outbound) \in Seq(Commands)
  BY HeadTailProperties DEF GdbTypes
<1> QED  BY <1>1 DEF Commands

LEMMA SaysType ==
  ASSUME GdbTypes, outbound # <<>>, NEW class \in Classes, NEW results \in Results
  PROVE  /\ Says(class, results) \in Records
         /\ IsResult(Says(class, results)) /\ Says(class, results).token = Head(outbound).token
         /\ Says(class, results).class = class /\ Says(class, results).results = results
<1>1. Head(outbound).token \in Nat
  BY ThisCommand
<1> QED  BY <1>1 DEF Says, Records, IsResult

(* What GDB says of one command.                                           *)
LEMMA OneReply ==
  ASSUME GdbTypes, outbound # <<>>, NEW class \in Classes, NEW results \in Results
  PROVE  Reply(<<Says(class, results)>>)
<1>1. PICK s : s = Says(class, results)
  OBVIOUS
<1>2. s \in Records /\ s.token = Head(outbound).token
  BY <1>1, SaysType
<1>3. <<s>> \in Seq(Records) /\ DOMAIN <<s>> = {1} /\ <<s>>[1] = s
  BY <1>2
<1> QED  BY <1>1, <1>2, <1>3 DEF Reply

LEMMA QuietReply ==
  ASSUME NEW rs, NEW us, Quiet(rs), Reply(us)
  PROVE  Reply(rs \o us)
<1> DEFINE v == rs \o us
<1> DEFINE n == Len(rs)
<1>1. rs \in Seq(Records) /\ us \in Seq(Records)
  BY DEF Quiet, Reply
<1>2. /\ v \in Seq(Records)
      /\ DOMAIN rs = 1..n /\ DOMAIN us = 1..Len(us) /\ DOMAIN v = 1..(n + Len(us))
      /\ n \in Nat /\ Len(us) \in Nat
      /\ \A i \in DOMAIN rs : v[i] = rs[i]
      /\ \A i \in DOMAIN us : v[n + i] = us[i]
  BY <1>1, Concat
<1> HIDE DEF v, n
<1>3. ASSUME NEW i \in DOMAIN v, IsResult(v[i])
      PROVE  i - n \in DOMAIN us /\ v[i] = us[i - n]
  <2>1. CASE i \in DOMAIN rs
    BY <1>2, <1>3, <2>1 DEF Quiet
  <2>2. CASE i \notin DOMAIN rs
    <3>1. i - n \in DOMAIN us /\ n + (i - n) = i
      BY <1>2, <2>2
    <3> QED  BY <1>2, <3>1
  <2> QED  BY <2>1, <2>2
<1>4. ASSUME NEW i \in DOMAIN v, NEW j \in DOMAIN v, IsResult(v[i]), IsResult(v[j])
      PROVE  v[i].token = Head(outbound).token /\ i = j
  <2>1. i - n \in DOMAIN us /\ v[i] = us[i - n] /\ j - n \in DOMAIN us /\ v[j] = us[j - n]
    BY <1>3, <1>4
  <2>2. us[i - n].token = Head(outbound).token /\ i - n = j - n
    BY <1>4, <2>1 DEF Reply
  <2> QED  BY <1>2, <2>1, <2>2
<1> QED  BY <1>2, <1>4 DEF Reply, v

LEMMA QuietExits ==
  ASSUME GdbTypes
  PROVE  Quiet(ThreadsExit)
BY AllExit DEF Quiet, IsResult, OnThread

(* The records of the steps that say more than the answer.                 *)
RunTail ==
  <<OnThread("thread-created", MainThread), Says("running", EmptyMap), OnRunning(MainThread)>>

LEMMA Replies ==
  ASSUME GdbTypes, outbound # <<>>
  PROVE  /\ Reply(RunTail) /\ Reply(ThreadsExit \o RunTail)
         /\ Reply(ThreadsExit \o <<Done(EmptyMap)>>)
         /\ Reply(<<[kind |-> "other"], Says("connected", EmptyMap)>>)
         /\ \A t \in ThreadIds : Reply(<<Says("running", EmptyMap), OnRunning(t)>>)
<1>1. EmptyMap \in Results /\ {"done", "running", "connected"} \subseteq Classes
  BY DEF Results, Classes
<1>2. PICK s : s = Says("running", EmptyMap)
  OBVIOUS
<1>3. s \in Records /\ s.token = Head(outbound).token
  BY <1>1, <1>2, SaysType
<1>4. \A t \in ThreadIds : OnRunning(t) \in Records /\ ~IsResult(OnRunning(t))
  BY RecordTypes DEF OnRunning, IsResult
<1>5. Reply(RunTail)
  <2>1. PICK a, c : a = OnThread("thread-created", MainThread) /\ c = OnRunning(MainThread)
    OBVIOUS
  <2>2. a \in Records /\ ~IsResult(a)
    BY <2>1, RecordTypes, MainAssumption DEF OnThread, IsResult
  <2>3. c \in Records /\ ~IsResult(c)
    BY <1>4, <2>1, MainAssumption
  <2>4. <<a, s, c>> \in Seq(Records) /\ DOMAIN <<a, s, c>> = 1..3
        /\ <<a, s, c>>[1] = a /\ <<a, s, c>>[2] = s /\ <<a, s, c>>[3] = c
    BY <1>3, <2>2, <2>3
  <2>5. \A i \in 1..3 : IsResult(<<a, s, c>>[i]) => i = 2
    BY <2>2, <2>3, <2>4
  <2>6. Reply(<<a, s, c>>)
    BY <1>3, <2>4, <2>5 DEF Reply
  <2> QED  BY <1>2, <2>1, <2>6 DEF RunTail
<1>6. Reply(<<[kind |-> "other"], Says("connected", EmptyMap)>>)
  <2>1. PICK a, d : a = [kind |-> "other"] /\ d = Says("connected", EmptyMap)
    OBVIOUS
  <2>2. a \in Records /\ ~IsResult(a)
    BY <2>1, RecordTypes DEF IsResult
  <2>3. d \in Records /\ d.token = Head(outbound).token
    BY <1>1, <2>1, SaysType
  <2>4. <<a, d>> \in Seq(Records) /\ DOMAIN <<a, d>> = 1..2 /\ <<a, d>>[1] = a /\ <<a, d>>[2] = d
    BY <2>2, <2>3
  <2>5. \A i \in 1..2 : IsResult(<<a, d>>[i]) => i = 2
    BY <2>2, <2>4
  <2>6. Reply(<<a, d>>)
    BY <2>3, <2>4, <2>5 DEF Reply
  <2> QED  BY <2>1, <2>6
<1>7. ASSUME NEW t \in ThreadIds PROVE Reply(<<Says("running", EmptyMap), OnRunning(t)>>)
  <2>1. PICK c : c = OnRunning(t)
    OBVIOUS
  <2>2. c \in Records /\ ~IsResult(c)
    BY <1>4, <2>1
  <2>3. <<s, c>> \in Seq(Records) /\ DOMAIN <<s, c>> = 1..2 /\ <<s, c>>[1] = s /\ <<s, c>>[2] = c
    BY <1>3, <2>2
  <2>4. \A i \in 1..2 : IsResult(<<s, c>>[i]) => i = 1
    BY <2>2, <2>3
  <2>5. Reply(<<s, c>>)
    BY <1>3, <2>3, <2>4 DEF Reply
  <2> QED  BY <1>2, <2>1, <2>5
<1>8. Reply(<<Done(EmptyMap)>>)
  BY <1>1, OneReply DEF Done
<1> QED  BY <1>5, <1>6, <1>7, <1>8, QuietExits, QuietReply

-----------------------------------------------------------------------------
(* What GDB's steps have in common.                                        *)
Answering ==
  \/ Run \/ Continue \/ Detach \/ Select \/ ListFeatures
  \/ BreakInsert \/ VarCreate \/ VarUpdate \/ VarDelete \/ Refuse
Unprompted == Spawn \/ Stop \/ ThreadExit \/ ProcessExit \/ BreakModified \/ BreakDeleted

(* The results of the registries' commands.                                *)
LEMMA AnswerTypes ==
  /\ EmptyMap \in Results
  /\ \A f \in SUBSET Features : [features |-> f] \in Results
  /\ \A b \in BreakIds, e \in BOOLEAN : [bkpt |-> [number |-> b, enabled |-> e]] \in Results
  /\ \A v \in Values : [name |-> Parent, value |-> v] \in Results
  /\ \A changes \in Maps({Parent, Child}, Values) :
       [changelist |-> changes] \in Results /\ DOMAIN changes \subseteq {Parent, Child}
<1>1. \A b \in BreakIds, e \in BOOLEAN : [bkpt |-> [number |-> b, enabled |-> e]] \in Results
  BY DEF Results, Tuples
<1>2. \A v \in Values : [name |-> Parent, value |-> v] \in Results
  BY MainAssumption DEF Results
<1>3. ASSUME NEW changes \in Maps({Parent, Child}, Values)
      PROVE  changes \in Maps(VarNames, Values) /\ DOMAIN changes \subseteq {Parent, Child}
  BY <1>3, MainAssumption DEF Maps
<1>4. \A changes \in Maps({Parent, Child}, Values) :
        [changelist |-> changes] \in Results /\ DOMAIN changes \subseteq {Parent, Child}
  BY <1>3 DEF Results
<1>5. EmptyMap \in Results /\ \A f \in SUBSET Features : [features |-> f] \in Results
  BY DEF Results
<1> QED  BY <1>1, <1>2, <1>4, <1>5

LEMMA AnsweringPrints ==
  ASSUME GdbTypes, Answering
  PROVE  /\ consume_outbound /\ UNCHANGED <<nonStop, script, asyncs>>
         /\ \E rs : wire' = wire \o rs /\ Reply(rs)
<1>1. {"done", "running", "connected", "error"} \subseteq Classes
  BY DEF Classes
<1>2. CASE Run
  BY <1>2, Replies DEF Run, Serve, RunTail, consume_outbound
<1>3. CASE Continue
  <2>1. Arg \in ThreadIds
    BY <1>3 DEF Continue, GdbTypes, IsMap
  <2> QED  BY <1>3, <2>1, Replies DEF Continue, Serve, consume_outbound
<1>4. CASE Detach
  BY <1>4, Replies DEF Detach, Serve, consume_outbound
<1>5. CASE Select
  BY <1>5, Replies DEF Select, Serve, consume_outbound
<1>6. ASSUME NEW name, NEW class \in Classes, NEW results \in Results,
             Serve(name, <<Says(class, results)>>)
      PROVE  /\ consume_outbound /\ UNCHANGED <<nonStop, script, asyncs>>
             /\ \E rs : wire' = wire \o rs /\ Reply(rs)
  BY <1>6, OneReply DEF Serve, consume_outbound
<1>7. CASE ListFeatures
  <2>1. [features |-> gdbFeatures] \in Results
    BY AnswerTypes DEF GdbTypes
  <2> QED  BY <1>1, <1>6, <1>7, <2>1 DEF ListFeatures, Done
<1>8. CASE BreakInsert
  <2>1. PICK e \in BOOLEAN :
          Serve("break-insert", <<Done([bkpt |-> [number |-> Arg, enabled |-> e]])>>)
    BY <1>8 DEF BreakInsert
  <2>2. Arg \in BreakIds
    BY <2>1, ThisCommand DEF Serve, consume_outbound, Arg
  <2>3. [bkpt |-> [number |-> Arg, enabled |-> e]] \in Results
    BY <2>2, AnswerTypes
  <2> QED  BY <1>1, <1>6, <2>1, <2>3 DEF Done
<1>9. CASE VarCreate
  <2>1. PICK v \in Values : Serve("var-create", <<Done([name |-> Parent, value |-> v])>>)
    BY <1>9 DEF VarCreate
  <2>2. [name |-> Parent, value |-> v] \in Results
    BY AnswerTypes
  <2> QED  BY <1>1, <1>6, <2>1, <2>2 DEF Done
<1>10. CASE VarUpdate
  <2>1. PICK changes \in Maps({Parent, Child}, Values) :
          Serve("var-update", <<Done([changelist |-> changes])>>)
    BY <1>10 DEF VarUpdate
  <2>2. [changelist |-> changes] \in Results
    BY AnswerTypes
  <2> QED  BY <1>1, <1>6, <2>1, <2>2 DEF Done
<1>11. CASE VarDelete
  BY <1>1, <1>6, <1>11, AnswerTypes DEF VarDelete, Done
<1>12. CASE Refuse
  BY <1>1, <1>6, <1>12, AnswerTypes DEF Refuse
<1> QED  BY <1>2, <1>3, <1>4, <1>5, <1>7, <1>8, <1>9, <1>10, <1>11, <1>12 DEF Answering

LEMMA UnpromptedPrints ==
  ASSUME GdbTypes, Unprompted
  PROVE  /\ UNCHANGED vars /\ UNCHANGED <<nonStop, script, gdbVars, gdbFeatures, unseen>>
         /\ \E rs : wire' = wire \o rs /\ Quiet(rs)
<1>1. ASSUME NEW rs, Unasked(rs), Quiet(rs)
      PROVE  /\ UNCHANGED vars /\ UNCHANGED <<nonStop, script, gdbVars, gdbFeatures, unseen>>
             /\ \E us : wire' = wire \o us /\ Quiet(us)
  BY <1>1 DEF Unasked
<1>2. ASSUME NEW r \in Records, ~IsResult(r) PROVE Quiet(<<r>>)
  <2>1. <<r>> \in Seq(Records) /\ DOMAIN <<r>> = {1} /\ <<r>>[1] = r
    BY <1>2
  <2> QED  BY <1>2, <2>1 DEF Quiet
<1>3. CASE Spawn
  <2>1. PICK t \in ThreadIds :
          Unasked(<<OnThread("thread-created", t), [kind |-> "running", thread |-> t]>>)
    BY <1>3 DEF Spawn
  <2>2. PICK a, c : a = OnThread("thread-created", t) /\ c = [kind |-> "running", thread |-> t]
    OBVIOUS
  <2>3. a \in Records /\ ~IsResult(a)
    BY <2>2, RecordTypes DEF IsResult, OnThread
  <2>4. c \in Records /\ ~IsResult(c)
    BY <2>2, RecordTypes DEF IsResult
  <2>5. <<a, c>> \in Seq(Records) /\ DOMAIN <<a, c>> = 1..2 /\ <<a, c>>[1] = a /\ <<a, c>>[2] = c
    BY <2>3, <2>4
  <2>6. Quiet(<<a, c>>)
    BY <2>3, <2>4, <2>5 DEF Quiet
  <2>7. Unasked(<<a, c>>)
    BY <2>1, <2>2
  <2> QED  BY <1>1, <2>6, <2>7
<1>4. CASE Stop
  <2>1. PICK t \in Movers, where \in [DOMAIN inferior -> Locations] :
          Unasked(<<OnStopped(t, "breakpoint-hit", where[t])>>)
    BY <1>4 DEF Stop
  <2>2. t \in ThreadIds /\ where[t] \in Locations
    BY <2>1 DEF Movers, GdbTypes, IsMap
  <2>3. OnStopped(t, "breakpoint-hit", where[t]) \in Records
    BY <2>2, RecordTypes
  <2>4. ~IsResult(OnStopped(t, "breakpoint-hit", where[t]))
    BY DEF OnStopped, IsResult
  <2> QED  BY <1>1, <1>2, <2>1, <2>3, <2>4
<1>5. CASE ThreadExit
  <2>1. PICK t \in Movers : Unasked(<<OnThread("thread-exited", t)>>)
    BY <1>5 DEF ThreadExit
  <2>2. t \in ThreadIds
    BY <2>1 DEF Movers, GdbTypes, IsMap
  <2>3. OnThread("thread-exited", t) \in Records /\ ~IsResult(OnThread("thread-exited", t))
    BY <2>2, RecordTypes DEF OnThread, IsResult
  <2> QED  BY <1>1, <1>2, <2>1, <2>3
<1>6. CASE ProcessExit
  <2>1. PICK reason \in ExitReasons :
          Unasked(Append(ThreadsExit, OnStopped(NoThread, reason, NoFrame)))
    BY <1>6 DEF ProcessExit
  <2>2. PICK d : d = OnStopped(NoThread, reason, NoFrame)
    OBVIOUS
  <2>3. d \in Records /\ ~IsResult(d)
    BY <2>2, RecordTypes DEF OnStopped, IsResult
  <2>4. Quiet(Append(ThreadsExit, d))
    <3>1. ThreadsExit \in Seq(Records) /\ \A i \in DOMAIN ThreadsExit : ~IsResult(ThreadsExit[i])
      BY QuietExits DEF Quiet
    <3> QED  BY <2>3, <3>1, AppendProperties, LenProperties DEF Quiet
  <2> QED  BY <1>1, <2>1, <2>2, <2>4
<1>7. CASE BreakModified
  <2>1. PICK b \in DOMAIN gdbBreaks, e \in BOOLEAN :
          Unasked(<<[kind |-> "breakpoint-modified", bkpt |-> [number |-> b, enabled |-> e]]>>)
    BY <1>7 DEF BreakModified
  <2>2. b \in BreakIds
    BY DEF GdbTypes, IsMap
  <2> QED  BY <1>1, <1>2, <2>1, <2>2, RecordTypes DEF IsResult
<1>8. CASE BreakDeleted
  <2>1. PICK b \in DOMAIN gdbBreaks :
          Unasked(<<[kind |-> "breakpoint-deleted", number |-> b]>>)
    BY <1>8 DEF BreakDeleted
  <2>2. b \in BreakIds
    BY DEF GdbTypes, IsMap
  <2> QED  BY <1>1, <1>2, <2>1, <2>2, RecordTypes DEF IsResult
<1> QED  BY <1>3, <1>4, <1>5, <1>6, <1>7, <1>8 DEF Unprompted

-----------------------------------------------------------------------------
(* The reader's step, and the callers'.                                    *)
LEMMA Classified ==
  ASSUME NEW r \in Records, classify_record(r)
  PROVE  /\ UNCHANGED <<tokens, outbound>>
         /\ IsResult(r) =>
              /\ classify_result(r.token, r.class, r.results)
              /\ r.token \in Nat /\ r.class \in Classes /\ r.results \in Results
         /\ ~IsResult(r) => UNCHANGED pending
         /\ r.kind = "running" =>
              classify_running(r.thread) /\ r.thread \in ThreadIds \cup {All, NoThread}
         /\ r.kind = "stopped" =>
              /\ classify_stopped(r.thread, r.reason, r.frame)
              /\ r.thread \in ThreadIds \cup {All, NoThread}
              /\ r.frame \in Locations \cup {NoFrame}
              /\ r.reason \in ExitReasons => r.frame = NoFrame
         /\ r.kind = "thread-created" => on_thread_created(r.thread) /\ r.thread \in ThreadIds
         /\ r.kind = "thread-exited" => on_thread_exited(r.thread) /\ r.thread \in ThreadIds
         /\ r.kind = "breakpoint-modified" => on_breakpoint_modified(r.bkpt) /\ r.bkpt \in Tuples
         /\ r.kind = "breakpoint-deleted" => on_breakpoint_deleted(r.number)
         /\ r.kind = "other" => UNCHANGED vars
         /\ r.kind \in {"result", "running", "stopped", "thread-created", "thread-exited",
                        "breakpoint-modified", "breakpoint-deleted", "other"}
<1>1. CASE r \in [kind : {"result"}, token : Nat, class : Classes, results : Results]
  <2>1. r.token \in Nat /\ r.class \in Classes /\ r.results \in Results /\ r.kind = "result"
    BY <1>1
  <2>2. classify_result(r.token, r.class, r.results)
    BY <2>1 DEF classify_record
  <2>3. UNCHANGED <<tokens, outbound>>
    BY <2>2 DEF classify_result
  <2> QED  BY <2>1, <2>2, <2>3 DEF IsResult
<1>2. CASE r \in [kind : {"running"}, thread : ThreadIds \cup {All, NoThread}]
  <2>1. r.kind = "running" /\ r.thread \in ThreadIds \cup {All, NoThread}
    BY <1>2
  <2> QED  BY <2>1 DEF classify_record, IsResult, classify_running
<1>3. CASE r \in [kind : {"stopped"}, thread : ThreadIds \cup {All, NoThread},
                  reason : {"breakpoint-hit"}, frame : Locations \cup {NoFrame}]
  <2>1. r.kind = "stopped" /\ r.thread \in ThreadIds \cup {All, NoThread}
        /\ r.frame \in Locations \cup {NoFrame} /\ r.reason \notin ExitReasons
    BY <1>3 DEF ExitReasons
  <2> QED  BY <2>1 DEF classify_record, IsResult, classify_stopped
<1>4. CASE r \in [kind : {"stopped"}, thread : ThreadIds \cup {All, NoThread},
                  reason : ExitReasons, frame : {NoFrame}]
  <2>1. r.kind = "stopped" /\ r.thread \in ThreadIds \cup {All, NoThread} /\ r.frame = NoFrame
    BY <1>4
  <2> QED  BY <2>1 DEF classify_record, IsResult, classify_stopped
<1>5. CASE r \in [kind : {"thread-created", "thread-exited"}, thread : ThreadIds]
  <2>1. r.kind \in {"thread-created", "thread-exited"} /\ r.thread \in ThreadIds
    BY <1>5
  <2> QED  BY <2>1 DEF classify_record, IsResult, on_thread_created, on_thread_exited
<1>6. CASE r \in [kind : {"breakpoint-modified"}, bkpt : Tuples]
  <2>1. r.kind = "breakpoint-modified" /\ r.bkpt \in Tuples
    BY <1>6
  <2> QED  BY <2>1 DEF classify_record, IsResult, on_breakpoint_modified
<1>7. CASE r \in [kind : {"breakpoint-deleted"}, number : BreakIds]
  <2>1. r.kind = "breakpoint-deleted"
    BY <1>7
  <2> QED  BY <2>1 DEF classify_record, IsResult, on_breakpoint_deleted
<1>8. CASE r \in [kind : {"other"}]
  <2>1. r.kind = "other"
    BY <1>8
  <2> QED  BY <2>1 DEF classify_record, IsResult, vars
<1> QED  BY <1>1, <1>2, <1>3, <1>4, <1>5, <1>6, <1>7, <1>8 DEF Records

LEMMA TheFirst ==
  ASSUME GdbTypes, wire # <<>>
  PROVE  Head(wire) \in Records /\ Tail(wire) \in Seq(Records)
BY HeadTailProperties DEF GdbTypes

LEMMA Submitted ==
  ASSUME GdbTypes, Submit
  PROVE  \E c \in Commands : \E info \in InfoOf(c) :
           /\ c.token = tokens /\ Enqueue(c.name, c.arg, info) /\ outbound' = Append(outbound, c)
           /\ submit(c.name, c.arg) \/ submit_raw(c.name, c.arg)
           /\ UNCHANGED <<wire, gdb>>
<1>1. PICK s \in script : \/ s.via = "submit" /\ submit(s.name, s.arg)
                          \/ s.via = "submit_raw" /\ submit_raw(s.name, s.arg)
  BY DEF Submit
<1>2. s.name \in Names /\ s.arg \in Args /\ (s.name = "break-insert" => s.arg \in BreakIds)
  <2>1. s \in [name : Names, arg : Args, via : {"submit", "submit_raw"}]
        /\ (s.name = "break-insert" => s.arg \in BreakIds)
    BY ScriptsAssumption DEF GdbTypes
  <2> QED  BY <2>1
<1>3. PICK c : c = [token |-> tokens, name |-> s.name, arg |-> s.arg]
  OBVIOUS
<1>4. c \in Commands /\ c.token = tokens /\ c.name = s.name /\ c.arg = s.arg
  BY <1>2, <1>3 DEF Commands, GdbTypes
<1>5. PICK info \in InfoOf(c) : Enqueue(c.name, c.arg, info)
  BY <1>1, <1>4 DEF submit, submit_raw, InfoOf
<1>6. outbound' = Append(outbound, c)
  BY <1>3, <1>4, <1>5 DEF Enqueue
<1>7. UNCHANGED <<wire, gdb>>
  BY DEF Submit
<1> QED  BY <1>1, <1>4, <1>5, <1>6, <1>7

(* The types are kept: what GDB prints are records, and it keeps maps.     *)
LEMMA KeptMaps ==
  ASSUME GdbTypes, Answering \/ Unprompted
  PROVE  /\ IsMap(inferior', ThreadIds, Locations \cup {Moving}) /\ IsFiniteSet(DOMAIN inferior')
         /\ IsMap(gdbBreaks', BreakIds, BOOLEAN)
         /\ IsMap(gdbVars', VarNames, Values)
         /\ gdbFeatures' \in SUBSET Features /\ unseen' \in BOOLEAN
<1> DEFINE Threads(f) ==
      IsMap(f, ThreadIds, Locations \cup {Moving}) /\ IsFiniteSet(DOMAIN f)
<1>1. Threads(inferior) /\ Threads(EmptyMap)
  <2>1. DOMAIN EmptyMap = {}
    BY DEF EmptyMap
  <2> QED  BY <2>1, EmptyIsMap, FS_EmptySet DEF GdbTypes
<1>2. \A f : \A t \in ThreadIds : Threads(f) => Threads(With(f, t, Moving))
  <2> SUFFICES ASSUME NEW f, NEW t \in ThreadIds, Threads(f) PROVE Threads(With(f, t, Moving))
    OBVIOUS
  <2>1. IsMap(With(f, t, Moving), ThreadIds, Locations \cup {Moving})
    BY WithMap
  <2>2. DOMAIN With(f, t, Moving) = DOMAIN f \cup {t}
    BY DEF With
  <2>3. IsFiniteSet(DOMAIN f \cup {t})
    BY FS_AddElement
  <2> QED  BY <2>1, <2>2, <2>3
<1>3. \A t : Threads(Without(inferior, t))
  <2> SUFFICES ASSUME NEW t PROVE Threads(Without(inferior, t))
    OBVIOUS
  <2>1. IsMap(Without(inferior, t), ThreadIds, Locations \cup {Moving})
        /\ DOMAIN Without(inferior, t) = DOMAIN inferior \ {t}
    BY <1>1, WithoutMap
  <2>2. IsFiniteSet(DOMAIN inferior \ {t})
    BY <1>1, FS_RemoveElement
  <2> QED  BY <2>1, <2>2
<1>4. \A f \in [DOMAIN inferior -> Locations \cup {Moving}] : Threads(f)
  BY <1>1 DEF IsMap
<1> HIDE DEF Threads
<1>5. Threads(inferior')
  <2>1. CASE Run
    BY <1>1, <1>2, <2>1, MainAssumption DEF Run
  <2>2. CASE Continue
    <3>1. inferior' \in [DOMAIN inferior -> Locations \cup {Moving}]
      BY <2>2 DEF Continue, GdbTypes, IsMap
    <3> QED  BY <1>4, <3>1
  <2>3. CASE Detach \/ ProcessExit
    BY <1>1, <2>3 DEF Detach, ProcessExit
  <2>4. CASE Spawn
    BY <1>1, <1>2, <2>4 DEF Spawn
  <2>5. CASE Stop
    <3>1. inferior' \in [DOMAIN inferior -> Locations \cup {Moving}]
      BY <2>5 DEF Stop, GdbTypes, IsMap
    <3> QED  BY <1>4, <3>1
  <2>6. CASE ThreadExit
    BY <1>3, <2>6 DEF ThreadExit
  <2>7. CASE UNCHANGED inferior
    BY <1>1, <2>7
  <2> QED  BY <2>1, <2>2, <2>3, <2>4, <2>5, <2>6, <2>7
           DEF Answering, Unprompted, Select, ListFeatures, BreakInsert, VarCreate, VarUpdate,
               VarDelete, Refuse, BreakModified, BreakDeleted
<1>6. IsMap(gdbBreaks', BreakIds, BOOLEAN)
  <2>1. IsMap(gdbBreaks, BreakIds, BOOLEAN)
    BY DEF GdbTypes
  <2>2. CASE BreakInsert
    <3>1. PICK e \in BOOLEAN :
            /\ Serve("break-insert", <<Done([bkpt |-> [number |-> Arg, enabled |-> e]])>>)
            /\ gdbBreaks' = IF Routes THEN With(gdbBreaks, Arg, e) ELSE gdbBreaks
      BY <2>2 DEF BreakInsert
    <3>2. Arg \in BreakIds
      BY <3>1, ThisCommand DEF Serve, consume_outbound, Arg
    <3> QED  BY <2>1, <3>1, <3>2, WithMap
  <2>3. CASE BreakModified
    <3>1. PICK b \in DOMAIN gdbBreaks, e \in BOOLEAN : gdbBreaks' = With(gdbBreaks, b, e)
      BY <2>3 DEF BreakModified
    <3>2. b \in BreakIds
      BY <2>1 DEF IsMap
    <3> QED  BY <2>1, <3>1, <3>2, WithMap
  <2>4. CASE BreakDeleted
    <3>1. PICK b : gdbBreaks' = Without(gdbBreaks, b)
      BY <2>4 DEF BreakDeleted
    <3> QED  BY <2>1, <3>1, WithoutMap
  <2>5. CASE UNCHANGED gdbBreaks
    BY <2>1, <2>5
  <2> QED  BY <2>2, <2>3, <2>4, <2>5
           DEF Answering, Unprompted, Run, Continue, Detach, Select, ListFeatures, VarCreate,
               VarUpdate, VarDelete, Refuse, Spawn, Stop, ThreadExit, ProcessExit
<1>7. IsMap(gdbVars', VarNames, Values)
  <2>1. IsMap(gdbVars, VarNames, Values)
    BY DEF GdbTypes
  <2>2. CASE VarCreate
    BY <2>1, <2>2, MainAssumption, WithMap DEF VarCreate
  <2>3. CASE VarUpdate
    <3>1. PICK changes \in Maps({Parent, Child}, Values) :
            gdbVars' = IF Routes THEN [n \in DOMAIN gdbVars \cup DOMAIN changes |->
                                        IF n \in DOMAIN changes THEN changes[n] ELSE gdbVars[n]]
                                 ELSE gdbVars
      BY <2>3 DEF VarUpdate
    <3>2. IsMap(changes, VarNames, Values)
      BY MainAssumption DEF Maps, IsMap
    <3> QED  BY <2>1, <3>1, <3>2 DEF IsMap
  <2>4. CASE VarDelete
    BY <2>4, EmptyIsMap DEF VarDelete
  <2>5. CASE UNCHANGED gdbVars
    BY <2>1, <2>5
  <2>6. Unprompted => UNCHANGED gdbVars
    BY UnpromptedPrints
  <2> QED  BY <2>2, <2>3, <2>4, <2>5, <2>6
           DEF Answering, Run, Continue, Detach, Select, ListFeatures, BreakInsert, Refuse
<1>8. gdbFeatures' \in SUBSET Features
  <2>1. CASE UNCHANGED gdbFeatures
    BY <2>1 DEF GdbTypes
  <2>2. CASE Run \/ Select
    BY <2>2 DEF Run, Select
  <2>3. Unprompted => UNCHANGED gdbFeatures
    BY UnpromptedPrints
  <2> QED  BY <2>1, <2>2, <2>3
           DEF Answering, Continue, Detach, ListFeatures, BreakInsert, VarCreate, VarUpdate,
               VarDelete, Refuse
<1>9. unseen' \in BOOLEAN
  <2>1. CASE UNCHANGED unseen
    BY <2>1 DEF GdbTypes
  <2>2. CASE Run \/ Select \/ ListFeatures
    BY <2>2 DEF Run, Select, ListFeatures
  <2>3. Unprompted => UNCHANGED unseen
    BY UnpromptedPrints
  <2> QED  BY <2>1, <2>2, <2>3
           DEF Answering, Continue, Detach, BreakInsert, VarCreate, VarUpdate, VarDelete, Refuse
<1> QED  BY <1>5, <1>6, <1>7, <1>8, <1>9 DEF Threads

LEMMA GdbTypesKept ==
  ASSUME GdbTypes, [SessionNext]_session
  PROVE  GdbTypes'
<1>1. CASE Submit
  <2>1. PICK c \in Commands : \E info \in InfoOf(c) :
          /\ Enqueue(c.name, c.arg, info) /\ outbound' = Append(outbound, c)
          /\ UNCHANGED <<wire, gdb>>
    BY <1>1, Submitted
  <2>2. outbound' \in Seq(Commands) /\ tokens' \in Nat
    BY <2>1, AppendProperties DEF GdbTypes, Enqueue
  <2> QED  BY <2>1, <2>2 DEF GdbTypes, gdb
<1>2. CASE Receive
  <2>1. Head(wire) \in Records /\ Tail(wire) \in Seq(Records)
    BY <1>2, TheFirst DEF Receive
  <2>2. UNCHANGED <<tokens, outbound>>
    BY <1>2, <2>1, Classified DEF Receive
  <2> QED  BY <1>2, <2>1, <2>2 DEF Receive, GdbTypes, gdb
<1>3. CASE Answering
  <2>1. consume_outbound /\ UNCHANGED <<nonStop, script>>
    BY <1>3, AnsweringPrints
  <2>2. PICK rs : wire' = wire \o rs /\ Reply(rs)
    BY <1>3, AnsweringPrints
  <2>3. wire' \in Seq(Records)
    BY <2>2, ConcatProperties DEF Reply, GdbTypes
  <2>4. outbound' \in Seq(Commands) /\ tokens' = tokens
    BY <2>1, ThisCommand DEF consume_outbound
  <2> QED  BY <1>3, <2>1, <2>3, <2>4, KeptMaps DEF GdbTypes
<1>4. CASE Unprompted
  <2>1. UNCHANGED vars /\ UNCHANGED <<nonStop, script>>
    BY <1>4, UnpromptedPrints
  <2>2. PICK rs : wire' = wire \o rs /\ Quiet(rs)
    BY <1>4, UnpromptedPrints
  <2>3. wire' \in Seq(Records)
    BY <2>2, ConcatProperties DEF Quiet, GdbTypes
  <2> QED  BY <1>4, <2>1, <2>3, KeptMaps DEF GdbTypes, vars
<1>5. CASE UNCHANGED session
  BY <1>5 DEF session, vars, gdb, GdbTypes
<1> QED  BY <1>1, <1>2, <1>3, <1>4, <1>5 DEF SessionNext, Answering, Unprompted

LEMMA GdbTypesInit == SessionInit => GdbTypes
<1> SUFFICES ASSUME SessionInit PROVE GdbTypes
  OBVIOUS
<1>1. outbound \in Seq(Commands) /\ wire \in Seq(Records) /\ tokens \in Nat
  BY DEF SessionInit, Init
<1>2. DOMAIN inferior = {}
  BY DEF SessionInit, EmptyMap
<1> QED  BY <1>1, <1>2, EmptyIsMap, FS_EmptySet, ModesAssumption DEF SessionInit, GdbTypes

(* What GDB keeps and what is on its way has its type.                     *)
THEOREM SessionTypes == SessionSpec => []GdbTypes
<1> QED  BY GdbTypesInit, GdbTypesKept, PTL DEF SessionSpec

-----------------------------------------------------------------------------
(* A session is a behaviour of Connection: whatever GDB does, and whatever *)
(* a script asks, the connection takes a step that Connection allows.  So  *)
(* what is proved of Connection for any commands and any records holds in  *)
(* every session.                                                          *)
THEOREM SessionIsConnection == SessionSpec => Spec
<1>1. SessionInit => Init
  BY DEF SessionInit
<1>2. GdbTypes /\ [SessionNext]_session => [Next]_vars
  <2> SUFFICES ASSUME GdbTypes, [SessionNext]_session PROVE [Next]_vars
    OBVIOUS
  <2>1. CASE Submit
    <3>1. PICK c \in Commands : submit(c.name, c.arg) \/ submit_raw(c.name, c.arg)
      BY <2>1, Submitted
    <3>2. c.name \in Names /\ c.arg \in Args
      BY DEF Commands
    <3> QED  BY <3>1, <3>2 DEF Next
  <2>2. CASE Receive
    <3>1. Head(wire) \in Records
      BY <2>2, TheFirst DEF Receive
    <3> QED  BY <2>2, <3>1 DEF Receive, Next
  <2>3. CASE Answering
    BY <2>3, AnsweringPrints DEF Next
  <2>4. CASE Unprompted
    BY <2>4, UnpromptedPrints
  <2>5. CASE UNCHANGED session
    BY <2>5 DEF session
  <2> QED  BY <2>1, <2>2, <2>3, <2>4, <2>5 DEF SessionNext, Answering, Unprompted
<1> QED  BY <1>1, <1>2, SessionTypes, PTL DEF SessionSpec, Spec

(* The registries of a session keep their types.                           *)
THEOREM SessionTypeOK == SessionSpec => []TypeOK
BY SessionIsConnection, ConnectionTypes, PTL

(* In a session with GDB, too, the target state, the threads and the       *)
(* frames of a snapshot never contradict each other.                       *)
THEOREM SessionCoherent == SessionSpec => []Coherent
BY SessionIsConnection, SnapshotCoherent, PTL

-----------------------------------------------------------------------------
(* The steps after which the process is as it was: what they print does    *)
(* not speak of threads.                                                   *)
ThreadKinds == {"thread-created", "thread-exited", "running", "stopped"}

Aside(rs) == rs \in Seq(Records) /\ \A i \in DOMAIN rs : rs[i].kind \notin ThreadKinds

StandStill ==
  \/ Submit \/ Select \/ ListFeatures
  \/ BreakInsert \/ VarCreate \/ VarUpdate \/ VarDelete \/ Refuse
  \/ BreakModified \/ BreakDeleted \/ UNCHANGED session

LEMMA StandStillPrints ==
  ASSUME GdbTypes, StandStill
  PROVE  /\ UNCHANGED <<execution, inferior, nonStop>>
         /\ \E rs : wire' = wire \o rs /\ Aside(rs)
<1>1. ASSUME NEW r \in Records, r.kind \notin ThreadKinds PROVE Aside(<<r>>)
  <2>1. <<r>> \in Seq(Records) /\ DOMAIN <<r>> = {1} /\ <<r>>[1] = r
    BY <1>1
  <2> QED  BY <1>1, <2>1 DEF Aside
<1>2. wire \o <<>> = wire /\ Aside(<<>>)
  BY DEF GdbTypes, Aside
<1>3. CASE Submit
  <2>1. PICK c : \E info : Enqueue(c.name, c.arg, info)
    BY <1>3, Submitted
  <2> QED  BY <1>2, <1>3, <2>1 DEF Submit, Enqueue, gdb
<1>4. CASE UNCHANGED session
  BY <1>2, <1>4 DEF session, vars, gdb
<1>5. CASE BreakModified \/ BreakDeleted
  <2>1. /\ UNCHANGED <<execution, inferior, nonStop>>
    BY <1>5, UnpromptedPrints DEF Unprompted, BreakModified, BreakDeleted, vars
  <2>2. CASE BreakModified
    <3>1. PICK b \in DOMAIN gdbBreaks, e \in BOOLEAN :
            Unasked(<<[kind |-> "breakpoint-modified", bkpt |-> [number |-> b, enabled |-> e]]>>)
      BY <2>2 DEF BreakModified
    <3>2. PICK r : r = [kind |-> "breakpoint-modified", bkpt |-> [number |-> b, enabled |-> e]]
      OBVIOUS
    <3>3. b \in BreakIds
      BY DEF GdbTypes, IsMap
    <3>4. r \in Records /\ r.kind \notin ThreadKinds
      BY <3>2, <3>3, RecordTypes DEF ThreadKinds
    <3> QED  BY <1>1, <2>1, <3>1, <3>2, <3>4 DEF Unasked
  <2>3. CASE BreakDeleted
    <3>1. PICK b \in DOMAIN gdbBreaks :
            Unasked(<<[kind |-> "breakpoint-deleted", number |-> b]>>)
      BY <2>3 DEF BreakDeleted
    <3>2. PICK r : r = [kind |-> "breakpoint-deleted", number |-> b]
      OBVIOUS
    <3>3. b \in BreakIds
      BY DEF GdbTypes, IsMap
    <3>4. r \in Records /\ r.kind \notin ThreadKinds
      BY <3>2, <3>3, RecordTypes DEF ThreadKinds
    <3> QED  BY <1>1, <2>1, <3>1, <3>2, <3>4 DEF Unasked
  <2> QED  BY <1>5, <2>2, <2>3
<1>6. CASE \/ Select \/ ListFeatures \/ BreakInsert
          \/ VarCreate \/ VarUpdate \/ VarDelete \/ Refuse
  <2>1. UNCHANGED <<execution, inferior, nonStop>> /\ consume_outbound
    BY <1>6, AnsweringPrints
       DEF Answering, consume_outbound, execution, Select, ListFeatures, BreakInsert,
           VarCreate, VarUpdate, VarDelete, Refuse
  <2>2. outbound # <<>>
    BY <2>1 DEF consume_outbound
  <2>4. ASSUME NEW class \in Classes, NEW results \in Results,
               wire' = wire \o <<Says(class, results)>>
        PROVE  \E us : wire' = wire \o us /\ Aside(us)
    <3>1. Says(class, results) \in Records /\ Says(class, results).kind \notin ThreadKinds
      BY <2>2, SaysType DEF IsResult, ThreadKinds
    <3> QED  BY <1>1, <2>4, <3>1
  <2>5. {"done", "connected", "error"} \subseteq Classes
    BY DEF Classes
  <2>6. CASE Select
    <3>1. PICK a, d : a = [kind |-> "other"] /\ d = Says("connected", EmptyMap)
      OBVIOUS
    <3>2. a \in Records /\ a.kind \notin ThreadKinds
      BY <3>1, RecordTypes DEF ThreadKinds
    <3>3. d \in Records /\ d.kind \notin ThreadKinds
      BY <2>2, <2>5, <3>1, SaysType, AnswerTypes DEF IsResult, ThreadKinds
    <3>4. <<a, d>> \in Seq(Records) /\ DOMAIN <<a, d>> = 1..2
          /\ <<a, d>>[1] = a /\ <<a, d>>[2] = d
      BY <3>2, <3>3
    <3>5. Aside(<<a, d>>)
      BY <3>2, <3>3, <3>4 DEF Aside
    <3> QED  BY <2>1, <2>6, <3>1, <3>5 DEF Select, Serve
  <2>7. CASE ListFeatures
    <3>1. [features |-> gdbFeatures] \in Results
      BY AnswerTypes DEF GdbTypes
    <3> QED  BY <2>1, <2>4, <2>5, <2>7, <3>1 DEF ListFeatures, Serve, Done
  <2>8. CASE BreakInsert
    <3>1. PICK e \in BOOLEAN :
            Serve("break-insert", <<Done([bkpt |-> [number |-> Arg, enabled |-> e]])>>)
      BY <2>8 DEF BreakInsert
    <3>2. Arg \in BreakIds
      BY <3>1, ThisCommand DEF Serve, consume_outbound, Arg
    <3>3. [bkpt |-> [number |-> Arg, enabled |-> e]] \in Results
      BY <3>2, AnswerTypes
    <3> QED  BY <2>1, <2>4, <2>5, <3>1, <3>3 DEF Done, Serve
  <2>9. CASE VarCreate
    <3>1. PICK v \in Values : Serve("var-create", <<Done([name |-> Parent, value |-> v])>>)
      BY <2>9 DEF VarCreate
    <3>2. [name |-> Parent, value |-> v] \in Results
      BY AnswerTypes
    <3> QED  BY <2>1, <2>4, <2>5, <3>1, <3>2 DEF Done, Serve
  <2>10. CASE VarUpdate
    <3>1. PICK changes \in Maps({Parent, Child}, Values) :
            Serve("var-update", <<Done([changelist |-> changes])>>)
      BY <2>10 DEF VarUpdate
    <3>2. [changelist |-> changes] \in Results
      BY AnswerTypes
    <3> QED  BY <2>1, <2>4, <2>5, <3>1, <3>2 DEF Done, Serve
  <2>11. CASE VarDelete
    BY <2>1, <2>4, <2>5, <2>11, AnswerTypes DEF VarDelete, Serve, Done
  <2>12. CASE Refuse
    BY <2>1, <2>4, <2>5, <2>12, AnswerTypes DEF Refuse, Serve
  <2> QED  BY <1>6, <2>6, <2>7, <2>8, <2>9, <2>10, <2>11, <2>12
<1> QED  BY <1>3, <1>4, <1>5, <1>6 DEF StandStill

(* An entry about threads stays settled in such a step.                    *)
LEMMA StandStillSettled ==
  ASSUME GdbTypes, StandStill, NEW T, NEW G, NEW b \in BOOLEAN,
         T \subseteq {r \in Records : r.kind \in ThreadKinds}, Settled(wire, T, G, b)
  PROVE  Settled(wire', T, G, b)
<1>1. PICK rs : wire' = wire \o rs /\ Aside(rs)
  BY StandStillPrints
<1>2. rs \in Seq(Records) /\ Untouched(rs, T)
  BY <1>1 DEF Aside, Untouched
<1>3. wire \in Seq(Records)
  BY DEF GdbTypes
<1> QED  BY <1>1, <1>2, <1>3, PrintOthers

(* The steps that move threads.                                            *)
Moves == Run \/ Continue \/ Detach \/ Spawn \/ Stop \/ ThreadExit \/ ProcessExit

LEMMA StepCases ==
  ASSUME [SessionNext]_session
  PROVE  StandStill \/ Receive \/ Moves
BY DEF SessionNext, StandStill, Moves

LEMMA MovesPrint ==
  ASSUME GdbTypes, Moves
  PROVE  UNCHANGED <<execution, nonStop>>
<1>1. Answering \/ Unprompted
  BY DEF Moves, Answering, Unprompted
<1> QED  BY <1>1, AnsweringPrints, UnpromptedPrints DEF consume_outbound, vars, execution

-----------------------------------------------------------------------------
(* In all-stop mode the threads stand still together.                      *)
LEMMA AllStopKept ==
  ASSUME GdbTypes, AllStop, [SessionNext]_session
  PROVE  AllStop'
<1>1. CASE StandStill
  BY <1>1, StandStillPrints DEF AllStop
<1>2. CASE Receive
  BY <1>2 DEF Receive, gdb, AllStop
<1>3. CASE Moves
  <2> SUFFICES ASSUME ~nonStop PROVE AllStop'
    BY <1>3, MovesPrint DEF AllStop
  <2>1. CASE Run
    BY <2>1 DEF Run, With, EmptyMap, AllStop
  <2>2. CASE Continue
    BY <2>2 DEF Continue, AllStop
  <2>3. CASE Detach \/ ProcessExit
    BY <2>3 DEF Detach, ProcessExit, EmptyMap, AllStop
  <2>4. CASE Spawn
    BY <2>4 DEF Spawn, Movers, With, AllStop
  <2>5. CASE Stop
    BY <2>5, MovingAssumption DEF Stop, AllStop
  <2>6. CASE ThreadExit
    BY <2>6 DEF ThreadExit, Without, Restrict, AllStop
  <2> QED  BY <1>3, <2>1, <2>2, <2>3, <2>4, <2>5, <2>6 DEF Moves
<1> QED  BY <1>1, <1>2, <1>3, StepCases

-----------------------------------------------------------------------------
(* One, two or three records settle an entry.                              *)
LEMMA One ==
  ASSUME NEW S, NEW a \in S, NEW T, NEW G
  PROVE  /\ <<a>> \in Seq(S)
         /\ a \in T /\ a \in G => Settled(<<a>>, T, G, FALSE)
         /\ a \notin T => Untouched(<<a>>, T)
<1>1. <<a>> \in Seq(S) /\ DOMAIN <<a>> = {1} /\ <<a>>[1] = a /\ Len(<<a>>) = 1
  OBVIOUS
<1>2. a \in T /\ a \in G => Settled(<<a>>, T, G, FALSE)
  <2>1. Len(<<a>>) > 0 /\ <<a>>[Len(<<a>>)] = a
    BY <1>1
  <2> QED  BY <1>1, <2>1, LastRecord
<1> QED  BY <1>1, <1>2 DEF Untouched

LEMMA Two ==
  ASSUME NEW S, NEW a \in S, NEW c \in S, NEW T, NEW G
  PROVE  /\ <<a, c>> \in Seq(S)
         /\ c \in T /\ c \in G => Settled(<<a, c>>, T, G, FALSE)
         /\ a \notin T /\ c \notin T => Untouched(<<a, c>>, T)
<1>1. /\ <<a, c>> \in Seq(S) /\ DOMAIN <<a, c>> = 1..2
      /\ <<a, c>>[1] = a /\ <<a, c>>[2] = c /\ Len(<<a, c>>) = 2
  OBVIOUS
<1>2. \A i \in DOMAIN <<a, c>> : i = 1 \/ i = 2
  BY <1>1
<1>3. c \in T /\ c \in G => Settled(<<a, c>>, T, G, FALSE)
  <2>1. Len(<<a, c>>) > 0 /\ <<a, c>>[Len(<<a, c>>)] = c
    BY <1>1
  <2> QED  BY <1>1, <2>1, LastRecord
<1> QED  BY <1>1, <1>2, <1>3 DEF Untouched

LEMMA Three ==
  ASSUME NEW S, NEW a \in S, NEW c \in S, NEW d \in S, NEW T, NEW G
  PROVE  /\ <<a, c, d>> \in Seq(S)
         /\ d \in T /\ d \in G => Settled(<<a, c, d>>, T, G, FALSE)
         /\ a \in T /\ a \in G /\ c \notin T /\ d \notin T => Settled(<<a, c, d>>, T, G, FALSE)
         /\ a \notin T /\ c \notin T /\ d \notin T => Untouched(<<a, c, d>>, T)
<1> DEFINE s == <<a, c, d>>
<1>1. /\ s \in Seq(S) /\ DOMAIN s = 1..3
      /\ s[1] = a /\ s[2] = c /\ s[3] = d /\ Len(s) = 3
  OBVIOUS
<1> HIDE DEF s
<1>2. \A i \in DOMAIN s : i = 1 \/ i = 2 \/ i = 3
  BY <1>1
<1>3. ASSUME a \in T, a \in G, c \notin T, d \notin T PROVE Settled(s, T, G, FALSE)
  <2>1. ~Untouched(s, T)
    BY <1>1, <1>3 DEF Untouched
  <2>2. LastIsGood(s, T, G)
    BY <1>1, <1>2, <1>3 DEF LastIsGood
  <2> QED  BY <2>1, <2>2 DEF Settled
<1>4. d \in T /\ d \in G => Settled(s, T, G, FALSE)
  <2>1. Len(s) > 0 /\ s[Len(s)] = d
    BY <1>1
  <2> QED  BY <1>1, <2>1, LastRecord
<1>5. a \notin T /\ c \notin T /\ d \notin T => Untouched(s, T)
  BY <1>1, <1>2 DEF Untouched
<1> QED  BY <1>1, <1>3, <1>4, <1>5 DEF s

(* The records of the steps that move threads.                             *)
LEMMA MoveRecordTypes ==
  ASSUME GdbTypes
  PROVE  /\ \A t \in ThreadIds :
              /\ OnThread("thread-created", t) \in Records
              /\ OnThread("thread-exited", t) \in Records
              /\ OnRunning(t) \in Records
              /\ [kind |-> "running", thread |-> t] \in Records
              /\ \A l \in Locations : OnStopped(t, "breakpoint-hit", l) \in Records
         /\ \A reason \in ExitReasons : OnStopped(NoThread, reason, NoFrame) \in Records
         /\ outbound # <<>> =>
              /\ Says("running", EmptyMap) \in Records /\ Done(EmptyMap) \in Records
              /\ Says("running", EmptyMap).kind = "result" /\ Done(EmptyMap).kind = "result"
<1>1. "running" \in Classes /\ "done" \in Classes
  BY DEF Classes
<1>2. outbound # <<>> =>
        /\ Says("running", EmptyMap) \in Records /\ Done(EmptyMap) \in Records
        /\ Says("running", EmptyMap).kind = "result" /\ Done(EmptyMap).kind = "result"
  BY <1>1, SaysType, AnswerTypes DEF Done, IsResult
<1>3. \A t \in ThreadIds : OnRunning(t) \in Records
  BY RecordTypes DEF OnRunning
<1> QED  BY <1>2, <1>3, RecordTypes

(* What GDB prints at each of them, as records with names.                 *)
RunPrints(a, s, c) ==
  /\ a \in Records /\ a = OnThread("thread-created", MainThread)
  /\ s \in Records /\ s.kind = "result"
  /\ c \in Records /\ c = OnRunning(MainThread)
  /\ wire' = wire \o (ThreadsExit \o <<a, s, c>>)

LEMMA RunPrinted ==
  ASSUME GdbTypes, Run
  PROVE  \E a, s, c : RunPrints(a, s, c)
<1>1. outbound # <<>>
  BY DEF Run, Serve, consume_outbound
<1> QED  BY <1>1, MoveRecordTypes, MainAssumption DEF Run, Serve, RunPrints

LEMMA ContinuePrinted ==
  ASSUME GdbTypes, Continue
  PROVE  /\ Arg \in ThreadIds
         /\ \E s, c : /\ s \in Records /\ s.kind = "result"
                      /\ c \in Records /\ c = OnRunning(Arg) /\ wire' = wire \o <<s, c>>
<1>1. outbound # <<>>
  BY DEF Continue, Serve, consume_outbound
<1>2. Arg \in ThreadIds
  BY DEF Continue, GdbTypes, IsMap
<1> QED  BY <1>1, <1>2, MoveRecordTypes DEF Continue, Serve

LEMMA DetachPrinted ==
  ASSUME GdbTypes, Detach
  PROVE  \E s : s \in Records /\ s.kind = "result" /\ wire' = wire \o (ThreadsExit \o <<s>>)
<1>1. outbound # <<>>
  BY DEF Detach, Serve, consume_outbound
<1> QED  BY <1>1, MoveRecordTypes DEF Detach, Serve

LEMMA SpawnPrinted ==
  ASSUME GdbTypes, Spawn
  PROVE  \E t \in ThreadIds \ DOMAIN inferior : \E a, c :
           /\ a \in Records /\ a = OnThread("thread-created", t)
           /\ c \in Records /\ c = [kind |-> "running", thread |-> t]
           /\ wire' = wire \o <<a, c>> /\ inferior' = With(inferior, t, Moving)
BY MoveRecordTypes DEF Spawn, Unasked

LEMMA StopPrinted ==
  ASSUME GdbTypes, Stop
  PROVE  \E t \in Movers, where \in [DOMAIN inferior -> Locations] : \E a :
           /\ t \in ThreadIds /\ where[t] \in Locations
           /\ a \in Records /\ a = OnStopped(t, "breakpoint-hit", where[t])
           /\ wire' = wire \o <<a>>
           /\ inferior' = [u \in DOMAIN inferior |->
                            IF nonStop /\ u # t THEN inferior[u] ELSE where[u]]
<1>1. PICK t \in Movers, where \in [DOMAIN inferior -> Locations] :
        /\ Unasked(<<OnStopped(t, "breakpoint-hit", where[t])>>)
        /\ inferior' = [u \in DOMAIN inferior |->
                         IF nonStop /\ u # t THEN inferior[u] ELSE where[u]]
  BY DEF Stop
<1>2. t \in ThreadIds /\ where[t] \in Locations
  BY DEF Movers, GdbTypes, IsMap
<1> QED  BY <1>1, <1>2, MoveRecordTypes DEF Unasked

LEMMA ThreadExitPrinted ==
  ASSUME GdbTypes, ThreadExit
  PROVE  \E t \in Movers : \E a :
           /\ t \in ThreadIds /\ a \in Records /\ a = OnThread("thread-exited", t)
           /\ wire' = wire \o <<a>> /\ inferior' = Without(inferior, t)
<1>1. PICK t \in Movers :
        Unasked(<<OnThread("thread-exited", t)>>) /\ inferior' = Without(inferior, t)
  BY DEF ThreadExit
<1>2. t \in ThreadIds
  BY DEF Movers, GdbTypes, IsMap
<1> QED  BY <1>1, <1>2, MoveRecordTypes DEF Unasked

LEMMA ProcessExitPrinted ==
  ASSUME GdbTypes, ProcessExit
  PROVE  \E reason \in ExitReasons : \E a :
           /\ a \in Records /\ a = OnStopped(NoThread, reason, NoFrame)
           /\ wire' = wire \o (ThreadsExit \o <<a>>)
<1>1. PICK reason \in ExitReasons :
        Unasked(Append(ThreadsExit, OnStopped(NoThread, reason, NoFrame)))
  BY DEF ProcessExit
<1>2. PICK a : a = OnStopped(NoThread, reason, NoFrame)
  OBVIOUS
<1>3. a \in Records
  BY <1>2, MoveRecordTypes
<1>4. Append(ThreadsExit, a) = ThreadsExit \o <<a>>
  BY <1>3, AllExit, AppendIsConcat
<1> QED  BY <1>1, <1>2, <1>3, <1>4 DEF Unasked

(* When all threads exit: an entry that this settles, and one that it does *)
(* not touch.                                                              *)
LEMMA ExitsSettle ==
  ASSUME GdbTypes, NEW T, NEW G,
         \A u \in DOMAIN inferior : OnThread("thread-exited", u) \in T
                                      => OnThread("thread-exited", u) \in G,
         \E u \in DOMAIN inferior : OnThread("thread-exited", u) \in T
  PROVE  Settled(ThreadsExit, T, G, FALSE)
<1>1. ~Untouched(ThreadsExit, T)
  BY AllExit DEF Untouched
<1>2. LastIsGood(ThreadsExit, T, G)
  BY AllExit DEF LastIsGood
<1> QED  BY <1>1, <1>2 DEF Settled

LEMMA ExitsOthers ==
  ASSUME GdbTypes, NEW T,
         \A u \in DOMAIN inferior : OnThread("thread-exited", u) \notin T
  PROVE  Untouched(ThreadsExit, T)
BY AllExit DEF Untouched

(* Neither of two that touch nothing.                                      *)
LEMMA OthersTwice ==
  ASSUME NEW S, NEW s \in Seq(S), NEW u \in Seq(S), NEW T, Untouched(s, T), Untouched(u, T)
  PROVE  Untouched(s \o u, T)
<1> DEFINE v == s \o u
<1> DEFINE n == Len(s)
<1>1. /\ DOMAIN s = 1..n /\ DOMAIN u = 1..Len(u) /\ DOMAIN v = 1..(n + Len(u))
      /\ n \in Nat /\ Len(u) \in Nat
      /\ \A i \in DOMAIN s : v[i] = s[i]
      /\ \A i \in DOMAIN u : v[n + i] = u[i]
  BY Concat
<1> HIDE DEF v, n
<1>2. ASSUME NEW i \in DOMAIN v PROVE v[i] \notin T
  <2>1. CASE i \in DOMAIN s
    BY <1>1, <2>1 DEF Untouched
  <2>2. CASE i \notin DOMAIN s
    <3>1. i - n \in DOMAIN u /\ n + (i - n) = i
      BY <1>1, <2>2
    <3> QED  BY <1>1, <3>1 DEF Untouched
  <2> QED  BY <2>1, <2>2
<1> QED  BY <1>2 DEF Untouched, v

-----------------------------------------------------------------------------
(* The thread registry will have the threads of the process.               *)
LEMMA ThreadsKnownKept ==
  ASSUME GdbTypes, ThreadsKnown, [SessionNext]_session
  PROVE  ThreadsKnown'
<1> SUFFICES ASSUME NEW t \in ThreadIds
             PROVE  Settled(wire, ThreadRecords(t), KnownRight(t),
                            t \in DOMAIN threads <=> t \in DOMAIN inferior)'
  BY DEF ThreadsKnown
<1> DEFINE T == ThreadRecords(t)
<1> DEFINE Here == {r \in T : r.kind # "thread-exited"}
<1> DEFINE Gone == {r \in T : r.kind = "thread-exited"}
<1> DEFINE G == IF t \in DOMAIN inferior THEN Here ELSE Gone
<1> DEFINE b == t \in DOMAIN threads <=> t \in DOMAIN inferior
<1>1. KnownRight(t) = G /\ KnownRight(t)' = G' /\ ThreadRecords(t)' = T
  BY DEF KnownRight, ThreadRecords
<1>2. Settled(wire, T, G, b) /\ b \in BOOLEAN /\ b' \in BOOLEAN
  BY <1>1 DEF ThreadsKnown
<1> SUFFICES Settled(wire', T, G', b')
  BY <1>1
<1>3. wire \in Seq(Records) /\ ThreadsExit \in Seq(Records)
  BY AllExit DEF GdbTypes
<1>4. /\ T \subseteq {r \in Records : r.kind \in ThreadKinds}
      /\ \A r \in Records : r \in T <=> r.kind \in ThreadKinds /\ r.thread = t
      /\ \A r \in T : /\ r \in Here <=> r.kind # "thread-exited"
                      /\ r \in Gone <=> r.kind = "thread-exited"
  BY DEF ThreadRecords, ThreadKinds
<1> HIDE DEF T, Here, Gone
<1>5. CASE StandStill
  <2>1. UNCHANGED <<threads, inferior>>
    BY <1>5, StandStillPrints DEF execution
  <2>2. Settled(wire', T, G, b)
    <3> HIDE DEF G, b
    <3> QED  BY <1>2, <1>4, <1>5, StandStillSettled
  <2> QED  BY <2>1, <2>2
<1>6. CASE Receive
  <2>1. PICK r : r = Head(wire)
    OBVIOUS
  <2>2. wire # <<>> /\ r \in Records /\ classify_record(r) /\ wire' = Tail(wire)
        /\ inferior' = inferior
    BY <1>6, <2>1, TheFirst DEF Receive, gdb
  <2>3. ASSUME r \notin T, b PROVE b'
    <3>1. CASE r.kind \in {"running", "stopped"}
      <4>1. r.thread # t /\ (threads' = Seen(r.thread, "Running") \/ threads' = Seen(r.thread, "Stopped"))
        BY <1>4, <2>2, <2>3, <3>1, Classified
           DEF ThreadKinds, classify_running, classify_stopped
      <4> QED  BY <2>2, <2>3, <4>1 DEF Seen, With
    <3>2. CASE r.kind \in {"thread-created", "thread-exited"}
      <4>1. r.thread # t /\ (on_thread_created(r.thread) \/ on_thread_exited(r.thread))
        BY <1>4, <2>2, <2>3, <3>2, Classified DEF ThreadKinds
      <4> QED  BY <2>2, <2>3, <4>1
               DEF on_thread_created, on_thread_exited, With, Without, Restrict
    <3>3. CASE r.kind \notin ThreadKinds
      <4>1. threads' = threads
        BY <2>2, <3>3, Classified
           DEF ThreadKinds, IsResult, classify_result, on_breakpoint_modified,
               on_breakpoint_deleted, execution, vars
      <4> QED  BY <2>2, <2>3, <4>1
    <3> QED  BY <3>1, <3>2, <3>3 DEF ThreadKinds
  <2>4. ASSUME r \in T, r \in G PROVE b'
    <3>1. r.thread = t /\ r.kind \in ThreadKinds /\ (r.kind # "thread-exited" <=> t \in DOMAIN inferior)
      BY <1>4, <2>2, <2>4
    <3>2. t \notin {All, NoThread}
      BY ThreadAssumption
    <3>3. CASE r.kind \in {"running", "stopped"}
      <4>1. threads' = Seen(t, "Running") \/ threads' = Seen(t, "Stopped")
        BY <2>2, <3>1, <3>3, Classified DEF classify_running, classify_stopped
      <4> QED  BY <2>2, <3>1, <3>2, <3>3, <4>1 DEF Seen, With
    <3>4. CASE r.kind \in {"thread-created", "thread-exited"}
      BY <2>2, <3>1, <3>4, Classified
         DEF on_thread_created, on_thread_exited, With, Without, Restrict
    <3> QED  BY <3>1, <3>3, <3>4 DEF ThreadKinds
  <2>5. Settled(Tail(wire), T, G, b')
    <3> HIDE DEF G, b
    <3> QED  BY <1>2, <1>3, <2>1, <2>2, <2>3, <2>4, Read
  <2> QED  BY <2>2, <2>5
<1>7. CASE Moves
  <2>1. threads' = threads
    BY <1>7, MovesPrint DEF execution
  <2>2. \A u \in ThreadIds : OnThread("thread-exited", u) \in T <=> u = t
    BY <1>4, MoveRecordTypes DEF OnThread, ThreadKinds
  <2>3. DOMAIN inferior \subseteq ThreadIds
    BY DEF GdbTypes, IsMap
  <2>4. t \notin DOMAIN inferior => Untouched(ThreadsExit, T)
    BY <2>2, <2>3, ExitsOthers
  <2>5. t \in DOMAIN inferior => Settled(ThreadsExit, T, Gone, FALSE)
    <3>1. \A u \in ThreadIds : OnThread("thread-exited", u) \in T
                                => OnThread("thread-exited", u) \in Gone
      BY <1>4 DEF OnThread
    <3> QED  BY <2>2, <2>3, <3>1, ExitsSettle
  <2>6. ASSUME NEW rs \in Seq(Records), wire' = wire \o rs, Untouched(rs, T),
               t \in DOMAIN inferior' <=> t \in DOMAIN inferior
        PROVE  Settled(wire', T, G', b')
    <3>1. Settled(wire \o rs, T, G, b)
      <4> HIDE DEF G, b
      <4> QED  BY <1>2, <1>3, <2>6, PrintOthers
    <3>2. G' = G /\ (b' <=> b)
      BY <2>1, <2>6
    <3> HIDE DEF G, b
    <3> QED  BY <2>6, <3>1, <3>2 DEF Settled
  <2>7. ASSUME NEW rs \in Seq(Records), wire' = wire \o rs, NEW H, H = G',
               Settled(rs, T, H, FALSE)
        PROVE  Settled(wire', T, G', b')
    <3> HIDE DEF G, b
    <3>1. Settled(wire \o rs, T, H, b')
      BY <1>2, <1>3, <2>7, PrintGood
    <3> QED  BY <2>7, <3>1
  <2>8. ASSUME NEW us \in Seq(Records), Untouched(us, T), t \notin DOMAIN inferior',
               wire' = wire \o (ThreadsExit \o us)
        PROVE  Settled(wire', T, G', b')
    <3>1. ThreadsExit \o us \in Seq(Records) /\ Gone = G'
      BY <1>3, <2>8, ConcatProperties
    <3>2. CASE t \in DOMAIN inferior
      <4>1. Settled(ThreadsExit \o us, T, Gone, FALSE)
        BY <1>3, <2>5, <2>8, <3>2, PrintOthers
      <4> HIDE DEF G, b
      <4> QED  BY <2>7, <2>8, <3>1, <4>1
    <3>3. CASE t \notin DOMAIN inferior
      <4>1. Untouched(ThreadsExit \o us, T)
        BY <1>3, <2>4, <2>8, <3>3, OthersTwice
      <4> QED  BY <2>6, <2>8, <3>1, <3>3, <4>1
    <3> QED  BY <3>2, <3>3
  <2>9. t \in DOMAIN inferior' => Here = G'
    OBVIOUS
  <2>10. t \notin DOMAIN inferior' => Gone = G'
    OBVIOUS
  <2> HIDE DEF G, b
  <2>11. CASE Run
    <3>1. PICK a, s, c : RunPrints(a, s, c)
      BY <2>11, RunPrinted
    <3>2. t \in DOMAIN inferior' <=> t = MainThread
      BY <2>11 DEF Run, With, EmptyMap
    <3>3. a \in Records /\ s \in Records /\ c \in Records /\ <<a, s, c>> \in Seq(Records)
      BY <3>1 DEF RunPrints
    <3>4. s \notin T
      BY <1>4, <3>1 DEF RunPrints, ThreadKinds
    <3>5. CASE t = MainThread
      <4>1. a \in T /\ a \in Here
        BY <1>4, <3>1, <3>5 DEF RunPrints, OnThread, ThreadKinds
      <4>2. c \in T => c \in Here
        BY <1>4, <3>1 DEF RunPrints, OnRunning
      <4>3. Settled(<<a, s, c>>, T, Here, FALSE)
        BY <3>3, <3>4, <4>1, <4>2, Three
      <4>4. Settled(ThreadsExit \o <<a, s, c>>, T, Here, FALSE)
        BY <1>3, <3>3, <4>3, PrintGood
      <4> QED  BY <1>3, <2>7, <2>9, <3>1, <3>2, <3>3, <3>5, <4>4, ConcatProperties DEF RunPrints
    <3>6. CASE t # MainThread
      <4>1. a \notin T /\ c \notin T
        BY <1>4, <3>1, <3>6, ThreadAssumption DEF RunPrints, OnThread, OnRunning
      <4>2. Untouched(<<a, s, c>>, T)
        BY <3>3, <3>4, <4>1, Three
      <4> QED  BY <2>8, <3>1, <3>2, <3>3, <3>6, <4>2 DEF RunPrints
    <3> QED  BY <3>5, <3>6
  <2>12. CASE Continue
    <3>1. PICK s, c : /\ s \in Records /\ s.kind = "result"
                      /\ c \in Records /\ c = OnRunning(Arg) /\ wire' = wire \o <<s, c>>
      BY <2>12, ContinuePrinted
    <3>2. DOMAIN inferior' = DOMAIN inferior /\ Arg \in DOMAIN inferior
      BY <2>12 DEF Continue
    <3>3. s \notin T /\ <<s, c>> \in Seq(Records)
      BY <1>4, <3>1 DEF ThreadKinds
    <3>4. CASE c \in T
      <4>1. c.thread = t /\ c.kind = "running"
        BY <1>4, <3>1, <3>4 DEF OnRunning
      <4>2. t \in DOMAIN inferior'
        BY <3>1, <3>2, <4>1, ThreadAssumption DEF OnRunning
      <4>3. c \in Here
        BY <1>4, <3>4, <4>1
      <4> QED  BY <2>7, <2>9, <2>10, <3>1, <3>3, <3>4, <4>2, <4>3, Two
    <3>5. CASE c \notin T
      BY <2>6, <3>1, <3>2, <3>3, <3>5, Two
    <3> QED  BY <3>4, <3>5
  <2>13. CASE Detach
    <3>1. PICK s : s \in Records /\ s.kind = "result" /\ wire' = wire \o (ThreadsExit \o <<s>>)
      BY <2>13, DetachPrinted
    <3>2. s \notin T /\ t \notin DOMAIN inferior'
      BY <1>4, <2>13, <3>1 DEF ThreadKinds, Detach, EmptyMap
    <3> QED  BY <2>8, <3>1, <3>2, One
  <2>14. CASE Spawn
    <3>1. PICK u \in ThreadIds \ DOMAIN inferior : \E a, c :
           /\ a \in Records /\ a = OnThread("thread-created", u)
           /\ c \in Records /\ c = [kind |-> "running", thread |-> u]
           /\ wire' = wire \o <<a, c>> /\ inferior' = With(inferior, u, Moving)
      BY <2>14, SpawnPrinted
    <3>2. PICK a, c :
           /\ a \in Records /\ a = OnThread("thread-created", u)
           /\ c \in Records /\ c = [kind |-> "running", thread |-> u]
           /\ wire' = wire \o <<a, c>> /\ inferior' = With(inferior, u, Moving)
      BY <3>1
    <3>3. DOMAIN inferior' = DOMAIN inferior \cup {u} /\ <<a, c>> \in Seq(Records)
      BY <3>2 DEF With
    <3>4. CASE t = u
      <4>1. c \in T /\ c \in Here
        BY <1>4, <3>2, <3>4 DEF ThreadKinds
      <4> a \in Records /\ c \in Records
        BY <3>2
      <4>2. Settled(<<a, c>>, T, Here, FALSE)
        BY <4>1, Two
      <4>3. Here = G'
        BY <2>9, <3>3, <3>4
      <4> QED  BY <2>7, <3>2, <3>3, <4>2, <4>3
    <3>5. CASE t # u
      <4>1. a \notin T /\ c \notin T
        BY <1>4, <3>2, <3>5 DEF OnThread
      <4> a \in Records /\ c \in Records
        BY <3>2
      <4>2. Untouched(<<a, c>>, T)
        BY <4>1, Two
      <4>3. t \in DOMAIN inferior' <=> t \in DOMAIN inferior
        BY <3>3, <3>5
      <4> QED  BY <2>6, <3>2, <3>3, <4>2, <4>3
    <3> QED  BY <3>4, <3>5
  <2>15. CASE Stop
    <3>1. PICK u \in Movers, where \in [DOMAIN inferior -> Locations] : \E a :
           /\ a \in Records /\ a = OnStopped(u, "breakpoint-hit", where[u])
           /\ wire' = wire \o <<a>>
           /\ inferior' = [v \in DOMAIN inferior |->
                            IF nonStop /\ v # u THEN inferior[v] ELSE where[v]]
      BY <2>15, StopPrinted
    <3>2. PICK a : a \in Records /\ a = OnStopped(u, "breakpoint-hit", where[u])
                   /\ wire' = wire \o <<a>>
      BY <3>1
    <3>3. DOMAIN inferior' = DOMAIN inferior /\ u \in DOMAIN inferior /\ <<a>> \in Seq(Records)
      BY <3>1, <3>2 DEF Movers
    <3>4. CASE t = u
      <4>1. a \in T /\ a \in Here
        BY <1>4, <3>2, <3>4 DEF ThreadKinds, OnStopped
      <4> QED  BY <2>7, <2>9, <2>10, <3>2, <3>3, <3>4, <4>1, One
    <3>5. CASE t # u
      <4>1. a \notin T
        BY <1>4, <3>2, <3>5 DEF OnStopped
      <4> QED  BY <2>6, <3>2, <3>3, <4>1, One
    <3> QED  BY <3>4, <3>5
  <2>16. CASE ThreadExit
    <3>1. PICK u \in Movers : \E a :
           /\ u \in ThreadIds /\ a \in Records /\ a = OnThread("thread-exited", u)
           /\ wire' = wire \o <<a>> /\ inferior' = Without(inferior, u)
      BY <2>16, ThreadExitPrinted
    <3>2. PICK a : /\ a \in Records /\ a = OnThread("thread-exited", u)
                   /\ wire' = wire \o <<a>>
      BY <3>1
    <3>3. DOMAIN inferior' = DOMAIN inferior \ {u} /\ <<a>> \in Seq(Records)
      BY <3>1, <3>2 DEF Without, Restrict
    <3>4. CASE t = u
      <4>1. a \in T /\ a \in Gone
        BY <1>4, <3>2, <3>4 DEF ThreadKinds, OnThread
      <4> QED  BY <2>7, <2>9, <2>10, <3>2, <3>3, <3>4, <4>1, One
    <3>5. CASE t # u
      <4>1. a \notin T
        BY <1>4, <3>2, <3>5 DEF OnThread
      <4> QED  BY <2>6, <3>2, <3>3, <3>5, <4>1, One
    <3> QED  BY <3>4, <3>5
  <2>17. CASE ProcessExit
    <3>1. PICK reason \in ExitReasons : \E a :
           /\ a \in Records /\ a = OnStopped(NoThread, reason, NoFrame)
           /\ wire' = wire \o (ThreadsExit \o <<a>>)
      BY <2>17, ProcessExitPrinted
    <3>2. PICK a : /\ a \in Records /\ a = OnStopped(NoThread, reason, NoFrame)
                   /\ wire' = wire \o (ThreadsExit \o <<a>>)
      BY <3>1
    <3>3. a \notin T /\ t \notin DOMAIN inferior'
      BY <1>4, <2>17, <3>2, ThreadAssumption DEF OnStopped, ProcessExit, EmptyMap
    <3> QED  BY <2>8, <3>2, <3>3, One
  <2> QED  BY <1>7, <2>11, <2>12, <2>13, <2>14, <2>15, <2>16, <2>17 DEF Moves
<1> QED  BY <1>5, <1>6, <1>7, StepCases

-----------------------------------------------------------------------------
(* What a step that moves threads prints of a thread that is there after   *)
(* it: that it runs, or where it stopped, as the last record; or nothing,  *)
(* and then it is as it was, or it stopped with the others.                *)
LEMMA ThreadMoves ==
  ASSUME GdbTypes, AllStop, Moves, NEW t \in DOMAIN inferior'
  PROVE  \E rs \in Seq(Records) :
           /\ wire' = wire \o rs
           /\ \/ \E c \in Records :
                   /\ Len(rs) > 0 /\ rs[Len(rs)] = c /\ c.kind = "running"
                   /\ c.thread \in {t, All} /\ (nonStop => c.thread = t)
                   /\ inferior'[t] = Moving
              \/ \E c \in Records :
                   /\ Len(rs) > 0 /\ rs[Len(rs)] = c /\ c.kind = "stopped"
                   /\ c.thread = t /\ c.frame = inferior'[t]
                   /\ inferior'[t] \in Locations
              \/ /\ \A i \in DOMAIN rs : rs[i].kind \in ThreadKinds
                                           => rs[i].thread \notin {t, All, NoThread}
                 /\ t \in DOMAIN inferior
                 /\ \/ inferior'[t] = inferior[t]
                    \/ ~nonStop /\ inferior[t] = Moving /\ inferior'[t] \in Locations
<1> DEFINE Resumed(rs) ==
      \E c \in Records :
        /\ Len(rs) > 0 /\ rs[Len(rs)] = c /\ c.kind = "running"
        /\ c.thread \in {t, All} /\ (nonStop => c.thread = t)
        /\ inferior'[t] = Moving
<1> DEFINE Halted(rs) ==
      \E c \in Records :
        /\ Len(rs) > 0 /\ rs[Len(rs)] = c /\ c.kind = "stopped"
        /\ c.thread = t /\ c.frame = inferior'[t]
        /\ inferior'[t] \in Locations
<1> DEFINE Silent(rs) ==
      /\ \A i \in DOMAIN rs : rs[i].kind \in ThreadKinds
                                => rs[i].thread \notin {t, All, NoThread}
      /\ t \in DOMAIN inferior
      /\ \/ inferior'[t] = inferior[t]
         \/ ~nonStop /\ inferior[t] = Moving /\ inferior'[t] \in Locations
<1> SUFFICES \E rs \in Seq(Records) : wire' = wire \o rs /\ (Resumed(rs) \/ Halted(rs) \/ Silent(rs))
  OBVIOUS
<1>1. ThreadsExit \in Seq(Records) /\ DOMAIN inferior \subseteq ThreadIds
  BY AllExit DEF GdbTypes, IsMap
<1>2. ~Detach /\ ~ProcessExit
  BY DEF Detach, ProcessExit, EmptyMap
<1>3. CASE Run
  <2>1. PICK a, s, c : RunPrints(a, s, c)
    BY <1>3, RunPrinted
  <2>2. t = MainThread /\ inferior'[t] = Moving
    BY <1>3 DEF Run, With, EmptyMap
  <2>3. a \in Records /\ s \in Records /\ c \in Records
    BY <2>1 DEF RunPrints
  <2>4. <<a, s, c>> \in Seq(Records) /\ Len(<<a, s, c>>) = 3 /\ <<a, s, c>>[3] = c
    BY <2>3
  <2> DEFINE rs == ThreadsExit \o <<a, s, c>>
  <2>5. rs \in Seq(Records) /\ Len(rs) > 0 /\ rs[Len(rs)] = c
    <3>1. Len(ThreadsExit) \in Nat /\ Len(rs) = Len(ThreadsExit) + 3
          /\ rs[Len(ThreadsExit) + 3] = c /\ rs \in Seq(Records)
      BY <1>1, <2>4, ConcatProperties, LenProperties
    <3> QED  BY <3>1
  <2>6. c.kind = "running" /\ c.thread \in {t, All} /\ (nonStop => c.thread = t)
    BY <2>1, <2>2 DEF RunPrints, OnRunning
  <2>7. wire' = wire \o rs
    BY <2>1 DEF RunPrints
  <2> HIDE DEF rs
  <2> QED  BY <2>2, <2>3, <2>5, <2>6, <2>7
<1>4. CASE Continue
  <2>1. PICK s, c : /\ s \in Records /\ s.kind = "result"
                    /\ c \in Records /\ c = OnRunning(Arg) /\ wire' = wire \o <<s, c>>
    BY <1>4, ContinuePrinted
  <2> s \in Records /\ c \in Records
    BY <2>1
  <2>2. <<s, c>> \in Seq(Records) /\ Len(<<s, c>>) = 2 /\ DOMAIN <<s, c>> = 1..2
        /\ <<s, c>>[1] = s /\ <<s, c>>[2] = c
    OBVIOUS
  <2>3. t \in DOMAIN inferior /\ inferior'[t] = IF nonStop /\ t # Arg THEN inferior[t] ELSE Moving
    BY <1>4 DEF Continue
  <2>4. c.kind = "running" /\ c.thread = IF nonStop THEN Arg ELSE All
    BY <2>1 DEF OnRunning
  <2>5. CASE nonStop /\ t # Arg
    <3>1. Arg \in ThreadIds
      BY <1>4, ContinuePrinted
    <3>2. Arg \notin {t, All, NoThread}
      BY <2>5, <3>1, ThreadAssumption
    <3>3. \A i \in DOMAIN <<s, c>> : i = 1 \/ i = 2
      BY <2>2
    <3>4. s.kind \notin ThreadKinds
      BY <2>1 DEF ThreadKinds
    <3> QED  BY <2>1, <2>2, <2>3, <2>4, <2>5, <3>2, <3>3, <3>4
  <2>6. CASE ~(nonStop /\ t # Arg)
    <3>1. Len(<<s, c>>) > 0 /\ <<s, c>>[Len(<<s, c>>)] = c
      BY <2>2
    <3> QED  BY <2>1, <2>2, <2>3, <2>4, <2>6, <3>1
  <2> QED  BY <2>5, <2>6
<1>5. CASE Spawn
  <2>1. PICK u \in ThreadIds \ DOMAIN inferior : \E a, c :
         /\ a \in Records /\ a = OnThread("thread-created", u)
         /\ c \in Records /\ c = [kind |-> "running", thread |-> u]
         /\ wire' = wire \o <<a, c>> /\ inferior' = With(inferior, u, Moving)
    BY <1>5, SpawnPrinted
  <2>2. PICK a, c :
         /\ a \in Records /\ a = OnThread("thread-created", u)
         /\ c \in Records /\ c = [kind |-> "running", thread |-> u]
         /\ wire' = wire \o <<a, c>> /\ inferior' = With(inferior, u, Moving)
    BY <2>1
  <2> a \in Records /\ c \in Records
    BY <2>2
  <2>3. a.thread = u /\ c.kind = "running" /\ c.thread = u
    BY <2>2 DEF OnThread
  <2>4. <<a, c>> \in Seq(Records) /\ Len(<<a, c>>) = 2 /\ DOMAIN <<a, c>> = 1..2
        /\ <<a, c>>[1] = a /\ <<a, c>>[2] = c
    OBVIOUS
  <2>5. CASE t = u
    <3>1. inferior'[t] = Moving
      BY <2>2, <2>5 DEF With
    <3>2. Len(<<a, c>>) > 0 /\ <<a, c>>[Len(<<a, c>>)] = c
      BY <2>4
    <3> QED  BY <2>2, <2>3, <2>4, <2>5, <3>1, <3>2
  <2>6. CASE t # u
    <3>1. t \in DOMAIN inferior /\ inferior'[t] = inferior[t]
      BY <2>2, <2>6 DEF With
    <3>2. u \notin {t, All, NoThread}
      BY <2>6, ThreadAssumption
    <3>3. \A i \in DOMAIN <<a, c>> : i = 1 \/ i = 2
      BY <2>4
    <3> QED  BY <2>2, <2>3, <2>4, <3>1, <3>2, <3>3
  <2> QED  BY <2>5, <2>6
<1>6. CASE Stop
  <2>1. PICK u \in Movers, where \in [DOMAIN inferior -> Locations] : \E a :
         /\ u \in ThreadIds /\ where[u] \in Locations
         /\ a \in Records /\ a = OnStopped(u, "breakpoint-hit", where[u])
         /\ wire' = wire \o <<a>>
         /\ inferior' = [v \in DOMAIN inferior |->
                          IF nonStop /\ v # u THEN inferior[v] ELSE where[v]]
    BY <1>6, StopPrinted
  <2>2. PICK a : a \in Records /\ a = OnStopped(u, "breakpoint-hit", where[u])
                 /\ wire' = wire \o <<a>>
    BY <2>1
  <2> a \in Records
    BY <2>2
  <2>3. a.kind = "stopped" /\ a.thread = u /\ a.frame = where[u]
    BY <2>2 DEF OnStopped
  <2>4. <<a>> \in Seq(Records) /\ Len(<<a>>) = 1 /\ DOMAIN <<a>> = {1} /\ <<a>>[1] = a
    OBVIOUS
  <2>5. t \in DOMAIN inferior /\ u \in DOMAIN inferior /\ inferior[u] = Moving
    BY <2>1 DEF Movers
  <2>6. CASE t = u
    <3>1. inferior'[t] = where[u] /\ where[u] \in Locations
      BY <2>1, <2>5, <2>6
    <3>2. Len(<<a>>) > 0 /\ <<a>>[Len(<<a>>)] = a
      BY <2>4
    <3> QED  BY <2>2, <2>3, <2>4, <2>6, <3>1, <3>2
  <2>7. CASE t # u
    <3>1. inferior'[t] = inferior[t] \/ (~nonStop /\ inferior'[t] \in Locations)
      <4>1. where[t] \in Locations
        BY <2>5
      <4>2. inferior'[t] = IF nonStop /\ t # u THEN inferior[t] ELSE where[t]
        BY <2>1, <2>5
      <4> QED  BY <2>7, <4>1, <4>2
    <3>2. ~nonStop => inferior[t] = Moving
      BY <2>5 DEF AllStop
    <3>3. u \notin {t, All, NoThread}
      BY <2>1, <2>7, ThreadAssumption
    <3> QED  BY <2>2, <2>3, <2>4, <2>5, <3>1, <3>2, <3>3
  <2> QED  BY <2>6, <2>7
<1>7. CASE ThreadExit
  <2>1. PICK u \in Movers : \E a :
         /\ u \in ThreadIds /\ a \in Records /\ a = OnThread("thread-exited", u)
         /\ wire' = wire \o <<a>> /\ inferior' = Without(inferior, u)
    BY <1>7, ThreadExitPrinted
  <2>2. PICK a : a \in Records /\ a = OnThread("thread-exited", u) /\ wire' = wire \o <<a>>
    BY <2>1
  <2> a \in Records
    BY <2>2
  <2>3. a.thread = u
    BY <2>2 DEF OnThread
  <2>4. <<a>> \in Seq(Records) /\ DOMAIN <<a>> = {1} /\ <<a>>[1] = a
    OBVIOUS
  <2>5. t \in DOMAIN inferior /\ t # u /\ inferior'[t] = inferior[t]
    BY <2>1 DEF Without, Restrict
  <2>6. u \notin {t, All, NoThread}
    BY <2>1, <2>5, ThreadAssumption
  <2> QED  BY <2>2, <2>3, <2>4, <2>5, <2>6
<1> QED  BY <1>2, <1>3, <1>4, <1>5, <1>6, <1>7 DEF Moves

(* The thread registry will have the state of each thread.                 *)
LEMMA StatesKnownKept ==
  ASSUME GdbTypes, AllStop, StatesKnown, [SessionNext]_session
  PROVE  StatesKnown'
<1>1. nonStop' = nonStop
  BY StandStillPrints, MovesPrint, StepCases DEF Receive, gdb
<1> SUFFICES ASSUME nonStop, NEW t \in DOMAIN inferior'
             PROVE  Settled(wire, MoveRecords(t), MoveRight(t), IsIn(t, StateOf(t)))'
  BY <1>1 DEF StatesKnown
<1> DEFINE T == MoveRecords(t)
<1> DEFINE Ran     == {r \in T : r.thread = t /\ r.kind = "running"}
<1> DEFINE Stopped1 == {r \in T : r.thread = t /\ r.kind = "stopped"}
<1> DEFINE G == IF inferior[t] = Moving THEN Ran ELSE Stopped1
<1> DEFINE b == IsIn(t, StateOf(t))
<1>2. MoveRight(t) = G /\ MoveRight(t)' = G' /\ MoveRecords(t)' = T
  BY DEF MoveRight, MoveRecords
<1>3. t \in DOMAIN inferior => Settled(wire, T, G, b)
  BY <1>2 DEF StatesKnown
<1>4. b \in BOOLEAN /\ b' \in BOOLEAN
  BY DEF IsIn
<1> SUFFICES Settled(wire', T, G', b')
  BY <1>2
<1>5. wire \in Seq(Records) /\ DOMAIN inferior \subseteq ThreadIds
  BY DEF GdbTypes, IsMap
<1>6. /\ T \subseteq {r \in Records : r.kind \in ThreadKinds}
      /\ \A r \in Records : r \in T <=> r.kind \in ThreadKinds /\ r.thread \in {t, All, NoThread}
      /\ \A r \in T : /\ r \in Ran <=> r.thread = t /\ r.kind = "running"
                      /\ r \in Stopped1 <=> r.thread = t /\ r.kind = "stopped"
  BY DEF MoveRecords, ThreadKinds
<1> HIDE DEF T, Ran, Stopped1
<1>7. CASE StandStill
  <2>1. UNCHANGED <<threads, inferior>>
    BY <1>7, StandStillPrints DEF execution
  <2>2. Settled(wire', T, G, b)
    <3> HIDE DEF G, b
    <3> QED  BY <1>3, <1>4, <1>6, <1>7, <2>1, StandStillSettled
  <2> QED  BY <2>1, <2>2 DEF IsIn, StateOf
<1>8. CASE Receive
  <2>1. PICK r : r = Head(wire)
    OBVIOUS
  <2>2. wire # <<>> /\ r \in Records /\ classify_record(r) /\ wire' = Tail(wire)
        /\ inferior' = inferior
    BY <1>8, <2>1, TheFirst DEF Receive, gdb
  <2>3. t \in ThreadIds
    BY <1>5, <2>2
  <2>4. PICK st : st = StateOf(t)
    OBVIOUS
  <2>5. StateOf(t)' = st /\ (b <=> IsIn(t, st)) /\ (b' <=> IsIn(t, st)')
    BY <2>2, <2>4 DEF StateOf, IsIn
  <2>6. ASSUME r \notin T, IsIn(t, st) PROVE IsIn(t, st)'
    <3>1. CASE r.kind \in {"running", "stopped"}
      <4>1. r.thread \notin {t, All, NoThread}
            /\ (threads' = Seen(r.thread, "Running") \/ threads' = Seen(r.thread, "Stopped"))
        BY <1>6, <2>2, <2>6, <3>1, Classified
           DEF ThreadKinds, classify_running, classify_stopped
      <4> QED  BY <2>6, <4>1 DEF Seen, With, IsIn
    <3>2. CASE r.kind \in {"thread-created", "thread-exited"}
      <4>1. r.thread # t /\ (on_thread_created(r.thread) \/ on_thread_exited(r.thread))
        BY <1>6, <2>2, <2>6, <3>2, Classified DEF ThreadKinds
      <4> QED  BY <2>6, <4>1
               DEF on_thread_created, on_thread_exited, With, Without, Restrict, IsIn
    <3>3. CASE r.kind \notin ThreadKinds
      <4>1. threads' = threads
        BY <2>2, <3>3, Classified
           DEF ThreadKinds, IsResult, classify_result, on_breakpoint_modified,
               on_breakpoint_deleted, execution, vars
      <4> QED  BY <2>6, <4>1 DEF IsIn
    <3> QED  BY <3>1, <3>2, <3>3 DEF ThreadKinds
  <2>7. ASSUME r \in T, r \in G PROVE IsIn(t, st)'
    <3>1. t \notin {All, NoThread} /\ r.thread = t
      BY <1>6, <2>3, <2>7, ThreadAssumption
    <3>2. CASE inferior[t] = Moving
      <4>1. r.kind = "running" /\ st = "Running"
        BY <1>6, <2>4, <2>7, <3>2 DEF StateOf
      <4>2. threads' = With(threads, t, "Running")
        BY <2>2, <3>1, <4>1, Classified DEF classify_running, Seen
      <4> QED  BY <4>1, <4>2 DEF IsIn, With
    <3>3. CASE inferior[t] # Moving
      <4>1. r.kind = "stopped" /\ st = "Stopped"
        BY <1>6, <2>4, <2>7, <3>3 DEF StateOf
      <4>2. threads' = With(threads, t, "Stopped")
        BY <2>2, <3>1, <4>1, Classified DEF classify_stopped, Seen
      <4> QED  BY <4>1, <4>2 DEF IsIn, With
    <3> QED  BY <3>2, <3>3
  <2>8. Settled(Tail(wire), T, G, b')
    <3>1. t \in DOMAIN inferior
      BY <2>2
    <3> HIDE DEF G, b
    <3> QED  BY <1>3, <1>4, <1>5, <2>1, <2>2, <2>5, <2>6, <2>7, <3>1, Read
  <2>9. G' = G
    BY <2>2
  <2> QED  BY <2>2, <2>8, <2>9
<1>9. CASE Moves
  <2>1. threads' = threads
    BY <1>9, MovesPrint DEF execution
  <2>2. PICK rs \in Seq(Records) :
           /\ wire' = wire \o rs
           /\ \/ \E c \in Records :
                   /\ Len(rs) > 0 /\ rs[Len(rs)] = c /\ c.kind = "running"
                   /\ c.thread = t /\ inferior'[t] = Moving
              \/ \E c \in Records :
                   /\ Len(rs) > 0 /\ rs[Len(rs)] = c /\ c.kind = "stopped"
                   /\ c.thread = t /\ inferior'[t] \in Locations
              \/ /\ \A i \in DOMAIN rs : rs[i].kind \in ThreadKinds
                                           => rs[i].thread \notin {t, All, NoThread}
                 /\ t \in DOMAIN inferior /\ inferior'[t] = inferior[t]
    BY <1>9, ThreadMoves
  <2>3. PICK H : H = G'
    OBVIOUS
  <2>4. ASSUME NEW c \in Records, Len(rs) > 0, rs[Len(rs)] = c, c \in T, c \in H
        PROVE  Settled(wire', T, G', b')
    <3>1. Settled(rs, T, H, FALSE)
      BY <2>4, LastRecord
    <3> HIDE DEF G, b
    <3>2. Settled(wire \o rs, T, H, b')
      BY <1>4, <1>5, <3>1, PrintGood
    <3> QED  BY <2>2, <2>3, <3>2
  <2>5. CASE \E c \in Records :
                   /\ Len(rs) > 0 /\ rs[Len(rs)] = c /\ c.kind = "running"
                   /\ c.thread = t /\ inferior'[t] = Moving
    <3>1. PICK c \in Records :
                   /\ Len(rs) > 0 /\ rs[Len(rs)] = c /\ c.kind = "running"
                   /\ c.thread = t /\ inferior'[t] = Moving
      BY <2>5
    <3>2. H = Ran
      BY <2>3, <3>1
    <3>3. c \in T /\ c \in H
      BY <1>6, <3>1, <3>2 DEF ThreadKinds
    <3> QED  BY <2>4, <3>1, <3>3
  <2>6. CASE \E c \in Records :
                   /\ Len(rs) > 0 /\ rs[Len(rs)] = c /\ c.kind = "stopped"
                   /\ c.thread = t /\ inferior'[t] \in Locations
    <3>1. PICK c \in Records :
                   /\ Len(rs) > 0 /\ rs[Len(rs)] = c /\ c.kind = "stopped"
                   /\ c.thread = t /\ inferior'[t] \in Locations
      BY <2>6
    <3>2. H = Stopped1
      BY <2>3, <3>1, MovingAssumption
    <3>3. c \in T /\ c \in H
      BY <1>6, <3>1, <3>2 DEF ThreadKinds
    <3> QED  BY <2>4, <3>1, <3>3
  <2>7. CASE /\ \A i \in DOMAIN rs : rs[i].kind \in ThreadKinds
                                       => rs[i].thread \notin {t, All, NoThread}
             /\ t \in DOMAIN inferior /\ inferior'[t] = inferior[t]
    <3>1. \A i \in DOMAIN rs : rs[i] \in Records
      BY ElementOfSeq, LenProperties
    <3>2. Untouched(rs, T)
      BY <1>6, <2>7, <3>1 DEF Untouched
    <3>3. Settled(wire \o rs, T, G, b)
      <4> HIDE DEF G, b
      <4> QED  BY <1>3, <1>4, <1>5, <2>7, <3>2, PrintOthers
    <3>4. G' = G
      BY <2>7
    <3>5. b' <=> b
      BY <2>1, <2>7 DEF IsIn, StateOf
    <3> HIDE DEF G, b
    <3> QED  BY <2>2, <3>3, <3>4, <3>5 DEF Settled
  <2> QED  BY <2>2, <2>5, <2>6, <2>7
<1> QED  BY <1>7, <1>8, <1>9, StepCases

-----------------------------------------------------------------------------
(* A frame that a record of a stop reports is a place.                     *)
LEMMA FrameOfStop ==
  ASSUME NEW r \in Records, r.kind = "stopped", r.frame # NoFrame
  PROVE  r.frame \in Locations
<1>1. CASE r \in [kind : {"stopped"}, thread : ThreadIds \cup {All, NoThread},
                  reason : {"breakpoint-hit"}, frame : Locations \cup {NoFrame}]
  BY <1>1
<1>2. CASE r \in [kind : {"stopped"}, thread : ThreadIds \cup {All, NoThread},
                  reason : ExitReasons, frame : {NoFrame}]
  BY <1>2
<1>3. r.kind \notin {"result", "running", "thread-created", "thread-exited",
                     "breakpoint-modified", "breakpoint-deleted", "other"}
  OBVIOUS
<1> QED  BY <1>1, <1>2, <1>3 DEF Records

(* A frame in the registry will be where its thread stands.                *)
LEMMA FramesKnownKept ==
  ASSUME GdbTypes, AllStop, FramesKnown, [SessionNext]_session,
         IsMap(frames, ThreadIds \cup {All}, Locations)
  PROVE  FramesKnown'
<1> SUFFICES ASSUME NEW t \in DOMAIN inferior'
             PROVE  Settled(wire, FrameRecords(t), FrameRight(t),
                            t \in DOMAIN frames => frames[t] = inferior[t])'
  BY DEF FramesKnown
<1> DEFINE T == FrameRecords(t)
<1> DEFINE G(at) == {r \in T : r.kind = "stopped" => r.frame = at}
<1> DEFINE b == t \in DOMAIN frames => frames[t] = inferior[t]
<1>1. /\ FrameRight(t) = G(inferior[t]) /\ FrameRight(t)' = G(inferior'[t])
      /\ FrameRecords(t)' = T
  BY DEF FrameRight, FrameRecords
<1>2. t \in DOMAIN inferior => Settled(wire, T, G(inferior[t]), b)
  BY <1>1 DEF FramesKnown
<1>3. b \in BOOLEAN /\ b' \in BOOLEAN
  OBVIOUS
<1> SUFFICES Settled(wire', T, G(inferior'[t]), b')
  BY <1>1
<1>4. wire \in Seq(Records) /\ DOMAIN inferior \subseteq ThreadIds
  BY DEF GdbTypes, IsMap
<1>5. /\ T \subseteq {r \in Records : r.kind \in ThreadKinds}
      /\ \A r \in Records : r \in T <=>
           \/ r.kind = "running" /\ r.thread \in {t, All, NoThread}
           \/ r.kind = "stopped" /\ r.thread = t /\ r.frame # NoFrame
      /\ \A at : \A r \in T : r \in G(at) <=> (r.kind = "stopped" => r.frame = at)
  BY DEF FrameRecords, ThreadKinds
<1> HIDE DEF T, G
<1>6. CASE StandStill
  <2>1. UNCHANGED <<frames, inferior>>
    BY <1>6, StandStillPrints DEF execution
  <2>2. Settled(wire', T, G(inferior[t]), b)
    <3> HIDE DEF b
    <3> QED  BY <1>2, <1>3, <1>5, <1>6, <2>1, StandStillSettled
  <2> QED  BY <2>1, <2>2
<1>7. CASE Receive
  <2>1. PICK r : r = Head(wire)
    OBVIOUS
  <2>2. wire # <<>> /\ r \in Records /\ classify_record(r) /\ wire' = Tail(wire)
        /\ inferior' = inferior
    BY <1>7, <2>1, TheFirst DEF Receive, gdb
  <2>3. t \in ThreadIds /\ t \notin {All, NoThread}
    BY <1>4, <2>2, ThreadAssumption
  <2>4. ASSUME r \notin T, b PROVE b'
    <3>1. CASE r.kind = "running"
      <4>1. r.thread \notin {t, All, NoThread} /\ frames' = Without(frames, r.thread)
        BY <1>5, <2>2, <2>4, <3>1, Classified DEF classify_running, Invalidated
      <4> QED  BY <2>2, <2>4, <4>1 DEF Without, Restrict
    <3>2. CASE r.kind = "stopped"
      <4>1. \/ frames' = EmptyMap \/ frames' = frames
            \/ /\ r.thread # NoThread /\ r.frame # NoFrame
               /\ frames' = With(frames, r.thread, r.frame)
        BY <2>2, <3>2, Classified DEF classify_stopped
      <4>2. r.thread # t \/ r.frame = NoFrame
        BY <1>5, <2>2, <2>4, <3>2
      <4> QED  BY <2>2, <2>4, <4>1, <4>2 DEF With, EmptyMap
    <3>3. CASE IsResult(r)
      <4>1. frames' = EmptyMap \/ frames' = frames
        BY <2>2, <3>3, Classified DEF classify_result
      <4> QED  BY <2>2, <2>4, <4>1 DEF EmptyMap
    <3>4. CASE ~IsResult(r) /\ r.kind \notin {"running", "stopped"}
      <4>1. frames' = frames
        BY <2>2, <3>4, Classified
           DEF IsResult, on_thread_created, on_thread_exited, on_breakpoint_modified,
               on_breakpoint_deleted, execution, vars
      <4> QED  BY <2>2, <2>4, <4>1
    <3> QED  BY <3>1, <3>2, <3>3, <3>4
  <2>5. ASSUME r \in T, r \in G(inferior[t]) PROVE b'
    <3>1. CASE r.kind = "running"
      <4>1. r.thread \in {t, All, NoThread} /\ frames' = Invalidated(r.thread)
        BY <1>5, <2>2, <2>5, <3>1, Classified DEF classify_running
      <4>2. t \notin DOMAIN frames'
        BY <4>1 DEF Invalidated, Without, Restrict, EmptyMap
      <4> QED  BY <4>2
    <3>2. CASE r.kind # "running"
      <4>1. r.kind = "stopped" /\ r.thread = t /\ r.frame # NoFrame /\ r.frame = inferior[t]
        BY <1>5, <2>2, <2>5, <3>2
      <4>2. PICK kept : frames' = With(kept, t, inferior[t])
        BY <2>2, <2>3, <4>1, Classified DEF classify_stopped
      <4> QED  BY <2>2, <4>2 DEF With
    <3> QED  BY <3>1, <3>2
  <2>6. Settled(Tail(wire), T, G(inferior[t]), b')
    <3>1. t \in DOMAIN inferior
      BY <2>2
    <3> HIDE DEF b
    <3> QED  BY <1>2, <1>3, <1>4, <2>1, <2>2, <2>4, <2>5, <3>1, Read
  <2> QED  BY <2>2, <2>6
<1>8. CASE Moves
  <2>1. frames' = frames
    BY <1>8, MovesPrint DEF execution
  <2>2. PICK rs \in Seq(Records) :
           /\ wire' = wire \o rs
           /\ \/ \E c \in Records :
                   /\ Len(rs) > 0 /\ rs[Len(rs)] = c /\ c.kind = "running"
                   /\ c.thread \in {t, All}
              \/ \E c \in Records :
                   /\ Len(rs) > 0 /\ rs[Len(rs)] = c /\ c.kind = "stopped"
                   /\ c.thread = t /\ c.frame = inferior'[t] /\ inferior'[t] \in Locations
              \/ /\ \A i \in DOMAIN rs : rs[i].kind \in ThreadKinds
                                           => rs[i].thread \notin {t, All, NoThread}
                 /\ t \in DOMAIN inferior
                 /\ inferior'[t] = inferior[t] \/ inferior[t] = Moving
    BY <1>8, ThreadMoves
  <2>3. ASSUME NEW c \in Records, Len(rs) > 0, rs[Len(rs)] = c, c \in T, c \in G(inferior'[t])
        PROVE  Settled(wire', T, G(inferior'[t]), b')
    <3>1. Settled(rs, T, G(inferior'[t]), FALSE)
      BY <2>3, LastRecord
    <3> HIDE DEF b
    <3>2. Settled(wire \o rs, T, G(inferior'[t]), b')
      BY <1>3, <1>4, <3>1, PrintGood
    <3> QED  BY <2>2, <3>2
  <2>4. CASE \E c \in Records :
                   /\ Len(rs) > 0 /\ rs[Len(rs)] = c /\ c.kind = "running"
                   /\ c.thread \in {t, All}
    <3>1. PICK c \in Records :
                   /\ Len(rs) > 0 /\ rs[Len(rs)] = c /\ c.kind = "running"
                   /\ c.thread \in {t, All}
      BY <2>4
    <3>2. c \in T /\ c \in G(inferior'[t])
      BY <1>5, <3>1
    <3> QED  BY <2>3, <3>1, <3>2
  <2>5. CASE \E c \in Records :
                   /\ Len(rs) > 0 /\ rs[Len(rs)] = c /\ c.kind = "stopped"
                   /\ c.thread = t /\ c.frame = inferior'[t] /\ inferior'[t] \in Locations
    <3>1. PICK c \in Records :
                   /\ Len(rs) > 0 /\ rs[Len(rs)] = c /\ c.kind = "stopped"
                   /\ c.thread = t /\ c.frame = inferior'[t] /\ inferior'[t] \in Locations
      BY <2>5
    <3>2. c \in T /\ c \in G(inferior'[t])
      BY <1>5, <3>1, FrameAssumption
    <3> QED  BY <2>3, <3>1, <3>2
  <2>6. CASE /\ \A i \in DOMAIN rs : rs[i].kind \in ThreadKinds
                                       => rs[i].thread \notin {t, All, NoThread}
             /\ t \in DOMAIN inferior
             /\ inferior'[t] = inferior[t] \/ inferior[t] = Moving
    <3>1. \A i \in DOMAIN rs : rs[i] \in Records
      BY ElementOfSeq, LenProperties
    <3>2. Untouched(rs, T)
      BY <1>5, <2>6, <3>1 DEF Untouched, ThreadKinds
    <3>3. b => b'
      <4>1. t \in DOMAIN frames => frames[t] # Moving
        BY MovingAssumption DEF IsMap
      <4> QED  BY <2>1, <2>6, <4>1
    <3>4. ASSUME NEW r \in T, r \in G(inferior[t]) PROVE r \in G(inferior'[t])
      <4>1. r \in Records
        BY <1>5
      <4>2. CASE r.kind # "stopped"
        BY <1>5, <4>2
      <4>3. CASE r.kind = "stopped"
        <5>1. r.frame = inferior[t] /\ r.frame # NoFrame
          BY <1>5, <3>4, <4>1, <4>3
        <5>2. r.frame \in Locations
          BY <4>1, <4>3, <5>1, FrameOfStop
        <5> QED  BY <1>5, <2>6, <5>1, <5>2, MovingAssumption
      <4> QED  BY <4>2, <4>3
    <3>5. Settled(wire, T, G(inferior'[t]), b')
      <4> HIDE DEF b
      <4> QED  BY <1>2, <1>3, <2>6, <3>3, <3>4, StaySettled
    <3>6. Settled(wire \o rs, T, G(inferior'[t]), b')
      <4> HIDE DEF b
      <4> QED  BY <1>3, <1>4, <3>2, <3>5, PrintOthers
    <3> QED  BY <2>2, <3>6
  <2> QED  BY <2>2, <2>4, <2>5, <2>6
<1> QED  BY <1>6, <1>7, <1>8, StepCases

-----------------------------------------------------------------------------
(* The target state will fit the process.                                  *)
LEMMA TargetKnownKept ==
  ASSUME GdbTypes, TargetKnown, [SessionNext]_session
  PROVE  TargetKnown'
<1> DEFINE T == TargetRecords
<1> DEFINE G == TargetRight
<1> DEFINE b == Fits(target)
<1>1. /\ T' = T /\ \A r : r \in G' <=> r \in T /\ Fits(TargetAfter(r))'
      /\ G = {r \in T : Fits(TargetAfter(r))} /\ G' = {r \in T : Fits(TargetAfter(r))'}
  BY DEF TargetRecords, TargetRight, TargetAfter
<1>2. b \in BOOLEAN /\ b' \in BOOLEAN
  BY DEF Fits
<1> SUFFICES Settled(wire', T, G', b')
  BY <1>1 DEF TargetKnown
<1>3. wire \in Seq(Records) /\ ThreadsExit \in Seq(Records) /\ Settled(wire, T, G, b)
  BY AllExit DEF GdbTypes, TargetKnown
<1>4. /\ T \subseteq {r \in Records : r.kind \in ThreadKinds}
      /\ \A r \in Records : r \in T <=> r.kind \in {"running", "stopped"}
      /\ \A r \in T : r \in G <=> Fits(TargetAfter(r))
  BY DEF TargetRecords, TargetRight, ThreadKinds
<1> HIDE DEF T, G
<1>5. CASE StandStill
  <2>1. UNCHANGED <<target, inferior>>
    BY <1>5, StandStillPrints DEF execution
  <2>2. Settled(wire', T, G, b)
    <3> HIDE DEF b
    <3> QED  BY <1>2, <1>3, <1>4, <1>5, StandStillSettled
  <2>3. \A s : Fits(s)' <=> Fits(s)
    BY <2>1 DEF Fits
  <2>4. b' <=> b
    BY <2>1 DEF Fits
  <2>5. G' = G
    BY <1>1, <2>3
  <2> QED  BY <2>2, <2>4, <2>5 DEF Settled
<1>6. CASE Receive
  <2>1. PICK r : r = Head(wire)
    OBVIOUS
  <2>2. wire # <<>> /\ r \in Records /\ classify_record(r) /\ wire' = Tail(wire)
        /\ inferior' = inferior
    BY <1>6, <2>1, TheFirst DEF Receive, gdb
  <2>3. \A s : Fits(s)' <=> Fits(s)
    BY <2>2 DEF Fits
  <2>4. G' = G
    BY <1>1, <2>3
  <2>5. ASSUME NEW s, target' = s, Fits(s) PROVE b'
    BY <2>2, <2>5 DEF Fits
  <2>6. ASSUME r \notin T, b PROVE b'
    <3>1. target' = target \/ target' = Unknown
      BY <1>4, <2>2, <2>6, Classified
         DEF IsResult, classify_result, on_thread_created, on_thread_exited,
             on_breakpoint_modified, on_breakpoint_deleted, execution, vars
    <3>2. Fits(Unknown)
      BY DEF Fits, Unknown
    <3> QED  BY <2>5, <2>6, <3>1, <3>2
  <2>7. ASSUME r \in T, r \in G PROVE b'
    <3>1. target' = TargetAfter(r)
      BY <1>4, <2>2, <2>7, Classified DEF TargetAfter, classify_running, classify_stopped
    <3>2. Fits(TargetAfter(r))
      BY <1>4, <2>7
    <3> QED  BY <2>5, <3>1, <3>2
  <2>8. Settled(Tail(wire), T, G, b')
    <3> HIDE DEF b
    <3> QED  BY <1>2, <1>3, <2>1, <2>2, <2>6, <2>7, Read
  <2> QED  BY <2>2, <2>4, <2>8
<1>7. CASE Moves
  <2>1. target' = target
    BY <1>7, MovesPrint DEF execution
  <2>2. DOMAIN inferior \subseteq ThreadIds
    BY DEF GdbTypes, IsMap
  <2>3. Untouched(ThreadsExit, T)
    BY <1>4, <2>2, MoveRecordTypes, ExitsOthers DEF OnThread
  <2>4. PICK H : H = G'
    OBVIOUS
  <2>5. ASSUME NEW rs \in Seq(Records), wire' = wire \o rs, Settled(rs, T, H, FALSE)
        PROVE  Settled(wire', T, G', b')
    <3> HIDE DEF b
    <3> QED  BY <1>2, <1>3, <2>4, <2>5, PrintGood
  <2>6. ASSUME NEW rs \in Seq(Records), wire' = wire \o rs, Untouched(rs, T),
               \A s : Fits(s) => Fits(s)'
        PROVE  Settled(wire', T, G', b')
    <3>1. b => b'
      BY <2>1, <2>6 DEF Fits
    <3>2. \A r : r \in T /\ r \in G => r \in H
      BY <1>1, <1>4, <2>4, <2>6
    <3> HIDE DEF b
    <3>3. Settled(wire, T, H, b')
      BY <1>2, <1>3, <3>1, <3>2, StaySettled
    <3> QED  BY <1>2, <1>3, <2>4, <2>6, <3>3, PrintOthers
  <2>7. \A r \in Records : /\ r.kind = "running" /\ Fits(Running(r.thread))' => r \in T /\ r \in H
                           /\ r.kind = "stopped" /\ Fits(TargetAfterStop(r.thread, r.reason))'
                                => r \in T /\ r \in H
    <3> SUFFICES ASSUME NEW r \in Records
                 PROVE  /\ r.kind = "running" /\ Fits(Running(r.thread))' => r \in T /\ r \in H
                        /\ r.kind = "stopped" /\ Fits(TargetAfterStop(r.thread, r.reason))'
                             => r \in T /\ r \in H
      OBVIOUS
    <3>1. r.kind = "running" => TargetAfter(r) = Running(r.thread)
      BY DEF TargetAfter
    <3>2. r.kind = "stopped" => TargetAfter(r) = TargetAfterStop(r.thread, r.reason)
      BY DEF TargetAfter
    <3> QED  BY <1>1, <1>4, <2>4, <3>1, <3>2
  <2> HIDE DEF b
  <2>8. CASE Run
    <3>1. PICK a, s, c : RunPrints(a, s, c)
      BY <2>8, RunPrinted
    <3>2. inferior' = With(EmptyMap, MainThread, Moving)
      BY <2>8 DEF Run
    <3>3. a \in Records /\ s \in Records /\ c \in Records
      BY <3>1 DEF RunPrints
    <3>4. c.kind = "running" /\ c.thread \in {MainThread, All}
      BY <3>1 DEF RunPrints, OnRunning
    <3>5. Fits(Running(c.thread))'
      BY <3>2, <3>4, ThreadAssumption, MainAssumption DEF Fits, Running, With, EmptyMap
    <3>6. c \in T /\ c \in H
      BY <2>7, <3>3, <3>4, <3>5
    <3>7. <<a, s, c>> \in Seq(Records) /\ Settled(<<a, s, c>>, T, H, FALSE)
      BY <3>3, <3>6, Three
    <3>8. Settled(ThreadsExit \o <<a, s, c>>, T, H, FALSE)
      BY <1>3, <3>7, PrintGood
    <3>9. ThreadsExit \o <<a, s, c>> \in Seq(Records)
      BY <1>3, <3>7, ConcatProperties
    <3> QED  BY <2>5, <3>1, <3>8, <3>9 DEF RunPrints
  <2>9. CASE Continue
    <3>1. PICK s, c : /\ s \in Records /\ s.kind = "result"
                      /\ c \in Records /\ c = OnRunning(Arg) /\ wire' = wire \o <<s, c>>
      BY <2>9, ContinuePrinted
    <3> s \in Records /\ c \in Records
      BY <3>1
    <3>2. c.kind = "running" /\ c.thread = IF nonStop THEN Arg ELSE All
      BY <3>1 DEF OnRunning
    <3>3. PICK u : u = c.thread
      OBVIOUS
    <3>4. u \in DOMAIN inferior' => inferior'[u] = Moving
      BY <2>2, <2>9, <3>2, <3>3, ThreadAssumption DEF Continue
    <3>5. Fits(Running(u))'
      BY <3>4 DEF Fits, Running
    <3>6. c \in T /\ c \in H
      BY <2>7, <3>2, <3>3, <3>5
    <3>7. <<s, c>> \in Seq(Records) /\ Settled(<<s, c>>, T, H, FALSE)
      BY <3>6, Two
    <3> QED  BY <2>5, <3>1, <3>7
  <2>10. CASE Detach
    <3>1. PICK s : s \in Records /\ s.kind = "result" /\ wire' = wire \o (ThreadsExit \o <<s>>)
      BY <2>10, DetachPrinted
    <3> s \in Records
      BY <3>1
    <3>2. <<s>> \in Seq(Records) /\ Untouched(<<s>>, T)
      BY <1>4, <3>1, One
    <3>3. Untouched(ThreadsExit \o <<s>>, T) /\ ThreadsExit \o <<s>> \in Seq(Records)
      BY <1>3, <2>3, <3>2, OthersTwice, ConcatProperties
    <3>4. \A v : Fits(v) => Fits(v)'
      BY <2>10 DEF Detach, Fits, EmptyMap
    <3> QED  BY <2>6, <3>1, <3>3, <3>4
  <2>11. CASE Spawn
    <3>1. PICK u \in ThreadIds \ DOMAIN inferior : \E a, c :
           /\ a \in Records
           /\ c \in Records /\ c = [kind |-> "running", thread |-> u]
           /\ wire' = wire \o <<a, c>> /\ inferior' = With(inferior, u, Moving)
      BY <2>11, SpawnPrinted
    <3>2. PICK a, c :
           /\ a \in Records
           /\ c \in Records /\ c = [kind |-> "running", thread |-> u]
           /\ wire' = wire \o <<a, c>> /\ inferior' = With(inferior, u, Moving)
      BY <3>1
    <3> a \in Records /\ c \in Records
      BY <3>2
    <3>3. c.kind = "running" /\ c.thread = u
      BY <3>2
    <3>4. Fits(Running(u))'
      BY <3>2 DEF Fits, Running, With
    <3>5. c \in T /\ c \in H
      BY <2>7, <3>3, <3>4
    <3>6. <<a, c>> \in Seq(Records) /\ Settled(<<a, c>>, T, H, FALSE)
      BY <3>5, Two
    <3> QED  BY <2>5, <3>2, <3>6
  <2>12. CASE Stop
    <3>1. PICK u \in Movers, where \in [DOMAIN inferior -> Locations] : \E a :
           /\ u \in ThreadIds /\ where[u] \in Locations
           /\ a \in Records /\ a = OnStopped(u, "breakpoint-hit", where[u])
           /\ wire' = wire \o <<a>>
           /\ inferior' = [v \in DOMAIN inferior |->
                            IF nonStop /\ v # u THEN inferior[v] ELSE where[v]]
      BY <2>12, StopPrinted
    <3>2. PICK a : /\ a \in Records /\ a = OnStopped(u, "breakpoint-hit", where[u])
                   /\ wire' = wire \o <<a>>
      BY <3>1
    <3> a \in Records
      BY <3>2
    <3>3. a.kind = "stopped" /\ a.thread = u /\ a.reason = "breakpoint-hit"
      BY <3>2 DEF OnStopped
    <3>4. TargetAfterStop(u, "breakpoint-hit") = Stopped(u)
      BY DEF TargetAfterStop, ExitReasons
    <3>5. u \in DOMAIN inferior' => inferior'[u] = where[u]
      BY <3>1
    <3>6. where[u] # Moving /\ u # NoThread
      BY <3>1, MovingAssumption, ThreadAssumption
    <3>7. Fits(Stopped(u))'
      BY <3>5, <3>6 DEF Fits, Stopped
    <3>8. a \in T /\ a \in H
      BY <2>7, <3>3, <3>4, <3>7
    <3>9. <<a>> \in Seq(Records) /\ Settled(<<a>>, T, H, FALSE)
      BY <3>8, One
    <3> QED  BY <2>5, <3>2, <3>9
  <2>13. CASE ThreadExit
    <3>1. PICK u \in Movers : \E a :
           /\ u \in ThreadIds /\ a \in Records /\ a = OnThread("thread-exited", u)
           /\ wire' = wire \o <<a>> /\ inferior' = Without(inferior, u)
      BY <2>13, ThreadExitPrinted
    <3>2. PICK a : /\ a \in Records /\ a = OnThread("thread-exited", u)
                   /\ wire' = wire \o <<a>>
      BY <3>1
    <3> a \in Records
      BY <3>2
    <3>3. <<a>> \in Seq(Records) /\ Untouched(<<a>>, T)
      BY <1>4, <3>2, One DEF OnThread
    <3>4. inferior # EmptyMap
      BY <3>1 DEF Movers, EmptyMap
    <3>5. \A v : Fits(v) => Fits(v)'
      BY <3>1, <3>4 DEF Fits, Without, Restrict
    <3> QED  BY <2>6, <3>2, <3>3, <3>5
  <2>14. CASE ProcessExit
    <3>1. PICK reason \in ExitReasons : \E a :
           /\ a \in Records /\ a = OnStopped(NoThread, reason, NoFrame)
           /\ wire' = wire \o (ThreadsExit \o <<a>>)
      BY <2>14, ProcessExitPrinted
    <3>2. PICK a : /\ a \in Records /\ a = OnStopped(NoThread, reason, NoFrame)
                   /\ wire' = wire \o (ThreadsExit \o <<a>>)
      BY <3>1
    <3> a \in Records
      BY <3>2
    <3>3. a.kind = "stopped" /\ a.thread = NoThread /\ a.reason = reason
      BY <3>2 DEF OnStopped
    <3>4. TargetAfterStop(NoThread, reason) = Exited
      BY DEF TargetAfterStop
    <3>5. Fits(Exited)'
      BY <2>14 DEF ProcessExit, Fits, Exited
    <3>6. a \in T /\ a \in H
      BY <2>7, <3>3, <3>4, <3>5
    <3>7. <<a>> \in Seq(Records) /\ Settled(<<a>>, T, H, FALSE)
      BY <3>6, One
    <3>8. Settled(ThreadsExit \o <<a>>, T, H, FALSE) /\ ThreadsExit \o <<a>> \in Seq(Records)
      BY <1>3, <3>7, PrintGood, ConcatProperties
    <3> QED  BY <2>5, <3>2, <3>8
  <2> QED  BY <1>7, <2>8, <2>9, <2>10, <2>11, <2>12, <2>13, <2>14 DEF Moves
<1> QED  BY <1>5, <1>6, <1>7, StepCases

-----------------------------------------------------------------------------
(* Every answer finds the command it answers.                              *)
LEMMA TailElements ==
  ASSUME NEW S, NEW s \in Seq(S), s # <<>>
  PROVE  /\ \A i \in DOMAIN Tail(s) : i \in Nat /\ i + 1 \in DOMAIN s /\ Tail(s)[i] = s[i + 1]
         /\ 1 \in DOMAIN s /\ Head(s) = s[1]
<1>1. /\ Len(s) \in Nat /\ Len(s) >= 1 /\ DOMAIN s = 1..Len(s)
      /\ DOMAIN Tail(s) = 1..(Len(s) - 1)
      /\ \A i \in DOMAIN Tail(s) : Tail(s)[i] = s[i + 1]
      /\ Head(s) = s[1]
  BY HeadTailProperties, LenProperties, EmptySeq
<1> QED  BY <1>1

LEMMA PendingKept ==
  ASSUME GdbTypes, IsMap(pending, 1..(tokens - 1), Infos), PendingInv, [SessionNext]_session
  PROVE  PendingInv'
<1>1. outbound \in Seq(Commands) /\ wire \in Seq(Records) /\ tokens \in Nat
      /\ tokens \notin DOMAIN pending
  BY DEF GdbTypes, IsMap
<1>2. CASE Submit
  <2>1. PICK c \in Commands : \E info \in InfoOf(c) :
          /\ c.token = tokens /\ Enqueue(c.name, c.arg, info) /\ outbound' = Append(outbound, c)
          /\ UNCHANGED <<wire, gdb>>
    BY <1>2, Submitted
  <2>2. PICK info \in InfoOf(c) : Enqueue(c.name, c.arg, info)
    BY <2>1
  <2>3. pending' = With(pending, tokens, info)
    BY <2>2 DEF Enqueue
  <2>4. /\ DOMAIN pending' = DOMAIN pending \cup {tokens} /\ pending'[tokens] = info
        /\ \A n \in DOMAIN pending : pending'[n] = pending[n]
    BY <1>1, <2>3 DEF With
  <2> DEFINE n == Len(outbound)
  <2>5. /\ DOMAIN outbound = 1..n /\ n \in Nat
        /\ DOMAIN outbound' = 1..(n + 1) /\ outbound'[n + 1] = c
        /\ \A i \in 1..n : outbound'[i] = outbound[i]
    BY <1>1, <2>1, AppendProperties, LenProperties
  <2> HIDE DEF n
  <2>6. wire' = wire
    BY <2>1
  <2>7. \A i \in DOMAIN outbound' : i \in DOMAIN outbound \/ i = n + 1
    BY <2>5
  <2>8. n + 1 \notin DOMAIN outbound
    BY <2>5
  <2>9. ASSUME NEW i \in DOMAIN outbound'
        PROVE  /\ outbound'[i].token \in DOMAIN pending'
               /\ pending'[outbound'[i].token] \in InfoOf(outbound'[i])
               /\ \A j \in DOMAIN outbound' : outbound'[i].token = outbound'[j].token => i = j
               /\ \A j \in DOMAIN wire : IsResult(wire[j]) => outbound'[i].token # wire[j].token
    <3>1. \A j \in DOMAIN outbound : outbound'[j] = outbound[j] /\ outbound[j].token # tokens
      BY <1>1, <2>5 DEF PendingInv
    <3>2. CASE i \in DOMAIN outbound
      BY <2>1, <2>4, <2>5, <2>7, <3>1, <3>2 DEF PendingInv
    <3>3. CASE i = n + 1
      <4>1. outbound'[i] = c /\ outbound'[i].token = tokens
        BY <2>1, <2>5, <3>3
      <4>2. \A j \in DOMAIN wire : IsResult(wire[j]) => tokens # wire[j].token
        BY <1>1 DEF PendingInv
      <4> QED  BY <2>2, <2>4, <2>7, <3>1, <3>3, <4>1, <4>2
    <3> QED  BY <2>7, <3>2, <3>3
  <2>10. \A i \in DOMAIN wire : IsResult(wire[i]) =>
           /\ wire[i].token \in DOMAIN pending'
           /\ \A j \in DOMAIN wire :
                IsResult(wire[j]) /\ wire[i].token = wire[j].token => i = j
    BY <2>4 DEF PendingInv
  <2> QED  BY <2>6, <2>9, <2>10 DEF PendingInv
<1>3. CASE Receive
  <2>1. PICK r : r = Head(wire)
    OBVIOUS
  <2>2. wire # <<>> /\ r \in Records /\ classify_record(r) /\ wire' = Tail(wire)
    BY <1>3, <2>1, TheFirst DEF Receive
  <2>3. outbound' = outbound
    BY <2>2, Classified
  <2>4. \A n : n \in DOMAIN pending /\ (IsResult(r) => n # r.token)
                 => n \in DOMAIN pending' /\ pending'[n] = pending[n]
    <3>1. CASE IsResult(r)
      <4>1. pending' = Without(pending, r.token)
        BY <2>2, <3>1, Classified DEF classify_result
      <4> QED  BY <3>1, <4>1 DEF Without, Restrict
    <3>2. CASE ~IsResult(r)
      BY <2>2, <3>2, Classified
    <3> QED  BY <3>1, <3>2
  <2>5. /\ \A i \in DOMAIN wire' : i \in Nat /\ i + 1 \in DOMAIN wire /\ wire'[i] = wire[i + 1]
        /\ 1 \in DOMAIN wire /\ r = wire[1]
    BY <1>1, <2>1, <2>2, TailElements
  <2>6. \A i \in DOMAIN outbound : IsResult(r) => outbound[i].token # r.token
    BY <2>5 DEF PendingInv
  <2>7. ASSUME NEW i \in DOMAIN wire', IsResult(wire'[i])
        PROVE  /\ wire'[i].token \in DOMAIN pending'
               /\ \A j \in DOMAIN wire' :
                    IsResult(wire'[j]) /\ wire'[i].token = wire'[j].token => i = j
    <3>1. i + 1 \in DOMAIN wire /\ wire'[i] = wire[i + 1] /\ i \in Nat
      BY <2>5
    <3>2. i + 1 # 1
      <4>1. i # 0
        BY <1>1, <2>2, HeadTailProperties, LenProperties
      <4> QED  BY <3>1, <4>1
    <3>3. wire[i + 1].token \in DOMAIN pending /\ (IsResult(r) => wire[i + 1].token # r.token)
      BY <2>5, <2>7, <3>1, <3>2 DEF PendingInv
    <3>4. wire'[i].token \in DOMAIN pending'
      BY <2>4, <3>1, <3>3
    <3>5. ASSUME NEW j \in DOMAIN wire', IsResult(wire'[j]), wire'[i].token = wire'[j].token
          PROVE  i = j
      <4>1. j + 1 \in DOMAIN wire /\ wire'[j] = wire[j + 1] /\ j \in Nat
        BY <2>5
      <4>2. i + 1 = j + 1
        BY <2>7, <3>1, <3>5, <4>1 DEF PendingInv
      <4> QED  BY <3>1, <4>1, <4>2
    <3> QED  BY <3>4, <3>5
  <2>8. ASSUME NEW i \in DOMAIN outbound
        PROVE  /\ outbound[i].token \in DOMAIN pending'
               /\ pending'[outbound[i].token] \in InfoOf(outbound[i])
               /\ \A j \in DOMAIN outbound : outbound[i].token = outbound[j].token => i = j
               /\ \A j \in DOMAIN wire' :
                    IsResult(wire'[j]) => outbound[i].token # wire'[j].token
    BY <2>4, <2>5, <2>6 DEF PendingInv
  <2> QED  BY <2>3, <2>7, <2>8 DEF PendingInv
<1>4. CASE Answering
  <2>1. consume_outbound /\ UNCHANGED pending
    BY <1>4, AnsweringPrints DEF consume_outbound
  <2>2. PICK rs : wire' = wire \o rs /\ Reply(rs)
    BY <1>4, AnsweringPrints
  <2>3. outbound # <<>> /\ outbound' = Tail(outbound)
    BY <2>1 DEF consume_outbound
  <2>4. /\ \A i \in DOMAIN outbound' :
             i \in Nat /\ i + 1 \in DOMAIN outbound /\ outbound'[i] = outbound[i + 1]
        /\ 1 \in DOMAIN outbound /\ Head(outbound) = outbound[1] /\ 0 \notin DOMAIN outbound'
    BY <1>1, <2>3, TailElements, HeadTailProperties, LenProperties
  <2>5. \A i \in DOMAIN outbound' : outbound'[i].token # Head(outbound).token
    <3> SUFFICES ASSUME NEW i \in DOMAIN outbound', outbound'[i].token = Head(outbound).token
                 PROVE  FALSE
      OBVIOUS
    <3>1. i \in Nat /\ i + 1 = 1
      BY <2>4 DEF PendingInv
    <3> QED  BY <2>4, <3>1
  <2> DEFINE n == Len(wire)
  <2>6. /\ DOMAIN wire = 1..n /\ DOMAIN rs = 1..Len(rs) /\ DOMAIN wire' = 1..(n + Len(rs))
        /\ n \in Nat /\ Len(rs) \in Nat
        /\ \A i \in DOMAIN wire : wire'[i] = wire[i]
        /\ \A i \in DOMAIN rs : wire'[n + i] = rs[i]
    BY <1>1, <2>2, Concat DEF Reply
  <2> HIDE DEF n
  <2>7. ASSUME NEW i \in DOMAIN wire', i \notin DOMAIN wire
        PROVE  /\ i - n \in DOMAIN rs /\ wire'[i] = rs[i - n] /\ i \in Nat
               /\ IsResult(wire'[i]) => wire'[i].token = Head(outbound).token
    <3>1. i - n \in DOMAIN rs /\ n + (i - n) = i /\ i \in Nat
      BY <2>6, <2>7
    <3>2. wire'[i] = rs[i - n]
      BY <2>6, <3>1
    <3> QED  BY <2>2, <3>1, <3>2 DEF Reply
  <2>8. ASSUME NEW i \in DOMAIN wire', IsResult(wire'[i])
        PROVE  /\ wire'[i].token \in DOMAIN pending
               /\ \A j \in DOMAIN wire' :
                    IsResult(wire'[j]) /\ wire'[i].token = wire'[j].token => i = j
    <3>1. \A j \in DOMAIN wire :
            /\ wire'[j] = wire[j]
            /\ IsResult(wire[j]) => wire[j].token # Head(outbound).token
      BY <2>4, <2>6 DEF PendingInv
    <3>2. CASE i \in DOMAIN wire
      BY <2>7, <2>8, <3>1, <3>2 DEF PendingInv
    <3>3. CASE i \notin DOMAIN wire
      <4>1. wire'[i].token = Head(outbound).token /\ wire'[i].token \in DOMAIN pending
        BY <2>4, <2>7, <2>8, <3>3 DEF PendingInv
      <4>2. ASSUME NEW j \in DOMAIN wire', IsResult(wire'[j]), wire'[i].token = wire'[j].token
            PROVE  i = j
        <5>1. j \notin DOMAIN wire
          BY <3>1, <4>1, <4>2
        <5>2. i - n = j - n
          BY <2>2, <2>7, <2>8, <3>3, <4>2, <5>1 DEF Reply
        <5> QED  BY <2>6, <2>7, <3>3, <5>1, <5>2
      <4> QED  BY <4>1, <4>2
    <3> QED  BY <3>2, <3>3
  <2>9. ASSUME NEW i \in DOMAIN outbound'
        PROVE  /\ outbound'[i].token \in DOMAIN pending
               /\ pending[outbound'[i].token] \in InfoOf(outbound'[i])
               /\ \A j \in DOMAIN outbound' : outbound'[i].token = outbound'[j].token => i = j
               /\ \A j \in DOMAIN wire' :
                    IsResult(wire'[j]) => outbound'[i].token # wire'[j].token
    <3>1. i \in Nat /\ i + 1 \in DOMAIN outbound /\ outbound'[i] = outbound[i + 1]
      BY <2>4
    <3>2. ASSUME NEW j \in DOMAIN outbound', outbound'[i].token = outbound'[j].token
          PROVE  i = j
      <4>1. j \in Nat /\ j + 1 \in DOMAIN outbound /\ outbound'[j] = outbound[j + 1]
        BY <2>4
      <4>2. i + 1 = j + 1
        BY <3>1, <3>2, <4>1 DEF PendingInv
      <4> QED  BY <3>1, <4>1, <4>2
    <3>3. ASSUME NEW j \in DOMAIN wire', IsResult(wire'[j])
          PROVE  outbound'[i].token # wire'[j].token
      <4>1. CASE j \in DOMAIN wire
        BY <2>6, <3>1, <3>3, <4>1 DEF PendingInv
      <4>2. CASE j \notin DOMAIN wire
        BY <2>5, <2>7, <3>3, <4>2
      <4> QED  BY <4>1, <4>2
    <3> QED  BY <3>1, <3>2, <3>3 DEF PendingInv
  <2> QED  BY <2>1, <2>8, <2>9 DEF PendingInv
<1>5. CASE Unprompted
  <2>1. UNCHANGED <<pending, outbound>>
    BY <1>5, UnpromptedPrints DEF vars
  <2>2. PICK rs : wire' = wire \o rs /\ Quiet(rs)
    BY <1>5, UnpromptedPrints
  <2> DEFINE n == Len(wire)
  <2>3. /\ DOMAIN wire = 1..n /\ DOMAIN rs = 1..Len(rs) /\ DOMAIN wire' = 1..(n + Len(rs))
        /\ n \in Nat /\ Len(rs) \in Nat
        /\ \A i \in DOMAIN wire : wire'[i] = wire[i]
        /\ \A i \in DOMAIN rs : wire'[n + i] = rs[i]
    BY <1>1, <2>2, Concat DEF Quiet
  <2> HIDE DEF n
  <2>4. \A i \in DOMAIN wire' : IsResult(wire'[i]) => i \in DOMAIN wire /\ wire'[i] = wire[i]
    <3> SUFFICES ASSUME NEW i \in DOMAIN wire', IsResult(wire'[i]), i \notin DOMAIN wire
                 PROVE  FALSE
      BY <2>3
    <3>1. i - n \in DOMAIN rs /\ n + (i - n) = i
      BY <2>3
    <3>2. wire'[i] = rs[i - n]
      BY <2>3, <3>1
    <3> QED  BY <2>2, <3>1, <3>2 DEF Quiet
  <2> QED  BY <2>1, <2>4 DEF PendingInv
<1>6. CASE UNCHANGED session
  BY <1>6 DEF session, vars, gdb, PendingInv
<1> QED  BY <1>2, <1>3, <1>4, <1>5, <1>6 DEF SessionNext, Answering, Unprompted

-----------------------------------------------------------------------------
(* Once the reader has caught up, an entry that is settled is as GDB has   *)
(* it: nothing is left that touches it.                                    *)
LEMMA CaughtUp ==
  ASSUME NEW T, NEW G, NEW b, Settled(<<>>, T, G, b)
  PROVE  b
BY DEF Settled, Untouched

(* The inductive invariant of threads, frames and target.                  *)
ThreadsInv == AllStop /\ ThreadsKnown /\ StatesKnown /\ FramesKnown /\ TargetKnown

LEMMA ThreadsInvInit == SessionInit => ThreadsInv
<1> SUFFICES ASSUME SessionInit PROVE ThreadsInv
  OBVIOUS
<1>1. wire = <<>> /\ DOMAIN inferior = {} /\ DOMAIN threads = {} /\ target = Unknown
  BY DEF SessionInit, Init, EmptyMap
<1>2. \A T, G, b : b => Settled(wire, T, G, b)
  BY <1>1 DEF Settled, Untouched, LastIsGood
<1>3. AllStop /\ StatesKnown /\ FramesKnown
  BY <1>1 DEF AllStop, StatesKnown, FramesKnown
<1>4. ThreadsKnown
  BY <1>1, <1>2 DEF ThreadsKnown
<1>5. Fits(target)
  BY <1>1 DEF Fits, Unknown
<1>6. TargetKnown
  BY <1>2, <1>5 DEF TargetKnown
<1> QED  BY <1>3, <1>4, <1>6 DEF ThreadsInv

LEMMA ThreadsInvKept ==
  ASSUME GdbTypes, TypeOK, ThreadsInv, [SessionNext]_session
  PROVE  ThreadsInv'
<1>1. IsMap(frames, ThreadIds \cup {All}, Locations)
  BY DEF TypeOK
<1> QED  BY <1>1, AllStopKept, ThreadsKnownKept, StatesKnownKept, FramesKnownKept,
            TargetKnownKept DEF ThreadsInv

(* Of the records on the wire that touch a thread, its frame or the        *)
(* target state, the last one tells what GDB has.                          *)
THEOREM SessionThreads == SessionSpec => []ThreadsInv
BY ThreadsInvInit, ThreadsInvKept, SessionTypes, SessionTypeOK, PTL DEF SessionSpec

(* Once the reader has caught up with GDB, the thread registry has the     *)
(* threads of the process and, in non-stop mode, what each of them does;   *)
(* a frame is where its thread stands.                                     *)
THEOREM RegistriesCaughtUp == SessionSpec => []RegistriesAreCurrent
<1>1. ThreadsInv /\ GdbTypes /\ TypeOK => RegistriesAreCurrent
  <2> SUFFICES ASSUME ThreadsInv, GdbTypes, TypeOK, wire = <<>>
               PROVE  /\ DOMAIN threads = DOMAIN inferior
                      /\ nonStop => \A t \in DOMAIN inferior : threads[t] = StateOf(t)
                      /\ \A t \in DOMAIN frames \cap DOMAIN inferior : frames[t] = inferior[t]
    BY DEF RegistriesAreCurrent, StateOf
  <2>1. DOMAIN threads \subseteq ThreadIds /\ DOMAIN inferior \subseteq ThreadIds
    BY DEF TypeOK, GdbTypes, IsMap
  <2>2. \A t \in ThreadIds : t \in DOMAIN threads <=> t \in DOMAIN inferior
    BY CaughtUp DEF ThreadsInv, ThreadsKnown
  <2>3. nonStop => \A t \in DOMAIN inferior : IsIn(t, StateOf(t))
    BY CaughtUp DEF ThreadsInv, StatesKnown
  <2>4. \A t \in DOMAIN inferior : t \in DOMAIN frames => frames[t] = inferior[t]
    BY CaughtUp DEF ThreadsInv, FramesKnown
  <2> QED  BY <2>1, <2>2, <2>3, <2>4 DEF IsIn
<1> QED  BY <1>1, SessionThreads, SessionTypes, SessionTypeOK, PTL

(* Once the reader has caught up with GDB, the target state does not       *)
(* contradict the process.                                                 *)
THEOREM TargetCaughtUp == SessionSpec => []TargetIsCurrent
<1>1. ThreadsInv => TargetIsCurrent
  <2> SUFFICES ASSUME ThreadsInv, wire = <<>> PROVE Fits(target)
    BY DEF TargetIsCurrent, Fits
  <2> QED  BY CaughtUp DEF ThreadsInv, TargetKnown
<1> QED  BY <1>1, SessionThreads, PTL

-----------------------------------------------------------------------------
(* The commands that the results on the wire answer stay what they were.   *)
LEMMA SameCommands ==
  ASSUME GdbTypes, IsMap(pending, 1..(tokens - 1), Infos), PendingInv, [SessionNext]_session
  PROVE  \A i \in DOMAIN wire' : wire'[i] \in Records
           /\ (IsResult(wire'[i]) =>
                 /\ wire'[i].token \in DOMAIN pending /\ wire'[i].token \in DOMAIN pending'
                 /\ pending'[wire'[i].token] = pending[wire'[i].token])
<1>1. PendingInv'
  BY PendingKept
<1>2. \A i \in DOMAIN wire' : IsResult(wire'[i]) => wire'[i].token \in DOMAIN pending'
  BY <1>1 DEF PendingInv
<1>3. \A i \in DOMAIN wire' : wire'[i] \in Records
  <2>1. wire' \in Seq(Records)
    BY GdbTypesKept DEF GdbTypes
  <2> QED  BY <2>1, ElementOfSeq, LenProperties
<1>4. CASE Submit
  <2>1. PICK c \in Commands : \E info \in InfoOf(c) : Enqueue(c.name, c.arg, info)
    BY <1>4, Submitted
  <2>2. wire' = wire
    BY <1>4 DEF Submit
  <2>3. \A n \in DOMAIN pending : pending'[n] = pending[n]
    BY <2>1 DEF Enqueue, With, IsMap, GdbTypes
  <2> QED  BY <1>2, <1>3, <2>2, <2>3 DEF PendingInv
<1>5. CASE Receive
  <2>1. \A n \in DOMAIN pending' : n \in DOMAIN pending /\ pending'[n] = pending[n]
    <3>1. PICK r : r = Head(wire)
      OBVIOUS
    <3>2. r \in Records /\ classify_record(r)
      BY <1>5, <3>1, TheFirst DEF Receive
    <3>3. CASE IsResult(r)
      <4>1. pending' = Without(pending, r.token)
        BY <3>2, <3>3, Classified DEF classify_result
      <4> QED  BY <4>1 DEF Without, Restrict
    <3>4. CASE ~IsResult(r)
      BY <3>2, <3>4, Classified
    <3> QED  BY <3>3, <3>4
  <2> QED  BY <1>2, <1>3, <2>1
<1>6. CASE UNCHANGED pending
  BY <1>2, <1>3, <1>6
<1>7. Answering \/ Unprompted \/ UNCHANGED session => UNCHANGED pending
  BY AnsweringPrints, UnpromptedPrints DEF consume_outbound, session, vars
<1> QED  BY <1>4, <1>5, <1>6, <1>7 DEF SessionNext, Answering, Unprompted

-----------------------------------------------------------------------------
(* Every answer GDB prints is one result, with the records of threads that *)
(* go with it; s is the result of the command that c is.                   *)
Carries(rs, s) ==
  /\ rs \in Seq(Records) /\ s \in Records
  /\ IsResult(s) /\ s.token = Head(outbound).token
  /\ \E i \in DOMAIN rs : rs[i] = s
  /\ \A i \in DOMAIN rs : rs[i] = s \/ rs[i].kind \in ThreadKinds \cup {"other"}

Answered(s, c) ==
  \/ /\ c.name \in {"exec-run", "exec-continue", "target-detach"} \/ s.class = "error"
     /\ UNCHANGED <<gdbBreaks, gdbVars>> /\ (unseen' \/ UNCHANGED <<gdbFeatures, unseen>>)
  \/ /\ c.name = "target-select" /\ s.class = "connected" /\ s.results = EmptyMap
     /\ UNCHANGED <<gdbBreaks, gdbVars>> /\ unseen' = ~Routes
  \/ /\ c.name = "list-target-features" /\ s.class = "done"
     /\ s.results = [features |-> gdbFeatures] /\ UNCHANGED <<gdbBreaks, gdbVars, gdbFeatures>>
     /\ unseen' = (unseen /\ ~Routes)
  \/ /\ c.name = "break-insert" /\ s.class = "done"
     /\ \E e \in BOOLEAN :
          /\ s.results = [bkpt |-> [number |-> c.arg, enabled |-> e]]
          /\ gdbBreaks' = IF Routes THEN With(gdbBreaks, c.arg, e) ELSE gdbBreaks
     /\ UNCHANGED <<gdbVars, gdbFeatures, unseen>>
  \/ /\ c.name = "var-create" /\ s.class = "done"
     /\ \E v \in Values :
          /\ s.results = [name |-> Parent, value |-> v]
          /\ gdbVars' = IF Routes THEN With(gdbVars, Parent, v) ELSE gdbVars
     /\ UNCHANGED <<gdbBreaks, gdbFeatures, unseen>>
  \/ /\ c.name = "var-update" /\ s.class = "done"
     /\ \E changes \in Maps({Parent, Child}, Values) :
          /\ s.results = [changelist |-> changes]
          /\ gdbVars' = IF Routes
                        THEN [n \in DOMAIN gdbVars \cup DOMAIN changes |->
                               IF n \in DOMAIN changes THEN changes[n] ELSE gdbVars[n]]
                        ELSE gdbVars
     /\ UNCHANGED <<gdbBreaks, gdbFeatures, unseen>>
  \/ /\ c.name = "var-delete" /\ gdbVars' = EmptyMap
     /\ UNCHANGED <<gdbBreaks, gdbFeatures, unseen>>

LEMMA CarriesOne ==
  ASSUME NEW s \in Records, IsResult(s), s.token = Head(outbound).token
  PROVE  Carries(<<s>>, s)
<1>1. <<s>> \in Seq(Records) /\ DOMAIN <<s>> = {1} /\ <<s>>[1] = s
  OBVIOUS
<1> QED  BY <1>1 DEF Carries

LEMMA CarriesMore ==
  ASSUME NEW rs \in Seq(Records), NEW us, NEW s, Carries(us, s),
         \A i \in DOMAIN rs : rs[i].kind \in ThreadKinds \cup {"other"}
  PROVE  Carries(rs \o us, s)
<1> DEFINE v == rs \o us
<1> DEFINE n == Len(rs)
<1>1. /\ v \in Seq(Records)
      /\ DOMAIN rs = 1..n /\ DOMAIN us = 1..Len(us) /\ DOMAIN v = 1..(n + Len(us))
      /\ n \in Nat /\ Len(us) \in Nat
      /\ \A i \in DOMAIN rs : v[i] = rs[i]
      /\ \A i \in DOMAIN us : v[n + i] = us[i]
  BY Concat DEF Carries
<1> HIDE DEF v, n
<1>2. \E i \in DOMAIN v : v[i] = s
  <2>1. PICK i \in DOMAIN us : us[i] = s
    BY DEF Carries
  <2>2. n + i \in DOMAIN v /\ v[n + i] = s
    BY <1>1, <2>1
  <2> QED  BY <2>2
<1>3. ASSUME NEW i \in DOMAIN v
      PROVE  v[i] = s \/ v[i].kind \in ThreadKinds \cup {"other"}
  <2>1. CASE i \in DOMAIN rs
    BY <1>1, <2>1
  <2>2. CASE i \notin DOMAIN rs
    <3>1. i - n \in DOMAIN us /\ n + (i - n) = i
      BY <1>1, <2>2
    <3>2. v[i] = us[i - n]
      BY <1>1, <3>1
    <3> QED  BY <3>1, <3>2 DEF Carries
  <2> QED  BY <2>1, <2>2
<1> QED  BY <1>1, <1>2, <1>3 DEF Carries, v

(* The records with the answer to -exec-run, -exec-continue, -target-select. *)
LEMMA CarriesTwo ==
  ASSUME NEW s \in Records, IsResult(s), s.token = Head(outbound).token,
         NEW a \in Records, a.kind \in ThreadKinds \cup {"other"}
  PROVE  Carries(<<s, a>>, s) /\ Carries(<<a, s>>, s)
<1>1. /\ <<s, a>> \in Seq(Records) /\ DOMAIN <<s, a>> = 1..2
      /\ <<s, a>>[1] = s /\ <<s, a>>[2] = a
      /\ <<a, s>> \in Seq(Records) /\ DOMAIN <<a, s>> = 1..2
      /\ <<a, s>>[1] = a /\ <<a, s>>[2] = s
  OBVIOUS
<1>2. \A i \in 1..2 : i = 1 \/ i = 2
  OBVIOUS
<1> QED  BY <1>1, <1>2 DEF Carries

LEMMA CarriesMiddle ==
  ASSUME NEW s \in Records, IsResult(s), s.token = Head(outbound).token,
         NEW a \in Records, a.kind \in ThreadKinds, NEW c \in Records, c.kind \in ThreadKinds
  PROVE  Carries(<<a, s, c>>, s)
<1> DEFINE w == <<a, s, c>>
<1>1. w \in Seq(Records) /\ DOMAIN w = 1..3 /\ w[1] = a /\ w[2] = s /\ w[3] = c
  OBVIOUS
<1>2. \A i \in 1..3 : i = 1 \/ i = 2 \/ i = 3
  OBVIOUS
<1> HIDE DEF w
<1>3. Carries(w, s)
  BY <1>1, <1>2 DEF Carries
<1> QED  BY <1>3 DEF w

LEMMA Said ==
  ASSUME GdbTypes, Answering
  PROVE  \E rs, s : wire' = wire \o rs /\ Carries(rs, s) /\ Answered(s, Head(outbound))
<1>1. outbound # <<>> /\ {"done", "running", "connected", "error"} \subseteq Classes
  BY AnsweringPrints DEF consume_outbound, Classes
<1>2. ThreadsExit \in Seq(Records) /\ \A i \in DOMAIN ThreadsExit : ThreadsExit[i].kind \in ThreadKinds
  BY AllExit DEF OnThread, ThreadKinds
<1>3. ASSUME NEW class \in {"done", "running", "connected", "error"}, NEW results \in Results,
             NEW s, s = Says(class, results)
      PROVE  /\ s \in Records /\ IsResult(s) /\ s.token = Head(outbound).token
             /\ s.class = class /\ s.results = results /\ Carries(<<s>>, s)
  <2>1. s \in Records /\ IsResult(s) /\ s.token = Head(outbound).token
        /\ s.class = class /\ s.results = results
    BY <1>1, <1>3, SaysType
  <2> QED  BY <2>1, CarriesOne
<1>4. EmptyMap \in Results
  BY AnswerTypes
<1>5. CASE Run
  <2>0. PICK s : s = Says("running", EmptyMap)
    OBVIOUS
  <2>00. Carries(<<s>>, s)
    BY <1>3, <1>4, <2>0
  <2>1. s \in Records /\ IsResult(s) /\ s.token = Head(outbound).token
    BY <2>00 DEF Carries
  <2>2. PICK a, d : a = OnThread("thread-created", MainThread) /\ d = OnRunning(MainThread)
    OBVIOUS
  <2>3. a \in Records /\ d \in Records
    BY <2>2, MoveRecordTypes, MainAssumption
  <2>4. a.kind \in ThreadKinds /\ d.kind \in ThreadKinds
    BY <2>2 DEF OnThread, OnRunning, ThreadKinds
  <2>5. Carries(ThreadsExit \o <<a, s, d>>, s)
    BY <1>2, <2>1, <2>3, <2>4, CarriesMiddle, CarriesMore
  <2>6. wire' = wire \o (ThreadsExit \o <<a, s, d>>)
    BY <1>5, <2>0, <2>2 DEF Run, Serve
  <2>7. Answered(s, Head(outbound))
    BY <1>5 DEF Run, Serve, Answered
  <2> QED  BY <2>5, <2>6, <2>7
<1>6. CASE Continue
  <2>0. PICK s : s = Says("running", EmptyMap)
    OBVIOUS
  <2>00. Carries(<<s>>, s)
    BY <1>3, <1>4, <2>0
  <2>1. s \in Records /\ IsResult(s) /\ s.token = Head(outbound).token
    BY <2>00 DEF Carries
  <2>2. PICK d : d = OnRunning(Arg)
    OBVIOUS
  <2>3. d \in Records
    BY <1>6, <2>2, ContinuePrinted, MoveRecordTypes
  <2>4. d.kind \in ThreadKinds
    BY <2>2 DEF OnRunning, ThreadKinds
  <2>5. Carries(<<s, d>>, s)
    BY <2>1, <2>3, <2>4, CarriesTwo
  <2>6. wire' = wire \o <<s, d>>
    BY <1>6, <2>0, <2>2 DEF Continue, Serve
  <2>7. Answered(s, Head(outbound))
    BY <1>6 DEF Continue, Serve, Answered
  <2> QED  BY <2>5, <2>6, <2>7
<1>7. CASE Detach
  <2>10. PICK s : s = Done(EmptyMap)
    OBVIOUS
  <2>1. s \in Records /\ Carries(<<s>>, s)
    BY <1>3, <1>4, <2>10 DEF Done
  <2>2. Carries(ThreadsExit \o <<s>>, s)
    BY <1>2, <2>1, CarriesMore
  <2>3. wire' = wire \o (ThreadsExit \o <<s>>)
    BY <1>7, <2>10 DEF Detach, Serve
  <2>4. Answered(s, Head(outbound))
    BY <1>7 DEF Detach, Serve, Answered
  <2> QED  BY <2>2, <2>3, <2>4
<1>8. CASE Select
  <2>10. PICK s : s = Says("connected", EmptyMap)
    OBVIOUS
  <2>11. Carries(<<s>>, s) /\ s.class = "connected" /\ s.results = EmptyMap
    BY <1>3, <1>4, <2>10
  <2>1. s \in Records /\ IsResult(s) /\ s.token = Head(outbound).token
        /\ s.class = "connected" /\ s.results = EmptyMap
    BY <2>11 DEF Carries
  <2>2. PICK a : a = [kind |-> "other"]
    OBVIOUS
  <2>3. a \in Records /\ a.kind = "other"
    BY <2>2, RecordTypes
  <2>4. Carries(<<a, s>>, s)
    BY <2>1, <2>3, CarriesTwo
  <2>5. wire' = wire \o <<a, s>>
    BY <1>8, <2>10, <2>2 DEF Select, Serve
  <2>6. Answered(s, Head(outbound))
    BY <1>8, <2>1 DEF Select, Serve, Answered
  <2> QED  BY <2>4, <2>5, <2>6
<1>9. CASE ListFeatures
  <2>10. PICK s : s = Done([features |-> gdbFeatures])
    OBVIOUS
  <2>1. Carries(<<s>>, s) /\ s.class = "done" /\ s.results = [features |-> gdbFeatures]
    BY <1>3, AnswerTypes, <2>10 DEF Done, GdbTypes
  <2>2. Answered(s, Head(outbound))
    BY <1>9, <2>1 DEF ListFeatures, Serve, Answered
  <2> QED  BY <1>9, <2>10, <2>1, <2>2 DEF ListFeatures, Serve
<1>10. CASE BreakInsert
  <2>1. PICK e \in BOOLEAN :
          /\ Serve("break-insert", <<Done([bkpt |-> [number |-> Arg, enabled |-> e]])>>)
          /\ gdbBreaks' = IF Routes THEN With(gdbBreaks, Arg, e) ELSE gdbBreaks
    BY <1>10 DEF BreakInsert
  <2>2. Arg \in BreakIds
    BY <2>1, ThisCommand DEF Serve, consume_outbound, Arg
  <2>30. PICK s : s = Done([bkpt |-> [number |-> Arg, enabled |-> e]])
    OBVIOUS
  <2>3. Carries(<<s>>, s) /\ s.class = "done"
        /\ s.results = [bkpt |-> [number |-> Arg, enabled |-> e]]
    BY <1>3, <2>2, AnswerTypes, <2>30 DEF Done
  <2>4. Answered(s, Head(outbound))
    BY <1>10, <2>1, <2>3 DEF BreakInsert, Serve, Answered, Arg
  <2> QED  BY <2>1, <2>30, <2>3, <2>4 DEF Serve
<1>11. CASE VarCreate
  <2>1. PICK v \in Values :
          /\ Serve("var-create", <<Done([name |-> Parent, value |-> v])>>)
          /\ gdbVars' = IF Routes THEN With(gdbVars, Parent, v) ELSE gdbVars
    BY <1>11 DEF VarCreate
  <2>20. PICK s : s = Done([name |-> Parent, value |-> v])
    OBVIOUS
  <2>2. Carries(<<s>>, s) /\ s.class = "done"
        /\ s.results = [name |-> Parent, value |-> v]
    BY <1>3, AnswerTypes, <2>20 DEF Done
  <2>3. Answered(s, Head(outbound))
    BY <1>11, <2>1, <2>2 DEF VarCreate, Serve, Answered
  <2> QED  BY <2>1, <2>20, <2>2, <2>3 DEF Serve
<1>12. CASE VarUpdate
  <2>1. PICK changes \in Maps({Parent, Child}, Values) :
          /\ Serve("var-update", <<Done([changelist |-> changes])>>)
          /\ gdbVars' = IF Routes
                        THEN [n \in DOMAIN gdbVars \cup DOMAIN changes |->
                               IF n \in DOMAIN changes THEN changes[n] ELSE gdbVars[n]]
                        ELSE gdbVars
    BY <1>12 DEF VarUpdate
  <2>20. PICK s : s = Done([changelist |-> changes])
    OBVIOUS
  <2>2. Carries(<<s>>, s) /\ s.class = "done"
        /\ s.results = [changelist |-> changes]
    BY <1>3, AnswerTypes, <2>20 DEF Done
  <2>3. Answered(s, Head(outbound))
    BY <1>12, <2>1, <2>2 DEF VarUpdate, Serve, Answered
  <2> QED  BY <2>1, <2>20, <2>2, <2>3 DEF Serve
<1>13. CASE VarDelete
  <2>10. PICK s : s = Done(EmptyMap)
    OBVIOUS
  <2>1. Carries(<<s>>, s)
    BY <1>3, <1>4, <2>10 DEF Done
  <2>2. Answered(s, Head(outbound))
    BY <1>13 DEF VarDelete, Serve, Answered
  <2> QED  BY <1>13, <2>10, <2>1, <2>2 DEF VarDelete, Serve
<1>14. CASE Refuse
  <2>10. PICK s : s = Says("error", EmptyMap)
    OBVIOUS
  <2>1. Carries(<<s>>, s) /\ s.class = "error"
    BY <1>3, <1>4, <2>10
  <2>2. Answered(s, Head(outbound))
    BY <1>14, <2>1 DEF Refuse, Serve, Answered
  <2> QED  BY <1>14, <2>10, <2>1, <2>2 DEF Refuse, Serve
<1> QED  BY <1>5, <1>6, <1>7, <1>8, <1>9, <1>10, <1>11, <1>12, <1>13, <1>14 DEF Answering

(* What an answer does to an entry that records of threads do not touch.   *)
LEMMA SaidSettles ==
  ASSUME NEW rs, NEW s, Carries(rs, s), NEW T, NEW G,
         \A r \in T : r.kind \notin ThreadKinds \cup {"other"}
  PROVE  /\ rs \in Seq(Records)
         /\ s \in T /\ s \in G => Settled(rs, T, G, FALSE)
         /\ s \notin T => Untouched(rs, T)
BY DEF Carries, Settled, Untouched, LastIsGood

-----------------------------------------------------------------------------
(* What GDB says unasked about threads.                                    *)
LEMMA ThreadsOnly ==
  ASSUME GdbTypes, Spawn \/ Stop \/ ThreadExit \/ ProcessExit
  PROVE  \E rs \in Seq(Records) :
           wire' = wire \o rs /\ \A i \in DOMAIN rs : rs[i].kind \in ThreadKinds
<1>1. ASSUME NEW a \in Records, a.kind \in ThreadKinds
      PROVE  <<a>> \in Seq(Records) /\ \A i \in DOMAIN <<a>> : <<a>>[i].kind \in ThreadKinds
  <2>1. <<a>> \in Seq(Records) /\ DOMAIN <<a>> = {1} /\ <<a>>[1] = a
    OBVIOUS
  <2> QED  BY <1>1, <2>1
<1>2. CASE Spawn
  <2>1. PICK a, c :
          /\ a \in Records /\ a.kind = "thread-created"
          /\ c \in Records /\ c.kind = "running" /\ wire' = wire \o <<a, c>>
    <3>1. PICK t : \E a, c :
           /\ a \in Records /\ a = OnThread("thread-created", t)
           /\ c \in Records /\ c = [kind |-> "running", thread |-> t] /\ wire' = wire \o <<a, c>>
      BY <1>2, SpawnPrinted
    <3> QED  BY <3>1 DEF OnThread
  <2>2. <<a, c>> \in Seq(Records) /\ DOMAIN <<a, c>> = 1..2 /\ <<a, c>>[1] = a /\ <<a, c>>[2] = c
    BY <2>1
  <2>3. \A i \in DOMAIN <<a, c>> : <<a, c>>[i].kind \in ThreadKinds
    BY <2>1, <2>2 DEF ThreadKinds
  <2> QED  BY <2>1, <2>2, <2>3
<1>3. CASE Stop
  <2>1. PICK a : a \in Records /\ a.kind = "stopped" /\ wire' = wire \o <<a>>
    <3>1. PICK t \in Movers, where \in [DOMAIN inferior -> Locations] : \E a :
            /\ a \in Records /\ a = OnStopped(t, "breakpoint-hit", where[t])
            /\ wire' = wire \o <<a>>
      BY <1>3, StopPrinted
    <3> QED  BY <3>1 DEF OnStopped
  <2> QED  BY <1>1, <2>1 DEF ThreadKinds
<1>4. CASE ThreadExit
  <2>1. PICK a : a \in Records /\ a.kind = "thread-exited" /\ wire' = wire \o <<a>>
    <3>1. PICK t : \E a :
            a \in Records /\ a = OnThread("thread-exited", t) /\ wire' = wire \o <<a>>
      BY <1>4, ThreadExitPrinted
    <3> QED  BY <3>1 DEF OnThread
  <2> QED  BY <1>1, <2>1 DEF ThreadKinds
<1>5. CASE ProcessExit
  <2>1. PICK a : a \in Records /\ a.kind = "stopped" /\ wire' = wire \o (ThreadsExit \o <<a>>)
    <3>1. PICK reason : \E a :
            /\ a \in Records /\ a = OnStopped(NoThread, reason, NoFrame)
            /\ wire' = wire \o (ThreadsExit \o <<a>>)
      BY <1>5, ProcessExitPrinted
    <3> QED  BY <3>1 DEF OnStopped
  <2>2. PICK rs, us : rs = ThreadsExit /\ us = <<a>>
    OBVIOUS
  <2>3. /\ rs \in Seq(Records) /\ \A i \in DOMAIN rs : rs[i].kind \in ThreadKinds
    BY <2>2, AllExit DEF OnThread, ThreadKinds
  <2>4. us \in Seq(Records) /\ \A i \in DOMAIN us : us[i].kind \in ThreadKinds
    BY <1>1, <2>1, <2>2 DEF ThreadKinds
  <2>5. PICK T : T = {r \in Records : r.kind \notin ThreadKinds}
    OBVIOUS
  <2>6. Untouched(rs, T) /\ Untouched(us, T)
    BY <2>3, <2>4, <2>5 DEF Untouched
  <2>7. rs \o us \in Seq(Records) /\ Untouched(rs \o us, T)
    BY <2>3, <2>4, <2>6, OthersTwice, ConcatProperties
  <2>8. \A i \in DOMAIN (rs \o us) : (rs \o us)[i] \in Records
    BY <2>7, ElementOfSeq, LenProperties
  <2> QED  BY <2>1, <2>2, <2>5, <2>7, <2>8 DEF Untouched
<1> QED  BY <1>2, <1>3, <1>4, <1>5

(* The commands that an answer may be to.                                  *)
LEMMA AnswersWhat ==
  ASSUME GdbTypes, PendingInv, outbound # <<>>, NEW s, NEW operations,
         s.token = Head(outbound).token, Answers(s, operations, pending)
  PROVE  /\ pending[s.token] = [operation |-> Operation(Head(outbound).name),
                                name |-> Head(outbound).name, arg |-> Head(outbound).arg]
              \/ pending[s.token].operation = "raw"
         /\ pending[s.token].operation \in {Operation(Head(outbound).name), "raw"} \cap operations
<1>1. 1 \in DOMAIN outbound /\ Head(outbound) = outbound[1]
  BY TailElements DEF GdbTypes
<1>2. pending[s.token] \in InfoOf(Head(outbound))
  BY <1>1 DEF PendingInv
<1> QED  BY <1>2 DEF InfoOf, Answers

(* What the records of breakpoints do not touch, and what they do.         *)
LEMMA BreakRecordKinds ==
  ASSUME NEW b, NEW p
  PROVE  \A r \in BreakRecords(b, p) :
           r \in Records /\ r.kind \notin ThreadKinds \cup {"other"}
BY DEF BreakRecords, BreakAnswers, Answers, IsResult, ThreadKinds

LEMMA BreakRecordsSame ==
  ASSUME NEW b, NEW p, NEW q, NEW e, NEW r \in Records,
         IsResult(r) => r.token \in DOMAIN p /\ r.token \in DOMAIN q /\ q[r.token] = p[r.token]
  PROVE  /\ r \in BreakRecords(b, p) <=> r \in BreakRecords(b, q)
         /\ r \in BreakRight(b, p, e) <=> r \in BreakRight(b, q, e)
BY DEF BreakRecords, BreakRight, BreakAnswers, Answers

(* Reading a record that touches a breakpoint, or that does not.           *)
LEMMA BreakRead ==
  ASSUME NEW r \in Records, classify_record(r), NEW b, NEW e
  PROVE  /\ r \notin BreakRecords(b, pending) =>
              /\ b \in DOMAIN breakpoints' <=> b \in DOMAIN breakpoints
              /\ b \in DOMAIN breakpoints => breakpoints'[b] = breakpoints[b]
         /\ r \in BreakRight(b, pending, e) => b \in DOMAIN breakpoints' /\ breakpoints'[b] = e
<1>1. CASE IsResult(r)
  <2>1. r.kind = "result" /\ classify_result(r.token, r.class, r.results)
    BY <1>1, Classified DEF IsResult
  <2>2. CASE BreakAnswers(r, pending)
    <3>1. breakpoints' = With(breakpoints, r.results.bkpt.number, r.results.bkpt.enabled)
      BY <2>1, <2>2
         DEF BreakAnswers, Answers, classify_result, route_done, RouteBreakpoint, RouteVarObj,
             RouteFeatures, Upsert
    <3>2. r \in BreakRecords(b, pending) <=> r.results.bkpt.number = b
      BY <2>1, <2>2 DEF BreakRecords
    <3>3. r \in BreakRight(b, pending, e) => r.results.bkpt.number = b /\ r.results.bkpt.enabled = e
      BY <2>1, <3>2 DEF BreakRight
    <3> QED  BY <3>1, <3>2, <3>3 DEF With
  <2>3. CASE ~BreakAnswers(r, pending)
    <3>1. breakpoints' = breakpoints
      BY <1>1, <2>1, <2>3
         DEF BreakAnswers, Answers, classify_result, route_done, RouteBreakpoint, RouteVarObj,
             RouteFeatures, registries
    <3>2. r \notin BreakRecords(b, pending)
      BY <2>1, <2>3 DEF BreakRecords
    <3> QED  BY <3>1, <3>2 DEF BreakRight
  <2> QED  BY <2>2, <2>3
<1>2. CASE r.kind = "breakpoint-modified"
  <2>1. breakpoints' = With(breakpoints, r.bkpt.number, r.bkpt.enabled)
    BY <1>2, Classified DEF on_breakpoint_modified, Upsert
  <2>2. r \in BreakRecords(b, pending) <=> r.bkpt.number = b
    BY <1>2 DEF BreakRecords, BreakAnswers, Answers, IsResult
  <2>3. r \in BreakRight(b, pending, e) => r.bkpt.number = b /\ r.bkpt.enabled = e
    BY <1>2, <2>2 DEF BreakRight, IsResult
  <2> QED  BY <2>1, <2>2, <2>3 DEF With
<1>3. CASE r.kind = "breakpoint-deleted"
  <2>1. breakpoints' = Without(breakpoints, r.number)
    BY <1>3, Classified DEF on_breakpoint_deleted
  <2>2. r \in BreakRecords(b, pending) <=> r.number = b
    BY <1>3 DEF BreakRecords, BreakAnswers, Answers, IsResult
  <2>3. r \notin BreakRight(b, pending, e)
    BY <1>3 DEF BreakRight, IsResult
  <2> QED  BY <2>1, <2>2, <2>3 DEF Without, Restrict
<1>4. CASE ~IsResult(r) /\ r.kind \notin {"breakpoint-modified", "breakpoint-deleted"}
  <2>1. breakpoints' = breakpoints
    BY <1>4, Classified
       DEF classify_running, classify_stopped, on_thread_created, on_thread_exited, vars,
           registries, IsResult
  <2>2. r \notin BreakRecords(b, pending)
    BY <1>4 DEF BreakRecords, BreakAnswers, Answers
  <2> QED  BY <2>1, <2>2 DEF BreakRight
<1> QED  BY <1>1, <1>2, <1>3, <1>4

LEMMA BreaksKnownKept ==
  ASSUME GdbTypes, IsMap(pending, 1..(tokens - 1), Infos), PendingInv, BreaksKnown,
         [SessionNext]_session
  PROVE  BreaksKnown'
<1> SUFFICES ASSUME NEW b \in DOMAIN gdbBreaks'
             PROVE  Settled(wire', BreakRecords(b, pending'),
                            BreakRight(b, pending', gdbBreaks'[b]), BreakShown(b)')
  BY DEF BreaksKnown
<1>1. PICK p, q, e : p = pending /\ q = pending' /\ e = gdbBreaks'[b]
  OBVIOUS
<1> DEFINE T == BreakRecords(b, p)
<1> DEFINE G == BreakRight(b, p, e)
<1> DEFINE c == BreakShown(b)
<1>2. c \in BOOLEAN /\ c' \in BOOLEAN
  BY DEF BreakShown
<1>3. c' <=> b \in DOMAIN breakpoints' /\ breakpoints'[b] = e
  BY <1>1 DEF BreakShown
<1>4. ASSUME Settled(wire', T, G, c')
      PROVE  Settled(wire', BreakRecords(b, pending'),
                     BreakRight(b, pending', gdbBreaks'[b]), BreakShown(b)')
  <2> DEFINE U == BreakRecords(b, q)
  <2> DEFINE H == BreakRight(b, q, e)
  <2>1. \A i \in DOMAIN wire' : (wire'[i] \in T <=> wire'[i] \in U)
                                /\ (wire'[i] \in G <=> wire'[i] \in H)
    BY <1>1, SameCommands, BreakRecordsSame
  <2> HIDE DEF T, G, U, H, c
  <2>2. Settled(wire', U, H, c')
    BY <1>2, <1>4, <2>1, StaySettled
  <2> QED  BY <1>1, <2>2 DEF U, H, c
<1>5. \A r \in T : r \in Records /\ r.kind \notin ThreadKinds \cup {"other"}
  BY BreakRecordKinds
<1>6. wire \in Seq(Records)
  BY DEF GdbTypes
<1>7. b \in DOMAIN gdbBreaks /\ gdbBreaks[b] = e => Settled(wire, T, G, c)
  BY <1>1 DEF BreaksKnown
<1>8. breakpoints' = breakpoints /\ b \in DOMAIN gdbBreaks /\ gdbBreaks[b] = e => (c' <=> c)
  BY <1>3 DEF BreakShown
<1>9. ASSUME NEW rs \in Seq(Records), wire' = wire \o rs, Untouched(rs, T),
             breakpoints' = breakpoints, b \in DOMAIN gdbBreaks, gdbBreaks[b] = e
      PROVE  Settled(wire', T, G, c')
  <2> HIDE DEF T, G, c
  <2>1. Settled(wire \o rs, T, G, c)
    BY <1>2, <1>6, <1>7, <1>9, PrintOthers
  <2> QED  BY <1>2, <1>8, <1>9, <2>1 DEF Settled
<1>10. ASSUME NEW rs \in Seq(Records), wire' = wire \o rs, Settled(rs, T, G, FALSE)
       PROVE  Settled(wire', T, G, c')
  <2> HIDE DEF T, G, c
  <2> QED  BY <1>2, <1>6, <1>10, PrintGood
<1>11. CASE Submit \/ UNCHANGED session
  <2>1. UNCHANGED <<wire, breakpoints, gdbBreaks>>
    BY <1>11, Submitted DEF Submit, Enqueue, gdb, session, vars, registries
  <2>2. Settled(wire, T, G, c) /\ (c' <=> c)
    BY <1>1, <1>7, <1>8, <2>1
  <2>3. Settled(wire', T, G, c')
    <3> HIDE DEF T, G, c
    <3> QED  BY <1>2, <2>1, <2>2 DEF Settled
  <2> QED  BY <1>4, <2>3
<1>12. CASE Receive
  <2>1. PICK r : r = Head(wire)
    OBVIOUS
  <2>2. wire # <<>> /\ r \in Records /\ classify_record(r) /\ wire' = Tail(wire)
        /\ gdbBreaks' = gdbBreaks
    BY <1>12, <2>1, TheFirst DEF Receive, gdb
  <2>3. Settled(wire, T, G, c)
    BY <1>1, <1>7, <2>2
  <2>4. r \notin T => (c => c')
    BY <1>1, <1>3, <2>2, BreakRead DEF BreakShown
  <2>5. r \in T /\ r \in G => c'
    BY <1>1, <1>3, <2>2, BreakRead
  <2>6. Settled(wire', T, G, c')
    <3> HIDE DEF T, G, c
    <3> QED  BY <1>2, <1>6, <2>1, <2>2, <2>3, <2>4, <2>5, Read
  <2> QED  BY <1>4, <2>6
<1>13. CASE Answering
  <2>1. PICK rs, s : wire' = wire \o rs /\ Carries(rs, s) /\ Answered(s, Head(outbound))
    BY <1>13, Said
  <2>2. PICK d : d = Head(outbound)
    OBVIOUS
  <2>3. breakpoints' = breakpoints /\ outbound # <<>>
    BY <1>13, AnsweringPrints DEF consume_outbound, registries
  <2>4. s \in Records /\ IsResult(s) /\ s.token = d.token
    BY <2>1, <2>2 DEF Carries
  <2>5. s \in T <=> BreakAnswers(s, p) /\ s.results.bkpt.number = b
    BY <2>4 DEF BreakRecords, IsResult
  <2>6. /\ rs \in Seq(Records)
        /\ s \in T /\ s \in G => Settled(rs, T, G, FALSE)
        /\ s \notin T => Untouched(rs, T)
    <3> HIDE DEF T, G
    <3> QED  BY <1>5, <2>1, SaidSettles
  <2>7. BreakAnswers(s, p) =>
          pending[s.token].operation \in {Operation(d.name), "raw"} \cap {"break-insert", "break-info"}
    BY <1>1, <2>2, <2>3, <2>4, AnswersWhat DEF BreakAnswers
  <2>8. CASE d.name = "break-insert" /\ s.class = "done"
    <3>1. PICK f \in BOOLEAN :
            /\ s.results = [bkpt |-> [number |-> d.arg, enabled |-> f]]
            /\ gdbBreaks' = IF Routes THEN With(gdbBreaks, d.arg, f) ELSE gdbBreaks
      BY <2>1, <2>2, <2>8 DEF Answered
    <3>2. 1 \in DOMAIN outbound /\ Head(outbound) = outbound[1]
      BY <2>3, TailElements DEF GdbTypes
    <3>3. d.token \in DOMAIN pending /\ pending[d.token].operation \in {"break-insert", "raw"}
      <4>1. d.token \in DOMAIN pending /\ pending[d.token] \in InfoOf(d)
        BY <2>2, <3>2 DEF PendingInv
      <4>2. Operation(d.name) = "break-insert"
        BY <2>8 DEF Operation, Routed
      <4> QED  BY <4>1, <4>2 DEF InfoOf
    <3>4. s.results.bkpt.number = d.arg /\ s.results.bkpt.enabled = f /\ "bkpt" \in DOMAIN s.results
      BY <3>1
    <3>5. BreakAnswers(s, p) <=> Routes
      BY <1>1, <2>2, <2>4, <2>8, <3>3, <3>4 DEF BreakAnswers, Answers, Routes
    <3>6. CASE Routes /\ d.arg = b
      <4>1. e = f
        BY <1>1, <3>1, <3>6 DEF With
      <4>2. s \in T /\ s \in G
        BY <2>4, <2>5, <3>4, <3>5, <3>6, <4>1 DEF BreakRight
      <4> QED  BY <1>4, <1>10, <2>1, <2>6, <4>2
    <3>7. CASE ~(Routes /\ d.arg = b)
      <4>1. b \in DOMAIN gdbBreaks /\ gdbBreaks[b] = e
        BY <1>1, <3>1, <3>7 DEF With
      <4>2. s \notin T
        BY <2>5, <3>4, <3>5, <3>7
      <4> QED  BY <1>4, <1>9, <2>1, <2>3, <2>6, <4>1, <4>2
    <3> QED  BY <3>6, <3>7
  <2>9. CASE ~(d.name = "break-insert" /\ s.class = "done")
    <3>1. gdbBreaks' = gdbBreaks
      BY <2>1, <2>2, <2>9 DEF Answered
    <3>2. s \notin T
      <4> SUFFICES ASSUME BreakAnswers(s, p) PROVE FALSE
        BY <2>5
      <4>1. d.name \in {"break-insert", "break-info"}
        BY <2>7 DEF Operation
      <4>2. s.class \in {"done", "connected"}
        BY DEF BreakAnswers, Answers
      <4> QED  BY <2>1, <2>2, <2>9, <4>1, <4>2 DEF Answered
    <3> QED  BY <1>1, <1>4, <1>9, <2>1, <2>3, <2>6, <3>1, <3>2
  <2> QED  BY <2>8, <2>9
<1>14. CASE Unprompted
  <2>1. UNCHANGED vars
    BY <1>14, UnpromptedPrints
  <2>2. breakpoints' = breakpoints
    BY <2>1 DEF vars, registries
  <2>3. CASE BreakModified
    <3>1. PICK x \in DOMAIN gdbBreaks, f \in BOOLEAN :
            /\ Unasked(<<[kind |-> "breakpoint-modified", bkpt |-> [number |-> x, enabled |-> f]]>>)
            /\ gdbBreaks' = With(gdbBreaks, x, f)
      BY <2>3 DEF BreakModified
    <3>2. PICK r : r = [kind |-> "breakpoint-modified", bkpt |-> [number |-> x, enabled |-> f]]
      OBVIOUS
    <3>3. x \in BreakIds
      BY DEF GdbTypes, IsMap
    <3>4. r \in Records /\ r.kind = "breakpoint-modified" /\ r.bkpt.number = x /\ r.bkpt.enabled = f
      BY <3>2, <3>3, RecordTypes
    <3>5. wire' = wire \o <<r>>
      BY <3>1, <3>2 DEF Unasked
    <3>6. <<r>> \in Seq(Records)
          /\ (r \in T /\ r \in G => Settled(<<r>>, T, G, FALSE))
          /\ (r \notin T => Untouched(<<r>>, T))
      <4> HIDE DEF T, G
      <4> r \in Records
        BY <3>4
      <4> QED  BY One
    <3>7. CASE x = b
      <4>1. r \in T /\ r \in G
        BY <1>1, <3>1, <3>4, <3>7 DEF BreakRecords, BreakRight, With
      <4> QED  BY <1>4, <1>10, <3>5, <3>6, <4>1
    <3>8. CASE x # b
      <4>1. b \in DOMAIN gdbBreaks /\ gdbBreaks[b] = e
        BY <1>1, <3>1, <3>8 DEF With
      <4>2. r \notin T
        BY <3>4, <3>8 DEF BreakRecords, BreakAnswers, Answers, IsResult
      <4> QED  BY <1>4, <1>9, <2>2, <3>5, <3>6, <4>1, <4>2
    <3> QED  BY <3>7, <3>8
  <2>4. CASE BreakDeleted
    <3>1. PICK x \in DOMAIN gdbBreaks :
            /\ Unasked(<<[kind |-> "breakpoint-deleted", number |-> x]>>)
            /\ gdbBreaks' = Without(gdbBreaks, x)
      BY <2>4 DEF BreakDeleted
    <3>2. PICK r : r = [kind |-> "breakpoint-deleted", number |-> x]
      OBVIOUS
    <3>3. x \in BreakIds
      BY DEF GdbTypes, IsMap
    <3>4. r \in Records /\ r.kind = "breakpoint-deleted" /\ r.number = x
      BY <3>2, <3>3, RecordTypes
    <3>5. wire' = wire \o <<r>>
      BY <3>1, <3>2 DEF Unasked
    <3>6. b # x /\ b \in DOMAIN gdbBreaks /\ gdbBreaks[b] = e
      BY <1>1, <3>1 DEF Without, Restrict
    <3>7. r \notin T
      BY <3>4, <3>6 DEF BreakRecords, BreakAnswers, Answers, IsResult
    <3>8. <<r>> \in Seq(Records) /\ Untouched(<<r>>, T)
      <4> HIDE DEF T
      <4> r \in Records
        BY <3>4
      <4> QED  BY <3>7, One
    <3> QED  BY <1>4, <1>9, <2>2, <3>5, <3>6, <3>8
  <2>5. CASE Spawn \/ Stop \/ ThreadExit \/ ProcessExit
    <3>1. gdbBreaks' = gdbBreaks
      BY <2>5 DEF Spawn, Stop, ThreadExit, ProcessExit
    <3>2. PICK rs \in Seq(Records) :
            wire' = wire \o rs /\ \A i \in DOMAIN rs : rs[i].kind \in ThreadKinds
      BY <2>5, ThreadsOnly
    <3>3. Untouched(rs, T)
      BY <1>5, <3>2 DEF Untouched
    <3> QED  BY <1>1, <1>4, <1>9, <2>2, <3>1, <3>2, <3>3
  <2> QED  BY <1>14, <2>3, <2>4, <2>5 DEF Unprompted
<1> QED  BY <1>11, <1>12, <1>13, <1>14 DEF SessionNext, Answering, Unprompted

-----------------------------------------------------------------------------
(* The same of the variable objects.                                       *)
LEMMA VarRecordKinds ==
  ASSUME NEW n, NEW p
  PROVE  \A r \in VarRecords(n, p) :
           r \in Records /\ IsResult(r) /\ r.kind \notin ThreadKinds \cup {"other"}
BY DEF VarRecords, VarSets, Answers, IsResult, ThreadKinds

LEMMA VarRecordsSame ==
  ASSUME NEW n, NEW p, NEW q, NEW v, NEW r \in Records,
         IsResult(r) => r.token \in DOMAIN p /\ r.token \in DOMAIN q /\ q[r.token] = p[r.token]
  PROVE  /\ r \in VarRecords(n, p) <=> r \in VarRecords(n, q)
         /\ r \in VarRight(n, p, v) <=> r \in VarRight(n, q, v)
BY DEF VarRecords, VarRight, VarSets, Answers

LEMMA OneField ==
  ASSUME NEW r \in Results, "changelist" \in DOMAIN r
  PROVE  "name" \notin DOMAIN r
BY DEF Results, EmptyMap

LEMMA VarRead ==
  ASSUME NEW r \in Records, classify_record(r), NEW n, NEW v
  PROVE  /\ r \notin VarRecords(n, pending) =>
              /\ n \in DOMAIN varobjs => n \in DOMAIN varobjs'
              /\ n \in DOMAIN varobjs => varobjs'[n] = varobjs[n]
         /\ r \in VarRight(n, pending, v) => n \in DOMAIN varobjs' /\ varobjs'[n] = v
<1>1. CASE IsResult(r) /\ Answers(r, {"var-create", "var-update", "var-delete"}, pending)
  <2>1. PICK info, results : info = pending[r.token] /\ results = r.results
    OBVIOUS
  <2>2. classify_result(r.token, r.class, results) /\ results \in Results
    BY <1>1, <2>1, Classified
  <2>3. RouteVarObj(info, results)
    BY <1>1, <2>1, <2>2
       DEF classify_result, Answers, route_done, RouteBreakpoint, RouteFeatures
  <2>4. (info.operation = "var-delete" /\ info.arg = n => r \in VarRecords(n, pending))
        /\ (VarSets(r, n, pending) => r \in VarRecords(n, pending))
        /\ (r \in VarRight(n, pending, v) => VarSets(r, n, pending) /\ VarValue(r, n) = v)
    <3>1. Answers(r, {"var-delete"}, pending) <=> info.operation = "var-delete"
      BY <1>1, <2>1 DEF Answers
    <3>2. r \in VarRight(n, pending, v) => VarSets(r, n, pending) /\ VarValue(r, n) = v
      BY DEF VarRight
    <3> QED  BY <2>1, <3>1, <3>2 DEF VarRecords
  <2>5. CASE info.operation = "var-create"
    <3>1. VarSets(r, n, pending) <=> "name" \in DOMAIN results /\ results.name = n
      BY <1>1, <2>1, <2>5 DEF VarSets, Answers
    <3>2. varobjs' = IF "name" \in DOMAIN results
                     THEN With(varobjs, results.name, results.value) ELSE varobjs
      BY <2>3, <2>5 DEF RouteVarObj
    <3>3. VarSets(r, n, pending) => VarValue(r, n) = results.value
      BY <2>1, <3>1 DEF VarValue
    <3>4. CASE "name" \in DOMAIN results
      BY <2>4, <3>1, <3>2, <3>3, <3>4 DEF With
    <3>5. CASE "name" \notin DOMAIN results
      BY <2>4, <3>1, <3>2, <3>5
    <3> QED  BY <3>4, <3>5
  <2>6. CASE info.operation = "var-update"
    <3>1. VarSets(r, n, pending) <=>
            "changelist" \in DOMAIN results /\ n \in DOMAIN results.changelist
      BY <1>1, <2>1, <2>6 DEF VarSets, Answers
    <3>2. varobjs' = IF "changelist" \in DOMAIN results
                     THEN on_var_update(results.changelist) ELSE varobjs
      BY <2>3, <2>6 DEF RouteVarObj
    <3>3. VarSets(r, n, pending) => VarValue(r, n) = results.changelist[n]
      BY <2>1, <2>2, <3>1, OneField DEF VarValue
    <3>4. CASE "changelist" \in DOMAIN results
      BY <2>4, <3>1, <3>2, <3>3, <3>4 DEF on_var_update
    <3>5. CASE "changelist" \notin DOMAIN results
      BY <2>4, <3>1, <3>2, <3>5
    <3> QED  BY <3>4, <3>5
  <2>7. CASE info.operation = "var-delete"
    <3>1. ~VarSets(r, n, pending)
      BY <1>1, <2>1, <2>7 DEF VarSets, Answers
    <3>2. varobjs' = Without(varobjs, info.arg)
      BY <2>3, <2>7 DEF RouteVarObj
    <3> QED  BY <2>4, <2>7, <3>1, <3>2 DEF Without, Restrict
  <2> QED  BY <2>3, <2>5, <2>6, <2>7 DEF RouteVarObj
<1>2. CASE ~(IsResult(r) /\ Answers(r, {"var-create", "var-update", "var-delete"}, pending))
  <2>1. varobjs' = varobjs
    <3>1. CASE IsResult(r)
      <4>1. classify_result(r.token, r.class, r.results)
        BY <3>1, Classified
      <4> QED  BY <1>2, <3>1, <4>1
               DEF Answers, classify_result, route_done, RouteBreakpoint, RouteVarObj,
                   RouteFeatures, registries
    <3>2. CASE ~IsResult(r)
      BY <3>2, Classified
         DEF classify_running, classify_stopped, on_thread_created, on_thread_exited, vars,
             registries, IsResult, on_breakpoint_modified, on_breakpoint_deleted
    <3> QED  BY <3>1, <3>2
  <2>2. r \notin VarRecords(n, pending)
    BY <1>2 DEF VarRecords, VarSets, Answers
  <2> QED  BY <2>1, <2>2 DEF VarRight
<1> QED  BY <1>1, <1>2

LEMMA VarsKnownKept ==
  ASSUME GdbTypes, IsMap(pending, 1..(tokens - 1), Infos), PendingInv, VarsKnown,
         [SessionNext]_session
  PROVE  VarsKnown'
<1> SUFFICES ASSUME NEW n \in DOMAIN gdbVars'
             PROVE  Settled(wire', VarRecords(n, pending'),
                            VarRight(n, pending', gdbVars'[n]), VarShown(n)')
  BY DEF VarsKnown
<1>1. PICK p, q, v : p = pending /\ q = pending' /\ v = gdbVars'[n]
  OBVIOUS
<1> DEFINE T == VarRecords(n, p)
<1> DEFINE G == VarRight(n, p, v)
<1> DEFINE c == VarShown(n)
<1>2. c \in BOOLEAN /\ c' \in BOOLEAN
  BY DEF VarShown
<1>3. c' <=> n \in DOMAIN varobjs' /\ varobjs'[n] = v
  BY <1>1 DEF VarShown
<1>4. ASSUME Settled(wire', T, G, c')
      PROVE  Settled(wire', VarRecords(n, pending'),
                     VarRight(n, pending', gdbVars'[n]), VarShown(n)')
  <2> DEFINE U == VarRecords(n, q)
  <2> DEFINE H == VarRight(n, q, v)
  <2>1. \A i \in DOMAIN wire' : (wire'[i] \in T <=> wire'[i] \in U)
                                /\ (wire'[i] \in G <=> wire'[i] \in H)
    BY <1>1, SameCommands, VarRecordsSame
  <2> HIDE DEF T, G, U, H, c
  <2>2. Settled(wire', U, H, c')
    BY <1>2, <1>4, <2>1, StaySettled
  <2> QED  BY <1>1, <2>2 DEF U, H, c
<1>5. \A r \in T : r \in Records /\ IsResult(r) /\ r.kind \notin ThreadKinds \cup {"other"}
  BY VarRecordKinds
<1>6. wire \in Seq(Records)
  BY DEF GdbTypes
<1>7. n \in DOMAIN gdbVars /\ gdbVars[n] = v => Settled(wire, T, G, c)
  BY <1>1 DEF VarsKnown
<1>8. varobjs' = varobjs /\ n \in DOMAIN gdbVars /\ gdbVars[n] = v => (c' <=> c)
  BY <1>3 DEF VarShown
<1>9. ASSUME NEW rs \in Seq(Records), wire' = wire \o rs, Untouched(rs, T),
             varobjs' = varobjs, n \in DOMAIN gdbVars, gdbVars[n] = v
      PROVE  Settled(wire', T, G, c')
  <2> HIDE DEF T, G, c
  <2>1. Settled(wire \o rs, T, G, c)
    BY <1>2, <1>6, <1>7, <1>9, PrintOthers
  <2> QED  BY <1>2, <1>8, <1>9, <2>1 DEF Settled
<1>10. ASSUME NEW rs \in Seq(Records), wire' = wire \o rs, Settled(rs, T, G, FALSE)
       PROVE  Settled(wire', T, G, c')
  <2> HIDE DEF T, G, c
  <2> QED  BY <1>2, <1>6, <1>10, PrintGood
<1>11. CASE Submit \/ UNCHANGED session
  <2>1. UNCHANGED <<wire, varobjs, gdbVars>>
    BY <1>11, Submitted DEF Submit, Enqueue, gdb, session, vars, registries
  <2>2. Settled(wire, T, G, c) /\ (c' <=> c)
    BY <1>1, <1>7, <1>8, <2>1
  <2>3. Settled(wire', T, G, c')
    <3> HIDE DEF T, G, c
    <3> QED  BY <1>2, <2>1, <2>2 DEF Settled
  <2> QED  BY <1>4, <2>3
<1>12. CASE Receive
  <2>1. PICK r : r = Head(wire)
    OBVIOUS
  <2>2. wire # <<>> /\ r \in Records /\ classify_record(r) /\ wire' = Tail(wire)
        /\ gdbVars' = gdbVars
    BY <1>12, <2>1, TheFirst DEF Receive, gdb
  <2>3. Settled(wire, T, G, c)
    BY <1>1, <1>7, <2>2
  <2>4. r \notin T => (c => c')
    BY <1>1, <1>3, <2>2, VarRead DEF VarShown
  <2>5. r \in T /\ r \in G => c'
    BY <1>1, <1>3, <2>2, VarRead
  <2>6. Settled(wire', T, G, c')
    <3> HIDE DEF T, G, c
    <3> QED  BY <1>2, <1>6, <2>1, <2>2, <2>3, <2>4, <2>5, Read
  <2> QED  BY <1>4, <2>6
<1>13. CASE Answering
  <2>1. PICK rs, s : wire' = wire \o rs /\ Carries(rs, s) /\ Answered(s, Head(outbound))
    BY <1>13, Said
  <2>2. PICK d : d = Head(outbound)
    OBVIOUS
  <2>3. varobjs' = varobjs /\ outbound # <<>>
    BY <1>13, AnsweringPrints DEF consume_outbound, registries
  <2>4. s \in Records /\ IsResult(s) /\ s.token = d.token
    BY <2>1, <2>2 DEF Carries
  <2>5. /\ rs \in Seq(Records)
        /\ s \in T /\ s \in G => Settled(rs, T, G, FALSE)
        /\ s \notin T => Untouched(rs, T)
    <3> HIDE DEF T, G
    <3> QED  BY <1>5, <2>1, SaidSettles
  <2>6. d.token \in DOMAIN p /\ p[d.token].operation \in {Operation(d.name), "raw"}
        /\ (Routes <=> p[d.token].operation # "raw")
    <3>1. 1 \in DOMAIN outbound /\ d = outbound[1]
      BY <2>2, <2>3, TailElements DEF GdbTypes
    <3>2. p[d.token] \in InfoOf(d) /\ d.token \in DOMAIN p
      BY <1>1, <3>1 DEF PendingInv
    <3> QED  BY <1>1, <2>2, <3>2 DEF InfoOf, Routes
  <2>7. \A operations : Answers(s, operations, p) =>
          s.class \in {"done", "connected"} /\ p[d.token].operation \in operations
    BY <2>4 DEF Answers
  <2>8. ASSUME n \in DOMAIN gdbVars, gdbVars[n] = v, s \notin T PROVE Settled(wire', T, G, c')
    BY <1>9, <2>1, <2>3, <2>5, <2>8
  <2>9. ASSUME s \in T, s \in G PROVE Settled(wire', T, G, c')
    BY <1>10, <2>1, <2>5, <2>9
  <2>10. CASE d.name = "var-create" /\ s.class = "done"
    <3>1. PICK x \in Values :
            /\ s.results = [name |-> Parent, value |-> x]
            /\ gdbVars' = IF Routes THEN With(gdbVars, Parent, x) ELSE gdbVars
      BY <2>1, <2>2, <2>10 DEF Answered
    <3>2. p[d.token].operation = IF Routes THEN "var-create" ELSE "raw"
      BY <2>6, <2>10 DEF Operation, Routed
    <3>3. /\ s.results.name = Parent /\ s.results.value = x
          /\ "name" \in DOMAIN s.results /\ "changelist" \notin DOMAIN s.results
      BY <3>1
    <3>4. CASE Routes /\ Parent = n
      <4>1. v = x
        BY <1>1, <3>1, <3>4 DEF With
      <4>2. VarSets(s, n, p) /\ VarValue(s, n) = x
        BY <2>4, <2>6, <2>10, <3>2, <3>3, <3>4 DEF VarSets, VarValue, Answers
      <4>3. s \in T /\ s \in G
        BY <2>4, <4>1, <4>2 DEF VarRecords, VarRight
      <4> QED  BY <1>4, <2>9, <4>3
    <3>5. CASE ~(Routes /\ Parent = n)
      <4>1. n \in DOMAIN gdbVars /\ gdbVars[n] = v
        BY <1>1, <3>1, <3>5 DEF With
      <4>2. s \notin T
        BY <2>7, <3>2, <3>3, <3>5 DEF VarRecords, VarSets
      <4> QED  BY <1>4, <2>8, <4>1, <4>2
    <3> QED  BY <3>4, <3>5
  <2>11. CASE d.name = "var-update" /\ s.class = "done"
    <3>1. PICK changes \in Maps({Parent, Child}, Values) :
            /\ s.results = [changelist |-> changes]
            /\ gdbVars' = IF Routes
                          THEN [m \in DOMAIN gdbVars \cup DOMAIN changes |->
                                 IF m \in DOMAIN changes THEN changes[m] ELSE gdbVars[m]]
                          ELSE gdbVars
      BY <2>1, <2>2, <2>11 DEF Answered
    <3>2. p[d.token].operation = IF Routes THEN "var-update" ELSE "raw"
      BY <2>6, <2>11 DEF Operation, Routed
    <3>3. /\ s.results.changelist = changes
          /\ "name" \notin DOMAIN s.results /\ "changelist" \in DOMAIN s.results
      BY <3>1
    <3>4. CASE Routes /\ n \in DOMAIN changes
      <4>1. v = changes[n]
        BY <1>1, <3>1, <3>4
      <4>2. VarSets(s, n, p) /\ VarValue(s, n) = changes[n]
        BY <2>4, <2>6, <2>11, <3>2, <3>3, <3>4 DEF VarSets, VarValue, Answers
      <4>3. s \in T /\ s \in G
        BY <2>4, <4>1, <4>2 DEF VarRecords, VarRight
      <4> QED  BY <1>4, <2>9, <4>3
    <3>5. CASE ~(Routes /\ n \in DOMAIN changes)
      <4>1. n \in DOMAIN gdbVars /\ gdbVars[n] = v
        BY <1>1, <3>1, <3>5
      <4>2. s \notin T
        BY <2>7, <3>2, <3>3, <3>5 DEF VarRecords, VarSets
      <4> QED  BY <1>4, <2>8, <4>1, <4>2
    <3> QED  BY <3>4, <3>5
  <2>12. gdbVars' # EmptyMap
    BY DEF EmptyMap
  <2>13. CASE ~(d.name \in {"var-create", "var-update"} /\ s.class = "done")
    <3>1. gdbVars' = gdbVars
      BY <2>1, <2>2, <2>12, <2>13 DEF Answered
    <3>2. \/ s.class = "error"
          \/ d.name \in {"exec-run", "exec-continue", "target-detach", "target-select",
                         "list-target-features", "break-insert"}
      BY <2>1, <2>2, <2>12, <2>13 DEF Answered
    <3>3. s.class = "error" \/ Operation(d.name) \notin {"var-create", "var-update", "var-delete"}
      BY <3>2 DEF Operation
    <3>4. s \notin T
      BY <2>6, <2>7, <3>3 DEF VarRecords, VarSets
    <3> QED  BY <1>1, <1>4, <2>8, <3>1, <3>4
  <2> QED  BY <2>10, <2>11, <2>13
<1>14. CASE Unprompted
  <2>1. varobjs' = varobjs /\ gdbVars' = gdbVars
    BY <1>14, UnpromptedPrints DEF vars, registries
  <2>2. PICK rs : wire' = wire \o rs /\ Quiet(rs)
    BY <1>14, UnpromptedPrints
  <2>3. rs \in Seq(Records) /\ Untouched(rs, T)
    BY <1>5, <2>2 DEF Quiet, Untouched
  <2> QED  BY <1>1, <1>4, <1>9, <2>1, <2>2, <2>3
<1> QED  BY <1>11, <1>12, <1>13, <1>14 DEF SessionNext, Answering, Unprompted

-----------------------------------------------------------------------------
(* The inductive invariant of breakpoints and variable objects.            *)
DataInv == PendingInv /\ BreaksKnown /\ VarsKnown

LEMMA DataInvInit == SessionInit => DataInv
<1> SUFFICES ASSUME SessionInit PROVE DataInv
  OBVIOUS
<1>1. wire = <<>> /\ outbound = <<>> /\ DOMAIN gdbBreaks = {} /\ DOMAIN gdbVars = {}
  BY DEF SessionInit, Init, EmptyMap
<1> QED  BY <1>1 DEF DataInv, PendingInv, BreaksKnown, VarsKnown

(* Of the records on the wire that touch a breakpoint or a variable        *)
(* object, the last one tells what GDB has; each result is that of the     *)
(* command that the connection remembers for its token.                    *)
THEOREM SessionData == SessionSpec => []DataInv
<1>1. GdbTypes /\ TypeOK /\ DataInv /\ [SessionNext]_session => DataInv'
  <2> SUFFICES ASSUME GdbTypes, TypeOK, DataInv, [SessionNext]_session PROVE DataInv'
    OBVIOUS
  <2>1. IsMap(pending, 1..(tokens - 1), Infos)
    BY DEF TypeOK
  <2> QED  BY <2>1, PendingKept, BreaksKnownKept, VarsKnownKept DEF DataInv
<1> QED  BY <1>1, DataInvInit, SessionTypes, SessionTypeOK, PTL DEF SessionSpec

(* Once the reader has caught up with GDB, the registries show of each     *)
(* breakpoint and each variable object what GDB last reported.             *)
THEOREM ReportsCaughtUp == SessionSpec => []LastReportKept
<1>1. DataInv => LastReportKept
  <2> SUFFICES ASSUME DataInv, wire = <<>>
               PROVE  /\ \A b \in DOMAIN gdbBreaks : BreakShown(b)
                      /\ \A n \in DOMAIN gdbVars : VarShown(n)
    BY DEF LastReportKept, BreakShown, VarShown
  <2> QED  BY CaughtUp DEF DataInv, BreaksKnown, VarsKnown
<1> QED  BY <1>1, SessionData, PTL

-----------------------------------------------------------------------------
(* The target features.  Until a change that no routed answer tells of,    *)
(* the cache is settled by what is on its way.                             *)
FeatureInv == ~unseen => FeaturesKnown

LEMMA FeatureRecordKinds ==
  ASSUME NEW p
  PROVE  \A r \in FeatureRecords(p) :
           r \in Records /\ IsResult(r) /\ r.kind \notin ThreadKinds \cup {"other"}
BY DEF FeatureRecords, Answers, IsResult, ThreadKinds

LEMMA FeatureRecordsSame ==
  ASSUME NEW p, NEW q, NEW f, NEW r \in Records,
         IsResult(r) => r.token \in DOMAIN p /\ r.token \in DOMAIN q /\ q[r.token] = p[r.token]
  PROVE  /\ r \in FeatureRecords(p) <=> r \in FeatureRecords(q)
         /\ r \in FeatureRight(p, f) <=> r \in FeatureRight(q, f)
BY DEF FeatureRecords, FeatureRight, Answers

LEMMA FeatureRead ==
  ASSUME NEW r \in Records, classify_record(r), NEW f
  PROVE  /\ r \notin FeatureRecords(pending) => features' = features
         /\ r \in FeatureRight(pending, f) => features' \in {{}, f}
<1> DEFINE Ops == {"list-target-features", "target-select", "exec-run"}
<1>1. CASE IsResult(r) /\ Answers(r, Ops, pending)
  <2>1. PICK info, results : info = pending[r.token] /\ results = r.results
    OBVIOUS
  <2>2. classify_result(r.token, r.class, results)
    BY <1>1, <2>1, Classified
  <2>3. RouteFeatures(info, results) /\ r.token \in DOMAIN pending
    BY <1>1, <2>1, <2>2 DEF classify_result, Answers, route_done, RouteBreakpoint, RouteVarObj
  <2>4. features' = IF info.operation = "list-target-features" /\ "features" \in DOMAIN results
                    THEN results.features ELSE {}
    BY <2>3 DEF RouteFeatures
  <2>5. r \in FeatureRecords(pending)
    BY <1>1 DEF FeatureRecords
  <2>6. r \in FeatureRight(pending, f) =>
          (info.operation = "list-target-features" /\ "features" \in DOMAIN results
             => results.features = f)
    BY <2>1 DEF FeatureRight
  <2> QED  BY <2>4, <2>5, <2>6
<1>2. CASE ~(IsResult(r) /\ Answers(r, Ops, pending))
  <2>1. features' = features
    <3>1. CASE IsResult(r)
      <4>1. classify_result(r.token, r.class, r.results)
        BY <3>1, Classified
      <4> QED
        BY <1>2, <3>1, <4>1
           DEF Answers, classify_result, route_done, RouteBreakpoint, RouteVarObj,
               RouteFeatures, registries
    <3>2. CASE ~IsResult(r)
      BY <3>2, Classified
         DEF classify_running, classify_stopped, on_thread_created, on_thread_exited, vars,
             registries, IsResult, on_breakpoint_modified, on_breakpoint_deleted
    <3> QED  BY <3>1, <3>2
  <2>2. r \notin FeatureRecords(pending)
    BY <1>2 DEF FeatureRecords, Answers
  <2> QED  BY <2>1, <2>2 DEF FeatureRight
<1> QED  BY <1>1, <1>2

LEMMA FeaturesKnownKept ==
  ASSUME GdbTypes, IsMap(pending, 1..(tokens - 1), Infos), PendingInv, FeatureInv,
         [SessionNext]_session, ~unseen'
  PROVE  FeaturesKnown'
<1>1. PICK p, q, f : p = pending /\ q = pending' /\ f = gdbFeatures'
  OBVIOUS
<1> DEFINE T == FeatureRecords(p)
<1> DEFINE G == FeatureRight(p, f)
<1> DEFINE c == FeaturesShown
<1>2. c \in BOOLEAN /\ c' \in BOOLEAN
  BY DEF FeaturesShown
<1>3. c' <=> features' \in {{}, f}
  BY <1>1 DEF FeaturesShown
<1>4. ASSUME Settled(wire', T, G, c') PROVE FeaturesKnown'
  <2> DEFINE U == FeatureRecords(q)
  <2> DEFINE H == FeatureRight(q, f)
  <2>1. \A i \in DOMAIN wire' : (wire'[i] \in T <=> wire'[i] \in U)
                                /\ (wire'[i] \in G <=> wire'[i] \in H)
    BY <1>1, SameCommands, FeatureRecordsSame
  <2> HIDE DEF T, G, U, H, c
  <2>2. Settled(wire', U, H, c')
    BY <1>2, <1>4, <2>1, StaySettled
  <2> QED  BY <1>1, <2>2 DEF U, H, c, FeaturesKnown
<1>5. \A r \in T : r \in Records /\ IsResult(r) /\ r.kind \notin ThreadKinds \cup {"other"}
  BY FeatureRecordKinds
<1>6. wire \in Seq(Records)
  BY DEF GdbTypes
<1>7. ~unseen /\ gdbFeatures = f => Settled(wire, T, G, c)
  BY <1>1 DEF FeatureInv, FeaturesKnown
<1>8. features' = features /\ gdbFeatures = f => (c' <=> c)
  BY <1>3 DEF FeaturesShown
<1>9. ASSUME NEW rs \in Seq(Records), wire' = wire \o rs, Untouched(rs, T),
             features' = features, gdbFeatures = f, ~unseen
      PROVE  Settled(wire', T, G, c')
  <2> HIDE DEF T, G, c
  <2>1. Settled(wire \o rs, T, G, c)
    BY <1>2, <1>6, <1>7, <1>9, PrintOthers
  <2> QED  BY <1>2, <1>8, <1>9, <2>1 DEF Settled
<1>10. ASSUME NEW rs \in Seq(Records), wire' = wire \o rs, Settled(rs, T, G, FALSE)
       PROVE  Settled(wire', T, G, c')
  <2> HIDE DEF T, G, c
  <2> QED  BY <1>2, <1>6, <1>10, PrintGood
<1>11. CASE Submit \/ UNCHANGED session
  <2>1. UNCHANGED <<wire, features, gdbFeatures, unseen>>
    BY <1>11, Submitted DEF Submit, Enqueue, gdb, session, vars, registries
  <2>2. Settled(wire, T, G, c) /\ (c' <=> c)
    BY <1>1, <1>7, <1>8, <2>1
  <2>3. Settled(wire', T, G, c')
    <3> HIDE DEF T, G, c
    <3> QED  BY <1>2, <2>1, <2>2 DEF Settled
  <2> QED  BY <1>4, <2>3
<1>12. CASE Receive
  <2>1. PICK r : r = Head(wire)
    OBVIOUS
  <2>2. wire # <<>> /\ r \in Records /\ classify_record(r) /\ wire' = Tail(wire)
        /\ gdbFeatures' = gdbFeatures /\ unseen' = unseen
    BY <1>12, <2>1, TheFirst DEF Receive, gdb
  <2>3. Settled(wire, T, G, c)
    BY <1>1, <1>7, <2>2
  <2>4. r \notin T => (c => c')
    BY <1>1, <1>3, <2>2, FeatureRead DEF FeaturesShown
  <2>5. r \in T /\ r \in G => c'
    BY <1>1, <1>3, <2>2, FeatureRead
  <2>6. Settled(wire', T, G, c')
    <3> HIDE DEF T, G, c
    <3> QED  BY <1>2, <1>6, <2>1, <2>2, <2>3, <2>4, <2>5, Read
  <2> QED  BY <1>4, <2>6
<1>13. CASE Answering
  <2>1. PICK rs, s : wire' = wire \o rs /\ Carries(rs, s) /\ Answered(s, Head(outbound))
    BY <1>13, Said
  <2>2. PICK d : d = Head(outbound)
    OBVIOUS
  <2>3. features' = features /\ outbound # <<>>
    BY <1>13, AnsweringPrints DEF consume_outbound, registries
  <2>4. s \in Records /\ IsResult(s) /\ s.token = d.token
    BY <2>1, <2>2 DEF Carries
  <2>5. /\ rs \in Seq(Records)
        /\ s \in T /\ s \in G => Settled(rs, T, G, FALSE)
        /\ s \notin T => Untouched(rs, T)
    <3> HIDE DEF T, G
    <3> QED  BY <1>5, <2>1, SaidSettles
  <2>6. d.token \in DOMAIN p /\ p[d.token].operation \in {Operation(d.name), "raw"}
    <3>1. 1 \in DOMAIN outbound /\ d = outbound[1]
      BY <2>2, <2>3, TailElements DEF GdbTypes
    <3>2. p[d.token] \in InfoOf(d) /\ d.token \in DOMAIN p
      BY <1>1, <3>1 DEF PendingInv
    <3> QED  BY <3>2 DEF InfoOf
  <2>7. s \in T <=> /\ s.class \in {"done", "connected"}
                    /\ p[d.token].operation \in {"list-target-features", "target-select", "exec-run"}
    BY <2>4, <2>6 DEF FeatureRecords, Answers
  <2>8. Routes <=> p[d.token].operation # "raw"
    BY <1>1, <2>2 DEF Routes
  <2>9. CASE d.name = "target-select" /\ s.class = "connected"
    <3>1. Routes
      BY <2>1, <2>2, <2>9 DEF Answered
    <3>2. p[d.token].operation = "target-select"
      BY <2>6, <2>8, <2>9, <3>1 DEF Operation, Routed
    <3>3. s \in T /\ s \in G
      BY <2>4, <2>7, <2>9, <3>2 DEF FeatureRight
    <3> QED  BY <1>4, <1>10, <2>1, <2>5, <3>3
  <2>10. CASE d.name = "list-target-features" /\ s.class = "done"
    <3>1. /\ s.results = [features |-> gdbFeatures] /\ gdbFeatures = f
          /\ ~unseen \/ Routes
      BY <1>1, <2>1, <2>2, <2>10 DEF Answered
    <3>2. CASE Routes
      <4>1. p[d.token].operation = "list-target-features"
        BY <2>6, <2>8, <2>10, <3>2 DEF Operation, Routed
      <4>2. s \in T /\ s \in G
        BY <2>4, <2>7, <2>10, <3>1, <4>1 DEF FeatureRight
      <4> QED  BY <1>4, <1>10, <2>1, <2>5, <4>2
    <3>3. CASE ~Routes
      <4>1. s \notin T
        BY <2>7, <2>8, <3>3
      <4> QED  BY <1>4, <1>9, <2>1, <2>3, <2>5, <3>1, <3>3, <4>1
    <3> QED  BY <3>2, <3>3
  <2>11. CASE /\ ~(d.name = "target-select" /\ s.class = "connected")
              /\ ~(d.name = "list-target-features" /\ s.class = "done")
    <3>1. gdbFeatures = f /\ ~unseen
      BY <1>1, <2>1, <2>2, <2>11 DEF Answered
    <3>2. s \in T => s \in G
      <4> SUFFICES ASSUME s \in T, p[s.token].operation = "list-target-features"
                   PROVE  FALSE
        BY DEF FeatureRight
      <4>1. d.name = "list-target-features"
        BY <2>4, <2>6 DEF Operation
      <4>2. s.class = "done"
        BY <2>1, <2>2, <2>7, <4>1 DEF Answered
      <4> QED  BY <2>11, <4>1, <4>2
    <3> QED  BY <1>4, <1>9, <1>10, <2>1, <2>3, <2>5, <3>1, <3>2
  <2> QED  BY <2>9, <2>10, <2>11
<1>14. CASE Unprompted
  <2>1. features' = features /\ gdbFeatures' = gdbFeatures /\ ~unseen
    BY <1>14, UnpromptedPrints DEF vars, registries
  <2>2. PICK rs : wire' = wire \o rs /\ Quiet(rs)
    BY <1>14, UnpromptedPrints
  <2>3. rs \in Seq(Records) /\ Untouched(rs, T)
    BY <1>5, <2>2 DEF Quiet, Untouched
  <2> QED  BY <1>1, <1>4, <1>9, <2>1, <2>2, <2>3
<1> QED  BY <1>11, <1>12, <1>13, <1>14 DEF SessionNext, Answering, Unprompted

LEMMA FeatureInvInit == SessionInit => FeatureInv
<1> SUFFICES ASSUME SessionInit PROVE FeaturesKnown
  BY DEF FeatureInv
<1>1. wire = <<>> /\ features = {}
  BY DEF SessionInit, Init
<1> QED  BY <1>1 DEF FeaturesKnown, FeaturesShown, Settled, Untouched, LastIsGood

(* The cached features are those of the target, or none, whatever is asked *)
(* and in whatever order, unless an -exec-run or a raw -target-select came *)
(* after the last listing and the last routed selection.                   *)
THEOREM FeaturesCaughtUp == SessionSpec => []FeaturesStaleOnlyUnseen
<1>1. GdbTypes /\ TypeOK /\ DataInv /\ FeatureInv /\ [SessionNext]_session => FeatureInv'
  BY FeaturesKnownKept DEF TypeOK, DataInv, FeatureInv
<1>2. FeatureInv => FeaturesStaleOnlyUnseen
  <2> SUFFICES ASSUME FeatureInv, ~unseen, wire = <<>> PROVE features \in {{}, gdbFeatures}
    BY DEF FeaturesStaleOnlyUnseen, TargetFeaturesCurrent
  <2>1. Settled(<<>>, FeatureRecords(pending), FeatureRight(pending, gdbFeatures), FeaturesShown)
    BY DEF FeatureInv, FeaturesKnown
  <2>2. FeaturesShown
    BY <2>1, CaughtUp
  <2> QED  BY <2>2 DEF FeaturesShown
<1> QED  BY <1>1, <1>2, FeatureInvInit, SessionTypes, SessionTypeOK, SessionData, PTL
         DEF SessionSpec
=============================================================================
