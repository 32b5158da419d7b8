------------------------------ MODULE GdbSession ------------------------------
(***************************************************************************)
(* A session: the Connection, its callers, and GDB with an inferior of     *)
(* several threads.  GDB answers the commands in order; between them its   *)
(* threads start, stop and exit as they please.  Every step of GDB prints  *)
(* its records at once; the connection takes them one at a time, so that a *)
(* chunk of the reader is any number of steps of Receive.                  *)
(***************************************************************************)
EXTENDS Connection, FiniteSets, SequencesExt

CONSTANTS
  MainThread,   \* the thread a process starts with
  Modes,        \* whether non-stop is on: FRAMEWALK_NON_STOP
  Scripts,      \* the commands a session uses, each with how it is submitted
  Parent, Child, \* a variable object and its child
  MaxCommands,  \* bound on the commands
  MaxAsync      \* bound on what GDB does unasked

ASSUME MainAssumption == MainThread \in ThreadIds /\ {Parent, Child} \subseteq VarNames
ASSUME ModesAssumption == Modes \subseteq BOOLEAN
ASSUME ScriptsAssumption ==
  \A s \in Scripts : \A c \in s :
    /\ c \in [name : Names, arg : Args, via : {"submit", "submit_raw"}]
    /\ c.name = "break-insert" => c.arg \in BreakIds

VARIABLES
  nonStop, script,
  wire,         \* the records GDB printed and the reader has not read
  inferior,     \* thread -> where it stands, or Moving
  gdbBreaks,    \* breakpoint -> whether it is enabled, of those GDB reported
  gdbVars,      \* variable object -> its value, of those GDB reported
  gdbFeatures,  \* the features of the target
  unseen,       \* the target was changed since its features were last listed, by
                \* a command whose answer the Connection does not route (history)
  asyncs        \* what GDB did unasked so far (bound)

gdb     == <<nonStop, script, inferior, gdbBreaks, gdbVars, gdbFeatures, unseen, asyncs>>
session == <<vars, wire, gdb>>

Moving == "moving"
ASSUME MovingAssumption == Moving \notin Locations

SessionInit ==
  /\ Init
  /\ nonStop \in Modes /\ script \in Scripts
  /\ wire = <<>> /\ inferior = EmptyMap
  /\ gdbBreaks = EmptyMap /\ gdbVars = EmptyMap /\ gdbFeatures = Features
  /\ unseen = FALSE /\ asyncs = 0

-----------------------------------------------------------------------------
Submit ==
  /\ tokens <= MaxCommands
  /\ \E c \in script :
       \/ c.via = "submit" /\ submit(c.name, c.arg)
       \/ c.via = "submit_raw" /\ submit_raw(c.name, c.arg)
  /\ UNCHANGED <<wire, gdb>>

Receive ==
  /\ wire # <<>>
  /\ classify_record(Head(wire))
  /\ wire' = Tail(wire)
  /\ UNCHANGED gdb

-----------------------------------------------------------------------------
Says(class, results) ==
  [kind |-> "result", token |-> Head(outbound).token, class |-> class, results |-> results]
Done(results) == Says("done", results)

OnRunning(t)   == [kind |-> "running", thread |-> IF nonStop THEN t ELSE All]
OnStopped(t, reason, frame) ==
  [kind |-> "stopped", thread |-> t, reason |-> reason, frame |-> frame]
OnThread(class, t) == [kind |-> class, thread |-> t]
ThreadsExit ==
  LET order == SetToSeq(DOMAIN inferior)
  IN [i \in DOMAIN order |-> OnThread("thread-exited", order[i])]

(* GDB takes the next command and prints the records.                      *)
Serve(name, records) ==
  /\ consume_outbound /\ Head(outbound).name = name
  /\ wire' = wire \o records
  /\ UNCHANGED <<nonStop, script, asyncs>>

Arg == Head(outbound).arg
Routes == pending[Head(outbound).token].operation # "raw"

(* -exec-run kills the process there is, and starts another.  GDB answers  *)
(* ^running, which classify_result does not route.                         *)
Run ==
  /\ Serve("exec-run", ThreadsExit \o
       <<OnThread("thread-created", MainThread), Says("running", EmptyMap), OnRunning(MainThread)>>)
  /\ inferior' = With(EmptyMap, MainThread, Moving)
  /\ gdbFeatures' \in SUBSET Features /\ unseen' = TRUE
  /\ UNCHANGED <<gdbBreaks, gdbVars>>

Continue ==
  /\ Serve("exec-continue", <<Says("running", EmptyMap), OnRunning(Arg)>>)
  /\ Arg \in DOMAIN inferior /\ inferior[Arg] # Moving
  /\ inferior' = [t \in DOMAIN inferior |-> IF nonStop /\ t # Arg THEN inferior[t] ELSE Moving]
  /\ UNCHANGED <<gdbBreaks, gdbVars, gdbFeatures, unseen>>

Detach ==
  /\ Serve("target-detach", ThreadsExit \o <<Done(EmptyMap)>>)
  /\ inferior' = EmptyMap
  /\ UNCHANGED <<gdbBreaks, gdbVars, gdbFeatures, unseen>>

Select ==
  /\ Serve("target-select", <<[kind |-> "other"], Says("connected", EmptyMap)>>)
  /\ gdbFeatures' \in SUBSET Features /\ unseen' = ~Routes
  /\ UNCHANGED <<inferior, gdbBreaks, gdbVars>>

ListFeatures ==
  /\ Serve("list-target-features", <<Done([features |-> gdbFeatures])>>)
  /\ unseen' = (unseen /\ ~Routes)
  /\ UNCHANGED <<inferior, gdbBreaks, gdbVars, gdbFeatures>>

BreakInsert ==
  /\ \E e \in BOOLEAN :
       /\ Serve("break-insert", <<Done([bkpt |-> [number |-> Arg, enabled |-> e]])>>)
       /\ gdbBreaks' = IF Routes THEN With(gdbBreaks, Arg, e) ELSE gdbBreaks
  /\ UNCHANGED <<inferior, gdbVars, gdbFeatures, unseen>>

VarCreate ==
  /\ \E v \in Values :
       /\ Serve("var-create", <<Done([name |-> Parent, value |-> v])>>)
       /\ gdbVars' = IF Routes THEN With(gdbVars, Parent, v) ELSE gdbVars
  /\ UNCHANGED <<inferior, gdbBreaks, gdbFeatures, unseen>>

(* What changed since the last -var-update, of the object and its child.   *)
VarUpdate ==
  /\ \E changes \in Maps({Parent, Child}, Values) :
       /\ DOMAIN changes # {} => Parent \in DOMAIN gdbVars
       /\ Serve("var-update", <<Done([changelist |-> changes])>>)
       /\ gdbVars' = IF Routes
                     THEN [n \in DOMAIN gdbVars \cup DOMAIN changes |->
                            IF n \in DOMAIN changes THEN changes[n] ELSE gdbVars[n]]
                     ELSE gdbVars
  /\ UNCHANGED <<inferior, gdbBreaks, gdbFeatures, unseen>>

(* -var-delete deletes the children as well.                               *)
VarDelete ==
  /\ Serve("var-delete", <<Done(EmptyMap)>>)
  /\ gdbVars' = EmptyMap
  /\ UNCHANGED <<inferior, gdbBreaks, gdbFeatures, unseen>>

Refuse ==
  /\ outbound # <<>> /\ Serve(Head(outbound).name, <<Says("error", EmptyMap)>>)
  /\ UNCHANGED <<inferior, gdbBreaks, gdbVars, gdbFeatures, unseen>>

-----------------------------------------------------------------------------
Unasked(records) ==
  /\ asyncs < MaxAsync /\ asyncs' = asyncs + 1
  /\ wire' = wire \o records
  /\ UNCHANGED <<vars, nonStop, script, gdbVars, gdbFeatures, unseen>>

Movers == {t \in DOMAIN inferior : inferior[t] = Moving}

Spawn ==
  /\ Movers # {}
  /\ \E t \in ThreadIds \ DOMAIN inferior :
       /\ Unasked(<<OnThread("thread-created", t), [kind |-> "running", thread |-> t]>>)
       /\ inferior' = With(inferior, t, Moving)
  /\ UNCHANGED gdbBreaks

(* A thread hits a breakpoint; in all-stop mode every thread stops.        *)
Stop ==
  /\ \E t \in Movers, where \in [DOMAIN inferior -> Locations] :
       /\ Unasked(<<OnStopped(t, "breakpoint-hit", where[t])>>)
       /\ inferior' = [u \in DOMAIN inferior |->
                        IF nonStop /\ u # t THEN inferior[u] ELSE where[u]]
  /\ UNCHANGED gdbBreaks

ThreadExit ==
  /\ Cardinality(DOMAIN inferior) > 1
  /\ \E t \in Movers :
       /\ Unasked(<<OnThread("thread-exited", t)>>)
       /\ inferior' = Without(inferior, t)
  /\ UNCHANGED gdbBreaks

ProcessExit ==
  /\ Movers # {}
  /\ \E reason \in ExitReasons :
       Unasked(Append(ThreadsExit, OnStopped(NoThread, reason, NoFrame)))
  /\ inferior' = EmptyMap
  /\ UNCHANGED gdbBreaks

(* A breakpoint is hit, or changed or deleted from GDB's own side.         *)
BreakModified ==
  /\ \E b \in DOMAIN gdbBreaks, e \in BOOLEAN :
       /\ Unasked(<<[kind |-> "breakpoint-modified", bkpt |-> [number |-> b, enabled |-> e]]>>)
       /\ gdbBreaks' = With(gdbBreaks, b, e)
  /\ UNCHANGED inferior

BreakDeleted ==
  /\ \E b \in DOMAIN gdbBreaks :
       /\ Unasked(<<[kind |-> "breakpoint-deleted", number |-> b]>>)
       /\ gdbBreaks' = Without(gdbBreaks, b)
  /\ UNCHANGED inferior

SessionNext ==
  \/ Submit \/ Receive
  \/ Run \/ Continue \/ Detach \/ Select \/ ListFeatures
  \/ BreakInsert \/ VarCreate \/ VarUpdate \/ VarDelete \/ Refuse
  \/ Spawn \/ Stop \/ ThreadExit \/ ProcessExit \/ BreakModified \/ BreakDeleted

SessionSpec == SessionInit /\ [][SessionNext]_session

-----------------------------------------------------------------------------
(* Once the reader has caught up with GDB, the registry has the threads of *)
(* the process, in non-stop mode (the default) with the state of each, and *)
(* a frame in the registry is where its thread stands, never where it      *)
(* stood before it moved on.                                               *)
RegistriesAreCurrent ==
  wire = <<>> =>
    /\ DOMAIN threads = DOMAIN inferior
    /\ nonStop => \A t \in DOMAIN inferior :
                    threads[t] = IF inferior[t] = Moving THEN "Running" ELSE "Stopped"
    /\ \A t \in DOMAIN frames \cap DOMAIN inferior : frames[t] = inferior[t]

(* Once the reader has caught up, a target that is "stopped" stopped at a  *)
(* thread that stands still, and "exited" means that there is no process.  *)
TargetIsCurrent ==
  wire = <<>> =>
    /\ target.state = "Exited" => inferior = EmptyMap
    /\ target.state = "Stopped" /\ target.thread \in DOMAIN inferior =>
         inferior[target.thread] # Moving
    /\ target.state = "Running" /\ target.thread \in DOMAIN inferior =>
         inferior[target.thread] = Moving
    /\ target.state = "Stopped" => target.thread # NoThread

(* Once the reader has caught up, the registries show of each breakpoint   *)
(* and each variable object what GDB last reported, however the replies to *)
(* different operations and the notifications were interleaved.            *)
LastReportKept ==
  wire = <<>> =>
    /\ \A b \in DOMAIN gdbBreaks : b \in DOMAIN breakpoints /\ breakpoints[b] = gdbBreaks[b]
    /\ \A n \in DOMAIN gdbVars : n \in DOMAIN varobjs /\ varobjs[n] = gdbVars[n]

(* Once the reader has caught up, the cached target features are those of  *)
(* the target, or none.                                                    *)
TargetFeaturesCurrent == wire = <<>> => features \in {{}, gdbFeatures}

(* Once the reader has caught up, the cached target features are those of  *)
(* the target, or none, however the replies to pipelined selections, runs  *)
(* and listings followed each other, unless a change that no routed answer *)
(* told of came after the last listing and the last routed selection: an   *)
(* -exec-run, or a -target-select submitted raw.                           *)
FeaturesStaleOnlyUnseen == ~unseen => TargetFeaturesCurrent

(* A target whose state is running or stopped is there; the counterexample *)
(* is a detach.                                                            *)
LiveTarget ==
  wire = <<>> => (target.state \in {"Running", "Stopped"} => inferior # EmptyMap)
=============================================================================
