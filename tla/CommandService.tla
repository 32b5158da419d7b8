---------------------------- MODULE CommandService ----------------------------
(***************************************************************************)
(* What a caller of TransportHandle::submit may rely on, with nothing of   *)
(* tokens, maps, channels and tasks: a command is asked once, GDB gives at *)
(* most one verdict on it, and the call returns that verdict; it returns   *)
(* Exited only when the session is over; or its caller gives it up.        *)
(***************************************************************************)
CONSTANTS Calls, Outcomes

VARIABLES
  state,    \* what each call is at
  verdict,  \* GDB's verdict on each command: none, or one outcome
  result,   \* the outcome each call returned, if it returned one
  over      \* the session is over

vars == <<state, verdict, result, over>>

Init ==
  /\ state = [c \in Calls |-> "new"]
  /\ verdict = [c \in Calls |-> {}]
  /\ result = [c \in Calls |-> {}]
  /\ over = FALSE

Ask(c) ==
  /\ state[c] = "new"
  /\ state' = [state EXCEPT ![c] = "asked"]
  /\ UNCHANGED <<verdict, result, over>>

Decide(c, o) ==
  /\ state[c] # "new" /\ verdict[c] = {}
  /\ verdict' = [verdict EXCEPT ![c] = {o}]
  /\ UNCHANGED <<state, result, over>>

Answer(c) ==
  /\ state[c] = "asked" /\ verdict[c] # {}
  /\ state' = [state EXCEPT ![c] = "outcome"]
  /\ result' = [result EXCEPT ![c] = verdict[c]]
  /\ UNCHANGED <<verdict, over>>

Fail(c) ==
  /\ state[c] \in {"new", "asked"} /\ over
  /\ state' = [state EXCEPT ![c] = "exited"]
  /\ UNCHANGED <<verdict, result, over>>

GiveUp(c) ==
  /\ state[c] = "asked"
  /\ state' = [state EXCEPT ![c] = "cancelled"]
  /\ UNCHANGED <<verdict, result, over>>

End == over' = TRUE /\ UNCHANGED <<state, verdict, result>>

Next ==
  \/ \E c \in Calls : Ask(c) \/ Answer(c) \/ Fail(c) \/ GiveUp(c)
  \/ \E c \in Calls, o \in Outcomes : Decide(c, o)
  \/ End

Spec == Init /\ [][Next]_vars
=============================================================================
