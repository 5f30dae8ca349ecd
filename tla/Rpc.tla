--------------------------------- MODULE Rpc ---------------------------------
(***************************************************************************)
(* What request() of AppServerClient promises to the threads that call it, *)
(* without a queue, a process or a dispatcher: a call is refused only when *)
(* Cap others are open, its request goes out at most once, and it comes    *)
(* back with its own answer, which it can have only when its request has   *)
(* gone out, with an error, or without anything.  Transport implements it. *)
(***************************************************************************)
EXTENDS Integers, FiniteSets

CONSTANTS
  Callers,     \* the threads
  Cap,         \* calls open at a time
  MaxCalls,    \* bound: calls
  Nothing,     \* the outcome of a timeout
  Error        \* the outcome of a failure

VARIABLES
  begun,       \* calls so far, the refused ones included
  phase,       \* of each caller
  call,        \* the call a caller is in, 0 outside of one
  asked,       \* the calls whose request has gone out
  outcome      \* what a returned call brought

vars == <<begun, phase, call, asked, outcome>>

Open == {call[c] : c \in {d \in Callers : phase[d] # "idle"}}

Init ==
  /\ begun = 0 /\ asked = {}
  /\ phase = [c \in Callers |-> "idle"]
  /\ call = [c \in Callers |-> 0]
  /\ outcome = [c \in Callers |-> Nothing]

Begin(c) ==
  /\ phase[c] = "idle" /\ begun < MaxCalls /\ Cardinality(Open) < Cap
  /\ begun' = begun + 1
  /\ phase' = [phase EXCEPT ![c] = "begun"]
  /\ call' = [call EXCEPT ![c] = begun + 1]
  /\ UNCHANGED <<asked, outcome>>

Refuse(c) ==
  /\ phase[c] = "idle" /\ begun < MaxCalls /\ Cardinality(Open) >= Cap
  /\ begun' = begun + 1
  /\ UNCHANGED <<phase, call, asked, outcome>>

Ask(c) ==
  /\ phase[c] = "begun" /\ call[c] \notin asked
  /\ asked' = asked \cup {call[c]}
  /\ phase' = [phase EXCEPT ![c] = "asked"]
  /\ UNCHANGED <<begun, call, outcome>>

\* A call that has not gone out can only fail.
Outcomes(c) ==
  {Error} \cup IF phase[c] = "asked" THEN {Nothing, call[c]} ELSE {}

Return(c) ==
  /\ phase[c] \in {"begun", "asked"}
  /\ \E v \in Outcomes(c) : outcome' = [outcome EXCEPT ![c] = v]
  /\ phase' = [phase EXCEPT ![c] = "returned"]
  /\ UNCHANGED <<begun, call, asked>>

Leave(c) ==
  /\ phase[c] = "returned"
  /\ phase' = [phase EXCEPT ![c] = "idle"]
  /\ call' = [call EXCEPT ![c] = 0]
  /\ outcome' = [outcome EXCEPT ![c] = Nothing]
  /\ UNCHANGED <<begun, asked>>

Next == \E c \in Callers :
          Begin(c) \/ Refuse(c) \/ Ask(c) \/ Return(c) \/ Leave(c)

Spec == Init /\ [][Next]_vars
==============================================================================
