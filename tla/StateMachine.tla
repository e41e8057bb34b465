---------------------------- MODULE StateMachine ----------------------------
(***************************************************************************)
(* The state machine library (statemachine.c) over its vectors.  User are  *)
(* the application's states, each with all three callbacks; Finish is the  *)
(* machine's own defaultFinishState, which has none.  A transition is the  *)
(* state it leads to; its condition is the application's, so that any one  *)
(* of a state's transitions may be the first whose condition holds.        *)
(***************************************************************************)
EXTENDS CVector, FiniteSets

CONSTANTS
  User,       \* the application's states
  Finish,     \* sm->defaultFinishState
  None,       \* NULL
  MaxStates,  \* bound on calls of addState
  MaxAdds,    \* bound on transitions
  MaxRestarts \* bound on calls of restart

ASSUME StateMachineAssumption ==
  /\ Finish \notin User /\ None \notin User \cup {Finish}
  /\ MaxStates \in Nat /\ MaxAdds \in Nat /\ MaxRestarts \in Nat

VARIABLES
  states,     \* sm->states
  trans,      \* the transitions of every state
  current, previous, started, finished,
  (* history *)
  entered,    \* calls of entry less calls of exit, of every state
  restarts    \* calls of aStateMachine_restart

machine == <<current, previous, started, finished>>
calls == <<entered, restarts>>
vars == <<states, trans, machine, calls>>

All == User \cup {Finish}

\* aStateMachine_Init, and aState_Init of every state.
Init ==
  /\ states = cvector_create
  /\ trans = [s \in All |-> cvector_create]
  /\ current = None /\ previous = None /\ started = FALSE /\ finished = FALSE
  /\ entered = [s \in User |-> 0] /\ restarts = 0

-----------------------------------------------------------------------------
\* The answer of cvector_pushback is not looked at.
addState(s) ==
  /\ states.len < MaxStates
  /\ \E ok \in BOOLEAN : states' = cvector_pushback(states, s, ok).v
  /\ UNCHANGED <<trans, machine, calls>>

Known(s) == \E i \in 0 .. states.len - 1 : cvector_at(states, i) = s

Transitions == UNION {{<<s, i>> : i \in 0 .. trans[s].len - 1} : s \in All}

\* By the pointer to a transition: to any state, whether or not the machine knows it.
\* That the vector could not grow is not reported.
aState_addTransition(from, to) ==
  /\ Cardinality(Transitions) < MaxAdds
  /\ \E ok \in BOOLEAN :
       trans' = [trans EXCEPT ![from] = cvector_pushback(@, to, ok).v]
  /\ UNCHANGED <<states, machine, calls>>

\* The four forms, by pointer or by name: a name is looked up among the states, and
\* a target that is NULL is replaced by Finish.  An unknown source is only reported.
addTransition(from, to) ==
  /\ Known(from)
  /\ aState_addTransition(from, IF to = None THEN Finish ELSE to)

Entry(count, s) == IF s \in User THEN [count EXCEPT ![s] = @ + 1] ELSE count
Exit(count, s) == IF s \in User THEN [count EXCEPT ![s] = @ - 1] ELSE count

start(s) ==
  /\ ~started
  /\ started' = TRUE /\ current' = s /\ previous' = None
  /\ entered' = Entry(entered, s)
  /\ UNCHANGED <<states, trans, finished, restarts>>

\* The state the machine is in is not left by its exit, and started is cleared.
restart(s) ==
  /\ restarts < MaxRestarts /\ restarts' = restarts + 1
  /\ started' = FALSE /\ finished' = FALSE /\ current' = s /\ previous' = None
  /\ entered' = Entry(entered, s)
  /\ UNCHANGED <<states, trans>>

\* Mutated form: exit is not called.
Move_NoExit(to) ==
  /\ previous' = current /\ current' = to
  /\ entered' = Entry(entered, to)

Move(to) ==
  /\ previous' = current /\ current' = to
  /\ entered' = Entry(Exit(entered, current), to)

\* The transitions are looked at also where excution has just finished the machine.
update ==
  /\ started /\ ~finished
  /\ finished' \in IF current \in User THEN BOOLEAN ELSE {FALSE}
  /\ \/ \E i \in 0 .. trans[current].len - 1 : Move(cvector_at(trans[current], i))
     \/ UNCHANGED <<current, previous, entered>>
  /\ UNCHANGED <<states, trans, started, restarts>>

finish ==
  /\ finished' = TRUE
  /\ UNCHANGED <<states, trans, current, previous, started, calls>>

Next ==
  \/ \E s \in All : addState(s) \/ start(s) \/ restart(s)
  \/ \E from, to \in All : aState_addTransition(from, to)
  \/ \E from \in All, to \in All \cup {None} : addTransition(from, to)
  \/ update \/ finish

Spec == Init /\ [][Next]_vars

-----------------------------------------------------------------------------
\* Of a machine that was never restarted exactly the current state has been
\* entered and not left: update calls exit before entry, once each, also on a
\* transition of a state to itself and when the machine finishes
\* (aStateMachine_update).  A restart enters a state and leaves none, and so does the
\* start it takes to go on (aStateMachine_restart clears started); but even then no
\* state is left more often than it was entered.
EntryExit ==
  \A s \in User :
    LET inside == IF s = current THEN 1 ELSE 0
    IN  entered[s] >= inside /\ (restarts = 0 => entered[s] = inside)

=============================================================================
