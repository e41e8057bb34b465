------------------------------ MODULE AtomicBus ------------------------------
(***************************************************************************)
(* What a publisher of chassis commands relies on: the command it          *)
(* publishes reaches the chassis once, as it is, before abus_public        *)
(* returns, and no other command reaches it.  RobotManager uses the bus in *)
(* this form.                                                              *)
(***************************************************************************)
CONSTANTS Publishers, Messages, None

VARIABLES
  wants,    \* [publisher -> the message it is publishing, or None]
  command   \* the command the chassis executes

vars == <<wants, command>>

Init == wants = [p \in Publishers |-> None] /\ command = None

Ask(p, m) ==
  /\ wants[p] = None
  /\ wants' = [wants EXCEPT ![p] = m]
  /\ UNCHANGED command

Execute(p) ==
  /\ wants[p] # None
  /\ command' = wants[p]
  /\ wants' = [wants EXCEPT ![p] = None]

Next == \E p \in Publishers : Execute(p) \/ \E m \in Messages : Ask(p, m)

Spec == Init /\ [][Next]_vars
=============================================================================
