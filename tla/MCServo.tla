------------------------------ MODULE MCServo ------------------------------
(* The gripper's servo: FSUS_process asks, the manager moves and waits.    *)
EXTENDS Servo

Asking == [fsus    |-> {"reset", "data"} \X {"none"},
           manager |-> {"move"} \X Goals]
=============================================================================
