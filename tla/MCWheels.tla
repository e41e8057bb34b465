------------------------------ MODULE MCWheels ------------------------------
(* Two wheels; the first turns past both ends of a turn of four angles.    *)
EXTENDS Wheels

OneTurns == [m \in Motors |-> IF m = 0 THEN 1 ELSE 0]
SpeedAndPos == {[mode |-> "SPEED", val |-> 1], [mode |-> "POS", val |-> 1]}
=============================================================================
