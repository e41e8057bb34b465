------------------------------- MODULE MCAbus -------------------------------
(* The chassis topic with a ring of a few messages.                        *)
EXTENDS Abus
=============================================================================
