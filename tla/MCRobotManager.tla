--------------------------- MODULE MCRobotManager ---------------------------
(* The mission on small instances.                                         *)
EXTENDS RobotManager
=============================================================================
