---------------------------- MODULE MCStepperBus ----------------------------
(* The stepper bus on a reliable and on a faulty line.                     *)
EXTENDS StepperBus
=============================================================================
