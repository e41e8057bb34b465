----------------------------- MODULE MCLibrary -----------------------------
(* Two states of the application, over vectors that grow at the third element *)
EXTENDS Library

CONSTANTS s1, s2

TwoStates == {s1, s2}

\* The application's states are interchangeable.
Swap == Permutations(TwoStates)
=============================================================================
