---------------------------- MODULE MCDeadLetters ----------------------------
(***************************************************************************)
(* A small instance of the dead letter routes for TLC: jobs and requests   *)
(* are interchangeable.                                                    *)
(***************************************************************************)
EXTENDS DeadLetters, TLC

CONSTANTS j1, j2, o1, o2

TwoJobs      == {j1, j2}
TwoOperators == {o1, o2}

SymmetricLetters == Permutations(Jobs) \union Permutations(Operators)
=============================================================================
