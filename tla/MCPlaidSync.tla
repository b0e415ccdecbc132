----------------------------- MODULE MCPlaidSync -----------------------------
(* A small instance of PlaidSync.                                             *)
EXTENDS PlaidSync, TLC

CONSTANTS i1, r1, r2, r3

MCItems == {i1}
MCRequests == {r1, r2, r3}
MCTwoRequests == {r1, r2}

\* Requests are interchangeable.
MCSymmetry == Permutations(MCRequests)
=============================================================================
