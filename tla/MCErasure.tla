----------------------------- MODULE MCErasure -----------------------------
(* A small instance of Erasure for TLC.  Its sets are not symmetric, as    *)
(* the instance checks liveness.                                           *)
EXTENDS Erasure

CONSTANTS q1, q2, d1, d2, u1, u2, nobody

MCRequests == {q1, q2}
MCDrivers == {d1, d2}
MCOneDriver == {d1}
MCCallers == {u1, u2}
MCOneCaller == {u1}
=============================================================================
