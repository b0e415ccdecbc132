---------------------------- MODULE MCAuditChain ----------------------------
(* A small instance of AuditChain for TLC.  Its sets are not symmetric, as *)
(* the instance checks liveness.                                           *)
EXTENDS AuditChain

CONSTANTS e1, e2, bad, p1, p2, i1, i2, none

MCEvents == {e1, e2, bad}
MCMalformed == {bad}
MCTwoEvents == {e1, e2}
MCPartitions == {p1, p2}
MCOnePartition == {p1}
MCIngestors == {i1, i2}
=============================================================================
