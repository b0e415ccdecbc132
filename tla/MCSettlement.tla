---------------------------- MODULE MCSettlement ----------------------------
(* A small instance of Settlement for TLC.                                 *)
EXTENDS Settlement, TLC

CONSTANTS c1, c2, o1, o2, k1, d1, nobody

MCCases == {c1, c2}
MCOneCase == {c1}
MCOperators == {o1, o2}
MCContacts == {k1}
MCDocs == {d1}

\* Cases and operators are interchangeable.
MCSymmetry == Permutations(MCCases) \cup Permutations(MCOperators)
MCOperatorSymmetry == Permutations(MCOperators)
=============================================================================
