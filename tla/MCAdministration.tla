-------------------------- MODULE MCAdministration --------------------------
(* Small instances of Administration.  User "both" is the executor and also  *)
(* an operator, user o1 only an operator: every dual control is in play.     *)
EXTENDS Administration, TLC

CONSTANTS o1, both, g1, g2, g3, d1, t1, h1, h2

MCExecutors == {both}
MCOperators == {o1, both}
MCGrants == {g1, g2, g3}
MCOneGrant == {g1}
MCDists == {d1}
MCTasks == {t1}
MCHandlers == {h1, h2}

\* Row ids and handlers are interchangeable; the users are not.
MCSymmetry == Permutations(MCGrants) \cup Permutations(MCHandlers)
=============================================================================
