-------------------------- MODULE MCEmergencyAccess --------------------------
(* Small instances of EmergencyAccess.                                       *)
EXTENDS EmergencyAccess, TLC

CONSTANTS p1, p2, h1, h2

MCPolicies == {p1, p2}
MCHandlers == {h1, h2}

\* Policies and handlers are interchangeable.
MCSymmetry == Permutations(MCPolicies) \cup Permutations(MCHandlers)
=============================================================================
