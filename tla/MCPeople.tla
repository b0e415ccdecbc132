------------------------------- MODULE MCPeople -------------------------------
(* A small instance of People.                                                *)
EXTENDS People, TLC

CONSTANTS c1, x1, x2, v1, v2, v3, u1, u2, r1, r2, r3

MCContacts == {c1}
MCRoles == {x1, x2}
MCInvitations == {v1, v2, v3}
MCUsers == {u1, u2}
MCRequests == {r1, r2, r3}

\* Rows, accounts and requests are interchangeable.
MCSymmetry ==
    Permutations(MCRoles) \cup Permutations(MCInvitations) \cup Permutations(MCUsers)
        \cup Permutations(MCRequests)
=============================================================================
