----------------------------- MODULE MCVaultItems -----------------------------
(* A small instance of VaultItems.                                            *)
EXTENDS VaultItems, TLC

CONSTANTS i1, h1, h2, s1, s2, r1, r2, w1, w2

MCItems == {i1}
MCHandshakes == {h1, h2}
MCSessions == {s1, s2}
MCRequests == {r1, r2}
MCWriters == {w1, w2}

\* Everything is interchangeable within its set.
MCSymmetry ==
    Permutations(MCHandshakes) \cup Permutations(MCSessions)
        \cup Permutations(MCRequests) \cup Permutations(MCWriters)
=============================================================================
