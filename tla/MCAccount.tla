----------------------------- MODULE MCAccount -----------------------------
(* A small instance of Account for TLC.                                    *)
EXTENDS Account, TLC

CONSTANTS s1, s2, r1, r2, k1, k2, null

MCSessions == {s1, s2}
MCCodes == {k1, k2}
MCHandlers == {r1, r2}

\* Sessions, codes and handlers are interchangeable.
MCSymmetry ==
    Permutations(MCSessions) \cup Permutations(MCCodes) \cup Permutations(MCHandlers)
=============================================================================
