---------------------------- MODULE MCAssetLedger ----------------------------
(* A small instance of AssetLedger for TLC.                                *)
EXTENDS AssetLedger, TLC

CONSTANTS a1, a2, id1, id2, id3, id4, v1, v2, k1, k2, r1, r2, none

MCAssets == {a1, a2}
MCOneAsset == {a1}
MCIds == {id1, id2, id3}
MCFourIds == {id1, id2, id3, id4}
MCValues == {v1, v2}
MCOneValue == {v1}
MCContacts == {k1}
MCTwoContacts == {k1, k2}
MCAttempts == {r1, r2}

\* Every set is interchangeable, and no property is about more than a step.
MCSymmetry ==
    Permutations(Assets) \cup Permutations(Ids) \cup Permutations(Values)
        \cup Permutations(Contacts) \cup Permutations(Attempts)
=============================================================================
