----------------------------- MODULE MCSessions -----------------------------
(***************************************************************************)
(* Instances of Sessions for TLC.                                          *)
(***************************************************************************)
EXTENDS Sessions, TLC

CONSTANTS b1, b2, f1, f2, s1, s2, r1, r2

TwoBrowsers == {b1, b2}
TwoFlows == {f1, f2}
TwoSessions == {s1, s2}
OneRequest == {r1}
TwoRequests == {r1, r2}

Symmetry ==
    Permutations(TwoBrowsers) \cup Permutations(TwoFlows)
      \cup Permutations(TwoSessions) \cup Permutations(TwoRequests)
=============================================================================
