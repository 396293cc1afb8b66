--------------------------- MODULE MCTransferRun ---------------------------
(***************************************************************************)
(* Instances of TransferRun for TLC.                                       *)
(***************************************************************************)
EXTENDS TransferRun, TLC

CONSTANTS w1, w2, a, b, p1, p2

MCWorkers == {w1, w2}
MCTracks == {a, b}
MCPlaylists == {p1, p2}
AllOperations == {"find", "create", "read", "add"}
NoAppend == {"find", "create", "read"}

\* A plan with a repeated track, so that positions and tracks differ.
OnePlan == {<<a, b, a>>}
SinglePlan == {<<a, b>>}
\* What re-matching the same snapshot may give: grown, shrunk, exchanged.
SeveralPlans == {<<a, b>>, <<a>>, <<b, a>>, <<>>}

\* A usual name; one with a leading blank (not used by a run, see the README:
\* with it OnePlaylist fails); one that the suffix takes above the limit.
PlainName == [lead |-> 0, len |-> 12]
PaddedName == [lead |-> 1, len |-> 12]
LongName == [lead |-> 0, len |-> 81]

WorkerSymmetry == Permutations(MCWorkers)
=============================================================================
