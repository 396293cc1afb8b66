-------------------------- MODULE MCSnapshotImport --------------------------
(***************************************************************************)
(* Instances of SnapshotImport for TLC.                                    *)
(***************************************************************************)
EXTENDS SnapshotImport, TLC

CONSTANTS c1, c2, w1, w2, i1, i2, p1, p2, x, y

OneClient == {c1}
TwoClients == {c1, c2}
OneWorker == {w1}
TwoWorkers == {w1, w2}
OneImport == {i1}
TwoImports == {i1, i2}
OnePlaylist == {p1}
TwoPlaylists == {p1, p2}

\* Two orders of the same tracks, and a list above the limit.
Reordered == {<<x, y>>, <<y, x>>, <<x, x, y>>}
Single == {<<x>>}

WorkerSymmetry == Permutations(TwoWorkers)
=============================================================================
