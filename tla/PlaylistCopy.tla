---------------------------- MODULE PlaylistCopy ----------------------------
(***************************************************************************)
(* What a transfer run promises: one playlist is created and grows by the  *)
(* next track of the plan, only while it agrees with the plan, and the run *)
(* is done only once the playlist holds the plan.  The plan may be         *)
(* replaced at any time, which can leave the copy unable to proceed but    *)
(* never makes it write out of place.                                      *)
(***************************************************************************)
EXTENDS Integers, Sequences

CONSTANTS Previews, PlaylistIds, NoPlaylist

VARIABLES plan, lib, items, done

copyVars == <<plan, lib, items, done>>

Init ==
    /\ plan \in Previews
    /\ lib = {}
    /\ items = [p \in PlaylistIds |-> <<>>]
    /\ done = NoPlaylist

\* The playlist holds the first n tracks of the plan.
Agrees(p, n) ==
    /\ n <= Len(plan) /\ n <= Len(items[p])
    /\ \A i \in 1..n : items[p][i] = plan[i]

Replan == plan' \in Previews /\ UNCHANGED <<lib, items, done>>

CreateOnce ==
    /\ done = NoPlaylist /\ lib = {}
    /\ \E p \in PlaylistIds : lib' = {p}
    /\ UNCHANGED <<plan, items, done>>

AppendNext ==
    /\ done = NoPlaylist
    /\ \E p \in lib :
          /\ Agrees(p, Len(items[p])) /\ Len(items[p]) < Len(plan)
          /\ items' = [items EXCEPT ![p] = Append(@, plan[Len(@) + 1])]
    /\ UNCHANGED <<plan, lib, done>>

Conclude ==
    /\ done = NoPlaylist
    /\ \E p \in lib : Agrees(p, Len(plan)) /\ done' = p
    /\ UNCHANGED <<plan, lib, items>>

Next == Replan \/ CreateOnce \/ AppendNext \/ Conclude

Spec == Init /\ [][Next]_copyVars
=============================================================================
