--------------------------- MODULE MCConnections ---------------------------
(***************************************************************************)
(* An instance of Connections for TLC: a worker process with three        *)
(* transfer attempts (one of them to Apple Music) and an import, of which  *)
(* River runs two at a time, and an API process with a request.            *)
(***************************************************************************)
EXTENDS Connections

CONSTANTS worker, api, run1, run2, run3, import, request

BothProcesses == {worker, api}
TheTasks == {run1, run2, run3, import, request}
TheHome == [t \in TheTasks |-> IF t = request THEN api ELSE worker]
TheRuns == {run1, run2, run3}
TheJobs == {run1, run2, run3, import}
ToApple == {run2}
=============================================================================
