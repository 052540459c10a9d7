--------------------------- MODULE MCJobPipeline ---------------------------
(* A small instance of JobPipeline. *)
EXTENDS JobPipeline, TLC

CONSTANTS j1, j2, j3, a1, a2

TwoJobs == {j1, j2}
ThreeJobs == {j1, j2, j3}
TwoApps == {a1, a2}

AllFaults == {"crash", "disconnect", "dberror", "hang"}
=============================================================================
