---------------------------- MODULE JobLifecycle ----------------------------
(***************************************************************************)
(* What the `jobs` table promises to a reader of the Queue page: one row   *)
(* per job that moves only forward, from "queued" through "running" to one *)
(* final status that nothing rewrites.  Rows disappear only with their app *)
(* (ON DELETE CASCADE), and never come back.                               *)
(***************************************************************************)
CONSTANT Jobs

VARIABLE status   \* status[j]: the row of job j, or "absent" / "deleted"

Init == status = [j \in Jobs |-> "absent"]

Create(j) == /\ status[j] = "absent"
             /\ status' = [status EXCEPT ![j] = "queued"]

Start(j) == /\ status[j] = "queued"
            /\ status' = [status EXCEPT ![j] = "running"]

Finish(j, outcome) == /\ status[j] = "running"
                      /\ status' = [status EXCEPT ![j] = outcome]

Remove(gone) == /\ \A j \in gone : status[j] \notin {"absent", "deleted"}
                /\ status' = [j \in Jobs |-> IF j \in gone THEN "deleted"
                                                           ELSE status[j]]

Next == \/ \E j \in Jobs : Create(j) \/ Start(j)
        \/ \E j \in Jobs, outcome \in {"done", "failed"} : Finish(j, outcome)
        \/ \E gone \in SUBSET Jobs : Remove(gone)

Spec == Init /\ [][Next]_status
=============================================================================
