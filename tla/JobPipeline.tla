----------------------------- MODULE JobPipeline -----------------------------
(***************************************************************************)
(* The life of an install or refresh job, from the handler that inserts    *)
(* its row to the worker that writes its outcome: the `jobs` and `apps`    *)
(* tables (ids, foreign keys and cascades only), the bounded tokio channel *)
(* AppState.job_tx, the receive loop run_workers with its semaphore, and   *)
(* one execute_job task per request.  Every SQL statement is one step,     *)
(* every await in the code is a place where other actors may run.          *)
(***************************************************************************)
EXTENDS Integers, Sequences, FiniteSets

CONSTANTS Jobs,         \* ids of the jobs that are ever created
          ClientJobs,   \* those a server function creates; the others are the scheduler's
          Apps,         \* ids of the rows of `apps`
          NoJob, NoApp, \* the null values
          Capacity,     \* slots of the job channel
          Workers,      \* config.scheduler.worker_threads
          FaultKinds,   \* the faults this instance is exposed to
          MaxFaults     \* and how many of them may happen

ASSUME JobsAssumption   == IsFiniteSet(Jobs) /\ ClientJobs \subseteq Jobs /\ NoJob \notin Jobs
ASSUME AppsAssumption   == NoApp \notin Apps
ASSUME BoundsAssumption == Capacity \in Nat \ {0} /\ Workers \in Nat /\ MaxFaults \in Nat
ASSUME FaultsAssumption == FaultKinds \subseteq {"crash", "disconnect", "dberror", "hang"}

VARIABLES
  appRow,   \* appRow[a]: "absent", "present" or "deleted" (uuids are never reused)
  status,   \* status[j]: the column jobs.status, "absent" before and "deleted" after the row
  appId,    \* appId[j]: the column jobs.app_id
  reqApp,   \* reqApp[j]: JobRequest.app_id, fixed when the request is built
  senders,  \* jobs whose creator is in job_tx.send(..).await
  queue,    \* the channel
  held,     \* the request run_workers received and holds while it waits for a permit
  permits,  \* free permits of the semaphore
  pc,       \* pc[j]: where the execute_job task of j stands, "idle" when there is none
  target,   \* target[j]: the conflicting row mark_app_installed merges into
  faults,   \* number of faults so far
  lost      \* history: jobs whose next status write a fault prevented

tables  == <<appRow, status, appId>>
channel == <<senders, queue, held>>
vars    == <<appRow, status, appId, reqApp, senders, queue, held, permits, pc, target,
             faults, lost>>

Statuses == {"absent", "queued", "running", "done", "failed", "deleted"}
PCs == {"idle", "claimed", "working", "hung", "ok", "err", "marking", "moving", "dropping"}

HasRow(j) == status[j] \notin {"absent", "deleted"}

Has(q, j)   == \E i \in 1..Len(q) : q[i] = j
NoRepeat(q) == \A i, k \in 1..Len(q) : q[i] = q[k] => i = k

(* A job that something in the process still holds a request or a task for. *)
InQueue(j) == Has(queue, j)
Pending(j) == j \in senders \/ InQueue(j) \/ held = j \/ pc[j] # "idle"

Init ==
  /\ appRow = [a \in Apps |-> "absent"]
  /\ status = [j \in Jobs |-> "absent"]
  /\ appId  = [j \in Jobs |-> NoApp]
  /\ reqApp = [j \in Jobs |-> NoApp]
  /\ senders = {} /\ queue = <<>> /\ held = NoJob
  /\ permits = Workers
  /\ pc = [j \in Jobs |-> "idle"]
  /\ target = [j \in Jobs |-> NoApp]
  /\ faults = 0 /\ lost = {}

(* A fault of kind k that leaves the jobs of `dropped` without their next write. *)
Fault(k, dropped) ==
  /\ k \in FaultKinds /\ faults < MaxFaults
  /\ faults' = faults + 1
  /\ lost' = lost \cup dropped

NoFault == UNCHANGED <<faults, lost>>

(* Defect: the status is upserted, which brings a deleted row back. *)
SetStatusUpsert(j, s) == status' = [status EXCEPT ![j] = s]

(* UPDATE jobs SET status = s WHERE id = j: no row, no effect, and no error. *)
SetStatus(j, s) ==
  status' = [status EXCEPT ![j] = IF HasRow(j) THEN s ELSE @]

(* DELETE FROM apps WHERE id IN gone, with ON DELETE CASCADE on jobs.app_id. *)
DeleteRows(gone) ==
  /\ appRow' = [a \in Apps |-> IF a \in gone /\ appRow[a] = "present"
                               THEN "deleted" ELSE appRow[a]]
  /\ status' = [j \in Jobs |-> IF HasRow(j) /\ appId[j] \in gone
                               THEN "deleted" ELSE status[j]]

Goto(j, to) == pc' = [pc EXCEPT ![j] = to]

(* The task of j returns: its permit is dropped and the semaphore gets it back. *)
EndTask(j) == Goto(j, "idle") /\ permits' = permits + 1

-----------------------------------------------------------------------------
(* The handlers that create jobs: install_ipa, refresh_app, refresh_device *)
(* and the scheduler's check_and_enqueue.                                  *)

(* db::upsert_app inserts a row under a fresh id (a conflict keeps the old row). *)
UpsertApp(a) ==
  /\ appRow[a] = "absent"
  /\ appRow' = [appRow EXCEPT ![a] = "present"]
  /\ UNCHANGED <<status, appId, reqApp, channel, permits, pc, target>> /\ NoFault

(* db::insert_job; the foreign key refuses a row of an app that is gone. *)
InsertJob(j, a) ==
  /\ status[j] = "absent" /\ appRow[a] = "present"
  /\ status' = [status EXCEPT ![j] = "queued"]
  /\ appId'  = [appId EXCEPT ![j] = a]
  /\ reqApp' = [reqApp EXCEPT ![j] = a]
  /\ senders' = senders \cup {j}
  /\ UNCHANGED <<appRow, queue, held, permits, pc, target>> /\ NoFault

(* Defect: the request is sent and also kept to be sent again. *)
SendTwice(j) ==
  /\ j \in senders /\ Len(queue) < Capacity
  /\ queue' = Append(queue, j)
  /\ UNCHANGED <<tables, reqApp, senders, held, permits, pc, target>> /\ NoFault

(* job_tx.send(req).await goes through once the channel has room. *)
Send(j) ==
  /\ j \in senders /\ Len(queue) < Capacity
  /\ senders' = senders \ {j}
  /\ queue' = Append(queue, j)
  /\ UNCHANGED <<tables, reqApp, held, permits, pc, target>> /\ NoFault

(* The client closes its connection while its handler waits in send: the   *)
(* handler's future is dropped, and the request with it.                   *)
Disconnect(j) ==
  /\ j \in senders \cap ClientJobs
  /\ Fault("disconnect", {j})
  /\ senders' = senders \ {j}
  /\ UNCHANGED <<tables, reqApp, queue, held, permits, pc, target>>

(* The rows of one app (delete_app, either prune) or of several            *)
(* (delete_device) are deleted; nothing is told to the channel or workers. *)
DeleteApps(gone) ==
  /\ gone # {} /\ \A a \in gone : appRow[a] = "present"
  /\ DeleteRows(gone)
  /\ UNCHANGED <<appId, reqApp, channel, permits, pc, target>> /\ NoFault

-----------------------------------------------------------------------------
(* run_workers: one loop that receives a request, waits for a permit, and  *)
(* spawns the task.                                                        *)

Recv ==
  /\ held = NoJob /\ queue # <<>>
  /\ held' = Head(queue)
  /\ queue' = Tail(queue)
  /\ UNCHANGED <<tables, reqApp, senders, permits, pc, target>> /\ NoFault

(* Defect: the loop spawns without waiting for a permit. *)
SpawnUnlimited ==
  /\ held # NoJob
  /\ permits' = permits - 1
  /\ Goto(held, "claimed")
  /\ held' = NoJob
  /\ UNCHANGED <<tables, reqApp, senders, queue, target>> /\ NoFault

Spawn ==
  /\ held # NoJob /\ permits > 0
  /\ permits' = permits - 1
  /\ Goto(held, "claimed")
  /\ held' = NoJob
  /\ UNCHANGED <<tables, reqApp, senders, queue, target>> /\ NoFault

-----------------------------------------------------------------------------
(* execute_job, a step per await.                                          *)

MarkRunning(j) ==
  /\ pc[j] = "claimed"
  /\ SetStatus(j, "running")
  /\ Goto(j, "working")
  /\ UNCHANGED <<appRow, appId, reqApp, channel, permits, target>> /\ NoFault

(* Defect: the early return forgets to give the permit back. *)
MarkRunningLeaks(j) ==
  /\ pc[j] = "claimed"
  /\ Fault("dberror", {j})
  /\ Goto(j, "idle")
  /\ UNCHANGED <<tables, reqApp, channel, permits, target>>

(* A failed first update is logged and the task returns. *)
MarkRunningFails(j) ==
  /\ pc[j] = "claimed"
  /\ Fault("dberror", {j})
  /\ EndTask(j)
  /\ UNCHANGED <<tables, reqApp, channel, target>>

(* run_job answers Ok(bundle id) or Err; a refresh of a missing app fails,  *)
(* which leaves Err possible always and Ok possible for an install.        *)
RunJob(j) ==
  /\ pc[j] = "working"
  /\ Goto(j, "ok") \/ Goto(j, "err")
  /\ UNCHANGED <<tables, reqApp, channel, permits, target>> /\ NoFault

(* The device stops answering after the TCP connect: no later step of the  *)
(* tunnel, the AFC transfer or the install has a timeout.                  *)
Hang(j) ==
  /\ pc[j] = "working"
  /\ Fault("hang", {j})
  /\ Goto(j, "hung")
  /\ UNCHANGED <<tables, reqApp, channel, permits, target>>

WriteDone(j) ==
  /\ pc[j] = "ok"
  /\ SetStatus(j, "done")
  /\ Goto(j, "marking")
  /\ UNCHANGED <<appRow, appId, reqApp, channel, permits, target>> /\ NoFault

(* The error of the second update is discarded, and the app marked anyway. *)
WriteDoneFails(j) ==
  /\ pc[j] = "ok"
  /\ Fault("dberror", {j})
  /\ Goto(j, "marking")
  /\ UNCHANGED <<tables, reqApp, channel, permits, target>>

(* Defect: the error is logged but never written to the row. *)
WriteFailedLogOnly(j) ==
  /\ pc[j] = "err"
  /\ EndTask(j)
  /\ UNCHANGED <<tables, reqApp, channel, target>> /\ NoFault

(* Defect: a failed job is started over, without limit. *)
WriteFailedRetries(j) ==
  /\ pc[j] = "err"
  /\ Goto(j, "working")
  /\ UNCHANGED <<tables, reqApp, channel, permits, target>> /\ NoFault

WriteFailed(j) ==
  /\ pc[j] = "err"
  /\ SetStatus(j, "failed")
  /\ EndTask(j)
  /\ UNCHANGED <<appRow, appId, reqApp, channel, target>> /\ NoFault

WriteFailedFails(j) ==
  /\ pc[j] = "err"
  /\ Fault("dberror", {j})
  /\ EndTask(j)
  /\ UNCHANGED <<tables, reqApp, channel, target>>

-----------------------------------------------------------------------------
(* db::mark_app_installed: only its effect on rows and foreign keys.       *)

(* The row is gone, has the real bundle id, or is renamed to it: no row     *)
(* moves.  A failed statement ends the call too, its error discarded.      *)
MarkInPlace(j) ==
  /\ pc[j] = "marking"
  /\ EndTask(j)
  /\ UNCHANGED <<tables, reqApp, channel, target>> /\ NoFault

(* The conflict query finds the row t that has the real bundle id, and the *)
(* UPDATE of t follows.                                                    *)
MarkConflict(j, t) ==
  /\ pc[j] = "marking" /\ t # reqApp[j]
  /\ appRow[reqApp[j]] = "present" /\ appRow[t] = "present"
  /\ target' = [target EXCEPT ![j] = t]
  /\ Goto(j, "moving")
  /\ UNCHANGED <<tables, reqApp, channel, permits>> /\ NoFault

(* UPDATE jobs SET app_id = t WHERE app_id = a: refused by the foreign key  *)
(* when t was deleted meanwhile and a row would move; the call then ends.  *)
Moving(j) == {i \in Jobs : HasRow(i) /\ appId[i] = reqApp[j]}

MoveJobs(j) ==
  /\ pc[j] = "moving"
  /\ appRow[target[j]] = "present" \/ Moving(j) = {}
  /\ appId' = [i \in Jobs |-> IF i \in Moving(j) THEN target[j] ELSE appId[i]]
  /\ Goto(j, "dropping")
  /\ UNCHANGED <<appRow, status, reqApp, channel, permits, target>> /\ NoFault

MoveRefused(j) ==
  /\ pc[j] = "moving"
  /\ appRow[target[j]] # "present" /\ Moving(j) # {}
  /\ EndTask(j)
  /\ UNCHANGED <<tables, reqApp, channel>> /\ target' = [target EXCEPT ![j] = NoApp] /\ NoFault

(* DELETE FROM apps WHERE id = a. *)
DropApp(j) ==
  /\ pc[j] = "dropping"
  /\ DeleteRows({reqApp[j]})
  /\ EndTask(j)
  /\ UNCHANGED <<appId, reqApp, channel>> /\ target' = [target EXCEPT ![j] = NoApp] /\ NoFault

(* A database error between the statements of the merge. *)
MergeFails(j) ==
  /\ pc[j] \in {"moving", "dropping"}
  /\ Fault("dberror", {})
  /\ EndTask(j)
  /\ UNCHANGED <<tables, reqApp, channel>> /\ target' = [target EXCEPT ![j] = NoApp]

-----------------------------------------------------------------------------
(* The process dies and is started again: main builds an empty channel and *)
(* an idle pool, and nothing looks at the rows of `jobs` already there.    *)
Crash ==
  /\ Fault("crash", {j \in Jobs : Pending(j)})
  /\ senders' = {} /\ queue' = <<>> /\ held' = NoJob
  /\ permits' = Workers
  /\ pc' = [j \in Jobs |-> "idle"]
  /\ UNCHANGED <<tables, reqApp>> /\ target' = [j \in Jobs |-> NoApp]

(* Nothing left to do: the only states in which the system may stand still. *)
AtRest == \A j \in Jobs : Pending(j) => pc[j] = "hung"
Rest == AtRest /\ UNCHANGED vars

Step(j) ==
  \/ Send(j)
  \/ MarkRunning(j) \/ RunJob(j) \/ WriteDone(j) \/ WriteFailed(j)
  \/ MarkInPlace(j) \/ (\E t \in Apps : MarkConflict(j, t))
  \/ MoveJobs(j) \/ MoveRefused(j) \/ DropApp(j)

Faults(j) ==
  \/ Disconnect(j) \/ Hang(j)
  \/ MarkRunningFails(j) \/ WriteDoneFails(j) \/ WriteFailedFails(j) \/ MergeFails(j)

Next ==
  \/ \E a \in Apps : UpsertApp(a)
  \/ \E j \in Jobs, a \in Apps : InsertJob(j, a)
  \/ \E gone \in SUBSET Apps : DeleteApps(gone)
  \/ Recv \/ Spawn
  \/ \E j \in Jobs : Step(j) \/ Faults(j)
  \/ Crash
  \/ Rest

Spec == Init /\ [][Next]_vars

(* tokio polls every ready task again: the receive loop, each waiting      *)
(* sender (the channel's queue of senders is FIFO) and each job task.      *)
Fairness == /\ WF_vars(Recv) /\ WF_vars(Spawn)
            /\ \A j \in Jobs : WF_vars(Step(j))

FairSpec == Spec /\ Fairness

-----------------------------------------------------------------------------
(* Properties *)

TypeOK ==
  /\ appRow \in [Apps -> {"absent", "present", "deleted"}]
  /\ status \in [Jobs -> Statuses]
  /\ appId \in [Jobs -> Apps \cup {NoApp}]
  /\ reqApp \in [Jobs -> Apps \cup {NoApp}]
  /\ senders \subseteq Jobs
  /\ queue \in Seq(Jobs)
  /\ held \in Jobs \cup {NoJob}
  /\ permits \in 0..Workers
  /\ pc \in [Jobs -> PCs]
  /\ target \in [Jobs -> Apps \cup {NoApp}]
  /\ faults \in 0..MaxFaults
  /\ lost \subseteq Jobs

(* A request is in one place at a time: with its sender, in one slot of    *)
(* the channel, in the receive loop's hand, or in one task.  So no job is  *)
(* run twice, whatever handlers, workers, deletions and restarts do.       *)
OnePlace ==
  /\ NoRepeat(queue)
  /\ \A j \in Jobs :
       /\ j \in senders => ~InQueue(j)
       /\ j \in senders \/ InQueue(j) => held # j
       /\ j \in senders \/ InQueue(j) \/ held = j => pc[j] = "idle"

(* The Queue page does not lie: unless a fault prevented a write, a row    *)
(* says "queued" only while its request is on its way to a task, and       *)
(* "running" only while a task works on it or is about to write how it     *)
(* ended (list_jobs orders the queue by this column).                      *)
StatusTruthful ==
  \A j \in Jobs \ lost :
    /\ status[j] = "queued" =>
         j \in senders \/ InQueue(j) \/ held = j \/ pc[j] = "claimed"
    /\ status[j] = "running" => pc[j] \in {"working", "ok", "err"}

(* What a task holds, by where it stands: the converse of StatusTruthful,  *)
(* in which "deleted" is a row that went while its job was under way.      *)
Stages ==
  \A j \in Jobs :
    /\ j \in senders \/ InQueue(j) \/ held = j \/ pc[j] = "claimed" =>
         status[j] \in {"queued", "deleted"}
    /\ pc[j] \in {"working", "hung", "ok", "err"} => status[j] \in {"running", "deleted"}
    /\ pc[j] \in {"marking", "moving", "dropping"} =>
         status[j] \in {"running", "done", "deleted"}

(* Every permit is free or held by exactly one task, on every path out of  *)
(* execute_job, faults and restarts included: the pool never shrinks.      *)
Tasks == {j \in Jobs : pc[j] # "idle"}
PoolConserved == permits + Cardinality(Tasks) = Workers

(* The pipeline implements the promise of the jobs table: rows only move   *)
(* forward, and a final status is never rewritten, not even by the task of *)
(* a job whose row or app was deleted, moved or merged under it.           *)
JL == INSTANCE JobLifecycle WITH Jobs <- Jobs, status <- status
Lifecycle == JL!Spec

Ended(j) == status[j] \in {"done", "failed", "deleted"}

(* Under the scheduling of tokio every job ends, or is one of those a      *)
(* fault hit: a fault never spreads to the other jobs of the queue, as     *)
(* long as fewer workers hang than the pool has.                           *)
EveryJobEnds == \A j \in Jobs : status[j] = "queued" ~> (Ended(j) \/ j \in lost)

=============================================================================
