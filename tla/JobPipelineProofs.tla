-------------------------- MODULE JobPipelineProofs --------------------------
EXTENDS JobPipeline, FiniteSetTheorems, TLAPS

(* Sending puts exactly one new request at the end of the channel. *)
LEMMA AppendFacts ==
  ASSUME NEW q \in Seq(Jobs), NEW j \in Jobs
  PROVE  /\ Append(q, j) \in Seq(Jobs)
         /\ \A i : Has(Append(q, j), i) <=> Has(q, i) \/ i = j
         /\ NoRepeat(q) /\ ~Has(q, j) => NoRepeat(Append(q, j))
<1>1. Append(q, j) \in Seq(Jobs) /\ Len(Append(q, j)) = Len(q) + 1 /\ Len(q) \in Nat
  OBVIOUS
<1>2. Append(q, j)[Len(q) + 1] = j /\ \A k \in 1..Len(q) : Append(q, j)[k] = q[k]
  OBVIOUS
<1>3. \A i : Has(Append(q, j), i) <=> Has(q, i) \/ i = j
  BY <1>1, <1>2 DEF Has
<1>4. NoRepeat(q) /\ ~Has(q, j) => NoRepeat(Append(q, j))
  BY <1>1, <1>2 DEF NoRepeat, Has
<1> QED BY <1>1, <1>3, <1>4

(* Receiving takes the oldest request out and leaves all the others. *)
LEMMA TailFacts ==
  ASSUME NEW q \in Seq(Jobs), q # << >>
  PROVE  /\ Head(q) \in Jobs /\ Tail(q) \in Seq(Jobs)
         /\ Has(q, Head(q))
         /\ \A i : Has(q, i) <=> Has(Tail(q), i) \/ i = Head(q)
         /\ NoRepeat(q) => NoRepeat(Tail(q)) /\ ~Has(Tail(q), Head(q))
<1>1. /\ Len(q) \in Nat \ {0} /\ Head(q) = q[1] /\ Head(q) \in Jobs
      /\ Tail(q) \in Seq(Jobs) /\ Len(Tail(q)) = Len(q) - 1
  OBVIOUS
<1>2. \A k \in 1..Len(q) - 1 : Tail(q)[k] = q[k + 1]
  OBVIOUS
<1>3. \A i : Has(Tail(q), i) => Has(q, i)
  BY <1>1, <1>2 DEF Has
<1>4. ASSUME NEW i, Has(q, i), i # Head(q) PROVE Has(Tail(q), i)
  <2>1. PICK k \in 1..Len(q) : q[k] = i
    BY <1>4 DEF Has
  <2>2. k - 1 \in 1..Len(q) - 1 /\ Tail(q)[k - 1] = i
    BY <2>1, <1>1, <1>2, <1>4
  <2> QED BY <2>2, <1>1 DEF Has
<1>5. Has(q, Head(q))
  BY <1>1 DEF Has
<1>6. NoRepeat(q) => NoRepeat(Tail(q)) /\ ~Has(Tail(q), Head(q))
  BY <1>1, <1>2 DEF NoRepeat, Has
<1> QED BY <1>1, <1>3, <1>4, <1>5, <1>6

-----------------------------------------------------------------------------
(* Most steps move one task and leave the channel alone. *)
TaskMove(j, to) ==
  /\ pc[j] # "idle" /\ to \in PCs /\ pc' = [pc EXCEPT ![j] = to]
  /\ UNCHANGED <<senders, queue, held>>
  /\ permits' = IF to = "idle" THEN permits + 1 ELSE permits

TaskStep(j) ==
  \/ MarkRunning(j) \/ RunJob(j) \/ WriteDone(j) \/ WriteFailed(j)
  \/ MarkInPlace(j) \/ (\E t \in Apps : MarkConflict(j, t))
  \/ MoveJobs(j) \/ MoveRefused(j) \/ DropApp(j) \/ Hang(j)
  \/ MarkRunningFails(j) \/ WriteDoneFails(j) \/ WriteFailedFails(j) \/ MergeFails(j)

(* A step of a task moves that task alone: no request moves, and the       *)
(* permit goes back just when the task ends.                               *)
LEMMA TaskStepMoves ==
  ASSUME TypeOK, NEW j \in Jobs, TaskStep(j)
  PROVE  \E to \in PCs : TaskMove(j, to)
<1> USE DEF TypeOK, TaskMove, EndTask, Goto, channel, PCs
<1>1. CASE MarkRunning(j)
  BY <1>1 DEF MarkRunning
<1>2. CASE RunJob(j)
  BY <1>2 DEF RunJob
<1>3. CASE WriteDone(j)
  BY <1>3 DEF WriteDone
<1>4. CASE WriteFailed(j)
  BY <1>4 DEF WriteFailed
<1>5. CASE MarkInPlace(j)
  BY <1>5 DEF MarkInPlace
<1>6. CASE \E t \in Apps : MarkConflict(j, t)
  BY <1>6 DEF MarkConflict
<1>7. CASE MoveJobs(j)
  BY <1>7 DEF MoveJobs
<1>8. CASE MoveRefused(j)
  BY <1>8 DEF MoveRefused
<1>9. CASE DropApp(j)
  BY <1>9 DEF DropApp
<1>10. CASE Hang(j)
  BY <1>10 DEF Hang
<1>11. CASE MarkRunningFails(j)
  BY <1>11 DEF MarkRunningFails
<1>12. CASE WriteDoneFails(j)
  BY <1>12 DEF WriteDoneFails
<1>13. CASE WriteFailedFails(j)
  BY <1>13 DEF WriteFailedFails
<1>14. CASE MergeFails(j)
  BY <1>14 DEF MergeFails
<1> QED
  BY <1>1, <1>2, <1>3, <1>4, <1>5, <1>6, <1>7, <1>8, <1>9, <1>10, <1>11, <1>12, <1>13,
     <1>14 DEF TaskStep

(* Every step is one of these; the cases of the proofs below. *)
LEMMA Steps ==
  ASSUME [Next]_vars
  PROVE  \/ \E a \in Apps : UpsertApp(a)
         \/ \E j \in Jobs, a \in Apps : InsertJob(j, a)
         \/ \E gone \in SUBSET Apps : DeleteApps(gone)
         \/ Recv \/ Spawn \/ Crash
         \/ \E j \in Jobs : Send(j) \/ Disconnect(j)
         \/ \E j \in Jobs : TaskStep(j)
         \/ UNCHANGED vars
BY DEF Next, Step, Faults, TaskStep, Rest

-----------------------------------------------------------------------------
(* No step puts a request in a second place. *)
LEMMA PlacesStep == TypeOK /\ OnePlace /\ Stages /\ [Next]_vars => OnePlace'
<1> SUFFICES ASSUME TypeOK, OnePlace, Stages, [Next]_vars PROVE OnePlace'
  OBVIOUS
<1> USE JobsAssumption DEF TypeOK, OnePlace, InQueue
<1>1. ASSUME UNCHANGED <<senders, queue, held, pc>> PROVE OnePlace'
  BY <1>1
<1>2. CASE \E a \in Apps : UpsertApp(a)
  BY <1>1, <1>2 DEF UpsertApp, channel
<1>3. ASSUME NEW j \in Jobs, NEW a \in Apps, InsertJob(j, a) PROVE OnePlace'
  <2>1. j \notin senders /\ ~Has(queue, j) /\ held # j /\ pc[j] = "idle"
    BY <1>3 DEF InsertJob, Stages, PCs
  <2> QED BY <1>3, <2>1 DEF InsertJob
<1>4. CASE \E gone \in SUBSET Apps : DeleteApps(gone)
  BY <1>1, <1>4 DEF DeleteApps, channel
<1>5. CASE Recv
  BY <1>5, TailFacts DEF Recv
<1>6. CASE Spawn
  BY <1>6 DEF Spawn, Goto
<1>7. CASE Crash
  BY <1>7 DEF Crash, Has, NoRepeat
<1>8. ASSUME NEW j \in Jobs, Send(j) PROVE OnePlace'
  BY <1>8, AppendFacts DEF Send
<1>9. ASSUME NEW j \in Jobs, Disconnect(j) PROVE OnePlace'
  BY <1>9 DEF Disconnect
<1>10. ASSUME NEW j \in Jobs, TaskStep(j) PROVE OnePlace'
  BY <1>10, TaskStepMoves DEF TaskMove
<1>11. CASE UNCHANGED vars
  BY <1>1, <1>11 DEF vars
<1> QED
  BY <1>2, <1>3, <1>4, <1>5, <1>6, <1>7, <1>8, <1>9, <1>10, <1>11, Steps

-----------------------------------------------------------------------------
(* Spawning takes one permit, and each way out of a task gives one back. *)
LEMMA PoolStep ==
  TypeOK /\ OnePlace /\ PoolConserved /\ [Next]_vars => PoolConserved' /\ permits' \in 0..Workers
<1> SUFFICES ASSUME TypeOK, OnePlace, PoolConserved, [Next]_vars
             PROVE  PoolConserved' /\ permits' \in 0..Workers
  OBVIOUS
<1> USE BoundsAssumption DEF PoolConserved
<1>1. /\ Tasks \subseteq Jobs /\ IsFiniteSet(Tasks) /\ Cardinality(Tasks) \in Nat
      /\ permits \in Nat
  BY JobsAssumption, FS_Subset, FS_CardinalityType DEF Tasks, TypeOK
<1>2. ASSUME UNCHANGED <<permits, pc>> PROVE PoolConserved' /\ permits' \in 0..Workers
  BY <1>1, <1>2 DEF Tasks, TypeOK
<1>3. CASE Spawn
  <2>1. held \notin Tasks /\ Tasks' = Tasks \cup {held}
    BY <1>3, JobsAssumption DEF Spawn, Goto, OnePlace, Tasks, TypeOK
  <2>2. Cardinality(Tasks') = Cardinality(Tasks) + 1
    BY <2>1, <1>1, FS_AddElement
  <2>3. permits > 0 /\ permits' = permits - 1
    BY <1>3 DEF Spawn
  <2> QED BY <1>1, <2>2, <2>3
<1>4. CASE Crash
  <2>1. Tasks' = {}
    BY <1>4 DEF Crash, Tasks
  <2> QED BY <1>4, <2>1, FS_EmptySet DEF Crash
<1>5. ASSUME NEW j \in Jobs, TaskStep(j) PROVE PoolConserved' /\ permits' \in 0..Workers
  <2>1. PICK to \in PCs : TaskMove(j, to)
    BY <1>5, TaskStepMoves
  <2>2. CASE to = "idle"
    <3>1. j \in Tasks /\ Tasks' = Tasks \ {j}
      BY <2>1, <2>2 DEF TaskMove, Tasks, TypeOK
    <3>2. Cardinality(Tasks') = Cardinality(Tasks) - 1 /\ Cardinality(Tasks') \in Nat
      BY <3>1, <1>1, FS_RemoveElement, FS_CardinalityType
    <3> QED BY <2>1, <2>2, <3>2, <1>1 DEF TaskMove
  <2>3. CASE to # "idle"
    <3>1. Tasks' = Tasks
      BY <2>1, <2>3 DEF TaskMove, Tasks, TypeOK
    <3> QED BY <2>1, <2>3, <3>1, <1>1 DEF TaskMove, TypeOK
  <2> QED BY <2>2, <2>3
<1>6. ASSUME NEW j \in Jobs, Send(j) \/ Disconnect(j) PROVE UNCHANGED <<permits, pc>>
  BY <1>6 DEF Send, Disconnect
<1> QED
  BY <1>2, <1>3, <1>4, <1>5, <1>6, Steps
  DEF UpsertApp, InsertJob, DeleteApps, Recv, vars

-----------------------------------------------------------------------------
(* Every step leaves each row at the status its task's place calls for. *)
LEMMA StagesStep == TypeOK /\ OnePlace /\ Stages /\ [Next]_vars => Stages'
<1> SUFFICES ASSUME TypeOK, OnePlace, Stages, [Next]_vars PROVE Stages'
  OBVIOUS
<1> USE JobsAssumption DEF TypeOK, Stages, InQueue, Statuses
<1>1. ASSUME UNCHANGED <<senders, queue, held, pc, status>> PROVE Stages'
  BY <1>1
<1>2. CASE \E a \in Apps : UpsertApp(a)
  BY <1>1, <1>2 DEF UpsertApp, channel
<1>3. ASSUME NEW j \in Jobs, NEW a \in Apps, InsertJob(j, a) PROVE Stages'
  BY <1>3 DEF InsertJob
<1>4. CASE \E gone \in SUBSET Apps : DeleteApps(gone)
  BY <1>4 DEF DeleteApps, DeleteRows, channel
<1>5. CASE Recv
  BY <1>5, TailFacts DEF Recv, tables
<1>6. CASE Spawn
  BY <1>6 DEF Spawn, Goto, tables
<1>7. CASE Crash
  BY <1>7 DEF Crash, Has, tables
<1>8. ASSUME NEW j \in Jobs, Send(j) PROVE Stages'
  BY <1>8, AppendFacts DEF Send, tables
<1>9. ASSUME NEW j \in Jobs, Disconnect(j) PROVE Stages'
  BY <1>9 DEF Disconnect, tables
<1>10. ASSUME NEW j \in Jobs, TaskStep(j) PROVE Stages'
  <2> USE DEF EndTask, Goto, channel, tables, SetStatus, OnePlace
  <2>1. CASE MarkRunning(j)
    BY <2>1 DEF MarkRunning, HasRow
  <2>2. CASE RunJob(j)
    BY <2>2 DEF RunJob
  <2>3. CASE WriteDone(j)
    BY <2>3 DEF WriteDone, HasRow
  <2>4. CASE WriteFailed(j)
    BY <2>4 DEF WriteFailed, HasRow
  <2>5. CASE MarkInPlace(j)
    BY <2>5 DEF MarkInPlace
  <2>6. CASE \E t \in Apps : MarkConflict(j, t)
    BY <2>6 DEF MarkConflict
  <2>7. CASE MoveJobs(j)
    BY <2>7 DEF MoveJobs
  <2>8. CASE MoveRefused(j)
    BY <2>8 DEF MoveRefused
  <2>9. CASE DropApp(j)
    BY <2>9 DEF DropApp, DeleteRows
  <2>10. CASE Hang(j)
    BY <2>10 DEF Hang
  <2>11. CASE MarkRunningFails(j)
    BY <2>11 DEF MarkRunningFails
  <2>12. CASE WriteDoneFails(j)
    BY <2>12 DEF WriteDoneFails
  <2>13. CASE WriteFailedFails(j)
    BY <2>13 DEF WriteFailedFails
  <2>14. CASE MergeFails(j)
    BY <2>14 DEF MergeFails
  <2> QED
    BY <1>10, <2>1, <2>2, <2>3, <2>4, <2>5, <2>6, <2>7, <2>8, <2>9, <2>10, <2>11, <2>12,
       <2>13, <2>14 DEF TaskStep
<1>11. CASE UNCHANGED vars
  BY <1>1, <1>11 DEF vars
<1> QED
  BY <1>2, <1>3, <1>4, <1>5, <1>6, <1>7, <1>8, <1>9, <1>10, <1>11, Steps

-----------------------------------------------------------------------------
(* A step that moves a job on also writes its row, unless a fault prevents it. *)
LEMMA TruthStep == TypeOK /\ OnePlace /\ StatusTruthful /\ [Next]_vars => StatusTruthful'
<1> SUFFICES ASSUME TypeOK, OnePlace, StatusTruthful, [Next]_vars PROVE StatusTruthful'
  OBVIOUS
<1> USE JobsAssumption DEF TypeOK, StatusTruthful, InQueue, NoFault, Fault
<1>1. ASSUME UNCHANGED <<senders, queue, held, pc, status, lost>> PROVE StatusTruthful'
  BY <1>1
<1>2. CASE \E a \in Apps : UpsertApp(a)
  BY <1>1, <1>2 DEF UpsertApp, channel
<1>3. ASSUME NEW j \in Jobs, NEW a \in Apps, InsertJob(j, a) PROVE StatusTruthful'
  BY <1>3 DEF InsertJob
<1>4. CASE \E gone \in SUBSET Apps : DeleteApps(gone)
  BY <1>4 DEF DeleteApps, DeleteRows, channel
<1>5. CASE Recv
  BY <1>5, TailFacts DEF Recv, tables
<1>6. CASE Spawn
  BY <1>6 DEF Spawn, Goto, tables, OnePlace
<1>7. CASE Crash
  BY <1>7 DEF Crash, Pending, tables
<1>8. ASSUME NEW j \in Jobs, Send(j) PROVE StatusTruthful'
  BY <1>8, AppendFacts DEF Send, tables
<1>9. ASSUME NEW j \in Jobs, Disconnect(j) PROVE StatusTruthful'
  BY <1>9 DEF Disconnect, tables
<1>10. ASSUME NEW j \in Jobs, TaskStep(j) PROVE StatusTruthful'
  <2> USE DEF EndTask, Goto, channel, tables, SetStatus, HasRow
  <2>1. CASE MarkRunning(j)
    BY <2>1 DEF MarkRunning
  <2>2. CASE RunJob(j)
    BY <2>2 DEF RunJob
  <2>3. CASE WriteDone(j)
    BY <2>3 DEF WriteDone
  <2>4. CASE WriteFailed(j)
    BY <2>4 DEF WriteFailed
  <2>5. CASE MarkInPlace(j)
    BY <2>5 DEF MarkInPlace
  <2>6. CASE \E t \in Apps : MarkConflict(j, t)
    BY <2>6 DEF MarkConflict
  <2>7. CASE MoveJobs(j)
    BY <2>7 DEF MoveJobs
  <2>8. CASE MoveRefused(j)
    BY <2>8 DEF MoveRefused
  <2>9. CASE DropApp(j)
    BY <2>9 DEF DropApp, DeleteRows
  <2>10. CASE Hang(j)
    BY <2>10 DEF Hang
  <2>11. CASE MarkRunningFails(j)
    BY <2>11 DEF MarkRunningFails
  <2>12. CASE WriteDoneFails(j)
    BY <2>12 DEF WriteDoneFails
  <2>13. CASE WriteFailedFails(j)
    BY <2>13 DEF WriteFailedFails
  <2>14. CASE MergeFails(j)
    BY <2>14 DEF MergeFails
  <2> QED
    BY <1>10, <2>1, <2>2, <2>3, <2>4, <2>5, <2>6, <2>7, <2>8, <2>9, <2>10, <2>11, <2>12,
       <2>13, <2>14 DEF TaskStep
<1>11. CASE UNCHANGED vars
  BY <1>1, <1>11 DEF vars
<1> QED
  BY <1>2, <1>3, <1>4, <1>5, <1>6, <1>7, <1>8, <1>9, <1>10, <1>11, Steps

-----------------------------------------------------------------------------
(* No step leaves the types; the bound of permits needs PoolConserved.      *)
LEMMA TypeStep ==
  TypeOK /\ permits' \in 0..Workers /\ [Next]_vars => TypeOK'
<1> SUFFICES ASSUME TypeOK, permits' \in 0..Workers, [Next]_vars PROVE TypeOK'
  OBVIOUS
<1> USE DEF TypeOK, NoFault, Fault, channel, tables, Statuses, PCs
<1>0. faults < MaxFaults => faults + 1 \in 0..MaxFaults
  BY BoundsAssumption
<1>1. CASE \E a \in Apps : UpsertApp(a)
  BY <1>1 DEF UpsertApp
<1>2. CASE \E j \in Jobs, a \in Apps : InsertJob(j, a)
  BY <1>2 DEF InsertJob
<1>3. CASE \E gone \in SUBSET Apps : DeleteApps(gone)
  BY <1>3 DEF DeleteApps, DeleteRows
<1>4. CASE Recv
  BY <1>4, TailFacts DEF Recv
<1>5. CASE Spawn
  BY <1>5 DEF Spawn, Goto
<1>6. CASE Crash
  BY <1>6, <1>0 DEF Crash
<1>7. ASSUME NEW j \in Jobs, Send(j) PROVE TypeOK'
  BY <1>7, AppendFacts DEF Send
<1>8. ASSUME NEW j \in Jobs, Disconnect(j) PROVE TypeOK'
  BY <1>8, <1>0 DEF Disconnect
<1>9. ASSUME NEW j \in Jobs, TaskStep(j) PROVE TypeOK'
  <2>1. pc' \in [Jobs -> PCs] /\ senders' \subseteq Jobs /\ queue' \in Seq(Jobs)
        /\ held' \in Jobs \cup {NoJob}
    BY <1>9, TaskStepMoves DEF TaskMove
  <2>2. faults' \in 0..MaxFaults /\ lost' \subseteq Jobs
    BY <1>9, <1>0
    DEF TaskStep, MarkRunning, RunJob, WriteDone, WriteFailed, MarkInPlace, MarkConflict,
        MoveJobs, MoveRefused, DropApp, Hang, MarkRunningFails, WriteDoneFails,
        WriteFailedFails, MergeFails
  <2>3. appRow' \in [Apps -> {"absent", "present", "deleted"}] /\ status' \in [Jobs -> Statuses]
    BY <1>9
    DEF TaskStep, MarkRunning, RunJob, WriteDone, WriteFailed, MarkInPlace, MarkConflict,
        MoveJobs, MoveRefused, DropApp, Hang, MarkRunningFails, WriteDoneFails,
        WriteFailedFails, MergeFails, SetStatus, DeleteRows
  <2>4. /\ appId' \in [Jobs -> Apps \cup {NoApp}] /\ reqApp' \in [Jobs -> Apps \cup {NoApp}]
        /\ target' \in [Jobs -> Apps \cup {NoApp}]
    BY <1>9
    DEF TaskStep, MarkRunning, RunJob, WriteDone, WriteFailed, MarkInPlace, MarkConflict,
        MoveJobs, MoveRefused, DropApp, Hang, MarkRunningFails, WriteDoneFails,
        WriteFailedFails, MergeFails
  <2> QED BY <2>1, <2>2, <2>3, <2>4
<1>10. CASE UNCHANGED vars
  BY <1>10 DEF vars
<1> QED
  BY <1>1, <1>2, <1>3, <1>4, <1>5, <1>6, <1>7, <1>8, <1>9, <1>10, Steps

-----------------------------------------------------------------------------
(* The inductive invariant: each property needs the types and the places,  *)
(* and permits stay within their range only because the pool is conserved. *)
IInv == TypeOK /\ OnePlace /\ Stages /\ StatusTruthful /\ PoolConserved

(* An empty server satisfies the invariant. *)
LEMMA InitInv == Init => IInv
<1> SUFFICES ASSUME Init PROVE IInv
  OBVIOUS
<1> USE DEF Init
<1>1. TypeOK
  BY BoundsAssumption DEF TypeOK, Statuses, PCs
<1>2. OnePlace /\ Stages /\ StatusTruthful
  BY JobsAssumption DEF OnePlace, Stages, StatusTruthful, InQueue, Has, NoRepeat
<1>3. PoolConserved
  <2>1. Tasks = {}
    BY DEF Tasks
  <2> QED BY <2>1, FS_EmptySet, BoundsAssumption DEF PoolConserved
<1> QED BY <1>1, <1>2, <1>3 DEF IInv

(* Every step keeps it: the lemmas above, one per part. *)
LEMMA StepInv == IInv /\ [Next]_vars => IInv'
BY PlacesStep, StagesStep, TruthStep, PoolStep, TypeStep DEF IInv

(* So it holds for ever. *)
LEMMA InvHolds == Spec => []IInv
BY InitInv, StepInv, PTL DEF Spec

-----------------------------------------------------------------------------
(* The variables keep their types; in particular the receive loop never    *)
(* takes a permit the semaphore does not have, and gets back no more than  *)
(* it handed out.                                                          *)
THEOREM TypeCorrect == Spec => []TypeOK
<1>1. IInv => TypeOK
  BY DEF IInv
<1> QED BY <1>1, InvHolds, PTL

(* No request is ever in two places, so no job is executed twice.          *)
THEOREM RequestsInOnePlace == Spec => []OnePlace
<1>1. IInv => OnePlace
  BY DEF IInv
<1> QED BY <1>1, InvHolds, PTL

(* The status column agrees with where the job really stands.              *)
THEOREM StatusIsTruthful == Spec => [](StatusTruthful /\ Stages)
<1>1. IInv => StatusTruthful /\ Stages
  BY DEF IInv
<1> QED BY <1>1, InvHolds, PTL

(* Whatever number of workers, the pool of permits never shrinks or grows. *)
THEOREM PoolIsConserved == Spec => []PoolConserved
<1>1. IInv => PoolConserved
  BY DEF IInv
<1> QED BY <1>1, InvHolds, PTL

-----------------------------------------------------------------------------
(* A step of the pipeline is a step of the job's lifecycle or leaves the   *)
(* jobs table's statuses alone.                                            *)
LEMMA LifecycleStep == IInv /\ [Next]_vars => [JL!Next]_status
<1> SUFFICES ASSUME IInv, [Next]_vars PROVE [JL!Next]_status
  OBVIOUS
<1> USE DEF IInv, TypeOK, JL!Next
<1>1. ASSUME NEW j \in Jobs, NEW a \in Apps, InsertJob(j, a) PROVE JL!Create(j)
  BY <1>1 DEF InsertJob, JL!Create
<1>2. ASSUME NEW gone, DeleteRows(gone) PROVE \E g \in SUBSET Jobs : JL!Remove(g)
  <2>1. JL!Remove({j \in Jobs : HasRow(j) /\ appId[j] \in gone})
    BY <1>2 DEF DeleteRows, HasRow, JL!Remove
  <2> QED BY <2>1
<1>3. ASSUME NEW j \in Jobs, MarkRunning(j) PROVE JL!Start(j) \/ UNCHANGED status
  BY <1>3 DEF MarkRunning, SetStatus, HasRow, Stages, JL!Start
<1>4. ASSUME NEW j \in Jobs, WriteDone(j) PROVE JL!Finish(j, "done") \/ UNCHANGED status
  BY <1>4 DEF WriteDone, SetStatus, HasRow, Stages, JL!Finish
<1>5. ASSUME NEW j \in Jobs, WriteFailed(j) PROVE JL!Finish(j, "failed") \/ UNCHANGED status
  BY <1>5 DEF WriteFailed, SetStatus, HasRow, Stages, JL!Finish
<1>6. ASSUME NEW j \in Jobs, TaskStep(j) PROVE JL!Next \/ UNCHANGED status
  BY <1>2, <1>3, <1>4, <1>5, <1>6
  DEF TaskStep, RunJob, MarkInPlace, MarkConflict, MoveJobs, MoveRefused, DropApp, Hang,
      MarkRunningFails, WriteDoneFails, WriteFailedFails, MergeFails, tables
<1>7. CASE \E gone \in SUBSET Apps : DeleteApps(gone)
  BY <1>2, <1>7 DEF DeleteApps
<1>8. ASSUME NEW j \in Jobs, Send(j) \/ Disconnect(j) PROVE UNCHANGED status
  BY <1>8 DEF Send, Disconnect, tables
<1> QED
  BY <1>1, <1>6, <1>7, <1>8, Steps DEF UpsertApp, Recv, Spawn, Crash, tables, vars

(* The pipeline implements the lifecycle the jobs table promises: rows go  *)
(* forward only, and what a job ended with is never rewritten.             *)
THEOREM ImplementsLifecycle == Spec => Lifecycle
<1>1. Init => JL!Init
  BY DEF Init, JL!Init
<1> QED BY <1>1, LifecycleStep, InvHolds, PTL DEF Spec, Lifecycle, JL!Spec
=============================================================================
