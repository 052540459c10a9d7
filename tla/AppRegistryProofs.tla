------------------------- MODULE AppRegistryProofs -------------------------
(***************************************************************************)
(* Theorems of AppRegistry.                                                *)
(*                                                                         *)
(* Whatever anybody does, a row that once carries the id of a signed app   *)
(* keeps such an id, and only those rows are confirmed (RegInv).  With one *)
(* account and only uploads, refreshes and jobs at work more can be said   *)
(* (Quiet): of one IPA there is one row under its own id and one under the *)
(* signed id at most, and a row goes away only by being merged into the    *)
(* latter.  So a job that finds its row gone has been taken care of.       *)
(***************************************************************************)
EXTENDS AppRegistry, FiniteSetTheorems, TLAPS

-----------------------------------------------------------------------------
(* The general invariant. *)
Signed == Ipas \X Accounts

RowsOK ==
  \A r \in Rows : /\ exists[r] = "none" => ~installed[r]
                  /\ exists[r] # "none" => bundle[r] \in BundleIds
                  /\ installed[r] => bundle[r] \in Signed

(* The id a job works on is that of a signed app, from the moment on at    *)
(* which it signs it.                                                      *)
HasReal(j) == \/ jpc[j] \in {"installing"} \cup Marking
              \/ kind[j] = "install" /\ jpc[j] \in {"chosen", "queued"}

SignedRow(r) == r \in Rows /\ exists[r] # "none" /\ bundle[r] \in Signed

JobOK(j) ==
  /\ jpc[j] \notin {"none", "over"} => req[j] \in Rows /\ reqAcct[j] \in Accounts
  /\ HasReal(j) => real[j] \in Signed
  /\ jpc[j] = "same" => SignedRow(req[j])
  /\ jpc[j] \in {"merging", "moving", "dropping"} => SignedRow(target[j])

(* What the handlers keep in their hands. *)
Seen == [r : Rows, id : BundleIds, acct : Accounts]

HandlersOK ==
  /\ del = Idle \/ \E at \in {"uninstall", "row"}, r \in Rows, id \in BundleIds :
                     del = [at |-> at, r |-> r, id |-> id]
  /\ \/ rec = Idle
     \/ \E ids \in SUBSET Signed : rec = [at |-> "rows", ids |-> ids]
     \/ \E rows \in SUBSET Rows : rec = [at |-> "prune", rows |-> rows]
  /\ sched \in [at : {"idle", "list", "prune"}, missing : SUBSET Seen, verified : SUBSET Seen,
                job : Jobs \cup {Null}]

RegInv == TypeOK /\ RowsOK /\ (\A j \in Jobs : JobOK(j)) /\ HandlersOK

-----------------------------------------------------------------------------
(* The quiet invariant: p is the only account. *)

QuietHandlers(p) == actors = {} /\ known = {p} /\ del = Idle /\ rec = Idle /\ sched = Asleep

(* Two rows of one IPA differ in that one is signed; a signed row is a     *)
(* confirmed one; a row that is gone has left a signed one behind.         *)
QuietRows(p) ==
  /\ \A r \in Rows : /\ account[r] \in {p, Null}
                     /\ exists[r] # "none" => bundle[r][2] \in {p, Unsigned}
                     /\ exists[r] = "row" /\ bundle[r][2] = p => installed[r]
  /\ \A r, t \in Rows : exists[r] = "row" /\ exists[t] = "row" /\ bundle[r] = bundle[t] => r = t

GoneOK(p) ==
  \A r \in Rows : exists[r] = "gone" => \E t \in Rows : exists[t] = "row" /\ bundle[t] = <<bundle[r][1], p>>

(* The row of a job stays around under the id it will have; nobody else    *)
(* takes that id from a job that is about to rename.                       *)
QuietJob(p, j) ==
  /\ snap[j] \in {p, Null}
  /\ jpc[j] \notin {"none", "over"} =>
       req[j] \in Rows /\ exists[req[j]] # "none" /\ reqAcct[j] = p
  /\ HasReal(j) => real[j] = <<bundle[req[j]][1], p>>
  /\ jpc[j] = "pushing" => real[j][1] = bundle[req[j]][1]
  /\ jpc[j] = "same" => exists[req[j]] = "row" /\ bundle[req[j]] = real[j]
  /\ jpc[j] = "renaming" /\ exists[req[j]] = "row" =>
       \A t \in Rows : exists[t] = "row" /\ bundle[t] = real[j] => t = req[j]
  /\ jpc[j] \in {"merging", "moving", "dropping"} =>
       target[j] \in Rows /\ target[j] # req[j] /\ exists[target[j]] = "row" /\ bundle[target[j]] = real[j]

(* The row of jobs of j follows the merges.                                *)
After == {"marking", "same", "looking", "renaming", "merging", "moving", "dropping", "over"}

QuietStatus(p, j) ==
  /\ jpc[j] \in {"none", "chosen"} => jobRow[j] = Null
  /\ status[j] \in {"active", "done", "failed"} => jobRow[j] # Null
  /\ jobRow[j] # Null => jobRow[j] = req[j] \/ bundle[jobRow[j]][2] = p
  /\ status[j] = "done" => jpc[j] \in After
  /\ status[j] = "done" /\ jpc[j] = "over" => bundle[jobRow[j]][2] = p

Present(p) ==
  \A b \in present : \/ \E r \in Rows : exists[r] = "row" /\ bundle[r] = b
                     \/ \E j \in Jobs : jpc[j] \in Marking /\ real[j] = b

Quiet(p) ==
  /\ QuietHandlers(p) /\ QuietRows(p) /\ GoneOK(p) /\ Present(p)
  /\ \A j \in Jobs : QuietJob(p, j) /\ QuietStatus(p, j)

QuietInv == Undisturbed => \E p \in Accounts : Quiet(p)

-----------------------------------------------------------------------------
(* The steps, grouped as the proofs go through them: those of a job, those *)
(* that delete a row, and those that touch neither jobs nor rows.          *)
JobStep(j) ==
  \/ TaskStep(j)
  \/ \E x \in Ipas, p \in Accounts : Upload(j, x, p)
  \/ \E r \in Rows : Refresh(j, r)
  \/ \E a \in sched.verified : SchedChoose(j, a)

PruneStep == DelRow \/ (\E r \in Rows : RecPrune(r)) \/ (\E a \in sched.missing : SchedPrune(a))

OtherStep ==
  \/ (\E r \in Rows : DelRead(r)) \/ DelUninstall
  \/ RecList \/ RecRows \/ RecEnd
  \/ SchedRows \/ SchedList \/ SchedEnd
  \/ \E b \in present : ByHand(b)

LEMMA RegSteps ==
  ASSUME [Next]_vars
  PROVE  \/ \E j \in Jobs : JobStep(j)
         \/ PruneStep \/ OtherStep
         \/ \E p \in Accounts : DeleteAccount(p)
         \/ UNCHANGED vars
BY DEF Next, Step, HandlerStep, SchedStep, Rest, OutOfRows, JobStep, PruneStep, OtherStep

LEMMA RegInitInv == Init => RegInv
<1> SUFFICES ASSUME Init PROVE RegInv
  OBVIOUS
<1> USE RegistryAssumption
<1>1. known \subseteq Accounts /\ jpc \in [Jobs -> {"none", "over"}]
  BY DEF Init, kSubset
<1>2. HandlersOK
  BY DEF Init, HandlersOK, Asleep
<1>3. TypeOK
  BY <1>1 DEF Init, TypeOK, Idle, Asleep, JobPCs
<1>4. RowsOK /\ \A j \in Jobs : JobOK(j)
  BY <1>1 DEF Init, RowsOK, JobOK, HasReal, Marking
<1> QED BY <1>2, <1>3, <1>4 DEF RegInv

-----------------------------------------------------------------------------
(* The rows.  A row with a signed id keeps one.                            *)
LEMMA DeleteRows ==
  ASSUME TypeOK, NEW d, DeleteRow(d)
  PROVE  /\ \A r \in Rows : exists'[r] = exists[r] \/ (r = d /\ exists[r] = "row" /\ exists'[r] = "gone")
         /\ ~IsRow(d)' 
         /\ \A j \in Jobs : jobRow'[j] = IF jobRow[j] = d THEN Null ELSE jobRow[j]
         /\ exists' \in [Rows -> {"none", "row", "gone"}]
         /\ jobRow' \in [Jobs -> Rows \cup {Null}]
         /\ status' \in [Jobs -> {"absent", "active", "done", "failed", "deleted"}]
         /\ \A j \in Jobs : jobRow'[j] = Null \/ (jobRow'[j] \in Rows /\ exists'[jobRow'[j]] = "row")
BY DEF DeleteRow, TypeOK, IsRow

LEMMA RowsStep ==
  ASSUME RegInv, [Next]_vars
  PROVE  RowsOK' /\ \A r \in Rows : SignedRow(r) => SignedRow(r)'
<1> USE RegistryAssumption DEF RegInv, TypeOK
<1>1. ASSUME NEW d, DeleteRow(d), UNCHANGED <<bundle, installed>>
      PROVE  RowsOK' /\ \A r \in Rows : SignedRow(r) => SignedRow(r)'
  BY <1>1, DeleteRows DEF RowsOK, SignedRow
<1>2. ASSUME UNCHANGED <<exists, bundle, installed>>
      PROVE  RowsOK' /\ \A r \in Rows : SignedRow(r) => SignedRow(r)'
  BY <1>2 DEF RowsOK, SignedRow
<1>3. ASSUME NEW j \in Jobs, JobStep(j)
      PROVE  RowsOK' /\ \A r \in Rows : SignedRow(r) => SignedRow(r)'
  <2>1. ASSUME NEW x \in Ipas, NEW p \in Accounts, Upload(j, x, p)
        PROVE  RowsOK' /\ \A r \in Rows : SignedRow(r) => SignedRow(r)'
    BY <2>1 DEF Upload, RowsOK, SignedRow, Signed, BundleIds, IsRow
  <2>2. CASE MarkSame(j)
    BY <2>2 DEF MarkSame, RowsOK, SignedRow, JobOK, IsRow
  <2>3. CASE Rename(j)
    <3>1. CASE UNCHANGED <<bundle, installed>>
      BY <1>2, <2>3, <3>1 DEF Rename
    <3>2. CASE ~UNCHANGED <<bundle, installed>>
      <4>1. PICK q \in Rows : q = req[j]
        BY <2>3 DEF Rename, JobOK
      <4>2. /\ exists[q] = "row" /\ UNCHANGED exists
            /\ bundle' = [bundle EXCEPT ![q] = real[j]] /\ installed' = [installed EXCEPT ![q] = TRUE]
        BY <2>3, <3>2, <4>1 DEF Rename, IsRow
      <4>3. real[j] \in Signed /\ real[j] \in BundleIds
        BY <2>3 DEF Rename, JobOK, HasReal, Marking, Signed, BundleIds
      <4>4. /\ bundle'[q] = real[j]
            /\ \A r \in Rows \ {q} : bundle'[r] = bundle[r] /\ installed'[r] = installed[r]
        BY <4>2
      <4> HIDE DEF RegInv, TypeOK
      <4> QED BY <4>2, <4>3, <4>4 DEF RowsOK, SignedRow, RegInv
    <3> QED BY <3>1, <3>2
  <2>4. CASE UpdateTarget(j)
    BY <2>4 DEF UpdateTarget, RowsOK, SignedRow, JobOK, IsRow
  <2>5. CASE DropRow(j)
    BY <1>1, <2>5 DEF DropRow
  <2>6. ASSUME NEW r \in Rows, Refresh(j, r)
        PROVE  RowsOK' /\ \A t \in Rows : SignedRow(t) => SignedRow(t)'
    BY <1>2, <2>6 DEF Refresh, rowVars
  <2>7. ASSUME NEW a \in sched.verified, SchedChoose(j, a)
        PROVE  RowsOK' /\ \A r \in Rows : SignedRow(r) => SignedRow(r)'
    BY <1>2, <2>7 DEF SchedChoose, rowVars
  <2>8. CASE Enqueue(j) \/ Run(j) \/ ReadApp(j) \/ Push(j) \/ Install(j) \/ WriteStatus(j)
             \/ SelectRow(j) \/ SelectConflict(j) \/ MoveJobs(j)
    BY <1>2, <2>8 DEF Enqueue, Run, ReadApp, Push, Install, WriteStatus, SelectRow, SelectConflict,
                      MoveJobs, rowVars
  <2> QED BY <1>3, <2>1, <2>2, <2>3, <2>4, <2>5, <2>6, <2>7, <2>8 DEF JobStep, TaskStep
<1>4. CASE PruneStep
  BY <1>1, <1>4 DEF PruneStep, DelRow, RecPrune, SchedPrune
<1>5. CASE OtherStep
  BY <1>2, <1>5 DEF OtherStep, DelRead, DelUninstall, RecList, RecRows, RecEnd, SchedRows, SchedList,
                    SchedEnd, ByHand, rowVars
<1>6. ASSUME NEW p \in Accounts, DeleteAccount(p)
      PROVE  RowsOK' /\ \A r \in Rows : SignedRow(r) => SignedRow(r)'
  BY <1>2, <1>6 DEF DeleteAccount
<1>7. CASE UNCHANGED vars
  BY <1>2, <1>7 DEF vars
<1> HIDE DEF RegInv, TypeOK
<1> QED BY <1>3, <1>4, <1>5, <1>6, <1>7, RegSteps

-----------------------------------------------------------------------------
(* The jobs.  A job that no step touches stays as it is, as its rows do.   *)
SameJob(j) ==
  /\ jpc'[j] = jpc[j] /\ kind'[j] = kind[j] /\ req'[j] = req[j] /\ reqAcct'[j] = reqAcct[j]
  /\ real'[j] = real[j] /\ target'[j] = target[j] /\ snap'[j] = snap[j]

LEMMA SameJobOK ==
  ASSUME NEW j \in Jobs, JobOK(j), \A r \in Rows : SignedRow(r) => SignedRow(r)', SameJob(j)
  PROVE  JobOK(j)'
BY DEF JobOK, HasReal, SignedRow, SameJob

(* A step of one job touches no other.                                     *)
LEMMA OtherJobs ==
  ASSUME TypeOK, NEW i \in Jobs, NEW j \in Jobs, JobStep(j), i # j
  PROVE  SameJob(i)
<1> USE DEF TypeOK, Goto, Choose, SameJob
<1>1. ASSUME NEW x \in Ipas, NEW p \in Accounts, Upload(j, x, p) PROVE SameJob(i)
  BY <1>1 DEF Upload
<1>2. ASSUME NEW r \in Rows, Refresh(j, r) PROVE SameJob(i)
  BY <1>2 DEF Refresh
<1>3. ASSUME NEW a \in sched.verified, SchedChoose(j, a) PROVE SameJob(i)
  BY <1>3 DEF SchedChoose
<1>4. CASE Enqueue(j) \/ Run(j) \/ ReadApp(j) \/ Push(j)
  BY <1>4 DEF Enqueue, Run, ReadApp, Push
<1>5. CASE Install(j) \/ WriteStatus(j) \/ SelectRow(j) \/ MarkSame(j) \/ SelectConflict(j)
  BY <1>5 DEF Install, WriteStatus, SelectRow, MarkSame, SelectConflict
<1>6. CASE Rename(j) \/ UpdateTarget(j) \/ MoveJobs(j) \/ DropRow(j)
  BY <1>6 DEF Rename, UpdateTarget, MoveJobs, DropRow
<1> QED BY <1>1, <1>2, <1>3, <1>4, <1>5, <1>6 DEF JobStep, TaskStep

LEMMA JobsStep ==
  ASSUME RegInv, [Next]_vars, NEW i \in Jobs
  PROVE  JobOK(i)'
<1>0. JobOK(i) /\ \A r \in Rows : SignedRow(r) => SignedRow(r)'
  BY RowsStep DEF RegInv
<1>1. ASSUME UNCHANGED <<jpc, kind, req, reqAcct, real, target, snap>> PROVE JobOK(i)'
  BY <1>0, <1>1, SameJobOK DEF SameJob
<1>2. ASSUME NEW j \in Jobs, JobStep(j), i # j PROVE JobOK(i)'
  BY <1>0, <1>2, OtherJobs, SameJobOK DEF RegInv
<1>3. ASSUME JobStep(i) PROVE JobOK(i)'
  <2> USE <1>0, RegistryAssumption DEF JobOK, HasReal, Marking, RegInv, TypeOK, Goto, Choose, RowsOK
  <2>1. ASSUME NEW x \in Ipas, NEW p \in Accounts, Upload(i, x, p) PROVE JobOK(i)'
    BY <2>1 DEF Upload, Signed
  <2>2. ASSUME NEW r \in Rows, Refresh(i, r) PROVE JobOK(i)'
    BY <2>2 DEF Refresh
  <2>3. ASSUME NEW a \in sched.verified, SchedChoose(i, a) PROVE JobOK(i)'
    BY <2>3 DEF SchedChoose, HandlersOK, Seen
  <2>4. CASE Enqueue(i) \/ Run(i) \/ ReadApp(i)
    BY <2>4 DEF Enqueue, Run, ReadApp
  <2>5. CASE Push(i)
    BY <2>5 DEF Push, Signed, BundleIds, NoBundle, IsRow
  <2>6. CASE Install(i) \/ WriteStatus(i)
    BY <2>6 DEF Install, WriteStatus
  <2>7. CASE SelectRow(i)
    BY <2>7 DEF SelectRow, IsRow, SignedRow
  <2>8. CASE MarkSame(i) \/ Rename(i) \/ DropRow(i)
    BY <2>8 DEF MarkSame, Rename, DropRow
  <2>9. CASE SelectConflict(i)
    BY <2>9 DEF SelectConflict, IsRow, SignedRow, Named
  <2>10. CASE UpdateTarget(i) \/ MoveJobs(i)
    BY <2>10 DEF UpdateTarget, MoveJobs, SignedRow, rowVars
  <2> QED BY <1>3, <2>1, <2>2, <2>3, <2>4, <2>5, <2>6, <2>7, <2>8, <2>9, <2>10 DEF JobStep, TaskStep
<1>4. CASE PruneStep
  BY <1>1, <1>4 DEF PruneStep, DelRow, RecPrune, SchedPrune
<1>5. CASE OtherStep
  BY <1>1, <1>5 DEF OtherStep, DelRead, DelUninstall, RecList, RecRows, RecEnd, SchedRows, SchedList,
                    SchedEnd, ByHand, jobVars
<1>6. ASSUME NEW p \in Accounts, DeleteAccount(p) PROVE JobOK(i)'
  BY <1>1, <1>6 DEF DeleteAccount, jobVars
<1>7. CASE UNCHANGED vars
  BY <1>1, <1>7 DEF vars
<1> QED BY <1>2, <1>3, <1>4, <1>5, <1>6, <1>7, RegSteps

-----------------------------------------------------------------------------
(* The handlers.                                                           *)
LEMMA HandlersStep == ASSUME RegInv, [Next]_vars PROVE HandlersOK'
<1> USE RegistryAssumption DEF HandlersOK
<1>1. ASSUME UNCHANGED <<del, rec, sched>> PROVE HandlersOK'
  BY <1>1 DEF RegInv
<1>2. ASSUME NEW j \in Jobs, JobStep(j) PROVE HandlersOK'
  <2>1. ASSUME NEW a \in sched.verified, SchedChoose(j, a) PROVE HandlersOK'
    <3>1. sched' = [sched EXCEPT !.verified = @ \ {a}, !.job = j] /\ UNCHANGED <<del, rec>>
      BY <2>1 DEF SchedChoose
    <3> QED BY <3>1 DEF RegInv
  <2>2. ~(\E a \in sched.verified : SchedChoose(j, a)) => UNCHANGED <<del, rec, sched>>
    BY <1>2 DEF JobStep, TaskStep, Upload, Refresh, Enqueue, Run, ReadApp, Push, Install, WriteStatus,
                SelectRow, MarkSame, SelectConflict, Rename, UpdateTarget, MoveJobs, DropRow
  <2> QED BY <1>1, <2>1, <2>2
<1>3. CASE PruneStep
  <2>1. CASE DelRow
    BY <2>1 DEF DelRow, RegInv
  <2>2. ASSUME NEW r \in Rows, RecPrune(r) PROVE HandlersOK'
    <3>1. PICK rows \in SUBSET Rows : rec = [at |-> "prune", rows |-> rows]
      BY <2>2 DEF RecPrune, RegInv, Idle
    <3>2. rec' = [at |-> "prune", rows |-> rows \ {r}] /\ UNCHANGED <<del, sched>>
      BY <2>2, <3>1 DEF RecPrune
    <3> QED BY <3>2 DEF RegInv
  <2>3. ASSUME NEW a \in sched.missing, SchedPrune(a) PROVE HandlersOK'
    <3>1. sched' = [sched EXCEPT !.missing = @ \ {a}] /\ UNCHANGED <<del, rec>>
      BY <2>3 DEF SchedPrune
    <3> QED BY <3>1 DEF RegInv
  <2> QED BY <1>3, <2>1, <2>2, <2>3 DEF PruneStep
<1>4. CASE OtherStep
  <2>1. ASSUME NEW r \in Rows, DelRead(r) PROVE HandlersOK'
    <3>1. bundle[r] \in BundleIds /\ UNCHANGED <<rec, sched>>
      BY <2>1 DEF DelRead, RegInv, RowsOK, IsRow
    <3>2. PICK at \in {"uninstall", "row"} : del' = [at |-> at, r |-> r, id |-> bundle[r]]
      BY <2>1 DEF DelRead
    <3> QED BY <3>1, <3>2 DEF RegInv
  <2>2. CASE DelUninstall
    <3>1. PICK at \in {"uninstall", "row"}, r \in Rows, id \in BundleIds :
             del = [at |-> at, r |-> r, id |-> id]
      BY <2>2 DEF DelUninstall, RegInv, Idle
    <3>2. (del' = Idle \/ del' = [at |-> "row", r |-> r, id |-> id]) /\ UNCHANGED <<rec, sched>>
      BY <2>2, <3>1 DEF DelUninstall
    <3> QED BY <3>2 DEF RegInv
  <2>3. CASE RecList
    <3>1. present \in SUBSET Signed
      BY DEF RegInv, TypeOK, Signed
    <3> QED BY <2>3, <3>1 DEF RecList, RegInv
  <2>4. CASE RecRows
    <3>1. PICK rows \in SUBSET Rows : rec' = [at |-> "prune", rows |-> rows]
      BY <2>4 DEF RecRows
    <3> QED BY <2>4, <3>1 DEF RecRows, RegInv
  <2>5. CASE RecEnd
    BY <2>5 DEF RecEnd, RegInv
  <2>6. CASE SchedRows
    <3>1. \A a \in Due : a \in Seen
      BY DEF Due, Seen, RegInv, TypeOK, RowsOK, IsRow
    <3>2. PICK due \in SUBSET Seen :
             sched' = [at |-> "list", missing |-> {}, verified |-> due, job |-> Null]
      BY <2>6, <3>1 DEF SchedRows
    <3> QED BY <2>6, <3>2 DEF SchedRows, RegInv
  <2>7. CASE SchedList
    <3>1. Asleep \in [at : {"idle", "list", "prune"}, missing : SUBSET Seen, verified : SUBSET Seen,
                      job : Jobs \cup {Null}]
      BY DEF Asleep
    <3>2. sched' \in [at : {"idle", "list", "prune"}, missing : SUBSET Seen, verified : SUBSET Seen,
                      job : Jobs \cup {Null}]
      <4> DEFINE gone == {a \in sched.verified : a.id \notin present}
      <4>1. gone \in SUBSET Seen /\ sched.verified \ gone \in SUBSET Seen
        BY DEF RegInv
      <4>2. \/ sched' = [sched EXCEPT !.at = "prune", !.missing = gone, !.verified = sched.verified \ gone]
            \/ sched' = [sched EXCEPT !.at = "prune"]
            \/ sched' = Asleep
        BY <2>7 DEF SchedList
      <4> HIDE DEF gone
      <4> QED BY <3>1, <4>1, <4>2 DEF RegInv
    <3> QED BY <2>7, <3>2 DEF SchedList, RegInv
  <2>8. CASE SchedEnd
    BY <2>8 DEF SchedEnd, Asleep, RegInv
  <2>9. ASSUME NEW b \in present, ByHand(b) PROVE HandlersOK'
    BY <1>1, <2>9 DEF ByHand
  <2> QED BY <1>4, <2>1, <2>2, <2>3, <2>4, <2>5, <2>6, <2>7, <2>8, <2>9 DEF OtherStep
<1>5. ASSUME NEW p \in Accounts, DeleteAccount(p) PROVE HandlersOK'
  BY <1>1, <1>5 DEF DeleteAccount
<1>6. CASE UNCHANGED vars
  BY <1>1, <1>6 DEF vars
<1> HIDE DEF HandlersOK
<1> QED BY <1>2, <1>3, <1>4, <1>5, <1>6, RegSteps

-----------------------------------------------------------------------------
(* The types, and the foreign key of jobs.app_id: a row of `jobs` goes     *)
(* with the row of `apps`, or is moved to one that is there.               *)
LEMMA TypeStep == ASSUME RegInv, [Next]_vars PROVE TypeOK'
<1>1. del'.at \in {"idle", "uninstall", "row"} /\ rec'.at \in {"idle", "rows", "prune"}
      /\ sched'.at \in {"idle", "list", "prune"}
  BY HandlersStep DEF HandlersOK, Idle
<1> USE <1>1, RegistryAssumption DEF RegInv, TypeOK
<1>2. ASSUME UNCHANGED <<exists, bundle, account, installed, known, jobVars>>,
             present' \subseteq Ipas \X Accounts
      PROVE  TypeOK'
  BY <1>2 DEF jobVars, IsRow
<1>3. ASSUME NEW d, DeleteRow(d), UNCHANGED <<bundle, account, installed, known, present, kind, req,
                                              reqAcct, real, snap, target>>,
             jpc' \in [Jobs -> JobPCs]
      PROVE  TypeOK'
  BY <1>3, DeleteRows DEF IsRow
<1>4. ASSUME NEW j \in Jobs, JobStep(j) PROVE TypeOK'
  <2> USE DEF Goto, Choose
  <2>0. JobOK(j) /\ RowsOK /\ \A where \in JobPCs : [jpc EXCEPT ![j] = where] \in [Jobs -> JobPCs]
    OBVIOUS
  <2>1. ASSUME NEW x \in Ipas, NEW p \in Accounts, Upload(j, x, p) PROVE TypeOK'
    BY <2>1 DEF Upload, BundleIds, JobPCs, IsRow
  <2>2. ASSUME NEW r \in Rows, Refresh(j, r) PROVE TypeOK'
    BY <2>2 DEF Refresh, rowVars, JobPCs, IsRow
  <2>3. ASSUME NEW a \in sched.verified, SchedChoose(j, a) PROVE TypeOK'
    BY <2>3 DEF SchedChoose, rowVars, HandlersOK, Seen, JobPCs, IsRow
  <2>4. CASE Enqueue(j)
    BY <2>4 DEF Enqueue, rowVars, JobPCs, IsRow
  <2>5. CASE Run(j) \/ ReadApp(j)
    BY <2>5 DEF Run, ReadApp, rowVars, JobPCs, IsRow
  <2>6. CASE Push(j)
    <3>1. IsRow(req[j]) => <<bundle[req[j]][1], reqAcct[j]>> \in BundleIds
      BY <2>0, <2>6 DEF Push, IsRow, JobOK, RowsOK, BundleIds
    <3>2. real' \in [Jobs -> BundleIds \cup {NoBundle}] /\ jpc' \in [Jobs -> JobPCs]
      BY <2>6, <3>1 DEF Push, JobPCs
    <3> QED BY <2>6, <3>2 DEF Push, rowVars, IsRow
  <2>7. CASE Install(j)
    BY <2>0, <2>7 DEF Install, rowVars, JobPCs, IsRow, JobOK, HasReal, Signed
  <2>8. CASE WriteStatus(j)
    BY <2>8 DEF WriteStatus, rowVars, JobPCs, IsRow
  <2>9. CASE SelectRow(j)
    BY <2>9 DEF SelectRow, rowVars, JobPCs, IsRow
  <2>10. CASE MarkSame(j)
    BY <2>10 DEF MarkSame, JobPCs, IsRow
  <2>11. CASE SelectConflict(j)
    BY <2>11 DEF SelectConflict, rowVars, JobPCs, IsRow, Named
  <2>12. CASE Rename(j)
    <3>1. bundle' \in [Rows -> BundleIds \cup {NoBundle}] /\ installed' \in [Rows -> BOOLEAN]
      BY <2>12 DEF Rename
    <3>2. jpc' \in [Jobs -> JobPCs]
      BY <2>12 DEF Rename, JobPCs
    <3> QED BY <2>12, <3>1, <3>2 DEF Rename, IsRow
  <2>13. CASE UpdateTarget(j)
    <3>1. account' \in [Rows -> Accounts \cup {Null}]
      <4>1. snap[j] \in Accounts \cup {Null}
        OBVIOUS
      <4>2. \/ account' = account
            \/ account' = [account EXCEPT ![target[j]] = snap[j]]
            \/ account' = [account EXCEPT ![target[j]] = @]
        BY <2>13 DEF UpdateTarget
      <4> QED BY <4>1, <4>2
    <3>2. installed' \in [Rows -> BOOLEAN] /\ jpc' \in [Jobs -> JobPCs]
      BY <2>13 DEF UpdateTarget, JobPCs
    <3> QED BY <2>13, <3>1, <3>2 DEF UpdateTarget, IsRow
  <2>14. CASE MoveJobs(j)
    BY <2>0, <2>14 DEF MoveJobs, rowVars, JobPCs, IsRow, JobOK, SignedRow
  <2>15. CASE DropRow(j)
    BY <1>3, <2>15 DEF DropRow, JobPCs
  <2> QED BY <1>4, <2>1, <2>2, <2>3, <2>4, <2>5, <2>6, <2>7, <2>8, <2>9, <2>10, <2>11, <2>12, <2>13,
             <2>14, <2>15 DEF JobStep, TaskStep
<1>5. CASE PruneStep
  BY <1>3, <1>5 DEF PruneStep, DelRow, RecPrune, SchedPrune
<1>6. CASE OtherStep
  <2>1. present' \subseteq present
    BY <1>6 DEF OtherStep, DelRead, DelUninstall, RecList, RecRows, RecEnd, SchedRows, SchedList,
                SchedEnd, ByHand
  <2>2. UNCHANGED <<exists, bundle, account, installed, known, jobVars>>
    BY <1>6 DEF OtherStep, DelRead, DelUninstall, RecList, RecRows, RecEnd, SchedRows, SchedList,
                SchedEnd, ByHand, rowVars
  <2> QED BY <1>2, <2>1, <2>2
<1>7. ASSUME NEW p \in Accounts, DeleteAccount(p) PROVE TypeOK'
  BY <1>7 DEF DeleteAccount, jobVars, IsRow
<1>8. CASE UNCHANGED vars
  BY <1>2, <1>8 DEF vars, jobVars
<1> HIDE DEF RegInv, TypeOK
<1> QED BY <1>4, <1>5, <1>6, <1>7, <1>8, RegSteps

LEMMA RegStepInv == RegInv /\ [Next]_vars => RegInv'
<1> SUFFICES ASSUME RegInv, [Next]_vars PROVE RegInv'
  OBVIOUS
<1>1. \A j \in Jobs : JobOK(j)'
  BY JobsStep
<1> QED BY <1>1, TypeStep, RowsStep, HandlersStep DEF RegInv

LEMMA RegHolds == Spec => []RegInv
BY RegInitInv, RegStepInv, PTL DEF Spec

(* The columns, the handlers and the jobs keep their types, and no row of  *)
(* `jobs` refers to a row of `apps` that is gone.                          *)
THEOREM TypeCorrect == Spec => []TypeOK
<1>1. RegInv => TypeOK
  BY DEF RegInv
<1> QED BY <1>1, RegHolds, PTL

(* Whoever else deletes, prunes, reconciles or removes by hand: what is    *)
(* confirmed goes by the id the device knows it by.                        *)
THEOREM ConfirmedRowsAreReal == Spec => []InstalledRowsAreReal
<1>1. RegInv => InstalledRowsAreReal
  BY DEF RegInv, RowsOK, Signed, IsRow, InstalledRowsAreReal
<1> QED BY <1>1, RegHolds, PTL

-----------------------------------------------------------------------------
(* Nobody disturbs.  What may happen then ...                              *)
QuietStep(p) ==
  \E j \in Jobs : TaskStep(j) \/ (\E x \in Ipas : Upload(j, x, p)) \/ (\E r \in Rows : Refresh(j, r))

LEMMA QuietSteps ==
  ASSUME NEW p \in Accounts, QuietHandlers(p), [Next]_vars
  PROVE  QuietHandlers(p)' /\ (UNCHANGED vars \/ QuietStep(p))
<1> USE DEF QuietHandlers, Idle, Asleep
<1>1. CASE UNCHANGED vars
  BY <1>1 DEF vars
<1>2. CASE Next
  <2>1. ~(\E r \in Rows : DelRead(r)) /\ ~RecList /\ ~HandlerStep
    BY DEF DelRead, RecList, HandlerStep, DelUninstall, DelRow, RecRows, RecPrune, RecEnd
  <2>2. ~SchedStep /\ ~(\E b \in present : ByHand(b)) /\ ~(\E q \in Accounts : DeleteAccount(q))
    BY DEF SchedStep, SchedRows, SchedList, SchedEnd, SchedPrune, SchedChoose, ByHand, DeleteAccount
  <2>3. \A j \in Jobs, x \in Ipas, q \in Accounts : Upload(j, x, q) => q = p
    BY DEF Upload
  <2>4. UNCHANGED vars \/ QuietStep(p)
    BY <1>2, <2>1, <2>2, <2>3 DEF Next, Step, QuietStep, Rest, OutOfRows
  <2>5. QuietStep(p) => UNCHANGED <<known, del, rec, sched>>
    BY DEF QuietStep, TaskStep, Upload, Refresh, Enqueue, Run, ReadApp, Push, Install, WriteStatus,
           SelectRow, MarkSame, SelectConflict, Rename, UpdateTarget, MoveJobs, DropRow
  <2> QED BY <1>1, <1>2, <2>4, <2>5 DEF Next
<1> QED BY <1>1, <1>2

(* ... and what it means for the rows: they keep the id of their IPA, a    *)
(* signed one keeps its id, a row comes to a signed id only from the id of *)
(* its IPA, and one that goes away leaves a signed one behind.             *)
RowMove(p, r) ==
  /\ exists[r] # "none" => exists'[r] # "none" /\ bundle'[r][1] = bundle[r][1]
  /\ exists[r] = "gone" => exists'[r] = "gone"
  /\ exists[r] = "row" /\ bundle[r][2] = p => exists'[r] = "row" /\ bundle'[r] = bundle[r]
  /\ exists'[r] = "row" /\ bundle'[r][2] = p =>
       exists[r] = "row" /\ (bundle[r] = bundle'[r] \/ bundle[r] = <<bundle'[r][1], Unsigned>>)
  /\ exists'[r] = "gone" =>
       /\ exists[r] # "none"
       /\ exists[r] = "gone" \/ \E t \in Rows : exists[t] = "row" /\ bundle[t] = <<bundle[r][1], p>>

LEMMA QuietRowsStep ==
  ASSUME RegInv, NEW p \in Accounts, Quiet(p), UNCHANGED vars \/ QuietStep(p)
  PROVE  QuietRows(p)' /\ \A r \in Rows : RowMove(p, r)
<1> USE RegistryAssumption DEF IsRow
<1>0. /\ QuietRows(p) /\ \A j \in Jobs : QuietJob(p, j) /\ JobOK(j)
      /\ \A r \in Rows : exists[r] # "none" => bundle[r] \in BundleIds
      /\ exists \in [Rows -> {"none", "row", "gone"}] /\ bundle \in [Rows -> BundleIds \cup {NoBundle}]
      /\ account \in [Rows -> Accounts \cup {Null}] /\ installed \in [Rows -> BOOLEAN]
  BY DEF RegInv, TypeOK, RowsOK, Quiet
<1>1. ASSUME UNCHANGED <<exists, bundle, account, installed>>
      PROVE  QuietRows(p)' /\ \A r \in Rows : RowMove(p, r)
  BY <1>0, <1>1 DEF QuietRows, RowMove
<1>2. ASSUME NEW j \in Jobs, NEW x \in Ipas, Upload(j, x, p)
      PROVE  QuietRows(p)' /\ \A r \in Rows : RowMove(p, r)
  <2>1. PICK r \in Rows :
          /\ \/ exists[r] = "row" /\ bundle[r] = <<x, Unsigned>>
             \/ exists[r] = "none" /\ \A t \in Rows : ~(exists[t] = "row" /\ bundle[t] = <<x, Unsigned>>)
          /\ exists' = [exists EXCEPT ![r] = "row"] /\ bundle' = [bundle EXCEPT ![r] = <<x, Unsigned>>]
          /\ account' = [account EXCEPT ![r] = p] /\ UNCHANGED installed
    BY <1>2 DEF Upload
  <2>2. /\ exists'[r] = "row" /\ bundle'[r] = <<x, Unsigned>> /\ account'[r] = p
        /\ \A t \in Rows \ {r} : exists'[t] = exists[t] /\ bundle'[t] = bundle[t] /\ account'[t] = account[t]
    BY <1>0, <2>1
  <2>3. \A t \in Rows : RowMove(p, t)
    BY <1>0, <2>1, <2>2 DEF RowMove
  <2>4. QuietRows(p)'
    BY <1>0, <2>1, <2>2 DEF QuietRows
  <2> QED BY <2>3, <2>4
<1>3. ASSUME NEW j \in Jobs, Rename(j)
      PROVE  QuietRows(p)' /\ \A r \in Rows : RowMove(p, r)
  <2>1. CASE UNCHANGED <<bundle, installed>>
    BY <1>1, <1>3, <2>1 DEF Rename
  <2>2. CASE ~UNCHANGED <<bundle, installed>>
    <3>1. PICK r \in Rows : r = req[j]
      BY <1>0, <1>3 DEF Rename, QuietJob
    <3>2. /\ exists[r] = "row" /\ \A t \in Rows : exists[t] = "row" /\ bundle[t] = real[j] => t = r
          /\ bundle' = [bundle EXCEPT ![r] = real[j]] /\ installed' = [installed EXCEPT ![r] = TRUE]
          /\ UNCHANGED <<exists, account>>
      BY <1>3, <2>2, <3>1 DEF Rename, Named
    <3>3. real[j] = <<bundle[r][1], p>>
      BY <1>0, <1>3, <3>1 DEF Rename, QuietJob, HasReal, Marking
    <3>4. /\ bundle'[r] = real[j] /\ installed'[r]
          /\ \A t \in Rows \ {r} : bundle'[t] = bundle[t] /\ installed'[t] = installed[t]
      BY <1>0, <3>2
    <3>5. bundle[r] = real[j] \/ bundle[r] = <<real[j][1], Unsigned>>
      BY <1>0, <3>2, <3>3 DEF QuietRows, BundleIds
    <3>6. \A t \in Rows : RowMove(p, t)
      BY <1>0, <3>2, <3>3, <3>4, <3>5 DEF RowMove
    <3>7. QuietRows(p)'
      BY <1>0, <3>2, <3>3, <3>4 DEF QuietRows
    <3> QED BY <3>6, <3>7
  <2> QED BY <2>1, <2>2
<1>4. ASSUME NEW j \in Jobs, MarkSame(j)
      PROVE  QuietRows(p)' /\ \A r \in Rows : RowMove(p, r)
  <2>1. PICK r \in Rows : r = req[j] /\ exists[r] = "row"
    BY <1>0, <1>4 DEF MarkSame, QuietJob
  <2>2. installed'[r] /\ \A t \in Rows \ {r} : installed'[t] = installed[t]
    BY <1>0, <1>4, <2>1 DEF MarkSame
  <2>3. UNCHANGED <<exists, bundle, account>>
    BY <1>4 DEF MarkSame
  <2> QED BY <1>0, <2>1, <2>2, <2>3 DEF QuietRows, RowMove
<1>5. ASSUME NEW j \in Jobs, UpdateTarget(j)
      PROVE  QuietRows(p)' /\ \A r \in Rows : RowMove(p, r)
  <2>1. PICK r \in Rows : r = target[j] /\ exists[r] = "row"
    BY <1>0, <1>5 DEF UpdateTarget, QuietJob
  <2>2. /\ installed'[r] /\ \A t \in Rows \ {r} : installed'[t] = installed[t]
        /\ account'[r] \in {account[r], snap[j]} /\ \A t \in Rows \ {r} : account'[t] = account[t]
    BY <1>0, <1>5, <2>1 DEF UpdateTarget
  <2>3. UNCHANGED <<exists, bundle>> /\ snap[j] \in {p, Null}
    BY <1>0, <1>5 DEF UpdateTarget, QuietJob
  <2> QED BY <1>0, <2>1, <2>2, <2>3 DEF QuietRows, RowMove
<1>6. ASSUME NEW j \in Jobs, DropRow(j)
      PROVE  QuietRows(p)' /\ \A r \in Rows : RowMove(p, r)
  <2>1. PICK r \in Rows, t \in Rows :
          /\ r = req[j] /\ t = target[j] /\ t # r /\ exists[t] = "row" /\ exists[r] # "none"
          /\ bundle[t] = <<bundle[r][1], p>>
    BY <1>0, <1>6 DEF DropRow, QuietJob, HasReal, Marking
  <2>2. exists[r] = "row" => bundle[r][2] # p
    BY <1>0, <2>1 DEF QuietRows, BundleIds
  <2>3. /\ \A s \in Rows : exists'[s] = exists[s] \/ (s = r /\ exists[s] = "row" /\ exists'[s] = "gone")
        /\ UNCHANGED <<bundle, account, installed>>
    BY <1>6, <2>1, DeleteRows DEF DropRow, RegInv
  <2>4. \A s \in Rows : RowMove(p, s)
    BY <1>0, <2>1, <2>2, <2>3 DEF RowMove
  <2>5. QuietRows(p)'
    BY <1>0, <2>3 DEF QuietRows
  <2> QED BY <2>4, <2>5
<1>7. ASSUME NEW j \in Jobs,
             \/ Enqueue(j) \/ Run(j) \/ ReadApp(j) \/ Push(j) \/ Install(j) \/ WriteStatus(j)
             \/ SelectRow(j) \/ SelectConflict(j) \/ MoveJobs(j) \/ \E r \in Rows : Refresh(j, r)
      PROVE  QuietRows(p)' /\ \A r \in Rows : RowMove(p, r)
  BY <1>1, <1>7 DEF Enqueue, Run, ReadApp, Push, Install, WriteStatus, SelectRow, SelectConflict,
                    MoveJobs, Refresh, rowVars
<1>8. CASE UNCHANGED vars
  BY <1>1, <1>8 DEF vars
<1> QED BY <1>2, <1>3, <1>4, <1>5, <1>6, <1>7, <1>8 DEF QuietStep, TaskStep

(* So whatever is gone was merged, and the row it went into stays.         *)
LEMMA GoneStep ==
  ASSUME RegInv, NEW p \in Accounts, Quiet(p), \A r \in Rows : RowMove(p, r)
  PROVE  GoneOK(p)'
<1> SUFFICES ASSUME NEW r \in Rows, exists'[r] = "gone"
             PROVE  \E t \in Rows : exists'[t] = "row" /\ bundle'[t] = <<bundle'[r][1], p>>
  BY DEF GoneOK
<1>1. RowMove(p, r)
  OBVIOUS
<1>2. exists[r] # "none"
  BY <1>1 DEF RowMove
<1>3. PICK t \in Rows : exists[t] = "row" /\ bundle[t] = <<bundle[r][1], p>>
  BY <1>1 DEF RowMove, Quiet, GoneOK
<1>4. exists'[t] = "row" /\ bundle'[t] = bundle[t]
  BY <1>3 DEF RowMove
<1> QED BY <1>1, <1>2, <1>3, <1>4 DEF RowMove

-----------------------------------------------------------------------------
(* A job that no step touches keeps its rows, and its id to itself.        *)
LEMMA QuietSameJob ==
  ASSUME RegInv, NEW p \in Accounts, Quiet(p), QuietRows(p)', \A r \in Rows : RowMove(p, r),
         NEW j \in Jobs, SameJob(j)
  PROVE  QuietJob(p, j)'
<1> USE RegistryAssumption
<1>0. /\ QuietJob(p, j) /\ QuietRows(p)
      /\ \A r \in Rows : exists[r] # "none" => bundle[r] \in BundleIds
      /\ exists \in [Rows -> {"none", "row", "gone"}]
  BY DEF RegInv, TypeOK, RowsOK, Quiet
<1>1. snap'[j] \in {p, Null}
  BY <1>0 DEF QuietJob, SameJob
<1>2. CASE jpc[j] \in {"none", "over"}
  BY <1>0, <1>2 DEF QuietJob, SameJob, HasReal, Marking
<1>3. CASE jpc[j] \notin {"none", "over"}
  <2>1. PICK q \in Rows : q = req[j] /\ exists[q] # "none"
    BY <1>0, <1>3 DEF QuietJob
  <2>2. exists'[q] # "none" /\ bundle'[q][1] = bundle[q][1] /\ q = req'[j]
    BY <2>1 DEF RowMove, SameJob
  <2>3. HasReal(j)' => real'[j] = <<bundle'[req'[j]][1], p>>
    BY <1>0, <2>1, <2>2 DEF QuietJob, SameJob, HasReal
  <2>4. /\ jpc'[j] \notin {"none", "over"} =>
             req'[j] \in Rows /\ exists'[req'[j]] # "none" /\ reqAcct'[j] = p
        /\ jpc'[j] = "pushing" => real'[j][1] = bundle'[req'[j]][1]
    BY <1>0, <2>1, <2>2 DEF QuietJob, SameJob
  <2>5. jpc'[j] = "same" => exists'[req'[j]] = "row" /\ bundle'[req'[j]] = real'[j]
    <3>1. jpc[j] = "same" => exists[q] = "row" /\ bundle[q] = real[j] /\ real[j] = <<bundle[q][1], p>>
      BY <1>0, <2>1 DEF QuietJob, HasReal, Marking
    <3>2. jpc[j] = "same" => exists'[q] = "row" /\ bundle'[q] = real[j]
      BY <3>1 DEF RowMove
    <3> QED BY <2>2, <3>2 DEF SameJob
  <2>6. jpc'[j] = "renaming" /\ exists'[req'[j]] = "row" =>
          \A t \in Rows : exists'[t] = "row" /\ bundle'[t] = real'[j] => t = req'[j]
    <3> SUFFICES ASSUME jpc[j] = "renaming", exists'[q] = "row",
                        NEW t \in Rows, exists'[t] = "row", bundle'[t] = real[j]
                 PROVE  t = q
      BY <2>2 DEF SameJob
    <3>1. real[j] = <<bundle[q][1], p>>
      BY <1>0, <2>1 DEF QuietJob, HasReal, Marking
    <3>2. exists[q] = "row"
      BY <1>0, <2>1 DEF RowMove
    <3>3. exists[t] = "row" /\ (bundle[t] = real[j] \/ bundle[t] = <<bundle[q][1], Unsigned>>)
      BY <3>1 DEF RowMove
    <3>4. CASE bundle[t] = real[j]
      BY <1>0, <2>1, <3>2, <3>3, <3>4 DEF QuietJob
    <3>5. CASE bundle[t] = <<bundle[q][1], Unsigned>>
      <4>1. bundle[q] \in {<<bundle[q][1], p>>, <<bundle[q][1], Unsigned>>}
        BY <1>0, <3>2 DEF QuietRows, BundleIds
      <4>2. CASE bundle[q] = <<bundle[q][1], Unsigned>>
        BY <1>0, <3>2, <3>3, <3>5, <4>2 DEF QuietRows
      <4>3. CASE bundle[q] = <<bundle[q][1], p>>
        <5>1. exists'[q] = "row" /\ bundle'[q] = real[j]
          BY <3>1, <3>2, <4>3 DEF RowMove
        <5> QED BY <5>1 DEF QuietRows
      <4> QED BY <4>1, <4>2, <4>3
    <3> QED BY <3>3, <3>4, <3>5
  <2>7. jpc'[j] \in {"merging", "moving", "dropping"} =>
          /\ target'[j] \in Rows /\ target'[j] # req'[j]
          /\ exists'[target'[j]] = "row" /\ bundle'[target'[j]] = real'[j]
    <3> SUFFICES ASSUME jpc[j] \in {"merging", "moving", "dropping"}
                 PROVE  /\ target[j] \in Rows /\ target[j] # q
                        /\ exists'[target[j]] = "row" /\ bundle'[target[j]] = real[j]
      BY <2>2 DEF SameJob
    <3>1. PICK t \in Rows : t = target[j] /\ t # q /\ exists[t] = "row" /\ bundle[t] = real[j]
      BY <1>0, <2>1 DEF QuietJob
    <3>2. bundle[t][2] = p
      BY <1>0, <3>1 DEF QuietJob, HasReal, Marking
    <3>3. exists'[t] = "row" /\ bundle'[t] = bundle[t]
      BY <3>1, <3>2 DEF RowMove
    <3> QED BY <3>1, <3>3
  <2> QED BY <1>1, <2>3, <2>4, <2>5, <2>6, <2>7 DEF QuietJob
<1> QED BY <1>2, <1>3

(* The job that takes a step.                                              *)
LEMMA QuietOwnJob ==
  ASSUME RegInv, NEW p \in Accounts, Quiet(p), QuietRows(p)', \A r \in Rows : RowMove(p, r),
         NEW j \in Jobs,
         TaskStep(j) \/ (\E x \in Ipas : Upload(j, x, p)) \/ (\E r \in Rows : Refresh(j, r))
  PROVE  QuietJob(p, j)'
<1>0. /\ QuietJob(p, j) /\ QuietRows(p)
      /\ \A r \in Rows : exists[r] # "none" => bundle[r] \in BundleIds
  BY DEF RegInv, RowsOK, Quiet
<1> USE RegistryAssumption DEF RegInv, TypeOK, QuietJob, HasReal, Marking, Goto, Choose
<1>1. ASSUME NEW x \in Ipas, Upload(j, x, p) PROVE QuietJob(p, j)'
  BY <1>0, <1>1 DEF Upload
<1>2. ASSUME NEW r \in Rows, Refresh(j, r) PROVE QuietJob(p, j)'
  BY <1>0, <1>2 DEF Refresh, IsRow, rowVars, QuietRows
<1>3. CASE Enqueue(j)
  BY <1>0, <1>3 DEF Enqueue, rowVars
<1>4. CASE Run(j)
  BY <1>0, <1>4 DEF Run, rowVars
<1>5. CASE ReadApp(j)
  BY <1>0, <1>5 DEF ReadApp, rowVars
<1>6. CASE Push(j)
  BY <1>0, <1>6 DEF Push, rowVars, BundleIds, NoBundle
<1>7. CASE Install(j) \/ WriteStatus(j)
  BY <1>0, <1>7 DEF Install, WriteStatus, rowVars
<1>8. CASE SelectRow(j)
  BY <1>0, <1>8 DEF SelectRow, rowVars, IsRow, QuietRows
<1>9. CASE MarkSame(j) \/ Rename(j) \/ DropRow(j)
  BY <1>0, <1>9 DEF MarkSame, Rename, DropRow
<1>10. CASE SelectConflict(j)
  BY <1>0, <1>10 DEF SelectConflict, rowVars, Named, IsRow
<1>11. CASE UpdateTarget(j)
  BY <1>0, <1>11 DEF UpdateTarget
<1>12. CASE MoveJobs(j)
  BY <1>0, <1>12 DEF MoveJobs, rowVars
<1> QED BY <1>1, <1>2, <1>3, <1>4, <1>5, <1>6, <1>7, <1>8, <1>9, <1>10, <1>11, <1>12 DEF TaskStep

-----------------------------------------------------------------------------
(* The rows of `jobs`.  A signed row that some job refers to stays.        *)
LEMMA QuietSameStatus ==
  ASSUME RegInv, NEW p \in Accounts, \A r \in Rows : RowMove(p, r),
         NEW i \in Jobs, QuietStatus(p, i), jobRow'[i] = jobRow[i], status'[i] = status[i],
         SameJob(i)
  PROVE  QuietStatus(p, i)'
<1>1. jobRow[i] = Null \/ (jobRow[i] \in Rows /\ exists[jobRow[i]] = "row")
  BY DEF RegInv, TypeOK, IsRow
<1>2. jobRow[i] # Null /\ bundle[jobRow[i]][2] = p => bundle'[jobRow[i]][2] = p
  BY <1>1 DEF RowMove
<1> QED BY <1>2 DEF QuietStatus, SameJob, After

LEMMA QuietStatusStep ==
  ASSUME RegInv, NEW p \in Accounts, Quiet(p), \A r \in Rows : RowMove(p, r),
         NEW j \in Jobs,
         TaskStep(j) \/ (\E x \in Ipas : Upload(j, x, p)) \/ (\E r \in Rows : Refresh(j, r)),
         NEW i \in Jobs
  PROVE  QuietStatus(p, i)'
<1> USE RegistryAssumption
<1>0. /\ QuietStatus(p, i) /\ QuietJob(p, j) /\ QuietRows(p)
      /\ jobRow[i] = Null \/ (jobRow[i] \in Rows /\ exists[jobRow[i]] = "row")
      /\ jobRow \in [Jobs -> Rows \cup {Null}] /\ jpc \in [Jobs -> JobPCs]
      /\ status \in [Jobs -> {"absent", "active", "done", "failed", "deleted"}]
      /\ req \in [Jobs -> Rows \cup {Null}]
  BY DEF RegInv, TypeOK, IsRow, Quiet
<1>1. i # j => SameJob(i)
  <2>1. \A r \in Rows : Refresh(j, r) => JobStep(j)
    BY DEF JobStep
  <2>2. \A x \in Ipas : Upload(j, x, p) => JobStep(j)
    BY DEF JobStep
  <2> QED BY <2>1, <2>2, OtherJobs DEF JobStep, RegInv
<1>2. ASSUME i # j, UNCHANGED <<jobRow, status>> PROVE QuietStatus(p, i)'
  BY <1>0, <1>1, <1>2, QuietSameStatus
<1>3. jobRow[i] # Null /\ bundle[jobRow[i]][2] = p => bundle'[jobRow[i]][2] = p
  BY <1>0 DEF RowMove
<1> USE <1>0 DEF Goto, Choose, QuietStatus, After, JobPCs
<1>4. ASSUME NEW x \in Ipas, Upload(j, x, p) PROVE QuietStatus(p, i)'
  BY <1>2, <1>4 DEF Upload
<1>5. ASSUME NEW r \in Rows, Refresh(j, r) PROVE QuietStatus(p, i)'
  BY <1>2, <1>5 DEF Refresh
<1>6. CASE Enqueue(j)
  <2>1. CASE i # j
    BY <1>1, <1>6, <2>1, QuietSameStatus DEF Enqueue
  <2>2. CASE i = j
    BY <1>6, <2>2 DEF Enqueue, QuietJob
  <2> QED BY <2>1, <2>2
<1>7. CASE Run(j) \/ ReadApp(j) \/ Push(j) \/ Install(j)
  BY <1>2, <1>7 DEF Run, ReadApp, Push, Install, rowVars
<1>8. CASE WriteStatus(j)
  <2>1. CASE i # j
    BY <1>1, <1>8, <2>1, QuietSameStatus DEF WriteStatus
  <2>2. CASE i = j
    BY <1>8, <2>2 DEF WriteStatus, rowVars
  <2> QED BY <2>1, <2>2
<1>9. CASE SelectRow(j)
  BY <1>2, <1>9 DEF SelectRow, rowVars, IsRow
<1>10. CASE MarkSame(j)
  <2>1. bundle[req[j]][2] = p /\ UNCHANGED bundle
    BY <1>10 DEF MarkSame, QuietJob, HasReal, Marking
  <2> QED BY <1>2, <1>10, <2>1 DEF MarkSame
<1>11. CASE SelectConflict(j)
  BY <1>2, <1>11 DEF SelectConflict, rowVars
<1>12. CASE Rename(j)
  <2>1. exists[req[j]] = "row" => bundle'[req[j]][2] = p
    BY <1>12 DEF Rename, QuietJob, HasReal, Marking, IsRow, Named, RegInv, TypeOK
  <2> QED BY <1>2, <1>3, <1>12, <2>1 DEF Rename
<1>13. CASE UpdateTarget(j)
  BY <1>2, <1>13 DEF UpdateTarget
<1>14. CASE MoveJobs(j)
  <2>1. /\ IsRow(target[j]) /\ target[j] # Null /\ bundle[target[j]][2] = p
    BY <1>14 DEF MoveJobs, QuietJob, HasReal, Marking, IsRow
  <2>2. /\ jobRow'[i] = IF jobRow[i] = req[j] THEN target[j] ELSE jobRow[i]
        /\ UNCHANGED <<status, bundle, req>> /\ jpc' = [jpc EXCEPT ![j] = "dropping"]
        /\ req[j] # Null /\ jpc[j] = "moving"
    BY <1>14, <2>1 DEF MoveJobs, rowVars, QuietJob
  <2> QED BY <2>1, <2>2
<1>15. CASE DropRow(j)
  <2>1. /\ jobRow'[i] = IF jobRow[i] = req[j] THEN Null ELSE jobRow[i]
        /\ status'[i] = IF jobRow[i] = req[j] THEN "deleted" ELSE status[i]
        /\ UNCHANGED <<bundle, req>> /\ jpc' = [jpc EXCEPT ![j] = "over"] /\ jpc[j] = "dropping"
    BY <1>15 DEF DropRow, DeleteRow
  <2> QED BY <2>1
<1> QED BY <1>4, <1>5, <1>6, <1>7, <1>8, <1>9, <1>10, <1>11, <1>12, <1>13, <1>14, <1>15 DEF TaskStep

-----------------------------------------------------------------------------
(* What is on the device.  A job that ends leaves a row under its id.      *)
LEMMA PresentStep ==
  ASSUME RegInv, NEW p \in Accounts, Quiet(p), \A r \in Rows : RowMove(p, r),
         NEW j \in Jobs,
         TaskStep(j) \/ (\E x \in Ipas : Upload(j, x, p)) \/ (\E r \in Rows : Refresh(j, r))
  PROVE  Present(p)'
<1> USE RegistryAssumption
<1>0. /\ Present(p) /\ QuietJob(p, j) /\ QuietRows(p) /\ GoneOK(p)
      /\ present \subseteq Ipas \X Accounts
      /\ jpc \in [Jobs -> JobPCs] /\ real \in [Jobs -> BundleIds \cup {NoBundle}]
      /\ exists \in [Rows -> {"none", "row", "gone"}]
  BY DEF RegInv, TypeOK, Quiet
<1>1. \A i \in Jobs \ {j} : jpc'[i] = jpc[i] /\ real'[i] = real[i]
  <2>1. \A r \in Rows : Refresh(j, r) => JobStep(j)
    BY DEF JobStep
  <2>2. \A x \in Ipas : Upload(j, x, p) => JobStep(j)
    BY DEF JobStep
  <2> QED BY <2>1, <2>2, OtherJobs DEF JobStep, RegInv, SameJob
<1>2. \A b \in Ipas \X Accounts : (\E r \in Rows : exists[r] = "row" /\ bundle[r] = b) =>
         \E r \in Rows : exists'[r] = "row" /\ bundle'[r] = b
  BY <1>0 DEF RowMove, QuietRows
<1>3. jpc[j] \in Marking =>
        \/ jpc'[j] \in Marking /\ real'[j] = real[j]
        \/ \E r \in Rows : exists'[r] = "row" /\ bundle'[r] = real[j]
  <2> SUFFICES ASSUME jpc[j] \in Marking, ~(jpc'[j] \in Marking /\ real'[j] = real[j])
               PROVE  \E r \in Rows : exists'[r] = "row" /\ bundle'[r] = real[j]
    OBVIOUS
  <2>1. real[j] = <<bundle[req[j]][1], p>> /\ req[j] \in Rows /\ exists[req[j]] # "none"
    BY <1>0 DEF QuietJob, HasReal, Marking
  <2>2. real[j] \in Ipas \X Accounts
    BY DEF RegInv, JobOK, HasReal, Signed
  <2>3. exists[req[j]] # "row" => \E r \in Rows : exists[r] = "row" /\ bundle[r] = real[j]
    BY <1>0, <2>1 DEF GoneOK
  <2> USE <1>0 DEF Goto, Choose, Marking, JobPCs
  <2>4. CASE SelectRow(j)
    <3>1. exists[req[j]] # "row"
      BY <2>1, <2>4 DEF SelectRow, IsRow
    <3> QED BY <1>2, <2>2, <2>3, <3>1
  <2>5. CASE MarkSame(j)
    <3>1. exists[req[j]] = "row" /\ bundle[req[j]] = real[j]
      BY <2>5 DEF MarkSame, QuietJob
    <3> QED BY <1>2, <2>1, <2>2, <3>1
  <2>6. CASE Rename(j)
    <3>1. CASE exists[req[j]] = "row"
      <4>1. bundle'[req[j]] = real[j] /\ exists'[req[j]] = "row"
        BY <2>1, <2>6, <3>1 DEF Rename, QuietJob, IsRow, Named, RegInv, TypeOK
      <4> QED BY <2>1, <4>1
    <3>2. CASE exists[req[j]] # "row"
      BY <1>2, <2>2, <2>3, <3>2
    <3> QED BY <3>1, <3>2
  <2>7. CASE MoveJobs(j) \/ DropRow(j)
    <3>1. target[j] \in Rows /\ exists[target[j]] = "row" /\ bundle[target[j]] = real[j]
      BY <2>7 DEF MoveJobs, DropRow, QuietJob
    <3> QED BY <1>2, <2>2, <3>1
  <2>8. CASE WriteStatus(j) \/ SelectConflict(j) \/ UpdateTarget(j)
    BY <2>8 DEF WriteStatus, SelectConflict, UpdateTarget
  <2>9. ~(Enqueue(j) \/ Run(j) \/ ReadApp(j) \/ Push(j) \/ Install(j))
        /\ (\A x \in Ipas : ~Upload(j, x, p)) /\ (\A r \in Rows : ~Refresh(j, r))
    BY DEF Enqueue, Run, ReadApp, Push, Install, Upload, Refresh
  <2> QED BY <2>4, <2>5, <2>6, <2>7, <2>8, <2>9 DEF TaskStep
<1>4. \/ present' = present
      \/ present' = present \cup {real[j]} /\ jpc'[j] = "ok" /\ real'[j] = real[j]
  <2>1. CASE Install(j)
    BY <1>0, <2>1 DEF Install, Goto
  <2>2. CASE ~Install(j)
    BY <2>2 DEF TaskStep, Upload, Refresh, Enqueue, Run, ReadApp, Push, WriteStatus,
           SelectRow, MarkSame, SelectConflict, Rename, UpdateTarget, MoveJobs, DropRow
  <2> QED BY <2>1, <2>2
<1>5. ASSUME NEW b \in present
      PROVE  \/ \E r \in Rows : exists'[r] = "row" /\ bundle'[r] = b
             \/ \E i \in Jobs : jpc'[i] \in Marking /\ real'[i] = b
  <2>1. CASE \E r \in Rows : exists[r] = "row" /\ bundle[r] = b
    BY <1>0, <1>2, <2>1
  <2>2. CASE \E i \in Jobs : jpc[i] \in Marking /\ real[i] = b
    BY <1>1, <1>3, <2>2
  <2> QED BY <1>0, <2>1, <2>2 DEF Present
<1>6. \A b \in present' : b \in present \/ \E i \in Jobs : jpc'[i] \in Marking /\ real'[i] = b
  BY <1>4 DEF Marking
<1> QED BY <1>5, <1>6 DEF Present

-----------------------------------------------------------------------------
(* The quiet invariant is kept, and nobody begins to disturb.              *)
LEMMA QuietInit == Init => QuietInv
<1> SUFFICES ASSUME Init, Undisturbed PROVE \E p \in Accounts : Quiet(p)
  BY DEF QuietInv
<1>1. known \subseteq Accounts /\ jpc \in [Jobs -> {"none", "over"}]
  BY DEF Init, kSubset
<1>2. PICK p \in Accounts : known = {p}
  <2>1. IsFiniteSet(known)
    BY <1>1, RegistryAssumption, FS_Subset
  <2>2. \E p : known = {p}
    BY <2>1, FS_Singleton DEF Undisturbed
  <2> QED BY <1>1, <2>2
<1> USE RegistryAssumption DEF Init
<1>3. QuietHandlers(p)
  BY <1>2 DEF QuietHandlers, Undisturbed
<1>4. QuietRows(p) /\ GoneOK(p) /\ Present(p)
  BY DEF QuietRows, GoneOK, Present
<1>5. \A j \in Jobs : QuietJob(p, j) /\ QuietStatus(p, j)
  BY <1>1 DEF QuietJob, QuietStatus, HasReal, Marking
<1> QED BY <1>3, <1>4, <1>5 DEF Quiet

LEMMA QuietStepInv == RegInv /\ QuietInv /\ [Next]_vars => QuietInv'
<1> SUFFICES ASSUME RegInv, QuietInv, [Next]_vars, Undisturbed'
             PROVE  \E p \in Accounts : Quiet(p)'
  BY DEF QuietInv
<1>1. Undisturbed
  <2>1. actors = {}
    BY DEF Undisturbed, Next, vars
  <2>2. known' = known
    BY <2>1 DEF Next, Step, vars, Rest, OutOfRows, TaskStep, Upload, Refresh, Enqueue, Run, ReadApp, Push,
                Install, WriteStatus, SelectRow, MarkSame, SelectConflict, Rename, UpdateTarget,
                MoveJobs, DropRow, DelRead, RecList, HandlerStep, DelUninstall, DelRow, RecRows,
                RecPrune, RecEnd, SchedStep, SchedRows, SchedList, SchedEnd, SchedPrune, SchedChoose,
                ByHand, DeleteAccount
  <2> QED BY <2>1, <2>2 DEF Undisturbed
<1>2. PICK p \in Accounts : Quiet(p)
  BY <1>1 DEF QuietInv
<1>3. QuietHandlers(p)' /\ (UNCHANGED vars \/ QuietStep(p))
  BY <1>2, QuietSteps DEF Quiet
<1>4. QuietRows(p)' /\ (\A r \in Rows : RowMove(p, r)) /\ GoneOK(p)'
  BY <1>2, <1>3, QuietRowsStep, GoneStep
<1>5. Present(p)' /\ \A i \in Jobs : QuietJob(p, i)' /\ QuietStatus(p, i)'
  <2>1. CASE UNCHANGED vars
    <3>1. \A i \in Jobs : SameJob(i) /\ jobRow'[i] = jobRow[i] /\ status'[i] = status[i]
      BY <2>1 DEF vars, SameJob
    <3>2. \A i \in Jobs : QuietJob(p, i)' /\ QuietStatus(p, i)'
      BY <1>2, <1>4, <3>1, QuietSameJob, QuietSameStatus DEF Quiet
    <3> QED BY <1>2, <2>1, <3>2 DEF vars, Quiet, Present
  <2>2. ASSUME NEW j \in Jobs,
               TaskStep(j) \/ (\E x \in Ipas : Upload(j, x, p)) \/ (\E r \in Rows : Refresh(j, r))
        PROVE  Present(p)' /\ \A i \in Jobs : QuietJob(p, i)' /\ QuietStatus(p, i)'
    <3>1. JobStep(j)
      BY <2>2 DEF JobStep
    <3>2. ASSUME NEW i \in Jobs, i # j PROVE SameJob(i)
      BY <3>1, <3>2, OtherJobs DEF RegInv
    <3>3. \A i \in Jobs : QuietJob(p, i)'
      BY <1>2, <1>4, <2>2, <3>2, QuietSameJob, QuietOwnJob
    <3>4. Present(p)' /\ \A i \in Jobs : QuietStatus(p, i)'
      BY <1>2, <1>4, <2>2, PresentStep, QuietStatusStep
    <3> QED BY <3>3, <3>4
  <2> QED BY <1>3, <2>1, <2>2 DEF QuietStep
<1> QED BY <1>3, <1>4, <1>5 DEF Quiet

LEMMA QuietHolds == Spec => []QuietInv
BY QuietInit, QuietStepInv, RegHolds, PTL DEF Spec

(* With uploads, refreshes and jobs alone, what was installed on the device *)
(* has its confirmed row, or the job that installed it is still to write it. *)
THEOREM InstalledAppsAreTracked == Spec => []Tracked
<1>1. RegInv /\ QuietInv => Tracked
  <2> SUFFICES ASSUME RegInv, QuietInv, Undisturbed, NEW b \in present,
                      ~\E j \in Jobs : jpc[j] \in Marking /\ real[j] = b
               PROVE  \E r \in Named(b) : installed[r]
    BY DEF Tracked
  <2>1. PICK p \in Accounts : Quiet(p)
    BY DEF QuietInv
  <2>2. PICK r \in Rows : exists[r] = "row" /\ bundle[r] = b
    BY <2>1 DEF Quiet, Present
  <2>3. b[2] = p
    BY <2>1, <2>2, RegistryAssumption DEF Quiet, QuietRows, RegInv, TypeOK
  <2>4. r \in Named(b) /\ installed[r]
    BY <2>1, <2>2, <2>3 DEF Quiet, QuietRows, Named, IsRow
  <2> QED BY <2>4
<1> QED BY <1>1, RegHolds, QuietHolds, PTL

(* With uploads, refreshes and jobs alone, "done" on the queue page means   *)
(* a confirmed row, although other jobs merge and drop rows meanwhile.     *)
THEOREM DoneJobsAreConfirmed == Spec => []DoneIsConfirmed
<1>1. RegInv /\ QuietInv => DoneIsConfirmed
  <2> SUFFICES ASSUME RegInv, QuietInv, Undisturbed,
                      NEW j \in Jobs, status[j] = "done", jpc[j] = "over"
               PROVE  jobRow[j] # Null /\ installed[jobRow[j]]
    BY DEF DoneIsConfirmed
  <2>1. PICK p \in Accounts : Quiet(p)
    BY DEF QuietInv
  <2>2. jobRow[j] # Null /\ bundle[jobRow[j]][2] = p
    BY <2>1 DEF Quiet, QuietStatus
  <2>3. jobRow[j] \in Rows /\ exists[jobRow[j]] = "row"
    BY <2>2 DEF RegInv, TypeOK, IsRow
  <2> QED BY <2>1, <2>2, <2>3 DEF Quiet, QuietRows
<1> QED BY <1>1, RegHolds, QuietHolds, PTL

=============================================================================
