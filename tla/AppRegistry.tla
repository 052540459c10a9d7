---------------------------- MODULE AppRegistry ----------------------------
(***************************************************************************)
(* The rows of `apps` for one device, and the apps that are really on it.  *)
(* A row is keyed by (device, bundle id): an upload files it under the id  *)
(* written in the IPA, and once the job has installed the app the row is   *)
(* renamed to the id the signature gave it (the team is appended), or      *)
(* merged into the row that already has that id.  Uploads, refreshes, the  *)
(* jobs' tasks, delete_app and reconcile_apps all run at the same time,    *)
(* none of them in a transaction: every SQL statement and every exchange   *)
(* with the device is a step of its own.  JobPipeline has the queue and    *)
(* the pool between a job's row and its task; here a queued job may start  *)
(* at any time.                                                            *)
(***************************************************************************)
EXTENDS Integers, FiniteSets, FiniteSetsExt

CONSTANTS Rows,       \* ids of rows of `apps`
          Jobs,       \* ids of jobs
          Ipas,       \* bundle ids as written in the IPAs
          Accounts,   \* Apple accounts, each with a team of its own
          Unsigned,   \* in the place of the team in the id of an IPA
          Null,       \* the null value of a column
          Worlds      \* who else is there, how many jobs and how many accounts

ASSUME RegistryAssumption ==
  /\ IsFiniteSet(Accounts)
  /\ Unsigned \notin Accounts /\ Null \notin Accounts \cup Rows \cup {Unsigned}
  /\ Worlds \subseteq [actors : SUBSET {"delete", "reconcile", "scheduler", "byhand", "account"},
                       jobs : 0..Cardinality(Jobs), accounts : 0..Cardinality(Accounts)]

(* The signed id of an app is the id of its IPA with the team appended.    *)
BundleIds == Ipas \X (Accounts \cup {Unsigned})

VARIABLES
  actors,    \* the actors there are beside uploads, refreshes and their jobs
  exists,    \* exists[r]: "none", "row" or "gone"
  bundle,    \* bundle[r]: the column bundle_id
  account,   \* account[r]: the column account_id
  installed, \* installed[r]: is installed_at set?
  known,     \* the rows of apple_accounts
  present,   \* the signed apps on the device
  jpc,       \* jpc[j]: where job j stands, from its handler to its task
  kind,      \* kind[j]: "install" or "refresh"
  req,       \* req[j]: JobRequest.app_id
  reqAcct,   \* reqAcct[j]: JobRequest.account_id
  jobRow,    \* jobRow[j]: the column jobs.app_id, Null without a row
  status,    \* status[j]: the column jobs.status, as far as it matters here
  real,      \* real[j]: the bundle id the task works on
  snap,      \* snap[j]: the account_id mark_app_installed read
  target,    \* target[j]: the row it merges into
  del,       \* the delete_app handler
  rec,       \* the reconcile_apps handler
  sched      \* the scheduler's check_and_enqueue

rowVars == <<exists, bundle, account, installed>>
jobVars == <<jpc, kind, req, reqAcct, jobRow, status, real, snap, target>>
vars == <<actors, exists, bundle, account, installed, known, present, jpc, kind, req, reqAcct,
          jobRow, status, real, snap, target, del, rec, sched>>

JobPCs == {"none", "chosen", "queued", "refreshing", "pushing", "installing", "ok", "err",
           "marking", "same", "looking", "renaming", "merging", "moving", "dropping", "over"}

NoBundle == <<Null, Null>>
IsRow(r) == r \in Rows /\ exists[r] = "row"

Idle == [at |-> "idle"]
Asleep == [at |-> "idle", missing |-> {}, verified |-> {}, job |-> Null]

Init ==
  /\ \E w \in Worlds :
       /\ actors = w.actors
       /\ known \in kSubset(w.accounts, Accounts)
       /\ \E J \in kSubset(w.jobs, Jobs) :
            jpc = [j \in Jobs |-> IF j \in J THEN "none" ELSE "over"]
  /\ exists = [r \in Rows |-> "none"] /\ bundle = [r \in Rows |-> NoBundle]
  /\ account = [r \in Rows |-> Null] /\ installed = [r \in Rows |-> FALSE]
  /\ present = {}
  /\ kind = [j \in Jobs |-> "install"]
  /\ req = [j \in Jobs |-> Null] /\ reqAcct = [j \in Jobs |-> Null]
  /\ jobRow = [j \in Jobs |-> Null] /\ status = [j \in Jobs |-> "absent"]
  /\ real = [j \in Jobs |-> NoBundle] /\ snap = [j \in Jobs |-> Null]
  /\ target = [j \in Jobs |-> Null]
  /\ del = Idle /\ rec = Idle /\ sched = Asleep

(* Defect: a connection without PRAGMA foreign_keys leaves the jobs behind. *)
DeleteRowOnly(r) ==
  /\ exists' = IF IsRow(r) THEN [exists EXCEPT ![r] = "gone"] ELSE exists
  /\ UNCHANGED <<jobRow, status>>

(* DELETE FROM apps WHERE id = r, cascading to the rows of jobs.           *)
DeleteRow(r) ==
  /\ exists' = IF IsRow(r) THEN [exists EXCEPT ![r] = "gone"] ELSE exists
  /\ jobRow' = [j \in Jobs |-> IF jobRow[j] = r THEN Null ELSE jobRow[j]]
  /\ status' = [j \in Jobs |-> IF jobRow[j] = r THEN "deleted" ELSE status[j]]

Goto(j, where) == jpc' = [jpc EXCEPT ![j] = where]

-----------------------------------------------------------------------------
(* Handlers that create jobs. *)

Choose(j, k, r, p) ==
  /\ jpc[j] = "none"
  /\ Goto(j, "chosen")
  /\ kind' = [kind EXCEPT ![j] = k]
  /\ req' = [req EXCEPT ![j] = r]
  /\ reqAcct' = [reqAcct EXCEPT ![j] = p]

(* install_ipa up to upsert_app: the row filed under the id of the IPA is  *)
(* updated, or a new one is inserted.                                      *)
Upload(j, x, p) ==
  /\ p \in known
  /\ \E r \in Rows :
       /\ \/ IsRow(r) /\ bundle[r] = <<x, Unsigned>>
          \/ /\ exists[r] = "none"
             /\ ~\E t \in Rows : IsRow(t) /\ bundle[t] = <<x, Unsigned>>
       /\ exists' = [exists EXCEPT ![r] = "row"]
       /\ bundle' = [bundle EXCEPT ![r] = <<x, Unsigned>>]
       /\ account' = [account EXCEPT ![r] = p]
       /\ Choose(j, "install", r, p)
  /\ real' = [real EXCEPT ![j] = <<x, p>>]
  /\ UNCHANGED <<installed, known, present, jobRow, status, snap, target, del, rec, sched>>

(* refresh_app reads the row; refresh_device and the scheduler do the same *)
(* under stronger conditions.                                              *)
Refresh(j, r) ==
  /\ IsRow(r) /\ account[r] # Null
  /\ Choose(j, "refresh", r, account[r])
  /\ UNCHANGED <<rowVars, known, present, jobRow, status, real, snap, target, del, rec, sched>>

(* insert_job and the send; the foreign key refuses a row that is gone.    *)
Enqueue(j) ==
  /\ jpc[j] = "chosen"
  /\ \/ /\ IsRow(req[j])
        /\ jobRow' = [jobRow EXCEPT ![j] = req[j]]
        /\ status' = [status EXCEPT ![j] = "active"]
        /\ Goto(j, "queued")
     \/ ~IsRow(req[j]) /\ Goto(j, "over") /\ UNCHANGED <<jobRow, status>>
  /\ UNCHANGED <<rowVars, known, present, kind, req, reqAcct, real, snap, target, del, rec, sched>>

-----------------------------------------------------------------------------
(* run_job *)

(* The account is looked up first ... *)
Run(j) ==
  /\ jpc[j] = "queued"
  /\ Goto(j, IF reqAcct[j] \notin known THEN "err"
             ELSE IF kind[j] = "install" THEN "installing" ELSE "refreshing")
  /\ UNCHANGED <<rowVars, known, present, kind, req, reqAcct, jobRow, status, real, snap, target,
                 del, rec, sched>>

(* ... then a refresh reads its row, for the bundle id to push a profile for. *)
ReadApp(j) ==
  /\ jpc[j] = "refreshing"
  /\ \/ IsRow(req[j]) /\ Goto(j, "pushing") /\ real' = [real EXCEPT ![j] = bundle[req[j]]]
     \/ ~IsRow(req[j]) /\ Goto(j, "err") /\ UNCHANGED real
  /\ UNCHANGED <<rowVars, known, present, kind, req, reqAcct, jobRow, status, snap, target,
                 del, rec, sched>>

(* refresh_provisioning_profile finds an App ID only for an id signed with *)
(* the team of the request's account; when it fails for any reason, the    *)
(* row is read again and its IPA signed and installed in full.             *)
Push(j) ==
  /\ jpc[j] = "pushing"
  /\ \/ real[j][2] = reqAcct[j] /\ Goto(j, "ok") /\ UNCHANGED real
     \/ /\ IsRow(req[j]) /\ Goto(j, "installing")
        /\ real' = [real EXCEPT ![j] = <<bundle[req[j]][1], reqAcct[j]>>]
     \/ ~IsRow(req[j]) /\ Goto(j, "err") /\ UNCHANGED real
  /\ UNCHANGED <<rowVars, known, present, kind, req, reqAcct, jobRow, status, snap, target,
                 del, rec, sched>>

Install(j) ==
  /\ jpc[j] = "installing"
  /\ \/ Goto(j, "ok") /\ present' = present \cup {real[j]}
     \/ Goto(j, "err") /\ UNCHANGED present
  /\ UNCHANGED <<rowVars, known, kind, req, reqAcct, jobRow, status, real, snap, target,
                 del, rec, sched>>

(* execute_job writes the outcome, and marks the app after a success.      *)
WriteStatus(j) ==
  /\ jpc[j] \in {"ok", "err"}
  /\ status' = [status EXCEPT ![j] = IF @ # "active" THEN @
                                     ELSE IF jpc[j] = "ok" THEN "done" ELSE "failed"]
  /\ Goto(j, IF jpc[j] = "ok" THEN "marking" ELSE "over")
  /\ UNCHANGED <<rowVars, known, present, kind, req, reqAcct, jobRow, real, snap, target,
                 del, rec, sched>>

-----------------------------------------------------------------------------
(* mark_app_installed, a statement at a time. *)

SelectRow(j) ==
  /\ jpc[j] = "marking"
  /\ \/ ~IsRow(req[j]) /\ Goto(j, "over") /\ UNCHANGED snap
     \/ /\ IsRow(req[j])
        /\ Goto(j, IF bundle[req[j]] = real[j] THEN "same" ELSE "looking")
        /\ snap' = [snap EXCEPT ![j] = account[req[j]]]
  /\ UNCHANGED <<rowVars, known, present, kind, req, reqAcct, jobRow, status, real, target,
                 del, rec, sched>>

(* UPDATE ... WHERE id = req: nothing happens to a row that is gone.       *)
MarkSame(j) ==
  /\ jpc[j] = "same"
  /\ installed' = [installed EXCEPT ![req[j]] = IsRow(req[j])]
  /\ Goto(j, "over")
  /\ UNCHANGED <<exists, bundle, account, known, present, kind, req, reqAcct, jobRow, status,
                 real, snap, target, del, rec, sched>>

Named(b) == {t \in Rows : IsRow(t) /\ bundle[t] = b}

SelectConflict(j) ==
  /\ jpc[j] = "looking"
  /\ \/ \E t \in Named(real[j]) \ {req[j]} :
          target' = [target EXCEPT ![j] = t] /\ Goto(j, "merging")
     \/ Named(real[j]) \subseteq {req[j]} /\ Goto(j, "renaming") /\ UNCHANGED target
  /\ UNCHANGED <<rowVars, known, present, kind, req, reqAcct, jobRow, status, real, snap,
                 del, rec, sched>>

(* Defect: the row is confirmed under the id of the IPA. *)
RenameNothing(j) ==
  /\ jpc[j] = "renaming"
  /\ installed' = [installed EXCEPT ![req[j]] = IsRow(req[j])]
  /\ Goto(j, "over")
  /\ UNCHANGED <<exists, bundle, account, known, present, kind, req, reqAcct, jobRow, status,
                 real, snap, target, del, rec, sched>>

(* The UNIQUE constraint refuses the update when another row got the id in *)
(* the meantime; the error is discarded by execute_job.                    *)
Rename(j) ==
  /\ jpc[j] = "renaming"
  /\ IF IsRow(req[j]) /\ Named(real[j]) \subseteq {req[j]}
       THEN /\ bundle' = [bundle EXCEPT ![req[j]] = real[j]]
            /\ installed' = [installed EXCEPT ![req[j]] = TRUE]
       ELSE UNCHANGED <<bundle, installed>>
  /\ Goto(j, "over")
  /\ UNCHANGED <<exists, account, known, present, kind, req, reqAcct, jobRow, status, real,
                 snap, target, del, rec, sched>>

UpdateTarget(j) ==
  /\ jpc[j] = "merging"
  /\ IF IsRow(target[j])
       THEN /\ installed' = [installed EXCEPT ![target[j]] = TRUE]
            /\ account' = [account EXCEPT ![target[j]] = IF snap[j] = Null THEN @ ELSE snap[j]]
       ELSE UNCHANGED <<installed, account>>
  /\ Goto(j, "moving")
  /\ UNCHANGED <<exists, bundle, known, present, kind, req, reqAcct, jobRow, status, real,
                 snap, target, del, rec, sched>>

(* The foreign key refuses to move jobs to a row that is gone.             *)
MoveJobs(j) ==
  /\ jpc[j] = "moving"
  /\ IF IsRow(target[j]) \/ \A i \in Jobs : jobRow[i] # req[j]
       THEN /\ jobRow' = [i \in Jobs |-> IF jobRow[i] = req[j] THEN target[j] ELSE jobRow[i]]
            /\ Goto(j, "dropping")
       ELSE Goto(j, "over") /\ UNCHANGED jobRow
  /\ UNCHANGED <<rowVars, known, present, kind, req, reqAcct, status, real, snap, target,
                 del, rec, sched>>

(* Defect: the merge drops the row it merged into. *)
DropTarget(j) ==
  /\ jpc[j] = "dropping"
  /\ DeleteRow(target[j])
  /\ Goto(j, "over")
  /\ UNCHANGED <<bundle, account, installed, known, present, kind, req, reqAcct, real, snap,
                 target, del, rec, sched>>

DropRow(j) ==
  /\ jpc[j] = "dropping"
  /\ DeleteRow(req[j])
  /\ Goto(j, "over")
  /\ UNCHANGED <<bundle, account, installed, known, present, kind, req, reqAcct, real, snap,
                 target, del, rec, sched>>

-----------------------------------------------------------------------------
(* delete_app: the row is read, a confirmed app uninstalled, the row       *)
(* deleted.                                                                *)
DelRead(r) ==
  /\ "delete" \in actors /\ del = Idle /\ IsRow(r)
  /\ del' = [at |-> IF installed[r] THEN "uninstall" ELSE "row", r |-> r, id |-> bundle[r]]
  /\ UNCHANGED <<rowVars, known, present, jobVars, rec, sched>>

(* An error of the device ends the call with the row in place.             *)
DelUninstall ==
  /\ del.at = "uninstall"
  /\ \/ present' = present \ {del.id} /\ del' = [del EXCEPT !.at = "row"]
     \/ UNCHANGED present /\ del' = Idle
  /\ UNCHANGED <<rowVars, known, jobVars, rec, sched>>

DelRow ==
  /\ del.at = "row"
  /\ DeleteRow(del.r)
  /\ del' = Idle
  /\ UNCHANGED <<bundle, account, installed, known, present, jpc, kind, req, reqAcct, real,
                 snap, target, rec, sched>>

(* reconcile_apps: the device's listing (an empty one is an error), then   *)
(* the rows, then one delete for each confirmed row that is not listed.    *)
RecList ==
  /\ "reconcile" \in actors /\ rec = Idle
  /\ rec' = [at |-> "rows", ids |-> present]
  /\ UNCHANGED <<rowVars, known, present, jobVars, del, sched>>

RecRows ==
  /\ rec.at = "rows"
  /\ rec' = [at |-> "prune",
             rows |-> {r \in Rows : IsRow(r) /\ installed[r] /\ bundle[r] \notin rec.ids}]
  /\ UNCHANGED <<rowVars, known, present, jobVars, del, sched>>

RecPrune(r) ==
  /\ rec.at = "prune" /\ r \in rec.rows
  /\ DeleteRow(r)
  /\ rec' = [rec EXCEPT !.rows = @ \ {r}]
  /\ UNCHANGED <<bundle, account, installed, known, present, jpc, kind, req, reqAcct, real,
                 snap, target, del, sched>>

RecEnd ==
  /\ rec.at = "prune" /\ rec.rows = {}
  /\ rec' = Idle
  /\ UNCHANGED <<rowVars, known, present, jobVars, del, sched>>

(* check_and_enqueue: the confirmed rows that are due and enabled (any of  *)
(* those with an account), then the device's listing.  A device that does  *)
(* not answer is skipped; one that lists nothing gets no row pruned.       *)
Due == {[r |-> r, id |-> bundle[r], acct |-> account[r]] :
          r \in {t \in Rows : IsRow(t) /\ installed[t] /\ account[t] # Null}}

SchedRows ==
  /\ "scheduler" \in actors /\ sched = Asleep
  /\ \E due \in (SUBSET Due) \ {{}} :
       sched' = [at |-> "list", missing |-> {}, verified |-> due, job |-> Null]
  /\ UNCHANGED <<rowVars, known, present, jobVars, del, rec>>

SchedList ==
  /\ sched.at = "list"
  /\ LET gone == {a \in sched.verified : a.id \notin present} IN
       \/ sched' = [sched EXCEPT !.at = "prune", !.missing = gone, !.verified = @ \ gone]
       \/ sched' = [sched EXCEPT !.at = "prune"]
       \/ sched' = Asleep
  /\ UNCHANGED <<rowVars, known, present, jobVars, del, rec>>

SchedPrune(a) ==
  /\ sched.at = "prune" /\ a \in sched.missing
  /\ DeleteRow(a.r)
  /\ sched' = [sched EXCEPT !.missing = @ \ {a}]
  /\ UNCHANGED <<bundle, account, installed, known, present, jpc, kind, req, reqAcct, real,
                 snap, target, del, rec>>

(* One refresh job after another, each inserted and sent before the next;  *)
(* the request takes row and account from the first query.                 *)
SentLast == \A j \in Jobs : sched.job = j => jpc[j] # "chosen"

SchedChoose(j, a) ==
  /\ sched.at = "prune" /\ sched.missing = {} /\ a \in sched.verified /\ SentLast
  /\ Choose(j, "refresh", a.r, a.acct)
  /\ sched' = [sched EXCEPT !.verified = @ \ {a}, !.job = j]
  /\ UNCHANGED <<rowVars, known, present, jobRow, status, real, snap, target, del, rec>>

(* All sent (or no job id is left: a bound of the model).                  *)
SchedEnd ==
  /\ sched.at = "prune" /\ sched.missing = {} /\ SentLast
  /\ sched.verified = {} \/ \A j \in Jobs : jpc[j] # "none"
  /\ sched' = Asleep
  /\ UNCHANGED <<rowVars, known, present, jobVars, del, rec>>

(* The owner of the device removes an app by hand.                         *)
ByHand(b) ==
  /\ "byhand" \in actors /\ b \in present
  /\ present' = present \ {b}
  /\ UNCHANGED <<rowVars, known, jobVars, del, rec, sched>>

(* delete_account: ON DELETE SET NULL.                                     *)
DeleteAccount(p) ==
  /\ "account" \in actors /\ p \in known
  /\ known' = known \ {p}
  /\ account' = [r \in Rows |-> IF account[r] = p THEN Null ELSE account[r]]
  /\ UNCHANGED <<exists, bundle, installed, present, jobVars, del, rec, sched>>

-----------------------------------------------------------------------------
TaskStep(j) ==
  \/ Enqueue(j) \/ Run(j) \/ ReadApp(j) \/ Push(j) \/ Install(j) \/ WriteStatus(j)
  \/ SelectRow(j) \/ MarkSame(j) \/ SelectConflict(j) \/ Rename(j)
  \/ UpdateTarget(j) \/ MoveJobs(j) \/ DropRow(j)

HandlerStep == DelUninstall \/ DelRow \/ RecRows \/ (\E r \in Rows : RecPrune(r)) \/ RecEnd

SchedStep ==
  \/ SchedRows \/ SchedList \/ SchedEnd
  \/ \E a \in sched.missing : SchedPrune(a)
  \/ \E j \in Jobs, a \in sched.verified : SchedChoose(j, a)

(* Every job was used, and nothing is under way. *)
Rest == /\ \A j \in Jobs : jpc[j] = "over"
        /\ UNCHANGED vars

(* No row id is left for another upload of a new app: a bound of the model. *)
OutOfRows == /\ \A r \in Rows : exists[r] # "none"
             /\ \A j \in Jobs : jpc[j] \in {"none", "over"}
             /\ UNCHANGED vars

Step ==
  \/ \E j \in Jobs : \/ TaskStep(j)
                     \/ \E x \in Ipas, p \in Accounts : Upload(j, x, p)
                     \/ \E r \in Rows : Refresh(j, r)
  \/ \E r \in Rows : DelRead(r)
  \/ RecList \/ HandlerStep \/ SchedStep
  \/ \E b \in present : ByHand(b)
  \/ \E p \in Accounts : DeleteAccount(p)
  \/ Rest \/ OutOfRows

Next == Step /\ UNCHANGED actors

Spec == Init /\ [][Next]_vars

-----------------------------------------------------------------------------
(* Properties *)

TypeOK ==
  /\ exists \in [Rows -> {"none", "row", "gone"}]
  /\ bundle \in [Rows -> BundleIds \cup {NoBundle}]
  /\ account \in [Rows -> Accounts \cup {Null}]
  /\ installed \in [Rows -> BOOLEAN]
  /\ known \subseteq Accounts /\ present \subseteq Ipas \X Accounts
  /\ jpc \in [Jobs -> JobPCs] /\ kind \in [Jobs -> {"install", "refresh"}]
  /\ req \in [Jobs -> Rows \cup {Null}] /\ reqAcct \in [Jobs -> Accounts \cup {Null}]
  /\ jobRow \in [Jobs -> Rows \cup {Null}]
  /\ status \in [Jobs -> {"absent", "active", "done", "failed", "deleted"}]
  /\ real \in [Jobs -> BundleIds \cup {NoBundle}]
  /\ snap \in [Jobs -> Accounts \cup {Null}] /\ target \in [Jobs -> Rows \cup {Null}]
  /\ del.at \in {"idle", "uninstall", "row"} /\ rec.at \in {"idle", "rows", "prune"}
  /\ sched.at \in {"idle", "list", "prune"}
  /\ \A j \in Jobs : jobRow[j] = Null \/ IsRow(jobRow[j])   \* the foreign key

(* A confirmed row carries the id the device knows the app by, never the   *)
(* id of the IPA: uninstall, refresh and both prunes work by that id.      *)
InstalledRowsAreReal ==
  \A r \in Rows : IsRow(r) /\ installed[r] => bundle[r][2] \in Accounts

Marking == {"ok", "marking", "same", "looking", "renaming", "merging", "moving", "dropping"}

(* Uploads, refreshes and their jobs are alone, with one account.          *)
Undisturbed == actors = {} /\ Cardinality(known) = 1

(* What JAS put on the device it keeps track of, whatever the order of     *)
(* uploads, refreshes and jobs: a confirmed row has the app's id, or the   *)
(* job that installed it is about to see to that.                          *)
Tracked ==
  Undisturbed =>
    \A b \in present :
      \/ \E r \in Named(b) : installed[r]
      \/ \E j \in Jobs : jpc[j] \in Marking /\ real[j] = b

(* "Mark an app as successfully installed": when a job that ended well is  *)
(* over, its row is a confirmed app, wherever merges have moved it.        *)
DoneIsConfirmed ==
  Undisturbed =>
    \A j \in Jobs :
      status[j] = "done" /\ jpc[j] = "over" => jobRow[j] # Null /\ installed[jobRow[j]]

(* Reconciling removes rows "whose bundle ID is no longer present".        *)
PruneOnlyMissing == [][\A r \in Rows : RecPrune(r) => bundle[r] \notin present]_vars

=============================================================================
