# A TLA+ project for JAS

JAS keeps iOS apps installed that were signed with a free Apple ID: a server
that signs an IPA, installs it on a device, and renews it before its seven days
are over. It is one process (`src/src/main.rs`): an Axum/Leptos web server, a
scheduler, a worker pool and an mDNS browser, all tokio tasks over one SQLite
database. Hardly anything is held under a lock or in a transaction, so what can
go wrong lies in the order of the steps of several tasks, and this is what the
modules here are about.

Source lines are given as `file:line` below `src/src/` (`app` is `app/mod.rs`,
`db` is `server/db/mod.rs`, `scheduler` is `server/scheduler/mod.rs`, `sideload`
is `server/sideload/mod.rs`). `PROJECT.json` maps every definition to its lines.

## 1. Inventory

| Component | State it keeps | Operations | Talks to |
|---|---|---|---|
| Job pipeline (`scheduler`, `db`, `main.rs`) | `jobs` rows, the bounded channel, the semaphore, one task per request | `insert_job`, `job_tx.send`, `run_workers`, `execute_job`, `update_job_status`, `mark_app_installed` | handlers and scheduler (senders), devices, browsers (readers of `jobs`) |
| App registry (`app`, `db`) | `apps` rows, with foreign keys to devices and accounts | `install_ipa`, `refresh_app`, `refresh_device`, `delete_app`, `reconcile_apps`, `check_and_enqueue` | devices (what is installed), job pipeline |
| Apple ID logins (`app`, `server/state.rs`) | `pending_logins`: prompt, one-slot channel, result, `finalized` | `begin_login` and its thread, `poll_login`, `submit_two_factor`, `finalize_login` | Apple, browsers, `apple_accounts` |
| Accounts page (`app/pages/accounts.rs`) | the signals of `AddAccountForm`, a task per click | `on_submit`, `act`, `cancel`, `advance` | Apple ID logins |
| Device link (`sideload`, `server/mdns.rs`) | `devices.ip`, `devices.mdns_ip` | `open_cdtunnel_preferring_mdns`, `tcp_ping`, `run_mdns` | devices, LAN |
| Device registration (`app`, `db`) | `devices` rows with their pairing files | `register_device`, `delete_device`, `reimport_pairing`, `change_device_ip`, `export_pairing` | device link |
| Refresh timing (`db`, `scheduler`, `app`, `app/components`) | `last_refreshed`, the ticker | `apps_needing_refresh`, `dashboard_summary`, labels | clock, job pipeline |
| Account store (`server/db/storage.rs`, `sideload`) | keys of an Apple ID in `sideload_storage`, copies of them, the SPD in `apple_accounts` | `DbStorage::load`/`store`, `build_anisette_provider`, `get_dev_session`, `cache_xcode_token` | Apple, logins, jobs |
| IPA files (`app`, `scheduler`, `db`) | `ipas/<bundle id>.ipa`, `/tmp/jas_*.ipa`, `apps.ipa_path` | the write in `install_ipa`, `upsert_app`, the reads in `run_job`, the merge in `mark_app_installed` | job pipeline, app registry |
| Device page and queue page (`app/pages/device_detail.rs`, `queue.rs`) | resources, actions, effects and timers in the browser | the list of apps, the install form, polling of `job_status`, `list_jobs` | `jobs`, `apps` |
| Anisette setting (`app`, `main.rs`, `app/pages/settings.rs`) | a row and a copy in `AppState` | `set_anisette_url`, the start of the server | every signing job |
| Certificates and App IDs (`app`) | none | `list_account_app_ids`, `revoke_all_certs`, `export_livecontainer_cert` | Apple |
| Signing, transfer (`sideload`) | files while they are built | `create_ipa`, `read_ipa_info`, `install_ipa` | libraries |
| Encryption, configuration | keys, constants | `crypto.rs`, `config.rs` | - |

The hard behaviours, and what is correct:

* **Job pipeline.** Handlers can be dropped at every await, tasks meet database
  errors, devices stop answering, the process restarts, rows are deleted by a
  cascade under a running task. Correct is: no job is run twice, the pool never
  shrinks, `jobs.status` says what is going on, a final status is final, and one
  job's misfortune is not another's.
* **App registry.** No transaction spans two statements, and the device changes
  too. Correct is: what JAS installed it keeps track of, under the id the device
  knows, and a job that is done has a confirmed row.
* **Logins.** A blocking thread, any number of polling calls, timeouts and
  cancellations. Correct is: an answer goes to the prompt it was given for,
  nothing blocks a worker thread, an account is saved once, if it was collected
  and not cancelled; and the form in the browser, whose requests and answers get
  lost, comes to an end, says what went wrong and reports only what is saved.
* **Device link and registration.** The hint is always possibly stale, and so is
  the row an operation has read. Correct is: a hint never makes an operation fail,
  and follows the announcements.
* **Refresh timing.** Correct is: no app expires while the scheduler's margin
  for failures lasts, and the dashboard agrees with the scheduler.
* **Account store.** Two copies, two keys that must fit. Correct is: the token a
  session uses belongs to the identity it presents, and has time left.
* **IPA files.** One file for several devices, no lock, and a second row for an
  app that is installed already, until its job merges the two. Correct is: nobody
  installs something older than what they were to install.
* **Pages.** Fetches overlap clicks, answers and each other. Correct is: polling
  goes on to the end of a job and never multiplies, the end of a job is shown
  while there is a row to read it from, and the list shows what the page was told
  of.
* **Anisette setting.** Two writes per call. Correct is: what is stored is in
  effect.

Every hazard is listed at its line in `PROJECT.json`, with the properties that
catch it, or the reason why none does.

## 2. Modules

| Module | Models | State and actions |
|---|---|---|
| `JobLifecycle` | what the `jobs` table promises its readers: rows move forward only | `status`; Create, Start, Finish, Remove |
| `JobPipeline` | one job from its handler to its task | a step per SQL statement and per await: `InsertJob`, `Send`, `Recv`, `Spawn`, `MarkRunning`, `RunJob`, `WriteDone`, ..., the three statements of a merge (`MarkConflict`, `MoveJobs`, `DropApp`), `DeleteApps` with its cascade; faults: `Crash`, `Disconnect`, `Hang`, and a failing variant of each status write |
| `LoginSession` | a login thread and the calls that follow it | the thread: `Publish`, `Receive`, `Timeout`, `LoginReturns`, `WriteResult`; the calls: `Begin`, `Poll`, `Submit`, then a step per await; `Cancel` drops a call |
| `LoginPromise` | what a user is promised of a sign-in: stored once, after an acceptance, never after a cancellation | `phase`; Open, Accept, Refuse, Cancel, Store |
| `LoginForm` | the form in the browser, beside the threads and handlers of `LoginSession`, which it extends | the clicks: `SignIn`, `Act`, `CancelClick`, `Reload`; the request: `ServeBegin`, `ServeOther`, `ServeMiss`, `Handle`, `HandleReply`; the answer: `ArriveComplete`, `ArrivePrompt`, `ArrivePending`, `ArriveError`, `ArriveAbort`; faults: `Lose`, `Drop`, `InsertError`; `Sweep`, another user's `begin_login` |
| `AppRegistry` | the rows of one device against the apps on it | `Upload`, `Refresh`, `Enqueue`, the job's steps, `mark_app_installed` statement by statement (`SelectRow` ... `DropRow`), `delete_app` (`Del*`), `reconcile_apps` (`Rec*`), `check_and_enqueue` (`Sched*`), removal by hand, `DeleteAccount` |
| `DeviceLink` | one device, its row and its addresses, another phone beside it | `Move`, `Announce`, `HandleResolved`, `ChangeDeviceIp`, `DeleteDevice`, `ReimportPairing`; an operation: `Begin` or `BeginRegister`, `ConnectHint`, `VerifyHint`, `ConnectManual`, `VerifyManual`, `Insert`, and `LostHint`, `LostManual` when the host has gone |
| `RefreshWindow` | one app's time to live | ages instead of times; `Advance`, `Check` (the ticker), `RefreshApp`, `Issue`, `Mark`, `Fail`, `Restart`; the dashboard's thresholds and labels as operators |
| `AccountStore` | one Apple ID's stored keys | a login and a session as two programs over `DbStorage`: `Provider` (load), `Anisette`, `SignIn`, `Mint`, `CacheToken`, `Save`; `LoadToken`, `Check`, `Build`, `Restore` |
| `IpaStore` | one app's IPA files and the rows that name them | an upload and its job: `WriteStart`, `WriteEnd`, `WriteFails`, `Record`, `Sign`, `Installed`, `JobFails`; a refresh: `ReadRow`, `ReadFile`, `Refreshed`, `RefreshFails`; `mark_app_installed` after either: `SelectRow`, `SelectConflict`, `Rename`, `UpdateTarget`, `DropRow`; `Remove`, `Crash` |
| `DevicePage` | the page of a device and the queue page in one browser tab | the clicks: `StartJob`, `Change`, `Fails`, `HideForm`, `ClickQueue`, `Navigate`; the list: `ServeList`, `ShowList`; answers to actions: `ArriveAction`; a polling view: `Serve`, `Deliver`, `DeliverEnd`, `TimerFires`; the jobs: `Work`, `Remove` |
| `AnisetteSetting` | the stored URL and its copy | `Store`, `Apply`, `Drop`, `Restart`, `RestartUnread` |

How they fit together. `JobPipeline` has the queue and the pool and leaves out
what a row of `apps` says; `AppRegistry` has what the rows say and lets a queued
job start at any time, which is all the pipeline guarantees it. `IpaStore` and
`AccountStore` have what a job reads when it runs, `DeviceLink` how it reaches
the device, `RefreshWindow` when it is made at all. `LoginForm` is composed with
`LoginSession`, whose state and actions it extends: a form's request is a call of
that module, each step of the composition is a step of a handler, a thread, the network or the form, and the
form's request and the handler's step that answers it are joined where the answer
is made. Two abstract specifications are implemented: `JobLifecycle` by
`JobPipeline` (the refinement mapping is the identity on `status`) and
`LoginPromise` by `LoginSession` (the mapping is `Phase`: it reads off the inserts,
the Aborts sent, the result and the thread how far a sign-in is). `DevicePage`
takes a job to be what `JobLifecycle` says of it, active and then over, with a row
that may go at any time.

Each component module has its constants, named assumptions on them, the state,
one action per step of the code, the specification and the properties. `LoginForm`
and `AnisetteSetting` say `FormSpec`, `SettingTypeOK` and so on where the others say
`Spec` and `TypeOK`, so that each can be reasoned about in one module with the one
it shares its data with. `MC*` modules give TLC its constants. Definitions that begin with `(* Defect: ... *)`
are no part of any specification: each is a plausible mistake in the definition
that follows it, and shows that a property would notice (`PROJECT.json`,
"mutants").

Abstractions worth knowing:

* Apps, jobs, accounts, addresses and IPAs are model values. A signed bundle id
  is the pair of the IPA's id and the team, since isideload appends the team.
* A dropped connection is modelled where a handler waits and has something to
  lose: in `send` (`JobPipeline`) and in every await of a login call.
* Database errors are modelled for the writes of a job (`JobPipeline`) and for
  `insert_account` (`LoginSession`); in `AppRegistry` and `DeviceLink` the
  database works, except that constraints refuse what they must.
* `IpaStore` takes overlapping writes of one file to leave either content or a
  mix; reading a file that is being written gives no IPA (the archive does not
  parse), so a job then fails. All uploads have the same bundle id; an upload, the
  row it brings and its file in `/tmp` have one name. A refresh reads its row once
  in the model and twice in the code, once for each use of it.
* In `RefreshWindow` the scheduler's check and its enqueueing are one step, and
  a job that takes longer than `MaxJob` is one that failed.
* `AppRegistry` has two worlds in one specification, chosen in `Init` from
  `Worlds`: who else acts beside uploads, refreshes and jobs, how many jobs and
  how many accounts there are.
* `DeviceLink` has one device, one row and one other host at a time, which may be
  a phone with a pairing file of its own. Reading the rows and the UPDATE of
  `handle_resolved` are one step. A host that leaves after it accepted a connection
  may be missed at once, later, or never.
* In `DevicePage` the list has an age instead of a content: the number of times
  the page had been told of a change when the fetch was served. New jobs get ids in
  one order.
* `AccountStore` has a history variable, `raced`: two calls have found no identity
  stored before either made one up. Its properties say what holds until then.
* Libraries (isideload, idevice, Leptos) and Apple are external: what the code
  relies on is said in the comments of the modules. Of Leptos this is that a new
  fetch of a resource, and a new dispatch of an action, supersede the one under
  way, and that an effect runs again when something changes that it read in its
  last run.

## 3. Runs

TLC checks deadlock in every run but the ones that say otherwise in their cfg.
`Rest` (in the modules that have it) is a stutter in the states in which the
system may stand still, so that any other standstill is reported.

| Run | Instance | Shows |
|---|---|---|
| `JobPipeline` | 3 jobs (2 from clients, one from the scheduler), 2 apps, 1 slot, 2 workers, 1 fault of any kind; 303,346 states | `OnePlace`, `StatusTruthful`, `PoolConserved`, the refinement `Lifecycle`, and `EveryJobEnds` |
| `LoginSafety` | 2 logins, 3 calls, 2 prompts, dropped calls and database errors, symmetric | `NoStaleAnswer`, `SendNeverBlocks`, `InFlightKept`, and the refinement `Promise` |
| `LoginForm` | 1 form, 2 sign-ins, 2 prompts, 1 failure of any kind; 202,999 states | `AnswersWhatItShows`, `CompleteMeansSaved`, `CancelledNeverSaved`, `NeverSilent`; `FormSettles`, `ThreadEnds`, `AcceptedIsStored` |
| `LoginDropped` | 2 logins, 2 calls | violates `SuccessKept` |
| `RegistrySafety` | 2 rows, symmetric, and either 2 jobs, 2 teams and all the others, or 3 jobs of 1 team alone; 369,670 states | foreign keys (`TypeOK`), `InstalledRowsAreReal`; alone: `Tracked`, `DoneIsConfirmed` |
| `RegistryPrune` | `reconcile_apps` beside jobs | violates `PruneOnlyMissing` |
| `LinkSafety` | 1 operation, 2 addresses (one link-local), 1 move, 2 waiting announcements, any host; 1,025,293 states | `SteadyNeverFails`, `HintIsNewest`, `OpEnds` |
| `RefreshSafety` | lifetime 42, window 18, interval 4, jobs up to 2, 2 failures; labels in units of 24, 12, 6 and 1; 16,128 states | `NeverExpires`, `DueIsShown`, `LabelIsClose` |
| `AccountSafety` | 2 logins, 1 session, 2 identities, clock to 3, symmetric; 570,111 states | `IdentityMatches`, `SessionIsConsistent`, `TokenIsUsable` |
| `IpaSafety` | either 3 uploads to 1 device, or 2 uploads to 2 devices and 1 refresh; 1 team, 1 restart, symmetric; 1,347,585 states | `JobSignsItsOwn`, `RefreshIsNotOlder` |
| `PageSafety` | 2 jobs, 3 clicks, 1 failed request, any job's row deleted; 404,084 states | `LoopsBounded`, `DoneOnce`, `ListIsAsNewAsTold`, `EndIsShown` |
| `AnisetteSetting` | 2 callers, 4 URLs, 1 fault; 851 states | `TakesEffectAlone` |

`TypeOK` is part of five of the runs; the other modules state theirs as the
documentation of their state and as the base of their proofs.

Why the bounds are enough. With 3 jobs, 1 slot and 2 workers a sender waits for
the channel while the loop holds a request for which there is no permit: every
place a request can be in is taken at once. Two apps are needed for a merge, and
a third would only be another one that is deleted. One fault is enough to see
whether it spreads; what holds for any number of them is proved (section 4).
Two calls are enough for a race on one login, the third one is there because
begin, poll and submit are three kinds; a second prompt is what a stale answer
would be stale for. `LoginForm` has a form that can go on to a second sign-in while
the first one's thread and a handler nobody waits for are still running, and one
failure at any point of either. In the registry two rows are a row and the one it is merged
into, three jobs are two that merge and one that was moved. One move leaves a
stale hint, two waiting announcements can be of different ages or of two phones.
On the device page three clicks are two jobs and something that changes the list,
or a job that is still followed when the user leaves and comes back. In
`RefreshWindow` the numbers leave room for two failures: with Interval 4 and MaxJob
2, 3 * 4 + 2 * 2 < 18. Between 4 and 42 units remain, and the units of the label are
chosen for that range, not for their real proportion: it says days, hours, minutes
and seconds, the first three with and without a remainder.
Three uploads are the smallest number with two that overlap and one that is
older than both; two uploads and a refresh are enough for a row that is confirmed, a
second one beside it, their merge, and a refresh that reads either before, during or
after it. Two logins are a race for the first identity, and with a session they are
three writers of the token; that any number of sessions changes nothing is proved.

`Tracked` and `DoneIsConfirmed` are stated for the world without deletions and with
one team because they are not true otherwise (section 5). For the same reason
`IdentityMatches` and `SessionIsConsistent` speak of the time until two logins have
both found no identity, and `TakesEffectAlone` excludes calls that overlapped; this
says exactly where the code relies on its users not doing two things at once. Logins
in `AccountSafety` overlap freely, races included: the properties say that nothing
but such a race breaks the fit of identity, SPD and token.

Fairness. `JobPipeline`: weak fairness of the receive loop and of each job's
steps, since tokio polls every ready task again and the channel's queue of
senders is FIFO; faults, handlers and deletions are never forced. `Hang` is
terminal, which is what a connection without a timeout allows (`sideload:53`).
`LoginForm`: weak fairness of the thread (Apple answers or the library gives up;
`recv_timeout` returns, `app:480`), of each handler, and of requests and answers
that are not lost; strong fairness of `ReplyPending`, because the loop of
`await_login_step` has a deadline; no fairness of clicks or faults. `DeviceLink`:
weak fairness of operations and the mDNS task, but none of `LostHint` and
`LostManual`: after the connect nothing in `sideload:49-99` has a timeout, and TCP
need not report that the host has gone. `DevicePage`: requests of the progress lines
are answered or fail, or their timers fire; jobs need not end.

## 4. Proofs

Every component module has theorems, in eight modules: `JobPipelineProofs`,
`AppRegistryProofs`, `LoginProofs` (`LoginSession`, and `LoginForm` on top of it),
`DeviceLinkProofs`, `DevicePageProofs`, `IpaStoreProofs`, `RefreshWindowProofs` and
`SideloadStorageProofs` (`AccountStore` and `AnisetteSetting`, the two users of
`sideload_storage`). The invariants of all passing runs are among them, and both
refinements. They are checked by TLAPS for every value of the constants that
satisfies the named assumptions: any finite set of jobs, any apps, any numbers of
workers (none included), slots and faults; any rows, IPAs and jobs of a registry
with finitely many accounts; any sessions, calls, prompts, forms and failures; any
operations, addresses, moves and announcements; any jobs, clicks and lost requests
of a page; any devices, uploads, refreshes, teams and restarts; any logins,
developer sessions, identities and token lifetimes above the margin; any callers,
URLs and faults of the setting; any lifetime, window, interval and number of
tolerated failures with `(MaxFailures + 1) * Interval + 2 * MaxJob < Window`, which
is the condition under which the defaults (2 hours, 3 days) keep an app alive
through 33 failed checks in a row if a job takes an hour.

* `JobPipeline`. The inductive invariant is the type invariant, `OnePlace`,
  `Stages` (what the row of a job can say at each place of its request) and the
  conservation of permits. `OnePlace` alone is not inductive: that a job which is
  inserted is in no other place follows from its row being absent, which is
  `Stages`. `StatusTruthful` is added because a lost write must leave its job in
  `lost`. Permits are counted with `Cardinality(Tasks)`, and `0..Workers` in the
  type invariant follows from the count. `ImplementsLifecycle` maps each step to a
  step or a stutter of `JobLifecycle`; the interesting steps are the writes of a
  task whose row was deleted, moved or merged meanwhile.
* `LoginSession`. `NoStaleAnswer` and `SendNeverBlocks` rest on one fact about
  tokens: the prompt, the answer in the hand of a call, and the answer in the
  slot are never there two at a time for the round in progress. `SavedOnce` needs
  that a call past `Swap` has set the flag, `AbortedNeverSaved` that an aborted
  thread can only go to an error, `InFlightKept` that a call removes a session
  only after it saw a result. `KeepsItsPromise` maps each step to a step or a
  stutter of `LoginPromise`: five kinds of step change a phase (`Begin`,
  `WriteResult` either way, `Send` of an Abort, `Insert`), and the invariant says
  that each finds the login in the phase it must be in.
* `LoginForm`. The properties of a form are about three places that know of a sign-in:
  the form, the call that serves its request, and the thread. The inductive invariant
  `FormInv` says how they fit: a sign-in belongs to one form (`OneOwner`), so what the
  form shows cannot be changed by another one's call; the call of a form is where its
  request is (`AtCall`); an answer on its way is true (`Truthful`); once a call has
  set `finalized`, that call's form asks for nothing more (`FinalOK`), which is why no
  form is the second poller that is told too early; and after Cancel only the Abort can
  reach the thread (`CancelledOK`): a prompt was in view, so the sign-in had not been
  accepted, and it can only end in an error. `NeverSilent` is a conjunct of `Shape`. The
  invariant of `LoginSession` is carried along, with one more step (`Sweep`) to show it
  for, and so is its refinement: `FormKeepsThePromise`.
* `AppRegistry`. `RegInv` holds whoever acts: a row is confirmed only under a signed id,
  and a signed id only ever gives way to a signed one, because a job renames to the id
  it signed the app with (`JobOK`) and an upload takes a row with the unsigned id.
  `Tracked` and `DoneIsConfirmed` need `Quiet(p)`, the world in which p is the only
  account and nobody but uploads, refreshes and jobs acts; `QuietSteps` shows that such
  a world stays one. In it no two rows have the same id, a row that is gone has left the
  signed row of its IPA behind (`GoneOK`), a signed row is confirmed and never goes, and
  the target of a merge stays where it is (`QuietJob`). So a job that finds its row
  merged away has nothing left to confirm, and its row of `jobs` has been moved to one
  that is confirmed (`QuietStatus`). With a second team or a deletion this argument fails
  exactly where section 5 says the code does.
* `DeviceLink`. `SteadyInv`: a steady operation has the device's file, the device is
  at its manual address, and what it connected to there is the device; so nothing can
  send it to `failed`, and the hint only costs it time. `NewestInv`: the last
  announcement of the device is in the queue with only foreign ones after it, or it has
  been handled, none of the device is left and the hint is what `pick_ip` chose.
* `DevicePage`. `ViewSteps` reduces all steps to the few things that can happen to a
  view; none adds a loop, except a click on the queue page, which is counted. `DoneOnce`
  needs that an answer on its way that says "ended" is true. `ListInv` is the whole
  argument about the list: whoever tells the page something starts a fetch.
* `IpaStore`. `FileInv`: since an upload truncated its file, only uploads that were
  not through with their own write have put anything there, because who counts as
  older never writes again (`OlderInv`). That gives `JobSignsItsOwn`. For refreshes
  `RowInv` adds that a row names the file of the upload it was last written for, and
  that so does what a refresh and a merge under way remember of a row, whatever was
  inserted, merged or deleted since; it lasts because an upload never moves its file
  (`Kept`). So the file that a refresh reads is one that its owner has truncated.
* `AccountStore`. `Good`: a call that has a token got it fresh at its last check, with
  more than the margin left. `IdentityMatches` and `SessionIsConsistent` rest on
  `OneInv`, which holds until `raced`: a call that is about to make up an identity does
  so because there is none, and is the only one (`OneBlank`), so no other call or key
  has an identity that it could replace. Logins and sessions are any number and
  overlap in any way; after a race the two are false (section 5).
* `AnisetteSetting`. `TakesEffectAlone` is inductive with one fact about a call that
  is under way and has been alone since it began: the row is the URL it holds.
* `RefreshWindow`. `AgeBounded` is the inductive invariant: the age at the next
  check, or at the start of the running attempt, is at most
  `Lifetime - Window + (fails + 1) * Interval`. `NeverExpires` follows with at most
  one job's length each for the attempt and for the time between the issue of a
  profile and its record. `DueIsShown` needs `NeverExpires`, as an expired app is
  not "expiring soon". `LabelIsClose` is arithmetic: `Rounded` says what
  `round_up_duration` computes, for any unit.

`SavedOnce`, `AbortedNeverSaved` and `AgeBounded` are theorems that no run repeats:
`Promise` and `NeverExpires` rest on them.

Only model-checked: everything about liveness (`EveryJobEnds`, `FormSettles`,
`ThreadEnds`, `AcceptedIsStored`, `OpEnds`, `EndIsShown`), which is out of the
prover's reach, under the fairness that section 3 names. `PruneOnlyMissing` and
`SuccessKept` are false, so there is nothing to prove of them. Constants are assumed to
be what the named assumptions say and no more; `RegistryAssumption` has
`IsFiniteSet(Accounts)`, as `Undisturbed` counts accounts and a table is finite.
No module here has a RECURSIVE operator.

## 5. Where the code and its documentation differ

Two disagreements are runs whose expected verdict is a violation:

* `LoginDropped`: `app:543` says a login stays in the map until its result is
  observed, "otherwise a successful login could be dropped"; `begin_login`
  (`app:430`) drops every login that has a result.
* `RegistryPrune`: `app:880` says `reconcile_apps` removes rows "whose bundle ID is
  no longer present"; the listing is older than the rows it is compared with, so
  an app confirmed in between loses its row.

Others were met while modelling. Each is outside the instance of a run above or
is left out of its properties, and none is claimed to be absent:

* Jobs left `queued` or `running` by a process that died keep that status
  (`main.rs:53` starts with an empty channel; `StatusTruthful` excludes them).
* As many silent devices as there are workers stop the pool (`sideload:53` and
  after have no timeout; `EveryJobEnds` has one fault and two workers). A silent
  host at a stale hint, or a device that moves or sleeps after it accepted the
  connection, holds up an operation, though the device may answer at the manual
  address (`OpEnds` names both exceptions; `sideload:222` says a stale hint never
  does).
* A job inserted for a row between the last two statements of its merge is
  deleted with it (`db:343`, `db:350`); two teams that re-sign two rows of one app
  at once leave one of them unconfirmed (`db:355`, the error is discarded at
  `scheduler:193`).
* `delete_app` (`app:1229`) takes an app whose install is done and not yet marked
  for one that is not on the device.
* Two first logins of one Apple ID that overlap may save an SPD for an identity
  that the other one has overwritten (`storage.rs:76`), and a session then presents
  one identity with a token that was given to another. `raced` in `AccountStore`
  marks it.
* An upload of an installed app inserts a second row under the unsigned id
  (`db:254`), and the signed row keeps its path until the merge (`db:324`): a refresh
  between the two installs the IPA that was replaced, if that was in a file of its
  own. The merge writes the path that the uploaded row had when it was read
  (`db:289`); an upload that rewrites the row in between loses its path with the row
  (`db:350`) if its job then finds no row to mark. Two jobs of one app also reach the
  device in any order. `RefreshIsNotOlder` is about what the row that is read was
  last written for.
* An ephemeral upload writes its path in `/tmp` to the row (`app:1015`), although
  the repository's README says `ipa_path` stays NULL (line 280).
* A second poller may be told `Complete` before the account is inserted
  (`app:576`); a timed-out prompt can still be taken (`app:480`). No form is such a
  second poller, so `CompleteMeansSaved` holds in `LoginForm`.
* After an answer to a prompt that failed (`accounts.rs:436`) the form shows the error
  and "Contacting Apple..." with no button and no task behind it, until it is opened
  again (`NeverSilent` allows it for its error; `FormSettles` is about `pending`).
* The row of a job goes with the row of its app, by a deletion, a sync or a merge
  in the middle of which the job was inserted: `job_status` then answers "Job not found"
  (`app:1189`), and a progress line takes that for an error to poll on after, for
  ever, without an end and without `on_done` (`device_detail.rs:897`). It polls for
  ever too after a job that a restart or a silent device holds up. `EndIsShown` is
  about a job that has ended and whose row is there.
* The queue page stops polling after one failed request (`queue.rs:33`), although
  the comment there says it polls while a job is active.
* The effect that fetches the list of apps reads the versions of its actions with
  `||` (`device_detail.rs:352`, and `devices.rs:14` for devices): once one of them has
  been answered, those after it are not read, and a later deletion or sync no longer
  fetches the list. `ListIsAsNewAsTold` is about what the page was told; `Heard` is
  the condition under which it is.
* A second job takes the place of the first one's progress line, whose `on_done` then
  never runs; and a job that failed closes the install form with the line that shows
  its error (`device_detail.rs:845`, `device_detail.rs:319`). The list fetched at
  `done` may also be older than the marking of the row that follows it
  (`scheduler:193`).
* `reimport_pairing` checks the format of a file and nothing else (`app:1297`): with
  another phone's file in the row, that phone's announcements become the hint, and
  every tunnel ends at it or fails (`SteadyNeverFails` and `HintIsNewest` are about
  rows with the device's own file).
* Two overlapping calls of `set_anisette_url` may leave the copy and the row with
  different URLs (`app:1501`, `app:1510`), a call dropped between its two writes too,
  and a start whose query fails takes the default without an error (`main.rs:44`).

## 6. Not modelled

Signing, unpacking and parsing of IPAs, the AFC and install protocols, AES-GCM
and configuration parsing are pure or belong to libraries. `export_pairing` only
reads. The dashboard, the list of devices, the server settings and the cards of
the accounts page fetch and render; what `devices.rs` does beyond that is `Heard`
with two actions. The reading of an IPA or a pairing file in the browser, where a
second choice may be overtaken by the first one's bytes, is not modelled, nor are
the badge of the connection, the progress column of a job, or the database pool
(ten connections by default, 30 seconds until a query gives up) with the blocking
query of `DbStorage::write_through`.

A registry of several rows, phones and pairing files at once was tried as a module
of its own; with two phones it has far more states than a run can visit, and
its properties are those of `DeviceLink`.

## 7. Plan

In order of weight:

1. The order of progress reports, as an extension of `JobPipeline`, and `DevicePage`
   composed with `AppRegistry`: what the page shows after `done` and before the row
   is marked.
2. `DbStorage::write_through` and the pool: when a blocked runtime thread can stop
   the query it waits for.
3. `AppRegistry` with two teams: which of the two properties stated for one team can be
   kept for rows that only one of them signs.
