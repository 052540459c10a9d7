--------------------------- MODULE RefreshWindow ---------------------------
(***************************************************************************)
(* When one app is refreshed, and when it expires.  Apple's profile lives  *)
(* seven days from the moment it is issued; JAS only knows when it         *)
(* recorded the install.  The scheduler looks at the record every Interval *)
(* and enqueues a job once the profile is within Window of its end; the    *)
(* dashboard and the device page compute their labels from it.  Times are  *)
(* ages, so that the state space is finite.                                *)
(***************************************************************************)
EXTENDS Integers

CONSTANTS Day, Hour, Minute,  \* in units of time (seconds, in the code)
          Lifetime,     \* CERT_LIFETIME_SECS
          Window,       \* refresh_window_days
          Interval,     \* interval_hours
          MaxJob,       \* the longest a job takes, its time in the queue included
          MaxFailures,  \* failed attempts between two good ones
          None

ASSUME RefreshAssumption ==
  /\ Lifetime \in Nat /\ Window \in 0..Lifetime
  /\ Interval \in Nat \ {0}
  /\ MaxJob \in 0..(Interval - 1)
  /\ MaxFailures \in Nat
  /\ (MaxFailures + 1) * Interval + 2 * MaxJob < Window
  /\ None \notin Int

ASSUME UnitAssumption ==
  {Day, Hour, Minute} \subseteq Nat \ {0} /\ Minute < Hour /\ Hour < Day

VARIABLES
  age,    \* now - last_refreshed
  lead,   \* last_refreshed - when the profile on the device was issued
  next,   \* time until the scheduler's ticker fires
  jobs,   \* the scheduler's refresh job and one the owner asked for
  fails   \* history: failed attempts since the last good one

vars == <<age, lead, next, jobs, fails>>

Kinds == {"scheduler", "owner"}

(* since: age of the job; profile: age of the profile it was given.        *)
NoJob == [since |-> None, profile |-> None]
Running == [since : 0..MaxJob, profile : 0..MaxJob \cup {None}]
Fresh == [since |-> 0, profile |-> None]
Busy(k) == jobs[k] # NoJob

(* The app has just been installed; the ticker fires as soon as it starts. *)
Init ==
  /\ age = 0 /\ lead \in 0..MaxJob /\ next = 0
  /\ jobs = [k \in Kinds |-> NoJob]
  /\ fails = 0

-----------------------------------------------------------------------------
(* Defect: the refresh window is not taken off the lifetime. *)
DueAtEnd == age > Lifetime

(* apps_needing_refresh: last_refreshed < now - (lifetime - window).       *)
Due == age > Lifetime - Window

(* dashboard_summary and expires_in_label *)
Remaining == Lifetime - age
Expired == Remaining <= 0

(* Defect: the window is left in days. *)
ExpiringSoonDays == ~Expired /\ Remaining <= Window \div Day

ExpiringSoon == ~Expired /\ Remaining <= Window

(* Defect: integer division, which rounds down. *)
Floor(n, unit) == [shown |-> n \div unit, unit |-> unit]

(* round_up_duration: a number of units.                                   *)
Ceil(n, unit) == [shown |-> (n + unit - 1) \div unit, unit |-> unit]
Label(n) ==
  CASE n <= 0 -> [shown |-> 0, unit |-> 1]
    [] n >= Day -> Ceil(n, Day)
    [] n >= Hour /\ n < Day -> Ceil(n, Hour)
    [] n >= Minute /\ n < Hour -> Ceil(n, Minute)
    [] n > 0 /\ n < Minute -> Ceil(n, 1)

-----------------------------------------------------------------------------
Older(j) == [since |-> j.since + 1,
             profile |-> IF j.profile = None THEN None ELSE j.profile + 1]

(* Time passes; a tick of the ticker and the end of a job are not late.    *)
Advance ==
  /\ next > 0
  /\ \A k \in Kinds : Busy(k) => jobs[k].since < MaxJob
  /\ age' = age + 1 /\ next' = next - 1
  /\ jobs' = [k \in Kinds |-> IF Busy(k) THEN Older(jobs[k]) ELSE NoJob]
  /\ UNCHANGED <<lead, fails>>

Attempt(k) == jobs' = [jobs EXCEPT ![k] = Fresh]

(* An attempt of the scheduler fails: that many are tolerated in a row.    *)
OneMore == fails < MaxFailures /\ fails' = fails + 1

(* check_and_enqueue: an app that is due and on a device that answers gets *)
(* a job.                                                                  *)
Check ==
  /\ next = 0 /\ next' = Interval
  /\ \/ ~Due /\ UNCHANGED <<jobs, fails>>
     \/ Due /\ Attempt("scheduler") /\ UNCHANGED fails
     \/ Due /\ OneMore /\ UNCHANGED jobs
  /\ UNCHANGED <<age, lead>>

(* refresh_app *)
RefreshApp ==
  /\ ~Busy("owner") /\ Attempt("owner")
  /\ UNCHANGED <<age, lead, next, fails>>

(* Apple issues the profile that the job then takes to the device.         *)
Issue(k) ==
  /\ Busy(k) /\ jobs[k].profile = None
  /\ jobs' = [jobs EXCEPT ![k].profile = 0]
  /\ UNCHANGED <<age, lead, next, fails>>

(* mark_app_installed, at the end of execute_job.                          *)
Mark(k) ==
  /\ Busy(k) /\ jobs[k].profile # None
  /\ age' = 0 /\ lead' = jobs[k].profile /\ fails' = 0
  /\ jobs' = [jobs EXCEPT ![k] = NoJob]
  /\ UNCHANGED next

Fail(k) ==
  /\ Busy(k)
  /\ jobs' = [jobs EXCEPT ![k] = NoJob]
  /\ IF k = "scheduler" THEN OneMore ELSE UNCHANGED fails
  /\ UNCHANGED <<age, lead, next>>

(* Defect: the first tick comes an interval after the one that was due. *)
RestartWaits ==
  /\ next' = next + Interval
  /\ jobs' = [k \in Kinds |-> NoJob]
  /\ IF Busy("scheduler") THEN OneMore ELSE UNCHANGED fails
  /\ UNCHANGED <<age, lead>>

(* The jobs are lost, and the first tick of the new ticker is immediate.   *)
Restart ==
  /\ next' = 0
  /\ jobs' = [k \in Kinds |-> NoJob]
  /\ IF Busy("scheduler") THEN OneMore ELSE UNCHANGED fails
  /\ UNCHANGED <<age, lead>>

JobStep(k) == Issue(k) \/ Mark(k) \/ Fail(k)

Next == Advance \/ Check \/ RefreshApp \/ Restart \/ \E k \in Kinds : JobStep(k)

Spec == Init /\ [][Next]_vars

-----------------------------------------------------------------------------
(* Properties *)

TypeOK ==
  /\ age \in Nat /\ lead \in 0..MaxJob /\ next \in 0..Interval
  /\ jobs \in [Kinds -> Running \cup {NoJob}]
  /\ fails \in 0..MaxFailures

(* With no more than MaxFailures attempts in a row failing, the profile on *)
(* the device never expires, although its end is computed from the record  *)
(* and the record is later than the profile.                               *)
NeverExpires == age + lead < Lifetime

(* What the scheduler would refresh, the dashboard shows as expiring soon. *)
DueIsShown == Due => ExpiringSoon

(* "The counter never understates how much time is left", and is less than *)
(* one of its units off.                                                   *)
LabelIsClose ==
  LET l == Label(Remaining)
  IN  /\ l.shown * l.unit >= Remaining
      /\ Remaining > 0 => (l.shown - 1) * l.unit < Remaining

(* IInv of NeverExpires: how old the record can be when the scheduler next *)
(* looks at it, or was when the running attempt began.                     *)
Horizon == Lifetime - Window + (fails + 1) * Interval

AgeBounded ==
  IF Busy("scheduler")
  THEN next + jobs["scheduler"].since = Interval /\ age - jobs["scheduler"].since <= Horizon
  ELSE age + next <= Horizon

=============================================================================
