------------------------ MODULE RefreshWindowProofs ------------------------
(* Theorems of RefreshWindow, for every lifetime, window, interval and     *)
(* number of failures that satisfy RefreshAssumption.                      *)
EXTENDS RefreshWindow, TLAPS

(* Products of natural numbers: what the solver needs of the horizon.      *)
LEMMA NextMultiple == \A m, n \in Int : (m + 1) * n = m * n + n
  BY SMT

LEMMA Monotone ==
  ASSUME NEW m \in Nat, NEW n \in Nat, NEW i \in Nat, m <= n
  PROVE  m * i <= n * i
<1>1. n * i = m * i + (n - m) * i
  BY SMT
<1>2. n - m \in Nat
  BY SMT
<1>3. (n - m) * i >= 0
  BY <1>2, SMT
<1> QED
  BY <1>1, <1>3, SMT

(* One more failure moves the horizon by one interval.                     *)
LEMMA HorizonMoves ==
  ASSUME fails \in Int, fails' = fails + 1
  PROVE  Horizon' = Horizon + Interval
<1>1. Lifetime \in Int /\ Window \in Int /\ Interval \in Int
  BY RefreshAssumption
<1>2. (fails + 1 + 1) * Interval = (fails + 1) * Interval + Interval
  BY <1>1, NextMultiple
<1>3. (fails + 1) * Interval \in Int
  BY <1>1
<1> QED
  BY <1>1, <1>2, <1>3 DEF Horizon

(* The horizon is at least the one before any failure, and at most the one *)
(* of the last failure that is tolerated.                                  *)
LEMMA HorizonBounds ==
  ASSUME fails \in 0..MaxFailures
  PROVE  /\ Horizon \in Int
         /\ Lifetime - Window + Interval <= Horizon
         /\ Horizon + 2 * MaxJob < Lifetime
<1>1. Lifetime \in Int /\ Window \in Int /\ Interval \in Nat /\ MaxFailures \in Nat /\ MaxJob \in Nat
  BY RefreshAssumption
<1>2. 1 * Interval <= (fails + 1) * Interval
  BY <1>1, Monotone
<1>3. (fails + 1) * Interval <= (MaxFailures + 1) * Interval
  BY <1>1, Monotone
<1>4. (MaxFailures + 1) * Interval + 2 * MaxJob < Window
  BY RefreshAssumption
<1>5. (fails + 1) * Interval \in Int /\ (MaxFailures + 1) * Interval \in Int
  BY <1>1
<1> QED
  BY <1>1, <1>2, <1>3, <1>4, <1>5 DEF Horizon

(* NoJob is not a running job.                                             *)
LEMMA BusyJob ==
  ASSUME TypeOK, NEW k \in Kinds, Busy(k)
  PROVE  jobs[k] \in Running
  BY DEF TypeOK, Busy

LEMMA FreshRuns == Fresh \in Running /\ Fresh # NoJob
<1>1. 0 \in 0..MaxJob
  BY RefreshAssumption
<1>2. None # 0
  BY RefreshAssumption
<1> QED
  BY <1>1, <1>2 DEF Fresh, Running, NoJob

(* A profile was issued after its job was enqueued: the part of the        *)
(* inductive invariant that keeps its age in range.                        *)
ProfileNotOlder ==
  \A k \in Kinds : Busy(k) /\ jobs[k].profile # None => jobs[k].profile <= jobs[k].since

IInv == TypeOK /\ ProfileNotOlder /\ AgeBounded

-----------------------------------------------------------------------------
(* The jobs after a step of time, of one job, or of none.                  *)

LEMMA OlderRuns ==
  ASSUME NEW j \in Running, j.since < MaxJob, j.profile # None => j.profile <= j.since
  PROVE  /\ Older(j) \in Running
         /\ Older(j).since = j.since + 1
         /\ Older(j).profile # None => Older(j).profile <= Older(j).since
<1>0. MaxJob \in Nat /\ None \notin Int
  BY RefreshAssumption
<1>1. j.since \in 0..MaxJob /\ j.since + 1 \in 0..MaxJob
  BY <1>0 DEF Running
<1>2. CASE j.profile = None
  BY <1>0, <1>1, <1>2 DEF Older, Running
<1>3. CASE j.profile # None
  <2>1. j.profile \in 0..MaxJob /\ j.profile + 1 \in 0..MaxJob
    BY <1>0, <1>1, <1>3 DEF Running
  <2>2. Older(j) = [since |-> j.since + 1, profile |-> j.profile + 1]
    BY <1>3 DEF Older
  <2> QED
    BY <1>0, <1>1, <1>3, <2>1, <2>2 DEF Running
<1> QED
  BY <1>2, <1>3

LEMMA RunningIsNotNoJob == NoJob \notin Running
  BY RefreshAssumption DEF NoJob, Running

(* After time passed, every job is older by one.                           *)
LEMMA AdvanceJobs ==
  ASSUME IInv, Advance
  PROVE  \A k \in Kinds :
           /\ jobs'[k] \in Running \cup {NoJob}
           /\ Busy(k)' <=> Busy(k)
           /\ Busy(k) => /\ jobs'[k].since = jobs[k].since + 1
                         /\ jobs'[k].profile # None => jobs'[k].profile <= jobs'[k].since
<1> TAKE k \in Kinds
<1>1. CASE Busy(k)
  <2>1. jobs[k] \in Running /\ jobs[k].since < MaxJob
    BY <1>1, BusyJob DEF IInv, Advance
  <2>2. jobs[k].profile # None => jobs[k].profile <= jobs[k].since
    BY <1>1 DEF IInv, ProfileNotOlder
  <2>3. jobs'[k] = Older(jobs[k])
    BY <1>1 DEF Advance
  <2> QED
    BY <1>1, <2>1, <2>2, <2>3, OlderRuns, RunningIsNotNoJob DEF Busy
<1>2. CASE ~Busy(k)
  BY <1>2 DEF Advance, Busy
<1> QED
  BY <1>1, <1>2

-----------------------------------------------------------------------------
(* The inductive invariant.                                                *)

LEMMA InitIInv == Init => IInv
<1> SUFFICES ASSUME Init PROVE IInv
  OBVIOUS
<1>0. Interval \in Nat /\ MaxJob \in Nat /\ MaxFailures \in Nat /\ Lifetime \in Nat /\ Window \in 0..Lifetime
  BY RefreshAssumption
<1>1. TypeOK
  BY <1>0 DEF Init, TypeOK
<1>2. ~Busy("scheduler") /\ ProfileNotOlder
  BY DEF Init, Busy, Kinds, ProfileNotOlder
<1>3. age + next <= Horizon
  BY <1>0, <1>1, HorizonBounds DEF Init, TypeOK
<1> QED
  BY <1>1, <1>2, <1>3 DEF IInv, AgeBounded

LEMMA AdvanceIInv == IInv /\ Advance => IInv'
<1> SUFFICES ASSUME IInv, Advance PROVE IInv'
  OBVIOUS
<1>0. Interval \in Nat /\ MaxJob \in Nat /\ MaxFailures \in Nat
  BY RefreshAssumption
<1>1. "scheduler" \in Kinds
  BY DEF Kinds
<1>2. TypeOK'
  BY <1>0, AdvanceJobs DEF IInv, TypeOK, Advance
<1>3. ProfileNotOlder'
  BY AdvanceJobs DEF ProfileNotOlder
<1>4. Horizon' = Horizon /\ Horizon \in Int
  BY HorizonBounds DEF Advance, Horizon, IInv, TypeOK
<1>5. Busy("scheduler") => jobs["scheduler"].since \in Int
  BY <1>0, <1>1, BusyJob DEF IInv, Running
<1>6. AgeBounded'
  BY <1>1, <1>4, <1>5, AdvanceJobs DEF IInv, TypeOK, Advance, AgeBounded
<1> QED
  BY <1>2, <1>3, <1>6 DEF IInv

LEMMA CheckIInv == IInv /\ Check => IInv'
<1> SUFFICES ASSUME IInv, Check PROVE IInv'
  OBVIOUS
<1>0. /\ Interval \in Nat /\ MaxJob \in 0..(Interval - 1) /\ MaxFailures \in Nat
      /\ Lifetime \in Nat /\ Window \in 0..Lifetime
  BY RefreshAssumption
<1>1. "scheduler" \in Kinds
  BY DEF Kinds
<1>2. age \in Nat /\ fails \in 0..MaxFailures /\ age' = age /\ lead' = lead /\ next' = Interval /\ next = 0
  BY DEF IInv, TypeOK, Check
<1>3. ~Busy("scheduler")
  <2> SUFFICES ASSUME Busy("scheduler") PROVE FALSE
    OBVIOUS
  <2>1. jobs["scheduler"].since \in 0..MaxJob
    BY <1>1, BusyJob DEF IInv, Running
  <2>2. jobs["scheduler"].since = Interval
    BY <1>2, <2>1 DEF IInv, AgeBounded
  <2> QED
    BY <1>0, <2>1, <2>2
<1>4. age <= Horizon /\ Horizon \in Int /\ Lifetime - Window + Interval <= Horizon
  BY <1>2, <1>3, HorizonBounds DEF IInv, AgeBounded
<1>5. CASE ~Due /\ UNCHANGED <<jobs, fails>>
  <2>1. Horizon' = Horizon
    BY <1>5 DEF Horizon
  <2>2. age + Interval <= Horizon
    BY <1>0, <1>2, <1>4, <1>5 DEF Due
  <2> QED
    BY <1>0, <1>2, <1>3, <1>5, <2>1, <2>2 DEF IInv, TypeOK, ProfileNotOlder, AgeBounded, Busy
<1>6. CASE Due /\ Attempt("scheduler") /\ UNCHANGED fails
  <2>1. Horizon' = Horizon
    BY <1>6 DEF Horizon
  <2>2. jobs' = [jobs EXCEPT !["scheduler"] = Fresh] /\ jobs'["scheduler"] = Fresh
    BY <1>1, <1>6 DEF Attempt, IInv, TypeOK
  <2>3. TypeOK'
    <3>1. jobs' \in [Kinds -> Running \cup {NoJob}]
      BY <2>2, FreshRuns DEF IInv, TypeOK
    <3> QED
      BY <1>0, <1>2, <1>6, <3>1 DEF IInv, TypeOK
  <2>4. ProfileNotOlder'
    BY <1>1, <2>2 DEF IInv, TypeOK, ProfileNotOlder, Busy, Fresh
  <2>5. AgeBounded'
    BY <1>0, <1>2, <1>4, <2>1, <2>2, FreshRuns DEF AgeBounded, Busy, Fresh
  <2> QED
    BY <2>3, <2>4, <2>5 DEF IInv
<1>7. CASE Due /\ OneMore /\ UNCHANGED jobs
  <2>1. Horizon' = Horizon + Interval
    BY <1>2, <1>7, HorizonMoves DEF OneMore
  <2>2. TypeOK'
    BY <1>0, <1>2, <1>7 DEF IInv, TypeOK, OneMore
  <2>3. ProfileNotOlder' /\ ~Busy("scheduler")'
    BY <1>3, <1>7 DEF IInv, ProfileNotOlder, Busy
  <2>4. age' + next' <= Horizon'
    BY <1>0, <1>2, <1>4, <2>1
  <2> QED
    BY <2>2, <2>3, <2>4 DEF IInv, AgeBounded
<1> QED
  BY <1>5, <1>6, <1>7 DEF Check

LEMMA RefreshAppIInv == IInv /\ RefreshApp => IInv'
<1> SUFFICES ASSUME IInv, RefreshApp PROVE IInv'
  OBVIOUS
<1>1. Horizon' = Horizon
  BY DEF RefreshApp, Horizon
<1>2. jobs' = [jobs EXCEPT !["owner"] = Fresh] /\ jobs'["scheduler"] = jobs["scheduler"]
  BY DEF RefreshApp, Attempt, IInv, TypeOK, Kinds
<1>3. TypeOK'
  BY <1>2, FreshRuns DEF RefreshApp, IInv, TypeOK
<1>4. ProfileNotOlder'
  BY <1>2 DEF IInv, TypeOK, ProfileNotOlder, Busy, Fresh
<1>5. AgeBounded'
  BY <1>1, <1>2 DEF RefreshApp, IInv, AgeBounded, Busy
<1> QED
  BY <1>3, <1>4, <1>5 DEF IInv

LEMMA IssueIInv == ASSUME NEW k \in Kinds PROVE IInv /\ Issue(k) => IInv'
<1> SUFFICES ASSUME IInv, Issue(k) PROVE IInv'
  OBVIOUS
<1>0. MaxJob \in Nat /\ None \notin Int
  BY RefreshAssumption
<1>1. Horizon' = Horizon
  BY DEF Issue, Horizon
<1>2. jobs[k] \in Running
  BY BusyJob DEF IInv, Issue
<1>3. jobs' = [jobs EXCEPT ![k] = [since |-> jobs[k].since, profile |-> 0]]
  <2>1. [jobs[k] EXCEPT !.profile = 0] = [since |-> jobs[k].since, profile |-> 0]
    BY <1>2 DEF Running
  <2> QED
    BY <2>1 DEF Issue
<1>4. jobs'[k] \in Running /\ jobs'[k].since = jobs[k].since /\ jobs'[k].profile = 0
  BY <1>0, <1>2, <1>3 DEF IInv, TypeOK, Running
<1>5. \A o \in Kinds : o # k => jobs'[o] = jobs[o]
  BY <1>3 DEF IInv, TypeOK
<1>6. TypeOK'
  BY <1>3, <1>4 DEF Issue, IInv, TypeOK
<1>7. ProfileNotOlder'
  <2> SUFFICES ASSUME NEW o \in Kinds, Busy(o)', jobs'[o].profile # None
               PROVE  jobs'[o].profile <= jobs'[o].since
    BY DEF ProfileNotOlder
  <2>1. CASE o = k
    BY <1>0, <1>2, <1>4, <2>1 DEF Running
  <2>2. CASE o # k
    BY <1>5, <2>2 DEF IInv, ProfileNotOlder, Busy
  <2> QED
    BY <2>1, <2>2
<1>8. AgeBounded'
  <2>1. "scheduler" \in Kinds /\ UNCHANGED <<age, next>>
    BY DEF Kinds, Issue
  <2>2. Busy("scheduler")' <=> Busy("scheduler")
    BY <1>2, <1>4, <1>5, <2>1, RunningIsNotNoJob DEF Busy
  <2>3. jobs'["scheduler"].since = jobs["scheduler"].since
    BY <1>4, <1>5, <2>1
  <2> QED
    BY <1>1, <2>1, <2>2, <2>3 DEF IInv, AgeBounded
<1> QED
  BY <1>6, <1>7, <1>8 DEF IInv

(* A job that ends leaves the others as they are.                          *)
LEMMA JobEnds ==
  ASSUME IInv, NEW k \in Kinds, jobs' = [jobs EXCEPT ![k] = NoJob]
  PROVE  /\ jobs' \in [Kinds -> Running \cup {NoJob}]
         /\ ProfileNotOlder'
         /\ ~Busy(k)'
         /\ \A o \in Kinds \ {k} : jobs'[o] = jobs[o]
BY DEF IInv, TypeOK, ProfileNotOlder, Busy

LEMMA MarkIInv == ASSUME NEW k \in Kinds PROVE IInv /\ Mark(k) => IInv'
<1> SUFFICES ASSUME IInv, Mark(k) PROVE IInv'
  OBVIOUS
<1>0. /\ Interval \in Nat /\ MaxJob \in Nat /\ MaxFailures \in Nat
      /\ Lifetime \in Nat /\ Window \in 0..Lifetime
  BY RefreshAssumption
<1>1. "scheduler" \in Kinds
  BY DEF Kinds
<1>2. jobs' = [jobs EXCEPT ![k] = NoJob] /\ age' = 0 /\ fails' = 0 /\ next' = next /\ next \in 0..Interval
  BY DEF Mark, IInv, TypeOK
<1>3. lead' \in 0..MaxJob
  BY BusyJob DEF Mark, IInv, Running
<1>4. TypeOK' /\ ProfileNotOlder'
  <2>1. jobs' \in [Kinds -> Running \cup {NoJob}] /\ ProfileNotOlder'
    BY <1>2, JobEnds
  <2> QED
    BY <1>0, <1>2, <1>3, <2>1 DEF TypeOK
<1>5. Horizon' = Lifetime - Window + Interval
  BY <1>0, <1>2 DEF Horizon
<1>6. CASE Busy("scheduler")'
  <2>1. k # "scheduler" /\ jobs'["scheduler"] = jobs["scheduler"]
    BY <1>1, <1>2, <1>6, JobEnds
  <2>2. Busy("scheduler") /\ jobs["scheduler"].since \in 0..MaxJob
    BY <1>1, <1>6, <2>1, BusyJob DEF Busy, IInv, Running
  <2> QED
    BY <1>0, <1>2, <1>5, <1>6, <2>1, <2>2, <1>4 DEF IInv, AgeBounded
<1>7. CASE ~Busy("scheduler")'
  BY <1>0, <1>2, <1>4, <1>5, <1>7 DEF IInv, AgeBounded
<1> QED
  BY <1>6, <1>7

LEMMA FailIInv == ASSUME NEW k \in Kinds PROVE IInv /\ Fail(k) => IInv'
<1> SUFFICES ASSUME IInv, Fail(k) PROVE IInv'
  OBVIOUS
<1>0. Interval \in Nat /\ MaxJob \in 0..(Interval - 1) /\ MaxFailures \in Nat
  BY RefreshAssumption
<1>1. "scheduler" \in Kinds
  BY DEF Kinds
<1>2. jobs' = [jobs EXCEPT ![k] = NoJob] /\ UNCHANGED <<age, lead, next>>
  BY DEF Fail
<1>3. TypeOK' /\ ProfileNotOlder'
  <2>1. jobs' \in [Kinds -> Running \cup {NoJob}] /\ ProfileNotOlder'
    BY <1>2, JobEnds
  <2>2. fails' \in 0..MaxFailures
    BY <1>0 DEF Fail, OneMore, IInv, TypeOK
  <2> QED
    BY <1>2, <2>1, <2>2 DEF IInv, TypeOK
<1>4. Horizon \in Int /\ age \in Nat /\ next \in 0..Interval /\ fails \in 0..MaxFailures
  BY HorizonBounds DEF IInv, TypeOK
<1>5. CASE k = "scheduler"
  <2>1. Horizon' = Horizon + Interval
    BY <1>4, <1>5, HorizonMoves DEF Fail, OneMore
  <2>2. Busy("scheduler") /\ jobs["scheduler"].since \in 0..MaxJob
    BY <1>1, <1>5, BusyJob DEF Fail, IInv, Running
  <2>3. age + next <= Horizon + Interval
    BY <1>0, <1>4, <2>2 DEF IInv, AgeBounded
  <2>4. ~Busy("scheduler")'
    BY <1>2, <1>5, JobEnds
  <2> QED
    BY <1>2, <1>3, <2>1, <2>3, <2>4 DEF IInv, AgeBounded
<1>6. CASE k # "scheduler"
  <2>1. jobs'["scheduler"] = jobs["scheduler"]
    BY <1>1, <1>2, <1>6, JobEnds
  <2>2. Horizon' = Horizon
    BY <1>6 DEF Fail, Horizon
  <2> QED
    BY <1>2, <1>3, <2>1, <2>2 DEF IInv, AgeBounded, Busy
<1> QED
  BY <1>5, <1>6

LEMMA RestartIInv == IInv /\ Restart => IInv'
<1> SUFFICES ASSUME IInv, Restart PROVE IInv'
  OBVIOUS
<1>0. Interval \in Nat /\ MaxJob \in 0..(Interval - 1) /\ MaxFailures \in Nat
  BY RefreshAssumption
<1>1. "scheduler" \in Kinds
  BY DEF Kinds
<1>2. jobs' = [k \in Kinds |-> NoJob] /\ next' = 0 /\ UNCHANGED <<age, lead>>
  BY DEF Restart
<1>3. TypeOK'
  BY <1>0, <1>2 DEF Restart, OneMore, IInv, TypeOK
<1>4. ProfileNotOlder' /\ ~Busy("scheduler")'
  BY <1>1, <1>2 DEF ProfileNotOlder, Busy
<1>5. Horizon \in Int /\ age \in Nat /\ next \in 0..Interval /\ fails \in 0..MaxFailures
  BY HorizonBounds DEF IInv, TypeOK
<1>6. CASE Busy("scheduler")
  <2>1. Horizon' = Horizon + Interval
    BY <1>5, <1>6, HorizonMoves DEF Restart, OneMore
  <2>2. jobs["scheduler"].since \in 0..MaxJob
    BY <1>1, <1>6, BusyJob DEF IInv, Running
  <2>3. age <= Horizon + Interval
    BY <1>0, <1>5, <1>6, <2>2 DEF IInv, AgeBounded
  <2> QED
    BY <1>2, <1>3, <1>4, <1>5, <2>1, <2>3 DEF IInv, AgeBounded
<1>7. CASE ~Busy("scheduler")
  <2>1. Horizon' = Horizon
    BY <1>7 DEF Restart, Horizon
  <2>2. age <= Horizon
    BY <1>5, <1>7 DEF IInv, AgeBounded
  <2> QED
    BY <1>2, <1>3, <1>4, <1>5, <2>1, <2>2 DEF IInv, AgeBounded
<1> QED
  BY <1>6, <1>7

LEMMA StepIInv == IInv /\ [Next]_vars => IInv'
<1> SUFFICES ASSUME IInv, [Next]_vars PROVE IInv'
  OBVIOUS
<1>1. CASE Advance
  BY <1>1, AdvanceIInv
<1>2. CASE Check
  BY <1>2, CheckIInv
<1>3. CASE RefreshApp
  BY <1>3, RefreshAppIInv
<1>4. CASE Restart
  BY <1>4, RestartIInv
<1>5. ASSUME NEW k \in Kinds, JobStep(k) PROVE IInv'
  BY <1>5, IssueIInv, MarkIInv, FailIInv DEF JobStep
<1>6. CASE UNCHANGED vars
  BY <1>6 DEF vars, IInv, TypeOK, ProfileNotOlder, AgeBounded, Busy, Horizon
<1> QED
  BY <1>1, <1>2, <1>3, <1>4, <1>5, <1>6 DEF Next

LEMMA Invariance == Spec => []IInv
  BY InitIInv, StepIInv, PTL DEF Spec

-----------------------------------------------------------------------------
(* Type correctness: no age, delay or count leaves its range; a job ends   *)
(* before the scheduler looks again.                                       *)
THEOREM TypeCorrect == Spec => []TypeOK
<1>1. IInv => TypeOK
  BY DEF IInv
<1> QED
  BY <1>1, Invariance, PTL

(* Wherever RefreshAssumption holds, the scheduler looks at the record in  *)
(* time: its age never passes the horizon that the failures so far allow.  *)
THEOREM RecordsAreYoung == Spec => []AgeBounded
<1>1. IInv => AgeBounded
  BY DEF IInv
<1> QED
  BY <1>1, Invariance, PTL

(* No app expires while no more than MaxFailures attempts in a row fail.   *)
THEOREM AppsNeverExpire == Spec => []NeverExpires
<1>1. IInv => NeverExpires
  <2> SUFFICES ASSUME IInv PROVE NeverExpires
    OBVIOUS
  <2>1. /\ Horizon \in Int /\ Horizon + 2 * MaxJob < Lifetime
        /\ age \in Nat /\ lead \in 0..MaxJob /\ next \in Nat
        /\ MaxJob \in Nat /\ Lifetime \in Nat
    BY HorizonBounds, RefreshAssumption DEF IInv, TypeOK
  <2>2. CASE Busy("scheduler")
    <3>1. jobs["scheduler"].since \in 0..MaxJob
      BY <2>2, BusyJob DEF IInv, Kinds, Running
    <3> QED
      BY <2>1, <2>2, <3>1 DEF IInv, AgeBounded, NeverExpires
  <2>3. CASE ~Busy("scheduler")
    BY <2>1, <2>3 DEF IInv, AgeBounded, NeverExpires
  <2> QED
    BY <2>2, <2>3
<1> QED
  BY <1>1, Invariance, PTL

(* Whatever the scheduler would refresh is shown as expiring soon.         *)
THEOREM DueAppsAreShown == Spec => []DueIsShown
<1>1. TypeOK /\ NeverExpires => DueIsShown
  BY RefreshAssumption DEF TypeOK, NeverExpires, DueIsShown, Due, ExpiringSoon, Expired, Remaining
<1> QED
  BY <1>1, TypeCorrect, AppsNeverExpire, PTL

(* round_up_duration: the whole units that cover n, and no unit more.      *)
LEMMA Rounded ==
  ASSUME NEW n \in Int, NEW unit \in Nat \ {0}
  PROVE  /\ Ceil(n, unit).shown \in Int /\ Ceil(n, unit).unit = unit
         /\ Ceil(n, unit).shown * unit >= n /\ (Ceil(n, unit).shown - 1) * unit < n
<1>1. LET q == (n + unit - 1) \div unit IN q \in Int /\ q * unit >= n /\ (q - 1) * unit < n
  OBVIOUS
<1> QED BY <1>1 DEF Ceil

(* The label never understates what is left, and is less than one of its   *)
(* units off, for any units and whatever is left, nothing included.        *)
THEOREM LabelsAreClose == Spec => []LabelIsClose
<1>1. TypeOK => LabelIsClose
  <2> SUFFICES ASSUME TypeOK PROVE LabelIsClose
    OBVIOUS
  <2> DEFINE n == Remaining
             l == Label(n)
  <2>1. n \in Int
    BY RefreshAssumption DEF TypeOK, Remaining
  <2>2. CASE n <= 0
    <3>1. l = [shown |-> 0, unit |-> 1]
      BY <2>1, <2>2, UnitAssumption DEF Label
    <3> QED BY <2>1, <2>2, <3>1 DEF LabelIsClose
  <2>3. CASE n > 0
    <3>1. PICK unit \in {Day, Hour, Minute, 1} : l = Ceil(n, unit)
      BY <2>1, <2>3, UnitAssumption DEF Label
    <3>2. unit \in Nat \ {0}
      BY UnitAssumption
    <3>3. l.unit = unit /\ l.shown * unit >= n /\ (l.shown - 1) * unit < n
      BY <2>1, <3>1, <3>2, Rounded
    <3> HIDE DEF l
    <3>4. l.shown * l.unit >= n /\ (l.shown - 1) * l.unit < n
      BY <3>3
    <3> QED BY <3>4 DEF LabelIsClose, l
  <2> QED BY <2>1, <2>2, <2>3
<1> QED BY <1>1, TypeCorrect, PTL

=============================================================================
