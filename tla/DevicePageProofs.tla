-------------------------- MODULE DevicePageProofs --------------------------
EXTENDS DevicePage, Integers, TLAPS

Mount == [job : Jobs \cup {None}, timers : Nat, fired : Nat,
          fetch : {None, "sent", "active", "ended", "error"}]

(***************************************************************************)
(* A line is of a job that was started; an answer that says it has ended,  *)
(* and a run of on_done, say so of a job that has.                         *)
(***************************************************************************)
LineInv(v) ==
  Mounted(v) =>
    /\ view[v].job \in Jobs /\ status[view[v].job] # "absent"
    /\ view[v].fetch = "ended" => status[view[v].job] = "ended"
    /\ view[v].fired <= 1
    /\ view[v].fired > 0 => status[view[v].job] = "ended"
    /\ Loops(v) <= 2

(* A new line is of a job that was started.                                *)
ReplyInv == \A a \in Lines : reply[a] \in Jobs => status[reply[a]] # "absent"

ViewInv == (\A v \in Lines : LineInv(v)) /\ ReplyInv /\ Loops("queue") <= 1 + clicks

(***************************************************************************)
(* What a fetch of the list answers is as new as what the page was told,   *)
(* since each time it is told something it starts another.                 *)
(***************************************************************************)
ListInv ==
  /\ list.fetch = "answered" => list.answer = told
  /\ list.fetch = "none" => list.error \/ list.shown = told

-----------------------------------------------------------------------------
(***************************************************************************)
(* All that can happen to a view in a step: it stays, goes, is mounted or  *)
(* clicked, is served, shows an answer, or has a timer fire.               *)
(***************************************************************************)
Polls(v) ==
  \/ /\ Mounted(v) /\ view[v].fetch = "sent"
     /\ \E answer \in {Answer(v), "error"} : view'[v] = [view[v] EXCEPT !.fetch = answer]
  \/ Arrived(v) /\ ~Ends(v) /\ view'[v] = Shown(v, 1)
  \/ Arrived(v) /\ Ends(v) /\ view'[v] = [Shown(v, 1) EXCEPT !.fired = @ + 1]
  \/ /\ Mounted(v) /\ view[v].timers > 0
     /\ view'[v] = [view[v] EXCEPT !.timers = @ - 1, !.fetch = "sent"]

Changes(v) ==
  \/ view'[v] = view[v] \/ view'[v] = None
  \/ v \in Lines /\ reply[v] \in Jobs /\ view'[v] = NewLine(reply[v])
  \/ /\ v = "queue" /\ clicks' = clicks + 1
     /\ view'[v] = NewQueue \/ (Mounted(v) /\ view'[v] = [view[v] EXCEPT !.fetch = "sent"])
  \/ Polls(v)

(* And to what the lines depend on.                                        *)
Onwards ==
  /\ \A j \in Jobs : /\ status[j] # "absent" => status'[j] # "absent"
                     /\ status[j] = "ended" => status'[j] = "ended"
  /\ \A a \in Lines : reply'[a] \in Jobs => reply'[a] = reply[a] \/ status'[reply'[a]] # "absent"
  /\ clicks' \in clicks..MaxClicks

(* A timer that fires, as a change of one view.                            *)
LEMMA Fired ==
  ASSUME TypeOK, NEW v \in Views, TimerFires(v)
  PROVE  Polls(v) /\ \E new : view' = [view EXCEPT ![v] = new]
<1>1. view[v] \in Mount /\ view \in [Views -> {None} \cup Mount] /\ Mounted(v)
  BY DEF TypeOK, TimerFires, Mounted, Mount
<1>2. view' = [view EXCEPT ![v] = [view[v] EXCEPT !.timers = @ - 1, !.fetch = "sent"]]
  BY <1>1 DEF TimerFires, Mount
<1> QED BY <1>1, <1>2 DEF Polls, TimerFires

(* Every step is one of these.                                             *)
LEMMA ViewSteps ==
  ASSUME TypeOK, [Next]_vars
  PROVE  (\A v \in Views : Changes(v)) /\ Onwards
<1> USE PageAssumption DEF TypeOK, Views, Lines
<1>1. ASSUME NEW j \in Jobs, Work(j) PROVE (\A v \in Views : Changes(v)) /\ Onwards
  BY <1>1 DEF Work, page, Changes, Onwards
<1>0. ASSUME NEW j \in Jobs, Remove(j) PROVE (\A v \in Views : Changes(v)) /\ Onwards
  BY <1>0 DEF Remove, page, Changes, Onwards
<1>2. ASSUME NEW j \in Jobs, NEW a \in Lines, StartJob(a, j) PROVE (\A v \in Views : Changes(v)) /\ Onwards
  BY <1>2 DEF StartJob, Dispatch, Clicked, Changes, Onwards
<1>3. CASE \/ \E js \in SUBSET Jobs : Change(js)
           \/ \E a \in {"refresh", "install", "other"} : Fails(a)
  BY <1>3 DEF Change, Fails, Dispatch, Clicked, Changes, Onwards
<1>4. CASE HideForm \/ ClickQueue \/ Navigate
  BY <1>4 DEF HideForm, ClickQueue, Navigate, Clicked, Nothing, NoReply, OnQueuePage, Mounted, Changes, Onwards
<1>5. CASE List
  BY <1>5 DEF List, ServeList, ShowList, Changes, Onwards
<1>6. CASE Rest \/ UNCHANGED vars
  BY <1>6 DEF Rest, vars, page, Changes, Onwards
<1>7. ASSUME NEW a \in {"refresh", "install", "other"}, ArriveAction(a)
      PROVE  (\A v \in Views : Changes(v)) /\ Onwards
  BY <1>7 DEF ArriveAction, Changes, Onwards
<1>8. ASSUME NEW v \in Views, Poll(v) \/ TimerFires(v) PROVE (\A w \in Views : Changes(w)) /\ Onwards
  <2>1. CASE Serve(v)
    BY <2>1 DEF Serve, Changes, Polls, Onwards
  <2>2. CASE Deliver(v)
    BY <2>2 DEF Deliver, Changes, Polls, Onwards
  <2>3. CASE DeliverEnd(v)
    BY <2>3 DEF DeliverEnd, Changes, Polls, Onwards
  <2>4. CASE TimerFires(v)
    <3>1. PICK new : view' = [view EXCEPT ![v] = new]
      BY <2>4, Fired
    <3>2. ASSUME NEW w \in Views PROVE w = v \/ view'[w] = view[w]
      BY <3>1
    <3>3. \A w \in Views : Changes(w)
      BY <2>4, <3>2, Fired DEF Changes
    <3> QED BY <2>4, <3>3 DEF TimerFires, Onwards
  <2> QED BY <1>8, <2>1, <2>2, <2>3, <2>4 DEF Poll
<1> QED BY <1>0, <1>1, <1>2, <1>3, <1>4, <1>5, <1>6, <1>7, <1>8 DEF Next, User

(* A view keeps its type, and what was said of it, in each of them.        *)
LEMMA PollKeeps ==
  ASSUME TypeOK, ViewInv, NEW v \in Views, Polls(v)
  PROVE  /\ view'[v] \in Mount
         /\ Loops(v)' <= Loops(v)
         /\ view[v] \in Mount /\ view'[v].job = view[v].job /\ Mounted(v)
         /\ v \in Lines => /\ view'[v].fetch = "ended" => status[view[v].job] = "ended"
                           /\ view'[v].fired <= 1
                           /\ view'[v].fired > 0 => status[view[v].job] = "ended"
<1> USE PageAssumption DEF Mount
<1>1. view[v] \in Mount /\ Mounted(v)
  BY DEF TypeOK, Polls, Mounted, Arrived
<1>2. v \in Lines => LineInv(v)
  BY DEF ViewInv
<1>3. Answer(v) \in {"active", "ended", "error"}
      /\ (v \in Lines /\ Answer(v) = "ended" => status[view[v].job] = "ended")
  BY <1>1, <1>2 DEF Answer, LineInv, TypeOK, Views, Lines
<1>4. CASE /\ view[v].fetch = "sent"
           /\ \E answer \in {Answer(v), "error"} : view'[v] = [view[v] EXCEPT !.fetch = answer]
  BY <1>1, <1>2, <1>3, <1>4 DEF LineInv, Loops, Mounted
<1>5. ASSUME Arrived(v)
      PROVE  /\ Shown(v, 1) \in Mount /\ Shown(v, 1).job = view[v].job
             /\ Shown(v, 1).fetch = None /\ Shown(v, 1).fired = view[v].fired
             /\ Shown(v, 1).timers <= Loops(v)
  <2>1. view[v].fetch # None
    BY <1>5 DEF Arrived
  <2>2. CASE PollsOn(v, view[v].fetch)
    <3>1. Shown(v, 1) = [view[v] EXCEPT !.fetch = None, !.timers = view[v].timers + 1]
      BY <1>1, <2>2 DEF Shown
    <3>2. view[v].timers + 1 \in Nat /\ Loops(v) = view[v].timers + 1
      BY <1>1, <2>1 DEF Loops
    <3>3. Shown(v, 1) \in Mount /\ Shown(v, 1).job = view[v].job
      BY <1>1, <3>1, <3>2
    <3>4. Shown(v, 1).fetch = None /\ Shown(v, 1).fired = view[v].fired
      BY <1>1, <3>1
    <3>5. Shown(v, 1).timers = view[v].timers + 1
      BY <1>1, <3>1
    <3> QED BY <1>1, <3>2, <3>3, <3>4, <3>5
  <2>3. CASE ~PollsOn(v, view[v].fetch)
    <3>1. Shown(v, 1) = [view[v] EXCEPT !.fetch = None, !.timers = view[v].timers + 0]
      BY <1>1, <2>3 DEF Shown
    <3>2. view[v].timers + 0 \in Nat /\ Loops(v) = view[v].timers + 1
      BY <1>1, <2>1 DEF Loops
    <3>3. Shown(v, 1) \in Mount /\ Shown(v, 1).job = view[v].job
      BY <1>1, <3>1, <3>2
    <3>4. Shown(v, 1).fetch = None /\ Shown(v, 1).fired = view[v].fired
      BY <1>1, <3>1
    <3>5. Shown(v, 1).timers = view[v].timers + 0
      BY <1>1, <3>1
    <3> QED BY <1>1, <3>2, <3>3, <3>4, <3>5
  <2> QED BY <2>2, <2>3
<1>6. CASE Arrived(v) /\ ~Ends(v) /\ view'[v] = Shown(v, 1)
  BY <1>1, <1>2, <1>5, <1>6 DEF LineInv, Loops, Mounted
<1>7. CASE Arrived(v) /\ Ends(v) /\ view'[v] = [Shown(v, 1) EXCEPT !.fired = @ + 1]
  <2>1. /\ view'[v] \in Mount /\ view'[v].job = view[v].job
        /\ view'[v].fetch = None /\ view'[v].fired = view[v].fired + 1
        /\ view'[v].timers <= Loops(v)
    BY <1>5, <1>7
  <2>2. view[v].fired = 0 /\ view[v].fetch = "ended"
    BY <1>7 DEF Ends
  <2> QED BY <1>1, <1>2, <2>1, <2>2 DEF LineInv, Loops, Mounted
<1>8. CASE /\ view[v].timers > 0
           /\ view'[v] = [view[v] EXCEPT !.timers = @ - 1, !.fetch = "sent"]
  <2>1. /\ view'[v] \in Mount /\ view'[v].job = view[v].job /\ view'[v].fired = view[v].fired
        /\ view'[v].timers = view[v].timers - 1 /\ view'[v].fetch = "sent"
    <3>1. view[v].timers - 1 \in Nat
      BY <1>1, <1>8
    <3> QED BY <1>1, <1>8, <3>1
  <2> QED BY <1>1, <1>2, <2>1 DEF LineInv, Loops, Mounted
<1> QED BY <1>4, <1>6, <1>7, <1>8 DEF Polls

(* What is said of the views is inductive.                                 *)
LEMMA ViewStep == TypeOK /\ ViewInv /\ [Next]_vars => ViewInv'
<1> SUFFICES ASSUME TypeOK, ViewInv, [Next]_vars PROVE ViewInv'
  OBVIOUS
<1> USE PageAssumption
<1>1. (\A v \in Views : Changes(v)) /\ Onwards
  BY ViewSteps
<1>2. ASSUME NEW v \in Lines PROVE LineInv(v)'
  <2>1. Changes(v) /\ LineInv(v) /\ v \in Views /\ v # "queue"
    BY <1>1 DEF ViewInv, Views, Lines
  <2>2. CASE view'[v] = view[v] \/ view'[v] = None
    BY <1>1, <2>1, <2>2 DEF LineInv, Mounted, Loops, Onwards
  <2>3. CASE reply[v] \in Jobs /\ view'[v] = NewLine(reply[v])
    <3>1. status'[reply[v]] # "absent"
      BY <1>1, <2>3 DEF ViewInv, ReplyInv, Onwards
    <3> QED BY <2>3, <3>1 DEF LineInv, NewLine, Loops, Mounted
  <2>4. CASE Polls(v)
    <3>1. view[v].job \in Jobs /\ status[view[v].job] # "absent" /\ Loops(v) <= 2
      BY <2>1, <2>4, PollKeeps DEF LineInv
    <3>2. Loops(v) \in Int /\ Loops(v)' \in Int
      BY <2>4, <2>1, PollKeeps DEF Loops, Mount
    <3> QED BY <1>1, <2>1, <2>4, <3>1, <3>2, PollKeeps DEF LineInv, Onwards
  <2> QED BY <2>1, <2>2, <2>3, <2>4 DEF Changes
<1>3. ReplyInv'
  BY <1>1 DEF ViewInv, ReplyInv, Onwards
<1>4. (Loops("queue") <= 1 + clicks)'
  <2>1. Changes("queue") /\ "queue" \notin Lines /\ "queue" \in Views
        /\ clicks \in Nat /\ clicks' \in Int /\ clicks' >= clicks /\ Loops("queue") <= 1 + clicks
    BY <1>1 DEF Views, Lines, Onwards, TypeOK, ViewInv
  <2>2. view["queue"] \in {None} \cup Mount
    BY <2>1 DEF TypeOK, Mount
  <2>3. CASE view'["queue"] = view["queue"] \/ view'["queue"] = None
    BY <2>1, <2>2, <2>3 DEF Loops, Mounted, Mount
  <2>4. CASE clicks' = clicks + 1 /\ view'["queue"] = NewQueue
    BY <2>1, <2>4 DEF Loops, NewQueue, Mounted
  <2>5. CASE /\ clicks' = clicks + 1 /\ Mounted("queue")
             /\ view'["queue"] = [view["queue"] EXCEPT !.fetch = "sent"]
    BY <2>1, <2>2, <2>5 DEF Loops, Mounted, Mount
  <2>6. CASE Polls("queue")
    <3>1. Loops("queue") \in Int /\ Loops("queue")' \in Int
      BY <2>1, <2>6, PollKeeps DEF Loops, Mount
    <3> QED BY <2>1, <2>6, <3>1, PollKeeps
  <2> QED BY <2>1, <2>3, <2>4, <2>5, <2>6 DEF Changes
<1> QED BY <1>2, <1>3, <1>4 DEF ViewInv

-----------------------------------------------------------------------------
(* What is said of the list is inductive on its own.                       *)
LEMMA ListStep == TypeOK /\ ListInv /\ [Next]_vars => ListInv'
<1> SUFFICES ASSUME TypeOK, ListInv, [Next]_vars PROVE ListInv'
  OBVIOUS
<1>0. list \in [shown : 0..told, error : BOOLEAN, answer : 0..told,
                fetch : {"none", "sent", "answered", "failed"}]
  BY DEF TypeOK
<1>1. ASSUME UNCHANGED <<list, told>> \/ Refetch PROVE ListInv'
  BY <1>0, <1>1 DEF ListInv, Refetch
<1>2. CASE List
  <2>1. CASE ServeList
    BY <1>0, <2>1 DEF ServeList, ListInv
  <2>2. CASE ShowList
    <3>1. list'.fetch = "none" /\ list'.shown = list.answer /\ told' = told
      BY <2>2 DEF ShowList
    <3>2. list.fetch = "failed" => list'.error
      BY <2>2 DEF ShowList
    <3> QED BY <2>2, <3>1, <3>2 DEF ShowList, ListInv
  <2> QED BY <1>2, <2>1, <2>2 DEF List
<1>3. CASE Navigate
  BY <1>0, <1>3 DEF Navigate, ListInv, Opened, NoList
<1>4. ASSUME NEW a \in {"refresh", "install", "other"}, ArriveAction(a) PROVE ListInv'
  BY <1>1, <1>4 DEF ArriveAction
<1>5. ASSUME NEW v \in Views, Poll(v) \/ TimerFires(v) PROVE ListInv'
  BY <1>1, <1>5 DEF Poll, Serve, Deliver, DeliverEnd, TimerFires
<1>6. CASE \/ \E j \in Jobs : Work(j) \/ Remove(j)
           \/ \E js \in SUBSET Jobs : Change(js)
           \/ \E j \in Jobs, a \in Lines : StartJob(a, j)
           \/ \E a \in {"refresh", "install", "other"} : Fails(a)
           \/ HideForm \/ ClickQueue \/ Rest \/ UNCHANGED vars
  BY <1>1, <1>6 DEF Work, Remove, StartJob, Fails, Dispatch, Change, HideForm, ClickQueue, Rest, vars, page
<1> QED BY <1>2, <1>3, <1>4, <1>5, <1>6 DEF Next, User

-----------------------------------------------------------------------------
Fetched == [shown : 0..told, error : BOOLEAN, answer : 0..told,
            fetch : {"none", "sent", "answered", "failed"}]

(* A list with nothing in it yet.                                          *)
LEMMA EmptyList ==
  /\ told = 0 => NoList \in Fetched /\ Opened \in Fetched
  /\ told' = 0 => NoList \in Fetched' /\ Opened \in Fetched'
<1>1. told = 0 => NoList \in Fetched
  BY DEF NoList, Fetched
<1>2. told' = 0 => NoList \in Fetched'
  BY DEF NoList, Fetched
<1> QED BY <1>1, <1>2 DEF Opened, Fetched

(* A view that polls keeps its type.                                       *)
LEMMA ServedType ==
  ASSUME TypeOK, ViewInv, NEW v \in Views, Serve(v) \/ Deliver(v) \/ DeliverEnd(v) \/ TimerFires(v)
  PROVE  view' \in [Views -> {None} \cup Mount]
<1>1. view \in [Views -> {None} \cup Mount]
  BY DEF TypeOK, Mount
<1>2. CASE Serve(v)
  <2>1. Polls(v)
    BY <1>1, <1>2 DEF Serve, Polls
  <2> QED BY <1>1, <1>2, <2>1, PollKeeps DEF Serve
<1>3. CASE Deliver(v)
  <2>1. Polls(v)
    BY <1>1, <1>3 DEF Deliver, Polls
  <2> QED BY <1>1, <1>3, <2>1, PollKeeps DEF Deliver
<1>4. CASE DeliverEnd(v)
  <2>1. CASE view'[v] = None
    BY <1>1, <1>4, <2>1 DEF DeliverEnd
  <2>2. CASE view'[v] # None
    <3>1. Polls(v)
      BY <1>1, <1>4, <2>2 DEF DeliverEnd, Polls
    <3> QED BY <1>1, <1>4, <3>1, PollKeeps DEF DeliverEnd
  <2> QED BY <2>1, <2>2
<1>5. CASE TimerFires(v)
  BY <1>1, <1>5, Fired, PollKeeps
<1> QED BY <1>2, <1>3, <1>4, <1>5

(* The type invariant is inductive, given what is said of the views.       *)
LEMMA TypeStep == TypeOK /\ ViewInv /\ [Next]_vars => TypeOK'
<1> SUFFICES ASSUME TypeOK, ViewInv, [Next]_vars PROVE TypeOK'
  OBVIOUS
<1> USE PageAssumption DEF TypeOK, Lines, Views
<1>1. ASSUME NEW j \in Jobs, Work(j) PROVE TypeOK'
  BY <1>1 DEF Work, page, Started
<1>0. ASSUME NEW j \in Jobs, Remove(j) PROVE TypeOK'
  BY <1>0 DEF Remove, page, Started
<1>2. ASSUME NEW j \in Jobs, NEW a \in Lines, StartJob(a, j) PROVE TypeOK'
  BY <1>2 DEF StartJob, Dispatch, Clicked, Started
<1>3. ASSUME NEW js \in SUBSET Jobs, Change(js) PROVE TypeOK'
  BY <1>3 DEF Change, Dispatch, Clicked, Started
<1>4. ASSUME NEW a \in {"refresh", "install", "other"}, Fails(a) PROVE TypeOK'
  BY <1>4 DEF Fails, Dispatch, Clicked, Lost, Started
<1>5. CASE HideForm
  BY <1>5 DEF HideForm, Clicked, Started
<1>6. CASE ClickQueue
  BY <1>6 DEF ClickQueue, Clicked, OnQueuePage, Started
<1>7. CASE Navigate
  <2>1. clicks' \in 0..MaxClicks /\ losses' \in 0..MaxLosses /\ status' = status /\ gone' = gone /\ told' = 0
        /\ answered' = {} /\ reply' = NoReply
    BY <1>7 DEF Navigate, Clicked
  <2>2. view' \in [Views -> {None} \cup Mount]
    BY <1>7 DEF Navigate, Nothing, NewQueue, Mount
  <2>3. list' \in Fetched'
    <3>1. list' \in {NoList, Opened}
      BY <1>7 DEF Navigate
    <3> QED BY <2>1, <3>1, EmptyList
  <2> QED BY <2>1, <2>2, <2>3 DEF Mount, Fetched, NoReply, Started
<1>8. ASSUME Refetch PROVE list' \in Fetched' /\ told' \in Nat
  BY <1>8 DEF Refetch, Fetched
<1>9. CASE List
  <2>1. CASE ServeList
    <3>1. told \in 0..told /\ told' = told /\ losses' \in 0..MaxLosses
      BY <2>1 DEF ServeList, Lost
    <3>2. list' \in Fetched'
      BY <2>1, <3>1 DEF ServeList, Fetched
    <3> QED BY <2>1, <3>1, <3>2 DEF ServeList, Fetched, Started
  <2>2. CASE ShowList
    <3>1. (list.fetch = "failed") \in BOOLEAN /\ list.answer \in 0..told /\ told' = told
      BY <2>2 DEF ShowList
    <3>2. list' \in Fetched'
      BY <2>2, <3>1 DEF ShowList, Fetched
    <3> QED BY <2>2, <3>2 DEF ShowList, Fetched, Started
  <2> QED BY <1>9, <2>1, <2>2 DEF List
<1>10. ASSUME NEW a \in {"refresh", "install", "other"}, ArriveAction(a) PROVE TypeOK'
  <2>1. list' \in Fetched' /\ told' \in Nat
    BY <1>8, <1>10 DEF ArriveAction, Fetched
  <2>2. view' \in [Views -> {None} \cup Mount]
    BY <1>10 DEF ArriveAction, NewLine, Mount
  <2> QED BY <1>10, <2>1, <2>2 DEF ArriveAction, Fetched, Mount, Started
<1>11. ASSUME NEW v \in Views, Poll(v) \/ TimerFires(v) PROVE TypeOK'
  <2>1. view' \in [Views -> {None} \cup Mount]
    BY <1>11, ServedType DEF Poll
  <2>2. list' \in Fetched' /\ told' \in Nat
    BY <1>8, <1>11 DEF Poll, Serve, Deliver, DeliverEnd, TimerFires, Fetched
  <2> QED BY <1>11, <2>1, <2>2 DEF Poll, Serve, Deliver, DeliverEnd, TimerFires, Lost, Fetched, Mount, Started
<1>12. CASE Rest \/ UNCHANGED vars
  BY <1>12 DEF Rest, vars, page, Started
<1> QED BY <1>0, <1>1, <1>2, <1>3, <1>4, <1>5, <1>6, <1>7, <1>9, <1>10, <1>11, <1>12 DEF Next, User

IInv == TypeOK /\ ViewInv /\ ListInv

(* The inductive invariant holds.                                          *)
LEMMA InvHolds == Spec => []IInv
<1>1. Init => IInv
  <2> SUFFICES ASSUME Init PROVE IInv
    OBVIOUS
  <2> USE PageAssumption DEF Init
  <2>1. list \in Fetched /\ told = 0 /\ list.fetch = "sent"
    BY EmptyList DEF Opened, NoList
  <2>2. reply \in [{"refresh", "install", "other"} -> {None}] /\ view \in [Views -> {None}]
    BY DEF NoReply, Nothing
  <2>3. TypeOK
    BY <2>1, <2>2 DEF TypeOK, Fetched, Started
  <2>4. ViewInv /\ ListInv
    BY <2>1, <2>2 DEF ViewInv, ReplyInv, LineInv, ListInv, Mounted, Loops, Views, Lines
  <2> QED BY <2>3, <2>4 DEF IInv
<1>2. IInv /\ [Next]_vars => IInv'
  BY TypeStep, ViewStep, ListStep DEF IInv
<1> QED BY <1>1, <1>2, PTL DEF Spec

(* Whatever the clicks, answers and timers, a progress line has no more    *)
(* than the two loops it is mounted with, and the queue page one for       *)
(* itself and one for each click: no series of steps multiplies them.      *)
THEOREM LoopsDoNotMultiply == Spec => []LoopsBounded
<1>1. IInv => LoopsBounded
  BY DEF IInv, ViewInv, LineInv, LoopsBounded, Loops
<1> QED BY <1>1, InvHolds, PTL

(* on_done runs at most once for a line, and never before its job ended.   *)
THEOREM EndsOnce == Spec => []DoneOnce
<1>1. IInv => DoneOnce
  BY DEF IInv, ViewInv, LineInv, DoneOnce
<1> QED BY <1>1, InvHolds, PTL

(* Once the last fetch of the list is answered it is as new as what the    *)
(* page was told, for any number of jobs, clicks and lost requests.        *)
THEOREM ListFollows == Spec => []ListIsAsNewAsTold
<1>1. IInv => ListIsAsNewAsTold
  BY DEF IInv, ListInv, ListIsAsNewAsTold
<1> QED BY <1>1, InvHolds, PTL
=============================================================================
