----------------------------- MODULE DevicePage -----------------------------
(***************************************************************************)
(* The page of a device in the browser, beside the jobs it starts: the     *)
(* list of apps, the buttons that change it, the install form, and the     *)
(* progress lines that follow a job by polling; and the queue page the     *)
(* user may go to, which polls as well.  Of what the list says only its    *)
(* age counts.  What Leptos does is external: a fetch or a dispatch that   *)
(* starts supersedes the one under way, whose request is served all the    *)
(* same; a value stays until the next answer; an effect is run again by    *)
(* what it read in its last run; a page that is left is gone.              *)
(***************************************************************************)
EXTENDS Naturals, FiniteSets

CONSTANTS Jobs, None,
          MaxLosses,  \* bound on the requests that fail
          MaxClicks   \* bound on the clicks of the user

ASSUME PageAssumption ==
  /\ MaxLosses \in Nat /\ MaxClicks \in Nat /\ IsFiniteSet(Jobs)
  /\ None \notin Jobs \cup {"ok", "sent", "active", "ended", "error"}
  /\ Jobs \cap {"ok", "error"} = {}

VARIABLES
  status,    \* status[j]: jobs.status, "active" for queued and running, "ended" for done and failed
  gone,      \* the jobs whose rows went with their app's; status keeps what they last said
  reply,     \* reply[a]: the answer to the latest dispatch of action a, on its way
  answered,  \* the actions whose version is above 0
  list,      \* the resource apps: the age of what is shown, and the fetch under way
  view,      \* view[v]: a progress line or the queue page, None when not mounted
  told,      \* history: how often the page was told of a change on the server
  losses, clicks

page   == <<reply, answered, list, view, told>>
vars   == <<status, gone, page, losses, clicks>>

Lines   == {"refresh", "install"}
Views   == Lines \cup {"queue"}
Actions == <<"refresh", "other">>   \* as the effect reads them; install_action is not one

(* A view when it is mounted.  The first run of JobProgress's effect finds *)
(* no answer and sets a timer beside the fetch that is already under way.  *)
NewLine(j) == [job |-> j, fetch |-> "sent", timers |-> 1, fired |-> 0]
NewQueue   == [job |-> None, fetch |-> "sent", timers |-> 0, fired |-> 0]

NoList    == [shown |-> 0, error |-> FALSE, fetch |-> "none", answer |-> 0]
Nothing   == [v \in Views |-> None]
NoReply   == [a \in {"refresh", "install", "other"} |-> None]

(* The device page, just opened: its list is on its way.                   *)
Opened == [NoList EXCEPT !.fetch = "sent"]
OnQueuePage == view["queue"] # None

Init ==
  /\ status = [j \in Jobs |-> "absent"] /\ gone = {}
  /\ reply = NoReply /\ answered = {} /\ list = Opened /\ view = Nothing
  /\ told = 0 /\ losses = 0 /\ clicks = 0

-----------------------------------------------------------------------------
(* execute_job; a job that a restart or a hung device holds up stays active. *)
Work(j) ==
  /\ status[j] = "active" /\ j \notin gone
  /\ status' = [status EXCEPT ![j] = "ended"]
  /\ UNCHANGED <<gone, page, losses, clicks>>

(* The rows of jobs go with the row of their app, and may at any time: by  *)
(* a merge, a sync, another browser, or the device's deletion.             *)
Started(js) == js \subseteq {j \in Jobs : status[j] # "absent"}

Remove(j) ==
  /\ Started({j}) /\ j \notin gone
  /\ gone' = gone \cup {j}
  /\ UNCHANGED <<status, page, losses, clicks>>

-----------------------------------------------------------------------------
(* The buttons.                                                            *)

Lost == losses < MaxLosses /\ losses' = losses + 1

Clicked == clicks < MaxClicks /\ clicks' = clicks + 1

Dispatch(a, answer) ==
  /\ ~OnQueuePage /\ Clicked
  /\ reply' = [reply EXCEPT ![a] = answer]
  /\ UNCHANGED <<answered, list, view, told>>

(* RefreshApp, InstallIpa: the answer is the id of a new job, and it does  *)
(* not matter which.                                                       *)
StartJob(a, j) ==
  /\ status[j] = "absent" /\ j = CHOOSE k \in Jobs : status[k] = "absent"
  /\ Dispatch(a, j)
  /\ status' = [status EXCEPT ![j] = "active"]
  /\ UNCHANGED <<gone, losses>>

(* SetRefreshEnabled, DeleteApp, ReconcileApps: what they delete takes the *)
(* jobs js with it.                                                        *)
Change(js) ==
  /\ Started(js) /\ Dispatch("other", "ok")
  /\ gone' = gone \cup js
  /\ UNCHANGED <<status, losses>>

Fails(a) ==
  /\ Dispatch(a, "error") /\ Lost
  /\ UNCHANGED <<status, gone>>

(* The button above the install form hides it, and its line with it.       *)
HideForm ==
  /\ view["install"] # None \/ reply["install"] # None
  /\ Clicked
  /\ reply' = [reply EXCEPT !["install"] = None]
  /\ view' = [view EXCEPT !["install"] = None]
  /\ UNCHANGED <<status, gone, answered, list, told, losses>>

(* "Refresh" on the queue page.                                            *)
ClickQueue ==
  /\ OnQueuePage /\ Clicked
  /\ view' = [view EXCEPT !["queue"].fetch = "sent"]
  /\ UNCHANGED <<status, gone, reply, answered, list, told, losses>>

(* From one page to the other: nothing of the page that is left remains.   *)
Navigate ==
  /\ Clicked
  /\ reply' = NoReply /\ answered' = {} /\ told' = 0
  /\ IF OnQueuePage THEN view' = Nothing /\ list' = Opened
                    ELSE view' = [Nothing EXCEPT !["queue"] = NewQueue] /\ list' = NoList
  /\ UNCHANGED <<status, gone, losses>>

-----------------------------------------------------------------------------
(* The list of apps.                                                       *)

(* Defect: a refetch is left out while another fetch is under way. *)
RefetchIfIdle ==
  /\ list' = IF list.fetch = "none" THEN [list EXCEPT !.fetch = "sent"] ELSE list
  /\ told' = told + 1

(* apps.refetch(), when the page has been told of a change.                *)
Refetch == list' = [list EXCEPT !.fetch = "sent"] /\ told' = told + 1

ServeList ==
  /\ list.fetch = "sent"
  /\ \/ list' = [list EXCEPT !.fetch = "answered", !.answer = told] /\ UNCHANGED losses
     \/ list' = [list EXCEPT !.fetch = "failed"] /\ Lost
  /\ UNCHANGED <<status, gone, reply, answered, view, told, clicks>>

ShowList ==
  /\ list.fetch \in {"answered", "failed"}
  /\ list' = [shown |-> list.answer, error |-> list.fetch = "failed", fetch |-> "none",
              answer |-> 0]
  /\ UNCHANGED <<status, gone, reply, answered, view, told, losses, clicks>>

-----------------------------------------------------------------------------
(* An action is answered: its version rises, and the effect runs if it has *)
(* read that version.  It reads them in order, up to the first one above   *)
(* 0, so an answered action hides those that come after it.                *)
Heard(a) ==
  \E i \in DOMAIN Actions : /\ Actions[i] = a
                            /\ \A k \in 1..i - 1 : Actions[k] \notin answered

ArriveAction(a) ==
  /\ reply[a] # None
  /\ reply' = [reply EXCEPT ![a] = None]
  /\ answered' = answered \cup {a}
  /\ IF Heard(a) THEN Refetch ELSE UNCHANGED <<list, told>>
  /\ view' = IF a \in Lines /\ reply[a] \in Jobs
               THEN [view EXCEPT ![a] = NewLine(reply[a])]   \* the line before it is dropped
             ELSE IF a = "refresh" THEN [view EXCEPT ![a] = None]
             ELSE view
  /\ UNCHANGED <<status, gone, losses, clicks>>

-----------------------------------------------------------------------------
(* A view polls.                                                           *)

Mounted(v) == view[v] # None

(* job_status answers "Job not found" for a job whose row is gone.         *)
Answer(v) == IF v # "queue" THEN IF view[v].job \in gone THEN "error" ELSE status[view[v].job]
             ELSE IF \E j \in Jobs \ gone : status[j] = "active" THEN "active" ELSE "ended"

Serve(v) ==
  /\ Mounted(v) /\ view[v].fetch = "sent"
  /\ \/ view' = [view EXCEPT ![v].fetch = Answer(v)] /\ UNCHANGED losses
     \/ view' = [view EXCEPT ![v].fetch = "error"] /\ Lost
  /\ UNCHANGED <<status, gone, reply, answered, list, told, clicks>>

(* Defect: the progress line stops at an error, as the queue does. *)
StopsAtError(v, answer) == answer = "active"

(* ~is_done for a progress line, has_active for the queue.                 *)
PollsOn(v, answer) == IF v = "queue" THEN answer = "active" ELSE answer # "ended"

Shown(v, timers) ==
  [view[v] EXCEPT !.fetch = None,
                  !.timers = @ + (IF PollsOn(v, view[v].fetch) THEN timers ELSE 0)]

Arrived(v) == Mounted(v) /\ view[v].fetch \notin {None, "sent"}

(* Defect: on_done is run at every final answer. *)
EndsAgain(v) == v \in Lines /\ view[v].fetch = "ended"

(* The first final answer of a line.                                       *)
Ends(v) == v \in Lines /\ view[v].fetch = "ended" /\ view[v].fired = 0

(* Defect: two effects set a timer each. *)
DeliverTwice(v) ==
  /\ Arrived(v) /\ ~Ends(v)
  /\ view' = [view EXCEPT ![v] = Shown(v, 2)]
  /\ UNCHANGED <<status, gone, reply, answered, list, told, losses, clicks>>

(* The answer is shown, and an effect sets the next timer.                 *)
Deliver(v) ==
  /\ Arrived(v) /\ ~Ends(v)
  /\ view' = [view EXCEPT ![v] = Shown(v, 1)]
  /\ UNCHANGED <<status, gone, reply, answered, list, told, losses, clicks>>

(* Defect: on_done of the install form closes it and leaves the list. *)
DeliverEndQuiet(v) ==
  /\ Arrived(v) /\ Ends(v)
  /\ view' = [view EXCEPT ![v] = IF v = "install" THEN None ELSE [Shown(v, 1) EXCEPT !.fired = 1]]
  /\ told' = told + 1
  /\ UNCHANGED <<status, gone, reply, answered, list, losses, clicks>>

(* The first answer that is final runs on_done: the list is fetched, and   *)
(* the install form closes, whether the job went well or not.              *)
DeliverEnd(v) ==
  /\ Arrived(v) /\ Ends(v)
  /\ view' = [view EXCEPT ![v] = IF v = "install" THEN None ELSE [Shown(v, 1) EXCEPT !.fired = @ + 1]]
  /\ reply' = IF v = "install" THEN [reply EXCEPT ![v] = None] ELSE reply
  /\ Refetch
  /\ UNCHANGED <<status, gone, answered, losses, clicks>>

TimerFires(v) ==
  /\ Mounted(v) /\ view[v].timers > 0
  /\ view' = [view EXCEPT ![v].timers = @ - 1, ![v].fetch = "sent"]
  /\ UNCHANGED <<status, gone, reply, answered, list, told, losses, clicks>>

-----------------------------------------------------------------------------
User == \/ \E j \in Jobs, a \in Lines : StartJob(a, j)
        \/ \E js \in SUBSET Jobs : Change(js)
        \/ HideForm \/ ClickQueue \/ Navigate
        \/ \E a \in {"refresh", "install", "other"} : Fails(a)

Poll(v) == Serve(v) \/ Deliver(v) \/ DeliverEnd(v)
List    == ServeList \/ ShowList

Quiet == /\ \A v \in Views : Mounted(v) => view[v].timers = 0 /\ view[v].fetch = None
         /\ list.fetch = "none"
Rest == Quiet /\ UNCHANGED vars

Next == \/ \E j \in Jobs : Work(j) \/ Remove(j)
        \/ User \/ List \/ Rest
        \/ \E a \in {"refresh", "install", "other"} : ArriveAction(a)
        \/ \E v \in Views : Poll(v) \/ TimerFires(v)

Spec == Init /\ [][Next]_vars

(* Requests are answered and timers fire; jobs need not end.               *)
FairSpec ==
  /\ Spec
  /\ \A v \in Lines : WF_vars(Poll(v) \/ TimerFires(v))

-----------------------------------------------------------------------------
(* Properties *)

TypeOK ==
  /\ status \in [Jobs -> {"absent", "active", "ended"}] /\ Started(gone) /\ told \in Nat
  /\ reply \in [{"refresh", "install", "other"} -> Jobs \cup {None, "ok", "error"}]
  /\ answered \subseteq {"refresh", "install", "other"}
  /\ list \in [shown : 0..told, error : BOOLEAN, answer : 0..told,
              fetch : {"none", "sent", "answered", "failed"}]
  /\ view \in [Views -> {None} \cup [job : Jobs \cup {None}, timers : Nat, fired : Nat,
                                     fetch : {None, "sent", "active", "ended", "error"}]]
  /\ losses \in 0..MaxLosses /\ clicks \in 0..MaxClicks

(* Fetches do not multiply: a progress line has its two loops, the queue   *)
(* page one for itself and one for each click.                             *)
Loops(v) == IF ~Mounted(v) THEN 0 ELSE view[v].timers + IF view[v].fetch = None THEN 0 ELSE 1
LoopsBounded == /\ \A v \in Lines : Loops(v) <= 2
                /\ Loops("queue") <= 1 + clicks

(* on_done runs once for a line, and not before its job has ended.         *)
DoneOnce ==
  \A v \in Lines : Mounted(v) => view[v].fired <= 1 /\ (view[v].fired > 0 => status[view[v].job] = "ended")

(* Once nothing is being fetched, the list shows everything that had       *)
(* happened when the page was last told of a change, in whichever order    *)
(* clicks, answers, jobs' ends and earlier fetches came; or an error.      *)
ListIsAsNewAsTold == ~OnQueuePage /\ list.fetch = "none" => list.error \/ list.shown = told

(* A line whose job has ended shows it, and tells the list, though a       *)
(* request for it failed: unless another line takes its place, the form is *)
(* hidden, the page is left, or the row of the job goes before it is read. *)
EndIsShown ==
  \A j \in Jobs, v \in Lines :
    (Mounted(v) /\ view[v].job = j /\ status[j] = "ended")
      ~> (~Mounted(v) \/ view[v].job # j \/ view[v].fired = 1 \/ j \in gone)

=============================================================================
