------------------------------ MODULE LoginForm ------------------------------
(***************************************************************************)
(* AddAccountForm, the client of LoginSession: the sign-in forms of a few  *)
(* browser tabs, each with at most one request under way, beside the login *)
(* threads and the handlers of that module, whose calls they make: form f  *)
(* makes the call f.  A form keeps the key of its sign-in and the prompt   *)
(* it shows; each button starts a task that sends a request and, in        *)
(* advance, polls until there is something to show.  Requests and answers  *)
(* get lost.  The fields of the form, the wording of prompts and the kind  *)
(* of an answer to one are left out.                                       *)
(***************************************************************************)
EXTENDS LoginSession

CONSTANT MaxFailures  \* bound on the requests, answers and inserts that fail

ASSUME FormAssumption == MaxFailures \in Nat

VARIABLES
  form,       \* form[f]: the signals of a form and the task that works for it
  signedIn,   \* history: sessions for which on_success has run
  cancelled,  \* history: sessions whose form's Cancel was clicked
  failures,   \* number of failed requests, answers and inserts
  alone       \* history: sessions that had one of these

past     == <<signedIn, cancelled, failures, alone>>
formVars == <<vars, form, past>>

Steps == {"complete", "twofactor", "pending", "error"}

(* session_key, prompt (its round, 0 for None), pending and error_msg; what *)
(* the task has asked for, with which key, how far the request is, and the *)
(* answer on its way back.                                                 *)
Blank == [key |-> NoSession, prompt |-> 0, pending |-> FALSE, error |-> FALSE,
          task |-> "none", session |-> NoSession, net |-> "none", step |-> "none", round |-> 0]

FormInit == /\ Init
            /\ form = [f \in Calls |-> Blank]
            /\ signedIn = {} /\ cancelled = {} /\ failures = 0 /\ alone = {}

Failure(f) == /\ failures < MaxFailures /\ failures' = failures + 1
              /\ alone' = alone \cup {form[f].session}

-----------------------------------------------------------------------------
(* The buttons, each disabled while pending.                               *)

Ask(f, fields) == form' = [form EXCEPT ![f] = fields]

(* on_submit *)
SignIn(f) ==
  /\ form[f].key = NoSession /\ ~form[f].pending
  /\ Ask(f, [Blank EXCEPT !.pending = TRUE, !.task = "begin", !.net = "sent"])
  /\ UNCHANGED <<vars, past>>

HasPrompt(f) == form[f].key # NoSession /\ form[f].prompt # 0 /\ ~form[f].pending

(* Defect: the prompt stays in view while the request is in flight. *)
ActShows(f) ==
  /\ HasPrompt(f)
  /\ Ask(f, [form[f] EXCEPT !.pending = TRUE, !.error = FALSE,
                            !.task = "submit", !.session = form[f].key, !.net = "sent"])
  /\ UNCHANGED <<vars, past>>

(* act: an answer to the prompt, of any kind but Abort.                    *)
Act(f) ==
  /\ HasPrompt(f)
  /\ Ask(f, [form[f] EXCEPT !.pending = TRUE, !.error = FALSE, !.prompt = 0,
                            !.task = "submit", !.session = form[f].key, !.net = "sent"])
  /\ UNCHANGED <<vars, past>>

(* cancel *)
CancelClick(f) ==
  /\ HasPrompt(f)
  /\ Ask(f, [form[f] EXCEPT !.pending = TRUE, !.error = FALSE, !.prompt = 0,
                            !.task = "abort", !.session = form[f].key, !.net = "sent"])
  /\ cancelled' = cancelled \cup {form[f].key}
  /\ UNCHANGED <<vars, signedIn, failures, alone>>

(* The page is loaded anew, or the form closed and opened again.           *)
Reload(f) ==
  /\ ~form[f].pending /\ form[f] # Blank
  /\ Ask(f, Blank)
  /\ UNCHANGED <<vars, past>>

-----------------------------------------------------------------------------
(* The request: it reaches its handler, or fails on its way.               *)

Served(f, s) == form' = [form EXCEPT ![f].net = "served", ![f].session = s]
Answered(f, step, r) ==
  form' = [form EXCEPT ![f].net = "answered", ![f].step = step, ![f].round = r]

(* Keys are random and never used twice: any fresh one will do.            *)
Fresh == LET new == {s \in Sessions : thread[s] = "none"}
         IN IF new = {} THEN {} ELSE {CHOOSE s \in new : TRUE}

ServeBegin(f) ==
  /\ form[f].net = "sent" /\ form[f].task = "begin"
  /\ \E s \in Fresh : Begin(f, s) /\ Served(f, s)
  /\ UNCHANGED past

(* No fresh key is left: a bound of the model.                             *)
OutOfKeys(f) ==
  /\ form[f].net = "sent" /\ form[f].task = "begin"
  /\ Fresh = {}
  /\ Answered(f, "error", 0)
  /\ UNCHANGED <<vars, past>>

ServeOther(f) ==
  LET s == form[f].session IN
  /\ form[f].net = "sent"
  /\ \/ form[f].task = "poll"   /\ Poll(f, s)
     \/ form[f].task = "submit" /\ Submit(f, s, FALSE)
     \/ form[f].task = "abort"  /\ Submit(f, s, TRUE)
  /\ Served(f, s)
  /\ UNCHANGED past

(* lookup_login does not find the key.                                     *)
ServeMiss(f) ==
  /\ form[f].net = "sent" /\ form[f].task # "begin" /\ form[f].session \notin logins
  /\ Answered(f, "error", 0)
  /\ UNCHANGED <<vars, past>>

(* The handler's steps without an answer ...                               *)
Handle(f) ==
  /\ form[f].net = "served"
  /\ \/ Take(f) \/ Send(f) \/ Peek(f) \/ Tick(f)
     \/ result[form[f].session] = "ok" /\ Remove(f)
     \/ ~finalized[form[f].session] /\ Swap(f)
  /\ UNCHANGED <<form, past>>

(* Defect: the error of the insert is discarded. *)
HandleReplySwallows(f) ==
  /\ form[f].net = "served"
  /\ \/ ReplyPrompt(f) /\ Answered(f, "twofactor", prompt[form[f].session])
     \/ (ReplyPending(f) \/ Unmap(f)) /\ Answered(f, "pending", 0)
     \/ finalized[form[f].session] /\ Swap(f) /\ Answered(f, "complete", 0)
     \/ (Insert(f) \/ InsertFails(f)) /\ Answered(f, "complete", 0)
     \/ (TakeNothing(f) \/ SendFails(f)) /\ Answered(f, "error", 0)
     \/ result[form[f].session] # "ok" /\ Remove(f) /\ Answered(f, "error", 0)
  /\ UNCHANGED past

(* ... and those that answer the client.                                   *)
HandleReply(f) ==
  /\ form[f].net = "served"
  /\ \/ ReplyPrompt(f) /\ Answered(f, "twofactor", prompt[form[f].session])
     \/ (ReplyPending(f) \/ Unmap(f)) /\ Answered(f, "pending", 0)
     \/ finalized[form[f].session] /\ Swap(f) /\ Answered(f, "complete", 0)
     \/ Insert(f) /\ Answered(f, "complete", 0)
     \/ (TakeNothing(f) \/ SendFails(f)) /\ Answered(f, "error", 0)
     \/ result[form[f].session] # "ok" /\ Remove(f) /\ Answered(f, "error", 0)
  /\ UNCHANGED past

InsertError(f) ==
  /\ InsertFails(f)
  /\ Answered(f, "error", 0) /\ Failure(f)
  /\ UNCHANGED <<signedIn, cancelled>>

(* The request never arrives, or its answer does not; or the connection is *)
(* closed, which also ends the handler at its await.                       *)
Lose(f) ==
  /\ form[f].net \in {"sent", "answered"} /\ form[f].step # "error"
  /\ Answered(f, "error", 0) /\ Failure(f)
  /\ UNCHANGED <<vars, signedIn, cancelled>>

Drop(f) ==
  /\ form[f].net = "served" /\ Cancel(f)
  /\ Answered(f, "error", 0) /\ Failure(f)
  /\ UNCHANGED <<signedIn, cancelled>>

-----------------------------------------------------------------------------
(* The answer arrives.                                                     *)

(* The task ends; key, prompt and error stay as they are.                  *)
Done(f) == [Blank EXCEPT !.key = form[f].key, !.prompt = form[f].prompt, !.error = form[f].error]

(* Defect: act forgets to say what went wrong. *)
AfterErrorSilent(f) ==
  IF form[f].task = "submit" THEN Done(f)
                             ELSE [Done(f) EXCEPT !.error = TRUE, !.key = NoSession, !.prompt = 0]

(* An error in advance (of a poll) or of begin_login leads back to the     *)
(* first form; act keeps the key and the prompt, which is hidden.          *)
AfterError(f) ==
  IF form[f].task = "submit" THEN [Done(f) EXCEPT !.error = TRUE]
                             ELSE [Done(f) EXCEPT !.error = TRUE, !.key = NoSession, !.prompt = 0]

(* advance, by the step; a failed Abort is ignored.                        *)
ArriveStep(f, step) ==
  /\ form[f].net = "answered" /\ form[f].step = step /\ form[f].task # "abort"
  /\ UNCHANGED vars

ArriveComplete(f) ==
  /\ ArriveStep(f, "complete")
  /\ Ask(f, [Done(f) EXCEPT !.key = NoSession, !.prompt = 0])
  /\ signedIn' = signedIn \cup {form[f].session}
  /\ UNCHANGED <<cancelled, failures, alone>>

ArrivePrompt(f) ==
  /\ ArriveStep(f, "twofactor")
  /\ Ask(f, [Done(f) EXCEPT !.key = form[f].session, !.prompt = form[f].round])
  /\ UNCHANGED past

(* Defect: the loop of advance leaves on Pending as it does on a prompt. *)
ArrivePendingStops(f) ==
  /\ ArriveStep(f, "pending")
  /\ Ask(f, [Done(f) EXCEPT !.key = form[f].session, !.prompt = 0])
  /\ UNCHANGED past

(* The loop polls on.                                                      *)
ArrivePending(f) ==
  /\ ArriveStep(f, "pending")
  /\ Ask(f, [form[f] EXCEPT !.key = form[f].session, !.prompt = 0, !.task = "poll",
                            !.net = "sent", !.step = "none"])
  /\ UNCHANGED past

(* Defect: return instead of break, past the reset of pending. *)
ArriveErrorReturns(f) ==
  /\ ArriveStep(f, "error")
  /\ Ask(f, [AfterError(f) EXCEPT !.pending = TRUE])
  /\ UNCHANGED past

ArriveError(f) ==
  /\ ArriveStep(f, "error")
  /\ Ask(f, AfterError(f))
  /\ UNCHANGED past

ArriveAbort(f) ==
  /\ form[f].net = "answered" /\ form[f].task = "abort"
  /\ Ask(f, [Done(f) EXCEPT !.key = NoSession])
  /\ UNCHANGED <<vars, past>>

-----------------------------------------------------------------------------
Thread(s) == ThreadStep(s) /\ UNCHANGED <<form, past>>

(* Another user's begin_login, as far as it touches these sign-ins: the    *)
(* ones with an uncollected result go.                                     *)
Sweep ==
  /\ \E kept \in SUBSET Contended :
       logins' = {s \in logins : result[s] = "none" \/ s \in kept}
  /\ UNCHANGED <<thread, round, prompt, slot, result, finalized, saved, cpc, csess, answer,
                 keyOut, aborted, observed, told, form, past>>

Network(f) == ServeBegin(f) \/ OutOfKeys(f) \/ ServeOther(f) \/ ServeMiss(f)
Handler(f) == Handle(f) \/ HandleReply(f) \/ InsertError(f)
Arrive(f)  == ArriveComplete(f) \/ ArrivePrompt(f) \/ ArrivePending(f) \/ ArriveError(f)
              \/ ArriveAbort(f)
Click(f)   == SignIn(f) \/ Act(f) \/ CancelClick(f) \/ Reload(f)

FormNext ==
  \/ \E s \in Sessions : Thread(s)
  \/ \E f \in Calls : Network(f) \/ Handler(f) \/ Arrive(f) \/ Click(f) \/ Lose(f) \/ Drop(f)
  \/ Sweep

FormSpec == FormInit /\ [][FormNext]_formVars

(* Apple's servers answer or the library gives up, recv_timeout returns,   *)
(* tokio polls the handlers, and the deadline of await_login_step ends its *)
(* loop at last; requests and answers that are not lost arrive.  Nobody    *)
(* has to click.                                                           *)
Fairness ==
  /\ \A s \in Sessions : WF_formVars(Thread(s))
  /\ \A f \in Calls : /\ WF_formVars(Network(f)) /\ WF_formVars(Arrive(f)) /\ WF_formVars(Handler(f))
                      /\ SF_formVars(ReplyPending(f) /\ HandleReply(f))

FairSpec == FormSpec /\ Fairness
-----------------------------------------------------------------------------
(* Properties *)

FormTypeOK ==
  /\ TypeOK
  /\ form \in [Calls -> [key : Sessions \cup {NoSession}, prompt : 0..MaxRounds,
                         pending : BOOLEAN, error : BOOLEAN,
                         task : {"none", "begin", "poll", "submit", "abort"},
                         session : Sessions \cup {NoSession},
                         net : {"none", "sent", "served", "answered"},
                         step : Steps \cup {"none"}, round : 0..MaxRounds]]
  /\ signedIn \subseteq Sessions /\ cancelled \subseteq Sessions
  /\ failures \in 0..MaxFailures /\ alone \subseteq Sessions \cup {NoSession}

(* A prompt in view with its buttons enabled is the one the sign-in waits  *)
(* for (or waited for until it timed out), never one that was answered.    *)
AnswersWhatItShows == \A f \in Calls : HasPrompt(f) => prompt[form[f].key] = form[f].prompt

(* "Logged in and the account has been saved": a form that reports success *)
(* to the page finds the account in the list.  (LoginSession alone may     *)
(* tell a second poller too early; no form is one.)                        *)
CompleteMeansSaved == \A s \in signedIn : saved[s] = 1

(* After a click on Cancel no account is ever added, although the Abort is *)
(* only sent at best effort: it may be lost, or come after the timeout.    *)
CancelledNeverSaved == \A s \in cancelled : result[s] # "ok" /\ saved[s] = 0

(* A form that works on nothing offers the sign-in or a prompt, or says    *)
(* what went wrong.                                                        *)
NeverSilent ==
  \A f \in Calls : form[f].pending \/ form[f].key = NoSession \/ form[f].prompt # 0 \/ form[f].error

(* "Contacting Apple..." and "Signing in..." come to an end, however often *)
(* the form has to poll and whatever gets lost.                            *)
FormSettles == \A f \in Calls : form[f].pending ~> ~form[f].pending

(* A sign-in thread ends although its form may have given it up.           *)
ThreadEnds == \A s \in Sessions : thread[s] # "none" ~> thread[s] = "over"

(* A sign-in Apple accepted is stored, as some form still follows it: unless *)
(* a request of it failed, or another begin_login swept it out of the map. *)
Swept(s) == s \notin logins /\ s \notin observed /\ \A c \in Calls : csess[c] # s
AcceptedIsStored ==
  \A s \in Sessions : result[s] = "ok" ~> (saved[s] = 1 \/ s \in alone \/ Swept(s))

=============================================================================
