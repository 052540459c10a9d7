---------------------------- MODULE LoginSession ----------------------------
(***************************************************************************)
(* Apple ID logins in flight: begin_login starts a thread that talks to    *)
(* Apple and blocks in the two-factor callback; the browser follows with   *)
(* poll_login and submit_two_factor, any number of them at once.  They     *)
(* meet in PendingLogin (a prompt, a one-slot channel for the answer, the  *)
(* result and the finalized flag) and in the map AppState.pending_logins.  *)
(* A round is one prompt and its answer: Apple may ask again and again.    *)
(***************************************************************************)
EXTENDS Integers, FiniteSets

CONSTANTS Sessions,   \* session keys, a fresh one for every begin_login
          NoSession,  \* the null value
          Calls,      \* server functions in flight at the same time
          MaxRounds,  \* bound on the prompts of one login
          Cancels,    \* may a client drop its connection while its call waits?
          DbErrors    \* may insert_account fail?

ASSUME LoginAssumption == /\ NoSession \notin Sessions
                          /\ MaxRounds \in Nat
                          /\ Cancels \in BOOLEAN /\ DbErrors \in BOOLEAN

VARIABLES
  thread,     \* thread[s]: where the login thread of s stands
  round,      \* round[s]: prompts it has published
  prompt,     \* prompt[s]: PendingLogin.prompt, the number of its round or 0 for None
  slot,       \* slot[s]: the buffer of action_sender, an answer or Empty
  result,     \* result[s]: PendingLogin.result: "none", "ok" or "err"
  finalized,  \* finalized[s]: PendingLogin.finalized
  logins,     \* the keys of AppState.pending_logins
  saved,      \* saved[s]: how many times the account of s was inserted
  cpc,        \* cpc[c]: where call c stands
  csess,      \* csess[c]: the session it works on, NoSession when idle
  answer,     \* answer[c]: what submit_two_factor is about to send
  keyOut,     \* sessions whose key a browser has been given
  aborted,    \* history: sessions whose thread was sent an Abort
  observed,   \* history: sessions whose result a call has read
  told        \* history: sessions for which a call answered Complete

threadVars == <<thread, round, prompt, slot, result>>
callVars   == <<cpc, csess, answer, keyOut>>
history    == <<aborted, observed, told>>
vars == <<thread, round, prompt, slot, result, finalized, logins, saved,
          cpc, csess, answer, keyOut, aborted, observed, told>>

Answers == [round : 0..MaxRounds, abort : BOOLEAN]
Empty   == [round |-> 0, abort |-> FALSE]   \* no answer: rounds count from 1

Threads == {"none", "apple", "waiting", "aborting", "post", "failed", "over"}
CallPCs == {"idle", "peek", "prompt", "remove", "swap", "insert", "take", "send", "unmap"}

(* The receiver lives in the callback, which login() drops when it returns. *)
RxOpen(s) == thread[s] \in {"apple", "waiting", "aborting"}

Init ==
  /\ thread = [s \in Sessions |-> "none"]
  /\ round  = [s \in Sessions |-> 0]
  /\ prompt = [s \in Sessions |-> 0]
  /\ slot   = [s \in Sessions |-> Empty]
  /\ result = [s \in Sessions |-> "none"]
  /\ finalized = [s \in Sessions |-> FALSE]
  /\ logins = {}
  /\ saved  = [s \in Sessions |-> 0]
  /\ cpc    = [c \in Calls |-> "idle"]
  /\ csess  = [c \in Calls |-> NoSession]
  /\ answer = [c \in Calls |-> Empty]
  /\ keyOut = {}
  /\ aborted = {} /\ observed = {} /\ told = {}

-----------------------------------------------------------------------------
(* The login thread.                                                       *)

To(s, state) == thread' = [thread EXCEPT ![s] = state]

(* Apple asks for a second factor: the callback publishes the prompt and   *)
(* blocks on the channel.                                                  *)
Publish(s) ==
  /\ thread[s] = "apple" /\ round[s] < MaxRounds
  /\ round'  = [round EXCEPT ![s] = @ + 1]
  /\ prompt' = [prompt EXCEPT ![s] = round[s] + 1]
  /\ To(s, "waiting")
  /\ UNCHANGED <<slot, result, finalized, logins, saved, callVars, history>>

(* Defect: the callback passes Abort on as if it were an answer. *)
ReceiveAny(s) ==
  /\ thread[s] = "waiting" /\ slot[s] # Empty
  /\ slot' = [slot EXCEPT ![s] = Empty]
  /\ To(s, "apple")
  /\ UNCHANGED <<round, prompt, result, finalized, logins, saved, callVars, history>>

(* The callback gets its answer; Abort makes login() fail.                 *)
Receive(s) ==
  /\ thread[s] = "waiting" /\ slot[s] # Empty
  /\ slot' = [slot EXCEPT ![s] = Empty]
  /\ To(s, IF slot[s].abort THEN "aborting" ELSE "apple")
  /\ UNCHANGED <<round, prompt, result, finalized, logins, saved, callVars, history>>

(* Defect: recv() instead of recv_timeout. *)
TimeoutNever(s) == FALSE

(* Nobody answered in 300 s: the same as an Abort.  The prompt stays.      *)
Timeout(s) ==
  /\ thread[s] = "waiting" /\ slot[s] = Empty
  /\ To(s, "aborting")
  /\ UNCHANGED <<round, prompt, slot, result, finalized, logins, saved, callVars, history>>

(* login() returns; what follows a success (token, teams) may still fail.  *)
LoginReturns(s) ==
  /\ \/ thread[s] = "apple"    /\ (To(s, "post") \/ To(s, "failed"))
     \/ thread[s] = "aborting" /\ To(s, "failed")
     \/ thread[s] = "post"     /\ To(s, "failed")
  /\ UNCHANGED <<round, prompt, slot, result, finalized, logins, saved, callVars, history>>

WriteResult(s) ==
  /\ thread[s] \in {"post", "failed"}
  /\ result' = [result EXCEPT ![s] = IF thread[s] = "post" THEN "ok" ELSE "err"]
  /\ To(s, "over")
  /\ UNCHANGED <<round, prompt, slot, finalized, logins, saved, callVars, history>>

ThreadStep(s) == Publish(s) \/ Receive(s) \/ Timeout(s) \/ LoginReturns(s) \/ WriteResult(s)

-----------------------------------------------------------------------------
(* The calls.                                                              *)

At(c, where) == cpc' = [cpc EXCEPT ![c] = where]

(* The call answers its client, who knows the key from then on.            *)
Reply(c) ==
  /\ At(c, "idle")
  /\ csess'  = [csess EXCEPT ![c] = NoSession]
  /\ answer' = [answer EXCEPT ![c] = Empty]
  /\ keyOut' = keyOut \cup {csess[c]}

(* Another call's lock on the result makes try_lock fail in retain.        *)
Contended == {s \in Sessions : \E c \in Calls : cpc[c] = "peek" /\ csess[c] = s}

(* Defect: the map is cleared, whatever the sessions in it are doing. *)
BeginClears(c, s) ==
  /\ cpc[c] = "idle" /\ thread[s] = "none"
  /\ logins' = {s}
  /\ To(s, "apple")
  /\ At(c, "peek")
  /\ csess' = [csess EXCEPT ![c] = s]
  /\ UNCHANGED <<round, prompt, slot, result, finalized, saved, answer, keyOut, history>>

(* begin_login: drop the sessions with an uncollected result, insert the   *)
(* new one, spawn its thread, and wait for a first step.                   *)
Begin(c, s) ==
  /\ cpc[c] = "idle" /\ thread[s] = "none"
  /\ \E kept \in SUBSET Contended :
       logins' = {t \in logins : result[t] = "none" \/ t \in kept} \cup {s}
  /\ To(s, "apple")
  /\ At(c, "peek")
  /\ csess' = [csess EXCEPT ![c] = s]
  /\ UNCHANGED <<round, prompt, slot, result, finalized, saved, answer, keyOut, history>>

(* poll_login and submit_two_factor look the session up; a key that is not *)
(* in the map is answered at once with an error, which changes nothing.    *)
Lookup(c, s, where, a) ==
  /\ cpc[c] = "idle" /\ s \in keyOut /\ s \in logins
  /\ At(c, where)
  /\ csess'  = [csess EXCEPT ![c] = s]
  /\ answer' = [answer EXCEPT ![c] = a]
  /\ UNCHANGED <<threadVars, finalized, logins, saved, keyOut, history>>

Poll(c, s)          == Lookup(c, s, "peek", Empty)
Submit(c, s, abort) == Lookup(c, s, "take", [round |-> 0, abort |-> abort])

(* Defect: the prompt is read but not taken. *)
TakeLeavesPrompt(c) ==
  LET s == csess[c] IN
  /\ cpc[c] = "take" /\ prompt[s] # 0
  /\ answer' = [answer EXCEPT ![c].round = prompt[s]]
  /\ At(c, "send")
  /\ UNCHANGED <<threadVars, finalized, logins, saved, csess, keyOut, history>>

(* prompt.take(): whoever gets it may answer it. *)
Take(c) ==
  LET s == csess[c] IN
  /\ cpc[c] = "take" /\ prompt[s] # 0
  /\ prompt' = [prompt EXCEPT ![s] = 0]
  /\ answer' = [answer EXCEPT ![c].round = prompt[s]]
  /\ At(c, "send")
  /\ UNCHANGED <<thread, round, slot, result, finalized, logins, saved, csess, keyOut, history>>

TakeNothing(c) ==
  /\ cpc[c] = "take" /\ prompt[csess[c]] = 0
  /\ Reply(c)
  /\ UNCHANGED <<threadVars, finalized, logins, saved, history>>

(* action_sender.send(action) blocks the whole worker thread while the     *)
(* slot is taken, and fails once the receiver is gone.                     *)
Send(c) ==
  LET s == csess[c] IN
  /\ cpc[c] = "send" /\ RxOpen(s) /\ slot[s] = Empty
  /\ slot' = [slot EXCEPT ![s] = answer[c]]
  /\ aborted' = IF answer[c].abort THEN aborted \cup {s} ELSE aborted
  /\ At(c, IF answer[c].abort THEN "unmap" ELSE "peek")
  /\ answer' = [answer EXCEPT ![c] = Empty]
  /\ UNCHANGED <<thread, round, prompt, result, finalized, logins, saved, csess, keyOut,
                 observed, told>>

SendFails(c) ==
  /\ cpc[c] = "send" /\ ~RxOpen(csess[c])
  /\ Reply(c)
  /\ UNCHANGED <<threadVars, finalized, logins, saved, history>>

Unmap(c) ==
  /\ cpc[c] = "unmap"
  /\ logins' = logins \ {csess[c]}
  /\ Reply(c)
  /\ UNCHANGED <<threadVars, finalized, saved, history>>

(* await_login_step: read the result, then the prompt, until the deadline. *)
Peek(c) ==
  LET s == csess[c] IN
  /\ cpc[c] = "peek"
  /\ At(c, IF result[s] = "none" THEN "prompt" ELSE "remove")
  /\ observed' = IF result[s] = "none" THEN observed ELSE observed \cup {s}
  /\ UNCHANGED <<threadVars, finalized, logins, saved, csess, answer, keyOut, aborted, told>>

ReplyPrompt(c) ==
  /\ cpc[c] = "prompt" /\ prompt[csess[c]] # 0
  /\ Reply(c)
  /\ UNCHANGED <<threadVars, finalized, logins, saved, history>>

ReplyPending(c) ==
  /\ cpc[c] = "prompt" /\ prompt[csess[c]] = 0
  /\ Reply(c)
  /\ UNCHANGED <<threadVars, finalized, logins, saved, history>>

Tick(c) ==
  /\ cpc[c] = "prompt" /\ prompt[csess[c]] = 0
  /\ At(c, "peek")
  /\ UNCHANGED <<threadVars, finalized, logins, saved, csess, answer, keyOut, history>>

(* The result is there: out of the map, then an error goes to the client.  *)
Remove(c) ==
  LET s == csess[c] IN
  /\ cpc[c] = "remove"
  /\ logins' = logins \ {s}
  /\ \/ result[s] = "ok" /\ At(c, "swap") /\ UNCHANGED <<csess, answer, keyOut>>
     \/ result[s] # "ok" /\ Reply(c)
  /\ UNCHANGED <<threadVars, finalized, saved, history>>

(* Defect: the flag is read, and set only after the insert. *)
SwapReadOnly(c) ==
  LET s == csess[c] IN
  /\ cpc[c] = "swap"
  /\ \/ ~finalized[s] /\ At(c, "insert") /\ UNCHANGED <<csess, answer, keyOut, told>>
     \/ finalized[s] /\ Reply(c) /\ told' = told \cup {s}
  /\ UNCHANGED <<threadVars, finalized, logins, saved, aborted, observed>>

(* finalized.swap(true): the first one goes on to save the account, the    *)
(* others answer Complete at once.                                         *)
Swap(c) ==
  LET s == csess[c] IN
  /\ cpc[c] = "swap"
  /\ finalized' = [finalized EXCEPT ![s] = TRUE]
  /\ \/ ~finalized[s] /\ At(c, "insert") /\ UNCHANGED <<csess, answer, keyOut, told>>
     \/ finalized[s] /\ Reply(c) /\ told' = told \cup {s}
  /\ UNCHANGED <<threadVars, logins, saved, aborted, observed>>

Insert(c) ==
  LET s == csess[c] IN
  /\ cpc[c] = "insert"
  /\ saved' = [saved EXCEPT ![s] = @ + 1]
  /\ told' = told \cup {s}
  /\ Reply(c)
  /\ UNCHANGED <<threadVars, finalized, logins, aborted, observed>>

InsertFails(c) ==
  /\ DbErrors /\ cpc[c] = "insert"
  /\ Reply(c)
  /\ UNCHANGED <<threadVars, finalized, logins, saved, history>>

(* The connection closes and the call's future is dropped at an await.     *)
(* Between take and send, and between remove and swap, there is none.      *)
Cancel(c) ==
  /\ Cancels /\ cpc[c] \in {"peek", "prompt", "remove", "insert", "unmap"}
  /\ At(c, "idle")
  /\ csess' = [csess EXCEPT ![c] = NoSession]
  /\ UNCHANGED <<threadVars, finalized, logins, saved, answer, keyOut, history>>

CallStep(c) ==
  \/ Take(c) \/ TakeNothing(c) \/ Send(c) \/ SendFails(c) \/ Unmap(c)
  \/ Peek(c) \/ ReplyPrompt(c) \/ ReplyPending(c) \/ Tick(c)
  \/ Remove(c) \/ Swap(c) \/ Insert(c) \/ InsertFails(c)

Client(c) == \E s \in Sessions : \/ Begin(c, s) \/ Poll(c, s)
                                 \/ \E abort \in BOOLEAN : Submit(c, s, abort)

(* Every key was used and no client comes back. *)
AllOver == /\ \A s \in Sessions : thread[s] = "over"
           /\ \A c \in Calls : cpc[c] = "idle"
Rest == AllOver /\ UNCHANGED vars

Next == \/ \E s \in Sessions : ThreadStep(s)
        \/ \E c \in Calls : CallStep(c) \/ Cancel(c) \/ Client(c)
        \/ Rest

Spec == Init /\ [][Next]_vars

-----------------------------------------------------------------------------
(* Properties *)

TypeOK ==
  /\ thread \in [Sessions -> Threads]
  /\ round \in [Sessions -> 0..MaxRounds] /\ prompt \in [Sessions -> 0..MaxRounds]
  /\ slot \in [Sessions -> Answers]
  /\ result \in [Sessions -> {"none", "ok", "err"}]
  /\ finalized \in [Sessions -> BOOLEAN]
  /\ logins \subseteq Sessions
  /\ saved \in [Sessions -> 0..1]
  /\ cpc \in [Calls -> CallPCs]
  /\ csess \in [Calls -> Sessions \cup {NoSession}]
  /\ answer \in [Calls -> Answers]
  /\ keyOut \subseteq Sessions /\ aborted \subseteq Sessions
  /\ observed \subseteq Sessions /\ told \subseteq Sessions

(* "A double submit can't leave a stale action buffered for the next       *)
(* round": what lies in the slot answers the prompt last published, and    *)
(* none lies there while the thread is on its way to the next one.         *)
NoStaleAnswer ==
  \A s \in Sessions : slot[s] # Empty => /\ slot[s].round = round[s]
                                         /\ thread[s] # "apple"

(* action_sender.send is a blocking call on a worker thread of the web     *)
(* server: whenever a call reaches it there is room, or no receiver.       *)
SendNeverBlocks ==
  \A c \in Calls : cpc[c] = "send" /\ RxOpen(csess[c]) => slot[csess[c]] = Empty

(* "Concurrent pollers can't insert it twice": among all the calls that    *)
(* see the result, one at most inserts the account, and it does so once.   *)
SavedOnce ==
  \A s \in Sessions :
    Cardinality({c \in Calls : cpc[c] = "insert" /\ csess[c] = s}) + saved[s] <= 1

(* A login the user cancelled never ends in a stored account, whatever     *)
(* other answers, pollers and timeouts it meets.                           *)
AbortedNeverSaved == \A s \in aborted : result[s] # "ok" /\ saved[s] = 0

(* What the users are promised about each sign-in, whichever calls, tabs,  *)
(* timeouts and database errors it meets: its account is stored only       *)
(* after Apple's acceptance, once, and never after a cancellation.         *)
Phase(s) == IF saved[s] = 1            THEN "stored"
            ELSE IF s \in aborted      THEN "cancelled"
            ELSE IF result[s] = "ok"   THEN "accepted"
            ELSE IF result[s] = "err"  THEN "refused"
            ELSE IF thread[s] = "none" THEN "new" ELSE "open"

P == INSTANCE LoginPromise WITH Sessions <- Sessions, phase <- [s \in Sessions |-> Phase(s)]
Promise == P!Spec

(* A login leaves the map early only when its user cancels it: starting    *)
(* another login, or a poll, never loses one that is still under way.      *)
InFlightKept ==
  \A s \in Sessions :
    thread[s] # "none" /\ result[s] = "none" => s \in logins \cup aborted

(* "The session stays in the pending map until a caller observes this      *)
(* result, otherwise a successful login could be dropped."                 *)
SuccessKept ==
  \A s \in Sessions :
    result[s] = "ok" /\ s \notin logins =>
      s \in observed \/ \E c \in Calls : csess[c] = s

=============================================================================
