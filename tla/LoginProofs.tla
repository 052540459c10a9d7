---------------------------- MODULE LoginProofs ----------------------------
(* Theorems of LoginSession, and of the form that is its client (LoginForm). *)
EXTENDS LoginForm, FiniteSetTheorems, TLAPS

(***************************************************************************)
(* The permission to answer a round is handed on like a token: from the    *)
(* published prompt to the call that takes it, from that call to the slot, *)
(* from the slot to the callback.  It is in one place at a time, it        *)
(* carries the number of the current round, and it is gone before the      *)
(* thread goes on to the next round or past the login.                     *)
(***************************************************************************)
NoToken == {"none", "apple", "post"}

Token ==
  /\ \A s \in Sessions :
       /\ prompt[s] # 0 => prompt[s] = round[s] /\ slot[s] = Empty /\ thread[s] \notin NoToken
       /\ slot[s] # Empty => slot[s].round = round[s] /\ thread[s] \notin NoToken
  /\ \A c \in Calls : cpc[c] = "send" =>
       /\ answer[c].round = round[csess[c]] /\ answer[c].round > 0
       /\ prompt[csess[c]] = 0 /\ slot[csess[c]] = Empty /\ thread[csess[c]] \notin NoToken
       /\ \A d \in Calls : cpc[d] = "send" /\ csess[d] = csess[c] => d = c

(* What the place of a call says of its session. *)
CallsOK ==
  \A c \in Calls :
    /\ cpc[c] = "idle" \/ (csess[c] \in Sessions /\ thread[csess[c]] # "none")
    /\ cpc[c] = "remove" => result[csess[c]] # "none"
    /\ cpc[c] \in {"swap", "insert"} => result[csess[c]] = "ok"
    /\ cpc[c] = "unmap" => csess[c] \in aborted

ResultOK ==
  /\ \A s \in Sessions : /\ result[s] # "none" <=> thread[s] = "over"
                         /\ saved[s] = 1 => result[s] = "ok"
  /\ \A s \in keyOut : thread[s] # "none"

(* The account is inserted under the finalized flag: one call at a time. *)
Exclusive ==
  /\ \A s \in Sessions : saved[s] = 1 => finalized[s]
  /\ \A c \in Calls : cpc[c] = "insert" =>
       /\ finalized[csess[c]] /\ saved[csess[c]] = 0
       /\ \A d \in Calls : cpc[d] = "insert" /\ csess[d] = csess[c] => d = c

(* A login that was sent an Abort is on its way to an error. *)
Doomed ==
  \A s \in aborted :
    /\ thread[s] \in {"waiting", "aborting", "failed", "over"} /\ result[s] # "ok"
    /\ thread[s] = "waiting" => slot[s] # Empty /\ slot[s].abort

-----------------------------------------------------------------------------
(* The steps of the system, grouped as the proofs below go through them.   *)
LEMMA LoginSteps ==
  ASSUME [Next]_vars
  PROVE  \/ \E s \in Sessions : ThreadStep(s)
         \/ \E c \in Calls : CallStep(c) \/ Cancel(c)
         \/ \E c \in Calls, s \in Sessions : Begin(c, s)
         \/ \E c \in Calls, s \in Sessions, a \in Answers :
               Lookup(c, s, "peek", a) \/ Lookup(c, s, "take", a)
         \/ UNCHANGED vars
<1>1. \A abort \in BOOLEAN : [round |-> 0, abort |-> abort] \in Answers
  BY LoginAssumption DEF Answers
<1>2. Empty \in Answers
  BY <1>1 DEF Empty
<1> QED BY <1>1, <1>2 DEF Next, Client, Poll, Submit, Rest

-----------------------------------------------------------------------------
(* The answer to a round is in one place only: the prompt, a call's hand or the slot. *)
LEMMA TokenStep == TypeOK /\ CallsOK /\ Token /\ [Next]_vars => Token'
<1> SUFFICES ASSUME TypeOK, CallsOK, Token, [Next]_vars PROVE Token'
  OBVIOUS
<1> USE LoginAssumption DEF Token, NoToken, CallsOK, threadVars, callVars, history, TypeOK, Answers, Empty, Threads,
           CallPCs, RxOpen
<1>1. ASSUME NEW s \in Sessions, ThreadStep(s) PROVE Token'
  <2> USE DEF To
  <2>1. CASE Publish(s)
    BY <2>1 DEF Publish
  <2>2. CASE Receive(s)
    <3> USE <2>2 DEF Receive
    <3>1. prompt[s] = 0 /\ \A c \in Calls : cpc[c] = "send" => csess[c] # s
      OBVIOUS
    <3>2. slot'[s] = Empty /\ thread'[s] \in {"aborting", "apple"}
      OBVIOUS
    <3>3. \A t \in Sessions \ {s} : slot'[t] = slot[t] /\ thread'[t] = thread[t]
      OBVIOUS
    <3>4. \A t \in Sessions : /\ prompt'[t] # 0 => prompt'[t] = round'[t] /\ slot'[t] = Empty
                                                     /\ thread'[t] \notin NoToken
                              /\ slot'[t] # Empty => slot'[t].round = round'[t]
                                                     /\ thread'[t] \notin NoToken
      <4>1. /\ prompt[s] = 0 /\ slot'[s] = Empty /\ UNCHANGED <<prompt, round>>
        BY <3>1, <3>2
      <4>2. \A t \in Sessions \ {s} :
              /\ prompt[t] # 0 => prompt[t] = round[t] /\ slot[t] = Empty /\ thread[t] \notin NoToken
              /\ slot[t] # Empty => slot[t].round = round[t] /\ thread[t] \notin NoToken
        OBVIOUS
      <4> HIDE <2>2 DEF Receive, Empty, Answers, Token, CallsOK, TypeOK, NoToken
      <4> QED
        BY <3>3, <4>1, <4>2
    <3>5. \A c \in Calls : cpc'[c] = "send" =>
            /\ answer'[c].round = round'[csess'[c]] /\ answer'[c].round > 0
            /\ prompt'[csess'[c]] = 0 /\ slot'[csess'[c]] = Empty
            /\ thread'[csess'[c]] \notin NoToken
            /\ \A d \in Calls : cpc'[d] = "send" /\ csess'[d] = csess'[c] => d = c
      <4> SUFFICES ASSUME NEW c \in Calls, cpc'[c] = "send"
                   PROVE  /\ answer'[c].round = round'[csess'[c]] /\ answer'[c].round > 0
                          /\ prompt'[csess'[c]] = 0 /\ slot'[csess'[c]] = Empty
                          /\ thread'[csess'[c]] \notin NoToken
                          /\ \A d \in Calls : cpc'[d] = "send" /\ csess'[d] = csess'[c] => d = c
        OBVIOUS
      <4>1. csess[c] \in Sessions \ {s}
        BY <3>1
      <4>2. /\ slot'[csess[c]] = slot[csess[c]] /\ thread'[csess[c]] = thread[csess[c]]
            /\ UNCHANGED <<cpc, csess, answer, round, prompt>>
        BY <3>3, <4>1
      <4>3. /\ answer[c].round = round[csess[c]] /\ answer[c].round > 0
            /\ prompt[csess[c]] = 0 /\ slot[csess[c]] = Empty /\ thread[csess[c]] \notin NoToken
            /\ \A d \in Calls : cpc[d] = "send" /\ csess[d] = csess[c] => d = c
        BY <4>2
      <4> HIDE <2>2 DEF Receive, Empty, Answers
      <4> QED
        BY <4>2, <4>3
    <3> QED
      BY <3>4, <3>5
  <2>3. CASE Timeout(s)
    BY <2>3 DEF Timeout
  <2>4. CASE LoginReturns(s)
    BY <2>4 DEF LoginReturns
  <2>5. CASE WriteResult(s)
    BY <2>5 DEF WriteResult
  <2> QED BY <1>1, <2>1, <2>2, <2>3, <2>4, <2>5 DEF ThreadStep
<1>2. ASSUME NEW c \in Calls, CallStep(c) \/ Cancel(c) PROVE Token'
  <2> USE DEF At, Reply
  <2>1. CASE Take(c)
    <3> DEFINE s == csess[c]
    <3>1. s \in Sessions /\ prompt[s] # 0 /\ c \in Calls /\ cpc[c] = "take"
      BY <2>1 DEF Take
    <3>2. /\ prompt' = [prompt EXCEPT ![s] = 0] /\ cpc' = [cpc EXCEPT ![c] = "send"]
          /\ answer' = [answer EXCEPT ![c] = [answer[c] EXCEPT !.round = prompt[s]]]
          /\ UNCHANGED <<thread, round, slot, csess>>
      BY <2>1 DEF Take
    <3>3. answer'[c].round = prompt[s] /\ \A d \in Calls \ {c} : answer'[d] = answer[d]
      BY <3>2
    <3>4. \A d \in Calls : cpc[d] = "send" => csess[d] # s
      BY <3>1
    <3>5. \A d \in Calls : cpc'[d] = "send" <=> cpc[d] = "send" \/ d = c
      BY <3>1, <3>2
    <3>6. prompt[s] = round[s] /\ round[s] > 0 /\ slot[s] = Empty /\ thread[s] \notin NoToken
      BY <3>1
    <3>7. prompt'[s] = 0 /\ \A t \in Sessions \ {s} : prompt'[t] = prompt[t]
      BY <3>1, <3>2
    <3>8. /\ answer'[c].round = round'[s] /\ round'[s] > 0 /\ prompt'[s] = 0
          /\ slot'[s] = Empty /\ thread'[s] \notin NoToken
          /\ \A d \in Calls : cpc'[d] = "send" /\ csess'[d] = s => d = c
      BY <3>2, <3>3, <3>4, <3>5, <3>6, <3>7
    <3>9. ASSUME NEW e \in Calls, e # c, cpc'[e] = "send"
          PROVE  /\ answer'[e].round = round'[csess'[e]] /\ answer'[e].round > 0
                 /\ prompt'[csess'[e]] = 0 /\ slot'[csess'[e]] = Empty
                 /\ thread'[csess'[e]] \notin NoToken
                 /\ \A d \in Calls : cpc'[d] = "send" /\ csess'[d] = csess'[e] => d = e
      <4>1. cpc[e] = "send" /\ csess[e] # s /\ answer'[e] = answer[e] /\ csess[e] \in Sessions
        BY <3>3, <3>4, <3>5, <3>9
      <4> QED BY <4>1, <3>2, <3>5, <3>7
    <3>10. csess'[c] = s
      BY <3>2
    <3> HIDE DEF s
    <3> QED BY <3>2, <3>7, <3>8, <3>9, <3>10
  <2>2. CASE TakeNothing(c)
    BY <2>2 DEF TakeNothing
  <2>3. CASE Send(c)
    BY <2>3 DEF Send
  <2>4. CASE SendFails(c)
    BY <2>4 DEF SendFails
  <2>5. CASE Unmap(c)
    BY <2>5 DEF Unmap
  <2>6. CASE Peek(c)
    BY <2>6 DEF Peek
  <2>7. CASE ReplyPrompt(c)
    BY <2>7 DEF ReplyPrompt
  <2>8. CASE ReplyPending(c)
    BY <2>8 DEF ReplyPending
  <2>9. CASE Tick(c)
    BY <2>9 DEF Tick
  <2>10. CASE Remove(c)
    <3>1. /\ UNCHANGED <<thread, round, prompt, slot>>
          /\ \A d \in Calls : cpc'[d] = "send" =>
               cpc[d] = "send" /\ csess'[d] = csess[d] /\ answer'[d] = answer[d]
      BY <2>10 DEF Remove
    <3> QED BY <3>1
  <2>11. CASE Swap(c)
    BY <2>11 DEF Swap
  <2>12. CASE Insert(c)
    BY <2>12 DEF Insert
  <2>13. CASE InsertFails(c)
    BY <2>13 DEF InsertFails
  <2>14. CASE Cancel(c)
    BY <2>14 DEF Cancel
  <2> QED
    BY <1>2, <2>1, <2>2, <2>3, <2>4, <2>5, <2>6, <2>7,
       <2>8, <2>9, <2>10, <2>11, <2>12, <2>13, <2>14 DEF CallStep
<1>3. ASSUME NEW c \in Calls, NEW s \in Sessions, Begin(c, s) PROVE Token'
  BY <1>3 DEF Begin, At, To
<1>4. ASSUME NEW c \in Calls, NEW s \in Sessions, NEW a \in Answers,
             Lookup(c, s, "peek", a) \/ Lookup(c, s, "take", a)
      PROVE  Token'
  <2>1. /\ UNCHANGED <<thread, round, prompt, slot>>
        /\ \A d \in Calls : cpc'[d] = "send" =>
             cpc[d] = "send" /\ csess'[d] = csess[d] /\ answer'[d] = answer[d]
    BY <1>4 DEF Lookup, At
  <2> QED BY <2>1
<1>5. CASE UNCHANGED vars
  BY <1>5 DEF vars
<1> QED
  BY <1>1, <1>2, <1>3, <1>4, <1>5, LoginSteps

-----------------------------------------------------------------------------
(* A call away from idle works on a session whose thread was started. *)
LEMMA CallsStep == TypeOK /\ CallsOK /\ ResultOK /\ [Next]_vars => CallsOK'
<1> SUFFICES ASSUME TypeOK, CallsOK, ResultOK, [Next]_vars PROVE CallsOK'
  OBVIOUS
<1> USE LoginAssumption DEF CallsOK, ResultOK, CallPCs, threadVars, callVars, history, TypeOK
<1>1. ASSUME NEW s \in Sessions, ThreadStep(s) PROVE CallsOK'
  <2> USE DEF To
  <2>1. CASE Publish(s)
    BY <2>1 DEF Publish
  <2>2. CASE Receive(s)
    BY <2>2 DEF Receive
  <2>3. CASE Timeout(s)
    BY <2>3 DEF Timeout
  <2>4. CASE LoginReturns(s)
    BY <2>4 DEF LoginReturns
  <2>5. CASE WriteResult(s)
    BY <2>5 DEF WriteResult
  <2> QED BY <1>1, <2>1, <2>2, <2>3, <2>4, <2>5 DEF ThreadStep
<1>2. ASSUME NEW c \in Calls, CallStep(c) \/ Cancel(c) PROVE CallsOK'
  <2> USE DEF At, Reply
  <2>1. CASE Take(c)
    BY <2>1 DEF Take
  <2>2. CASE TakeNothing(c)
    BY <2>2 DEF TakeNothing
  <2>3. CASE Send(c)
    BY <2>3 DEF Send
  <2>4. CASE SendFails(c)
    BY <2>4 DEF SendFails
  <2>5. CASE Unmap(c)
    BY <2>5 DEF Unmap
  <2>6. CASE Peek(c)
    BY <2>6 DEF Peek
  <2>7. CASE ReplyPrompt(c)
    BY <2>7 DEF ReplyPrompt
  <2>8. CASE ReplyPending(c)
    BY <2>8 DEF ReplyPending
  <2>9. CASE Tick(c)
    BY <2>9 DEF Tick
  <2>10. CASE Remove(c)
    BY <2>10 DEF Remove
  <2>11. CASE Swap(c)
    BY <2>11 DEF Swap
  <2>12. CASE Insert(c)
    BY <2>12 DEF Insert
  <2>13. CASE InsertFails(c)
    BY <2>13 DEF InsertFails
  <2>14. CASE Cancel(c)
    BY <2>14 DEF Cancel
  <2> QED
    BY <1>2, <2>1, <2>2, <2>3, <2>4, <2>5, <2>6, <2>7,
       <2>8, <2>9, <2>10, <2>11, <2>12, <2>13, <2>14 DEF CallStep
<1>3. ASSUME NEW c \in Calls, NEW s \in Sessions, Begin(c, s) PROVE CallsOK'
  BY <1>3 DEF Begin, At, To
<1>4. ASSUME NEW c \in Calls, NEW s \in Sessions, NEW a \in Answers,
             Lookup(c, s, "peek", a) \/ Lookup(c, s, "take", a)
      PROVE  CallsOK'
  BY <1>4 DEF Lookup, At
<1>5. CASE UNCHANGED vars
  BY <1>5 DEF vars
<1> QED
  BY <1>1, <1>2, <1>3, <1>4, <1>5, LoginSteps

-----------------------------------------------------------------------------
(* The result is written once, at the thread's end, and never changes. *)
LEMMA ResultStep == TypeOK /\ CallsOK /\ ResultOK /\ [Next]_vars => ResultOK'
<1> SUFFICES ASSUME TypeOK, CallsOK, ResultOK, [Next]_vars PROVE ResultOK'
  OBVIOUS
<1> USE LoginAssumption DEF ResultOK, CallsOK, Threads, CallPCs, threadVars, callVars, history, TypeOK
<1>1. ASSUME NEW s \in Sessions, ThreadStep(s) PROVE ResultOK'
  <2> USE DEF To
  <2>1. CASE Publish(s)
    BY <2>1 DEF Publish
  <2>2. CASE Receive(s)
    BY <2>2 DEF Receive
  <2>3. CASE Timeout(s)
    BY <2>3 DEF Timeout
  <2>4. CASE LoginReturns(s)
    BY <2>4 DEF LoginReturns
  <2>5. CASE WriteResult(s)
    BY <2>5 DEF WriteResult
  <2> QED BY <1>1, <2>1, <2>2, <2>3, <2>4, <2>5 DEF ThreadStep
<1>2. ASSUME NEW c \in Calls, CallStep(c) \/ Cancel(c) PROVE ResultOK'
  <2> USE DEF At, Reply
  <2>1. CASE Take(c)
    BY <2>1 DEF Take
  <2>2. CASE TakeNothing(c)
    BY <2>2 DEF TakeNothing
  <2>3. CASE Send(c)
    BY <2>3 DEF Send
  <2>4. CASE SendFails(c)
    BY <2>4 DEF SendFails
  <2>5. CASE Unmap(c)
    BY <2>5 DEF Unmap
  <2>6. CASE Peek(c)
    BY <2>6 DEF Peek
  <2>7. CASE ReplyPrompt(c)
    BY <2>7 DEF ReplyPrompt
  <2>8. CASE ReplyPending(c)
    BY <2>8 DEF ReplyPending
  <2>9. CASE Tick(c)
    BY <2>9 DEF Tick
  <2>10. CASE Remove(c)
    BY <2>10 DEF Remove
  <2>11. CASE Swap(c)
    BY <2>11 DEF Swap
  <2>12. CASE Insert(c)
    BY <2>12 DEF Insert
  <2>13. CASE InsertFails(c)
    BY <2>13 DEF InsertFails
  <2>14. CASE Cancel(c)
    BY <2>14 DEF Cancel
  <2> QED
    BY <1>2, <2>1, <2>2, <2>3, <2>4, <2>5, <2>6, <2>7,
       <2>8, <2>9, <2>10, <2>11, <2>12, <2>13, <2>14 DEF CallStep
<1>3. ASSUME NEW c \in Calls, NEW s \in Sessions, Begin(c, s) PROVE ResultOK'
  BY <1>3 DEF Begin, At, To
<1>4. ASSUME NEW c \in Calls, NEW s \in Sessions, NEW a \in Answers,
             Lookup(c, s, "peek", a) \/ Lookup(c, s, "take", a)
      PROVE  ResultOK'
  BY <1>4 DEF Lookup, At
<1>5. CASE UNCHANGED vars
  BY <1>5 DEF vars
<1> QED
  BY <1>1, <1>2, <1>3, <1>4, <1>5, LoginSteps

-----------------------------------------------------------------------------
(* The swap lets one call through to the insert. *)
LEMMA ExclusiveStep == TypeOK /\ CallsOK /\ Exclusive /\ [Next]_vars => Exclusive'
<1> SUFFICES ASSUME TypeOK, CallsOK, Exclusive, [Next]_vars PROVE Exclusive'
  OBVIOUS
<1> USE LoginAssumption DEF Exclusive, CallsOK, CallPCs, threadVars, callVars, history, TypeOK
<1>1. ASSUME NEW s \in Sessions, ThreadStep(s) PROVE Exclusive'
  <2> USE DEF To
  <2>1. CASE Publish(s)
    BY <2>1 DEF Publish
  <2>2. CASE Receive(s)
    BY <2>2 DEF Receive
  <2>3. CASE Timeout(s)
    BY <2>3 DEF Timeout
  <2>4. CASE LoginReturns(s)
    BY <2>4 DEF LoginReturns
  <2>5. CASE WriteResult(s)
    BY <2>5 DEF WriteResult
  <2> QED BY <1>1, <2>1, <2>2, <2>3, <2>4, <2>5 DEF ThreadStep
<1>2. ASSUME NEW c \in Calls, CallStep(c) \/ Cancel(c) PROVE Exclusive'
  <2> USE DEF At, Reply
  <2>1. CASE Take(c)
    BY <2>1 DEF Take
  <2>2. CASE TakeNothing(c)
    BY <2>2 DEF TakeNothing
  <2>3. CASE Send(c)
    BY <2>3 DEF Send
  <2>4. CASE SendFails(c)
    BY <2>4 DEF SendFails
  <2>5. CASE Unmap(c)
    BY <2>5 DEF Unmap
  <2>6. CASE Peek(c)
    BY <2>6 DEF Peek
  <2>7. CASE ReplyPrompt(c)
    BY <2>7 DEF ReplyPrompt
  <2>8. CASE ReplyPending(c)
    BY <2>8 DEF ReplyPending
  <2>9. CASE Tick(c)
    BY <2>9 DEF Tick
  <2>10. CASE Remove(c)
    BY <2>10 DEF Remove
  <2>11. CASE Swap(c)
    BY <2>11 DEF Swap
  <2>12. CASE Insert(c)
    BY <2>12 DEF Insert
  <2>13. CASE InsertFails(c)
    BY <2>13 DEF InsertFails
  <2>14. CASE Cancel(c)
    BY <2>14 DEF Cancel
  <2> QED
    BY <1>2, <2>1, <2>2, <2>3, <2>4, <2>5, <2>6, <2>7,
       <2>8, <2>9, <2>10, <2>11, <2>12, <2>13, <2>14 DEF CallStep
<1>3. ASSUME NEW c \in Calls, NEW s \in Sessions, Begin(c, s) PROVE Exclusive'
  BY <1>3 DEF Begin, At, To
<1>4. ASSUME NEW c \in Calls, NEW s \in Sessions, NEW a \in Answers,
             Lookup(c, s, "peek", a) \/ Lookup(c, s, "take", a)
      PROVE  Exclusive'
  BY <1>4 DEF Lookup, At
<1>5. CASE UNCHANGED vars
  BY <1>5 DEF vars
<1> QED
  BY <1>1, <1>2, <1>3, <1>4, <1>5, LoginSteps

-----------------------------------------------------------------------------
(* An abort on its way reaches the thread before anything else can. *)
LEMMA DoomedStep == TypeOK /\ CallsOK /\ ResultOK /\ Token /\ Doomed /\ [Next]_vars => Doomed'
<1> SUFFICES ASSUME TypeOK, CallsOK, ResultOK, Token, Doomed, [Next]_vars PROVE Doomed'
  OBVIOUS
<1> USE LoginAssumption DEF Doomed, CallsOK, ResultOK, Token, NoToken, RxOpen, Answers, Empty,
           Threads, CallPCs, threadVars, callVars, history, TypeOK
<1>1. ASSUME NEW s \in Sessions, ThreadStep(s) PROVE Doomed'
  <2> USE DEF To
  <2>1. CASE Publish(s)
    BY <2>1 DEF Publish
  <2>2. CASE Receive(s)
    BY <2>2 DEF Receive
  <2>3. CASE Timeout(s)
    BY <2>3 DEF Timeout
  <2>4. CASE LoginReturns(s)
    BY <2>4 DEF LoginReturns
  <2>5. CASE WriteResult(s)
    BY <2>5 DEF WriteResult
  <2> QED BY <1>1, <2>1, <2>2, <2>3, <2>4, <2>5 DEF ThreadStep
<1>2. ASSUME NEW c \in Calls, CallStep(c) \/ Cancel(c) PROVE Doomed'
  <2> USE DEF At, Reply
  <2>1. CASE Take(c)
    BY <2>1 DEF Take
  <2>2. CASE TakeNothing(c)
    BY <2>2 DEF TakeNothing
  <2>3. CASE Send(c)
    BY <2>3 DEF Send
  <2>4. CASE SendFails(c)
    BY <2>4 DEF SendFails
  <2>5. CASE Unmap(c)
    BY <2>5 DEF Unmap
  <2>6. CASE Peek(c)
    BY <2>6 DEF Peek
  <2>7. CASE ReplyPrompt(c)
    BY <2>7 DEF ReplyPrompt
  <2>8. CASE ReplyPending(c)
    BY <2>8 DEF ReplyPending
  <2>9. CASE Tick(c)
    BY <2>9 DEF Tick
  <2>10. CASE Remove(c)
    BY <2>10 DEF Remove
  <2>11. CASE Swap(c)
    BY <2>11 DEF Swap
  <2>12. CASE Insert(c)
    BY <2>12 DEF Insert
  <2>13. CASE InsertFails(c)
    BY <2>13 DEF InsertFails
  <2>14. CASE Cancel(c)
    BY <2>14 DEF Cancel
  <2> QED
    BY <1>2, <2>1, <2>2, <2>3, <2>4, <2>5, <2>6, <2>7,
       <2>8, <2>9, <2>10, <2>11, <2>12, <2>13, <2>14 DEF CallStep
<1>3. ASSUME NEW c \in Calls, NEW s \in Sessions, Begin(c, s) PROVE Doomed'
  BY <1>3 DEF Begin, At, To
<1>4. ASSUME NEW c \in Calls, NEW s \in Sessions, NEW a \in Answers,
             Lookup(c, s, "peek", a) \/ Lookup(c, s, "take", a)
      PROVE  Doomed'
  BY <1>4 DEF Lookup, At
<1>5. CASE UNCHANGED vars
  BY <1>5 DEF vars
<1> QED
  BY <1>1, <1>2, <1>3, <1>4, <1>5, LoginSteps

-----------------------------------------------------------------------------
(* No step takes a login without a result out of the map, but its abort. *)
LEMMA KeptStep == TypeOK /\ CallsOK /\ ResultOK /\ InFlightKept /\ [Next]_vars => InFlightKept'
<1> SUFFICES ASSUME TypeOK, CallsOK, ResultOK, InFlightKept, [Next]_vars PROVE InFlightKept'
  OBVIOUS
<1> USE LoginAssumption DEF InFlightKept, CallsOK, ResultOK, CallPCs, Threads, threadVars, callVars, history, TypeOK
<1>1. ASSUME NEW s \in Sessions, ThreadStep(s) PROVE InFlightKept'
  <2> USE DEF To
  <2>1. CASE Publish(s)
    BY <2>1 DEF Publish
  <2>2. CASE Receive(s)
    BY <2>2 DEF Receive
  <2>3. CASE Timeout(s)
    BY <2>3 DEF Timeout
  <2>4. CASE LoginReturns(s)
    BY <2>4 DEF LoginReturns
  <2>5. CASE WriteResult(s)
    BY <2>5 DEF WriteResult
  <2> QED BY <1>1, <2>1, <2>2, <2>3, <2>4, <2>5 DEF ThreadStep
<1>2. ASSUME NEW c \in Calls, CallStep(c) \/ Cancel(c) PROVE InFlightKept'
  <2> USE DEF At, Reply
  <2>1. CASE Take(c)
    BY <2>1 DEF Take
  <2>2. CASE TakeNothing(c)
    BY <2>2 DEF TakeNothing
  <2>3. CASE Send(c)
    BY <2>3 DEF Send
  <2>4. CASE SendFails(c)
    BY <2>4 DEF SendFails
  <2>5. CASE Unmap(c)
    BY <2>5 DEF Unmap
  <2>6. CASE Peek(c)
    BY <2>6 DEF Peek
  <2>7. CASE ReplyPrompt(c)
    BY <2>7 DEF ReplyPrompt
  <2>8. CASE ReplyPending(c)
    BY <2>8 DEF ReplyPending
  <2>9. CASE Tick(c)
    BY <2>9 DEF Tick
  <2>10. CASE Remove(c)
    BY <2>10 DEF Remove
  <2>11. CASE Swap(c)
    BY <2>11 DEF Swap
  <2>12. CASE Insert(c)
    BY <2>12 DEF Insert
  <2>13. CASE InsertFails(c)
    BY <2>13 DEF InsertFails
  <2>14. CASE Cancel(c)
    BY <2>14 DEF Cancel
  <2> QED
    BY <1>2, <2>1, <2>2, <2>3, <2>4, <2>5, <2>6, <2>7,
       <2>8, <2>9, <2>10, <2>11, <2>12, <2>13, <2>14 DEF CallStep
<1>3. ASSUME NEW c \in Calls, NEW s \in Sessions, Begin(c, s) PROVE InFlightKept'
  BY <1>3 DEF Begin, At, To
<1>4. ASSUME NEW c \in Calls, NEW s \in Sessions, NEW a \in Answers,
             Lookup(c, s, "peek", a) \/ Lookup(c, s, "take", a)
      PROVE  InFlightKept'
  BY <1>4 DEF Lookup, At
<1>5. CASE UNCHANGED vars
  BY <1>5 DEF vars
<1> QED
  BY <1>1, <1>2, <1>3, <1>4, <1>5, LoginSteps

-----------------------------------------------------------------------------
(* Answering a client leaves the bookkeeping of calls well typed. *)
LEMMA ReplyTypes ==
  ASSUME TypeOK, NEW c \in Calls, csess[c] \in Sessions, Reply(c)
  PROVE  /\ cpc' \in [Calls -> CallPCs] /\ csess' \in [Calls -> Sessions \cup {NoSession}]
         /\ answer' \in [Calls -> Answers] /\ keyOut' \subseteq Sessions
BY LoginAssumption DEF TypeOK, Reply, At, CallPCs, Answers, Empty

(* No step leaves the types; saved <= 1 needs Exclusive. *)
LEMMA TypeStep == TypeOK /\ CallsOK /\ Exclusive /\ [Next]_vars => TypeOK'
<1> SUFFICES ASSUME TypeOK, CallsOK, Exclusive, [Next]_vars PROVE TypeOK'
  OBVIOUS
<1> USE LoginAssumption DEF CallsOK, Exclusive, CallPCs, Threads, Answers, Empty, threadVars, callVars, history, TypeOK
<1>1. ASSUME NEW s \in Sessions, ThreadStep(s) PROVE TypeOK'
  <2> USE DEF To
  <2>1. CASE Publish(s)
    BY <2>1 DEF Publish
  <2>2. CASE Receive(s)
    BY <2>2 DEF Receive
  <2>3. CASE Timeout(s)
    BY <2>3 DEF Timeout
  <2>4. CASE LoginReturns(s)
    BY <2>4 DEF LoginReturns
  <2>5. CASE WriteResult(s)
    BY <2>5 DEF WriteResult
  <2> QED BY <1>1, <2>1, <2>2, <2>3, <2>4, <2>5 DEF ThreadStep
<1>2. ASSUME NEW c \in Calls, CallStep(c) \/ Cancel(c) PROVE TypeOK'
  <2> USE DEF At, Reply
  <2>1. CASE Take(c)
    BY <2>1 DEF Take
  <2>2. CASE TakeNothing(c)
    BY <2>2 DEF TakeNothing
  <2>3. CASE Send(c)
    BY <2>3 DEF Send
  <2>4. CASE SendFails(c)
    BY <2>4 DEF SendFails
  <2>5. CASE Unmap(c)
    BY <2>5 DEF Unmap
  <2>6. CASE Peek(c)
    BY <2>6 DEF Peek
  <2>7. CASE ReplyPrompt(c)
    BY <2>7 DEF ReplyPrompt
  <2>8. CASE ReplyPending(c)
    BY <2>8 DEF ReplyPending
  <2>9. CASE Tick(c)
    BY <2>9 DEF Tick
  <2>10. CASE Remove(c)
    <3>1. CASE result[csess[c]] = "ok"
      <4>1. cpc' = [cpc EXCEPT ![c] = "swap"] /\ logins' = logins \ {csess[c]}
            /\ UNCHANGED <<csess, answer, keyOut, threadVars, history, finalized, saved>>
        BY <2>10, <3>1 DEF Remove
      <4> QED BY <4>1
    <3>2. CASE result[csess[c]] # "ok"
      <4>1. /\ Reply(c) /\ csess[c] \in Sessions /\ logins' = logins \ {csess[c]}
            /\ UNCHANGED <<threadVars, history, finalized, saved>>
        BY <2>10, <3>2 DEF Remove
      <4> HIDE DEF Reply
      <4> QED BY <4>1, ReplyTypes
    <3> QED BY <3>1, <3>2
  <2>11. CASE Swap(c)
    <3>1. finalized' \in [Sessions -> BOOLEAN]
      BY <2>11 DEF Swap
    <3>2. /\ cpc' \in [Calls -> CallPCs] /\ csess' \in [Calls -> Sessions \cup {NoSession}]
          /\ answer' \in [Calls -> Answers] /\ keyOut' \subseteq Sessions
          /\ told' \subseteq Sessions
      <4>1. CASE finalized[csess[c]]
        <5>1. Reply(c) /\ csess[c] \in Sessions /\ told' = told \cup {csess[c]}
          BY <2>11, <4>1 DEF Swap
        <5> HIDE DEF Reply
        <5> QED BY <5>1, ReplyTypes
      <4>2. CASE ~finalized[csess[c]]
        <5>1. cpc' = [cpc EXCEPT ![c] = "insert"] /\ UNCHANGED <<csess, answer, keyOut, told>>
          BY <2>11, <4>2 DEF Swap
        <5> QED BY <5>1
      <4> QED BY <4>1, <4>2
    <3> QED BY <2>11, <3>1, <3>2 DEF Swap
  <2>12. CASE Insert(c)
    BY <2>12 DEF Insert
  <2>13. CASE InsertFails(c)
    BY <2>13 DEF InsertFails
  <2>14. CASE Cancel(c)
    BY <2>14 DEF Cancel
  <2> QED
    BY <1>2, <2>1, <2>2, <2>3, <2>4, <2>5, <2>6, <2>7,
       <2>8, <2>9, <2>10, <2>11, <2>12, <2>13, <2>14 DEF CallStep
<1>3. ASSUME NEW c \in Calls, NEW s \in Sessions, Begin(c, s) PROVE TypeOK'
  BY <1>3 DEF Begin, At, To
<1>4. ASSUME NEW c \in Calls, NEW s \in Sessions, NEW a \in Answers,
             Lookup(c, s, "peek", a) \/ Lookup(c, s, "take", a)
      PROVE  TypeOK'
  <2>1. CASE Lookup(c, s, "peek", a)
    BY <2>1 DEF Lookup, At
  <2>2. CASE Lookup(c, s, "take", a)
    BY <2>2 DEF Lookup, At
  <2> QED BY <1>4, <2>1, <2>2
<1>5. CASE UNCHANGED vars
  BY <1>5 DEF vars
<1> QED
  BY <1>1, <1>2, <1>3, <1>4, <1>5, LoginSteps

-----------------------------------------------------------------------------
(* The inductive invariant.  NoStaleAnswer and SendNeverBlocks need Token,   *)
(* SavedOnce needs Exclusive, AbortedNeverSaved needs Doomed and Token (a   *)
(* second answer must not overwrite the Abort in the slot).                *)
IInv == TypeOK /\ CallsOK /\ ResultOK /\ Token /\ Exclusive /\ Doomed /\ InFlightKept

(* The server starts in the invariant. *)
LEMMA InitInv == Init => IInv
<1> SUFFICES ASSUME Init PROVE IInv
  OBVIOUS
<1> USE LoginAssumption DEF Init
<1>1. TypeOK
  BY DEF TypeOK, Threads, CallPCs, Answers, Empty
<1>2. CallsOK /\ ResultOK /\ Exclusive /\ Doomed /\ InFlightKept
  BY DEF CallsOK, ResultOK, Exclusive, Doomed, InFlightKept
<1>3. Token
  BY DEF Token, NoToken
<1> QED BY <1>1, <1>2, <1>3 DEF IInv

(* Every step keeps it: the lemmas above, one per part. *)
LEMMA StepInv == IInv /\ [Next]_vars => IInv'
BY TypeStep, CallsStep, ResultStep, TokenStep, ExclusiveStep, DoomedStep, KeptStep DEF IInv

(* So it holds for ever. *)
LEMMA InvHolds == Spec => []IInv
BY InitInv, StepInv, PTL DEF Spec

-----------------------------------------------------------------------------
(* The variables of the login machinery keep their types. *)
THEOREM TypeCorrect == Spec => []TypeOK
<1>1. IInv => TypeOK
  BY DEF IInv
<1> QED BY <1>1, InvHolds, PTL

(* However many tabs submit and poll, no answer given to one prompt is     *)
(* buffered for a later one.                                               *)
THEOREM NoAnswerGoesStale == Spec => []NoStaleAnswer
<1>1. IInv => NoStaleAnswer
  BY DEF IInv, NoStaleAnswer, Token, NoToken
<1> QED BY <1>1, InvHolds, PTL

(* The synchronous send inside an async handler never blocks its thread.   *)
THEOREM SendsDoNotBlock == Spec => []SendNeverBlocks
<1>1. IInv => SendNeverBlocks
  BY DEF IInv, SendNeverBlocks, Token
<1> QED BY <1>1, InvHolds, PTL

(* The finalized flag lets one call at most insert the account, once.      *)
THEOREM AccountsSavedOnce == Spec => []SavedOnce
<1>1. ASSUME IInv, NEW s \in Sessions
      PROVE  Cardinality({c \in Calls : cpc[c] = "insert" /\ csess[c] = s}) + saved[s] <= 1
  <2> DEFINE I == {c \in Calls : cpc[c] = "insert" /\ csess[c] = s}
  <2>1. saved[s] \in 0..1
    BY <1>1 DEF IInv, TypeOK
  <2>2. CASE I = {}
    <3>1. Cardinality(I) = 0
      BY <2>2, FS_EmptySet
    <3> QED BY <3>1, <2>1
  <2>3. ASSUME NEW c \in I PROVE Cardinality(I) = 1 /\ saved[s] = 0
    <3>1. I = {c} /\ saved[s] = 0
      BY <1>1, <2>3 DEF IInv, Exclusive
    <3> QED BY <3>1, FS_Singleton
  <2> QED BY <2>2, <2>3
<1>2. IInv => SavedOnce
  BY <1>1 DEF SavedOnce
<1> QED BY <1>2, InvHolds, PTL

(* A cancelled login never stores an account.                              *)
THEOREM AbortsAreFinal == Spec => []AbortedNeverSaved
<1>1. IInv => AbortedNeverSaved
  BY DEF IInv, TypeOK, Doomed, ResultOK, AbortedNeverSaved
<1> QED BY <1>1, InvHolds, PTL

(* Neither a new login nor a poll drops one that is still under way.       *)
THEOREM InFlightLoginsAreKept == Spec => []InFlightKept
<1>1. IInv => InFlightKept
  BY DEF IInv
<1> QED BY <1>1, InvHolds, PTL

-----------------------------------------------------------------------------
(* The refinement.  Most steps leave every phase alone ...                 *)
Phases == [s \in Sessions |-> Phase(s)]

LEMMA SamePhases ==
  ASSUME UNCHANGED <<saved, aborted, result>>,
         \A s \in Sessions : thread'[s] = "none" <=> thread[s] = "none"
  PROVE  Phases' = Phases
BY DEF Phases, Phase

(* ... and the others take one login one step on.                          *)
LEMMA OnePhase ==
  ASSUME NEW s \in Sessions, NEW to, Phase(s)' = to,
         \A t \in Sessions \ {s} : /\ saved'[t] = saved[t] /\ result'[t] = result[t]
                                   /\ t \in aborted' <=> t \in aborted
                                   /\ thread'[t] = "none" <=> thread[t] = "none"
  PROVE  Phases' = [Phases EXCEPT ![s] = to]
<1>1. \A t \in Sessions \ {s} : Phase(t)' = Phase(t)
  BY DEF Phase
<1> QED BY <1>1 DEF Phases

(* The thread: its result accepts or refuses a login that is open; the     *)
(* error of a cancelled one changes nothing.                               *)
LEMMA ThreadPhases == ASSUME IInv, NEW s \in Sessions, ThreadStep(s) PROVE [P!Next]_Phases
<1> USE DEF IInv, TypeOK, To, history, callVars
<1>1. CASE Publish(s) \/ Receive(s) \/ Timeout(s) \/ LoginReturns(s)
  <2>1. UNCHANGED <<saved, aborted, result>> /\ thread[s] # "none" /\ thread'[s] # "none"
    BY <1>1 DEF Publish, Receive, Timeout, LoginReturns
  <2>2. \A t \in Sessions \ {s} : thread'[t] = thread[t]
    BY <1>1 DEF Publish, Receive, Timeout, LoginReturns
  <2> QED BY <2>1, <2>2, SamePhases
<1>2. CASE WriteResult(s)
  <2>1. thread[s] \in {"post", "failed"} /\ thread' = [thread EXCEPT ![s] = "over"]
        /\ result' = [result EXCEPT ![s] = IF thread[s] = "post" THEN "ok" ELSE "err"]
        /\ UNCHANGED <<saved, aborted>>
    BY <1>2 DEF WriteResult
  <2>2. saved[s] # 1 /\ result[s] = "none"
    BY <2>1 DEF ResultOK
  <2>3. \A t \in Sessions \ {s} : thread'[t] = thread[t] /\ result'[t] = result[t]
    BY <2>1
  <2>4. CASE s \in aborted
    <3>1. Phase(s) = "cancelled" /\ Phase(s)' = "cancelled"
      BY <2>1, <2>2, <2>4 DEF Phase
    <3>2. Phases' = [Phases EXCEPT ![s] = "cancelled"]
      BY <2>1, <2>3, <3>1, OnePhase
    <3> QED BY <3>1, <3>2 DEF Phases
  <2>5. CASE s \notin aborted
    <3>1. Phase(s) = "open"
      BY <2>1, <2>2, <2>5 DEF Phase
    <3>2. CASE thread[s] = "post"
      <4>1. Phase(s)' = "accepted"
        BY <2>1, <2>2, <2>5, <3>2 DEF Phase
      <4>2. Phases' = [Phases EXCEPT ![s] = "accepted"]
        BY <2>1, <2>3, <4>1, OnePhase
      <4> QED BY <3>1, <4>2 DEF P!Next, P!Accept, P!Move, Phases
    <3>3. CASE thread[s] = "failed"
      <4>1. Phase(s)' = "refused"
        BY <2>1, <2>2, <2>5, <3>3 DEF Phase
      <4>2. Phases' = [Phases EXCEPT ![s] = "refused"]
        BY <2>1, <2>3, <4>1, OnePhase
      <4> QED BY <3>1, <4>2 DEF P!Next, P!Refuse, P!Move, Phases
    <3> QED BY <2>1, <3>2, <3>3
  <2> QED BY <2>4, <2>5
<1> QED BY <1>1, <1>2 DEF ThreadStep

(* The calls: an Abort that is sent cancels, and the insert stores.        *)
LEMMA CallPhases ==
  ASSUME IInv, NEW c \in Calls, CallStep(c) \/ Cancel(c) PROVE [P!Next]_Phases
<1> USE DEF IInv, TypeOK
<1>1. CASE Send(c)
  <2>0. PICK s \in Sessions : s = csess[c]
    BY <1>1 DEF Send, CallsOK
  <2>1. s \in Sessions /\ RxOpen(s) /\ UNCHANGED <<thread, result, saved>>
        /\ aborted' = IF answer[c].abort THEN aborted \cup {s} ELSE aborted
    BY <1>1, <2>0 DEF Send
  <2>2. saved[s] # 1 /\ result[s] = "none" /\ thread[s] # "none"
    BY <2>1 DEF ResultOK, RxOpen
  <2>3. CASE aborted' = aborted
    BY <2>1, <2>3, SamePhases
  <2>4. CASE aborted' # aborted
    <3>1. s \notin aborted /\ aborted' = aborted \cup {s}
      BY <2>1, <2>4
    <3>2. Phase(s) = "open" /\ Phase(s)' = "cancelled"
      BY <2>1, <2>2, <3>1 DEF Phase
    <3>3. Phases' = [Phases EXCEPT ![s] = "cancelled"]
      BY <2>1, <3>1, <3>2, OnePhase
    <3> QED BY <2>1, <3>2, <3>3 DEF P!Next, P!Cancel, P!Move, Phases
  <2> QED BY <2>3, <2>4
<1>2. CASE Insert(c)
  <2>0. PICK s \in Sessions : s = csess[c]
    BY <1>2 DEF Insert, CallsOK
  <2>1. s \in Sessions /\ UNCHANGED <<thread, result, aborted>>
        /\ saved' = [saved EXCEPT ![s] = @ + 1]
    BY <1>2, <2>0 DEF Insert, threadVars
  <2>2. saved[s] = 0 /\ result[s] = "ok" /\ s \notin aborted
    BY <1>2, <2>0, <2>1 DEF Insert, CallsOK, Exclusive, Doomed
  <2>3. Phase(s) = "accepted" /\ Phase(s)' = "stored"
    BY <2>1, <2>2 DEF Phase
  <2>4. \A t \in Sessions \ {s} : saved'[t] = saved[t]
    BY <2>1
  <2>5. Phases' = [Phases EXCEPT ![s] = "stored"]
    BY <2>1, <2>3, <2>4, OnePhase
  <2> QED BY <2>1, <2>3, <2>5 DEF P!Next, P!Store, P!Move, Phases
<1>3. ASSUME ~Send(c), ~Insert(c) PROVE UNCHANGED <<thread, result, saved, aborted>>
  BY <1>3 DEF CallStep, Take, TakeNothing, SendFails, Unmap, Peek, ReplyPrompt, ReplyPending, Tick,
           Remove, Swap, InsertFails, Cancel, threadVars, history
<1> QED BY <1>1, <1>2, <1>3, SamePhases

(* begin_login opens a login.                                              *)
LEMMA BeginPhases ==
  ASSUME IInv, NEW c \in Calls, NEW s \in Sessions, Begin(c, s) PROVE [P!Next]_Phases
<1>1. thread[s] = "none" /\ thread' = [thread EXCEPT ![s] = "apple"]
      /\ UNCHANGED <<result, saved, aborted>>
  BY DEF Begin, To, history
<1>2. saved[s] # 1 /\ result[s] = "none" /\ s \notin aborted
  BY <1>1 DEF IInv, TypeOK, ResultOK, Doomed
<1>3. Phase(s) = "new" /\ Phase(s)' = "open"
  BY <1>1, <1>2 DEF Phase, IInv, TypeOK
<1>4. \A t \in Sessions \ {s} : thread'[t] = thread[t]
  BY <1>1 DEF IInv, TypeOK
<1>5. Phases' = [Phases EXCEPT ![s] = "open"]
  BY <1>1, <1>3, <1>4, OnePhase
<1> QED BY <1>3, <1>5 DEF P!Next, P!Open, P!Move, Phases

(* Every step does, or leaves the phases alone.                            *)
LEMMA InitPhases == Init => P!Init
BY DEF Init, P!Init, Phase

LEMMA StepPhases == IInv /\ [Next]_vars => [P!Next]_Phases
<1> SUFFICES ASSUME IInv, [Next]_vars PROVE [P!Next]_Phases
  OBVIOUS
<1>1. ASSUME NEW c \in Calls, NEW s \in Sessions, NEW a \in Answers,
             Lookup(c, s, "peek", a) \/ Lookup(c, s, "take", a)
      PROVE  Phases' = Phases
  <2>1. UNCHANGED <<thread, result, saved, aborted>>
    BY <1>1 DEF Lookup, threadVars, history
  <2> QED BY <2>1, SamePhases
<1>2. CASE UNCHANGED vars
  BY <1>2, SamePhases DEF vars
<1> QED BY <1>1, <1>2, LoginSteps, ThreadPhases, CallPhases, BeginPhases

(* What the users are promised is kept, for any numbers of sign-ins, calls *)
(* and prompts: LoginSession implements LoginPromise.                      *)
THEOREM KeepsItsPromise == Spec => Promise
BY InitPhases, StepPhases, InvHolds, PTL DEF Spec, Promise, P!Spec, Phases

-----------------------------------------------------------------------------
(* The form (LoginForm).  The record of a form, and what it says by itself; *)
(* the sessions it works on.                                               *)
FormRec == [key : Sessions \cup {NoSession}, prompt : 0..MaxRounds,
            pending : BOOLEAN, error : BOOLEAN,
            task : {"none", "begin", "poll", "submit", "abort"},
            session : Sessions \cup {NoSession},
            net : {"none", "sent", "served", "answered"},
            step : Steps \cup {"none"}, round : 0..MaxRounds]

Uses(x, s) == x.key = s \/ x.session = s

Shape(x) ==
  /\ x.pending <=> x.net # "none"
  /\ x.task = "none" <=> x.net = "none"
  /\ x.net = "none" => x.session = NoSession
  /\ x.task = "begin" => x.key = NoSession
  /\ x.task = "begin" /\ x.net = "sent" => x.session = NoSession
  /\ x.task \in {"poll", "submit", "abort"} => x.session \in Sessions /\ x.key = x.session
  /\ x.net = "answered" /\ x.step # "error" => x.session \in Sessions
  /\ x.prompt # 0 => ~x.pending /\ x.key \in Sessions
  /\ x.pending \/ x.key = NoSession \/ x.prompt # 0 \/ x.error

(* The call of a form is where its request is.                             *)
AtCall(f, x) ==
  /\ cpc[f] # "idle" <=> x.net = "served"
  /\ cpc[f] # "idle" => csess[f] = x.session
  /\ x.task = "abort" => cpc[f] \in {"idle", "take", "send", "unmap"}
  /\ x.task = "abort" /\ cpc[f] \in {"take", "send"} => answer[f].abort

(* What an answer on its way says is true, and so is what a form shows.    *)
Truthful(x) ==
  /\ x.net = "answered" /\ x.step = "twofactor" => x.round # 0 /\ prompt[x.session] = x.round
  /\ x.net = "answered" /\ x.step = "complete" => saved[x.session] = 1
  /\ x.prompt # 0 => prompt[x.key] = x.prompt

(* Whoever follows a finalized sign-in inserts it or has its answer: no    *)
(* request is made for it any more.                                        *)
Settled(f, x) ==
  \/ cpc[f] = "insert"
  \/ x.net = "answered" /\ x.step \in {"error", "complete"}
  \/ x.net = "none" /\ x.prompt = 0

FormsOK == \A f \in Calls : Shape(form[f]) /\ AtCall(f, form[f]) /\ Truthful(form[f])

(* A sign-in belongs to one form at most, and its thread was started.      *)
OneOwner ==
  \A f \in Calls, s \in Sessions : Uses(form[f], s) =>
    /\ thread[s] # "none"
    /\ \A g \in Calls : Uses(form[g], s) => g = f

FinalOK ==
  \A s \in Sessions : finalized[s] =>
    /\ thread[s] = "over"
    /\ \A f \in Calls : Uses(form[f], s) => Settled(f, form[f])

(* A prompt in view says that Apple has not accepted yet; after Cancel the *)
(* thread is on its way to an error, and only the Abort can still reach it. *)
DoomedThread(s) ==
  /\ thread[s] \in {"waiting", "aborting", "failed", "over"} /\ result[s] # "ok"
  /\ thread[s] = "waiting" /\ slot[s] # Empty => slot[s].abort

CancelledOK ==
  /\ \A s \in Sessions : prompt[s] # 0 => result[s] # "ok"
  /\ \A s \in cancelled :
       DoomedThread(s) /\ \A f \in Calls : Uses(form[f], s) => form[f].task = "abort"

FormInv ==
  /\ FormTypeOK /\ FormsOK /\ OneOwner /\ FinalOK /\ CancelledOK /\ CompleteMeansSaved

(* The part of it that the steps below are shown to keep.                  *)
FormsKept ==
  form \in [Calls -> FormRec] /\ FormsOK /\ OneOwner /\ FinalOK /\ CancelledOK

(* The safety of the form follows from the invariants.                     *)
LEMMA FormInvSafe ==
  ASSUME IInv, FormInv
  PROVE  AnswersWhatItShows /\ CompleteMeansSaved /\ CancelledNeverSaved /\ NeverSilent
<1>1. AnswersWhatItShows
  BY DEF FormInv, FormsOK, Truthful, AnswersWhatItShows, HasPrompt
<1>2. CompleteMeansSaved
  BY DEF FormInv
<1>3. CancelledNeverSaved
  BY DEF FormInv, CancelledOK, DoomedThread, FormTypeOK, IInv, TypeOK, ResultOK, CancelledNeverSaved
<1>4. NeverSilent
  BY DEF FormInv, FormsOK, Shape, NeverSilent
<1> QED BY <1>1, <1>2, <1>3, <1>4

(* The first state: blank forms.                                           *)
LEMMA FormInitInv == FormInit => IInv /\ FormInv
<1> SUFFICES ASSUME FormInit PROVE IInv /\ FormInv
  OBVIOUS
<1>1. Init /\ IInv
  BY InitInv DEF FormInit
<1> USE LoginAssumption, FormAssumption DEF FormInit, Blank
<1>2. FormTypeOK
  BY <1>1 DEF FormTypeOK, IInv, Steps
<1>3. FormsOK
  BY <1>1 DEF FormsOK, Shape, AtCall, Truthful, Init
<1>4. OneOwner /\ FinalOK
  BY <1>1 DEF OneOwner, FinalOK, Uses, Init
<1>5. CancelledOK /\ CompleteMeansSaved
  BY <1>1 DEF CancelledOK, CompleteMeansSaved, Init
<1> QED BY <1>1, <1>2, <1>3, <1>4, <1>5 DEF FormInv

-----------------------------------------------------------------------------
(* A step of one form, with its call or without, that stays with the       *)
(* sessions the form works on: what must be shown of it.                   *)
OwnStep(f, r) ==
  /\ form' = [form EXCEPT ![f] = r]
  /\ UNCHANGED <<thread, result>>
  /\ \A g \in Calls \ {f} : cpc'[g] = cpc[g] /\ csess'[g] = csess[g] /\ answer'[g] = answer[g]
  /\ \A s \in Sessions : ~Uses(form[f], s) =>
       /\ prompt'[s] = prompt[s] /\ slot'[s] = slot[s]
       /\ saved'[s] = saved[s] /\ finalized'[s] = finalized[s]
  /\ \A s \in Sessions : Uses(r, s) => Uses(form[f], s)

(* Its form and its call fit.                                              *)
LEMMA OwnForms ==
  ASSUME TypeOK, FormInv, NEW f \in Calls, NEW r \in FormRec, OwnStep(f, r),
         Shape(r), AtCall(f, r)', Truthful(r)'
  PROVE  FormsOK'
<1>1. form'[f] = r /\ \A g \in Calls \ {f} : form'[g] = form[g]
  BY DEF OwnStep, FormInv, FormTypeOK
<1>2. ASSUME NEW g \in Calls \ {f}
      PROVE  Shape(form[g]) /\ AtCall(g, form[g])' /\ Truthful(form[g])'
  <2>1. Shape(form[g]) /\ AtCall(g, form[g]) /\ Truthful(form[g])
    BY DEF FormInv, FormsOK
  <2>2. \A s \in Sessions : Uses(form[g], s) => prompt'[s] = prompt[s] /\ saved'[s] = saved[s]
    BY DEF OwnStep, FormInv, OneOwner
  <2>3. AtCall(g, form[g])'
    BY <1>1, <2>1 DEF OwnStep, AtCall
  <2>4. /\ form[g].net = "answered" /\ form[g].step # "error" =>
             form[g].session \in Sessions /\ Uses(form[g], form[g].session)
        /\ form[g].prompt # 0 => form[g].key \in Sessions /\ Uses(form[g], form[g].key)
    BY <2>1 DEF Shape, Uses
  <2>5. Truthful(form[g])'
    BY <1>1, <2>1, <2>2, <2>4 DEF Truthful
  <2> QED BY <2>1, <2>3, <2>5
<1>3. ASSUME NEW g \in Calls PROVE (Shape(form[g]) /\ AtCall(g, form[g]) /\ Truthful(form[g]))'
  <2>1. CASE g = f
    BY <1>1, <2>1 DEF Shape, AtCall, Truthful
  <2>2. CASE g # f
    BY <1>1, <1>2, <2>2 DEF Shape, AtCall, Truthful
  <2> QED BY <2>1, <2>2
<1> QED BY <1>3 DEF FormsOK

(* No session changes hands.                                               *)
LEMMA OwnOwner ==
  ASSUME FormInv, NEW f \in Calls, NEW r \in FormRec, OwnStep(f, r)
  PROVE  OneOwner'
<1>1. form'[f] = r /\ \A g \in Calls \ {f} : form'[g] = form[g]
  BY DEF OwnStep, FormInv, FormTypeOK
<1>2. \A g \in Calls, s \in Sessions : Uses(form'[g], s) => Uses(form[g], s)
  BY <1>1 DEF OwnStep
<1> QED BY <1>2 DEF OneOwner, OwnStep, FormInv

(* A finalized sign-in is settled.                                         *)
LEMMA OwnFinal ==
  ASSUME FormInv, NEW f \in Calls, NEW r \in FormRec, OwnStep(f, r),
         \A s \in Sessions : finalized'[s] =>
            finalized[s] \/ (Uses(form[f], s) /\ thread[s] = "over"),
         \A s \in Sessions : finalized'[s] /\ Uses(r, s) => Settled(f, r)'
  PROVE  FinalOK'
<1>1. form'[f] = r /\ \A g \in Calls \ {f} : form'[g] = form[g] /\ cpc'[g] = cpc[g]
  BY DEF OwnStep, FormInv, FormTypeOK
<1>2. ASSUME NEW s \in Sessions, finalized'[s] PROVE thread'[s] = "over"
  BY <1>2 DEF OwnStep, FormInv, FinalOK
<1>3. ASSUME NEW s \in Sessions, finalized'[s], NEW g \in Calls, Uses(form'[g], s)
      PROVE  Settled(g, form[g])'
  <2>1. CASE g = f
    BY <1>1, <1>3, <2>1 DEF Settled
  <2>2. CASE g # f
    <3>1. form'[g] = form[g] /\ cpc'[g] = cpc[g] /\ Uses(form[g], s)
      BY <1>1, <1>3, <2>2
    <3>2. ~Uses(form[f], s)
      BY <2>2, <3>1 DEF FormInv, OneOwner
    <3>3. finalized[s]
      BY <1>3, <3>2
    <3>4. Settled(g, form[g])
      BY <3>1, <3>3 DEF FormInv, FinalOK
    <3> QED BY <3>1, <3>4 DEF Settled
  <2> QED BY <2>1, <2>2
<1> QED BY <1>2, <1>3 DEF FinalOK

(* A cancelled sign-in stays so.                                           *)
LEMMA OwnCancelled ==
  ASSUME FormInv, NEW f \in Calls, NEW r \in FormRec, OwnStep(f, r), UNCHANGED cancelled,
         \A s \in Sessions : prompt'[s] # 0 => prompt[s] # 0,
         \A s \in cancelled : Uses(form[f], s) =>
            (Uses(r, s) => r.task = "abort") /\ (slot'[s] # Empty => slot'[s] = slot[s] \/ slot'[s].abort)
  PROVE  CancelledOK'
<1>1. form'[f] = r /\ \A g \in Calls \ {f} : form'[g] = form[g]
  BY DEF OwnStep, FormInv, FormTypeOK
<1>2. \A s \in Sessions : prompt'[s] # 0 => result'[s] # "ok"
  BY DEF OwnStep, FormInv, CancelledOK
<1>3. ASSUME NEW s \in cancelled PROVE DoomedThread(s)'
  BY <1>3 DEF OwnStep, FormInv, FormTypeOK, CancelledOK, DoomedThread
<1>4. ASSUME NEW s \in cancelled, NEW g \in Calls, Uses(form'[g], s) PROVE form'[g].task = "abort"
  BY <1>1, <1>4 DEF OwnStep, FormInv, FormTypeOK, CancelledOK
<1> QED BY <1>2, <1>3, <1>4 DEF CancelledOK

-----------------------------------------------------------------------------
(* A step of one form that leaves the sign-ins alone.                      *)
LEMMA FormOnly ==
  ASSUME IInv, FormInv, NEW f \in Calls, NEW r \in FormRec, form' = [form EXCEPT ![f] = r],
         UNCHANGED <<vars, cancelled>>,
         \A s \in Sessions : Uses(r, s) => Uses(form[f], s),
         Shape(r), AtCall(f, r), Truthful(r),
         \A s \in Sessions : Uses(r, s) /\ finalized[s] => Settled(f, r),
         \A s \in cancelled : Uses(r, s) => r.task = "abort"
  PROVE  FormsKept'
<1>1. OwnStep(f, r)
  BY DEF OwnStep, vars
<1>2. AtCall(f, r)' /\ Truthful(r)'
  BY DEF AtCall, Truthful, vars
<1>3. FormsOK'
  BY <1>1, <1>2, OwnForms DEF IInv
<1>4. OneOwner'
  BY <1>1, OwnOwner
<1>5. FinalOK'
  <2>1. \A s \in Sessions : finalized'[s] => finalized[s]
    BY DEF vars
  <2>2. \A s \in Sessions : finalized'[s] /\ Uses(r, s) => Settled(f, r)'
    BY DEF vars, Settled
  <2> QED BY <1>1, <2>1, <2>2, OwnFinal
<1>6. CancelledOK'
  <2>1. UNCHANGED cancelled /\ \A s \in Sessions : prompt'[s] = prompt[s] /\ slot'[s] = slot[s]
    BY DEF vars
  <2>2. cancelled \subseteq Sessions
    BY DEF FormInv, FormTypeOK
  <2> QED BY <1>1, <2>1, <2>2, OwnCancelled
<1>7. form' \in [Calls -> FormRec]
  BY DEF FormInv, FormTypeOK, FormRec
<1> QED BY <1>3, <1>4, <1>5, <1>6, <1>7 DEF FormsKept

(* What is known of one form. *)
LEMMA FormFacts ==
  ASSUME IInv, FormInv, NEW f \in Calls
  PROVE  /\ form[f] \in FormRec /\ Shape(form[f]) /\ AtCall(f, form[f]) /\ Truthful(form[f])
         /\ \A s \in Sessions : Uses(form[f], s) /\ finalized[s] => Settled(f, form[f])
         /\ \A s \in cancelled : s \in Sessions /\ (Uses(form[f], s) => form[f].task = "abort")
         /\ cpc[f] \in CallPCs
BY DEF IInv, TypeOK, FormInv, FormTypeOK, FormRec, FormsOK, FinalOK, CancelledOK

(* No prompt is a round. *)
LEMMA NoRound == 0 \in 0..MaxRounds
BY LoginAssumption

(* The records a step may put there. *)
Ended(k, n, e) == [Blank EXCEPT !.key = k, !.prompt = n, !.error = e]

LEMMA EndedType ==
  ASSUME NEW k \in Sessions \cup {NoSession}, NEW n \in 0..MaxRounds, NEW e \in BOOLEAN
  PROVE  /\ Ended(k, n, e) \in FormRec
         /\ Ended(k, n, e).key = k /\ Ended(k, n, e).prompt = n /\ (Ended(k, n, e).error <=> e)
         /\ ~Ended(k, n, e).pending /\ Ended(k, n, e).task = "none"
         /\ Ended(k, n, e).session = NoSession /\ Ended(k, n, e).net = "none"
BY LoginAssumption, NoRound DEF Ended, Blank, FormRec, Steps

(* The buttons.  A form whose prompt is in view follows a sign-in that is  *)
(* not finalized.                                                          *)
LEMMA ClickStep ==
  ASSUME IInv, FormInv, NEW f \in Calls, SignIn(f) \/ Act(f) \/ Reload(f)
  PROVE  FormsKept'
<1> USE LoginAssumption, NoRound, FormFacts DEF FormRec, Shape, Uses, Steps
<1>1. CASE SignIn(f)
  <2>1. PICK r \in FormRec : /\ form' = [form EXCEPT ![f] = r]
                             /\ r = [Blank EXCEPT !.pending = TRUE, !.task = "begin", !.net = "sent"]
    BY <1>1 DEF SignIn, Ask, Blank
  <2>2. /\ UNCHANGED <<vars, cancelled>>
        /\ r.net = "sent" /\ r.task = "begin" /\ r.pending
        /\ r.prompt = 0 /\ r.key = NoSession /\ r.session = NoSession /\ form[f].net = "none"
    BY <1>1, <2>1 DEF SignIn, Blank, past
  <2>3. Shape(r) /\ \A s \in Sessions : ~Uses(r, s)
    BY <2>2
  <2>4. AtCall(f, r) /\ Truthful(r)
    BY <2>2 DEF AtCall, Truthful
  <2>5. cancelled \subseteq Sessions
    OBVIOUS
  <2> HIDE FormFacts DEF FormRec, Shape, Uses, Steps
  <2> QED BY <2>1, <2>2, <2>3, <2>4, <2>5, FormOnly
<1>2. CASE Act(f)
  <2>0. PICK x \in FormRec : x = form[f]
    OBVIOUS
  <2>1. PICK r \in FormRec : /\ form' = [form EXCEPT ![f] = r]
                             /\ r = [x EXCEPT !.pending = TRUE, !.error = FALSE, !.prompt = 0,
                                       !.task = "submit", !.session = x.key, !.net = "sent"]
    <3> DEFINE r == [x EXCEPT !.pending = TRUE, !.error = FALSE, !.prompt = 0,
                              !.task = "submit", !.session = x.key, !.net = "sent"]
    <3>1. r \in FormRec
      OBVIOUS
    <3>2. form' = [form EXCEPT ![f] = r]
      BY <1>2, <2>0 DEF Act, Ask
    <3> QED BY <3>1, <3>2
  <2>2. /\ UNCHANGED <<vars, cancelled>>
        /\ r.net = "sent" /\ r.task = "submit" /\ r.pending
        /\ r.prompt = 0 /\ r.key = form[f].key /\ r.session = form[f].key
        /\ form[f].net = "none" /\ form[f].prompt # 0 /\ form[f].key \in Sessions
    BY <1>2, <2>0, <2>1 DEF Act, HasPrompt, past
  <2>3. Shape(r) /\ \A s \in Sessions : Uses(r, s) => Uses(form[f], s)
    BY <2>2
  <2>4. AtCall(f, r) /\ Truthful(r)
    BY <2>2 DEF AtCall, Truthful
  <2>5. ~finalized[form[f].key] /\ form[f].key \notin cancelled
    BY <2>2 DEF Settled, AtCall
  <2>6. \A s \in Sessions : Uses(r, s) => ~finalized[s] /\ s \notin cancelled
    BY <2>2, <2>5
  <2>7. cancelled \subseteq Sessions
    OBVIOUS
  <2> HIDE FormFacts DEF FormRec, Shape, Uses, Steps
  <2> QED BY <2>1, <2>2, <2>3, <2>4, <2>6, <2>7, FormOnly
<1>3. CASE Reload(f)
  <2>1. PICK r \in FormRec : form' = [form EXCEPT ![f] = r] /\ r = Blank
    <3>1. Blank \in FormRec
      BY DEF Blank
    <3> QED BY <1>3, <3>1 DEF Reload, Ask
  <2>2. /\ UNCHANGED <<vars, cancelled>>
        /\ r.net = "none" /\ r.task = "none" /\ ~r.pending
        /\ r.prompt = 0 /\ r.key = NoSession /\ r.session = NoSession /\ form[f].net = "none"
    BY <1>3, <2>1 DEF Reload, Blank, past
  <2>3. Shape(r) /\ \A s \in Sessions : ~Uses(r, s)
    BY <2>2
  <2>4. AtCall(f, r) /\ Truthful(r)
    BY <2>2 DEF AtCall, Truthful
  <2>5. cancelled \subseteq Sessions
    OBVIOUS
  <2> HIDE FormFacts DEF FormRec, Shape, Uses, Steps
  <2> QED BY <2>1, <2>2, <2>3, <2>4, <2>5, FormOnly
<1> QED BY <1>1, <1>2, <1>3

(* A request that fails on its way, or whose handler does not find the key. *)
LEMMA FailStep ==
  ASSUME IInv, FormInv, NEW f \in Calls, OutOfKeys(f) \/ ServeMiss(f) \/ Lose(f)
  PROVE  FormsKept'
<1>1. /\ form' = [form EXCEPT ![f].net = "answered", ![f].step = "error", ![f].round = 0]
      /\ form[f].net \in {"sent", "answered"} /\ UNCHANGED <<vars, cancelled>>
  BY DEF OutOfKeys, ServeMiss, Lose, Answered, past
<1>2. PICK r \in FormRec : /\ form' = [form EXCEPT ![f] = r]
                           /\ r = [form[f] EXCEPT !.net = "answered", !.step = "error", !.round = 0]
  <2> DEFINE r == [form[f] EXCEPT !.net = "answered", !.step = "error", !.round = 0]
  <2>1. r \in FormRec
    BY FormFacts, NoRound DEF FormRec, Steps
  <2>2. form' = [form EXCEPT ![f] = r]
    BY <1>1, FormFacts DEF FormInv, FormTypeOK
  <2> QED BY <2>1, <2>2
<1>3. /\ r.key = form[f].key /\ r.prompt = form[f].prompt /\ r.pending = form[f].pending
      /\ r.error = form[f].error /\ r.task = form[f].task /\ r.session = form[f].session
      /\ r.net = "answered" /\ r.step = "error"
  BY <1>2, FormFacts DEF FormRec
<1>4. Shape(r) /\ \A s \in Sessions : Uses(r, s) => Uses(form[f], s)
  BY <1>1, <1>3, FormFacts DEF Shape, Uses
<1>5. AtCall(f, r) /\ Truthful(r)
  BY <1>1, <1>3, FormFacts DEF AtCall, Truthful
<1>6. \A s \in cancelled : Uses(r, s) => r.task = "abort"
  BY <1>3, FormFacts DEF Uses
<1>7. Settled(f, r)
  BY <1>3 DEF Settled
<1> QED BY <1>1, <1>2, <1>4, <1>5, <1>6, <1>7, FormOnly

(* Answers that arrive.                                                    *)
LEMMA ArriveForm ==
  ASSUME IInv, FormInv, NEW f \in Calls, Arrive(f)
  PROVE  FormsKept'
<1>0. UNCHANGED <<vars, cancelled>> /\ form[f].net = "answered"
  BY DEF Arrive, ArriveComplete, ArrivePrompt, ArrivePending, ArriveError, ArriveAbort, ArriveStep,
         past
<1>1. form[f] \in FormRec /\ Shape(form[f]) /\ Truthful(form[f])
  BY FormFacts
<1>2. cpc[f] = "idle" /\ form[f].prompt = 0
  BY <1>0, FormFacts DEF AtCall, Shape
<1>3. \A s \in cancelled : s \in Sessions /\ (Uses(form[f], s) => form[f].task = "abort")
  BY FormFacts
<1>4. \A s \in Sessions : Uses(form[f], s) /\ finalized[s] => form[f].step \in {"error", "complete"}
  BY <1>0, <1>2, FormFacts DEF Settled
<1> USE NoRound DEF FormRec, Steps
<1>5. ASSUME NEW k \in Sessions \cup {NoSession}, NEW n \in 0..MaxRounds, NEW e \in BOOLEAN,
             form' = [form EXCEPT ![f] = Ended(k, n, e)],
             k = NoSession \/ Uses(form[f], k),
             n # 0 => k # NoSession /\ prompt[k] = n /\ form[f].step = "twofactor",
             k = NoSession \/ n # 0 \/ e,
             k # NoSession => form[f].task # "abort"
      PROVE  FormsKept'
  <2>1. PICK r \in FormRec : form' = [form EXCEPT ![f] = r] /\ r = Ended(k, n, e)
    BY <1>5, EndedType
  <2>2. /\ r.key = k /\ r.prompt = n /\ (r.error <=> e) /\ ~r.pending /\ r.task = "none"
        /\ r.session = NoSession /\ r.net = "none"
    BY <2>1, EndedType
  <2> HIDE DEF FormRec, Steps
  <2>3. Shape(r) /\ AtCall(f, r) /\ Truthful(r)
    BY <1>2, <1>5, <2>2 DEF Shape, AtCall, Truthful
  <2>4. \A s \in Sessions : Uses(r, s) => s = k /\ Uses(form[f], s)
    BY <1>5, <2>2, LoginAssumption DEF Uses
  <2>5. \A s \in Sessions : Uses(r, s) /\ finalized[s] => Settled(f, r)
    BY <1>4, <1>5, <2>2, <2>4 DEF Settled
  <2>6. \A s \in cancelled : ~Uses(r, s)
    BY <1>3, <1>5, <2>4, LoginAssumption
  <2> QED BY <1>0, <2>1, <2>3, <2>4, <2>5, <2>6, FormOnly
<1>6. CASE ArriveComplete(f)
  <2>1. form' = [form EXCEPT ![f] = Ended(NoSession, 0, form[f].error)]
    BY <1>6 DEF ArriveComplete, Ask, Done, Ended, Blank
  <2> QED BY <1>1, <1>5, <2>1
<1>7. CASE ArrivePrompt(f)
  <2>1. form' = [form EXCEPT ![f] = Ended(form[f].session, form[f].round, form[f].error)]
    BY <1>7 DEF ArrivePrompt, Ask, Done, Ended, Blank
  <2>2. form[f].step = "twofactor" /\ form[f].task # "abort"
    BY <1>7 DEF ArrivePrompt, ArriveStep
  <2>3. form[f].session \in Sessions /\ form[f].round # 0 /\ prompt[form[f].session] = form[f].round
    BY <1>0, <1>1, <2>2 DEF Shape, Truthful
  <2> QED BY <1>1, <1>5, <2>1, <2>2, <2>3, LoginAssumption DEF Uses
<1>8. CASE ArriveError(f)
  <2>1. CASE form[f].task = "submit"
    <3>1. form' = [form EXCEPT ![f] = Ended(form[f].key, 0, TRUE)]
      BY <1>2, <1>8, <2>1 DEF ArriveError, AfterError, Ask, Done, Ended, Blank
    <3> QED BY <1>1, <1>5, <2>1, <3>1 DEF Uses
  <2>2. CASE form[f].task # "submit"
    <3>1. form' = [form EXCEPT ![f] = Ended(NoSession, 0, TRUE)]
      BY <1>8, <2>2 DEF ArriveError, AfterError, Ask, Done, Ended, Blank
    <3> QED BY <1>5, <3>1
  <2> QED BY <2>1, <2>2
<1>9. CASE ArriveAbort(f)
  <2>1. form' = [form EXCEPT ![f] = Ended(NoSession, 0, form[f].error)]
    BY <1>2, <1>9 DEF ArriveAbort, Ask, Done, Ended, Blank
  <2> QED BY <1>1, <1>5, <2>1
<1>10. CASE ArrivePending(f)
  <2>1. form[f].step = "pending" /\ form[f].task # "abort" /\ form[f].session \in Sessions
    BY <1>0, <1>1, <1>10 DEF ArrivePending, ArriveStep, Shape
  <2>2. PICK r \in FormRec : /\ form' = [form EXCEPT ![f] = r]
                             /\ r = [form[f] EXCEPT !.key = form[f].session, !.prompt = 0, !.task = "poll",
                                                    !.net = "sent", !.step = "none"]
    <3> DEFINE r == [form[f] EXCEPT !.key = form[f].session, !.prompt = 0, !.task = "poll",
                                    !.net = "sent", !.step = "none"]
    <3>1. r \in FormRec
      BY <1>1
    <3>2. form' = [form EXCEPT ![f] = r]
      BY <1>10 DEF ArrivePending, Ask
    <3> QED BY <3>1, <3>2
  <2>3. /\ r.key = form[f].session /\ r.prompt = 0 /\ r.task = "poll" /\ r.net = "sent"
        /\ r.pending = form[f].pending /\ r.session = form[f].session
    BY <1>1, <2>2
  <2> HIDE DEF FormRec, Steps
  <2>4. Shape(r) /\ AtCall(f, r) /\ Truthful(r)
    BY <1>0, <1>1, <1>2, <2>1, <2>3 DEF Shape, AtCall, Truthful
  <2>5. \A s \in Sessions : Uses(r, s) => Uses(form[f], s)
    BY <2>3 DEF Uses
  <2>6. \A s \in Sessions : Uses(r, s) => ~finalized[s]
    BY <1>4, <2>1, <2>5
  <2>7. \A s \in cancelled : ~Uses(r, s)
    BY <1>3, <2>1, <2>5
  <2> QED BY <1>0, <2>2, <2>4, <2>5, <2>6, <2>7, FormOnly
<1> QED BY <1>6, <1>7, <1>8, <1>9, <1>10 DEF Arrive

(* Cancel.  A prompt in view says that the thread waits for an answer, or  *)
(* has given up: either way it ends in an error.                           *)
LEMMA CancelForm == ASSUME IInv, FormInv, NEW f \in Calls, CancelClick(f) PROVE FormsKept'
<1> DEFINE k == form[f].key
<1>0. form[f] \in FormRec /\ Shape(form[f]) /\ AtCall(f, form[f]) /\ Truthful(form[f])
  BY FormFacts
<1>1. PICK r \in FormRec : /\ form' = [form EXCEPT ![f] = r]
                           /\ r = [form[f] EXCEPT !.pending = TRUE, !.error = FALSE, !.prompt = 0,
                                     !.task = "abort", !.session = form[f].key, !.net = "sent"]
  <2> DEFINE r == [form[f] EXCEPT !.pending = TRUE, !.error = FALSE, !.prompt = 0,
                                  !.task = "abort", !.session = form[f].key, !.net = "sent"]
  <2>1. r \in FormRec
    BY <1>0, NoRound DEF FormRec, Steps
  <2>2. form' = [form EXCEPT ![f] = r]
    BY DEF CancelClick, Ask
  <2> QED BY <2>1, <2>2
<1>2. /\ UNCHANGED vars /\ cancelled' = cancelled \cup {k}
      /\ r.net = "sent" /\ r.task = "abort" /\ r.pending
      /\ r.prompt = 0 /\ r.key = k /\ r.session = k
      /\ form[f].net = "none" /\ form[f].prompt # 0 /\ k \in Sessions
  BY <1>0, <1>1 DEF CancelClick, HasPrompt, Shape, FormRec
<1>3. cpc[f] = "idle" /\ prompt[k] # 0
  BY <1>0, <1>2 DEF AtCall, Truthful
<1>4. Shape(r) /\ AtCall(f, r) /\ Truthful(r) /\ Uses(form[f], k) /\ ~finalized[k]
      /\ \A s \in Sessions : Uses(r, s) => s = k
  BY <1>2, <1>3, FormFacts DEF Shape, AtCall, Truthful, Uses, Settled
<1>5. OwnStep(f, r) /\ AtCall(f, r)' /\ Truthful(r)'
  BY <1>1, <1>2, <1>4 DEF OwnStep, vars, AtCall, Truthful
<1>6. FormsOK' /\ OneOwner'
  BY <1>4, <1>5, OwnForms, OwnOwner DEF IInv
<1>7. FinalOK'
  BY <1>2, <1>4, <1>5, OwnFinal DEF vars
<1>8. CancelledOK'
  <2>1. DoomedThread(k)
    <3>1. thread[k] \notin NoToken /\ slot[k] = Empty /\ thread[k] \in Threads
      BY <1>2, <1>3 DEF IInv, Token, TypeOK
    <3>2. result[k] # "ok"
      BY <1>2, <1>3 DEF FormInv, CancelledOK
    <3> QED BY <3>1, <3>2 DEF DoomedThread, NoToken, Threads
  <2>2. \A s \in cancelled' : DoomedThread(s)'
    BY <1>2, <2>1 DEF FormInv, CancelledOK, DoomedThread, vars
  <2>3. ASSUME NEW s \in cancelled', NEW g \in Calls, Uses(form'[g], s) PROVE form'[g].task = "abort"
    <3>1. CASE g = f
      BY <1>1, <1>2, <3>1 DEF FormInv, FormTypeOK
    <3>2. CASE g # f
      <4>1. form'[g] = form[g] /\ Uses(form[g], s)
        BY <1>1, <2>3, <3>2 DEF FormInv, FormTypeOK
      <4>2. s # k
        BY <1>2, <1>4, <3>2, <4>1 DEF FormInv, OneOwner
      <4> QED BY <1>2, <2>3, <4>1, <4>2 DEF FormInv, CancelledOK
    <3> QED BY <3>1, <3>2
  <2> QED BY <1>2, <2>2, <2>3 DEF FormInv, CancelledOK, vars
<1>9. form' \in [Calls -> FormRec]
  BY <1>1 DEF FormInv, FormTypeOK, FormRec
<1> QED BY <1>6, <1>7, <1>8, <1>9 DEF FormsKept

(* The thread.  It publishes a prompt only when the last one was answered, *)
(* and accepts only then.                                                  *)
LEMMA ThreadForm == ASSUME IInv, FormInv, NEW s \in Sessions, Thread(s) PROVE FormsKept'
<1>1. /\ UNCHANGED <<form, cancelled, cpc, csess, answer, saved, finalized>>
      /\ thread[s] # "none" /\ thread[s] # "over" /\ thread'[s] # "none"
      /\ \A t \in Sessions \ {s} : thread'[t] = thread[t] /\ prompt'[t] = prompt[t]
                                   /\ slot'[t] = slot[t] /\ result'[t] = result[t]
  BY DEF Thread, ThreadStep, Publish, Receive, Timeout, LoginReturns, WriteResult, To, past,
         callVars, IInv, TypeOK
<1>2. prompt'[s] = prompt[s] \/ (prompt[s] = 0 /\ thread[s] = "apple")
  <2>1. CASE Publish(s)
    BY <2>1 DEF Publish, IInv, Token, NoToken
  <2>2. CASE Receive(s) \/ Timeout(s) \/ LoginReturns(s) \/ WriteResult(s)
    BY <2>2 DEF Receive, Timeout, LoginReturns, WriteResult
  <2> QED BY <2>1, <2>2 DEF Thread, ThreadStep
<1>3. FormsOK'
  <2>1. ASSUME NEW g \in Calls PROVE Shape(form[g]) /\ AtCall(g, form[g])' /\ Truthful(form[g])'
    <3>1. Shape(form[g]) /\ AtCall(g, form[g]) /\ Truthful(form[g])
      BY DEF FormInv, FormsOK
    <3>2. AtCall(g, form[g])'
      BY <1>1, <3>1 DEF AtCall
    <3>3. Truthful(form[g])'
      BY <1>1, <1>2, <3>1 DEF Truthful, Shape
    <3> QED BY <3>1, <3>2, <3>3
  <2> QED BY <1>1, <2>1 DEF FormsOK, Shape, AtCall, Truthful
<1>4. OneOwner'
  BY <1>1 DEF FormInv, OneOwner
<1>5. FinalOK'
  BY <1>1 DEF FormInv, FinalOK, Settled
<1>6. \A t \in Sessions : prompt'[t] # 0 => result'[t] # "ok"
  <2>1. prompt'[s] # 0 => result'[s] # "ok"
    <3>1. CASE Publish(s)
      BY <3>1 DEF Publish, IInv, TypeOK, ResultOK
    <3>2. CASE WriteResult(s)
      BY <3>2 DEF WriteResult, IInv, TypeOK, Token, NoToken
    <3>3. CASE Receive(s) \/ Timeout(s) \/ LoginReturns(s)
      BY <3>3 DEF Receive, Timeout, LoginReturns, FormInv, CancelledOK
    <3> QED BY <3>1, <3>2, <3>3 DEF Thread, ThreadStep
  <2> QED BY <1>1, <2>1 DEF FormInv, CancelledOK
<1>7. \A t \in cancelled : DoomedThread(t)'
  <2>1. ASSUME s \in cancelled PROVE DoomedThread(s)'
    <3>1. DoomedThread(s)
      BY <2>1 DEF FormInv, CancelledOK
    <3> USE DEF DoomedThread, IInv, TypeOK, To
    <3>2. CASE Publish(s) \/ Timeout(s)
      BY <3>1, <3>2 DEF Publish, Timeout
    <3>3. CASE Receive(s)
      BY <3>1, <3>3 DEF Receive
    <3>4. CASE LoginReturns(s) \/ WriteResult(s)
      BY <3>1, <3>4 DEF LoginReturns, WriteResult
    <3> QED BY <3>2, <3>3, <3>4 DEF Thread, ThreadStep
  <2>2. ASSUME NEW t \in cancelled, t # s PROVE DoomedThread(t)'
    <3>1. t \in Sessions /\ DoomedThread(t)
      BY <2>2 DEF FormInv, FormTypeOK, CancelledOK
    <3> QED BY <1>1, <2>2, <3>1 DEF DoomedThread
  <2> QED BY <2>1, <2>2
<1>8. CancelledOK'
  BY <1>1, <1>6, <1>7 DEF FormInv, CancelledOK
<1> QED BY <1>1, <1>3, <1>4, <1>5, <1>8 DEF FormsKept, FormInv, FormTypeOK, FormRec

-----------------------------------------------------------------------------
(* The handlers.  A step of the call of a form stays with its session.     *)
LEMMA CallFrame ==
  ASSUME IInv, FormInv, NEW f \in Calls, form[f].net = "served", CallStep(f) \/ Cancel(f)
  PROVE  /\ csess[f] = form[f].session /\ csess[f] \in Sessions /\ cpc[f] # "idle"
         /\ UNCHANGED <<thread, result>>
         /\ \A g \in Calls \ {f} : cpc'[g] = cpc[g] /\ csess'[g] = csess[g] /\ answer'[g] = answer[g]
         /\ \A s \in Sessions : s # csess[f] =>
              /\ prompt'[s] = prompt[s] /\ slot'[s] = slot[s]
              /\ saved'[s] = saved[s] /\ finalized'[s] = finalized[s]
         /\ \A s \in Sessions : /\ prompt'[s] # 0 => prompt[s] # 0
                                /\ finalized'[s] => finalized[s] \/ (s = csess[f] /\ thread[s] = "over")
<1>1. cpc[f] # "idle" /\ csess[f] = form[f].session /\ csess[f] \in Sessions
  BY FormFacts DEF AtCall, IInv, CallsOK
<1> USE <1>1 DEF IInv, TypeOK, At, Reply, threadVars, history
<1>2. CASE Take(f)
  BY <1>2 DEF Take
<1>3. CASE Send(f)
  BY <1>3 DEF Send
<1>4. CASE Swap(f)
  BY <1>4 DEF Swap, CallsOK, ResultOK
<1>5. CASE Insert(f)
  BY <1>5 DEF Insert
<1>6. CASE ~(Take(f) \/ Send(f) \/ Swap(f) \/ Insert(f))
  BY <1>6 DEF CallStep, TakeNothing, SendFails, Unmap, Peek, ReplyPrompt, ReplyPending, Tick, Remove,
              InsertFails, Cancel
<1> QED BY <1>2, <1>3, <1>4, <1>5, <1>6

(* What is known of a form whose request is with its handler.              *)
LEMMA ServedFacts ==
  ASSUME IInv, FormInv, NEW f \in Calls, form[f].net = "served"
  PROVE  /\ form[f].prompt = 0 /\ form[f].pending
         /\ \A s \in Sessions : finalized[s] /\ Uses(form[f], s) => cpc[f] = "insert"
         /\ \A s \in cancelled : s \in Sessions /\ (Uses(form[f], s) => form[f].task = "abort")
         /\ form[f].task = "abort" => cpc[f] \in {"idle", "take", "send", "unmap"}
         /\ form[f].task = "abort" /\ cpc[f] \in {"take", "send"} => answer[f].abort
BY FormFacts DEF Shape, Settled, AtCall

(* A step without an answer.                                               *)
LEMMA HandleForm == ASSUME IInv, FormInv, NEW f \in Calls, Handle(f) PROVE FormsKept'
<1>1. form[f].net = "served" /\ CallStep(f) /\ UNCHANGED <<form, cancelled>>
  BY DEF Handle, CallStep, past
<1>2. PICK x \in FormRec : x = form[f] /\ form' = [form EXCEPT ![f] = x]
  BY <1>1, FormFacts DEF FormInv, FormTypeOK
<1>3. /\ Shape(x) /\ AtCall(f, x) /\ x.net = "served"
      /\ csess[f] = x.session /\ csess[f] \in Sessions /\ Uses(x, csess[f])
  BY <1>1, <1>2, FormFacts, CallFrame DEF Uses
<1>4. /\ x.prompt = 0 /\ x.pending
      /\ \A t \in Sessions : finalized[t] /\ Uses(x, t) => cpc[f] = "insert"
      /\ \A t \in cancelled : t \in Sessions /\ (Uses(x, t) => x.task = "abort")
      /\ x.task = "abort" => cpc[f] \in {"idle", "take", "send", "unmap"}
      /\ x.task = "abort" /\ cpc[f] \in {"take", "send"} => answer[f].abort
  BY <1>1, <1>2, ServedFacts
<1>5. OwnStep(f, x)
  <2>1. \A t \in Sessions : ~Uses(form[f], t) => t # csess[f]
    BY <1>2, <1>3
  <2>2. /\ UNCHANGED <<thread, result>>
        /\ \A g \in Calls \ {f} : cpc'[g] = cpc[g] /\ csess'[g] = csess[g] /\ answer'[g] = answer[g]
        /\ \A s \in Sessions : s # csess[f] =>
             /\ prompt'[s] = prompt[s] /\ slot'[s] = slot[s]
             /\ saved'[s] = saved[s] /\ finalized'[s] = finalized[s]
    BY <1>1, CallFrame
  <2> QED BY <1>2, <2>1, <2>2 DEF OwnStep
<1>6. AtCall(f, x)'
  <2> USE <1>2, <1>3, <1>4 DEF AtCall, IInv, TypeOK, Answers, threadVars, history, At
  <2>1. CASE Take(f)
    BY <1>1, <2>1 DEF Take
  <2>2. CASE Send(f)
    BY <1>1, <2>2 DEF Send
  <2>3. CASE Peek(f) \/ Tick(f)
    BY <1>1, <2>3 DEF Peek, Tick
  <2>4. CASE result[form[f].session] = "ok" /\ Remove(f)
    BY <1>1, <2>4 DEF Remove
  <2>5. CASE ~finalized[form[f].session] /\ Swap(f)
    BY <1>1, <2>5 DEF Swap
  <2> QED BY <2>1, <2>2, <2>3, <2>4, <2>5 DEF Handle
<1>7. Truthful(x)'
  BY <1>3, <1>4 DEF Truthful
<1>8. ASSUME NEW t \in Sessions, finalized'[t], Uses(x, t) PROVE Settled(f, x)'
  <2>1. CASE ~finalized[form[f].session] /\ Swap(f)
    BY <1>2, <1>3, <2>1 DEF Swap, Settled, At, Reply, IInv, TypeOK
  <2>2. CASE Take(f) \/ Send(f) \/ Peek(f) \/ Tick(f) \/ Remove(f)
    BY <1>4, <1>8, <2>2 DEF Take, Send, Peek, Tick, Remove, threadVars
  <2> QED BY <2>1, <2>2 DEF Handle
<1>9. ASSUME NEW t \in cancelled, Uses(x, t), slot'[t] # Empty
      PROVE  slot'[t] = slot[t] \/ slot'[t].abort
  <2>1. CASE Send(f)
    <3>1. answer[f].abort /\ slot' = [slot EXCEPT ![csess[f]] = answer[f]]
      BY <1>4, <1>9, <2>1 DEF Send
    <3>2. slot \in [Sessions -> Answers] /\ t \in Sessions
      BY <1>4 DEF IInv, TypeOK
    <3> QED BY <3>1, <3>2
  <2>2. CASE Take(f) \/ Peek(f) \/ Tick(f) \/ Remove(f) \/ Swap(f)
    BY <2>2 DEF Take, Swap, Peek, Tick, Remove, threadVars
  <2> QED BY <2>1, <2>2 DEF Handle
<1>10. FormsOK' /\ OneOwner'
  BY <1>3, <1>5, <1>6, <1>7, OwnForms, OwnOwner DEF IInv
<1>11. FinalOK'
  <2>1. \A t \in Sessions : finalized'[t] => finalized[t] \/ (Uses(form[f], t) /\ thread[t] = "over")
    BY <1>1, <1>2, <1>3, CallFrame
  <2> QED BY <1>5, <1>8, <2>1, OwnFinal
<1>12. CancelledOK'
  <2>1. \A t \in Sessions : prompt'[t] # 0 => prompt[t] # 0
    BY <1>1, CallFrame
  <2> QED BY <1>1, <1>2, <1>4, <1>5, <1>9, <2>1, OwnCancelled
<1> QED BY <1>1, <1>10, <1>11, <1>12 DEF FormsKept, FormInv, FormTypeOK, FormRec

(* A step with which the call ends and an answer is on its way.            *)
LEMMA AnswerForm ==
  ASSUME IInv, FormInv, NEW f \in Calls, form[f].net = "served", CallStep(f) \/ Cancel(f),
         NEW step \in Steps, NEW n \in 0..MaxRounds, Answered(f, step, n),
         cpc'[f] = "idle", UNCHANGED <<prompt, slot, finalized, cancelled>>,
         step = "twofactor" => n # 0 /\ prompt[csess[f]] = n,
         step = "complete" => saved'[csess[f]] = 1,
         cpc[f] = "insert" => step \in {"error", "complete"}
  PROVE  FormsKept'
<1>0. form[f] \in FormRec /\ Shape(form[f])
  BY FormFacts
<1>1. PICK r \in FormRec : /\ form' = [form EXCEPT ![f] = r]
                           /\ r = [form[f] EXCEPT !.net = "answered", !.step = step, !.round = n]
  <2> DEFINE r == [form[f] EXCEPT !.net = "answered", !.step = step, !.round = n]
  <2>1. r \in FormRec
    BY <1>0 DEF FormRec
  <2>2. form' = [form EXCEPT ![f] = r]
    BY <1>0 DEF Answered, FormInv, FormTypeOK
  <2> QED BY <2>1, <2>2
<1>2. /\ r.key = form[f].key /\ r.prompt = form[f].prompt /\ (r.pending <=> form[f].pending)
      /\ (r.error <=> form[f].error) /\ r.task = form[f].task /\ r.session = form[f].session
      /\ r.net = "answered" /\ r.step = step /\ r.round = n
  BY <1>0, <1>1 DEF FormRec
<1>3. \A s \in Sessions : Uses(r, s) <=> Uses(form[f], s)
  BY <1>2 DEF Uses
<1>4. Shape(r) /\ AtCall(f, r)' /\ Truthful(r)'
  <2>1. csess[f] = form[f].session /\ csess[f] \in Sessions /\ form[f].prompt = 0
    BY CallFrame, ServedFacts
  <2> QED BY <1>0, <1>2, <2>1 DEF Shape, AtCall, Truthful
<1>5. OwnStep(f, r)
  BY <1>1, <1>3, CallFrame DEF OwnStep, Uses
<1>6. FormsOK' /\ OneOwner'
  BY <1>4, <1>5, OwnForms, OwnOwner DEF IInv
<1>7. FinalOK'
  <2>1. \A s \in Sessions : finalized'[s] /\ Uses(r, s) => Settled(f, r)'
    BY <1>2, <1>3, ServedFacts DEF Settled
  <2> QED BY <1>5, <2>1, OwnFinal
<1>8. CancelledOK'
  <2>1. \A s \in cancelled : Uses(form[f], s) => (Uses(r, s) => r.task = "abort")
                             /\ (slot'[s] # Empty => slot'[s] = slot[s] \/ slot'[s].abort)
    BY <1>2, ServedFacts
  <2> QED BY <1>5, <2>1, OwnCancelled
<1>9. form' \in [Calls -> FormRec]
  BY <1>1 DEF FormInv, FormTypeOK, FormRec
<1> QED BY <1>6, <1>7, <1>8, <1>9 DEF FormsKept

(* The answers of the handlers.  A prompt is the one that is out; Complete *)
(* comes from the call that inserts, as no other call can be at swap with  *)
(* the flag set.                                                           *)
LEMMA ReplyForm ==
  ASSUME IInv, FormInv, NEW f \in Calls, HandleReply(f) \/ InsertError(f) \/ Drop(f)
  PROVE  FormsKept'
<1>0. \A n \in {0} \cup {prompt[s] : s \in Sessions} : n \in 0..MaxRounds
  BY NoRound DEF IInv, TypeOK
<1>1. cpc[f] # "idle" => form[f].net = "served" /\ csess[f] = form[f].session /\ csess[f] \in Sessions
  BY FormFacts DEF AtCall, IInv, CallsOK
<1>2. UNCHANGED cancelled
  BY DEF HandleReply, InsertError, Drop, past
<1> USE NoRound DEF Steps
<1>3. CASE HandleReply(f) /\ ReplyPrompt(f) /\ Answered(f, "twofactor", prompt[form[f].session])
  <2>1. PICK n \in 0..MaxRounds : n = prompt[csess[f]]
    BY <1>0, <1>1, <1>3 DEF ReplyPrompt
  <2>2. /\ n # 0 /\ Answered(f, "twofactor", n) /\ cpc[f] = "prompt" /\ cpc'[f] = "idle"
        /\ UNCHANGED <<prompt, slot, finalized>>
    BY <1>1, <1>3, <2>1 DEF ReplyPrompt, Reply, At, threadVars, IInv, TypeOK
  <2> QED BY <1>1, <1>2, <1>3, <2>1, <2>2, AnswerForm DEF CallStep
<1>4. CASE (ReplyPending(f) \/ Unmap(f)) /\ Answered(f, "pending", 0)
  <2>1. /\ cpc[f] \in {"prompt", "unmap"} /\ cpc'[f] = "idle" /\ UNCHANGED <<prompt, slot, finalized>>
    BY <1>4 DEF ReplyPending, Unmap, Reply, At, threadVars, IInv, TypeOK
  <2> QED BY <1>1, <1>2, <1>4, <2>1, AnswerForm DEF CallStep
<1>5. CASE HandleReply(f) /\ finalized[form[f].session] /\ Swap(f)
  <2>1. form[f].net = "served" /\ cpc[f] = "swap"
    BY <1>5 DEF HandleReply, Swap
  <2>2. cpc[f] = "insert"
    BY <1>1, <1>5, <2>1, ServedFacts DEF Uses
  <2> QED BY <2>1, <2>2
<1>6. CASE Insert(f) /\ Answered(f, "complete", 0)
  <2>1. /\ cpc[f] = "insert" /\ cpc'[f] = "idle" /\ UNCHANGED <<prompt, slot, finalized>>
    BY <1>6 DEF Insert, Reply, At, threadVars, IInv, TypeOK
  <2>2. saved'[csess[f]] = 1
    BY <1>1, <1>6, <2>1 DEF Insert, IInv, TypeOK, Exclusive
  <2> QED BY <1>1, <1>2, <1>6, <2>1, <2>2, AnswerForm DEF CallStep
<1>7. CASE (TakeNothing(f) \/ SendFails(f) \/ InsertFails(f) \/ (result[form[f].session] # "ok" /\ Remove(f))
            \/ Cancel(f)) /\ Answered(f, "error", 0)
  <2>1. /\ cpc[f] # "idle" /\ cpc'[f] = "idle" /\ UNCHANGED <<prompt, slot, finalized>>
    BY <1>1, <1>7 DEF TakeNothing, SendFails, InsertFails, Remove, Cancel, Reply, At, threadVars, IInv, TypeOK
  <2>2. CallStep(f) \/ Cancel(f)
    BY <1>7 DEF CallStep
  <2> QED BY <1>1, <1>2, <1>7, <2>1, <2>2, AnswerForm
<1> QED BY <1>3, <1>4, <1>5, <1>6, <1>7 DEF HandleReply, InsertError, Drop

(* poll_login and submit_two_factor get the request of a form that follows *)
(* a sign-in: it is not finalized yet.                                     *)
LEMMA ServeForm == ASSUME IInv, FormInv, NEW f \in Calls, ServeOther(f) PROVE FormsKept'
<1> DEFINE s == form[f].session
<1>0. form[f] \in FormRec /\ Shape(form[f]) /\ AtCall(f, form[f]) /\ form[f].net = "sent"
  BY FormFacts DEF ServeOther
<1>1. PICK r \in FormRec : form' = [form EXCEPT ![f] = r] /\ r = [form[f] EXCEPT !.net = "served"]
  <2> DEFINE r == [form[f] EXCEPT !.net = "served"]
  <2>1. r \in FormRec
    BY <1>0 DEF FormRec
  <2>2. form'[f] = r
    <3>1. form'[f] = [form[f] EXCEPT !.net = "served", !.session = s]
      BY <1>0 DEF ServeOther, Served, FormInv, FormTypeOK
    <3> QED BY <1>0, <3>1 DEF FormRec
  <2>3. form' = [form EXCEPT ![f] = form'[f]]
    BY DEF ServeOther, Served, FormInv, FormTypeOK
  <2> QED BY <2>1, <2>2, <2>3
<1>2. /\ r.key = form[f].key /\ r.prompt = form[f].prompt /\ (r.pending <=> form[f].pending)
      /\ (r.error <=> form[f].error) /\ r.task = form[f].task /\ r.session = s /\ r.net = "served"
  BY <1>0, <1>1 DEF FormRec
<1>3. /\ UNCHANGED <<thread, result, prompt, slot, saved, finalized, cancelled>>
      /\ form[f].task \in {"poll", "submit", "abort"}
      /\ \A g \in Calls \ {f} : cpc'[g] = cpc[g] /\ csess'[g] = csess[g] /\ answer'[g] = answer[g]
      /\ csess'[f] = s /\ cpc'[f] \in {"peek", "take"} /\ s \in Sessions
      /\ form[f].task = "abort" => cpc'[f] = "take" /\ answer'[f].abort
  BY <1>0 DEF ServeOther, Poll, Submit, Lookup, At, threadVars, past, Shape, IInv, TypeOK
<1>4. \A t \in Sessions : (Uses(r, t) <=> Uses(form[f], t)) /\ (Uses(r, t) => ~finalized[t])
  BY <1>0, <1>2, FormFacts DEF Uses, Settled, AtCall
<1>5. Shape(r) /\ AtCall(f, r)' /\ Truthful(r)'
  BY <1>0, <1>2, <1>3 DEF Shape, AtCall, Truthful
<1>6. OwnStep(f, r)
  BY <1>1, <1>3, <1>4 DEF OwnStep
<1>7. FormsOK' /\ OneOwner'
  BY <1>5, <1>6, OwnForms, OwnOwner DEF IInv
<1>8. FinalOK'
  BY <1>3, <1>4, <1>6, OwnFinal
<1>9. CancelledOK'
  <2>1. \A t \in cancelled : Uses(form[f], t) => (Uses(r, t) => r.task = "abort")
                             /\ (slot'[t] # Empty => slot'[t] = slot[t] \/ slot'[t].abort)
    BY <1>2, <1>3, FormFacts
  <2> QED BY <1>3, <1>6, <2>1, OwnCancelled
<1>10. form' \in [Calls -> FormRec]
  BY <1>1 DEF FormInv, FormTypeOK, FormRec
<1> QED BY <1>7, <1>8, <1>9, <1>10 DEF FormsKept

(* begin_login gets the request of a form, under a fresh key: one that no  *)
(* form knows.                                                             *)
LEMMA BeginForm == ASSUME IInv, FormInv, NEW f \in Calls, ServeBegin(f) PROVE FormsKept'
<1>0. form[f] \in FormRec /\ Shape(form[f]) /\ form[f].net = "sent" /\ form[f].task = "begin"
  BY FormFacts DEF ServeBegin
<1>1. PICK s \in Sessions : thread[s] = "none" /\ Begin(f, s) /\ Served(f, s)
  <2>1. PICK s \in Fresh : Begin(f, s) /\ Served(f, s)
    BY DEF ServeBegin
  <2>2. s \in Sessions /\ thread[s] = "none"
    BY <2>1 DEF Fresh
  <2> QED BY <2>1, <2>2
<1>2. PICK r \in FormRec : /\ form' = [form EXCEPT ![f] = r]
                           /\ r = [form[f] EXCEPT !.net = "served", !.session = s]
  <2> DEFINE r == [form[f] EXCEPT !.net = "served", !.session = s]
  <2>1. r \in FormRec
    BY <1>0 DEF FormRec
  <2>2. form' = [form EXCEPT ![f] = r]
    BY <1>0, <1>1 DEF Served, FormInv, FormTypeOK
  <2> QED BY <2>1, <2>2
<1>3. /\ r.key = NoSession /\ r.prompt = 0 /\ r.pending /\ r.task = "begin" /\ r.session = s
      /\ r.net = "served" /\ form[f].session = NoSession /\ form[f].key = NoSession
  BY <1>0, <1>2, LoginAssumption DEF FormRec, Shape
<1>4. /\ UNCHANGED <<result, prompt, slot, saved, finalized, cancelled, answer>>
      /\ \A g \in Calls \ {f} : cpc'[g] = cpc[g] /\ csess'[g] = csess[g] /\ form'[g] = form[g]
      /\ csess'[f] = s /\ cpc'[f] = "peek" /\ form'[f] = r
      /\ thread'[s] = "apple" /\ \A t \in Sessions \ {s} : thread'[t] = thread[t]
  BY <1>1, <1>2 DEF Begin, ServeBegin, At, To, past, IInv, TypeOK, FormInv, FormTypeOK
<1>5. \A g \in Calls : ~Uses(form[g], s)
  BY <1>1 DEF FormInv, OneOwner
<1>6. Shape(r) /\ AtCall(f, r)' /\ Truthful(r)' /\ \A t \in Sessions : Uses(r, t) => t = s
  BY <1>3, <1>4, LoginAssumption DEF Shape, AtCall, Truthful, Uses
<1>7. FormsOK'
  <2>1. ASSUME NEW g \in Calls \ {f} PROVE (Shape(form[g]) /\ AtCall(g, form[g]) /\ Truthful(form[g]))'
    <3>1. Shape(form[g]) /\ AtCall(g, form[g]) /\ Truthful(form[g])
      BY DEF FormInv, FormsOK
    <3> QED BY <1>4, <3>1 DEF Shape, AtCall, Truthful
  <2>2. (Shape(form[f]) /\ AtCall(f, form[f]) /\ Truthful(form[f]))'
    BY <1>4, <1>6 DEF Shape, AtCall, Truthful
  <2> QED BY <2>1, <2>2 DEF FormsOK
<1>8. OneOwner'
  <2>1. ASSUME NEW g \in Calls, NEW t \in Sessions, Uses(form'[g], t)
        PROVE  (g = f /\ t = s) \/ (g # f /\ t # s /\ Uses(form[g], t))
    BY <1>4, <1>5, <1>6, <2>1
  <2>2. \A g \in Calls, t \in Sessions : Uses(form[g], t) =>
          thread[t] # "none" /\ \A h \in Calls : Uses(form[h], t) => h = g
    BY DEF FormInv, OneOwner
  <2> QED BY <1>4, <2>1, <2>2 DEF OneOwner
<1>9. FinalOK'
  <2>1. \A t \in Sessions : finalized[t] => thread[t] = "over" /\ t # s
    BY <1>1 DEF FormInv, FinalOK
  <2>2. ASSUME NEW t \in Sessions, finalized'[t], NEW g \in Calls, Uses(form'[g], t)
        PROVE  Settled(g, form[g])'
    <3>1. t # s /\ g # f /\ form'[g] = form[g] /\ cpc'[g] = cpc[g]
      BY <1>4, <1>6, <2>1, <2>2
    <3>2. Settled(g, form[g])
      BY <1>4, <2>2, <3>1 DEF FormInv, FinalOK
    <3> QED BY <3>1, <3>2 DEF Settled
  <2> QED BY <1>4, <2>1, <2>2 DEF FinalOK
<1>10. CancelledOK'
  <2>1. \A t \in cancelled : DoomedThread(t) /\ t \in Sessions /\ t # s
    BY <1>1 DEF FormInv, FormTypeOK, CancelledOK, DoomedThread
  <2>2. \A t \in cancelled : DoomedThread(t)'
    BY <1>4, <2>1 DEF DoomedThread
  <2>3. ASSUME NEW t \in cancelled, NEW g \in Calls, Uses(form'[g], t) PROVE form'[g].task = "abort"
    BY <1>4, <1>6, <2>1, <2>3 DEF FormInv, CancelledOK
  <2> QED BY <1>4, <2>2, <2>3 DEF FormInv, CancelledOK
<1>11. form' \in [Calls -> FormRec]
  BY <1>2 DEF FormInv, FormTypeOK, FormRec
<1> QED BY <1>7, <1>8, <1>9, <1>10, <1>11 DEF FormsKept

-----------------------------------------------------------------------------
(* A step of the form is a step of the login machinery, or leaves it alone, *)
(* or is the sweep of another begin_login, which keeps the logins that are *)
(* under way.                                                              *)
LEMMA SessionStep ==
  ASSUME IInv, FormInv, [FormNext]_formVars
  PROVE  [Next]_vars \/ Sweep
<1>1. ASSUME NEW s \in Sessions, Thread(s) PROVE Next
  BY <1>1 DEF Thread, Next
<1>2. ASSUME NEW f \in Calls, ServeBegin(f) PROVE Next
  BY <1>2 DEF ServeBegin, Fresh, Next, Client
<1>3. ASSUME NEW f \in Calls, ServeOther(f) PROVE Next
  <2> DEFINE s == form[f].session
  <2>1. Poll(f, s) \/ Submit(f, s, FALSE) \/ Submit(f, s, TRUE)
    BY <1>3 DEF ServeOther
  <2>2. s \in Sessions
    BY <2>1 DEF Poll, Submit, Lookup, IInv, TypeOK
  <2> QED BY <2>1, <2>2 DEF Next, Client
<1>4. ASSUME NEW f \in Calls, Handler(f) \/ Drop(f) PROVE Next
  <2>1. CallStep(f) \/ Cancel(f)
    BY <1>4 DEF Handler, Handle, HandleReply, InsertError, Drop, CallStep
  <2> QED BY <2>1 DEF Next
<1>5. ASSUME NEW f \in Calls,
             OutOfKeys(f) \/ ServeMiss(f) \/ Arrive(f) \/ Click(f) \/ Lose(f)
      PROVE  UNCHANGED vars
  <2>1. CASE Arrive(f)
    BY <2>1 DEF Arrive, ArriveComplete, ArrivePrompt, ArrivePending, ArriveError, ArriveAbort, ArriveStep
  <2>2. CASE Click(f)
    BY <2>2 DEF Click, SignIn, Act, CancelClick, Reload
  <2> QED BY <1>5, <2>1, <2>2 DEF OutOfKeys, ServeMiss, Lose
<1>6. CASE UNCHANGED formVars
  BY <1>6 DEF formVars
<1> QED BY <1>1, <1>2, <1>3, <1>4, <1>5, <1>6 DEF FormNext, Network

LEMMA SweepInv ==
  ASSUME IInv, Sweep
  PROVE  IInv'
<1>1. logins' \subseteq logins /\ \A s \in logins : result[s] = "none" => s \in logins'
  BY DEF Sweep
<1>2. TypeOK'
  BY <1>1 DEF Sweep, IInv, TypeOK
<1>3. CallsOK' /\ ResultOK'
  BY DEF Sweep, IInv, CallsOK, ResultOK
<1>4. Token' /\ Exclusive' /\ Doomed'
  BY DEF Sweep, IInv, Token, Exclusive, Doomed, NoToken
<1>5. InFlightKept'
  BY <1>1 DEF Sweep, IInv, InFlightKept
<1> QED BY <1>2, <1>3, <1>4, <1>5 DEF IInv

LEMMA FormLoginStep == ASSUME IInv, FormInv, [FormNext]_formVars PROVE IInv'
BY SessionStep, SweepInv, StepInv

(* A step that has no form and no call of its own.                         *)
LEMMA StillForms ==
  ASSUME FormInv, UNCHANGED <<thread, prompt, slot, result, finalized, saved, cpc, csess, answer,
                              form, cancelled>>
  PROVE  FormsKept'
<1>1. FormsOK'
  BY DEF FormInv, FormsOK, Shape, AtCall, Truthful
<1>2. OneOwner' /\ FinalOK'
  BY DEF FormInv, OneOwner, FinalOK, Settled
<1>3. CancelledOK'
  BY DEF FormInv, CancelledOK, DoomedThread
<1> QED BY <1>1, <1>2, <1>3 DEF FormsKept, FormInv, FormTypeOK, FormRec

LEMMA FormsStep == ASSUME IInv, FormInv, [FormNext]_formVars PROVE FormsKept'
<1>1. ASSUME NEW s \in Sessions, Thread(s) PROVE FormsKept'
  BY <1>1, ThreadForm
<1>2. ASSUME NEW f \in Calls, Network(f) PROVE FormsKept'
  BY <1>2, BeginForm, ServeForm, FailStep DEF Network
<1>3. ASSUME NEW f \in Calls, Handler(f) \/ Drop(f) PROVE FormsKept'
  BY <1>3, HandleForm, ReplyForm DEF Handler
<1>4. ASSUME NEW f \in Calls, Arrive(f) PROVE FormsKept'
  BY <1>4, ArriveForm
<1>5. ASSUME NEW f \in Calls, Click(f) PROVE FormsKept'
  BY <1>5, ClickStep, CancelForm DEF Click
<1>6. ASSUME NEW f \in Calls, Lose(f) PROVE FormsKept'
  BY <1>6, FailStep
<1>7. CASE Sweep
  BY <1>7, StillForms DEF Sweep, past
<1>8. CASE UNCHANGED formVars
  BY <1>8, StillForms DEF formVars, vars, past
<1> QED BY <1>1, <1>2, <1>3, <1>4, <1>5, <1>6, <1>7, <1>8 DEF FormNext

(* An account that was saved stays saved: only one call inserts it.        *)
LEMMA SavedStays ==
  ASSUME IInv, FormInv, [FormNext]_formVars, NEW s \in Sessions, saved[s] = 1
  PROVE  saved'[s] = 1
<1>1. CASE Sweep
  BY <1>1 DEF Sweep
<1>2. CASE [Next]_vars
  <2>1. ASSUME NEW c \in Calls, CallStep(c) PROVE saved'[s] = 1
    <3>1. CASE Insert(c)
      <4>1. csess[c] \in Sessions \ {s}
        BY <3>1 DEF Insert, IInv, Exclusive, CallsOK
      <4> QED BY <3>1, <4>1 DEF Insert, IInv, TypeOK
    <3>2. CASE ~Insert(c)
      BY <2>1, <3>2 DEF CallStep, Take, TakeNothing, Send, SendFails, Unmap, Peek, ReplyPrompt,
                        ReplyPending, Tick, Remove, Swap, InsertFails
    <3> QED BY <3>1, <3>2
  <2>2. ASSUME NEW t \in Sessions, ThreadStep(t) PROVE saved'[s] = 1
    BY <2>2 DEF ThreadStep, Publish, Receive, Timeout, LoginReturns, WriteResult
  <2>3. ASSUME NEW c \in Calls, Cancel(c) \/ Client(c) PROVE saved'[s] = 1
    BY <2>3 DEF Cancel, Client, Begin, Poll, Submit, Lookup
  <2>4. CASE Rest \/ UNCHANGED vars
    BY <2>4 DEF Rest, vars
  <2> QED BY <1>2, <2>1, <2>2, <2>3, <2>4 DEF Next
<1> QED BY <1>1, <1>2, SessionStep

(* What the histories of the form say.                                     *)
LEMMA PastStep ==
  ASSUME IInv, FormInv, [FormNext]_formVars
  PROVE  /\ CompleteMeansSaved'
         /\ signedIn' \subseteq Sessions /\ cancelled' \subseteq Sessions
         /\ failures' \in 0..MaxFailures /\ alone' \subseteq Sessions \cup {NoSession}
<1> USE DEF FormInv, FormTypeOK
<1>1. /\ signedIn \subseteq Sessions /\ cancelled \subseteq Sessions
      /\ failures \in 0..MaxFailures /\ alone \subseteq Sessions \cup {NoSession}
      /\ \A s \in signedIn : saved'[s] = 1
  BY SavedStays DEF CompleteMeansSaved
<1>2. ASSUME NEW f \in Calls, ArriveComplete(f)
      PROVE  /\ signedIn' = signedIn \cup {form[f].session} /\ UNCHANGED <<cancelled, failures, alone>>
             /\ form[f].session \in Sessions /\ saved'[form[f].session] = 1
  <2>1. form[f].session \in Sessions /\ saved[form[f].session] = 1
    BY <1>2, FormFacts DEF ArriveComplete, ArriveStep, Shape, Truthful
  <2> QED BY <1>2, <2>1, SavedStays DEF ArriveComplete
<1>3. ASSUME NEW f \in Calls, CancelClick(f)
      PROVE  /\ cancelled' = cancelled \cup {form[f].key} /\ UNCHANGED <<signedIn, failures, alone>>
             /\ form[f].key \in Sessions
  BY <1>3 DEF CancelClick, HasPrompt
<1>4. ASSUME NEW f \in Calls, InsertError(f) \/ Lose(f) \/ Drop(f)
      PROVE  /\ failures' \in 0..MaxFailures /\ alone' \subseteq Sessions \cup {NoSession}
             /\ UNCHANGED <<signedIn, cancelled>>
  <2>1. form[f].session \in Sessions \cup {NoSession}
    OBVIOUS
  <2>2. failures < MaxFailures /\ failures' = failures + 1 /\ alone' = alone \cup {form[f].session}
        /\ UNCHANGED <<signedIn, cancelled>>
    BY <1>4 DEF InsertError, Lose, Drop, Failure
  <2> QED BY <1>1, <2>1, <2>2, FormAssumption
<1>5. CASE UNCHANGED past
  BY <1>1, <1>5 DEF CompleteMeansSaved, past
<1>6. \/ UNCHANGED past
      \/ \E f \in Calls : ArriveComplete(f) \/ CancelClick(f) \/ InsertError(f) \/ Lose(f) \/ Drop(f)
  <2>1. ASSUME NEW f \in Calls, Network(f) \/ Handle(f) \/ HandleReply(f) \/ ArrivePrompt(f)
                 \/ ArrivePending(f) \/ ArriveError(f) \/ ArriveAbort(f) \/ SignIn(f) \/ Act(f) \/ Reload(f)
        PROVE  UNCHANGED past
    BY <2>1 DEF Network, ServeBegin, OutOfKeys, ServeOther, ServeMiss, Handle, HandleReply,
                ArrivePrompt, ArrivePending, ArriveError, ArriveAbort, SignIn, Act, Reload
  <2> QED BY <2>1 DEF FormNext, Thread, Handler, Arrive, Click, Sweep, formVars
<1> QED BY <1>1, <1>2, <1>3, <1>4, <1>5, <1>6 DEF CompleteMeansSaved

(* So the invariants hold for ever.                                        *)
LEMMA FormStepInv == IInv /\ FormInv /\ [FormNext]_formVars => (IInv /\ FormInv)'
<1> SUFFICES ASSUME IInv, FormInv, [FormNext]_formVars PROVE IInv' /\ FormInv'
  OBVIOUS
<1>1. IInv' /\ FormsKept'
  BY FormLoginStep, FormsStep
<1>2. FormTypeOK'
  BY <1>1, PastStep DEF FormTypeOK, FormsKept, FormRec, IInv
<1> QED BY <1>1, <1>2, PastStep DEF FormsKept, FormInv

LEMMA FormHolds == FormSpec => [](IInv /\ FormInv)
BY FormInitInv, FormStepInv, PTL DEF FormSpec

(* The signals of the forms, and the login machinery under them, keep      *)
(* their types.                                                            *)
THEOREM FormTypeCorrect == FormSpec => []FormTypeOK
<1>1. IInv /\ FormInv => FormTypeOK
  BY DEF FormInv
<1> QED BY <1>1, FormHolds, PTL

(* A prompt that a form shows with its buttons enabled is the one that its *)
(* sign-in waits for: whatever the user answers goes to that round.        *)
THEOREM FormsShowTheirPrompt == FormSpec => []AnswersWhatItShows
BY FormInvSafe, FormHolds, PTL

(* The page is told of a new account only when it is in the table.         *)
THEOREM SuccessIsStored == FormSpec => []CompleteMeansSaved
BY FormInvSafe, FormHolds, PTL

(* No account is stored for a sign-in whose Cancel was clicked, whether    *)
(* the Abort arrives or not.                                               *)
THEOREM CancelIsFinal == FormSpec => []CancelledNeverSaved
BY FormInvSafe, FormHolds, PTL

(* No form falls back to a blank face: it works, offers something to do,   *)
(* or shows an error.                                                      *)
THEOREM FormsSpeak == FormSpec => []NeverSilent
BY FormInvSafe, FormHolds, PTL

(* The forms, with their lost requests, reloads and the sign-ins of other  *)
(* users, keep the promise of LoginPromise too.                            *)
THEOREM FormKeepsThePromise == FormSpec => Promise
<1>1. FormInit => P!Init
  BY InitPhases DEF FormInit
<1>2. IInv /\ FormInv /\ [FormNext]_formVars => [P!Next]_Phases
  <2> SUFFICES ASSUME IInv, FormInv, [FormNext]_formVars PROVE [P!Next]_Phases
    OBVIOUS
  <2>1. CASE Sweep
    BY <2>1, SamePhases DEF Sweep
  <2> QED BY <2>1, SessionStep, StepPhases
<1> QED BY <1>1, <1>2, FormHolds, PTL DEF FormSpec, Promise, P!Spec, Phases

=============================================================================
