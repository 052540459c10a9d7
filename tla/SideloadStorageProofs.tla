------------------------- MODULE SideloadStorageProofs -------------------------
(***************************************************************************)
(* Theorems of the two modules about sideload_storage: AccountStore, the   *)
(* keys of one Apple ID, and AnisetteSetting, the URL of the anisette      *)
(* server, each for any number of calls and without its bounds.            *)
(***************************************************************************)
EXTENDS AccountStore, AnisetteSetting, TLAPS

-----------------------------------------------------------------------------
(* AccountStore: the type of a call.                                       *)
Call == [pc : PCs, spd : made \cup {None}, provider : made \cup {None},
         token : Token \cup {None}, checked : 0..MaxNow]

(***************************************************************************)
(* A call that signs in or mints has an identity.  One that has a token to *)
(* use or to save has one that counted as fresh when it was checked.       *)
(***************************************************************************)
Good(r) ==
  /\ r.pc \in {"signIn", "mint"} => r.provider # None
  /\ r.pc \in {"build", "cache", "ready", "save"} =>
       r.token \in Token /\ r.token.expiry > r.checked + Margin

Base == TypeOK /\ \A c \in Calls : Good(call[c])

-----------------------------------------------------------------------------
(* What is left of a call once c has taken a step.                         *)
LEMMA Put ==
  ASSUME call \in [Calls -> Call], NEW c \in Calls, NEW new, call' = [call EXCEPT ![c] = new]
  PROVE  call'[c] = new /\ \A d \in Calls \ {c} : call'[d] = call[d]
OBVIOUS

(* A step that changes one call keeps Base if it leaves that call typed    *)
(* and good.                                                               *)
LEMMA BaseKept ==
  ASSUME Base, NEW c \in Calls, NEW new, call' = [call EXCEPT ![c] = new],
         new \in Call', Good(new), made \subseteq made', made' \subseteq Identities, UNCHANGED now,
         db' \in [identity : made' \cup {None}, token : Token \cup {None}],
         account' \in made' \cup {None}, raced' \in BOOLEAN
  PROVE  Base'
<1>1. call \in [Calls -> Call] /\ now \in 0..MaxNow
  BY DEF Base, TypeOK, Call
<1>2. call \in [Calls -> Call']
  BY <1>1 DEF Call
<1>3. call' \in [Calls -> Call']
  BY <1>2
<1>4. TypeOK'
  BY <1>1, <1>3 DEF TypeOK, Call
<1>5. \A d \in Calls : Good(call'[d])
  BY <1>1, Put DEF Base
<1> QED BY <1>4, <1>5 DEF Base, Good

(* Whether there was a race stays yes or no.                               *)
LEMMA RacedTyped == TypeOK /\ [Next]_vars => raced' \in BOOLEAN
<1> SUFFICES ASSUME TypeOK, [Next]_vars PROVE raced' \in BOOLEAN
  OBVIOUS
<1>1. raced \in BOOLEAN
  BY DEF TypeOK
<1>2. ASSUME NEW c, NEW pc, NEW next, Provider(c, pc, next) PROVE raced' \in BOOLEAN
  BY <1>2 DEF Provider
<1> QED
  BY <1>1, <1>2 DEF Next, LoginStep, SessionStep, Restore, Tick, DeleteAccount, Anisette, SignIn, Mint,
     CacheToken, Save, End, Begin, LoadToken, Check, Build, vars

(* Every step keeps Base.                                                  *)
LEMMA BaseStep == Base /\ [Next]_vars => Base'
<1> SUFFICES ASSUME Base, [Next]_vars PROVE Base'
  OBVIOUS
<1> USE StoreAssumption
<1>0. /\ call \in [Calls -> Call] /\ now \in 0..MaxNow /\ made \subseteq Identities
      /\ db \in [identity : made \cup {None}, token : Token \cup {None}]
      /\ account \in made \cup {None}
  BY DEF Base, TypeOK, Call
<1>r. raced' \in BOOLEAN
  BY RacedTyped DEF Base
<1>1. CASE Tick \/ DeleteAccount \/ UNCHANGED vars
  <2>1. call' = call /\ db' = db /\ made' = made /\ account' \in made \cup {None} /\ now' \in 0..MaxNow
    BY <1>0, <1>1 DEF Tick, DeleteAccount, stored, vars
  <2> QED BY <1>0, <1>r, <2>1 DEF Base, TypeOK, Good, Call
<1>2. ASSUME NEW c \in Calls, NEW pc \in PCs, NEW next \in {"anisette", "check"}, Provider(c, pc, next)
      PROVE  Base'
  <2> DEFINE new == [call[c] EXCEPT !.pc = next, !.provider = db.identity]
  <2>1. call' = [call EXCEPT ![c] = new] /\ UNCHANGED <<now, stored>>
    BY <1>0, <1>2 DEF Provider, Call
  <2>2. new \in Call /\ Good(new)
    BY <1>0 DEF Call, PCs, Good
  <2> QED BY <1>0, <2>1, <2>2, <1>r, BaseKept DEF stored, Call
<1>3. ASSUME NEW c \in Calls, NEW next \in {"signIn", "mint"}, Anisette(c, next) PROVE Base'
  <2>1. CASE call[c].provider # None
    <3> DEFINE new == [call[c] EXCEPT !.pc = next]
    <3>1. call' = [call EXCEPT ![c] = new] /\ UNCHANGED <<now, stored>>
      BY <1>0, <1>3, <2>1 DEF Anisette, Goto, Call
    <3>2. new \in Call /\ Good(new)
      BY <1>0, <2>1 DEF Call, PCs, Good
    <3> QED BY <1>0, <3>1, <3>2, <1>r, BaseKept DEF stored, Call
  <2>2. CASE call[c].provider = None
    <3>1. PICK i \in Identities \ made :
            /\ call' = [call EXCEPT ![c].pc = next, ![c].provider = i]
            /\ made' = made \cup {i} /\ db' = [db EXCEPT !.identity = i]
            /\ UNCHANGED <<account, now>>
      BY <1>3, <2>2 DEF Anisette
    <3> DEFINE new == [call[c] EXCEPT !.pc = next, !.provider = i]
    <3>2. call' = [call EXCEPT ![c] = new]
      BY <1>0, <3>1 DEF Call
    <3>3. new \in Call' /\ Good(new)
      BY <1>0, <3>1 DEF Call, PCs, Good
    <3>4. db' \in [identity : made' \cup {None}, token : Token \cup {None}]
      BY <1>0, <3>1
    <3>5. made \subseteq made' /\ made' \subseteq Identities /\ account' \in made' \cup {None} /\ UNCHANGED now
      BY <1>0, <3>1
    <3> HIDE DEF new
    <3> QED BY <3>2, <3>3, <3>4, <3>5, <1>r, BaseKept
  <2> QED BY <2>1, <2>2
<1>4. ASSUME NEW c \in Calls, Mint(c) PROVE Base'
  <2> DEFINE token == [identity |-> call[c].spd, expiry |-> now + Lifetime]
             new == [call[c] EXCEPT !.pc = "cache", !.checked = now, !.token = token]
  <2>1. call' = [call EXCEPT ![c] = new] /\ UNCHANGED <<now, stored>>
    BY <1>0, <1>4 DEF Mint, Call
  <2>2. call[c].spd \in Identities
    BY <1>0, <1>4 DEF Mint, At, Base, Good, Call
  <2>3. token \in Token /\ token.expiry > now + Margin
    BY <1>0, <2>2 DEF Token
  <2>4. new \in Call /\ Good(new)
    <3> HIDE DEF token
    <3> QED BY <1>0, <2>3 DEF Call, PCs, Good
  <2> HIDE DEF new
  <2> QED BY <1>0, <2>1, <2>4, <1>r, BaseKept DEF stored, Call
<1>5. ASSUME NEW c \in Calls, NEW next \in {"save", "ready"}, CacheToken(c, next) PROVE Base'
  <2> DEFINE new == [call[c] EXCEPT !.pc = next]
  <2>1. call' = [call EXCEPT ![c] = new] /\ UNCHANGED <<now, account, made>>
    BY <1>0, <1>5 DEF CacheToken, Goto, Call
  <2>2. new \in Call /\ Good(new)
    BY <1>0, <1>5 DEF CacheToken, At, Base, Call, PCs, Good
  <2>3. db' \in [identity : made \cup {None}, token : Token \cup {None}]
    BY <1>0, <1>5 DEF CacheToken, Call
  <2> QED BY <1>0, <2>1, <2>2, <2>3, <1>r, BaseKept DEF Call
<1>6. ASSUME NEW c \in Calls, End(c) \/ Save(c) PROVE Base'
  <2>1. call' = [call EXCEPT ![c] = NoCall] /\ UNCHANGED <<now, db, made>> /\ account' \in made \cup {None}
    BY <1>0, <1>6 DEF End, Save, stored, Call
  <2>2. NoCall \in Call /\ Good(NoCall)
    BY DEF NoCall, Call, PCs, Good
  <2> QED BY <1>0, <2>1, <2>2, <1>r, BaseKept DEF Call
<1>7. ASSUME NEW c \in Calls, NEW pc \in {"load", "fetch"}, NEW spd \in made \cup {None}, Begin(c, pc, spd)
      PROVE  Base'
  <2> DEFINE new == [NoCall EXCEPT !.pc = pc, !.spd = spd]
  <2>1. call' = [call EXCEPT ![c] = new] /\ UNCHANGED <<now, stored>>
    BY <1>7 DEF Begin
  <2>2. NoCall \in Call
    BY DEF NoCall, Call, PCs
  <2>3. new \in Call /\ Good(new)
    BY <2>2 DEF Call, PCs, Good
  <2> QED BY <1>0, <2>1, <2>3, <1>r, BaseKept DEF stored, Call
<1>8. ASSUME NEW c \in Calls, SignIn(c) PROVE Base'
  <2> DEFINE new == [call[c] EXCEPT !.pc = "mint", !.spd = call[c].provider]
  <2>1. call' = [call EXCEPT ![c] = new] /\ UNCHANGED <<now, stored>>
    BY <1>0, <1>8 DEF SignIn, Call
  <2>2. call[c].provider # None
    BY <1>8 DEF SignIn, At, Base, Good
  <2>3. new \in Call /\ new.pc = "mint" /\ new.provider = call[c].provider
    <3>1. call[c] \in Call /\ call[c].provider \in made \cup {None}
      BY <1>0 DEF Call
    <3> QED BY <3>1 DEF Call, PCs
  <2>4. Good(new)
    BY <2>2, <2>3 DEF Good
  <2> QED BY <1>0, <2>1, <2>3, <2>4, <1>r, BaseKept DEF stored, Call
<1>9. ASSUME NEW c \in Calls, LoadToken(c) PROVE Base'
  <2> DEFINE new == [call[c] EXCEPT !.pc = "load", !.token = db.token]
  <2>1. call' = [call EXCEPT ![c] = new] /\ UNCHANGED <<now, stored>>
    BY <1>0, <1>9 DEF LoadToken, Call
  <2>2. new \in Call /\ Good(new)
    BY <1>0 DEF Call, PCs, Good
  <2> QED BY <1>0, <2>1, <2>2, <1>r, BaseKept DEF stored, Call
<1>10. ASSUME NEW c \in Calls, Check(c) PROVE Base'
  <2>1. CASE call[c].token # None /\ IsFresh(call[c].token)
    <3> DEFINE new == [call[c] EXCEPT !.pc = "build", !.checked = now]
    <3>1. call' = [call EXCEPT ![c] = new] /\ UNCHANGED <<now, stored>>
      BY <1>0, <1>10, <2>1 DEF Check, Call
    <3>2. call[c].token \in Token /\ call[c].token.expiry > now + Margin
      BY <1>0, <2>1 DEF Call, IsFresh
    <3>3. new \in Call /\ new.pc = "build" /\ new.token = call[c].token /\ new.checked = now
      BY <1>0 DEF Call, PCs
    <3>4. Good(new)
      BY <3>2, <3>3 DEF Good
    <3> QED BY <1>0, <3>1, <3>3, <3>4, <1>r, BaseKept DEF stored, Call
  <2>2. CASE ~(call[c].token # None /\ IsFresh(call[c].token))
    <3> DEFINE new == [call[c] EXCEPT !.pc = "restore"]
    <3>1. call' = [call EXCEPT ![c] = new] /\ UNCHANGED <<now, stored>>
      BY <1>0, <1>10, <2>2 DEF Check, Goto, Call
    <3>2. new \in Call /\ Good(new)
      BY <1>0 DEF Call, PCs, Good
    <3> QED BY <1>0, <3>1, <3>2, <1>r, BaseKept DEF stored, Call
  <2> QED BY <2>1, <2>2
<1>11. ASSUME NEW c \in Calls, Build(c) PROVE Base'
  <2> DEFINE new == [call[c] EXCEPT !.pc = "ready"]
  <2>1. call' = [call EXCEPT ![c] = new] /\ UNCHANGED <<now, stored>>
    BY <1>0, <1>11 DEF Build, Goto, Call
  <2>2. new \in Call /\ Good(new)
    BY <1>0, <1>11 DEF Build, At, Base, Call, PCs, Good
  <2> QED BY <1>0, <2>1, <2>2, <1>r, BaseKept DEF stored, Call
<1> QED
  BY <1>0, <1>1, <1>2, <1>3, <1>4, <1>5, <1>6, <1>7, <1>8, <1>9, <1>10, <1>11
     DEF Next, LoginStep, SessionStep, Restore, Calls, PCs

(* Base holds.                                                             *)
LEMMA BaseHolds == Spec => []Base
<1>1. Init => Base
  <2> SUFFICES ASSUME Init PROVE Base
    OBVIOUS
  <2>1. raced \in BOOLEAN
    BY DEF Init
  <2>2. NoCall \in Call /\ Good(NoCall) /\ call = [c \in Calls |-> NoCall] /\ now \in 0..MaxNow
    BY StoreAssumption DEF Init, NoCall, Call, PCs, Good
  <2>3. call \in [Calls -> Call] /\ \A c \in Calls : Good(call[c])
    BY <2>2
  <2> QED BY <2>1, <2>2, <2>3 DEF Init, Base, TypeOK, Call
<1> QED BY <1>1, BaseStep, PTL DEF Spec

(* The keys, the row and the calls keep their types: a token is never      *)
(* minted for no identity.                                                 *)
THEOREM TypeCorrect == Spec => []TypeOK
<1>1. Base => TypeOK
  BY DEF Base
<1> QED BY <1>1, BaseHolds, PTL

(* A session that is ready within Margin of the check has a token that has *)
(* not expired, for any lifetime, margin and number of calls.              *)
THEOREM TokensAreUsable == Spec => []TokenIsUsable
<1>1. Base => TokenIsUsable
  <2> SUFFICES ASSUME Base, NEW c \in Sessions, At(c, "ready"), now - call[c].checked <= Margin
               PROVE  call[c].token.expiry > now
    BY DEF TokenIsUsable
  <2>1. call[c] \in Call /\ now \in Int /\ c \in Calls
    BY DEF Base, TypeOK, Call, Calls
  <2>2. call[c].token \in Token /\ call[c].token.expiry > call[c].checked + Margin
    BY <2>1 DEF Base, Good, At
  <2> QED BY <2>1, <2>2, StoreAssumption DEF Call, Token
<1> QED BY <1>1, BaseHolds, PTL

-----------------------------------------------------------------------------
(***************************************************************************)
(* As long as no two calls have found no identity at once, the one in the  *)
(* database is the only one there ever was, however logins and sessions    *)
(* overlap: whatever is stored or held was made for it, a session exists   *)
(* only after it, and one that goes on has loaded it; and a login that is  *)
(* about to make one up does so because there is none, and is the only     *)
(* one.                                                                    *)
(***************************************************************************)
Known(id) == id \in {None, db.identity}
OfIt(token) == token \in Token => token.identity = db.identity

Loaded == {"check", "build", "restore", "anisette", "mint", "cache", "ready"}

Own(c) ==
  /\ Known(call[c].spd) /\ Known(call[c].provider) /\ OfIt(call[c].token)
  /\ c \in Sessions /\ ~At(c, "idle") => db.identity # None
  /\ c \in Sessions /\ call[c].pc \in Loaded => call[c].provider = db.identity
  /\ Blank(c) => db.identity = None

OneBlank == \A c, d \in Calls : Blank(c) /\ Blank(d) => c = d

OneInv == Known(account) /\ OfIt(db.token) /\ OneBlank /\ \A c \in Calls : Own(c)

(* NULL is not a token.                                                    *)
LEMMA NoneIsNoToken == None \notin Token
<1>1. Token \subseteq [identity : Identities, expiry : Nat]
  BY StoreAssumption DEF Token
<1> QED BY <1>1, StoreAssumption

(* A step that leaves the identity alone changes what one call has, which  *)
(* does not become the second to have found none.                          *)
LEMMA OwnKept ==
  ASSUME Base, OneInv, NEW c \in Calls, NEW new, call' = [call EXCEPT ![c] = new],
         db'.identity = db.identity, Known(account'), OfIt(db'.token), Own(c)',
         Blank(c)' => \A d \in Calls : Blank(d) => d = c
  PROVE  OneInv'
<1>1. call \in [Calls -> Call]
  BY DEF Base, TypeOK, Call
<1>2. ASSUME NEW d \in Calls, d # c PROVE Own(d)' /\ (Blank(d)' => Blank(d))
  BY <1>1, <1>2, Put DEF OneInv, Own, Known, OfIt, Blank, At
<1>3. OneBlank'
  BY <1>2 DEF OneInv, OneBlank
<1> QED BY <1>2, <1>3 DEF OneInv, Known, OfIt

(* Unless two calls find no identity, every step keeps what is known.      *)
LEMMA OneStep == Base /\ OneInv /\ ~raced' /\ [Next]_vars => OneInv'
<1> SUFFICES ASSUME Base, OneInv, ~raced', [Next]_vars PROVE OneInv'
  OBVIOUS
<1> USE StoreAssumption
<1>0. /\ call \in [Calls -> Call] /\ now \in 0..MaxNow /\ made \subseteq Identities
      /\ db \in [identity : made \cup {None}, token : Token \cup {None}]
      /\ account \in made \cup {None} /\ \A c \in Calls : Own(c) /\ Good(call[c])
      /\ Known(account) /\ OfIt(db.token) /\ OneBlank
  BY DEF Base, TypeOK, Call, OneInv
<1>1. CASE Tick \/ DeleteAccount \/ UNCHANGED vars
  <2>1. call' = call /\ db' = db /\ account' \in {account, None}
    BY <1>1 DEF Tick, DeleteAccount, stored, vars
  <2> QED BY <1>0, <2>1 DEF OneInv, OneBlank, Own, Known, OfIt, Blank, At
<1>2. ASSUME NEW c \in Calls, NEW pc \in {"load", "restore"}, NEW next \in {"anisette", "check"},
             Provider(c, pc, next)
      PROVE  OneInv'
  <2> DEFINE new == [call[c] EXCEPT !.pc = next, !.provider = db.identity]
  <2>1. call' = [call EXCEPT ![c] = new] /\ UNCHANGED <<now, stored>> /\ ~At(c, "idle")
    BY <1>0, <1>2 DEF Provider, Call, At
  <2>2. call'[c].pc = next /\ call'[c].provider = db.identity
    BY <1>0, <2>1 DEF Call
  <2>3. Own(c)'
    BY <1>0, <2>1, <2>2 DEF Own, Known, OfIt, Blank, At, Call, stored
  <2>4. Blank(c)' => \A d \in Calls : ~Blank(d)
    <3>1. raced \/ (next = "anisette" /\ db.identity = None /\ \E d \in Calls : Blank(d)) => raced'
      BY <1>2 DEF Provider
    <3> QED BY <2>2, <3>1 DEF Blank, At
  <2> HIDE DEF new
  <2> QED BY <1>0, <2>1, <2>3, <2>4, OwnKept DEF stored
<1>3. ASSUME NEW c \in Calls, NEW next \in {"signIn", "mint"}, Anisette(c, next) PROVE OneInv'
  <2>1. CASE call[c].provider # None
    <3>1. /\ call' = [call EXCEPT ![c] = [call[c] EXCEPT !.pc = next]] /\ UNCHANGED <<now, stored>>
          /\ At(c, "anisette")
      BY <1>0, <1>3, <2>1 DEF Anisette, Goto, Call
    <3>2. Own(c)' /\ ~Blank(c)'
      BY <1>0, <2>1, <3>1 DEF Own, Known, OfIt, Blank, At, Call, stored, Loaded
    <3> QED BY <1>0, <3>1, <3>2, OwnKept DEF stored
  <2>2. CASE call[c].provider = None
    <3>1. PICK i \in Identities \ made :
            /\ call' = [call EXCEPT ![c].pc = next, ![c].provider = i]
            /\ db' = [db EXCEPT !.identity = i]
            /\ account' = account
      BY <1>3, <2>2 DEF Anisette
    <3>2. Blank(c) /\ db.identity = None /\ c \notin Sessions
      <4>1. At(c, "anisette") /\ Blank(c)
        BY <1>3, <2>2 DEF Anisette, Blank
      <4>2. db.identity = None
        BY <1>0, <4>1 DEF Own
      <4> QED BY <1>0, <4>1, <4>2 DEF Own, At
    <3>3. call' = [call EXCEPT ![c] = [call[c] EXCEPT !.pc = next, !.provider = i]]
      BY <1>0, <3>1 DEF Call
    <3>4. db'.identity = i /\ db'.token = db.token
      BY <1>0, <3>1
    <3>5. ASSUME NEW token \in Token \cup {None}, OfIt(token) PROVE token \notin Token
      BY <1>0, <3>2, <3>5 DEF OfIt, Token
    <3>6. ASSUME NEW d \in Calls
          PROVE  /\ call[d].spd = None /\ call[d].provider = None /\ call[d].token \notin Token
                 /\ d \in Sessions => At(d, "idle")
      <4>1. call[d].spd = None /\ call[d].provider = None /\ (d \in Sessions => At(d, "idle"))
        BY <1>0, <3>2 DEF Own, Known
      <4>2. call[d].token \notin Token
        BY <1>0, <3>5 DEF Own, Call
      <4> QED BY <4>1, <4>2
    <3>7. ASSUME NEW d \in Calls, d # c PROVE Own(d)' /\ ~Blank(d)'
      <4>1. call'[d] = call[d] /\ (d \in Sessions => At(d, "idle")) /\ ~Blank(d)
        BY <1>0, <3>2, <3>3, <3>6, <3>7 DEF OneBlank
      <4> QED BY <3>6, <4>1 DEF Own, Known, OfIt, Blank, At, Loaded
    <3>8. Own(c)' /\ ~Blank(c)'
      <4>1. /\ call'[c].provider = i /\ call'[c].pc = next /\ call'[c].spd = None
            /\ call'[c].token \notin Token
        BY <1>0, <3>3, <3>6 DEF Call
      <4> QED BY <3>2, <3>4, <4>1 DEF Own, Known, OfIt, Blank, At
    <3>9. Known(account)' /\ OfIt(db.token)'
      BY <1>0, <3>1, <3>2, <3>4, <3>5 DEF Known, OfIt
    <3> QED BY <3>7, <3>8, <3>9 DEF OneInv, OneBlank
  <2> QED BY <2>1, <2>2
<1>4. ASSUME NEW c \in Calls, Mint(c) PROVE OneInv'
  <2> DEFINE token == [identity |-> call[c].spd, expiry |-> now + Lifetime]
             new == [call[c] EXCEPT !.pc = "cache", !.checked = now, !.token = token]
  <2>1. call' = [call EXCEPT ![c] = new] /\ UNCHANGED <<now, stored>>
    BY <1>0, <1>4 DEF Mint, Call
  <2>2. call[c].spd = call[c].provider /\ call[c].provider # None /\ At(c, "mint")
    BY <1>0, <1>4 DEF Mint, At, Good
  <2>3. token.identity = db.identity
    BY <1>0, <2>2 DEF Own, Known
  <2>4. /\ call'[c].pc = "cache" /\ call'[c].token = token /\ call'[c].spd = call[c].spd
        /\ call'[c].provider = call[c].provider
    <3> HIDE DEF token
    <3> QED BY <1>0, <2>1 DEF Call
  <2>5. Own(c)' /\ ~Blank(c)'
    <3> HIDE DEF token, new
    <3> QED BY <1>0, <2>1, <2>2, <2>3, <2>4 DEF Own, Known, OfIt, Blank, At, stored, Loaded
  <2> HIDE DEF new
  <2> QED BY <1>0, <2>1, <2>5, OwnKept DEF stored
<1>5. ASSUME NEW c \in Calls, NEW next \in {"save", "ready"}, CacheToken(c, next) PROVE OneInv'
  <2>1. /\ call' = [call EXCEPT ![c] = [call[c] EXCEPT !.pc = next]] /\ account' = account
        /\ db' = [db EXCEPT !.token = call[c].token] /\ At(c, "cache")
    BY <1>0, <1>5 DEF CacheToken, Goto, Call
  <2>2. db'.identity = db.identity /\ db'.token = call[c].token
    BY <1>0, <2>1
  <2>3. Own(c)' /\ ~Blank(c)'
    BY <1>0, <2>1, <2>2 DEF Own, Known, OfIt, Blank, At, Call, Loaded
  <2> QED BY <1>0, <2>1, <2>2, <2>3, OwnKept DEF Own
<1>6. ASSUME NEW c \in Calls, End(c) \/ Save(c) PROVE OneInv'
  <2>1. call' = [call EXCEPT ![c] = NoCall] /\ db' = db /\ account' \in {account, call[c].spd}
    BY <1>0, <1>6 DEF End, Save, stored, Call
  <2>3. Own(c)' /\ ~Blank(c)'
    BY <1>0, <2>1, NoneIsNoToken DEF NoCall, Own, Known, OfIt, Blank, At, Loaded
  <2> QED BY <1>0, <2>1, <2>3, OwnKept DEF Own
<1>7. ASSUME NEW c \in Calls, NEW pc \in {"load", "fetch"}, NEW spd \in {account, None}, Begin(c, pc, spd),
             c \in Sessions => account # None
      PROVE  OneInv'
  <2> DEFINE new == [NoCall EXCEPT !.pc = pc, !.spd = spd]
  <2>1. call' = [call EXCEPT ![c] = new] /\ UNCHANGED <<now, stored>>
    BY <1>7 DEF Begin
  <2>2. new.pc = pc /\ new.spd = spd /\ new.provider = None /\ new.token = None
    BY DEF NoCall
  <2>3. Own(c)' /\ ~Blank(c)'
    <3> HIDE DEF new
    <3> QED BY <1>0, <1>7, <2>1, <2>2, NoneIsNoToken DEF Own, Known, OfIt, Blank, At, stored, Loaded
  <2> HIDE DEF new
  <2> QED BY <1>0, <2>1, <2>3, OwnKept DEF stored
<1>8. ASSUME NEW c \in Calls, SignIn(c), c \in Logins PROVE OneInv'
  <2>1. call' = [call EXCEPT ![c] = [call[c] EXCEPT !.pc = "mint", !.spd = call[c].provider]]
        /\ UNCHANGED <<now, stored>>
    BY <1>0, <1>8 DEF SignIn, Call
  <2>2. Own(c)' /\ ~Blank(c)'
    BY <1>0, <1>8, <2>1 DEF Own, Known, OfIt, Blank, At, Call, stored, Calls
  <2> QED BY <1>0, <2>1, <2>2, OwnKept DEF stored
<1>9. ASSUME NEW c \in Calls, LoadToken(c) PROVE OneInv'
  <2>1. call' = [call EXCEPT ![c] = [call[c] EXCEPT !.pc = "load", !.token = db.token]]
        /\ UNCHANGED <<now, stored>> /\ At(c, "fetch")
    BY <1>0, <1>9 DEF LoadToken, Call
  <2>2. Own(c)' /\ ~Blank(c)'
    BY <1>0, <2>1 DEF Own, Known, OfIt, Blank, At, Call, stored, Loaded
  <2> QED BY <1>0, <2>1, <2>2, OwnKept DEF stored
<1>10. ASSUME NEW c \in Sessions, Check(c) \/ Build(c) PROVE OneInv'
  <2>1. PICK new : call' = [call EXCEPT ![c] = new] /\ new.pc \in {"build", "restore", "ready"}
                   /\ new.spd = call[c].spd /\ new.provider = call[c].provider
                   /\ new.token = call[c].token
    <3>1. \/ call' = [call EXCEPT ![c] = [call[c] EXCEPT !.pc = "build", !.checked = now]]
          \/ \E pc \in {"restore", "ready"} : call' = [call EXCEPT ![c] = [call[c] EXCEPT !.pc = pc]]
      BY <1>0, <1>10 DEF Check, Build, Goto, Call, Calls
    <3> QED BY <1>0, <3>1 DEF Call, Calls
  <2>2. call[c].pc \in {"check", "build"} /\ UNCHANGED <<now, stored>> /\ c \in Calls
    BY <1>10 DEF Check, Build, At, Calls
  <2>3. Own(c)' /\ ~Blank(c)'
    BY <1>0, <2>1, <2>2 DEF Own, Known, OfIt, Blank, At, stored, Loaded
  <2> QED BY <1>0, <2>1, <2>2, <2>3, OwnKept DEF stored
<1> QED
  BY <1>0, <1>1, <1>2, <1>3, <1>4, <1>5, <1>6, <1>7, <1>8, <1>9, <1>10
     DEF Next, LoginStep, SessionStep, Restore, Calls

(* A race is never forgotten.                                              *)
LEMMA RacedStays == raced /\ [Next]_vars => raced'
<1>1. ASSUME NEW c, NEW pc, NEW next, Provider(c, pc, next), raced PROVE raced'
  BY <1>1 DEF Provider
<1> QED
  BY <1>1 DEF Next, LoginStep, SessionStep, Restore, Tick, DeleteAccount, Anisette, SignIn, Mint,
     CacheToken, Save, End, Begin, LoadToken, Check, Build, vars

(* And so it holds until there is one.                                     *)
LEMMA OneHolds == Spec => [](Base /\ (~raced => OneInv))
<1>1. Init => OneInv
  BY StoreAssumption, NoneIsNoToken
     DEF Init, OneInv, OneBlank, NoCall, Own, Known, OfIt, Blank, At, Loaded
<1>2. Base /\ (~raced => OneInv) /\ [Next]_vars => (~raced => OneInv)'
  BY OneStep, RacedStays
<1> QED BY <1>1, <1>2, BaseHolds, PTL DEF Spec

(* Until two calls both find no identity, the stored one is the one that   *)
(* the cached SPD was minted against, for any number of logins, sessions   *)
(* and deletions in any order, however they overlap.                       *)
THEOREM IdentityKept == Spec => []IdentityMatches
<1>1. (~raced => OneInv) => IdentityMatches
  BY DEF OneInv, Known, IdentityMatches
<1> QED BY <1>1, OneHolds, PTL

(* And until then a session presents the identity its token was given to.  *)
THEOREM SessionsAreConsistent == Spec => []SessionIsConsistent
<1>1. Base /\ (~raced => OneInv) => SessionIsConsistent
  <2> SUFFICES ASSUME Base, OneInv, NEW c \in Sessions, At(c, "ready")
               PROVE  call[c].token.identity = call[c].provider
    BY DEF SessionIsConsistent
  <2>1. c \in Calls /\ Own(c) /\ Good(call[c])
    BY DEF Calls, OneInv, Base
  <2> QED BY <2>1 DEF Own, OfIt, Good, At, Loaded
<1> QED BY <1>1, OneHolds, PTL

-----------------------------------------------------------------------------
(* AnisetteSetting                                                         *)

(* While a call that nobody overlapped is under way, the row holds its URL *)
(* and no other call can write either of the two.                          *)
AloneIsAlone ==
  \A c \in alone : storing[c] # NoUrl =>
    row = storing[c] /\ \A o \in Callers \ {c} : storing[o] = NoUrl

SettingInv == SettingTypeOK /\ AloneIsAlone /\ TakesEffectAlone

(* The initial state: no row, no storing, the default in effect.              *)
LEMMA InitSetting == SettingInit => SettingInv
<1> SUFFICES ASSUME SettingInit PROVE SettingInv
  OBVIOUS
<1>1. SettingTypeOK
  <2>1. storing \in [Callers -> Urls \cup {NoUrl}]
    BY DEF SettingInit
  <2>2. alone \subseteq Callers /\ upset \in BOOLEAN /\ row \in Urls \cup {NoUrl}
    BY DEF SettingInit
  <2>3. copy \in Urls /\ faults \in 0..MaxFaults
    BY SettingAssumption DEF SettingInit
  <2> QED
    BY <2>1, <2>2, <2>3 DEF SettingTypeOK
<1>2. AloneIsAlone
  BY DEF SettingInit, AloneIsAlone
<1>3. TakesEffectAlone
  BY DEF SettingInit, TakesEffectAlone, InEffect
<1> QED
  BY <1>1, <1>2, <1>3 DEF SettingInv

(* Storing a URL starts a storing, alone if there was none.                   *)
LEMMA StoreSetting ==
  ASSUME SettingInv, NEW c \in Callers, NEW url \in Urls, Store(c, url)
  PROVE  SettingInv'
<1>1. SettingTypeOK'
  BY DEF SettingInv, SettingTypeOK, Store
<1>2. storing'[c] = url /\ url # NoUrl
  BY SettingAssumption DEF SettingInv, SettingTypeOK, Store
<1>3. \A o \in Callers \ {c} : storing'[o] = storing[o]
  BY DEF SettingInv, SettingTypeOK, Store
<1>4. AloneIsAlone'
  BY <1>2, <1>3 DEF Store, AloneIsAlone, Idle
<1>5. TakesEffectAlone'
  BY <1>2 DEF TakesEffectAlone, Idle
<1> QED
  BY <1>1, <1>4, <1>5 DEF SettingInv

(* A call that applies its URL alone leaves copy and row equal.            *)
LEMMA ApplySetting ==
  ASSUME SettingInv, NEW c \in Callers, Apply(c)
  PROVE  SettingInv'
<1>1. SettingTypeOK'
  BY DEF SettingInv, SettingTypeOK, Apply
<1>2. storing'[c] = NoUrl /\ \A o \in Callers \ {c} : storing'[o] = storing[o]
  BY DEF SettingInv, SettingTypeOK, Apply
<1>3. alone \subseteq Callers /\ alone' = alone /\ row' = row
  BY DEF SettingInv, SettingTypeOK, Apply
<1>4. AloneIsAlone'
  BY <1>2, <1>3 DEF SettingInv, AloneIsAlone
<1>5. c \in alone => row = storing[c] /\ row # NoUrl
  BY DEF SettingInv, AloneIsAlone, Apply
<1>6. TakesEffectAlone'
  BY <1>3, <1>5 DEF TakesEffectAlone, InEffect, Apply
<1> QED
  BY <1>1, <1>4, <1>6 DEF SettingInv

(* A dropped call leaves the copy behind, and is known to.                 *)
LEMMA DropSetting ==
  ASSUME SettingInv, NEW c \in Callers, Drop(c)
  PROVE  SettingInv'
<1>1. SettingTypeOK'
  BY SettingAssumption DEF SettingInv, SettingTypeOK, Drop
<1>2. storing'[c] = NoUrl /\ \A o \in Callers \ {c} : storing'[o] = storing[o]
  BY DEF SettingInv, SettingTypeOK, Drop
<1>3. alone \subseteq Callers /\ alone' = alone /\ row' = row
  BY DEF SettingInv, SettingTypeOK, Drop
<1>4. AloneIsAlone'
  BY <1>2, <1>3 DEF SettingInv, AloneIsAlone
<1>5. TakesEffectAlone'
  BY DEF TakesEffectAlone, Drop
<1> QED
  BY <1>1, <1>4, <1>5 DEF SettingInv

(* A start of the server reads the row.                                    *)
LEMMA RestartSetting == SettingInv /\ Restart => SettingInv'
<1> SUFFICES ASSUME SettingInv, Restart PROVE SettingInv'
  OBVIOUS
<1>1. SettingTypeOK'
  BY SettingAssumption DEF SettingInv, SettingTypeOK, Restart, InEffect
<1>2. \A c \in Callers : storing'[c] = NoUrl
  BY DEF Restart
<1>3. AloneIsAlone'
  BY <1>1, <1>2 DEF SettingTypeOK, AloneIsAlone
<1>4. TakesEffectAlone'
  BY DEF TakesEffectAlone, InEffect, Restart
<1> QED
  BY <1>1, <1>3, <1>4 DEF SettingInv

(* Nor does a start that could not read it leave a call behind.            *)
LEMMA UnreadSetting == SettingInv /\ RestartUnread => SettingInv'
<1> SUFFICES ASSUME SettingInv, RestartUnread PROVE SettingInv'
  OBVIOUS
<1>1. SettingTypeOK'
  <2>1. faults' \in 0..MaxFaults
    BY SettingAssumption DEF SettingInv, SettingTypeOK, RestartUnread
  <2>2. copy' \in Urls /\ storing' \in [Callers -> Urls \cup {NoUrl}] /\ upset' \in BOOLEAN
    BY SettingAssumption DEF RestartUnread
  <2> QED
    BY <2>1, <2>2 DEF SettingInv, SettingTypeOK, RestartUnread
<1>2. \A c \in Callers : storing'[c] = NoUrl
  BY DEF RestartUnread
<1>3. AloneIsAlone'
  BY <1>1, <1>2 DEF SettingTypeOK, AloneIsAlone
<1>4. TakesEffectAlone'
  BY DEF TakesEffectAlone, RestartUnread
<1> QED
  BY <1>1, <1>3, <1>4 DEF SettingInv

(* The invariant holds in every reachable state.                           *)
LEMMA SettingHolds == SettingSpec => []SettingInv
<1>1. SettingInv /\ [SettingNext]_settingVars => SettingInv'
  <2> SUFFICES ASSUME SettingInv, [SettingNext]_settingVars PROVE SettingInv'
    OBVIOUS
  <2>1. CASE UNCHANGED settingVars
    BY <2>1 DEF settingVars, SettingInv, SettingTypeOK, AloneIsAlone, TakesEffectAlone, Idle, InEffect
  <2> QED
    BY <2>1, StoreSetting, ApplySetting, DropSetting, RestartSetting, UnreadSetting DEF SettingNext
<1> QED
  BY <1>1, InitSetting, PTL DEF SettingSpec

-----------------------------------------------------------------------------
(* Type correctness: the copy is always a URL, the default's included.     *)
THEOREM SettingTypeCorrect == SettingSpec => []SettingTypeOK
<1>1. SettingInv => SettingTypeOK
  BY DEF SettingInv
<1> QED
  BY <1>1, SettingHolds, PTL

(* After a call that ran alone or a restart, the URL in effect is the      *)
(* stored one, however many calls overlapped or were dropped before.       *)
THEOREM AloneTakesEffect == SettingSpec => []TakesEffectAlone
<1>1. SettingInv => TakesEffectAlone
  BY DEF SettingInv
<1> QED
  BY <1>1, SettingHolds, PTL

=============================================================================
