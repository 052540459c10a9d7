---------------------------- MODULE AccountStore ----------------------------
(***************************************************************************)
(* What JAS keeps of one Apple ID: the row of apple_accounts with the      *)
(* session data (SPD) of its last login, and in sideload_storage, under    *)
(* the Apple ID's prefix, the anisette identity and the cached xcode.auth  *)
(* token.  Logins and developer sessions each load a copy of the stored    *)
(* keys (DbStorage::load) and write keys through it, all at once.          *)
(* Apple's servers and the isideload library are external: an identity is  *)
(* made up when the loaded copy has none, and Apple gives a token only to  *)
(* the identity that signed in.                                            *)
(***************************************************************************)
EXTENDS Integers, FiniteSets

CONSTANTS Logins, Sessions,  \* calls in flight at the same time
          Identities,        \* anisette identities the library may make up
          Lifetime,          \* of an xcode.auth token
          Margin,            \* is_fresh: what must be left of it, a minute
          MaxNow,            \* bound on the clock
          None

ASSUME StoreAssumption ==
  /\ Logins \cap Sessions = {}
  /\ None \notin Identities /\ None \notin [identity : Identities, expiry : Nat]
  /\ Lifetime \in Nat /\ Margin \in Nat /\ Margin < Lifetime
  /\ MaxNow \in Nat

VARIABLES
  now,      \* the clock
  db,       \* the keys of the Apple ID in sideload_storage
  account,  \* the identity its row's SPD was minted against
  made,     \* identities made up so far
  call,     \* call[c]: a login thread or a developer session
  raced     \* history: two calls have found no identity before either made one up

vars == <<now, db, account, made, call, raced>>
stored == <<db, account, made>>

Calls == Logins \cup Sessions

PCs == {"idle", "fetch", "load", "check", "build", "restore", "anisette",
        "signIn", "mint", "cache", "save", "ready"}

Token == [identity : Identities, expiry : 0..(MaxNow + Lifetime)]

NoCall == [pc |-> "idle", spd |-> None, provider |-> None, token |-> None, checked |-> 0]

Init ==
  /\ now = 0
  /\ db = [identity |-> None, token |-> None]
  /\ account = None
  /\ made = {}
  /\ call = [c \in Calls |-> NoCall]
  /\ raced = FALSE

At(c, pc) == call[c].pc = pc
Goto(c, pc) == call' = [call EXCEPT ![c].pc = pc]

Tick == now < MaxNow /\ now' = now + 1 /\ UNCHANGED <<stored, call, raced>>

-----------------------------------------------------------------------------
(* build_anisette_provider, called by both.                                *)

(* A call that will make up an identity, having loaded none.               *)
Blank(c) == At(c, "anisette") /\ call[c].provider = None

Provider(c, pc, next) ==
  /\ At(c, pc)
  /\ call' = [call EXCEPT ![c].pc = next, ![c].provider = db.identity]
  /\ raced' = (raced \/ (next = "anisette" /\ db.identity = None /\ \E d \in Calls : Blank(d)))
  /\ UNCHANGED <<now, stored>>

(* Defect: the provider keeps its state in memory only. *)
AnisetteForgets(c, next) ==
  /\ At(c, "anisette")
  /\ IF call[c].provider # None
     THEN Goto(c, next) /\ UNCHANGED stored
     ELSE \E i \in Identities \ made :
            /\ call' = [call EXCEPT ![c].pc = next, ![c].provider = i]
            /\ made' = made \cup {i}
            /\ UNCHANGED <<db, account>>
  /\ UNCHANGED <<now, raced>>

(* The identity of the copy is used, or one is made up and written through *)
(* (DbStorage::store writes the one key, whatever the table has by now).   *)
Anisette(c, next) ==
  /\ At(c, "anisette")
  /\ IF call[c].provider # None
     THEN Goto(c, next) /\ UNCHANGED stored
     ELSE \E i \in Identities \ made :
            /\ call' = [call EXCEPT ![c].pc = next, ![c].provider = i]
            /\ made' = made \cup {i}
            /\ db' = [db EXCEPT !.identity = i]
            /\ UNCHANGED account
  /\ UNCHANGED <<now, raced>>

(* cache_xcode_token_from_account: Apple mints a token, for the identity   *)
(* that signed in, and the key is written through.                         *)
Mint(c) ==
  /\ At(c, "mint") /\ call[c].spd = call[c].provider
  /\ call' = [call EXCEPT ![c].pc = "cache", ![c].checked = now,
       ![c].token = [identity |-> call[c].spd, expiry |-> now + Lifetime]]
  /\ UNCHANGED <<now, stored, raced>>

CacheToken(c, next) ==
  /\ At(c, "cache")
  /\ db' = [db EXCEPT !.token = call[c].token]
  /\ Goto(c, next)
  /\ UNCHANGED <<now, account, made, raced>>

(* Any of it may fail, and a login may be dropped before it is saved.      *)
End(c) ==
  /\ ~At(c, "idle")
  /\ call' = [call EXCEPT ![c] = NoCall]
  /\ UNCHANGED <<now, stored, raced>>

-----------------------------------------------------------------------------
(* The login thread of begin_login, and finalize_login.                    *)

Begin(c, pc, spd) ==
  /\ At(c, "idle")
  /\ call' = [call EXCEPT ![c] = [NoCall EXCEPT !.pc = pc, !.spd = spd]]
  /\ UNCHANGED <<now, stored, raced>>

(* Password and two-factor code: the SPD is minted against the provider's  *)
(* identity.                                                               *)
SignIn(c) ==
  /\ At(c, "signIn")
  /\ call' = [call EXCEPT ![c].pc = "mint", ![c].spd = call[c].provider]
  /\ UNCHANGED <<now, stored, raced>>

(* Defect: the token is saved for the SPD. *)
SaveToken(c) ==
  /\ At(c, "save")
  /\ account' = call[c].token
  /\ call' = [call EXCEPT ![c] = NoCall]
  /\ UNCHANGED <<now, db, made, raced>>

(* insert_account, an upsert on the Apple ID. *)
Save(c) ==
  /\ At(c, "save")
  /\ account' = call[c].spd
  /\ call' = [call EXCEPT ![c] = NoCall]
  /\ UNCHANGED <<now, db, made, raced>>

LoginStep(c) ==
  \/ Begin(c, "load", None)
  \/ Provider(c, "load", "anisette")
  \/ Anisette(c, "signIn")
  \/ SignIn(c) \/ Mint(c)
  \/ CacheToken(c, "save")
  \/ Save(c) \/ End(c)

-----------------------------------------------------------------------------
(* get_dev_session.                                                        *)

(* Its caller has read the account's row; the token comes from a copy of   *)
(* its own.                                                                *)
LoadToken(c) ==
  /\ At(c, "fetch")
  /\ call' = [call EXCEPT ![c].pc = "load", ![c].token = db.token]
  /\ UNCHANGED <<now, stored, raced>>

(* Defect: a token counts until it expires. *)
IsUnexpired(token) == token.expiry > now

(* is_fresh *)
IsFresh(token) == token.expiry > now + Margin

Check(c) ==
  /\ At(c, "check")
  /\ IF call[c].token # None /\ IsFresh(call[c].token)
     THEN call' = [call EXCEPT ![c].pc = "build", ![c].checked = now]
     ELSE Goto(c, "restore")
  /\ UNCHANGED <<now, stored, raced>>

(* get_client_info and GrandSlam::new, over the network. *)
Build(c) == At(c, "build") /\ Goto(c, "ready") /\ UNCHANGED <<now, stored, raced>>

(* Defect: restore_account gives its provider no storage to load from. *)
RestoreBlank(c) ==
  /\ At(c, "restore")
  /\ call' = [call EXCEPT ![c].pc = "anisette", ![c].provider = None]
  /\ UNCHANGED <<now, stored, raced>>

(* restore_account *)
Restore(c) == Provider(c, "restore", "anisette")

SessionStep(c) ==
  \/ account # None /\ Begin(c, "fetch", account)
  \/ LoadToken(c)
  \/ Provider(c, "load", "check")
  \/ Check(c) \/ Build(c) \/ Restore(c)
  \/ Anisette(c, "mint")
  \/ Mint(c)
  \/ CacheToken(c, "ready")
  \/ End(c)

(* delete_account deletes the row, not the keys.                           *)
DeleteAccount == account # None /\ account' = None /\ UNCHANGED <<now, db, made, call, raced>>

Next ==
  \/ Tick \/ DeleteAccount
  \/ \E c \in Logins : LoginStep(c)
  \/ \E c \in Sessions : SessionStep(c)

Spec == Init /\ [][Next]_vars

-----------------------------------------------------------------------------
(* Properties *)

TypeOK ==
  /\ now \in 0..MaxNow /\ made \subseteq Identities
  /\ db \in [identity : made \cup {None}, token : Token \cup {None}]
  /\ account \in made \cup {None} /\ raced \in BOOLEAN
  /\ call \in [Calls -> [pc : PCs, spd : made \cup {None}, provider : made \cup {None},
                         token : Token \cup {None}, checked : 0..MaxNow]]

(* "The persisted anisette identity matches the one the cached SPD [...]   *)
(* was minted against", however logins and sessions overlap, unless two    *)
(* logins both found no identity stored: then each makes one up, and the   *)
(* login that is saved last need not be the one that stored its own last.  *)
IdentityMatches == ~raced /\ account # None => db.identity = account

(* The token of a session was given to the identity the session presents,  *)
(* although the two come from copies loaded at different times.            *)
SessionIsConsistent ==
  ~raced => \A c \in Sessions : At(c, "ready") => call[c].token.identity = call[c].provider

(* A session that is ready within Margin of the check has a token that     *)
(* Apple still accepts.                                                    *)
TokenIsUsable ==
  \A c \in Sessions :
    At(c, "ready") /\ now - call[c].checked <= Margin => call[c].token.expiry > now

=============================================================================
