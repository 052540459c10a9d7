--------------------------- MODULE AnisetteSetting ---------------------------
(***************************************************************************)
(* The URL of the anisette server: a row of sideload_storage and the copy  *)
(* in AppState that every job, login and page reads when it begins.  The   *)
(* form of the settings page calls set_anisette_url, which writes the row  *)
(* and then the copy, with nothing that keeps the writes of two calls      *)
(* apart; a start of the server reads the row.                             *)
(***************************************************************************)
EXTENDS Naturals

CONSTANTS Callers,    \* calls of set_anisette_url at the same time
          Urls,       \* default included
          Default,    \* the URL without a row
          NoUrl,
          MaxFaults   \* bound on dropped calls and failed queries

ASSUME SettingAssumption == Default \in Urls /\ NoUrl \notin Urls /\ MaxFaults \in Nat

VARIABLES
  row,     \* the stored URL
  copy,    \* AppState.anisette_url
  storing, \* storing[c]: the URL a call has stored and not yet put in the copy
  alone,   \* history: calls that no other one has overlapped
  upset,   \* history: was the last call or start to end disturbed by a fault or a call?
  faults   \* number of faults so far

settingVars == <<row, copy, storing, alone, upset, faults>>

SettingInit ==
  /\ row = NoUrl /\ copy = Default
  /\ storing = [c \in Callers |-> NoUrl]
  /\ alone = {} /\ upset = FALSE
  /\ faults = 0

Idle == \A c \in Callers : storing[c] = NoUrl
InEffect == IF row = NoUrl THEN Default ELSE row

(* Defect: the copy is written first, and stays when the row is refused. *)
StoreCopyFirst(c, url) ==
  /\ storing[c] = NoUrl
  /\ copy' = url
  /\ \/ row' = url /\ storing' = [storing EXCEPT ![c] = url]
     \/ UNCHANGED <<row, storing>>
  /\ alone' = IF Idle THEN {c} ELSE {}
  /\ UNCHANGED <<upset, faults>>

(* The INSERT of set_anisette_url; an error of it ends the call.           *)
Store(c, url) ==
  /\ storing[c] = NoUrl
  /\ row' = url
  /\ storing' = [storing EXCEPT ![c] = url]
  /\ alone' = IF Idle THEN {c} ELSE {}
  /\ UNCHANGED <<copy, upset, faults>>

(* The copy is written under its lock and the call returns.                *)
Apply(c) ==
  /\ storing[c] # NoUrl
  /\ copy' = storing[c]
  /\ storing' = [storing EXCEPT ![c] = NoUrl]
  /\ upset' = (c \notin alone)
  /\ UNCHANGED <<row, alone, faults>>

(* The browser goes away between the two, and the call is dropped.         *)
Drop(c) ==
  /\ storing[c] # NoUrl /\ faults < MaxFaults
  /\ faults' = faults + 1
  /\ storing' = [storing EXCEPT ![c] = NoUrl]
  /\ upset' = TRUE
  /\ UNCHANGED <<row, copy, alone>>

(* Defect: a start without a row takes what the table gives. *)
RestartRaw ==
  /\ copy' = row
  /\ storing' = [c \in Callers |-> NoUrl]
  /\ upset' = FALSE
  /\ UNCHANGED <<row, alone, faults>>

(* main *)
Restart ==
  /\ copy' = InEffect
  /\ storing' = [c \in Callers |-> NoUrl]
  /\ upset' = FALSE
  /\ UNCHANGED <<row, alone, faults>>

(* main, when the query fails: the default, without an error.              *)
RestartUnread ==
  /\ faults < MaxFaults
  /\ faults' = faults + 1
  /\ copy' = Default
  /\ storing' = [c \in Callers |-> NoUrl]
  /\ upset' = TRUE
  /\ UNCHANGED <<row, alone>>

SettingNext ==
  \/ \E c \in Callers : Apply(c) \/ Drop(c) \/ \E url \in Urls : Store(c, url)
  \/ Restart \/ RestartUnread

SettingSpec == SettingInit /\ [][SettingNext]_settingVars

-----------------------------------------------------------------------------
(* Properties *)

SettingTypeOK ==
  /\ row \in Urls \cup {NoUrl} /\ copy \in Urls
  /\ storing \in [Callers -> Urls \cup {NoUrl}]
  /\ alone \subseteq Callers /\ upset \in BOOLEAN
  /\ faults \in 0..MaxFaults

(* "Changes take effect immediately and persist across restarts": with no  *)
(* call under way the copy in effect is the one a restart would read, if   *)
(* the last call to end ran alone or the server has just started; whatever *)
(* overlaps, dropped calls and failed queries there were before.           *)
TakesEffectAlone == Idle /\ ~upset => copy = InEffect

=============================================================================
