---------------------------- MODULE LoginPromise ----------------------------
(***************************************************************************)
(* What the Accounts page is promised about a sign-in: it is open until    *)
(* Apple accepts it, Apple refuses it or the user cancels it; the account  *)
(* is stored only after an acceptance, and only once; a cancelled sign-in  *)
(* stays cancelled.                                                        *)
(***************************************************************************)
CONSTANT Sessions

VARIABLE phase   \* phase[s]: how far sign-in s is

Init == phase = [s \in Sessions |-> "new"]

Move(s, from, to) == /\ phase[s] = from
                     /\ phase' = [phase EXCEPT ![s] = to]

Open(s)   == Move(s, "new", "open")
Accept(s) == Move(s, "open", "accepted")
Refuse(s) == Move(s, "open", "refused")
Cancel(s) == Move(s, "open", "cancelled")
Store(s)  == Move(s, "accepted", "stored")

Next == \E s \in Sessions : Open(s) \/ Accept(s) \/ Refuse(s) \/ Cancel(s) \/ Store(s)

Spec == Init /\ [][Next]_phase
=============================================================================
