--------------------------- MODULE MCAccountStore ---------------------------
(* A small instance of AccountStore. *)
EXTENDS AccountStore, TLC

CONSTANTS l1, l2, s1, i1, i2

TwoLogins == {l1, l2}
OneSession == {s1}
TwoIdentities == {i1, i2}

(* No property tells logins or identities apart. *)
Symmetric == Permutations(TwoLogins) \cup Permutations(TwoIdentities)
=============================================================================
