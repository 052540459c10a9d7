--------------------------- MODULE MCAppRegistry ---------------------------
(* Small instances of AppRegistry. *)
EXTENDS AppRegistry, TLC

CONSTANTS r1, r2, r3, j1, j2, j3, x, p, q

TwoRows == {r1, r2}
ThreeRows == {r1, r2, r3}
ThreeJobs == {j1, j2, j3}
OneIpa == {x}
TwoAccounts == {p, q}

Everything == {"delete", "reconcile", "scheduler", "byhand", "account"}

(* All actors with two jobs and two accounts; and nobody else beside three *)
(* jobs of one account.                                                    *)
Crowded == [actors |-> Everything, jobs |-> 2, accounts |-> 2]
Alone == [actors |-> {}, jobs |-> 3, accounts |-> 1]
BothWorlds == {Crowded, Alone}
Reconciled == {[actors |-> {"reconcile"}, jobs |-> 2, accounts |-> 1]}

(* Rows, jobs and accounts are interchangeable. *)
Symmetry == Permutations(ThreeRows) \cup Permutations(ThreeJobs) \cup Permutations(TwoAccounts)
=============================================================================
