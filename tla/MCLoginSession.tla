--------------------------- MODULE MCLoginSession ---------------------------
(* Small instances of LoginSession. *)
EXTENDS LoginSession, TLC

CONSTANTS s1, s2, c1, c2, c3

TwoSessions == {s1, s2}
TwoCalls == {c1, c2}
ThreeCalls == {c1, c2, c3}

(* Neither session keys nor calls are named by any action. *)
Symmetry == Permutations(TwoSessions) \cup Permutations(ThreeCalls)
=============================================================================
