----------------------------- MODULE MCLoginForm -----------------------------
(* A small instance of LoginForm. *)
EXTENDS LoginForm

CONSTANTS s1, s2, f1

TwoSessions == {s1, s2}
OneForm == {f1}
=============================================================================
