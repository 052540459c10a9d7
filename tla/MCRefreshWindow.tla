-------------------------- MODULE MCRefreshWindow --------------------------
(* A small instance of RefreshWindow; its numbers are in the configuration *)
(* file: the defaults of jas.toml, a day being six units, except for the   *)
(* units of the label.  Those are so long that it says days, hours and     *)
(* minutes, each with and without a remainder, and seconds: between 4 and  *)
(* 42 units remain.                                                        *)
EXTENDS RefreshWindow
=============================================================================
