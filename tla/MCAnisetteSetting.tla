------------------------- MODULE MCAnisetteSetting -------------------------
(* A small instance of AnisetteSetting. *)
EXTENDS AnisetteSetting

CONSTANTS c1, c2, url1, url2, url3

TwoCallers == {c1, c2}
SomeUrls == {Default, url1, url2, url3}
=============================================================================
