---------------------------- MODULE MCDeviceLink ----------------------------
(* A small instance of DeviceLink. *)
EXTENDS DeviceLink, TLC

CONSTANTS lan, local, o1

(* The device's address on the home network, and a link-local one that it  *)
(* announces as well.                                                      *)
TwoAddrs == {lan, local}
TwoClasses == lan :> 1 @@ local :> 3
OneOp == {o1}
AnyHost == {"none", "other", "silent"}
=============================================================================
