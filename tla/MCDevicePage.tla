---------------------------- MODULE MCDevicePage ----------------------------
(* A small instance of DevicePage. *)
EXTENDS DevicePage

CONSTANTS j1, j2

TwoJobs == {j1, j2}
=============================================================================
