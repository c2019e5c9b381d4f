---------------------------- MODULE MCIrisClient ----------------------------
(* Instances of IrisClient for TLC. *)
EXTENDS IrisClient
=============================================================================
