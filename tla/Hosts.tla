------------------------------- MODULE Hosts -------------------------------
(***************************************************************************)
(* The host program in front of the services that keep one record per      *)
(* instrument.  Their repositories give single calls that are atomic and   *)
(* copy, and may fail; nothing else keeps two service calls apart.         *)
(***************************************************************************)
EXTENDS Integers, FiniteSets, FiniteSetsExt

CONSTANT Calls   \* the service calls of a behaviour

VARIABLE host    \* serial: one service call at a time; fixed

Host == {"serial", "concurrent"}

Succeeds == {"ok", "failed"}
=============================================================================
