---------------------------- MODULE MCCompliance ----------------------------
(***************************************************************************)
(* Instances of Compliance for TLC.  One call is kept for careful hosts    *)
(* that file a Form D: it takes three to file it, have an amendment        *)
(* suspended, and file it again.                                           *)
(***************************************************************************)
EXTENDS Compliance

CONSTANT Third   \* the call kept for them

MCNext ==
  /\ Next
  /\ call'[Third].step # "idle" => host = "careful" /\ agency = "edgar"

MCSpec == Init /\ [][MCNext]_vars /\ Fairness
=============================================================================
