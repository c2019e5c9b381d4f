--------------------------- MODULE ShareRegister ---------------------------
(***************************************************************************)
(* What the cap table promises about one company's share classes, with     *)
(* storage and callers abstracted away: each class has an authorized size  *)
(* and a number of shares that have been entered for holders, and issuing  *)
(* shares is one indivisible step that never passes the authorized size.   *)
(* CapTable shows when pkg/captable's IssueShares implements it.           *)
(***************************************************************************)
EXTENDS Integers

CONSTANTS
  Classes,       \* share class identifiers
  Sizes,         \* authorized sizes a class can be created with
  ShareAmounts,  \* share counts an issuance can ask for
  Openings       \* share counts a class can carry over from earlier books

VARIABLES
  authorized,    \* authorized[k]: size of class k, 0 while it does not exist
  entered        \* entered[k]: shares of class k that stand in holders' names

registerVars == <<authorized, entered>>

Init ==
  /\ authorized = [k \in Classes |-> 0]
  /\ entered = [k \in Classes |-> 0]

Open(k, size, opening) ==
  /\ authorized[k] = 0
  /\ size > 0
  /\ authorized' = [authorized EXCEPT ![k] = size]
  /\ entered' = [entered EXCEPT ![k] = opening]

Issue(k, n) ==
  /\ authorized[k] > 0
  /\ n > 0
  /\ entered[k] + n <= authorized[k]
  /\ entered' = [entered EXCEPT ![k] = @ + n]
  /\ UNCHANGED authorized

Next ==
  \E k \in Classes :
    \/ \E size \in Sizes, opening \in Openings : Open(k, size, opening)
    \/ \E n \in ShareAmounts : Issue(k, n)

Spec == Init /\ [][Next]_registerVars
=============================================================================
