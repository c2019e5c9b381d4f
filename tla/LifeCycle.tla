----------------------------- MODULE LifeCycle -----------------------------
(***************************************************************************)
(* What the life cycle of a stored instrument promises: it is created once *)
(* and from then on only moves forward, so that what is converted,         *)
(* exercised, executed, decided or closed is never undone.                 *)
(***************************************************************************)
EXTENDS Integers

VARIABLES kind, status

(* How far each status is along.  Statuses of equal rank exclude another;  *)
(* signing a superseded document is nothing the service objects to.        *)
Rank ==
  [security |-> [draft |-> 1, pending |-> 2, active |-> 3, expired |-> 4,
                 converted |-> 5, exercised |-> 5, cancelled |-> 5],
   action |-> [proposed |-> 1, approved |-> 2, executed |-> 3,
               cancelled |-> 3],
   submission |-> [pending |-> 1, expired |-> 2, approved |-> 2,
                   rejected |-> 2],
   trade |-> [pending_compliance_clearance |-> 1, pending_transfer |-> 2,
              executed |-> 3],
   subaccount |-> [active |-> 1, suspended |-> 1, closed |-> 2],
   document |-> [draft |-> 1, final |-> 2, superseded |-> 2,
                 executed |-> 3]]

Family ==
  [safe |-> "security", note |-> "security", warrant |-> "security",
   action |-> "action", submission |-> "submission", trade |-> "trade",
   subaccount |-> "subaccount", document |-> "document"]

Ranks == Rank[Family[kind]]

Init == kind \in DOMAIN Family /\ status = "absent"

Create == status = "absent" /\ status' \in DOMAIN Ranks

Advance ==
  /\ status # "absent"
  /\ status' \in DOMAIN Ranks
  /\ Ranks[status] < Ranks[status']

Next == (Create \/ Advance) /\ UNCHANGED kind

Spec == Init /\ [][Next]_<<kind, status>>
=============================================================================
