---------------------------- MODULE Restrictions ----------------------------
(***************************************************************************)
(* pkg/transfer: transfer restrictions and the check of a transfer against *)
(* them.  One company's restrictions; the checks of Rule 144 are pure and  *)
(* are not part of this module.                                            *)
(***************************************************************************)
EXTENDS Integers

CONSTANTS
  Stakeholders,
  Classes,
  RestrictionIds,
  MaxTime        \* bound: the clock stops here

VARIABLES
  restriction,   \* restriction[i]: the stored record
  now            \* the clock

restrictionVars == <<restriction, now>>

(* The end of a restriction with no EndDate: the clock never passes it.    *)
Never == MaxTime

(* holder and class "": every holder, every class.                         *)
Restriction ==
  [status : {"none", "active", "waived"}, holder : Stakeholders \cup {""},
   class : Classes \cup {""}, end : 0..Never]

NoRestriction == [status |-> "none", holder |-> "", class |-> "", end |-> 0]

Init ==
  /\ restriction = [i \in RestrictionIds |-> NoRestriction]
  /\ now = 0

(* StartDate is stored but no check looks at it: a restriction binds from  *)
(* its creation.                                                           *)
CreateRestriction(i, holder, class, end) ==
  /\ restriction[i].status = "none"
  /\ restriction' = [restriction EXCEPT ![i] =
                       [status |-> "active", holder |-> holder,
                        class |-> class, end |-> end]]
  /\ UNCHANGED now

(* The record is read and written back with one field changed, a field no  *)
(* other operation writes, so the two steps are as one.                    *)
WaiveRestriction(i) ==
  /\ restriction[i].status # "none"
  /\ restriction' = [restriction EXCEPT ![i].status = "waived"]
  /\ UNCHANGED now

Tick ==
  /\ now < MaxTime
  /\ now' = now + 1
  /\ UNCHANGED restriction

(* Mutant: restrictions on all holders are skipped.                        *)
AppliesToNamed(r, holder, class) ==
  /\ r.status = "active"
  /\ r.end >= now
  /\ r.holder = holder
  /\ r.class \in {"", class}

Applies(r, holder, class) ==
  /\ r.status = "active"
  /\ r.end >= now
  /\ r.holder \in {"", holder}
  /\ r.class \in {"", class}

(* CheckTransfer: whether holder may move shares of the class now.         *)
CheckTransfer(holder, class) ==
  \A i \in RestrictionIds : ~Applies(restriction[i], holder, class)

Next ==
  \/ \E i \in RestrictionIds :
       \/ \E holder \in Stakeholders \cup {""}, class \in Classes \cup {""},
             end \in 0..Never : CreateRestriction(i, holder, class, end)
       \/ WaiveRestriction(i)
  \/ Tick

TypeOK ==
  /\ restriction \in [RestrictionIds -> Restriction]
  /\ now \in 0..MaxTime
=============================================================================
