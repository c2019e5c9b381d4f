--------------------------- MODULE GatedTransfers ---------------------------
(***************************************************************************)
(* A host that composes pkg/securities and pkg/transfer.  The packages do  *)
(* not call each other: pkg/transfer says whether a transfer is allowed    *)
(* and pkg/securities records it, so a host that wants restrictions        *)
(* enforced calls CheckTransfer and, when it allows the transfer, Transfer.*)
(* Restrictions come, are waived and expire meanwhile.                     *)
(***************************************************************************)
EXTENDS Securities

CONSTANTS
  RestrictionIds,
  MaxTime        \* bound: the clock stops here

ASSUME GatedAssumption ==
  /\ MaxTime \in Nat
  /\ "" \notin Classes

VARIABLES
  restriction, now,  \* the state of Restrictions
  cleared            \* transfers CheckTransfer allowed and not yet recorded

Rules == INSTANCE Restrictions

gatedVars == <<vars, restriction, now, cleared>>

Clearance == [caller : Callers, req : Transfers]

GatedInit ==
  /\ Init
  /\ Rules!Init
  /\ cleared = {}

(* A host that runs one call at a time keeps a check and its transfer      *)
(* together.                                                               *)
Free(c) ==
  /\ \A x \in cleared : x.caller # c
  /\ host.serial => cleared = {}

Unrestricted(r) == Rules!CheckTransfer(r.from, security[r.security].class)

CheckFirst(c, r) ==
  /\ Free(c)
  /\ MayStart(c)
  /\ Len(ledger) < MaxLedger
  /\ Exists(r.security)
  /\ Unrestricted(r)
  /\ cleared' = cleared \cup {[caller |-> c, req |-> r]}
  /\ UNCHANGED <<vars, restriction, now>>

TransferCleared(x) ==
  /\ BeginMovement(x.caller, x.req)
  /\ UNCHANGED <<restriction, now, cleared>>

StartUnchecked(c) ==
  /\ Free(c)
  /\ \/ \E r \in Issuances : BeginIssue(c, r)
     \/ \E r \in Transfers \cup Cancellations \cup Conversions :
          BeginMovement(c, r)
     \/ \E r \in Edits : BeginEdit(c, r)
  /\ UNCHANGED <<restriction, now, cleared>>

CallStep(call) ==
  /\ Step(call)
  /\ cleared' = {x \in cleared : x.caller # call.caller}
  /\ UNCHANGED <<restriction, now>>

Create(s, sec) ==
  /\ host.serial => cleared = {}
  /\ CreateSecurity(s, sec)
  /\ UNCHANGED <<restriction, now, cleared>>

ChangeRules(i) ==
  /\ host.serial => calls = {} /\ cleared = {}
  /\ \/ \E holder \in Stakeholders \cup {""}, class \in Classes \cup {""},
           end \in 0..Rules!Never :
          Rules!CreateRestriction(i, holder, class, end)
     \/ Rules!WaiveRestriction(i)
  /\ UNCHANGED <<vars, cleared>>

Clock ==
  /\ Rules!Tick
  /\ UNCHANGED <<vars, cleared>>

GatedNext ==
  \/ \E s \in Offerings, sec \in NewSecurity : Create(s, sec)
  \/ \E c \in Callers :
       \/ \E r \in Transfers : CheckFirst(c, r)
       \/ StartUnchecked(c)
  \/ \E x \in cleared : TransferCleared(x)
  \/ \E call \in calls : CallStep(call)
  \/ \E i \in RestrictionIds : ChangeRules(i)
  \/ Clock

GatedSpec == GatedInit /\ [][GatedNext]_gatedVars

-----------------------------------------------------------------------------

GatedTypeOK ==
  /\ TypeOK
  /\ Rules!TypeOK
  /\ cleared \subseteq Clearance

(* A restriction in force forbids the movement r.                          *)
Forbidden(r) ==
  \E i \in RestrictionIds :
    /\ restriction[i].status = "active" /\ now <= restriction[i].end
    /\ restriction[i].holder \in {"", r.from}
    /\ restriction[i].class \in {"", security[r.security].class}

(* With a host that keeps the check and the transfer together no checked   *)
(* transfer is recorded while a restriction that applies to it is active.  *)
GateRespected ==
  [][\A x \in cleared, call \in calls :
       host.serial /\ call.caller = x.caller /\ AppendLedger(call) =>
         ~Forbidden(x.req)]_gatedVars

(* "whether to enforce transfer restrictions" (the comment on              *)
(* RestrictionCheck, types.go): a transfer requested with it is not        *)
(* recorded while an active restriction applies, even with a host that     *)
(* runs one call at a time.                                                *)
RestrictionCheckEnforced ==
  [][\A call \in calls :
       /\ host.serial /\ AppendLedger(call)
       /\ call.req.action = "transfer" /\ call.req.check
       => ~Forbidden(call.req)]_gatedVars
=============================================================================
