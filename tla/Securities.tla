----------------------------- MODULE Securities -----------------------------
(***************************************************************************)
(* pkg/securities: offerings and the ledger of their movements.            *)
(*                                                                         *)
(* Issue reads the security, appends to the ledger and writes the whole    *)
(* security record back with its counters moved on; Transfer, Cancel and   *)
(* Convert read the security and append.  UpdateSecurity stores whatever   *)
(* record its caller holds: an operator reads a security, changes its      *)
(* status and stores the copy.  Repository calls are atomic and copy, as   *)
(* in the repository of the tests; nothing wider is.                       *)
(***************************************************************************)
EXTENDS Integers, Sequences, FiniteSets, Functions

CONSTANTS
  Callers,       \* goroutines or processes that call the service
  Offerings,     \* identifiers of securities
  Classes,       \* share classes they can be issued in
  Stakeholders,
  Statuses,      \* statuses that callers and operators give
  Values,        \* Shares * PricePerShare an issuance can have
  MaxLedger      \* bound: calls stop starting at this many ledger entries

ASSUME SecuritiesAssumption ==
  /\ Statuses \subseteq {"draft", "offering", "closed", "cancelled"}
  /\ Values \subseteq Nat
  /\ MaxLedger \in Nat
  /\ "" \notin Stakeholders

VARIABLES
  host,          \* how the host uses the service; fixed
  security,      \* security[s]: the stored record
  ledger,        \* the ledger, oldest entry first
  calls,         \* calls in flight
  issued,        \* history: per security, its opening and all it issued
  late           \* history: issuances under way when the offering closed

vars == <<host, security, ledger, calls, issued, late>>

(* serial: one call at a time; reliable: repository calls do not fail;     *)
(* unique: an identifier is given to one security.  The service does not   *)
(* see to it, and the repository of the tests overwrites what is there.    *)
Host == [serial : BOOLEAN, reliable : BOOLEAN, unique : BOOLEAN]

Status == {"none", "draft", "offering", "closed", "cancelled"}

Security ==
  [status : Status, class : Classes, raised : Nat, investors : Nat]

(* What a caller gives to be created.  It may have raised elsewhere.       *)
NewSecurity ==
  [status : {""} \cup Statuses, class : Classes,
   raised : {0} \cup Values, investors : {0}]

(* A request; check is RestrictionCheck of a TransferRequest.              *)
Issuances ==
  [action : {"issue"}, security : Offerings, from : {""}, to : Stakeholders,
   value : Values, check : {FALSE}]

Transfers ==
  {r \in [action : {"transfer"}, security : Offerings, from : Stakeholders,
          to : Stakeholders, value : {0}, check : BOOLEAN] : r.from # r.to}

Cancellations ==
  [action : {"cancel"}, security : Offerings, from : Stakeholders, to : {""},
   value : {0}, check : {FALSE}]

Conversions ==
  {r \in [action : {"convert"}, security : Offerings, from : Stakeholders,
          to : Stakeholders, value : {0}, check : {FALSE}] : r.from = r.to}

(* A change of status by an operator.                                      *)
Edits == [action : {"edit"}, security : Offerings, to : Statuses]

Request == Issuances \cup Transfers \cup Cancellations \cup Conversions

LedgerEntry ==
  [action : {"issue", "transfer", "cancel", "convert"}, security : Offerings,
   from : Stakeholders \cup {""}, to : Stakeholders \cup {""}, value : Nat]

Call ==
  [caller : Callers, step : {"append", "update"},
   req : Request \cup Edits, sec : Security]

Init ==
  /\ host \in Host
  /\ security \in [Offerings -> [status : {"none"}, class : Classes,
                                 raised : {0}, investors : {0}]]
  /\ ledger = <<>>
  /\ calls = {}
  /\ issued = [s \in Offerings |-> [opening |-> 0, value |-> 0, count |-> 0]]
  /\ late = [s \in Offerings |-> {}]

-----------------------------------------------------------------------------

Exists(s) == security[s].status # "none"

(* Mutant: a security without a status is stored without one.              *)
StatusGiven(status) == status

StatusOrDraft(status) == IF status = "" THEN "draft" ELSE status

Closed(s) == security[s].status \in {"closed", "cancelled"}

Underway(s) ==
  {call.caller : call \in {x \in calls : /\ x.req.action = "issue"
                                        /\ x.req.security = s}}

(* The late issuances of s once its status is set: those under way when it *)
(* closes, and as long as it stays closed.                                 *)
LateOnce(s, status) ==
  late' = [late EXCEPT ![s] = IF status \notin {"closed", "cancelled"} THEN {}
                              ELSE IF Closed(s) THEN @ ELSE Underway(s)]

(* Whatever had the identifier is overwritten.  The opening of a security  *)
(* is the most that any creation of it brought along.                      *)
CreateSecurity(s, sec) ==
  /\ host.serial => calls = {}
  /\ host.unique => ~Exists(s)
  /\ LET status == StatusOrDraft(sec.status) IN
       /\ security' = [security EXCEPT ![s] = [sec EXCEPT !.status = status]]
       /\ LateOnce(s, status)
  /\ issued' = [issued EXCEPT ![s].opening = IF sec.raised > @ THEN sec.raised
                                             ELSE @]
  /\ UNCHANGED <<host, ledger, calls>>

MayStart(c) ==
  /\ \A call \in calls : call.caller # c
  /\ host.serial => calls = {}

Begin(c, step, r) ==
  /\ MayStart(c)
  /\ Exists(r.security)
  /\ calls' = calls \cup {[caller |-> c, step |-> step, req |-> r,
                           sec |-> security[r.security]]}
  /\ UNCHANGED <<host, security, ledger, issued, late>>

(* Mutant: only cancelled offerings turn an issuance away.                 *)
IssuableClosed(sec) == sec.status # "cancelled"

Issuable(sec) == sec.status \in {"offering", "draft"}

BeginIssue(c, r) ==
  /\ Len(ledger) < MaxLedger
  /\ Issuable(security[r.security])
  /\ Begin(c, "append", r)

(* Neither the status nor the holdings of the security are looked at, and  *)
(* RestrictionCheck of a transfer is not either.                           *)
BeginMovement(c, r) ==
  /\ Len(ledger) < MaxLedger
  /\ Begin(c, "append", r)

(* UpdateSecurity stores whatever status the operator gives.               *)
BeginEdit(c, r) == Begin(c, "update", r)

(* Mutant: conversions are recorded as issuances.                          *)
ActionIssue(r) == IF r.action = "convert" THEN "issue" ELSE r.action

Action(r) == r.action

AppendLedger(call) ==
  /\ call.step = "append"
  /\ LET r == call.req IN
       ledger' = Append(ledger,
                        [action |-> Action(r), security |-> r.security,
                         from |-> r.from, to |-> r.to, value |-> r.value])
  /\ IF call.req.action = "issue"
     THEN /\ calls' = (calls \ {call}) \cup {[call EXCEPT !.step = "update"]}
          /\ issued' = [issued EXCEPT
                          ![call.req.security].value = @ + call.req.value,
                          ![call.req.security].count = @ + 1]
     ELSE /\ calls' = calls \ {call}
          /\ UNCHANGED issued
  /\ UNCHANGED <<host, security, late>>

(* Mutant: an issuance is counted once by Issue and once by the write.     *)
WrittenTwice(call) ==
  IF call.req.action = "issue"
  THEN [call.sec EXCEPT !.raised = @ + 2 * call.req.value, !.investors = @ + 2]
  ELSE [call.sec EXCEPT !.status = call.req.to]

(* Mutant: the counters of an issuance are not moved on.                   *)
WrittenUncounted(call) ==
  IF call.req.action = "issue" THEN call.sec
  ELSE [call.sec EXCEPT !.status = call.req.to]

(* The record UpdateSecurity stores: the copy the call read, changed.      *)
Written(call) ==
  IF call.req.action = "issue"
  THEN [call.sec EXCEPT !.raised = @ + call.req.value, !.investors = @ + 1]
  ELSE [call.sec EXCEPT !.status = call.req.to]

UpdateSecurity(call) ==
  /\ call.step = "update"
  /\ security' = [security EXCEPT ![call.req.security] = Written(call)]
  /\ LateOnce(call.req.security, Written(call).status)
  /\ calls' = calls \ {call}
  /\ UNCHANGED <<host, ledger, issued>>

(* A repository call fails or the process stops.                           *)
Fails(call) ==
  /\ ~host.reliable
  /\ calls' = calls \ {call}
  /\ late' = [late EXCEPT ![call.req.security] = @ \ {call.caller}]
  /\ UNCHANGED <<host, security, ledger, issued>>

Step(call) == AppendLedger(call) \/ UpdateSecurity(call) \/ Fails(call)

Next ==
  \/ \E s \in Offerings, sec \in NewSecurity : CreateSecurity(s, sec)
  \/ \E c \in Callers :
       \/ \E r \in Issuances : BeginIssue(c, r)
       \/ \E r \in Transfers \cup Cancellations \cup Conversions :
            BeginMovement(c, r)
       \/ \E r \in Edits : BeginEdit(c, r)
  \/ \E call \in calls : Step(call)

Spec == Init /\ [][Next]_vars

-----------------------------------------------------------------------------

TypeOK ==
  /\ host \in Host
  /\ security \in [Offerings -> Security]
  /\ ledger \in Seq(LedgerEntry)
  /\ calls \subseteq Call
  /\ issued \in [Offerings -> [opening : Nat, value : Nat, count : Nat]]
  /\ late \in [Offerings -> SUBSET Callers]

(* The counters of a security never run ahead of its ledger: whatever      *)
(* overlaps, is stored from a stale copy, is created again or fails, every *)
(* dollar in AmountRaised beyond the opening and every unit of             *)
(* CurrentInvestors has an issue entry.                                    *)
CountersBacked ==
  \A s \in Offerings :
    /\ security[s].raised <= issued[s].opening + issued[s].value
    /\ security[s].investors <= issued[s].count

IssueEntries(s) ==
  {i \in DOMAIN ledger : ledger[i].security = s /\ ledger[i].action = "issue"}

(* The issue entries of the ledger are the issuances that happened, in     *)
(* number and in value: no other movement adds to what counts as issued.   *)
IssuedIsLedger ==
  \A s \in Offerings :
    /\ issued[s].count = Cardinality(IssueEntries(s))
    /\ issued[s].value =
         SumFunctionOnSet([i \in DOMAIN ledger |-> ledger[i].value],
                          IssueEntries(s))

(* With a host that runs one call at a time, and gives an identifier once, *)
(* on a repository that does not fail the counters agree with the ledger   *)
(* between calls.                                                          *)
CountersExact ==
  host.serial /\ host.reliable /\ host.unique /\ calls = {} =>
    \A s \in Offerings :
      /\ security[s].raised = issued[s].opening + issued[s].value
      /\ security[s].investors = issued[s].count

(* With a host that runs one call at a time nothing is issued once the     *)
(* offering is closed or cancelled.                                        *)
SealedOffering ==
  [][\A s \in Offerings :
       host.serial /\ issued'[s].count # issued[s].count =>
         security[s].status \in {"draft", "offering"}]_vars

(* Closing an offering stops all but the issuances already under way:      *)
(* whatever overlaps, fails, is edited or created again, no other issuance *)
(* is recorded on an offering that is closed or cancelled, and no other    *)
(* one writes back a copy that opens it again.                             *)
OnlyLateIssuances ==
  [][\A call \in calls :
       /\ call.req.action = "issue" /\ Closed(call.req.security)
       /\ AppendLedger(call) \/ UpdateSecurity(call)
       => call.caller \in late[call.req.security]]_vars
=============================================================================
