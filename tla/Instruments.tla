---------------------------- MODULE Instruments ----------------------------
(***************************************************************************)
(* The services that take one stored instrument through its life: safe,    *)
(* note, warrant, corporate, kyc, settlement, omnisub, document, and the   *)
(* votes of voting.  Each operation reads the record, looks at it, and     *)
(* writes the whole record back; between the two other calls can do the    *)
(* same.  A behaviour is about one record of one kind.                     *)
(***************************************************************************)
EXTENDS Hosts

CONSTANTS
  Quantity,   \* shares a warrant is for
  Exercised   \* shares an exercise can ask for

ASSUME InstrumentsAssumption ==
  Quantity \in Nat \ {0} /\ Exercised \subseteq Nat \ {0}

VARIABLES
  kind,     \* the kind of instrument; fixed
  record,   \* the stored record; status "absent" before it is created
  lockup,   \* trade: the lockup period runs
  request,  \* request[c]: the service call c
  given     \* history: shares released, executed events, or votes stored

instruments == <<kind, record, lockup, request, given>>

(* Statuses a record can be given when it is created: the caller's, where  *)
(* the service keeps one, or the first.                                    *)
SafeOpens == {"draft", "active", "pending", "converted", "expired",
              "cancelled"}
NoteOpens == SafeOpens
WarrantOpens == {"draft", "active", "exercised", "expired", "cancelled"}
ActionOpens == {"proposed"}
SubmissionOpens == {"pending", "approved", "rejected", "expired"}
TradeOpens == {"pending_compliance_clearance"}
SubAccountOpens == {"active", "suspended", "closed"}
DocumentOpens == {"draft", "final", "executed", "superseded"}
ProposalOpens == {"draft", "open", "closed", "certified"}

Opens ==
  [safe |-> SafeOpens, note |-> NoteOpens, warrant |-> WarrantOpens,
   action |-> ActionOpens, submission |-> SubmissionOpens,
   trade |-> TradeOpens, subaccount |-> SubAccountOpens,
   document |-> DocumentOpens, proposal |-> ProposalOpens]

Status == {"absent", "executed", "approved", "pending_transfer", "cancelled"}
          \cup UNION {Opens[k] : k \in DOMAIN Opens}

(* used: QuantityExercised of a warrant; legend: shares of a trade need a  *)
(* legend and the Rule 144 holding period is not met; acknowledged: by the *)
(* transfer agent.                                                         *)
Record ==
  [status : Status, used : Nat, legend : BOOLEAN, acknowledged : BOOLEAN]

-----------------------------------------------------------------------------

(* What an operation makes of a record it accepts: a set of one record, or *)
(* of none when it refuses.                                                *)
Move(from, to, r) ==
  IF r.status \in from THEN {[r EXCEPT !.status = to]} ELSE {}

SafeMarkConverted(r) == Move({"active"}, "converted", r)
SafeCancel(r) == Move(SafeOpens \ {"converted"}, "cancelled", r)
NoteMarkConverted(r) == Move({"active"}, "converted", r)
NoteCancel(r) == Move(NoteOpens \ {"converted"}, "cancelled", r)
WarrantCancel(r) == Move(WarrantOpens \ {"exercised"}, "cancelled", r)

ApproveAction(r) == Move({"proposed"}, "approved", r)
ExecuteAction(r) == Move({"approved"}, "executed", r)

(* Mutant: an executed action can be cancelled.                            *)
CancelActionAny(r) == Move(Status, "cancelled", r)

CancelAction(r) == Move(Status \ {"executed"}, "cancelled", r)

Approve(r) == Move({"pending"}, "approved", r)
Reject(r) == Move({"pending"}, "rejected", r)

(* Mutant: a status that is none of a document's.                          *)
MarkSigned(r) == Move(Status, "signed", r)

CloseSubAccount(r) == Move(SubAccountOpens \ {"closed"}, "closed", r)
MarkExecuted(r) == Move(Status, "executed", r)

(* Mutant: the quantity is held against the whole warrant.                 *)
WarrantExerciseWhole(r, quantity) ==
  IF r.status = "active" /\ quantity <= Quantity
  THEN {[r EXCEPT !.used = @ + quantity]} ELSE {}

(* An active warrant, for at most what remains of it.                      *)
WarrantExercise(r, quantity) ==
  IF r.status = "active" /\ quantity <= Quantity - r.used
  THEN {[r EXCEPT !.used = @ + quantity,
                  !.status = IF r.used + quantity = Quantity
                             THEN "exercised" ELSE @]}
  ELSE {}

ApproveTrade(r) ==
  Move({"pending_compliance_clearance"}, "pending_transfer", r)

(* Mutant: a legend does not need the transfer agent.                      *)
ValidateLockupOnly(r, locked) == ~locked

ValidateRestrictions(r, locked) ==
  ~locked /\ (r.legend => r.acknowledged)

ExecuteTrade(r, locked) ==
  IF ValidateRestrictions(r, locked)
  THEN Move({"pending_transfer"}, "executed", r) ELSE {}

(* Mutant: only drafts are closed to votes.                                *)
CastVoteUnlessDraft(r) == IF r.status = "draft" THEN {} ELSE {r}

CastVote(r) == IF r.status = "open" THEN {r} ELSE {}

(* Update stores the caller's copy.  A host that makes one call at a time  *)
(* uses it to activate a draft.                                            *)
Update(r) ==
  IF host = "serial" THEN Move({"draft", "pending"}, "active", r)
  ELSE {[r EXCEPT !.status = s] : s \in Opens[kind]}

Operations ==
  [safe |-> {"mark_converted", "cancel", "update"},
   note |-> {"mark_converted", "cancel", "update"},
   warrant |-> {"exercise", "cancel", "update"},
   action |-> {"approve", "execute", "cancel"},
   submission |-> {"approve", "reject"},
   trade |-> {"approve", "execute"},
   subaccount |-> {"close"},
   document |-> {"mark_executed"},
   proposal |-> {"vote"}]

Specific(op, quantity, r) ==
  CASE kind = "safe" ->
         IF op = "cancel" THEN SafeCancel(r) ELSE SafeMarkConverted(r)
    [] kind = "note" ->
         IF op = "cancel" THEN NoteCancel(r) ELSE NoteMarkConverted(r)
    [] kind = "warrant" ->
         IF op = "cancel" THEN WarrantCancel(r)
         ELSE WarrantExercise(r, quantity)
    [] kind = "action" ->
         (CASE op = "approve" -> ApproveAction(r)
            [] op = "execute" -> ExecuteAction(r)
            [] op = "cancel" -> CancelAction(r))
    [] kind = "submission" ->
         IF op = "approve" THEN Approve(r) ELSE Reject(r)
    [] kind = "trade" ->
         IF op = "approve" THEN ApproveTrade(r) ELSE ExecuteTrade(r, lockup)
    [] kind = "subaccount" -> CloseSubAccount(r)
    [] kind = "document" -> MarkExecuted(r)
    [] kind = "proposal" -> CastVote(r)

Change(op, quantity, r) ==
  IF op = "update" THEN Update(r) ELSE Specific(op, quantity, r)

-----------------------------------------------------------------------------

InitInstruments ==
  /\ kind \in DOMAIN Opens
  /\ lockup \in BOOLEAN
  /\ record \in [status : {"absent"}, used : {0}, legend : BOOLEAN,
                 acknowledged : BOOLEAN]
  /\ kind # "trade" => ~lockup /\ ~record.legend /\ ~record.acknowledged
  /\ request = [c \in Calls |-> [step |-> "idle", op |-> "none",
                                 quantity |-> 0, copy |-> record]]
  /\ given = 0

CreateInstrument ==
  /\ record.status = "absent"
  /\ \E s \in Opens[kind] : record' = [record EXCEPT !.status = s]
  /\ UNCHANGED <<host, kind, lockup, request, given>>

Quantities(op) == IF op = "exercise" THEN Exercised ELSE {0}

(* Read and check; a refusal, or a failed read, ends the call.             *)
ReadInstrument(c) ==
  /\ record.status # "absent"
  /\ request[c].step = "idle"
  /\ host = "serial" => \A d \in Calls : request[d].step # "write"
  /\ \E op \in Operations[kind] : \E quantity \in Quantities(op) :
       \/ \E new \in Change(op, quantity, record) :
            request' = [request EXCEPT ![c] =
                          [step |-> "write", op |-> op,
                           quantity |-> quantity, copy |-> new]]
       \/ request' = [request EXCEPT ![c].step = "done", ![c].op = op]
  /\ UNCHANGED <<host, kind, record, lockup, given>>

(* What the call hands its caller: exercised shares, an executed event,    *)
(* or, for a vote, what its repository call stores.                        *)
Gives(c) ==
  CASE request[c].op = "exercise" -> request[c].quantity
    [] request[c].op = "vote" -> 1
    [] kind = "trade" /\ request[c].op = "execute" -> 1
    [] OTHER -> 0

Returned(outcome, gives) == IF outcome = "ok" THEN gives ELSE 0

WriteInstrument(c) ==
  /\ request[c].step = "write"
  /\ \E outcome \in Succeeds :
       /\ record' = IF outcome = "ok" /\ request[c].op # "vote"
                    THEN request[c].copy ELSE record
       /\ given' = given + Returned(outcome, Gives(c))
  /\ request' = [request EXCEPT ![c].step = "done", ![c].copy = record]
  /\ UNCHANGED <<host, kind, lockup>>

LockupEnds ==
  /\ lockup
  /\ lockup' = FALSE
  /\ UNCHANGED <<host, kind, record, request, given>>

(* The host opens and closes proposals through the repository.             *)
SetProposal ==
  /\ kind = "proposal"
  /\ record.status # "absent"
  /\ host = "serial" => \A d \in Calls : request[d].step # "write"
  /\ \E s \in ProposalOpens \ {record.status} :
       record' = [record EXCEPT !.status = s]
  /\ UNCHANGED <<host, kind, lockup, request, given>>

NextInstruments ==
  \/ CreateInstrument
  \/ \E c \in Calls : ReadInstrument(c) \/ WriteInstrument(c)
  \/ LockupEnds
  \/ SetProposal

InstrumentsSpec ==
  /\ host \in Host /\ InitInstruments
  /\ [][NextInstruments]_<<host, instruments>>

-----------------------------------------------------------------------------

InstrumentsTyped ==
  /\ kind \in DOMAIN Opens
  /\ record \in Record
  /\ lockup \in BOOLEAN
  /\ request \in [Calls -> [step : {"idle", "write", "done"},
                            op : {"none"} \cup UNION {Operations[k] :
                                                      k \in DOMAIN Operations},
                            quantity : Exercised \cup {0}, copy : Record]]
  /\ given \in Nat

(* With one call at a time every instrument keeps to its life cycle: a     *)
(* converted SAFE or note, an exercised warrant, an executed action or     *)
(* trade, a decided submission stays what it is.  (Overlapping calls write *)
(* back what they read: an executed action is stored as cancelled.)        *)
LC == INSTANCE LifeCycle WITH
        kind <- IF kind = "proposal" THEN "document" ELSE kind,
        status <- IF host = "serial" /\ kind # "proposal"
                  THEN record.status ELSE "absent"

ImplementsLifeCycle == LC!Spec

(* A warrant is never exercised beyond its quantity by what is stored, and *)
(* with one call at a time the shares handed out are those it counts.  (Of *)
(* overlapping exercises both are handed out and one is counted.)          *)
ExercisesCovered ==
  kind = "warrant" =>
    /\ record.used <= Quantity
    /\ host = "serial" => given = record.used

(* However calls overlap, no trade is executed in its lockup, or with a    *)
(* legend, an unmet holding period and no transfer agent; with one call at *)
(* a time it is executed, and its event handed out, once.  (An approval    *)
(* that overlaps makes an executed trade pending again.)                   *)
TradesCleared ==
  kind = "trade" =>
    /\ record.status = "executed" =>
         ~lockup /\ (record.legend => record.acknowledged)
    /\ host = "serial" => given = (IF record.status = "executed" THEN 1 ELSE 0)

(* With one call at a time a vote is stored while its proposal is open.    *)
VotesWhileOpen ==
  [][host = "serial" /\ kind = "proposal" /\ given' # given =>
       record.status = "open"]_<<host, kind, record, given>>
=============================================================================
