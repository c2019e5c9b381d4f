--------------------------- MODULE ServicesProofs ---------------------------
(***************************************************************************)
(* What holds of the services that keep one record per instrument for any  *)
(* number of calls: of every host, and of one that makes a call at a time. *)
(* The instruments come first, then a grant with exercises of any size,    *)
(* then a declaration with any number of holders.                          *)
(***************************************************************************)
EXTENDS Instruments, OptionGrants, Dividends, SumTheorems, TLAPS

(* The statuses operations set, and those records are created with.        *)
LEMMA Statuses ==
  /\ {"active", "converted", "cancelled", "approved", "executed", "rejected",
      "closed", "exercised", "pending_transfer", "absent"} \subseteq Status
  /\ \A k \in DOMAIN Opens : Opens[k] \subseteq Status
<1>1. DOMAIN Opens = {"safe", "note", "warrant", "action", "submission",
                      "trade", "subaccount", "document", "proposal"}
  BY DEF Opens
<1>2. \A k \in DOMAIN Opens : Opens[k] \subseteq Status
  BY Zenon DEF Status
<1>3. Opens["safe"] = SafeOpens /\ Opens["warrant"] = WarrantOpens
      /\ Opens["submission"] = SubmissionOpens
      /\ Opens["proposal"] = ProposalOpens
  BY DEF Opens
<1>4. {"active", "converted"} \subseteq SafeOpens
  BY DEF SafeOpens
<1>5. {"exercised"} \subseteq WarrantOpens
  BY DEF WarrantOpens
<1>6. {"rejected"} \subseteq SubmissionOpens /\ {"closed"} \subseteq ProposalOpens
  BY DEF SubmissionOpens, ProposalOpens
<1>7. {"absent", "executed", "approved", "pending_transfer", "cancelled"}
        \subseteq Status
  BY DEF Status
<1>8. QED
  BY <1>1, <1>2, <1>3, <1>4, <1>5, <1>6, <1>7

(* A move changes the status of a record and nothing else of it.           *)
LEMMA MoveFacts ==
  ASSUME NEW r \in Record, NEW from, NEW to \in Status,
         NEW n \in Move(from, to, r)
  PROVE  /\ r.status \in from
         /\ n \in Record /\ n.status = to
         /\ n.used = r.used /\ n.legend = r.legend
         /\ n.acknowledged = r.acknowledged
<1>1. r.status \in from /\ n = [r EXCEPT !.status = to]
  BY DEF Move
<1>2. QED
  BY <1>1 DEF Record

Kinds == DOMAIN Opens

(* What Change is for each kind; the operations all kinds but some share.  *)
LEMMA Kinds9 ==
  Kinds = {"safe", "note", "warrant", "action", "submission", "trade",
           "subaccount", "document", "proposal"}
BY DEF Kinds, Opens

LEMMA OperationsOf ==
  /\ kind \in {"safe", "note"} =>
       Operations[kind] = {"mark_converted", "cancel", "update"}
  /\ kind = "warrant" => Operations[kind] = {"exercise", "cancel", "update"}
  /\ kind = "action" => Operations[kind] = {"approve", "execute", "cancel"}
  /\ kind = "submission" => Operations[kind] = {"approve", "reject"}
  /\ kind = "trade" => Operations[kind] = {"approve", "execute"}
  /\ kind = "subaccount" => Operations[kind] = {"close"}
  /\ kind = "document" => Operations[kind] = {"mark_executed"}
  /\ kind = "proposal" => Operations[kind] = {"vote"}
BY DEF Operations

LEMMA ChangeOf ==
  ASSUME NEW op, NEW quantity, NEW r, op # "update"
  PROVE  /\ kind = "safe" =>
              Change(op, quantity, r) = IF op = "cancel" THEN SafeCancel(r)
                                        ELSE SafeMarkConverted(r)
         /\ kind = "note" =>
              Change(op, quantity, r) = IF op = "cancel" THEN NoteCancel(r)
                                        ELSE NoteMarkConverted(r)
         /\ kind = "warrant" =>
              Change(op, quantity, r) = IF op = "cancel" THEN WarrantCancel(r)
                                        ELSE WarrantExercise(r, quantity)
         /\ kind = "action" =>
              /\ op = "approve" => Change(op, quantity, r) = ApproveAction(r)
              /\ op = "execute" => Change(op, quantity, r) = ExecuteAction(r)
              /\ op = "cancel" => Change(op, quantity, r) = CancelAction(r)
         /\ kind = "submission" =>
              Change(op, quantity, r) = IF op = "approve" THEN Approve(r)
                                        ELSE Reject(r)
         /\ kind = "trade" =>
              Change(op, quantity, r) = IF op = "approve" THEN ApproveTrade(r)
                                        ELSE ExecuteTrade(r, lockup)
         /\ kind = "subaccount" =>
              Change(op, quantity, r) = CloseSubAccount(r)
         /\ kind = "document" => Change(op, quantity, r) = MarkExecuted(r)
         /\ kind = "proposal" => Change(op, quantity, r) = CastVote(r)
<1>1. Change(op, quantity, r) = Specific(op, quantity, r)
  BY DEF Change
<1>2. kind = "safe" => Specific(op, quantity, r) =
        IF op = "cancel" THEN SafeCancel(r) ELSE SafeMarkConverted(r)
  BY DEF Specific
<1>3. kind = "note" => Specific(op, quantity, r) =
        IF op = "cancel" THEN NoteCancel(r) ELSE NoteMarkConverted(r)
  BY DEF Specific
<1>4. kind = "warrant" => Specific(op, quantity, r) =
        IF op = "cancel" THEN WarrantCancel(r)
        ELSE WarrantExercise(r, quantity)
  BY DEF Specific
<1>5. kind = "action" => Specific(op, quantity, r) =
        CASE op = "approve" -> ApproveAction(r)
          [] op = "execute" -> ExecuteAction(r)
          [] op = "cancel" -> CancelAction(r)
  BY DEF Specific
<1>6. kind = "submission" => Specific(op, quantity, r) =
        IF op = "approve" THEN Approve(r) ELSE Reject(r)
  BY DEF Specific
<1>7. kind = "trade" => Specific(op, quantity, r) =
        IF op = "approve" THEN ApproveTrade(r) ELSE ExecuteTrade(r, lockup)
  BY DEF Specific
<1>8. /\ kind = "subaccount" => Specific(op, quantity, r) = CloseSubAccount(r)
      /\ kind = "document" => Specific(op, quantity, r) = MarkExecuted(r)
      /\ kind = "proposal" => Specific(op, quantity, r) = CastVote(r)
  BY DEF Specific
<1>9. QED
  BY <1>1, <1>2, <1>3, <1>4, <1>5, <1>6, <1>7, <1>8

(* What the life cycle says of each kind.                                  *)
LEMMA RanksOf ==
  /\ kind \in {"safe", "note", "warrant"} =>
       LC!Ranks = [draft |-> 1, pending |-> 2, active |-> 3, expired |-> 4,
                   converted |-> 5, exercised |-> 5, cancelled |-> 5]
  /\ kind = "action" =>
       LC!Ranks = [proposed |-> 1, approved |-> 2, executed |-> 3,
                   cancelled |-> 3]
  /\ kind = "submission" =>
       LC!Ranks = [pending |-> 1, expired |-> 2, approved |-> 2,
                   rejected |-> 2]
  /\ kind = "trade" =>
       LC!Ranks = [pending_compliance_clearance |-> 1,
                   pending_transfer |-> 2, executed |-> 3]
  /\ kind = "subaccount" =>
       LC!Ranks = [active |-> 1, suspended |-> 1, closed |-> 2]
  /\ kind = "document" =>
       LC!Ranks = [draft |-> 1, final |-> 2, superseded |-> 2, executed |-> 3]
<1>1. kind \in {"safe", "note", "warrant"} => LC!Ranks = LC!Rank["security"]
  BY DEF LC!Ranks, LC!Family
<1>2. kind \in {"action", "submission", "trade", "subaccount", "document"} =>
        LC!Ranks = LC!Rank[kind]
  BY DEF LC!Ranks, LC!Family
<1>3. QED
  BY <1>1, <1>2 DEF LC!Rank

(* From one status of the life cycle to another, or nowhere.               *)
Forward(a, b) ==
  /\ a \in DOMAIN LC!Ranks => b \in DOMAIN LC!Ranks
  /\ a \in DOMAIN LC!Ranks /\ a # b => LC!Ranks[a] < LC!Ranks[b]

LEMMA SecurityForward ==
  ASSUME kind \in {"safe", "note", "warrant"}, NEW a, NEW b,
         \/ a \in {"draft", "pending"} /\ b = "active"
         \/ a \in {"draft", "pending", "active", "expired", "cancelled"}
            /\ b = "cancelled"
         \/ a = "active" /\ b \in {"active", "converted", "exercised"}
  PROVE  Forward(a, b)
<1> DEFINE S == [draft |-> 1, pending |-> 2, active |-> 3, expired |-> 4,
                 converted |-> 5, exercised |-> 5, cancelled |-> 5]
<1>1. LC!Ranks = S
  BY RanksOf
<1>2. /\ DOMAIN S = {"draft", "pending", "active", "expired", "converted",
                     "exercised", "cancelled"}
      /\ S["draft"] = 1 /\ S["pending"] = 2 /\ S["active"] = 3
      /\ S["expired"] = 4 /\ S["converted"] = 5 /\ S["exercised"] = 5
      /\ S["cancelled"] = 5
  OBVIOUS
<1> HIDE DEF S
<1>3. /\ b \in DOMAIN S
      /\ a # b => S[a] < S[b]
  BY <1>2
<1>4. QED
  BY <1>1, <1>3 DEF Forward

(* What any other kind may do, its ranks read off the life cycle.          *)
LEMMA OtherForward ==
  /\ kind = "action" =>
       /\ Forward("proposed", "approved")
       /\ Forward("approved", "executed")
       /\ \A a : a # "executed" => Forward(a, "cancelled")
  /\ kind = "submission" =>
       Forward("pending", "approved") /\ Forward("pending", "rejected")
  /\ kind = "trade" =>
       /\ Forward("pending_compliance_clearance", "pending_transfer")
       /\ Forward("pending_transfer", "executed")
  /\ kind = "subaccount" => \A a : a # "closed" => Forward(a, "closed")
  /\ kind = "document" => \A a : Forward(a, "executed")
<1>1. ASSUME kind = "action"
      PROVE  /\ Forward("proposed", "approved")
             /\ Forward("approved", "executed")
             /\ \A a : a # "executed" => Forward(a, "cancelled")
  <2> DEFINE A == [proposed |-> 1, approved |-> 2, executed |-> 3,
                   cancelled |-> 3]
  <2>1. LC!Ranks = A
    BY <1>1, RanksOf
  <2>2. /\ DOMAIN A = {"proposed", "approved", "executed", "cancelled"}
        /\ A["proposed"] = 1 /\ A["approved"] = 2 /\ A["executed"] = 3
        /\ A["cancelled"] = 3
    OBVIOUS
  <2> HIDE DEF A
  <2>3. QED
    BY <2>1, <2>2 DEF Forward
<1>2. ASSUME kind = "submission"
      PROVE  Forward("pending", "approved") /\ Forward("pending", "rejected")
  <2> DEFINE A == [pending |-> 1, expired |-> 2, approved |-> 2,
                   rejected |-> 2]
  <2>1. LC!Ranks = A
    BY <1>2, RanksOf
  <2>2. /\ DOMAIN A = {"pending", "expired", "approved", "rejected"}
        /\ A["pending"] = 1 /\ A["approved"] = 2 /\ A["rejected"] = 2
    OBVIOUS
  <2> HIDE DEF A
  <2>3. QED
    BY <2>1, <2>2 DEF Forward
<1>3. ASSUME kind = "trade"
      PROVE  /\ Forward("pending_compliance_clearance", "pending_transfer")
             /\ Forward("pending_transfer", "executed")
  <2> DEFINE A == [pending_compliance_clearance |-> 1,
                   pending_transfer |-> 2, executed |-> 3]
  <2>1. LC!Ranks = A
    BY <1>3, RanksOf
  <2>2. /\ DOMAIN A = {"pending_compliance_clearance", "pending_transfer",
                       "executed"}
        /\ A["pending_compliance_clearance"] = 1
        /\ A["pending_transfer"] = 2 /\ A["executed"] = 3
    OBVIOUS
  <2> HIDE DEF A
  <2>3. QED
    BY <2>1, <2>2 DEF Forward
<1>4. ASSUME kind = "subaccount"
      PROVE  \A a : a # "closed" => Forward(a, "closed")
  <2> DEFINE A == [active |-> 1, suspended |-> 1, closed |-> 2]
  <2>1. LC!Ranks = A
    BY <1>4, RanksOf
  <2>2. /\ DOMAIN A = {"active", "suspended", "closed"}
        /\ A["active"] = 1 /\ A["suspended"] = 1 /\ A["closed"] = 2
    OBVIOUS
  <2> HIDE DEF A
  <2>3. QED
    BY <2>1, <2>2 DEF Forward
<1>5. ASSUME kind = "document"
      PROVE  \A a : Forward(a, "executed")
  <2> DEFINE A == [draft |-> 1, final |-> 2, superseded |-> 2,
                   executed |-> 3]
  <2>1. LC!Ranks = A
    BY <1>5, RanksOf
  <2>2. /\ DOMAIN A = {"draft", "final", "superseded", "executed"}
        /\ A["draft"] = 1 /\ A["final"] = 2 /\ A["superseded"] = 2
        /\ A["executed"] = 3
    OBVIOUS
  <2> HIDE DEF A
  <2>3. QED
    BY <2>1, <2>2 DEF Forward
<1>6. QED
  BY <1>1, <1>2, <1>3, <1>4, <1>5

(***************************************************************************)
(* What an operation can make of the record it reads.                      *)
(***************************************************************************)

Moved(r, n) ==
  n \in Record /\ n.legend = r.legend /\ n.acknowledged = r.acknowledged

LEMMA UpdateMoves ==
  ASSUME kind \in {"safe", "note", "warrant"},
         NEW r \in Record, NEW n \in Update(r)
  PROVE  /\ Moved(r, n) /\ n.used = r.used
         /\ host = "serial" => Forward(r.status, n.status)
<1>1. CASE host = "serial"
  <2>1. "active" \in Status
    BY Statuses
  <2>2. n \in Move({"draft", "pending"}, "active", r)
    BY <1>1 DEF Update
  <2>3. Moved(r, n) /\ r.status \in {"draft", "pending"}
        /\ n.status = "active" /\ n.used = r.used
    BY <2>1, <2>2, MoveFacts DEF Moved
  <2>4. Forward(r.status, n.status)
    BY <2>3, SecurityForward
  <2>5. QED
    BY <2>3, <2>4
<1>2. CASE host # "serial"
  <2>1. PICK s \in Opens[kind] : n = [r EXCEPT !.status = s]
    BY <1>2 DEF Update
  <2>2. kind \in DOMAIN Opens
    BY Kinds9 DEF Kinds
  <2>3. s \in Status
    BY <2>2, Statuses
  <2>4. Moved(r, n) /\ n.used = r.used
    BY <2>1, <2>3 DEF Moved, Record
  <2>5. QED
    BY <1>2, <2>4
<1>3. QED
  BY <1>1, <1>2

LEMMA SafeMoves ==
  ASSUME kind = "safe", NEW op \in Operations[kind], NEW quantity,
         NEW r \in Record, NEW n \in Change(op, quantity, r)
  PROVE  /\ Moved(r, n) /\ n.used = r.used
         /\ host = "serial" => Forward(r.status, n.status)
<1>1. CASE op = "update"
  BY <1>1, UpdateMoves DEF Change
<1>2. CASE op = "cancel"
  <2>1. n \in Move(SafeOpens \ {"converted"}, "cancelled", r)
    BY <1>2, ChangeOf DEF SafeCancel
  <2>2. "cancelled" \in Status
    BY Statuses
  <2>3. Moved(r, n) /\ n.used = r.used
        /\ r.status \in SafeOpens \ {"converted"} /\ n.status = "cancelled"
    BY <2>1, <2>2, MoveFacts DEF Moved
  <2>4. QED
    BY <2>3, SecurityForward DEF SafeOpens
<1>3. CASE op = "mark_converted"
  <2>1. n \in Move({"active"}, "converted", r)
    BY <1>3, ChangeOf DEF SafeMarkConverted
  <2>2. "converted" \in Status
    BY Statuses
  <2>3. Moved(r, n) /\ n.used = r.used
        /\ r.status \in {"active"} /\ n.status = "converted"
    BY <2>1, <2>2, MoveFacts DEF Moved
  <2>4. QED
    BY <2>3, SecurityForward
<1>4. QED
  BY <1>1, <1>2, <1>3, OperationsOf

LEMMA NoteMoves ==
  ASSUME kind = "note", NEW op \in Operations[kind], NEW quantity,
         NEW r \in Record, NEW n \in Change(op, quantity, r)
  PROVE  /\ Moved(r, n) /\ n.used = r.used
         /\ host = "serial" => Forward(r.status, n.status)
<1>1. CASE op = "update"
  BY <1>1, UpdateMoves DEF Change
<1>2. CASE op = "cancel"
  <2>1. n \in Move(NoteOpens \ {"converted"}, "cancelled", r)
    BY <1>2, ChangeOf DEF NoteCancel
  <2>2. "cancelled" \in Status
    BY Statuses
  <2>3. Moved(r, n) /\ n.used = r.used
        /\ r.status \in NoteOpens \ {"converted"} /\ n.status = "cancelled"
    BY <2>1, <2>2, MoveFacts DEF Moved
  <2>4. QED
    BY <2>3, SecurityForward DEF SafeOpens, NoteOpens
<1>3. CASE op = "mark_converted"
  <2>1. n \in Move({"active"}, "converted", r)
    BY <1>3, ChangeOf DEF NoteMarkConverted
  <2>2. "converted" \in Status
    BY Statuses
  <2>3. Moved(r, n) /\ n.used = r.used
        /\ r.status \in {"active"} /\ n.status = "converted"
    BY <2>1, <2>2, MoveFacts DEF Moved
  <2>4. QED
    BY <2>3, SecurityForward
<1>4. QED
  BY <1>1, <1>2, <1>3, OperationsOf

LEMMA WarrantMoves ==
  ASSUME kind = "warrant", NEW op \in Operations[kind], NEW quantity \in Nat,
         NEW r \in Record, NEW n \in Change(op, quantity, r)
  PROVE  /\ Moved(r, n)
         /\ host = "serial" => Forward(r.status, n.status)
         /\ op # "exercise" => n.used = r.used
         /\ op = "exercise" =>
              n.used = r.used + quantity /\ n.used <= Quantity
<1>1. CASE op = "update"
  BY <1>1, UpdateMoves DEF Change
<1>2. CASE op = "cancel"
  <2>1. n \in Move(WarrantOpens \ {"exercised"}, "cancelled", r)
    BY <1>2, ChangeOf DEF WarrantCancel
  <2>2. "cancelled" \in Status
    BY Statuses
  <2>3. Moved(r, n) /\ n.used = r.used
        /\ r.status \in WarrantOpens \ {"exercised"} /\ n.status = "cancelled"
    BY <2>1, <2>2, MoveFacts DEF Moved
  <2>4. QED
    BY <2>3, SecurityForward, <1>2 DEF WarrantOpens
<1>3. CASE op = "exercise"
  <2>1. n \in WarrantExercise(r, quantity)
    BY <1>3, ChangeOf
  <2>2. /\ r.status = "active" /\ quantity <= Quantity - r.used
        /\ n = [r EXCEPT !.used = r.used + quantity,
                         !.status = IF r.used + quantity = Quantity
                                    THEN "exercised" ELSE r.status]
    BY <2>1 DEF WarrantExercise
  <2>3. "exercised" \in Status
    BY Statuses
  <2> DEFINE s == IF r.used + quantity = Quantity THEN "exercised"
                  ELSE r.status
             u == r.used + quantity
  <2>4. s \in Status /\ s \in {"active", "exercised"} /\ u \in Nat
    BY <2>2, <2>3 DEF Record
  <2>5. n = [r EXCEPT !.used = u, !.status = s]
    BY <2>2, Zenon
  <2> HIDE DEF s, u
  <2>6. Moved(r, n) /\ n.used = u /\ n.status = s
    BY <2>4, <2>5 DEF Moved, Record
  <2>7. Moved(r, n) /\ n.used = r.used + quantity
        /\ n.status \in {"active", "exercised"}
    BY <2>4, <2>6 DEF u
  <2>8. n.used <= Quantity
    BY <2>2, <2>7, InstrumentsAssumption DEF Record
  <2>9. Forward(r.status, n.status)
    BY <2>2, <2>7, SecurityForward
  <2>10. QED
    BY <1>3, <2>7, <2>8, <2>9
<1>4. QED
  BY <1>1, <1>2, <1>3, OperationsOf

LEMMA ActionMoves ==
  ASSUME kind = "action", NEW op \in Operations[kind], NEW quantity,
         NEW r \in Record, NEW n \in Change(op, quantity, r)
  PROVE  /\ Moved(r, n) /\ n.used = r.used
         /\ host = "serial" => Forward(r.status, n.status)
<1>1. CASE op = "approve"
  <2>1. n \in Move({"proposed"}, "approved", r)
    BY <1>1, ChangeOf DEF ApproveAction
  <2>2. "approved" \in Status
    BY Statuses
  <2>3. Moved(r, n) /\ n.used = r.used
        /\ r.status \in {"proposed"} /\ n.status = "approved"
    BY <2>1, <2>2, MoveFacts DEF Moved
  <2>4. QED
    BY <2>3, OtherForward
<1>2. CASE op = "execute"
  <2>1. n \in Move({"approved"}, "executed", r)
    BY <1>2, ChangeOf DEF ExecuteAction
  <2>2. "executed" \in Status
    BY Statuses
  <2>3. Moved(r, n) /\ n.used = r.used
        /\ r.status \in {"approved"} /\ n.status = "executed"
    BY <2>1, <2>2, MoveFacts DEF Moved
  <2>4. QED
    BY <2>3, OtherForward
<1>3. CASE op = "cancel"
  <2>1. n \in Move(Status \ {"executed"}, "cancelled", r)
    BY <1>3, ChangeOf DEF CancelAction
  <2>2. "cancelled" \in Status
    BY Statuses
  <2>3. Moved(r, n) /\ n.used = r.used
        /\ r.status \in Status \ {"executed"} /\ n.status = "cancelled"
    BY <2>1, <2>2, MoveFacts DEF Moved
  <2>4. QED
    BY <2>3, OtherForward
<1>4. QED
  BY <1>1, <1>2, <1>3, OperationsOf

LEMMA SubmissionMoves ==
  ASSUME kind = "submission", NEW op \in Operations[kind], NEW quantity,
         NEW r \in Record, NEW n \in Change(op, quantity, r)
  PROVE  /\ Moved(r, n) /\ n.used = r.used
         /\ host = "serial" => Forward(r.status, n.status)
<1>1. CASE op = "approve"
  <2>1. n \in Move({"pending"}, "approved", r)
    BY <1>1, ChangeOf DEF Approve
  <2>2. "approved" \in Status
    BY Statuses
  <2>3. Moved(r, n) /\ n.used = r.used
        /\ r.status \in {"pending"} /\ n.status = "approved"
    BY <2>1, <2>2, MoveFacts DEF Moved
  <2>4. QED
    BY <2>3, OtherForward
<1>2. CASE op = "reject"
  <2>1. n \in Move({"pending"}, "rejected", r)
    BY <1>2, ChangeOf DEF Reject
  <2>2. "rejected" \in Status
    BY Statuses
  <2>3. Moved(r, n) /\ n.used = r.used
        /\ r.status \in {"pending"} /\ n.status = "rejected"
    BY <2>1, <2>2, MoveFacts DEF Moved
  <2>4. QED
    BY <2>3, OtherForward
<1>3. QED
  BY <1>1, <1>2, OperationsOf

LEMMA TradeMoves ==
  ASSUME kind = "trade", NEW op \in Operations[kind], NEW quantity,
         NEW r \in Record, NEW n \in Change(op, quantity, r)
  PROVE  /\ Moved(r, n) /\ n.used = r.used
         /\ host = "serial" => Forward(r.status, n.status)
         /\ op = "approve" => n.status = "pending_transfer"
                               /\ r.status # "executed"
         /\ op = "execute" =>
              /\ r.status = "pending_transfer" /\ n.status = "executed"
              /\ ~lockup /\ (r.legend => r.acknowledged)
<1>1. CASE op = "approve"
  <2>1. n \in Move({"pending_compliance_clearance"}, "pending_transfer", r)
    BY <1>1, ChangeOf DEF ApproveTrade
  <2>2. "pending_transfer" \in Status
    BY Statuses
  <2>3. Moved(r, n) /\ n.used = r.used
        /\ r.status \in {"pending_compliance_clearance"} /\ n.status = "pending_transfer"
    BY <2>1, <2>2, MoveFacts DEF Moved
  <2>4. QED
    BY <2>3, <1>1, OtherForward
<1>2. CASE op = "execute"
  <2>1. n \in ExecuteTrade(r, lockup)
    BY <1>2, ChangeOf
  <2>2. ValidateRestrictions(r, lockup)
        /\ n \in Move({"pending_transfer"}, "executed", r)
    BY <2>1 DEF ExecuteTrade
  <2>3. "executed" \in Status
    BY Statuses
  <2>4. Moved(r, n) /\ n.used = r.used
        /\ r.status \in {"pending_transfer"} /\ n.status = "executed"
    BY <2>2, <2>3, MoveFacts DEF Moved
  <2>5. ~lockup /\ (r.legend => r.acknowledged)
    BY <2>2 DEF ValidateRestrictions
  <2>6. QED
    BY <1>2, <2>4, <2>5, OtherForward
<1>3. QED
  BY <1>1, <1>2, OperationsOf

LEMMA SubAccountMoves ==
  ASSUME kind = "subaccount", NEW op \in Operations[kind], NEW quantity,
         NEW r \in Record, NEW n \in Change(op, quantity, r)
  PROVE  /\ Moved(r, n) /\ n.used = r.used
         /\ host = "serial" => Forward(r.status, n.status)
<1>1. CASE op = "close"
  <2>1. n \in Move(SubAccountOpens \ {"closed"}, "closed", r)
    BY <1>1, ChangeOf DEF CloseSubAccount
  <2>2. "closed" \in Status
    BY Statuses
  <2>3. Moved(r, n) /\ n.used = r.used
        /\ r.status \in SubAccountOpens \ {"closed"} /\ n.status = "closed"
    BY <2>1, <2>2, MoveFacts DEF Moved
  <2>4. QED
    BY <2>3, OtherForward
<1>2. QED
  BY <1>1, OperationsOf

LEMMA DocumentMoves ==
  ASSUME kind = "document", NEW op \in Operations[kind], NEW quantity,
         NEW r \in Record, NEW n \in Change(op, quantity, r)
  PROVE  /\ Moved(r, n) /\ n.used = r.used
         /\ host = "serial" => Forward(r.status, n.status)
<1>1. CASE op = "mark_executed"
  <2>1. n \in Move(Status, "executed", r)
    BY <1>1, ChangeOf DEF MarkExecuted
  <2>2. "executed" \in Status
    BY Statuses
  <2>3. Moved(r, n) /\ n.used = r.used
        /\ r.status \in Status /\ n.status = "executed"
    BY <2>1, <2>2, MoveFacts DEF Moved
  <2>4. QED
    BY <2>3, OtherForward
<1>2. QED
  BY <1>1, OperationsOf

LEMMA ProposalMoves ==
  ASSUME kind = "proposal", NEW op \in Operations[kind], NEW quantity,
         NEW r \in Record, NEW n \in Change(op, quantity, r)
  PROVE  n = r /\ r.status = "open"
<1>1. op = "vote"
  BY OperationsOf
<1>2. n \in CastVote(r)
  BY <1>1, ChangeOf
<1>3. QED
  BY <1>2 DEF CastVote

(* Together: what a call holds to write, whatever the instrument.          *)
LEMMA ChangeFacts ==
  ASSUME kind \in Kinds, NEW op \in Operations[kind], NEW quantity \in Nat,
         NEW r \in Record, NEW n \in Change(op, quantity, r)
  PROVE  /\ Moved(r, n)
         /\ host = "serial" /\ kind # "proposal" =>
              Forward(r.status, n.status)
         /\ op # "exercise" => n.used = r.used
         /\ kind = "warrant" /\ op = "exercise" =>
              n.used = r.used + quantity /\ n.used <= Quantity
         /\ kind = "trade" /\ op = "approve" =>
              n.status = "pending_transfer" /\ r.status # "executed"
         /\ kind = "trade" /\ op = "execute" =>
              /\ r.status = "pending_transfer" /\ n.status = "executed"
              /\ ~lockup /\ (r.legend => r.acknowledged)
         /\ kind = "proposal" => r.status = "open"
<1>1. CASE kind = "proposal"
  BY <1>1, ProposalMoves DEF Moved
<1>2. CASE kind = "warrant"
  BY <1>2, WarrantMoves
<1>3. CASE kind = "trade"
  BY <1>3, TradeMoves, OperationsOf
<1>4. CASE kind \in {"safe", "note"}
  BY <1>4, SafeMoves, NoteMoves, OperationsOf
<1>5. CASE kind \in {"action", "submission", "subaccount", "document"}
  BY <1>5, ActionMoves, SubmissionMoves, SubAccountMoves, DocumentMoves
<1>6. QED
  BY <1>1, <1>2, <1>3, <1>4, <1>5, Kinds9

(***************************************************************************)
(* The invariant.  Of any host: what a call holds to write differs from    *)
(* the record in status and used alone, and is as sound as the record.     *)
(***************************************************************************)

Writing(c) == request[c].step = "write"

Cleared(r) == r.status = "executed" => ~lockup /\ (r.legend => r.acknowledged)

Sound(r) ==
  /\ kind = "warrant" => r.used <= Quantity
  /\ kind = "trade" => Cleared(r)

CallsSound ==
  \A c \in Calls : Writing(c) =>
    /\ request[c].op \in Operations[kind]
    /\ request[c].copy.legend = record.legend
    /\ request[c].copy.acknowledged = record.acknowledged
    /\ Sound(request[c].copy)

AnyHost == InstrumentsTyped /\ CallsSound /\ Sound(record)

(* Of a host that makes one call at a time: the call that writes still     *)
(* finds the record it read, one step behind on the life cycle.            *)
Alone == \A c, d \in Calls : Writing(c) /\ Writing(d) => c = d

Behind(c) ==
  /\ record.status # "absent"
  /\ kind # "proposal" => Forward(record.status, request[c].copy.status)
  /\ kind = "warrant" =>
       request[c].copy.used =
         record.used + (IF request[c].op = "exercise"
                        THEN request[c].quantity ELSE 0)
  /\ kind = "trade" =>
       /\ record.status # "executed"
       /\ request[c].copy.status = "executed" <=> request[c].op = "execute"
  /\ kind = "proposal" => record.status = "open"

Counted ==
  /\ kind = "warrant" => given = record.used
  /\ kind = "trade" => given = (IF record.status = "executed" THEN 1 ELSE 0)

Placed ==
  kind # "proposal" => record.status \in {"absent"} \cup DOMAIN LC!Ranks

OneAtATime ==
  host = "serial" =>
    /\ Alone
    /\ \A c \in Calls : Writing(c) => Behind(c)
    /\ Counted /\ Placed

Requests ==
  [step : {"idle", "write", "done"},
   op : {"none"} \cup UNION {Operations[k] : k \in DOMAIN Operations},
   quantity : Exercised \cup {0}, copy : Record]

(* The operations of a kind are among those a call can have.               *)
LEMMA OperationsTyped ==
  ASSUME kind \in DOMAIN Opens, NEW op \in Operations[kind]
  PROVE  op \in {"none"} \cup UNION {Operations[k] : k \in DOMAIN Operations}
<1>1. DOMAIN Opens = DOMAIN Operations
  BY DEF Opens, Operations
<1>2. kind \in DOMAIN Operations
  BY <1>1
<1>3. QED
  BY <1>2, Zenon

(* An instrument is created with a status of its life cycle.               *)
LEMMA OpensPlaced ==
  ASSUME kind \in DOMAIN Opens, NEW s \in Opens[kind]
  PROVE  /\ s \in Status /\ s # "absent"
         /\ kind # "proposal" => s \in DOMAIN LC!Ranks
         /\ kind = "trade" => s # "executed"
<1>1. s \in Status
  BY Statuses
<1>2. CASE kind \in {"safe", "note", "warrant"}
  <2>1. Opens[kind] \subseteq {"draft", "active", "pending", "converted",
                               "expired", "cancelled", "exercised"}
    BY <1>2 DEF Opens, SafeOpens, NoteOpens, WarrantOpens
  <2>2. DOMAIN LC!Ranks = {"draft", "pending", "active", "expired",
                           "converted", "exercised", "cancelled"}
    BY <1>2, RanksOf
  <2>3. QED
    BY <1>1, <1>2, <2>1, <2>2
<1>3. CASE kind = "action"
  <2>1. Opens[kind] = {"proposed"}
    BY <1>3 DEF Opens, ActionOpens
  <2>2. DOMAIN LC!Ranks = {"proposed", "approved", "executed", "cancelled"}
    BY <1>3, RanksOf
  <2>3. QED
    BY <1>1, <1>3, <2>1, <2>2
<1>4. CASE kind = "submission"
  <2>1. Opens[kind] = {"pending", "approved", "rejected", "expired"}
    BY <1>4 DEF Opens, SubmissionOpens
  <2>2. DOMAIN LC!Ranks = {"pending", "expired", "approved", "rejected"}
    BY <1>4, RanksOf
  <2>3. QED
    BY <1>1, <1>4, <2>1, <2>2
<1>5. CASE kind = "trade"
  <2>1. Opens[kind] = {"pending_compliance_clearance"}
    BY <1>5 DEF Opens, TradeOpens
  <2>2. DOMAIN LC!Ranks = {"pending_compliance_clearance",
                           "pending_transfer", "executed"}
    BY <1>5, RanksOf
  <2>3. QED
    BY <1>1, <1>5, <2>1, <2>2
<1>6. CASE kind = "subaccount"
  <2>1. Opens[kind] = {"active", "suspended", "closed"}
    BY <1>6 DEF Opens, SubAccountOpens
  <2>2. DOMAIN LC!Ranks = {"active", "suspended", "closed"}
    BY <1>6, RanksOf
  <2>3. QED
    BY <1>1, <1>6, <2>1, <2>2
<1>7. CASE kind = "document"
  <2>1. Opens[kind] = {"draft", "final", "executed", "superseded"}
    BY <1>7 DEF Opens, DocumentOpens
  <2>2. DOMAIN LC!Ranks = {"draft", "final", "superseded", "executed"}
    BY <1>7, RanksOf
  <2>3. QED
    BY <1>1, <1>7, <2>1, <2>2
<1>8. CASE kind = "proposal"
  <2>1. Opens[kind] = {"draft", "open", "closed", "certified"}
    BY <1>8 DEF Opens, ProposalOpens
  <2>2. QED
    BY <1>1, <1>8, <2>1
<1>9. QED
  BY <1>2, <1>3, <1>4, <1>5, <1>6, <1>7, <1>8, Kinds9 DEF Kinds

(* The first state: no call under way, the record not yet created.         *)
LEMMA Starts ==
  ASSUME host \in Host, InitInstruments
  PROVE  AnyHost /\ OneAtATime
<1>1. /\ kind \in DOMAIN Opens /\ lockup \in BOOLEAN /\ given = 0
      /\ record \in Record /\ record.status = "absent" /\ record.used = 0
  BY Statuses DEF InitInstruments, Record
<1>2. request = [c \in Calls |-> [step |-> "idle", op |-> "none",
                                  quantity |-> 0, copy |-> record]]
  BY DEF InitInstruments
<1>3. [step |-> "idle", op |-> "none", quantity |-> 0, copy |-> record]
        \in Requests
  BY <1>1 DEF Requests
<1>4. request \in [Calls -> Requests] /\ \A c \in Calls : ~Writing(c)
  BY <1>2, <1>3 DEF Writing
<1>5. InstrumentsTyped
  BY <1>1, <1>4 DEF InstrumentsTyped, Requests
<1>6. Sound(record)
  BY <1>1, InstrumentsAssumption DEF Sound, Cleared
<1>7. AnyHost
  BY <1>4, <1>5, <1>6 DEF AnyHost, CallsSound
<1>8. Counted /\ Placed
  BY <1>1 DEF Counted, Placed
<1>9. QED
  BY <1>4, <1>7, <1>8 DEF OneAtATime, Alone

(* What a call is after it has read: one that will write holds what its    *)
(* operation makes of the record.                                          *)
LEMMA ReadFacts ==
  ASSUME AnyHost, NEW c \in Calls, ReadInstrument(c)
  PROVE  /\ UNCHANGED <<host, kind, record, lockup, given>>
         /\ host = "serial" => \A d \in Calls : ~Writing(d)
         /\ record.status # "absent"
         /\ \E q \in Requests :
              /\ request' = [request EXCEPT ![c] = q]
              /\ q.step = "write" =>
                   /\ q.op \in Operations[kind] /\ q.quantity \in Nat
                   /\ q.copy \in Change(q.op, q.quantity, record)
<1>1. /\ UNCHANGED <<host, kind, record, lockup, given>>
      /\ host = "serial" => \A d \in Calls : ~Writing(d)
      /\ record.status # "absent"
  BY DEF ReadInstrument, Writing
<1>2. PICK op \in Operations[kind] : \E quantity \in Quantities(op) :
        \/ \E new \in Change(op, quantity, record) :
             request' = [request EXCEPT ![c] =
                           [step |-> "write", op |-> op,
                            quantity |-> quantity, copy |-> new]]
        \/ request' = [request EXCEPT ![c].step = "done", ![c].op = op]
  BY Zenon DEF ReadInstrument
<1>3. PICK quantity \in Quantities(op) :
        \/ \E new \in Change(op, quantity, record) :
             request' = [request EXCEPT ![c] =
                           [step |-> "write", op |-> op,
                            quantity |-> quantity, copy |-> new]]
        \/ request' = [request EXCEPT ![c].step = "done", ![c].op = op]
  BY <1>2
<1>4. /\ kind \in DOMAIN Opens /\ kind \in Kinds /\ record \in Record
      /\ request \in [Calls -> Requests]
  BY DEF AnyHost, InstrumentsTyped, Requests, Kinds
<1>5. op \in {"none"} \cup UNION {Operations[k] : k \in DOMAIN Operations}
  BY <1>4, OperationsTyped
<1>6. quantity \in Exercised \cup {0} /\ quantity \in Nat
  BY InstrumentsAssumption DEF Quantities
<1>7. CASE \E new \in Change(op, quantity, record) :
             request' = [request EXCEPT ![c] =
                           [step |-> "write", op |-> op,
                            quantity |-> quantity, copy |-> new]]
  <2>1. PICK new \in Change(op, quantity, record) :
             request' = [request EXCEPT ![c] =
                           [step |-> "write", op |-> op,
                            quantity |-> quantity, copy |-> new]]
    BY <1>7
  <2>2. new \in Record
    BY <1>4, <1>6, ChangeFacts DEF Moved
  <2> DEFINE q == [step |-> "write", op |-> op, quantity |-> quantity,
                   copy |-> new]
  <2>3. /\ q \in Requests /\ q.op = op /\ q.quantity = quantity
        /\ q.copy = new
    BY <1>5, <1>6, <2>2 DEF Requests
  <2>4. request' = [request EXCEPT ![c] = q]
    BY <2>1
  <2> HIDE DEF q
  <2>5. QED
    BY <1>1, <1>6, <2>1, <2>3, <2>4
<1>8. CASE request' = [request EXCEPT ![c].step = "done", ![c].op = op]
  <2> DEFINE q == [request[c] EXCEPT !.step = "done", !.op = op]
  <2>1. request[c] \in Requests
    BY <1>4
  <2>2. q \in Requests /\ q.step = "done"
    BY <1>5, <2>1 DEF Requests
  <2>3. request' = [request EXCEPT ![c] = q]
    BY <1>4, <1>8
  <2> HIDE DEF q
  <2>4. QED
    BY <1>1, <2>2, <2>3
<1>9. QED
  BY <1>3, <1>7, <1>8

LEMMA InstrumentReadKeeps ==
  ASSUME AnyHost, NEW c \in Calls, ReadInstrument(c)
  PROVE  AnyHost' /\ (OneAtATime => OneAtATime')
<1>1. /\ UNCHANGED <<host, kind, record, lockup, given>>
      /\ host = "serial" => \A d \in Calls : ~Writing(d)
      /\ record.status # "absent"
  BY ReadFacts
<1>2. PICK q \in Requests :
        /\ request' = [request EXCEPT ![c] = q]
        /\ q.step = "write" =>
             /\ q.op \in Operations[kind] /\ q.quantity \in Nat
             /\ q.copy \in Change(q.op, q.quantity, record)
  BY ReadFacts
<1>3. /\ kind \in Kinds /\ record \in Record
      /\ request \in [Calls -> Requests]
  BY DEF AnyHost, InstrumentsTyped, Requests, Kinds
<1>4. /\ request'[c] = q
      /\ \A d \in Calls : d # c => request'[d] = request[d]
      /\ request' \in [Calls -> Requests]
  BY <1>2, <1>3
<1>5. InstrumentsTyped'
  BY <1>1, <1>4 DEF AnyHost, InstrumentsTyped, Requests
<1>6. Sound(record)'
  BY <1>1 DEF AnyHost, Sound, Cleared
<1>7. q.step = "write" =>
        /\ Moved(record, q.copy)
        /\ host = "serial" /\ kind # "proposal" =>
             Forward(record.status, q.copy.status)
        /\ q.op # "exercise" => q.copy.used = record.used
        /\ kind = "warrant" /\ q.op = "exercise" =>
             q.copy.used = record.used + q.quantity /\ q.copy.used <= Quantity
        /\ kind = "trade" /\ q.op = "approve" =>
             q.copy.status = "pending_transfer" /\ record.status # "executed"
        /\ kind = "trade" /\ q.op = "execute" =>
             /\ record.status = "pending_transfer"
             /\ q.copy.status = "executed"
             /\ ~lockup /\ (record.legend => record.acknowledged)
        /\ kind = "proposal" => record.status = "open"
  BY <1>2, <1>3, ChangeFacts
<1>8. kind = "trade" => Operations[kind] = {"approve", "execute"}
  BY OperationsOf
<1>9. q.step = "write" =>
        /\ q.copy.legend = record.legend
        /\ q.copy.acknowledged = record.acknowledged
        /\ Sound(q.copy)
  BY <1>2, <1>7, <1>8 DEF Moved, Sound, Cleared, AnyHost
<1>10. CallsSound'
  <2> SUFFICES ASSUME NEW d \in Calls, Writing(d)'
               PROVE  /\ request'[d].op \in Operations[kind']
                      /\ request'[d].copy.legend = record'.legend
                      /\ request'[d].copy.acknowledged = record'.acknowledged
                      /\ Sound(request[d].copy)'
    BY DEF CallsSound
  <2>1. CASE d = c
    BY <1>1, <1>2, <1>4, <1>9, <2>1 DEF Writing, Sound, Cleared
  <2>2. CASE d # c
    BY <1>1, <1>4, <2>2 DEF AnyHost, CallsSound, Writing, Sound, Cleared
  <2>3. QED
    BY <2>1, <2>2
<1>11. AnyHost'
  BY <1>5, <1>6, <1>10 DEF AnyHost
<1>12. ASSUME OneAtATime, host = "serial"
       PROVE  Alone' /\ (\A d \in Calls : Writing(d)' => Behind(d)')
              /\ Counted' /\ Placed'
  <2>1. \A d \in Calls : Writing(d)' => d = c /\ q.step = "write"
    BY <1>1, <1>4, <1>12 DEF Writing
  <2>2. Alone'
    BY <2>1 DEF Alone
  <2>3. LC!Ranks' = LC!Ranks
    BY <1>1 DEF LC!Ranks
  <2>4. ASSUME NEW d \in Calls, Writing(d)'
        PROVE  Behind(d)'
    <3>1. d = c /\ q.step = "write" /\ request'[d] = q
      BY <1>4, <2>1, <2>4
    <3>2. /\ record'.status # "absent"
          /\ kind' = "proposal" => record'.status = "open"
          /\ kind' = "warrant" =>
               q.copy.used =
                 record'.used + (IF q.op = "exercise" THEN q.quantity ELSE 0)
      BY <1>1, <1>3, <1>7, <3>1 DEF Record
    <3>3. kind' = "trade" =>
             /\ record'.status # "executed"
             /\ q.copy.status = "executed" <=> q.op = "execute"
      BY <1>1, <1>2, <1>7, <1>8, <3>1
    <3>4. kind' # "proposal" => Forward(record.status, q.copy.status)
      BY <1>1, <1>7, <1>12, <3>1
    <3>5. kind' # "proposal" =>
            Forward(record.status, request[d].copy.status)'
      BY <1>1, <2>3, <3>1, <3>4 DEF Forward
    <3>6. QED
      BY <3>1, <3>2, <3>3, <3>5 DEF Behind
  <2>5. Counted' /\ Placed'
    BY <1>1, <1>12, <2>3 DEF OneAtATime, Counted, Placed
  <2>6. QED
    BY <2>2, <2>4, <2>5
<1>13. QED
  BY <1>1, <1>11, <1>12 DEF OneAtATime

LEMMA CreateKeeps ==
  ASSUME AnyHost, CreateInstrument
  PROVE  AnyHost' /\ (OneAtATime => OneAtATime')
<1>1. /\ record.status = "absent"
      /\ UNCHANGED <<host, kind, lockup, request, given>>
  BY DEF CreateInstrument
<1>2. PICK s \in Opens[kind] : record' = [record EXCEPT !.status = s]
  BY DEF CreateInstrument
<1>3. /\ kind \in DOMAIN Opens /\ record \in Record
      /\ request \in [Calls -> Requests]
  BY DEF AnyHost, InstrumentsTyped, Requests
<1>4. /\ s \in Status /\ s # "absent"
      /\ kind # "proposal" => s \in DOMAIN LC!Ranks
      /\ kind = "trade" => s # "executed"
  BY <1>3, OpensPlaced
<1>5. /\ record' \in Record /\ record'.status = s
      /\ record'.used = record.used /\ record'.legend = record.legend
      /\ record'.acknowledged = record.acknowledged
  BY <1>2, <1>3, <1>4 DEF Record
<1>6. InstrumentsTyped'
  BY <1>1, <1>5 DEF AnyHost, InstrumentsTyped
<1>7. Sound(record)'
  BY <1>1, <1>4, <1>5 DEF AnyHost, Sound, Cleared
<1>8. CallsSound'
  BY <1>1, <1>5 DEF AnyHost, CallsSound, Writing, Sound, Cleared
<1>9. ASSUME OneAtATime, host = "serial"
      PROVE  OneAtATime'
  <2>1. \A d \in Calls : ~Writing(d)
    BY <1>1, <1>9 DEF OneAtATime, Behind
  <2>2. \A d \in Calls : ~Writing(d)'
    BY <1>1, <2>1 DEF Writing
  <2>3. LC!Ranks' = LC!Ranks
    BY <1>1 DEF LC!Ranks
  <2>4. Placed'
    BY <1>1, <1>4, <1>5, <2>3 DEF Placed
  <2>5. Counted'
    BY <1>1, <1>4, <1>5, <1>9 DEF OneAtATime, Counted
  <2>6. QED
    BY <2>2, <2>4, <2>5 DEF OneAtATime, Alone
<1>10. QED
  BY <1>1, <1>6, <1>7, <1>8, <1>9 DEF AnyHost, OneAtATime

(* A write stores what the call holds, or nothing, and ends the call.      *)
LEMMA WriteFacts ==
  ASSUME AnyHost, NEW c \in Calls, WriteInstrument(c)
  PROVE  /\ Writing(c) /\ UNCHANGED <<host, kind, lockup>>
         /\ request' \in [Calls -> Requests] /\ ~Writing(c)'
         /\ \A d \in Calls : d # c => request'[d] = request[d]
         /\ record' \in {record, request[c].copy}
         /\ \/ given' = given /\ record' = record
            \/ /\ given' = given + Gives(c)
               /\ record' = IF request[c].op = "vote" THEN record
                            ELSE request[c].copy
<1>1. /\ Writing(c) /\ UNCHANGED <<host, kind, lockup>>
      /\ request' = [request EXCEPT ![c].step = "done", ![c].copy = record]
  BY DEF WriteInstrument, Writing
<1>2. PICK outcome \in Succeeds :
        /\ record' = IF outcome = "ok" /\ request[c].op # "vote"
                     THEN request[c].copy ELSE record
        /\ given' = given + Returned(outcome, Gives(c))
  BY Zenon DEF WriteInstrument
<1>3. record \in Record /\ given \in Nat /\ request \in [Calls -> Requests]
  BY DEF AnyHost, InstrumentsTyped, Requests
<1> DEFINE q == [request[c] EXCEPT !.step = "done", !.copy = record]
<1>4. request[c] \in Requests
  BY <1>3
<1>5. q \in Requests /\ q.step = "done"
  BY <1>3, <1>4 DEF Requests
<1>6. request' = [request EXCEPT ![c] = q]
  BY <1>1, <1>3
<1> HIDE DEF q
<1>7. /\ request' \in [Calls -> Requests] /\ ~Writing(c)'
      /\ \A d \in Calls : d # c => request'[d] = request[d]
  BY <1>3, <1>5, <1>6 DEF Writing
<1>8. \/ given' = given /\ record' = record
      \/ /\ given' = given + Gives(c)
         /\ record' = IF request[c].op = "vote" THEN record
                      ELSE request[c].copy
  <2>1. CASE outcome = "ok"
    BY <1>2, <2>1 DEF Returned
  <2>2. CASE outcome # "ok"
    BY <1>2, <1>3, <2>2 DEF Returned
  <2>3. QED
    BY <2>1, <2>2
<1>9. QED
  BY <1>1, <1>7, <1>8

(* What a call hands out.                                                  *)
LEMMA GivesFacts ==
  ASSUME NEW c \in Calls, request[c] \in Requests
  PROVE  /\ Gives(c) \in Nat
         /\ request[c].op = "exercise" => Gives(c) = request[c].quantity
         /\ kind = "trade" /\ request[c].op = "execute" => Gives(c) = 1
         /\ request[c].op \in {"approve", "cancel", "update"} => Gives(c) = 0
<1>1. request[c].quantity \in Nat
  <2>1. \A n \in Exercised \cup {0} : n \in Nat
    BY InstrumentsAssumption
  <2>2. QED
    BY <2>1, Zenon DEF Requests
<1>2. CASE request[c].op = "exercise"
  BY <1>1, <1>2 DEF Gives
<1>3. CASE request[c].op = "vote"
  BY <1>3 DEF Gives
<1>4. CASE kind = "trade" /\ request[c].op = "execute"
  BY <1>4 DEF Gives
<1>5. CASE /\ request[c].op \notin {"exercise", "vote"}
           /\ ~(kind = "trade" /\ request[c].op = "execute")
  <2>1. Gives(c) = 0
    BY <1>5 DEF Gives
  <2>2. QED
    BY <1>5, <2>1
<1>6. QED
  BY <1>2, <1>3, <1>4, <1>5

LEMMA WriteKeeps ==
  ASSUME AnyHost, NEW c \in Calls, WriteInstrument(c)
  PROVE  /\ AnyHost' /\ (OneAtATime => OneAtATime')
         /\ OneAtATime /\ host = "serial" /\ kind # "proposal" =>
              /\ record.status # "absent"
              /\ record' = record \/ Forward(record.status, record'.status)
<1>1. /\ Writing(c) /\ UNCHANGED <<host, kind, lockup>>
      /\ request' \in [Calls -> Requests] /\ ~Writing(c)'
      /\ \A d \in Calls : d # c => request'[d] = request[d]
      /\ record' \in {record, request[c].copy}
      /\ \/ given' = given /\ record' = record
         \/ /\ given' = given + Gives(c)
            /\ record' = IF request[c].op = "vote" THEN record
                         ELSE request[c].copy
  BY WriteFacts
<1>2. /\ kind \in Kinds /\ record \in Record /\ given \in Nat
      /\ request \in [Calls -> Requests] /\ request[c] \in Requests
  BY DEF AnyHost, InstrumentsTyped, Requests, Kinds
<1>3. /\ Gives(c) \in Nat
      /\ request[c].op = "exercise" => Gives(c) = request[c].quantity
      /\ kind = "trade" /\ request[c].op = "execute" => Gives(c) = 1
      /\ request[c].op \in {"approve", "cancel", "update"} => Gives(c) = 0
  BY <1>2, GivesFacts
<1>4. /\ request[c].op \in Operations[kind]
      /\ request[c].copy \in Record
      /\ request[c].copy.legend = record.legend
      /\ request[c].copy.acknowledged = record.acknowledged
      /\ Sound(request[c].copy) /\ Sound(record)
  BY <1>1, <1>2 DEF AnyHost, CallsSound, Requests
<1>5. /\ record' \in Record /\ given' \in Nat
      /\ record'.legend = record.legend
      /\ record'.acknowledged = record.acknowledged
  BY <1>1, <1>2, <1>3, <1>4
<1>6. InstrumentsTyped'
  BY <1>1, <1>5 DEF AnyHost, InstrumentsTyped, Requests
<1>7. Sound(record)'
  BY <1>1, <1>4 DEF Sound, Cleared
<1>8. CallsSound'
  <2>1. \A d \in Calls : Writing(d)' => Writing(d) /\ request'[d] = request[d]
    BY <1>1 DEF Writing
  <2>2. QED
    BY <1>1, <1>5, <2>1 DEF AnyHost, CallsSound, Sound, Cleared
<1>9. ASSUME OneAtATime, host = "serial"
      PROVE  /\ OneAtATime'
             /\ record.status # "absent"
             /\ kind # "proposal" =>
                  record' = record \/ Forward(record.status, record'.status)
  <2>1. Behind(c) /\ Counted /\ Placed /\ Alone
    BY <1>1, <1>9 DEF OneAtATime
  <2>2. \A d \in Calls : ~Writing(d)'
    BY <1>1, <2>1 DEF Alone, Writing
  <2>3. LC!Ranks' = LC!Ranks
    BY <1>1 DEF LC!Ranks
  <2>4. /\ record.status # "absent"
        /\ kind # "proposal" =>
             record' = record \/ Forward(record.status, record'.status)
    BY <1>1, <2>1 DEF Behind
  <2>5. Placed'
    BY <1>1, <2>1, <2>3, <2>4 DEF Placed, Forward
  <2>6. kind = "warrant" => given' = record'.used
    <3>1. ASSUME kind = "warrant" PROVE given' = record'.used
      <4>1. /\ given = record.used
            /\ request[c].copy.used =
                 record.used + (IF request[c].op = "exercise"
                                THEN request[c].quantity ELSE 0)
        BY <2>1, <3>1 DEF Counted, Behind
      <4>2. request[c].op \in {"exercise", "cancel", "update"}
        BY <1>4, <3>1, OperationsOf
      <4>3. request[c].copy.used = record.used + Gives(c)
        BY <1>3, <4>1, <4>2
      <4>4. QED
        BY <1>1, <4>1, <4>2, <4>3
    <3>2. QED
      BY <3>1
  <2>7. kind = "trade" =>
          given' = (IF record'.status = "executed" THEN 1 ELSE 0)
    <3>1. ASSUME kind = "trade"
          PROVE  given' = (IF record'.status = "executed" THEN 1 ELSE 0)
      <4>1. /\ record.status # "executed" /\ given = 0
            /\ request[c].copy.status = "executed"
                 <=> request[c].op = "execute"
        BY <2>1, <3>1 DEF Counted, Behind
      <4>2. request[c].op \in {"approve", "execute"}
        BY <1>4, <3>1, OperationsOf
      <4>3. CASE given' = given /\ record' = record
        BY <4>1, <4>3
      <4>4. CASE /\ given' = given + Gives(c)
                 /\ record' = IF request[c].op = "vote" THEN record
                              ELSE request[c].copy
        BY <1>3, <3>1, <4>1, <4>2, <4>4
      <4>5. QED
        BY <1>1, <4>3, <4>4
    <3>2. QED
      BY <3>1
  <2>8. Counted'
    BY <1>1, <2>6, <2>7 DEF Counted
  <2>9. QED
    BY <2>2, <2>4, <2>5, <2>8 DEF OneAtATime, Alone
<1>10. QED
  BY <1>1, <1>6, <1>7, <1>8, <1>9 DEF AnyHost, OneAtATime

LEMMA LockupKeeps ==
  ASSUME AnyHost, LockupEnds
  PROVE  AnyHost' /\ (OneAtATime => OneAtATime')
<1>1. UNCHANGED <<host, kind, record, request, given>> /\ lockup' = FALSE
  BY DEF LockupEnds
<1>2. AnyHost'
  BY <1>1 DEF AnyHost, InstrumentsTyped, CallsSound, Writing, Sound, Cleared
<1>3. LC!Ranks' = LC!Ranks
  BY <1>1 DEF LC!Ranks
<1>4. OneAtATime => OneAtATime'
  BY <1>1, <1>3 DEF OneAtATime, Alone, Writing, Behind, Forward, Counted,
                    Placed
<1>5. QED
  BY <1>2, <1>4

LEMMA ProposalKeeps ==
  ASSUME AnyHost, SetProposal
  PROVE  AnyHost' /\ (OneAtATime => OneAtATime')
<1>1. /\ UNCHANGED <<host, kind, lockup, request, given>>
      /\ kind = "proposal"
      /\ host = "serial" => \A d \in Calls : ~Writing(d)
  BY DEF SetProposal, Writing
<1>2. PICK s \in ProposalOpens : record' = [record EXCEPT !.status = s]
  BY DEF SetProposal
<1>3. s \in Status
  BY Statuses, Zenon DEF Opens
<1>4. record \in Record
  BY DEF AnyHost, InstrumentsTyped
<1>5. /\ record' \in Record /\ record'.legend = record.legend
      /\ record'.acknowledged = record.acknowledged
  BY <1>2, <1>3, <1>4 DEF Record
<1>6. AnyHost'
  BY <1>1, <1>5 DEF AnyHost, InstrumentsTyped, CallsSound, Writing, Sound,
                    Cleared
<1>7. host = "serial" => \A d \in Calls : ~Writing(d)'
  BY <1>1 DEF Writing
<1>8. OneAtATime'
  BY <1>1, <1>7 DEF OneAtATime, Alone, Counted, Placed
<1>9. QED
  BY <1>6, <1>8

(***************************************************************************)
(* The theorems.                                                           *)
(***************************************************************************)

svars == <<host, instruments>>

LEMMA NextKeeps ==
  ASSUME AnyHost, [NextInstruments]_svars
  PROVE  AnyHost' /\ (OneAtATime => OneAtATime')
<1>1. CASE NextInstruments
  <2>1. CASE CreateInstrument
    BY <2>1, CreateKeeps
  <2>2. CASE \E c \in Calls : ReadInstrument(c)
    BY <2>2, InstrumentReadKeeps
  <2>3. CASE \E c \in Calls : WriteInstrument(c)
    BY <2>3, WriteKeeps
  <2>4. CASE LockupEnds
    BY <2>4, LockupKeeps
  <2>5. CASE SetProposal
    BY <2>5, ProposalKeeps
  <2>6. QED
    BY <1>1, <2>1, <2>2, <2>3, <2>4, <2>5 DEF NextInstruments
<1>2. CASE UNCHANGED svars
  <2>1. UNCHANGED <<host, kind, record, lockup, request, given>>
    BY <1>2 DEF svars, instruments
  <2>2. LC!Ranks' = LC!Ranks
    BY <2>1 DEF LC!Ranks
  <2>3. AnyHost'
    BY <2>1 DEF AnyHost, InstrumentsTyped, CallsSound, Writing, Sound, Cleared
  <2>4. OneAtATime => OneAtATime'
    BY <2>1, <2>2 DEF OneAtATime, Alone, Writing, Behind, Forward, Counted,
                      Placed
  <2>5. QED
    BY <2>3, <2>4
<1>3. QED
  BY <1>1, <1>2

LEMMA Kept == InstrumentsSpec => [](AnyHost /\ OneAtATime)
<1>1. host \in Host /\ InitInstruments => AnyHost /\ OneAtATime
  BY Starts
<1>2. AnyHost /\ OneAtATime /\ [NextInstruments]_svars
        => (AnyHost /\ OneAtATime)'
  BY NextKeeps
<1>3. QED
  BY <1>1, <1>2, PTL DEF InstrumentsSpec, svars

(* Whatever the calls and however they overlap, the variables keep to      *)
(* their sets: no operation stores a status that is none of its kind's.    *)
THEOREM InstrumentsTypes == InstrumentsSpec => []InstrumentsTyped
<1>1. AnyHost /\ OneAtATime => InstrumentsTyped
  BY DEF AnyHost
<1>2. QED
  BY <1>1, Kept, PTL

(* For any number of calls a stored warrant is not exercised beyond its    *)
(* quantity; one call at a time hands out exactly what it counts.          *)
THEOREM WarrantsCovered == InstrumentsSpec => []ExercisesCovered
<1>1. AnyHost /\ OneAtATime => ExercisesCovered
  BY DEF AnyHost, Sound, OneAtATime, Counted, ExercisesCovered
<1>2. QED
  BY <1>1, Kept, PTL

(* For any number of calls no trade is executed in its lockup or with an   *)
(* uncleared legend; one call at a time executes it once.                  *)
THEOREM TradesAreCleared == InstrumentsSpec => []TradesCleared
<1>1. AnyHost /\ OneAtATime => TradesCleared
  BY DEF AnyHost, Sound, Cleared, OneAtATime, Counted, TradesCleared
<1>2. QED
  BY <1>1, Kept, PTL

(* One call at a time: a vote is stored while its proposal is open.        *)
THEOREM VotesAreOpen == InstrumentsSpec => VotesWhileOpen
<1>1. ASSUME AnyHost, OneAtATime, [NextInstruments]_svars
      PROVE  [host = "serial" /\ kind = "proposal" /\ given' # given =>
                record.status = "open"]_<<host, kind, record, given>>
  <2> SUFFICES ASSUME NextInstruments, host = "serial", kind = "proposal",
                      given' # given
               PROVE  record.status = "open"
    BY <1>1 DEF svars, instruments
  <2>1. PICK c \in Calls : WriteInstrument(c)
    BY DEF NextInstruments, CreateInstrument, ReadInstrument, LockupEnds,
           SetProposal
  <2>2. Writing(c)
    BY <2>1 DEF WriteInstrument, Writing
  <2>3. QED
    BY <1>1, <2>2 DEF OneAtATime, Behind
<1>2. QED
  BY <1>1, Kept, PTL DEF InstrumentsSpec, VotesWhileOpen, svars

(* One call at a time: every kind of instrument implements its life cycle; *)
(* each step of it is a creation, an advance, or none.                     *)
THEOREM LifeCycleImplemented == InstrumentsSpec => ImplementsLifeCycle
<1> DEFINE k == IF kind = "proposal" THEN "document" ELSE kind
           st == IF host = "serial" /\ kind # "proposal"
                 THEN record.status ELSE "absent"
<1>1. ASSUME host \in Host, InitInstruments
      PROVE  LC!Init
  <2>1. record.status = "absent" /\ kind \in DOMAIN Opens
    BY <1>1 DEF InitInstruments
  <2>2. DOMAIN LC!Family = {"safe", "note", "warrant", "action",
                            "submission", "trade", "subaccount", "document"}
    BY DEF LC!Family
  <2>3. k \in DOMAIN LC!Family
    BY <2>1, <2>2, Kinds9 DEF Kinds
  <2>4. QED
    BY <2>1, <2>3 DEF LC!Init
<1>2. ASSUME AnyHost, OneAtATime, [NextInstruments]_svars
      PROVE  [LC!Next]_<<k, st>>
  <2>1. CASE UNCHANGED svars
    BY <2>1 DEF svars, instruments
  <2>2. CASE CreateInstrument
    <3>1. /\ record.status = "absent"
          /\ UNCHANGED <<host, kind, lockup, request, given>>
      BY <2>2 DEF CreateInstrument
    <3>2. PICK s \in Opens[kind] : record' = [record EXCEPT !.status = s]
      BY <2>2 DEF CreateInstrument
    <3>3. kind \in DOMAIN Opens /\ record \in Record
      BY <1>2 DEF AnyHost, InstrumentsTyped
    <3>4. record'.status = s
      BY <3>2, <3>3 DEF Record
    <3>5. CASE host = "serial" /\ kind # "proposal"
      <4>1. k' = k /\ st = "absent" /\ st' = s
        BY <3>1, <3>4, <3>5
      <4>2. s \in DOMAIN LC!Ranks
        BY <3>3, <3>5, OpensPlaced
      <4>3. LC!Create
        BY <4>1, <4>2 DEF LC!Create
      <4>4. QED
        BY <4>1, <4>3 DEF LC!Next
    <3>6. CASE ~(host = "serial" /\ kind # "proposal")
      BY <3>1, <3>6
    <3>7. QED
      BY <3>5, <3>6
  <2>3. ASSUME NEW c \in Calls, WriteInstrument(c)
        PROVE  [LC!Next]_<<k, st>>
    <3>1. UNCHANGED <<host, kind>>
      BY <2>3 DEF WriteInstrument
    <3>2. CASE host = "serial" /\ kind # "proposal"
      <4>1. /\ record.status # "absent"
            /\ record' = record \/ Forward(record.status, record'.status)
        BY <1>2, <2>3, <3>2, WriteKeeps
      <4>2. record.status \in DOMAIN LC!Ranks
        BY <1>2, <3>2, <4>1 DEF OneAtATime, Placed
      <4>3. k' = k /\ st = record.status /\ st' = record'.status
        BY <3>1, <3>2
      <4>4. CASE record'.status = record.status
        BY <4>3, <4>4
      <4>5. CASE record'.status # record.status
        <5>1. /\ record'.status \in DOMAIN LC!Ranks
              /\ LC!Ranks[record.status] < LC!Ranks[record'.status]
          BY <4>1, <4>2, <4>5 DEF Forward
        <5>2. LC!Advance
          BY <4>1, <4>3, <5>1 DEF LC!Advance
        <5>3. QED
          BY <4>3, <5>2 DEF LC!Next
      <4>6. QED
        BY <4>4, <4>5
    <3>3. CASE ~(host = "serial" /\ kind # "proposal")
      BY <3>1, <3>3
    <3>4. QED
      BY <3>2, <3>3
  <2>4. CASE \E c \in Calls : ReadInstrument(c)
    BY <2>4 DEF ReadInstrument
  <2>5. CASE LockupEnds
    BY <2>5 DEF LockupEnds
  <2>6. CASE SetProposal
    BY <2>6 DEF SetProposal
  <2>7. QED
    BY <1>2, <2>1, <2>2, <2>3, <2>4, <2>5, <2>6 DEF NextInstruments
<1>3. QED
  BY <1>1, <1>2, Kept, PTL DEF InstrumentsSpec, svars, ImplementsLifeCycle,
                               LC!Spec

-----------------------------------------------------------------------------

gvars == <<host, grants>>

InFlight(c) == exercise[c].step \notin {"idle", "done"}

(* The call will still add to the exercised options.                       *)
Owing(c) == exercise[c].step \in {"store", "count"}

(* Every host: results are stored before options are counted, and a call   *)
(* that ended has told its caller when its own are not.                    *)
Answered(x, r) ==
  /\ x.step \in {"idle", "store"} => r = "none"
  /\ x.step \in {"count", "elect"} => r # "none"
  /\ x.outcome # "none" <=> x.step = "done"
  /\ x.step = "done" => (r # "none" <=> x.outcome \in {"returned", "uncounted"})

(* One call at a time: what it checked is still available.                 *)
Reserved ==
  /\ exercised <= Options
  /\ \A c, d \in Calls : InFlight(c) /\ InFlight(d) => c = d
  /\ \A c \in Calls : Owing(c) => exercise[c].amount <= Options - exercised

AmountOf == [c \in Calls |-> exercise[c].amount]

RecordedCalls == {c \in Calls : result[c] # "none"}

(* The exercise was counted, and is so with its amount: the sums are over  *)
(* finitely many calls, however many there are.                            *)
Counts(x) == x.step = "elect" \/ x.outcome = "returned"

CountedCalls == {c \in Calls : Counts(exercise[c])}

Tallied ==
  /\ IsFiniteSet(RecordedCalls) /\ CountedCalls \subseteq RecordedCalls
  /\ exercised = SumFunctionOnSet(AmountOf, CountedCalls)

GrantsInv ==
  /\ host \in Host /\ GrantsTyped /\ Tallied
  /\ \A c \in Calls : Answered(exercise[c], result[c])
  /\ host = "serial" => Reserved

LEMMA ExerciseAmountIsNat == \A x \in Exercise : x.amount \in Nat
<1>1. Amounts \cup {0} \subseteq Nat
  BY OptionGrantsAssumption
<1>2. \A x \in Exercise : x.amount \in Amounts \cup {0}
  BY DEF Exercise
<1>3. QED
  BY <1>1, <1>2

(* Going on from y to x keeps the amount asked for, and the counter moves  *)
(* by it when the exercise is counted.                                     *)
Tallies(y, x, n) ==
  /\ y.step # "idle" => x.amount = y.amount
  /\ Counts(y) => Counts(x)
  /\ n = exercised + IF Counts(x) /\ ~Counts(y) THEN x.amount ELSE 0

(* A step makes x of call c, r of its result and n of the counter.         *)
Makes(c, x, r, n) ==
  /\ UNCHANGED host /\ n \in Nat
  /\ exercise' = [exercise EXCEPT ![c] = x]
  /\ result' = [result EXCEPT ![c] = r]
  /\ exercised' = n
  /\ Answered(x, r)
  /\ Tallies(exercise[c], x, n)
  /\ \/ InFlight(c)
     \/ host = "serial" => \A d \in Calls : ~InFlight(d)
  /\ \/ /\ x.step = "store" /\ n = exercised
        /\ x.amount <= Options - exercised
     \/ /\ x.step = "count" /\ n = exercised
        /\ x.amount = exercise[c].amount
        /\ exercise[c].step = "store"
     \/ /\ x.step \in {"elect", "done"}
        /\ n # exercised => Owing(c)

(* What a step of call c makes of it, and that it concerns no other.       *)
LEMMA StepFacts ==
  ASSUME GrantsInv, NEW c \in Calls,
         CheckGrant(c) \/ StoreResult(c) \/ UpdateExercised(c)
           \/ EarlyExercise(c)
  PROVE  \E x \in Exercise, r \in {"none", "plain", "elected"},
            n \in {exercised, exercised + exercise[c].amount} :
           Makes(c, x, r, n)
<1>0. /\ exercise \in [Calls -> Exercise] /\ exercised \in Nat
      /\ result \in [Calls -> {"none", "plain", "elected"}]
      /\ Answered(exercise[c], result[c])
  BY DEF GrantsInv, GrantsTyped
<1>1. /\ exercise \in [Calls -> Exercise] /\ exercise[c] \in Exercise
      /\ result \in [Calls -> {"none", "plain", "elected"}]
      /\ result[c] \in {"none", "plain", "elected"}
      /\ result = [result EXCEPT ![c] = result[c]]
      /\ exercised \in Nat /\ Answered(exercise[c], result[c])
  BY <1>0
<1>2. exercise[c].amount \in Nat
  BY <1>1, ExerciseAmountIsNat
<1> DEFINE Done(o) == [exercise[c] EXCEPT !.step = "done", !.outcome = o]
<1>3. \A o \in {"refused", "unstored", "uncounted", "returned"} :
        /\ Done(o) \in Exercise /\ Done(o).step = "done"
        /\ Done(o).outcome = o /\ Done(o).amount = exercise[c].amount
        /\ Ended(c, o) => exercise' = [exercise EXCEPT ![c] = Done(o)]
  BY <1>1 DEF Exercise, Ended
<1> HIDE DEF Done
<1>a. exercise[c].step \in {"idle", "store", "count"} => ~Counts(exercise[c])
  BY <1>1 DEF Answered, Counts
<1>b. \A o \in {"refused", "unstored", "uncounted"} :
        exercise[c].step \in {"idle", "store", "count"} =>
          Tallies(exercise[c], Done(o), exercised)
  BY <1>1, <1>3, <1>a DEF Tallies, Counts
<1>4. CASE CheckGrant(c)
  <2>1. /\ exercise[c].step = "idle" /\ UNCHANGED <<host, exercised, result>>
        /\ host = "serial" => \A d \in Calls : ~InFlight(d)
    BY <1>4 DEF CheckGrant, InFlight
  <2>2. result[c] = "none"
    BY <1>1, <2>1 DEF Answered
  <2>3. CASE Ended(c, "refused")
    <3>1. Answered(Done("refused"), "none")
      BY <1>3 DEF Answered
    <3>2. Makes(c, Done("refused"), "none", exercised)
      BY <1>1, <1>3, <1>b, <2>1, <2>2, <2>3, <3>1 DEF Makes
    <3>3. QED
      BY <1>3, <3>2, Zenon
  <2>4. ASSUME NEW amount \in Amounts, NEW early \in BOOLEAN,
               Available(amount),
               exercise' = [exercise EXCEPT
                              ![c] = [step |-> "store", amount |-> amount,
                                      early |-> early, outcome |-> "none"]]
        PROVE  \E x \in Exercise :
                 /\ exercise' = [exercise EXCEPT ![c] = x]
                 /\ x.step = "store" /\ x.amount <= Options - exercised
                 /\ Answered(x, "none")
                 /\ Tallies(exercise[c], x, exercised)
    <3> DEFINE x == [step |-> "store", amount |-> amount,
                     early |-> early, outcome |-> "none"]
    <3>1. exercise' = [exercise EXCEPT ![c] = x]
      BY <2>4
    <3>2. /\ x \in Exercise /\ x.step = "store" /\ x.amount = amount
          /\ x.outcome = "none"
      BY DEF Exercise
    <3> HIDE DEF x
    <3>3. Answered(x, "none")
      BY <3>2 DEF Answered
    <3>4. Tallies(exercise[c], x, exercised)
      BY <1>1, <1>a, <2>1, <3>2 DEF Tallies, Counts
    <3>5. QED
      BY <2>4, <3>1, <3>2, <3>3, <3>4 DEF Available
  <2>5. CASE ~Ended(c, "refused")
    <3>1. PICK x \in Exercise :
                 /\ exercise' = [exercise EXCEPT ![c] = x]
                 /\ x.step = "store" /\ x.amount <= Options - exercised
                 /\ Answered(x, "none")
                 /\ Tallies(exercise[c], x, exercised)
      BY <1>4, <2>4, <2>5 DEF CheckGrant
    <3>2. Makes(c, x, "none", exercised)
      BY <1>1, <2>1, <2>2, <3>1 DEF Makes
    <3>3. QED
      BY <3>2, Zenon
  <2>6. QED
    BY <2>3, <2>5
<1>5. CASE StoreResult(c)
  <2>1. exercise[c].step = "store" /\ UNCHANGED <<host, exercised>>
    BY <1>5 DEF StoreResult
  <2>2. result[c] = "none" /\ exercise[c].outcome = "none"
    BY <1>1, <2>1 DEF Answered
  <2>3. CASE /\ result' = [result EXCEPT ![c] = "plain"]
             /\ exercise' = [exercise EXCEPT ![c].step = "count"]
    <3> DEFINE x == [exercise[c] EXCEPT !.step = "count"]
    <3>1. exercise' = [exercise EXCEPT ![c] = x]
      BY <1>1, <2>3
    <3>2. /\ x \in Exercise /\ x.step = "count" /\ x.outcome = "none"
          /\ x.amount = exercise[c].amount
      BY <1>1, <2>2 DEF Exercise
    <3> HIDE DEF x
    <3>3. Answered(x, "plain")
      BY <3>2 DEF Answered
    <3>4. Tallies(exercise[c], x, exercised)
      BY <1>1, <1>a, <2>1, <3>2 DEF Tallies, Counts
    <3>5. Makes(c, x, "plain", exercised)
      BY <1>1, <2>1, <2>3, <3>1, <3>2, <3>3, <3>4 DEF Makes, InFlight
    <3>6. QED
      BY <3>2, <3>5, Zenon
  <2>4. CASE Ended(c, "unstored") /\ UNCHANGED result
    <3>1. Answered(Done("unstored"), "none")
      BY <1>3 DEF Answered
    <3>2. Makes(c, Done("unstored"), "none", exercised)
      BY <1>1, <1>3, <1>b, <2>1, <2>2, <2>4, <3>1 DEF Makes, InFlight
    <3>3. QED
      BY <1>3, <3>2, Zenon
  <2>5. QED
    BY <1>5, <2>3, <2>4 DEF StoreResult
<1>6. CASE UpdateExercised(c)
  <2>1. exercise[c].step = "count" /\ UNCHANGED <<host, result>>
    BY <1>6 DEF UpdateExercised
  <2>2. result[c] # "none" /\ exercise[c].outcome = "none" /\ Owing(c)
    BY <1>1, <2>1 DEF Answered, Owing
  <2>3. exercised + exercise[c].amount \in Nat
    BY <1>1, <1>2
  <2>4. \A o \in {"returned", "uncounted"} : Answered(Done(o), result[c])
    BY <1>3, <2>2 DEF Answered
  <2>5. CASE exercised' = exercised + exercise[c].amount
             /\ Ended(c, "returned")
    <3>1. Tallies(exercise[c], Done("returned"),
                  exercised + exercise[c].amount)
      BY <1>3, <1>a, <2>1 DEF Tallies, Counts
    <3>2. Makes(c, Done("returned"), result[c], exercised + exercise[c].amount)
      BY <1>1, <1>3, <2>1, <2>2, <2>3, <2>4, <2>5, <3>1 DEF Makes, InFlight
    <3>3. QED
      BY <1>1, <1>3, <3>2, Zenon
  <2>6. CASE /\ exercised' = exercised + exercise[c].amount
             /\ exercise' = [exercise EXCEPT ![c].step = "elect"]
    <3> DEFINE x == [exercise[c] EXCEPT !.step = "elect"]
    <3>1. exercise' = [exercise EXCEPT ![c] = x]
      BY <1>1, <2>6
    <3>2. /\ x \in Exercise /\ x.step = "elect" /\ x.outcome = "none"
          /\ x.amount = exercise[c].amount
      BY <1>1, <2>2 DEF Exercise
    <3> HIDE DEF x
    <3>3. Answered(x, result[c])
      BY <2>2, <3>2 DEF Answered
    <3>4. Tallies(exercise[c], x, exercised + exercise[c].amount)
      BY <1>a, <2>1, <3>2 DEF Tallies, Counts
    <3>5. Makes(c, x, result[c], exercised + exercise[c].amount)
      BY <1>1, <2>1, <2>2, <2>3, <2>6, <3>1, <3>2, <3>3, <3>4
         DEF Makes, InFlight
    <3>6. QED
      BY <1>1, <3>2, <3>5, Zenon
  <2>7. CASE Ended(c, "uncounted") /\ UNCHANGED exercised
    <3>1. Makes(c, Done("uncounted"), result[c], exercised)
      BY <1>1, <1>3, <1>b, <2>1, <2>2, <2>4, <2>7 DEF Makes, InFlight
    <3>2. QED
      BY <1>1, <1>3, <3>1, Zenon
  <2>8. QED
    BY <1>6, <2>5, <2>6, <2>7 DEF UpdateExercised
<1>7. CASE EarlyExercise(c)
  <2>1. /\ exercise[c].step = "elect" /\ UNCHANGED <<host, exercised>>
        /\ Ended(c, "returned")
        /\ result' \in {result, [result EXCEPT ![c] = "elected"]}
    BY <1>7 DEF EarlyExercise
  <2>2. PICK r \in {result[c], "elected"} :
          result' = [result EXCEPT ![c] = r]
    BY <1>1, <2>1
  <2>3. r # "none" /\ r \in {"none", "plain", "elected"}
    BY <1>1, <2>1, <2>2 DEF Answered
  <2>4. Answered(Done("returned"), r)
    BY <1>3, <2>3 DEF Answered
  <2>5. Tallies(exercise[c], Done("returned"), exercised)
    BY <1>1, <1>3, <2>1 DEF Tallies, Counts
  <2>6. Makes(c, Done("returned"), r, exercised)
    BY <1>1, <1>3, <2>1, <2>2, <2>3, <2>4, <2>5 DEF Makes, InFlight
  <2>7. QED
    BY <1>3, <2>3, <2>6, Zenon
<1>8. QED
  BY <1>4, <1>5, <1>6, <1>7

LEMMA GrantsInvInit == host \in Host /\ InitGrants => GrantsInv
<1> SUFFICES ASSUME host \in Host, InitGrants PROVE GrantsInv
  OBVIOUS
<1>1. exercised = 0 /\ result = [c \in Calls |-> "none"]
  BY DEF InitGrants
<1> DEFINE x == [step |-> "idle", amount |-> 0, early |-> FALSE,
                 outcome |-> "none"]
<1>2. exercise = [c \in Calls |-> x]
  BY DEF InitGrants
<1>3. x \in Exercise /\ x.step = "idle" /\ x.outcome = "none"
  BY DEF Exercise
<1> HIDE DEF x
<1>4. GrantsTyped
  BY <1>1, <1>2, <1>3 DEF GrantsTyped
<1>5. \A c \in Calls : /\ Answered(exercise[c], result[c])
                       /\ ~InFlight(c) /\ ~Owing(c)
  BY <1>1, <1>2, <1>3 DEF Answered, InFlight, Owing
<1>6. Tallied
  <2>1. RecordedCalls = {} /\ CountedCalls = {}
    BY <1>1, <1>2, <1>3 DEF RecordedCalls, CountedCalls, Counts
  <2>2. QED
    BY <1>1, <2>1, SumEmpty, FS_EmptySet DEF Tallied
<1>7. QED
  BY <1>1, <1>4, <1>5, <1>6, OptionGrantsAssumption DEF GrantsInv, Reserved

LEMMA GrantsInvStep == GrantsInv /\ [NextGrants]_gvars => GrantsInv'
<1> SUFFICES ASSUME GrantsInv, [NextGrants]_gvars PROVE GrantsInv'
  OBVIOUS
<1>1. CASE UNCHANGED gvars
  BY <1>1 DEF gvars, grants, GrantsInv, GrantsTyped, Reserved, InFlight, Owing,
              Tallied, RecordedCalls, CountedCalls, Counts, AmountOf
<1>2. ASSUME NEW c \in Calls,
             CheckGrant(c) \/ StoreResult(c) \/ UpdateExercised(c)
               \/ EarlyExercise(c)
      PROVE  GrantsInv'
  <2>1. PICK x \in Exercise, r \in {"none", "plain", "elected"},
             n \in {exercised, exercised + exercise[c].amount} :
           /\ UNCHANGED host /\ n \in Nat
           /\ exercise' = [exercise EXCEPT ![c] = x]
           /\ result' = [result EXCEPT ![c] = r]
           /\ exercised' = n
           /\ Answered(x, r)
           /\ Tallies(exercise[c], x, n)
           /\ \/ InFlight(c)
              \/ host = "serial" => \A d \in Calls : ~InFlight(d)
           /\ \/ /\ x.step = "store" /\ n = exercised
                 /\ x.amount <= Options - exercised
              \/ /\ x.step = "count" /\ n = exercised
                 /\ x.amount = exercise[c].amount
                 /\ exercise[c].step = "store"
              \/ /\ x.step \in {"elect", "done"}
                 /\ n # exercised => Owing(c)
    BY <1>2, StepFacts DEF Makes
  <2>2. /\ exercise \in [Calls -> Exercise] /\ exercised \in Nat
        /\ result \in [Calls -> {"none", "plain", "elected"}]
        /\ exercise[c].step \in {"idle", "store", "count", "elect", "done"}
        /\ Answered(exercise[c], result[c])
    BY DEF GrantsInv, GrantsTyped, Exercise
  <2>3. /\ exercise' \in [Calls -> Exercise] /\ exercise'[c] = x
        /\ \A d \in Calls : d # c => exercise'[d] = exercise[d]
        /\ result' \in [Calls -> {"none", "plain", "elected"}]
        /\ result'[c] = r
        /\ \A d \in Calls : d # c => result'[d] = result[d]
    BY <2>1, <2>2
  <2>4. GrantsTyped' /\ \A d \in Calls : Answered(exercise'[d], result'[d])
    BY <2>1, <2>3 DEF GrantsInv, GrantsTyped
  <2>5. host = "serial" => Reserved'
    <3> SUFFICES ASSUME host = "serial" PROVE Reserved'
      OBVIOUS
    <3>1. Reserved
      BY DEF GrantsInv
    <3>2. \A d \in Calls : d # c => /\ InFlight(d)' <=> InFlight(d)
                                    /\ Owing(d)' <=> Owing(d)
      BY <2>3 DEF InFlight, Owing
    <3>3. \A d \in Calls : Owing(d) => InFlight(d)
      BY DEF Owing, InFlight
    <3>4. \A d \in Calls : d # c => ~InFlight(d)
      BY <2>1, <3>1 DEF Reserved
    <3>5. n <= Options
      <4>1. CASE n = exercised
        BY <3>1, <4>1 DEF Reserved
      <4>2. CASE n # exercised
        <5>1. Owing(c) /\ n = exercised + exercise[c].amount
          BY <2>1, <4>2
        <5>2. exercise[c].amount <= Options - exercised
          BY <3>1, <5>1 DEF Reserved
        <5>3. QED
          <6>1. exercise[c] \in Exercise
            BY <2>2
          <6>2. exercise[c].amount \in Nat /\ Options \in Nat
            BY <6>1, ExerciseAmountIsNat, OptionGrantsAssumption
          <6>3. QED
            BY <2>2, <5>1, <5>2, <6>2
      <4>3. QED
        BY <4>1, <4>2
    <3>6. Owing(c)' => x.amount <= Options - n
      <4>1. CASE x.step = "store"
        BY <2>1, <4>1
      <4>2. CASE x.step = "count"
        <5>1. n = exercised /\ x.amount = exercise[c].amount /\ Owing(c)
          BY <2>1, <4>2 DEF Owing
        <5>2. QED
          BY <3>1, <5>1 DEF Reserved
      <4>3. QED
        BY <2>3, <4>1, <4>2 DEF Owing
    <3>7. QED
      BY <2>1, <2>3, <3>2, <3>3, <3>4, <3>5, <3>6 DEF Reserved
  <2>6. Tallied'
    <3>1. /\ RecordedCalls' = IF r # "none" THEN RecordedCalls \cup {c}
                         ELSE RecordedCalls \ {c}
          /\ CountedCalls' =
               IF Counts(x) THEN CountedCalls \cup {c}
               ELSE CountedCalls \ {c}
      BY <2>3 DEF RecordedCalls, CountedCalls
    <3>2. /\ IsFiniteSet(RecordedCalls) /\ CountedCalls \subseteq RecordedCalls
          /\ exercised = SumFunctionOnSet(AmountOf, CountedCalls)
      BY DEF GrantsInv, Tallied
    <3>3. IsFiniteSet(RecordedCalls')
      BY <3>1, <3>2, FS_AddElement, FS_RemoveElement
    <3>4. CountedCalls' \subseteq RecordedCalls'
      <4>1. Counts(x) => r # "none"
        BY <2>1 DEF Counts, Answered
      <4>2. QED
        BY <3>1, <3>2, <4>1
    <3>5. /\ IsFiniteSet(CountedCalls)
          /\ \A d \in CountedCalls : AmountOf[d] \in Nat /\ AmountOf'[d] = AmountOf[d]
          /\ AmountOf'[c] = x.amount /\ x.amount \in Nat
      <4>1. IsFiniteSet(CountedCalls)
        BY <3>2, FS_Subset
      <4>2. \A d \in Calls : AmountOf[d] \in Nat
        BY <2>2, ExerciseAmountIsNat DEF AmountOf
      <4>3. Counts(exercise[c]) => exercise[c].step # "idle"
        BY <2>2 DEF Counts, Answered
      <4>4. \A d \in Calls : d # c => AmountOf'[d] = AmountOf[d]
        BY <2>3 DEF AmountOf
      <4>5. AmountOf'[c] = x.amount /\ x.amount \in Nat
        BY <2>3, ExerciseAmountIsNat DEF AmountOf
      <4>6. Counts(exercise[c]) => AmountOf'[c] = AmountOf[c]
        BY <2>1, <4>3, <4>5 DEF Tallies, AmountOf
      <4>7. QED
        BY <4>1, <4>2, <4>4, <4>5, <4>6 DEF CountedCalls
    <3>6. SumFunctionOnSet(AmountOf', CountedCalls) = exercised
      BY <3>2, <3>5, SumAgree
    <3>7. CASE Counts(x) /\ ~Counts(exercise[c])
      <4>1. c \notin CountedCalls
        BY <3>7 DEF CountedCalls
      <4>2. SumFunctionOnSet(AmountOf', CountedCalls \cup {c})
              = AmountOf'[c] + SumFunctionOnSet(AmountOf', CountedCalls)
        BY <3>5, <4>1, SumAdd
      <4>3. exercised' = exercised + x.amount
        BY <2>1, <3>7 DEF Tallies
      <4>4. exercised' = SumFunctionOnSet(AmountOf', CountedCalls')
        BY <2>2, <3>1, <3>5, <3>6, <3>7, <4>2, <4>3
      <4>5. QED
        BY <3>3, <3>4, <4>4 DEF Tallied
    <3>8. CASE ~(Counts(x) /\ ~Counts(exercise[c]))
      <4>1. exercised' = exercised
        BY <2>1, <2>2, <3>8 DEF Tallies
      <4>2. Counts(exercise[c]) <=> c \in CountedCalls
        BY DEF CountedCalls
      <4>3. Counts(exercise[c]) => Counts(x)
        BY <2>1 DEF Tallies
      <4>4. CountedCalls' = CountedCalls
        BY <3>1, <3>8, <4>2, <4>3
      <4>5. QED
        BY <3>3, <3>4, <3>6, <4>1, <4>4 DEF Tallied
    <3>9. QED
      BY <3>7, <3>8
  <2>7. QED
    BY <2>1, <2>4, <2>5, <2>6 DEF GrantsInv
<1>3. QED
  BY <1>1, <1>2 DEF NextGrants

LEMMA GrantsInvHolds == GrantsSpec => []GrantsInv
BY GrantsInvInit, GrantsInvStep, PTL DEF GrantsSpec, gvars

(* The variables keep to their sets, however many exercises overlap.       *)
THEOREM GrantsTypes == GrantsSpec => []GrantsTyped
<1>1. GrantsInv => GrantsTyped
  BY DEF GrantsInv
<1>2. QED
  BY <1>1, GrantsInvHolds, PTL

(* What is recorded of the exercises bears out what is counted of the      *)
(* grant, and with one call at a time exceeds the options only after a     *)
(* caller was told that its exercise could not be counted.                 *)
THEOREM GrantCovered == GrantsSpec => []OptionsCovered
<1>1. GrantsInv => OptionsCovered
  <2> SUFFICES ASSUME GrantsInv PROVE OptionsCovered
    OBVIOUS
  <2>1. /\ exercise \in [Calls -> Exercise] /\ exercised \in Nat
        /\ \A c \in Calls : Answered(exercise[c], result[c])
        /\ IsFiniteSet(RecordedCalls) /\ CountedCalls \subseteq RecordedCalls
        /\ exercised = SumFunctionOnSet(AmountOf, CountedCalls)
    BY DEF GrantsInv, GrantsTyped, Tallied
  <2>2. Stored = SumFunctionOnSet(AmountOf, RecordedCalls)
    BY DEF Stored, AmountOf, RecordedCalls
  <2>3. \A c \in RecordedCalls : AmountOf[c] \in Nat
    BY <2>1, ExerciseAmountIsNat DEF AmountOf, RecordedCalls
  <2>4. exercised <= Stored
    BY <2>1, <2>2, <2>3, SumMonotone
  <2>5. ASSUME host = "serial",
               \A c \in Calls : exercise[c].outcome # "uncounted"
        PROVE  Stored <= Options
    <3>1. Reserved
      BY <2>5 DEF GrantsInv
    <3>2. \A c \in RecordedCalls \ CountedCalls : Owing(c) /\ InFlight(c)
      <4>1. ASSUME NEW c \in RecordedCalls \ CountedCalls PROVE Owing(c) /\ InFlight(c)
        <5>1. /\ c \in Calls /\ Answered(exercise[c], result[c])
              /\ result[c] # "none" /\ ~Counts(exercise[c])
              /\ exercise[c].outcome # "uncounted"
          BY <2>1, <2>5 DEF RecordedCalls, CountedCalls
        <5>2. exercise[c].step \in {"idle", "store", "count", "elect", "done"}
          BY <2>1, <5>1 DEF Exercise
        <5>3. exercise[c].step = "count"
          BY <5>1, <5>2 DEF Answered, Counts
        <5>4. QED
          BY <5>3 DEF Owing, InFlight
      <4>2. QED
        BY <4>1
    <3>3. CASE RecordedCalls = CountedCalls
      BY <2>1, <2>2, <3>1, <3>3 DEF Reserved
    <3>4. ASSUME NEW c \in RecordedCalls \ CountedCalls PROVE Stored <= Options
      <4>1. RecordedCalls = CountedCalls \cup {c} /\ c \in Calls
        BY <2>1, <3>1, <3>2 DEF Reserved, RecordedCalls
      <4>2. IsFiniteSet(CountedCalls)
        BY <2>1, FS_Subset
      <4>3. Stored = AmountOf[c] + exercised
        <5>1. c \notin CountedCalls /\ \A d \in CountedCalls \cup {c} : AmountOf[d] \in Int
          BY <2>3, <4>1
        <5>2. SumFunctionOnSet(AmountOf, CountedCalls \cup {c})
                = AmountOf[c] + SumFunctionOnSet(AmountOf, CountedCalls)
          BY <4>2, <5>1, SumAdd
        <5>3. QED
          BY <2>1, <2>2, <4>1, <5>2
      <4>4. exercise[c].amount <= Options - exercised
        BY <3>1, <3>2, <4>1 DEF Reserved
      <4>5. AmountOf[c] = exercise[c].amount /\ AmountOf[c] \in Nat
        BY <2>3, <4>1 DEF AmountOf
      <4>6. AmountOf[c] <= Options - exercised
        BY <4>4, <4>5
      <4>7. AmountOf[c] + exercised <= Options
        BY <2>1, <4>5, <4>6, OptionGrantsAssumption
      <4>8. QED
        BY <4>3, <4>7
    <3>5. QED
      BY <2>1, <3>3, <3>4
  <2>6. host = "serial" => exercised <= Options
    BY DEF GrantsInv, Reserved
  <2>7. Stored \in Nat
    BY <2>1, <2>2, <2>3, SumType
  <2>8. QED
    BY <2>4, <2>5, <2>6, <2>7, OptionGrantsAssumption DEF OptionsCovered
<1>2. QED
  BY <1>1, GrantsInvHolds, PTL

(* With one call at a time UpdateExercised never takes a grant beyond its  *)
(* options: what Exercise checked before it stored is still available.     *)
THEOREM GrantNotOverdrawn ==
  GrantsSpec => [](host = "serial" => exercised <= Options)
<1>1. GrantsInv => (host = "serial" => exercised <= Options)
  BY DEF GrantsInv, Reserved
<1>2. QED
  BY <1>1, GrantsInvHolds, PTL

(* However exercises overlap, one that returned has a stored result, and   *)
(* an ended one with a result did not return only if it told its caller    *)
(* that the options were not counted.                                      *)
THEOREM ResultsAnswered ==
  GrantsSpec =>
    [](\A c \in Calls : exercise[c].step = "done" =>
         (result[c] # "none" <=>
            exercise[c].outcome \in {"returned", "uncounted"}))
<1>1. GrantsInv => \A c \in Calls : exercise[c].step = "done" =>
                     (result[c] # "none" <=>
                        exercise[c].outcome \in {"returned", "uncounted"})
  BY DEF GrantsInv, Answered
<1>2. QED
  BY <1>1, GrantsInvHolds, PTL

-----------------------------------------------------------------------------

dvars == <<host, dividends>>

Run ==
  [step : {"idle", "distribute", "done"}, todo : SUBSET Holders, total : Nat]

(* What every host keeps: a call that distributes has stored, for everyone *)
(* entitled and nobody else, what is not on its list any more.             *)
Complete == \A h \in Holders : distribution[h] # "none" <=> h \in Entitled

Covering ==
  /\ \A h \in Holders : distribution[h] # "none" => h \in Entitled
  /\ \A c \in Calls : Running(c) =>
       /\ processing[c].todo \subseteq Entitled
       /\ \A h \in Entitled \ processing[c].todo : distribution[h] # "none"
  /\ declaration.status = "record_set" => Complete

(* One call at a time: nobody is paid while a call distributes, and who is *)
(* paid stays so.                                                          *)
Orderly ==
  /\ \A c, d \in Calls : Running(c) /\ Running(d) => c = d
  /\ \A c \in Calls : Running(c) => declaration.status = "declared"
  /\ declaration.status # "record_set" =>
       \A h \in Holders : distribution[h] # "paid"
  /\ \A h \in Holders : paid[h] = IF distribution[h] = "paid" THEN 1 ELSE 0

DividendsInv ==
  /\ host \in Host /\ DividendsTyped /\ Covering
  /\ host = "serial" => Orderly

LEMMA RunIs ==
  DividendsTyped <=>
    /\ declaration \in Declaration
    /\ distribution \in [Holders -> {"none", "pending", "paid"}]
    /\ processing \in [Calls -> Run]
    /\ paid \in [Holders -> Nat]
BY DEF DividendsTyped, Run

LEMMA DividendAmountIsNat == \A h \in Holders : Amount(h) \in Nat
BY DividendsAssumption DEF Amount

LEMMA EntitledStays ==
  ASSUME declaration'.type = declaration.type
  PROVE  Entitled' = Entitled
BY DEF Entitled

LEMMA DividendsInvInit == host \in Host /\ InitDividends => DividendsInv
<1> SUFFICES ASSUME host \in Host, InitDividends PROVE DividendsInv
  OBVIOUS
<1>1. /\ declaration.type \in {"cash", "stock"} /\ declaration.total = 0
      /\ declaration.status = "absent" /\ declaration \in Declaration
      /\ distribution = [h \in Holders |-> "none"]
      /\ paid = [h \in Holders |-> 0]
  BY DEF InitDividends, Declaration
<1> DEFINE p == [step |-> "idle", todo |-> {}, total |-> 0]
<1>2. processing = [c \in Calls |-> p]
  BY DEF InitDividends
<1>3. p \in Run /\ p.step = "idle"
  BY DEF Run
<1> HIDE DEF p
<1>4. processing \in [Calls -> Run] /\ \A c \in Calls : ~Running(c)
  BY <1>2, <1>3 DEF Running
<1>5. DividendsTyped
  BY <1>1, <1>4, RunIs
<1>6. QED
  BY <1>1, <1>4, <1>5 DEF DividendsInv, Covering, Orderly

LEMMA DeclareKeeps == DividendsInv /\ Declare => DividendsInv'
<1> SUFFICES ASSUME DividendsInv, Declare PROVE DividendsInv'
  OBVIOUS
<1>1. /\ declaration.status = "absent"
      /\ UNCHANGED <<host, distribution, processing, paid>>
      /\ declaration \in Declaration /\ processing \in [Calls -> Run]
  BY RunIs DEF Declare, DividendsInv
<1>2. PICK s \in {"declared", "cancelled"} :
        declaration' = [declaration EXCEPT !.status = s]
  BY DEF Declare
<1>3. /\ declaration' \in Declaration /\ declaration'.type = declaration.type
      /\ declaration'.status = s
  BY <1>1, <1>2 DEF Declaration
<1>4. Entitled' = Entitled
  BY <1>3, EntitledStays
<1>5. DividendsTyped'
  BY <1>1, <1>3 DEF DividendsInv, DividendsTyped
<1>6. Covering'
  BY <1>1, <1>3, <1>4 DEF DividendsInv, Covering, Running
<1>7. host = "serial" => Orderly'
  BY <1>1, <1>3 DEF DividendsInv, Orderly, Running
<1>8. QED
  BY <1>1, <1>5, <1>6, <1>7 DEF DividendsInv

LEMMA ReadKeeps ==
  ASSUME DividendsInv, NEW c \in Calls, ReadDeclaration(c)
  PROVE  DividendsInv'
<1>1. /\ UNCHANGED <<host, declaration, distribution, paid>>
      /\ processing[c].step = "idle" /\ processing \in [Calls -> Run]
      /\ processing[c] \in Run
      /\ host = "serial" => \A d \in Calls : ~Running(d)
  BY RunIs DEF ReadDeclaration, DividendsInv
<1>2. Entitled' = Entitled
  BY <1>1, EntitledStays
<1>3. Entitled \subseteq Holders
  BY DEF Entitled
<1>4. PICK q \in Run :
        /\ processing' = [processing EXCEPT ![c] = q]
        /\ \/ /\ q.step = "distribute" /\ q.todo = Entitled
              /\ declaration.status = "declared"
           \/ q.step = "done"
  <2>1. CASE /\ Processable(declaration.status)
             /\ processing' = [processing EXCEPT ![c].step = "distribute",
                                                 ![c].todo = Entitled]
    <3> DEFINE q == [processing[c] EXCEPT !.step = "distribute",
                                          !.todo = Entitled]
    <3>1. processing' = [processing EXCEPT ![c] = q]
      BY <1>1, <2>1
    <3>2. q \in Run /\ q.step = "distribute" /\ q.todo = Entitled
      BY <1>1, <1>3 DEF Run
    <3> HIDE DEF q
    <3>3. QED
      BY <2>1, <3>1, <3>2 DEF Processable
  <2>2. CASE processing' = [processing EXCEPT ![c].step = "done"]
    <3> DEFINE q == [processing[c] EXCEPT !.step = "done"]
    <3>1. processing' = [processing EXCEPT ![c] = q]
      BY <1>1, <2>2
    <3>2. q \in Run /\ q.step = "done"
      BY <1>1 DEF Run
    <3> HIDE DEF q
    <3>3. QED
      BY <3>1, <3>2
  <2>3. QED
    BY <2>1, <2>2 DEF ReadDeclaration
<1>5. /\ processing' \in [Calls -> Run] /\ processing'[c] = q
      /\ \A d \in Calls : d # c => processing'[d] = processing[d]
  BY <1>1, <1>4
<1>6. DividendsTyped'
  BY <1>1, <1>5 DEF DividendsInv, DividendsTyped, Run
<1>7. Covering'
  <2>1. \A d \in Calls : d # c => (Running(d)' <=> Running(d))
    BY <1>5 DEF Running
  <2>2. Running(c)' => q.todo = Entitled
    BY <1>4, <1>5 DEF Running
  <2>3. QED
    BY <1>1, <1>2, <1>5, <2>1, <2>2 DEF DividendsInv, Covering, Complete
<1>8. host = "serial" => Orderly'
  <2>1. \A d \in Calls : d # c => (Running(d)' <=> Running(d))
    BY <1>5 DEF Running
  <2>2. Running(c)' => declaration.status = "declared"
    BY <1>4, <1>5 DEF Running
  <2>3. QED
    BY <1>1, <2>1, <2>2 DEF DividendsInv, Orderly
<1>9. QED
  BY <1>1, <1>6, <1>7, <1>8 DEF DividendsInv

LEMMA DistributeKeeps ==
  ASSUME DividendsInv, NEW c \in Calls, Distribute(c)
  PROVE  DividendsInv'
<1>1. /\ UNCHANGED <<host, declaration, paid>> /\ Running(c)
      /\ processing \in [Calls -> Run] /\ processing[c] \in Run
      /\ distribution \in [Holders -> {"none", "pending", "paid"}]
      /\ processing[c].todo \subseteq Entitled
  BY RunIs DEF Distribute, DividendsInv, Covering
<1>2. Entitled' = Entitled /\ Entitled \subseteq Holders
  BY <1>1, EntitledStays DEF Entitled
<1>3. PICK h \in processing[c].todo :
        \/ /\ distribution' = [distribution EXCEPT ![h] = "pending"]
           /\ processing' = [processing EXCEPT ![c].todo = @ \ {h},
                                               ![c].total = @ + Amount(h)]
        \/ /\ processing' = [processing EXCEPT ![c] = AfterFailure(@, h)]
           /\ UNCHANGED distribution
  BY DEF Distribute
<1>4. h \in Holders /\ h \in Entitled
  BY <1>1, <1>2
<1>5. CASE /\ distribution' = [distribution EXCEPT ![h] = "pending"]
           /\ processing' = [processing EXCEPT ![c].todo = @ \ {h},
                                               ![c].total = @ + Amount(h)]
  <2> DEFINE q == [processing[c] EXCEPT !.todo = @ \ {h},
                                        !.total = @ + Amount(h)]
  <2>1. processing' = [processing EXCEPT ![c] = q]
    BY <1>1, <1>5
  <2>2. /\ q \in Run /\ q.step = "distribute"
        /\ q.todo = processing[c].todo \ {h}
    <3>1. processing[c].total + Amount(h) \in Nat
      BY <1>1, <1>4, DividendAmountIsNat DEF Run
    <3>2. QED
      BY <1>1, <3>1 DEF Run, Running
  <2> HIDE DEF q
  <2>3. /\ processing' \in [Calls -> Run] /\ processing'[c] = q
        /\ \A d \in Calls : d # c => processing'[d] = processing[d]
    BY <1>1, <2>1, <2>2
  <2>4. /\ distribution' \in [Holders -> {"none", "pending", "paid"}]
        /\ distribution'[h] = "pending"
        /\ \A i \in Holders : i # h => distribution'[i] = distribution[i]
    BY <1>1, <1>4, <1>5
  <2>5. \A d \in Calls : Running(d)' <=> Running(d)
    BY <1>1, <2>2, <2>3 DEF Running
  <2>6. DividendsTyped'
    BY <1>1, <2>3, <2>4 DEF DividendsInv, DividendsTyped, Run
  <2>7. Covering'
    <3>1. \A i \in Holders : distribution[i] # "none" => distribution'[i] # "none"
      BY <2>4
    <3>2. \A i \in Holders : distribution'[i] # "none" => i \in Entitled
      BY <1>4, <2>4 DEF DividendsInv, Covering
    <3>3. ASSUME NEW d \in Calls, Running(d)
          PROVE  /\ processing'[d].todo \subseteq Entitled
                 /\ \A i \in Entitled \ processing'[d].todo :
                      distribution'[i] # "none"
      <4>1. /\ processing[d].todo \subseteq Entitled
            /\ \A i \in Entitled \ processing[d].todo : distribution'[i] # "none"
        BY <1>2, <3>1, <3>3 DEF DividendsInv, Covering
      <4>2. QED
        BY <2>2, <2>3, <2>4, <4>1
    <3>4. declaration.status = "record_set" => Complete'
      BY <1>2, <3>1, <3>2 DEF DividendsInv, Covering, Complete
    <3>5. QED
      BY <1>1, <1>2, <2>5, <3>2, <3>3, <3>4 DEF Covering
  <2>8. host = "serial" => Orderly'
    <3> SUFFICES ASSUME host = "serial" PROVE Orderly'
      OBVIOUS
    <3>1. Orderly /\ declaration.status = "declared"
      BY <1>1 DEF DividendsInv, Orderly
    <3>2. distribution[h] # "paid"
      BY <1>4, <3>1 DEF Orderly
    <3>3. \A i \in Holders :
            distribution'[i] = "paid" <=> distribution[i] = "paid"
      BY <2>4, <3>2
    <3>4. QED
      BY <1>1, <2>5, <3>1, <3>3 DEF Orderly
  <2>9. QED
    BY <1>1, <2>6, <2>7, <2>8 DEF DividendsInv
<1>6. CASE /\ processing' = [processing EXCEPT ![c] = AfterFailure(@, h)]
           /\ UNCHANGED distribution
  <2> DEFINE q == [processing[c] EXCEPT !.step = "done"]
  <2>1. processing' = [processing EXCEPT ![c] = q]
    BY <1>6 DEF AfterFailure
  <2>2. q \in Run /\ q.step = "done"
    BY <1>1 DEF Run
  <2> HIDE DEF q
  <2>3. /\ processing' \in [Calls -> Run] /\ processing'[c] = q
        /\ \A d \in Calls : d # c => processing'[d] = processing[d]
    BY <1>1, <2>1, <2>2
  <2>4. \A d \in Calls : Running(d)' => Running(d) /\ d # c
    BY <2>2, <2>3 DEF Running
  <2>5. DividendsTyped'
    BY <1>1, <1>6, <2>3 DEF DividendsInv, DividendsTyped, Run
  <2>6. Covering'
    BY <1>1, <1>2, <1>6, <2>3, <2>4 DEF DividendsInv, Covering, Complete
  <2>7. host = "serial" => Orderly'
    BY <1>1, <1>6, <2>4 DEF DividendsInv, Orderly
  <2>8. QED
    BY <1>1, <2>5, <2>6, <2>7 DEF DividendsInv
<1>7. QED
  BY <1>3, <1>5, <1>6

LEMMA CloseKeeps ==
  ASSUME DividendsInv, NEW c \in Calls, CloseRecord(c)
  PROVE  DividendsInv'
<1>1. /\ UNCHANGED <<host, distribution, paid>> /\ Running(c)
      /\ processing[c].todo = {}
      /\ processing \in [Calls -> Run] /\ processing[c] \in Run
      /\ declaration \in Declaration
  BY RunIs DEF CloseRecord, DividendsInv
<1> DEFINE q == [processing[c] EXCEPT !.step = "done"]
<1>2. processing' = [processing EXCEPT ![c] = q]
  BY <1>1 DEF CloseRecord
<1>3. q \in Run /\ q.step = "done"
  BY <1>1 DEF Run
<1> HIDE DEF q
<1>4. /\ processing' \in [Calls -> Run] /\ processing'[c] = q
      /\ \A d \in Calls : d # c => processing'[d] = processing[d]
  BY <1>1, <1>2, <1>3
<1>5. \A d \in Calls : Running(d)' => Running(d) /\ d # c
  BY <1>3, <1>4 DEF Running
<1>6. /\ declaration' \in Declaration /\ declaration'.type = declaration.type
      /\ \/ declaration'.status = "record_set"
         \/ declaration'.status = declaration.status
  <2>1. CASE UNCHANGED declaration
    BY <1>1, <2>1
  <2>2. CASE declaration' = [declaration EXCEPT !.status = "record_set",
                                                !.total = processing[c].total]
    <3>1. processing[c].total \in Nat
      BY <1>1 DEF Run
    <3>2. QED
      BY <1>1, <2>2, <3>1 DEF Declaration
  <2>3. QED
    BY <2>1, <2>2 DEF CloseRecord
<1>7. Entitled' = Entitled /\ Entitled \subseteq Holders
  BY <1>6, EntitledStays DEF Entitled
<1>8. Complete
  BY <1>1, <1>7 DEF DividendsInv, Covering, Complete
<1>9. DividendsTyped'
  BY <1>1, <1>4, <1>6 DEF DividendsInv, DividendsTyped, Run
<1>10. Covering'
  BY <1>1, <1>4, <1>5, <1>7, <1>8 DEF DividendsInv, Covering, Complete
<1>11. host = "serial" => Orderly'
  <2> SUFFICES ASSUME host = "serial" PROVE Orderly'
    OBVIOUS
  <2>1. Orderly /\ declaration.status = "declared"
    BY <1>1 DEF DividendsInv, Orderly
  <2>2. \A d \in Calls : ~Running(d)'
    BY <1>1, <1>5, <2>1 DEF Orderly
  <2>3. QED
    BY <1>1, <2>1, <2>2 DEF Orderly
<1>12. QED
  BY <1>1, <1>9, <1>10, <1>11 DEF DividendsInv

LEMMA PaidKeeps ==
  ASSUME DividendsInv, NEW h \in Holders, MarkPaid(h)
  PROVE  DividendsInv'
<1>1. /\ UNCHANGED <<host, declaration, processing>>
      /\ distribution[h] = "pending"
      /\ host = "serial" => declaration.status = "record_set"
      /\ distribution' = [distribution EXCEPT ![h] = "paid"]
      /\ paid' = [paid EXCEPT ![h] = @ + 1]
  BY DEF MarkPaid
<1>2. /\ distribution \in [Holders -> {"none", "pending", "paid"}]
      /\ paid \in [Holders -> Nat] /\ processing \in [Calls -> Run]
  BY RunIs DEF DividendsInv
<1>3. /\ distribution' \in [Holders -> {"none", "pending", "paid"}]
      /\ distribution'[h] = "paid"
      /\ \A i \in Holders : i # h => distribution'[i] = distribution[i]
      /\ paid' \in [Holders -> Nat] /\ paid'[h] = paid[h] + 1
      /\ \A i \in Holders : i # h => paid'[i] = paid[i]
  BY <1>1, <1>2
<1>4. Entitled' = Entitled /\ Entitled \subseteq Holders
  BY <1>1, EntitledStays DEF Entitled
<1>5. \A i \in Holders : distribution'[i] # "none" <=> distribution[i] # "none"
  BY <1>1, <1>3
<1>6. DividendsTyped'
  BY <1>1, <1>3 DEF DividendsInv, DividendsTyped
<1>7. Covering'
  BY <1>1, <1>4, <1>5 DEF DividendsInv, Covering, Complete, Running
<1>8. host = "serial" => Orderly'
  <2> SUFFICES ASSUME host = "serial" PROVE Orderly'
    OBVIOUS
  <2>1. Orderly /\ paid[h] = 0
    BY <1>1 DEF DividendsInv, Orderly
  <2>2. QED
    BY <1>1, <1>3, <2>1 DEF Orderly, Running
<1>9. QED
  BY <1>1, <1>6, <1>7, <1>8 DEF DividendsInv

LEMMA DividendsInvHolds == DividendsSpec => []DividendsInv
<1>1. DividendsInv /\ [NextDividends]_dvars => DividendsInv'
  <2> SUFFICES ASSUME DividendsInv, [NextDividends]_dvars
               PROVE  DividendsInv'
    OBVIOUS
  <2>1. CASE NextDividends
    BY <2>1, DeclareKeeps, ReadKeeps, DistributeKeeps, CloseKeeps, PaidKeeps
       DEF NextDividends
  <2>2. CASE UNCHANGED dvars
    BY <2>2 DEF dvars, dividends, DividendsInv, DividendsTyped, Covering,
                Complete, Entitled, Orderly, Running
  <2>3. QED
    BY <2>1, <2>2
<1>2. QED
  BY <1>1, DividendsInvInit, PTL DEF DividendsSpec, dvars

(* What calls add up: the total of a call that distributes is that of the  *)
(* holders it has dealt with, finitely many however many there are.        *)
Due == [h \in Holders |-> Amount(h)]

AddsUp(run) ==
  /\ run.step = "idle" => run.total = 0
  /\ run.step = "distribute" =>
       /\ IsFiniteSet(Entitled \ run.todo)
       /\ run.total = SumFunctionOnSet(Due, Entitled \ run.todo)

SumsUp ==
  /\ \A c \in Calls : AddsUp(processing[c])
  /\ declaration.status = "record_set" =>
       declaration.total = SumFunctionOnSet(Due, Entitled)

LEMMA DueStays ==
  ASSUME declaration'.type = declaration.type
  PROVE  Due' = Due /\ Entitled' = Entitled
BY DEF Due, Amount, Entitled

LEMMA SumsInit == host \in Host /\ InitDividends => SumsUp
<1> SUFFICES ASSUME InitDividends PROVE SumsUp
  OBVIOUS
<1>1. declaration.status = "absent"
  BY DEF InitDividends
<1> DEFINE p == [step |-> "idle", todo |-> {}, total |-> 0]
<1>2. processing = [c \in Calls |-> p]
  BY DEF InitDividends
<1>3. AddsUp(p)
  BY DEF AddsUp
<1> HIDE DEF p
<1>4. QED
  BY <1>1, <1>2, <1>3 DEF SumsUp

(* A step that replaces a call's state by one that adds up, and leaves the *)
(* declaration be.                                                         *)
LEMMA SumsReplace ==
  ASSUME DividendsTyped, SumsUp, UNCHANGED declaration, NEW c \in Calls, NEW q,
         AddsUp(q), processing' = [processing EXCEPT ![c] = q]
  PROVE  SumsUp'
<1>1. processing \in [Calls -> Run]
  BY RunIs
<1>2. \A d \in Calls : processing'[d] = IF d = c THEN q ELSE processing[d]
  BY <1>1
<1>3. \A d \in Calls : AddsUp(processing'[d])
  BY <1>2 DEF SumsUp
<1>4. Due' = Due /\ Entitled' = Entitled
  BY DueStays
<1>5. QED
  BY <1>3, <1>4 DEF SumsUp, AddsUp

LEMMA SumsRead ==
  ASSUME DividendsTyped, SumsUp, NEW c \in Calls, ReadDeclaration(c)
  PROVE  SumsUp'
<1>1. /\ UNCHANGED declaration /\ processing[c].step = "idle"
      /\ processing \in [Calls -> Run] /\ processing[c] \in Run
  BY RunIs DEF ReadDeclaration
<1>2. CASE processing' = [processing EXCEPT ![c].step = "distribute",
                                            ![c].todo = Entitled]
  <2> DEFINE q == [processing[c] EXCEPT !.step = "distribute",
                                        !.todo = Entitled]
  <2>1. processing' = [processing EXCEPT ![c] = q]
    BY <1>1, <1>2
  <2>2. q.step = "distribute" /\ q.todo = Entitled /\ q.total = 0
    BY <1>1 DEF Run, SumsUp, AddsUp
  <2> HIDE DEF q
  <2>3. Entitled \ q.todo = {}
    BY <2>2
  <2>4. AddsUp(q)
    BY <2>2, <2>3, SumEmpty, FS_EmptySet DEF AddsUp
  <2>5. QED
    BY <1>1, <2>1, <2>4, SumsReplace
<1>3. CASE processing' = [processing EXCEPT ![c].step = "done"]
  <2> DEFINE q == [processing[c] EXCEPT !.step = "done"]
  <2>1. processing' = [processing EXCEPT ![c] = q]
    BY <1>1, <1>3
  <2>2. q.step = "done"
    BY <1>1 DEF Run
  <2> HIDE DEF q
  <2>3. QED
    BY <1>1, <2>1, <2>2, SumsReplace DEF AddsUp
<1>4. QED
  BY <1>2, <1>3 DEF ReadDeclaration

LEMMA SumsDistribute ==
  ASSUME DividendsInv, SumsUp, NEW c \in Calls, Distribute(c)
  PROVE  SumsUp'
<1>1. /\ UNCHANGED declaration /\ processing[c].step = "distribute"
      /\ processing \in [Calls -> Run] /\ processing[c] \in Run
      /\ processing[c].todo \subseteq Entitled /\ Entitled \subseteq Holders
      /\ DividendsTyped
  BY RunIs DEF Distribute, Running, DividendsInv, Covering, Entitled
<1>2. PICK h \in processing[c].todo :
        \/ processing' = [processing EXCEPT ![c].todo = @ \ {h},
                                            ![c].total = @ + Amount(h)]
        \/ processing' = [processing EXCEPT ![c] = AfterFailure(@, h)]
  BY DEF Distribute
<1>3. CASE processing' = [processing EXCEPT ![c].todo = @ \ {h},
                                            ![c].total = @ + Amount(h)]
  <2> DEFINE q == [processing[c] EXCEPT !.todo = @ \ {h},
                                        !.total = @ + Amount(h)]
             old == Entitled \ processing[c].todo
  <2>1. processing' = [processing EXCEPT ![c] = q]
    BY <1>1, <1>3
  <2>2. /\ q.step = "distribute" /\ q.todo = processing[c].todo \ {h}
        /\ q.total = processing[c].total + Amount(h)
    BY <1>1 DEF Run
  <2> HIDE DEF q
  <2>3. /\ IsFiniteSet(old)
        /\ processing[c].total = SumFunctionOnSet(Due, old)
    BY <1>1 DEF SumsUp, AddsUp
  <2>4. Entitled \ q.todo = old \cup {h} /\ h \notin old
    BY <1>1, <1>2, <2>2
  <2>5. \A i \in old \cup {h} : Due[i] \in Int
    BY <1>1, <1>2, DividendAmountIsNat DEF Due
  <2>6. /\ IsFiniteSet(old \cup {h})
        /\ SumFunctionOnSet(Due, old \cup {h})
             = Due[h] + SumFunctionOnSet(Due, old)
    BY <2>3, <2>4, <2>5, SumAdd, FS_AddElement
  <2>7. /\ Due[h] = Amount(h) /\ Amount(h) \in Nat
        /\ processing[c].total \in Nat
    BY <1>1, <1>2, DividendAmountIsNat DEF Due, Run
  <2>8. q.total = SumFunctionOnSet(Due, old \cup {h})
    BY <2>2, <2>3, <2>6, <2>7
  <2>9. AddsUp(q)
    BY <2>2, <2>4, <2>6, <2>8 DEF AddsUp
  <2>10. QED
    BY <1>1, <2>1, <2>9, SumsReplace
<1>4. CASE processing' = [processing EXCEPT ![c] = AfterFailure(@, h)]
  <2> DEFINE q == [processing[c] EXCEPT !.step = "done"]
  <2>1. processing' = [processing EXCEPT ![c] = q]
    BY <1>1, <1>4 DEF AfterFailure
  <2>2. q.step = "done"
    BY <1>1 DEF Run
  <2> HIDE DEF q
  <2>3. QED
    BY <1>1, <2>1, <2>2, SumsReplace DEF AddsUp
<1>5. QED
  BY <1>2, <1>3, <1>4

LEMMA SumsClose ==
  ASSUME DividendsInv, SumsUp, NEW c \in Calls, CloseRecord(c)
  PROVE  SumsUp'
<1>1. /\ processing[c].step = "distribute" /\ processing[c].todo = {}
      /\ processing \in [Calls -> Run] /\ processing[c] \in Run
      /\ declaration \in Declaration
      /\ processing' = [processing EXCEPT ![c].step = "done"]
  BY RunIs DEF CloseRecord, Running, DividendsInv
<1> DEFINE q == [processing[c] EXCEPT !.step = "done"]
<1>2. processing' = [processing EXCEPT ![c] = q]
  BY <1>1
<1>3. q.step = "done"
  BY <1>1 DEF Run
<1> HIDE DEF q
<1>4. \A d \in Calls : AddsUp(processing'[d])
  BY <1>1, <1>2, <1>3 DEF SumsUp, AddsUp
<1>5. Entitled \ processing[c].todo = Entitled
  BY <1>1
<1>6. processing[c].total = SumFunctionOnSet(Due, Entitled)
  BY <1>1, <1>5 DEF SumsUp, AddsUp
<1>7. /\ declaration'.type = declaration.type
      /\ \/ declaration'.total = processing[c].total
         \/ UNCHANGED declaration
  BY <1>1 DEF CloseRecord, Declaration
<1>8. Due' = Due /\ Entitled' = Entitled
  BY <1>7, DueStays
<1>9. declaration'.status = "record_set" =>
        declaration'.total = SumFunctionOnSet(Due, Entitled)
  BY <1>6, <1>7 DEF SumsUp
<1>10. QED
  BY <1>4, <1>8, <1>9 DEF SumsUp, AddsUp

LEMMA SumsStep == DividendsInv /\ SumsUp /\ [NextDividends]_dvars => SumsUp'
<1> SUFFICES ASSUME DividendsInv, SumsUp, [NextDividends]_dvars PROVE SumsUp'
  OBVIOUS
<1>1. DividendsTyped /\ declaration \in Declaration
  BY DEF DividendsInv, DividendsTyped
<1>2. CASE UNCHANGED <<declaration, processing>>
  <2>1. Due' = Due /\ Entitled' = Entitled
    BY <1>2, DueStays
  <2>2. QED
    BY <1>2, <2>1 DEF SumsUp, AddsUp
<1>3. CASE Declare
  <2>1. /\ declaration'.type = declaration.type
        /\ declaration'.status # "record_set" /\ UNCHANGED processing
    BY <1>1, <1>3 DEF Declare, Declaration
  <2>2. Due' = Due /\ Entitled' = Entitled
    BY <2>1, DueStays
  <2>3. QED
    BY <2>1, <2>2 DEF SumsUp, AddsUp
<1>4. QED
  BY <1>1, <1>2, <1>3, SumsRead, SumsDistribute, SumsClose
     DEF NextDividends, MarkPaid, dvars, dividends

(* The variables keep to their sets, however many calls overlap.           *)
THEOREM DividendsTypes == DividendsSpec => []DividendsTyped
<1>1. DividendsInv => DividendsTyped
  BY DEF DividendsInv
<1>2. QED
  BY <1>1, DividendsInvHolds, PTL

(* Once ProcessRecordDate has closed a declaration there is a distribution *)
(* for everyone entitled to one and for nobody else, whichever calls       *)
(* overlapped or failed half way before.                                   *)
THEOREM NobodyLeftOut ==
  DividendsSpec => [](declaration.status = "record_set" => Complete)
<1>1. DividendsInv => (declaration.status = "record_set" => Complete)
  BY DEF DividendsInv, Covering
<1>2. QED
  BY <1>1, DividendsInvHolds, PTL

(* The total of a closed declaration is that of the distributions of all   *)
(* who are entitled, whichever calls overlapped or failed before.          *)
THEOREM TotalIsTheirs == DividendsSpec => []DistributionsComplete
<1>1. DividendsInv /\ SumsUp => DistributionsComplete
  BY DEF DividendsInv, Covering, Complete, SumsUp, Due, DistributionsComplete
<1>2. QED
  BY <1>1, DividendsInvHolds, SumsInit, SumsStep, PTL DEF DividendsSpec, dvars

(* A host that makes one call at a time and pays after the record date is  *)
(* processed pays nobody twice, whatever failed in between.                *)
THEOREM NobodyPaidTwice == DividendsSpec => []PaidOnce
<1>1. DividendsInv => PaidOnce
  BY DEF DividendsInv, Orderly, PaidOnce
<1>2. QED
  BY <1>1, DividendsInvHolds, PTL
=============================================================================
