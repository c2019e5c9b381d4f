-------------------------- MODULE ComplianceProofs --------------------------
(***************************************************************************)
(* What holds of filings for any number of calls and any retry budget.     *)
(***************************************************************************)
EXTENDS Compliance, TLAPS

(***************************************************************************)
(* One call.                                                               *)
(***************************************************************************)

(* Answers a recorded call can end with when it read an acknowledgment.    *)
Kept(op) ==
  IF op \in FormOps THEN {"accepted", "pending", "blank", "suspended"}
  ELSE Taken \cup {"blank", "rejected"}

Told(q) == ~q.login /\ q.op \notin Lookups /\ q.answer \in Taken

Stored == {"recorded", "unsaved"}

(* Call q of which the agency holds f copies, l of them unknown to it.     *)
Local(q, f, l) ==
  /\ q.step = "idle" => q.op = "none"
  /\ q.step # "idle" => q.op \in Op
  /\ q.step \in {"idle", "check", "authenticate", "send"} => q.answer = "none"
  /\ q.login => q.step \in {"send", "replied", "hold"}
  /\ q.step = "hold" => q.login
  /\ q.step = "replied" /\ ~q.login /\ q.op \in Recorded =>
       q.answer \in Kept(q.op) \cup Errors \cup {"rejected", "garbled"}
  /\ q.result # "none" <=> q.step \in {"save", "done"}
  /\ q.step = "save" => q.op \in Recorded /\ q.result = "acknowledged"
  /\ q.result \in Stored => q.step = "done" /\ q.op \in Recorded
  /\ q.step = "save" \/ q.result \in Stored => q.answer \in Kept(q.op)
  /\ q.step = "done" /\ q.op \in Recorded /\ q.result \notin Stored =>
       q.answer = "none"
  /\ f = l + (IF Told(q) THEN 1 ELSE 0)

LocalInv == \A c \in Calls : Local(call[c], filed[c], lost[c])

ClientTyped ==
  /\ state \in States
  /\ token \in {"none", "live", "revoked", "expired"}
  /\ expiry \in {"ahead", "near", "past"}
  /\ call \in [Calls -> Call]
  /\ filed \in [Calls -> Nat]
  /\ lost \in [Calls -> Nat]

Results ==
  {"unloaded", "unsupported", "not_implemented", "invalid", "no_credentials",
   "login_failed", "cancelled", "not_found", "unparsed", "rejected",
   "refused", "unauthorized", "rate_limited", "unavailable", "transport",
   "acknowledged"}

(* What Return makes of a call.                                            *)
LEMMA ReturnFacts ==
  ASSUME call \in [Calls -> Call], NEW c \in Calls, NEW result \in Results,
         Return(c, result)
  PROVE  \E q \in Call :
           /\ call' = [call EXCEPT ![c] = q]
           /\ q.op = call[c].op /\ q.result = result
           /\ ~q.login /\ q.attempt = 0
           /\ q.step = IF result = "acknowledged" /\ call[c].op \in Recorded
                       THEN "save" ELSE "done"
           /\ q.answer = IF result = "acknowledged" THEN call[c].answer
                         ELSE "none"
<1> DEFINE s == IF result = "acknowledged" /\ call[c].op \in Recorded
                THEN "save" ELSE "done"
           a == IF result = "acknowledged" THEN call[c].answer ELSE "none"
           q == [call[c] EXCEPT !.step = s, !.result = result,
                                !.login = FALSE, !.attempt = 0, !.answer = a]
<1>1. call[c] \in Call
  OBVIOUS
<1>2. s \in {"save", "done"} /\ a \in Answer \cup {"none"}
  BY <1>1 DEF Call
<1>3. call' = [call EXCEPT ![c].step = s, ![c].result = result,
                           ![c].login = FALSE, ![c].attempt = 0,
                           ![c].answer = a]
  BY <1>1 DEF Return
<1> HIDE DEF s, a
<1>4. q \in Call
  BY ZenonT(60), <1>1, <1>2 DEF Call, Results
<1>5. call' = [call EXCEPT ![c] = q]
  BY <1>3
<1>6. q.op = call[c].op /\ q.result = result /\ ~q.login /\ q.attempt = 0
      /\ q.step = s /\ q.answer = a
  BY <1>1 DEF Call
<1> HIDE DEF q
<1>7. QED
  BY <1>4, <1>5, <1>6 DEF s, a

(* What a step of call c does: the call moves on, still under its          *)
(* operation, and the agency never loses a copy.                           *)
Moves(c) ==
  \E q \in Call :
    /\ call' = [call EXCEPT ![c] = q]
    /\ filed' = [filed EXCEPT ![c] = filed'[c]]
    /\ filed'[c] \in Nat /\ filed[c] <= filed'[c]
    /\ lost' = [lost EXCEPT ![c] = lost'[c]]
    /\ lost'[c] \in Nat
    /\ call[c].step \notin {"idle", "save", "done"}
    /\ q.op = call[c].op /\ q.step # "idle"
    /\ q.result \notin Stored
    /\ Local(q, filed'[c], lost'[c])

(* A return without an acknowledgment, of a call nothing acknowledged.     *)
LEMMA ReturnMoves ==
  ASSUME ClientTyped, LocalInv, NEW c \in Calls,
         NEW result \in Results \ {"acknowledged"},
         call[c].step \notin {"idle", "save", "done"},
         ~Told(call[c]),
         Return(c, result), UNCHANGED <<filed, lost>>
  PROVE  Moves(c)
<1>1. PICK q \in Call :
           /\ call' = [call EXCEPT ![c] = q]
           /\ q.op = call[c].op /\ q.result = result
           /\ ~q.login /\ q.attempt = 0
           /\ q.step = "done" /\ q.answer = "none"
  BY ReturnFacts DEF ClientTyped
<1>2. filed[c] \in Nat /\ lost[c] \in Nat /\ filed[c] = lost[c]
      /\ call[c].op \in Op
  BY DEF ClientTyped, LocalInv, Local
<1>3. ~Told(q)
  BY <1>1 DEF Told, Taken
<1>4. q.result \notin Stored /\ q.result # "none"
  BY <1>1 DEF Results, Stored
<1>5. Local(q, filed[c], lost[c])
  BY <1>1, <1>2, <1>3, <1>4 DEF Local
<1>6. /\ filed' = [filed EXCEPT ![c] = filed'[c]] /\ filed'[c] = filed[c]
      /\ lost' = [lost EXCEPT ![c] = lost'[c]] /\ lost'[c] = lost[c]
  BY DEF ClientTyped
<1>7. /\ filed'[c] \in Nat /\ filed[c] <= filed'[c] /\ lost'[c] \in Nat
      /\ Local(q, filed'[c], lost'[c])
  BY <1>2, <1>5, <1>6
<1>8. QED
  BY <1>1, <1>4, <1>6, <1>7, Zenon DEF Moves

(* A step on the way: nothing is filed, no answer is kept.                 *)
LEMMA OnwardMoves ==
  ASSUME ClientTyped, LocalInv, NEW c \in Calls, NEW q \in Call,
         call[c].step \notin {"idle", "save", "done"}, ~Told(call[c]),
         call' = [call EXCEPT ![c] = q],
         q.op = call[c].op, q.result = call[c].result, ~Told(q),
         \/ q.step \in {"authenticate", "send"} /\ q.answer = "none"
         \/ q.step = "hold" /\ q.login,
         q.login => q.step \in {"send", "hold"},
         UNCHANGED <<filed, lost>>
  PROVE  Moves(c)
<1>1. filed[c] \in Nat /\ lost[c] \in Nat /\ filed[c] = lost[c]
      /\ call[c].op \in Op /\ call[c].result = "none"
  BY DEF ClientTyped, LocalInv, Local
<1>2. Local(q, filed[c], lost[c]) /\ q.result \notin Stored
  BY <1>1 DEF Local, Stored
<1>3. /\ filed' = [filed EXCEPT ![c] = filed'[c]] /\ filed'[c] = filed[c]
      /\ lost' = [lost EXCEPT ![c] = lost'[c]] /\ lost'[c] = lost[c]
  BY DEF ClientTyped
<1>4. /\ filed'[c] \in Nat /\ filed[c] <= filed'[c] /\ lost'[c] \in Nat
      /\ Local(q, filed'[c], lost'[c])
  BY <1>1, <1>2, <1>3
<1>5. q.step # "idle"
  OBVIOUS
<1>6. QED
  BY <1>2, <1>3, <1>4, <1>5, Zenon DEF Moves

LEMMA CheckMoves ==
  ASSUME ClientTyped, LocalInv, NEW c \in Calls,
         Unsupported(c) \/ Invalid(c) \/ NotImplemented(c) \/ Checked(c)
  PROVE  Moves(c) /\ UNCHANGED <<state, token, expiry>>
<1>1. call[c] \in Call /\ call[c].step = "check"
  BY DEF ClientTyped, Unsupported, Invalid, NotImplemented, Checked, At
<1>2. ~Told(call[c]) /\ ~call[c].login /\ call[c].answer = "none"
  BY <1>1 DEF LocalInv, Local, Told, Taken
<1>3. CASE Unsupported(c) \/ Invalid(c) \/ NotImplemented(c)
  <2>1. PICK result \in Results \ {"acknowledged"} : Return(c, result)
    BY <1>3 DEF Unsupported, Invalid, NotImplemented, Results
  <2>2. UNCHANGED <<state, token, expiry, filed, lost>>
    BY <1>3 DEF Unsupported, Invalid, NotImplemented
  <2>3. QED
    BY <1>1, <1>2, <2>1, <2>2, ReturnMoves
<1>4. CASE Checked(c)
  <2> DEFINE s == IF Via(c) = "efd" THEN "authenticate" ELSE "send"
             q == [call[c] EXCEPT !.step = s]
  <2>1. /\ call' = [call EXCEPT ![c].step = s]
        /\ UNCHANGED <<state, token, expiry, filed, lost>>
    BY <1>4 DEF Checked, GoTo
  <2>2. s \in {"authenticate", "send"}
    OBVIOUS
  <2> HIDE DEF s
  <2>3. call' = [call EXCEPT ![c] = q]
    BY <2>1
  <2>4. /\ q \in Call /\ q.step = s /\ q.op = call[c].op
        /\ q.result = call[c].result /\ q.answer = "none" /\ ~q.login
    BY <1>1, <1>2, <2>2 DEF Call
  <2> HIDE DEF q
  <2>5. ~Told(q)
    BY <2>4 DEF Told, Taken
  <2>6. QED
    BY <1>1, <1>2, <2>1, <2>2, <2>3, <2>4, <2>5, OnwardMoves
<1>5. QED
  BY <1>3, <1>4

LEMMA AuthenticateMoves ==
  ASSUME ClientTyped, LocalInv, NEW c \in Calls, Authenticate(c)
  PROVE  Moves(c) /\ UNCHANGED <<state, token, expiry>>
<1>1. /\ call[c] \in Call /\ call[c].step = "authenticate"
      /\ UNCHANGED <<state, token, expiry, filed, lost>>
  BY DEF ClientTyped, Authenticate, At
<1>2. ~Told(call[c]) /\ ~call[c].login /\ call[c].answer = "none"
  BY <1>1 DEF LocalInv, Local, Told, Taken
<1>3. CASE Return(c, "no_credentials")
  BY <1>1, <1>2, <1>3, ReturnMoves DEF Results
<1> DEFINE Sending(l) == [call[c] EXCEPT !.step = "send", !.login = l]
<1>4. \A l \in BOOLEAN :
        /\ Sending(l) \in Call /\ Sending(l).step = "send"
        /\ Sending(l).op = call[c].op /\ Sending(l).result = call[c].result
        /\ Sending(l).answer = "none" /\ ~Told(Sending(l))
  BY <1>1, <1>2 DEF Call, Told, Taken
<1>5. CASE GoTo(c, "send")
  <2>1. call' = [call EXCEPT ![c] = [call[c] EXCEPT !.step = "send"]]
    BY <1>5 DEF GoTo
  <2>2. [call[c] EXCEPT !.step = "send"] = Sending(FALSE)
    BY <1>1, <1>2 DEF Call
  <2>3. call' = [call EXCEPT ![c] = Sending(FALSE)]
    BY <2>1, <2>2
  <2> HIDE DEF Sending
  <2>4. QED
    BY <1>1, <1>2, <1>4, <2>3, OnwardMoves
<1>6. CASE call' = [call EXCEPT ![c].step = "send", ![c].login = TRUE]
  <2>1. call' = [call EXCEPT ![c] = Sending(TRUE)]
    BY <1>6 DEF ClientTyped
  <2> HIDE DEF Sending
  <2>2. QED
    BY <1>1, <1>2, <1>4, <2>1, OnwardMoves
<1>7. QED
  BY <1>1, <1>3, <1>5, <1>6 DEF Authenticate

LEMMA LoginMoves ==
  ASSUME ClientTyped, LocalInv, NEW c \in Calls, LoginDone(c)
  PROVE  Moves(c) /\ UNCHANGED state
<1>1. /\ call[c] \in Call /\ call[c].step = "hold"
      /\ UNCHANGED <<state, filed, lost>>
  BY DEF ClientTyped, LoginDone, At
<1>2. ~Told(call[c])
  BY <1>1 DEF LocalInv, Local, Told
<1> DEFINE q == [call[c] EXCEPT !.step = "send", !.login = FALSE,
                                !.attempt = 0, !.answer = "none"]
<1>3. call' = [call EXCEPT ![c] = q]
  BY DEF LoginDone, ClientTyped
<1>4. /\ q \in Call /\ q.step = "send" /\ q.op = call[c].op
      /\ q.result = call[c].result /\ q.answer = "none" /\ ~q.login
  BY <1>1 DEF Call
<1> HIDE DEF q
<1>5. ~Told(q)
  BY <1>4 DEF Told, Taken
<1>6. QED
  BY <1>1, <1>2, <1>3, <1>4, <1>5, OnwardMoves

(* What one request can be answered with, and the copies it leaves.        *)
LEMMA OutcomeFacts ==
  ASSUME NEW c \in Calls, NEW t, NEW o \in Outcome(c, t)
  PROVE  /\ o.answer \in Answer /\ o.copies \in {0, 1}
         /\ o.answer \in Unread => o.answer \notin Taken
         /\ call[c].login \/ call[c].op \in Lookups => o.copies = 0
         /\ ~call[c].login /\ call[c].op \notin Lookups =>
              /\ o.copies = 1 <=> o.answer \in Taken
                                  \/ (o.copies = 1 /\ o.answer \in Unread)
              /\ o.answer \in Kept(call[c].op) \cup Errors
                              \cup {"rejected", "garbled"}
<1> DEFINE op == call[c].op
<1>1. /\ Failing = {"throttled", "unavailable", "dropped", "refused"}
      /\ Unread = {"unavailable", "dropped", "garbled", "blank"}
      /\ Taken = {"accepted", "approved", "pending"}
      /\ Errors = {"throttled", "unavailable", "dropped", "unauthorized",
                   "refused"}
  BY DEF Failing, Unread, Taken, Errors
<1>2. /\ Held(op) \subseteq Taken
      /\ op \in FormOps => Held(op) \subseteq {"accepted", "pending"}
      /\ Declined(op) \subseteq {"suspended", "rejected"}
      /\ op \notin FormOps => Declined(op) = {"rejected"}
  BY DEF Held, Declined, Taken, FormOps, NoticeOps
<1>3. /\ Failing \cup Unread \cup Taken \cup Errors \subseteq Answer
      /\ {"accepted", "garbled", "missing", "suspended", "rejected", "blank"}
           \subseteq Answer
  BY <1>1 DEF Answer, Reply
<1>4. CASE o \in [answer : Failing \cup Denied(c, t), copies : {0}]
  <2>1. o.copies = 0 /\ o.answer \in Failing \cup {"unauthorized"}
    BY <1>4 DEF Denied
  <2>2. QED
    BY <1>1, <1>3, <2>1
<1>5. CASE o \in Served(c)
  <2>1. CASE call[c].login
    <3>1. o.copies = 0 /\ o.answer \in {"accepted", "garbled"}
      BY <1>5, <2>1 DEF Served
    <3>2. QED
      BY <1>1, <1>3, <2>1, <3>1
  <2>2. CASE ~call[c].login /\ op \in Lookups
    <3>1. o.copies = 0 /\ o.answer \in {"accepted", "garbled", "missing"}
      BY <1>5, <2>2 DEF Served
    <3>2. QED
      BY <1>1, <1>3, <2>2, <3>1
  <2>3. CASE ~call[c].login /\ op \notin Lookups
    <3>1. \/ o.copies = 1 /\ o.answer \in Held(op) \cup Unread
          \/ o.copies = 0 /\ o.answer \in Declined(op)
                                            \cup {"garbled", "blank"}
      BY <1>5, <2>3 DEF Served
    <3>2. o.answer \in Kept(op) \cup Errors \cup {"rejected", "garbled"}
      BY <1>1, <1>2, <3>1 DEF Kept
    <3>3. QED
      BY <1>1, <1>2, <1>3, <2>3, <3>1, <3>2
  <2>4. QED
    BY <2>1, <2>2, <2>3
<1>6. QED
  BY <1>4, <1>5 DEF Outcome

LEMMA PostMoves ==
  ASSUME ClientTyped, LocalInv, NEW c \in Calls, Post(c)
  PROVE  Moves(c) /\ UNCHANGED <<state, token, expiry>>
<1>1. /\ call[c] \in Call /\ call[c].step = "send"
      /\ UNCHANGED <<state, token, expiry>>
  BY DEF ClientTyped, Post, At
<1>2. PICK t \in TokenRead(c) : \E o \in Outcome(c, t) :
        /\ call' = [call EXCEPT ![c].step = "replied", ![c].answer = o.answer]
        /\ filed' = [filed EXCEPT ![c] = @ + o.copies]
        /\ lost' = [lost EXCEPT ![c] =
                      @ + (IF o.answer \in Unread THEN o.copies ELSE 0)]
  BY Zenon DEF Post
<1>3. PICK o \in Outcome(c, t) :
        /\ call' = [call EXCEPT ![c].step = "replied", ![c].answer = o.answer]
        /\ filed' = [filed EXCEPT ![c] = @ + o.copies]
        /\ lost' = [lost EXCEPT ![c] =
                      @ + (IF o.answer \in Unread THEN o.copies ELSE 0)]
  BY <1>2
<1>4. /\ call[c].answer = "none" /\ call[c].op \in Op
      /\ call[c].result = "none" /\ filed[c] = lost[c]
      /\ filed[c] \in Nat /\ lost[c] \in Nat
  BY <1>1 DEF ClientTyped, LocalInv, Local, Told, Taken
<1>5. /\ o.answer \in Answer /\ o.copies \in {0, 1}
      /\ o.answer \in Unread => o.answer \notin Taken
      /\ call[c].login \/ call[c].op \in Lookups => o.copies = 0
      /\ ~call[c].login /\ call[c].op \notin Lookups =>
           /\ o.copies = 1 <=> o.answer \in Taken
                               \/ (o.copies = 1 /\ o.answer \in Unread)
           /\ o.answer \in Kept(call[c].op) \cup Errors
                           \cup {"rejected", "garbled"}
  BY OutcomeFacts
<1> DEFINE a == o.answer
           q == [call[c] EXCEPT !.step = "replied", !.answer = a]
<1>6. call' = [call EXCEPT ![c] = q]
  BY <1>3 DEF ClientTyped
<1>7. /\ q \in Call /\ q.step = "replied" /\ q.op = call[c].op
      /\ q.result = "none" /\ q.answer = a /\ q.login = call[c].login
  BY <1>1, <1>4, <1>5 DEF Call
<1>8. /\ filed'[c] = filed[c] + o.copies
      /\ lost'[c] = lost[c] + (IF a \in Unread THEN o.copies ELSE 0)
      /\ filed' = [filed EXCEPT ![c] = filed'[c]]
      /\ lost' = [lost EXCEPT ![c] = lost'[c]]
  BY <1>3 DEF ClientTyped
<1>9. /\ filed'[c] \in Nat /\ filed[c] <= filed'[c] /\ lost'[c] \in Nat
  BY <1>4, <1>5, <1>8
<1> HIDE DEF q
<1>10. filed'[c] = lost'[c] + (IF Told(q) THEN 1 ELSE 0)
  <2>1. CASE Told(q)
    <3>1. o.copies = 1 /\ a \notin Unread
      BY <1>5, <1>7, <2>1 DEF Told
    <3>2. QED
      BY <1>4, <1>8, <2>1, <3>1
  <2>2. CASE ~Told(q)
    <3>1. o.copies = 0 \/ a \in Unread
      BY <1>5, <1>7, <2>2 DEF Told
    <3>2. QED
      BY <1>4, <1>5, <1>8, <2>2, <3>1
  <2>3. QED
    BY <2>1, <2>2
<1>11. ~call[c].login /\ call[c].op \in Recorded => call[c].op \notin Lookups
  BY DEF Recorded, FormOps, Lookups
<1>12. Local(q, filed'[c], lost'[c]) /\ q.result \notin Stored
  BY <1>4, <1>5, <1>7, <1>10, <1>11 DEF Local, Stored
<1>13. q.step # "idle" /\ call[c].step \notin {"idle", "save", "done"}
  BY <1>1, <1>7
<1>14. Moves(c)
  BY <1>6, <1>7, <1>8, <1>9, <1>12, <1>13, Zenon DEF Moves
<1>15. QED
  BY <1>1, <1>14

(* What a loop makes of an answer.                                         *)
LEMMA SettledFacts ==
  ASSUME NEW op \in Op, NEW answer
  PROVE  /\ Settled(op, answer) \in Results
         /\ op \notin Lookups /\ answer \in Taken =>
              Settled(op, answer) = "acknowledged"
         /\ /\ op \in Recorded
            /\ answer \in Kept(op) \cup Errors \cup {"rejected", "garbled"}
            /\ Settled(op, answer) = "acknowledged"
            => answer \in Kept(op)
<1>1. Op = {"file_form_d", "amend_form_d", "file_notice", "renew_notice",
            "form_d_status", "notice_status", "fire_file"}
  BY DEF Op, FormOps, NoticeOps, Lookups
<1>2. /\ FormOps = {"file_form_d", "amend_form_d"}
      /\ NoticeOps = {"file_notice", "renew_notice"}
      /\ Lookups = {"form_d_status", "notice_status"}
      /\ Recorded = {"file_form_d", "amend_form_d", "file_notice"}
  BY DEF FormOps, NoticeOps, Lookups, Recorded
<1>3. answer \in Errors =>
        LoopError(answer) \in {"rate_limited", "unavailable", "transport",
                               "unauthorized", "refused"}
  BY DEF Errors, LoopError
<1>4. Errors \cap Taken = {} /\ {"rejected", "garbled"} \cap Taken = {}
  BY DEF Errors, Taken
<1>5. CASE op \in Lookups
  <2>1. Understood(op, answer) = LookupResult(answer)
    BY <1>2, <1>5 DEF Understood
  <2>2. LookupResult(answer) \in {"not_found", "unparsed", "acknowledged"}
    BY DEF LookupResult
  <2>3. QED
    BY <1>2, <1>3, <1>5, <2>1, <2>2 DEF Settled, Results
<1>6. CASE op \in FormOps
  <2>1. Understood(op, answer) = EdgarResult(answer)
    BY <1>2, <1>6 DEF Understood
  <2>2. /\ EdgarResult(answer) \in {"rejected", "unparsed", "acknowledged"}
        /\ EdgarResult(answer) = "acknowledged" <=>
             answer \notin {"rejected", "garbled"}
    BY DEF EdgarResult
  <2>3. QED
    BY <1>2, <1>3, <1>4, <1>6, <2>1, <2>2 DEF Settled, Results
<1>7. CASE op \in NoticeOps
  <2>1. Understood(op, answer) = NoticeResult(answer)
    BY <1>2, <1>7 DEF Understood
  <2>2. /\ NoticeResult(answer) \in {"unparsed", "acknowledged"}
        /\ NoticeResult(answer) = "acknowledged" <=> answer # "garbled"
    BY DEF NoticeResult
  <2>3. "rejected" \in Kept(op)
    BY <1>2, <1>7 DEF Kept
  <2>4. QED
    BY <1>2, <1>3, <1>4, <1>7, <2>1, <2>2, <2>3 DEF Settled, Results
<1>8. CASE op = "fire_file"
  <2>1. Understood(op, answer) = FireResult(answer)
    BY <1>2, <1>8 DEF Understood
  <2>2. /\ FireResult(answer) \in {"rejected", "unparsed", "acknowledged"}
        /\ FireResult(answer) = "acknowledged" <=>
             answer \notin {"rejected", "garbled"}
    BY DEF FireResult
  <2>3. QED
    BY <1>2, <1>3, <1>4, <1>8, <2>1, <2>2 DEF Settled, Results
<1>9. QED
  BY <1>1, <1>2, <1>5, <1>6, <1>7, <1>8

LEMMA SettleMoves ==
  ASSUME ClientTyped, LocalInv, NEW c \in Calls, Settle(c)
  PROVE  Moves(c) /\ UNCHANGED <<state, token, expiry>>
<1>1. /\ call[c] \in Call /\ call[c].step = "replied"
      /\ UNCHANGED <<state, token, expiry, filed, lost>>
  BY DEF ClientTyped, Settle, At
<1>2. /\ call[c].op \in Op /\ call[c].result = "none"
      /\ filed[c] = lost[c] + (IF Told(call[c]) THEN 1 ELSE 0)
      /\ ~call[c].login /\ call[c].op \in Recorded =>
           call[c].answer \in Kept(call[c].op) \cup Errors
                              \cup {"rejected", "garbled"}
      /\ filed[c] \in Nat /\ lost[c] \in Nat
  BY <1>1 DEF LocalInv, Local, ClientTyped
<1>3. CASE call[c].login
  <2>1. ~Told(call[c])
    BY <1>3 DEF Told
  <2>2. CASE GoTo(c, "hold")
    <3> DEFINE q == [call[c] EXCEPT !.step = "hold"]
    <3>1. call' = [call EXCEPT ![c] = q]
      BY <2>2 DEF GoTo
    <3>2. /\ q \in Call /\ q.step = "hold" /\ q.op = call[c].op
          /\ q.result = call[c].result /\ q.login
      BY <1>1, <1>3 DEF Call
    <3> HIDE DEF q
    <3>3. ~Told(q)
      BY <3>2 DEF Told
    <3>4. QED
      BY <1>1, <2>1, <3>1, <3>2, <3>3, OnwardMoves
  <2>3. CASE Return(c, "login_failed")
    BY <1>1, <2>1, <2>3, ReturnMoves DEF Results
  <2>4. QED
    BY <1>1, <1>3, <2>2, <2>3 DEF Settle
<1>4. CASE ~call[c].login
  <2> DEFINE r == Settled(call[c].op, call[c].answer)
  <2>1. Return(c, r)
    BY <1>4 DEF Settle
  <2>2. /\ r \in Results
        /\ Told(call[c]) => r = "acknowledged"
        /\ call[c].op \in Recorded /\ r = "acknowledged" =>
             call[c].answer \in Kept(call[c].op)
    BY <1>2, <1>4, SettledFacts DEF Told
  <2> HIDE DEF r
  <2>3. CASE r # "acknowledged"
    BY <1>1, <2>1, <2>2, <2>3, ReturnMoves
  <2>4. CASE r = "acknowledged"
    <3>1. PICK q \in Call :
            /\ call' = [call EXCEPT ![c] = q]
            /\ q.op = call[c].op /\ q.result = "acknowledged"
            /\ ~q.login /\ q.attempt = 0
            /\ q.step = IF call[c].op \in Recorded THEN "save" ELSE "done"
            /\ q.answer = call[c].answer
      BY <2>1, <2>2, <2>4, ReturnFacts DEF ClientTyped
    <3>2. Told(q) <=> Told(call[c])
      BY <1>4, <3>1 DEF Told
    <3>3. Local(q, filed[c], lost[c]) /\ q.result \notin Stored
      BY <1>2, <2>2, <2>4, <3>1, <3>2 DEF Local, Stored
    <3>4. /\ filed' = [filed EXCEPT ![c] = filed'[c]] /\ filed'[c] = filed[c]
          /\ lost' = [lost EXCEPT ![c] = lost'[c]] /\ lost'[c] = lost[c]
      BY <1>1 DEF ClientTyped
    <3>5. /\ filed'[c] \in Nat /\ filed[c] <= filed'[c] /\ lost'[c] \in Nat
          /\ Local(q, filed'[c], lost'[c])
      BY <1>2, <3>3, <3>4
    <3>6. q.step # "idle" /\ call[c].step \notin {"idle", "save", "done"}
      BY <1>1, <3>1
    <3>7. Moves(c)
      BY <3>1, <3>3, <3>4, <3>5, <3>6, Zenon DEF Moves
    <3>8. QED
      BY <1>1, <3>7
  <2>5. QED
    BY <2>3, <2>4
<1>5. QED
  BY <1>3, <1>4

LEMMA WakeMoves ==
  ASSUME ClientTyped, LocalInv, NEW c \in Calls, Wake(c)
  PROVE  Moves(c) /\ UNCHANGED <<state, token, expiry>>
<1>1. /\ call[c] \in Call /\ call[c].step = "replied"
      /\ UNCHANGED <<state, token, expiry, filed, lost>>
  BY DEF ClientTyped, Wake, At
<1>2. ~Told(call[c])
  BY DEF Wake, Ends, Transient, Told, Taken
<1>3. CASE Return(c, "cancelled")
  BY <1>1, <1>2, <1>3, ReturnMoves DEF Results
<1>4. CASE call' = [call EXCEPT ![c].step = "send", ![c].answer = "none",
                                ![c].attempt = NextAttempt(@)]
  <2> DEFINE q == [call[c] EXCEPT !.step = "send", !.answer = "none",
                                  !.attempt = NextAttempt(@)]
  <2>1. call' = [call EXCEPT ![c] = q]
    BY <1>4 DEF ClientTyped
  <2>2. NextAttempt(call[c].attempt) \in Nat
    BY <1>1 DEF NextAttempt, Call
  <2>3. /\ q \in Call /\ q.step = "send" /\ q.op = call[c].op
        /\ q.result = call[c].result /\ q.answer = "none"
    BY <1>1, <2>2 DEF Call
  <2> HIDE DEF q
  <2>4. ~Told(q)
    BY <2>3 DEF Told, Taken
  <2>5. QED
    BY <1>1, <1>2, <2>1, <2>3, <2>4, OnwardMoves
<1>5. QED
  BY <1>3, <1>4 DEF Wake

LEMMA ProgressMoves ==
  ASSUME ClientTyped, LocalInv, NEW c \in Calls, Progress(c)
  PROVE  Moves(c) /\ UNCHANGED state
BY CheckMoves, AuthenticateMoves, LoginMoves, PostMoves, SettleMoves,
   WakeMoves DEF Progress

(***************************************************************************)
(* Calls and records.                                                      *)
(***************************************************************************)

Base ==
  TypeOK /\ LocalInv /\ host \in Host /\ agency \in DOMAIN Operations

Copies == [form : FormD, notice : BlueSkyFiling]

(* The operations of an agency.                                            *)
LEMMA OperationsAre ==
  ASSUME agency \in DOMAIN Operations
  PROVE  Operations[agency] \subseteq Op
<1>1. DOMAIN Operations = {"edgar", "state", "irs"}
  BY DEF Operations
<1>2. /\ Operations["edgar"] = FormOps \cup {"form_d_status"}
      /\ Operations["state"] = NoticeOps \cup {"notice_status"}
      /\ Operations["irs"] = {"fire_file"}
  BY DEF Operations
<1>3. QED
  BY <1>1, <1>2 DEF Op, Lookups

LEMMA LoadFacts ==
  ASSUME TypeOK, NEW c \in Calls, NEW op, Load(c, op)
  PROVE  /\ loaded' \in [Calls -> Copies]
         /\ \A d \in Calls : d # c => loaded'[d] = loaded[d]
         /\ op \in FormOps => loaded'[c].form = form
         /\ op = "file_notice" => loaded'[c].notice = notice
         /\ loaded'[c].notice \in {loaded[c].notice, notice}
<1>1. /\ loaded \in [Calls -> Copies] /\ form \in FormD
      /\ notice \in BlueSkyFiling /\ loaded[c] \in Copies
  BY DEF TypeOK, Copies
<1>2. "file_notice" \notin FormOps
  BY DEF FormOps
<1>3. CASE op \in FormOps
  <2> DEFINE x == [loaded[c] EXCEPT !.form = form]
  <2>1. loaded' = [loaded EXCEPT ![c] = x]
    BY <1>2, <1>3 DEF Load
  <2>2. x \in Copies /\ x.form = form /\ x.notice = loaded[c].notice
    BY <1>1 DEF Copies
  <2> HIDE DEF x
  <2>3. QED
    BY <1>1, <1>2, <1>3, <2>1, <2>2
<1>4. CASE op = "file_notice"
  <2> DEFINE x == [loaded[c] EXCEPT !.notice = notice]
  <2>1. loaded' = [loaded EXCEPT ![c] = x]
    BY <1>2, <1>4 DEF Load
  <2>2. x \in Copies /\ x.notice = notice
    BY <1>1 DEF Copies
  <2> HIDE DEF x
  <2>3. QED
    BY <1>1, <1>2, <1>4, <2>1, <2>2
<1>5. CASE op \notin FormOps /\ op # "file_notice"
  <2>1. loaded' = loaded
    BY <1>5 DEF Load
  <2>2. QED
    BY <1>1, <1>5, <2>1
<1>6. QED
  BY <1>3, <1>4, <1>5

(* A call that begins has filed nothing yet; a call that could not load    *)
(* its record ends at once.                                                *)
LEMMA BeginFacts ==
  ASSUME Base, NEW c \in Calls, Begin(c)
  PROVE  /\ UNCHANGED <<state, token, expiry, filed, lost, host, agency,
                        form, notice>>
         /\ host # "concurrent" => Quiet
         /\ call[c].step = "idle"
         /\ loaded' \in [Calls -> Copies]
         /\ \A d \in Calls : d # c => loaded'[d] = loaded[d]
         /\ loaded'[c].notice \in {loaded[c].notice, notice}
         /\ \E q \in Call :
              /\ call' = [call EXCEPT ![c] = q]
              /\ q.op \in Operations[agency] /\ q.op \in Op
              /\ host = "careful" => Open(q.op)
              /\ q.answer = "none" /\ ~q.login
              /\ \/ /\ q.step = "check" /\ q.result = "none"
                    /\ q.op \in FormOps => loaded'[c].form = form
                    /\ q.op = "file_notice" => loaded'[c].notice = notice
                 \/ /\ q.step = "done" /\ q.result = "unloaded"
                    /\ q.op \in Recorded
<1>1. /\ UNCHANGED <<state, token, expiry, filed, lost, host, agency,
                     form, notice>>
      /\ host # "concurrent" => Quiet
      /\ call[c].step = "idle"
  BY DEF Begin, At
<1>2. PICK op \in Operations[agency] :
        /\ host = "careful" => Open(op)
        /\ \/ /\ call' = [call EXCEPT ![c].op = op, ![c].step = "check"]
              /\ Load(c, op)
           \/ /\ op \in Recorded
              /\ call' = [call EXCEPT ![c].op = op, ![c].step = "done",
                                      ![c].result = "unloaded"]
              /\ UNCHANGED loaded
  BY Zenon DEF Begin
<1>3. /\ call \in [Calls -> Call] /\ call[c] \in Call
      /\ call[c].answer = "none" /\ ~call[c].login /\ call[c].result = "none"
  BY <1>1 DEF Base, TypeOK, LocalInv, Local
<1>4. op \in Op
  BY <1>2, OperationsAre DEF Base
<1>5. CASE /\ call' = [call EXCEPT ![c].op = op, ![c].step = "check"]
           /\ Load(c, op)
  <2> DEFINE q == [call[c] EXCEPT !.op = op, !.step = "check"]
  <2>1. call' = [call EXCEPT ![c] = q]
    BY <1>3, <1>5
  <2>2. /\ q \in Call /\ q.op = op /\ q.step = "check" /\ q.result = "none"
        /\ q.answer = "none" /\ ~q.login
    BY <1>3, <1>4 DEF Call
  <2> HIDE DEF q
  <2>3. /\ loaded' \in [Calls -> Copies]
        /\ \A d \in Calls : d # c => loaded'[d] = loaded[d]
        /\ op \in FormOps => loaded'[c].form = form
        /\ op = "file_notice" => loaded'[c].notice = notice
        /\ loaded'[c].notice \in {loaded[c].notice, notice}
    BY <1>5, LoadFacts DEF Base
  <2>4. QED
    BY <1>1, <1>2, <1>4, <2>1, <2>2, <2>3
<1>6. CASE /\ op \in Recorded
           /\ call' = [call EXCEPT ![c].op = op, ![c].step = "done",
                                   ![c].result = "unloaded"]
           /\ UNCHANGED loaded
  <2> DEFINE q == [call[c] EXCEPT !.op = op, !.step = "done",
                                  !.result = "unloaded"]
  <2>1. call' = [call EXCEPT ![c] = q]
    BY <1>3, <1>6
  <2>2. /\ q \in Call /\ q.op = op /\ q.step = "done"
        /\ q.result = "unloaded" /\ q.answer = "none" /\ ~q.login
    BY <1>3, <1>4 DEF Call
  <2> HIDE DEF q
  <2>3. /\ loaded' \in [Calls -> Copies]
        /\ \A d \in Calls : d # c => loaded'[d] = loaded[d]
        /\ loaded'[c].notice \in {loaded[c].notice, notice}
    BY <1>6 DEF Base, TypeOK, Copies
  <2>4. QED
    BY <1>1, <1>2, <1>4, <1>6, <2>1, <2>2, <2>3
<1>7. QED
  BY <1>2, <1>5, <1>6

(* A call that saves does so as the operation it is, or fails to.          *)
LEMMA SaveFacts ==
  ASSUME Base, NEW c \in Calls, Save(c)
  PROVE  /\ UNCHANGED <<state, token, expiry, filed, lost, host, agency,
                        loaded>>
         /\ call[c].step = "save" /\ call[c].op \in Recorded
         /\ call[c].answer \in Kept(call[c].op) /\ ~call[c].login
         /\ form' \in FormD /\ notice' \in BlueSkyFiling
         /\ \E q \in Call :
              /\ call' = [call EXCEPT ![c] = q]
              /\ q.op = call[c].op /\ q.step = "done"
              /\ q.answer = call[c].answer /\ ~q.login
              /\ \/ /\ q.result = "recorded"
                    /\ FileFormD(c) \/ AmendFormD(c) \/ FileBlueSkyNotice(c)
                 \/ /\ q.result = "unsaved"
                    /\ UNCHANGED <<form, notice>>
<1>1. /\ UNCHANGED <<state, token, expiry, filed, lost, host, agency, loaded>>
      /\ call[c].step = "save"
  BY DEF Save, At
<1>2. /\ call \in [Calls -> Call] /\ call[c] \in Call
      /\ form \in FormD /\ notice \in BlueSkyFiling /\ loaded[c] \in Copies
  BY DEF Base, TypeOK, Copies
<1>3. /\ call[c].op \in Recorded /\ call[c].answer \in Kept(call[c].op)
      /\ ~call[c].login
  BY <1>1 DEF Base, LocalInv, Local
<1>4. PICK r \in Stored :
        /\ call' = [call EXCEPT ![c].step = "done", ![c].result = r]
        /\ \/ /\ r = "recorded"
              /\ FileFormD(c) \/ AmendFormD(c) \/ FileBlueSkyNotice(c)
           \/ /\ r = "unsaved"
              /\ UNCHANGED <<form, notice>>
  BY DEF Save, Stored
<1> DEFINE q == [call[c] EXCEPT !.step = "done", !.result = r]
<1>5. call' = [call EXCEPT ![c] = q]
  BY <1>2, <1>4
<1>6. /\ q \in Call /\ q.op = call[c].op /\ q.step = "done"
      /\ q.answer = call[c].answer /\ ~q.login /\ q.result = r
  BY <1>2, <1>3 DEF Call, Stored
<1> HIDE DEF q
<1>7. loaded[c].form \in FormD /\ loaded[c].notice \in BlueSkyFiling
  BY <1>2 DEF Copies
<1>8. Number(c) \in Calls \cup {"none"}
  BY DEF Number
<1>9. \A a, old : old \in {"draft", "filed", "amended", "rejected"} =>
        /\ StatusAfter("filed", a, old)
             \in {"draft", "filed", "amended", "rejected"}
        /\ StatusAfter("amended", a, old)
             \in {"draft", "filed", "amended", "rejected"}
  BY DEF StatusAfter
<1>10. \A a, old : old \in {"pending", "filed", "approved", "rejected"} =>
         StatusAfter("filed", a, old)
           \in {"pending", "filed", "approved", "rejected"}
  BY DEF StatusAfter
<1>11. CASE FileFormD(c) \/ AmendFormD(c)
  <2> DEFINE a == call[c].answer
             old == loaded[c].form
             s == IF FileFormD(c) THEN StatusAfter("filed", a, old.status)
                  ELSE StatusAfter("amended", a, old.status)
             d == IF FileFormD(c) THEN TRUE ELSE old.dated
  <2>1. /\ form' = [status |-> s, number |-> Number(c), dated |-> d]
        /\ UNCHANGED notice
    BY <1>11 DEF FileFormD, AmendFormD
  <2>2. old.status \in {"draft", "filed", "amended", "rejected"}
        /\ old.dated \in BOOLEAN
    BY <1>7 DEF FormD
  <2>3. s \in {"draft", "filed", "amended", "rejected"} /\ d \in BOOLEAN
    BY <1>9, <2>2
  <2> HIDE DEF s, d
  <2>4. form' \in FormD
    BY <1>8, <2>1, <2>3 DEF FormD
  <2>5. QED
    BY <1>1, <1>2, <1>3, <1>4, <1>5, <1>6, <2>1, <2>4
<1>12. CASE FileBlueSkyNotice(c)
  <2> DEFINE a == call[c].answer
             old == loaded[c].notice
             s == IF a = "approved" THEN "approved"
                  ELSE StatusAfter("filed", a, old.status)
             n == Noted(old.noted, Number(c))
  <2>1. notice' = [status |-> s, noted |-> n] /\ UNCHANGED form
    BY <1>12 DEF FileBlueSkyNotice
  <2>2. old.status \in {"pending", "filed", "approved", "rejected"}
        /\ old.noted \subseteq Calls
    BY <1>7 DEF BlueSkyFiling
  <2>3. s \in {"pending", "filed", "approved", "rejected"}
        /\ n \subseteq Calls
    BY <1>8, <1>10, <2>2 DEF Noted
  <2> HIDE DEF s, n
  <2>4. notice' \in BlueSkyFiling
    BY <2>1, <2>3 DEF BlueSkyFiling
  <2>5. QED
    BY <1>1, <1>2, <1>3, <1>4, <1>5, <1>6, <2>1, <2>4
<1>13. CASE UNCHANGED <<form, notice>>
  BY <1>1, <1>2, <1>3, <1>4, <1>5, <1>6, <1>13
<1>14. QED
  BY <1>4, <1>11, <1>12, <1>13

LEMMA TypeOKParts ==
  TypeOK <=> /\ ClientTyped /\ form \in FormD /\ notice \in BlueSkyFiling
             /\ loaded \in [Calls -> Copies]
BY DEF TypeOK, ClientTyped, Copies

(* What Moves leaves alone, and where it leaves the call.                  *)
LEMMA MovesFacts ==
  ASSUME ClientTyped, LocalInv, NEW c \in Calls, Moves(c)
  PROVE  /\ call' \in [Calls -> Call]
         /\ filed' \in [Calls -> Nat] /\ lost' \in [Calls -> Nat]
         /\ \A d \in Calls : d # c => /\ call'[d] = call[d]
                                      /\ filed'[d] = filed[d]
                                      /\ lost'[d] = lost[d]
         /\ \A d \in Calls : filed[d] <= filed'[d]
         /\ call[c].step \notin {"idle", "save", "done"}
         /\ call'[c].op = call[c].op /\ call'[c].step # "idle"
         /\ call'[c].result \notin Stored
         /\ Local(call'[c], filed'[c], lost'[c])
<1>1. PICK q \in Call :
        /\ call' = [call EXCEPT ![c] = q]
        /\ filed' = [filed EXCEPT ![c] = filed'[c]]
        /\ filed'[c] \in Nat /\ filed[c] <= filed'[c]
        /\ lost' = [lost EXCEPT ![c] = lost'[c]]
        /\ lost'[c] \in Nat
        /\ call[c].step \notin {"idle", "save", "done"}
        /\ q.op = call[c].op /\ q.step # "idle"
        /\ q.result \notin Stored
        /\ Local(q, filed'[c], lost'[c])
  BY Zenon DEF Moves
<1>2. /\ call \in [Calls -> Call]
      /\ filed \in [Calls -> Nat] /\ lost \in [Calls -> Nat]
  BY DEF ClientTyped
<1> DEFINE f == filed'[c]
           l == lost'[c]
<1>3. /\ filed' = [filed EXCEPT ![c] = f] /\ f \in Nat /\ filed[c] <= f
      /\ lost' = [lost EXCEPT ![c] = l] /\ l \in Nat
  BY <1>1
<1> HIDE DEF f, l
<1>4. call'[c] = q /\ filed'[c] = f /\ lost'[c] = l
  BY <1>1, <1>2, <1>3
<1>5. /\ call' \in [Calls -> Call]
      /\ filed' \in [Calls -> Nat] /\ lost' \in [Calls -> Nat]
      /\ \A d \in Calls : d # c => /\ call'[d] = call[d]
                                   /\ filed'[d] = filed[d]
                                   /\ lost'[d] = lost[d]
  BY <1>1, <1>2, <1>3
<1>6. \A d \in Calls : filed[d] <= filed'[d]
  BY <1>2, <1>3, <1>4, <1>5
<1>7. QED
  BY <1>1, <1>4, <1>5, <1>6

LEMMA BaseInit == Init => Base
<1> SUFFICES ASSUME Init PROVE Base
  OBVIOUS
<1>1. /\ state \in States /\ token = "none" /\ expiry = "past"
      /\ filed = [c \in Calls |-> 0] /\ lost = [c \in Calls |-> 0]
      /\ host \in Host /\ agency \in DOMAIN Operations
      /\ form = NewForm /\ notice = NewNotice
      /\ loaded = [c \in Calls |-> [form |-> NewForm, notice |-> NewNotice]]
  BY NoticesInAssumption DEF Init, InitClient
<1> DEFINE q == [op |-> "none", step |-> "idle", login |-> FALSE,
                 attempt |-> 0, answer |-> "none", result |-> "none"]
<1>2. call = [c \in Calls |-> q]
  BY DEF Init, InitClient
<1>3. /\ q \in Call /\ q.op = "none" /\ q.step = "idle" /\ ~q.login
      /\ q.answer = "none" /\ q.result = "none"
  BY DEF Call
<1> HIDE DEF q
<1>4. Local(q, 0, 0)
  BY <1>3 DEF Local, Told, Taken, Stored
<1>5. LocalInv /\ call \in [Calls -> Call]
  BY <1>1, <1>2, <1>3, <1>4 DEF LocalInv
<1>6. NewForm \in FormD /\ NewNotice \in BlueSkyFiling
  BY DEF NewForm, NewNotice, FormD, BlueSkyFiling
<1>7. loaded \in [Calls -> Copies]
  BY <1>1, <1>6 DEF Copies
<1>8. TypeOK
  BY <1>1, <1>5, <1>6, <1>7, TypeOKParts DEF ClientTyped
<1>9. QED
  BY <1>1, <1>5, <1>8 DEF Base

LEMMA BaseStep == Base /\ [Next]_vars => Base'
<1> SUFFICES ASSUME Base, [Next]_vars PROVE Base'
  OBVIOUS
<1>1. /\ ClientTyped /\ LocalInv /\ host \in Host
      /\ agency \in DOMAIN Operations /\ form \in FormD
      /\ notice \in BlueSkyFiling /\ loaded \in [Calls -> Copies]
  BY TypeOKParts DEF Base
<1>2. ASSUME NEW c \in Calls, Begin(c) PROVE Base'
  <2>1. /\ UNCHANGED <<state, token, expiry, filed, lost, host, agency,
                       form, notice>>
        /\ loaded' \in [Calls -> Copies] /\ call[c].step = "idle"
    BY <1>2, BeginFacts
  <2>2. PICK q \in Call :
          /\ call' = [call EXCEPT ![c] = q]
          /\ q.op \in Op /\ q.answer = "none" /\ ~q.login
          /\ \/ q.step = "check" /\ q.result = "none"
             \/ q.step = "done" /\ q.result = "unloaded"
    BY <1>2, BeginFacts
  <2>3. filed[c] = lost[c] /\ filed[c] \in Nat
    BY <1>1, <2>1 DEF ClientTyped, LocalInv, Local, Told, Taken
  <2>4. Local(q, filed[c], lost[c])
    BY <2>2, <2>3 DEF Local, Told, Taken, Stored
  <2>5. call' \in [Calls -> Call] /\ call'[c] = q
        /\ \A d \in Calls : d # c => call'[d] = call[d]
    BY <1>1, <2>2 DEF ClientTyped
  <2>6. LocalInv'
    BY <1>1, <2>1, <2>4, <2>5 DEF LocalInv
  <2>7. ClientTyped'
    BY <1>1, <2>1, <2>5 DEF ClientTyped
  <2>8. (form \in FormD)' /\ (notice \in BlueSkyFiling)'
        /\ (loaded \in [Calls -> Copies])'
    BY <1>1, <2>1
  <2>9. TypeOK'
    BY <2>7, <2>8, Zenon DEF TypeOK, ClientTyped, Copies
  <2>10. QED
    BY <1>1, <2>1, <2>6, <2>9 DEF Base
<1>3. ASSUME NEW c \in Calls, Progress(c), UNCHANGED records PROVE Base'
  <2>1. Moves(c) /\ UNCHANGED state
    BY <1>1, <1>3, ProgressMoves
  <2>2. UNCHANGED <<host, agency, form, notice, loaded>>
    BY <1>3 DEF records
  <2>3. /\ call' \in [Calls -> Call]
        /\ filed' \in [Calls -> Nat] /\ lost' \in [Calls -> Nat]
        /\ \A d \in Calls : d # c => /\ call'[d] = call[d]
                                     /\ filed'[d] = filed[d]
                                     /\ lost'[d] = lost[d]
        /\ Local(call'[c], filed'[c], lost'[c])
    BY <1>1, <2>1, MovesFacts
  <2>4. LocalInv'
    BY <1>1, <2>3 DEF LocalInv
  <2>5. token' \in {"none", "live", "revoked", "expired"}
        /\ expiry' \in {"ahead", "near", "past"}
    <3>1. CASE LoginDone(c)
      BY <3>1 DEF LoginDone
    <3>2. CASE ~LoginDone(c)
      BY <1>1, <1>3, <3>2, CheckMoves, AuthenticateMoves, PostMoves,
         SettleMoves, WakeMoves DEF Progress, ClientTyped
    <3>3. QED
      BY <3>1, <3>2
  <2>6. ClientTyped'
    BY <1>1, <2>1, <2>3, <2>5 DEF ClientTyped
  <2>7. (form \in FormD)' /\ (notice \in BlueSkyFiling)'
        /\ (loaded \in [Calls -> Copies])'
    BY <1>1, <2>2
  <2>8. TypeOK'
    BY <2>6, <2>7, Zenon DEF TypeOK, ClientTyped, Copies
  <2>9. QED
    BY <1>1, <2>2, <2>4, <2>8 DEF Base
<1>4. ASSUME NEW c \in Calls, Save(c) PROVE Base'
  <2>1. /\ UNCHANGED <<state, token, expiry, filed, lost, host, agency,
                       loaded>>
        /\ call[c].step = "save" /\ call[c].op \in Recorded
        /\ call[c].answer \in Kept(call[c].op) /\ ~call[c].login
        /\ form' \in FormD /\ notice' \in BlueSkyFiling
    BY <1>4, SaveFacts
  <2>2. PICK q \in Call :
          /\ call' = [call EXCEPT ![c] = q]
          /\ q.op = call[c].op /\ q.step = "done"
          /\ q.answer = call[c].answer /\ ~q.login /\ q.result \in Stored
    BY <1>4, SaveFacts DEF Stored
  <2>3. Local(call[c], filed[c], lost[c])
    BY <1>1 DEF LocalInv
  <2>4. Told(q) <=> Told(call[c])
    BY <2>1, <2>2 DEF Told
  <2>5. Local(q, filed[c], lost[c])
    BY <2>1, <2>2, <2>3, <2>4 DEF Local, Stored
  <2>6. call' \in [Calls -> Call] /\ call'[c] = q
        /\ \A d \in Calls : d # c => call'[d] = call[d]
    BY <1>1, <2>2 DEF ClientTyped
  <2>7. LocalInv'
    BY <1>1, <2>1, <2>5, <2>6 DEF LocalInv
  <2>8. ClientTyped'
    BY <1>1, <2>1, <2>6 DEF ClientTyped
  <2>9. (loaded \in [Calls -> Copies])'
    BY <1>1, <2>1
  <2>10. TypeOK'
    BY <2>1, <2>8, <2>9, Zenon DEF TypeOK, ClientTyped, Copies
  <2>11. QED
    BY <1>1, <2>1, <2>7, <2>10 DEF Base
<1>5. CASE Environment /\ UNCHANGED records
  <2>1. /\ UNCHANGED <<host, agency, form, notice, loaded>>
        /\ UNCHANGED <<state, call, filed, lost>>
        /\ token' \in {"none", "live", "revoked", "expired"}
        /\ expiry' \in {"ahead", "near", "past"}
    BY <1>1, <1>5 DEF records, Environment, ExpiryNears, ExpiryPasses, Revoke,
                      ClientTyped
  <2>2. ClientTyped' /\ LocalInv'
    BY <1>1, <2>1 DEF ClientTyped, LocalInv
  <2>3. (form \in FormD)' /\ (notice \in BlueSkyFiling)'
        /\ (loaded \in [Calls -> Copies])'
    BY <1>1, <2>1
  <2>4. TypeOK'
    BY <2>2, <2>3, Zenon DEF TypeOK, ClientTyped, Copies
  <2>5. QED
    BY <1>1, <2>1, <2>2, <2>4 DEF Base
<1>6. CASE UNCHANGED vars
  BY <1>6 DEF vars, client, records, Base, TypeOK, LocalInv
<1>7. QED
  BY <1>2, <1>3, <1>4, <1>5, <1>6 DEF Next, Step

(***************************************************************************)
(* Records: what they name is on file, what they note was stored.          *)
(***************************************************************************)

Acknowledged(c) == call[c].op = "file_notice" /\ call[c].result = "recorded"

RecordsInv ==
  /\ form.status \in {"filed", "amended"} /\ form.number # "none" =>
       form.number \in Calls /\ filed[form.number] > 0
  /\ \A c \in notice.noted : Acknowledged(c)
  /\ \A d \in Calls : \A c \in loaded[d].notice.noted : Acknowledged(c)

Active(c) == call[c].step \notin {"idle", "done"}

Alone == \A c, d \in Calls : Active(c) /\ Active(d) => c = d

Current(c) ==
  /\ call[c].op \in FormOps => loaded[c].form = form
  /\ call[c].op = "file_notice" => loaded[c].notice = notice

OneAtATime ==
  host # "concurrent" => Alone /\ \A c \in Calls : Active(c) => Current(c)

LEMMA RecordsInit == Init => RecordsInv /\ OneAtATime
<1> SUFFICES ASSUME Init PROVE RecordsInv /\ OneAtATime
  OBVIOUS
<1>1. /\ form = NewForm /\ notice = NewNotice
      /\ loaded = [c \in Calls |-> [form |-> NewForm, notice |-> NewNotice]]
      /\ \A c \in Calls : call[c].step = "idle"
  BY DEF Init, InitClient
<1>2. form.status = "draft" /\ notice.noted = {}
      /\ \A d \in Calls : loaded[d].notice.noted = {}
  BY <1>1 DEF NewForm, NewNotice
<1>3. QED
  BY <1>1, <1>2 DEF RecordsInv, OneAtATime, Alone, Active

(* Who is named stays acknowledged while calls begin and move on.          *)
LEMMA RecordsStep == Base /\ RecordsInv /\ [Next]_vars => RecordsInv'
<1> SUFFICES ASSUME Base, RecordsInv, [Next]_vars PROVE RecordsInv'
  OBVIOUS
<1>1. /\ ClientTyped /\ LocalInv /\ form \in FormD
      /\ notice \in BlueSkyFiling /\ loaded \in [Calls -> Copies]
  BY TypeOKParts DEF Base
<1>2. /\ notice.noted \subseteq Calls
      /\ \A d \in Calls : loaded[d].notice.noted \subseteq Calls
  BY <1>1 DEF BlueSkyFiling, Copies
<1>3. ASSUME NEW c \in Calls, Begin(c) PROVE RecordsInv'
  <2>1. /\ UNCHANGED <<filed, form, notice>> /\ call[c].step = "idle"
        /\ \A d \in Calls : d # c => loaded'[d] = loaded[d]
        /\ loaded'[c].notice \in {loaded[c].notice, notice}
    BY <1>3, BeginFacts
  <2>2. \A d \in Calls : d # c => call'[d] = call[d]
    <3>1. PICK q \in Call : call' = [call EXCEPT ![c] = q]
      BY <1>3, BeginFacts
    <3>2. QED
      BY <1>1, <3>1 DEF ClientTyped
  <2>3. call[c].result # "recorded"
    BY <1>1, <2>1 DEF LocalInv, Local
  <2>4. \A d \in Calls : Acknowledged(d) => Acknowledged(d)'
    BY <2>2, <2>3 DEF Acknowledged
  <2>5. \A d \in Calls : \A e \in loaded'[d].notice.noted :
          e \in Calls /\ Acknowledged(e)
    BY <1>2, <2>1 DEF RecordsInv
  <2>6. QED
    BY <1>2, <2>1, <2>4, <2>5 DEF RecordsInv
<1>4. ASSUME NEW c \in Calls, Progress(c), UNCHANGED records PROVE RecordsInv'
  <2>1. Moves(c)
    BY <1>1, <1>4, ProgressMoves
  <2>2. /\ \A d \in Calls : d # c => call'[d] = call[d]
        /\ \A d \in Calls : filed[d] <= filed'[d]
        /\ call[c].step \notin {"idle", "save", "done"}
        /\ filed \in [Calls -> Nat] /\ filed' \in [Calls -> Nat]
    BY <1>1, <2>1, MovesFacts DEF ClientTyped
  <2>3. call[c].result # "recorded"
    BY <1>1, <2>2 DEF LocalInv, Local
  <2>4. \A d \in Calls : Acknowledged(d) => Acknowledged(d)'
    BY <2>2, <2>3 DEF Acknowledged
  <2>5. UNCHANGED <<form, notice, loaded>>
    BY <1>4 DEF records
  <2>6. \A d \in Calls : filed[d] > 0 => filed'[d] > 0
    BY <2>2
  <2>7. QED
    BY <1>2, <2>4, <2>5, <2>6 DEF RecordsInv
<1>5. ASSUME NEW c \in Calls, Save(c) PROVE RecordsInv'
  <2>1. /\ UNCHANGED <<filed, lost, loaded>>
        /\ call[c].step = "save" /\ call[c].op \in Recorded
        /\ call[c].answer \in Kept(call[c].op) /\ ~call[c].login
    BY <1>5, SaveFacts
  <2>2. PICK q \in Call :
          /\ call' = [call EXCEPT ![c] = q]
          /\ q.op = call[c].op /\ q.step = "done"
          /\ \/ /\ q.result = "recorded"
                /\ FileFormD(c) \/ AmendFormD(c) \/ FileBlueSkyNotice(c)
             \/ /\ q.result = "unsaved"
                /\ UNCHANGED <<form, notice>>
    BY <1>5, SaveFacts
  <2>3. call'[c] = q /\ \A d \in Calls : d # c => call'[d] = call[d]
    BY <1>1, <2>2 DEF ClientTyped
  <2>4. call[c].result # "recorded"
    BY <1>1, <2>1 DEF LocalInv, Local
  <2>5. \A d \in Calls : Acknowledged(d) => Acknowledged(d)'
    BY <2>3, <2>4 DEF Acknowledged
  <2>6. \A d \in Calls : \A e \in loaded'[d].notice.noted : Acknowledged(e)'
    BY <1>2, <2>1, <2>5 DEF RecordsInv
  <2>7. CASE FileFormD(c) \/ AmendFormD(c)
    <3> DEFINE a == call[c].answer
    <3>1. /\ form'.number = Number(c) /\ UNCHANGED notice
          /\ \/ form'.status = StatusAfter("filed", a, loaded[c].form.status)
             \/ form'.status = StatusAfter("amended", a, loaded[c].form.status)
          /\ call[c].op \in FormOps
      BY <2>7 DEF FileFormD, AmendFormD, FormOps
    <3>2. a \in {"accepted", "pending", "blank", "suspended"}
      BY <2>1, <3>1 DEF Kept
    <3>3. form'.status \in {"filed", "amended"} /\ form'.number # "none" =>
            form'.number = c /\ a \in {"accepted", "pending"}
      BY <3>1, <3>2 DEF Number, StatusAfter
    <3>4. a \in {"accepted", "pending"} => filed[c] > 0
      <4>1. filed[c] = lost[c] + (IF Told(call[c]) THEN 1 ELSE 0)
            /\ lost[c] \in Nat
        BY <1>1 DEF LocalInv, Local, ClientTyped
      <4>2. a \in {"accepted", "pending"} => Told(call[c])
        BY <2>1, <3>1 DEF Told, Taken, Lookups, FormOps
      <4>3. QED
        BY <4>1, <4>2
    <3> HIDE DEF a
    <3>5. QED
      BY <1>2, <2>1, <2>5, <2>6, <3>1, <3>3, <3>4 DEF RecordsInv
  <2>8. CASE FileBlueSkyNotice(c) /\ q.result = "recorded"
    <3>1. /\ UNCHANGED form /\ q.op = "file_notice"
          /\ notice'.noted = Noted(loaded[c].notice.noted, Number(c))
      BY <2>2, <2>8 DEF FileBlueSkyNotice
    <3>2. Acknowledged(c)'
      BY <2>3, <2>8, <3>1 DEF Acknowledged
    <3>3. notice'.noted \subseteq loaded[c].notice.noted \cup {c}
      BY <3>1 DEF Noted, Number
    <3>4. \A e \in notice'.noted : Acknowledged(e)'
      BY <2>1, <2>6, <3>2, <3>3
    <3>5. QED
      BY <2>1, <2>6, <3>1, <3>4 DEF RecordsInv
  <2>9. CASE UNCHANGED <<form, notice>>
    BY <1>2, <2>1, <2>5, <2>6, <2>9 DEF RecordsInv
  <2>10. QED
    BY <2>2, <2>7, <2>8, <2>9
<1>6. CASE Environment /\ UNCHANGED records
  BY <1>6 DEF Environment, ExpiryNears, ExpiryPasses, Revoke, records,
              RecordsInv, Acknowledged
<1>7. CASE UNCHANGED vars
  BY <1>7 DEF vars, client, records, RecordsInv, Acknowledged
<1>8. QED
  BY <1>3, <1>4, <1>5, <1>6, <1>7 DEF Next, Step

LEMMA OneAtATimeStep == Base /\ OneAtATime /\ [Next]_vars => OneAtATime'
<1> SUFFICES ASSUME Base, OneAtATime, [Next]_vars, host' # "concurrent"
             PROVE  Alone' /\ \A c \in Calls : Active(c)' => Current(c)'
  BY DEF OneAtATime
<1>1. /\ ClientTyped /\ LocalInv /\ call \in [Calls -> Call]
  BY TypeOKParts DEF Base, ClientTyped
<1>2. host' = host
  BY BeginFacts, SaveFacts DEF Next, Step, vars, records
<1>3. Alone /\ \A c \in Calls : Active(c) => Current(c)
  BY <1>2 DEF OneAtATime
<1>4. ASSUME NEW c \in Calls, Begin(c)
      PROVE  Alone' /\ \A d \in Calls : Active(d)' => Current(d)'
  <2>1. Quiet /\ UNCHANGED <<form, notice>>
    BY <1>2, <1>4, BeginFacts
  <2>2. PICK q \in Call :
          /\ call' = [call EXCEPT ![c] = q]
          /\ \/ /\ q.step = "check"
                /\ q.op \in FormOps => loaded'[c].form = form
                /\ q.op = "file_notice" => loaded'[c].notice = notice
             \/ q.step = "done"
    BY <1>4, BeginFacts
  <2>3. call'[c] = q /\ \A d \in Calls : d # c => call'[d] = call[d]
    BY <1>1, <2>2
  <2>4. \A d \in Calls : Active(d)' => d = c /\ q.step = "check"
    BY <2>1, <2>2, <2>3 DEF Active, Quiet
  <2>5. q.step = "check" => Current(c)'
    BY <2>1, <2>2, <2>3 DEF Current
  <2>6. QED
    BY <2>4, <2>5 DEF Alone
<1>5. ASSUME NEW c \in Calls, Progress(c), UNCHANGED records
      PROVE  Alone' /\ \A d \in Calls : Active(d)' => Current(d)'
  <2>1. Moves(c)
    BY <1>1, <1>5, ProgressMoves
  <2>2. /\ \A d \in Calls : d # c => call'[d] = call[d]
        /\ call'[c].op = call[c].op
        /\ call[c].step \notin {"idle", "save", "done"}
    BY <1>1, <2>1, MovesFacts
  <2>3. UNCHANGED <<form, notice, loaded>>
    BY <1>5 DEF records
  <2>4. \A d \in Calls : Active(d)' => Active(d)
    BY <2>2 DEF Active
  <2>5. \A d \in Calls : Current(d) => Current(d)'
    BY <2>2, <2>3 DEF Current
  <2>6. QED
    BY <1>3, <2>4, <2>5 DEF Alone
<1>6. ASSUME NEW c \in Calls, Save(c)
      PROVE  Alone' /\ \A d \in Calls : Active(d)' => Current(d)'
  <2>1. call[c].step = "save"
    BY <1>6, SaveFacts
  <2>2. PICK q \in Call : call' = [call EXCEPT ![c] = q] /\ q.step = "done"
    BY <1>6, SaveFacts
  <2>3. call'[c] = q /\ \A d \in Calls : d # c => call'[d] = call[d]
    BY <1>1, <2>2
  <2>4. \A d \in Calls : ~Active(d)'
    BY <1>3, <2>1, <2>2, <2>3 DEF Active, Alone
  <2>5. QED
    BY <2>4 DEF Alone
<1>7. CASE Environment /\ UNCHANGED records
  BY <1>3, <1>7 DEF Environment, ExpiryNears, ExpiryPasses, Revoke, records,
                    Alone, Active, Current
<1>8. CASE UNCHANGED vars
  BY <1>3, <1>8 DEF vars, client, records, Alone, Active, Current
<1>9. QED
  BY <1>4, <1>5, <1>6, <1>7, <1>8 DEF Next, Step

(***************************************************************************)
(* A careful host: a filing that went well closes the record to the next   *)
(* one, until an amendment is suspended.                                   *)
(***************************************************************************)

(* Call q of operation op is over, was filed and told its caller so.       *)
WentWell(q, f, l, op) ==
  /\ q.op = op /\ q.step = "done" /\ f > 0
  /\ ~(l > 0 \/ q.result = "unsaved" \/ q.answer = "pending")

InForce(c, op) == WentWell(call[c], filed[c], lost[c], op)

Suspended ==
  \E e \in Calls : /\ call[e].op = "amend_form_d" /\ call[e].step = "done"
                   /\ call[e].answer = "suspended"

Closed ==
  /\ \A c \in Calls : Active(c) =>
       /\ call[c].op = "file_form_d" => form.status \in {"draft", "rejected"}
       /\ call[c].op = "file_notice" =>
            notice.status \in {"pending", "rejected"}
  /\ \A c \in Calls : InForce(c, "file_form_d") =>
       form.status \in {"filed", "amended"} \/ Suspended
  /\ \A c \in Calls : InForce(c, "file_notice") =>
       notice.status \in {"filed", "approved"}
  /\ \A c, d \in Calls :
       c # d /\ InForce(c, "file_form_d") /\ InForce(d, "file_form_d") =>
         Suspended
  /\ \A c, d \in Calls :
       c # d => ~(InForce(c, "file_notice") /\ InForce(d, "file_notice"))

CarefulInv == host = "careful" => Closed

LEMMA WellFacts ==
  ASSUME NEW q, NEW f \in Nat, NEW l \in Nat, NEW op \in Recorded,
         Local(q, f, l), WentWell(q, f, l, op)
  PROVE  /\ q.result = "recorded" /\ q.answer \in {"accepted", "approved"}
         /\ op \in FormOps => q.answer = "accepted"
<1>1. l = 0 /\ f > 0 /\ q.op = op /\ q.step = "done"
      /\ q.result # "unsaved" /\ q.answer # "pending"
  BY DEF WentWell
<1>2. Told(q)
  BY <1>1 DEF Local
<1>3. q.answer \in {"accepted", "approved"}
  BY <1>1, <1>2 DEF Told, Taken
<1>4. q.result = "recorded"
  BY <1>1, <1>3 DEF Local, Stored
<1>5. op \in FormOps => q.answer = "accepted"
  BY <1>1, <1>3, <1>4 DEF Local, Stored, Kept
<1>6. QED
  BY <1>3, <1>4, <1>5

LEMMA CarefulInit == Init => CarefulInv
<1> SUFFICES ASSUME Init PROVE CarefulInv
  OBVIOUS
<1>1. \A c \in Calls : call[c].step = "idle"
  BY DEF Init, InitClient
<1>2. \A c \in Calls : ~Active(c) /\ \A op : ~InForce(c, op)
  BY <1>1 DEF Active, InForce, WentWell
<1>3. QED
  BY <1>2 DEF CarefulInv, Closed

LEMMA CarefulStep ==
  Base /\ Base' /\ OneAtATime /\ CarefulInv /\ [Next]_vars => CarefulInv'
<1> SUFFICES ASSUME Base, Base', OneAtATime, CarefulInv, [Next]_vars,
                    host' = "careful"
             PROVE  Closed'
  BY DEF CarefulInv
<1>1. /\ ClientTyped /\ LocalInv /\ call \in [Calls -> Call]
      /\ form \in FormD /\ notice \in BlueSkyFiling
  BY TypeOKParts DEF Base, ClientTyped
<1>2. host' = host
  BY BeginFacts, SaveFacts DEF Next, Step, vars, records
<1>3. Closed /\ Alone /\ \A c \in Calls : Active(c) => Current(c)
  BY <1>2 DEF OneAtATime, CarefulInv
<1>4. /\ "file_form_d" \in Recorded /\ "file_notice" \in Recorded
      /\ FormOps = {"file_form_d", "amend_form_d"}
  BY DEF Recorded, FormOps
<1>5. \A c \in Calls :
        /\ filed'[c] \in Nat /\ lost'[c] \in Nat
        /\ Local(call'[c], filed'[c], lost'[c])
  BY DEF Base, TypeOK, LocalInv
<1>6. \A c \in Calls : \A op \in Recorded :
        InForce(c, op)' =>
          /\ call'[c].result = "recorded"
          /\ call'[c].answer \in {"accepted", "approved"}
          /\ op \in FormOps => call'[c].answer = "accepted"
  BY <1>5, WellFacts DEF InForce
<1>7. ASSUME NEW c \in Calls,
             \A d \in Calls : d # c => /\ call'[d] = call[d]
                                       /\ filed'[d] = filed[d]
                                       /\ lost'[d] = lost[d],
             UNCHANGED <<form, notice>>,
             call[c].step # "done", call'[c].result # "recorded",
             Active(c)' =>
               /\ call'[c].op = "file_form_d" =>
                    form.status \in {"draft", "rejected"}
               /\ call'[c].op = "file_notice" =>
                    notice.status \in {"pending", "rejected"}
      PROVE  Closed'
  <2>1. \A d \in Calls : \A op \in Recorded :
          InForce(d, op)' => d # c /\ InForce(d, op)
    BY <1>6, <1>7 DEF InForce
  <2>2. Suspended => Suspended'
    BY <1>7 DEF Suspended
  <2>3. \A d \in Calls : d # c => (Active(d)' <=> Active(d))
    BY <1>7 DEF Active
  <2>4. \A d \in Calls : Active(d)' =>
          /\ call'[d].op = "file_form_d" =>
               form'.status \in {"draft", "rejected"}
          /\ call'[d].op = "file_notice" =>
               notice'.status \in {"pending", "rejected"}
    BY <1>3, <1>7, <2>3 DEF Closed
  <2>5. /\ \A d \in Calls : InForce(d, "file_form_d")' =>
             form'.status \in {"filed", "amended"} \/ Suspended'
        /\ \A d \in Calls : InForce(d, "file_notice")' =>
             notice'.status \in {"filed", "approved"}
    BY <1>3, <1>4, <1>7, <2>1, <2>2 DEF Closed
  <2>6. \A d, e \in Calls :
          d # e /\ InForce(d, "file_form_d")' /\ InForce(e, "file_form_d")' =>
            Suspended'
    BY <1>3, <1>4, <2>1, <2>2 DEF Closed
  <2>7. \A d, e \in Calls :
          d # e => ~(InForce(d, "file_notice")' /\ InForce(e, "file_notice")')
    BY <1>3, <1>4, <2>1 DEF Closed
  <2>8. QED
    BY <2>4, <2>5, <2>6, <2>7 DEF Closed
<1>8. ASSUME NEW c \in Calls, Begin(c) PROVE Closed'
  <2>1. UNCHANGED <<filed, lost, form, notice>> /\ call[c].step = "idle"
    BY <1>8, BeginFacts
  <2>2. PICK q \in Call :
          /\ call' = [call EXCEPT ![c] = q]
          /\ Open(q.op)
          /\ q.result \in {"none", "unloaded"}
    BY <1>2, <1>8, BeginFacts
  <2>3. call'[c] = q /\ \A d \in Calls : d # c => call'[d] = call[d]
    BY <1>1, <2>2
  <2>4. /\ q.op = "file_form_d" => form.status \in {"draft", "rejected"}
        /\ q.op = "file_notice" => notice.status \in {"pending", "rejected"}
    BY <2>2 DEF Open
  <2>5. QED
    BY <1>7, <2>1, <2>2, <2>3, <2>4
<1>9. ASSUME NEW c \in Calls, Progress(c), UNCHANGED records PROVE Closed'
  <2>1. Moves(c)
    BY <1>1, <1>9, ProgressMoves
  <2>2. /\ \A d \in Calls : d # c => /\ call'[d] = call[d]
                                     /\ filed'[d] = filed[d]
                                     /\ lost'[d] = lost[d]
        /\ call[c].step \notin {"idle", "save", "done"}
        /\ call'[c].op = call[c].op /\ call'[c].result \notin Stored
    BY <1>1, <2>1, MovesFacts
  <2>3. UNCHANGED <<form, notice>>
    BY <1>9 DEF records
  <2>4. Active(c)
    BY <2>2 DEF Active
  <2>5. call'[c].result # "recorded"
    BY <2>2 DEF Stored
  <2>6. QED
    BY <1>3, <1>7, <2>2, <2>3, <2>4, <2>5 DEF Closed
<1>10. ASSUME NEW c \in Calls, Save(c) PROVE Closed'
  <2>1. /\ UNCHANGED <<filed, lost>>
        /\ call[c].step = "save" /\ call[c].op \in Recorded
        /\ call[c].answer \in Kept(call[c].op)
    BY <1>10, SaveFacts
  <2>2. PICK q \in Call :
          /\ call' = [call EXCEPT ![c] = q]
          /\ q.op = call[c].op /\ q.step = "done"
          /\ q.answer = call[c].answer
          /\ \/ /\ q.result = "recorded"
                /\ FileFormD(c) \/ AmendFormD(c) \/ FileBlueSkyNotice(c)
             \/ /\ q.result = "unsaved"
                /\ UNCHANGED <<form, notice>>
    BY <1>10, SaveFacts
  <2>3. call'[c] = q /\ \A d \in Calls : d # c => call'[d] = call[d]
    BY <1>1, <2>2
  <2>4. Active(c) /\ Current(c) /\ \A d \in Calls : ~Active(d)'
    BY <1>3, <2>1, <2>2, <2>3 DEF Active, Alone
  <2>5. Suspended => Suspended'
    BY <2>1, <2>3 DEF Suspended
  <2>6. \A d \in Calls : \A op :
          d # c => (InForce(d, op)' <=> InForce(d, op))
    BY <2>1, <2>3 DEF InForce
  <2>7. \A op : InForce(c, op)' => op = call[c].op
    BY <2>2, <2>3 DEF InForce, WentWell
  <2>8. CASE q.result = "unsaved"
    BY <1>7, <2>1, <2>2, <2>3, <2>4, <2>8
  <2>9. CASE FileFormD(c)
    <3>1. /\ call[c].op = "file_form_d" /\ UNCHANGED notice
          /\ form'.status = StatusAfter("filed", call[c].answer,
                                        loaded[c].form.status)
      BY <2>9 DEF FileFormD
    <3>2. form.status \in {"draft", "rejected"}
      BY <1>3, <2>4, <3>1 DEF Closed
    <3>3. \A d \in Calls : InForce(d, "file_form_d") => Suspended'
      BY <1>3, <2>5, <3>2 DEF Closed
    <3>4. InForce(c, "file_form_d")' => form'.status = "filed"
      BY <1>4, <1>6, <2>2, <2>3, <3>1 DEF StatusAfter
    <3>5. \A d \in Calls : InForce(d, "file_notice")' =>
            d # c /\ InForce(d, "file_notice")
      BY <2>6, <2>7, <3>1
    <3>6. \A d \in Calls : InForce(d, "file_form_d")' =>
            form'.status \in {"filed", "amended"} \/ Suspended'
      BY <2>6, <3>3, <3>4
    <3>7. \A d, e \in Calls :
            d # e /\ InForce(d, "file_form_d")' /\ InForce(e, "file_form_d")'
              => Suspended'
      BY <2>6, <3>3
    <3>8. \A d \in Calls : InForce(d, "file_notice")' =>
            notice'.status \in {"filed", "approved"}
      BY <1>3, <3>1, <3>5 DEF Closed
    <3>9. \A d, e \in Calls :
            d # e => ~(InForce(d, "file_notice")'
                       /\ InForce(e, "file_notice")')
      BY <1>3, <3>5 DEF Closed
    <3>10. QED
      BY <2>4, <3>6, <3>7, <3>8, <3>9 DEF Closed
  <2>10. CASE AmendFormD(c)
    <3>1. /\ call[c].op = "amend_form_d" /\ UNCHANGED notice
          /\ form'.status = StatusAfter("amended", call[c].answer,
                                        form.status)
      BY <1>4, <2>4, <2>10 DEF AmendFormD, Current
    <3>2. call[c].answer \in {"accepted", "pending", "blank", "suspended"}
      BY <1>4, <2>1, <3>1 DEF Kept
    <3>3. call[c].answer = "suspended" => Suspended'
      BY <2>2, <2>3, <3>1 DEF Suspended
    <3>4. form.status \in {"filed", "amended"} =>
            form'.status \in {"filed", "amended"} \/ Suspended'
      BY <3>1, <3>2, <3>3 DEF StatusAfter
    <3>5. \A d \in Calls : \A op \in {"file_form_d", "file_notice"} :
            InForce(d, op)' => d # c /\ InForce(d, op)
      BY <2>6, <2>7, <3>1
    <3>6. \A d \in Calls : InForce(d, "file_form_d")' =>
            form'.status \in {"filed", "amended"} \/ Suspended'
      BY <1>3, <2>5, <3>4, <3>5 DEF Closed
    <3>7. \A d, e \in Calls :
            d # e /\ InForce(d, "file_form_d")' /\ InForce(e, "file_form_d")'
              => Suspended'
      BY <1>3, <2>5, <3>5 DEF Closed
    <3>8. \A d \in Calls : InForce(d, "file_notice")' =>
            notice'.status \in {"filed", "approved"}
      BY <1>3, <3>1, <3>5 DEF Closed
    <3>9. \A d, e \in Calls :
            d # e => ~(InForce(d, "file_notice")'
                       /\ InForce(e, "file_notice")')
      BY <1>3, <3>5 DEF Closed
    <3>10. QED
      BY <2>4, <3>6, <3>7, <3>8, <3>9 DEF Closed
  <2>11. CASE FileBlueSkyNotice(c)
    <3> DEFINE a == call[c].answer
    <3>1. /\ call[c].op = "file_notice" /\ UNCHANGED form
          /\ notice'.status =
               IF a = "approved" THEN "approved"
               ELSE StatusAfter("filed", a, loaded[c].notice.status)
      BY <2>11 DEF FileBlueSkyNotice
    <3>2. notice.status \in {"pending", "rejected"}
      BY <1>3, <2>4, <3>1 DEF Closed
    <3>3. \A d \in Calls : ~InForce(d, "file_notice")
      BY <1>3, <3>2 DEF Closed
    <3>4. InForce(c, "file_notice")' => a \in {"accepted", "approved"}
      BY <1>4, <1>6, <2>2, <2>3
    <3>5. InForce(c, "file_notice")' =>
            notice'.status \in {"filed", "approved"}
      BY <3>1, <3>4 DEF StatusAfter
    <3>6. \A d \in Calls : InForce(d, "file_form_d")' =>
            d # c /\ InForce(d, "file_form_d")
      BY <2>6, <2>7, <3>1
    <3>7. \A d \in Calls : InForce(d, "file_notice")' => d = c
      BY <2>6, <3>3
    <3>8. \A d \in Calls : InForce(d, "file_form_d")' =>
            form'.status \in {"filed", "amended"} \/ Suspended'
      BY <1>3, <2>5, <3>1, <3>6 DEF Closed
    <3>9. \A d, e \in Calls :
            d # e /\ InForce(d, "file_form_d")' /\ InForce(e, "file_form_d")'
              => Suspended'
      BY <1>3, <2>5, <3>6 DEF Closed
    <3>10. QED
      BY <2>4, <3>5, <3>7, <3>8, <3>9 DEF Closed
  <2>12. QED
    BY <2>2, <2>8, <2>9, <2>10, <2>11
<1>11. CASE Environment /\ UNCHANGED records
  <2>1. UNCHANGED <<call, filed, lost, form, notice>>
    BY <1>11 DEF Environment, ExpiryNears, ExpiryPasses, Revoke, records
  <2>2. QED
    BY <1>3, <2>1 DEF Closed, Active, InForce, Suspended
<1>12. CASE UNCHANGED vars
  BY <1>3, <1>12 DEF vars, client, records, Closed, Active, InForce, Suspended
<1>13. QED
  BY <1>8, <1>9, <1>10, <1>11, <1>12 DEF Next, Step

(***************************************************************************)
(* EFD's token: a request that authenticate let through with the token it  *)
(* holds goes out before that token expires.                               *)
(***************************************************************************)

(* Call c has read the token for its first attempt, or is about to.        *)
Covered(c) ==
  /\ At(c, "send") /\ ~call[c].login /\ call[c].attempt = 0
  /\ Via(c) = "efd"

(* Its first attempt was answered 401.                                     *)
TurnedAway(c) ==
  /\ At(c, "replied") /\ Via(c) = "efd"
  /\ call[c].answer = "unauthorized" /\ call[c].attempt = 0

TokenInv ==
  /\ expiry # "past" => token # "expired"
  /\ \A c \in Calls : Covered(c) => expiry # "past"
  /\ host # "concurrent" =>
       \A c \in Calls : TurnedAway(c) => token \in {"none", "revoked"}

(* A step of a call leaves the token alone or stores a fresh one, and only *)
(* a token that is not about to expire lets a request through.             *)
LEMMA TokenFacts ==
  ASSUME ClientTyped, LocalInv, NEW c \in Calls, Progress(c)
  PROVE  /\ \/ UNCHANGED <<token, expiry>>
            \/ expiry' = "ahead" /\ token' \in {"live", "none"}
         /\ Covered(c)' => expiry' = "ahead"
         /\ TurnedAway(c)' => Post(c)
<1>1. call \in [Calls -> Call] /\ call[c] \in Call
  BY DEF ClientTyped
<1>2. \A result \in Results : Return(c, result) =>
        call'[c].step \in {"save", "done"}
  <2> SUFFICES ASSUME NEW result \in Results, Return(c, result)
               PROVE  call'[c].step \in {"save", "done"}
    OBVIOUS
  <2>1. PICK q \in Call :
          /\ call' = [call EXCEPT ![c] = q]
          /\ q.step = IF result = "acknowledged" /\ call[c].op \in Recorded
                      THEN "save" ELSE "done"
    BY <1>1, ReturnFacts
  <2>2. QED
    BY <1>1, <2>1
<1>3. call'[c].step \in {"save", "done"} => ~Covered(c)' /\ ~TurnedAway(c)'
  BY DEF Covered, TurnedAway, At
<1>4. UNCHANGED state /\ call'[c].op = call[c].op
  BY ProgressMoves, MovesFacts
<1>5. Via(c)' = Via(c)
  BY <1>4 DEF Via
<1>6. CASE Unsupported(c) \/ Invalid(c) \/ NotImplemented(c)
  BY <1>2, <1>3, <1>6
     DEF Unsupported, Invalid, NotImplemented, Results
<1>7. CASE Checked(c)
  <2>1. /\ call'[c].step = IF Via(c) = "efd" THEN "authenticate" ELSE "send"
        /\ UNCHANGED <<token, expiry>>
    BY <1>1, <1>7 DEF Checked, GoTo
  <2>2. QED
    BY <1>5, <2>1 DEF Covered, TurnedAway, At
<1>8. CASE Authenticate(c)
  <2>1. UNCHANGED <<token, expiry>>
    BY <1>8 DEF Authenticate
  <2>2. CASE Fresh(expiry) /\ GoTo(c, "send")
    <3>1. expiry = "ahead" /\ call'[c].step = "send"
      BY <1>1, <2>2 DEF Fresh, GoTo
    <3>2. QED
      BY <2>1, <3>1 DEF TurnedAway, At
  <2>3. CASE Return(c, "no_credentials")
    BY <1>2, <1>3, <2>1, <2>3 DEF Results
  <2>4. CASE call' = [call EXCEPT ![c].step = "send", ![c].login = TRUE]
    <3>1. call'[c].step = "send" /\ call'[c].login = TRUE
      BY <1>1, <2>4 DEF Call
    <3>2. QED
      BY <2>1, <3>1 DEF Covered, TurnedAway, At
  <2>5. QED
    BY <1>8, <2>2, <2>3, <2>4 DEF Authenticate
<1>9. CASE LoginDone(c)
  <2>1. /\ token' \in {"live", "none"} /\ expiry' = "ahead"
        /\ call' = [call EXCEPT ![c].step = "send", ![c].login = FALSE,
                                ![c].attempt = 0, ![c].answer = "none"]
    BY <1>9 DEF LoginDone
  <2>2. call'[c].step = "send"
    BY <1>1, <2>1 DEF Call
  <2>3. QED
    BY <2>1, <2>2 DEF TurnedAway, At
<1>10. CASE Post(c)
  <2>1. PICK t \in TokenRead(c) : \E o \in Outcome(c, t) :
          call' = [call EXCEPT ![c].step = "replied", ![c].answer = o.answer]
    BY <1>10, Zenon DEF Post
  <2>2. call'[c].step = "replied"
    BY <1>1, <2>1 DEF Call
  <2>3. UNCHANGED <<token, expiry>>
    BY <1>10 DEF Post
  <2>4. QED
    BY <1>10, <2>2, <2>3 DEF Covered, At
<1>11. CASE Settle(c)
  <2>1. UNCHANGED <<token, expiry>>
    BY <1>11 DEF Settle
  <2>2. CASE GoTo(c, "hold")
    <3>1. call'[c].step = "hold"
      BY <1>1, <2>2 DEF GoTo
    <3>2. QED
      BY <2>1, <3>1 DEF Covered, TurnedAway, At
  <2>3. CASE Return(c, "login_failed")
    BY <1>2, <1>3, <2>1, <2>3 DEF Results
  <2>4. CASE Return(c, Settled(call[c].op, call[c].answer))
    <3>1. call[c].op \in Op
      BY <1>11 DEF Settle, At, LocalInv, Local
    <3>2. Settled(call[c].op, call[c].answer) \in Results
      BY <3>1, SettledFacts
    <3>3. QED
      BY <1>2, <1>3, <2>1, <2>4, <3>2
  <2>5. QED
    BY <1>11, <2>2, <2>3, <2>4 DEF Settle
<1>12. CASE Wake(c)
  <2>1. UNCHANGED <<token, expiry>>
    BY <1>12 DEF Wake
  <2>2. CASE Return(c, "cancelled")
    BY <1>2, <1>3, <2>1, <2>2 DEF Results
  <2>3. CASE call' = [call EXCEPT ![c].step = "send", ![c].answer = "none",
                                  ![c].attempt = NextAttempt(@)]
    <3>1. call'[c].step = "send" /\ call'[c].attempt = call[c].attempt + 1
      BY <1>1, <2>3 DEF Call, NextAttempt
    <3>2. call'[c].attempt # 0
      BY <1>1, <3>1 DEF Call
    <3>3. QED
      BY <2>1, <3>1, <3>2 DEF Covered, TurnedAway, At
  <2>4. QED
    BY <1>12, <2>2, <2>3 DEF Wake
<1>13. QED
  BY <1>6, <1>7, <1>8, <1>9, <1>10, <1>11, <1>12 DEF Progress

(* Only EFD's own word turns a request away when no login is under way: it *)
(* carried a token EFD does not honour.                                    *)
LEMMA DeniedFacts ==
  ASSUME ClientTyped, LocalInv, NEW c \in Calls, Alone, TokenInv, Post(c),
         TurnedAway(c)'
  PROVE  token \in {"none", "revoked"} /\ UNCHANGED token
<1>1. /\ call \in [Calls -> Call] /\ call[c] \in Call
      /\ token \in {"none", "live", "revoked", "expired"}
      /\ call[c].step = "send"
  BY DEF ClientTyped, Post, At
<1>2. PICK t \in TokenRead(c) : \E o \in Outcome(c, t) :
        call' = [call EXCEPT ![c].step = "replied", ![c].answer = o.answer]
  BY Zenon DEF Post
<1>3. PICK o \in Outcome(c, t) :
        call' = [call EXCEPT ![c].step = "replied", ![c].answer = o.answer]
  BY <1>2
<1>4. UNCHANGED <<state, token, expiry>>
  BY DEF Post
<1>5. /\ call'[c].answer = o.answer /\ call'[c].attempt = call[c].attempt
      /\ call'[c].op = call[c].op
  BY <1>1, <1>3 DEF Call
<1>6. /\ o.answer = "unauthorized" /\ call[c].attempt = 0
      /\ Via(c) = "efd"
  BY <1>4, <1>5 DEF TurnedAway, Via
<1>7. t = token
  BY <1>1 DEF Alone, Active, TokenRead, At
<1>8. ~Honoured(c, t)
  <2>1. ASSUME Honoured(c, t) PROVE FALSE
    <3>1. Denied(c, t) = {}
      BY <1>6, <2>1 DEF Denied
    <3>2. CASE o \in Served(c)
      <4>1. \A op : "unauthorized" \notin Held(op) \cup Declined(op)
        BY DEF Held, Declined, Taken
      <4>2. QED
        BY <1>6, <3>2, <4>1 DEF Served, Unread
    <3>3. CASE o \in [answer : Failing \cup Denied(c, t), copies : {0}]
      BY <1>6, <3>1, <3>3 DEF Failing
    <3>4. QED
      BY <3>2, <3>3 DEF Outcome
  <2>2. QED
    BY <2>1
<1>9. t # "live" /\ ~call[c].login
  BY <1>6, <1>8 DEF Honoured
<1>10. Covered(c)
  BY <1>1, <1>6, <1>9 DEF Covered, At
<1>11. token # "expired"
  BY <1>10 DEF TokenInv
<1>12. QED
  BY <1>1, <1>4, <1>7, <1>9, <1>11

LEMMA TokenInit == Init => TokenInv
<1> SUFFICES ASSUME Init PROVE TokenInv
  OBVIOUS
<1>1. expiry = "past" /\ \A c \in Calls : call[c].step = "idle"
  BY DEF Init, InitClient
<1>2. QED
  BY <1>1 DEF TokenInv, Covered, TurnedAway, At

LEMMA TokenStep ==
  Base /\ OneAtATime /\ TokenInv /\ [Next]_vars => TokenInv'
<1> SUFFICES ASSUME Base, OneAtATime, TokenInv, [Next]_vars PROVE TokenInv'
  OBVIOUS
<1>1. /\ ClientTyped /\ LocalInv /\ call \in [Calls -> Call]
  BY TypeOKParts DEF Base, ClientTyped
<1>2. host' = host
  BY BeginFacts, SaveFacts DEF Next, Step, vars, records
<1>3. host # "concurrent" => Alone
  BY DEF OneAtATime
<1>4. ASSUME NEW c \in Calls, call'[c].step \in {"check", "done"},
             \A d \in Calls : d # c => call'[d] = call[d],
             UNCHANGED <<state, token, expiry>>
      PROVE  TokenInv'
  <2>1. ~Covered(c)' /\ ~TurnedAway(c)'
    BY <1>4 DEF Covered, TurnedAway, At
  <2>2. \A d \in Calls : d # c => /\ Covered(d)' => Covered(d)
                                  /\ TurnedAway(d)' => TurnedAway(d)
    BY <1>4 DEF Covered, TurnedAway, At, Via
  <2>3. QED
    BY <1>2, <1>4, <2>1, <2>2 DEF TokenInv
<1>5. ASSUME NEW c \in Calls, Begin(c) PROVE TokenInv'
  <2>1. PICK q \in Call :
          call' = [call EXCEPT ![c] = q] /\ q.step \in {"check", "done"}
    BY <1>5, BeginFacts
  <2>2. /\ call'[c].step \in {"check", "done"}
        /\ \A d \in Calls : d # c => call'[d] = call[d]
    BY <1>1, <2>1
  <2>3. QED
    BY <1>4, <1>5, <2>2, BeginFacts
<1>6. ASSUME NEW c \in Calls, Save(c) PROVE TokenInv'
  <2>1. PICK q \in Call : call' = [call EXCEPT ![c] = q] /\ q.step = "done"
    BY <1>6, SaveFacts
  <2>2. /\ call'[c].step \in {"check", "done"}
        /\ \A d \in Calls : d # c => call'[d] = call[d]
    BY <1>1, <2>1
  <2>3. QED
    BY <1>4, <1>6, <2>2, SaveFacts
<1>7. ASSUME NEW c \in Calls, Progress(c) PROVE TokenInv'
  <2>1. /\ \/ UNCHANGED <<token, expiry>>
           \/ expiry' = "ahead" /\ token' \in {"live", "none"}
        /\ Covered(c)' => expiry' = "ahead"
        /\ TurnedAway(c)' => Post(c)
    BY <1>1, <1>7, TokenFacts
  <2>2. /\ \A d \in Calls : d # c => call'[d] = call[d]
        /\ call[c].step \notin {"idle", "save", "done"}
        /\ UNCHANGED state
    BY <1>1, <1>7, ProgressMoves, MovesFacts
  <2>3. \A d \in Calls : d # c => /\ Covered(d)' => Covered(d)
                                  /\ TurnedAway(d)' => TurnedAway(d)
    BY <2>2 DEF Covered, TurnedAway, At, Via
  <2>4. (expiry # "past" => token # "expired")'
    BY <2>1 DEF TokenInv
  <2>5. \A d \in Calls : Covered(d)' => expiry' # "past"
    BY <2>1, <2>3 DEF TokenInv
  <2>6. ASSUME host # "concurrent", NEW d \in Calls, TurnedAway(d)'
        PROVE  token' \in {"none", "revoked"}
    <3>1. d # c => ~TurnedAway(d)
      BY <1>3, <2>2, <2>6 DEF Alone, Active, TurnedAway, At
    <3>2. d = c /\ Post(c)
      BY <2>1, <2>3, <2>6, <3>1
    <3>3. token \in {"none", "revoked"} /\ UNCHANGED token
      BY <1>1, <1>3, <2>6, <3>2, DeniedFacts
    <3>4. QED
      BY <3>3
  <2>7. QED
    BY <1>2, <2>4, <2>5, <2>6 DEF TokenInv
<1>8. CASE Environment /\ UNCHANGED records
  <2>1. UNCHANGED <<state, call>>
    BY <1>8 DEF Environment, ExpiryNears, ExpiryPasses, Revoke
  <2>2. \A d \in Calls : (Covered(d)' <=> Covered(d))
                         /\ (TurnedAway(d)' <=> TurnedAway(d))
    BY <2>1 DEF Covered, TurnedAway, At, Via
  <2>3. CASE ExpiryNears \/ Revoke
    BY <1>2, <2>2, <2>3 DEF ExpiryNears, Revoke, TokenInv
  <2>4. CASE ExpiryPasses
    <3>1. \A d \in Calls : ~Covered(d)
      BY <2>4 DEF ExpiryPasses, Covered
    <3>2. /\ expiry' = "past"
          /\ token' = IF token = "live" THEN "expired" ELSE token
      BY <2>4 DEF ExpiryPasses
    <3>3. QED
      BY <1>2, <2>2, <3>1, <3>2 DEF TokenInv
  <2>5. QED
    BY <1>8, <2>3, <2>4 DEF Environment
<1>9. CASE UNCHANGED vars
  <2>1. UNCHANGED <<state, token, expiry, call>>
    BY <1>9 DEF vars, client
  <2>2. QED
    BY <1>2, <2>1 DEF TokenInv, Covered, TurnedAway, At, Via
<1>10. QED
  BY <1>5, <1>6, <1>7, <1>8, <1>9 DEF Next, Step

(***************************************************************************)
(* The theorems.                                                           *)
(***************************************************************************)

FilingInv == Base /\ RecordsInv /\ OneAtATime /\ CarefulInv /\ TokenInv

LEMMA FilingInvHolds == Spec => []FilingInv
<1>1. Init => FilingInv
  BY BaseInit, RecordsInit, CarefulInit, TokenInit DEF FilingInv
<1>2. FilingInv /\ [Next]_vars => FilingInv'
  <2> SUFFICES ASSUME FilingInv, [Next]_vars PROVE FilingInv'
    OBVIOUS
  <2>1. Base'
    BY BaseStep DEF FilingInv
  <2>2. RecordsInv' /\ OneAtATime' /\ TokenInv'
    BY RecordsStep, OneAtATimeStep, TokenStep DEF FilingInv
  <2>3. CarefulInv'
    BY <2>1, CarefulStep DEF FilingInv
  <2>4. QED
    BY <2>1, <2>2, <2>3 DEF FilingInv
<1>3. QED
  BY <1>1, <1>2, PTL DEF Spec

(* The state of the adapters and of the records keeps its types, whatever  *)
(* the retry budget and however many calls overlap.                        *)
THEOREM FilingTypes == Spec => []TypeOK
<1>1. FilingInv => TypeOK
  BY DEF FilingInv, Base
<1>2. QED
  BY <1>1, FilingInvHolds, PTL

(* submitWithRetry, submitNotice and postFire send a filing again only     *)
(* when they have not read that it was taken: the agency holds one copy    *)
(* for the acknowledgment read and one for each that was lost.             *)
THEOREM CopiesAreAccounted == Spec => []CopiesAccounted
<1>1. FilingInv => CopiesAccounted
  <2> SUFFICES ASSUME FilingInv, NEW c \in Calls
               PROVE  filed[c] = lost[c] + (IF Delivered(c) THEN 1 ELSE 0)
    BY DEF CopiesAccounted
  <2>1. filed[c] = lost[c] + (IF Told(call[c]) THEN 1 ELSE 0)
    BY DEF FilingInv, Base, LocalInv, Local
  <2>2. Told(call[c]) <=> Delivered(c)
    BY DEF Told, Delivered
  <2>3. QED
    BY <2>1, <2>2
<1>2. QED
  BY <1>1, FilingInvHolds, PTL

(* What FileFormD, AmendFormD and FileBlueSkyNotice write is backed by the *)
(* agency, however their calls overlap and whichever of their writes fail. *)
THEOREM RecordIsBacked == Spec => []RecordBacked
<1>1. FilingInv => RecordBacked
  BY DEF FilingInv, RecordsInv, RecordBacked, Acknowledged
<1>2. QED
  BY <1>1, FilingInvHolds, PTL

(* A host that files one thing at a time, and only what the record leaves  *)
(* open, has a filing twice only for a reason it could see, or after a     *)
(* suspended amendment.                                                    *)
THEOREM DuplicatesAreExplained == Spec => []DuplicatesExplained
<1>1. FilingInv => DuplicatesExplained
  <2> SUFFICES ASSUME FilingInv, host = "careful",
                      NEW c \in Calls, NEW d \in Calls, c # d,
                      call[c].op = call[d].op,
                      call[c].op \in {"file_form_d", "file_notice"},
                      filed[c] > 0, filed[d] > 0, ~Mishap(c), ~Mishap(d)
               PROVE  call[c].op = "file_form_d" /\ AmendmentSuspended
    BY DEF DuplicatesExplained
  <2>1. Closed /\ Alone
    BY DEF FilingInv, CarefulInv, OneAtATime
  <2>2. ~(Active(c) /\ Active(d))
    BY <2>1 DEF Alone
  <2>3. \A e \in {c, d} : ~Active(e) => InForce(e, call[c].op)
    <3> SUFFICES ASSUME NEW e \in {c, d}, ~Active(e)
                 PROVE  InForce(e, call[c].op)
      OBVIOUS
    <3>1. e \in Calls /\ call[e].op = call[c].op /\ filed[e] > 0 /\ ~Mishap(e)
      OBVIOUS
    <3>2. call[e].step # "idle"
      BY <3>1 DEF FilingInv, Base, LocalInv, Local
    <3>3. call[e].step = "done"
      BY <3>2 DEF Active
    <3>4. QED
      BY <3>1, <3>3 DEF InForce, WentWell, Mishap
  <2>4. Suspended => AmendmentSuspended
    BY DEF Suspended, AmendmentSuspended
  <2>5. CASE call[c].op = "file_form_d"
    BY <2>1, <2>2, <2>3, <2>4, <2>5 DEF Closed
  <2>6. CASE call[c].op = "file_notice"
    BY <2>1, <2>2, <2>3, <2>6 DEF Closed
  <2>7. QED
    BY <2>5, <2>6
<1>2. QED
  BY <1>1, FilingInvHolds, PTL

(* EFD turns a first attempt away only because of what EFD did: the minute *)
(* authenticate keeps before the recorded expiry is enough.                *)
THEOREM UnauthorizedIsExplained == Spec => []UnauthorizedExplained
<1>1. FilingInv => UnauthorizedExplained
  BY DEF FilingInv, TokenInv, TurnedAway, UnauthorizedExplained
<1>2. QED
  BY <1>1, FilingInvHolds, PTL

(* With one call at a time what a call writes back is what the record says *)
(* with something added: no date and no identifier is lost.                *)
THEOREM NothingIsForgotten == Spec => NothingForgotten
<1> DEFINE Kept1 == /\ form.dated => form'.dated
                    /\ notice.noted \subseteq notice'.noted
<1>1. FilingInv /\ [Next]_vars => [host # "concurrent" => Kept1]_vars
  <2> SUFFICES ASSUME FilingInv, [Next]_vars, host # "concurrent"
               PROVE  Kept1
    OBVIOUS
  <2>1. Base /\ \A c \in Calls : Active(c) => Current(c)
    BY DEF FilingInv, OneAtATime
  <2>2. ASSUME NEW c \in Calls, Begin(c) PROVE Kept1
    BY <2>1, <2>2, BeginFacts
  <2>3. ASSUME NEW c \in Calls, Save(c) PROVE Kept1
    <3>1. /\ call[c].step = "save"
          /\ \/ FileFormD(c) \/ AmendFormD(c) \/ FileBlueSkyNotice(c)
             \/ UNCHANGED <<form, notice>>
      BY <2>1, <2>3, SaveFacts
    <3>2. Current(c)
      BY <2>1, <3>1 DEF Active
    <3>3. CASE FileFormD(c)
      BY <3>3 DEF FileFormD
    <3>4. CASE AmendFormD(c)
      <4>1. loaded[c].form = form
        BY <3>2, <3>4 DEF Current, AmendFormD, FormOps
      <4>2. QED
        BY <3>4, <4>1 DEF AmendFormD
    <3>5. CASE FileBlueSkyNotice(c)
      <4>1. loaded[c].notice = notice
        BY <3>2, <3>5 DEF Current, FileBlueSkyNotice
      <4>2. QED
        BY <3>5, <4>1 DEF FileBlueSkyNotice, Noted
    <3>6. QED
      BY <3>1, <3>3, <3>4, <3>5
  <2>4. CASE UNCHANGED <<form, notice>>
    BY <2>4
  <2>5. QED
    BY <2>2, <2>3, <2>4 DEF Next, Step, vars, records
<1>2. QED
  BY <1>1, FilingInvHolds, PTL DEF Spec, NothingForgotten
=============================================================================
