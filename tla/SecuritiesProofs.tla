-------------------------- MODULE SecuritiesProofs --------------------------
(***************************************************************************)
(* What holds of securities and their ledger for every set of callers,     *)
(* offerings and stakeholders, and for ledgers of every length; and of a   *)
(* host that composes them with restrictions.                              *)
(***************************************************************************)
EXTENDS GatedTransfers, SumTheorems, TLAPS

(* The fields of the requests that move shares.                            *)
LEMMA RequestFields ==
  ASSUME NEW r \in Request
  PROVE  /\ r.action \in {"issue", "transfer", "cancel", "convert"}
         /\ r.security \in Offerings
         /\ r.from \in Stakeholders \cup {""}
         /\ r.to \in Stakeholders \cup {""}
         /\ r.value \in Nat
<1>1. \A v \in Values : v \in Nat
  BY SecuritiesAssumption
<1>2. CASE r \in Issuances
  BY <1>1, <1>2 DEF Issuances
<1>3. CASE r \in Transfers
  <2>1. r.value \in Nat
    <3>1. r.value = 0
      BY <1>3, Zenon DEF Transfers
    <3>2. QED
      BY <3>1
  <2>2. r.action = "transfer"
    BY <1>3, Zenon DEF Transfers
  <2>3. r.security \in Offerings
    BY <1>3, Zenon DEF Transfers
  <2>4. r.from \in Stakeholders \cup {""} /\ r.to \in Stakeholders \cup {""}
    BY <1>3, Zenon DEF Transfers
  <2>5. QED
    BY <2>1, <2>2, <2>3, <2>4, Zenon
<1>4. CASE r \in Cancellations
  <2>1. r.value \in Nat
    <3>1. r.value = 0
      BY <1>4, Zenon DEF Cancellations
    <3>2. QED
      BY <3>1
  <2>2. r.action = "cancel"
    BY <1>4, Zenon DEF Cancellations
  <2>3. r.security \in Offerings
    BY <1>4, Zenon DEF Cancellations
  <2>4. r.from \in Stakeholders \cup {""} /\ r.to \in Stakeholders \cup {""}
    BY <1>4, Zenon DEF Cancellations
  <2>5. QED
    BY <2>1, <2>2, <2>3, <2>4, Zenon
<1>5. CASE r \in Conversions
  <2>1. r.value \in Nat
    <3>1. r.value = 0
      BY <1>5, Zenon DEF Conversions
    <3>2. QED
      BY <3>1
  <2>2. r.action = "convert"
    BY <1>5, Zenon DEF Conversions
  <2>3. r.security \in Offerings
    BY <1>5, Zenon DEF Conversions
  <2>4. r.from \in Stakeholders \cup {""} /\ r.to \in Stakeholders \cup {""}
    BY <1>5, Zenon DEF Conversions
  <2>5. QED
    BY <2>1, <2>2, <2>3, <2>4, Zenon
<1>6. QED
  BY <1>2, <1>3, <1>4, <1>5 DEF Request

(* The fields of a call.                                                   *)
LEMMA CallFields ==
  ASSUME NEW call \in Call
  PROVE  /\ call.caller \in Callers
         /\ call.step \in {"append", "update"}
         /\ call.req \in Request \cup Edits
         /\ call.req.security \in Offerings
         /\ call.sec \in Security
         /\ call.sec.raised \in Nat /\ call.sec.investors \in Nat
<1>1. /\ call.caller \in Callers
      /\ call.step \in {"append", "update"}
      /\ call.req \in Request \cup Edits
      /\ call.sec \in Security
  BY DEF Call
<1>2. call.req.security \in Offerings
  <2>1. CASE call.req \in Request
    BY <2>1, RequestFields
  <2>2. CASE call.req \in Edits
    BY <2>2 DEF Edits
  <2>3. QED
    BY <1>1, <2>1, <2>2
<1>3. call.sec.raised \in Nat /\ call.sec.investors \in Nat
  BY <1>1 DEF Security
<1>4. QED
  BY <1>1, <1>2, <1>3

(* The record an update stores is a security record.                       *)
LEMMA WrittenType ==
  ASSUME NEW call \in Call, call.req \in Issuances \cup Edits
  PROVE  /\ Written(call) \in Security
         /\ call.req.action = "issue" =>
              /\ Written(call).status = call.sec.status
              /\ Written(call).raised = call.sec.raised + call.req.value
              /\ Written(call).investors = call.sec.investors + 1
              /\ call.req.value \in Nat
         /\ call.req.action # "issue" =>
              /\ Written(call).raised = call.sec.raised
              /\ Written(call).investors = call.sec.investors
<1>1. call.sec \in Security
  BY CallFields
<1>2. CASE call.req.action = "issue"
  <2>1. call.req \in Request
    BY <1>2 DEF Edits, Request
  <2>2. call.req.value \in Nat
    BY <2>1, RequestFields
  <2>3. Written(call) = [call.sec EXCEPT !.raised = @ + call.req.value,
                                         !.investors = @ + 1]
    BY <1>2 DEF Written
  <2>4. /\ call.sec.raised + call.req.value \in Nat
        /\ call.sec.investors + 1 \in Nat
    BY <2>2, CallFields
  <2>5. /\ Written(call) \in Security
        /\ Written(call).status = call.sec.status
        /\ Written(call).raised = call.sec.raised + call.req.value
        /\ Written(call).investors = call.sec.investors + 1
    BY <1>1, <2>3, <2>4 DEF Security
  <2>6. QED
    BY <1>2, <2>2, <2>5
<1>3. CASE call.req.action # "issue"
  <2>1. Written(call) = [call.sec EXCEPT !.status = call.req.to]
    BY <1>3 DEF Written
  <2>2. call.req.to \in Status
    BY <1>3, SecuritiesAssumption DEF Issuances, Edits, Status
  <2>3. QED
    BY <1>1, <1>3, <2>1, <2>2 DEF Security
<1>4. QED
  BY <1>2, <1>3

-----------------------------------------------------------------------------

(* The inductive invariant.  Calls work on securities that exist, only     *)
(* issuances and edits reach the update of the security, and neither the   *)
(* copy a call read nor the record it will store counts more than has been *)
(* issued.                                                                 *)
StepsMatch ==
  \A call \in calls :
    /\ call.step = "append" => call.req \in Request
    /\ call.step = "update" => call.req \in Issuances \cup Edits
    /\ Exists(call.req.security) /\ call.sec.status # "none"

Total(s) == issued[s].opening + issued[s].value

Covered(sec, s) == sec.raised <= Total(s) /\ sec.investors <= issued[s].count

Outcome(call) == IF call.step = "update" THEN Written(call) ELSE call.sec

CopiesBacked == \A call \in calls : Covered(Outcome(call), call.req.security)

(* A security that was never created has issued nothing.                   *)
NoneUnused ==
  \A s \in Offerings :
    ~Exists(s) => issued[s] = [opening |-> 0, value |-> 0, count |-> 0]

IInv ==
  /\ TypeOK
  /\ StepsMatch
  /\ CountersBacked
  /\ CopiesBacked
  /\ NoneUnused

(* The counters behind the two records of a security.                      *)
LEMMA Counters ==
  ASSUME TypeOK, NEW s \in Offerings
  PROVE  /\ security[s] \in Security
         /\ security[s].raised \in Nat /\ security[s].investors \in Nat
         /\ issued[s].opening \in Nat /\ issued[s].value \in Nat
         /\ issued[s].count \in Nat /\ Total(s) \in Nat
<1>1. /\ security[s] \in Security
      /\ issued[s] \in [opening : Nat, value : Nat, count : Nat]
  BY DEF TypeOK
<1>2. QED
  BY <1>1 DEF Security, Total

(* The record a creation stores.                                           *)
LEMMA NewFields ==
  ASSUME NEW sec \in NewSecurity
  PROVE  /\ StatusOrDraft(sec.status) \in Status
         /\ StatusOrDraft(sec.status) # "none"
         /\ sec.raised \in Nat /\ sec.investors = 0
         /\ [sec EXCEPT !.status = StatusOrDraft(sec.status)] \in Security
<1>1. sec.raised \in Nat /\ sec.investors = 0 /\ sec.class \in Classes
  <2>1. \A v \in Values : v \in Nat
    BY SecuritiesAssumption
  <2>2. /\ sec.raised \in {0} \cup Values /\ sec.investors = 0
        /\ sec.class \in Classes
    BY Zenon DEF NewSecurity
  <2>3. sec.raised = 0 \/ sec.raised \in Values
    BY <2>2, Zenon
  <2>4. QED
    BY <2>1, <2>2, <2>3
<1>2. sec.status = "" \/ sec.status \in {"draft", "offering", "closed", "cancelled"}
  <2>1. sec.status \in {""} \cup Statuses
    BY Zenon DEF NewSecurity
  <2>2. QED
    BY <2>1, SecuritiesAssumption
<1>3. StatusOrDraft(sec.status) \in {"draft", "offering", "closed", "cancelled"}
  BY <1>2 DEF StatusOrDraft
<1>4. [sec EXCEPT !.status = StatusOrDraft(sec.status)] \in Security
  <2> DEFINE st == StatusOrDraft(sec.status)
  <2>1. st \in Status
    BY <1>3 DEF Status
  <2> HIDE DEF st
  <2>2. sec.raised \in Nat /\ sec.investors \in Nat
    BY <1>1
  <2>3. sec \in [status : {""} \cup Statuses, class : Classes,
                 raised : Nat, investors : Nat]
    BY <2>2, Zenon DEF NewSecurity
  <2>4. [sec EXCEPT !.status = st] \in Security
    BY <2>1, <2>3 DEF Security
  <2>5. QED
    BY <2>4 DEF st
<1>5. QED
  BY <1>1, <1>3, <1>4 DEF Status

(* Setting the late issuances of a security keeps them callers.            *)
LEMMA LateType ==
  ASSUME TypeOK, NEW s \in Offerings, NEW status, LateOnce(s, status)
  PROVE  late' \in [Offerings -> SUBSET Callers]
<1>1. Underway(s) \subseteq Callers
  BY DEF TypeOK, Underway, Call
<1>2. QED
  BY <1>1 DEF TypeOK, LateOnce

(* What a call in flight will have stored counts natural numbers.          *)
LEMMA OutcomeType ==
  ASSUME TypeOK, StepsMatch, NEW call \in calls
  PROVE  /\ call \in Call
         /\ Outcome(call) \in Security
         /\ Outcome(call).raised \in Nat /\ Outcome(call).investors \in Nat
<1>1. call \in Call
  BY DEF TypeOK
<1>2. Outcome(call) \in Security
  <2>1. CASE call.step = "update"
    <3>1. call.req \in Issuances \cup Edits
      BY <2>1 DEF StepsMatch
    <3>2. QED
      BY <1>1, <2>1, <3>1, WrittenType DEF Outcome
  <2>2. CASE call.step # "update"
    BY <1>1, <2>2, CallFields DEF Outcome
  <2>3. QED
    BY <2>1, <2>2
<1>3. QED
  BY <1>1, <1>2 DEF Security

(* What was covered stays covered when issued only grows.                  *)
LEMMA CoveredStays ==
  ASSUME NEW sec, sec.raised \in Nat, sec.investors \in Nat,
         NEW s, Total(s) \in Nat, Total(s)' \in Nat,
         issued[s].count \in Nat, issued'[s].count \in Nat,
         Total(s) <= Total(s)', issued[s].count <= issued'[s].count,
         Covered(sec, s)
  PROVE  sec.raised <= Total(s)' /\ sec.investors <= issued'[s].count
BY DEF Covered

(* Nothing exists, nothing is issued.                                      *)
LEMMA LedgerInit == Init => IInv
<1> SUFFICES ASSUME Init
             PROVE  IInv
  OBVIOUS
<1>1. /\ host \in Host /\ ledger = <<>> /\ calls = {}
      /\ security \in [Offerings -> [status : {"none"}, class : Classes,
                                     raised : {0}, investors : {0}]]
      /\ issued = [s \in Offerings |-> [opening |-> 0, value |-> 0, count |-> 0]]
      /\ late = [s \in Offerings |-> {}]
  BY DEF Init
<1>2. \A s \in Offerings : /\ security[s] \in Security
                           /\ security[s].raised = 0
                           /\ security[s].investors = 0
  BY <1>1 DEF Security, Status
<1>3. security \in [Offerings -> Security]
  BY <1>1, <1>2
<1>4. TypeOK
  BY <1>1, <1>3 DEF TypeOK
<1>5. CountersBacked
  BY <1>1, <1>2 DEF CountersBacked
<1>6. NoneUnused
  BY <1>1 DEF NoneUnused
<1>7. QED
  BY <1>1, <1>4, <1>5, <1>6 DEF IInv, StepsMatch, CopiesBacked

(* Creating a security: whatever copies are in flight stay covered, for    *)
(* its opening never falls.                                                *)
LEMMA LedgerCreate ==
  ASSUME IInv, NEW s \in Offerings, NEW sec \in NewSecurity,
         CreateSecurity(s, sec)
  PROVE  IInv'
<1> USE DEF IInv
<1> DEFINE stored == [sec EXCEPT !.status = StatusOrDraft(sec.status)]
           most == IF sec.raised > issued[s].opening THEN sec.raised
                   ELSE issued[s].opening
<1>1. /\ host' = host /\ ledger' = ledger /\ calls' = calls
      /\ security' = [security EXCEPT ![s] = stored]
      /\ LateOnce(s, StatusOrDraft(sec.status))
      /\ issued' = [issued EXCEPT ![s].opening = most]
  BY Zenon DEF CreateSecurity
<1>2. /\ sec.raised \in Nat /\ stored \in Security
      /\ stored.status # "none" /\ stored.raised = sec.raised
      /\ stored.investors = 0
  BY NewFields DEF NewSecurity
<1> HIDE DEF stored
<1>3. most \in Nat /\ sec.raised <= most /\ issued[s].opening <= most
  BY <1>2, Counters
<1> HIDE DEF most
<1>4. /\ security'[s] = stored
      /\ \A x \in Offerings : x # s => security'[x] = security[x]
  BY <1>1 DEF TypeOK
<1>5. /\ issued' \in [Offerings -> [opening : Nat, value : Nat, count : Nat]]
      /\ issued'[s].opening = most /\ issued'[s].value = issued[s].value
      /\ issued'[s].count = issued[s].count
      /\ \A x \in Offerings : x # s => issued'[x] = issued[x]
  BY <1>1, <1>3 DEF TypeOK
<1>6. TypeOK'
  <2>1. security' \in [Offerings -> Security]
    BY <1>1, <1>2 DEF TypeOK
  <2>2. late' \in [Offerings -> SUBSET Callers]
    BY <1>1, LateType
  <2>3. QED
    BY <1>1, <1>5, <2>1, <2>2 DEF TypeOK
<1>7. StepsMatch'
  <2>1. SUFFICES ASSUME NEW call \in calls
                 PROVE  Exists(call.req.security)'
    BY <1>1 DEF StepsMatch
  <2>2. call.req.security \in Offerings /\ Exists(call.req.security)
    BY CallFields DEF TypeOK, StepsMatch
  <2>3. QED
    BY <1>2, <1>4, <2>2 DEF Exists
<1>8. \A x \in Offerings : /\ Total(x) \in Nat /\ Total(x)' \in Nat
                           /\ issued[x].count \in Nat
                           /\ issued'[x].count = issued[x].count
                           /\ Total(x) <= Total(x)'
  <2>1. SUFFICES ASSUME NEW x \in Offerings
                 PROVE  /\ Total(x) \in Nat /\ Total(x)' \in Nat
                        /\ issued[x].count \in Nat
                        /\ issued'[x].count = issued[x].count
                        /\ Total(x) <= Total(x)'
    OBVIOUS
  <2>2. /\ issued[x].opening \in Nat /\ issued[x].value \in Nat
        /\ issued[x].count \in Nat
    BY Counters
  <2>3. CASE x = s
    BY <1>3, <1>5, <2>2, <2>3 DEF Total
  <2>4. CASE x # s
    BY <1>5, <2>2, <2>4 DEF Total
  <2>5. QED
    BY <2>3, <2>4
<1>9. \A x \in Offerings : issued[x].count <= issued'[x].count
  BY <1>8
<1>10. CountersBacked'
  <2>1. SUFFICES ASSUME NEW x \in Offerings
                 PROVE  /\ security'[x].raised <= Total(x)'
                        /\ security'[x].investors <= issued'[x].count
    BY DEF CountersBacked, Total
  <2>2. CASE x = s
    <3>1. /\ security'[s].raised = sec.raised /\ security'[s].investors = 0
          /\ Total(s)' = most + issued[s].value /\ issued[s].value \in Nat
      BY <1>2, <1>4, <1>5, Counters DEF Total
    <3>2. QED
      BY <1>2, <1>3, <1>8, <2>2, <3>1
  <2>3. CASE x # s
    <3>1. Covered(security[x], x)
      BY DEF CountersBacked, Covered, Total
    <3>2. QED
      BY <1>4, <1>8, <1>9, <2>3, <3>1, Counters, CoveredStays
  <2>4. QED
    BY <2>2, <2>3
<1>11. CopiesBacked'
  <2>1. SUFFICES ASSUME NEW call \in calls
                 PROVE  /\ Outcome(call).raised <= Total(call.req.security)'
                        /\ Outcome(call).investors <= issued'[call.req.security].count
    BY <1>1 DEF CopiesBacked, Covered, Outcome, Written, Total
  <2>2. /\ Outcome(call).raised \in Nat /\ Outcome(call).investors \in Nat
        /\ call.req.security \in Offerings
        /\ Covered(Outcome(call), call.req.security)
    BY OutcomeType, CallFields DEF CopiesBacked
  <2>3. QED
    BY <1>8, <1>9, <2>2, CoveredStays
<1>12. NoneUnused'
  BY <1>2, <1>4, <1>5 DEF NoneUnused, Exists
<1>13. QED
  BY <1>6, <1>7, <1>10, <1>11, <1>12

(* Beginning a call: its copy is the stored record.                        *)
LEMMA LedgerBegin ==
  ASSUME IInv, NEW c \in Callers, NEW r \in Request \cup Edits,
         NEW step \in {"append", "update"}, Begin(c, step, r),
         step = "append" => r \in Request,
         step = "update" => r \in Edits
  PROVE  IInv'
<1> USE DEF IInv
<1> DEFINE s == r.security
           new == [caller |-> c, step |-> step, req |-> r, sec |-> security[s]]
<1>1. /\ Exists(s) /\ calls' = calls \cup {new}
      /\ host' = host /\ security' = security /\ ledger' = ledger
      /\ issued' = issued /\ late' = late
  BY DEF Begin
<1>2. s \in Offerings
  BY RequestFields DEF Edits
<1>3. security[s] \in Security
  BY <1>2, Counters
<1>4. new \in Call
  BY <1>3 DEF Call
<1>5. TypeOK'
  BY <1>1, <1>4 DEF TypeOK
<1>6. StepsMatch'
  BY <1>1 DEF StepsMatch, Exists
<1>7. CountersBacked'
  BY <1>1 DEF CountersBacked
<1>8. Covered(Outcome(new), s)
  <2>1. Covered(security[s], s)
    BY <1>2 DEF Covered, CountersBacked, Total
  <2>2. CASE step = "append"
    BY <2>1, <2>2 DEF Outcome
  <2>3. CASE step = "update"
    <3>1. r.action # "issue"
      BY <2>3 DEF Edits
    <3>2. /\ Written(new).raised = security[s].raised
          /\ Written(new).investors = security[s].investors
      BY <1>4, <2>3, <3>1, WrittenType
    <3>3. QED
      BY <2>1, <2>3, <3>2 DEF Outcome, Covered
  <2>4. QED
    BY <2>2, <2>3
<1>9. CopiesBacked'
  <2>1. SUFFICES ASSUME NEW call \in calls'
                 PROVE  Covered(Outcome(call), call.req.security)
    BY <1>1 DEF CopiesBacked, Covered, Outcome, Written, Total
  <2>2. CASE call \in calls
    BY <2>2 DEF CopiesBacked
  <2>3. CASE call = new
    BY <1>8, <2>3
  <2>4. QED
    BY <1>1, <2>2, <2>3
<1>10. NoneUnused'
  BY <1>1 DEF NoneUnused, Exists
<1>11. QED
  BY <1>5, <1>6, <1>7, <1>9, <1>10

(* Appending to the ledger: an issuance raises what is issued by what its  *)
(* update will add, and other movements leave the counters alone.          *)
LEMMA LedgerAppend ==
  ASSUME IInv, NEW call \in calls, AppendLedger(call)
  PROVE  IInv'
<1> DEFINE r == call.req
           s == call.req.security
           moved == [call EXCEPT !.step = "update"]
           e == [action |-> Action(r), security |-> s,
                 from |-> r.from, to |-> r.to, value |-> r.value]
<1>1. /\ call.step = "append" /\ ledger' = Append(ledger, e)
      /\ host' = host /\ security' = security /\ late' = late
      /\ IF r.action = "issue"
         THEN /\ calls' = (calls \ {call}) \cup {moved}
              /\ issued' = [issued EXCEPT ![s].value = @ + r.value,
                                          ![s].count = @ + 1]
         ELSE calls' = calls \ {call} /\ issued' = issued
  BY Zenon DEF AppendLedger
<1>2. call \in Call /\ r \in Request /\ s \in Offerings
  BY <1>1, CallFields DEF IInv, TypeOK, StepsMatch
<1>3. r.value \in Nat
  BY <1>2, RequestFields
<1>4. ledger' \in Seq(LedgerEntry)
  <2>1. e \in LedgerEntry
    BY <1>2, RequestFields DEF LedgerEntry, Action
  <2>2. QED
    BY <1>1, <2>1 DEF IInv, TypeOK
<1>5. CASE r.action # "issue"
  BY <1>1, <1>4, <1>5
     DEF IInv, TypeOK, StepsMatch, CountersBacked, CopiesBacked, Covered,
         Outcome, Written, Exists, Total, NoneUnused
<1>6. CASE r.action = "issue"
  <2>1. r \in Issuances
    BY <1>2, <1>6
       DEF Request, Issuances, Transfers, Cancellations, Conversions
  <2>2. moved \in Call /\ moved.step = "update" /\ moved.req = r
        /\ moved.sec = call.sec
    BY <1>2 DEF Call
  <2>3. calls' = (calls \ {call}) \cup {moved}
    BY <1>1, <1>6
  <2>4. issued' = [issued EXCEPT ![s].value = @ + r.value,
                                 ![s].count = @ + 1]
    BY <1>1, <1>6, Zenon
  <2>5. /\ issued[s] \in [opening : Nat, value : Nat, count : Nat]
        /\ issued[s].value + r.value \in Nat /\ issued[s].count + 1 \in Nat
    <3>1. issued[s] \in [opening : Nat, value : Nat, count : Nat]
      BY <1>2 DEF IInv, TypeOK
    <3>2. issued[s].value \in Nat /\ issued[s].count \in Nat
      BY <3>1
    <3> HIDE DEF s, r
    <3>3. QED
      BY <1>3, <3>1, <3>2
  <2>6. /\ issued' \in [Offerings -> [opening : Nat, value : Nat, count : Nat]]
        /\ issued'[s].opening = issued[s].opening
        /\ issued'[s].value = issued[s].value + r.value
        /\ issued'[s].count = issued[s].count + 1
        /\ \A x \in Offerings : x # s => issued'[x] = issued[x]
    BY <1>2, <2>4, <2>5 DEF IInv, TypeOK
  <2>7. TypeOK'
    BY <1>1, <1>4, <2>2, <2>3, <2>6 DEF IInv, TypeOK
  <2>8. StepsMatch'
    BY ZenonT(60), <1>1, <2>1, <2>2, <2>3 DEF IInv, StepsMatch, Exists
  <2>9. \A x \in Offerings : /\ Total(x) \in Nat /\ Total(x)' \in Nat
                             /\ issued[x].count \in Nat
                             /\ issued'[x].count \in Nat
                             /\ Total(x) <= Total(x)'
                             /\ issued[x].count <= issued'[x].count
    <3>1. SUFFICES ASSUME NEW x \in Offerings
                   PROVE  /\ Total(x) \in Nat /\ Total(x)' \in Nat
                          /\ issued[x].count \in Nat
                          /\ issued'[x].count \in Nat
                          /\ Total(x) <= Total(x)'
                          /\ issued[x].count <= issued'[x].count
      OBVIOUS
    <3>2. /\ issued[x].opening \in Nat /\ issued[x].value \in Nat
          /\ issued[x].count \in Nat
      BY Counters DEF IInv
    <3>3. CASE x = s
      BY <1>3, <2>6, <3>2, <3>3 DEF Total
    <3>4. CASE x # s
      BY <2>6, <3>2, <3>4 DEF Total
    <3>5. QED
      BY <3>3, <3>4
  <2>10. ASSUME NEW sec, sec.raised \in Nat, sec.investors \in Nat,
                NEW x \in Offerings, Covered(sec, x)
         PROVE  sec.raised <= Total(x)' /\ sec.investors <= issued'[x].count
    BY <2>9, <2>10, CoveredStays
  <2>11. CountersBacked'
    <3>1. SUFFICES ASSUME NEW x \in Offerings
                   PROVE  /\ security[x].raised <= Total(x)'
                          /\ security[x].investors <= issued'[x].count
      BY <1>1 DEF CountersBacked, Total
    <3>2. Covered(security[x], x)
      BY DEF IInv, CountersBacked, Covered, Total
    <3>3. QED
      BY <2>10, <3>2, Counters DEF IInv
  <2>12. /\ Written(moved).raised <= Total(s)'
         /\ Written(moved).investors <= issued'[s].count
    <3>1. /\ Written(moved).raised = call.sec.raised + r.value
          /\ Written(moved).investors = call.sec.investors + 1
      BY <1>6, <2>1, <2>2, WrittenType
    <3>2. call.sec.raised <= Total(s) /\ call.sec.investors <= issued[s].count
      BY <1>1 DEF IInv, CopiesBacked, Covered, Outcome
    <3>3. /\ call.sec.raised \in Nat /\ call.sec.investors \in Nat
          /\ Total(s) \in Nat /\ issued[s].count \in Nat
          /\ issued[s].opening \in Nat /\ issued[s].value \in Nat
      BY <1>2, CallFields, Counters DEF IInv
    <3>4. Total(s)' = Total(s) + r.value
      BY <1>3, <2>6, <3>3 DEF Total
    <3>5. QED
      BY <1>3, <2>6, <3>1, <3>2, <3>3, <3>4
  <2>13. CopiesBacked'
    <3>1. SUFFICES ASSUME NEW x \in calls'
                   PROVE  /\ Outcome(x).raised <= Total(x.req.security)'
                          /\ Outcome(x).investors <= issued'[x.req.security].count
      BY DEF CopiesBacked, Covered, Outcome, Written, Total
    <3>2. CASE x \in calls
      BY <2>10, <3>2, OutcomeType, CallFields DEF IInv, CopiesBacked
    <3>3. CASE x = moved
      BY <2>2, <2>12, <3>3 DEF Outcome
    <3>4. QED
      BY <2>3, <3>2, <3>3
  <2>14. NoneUnused'
    <3>1. Exists(s)
      BY DEF IInv, StepsMatch
    <3>2. QED
      BY <1>1, <2>6, <3>1 DEF IInv, NoneUnused, Exists
  <2>15. QED
    BY <2>7, <2>8, <2>11, <2>13, <2>14 DEF IInv
<1>7. QED
  BY <1>5, <1>6

(* Storing a record: what it counts was already covered.                   *)
LEMMA LedgerUpdate ==
  ASSUME IInv, NEW call \in calls, UpdateSecurity(call)
  PROVE  IInv'
<1> DEFINE s == call.req.security
<1>1. /\ call.step = "update" /\ calls' = calls \ {call}
      /\ security' = [security EXCEPT ![s] = Written(call)]
      /\ LateOnce(s, Written(call).status)
      /\ host' = host /\ ledger' = ledger /\ issued' = issued
  BY Zenon DEF UpdateSecurity
<1>2. /\ call \in Call /\ s \in Offerings
      /\ call.req \in Issuances \cup Edits /\ call.sec.status # "none"
  BY <1>1, CallFields DEF IInv, TypeOK, StepsMatch
<1>3. Written(call) \in Security /\ Written(call).status # "none"
  <2>1. CASE call.req.action = "issue"
    BY <1>2, <2>1, WrittenType
  <2>2. CASE call.req.action # "issue"
    <3>1. call.req.to # "none"
      BY <1>2, <2>2, SecuritiesAssumption DEF Issuances, Edits
    <3>2. call.sec \in Security
      BY <1>2, CallFields
    <3>3. Written(call) = [call.sec EXCEPT !.status = call.req.to]
      BY <2>2 DEF Written
    <3>4. Written(call).status = call.req.to
      BY <3>2, <3>3 DEF Security
    <3>5. QED
      BY <1>2, <3>1, <3>4, WrittenType
  <2>3. QED
    BY <2>1, <2>2
<1>4. /\ security'[s] = Written(call)
      /\ \A x \in Offerings : x # s => security'[x] = security[x]
  BY <1>1, <1>2 DEF IInv, TypeOK
<1>5. TypeOK'
  <2>1. late' \in [Offerings -> SUBSET Callers]
    BY <1>1, <1>2, LateType DEF IInv
  <2>2. QED
    BY <1>1, <1>2, <1>3, <2>1 DEF IInv, TypeOK
<1>6. StepsMatch'
  <2>1. SUFFICES ASSUME NEW x \in calls
                 PROVE  Exists(x.req.security)'
    BY <1>1 DEF IInv, StepsMatch
  <2>2. x.req.security \in Offerings /\ Exists(x.req.security)
    BY CallFields DEF IInv, TypeOK, StepsMatch
  <2>3. QED
    BY <1>3, <1>4, <2>2 DEF Exists
<1>7. CountersBacked'
  <2>1. /\ Written(call).raised <= Total(s)
        /\ Written(call).investors <= issued[s].count
    BY <1>1 DEF IInv, CopiesBacked, Covered, Outcome
  <2>2. QED
    BY <1>1, <1>4, <2>1 DEF IInv, CountersBacked, Total
<1>8. CopiesBacked'
  BY <1>1 DEF IInv, CopiesBacked, Covered, Outcome, Written, Total
<1>9. NoneUnused'
  BY <1>1, <1>3, <1>4 DEF IInv, NoneUnused, Exists
<1>10. QED
  BY <1>5, <1>6, <1>7, <1>8, <1>9 DEF IInv

(* Every step keeps the invariant.                                         *)
LEMMA LedgerStep == IInv /\ [Next]_vars => IInv'
<1> SUFFICES ASSUME IInv, [Next]_vars
             PROVE  IInv'
  OBVIOUS
<1>1. ASSUME NEW s \in Offerings, NEW sec \in NewSecurity,
             CreateSecurity(s, sec)
      PROVE  IInv'
  BY <1>1, LedgerCreate
<1>2. ASSUME NEW c \in Callers, NEW r \in Issuances, BeginIssue(c, r)
      PROVE  IInv'
  BY <1>2, LedgerBegin DEF BeginIssue, Request
<1>3. ASSUME NEW c \in Callers,
             NEW r \in Transfers \cup Cancellations \cup Conversions,
             BeginMovement(c, r)
      PROVE  IInv'
  BY <1>3, LedgerBegin DEF BeginMovement, Request
<1>4. ASSUME NEW c \in Callers, NEW r \in Edits, BeginEdit(c, r)
      PROVE  IInv'
  BY <1>4, LedgerBegin DEF BeginEdit
<1>5. ASSUME NEW call \in calls, Step(call)
      PROVE  IInv'
  <2>1. CASE Fails(call)
    BY <2>1 DEF Fails, IInv, TypeOK, StepsMatch, CountersBacked, CopiesBacked,
                Covered, Outcome, Written, Exists, Total, NoneUnused
  <2>2. QED
    BY <1>5, <2>1, LedgerAppend, LedgerUpdate DEF Step
<1>6. CASE UNCHANGED vars
  BY <1>6 DEF vars, IInv, TypeOK, StepsMatch, CountersBacked, CopiesBacked,
              Covered, Outcome, Written, Exists, Total, NoneUnused
<1>7. QED
  BY <1>1, <1>2, <1>3, <1>4, <1>5, <1>6 DEF Next

(* The invariant holds of every behaviour.                                 *)
THEOREM LedgerInvariant == Spec => []IInv
<1>1. Init => IInv
  BY LedgerInit
<1>2. IInv /\ [Next]_vars => IInv'
  BY LedgerStep
<1>3. QED
  BY <1>1, <1>2, PTL DEF Spec

(* Every variable keeps its type in every behaviour of the module.         *)
THEOREM TypeCorrect == Spec => []TypeOK
BY LedgerInvariant, PTL DEF IInv

(* Whatever overlaps, is stored from a stale copy or fails, the counters   *)
(* of a security never run ahead of its issuances.                         *)
THEOREM CountersStayBacked == Spec => []CountersBacked
BY LedgerInvariant, PTL DEF IInv

-----------------------------------------------------------------------------

(* With a serial host there is one call at most, its copy is the stored    *)
(* record and passed the check of its kind.                                *)
SerialSound ==
  host.serial =>
    /\ \A c1, c2 \in calls : c1 = c2
    /\ \A call \in calls :
         /\ call.sec = security[call.req.security]
         /\ call.req.action = "issue" => Issuable(call.sec)

(* When the repository is reliable as well and no security is created      *)
(* twice, the counters lag behind the issuances by the update that is      *)
(* still to come.                                                          *)
Exact == host.serial /\ host.reliable /\ host.unique

Agrees(sec, s) == sec.raised = Total(s) /\ sec.investors = issued[s].count

ExactSound ==
  Exact =>
    \A s \in Offerings :
      IF \E call \in calls : call.req.security = s
      THEN \A call \in calls : Agrees(Outcome(call), s)
      ELSE Agrees(security[s], s)

SInv ==
  /\ IInv
  /\ SerialSound
  /\ ExactSound

(* Nothing has been issued and nothing runs.                               *)
LEMMA SerialInit == Init => SInv
<1> SUFFICES ASSUME Init
             PROVE  SInv
  OBVIOUS
<1>1. IInv
  BY LedgerInit
<1>2. /\ calls = {}
      /\ security \in [Offerings -> [status : {"none"}, class : Classes,
                                     raised : {0}, investors : {0}]]
      /\ issued = [s \in Offerings |-> [opening |-> 0, value |-> 0, count |-> 0]]
  BY DEF Init
<1>3. \A s \in Offerings : security[s].raised = 0 /\ security[s].investors = 0
  BY <1>2
<1>4. QED
  BY <1>1, <1>2, <1>3 DEF SInv, SerialSound, ExactSound, Agrees, Total

(* A security is created while no call runs, and the first time it is, its *)
(* opening is what it has issued.                                          *)
LEMMA SerialCreate ==
  ASSUME SInv, IInv', NEW s \in Offerings, NEW sec \in NewSecurity,
         CreateSecurity(s, sec)
  PROVE  SInv'
<1> DEFINE stored == [sec EXCEPT !.status = StatusOrDraft(sec.status)]
           most == IF sec.raised > issued[s].opening THEN sec.raised
                   ELSE issued[s].opening
<1>1. /\ host.serial => calls = {}
      /\ host.unique => ~Exists(s)
      /\ host' = host /\ calls' = calls
      /\ security' = [security EXCEPT ![s] = stored]
      /\ issued' = [issued EXCEPT ![s].opening = most]
  BY Zenon DEF CreateSecurity
<1>2. /\ security \in [Offerings -> Security]
      /\ issued \in [Offerings -> [opening : Nat, value : Nat, count : Nat]]
  BY DEF SInv, IInv, TypeOK
<1>3. SerialSound'
  BY <1>1 DEF SerialSound
<1>4. ExactSound'
  <2>1. SUFFICES ASSUME Exact, NEW x \in Offerings
                 PROVE  /\ security'[x].raised = Total(x)'
                        /\ security'[x].investors = issued'[x].count
    BY <1>1 DEF ExactSound, Exact, Agrees
  <2>2. calls = {} /\ Agrees(security[x], x)
    BY <1>1, <2>1 DEF SInv, ExactSound, Exact
  <2>3. CASE x = s
    <3>1. issued[s] = [opening |-> 0, value |-> 0, count |-> 0]
      BY <1>1, <2>1 DEF SInv, IInv, NoneUnused, Exact
    <3>2. sec.raised \in Nat /\ sec.investors = 0
      BY NewFields
    <3>3. /\ stored.raised = sec.raised /\ stored.investors = 0
      BY <3>2 DEF NewSecurity
    <3>4. /\ security'[s].raised = sec.raised
          /\ security'[s].investors = 0
      BY <1>1, <1>2, <3>3
    <3>5. most = sec.raised
      BY <3>1, <3>2
    <3>6. /\ issued'[s].opening = sec.raised
          /\ issued'[s].value = 0 /\ issued'[s].count = 0
      BY <1>1, <1>2, <3>1, <3>5
    <3>7. QED
      BY <2>3, <3>2, <3>4, <3>6 DEF Total
  <2>4. CASE x # s
    <3>1. security'[x] = security[x] /\ issued'[x] = issued[x]
      BY <1>1, <1>2, <2>4
    <3>2. QED
      BY <2>2, <3>1 DEF Agrees, Total
  <2>5. QED
    BY <2>3, <2>4
<1>5. QED
  BY <1>3, <1>4 DEF SInv

(* A call that begins is alone, with a fresh copy that its check passed.   *)
LEMMA SerialBegin ==
  ASSUME SInv, IInv', NEW c \in Callers, NEW r \in Request \cup Edits,
         NEW step \in {"append", "update"}, Begin(c, step, r),
         step = "append" => r \in Request,
         step = "update" => r \in Edits,
         r.action = "issue" => Issuable(security[r.security])
  PROVE  SInv'
<1> DEFINE s == r.security
           new == [caller |-> c, step |-> step, req |-> r, sec |-> security[s]]
<1>1. /\ MayStart(c) /\ calls' = calls \cup {new}
      /\ host' = host /\ security' = security /\ issued' = issued
  BY DEF Begin
<1>2. host.serial => calls = {} /\ calls' = {new}
  BY <1>1 DEF MayStart
<1>3. new.req = r /\ new.sec = security[s] /\ new.step = step
  OBVIOUS
<1>4. s \in Offerings
  BY RequestFields DEF Edits
<1>5. SerialSound'
  BY <1>1, <1>2, <1>3 DEF SerialSound, Issuable
<1>6. ExactSound'
  <2>1. SUFFICES ASSUME Exact, NEW x \in Offerings
                 PROVE  (IF \E call \in calls : call.req.security = x
                         THEN \A call \in calls : Agrees(Outcome(call), x)
                         ELSE Agrees(security[x], x))'
    BY <1>1, Zenon DEF ExactSound, Exact
  <2>2. Agrees(security[x], x)
    BY <1>2, <2>1 DEF SInv, ExactSound, Exact
  <2>3. CASE x # s
    BY <1>1, <1>2, <1>3, <2>1, <2>2, <2>3 DEF Agrees, Total, Exact
  <2>4. CASE x = s
    <3>1. /\ Outcome(new).raised = security[s].raised
          /\ Outcome(new).investors = security[s].investors
      <4>1. CASE step = "append"
        BY <1>3, <4>1 DEF Outcome
      <4>2. CASE step = "update"
        <5>1. new \in Call /\ new.req.action # "issue"
          BY <1>1, <4>2 DEF IInv, TypeOK, Edits
        <5>2. QED
          BY <1>3, <4>2, <5>1, WrittenType DEF Outcome
      <4>3. QED
        BY <4>1, <4>2
    <3>2. Agrees(Outcome(new), s)
      BY <2>2, <2>4, <3>1 DEF Agrees
    <3>3. QED
      BY <1>1, <1>2, <1>3, <2>1, <2>4, <3>2
         DEF Agrees, Outcome, Written, Total, Exact
  <2>5. QED
    BY <2>3, <2>4
<1>7. QED
  BY <1>5, <1>6 DEF SInv

(* Appending: an issuance leaves its update to come, another movement ends.*)
LEMMA SerialAppend ==
  ASSUME SInv, IInv', NEW call \in calls, AppendLedger(call)
  PROVE  SInv'
<1> DEFINE r == call.req
           s == call.req.security
           moved == [call EXCEPT !.step = "update"]
<1>1. /\ call.step = "append"
      /\ host' = host /\ security' = security
      /\ IF r.action = "issue"
         THEN /\ calls' = (calls \ {call}) \cup {moved}
              /\ issued' = [issued EXCEPT ![s].value = @ + r.value,
                                          ![s].count = @ + 1]
         ELSE calls' = calls \ {call} /\ issued' = issued
  BY Zenon DEF AppendLedger
<1>2. call \in Call /\ s \in Offerings /\ r \in Request
  BY <1>1, CallFields DEF SInv, IInv, TypeOK, StepsMatch
<1>3. host.serial => /\ calls = {call} /\ call.sec = security[s]
                     /\ r.action = "issue" => Issuable(call.sec)
  BY DEF SInv, SerialSound
<1>4. Exact =>
        /\ Agrees(call.sec, s)
        /\ \A x \in Offerings : x # s => Agrees(security[x], x)
  <2>1. SUFFICES ASSUME Exact
                 PROVE  /\ Agrees(call.sec, s)
                        /\ \A x \in Offerings : x # s => Agrees(security[x], x)
    OBVIOUS
  <2>2. Outcome(call) = call.sec
    BY <1>1 DEF Outcome
  <2>3. QED
    BY <1>2, <1>3, <2>1, <2>2 DEF SInv, ExactSound, Exact
<1>5. CASE r.action # "issue"
  <2>1. host.serial => calls' = {}
    BY <1>1, <1>3, <1>5
  <2>2. SerialSound'
    BY <1>1, <2>1 DEF SerialSound
  <2>3. ExactSound'
    BY <1>1, <1>3, <1>4, <1>5, <2>1 DEF ExactSound, Exact, Agrees, Total
  <2>4. QED
    BY <2>2, <2>3 DEF SInv
<1>6. CASE r.action = "issue"
  <2>1. /\ moved \in Call /\ moved.step = "update" /\ moved.req = r
        /\ moved.sec = call.sec
    BY <1>2 DEF Call
  <2>2. host.serial => calls' = {moved}
    BY <1>1, <1>3, <1>6
  <2>3. SerialSound'
    BY <1>1, <1>3, <1>6, <2>1, <2>2 DEF SerialSound, Issuable
  <2>4. issued' = [issued EXCEPT ![s].value = @ + r.value,
                                 ![s].count = @ + 1]
    BY <1>1, <1>6, Zenon
  <2>5. /\ issued'[s].opening = issued[s].opening
        /\ issued'[s].value = issued[s].value + r.value
        /\ issued'[s].count = issued[s].count + 1
        /\ \A x \in Offerings : x # s => issued'[x] = issued[x]
    BY <1>2, <2>4 DEF SInv, IInv, TypeOK
  <2>6. r \in Issuances
    BY <1>2, <1>6
       DEF Request, Issuances, Transfers, Cancellations, Conversions
  <2>7. /\ Outcome(moved).raised = call.sec.raised + r.value
        /\ Outcome(moved).investors = call.sec.investors + 1
    BY <1>6, <2>1, <2>6, WrittenType DEF Outcome
  <2>8. ExactSound'
    <3>1. SUFFICES ASSUME Exact, NEW x \in Offerings
                   PROVE  (IF \E y \in calls : y.req.security = x
                           THEN \A y \in calls : Agrees(Outcome(y), x)
                           ELSE Agrees(security[x], x))'
      BY <1>1, Zenon DEF ExactSound, Exact
    <3>2. calls' = {moved} /\ moved.req.security = s
      BY <2>1, <2>2, <3>1 DEF Exact
    <3>3. CASE x # s
      <4>1. Agrees(security[x], x)'
        BY <1>1, <1>4, <2>5, <3>1, <3>3 DEF Agrees, Total
      <4>2. QED
        BY <3>2, <3>3, <4>1
    <3>4. CASE x = s
      <4>1. Outcome(moved).raised = Total(s)'
            /\ Outcome(moved).investors = issued'[s].count
        <5>1. /\ issued[s].opening \in Nat /\ issued[s].value \in Nat
              /\ r.value \in Nat
          BY <1>2, Counters, RequestFields DEF SInv, IInv
        <5>2. /\ call.sec.raised = issued[s].opening + issued[s].value
              /\ call.sec.investors = issued[s].count
          BY <1>4, <3>1 DEF Agrees, Total
        <5>3. QED
          BY <2>5, <2>7, <5>1, <5>2 DEF Total
      <4>2. \A y \in calls' : (Agrees(Outcome(y), x))'
        BY <3>2, <3>4, <4>1 DEF Agrees, Outcome, Written, Total
      <4>3. QED
        BY <3>2, <3>4, <4>2
    <3>5. QED
      BY <3>3, <3>4
  <2>9. QED
    BY <2>3, <2>8 DEF SInv
<1>7. QED
  BY <1>5, <1>6

(* Storing the record ends the call and settles the counters.              *)
LEMMA SerialUpdate ==
  ASSUME SInv, IInv', NEW call \in calls, UpdateSecurity(call)
  PROVE  SInv'
<1> DEFINE s == call.req.security
<1>1. /\ call.step = "update" /\ calls' = calls \ {call}
      /\ security' = [security EXCEPT ![s] = Written(call)]
      /\ host' = host /\ issued' = issued
  BY Zenon DEF UpdateSecurity
<1>2. s \in Offerings /\ security \in [Offerings -> Security]
  BY CallFields DEF SInv, IInv, TypeOK
<1>3. host.serial => calls = {call} /\ calls' = {}
  BY <1>1 DEF SInv, SerialSound
<1>4. SerialSound'
  BY <1>1, <1>3 DEF SerialSound
<1>5. ExactSound'
  <2>1. SUFFICES ASSUME Exact, NEW x \in Offerings
                 PROVE  security'[x].raised = Total(x)
                        /\ security'[x].investors = issued[x].count
    BY <1>1, <1>3 DEF ExactSound, Exact, Agrees, Total
  <2>2. CASE x # s
    BY <1>1, <1>2, <1>3, <2>1, <2>2 DEF SInv, ExactSound, Exact, Agrees
  <2>3. CASE x = s
    <3>1. Agrees(Written(call), s)
      BY <1>1, <1>2, <1>3, <2>1 DEF SInv, ExactSound, Exact, Outcome
    <3>2. security'[s] = Written(call)
      BY <1>1, <1>2
    <3>3. QED
      BY <2>3, <3>1, <3>2 DEF Agrees
  <2>4. QED
    BY <2>2, <2>3
<1>6. QED
  BY <1>4, <1>5 DEF SInv

(* Every step keeps the stronger invariant.                                *)
LEMMA SerialStep == SInv /\ [Next]_vars => SInv'
<1> SUFFICES ASSUME SInv, [Next]_vars
             PROVE  SInv'
  OBVIOUS
<1>1. IInv'
  BY LedgerStep DEF SInv
<1>2. ASSUME NEW s \in Offerings, NEW sec \in NewSecurity,
             CreateSecurity(s, sec)
      PROVE  SInv'
  BY <1>1, <1>2, SerialCreate
<1>3. ASSUME NEW c \in Callers, NEW r \in Issuances, BeginIssue(c, r)
      PROVE  SInv'
  <2>1. r \in Request \cup Edits /\ r \in Request
    BY DEF Request, Issuances
  <2>2. QED
    BY <1>1, <1>3, <2>1, SerialBegin DEF BeginIssue
<1>4. ASSUME NEW c \in Callers,
             NEW r \in Transfers \cup Cancellations \cup Conversions,
             BeginMovement(c, r)
      PROVE  SInv'
  <2>1. r \in Request
    BY DEF Request
  <2>2. r.action # "issue"
    BY Zenon DEF Transfers, Cancellations, Conversions
  <2>3. QED
    BY <1>1, <1>4, <2>1, <2>2, SerialBegin DEF BeginMovement
<1>5. ASSUME NEW c \in Callers, NEW r \in Edits, BeginEdit(c, r)
      PROVE  SInv'
  <2>1. r.action # "issue"
    BY DEF Edits
  <2>2. QED
    BY <1>1, <1>5, <2>1, SerialBegin DEF BeginEdit
<1>6. ASSUME NEW call \in calls, Step(call)
      PROVE  SInv'
  <2>1. CASE Fails(call)
    <3>1. /\ ~host.reliable /\ calls' = calls \ {call}
          /\ host' = host /\ security' = security
      BY <2>1 DEF Fails
    <3>2. SerialSound'
      BY <3>1 DEF SInv, SerialSound, Issuable
    <3>3. QED
      BY <1>1, <3>1, <3>2 DEF SInv, ExactSound, Exact
  <2>2. QED
    BY <1>1, <1>6, <2>1, SerialAppend, SerialUpdate DEF Step
<1>7. CASE UNCHANGED vars
  <2>1. /\ host' = host /\ security' = security /\ calls' = calls
        /\ issued' = issued
    BY <1>7 DEF vars
  <2>2. SerialSound'
    BY <2>1 DEF SInv, SerialSound, Issuable
  <2>3. ExactSound'
    BY <2>1 DEF SInv, ExactSound, Exact, Agrees, Outcome, Written, Total
  <2>4. QED
    BY <1>1, <2>2, <2>3 DEF SInv
<1>8. QED
  BY <1>2, <1>3, <1>4, <1>5, <1>6, <1>7 DEF Next

(* The stronger invariant holds of every behaviour.                        *)
THEOREM SerialInvariant == Spec => []SInv
<1>1. Init => SInv
  BY SerialInit
<1>2. SInv /\ [Next]_vars => SInv'
  BY SerialStep
<1>3. QED
  BY <1>1, <1>2, PTL DEF Spec

(* With a serial host and a reliable repository the counters agree with    *)
(* the issuances between calls.                                            *)
THEOREM SerialHostCounts == Spec => []CountersExact
<1>1. SInv => CountersExact
  BY DEF SInv, ExactSound, Exact, Agrees, Total, CountersExact
<1>2. QED
  BY <1>1, SerialInvariant, PTL

(* With a serial host nothing is issued once the offering is closed: only  *)
(* an issuance counts, and its check is still true of the stored record.   *)
THEOREM ClosedOfferingsIssueNothing == Spec => SealedOffering
<1>1. SInv /\ [Next]_vars =>
        [\A s \in Offerings :
           host.serial /\ issued'[s].count # issued[s].count =>
             security[s].status \in {"draft", "offering"}]_vars
  <2>1. SUFFICES ASSUME SInv, Next, NEW s \in Offerings, host.serial,
                        issued'[s].count # issued[s].count
                 PROVE  security[s].status \in {"draft", "offering"}
    BY Zenon
  <2>2. issued \in [Offerings -> [opening : Nat, value : Nat, count : Nat]]
    BY <2>1 DEF SInv, IInv, TypeOK
  <2>3. ASSUME NEW x \in Offerings, NEW sec, CreateSecurity(x, sec)
        PROVE  FALSE
    <3>1. issued' = [issued EXCEPT ![x].opening =
                       IF sec.raised > @ THEN sec.raised ELSE @]
      BY <2>3, Zenon DEF CreateSecurity
    <3>2. QED
      BY <2>1, <2>2, <3>1
  <2>4. ASSUME NEW c, NEW step, NEW r, Begin(c, step, r)
        PROVE  FALSE
    BY <2>1, <2>4 DEF Begin
  <2>5. PICK call \in calls : Step(call)
    BY <2>1, <2>3, <2>4 DEF Next, BeginIssue, BeginMovement, BeginEdit
  <2>6. AppendLedger(call) /\ call.req.action = "issue"
    BY <2>1, <2>5 DEF Step, AppendLedger, UpdateSecurity, Fails
  <2>7. issued' = [issued EXCEPT
                     ![call.req.security].value = @ + call.req.value,
                     ![call.req.security].count = @ + 1]
    BY <2>6, Zenon DEF AppendLedger
  <2>8. s = call.req.security
    BY <2>1, <2>2, <2>7
  <2>9. QED
    BY <2>1, <2>6, <2>8 DEF SInv, SerialSound, Issuable
<1>2. QED
  BY <1>1, SerialInvariant, PTL DEF Spec, SealedOffering

(* A caller has one call at a time, and the issuances in flight on a       *)
(* closed offering are late: they began while it could still issue.        *)
LateInv ==
  /\ \A x, y \in calls : x.caller = y.caller => x = y
  /\ \A x \in calls :
       x.req.action = "issue" /\ Closed(x.req.security) =>
         x.caller \in late[x.req.security]

(* Setting a status keeps the issuances in flight on what is closed late.  *)
LEMMA LateKept ==
  ASSUME IInv, LateInv, NEW s \in Offerings, NEW sec \in Security,
         security' = [security EXCEPT ![s] = sec], LateOnce(s, sec.status),
         calls' \subseteq calls
  PROVE  LateInv'
<1>1. /\ security \in [Offerings -> Security]
      /\ late \in [Offerings -> SUBSET Callers]
      /\ \A x \in calls : x.req.security \in Offerings
  BY CallFields DEF IInv, TypeOK
<1>2. SUFFICES ASSUME NEW x \in calls, x.req.action = "issue",
                      Closed(x.req.security)'
               PROVE  x.caller \in late'[x.req.security]
  BY DEF LateInv
<1>3. CASE x.req.security # s
  <2>1. /\ security'[x.req.security] = security[x.req.security]
        /\ late'[x.req.security] = late[x.req.security]
    BY <1>1, <1>3 DEF LateOnce
  <2>2. QED
    BY <1>2, <2>1 DEF LateInv, Closed
<1>4. CASE x.req.security = s
  <2>1. sec.status \in {"closed", "cancelled"}
    BY <1>1, <1>2, <1>4 DEF Closed
  <2>2. late'[s] = IF Closed(s) THEN late[s] ELSE Underway(s)
    BY <1>1, <2>1 DEF LateOnce
  <2>3. x.caller \in Underway(s)
    BY <1>2, <1>4 DEF Underway
  <2>4. Closed(s) => x.caller \in late[s]
    BY <1>2, <1>4 DEF LateInv
  <2>5. QED
    BY <1>4, <2>2, <2>3, <2>4
<1>5. QED
  BY <1>3, <1>4

(* A call begins: an issuance only on what is not closed.                  *)
LEMMA LateBegin ==
  ASSUME LateInv, NEW c, NEW step, NEW r, Begin(c, step, r),
         r.action = "issue" => Issuable(security[r.security])
  PROVE  LateInv'
<1> DEFINE new == [caller |-> c, step |-> step, req |-> r,
                   sec |-> security[r.security]]
<1>1. /\ MayStart(c) /\ calls' = calls \cup {new}
      /\ security' = security /\ late' = late
  BY Zenon DEF Begin
<1>2. new.caller = c /\ new.req = r
  OBVIOUS
<1> HIDE DEF new
<1>3. \A x, y \in calls' : x.caller = y.caller => x = y
  BY <1>1, <1>2 DEF LateInv, MayStart
<1>4. r.action = "issue" => ~Closed(r.security)
  BY DEF Issuable, Closed
<1>5. QED
  BY <1>1, <1>2, <1>3, <1>4 DEF LateInv, Closed

(* Every step keeps the late issuances known.                              *)
LEMMA LateStep == IInv /\ LateInv /\ [Next]_vars => LateInv'
<1> SUFFICES ASSUME IInv, LateInv, [Next]_vars
             PROVE  LateInv'
  OBVIOUS
<1>1. ASSUME NEW s \in Offerings, NEW sec \in NewSecurity,
             CreateSecurity(s, sec)
      PROVE  LateInv'
  <2> DEFINE stored == [sec EXCEPT !.status = StatusOrDraft(sec.status)]
  <2>1. /\ security' = [security EXCEPT ![s] = stored] /\ calls' = calls
        /\ LateOnce(s, StatusOrDraft(sec.status))
    BY <1>1, Zenon DEF CreateSecurity
  <2>2. stored \in Security /\ stored.status = StatusOrDraft(sec.status)
    BY NewFields DEF NewSecurity
  <2> HIDE DEF stored
  <2>3. QED
    BY <2>1, <2>2, LateKept
<1>2. ASSUME NEW c \in Callers, NEW r \in Issuances, BeginIssue(c, r)
      PROVE  LateInv'
  BY <1>2, LateBegin DEF BeginIssue
<1>3. ASSUME NEW c \in Callers,
             NEW r \in Transfers \cup Cancellations \cup Conversions,
             BeginMovement(c, r)
      PROVE  LateInv'
  <2>1. r.action # "issue"
    BY Zenon DEF Transfers, Cancellations, Conversions
  <2>2. QED
    BY <1>3, <2>1, LateBegin DEF BeginMovement
<1>4. ASSUME NEW c \in Callers, NEW r \in Edits, BeginEdit(c, r)
      PROVE  LateInv'
  BY <1>4, LateBegin DEF BeginEdit, Edits
<1>5. ASSUME NEW call \in calls, AppendLedger(call)
      PROVE  LateInv'
  <2> DEFINE moved == [call EXCEPT !.step = "update"]
  <2>1. /\ security' = security /\ late' = late
        /\ calls' \subseteq (calls \ {call}) \cup {moved}
    BY <1>5 DEF AppendLedger
  <2>2. moved.caller = call.caller /\ moved.req = call.req
    BY DEF IInv, TypeOK, Call
  <2> HIDE DEF moved
  <2>3. QED
    BY <2>1, <2>2 DEF LateInv, Closed
<1>6. ASSUME NEW call \in calls, UpdateSecurity(call)
      PROVE  LateInv'
  <2>1. /\ security' = [security EXCEPT ![call.req.security] = Written(call)]
        /\ LateOnce(call.req.security, Written(call).status)
        /\ calls' = calls \ {call} /\ call.step = "update"
    BY <1>6, Zenon DEF UpdateSecurity
  <2>2. call.req.security \in Offerings /\ Written(call) \in Security
    BY <2>1, CallFields, WrittenType DEF IInv, TypeOK, StepsMatch
  <2>3. QED
    BY <2>1, <2>2, LateKept
<1>7. ASSUME NEW call \in calls, Fails(call)
      PROVE  LateInv'
  <2>1. /\ security' = security /\ calls' = calls \ {call}
        /\ late' = [late EXCEPT ![call.req.security] = @ \ {call.caller}]
    BY <1>7, Zenon DEF Fails
  <2>2. late \in [Offerings -> SUBSET Callers]
    BY DEF IInv, TypeOK
  <2>3. ASSUME NEW x \in calls, x # call, NEW s \in Offerings,
               x.caller \in late[s]
        PROVE  x.caller \in late'[s]
    BY <2>1, <2>2, <2>3 DEF LateInv
  <2>4. \A x \in calls : x.req.security \in Offerings
    BY CallFields DEF IInv, TypeOK
  <2>5. QED
    BY <2>1, <2>3, <2>4 DEF LateInv, Closed
<1>8. CASE UNCHANGED vars
  BY <1>8 DEF vars, LateInv, Closed
<1>9. QED
  BY <1>1, <1>2, <1>3, <1>4, <1>5, <1>6, <1>7, <1>8 DEF Next, Step

(* Whatever overlaps, fails, is edited or created again, only issuances    *)
(* that were under way when an offering was closed are recorded on it or   *)
(* write back a copy that opens it again.                                  *)
THEOREM ClosingStopsTheRest == Spec => OnlyLateIssuances
<1>1. Init => IInv /\ LateInv
  BY LedgerInit DEF Init, LateInv
<1>2. IInv /\ LateInv /\ [Next]_vars => IInv' /\ LateInv'
  BY LedgerStep, LateStep
<1>3. IInv /\ LateInv /\ [Next]_vars =>
        [\A call \in calls :
           /\ call.req.action = "issue" /\ Closed(call.req.security)
           /\ AppendLedger(call) \/ UpdateSecurity(call)
           => call.caller \in late[call.req.security]]_vars
  BY Zenon DEF LateInv
<1>4. QED
  BY <1>1, <1>2, <1>3, PTL DEF Spec, OnlyLateIssuances

-----------------------------------------------------------------------------

(* What the entries of the ledger are worth.                               *)
Worth == [i \in DOMAIN ledger |-> ledger[i].value]

(* The issue entries of a security are finitely many, with values to add.  *)
LEMMA EntriesType ==
  ASSUME TypeOK
  PROVE  /\ IsFiniteSet(DOMAIN ledger)
         /\ \A i \in DOMAIN ledger : ledger[i] \in LedgerEntry /\ Worth[i] \in Nat
         /\ \A s : /\ IssueEntries(s) \subseteq DOMAIN ledger
                  /\ IsFiniteSet(IssueEntries(s))
                  /\ Cardinality(IssueEntries(s)) \in Nat
                  /\ SumFunctionOnSet(Worth, IssueEntries(s)) \in Nat
<1>1. ledger \in Seq(LedgerEntry) /\ DOMAIN ledger = 1..Len(ledger)
  BY DEF TypeOK
<1>2. IsFiniteSet(DOMAIN ledger)
  BY <1>1, FS_Interval
<1>3. \A i \in DOMAIN ledger : ledger[i] \in LedgerEntry /\ Worth[i] \in Nat
  <2>1. \A i \in DOMAIN ledger : ledger[i] \in LedgerEntry
    BY <1>1
  <2>2. \A e \in LedgerEntry : e.value \in Nat
    BY DEF LedgerEntry
  <2>3. \A i \in DOMAIN ledger : Worth[i] = ledger[i].value
    BY DEF Worth
  <2>4. QED
    BY <2>1, <2>2, <2>3
<1>4. ASSUME NEW s
      PROVE  /\ IssueEntries(s) \subseteq DOMAIN ledger
             /\ IsFiniteSet(IssueEntries(s))
             /\ Cardinality(IssueEntries(s)) \in Nat
             /\ SumFunctionOnSet(Worth, IssueEntries(s)) \in Nat
  <2>1. IssueEntries(s) \subseteq DOMAIN ledger
    BY DEF IssueEntries
  <2>2. IsFiniteSet(IssueEntries(s)) /\ Cardinality(IssueEntries(s)) \in Nat
    BY <1>2, <2>1, FS_Subset, FS_CardinalityType
  <2>3. QED
    BY <1>3, <2>1, <2>2, SumType
<1>5. QED
  BY <1>2, <1>3, <1>4

(* An entry adds its value and one to the issuances of its security if it  *)
(* is an issue entry, and nothing to any other.                            *)
LEMMA EntryAdds ==
  ASSUME TypeOK, NEW e \in LedgerEntry, ledger' = Append(ledger, e),
         NEW s \in Offerings
  PROVE  LET new == e.security = s /\ e.action = "issue" IN
         /\ Cardinality(IssueEntries(s))' =
              Cardinality(IssueEntries(s)) + IF new THEN 1 ELSE 0
         /\ SumFunctionOnSet(Worth, IssueEntries(s))' =
              SumFunctionOnSet(Worth, IssueEntries(s))
                + IF new THEN e.value ELSE 0
<1> DEFINE I == IssueEntries(s)
           n == Len(ledger) + 1
           f == Worth'
<1>1. /\ DOMAIN ledger' = (DOMAIN ledger) \cup {n} /\ n \notin DOMAIN ledger
      /\ ledger'[n] = e /\ \A i \in DOMAIN ledger : ledger'[i] = ledger[i]
  BY DEF TypeOK
<1>2. e.value \in Nat
  BY DEF LedgerEntry
<1>3. /\ f[n] = e.value
      /\ \A i \in DOMAIN ledger : f[i] = Worth[i]
  BY <1>1 DEF Worth
<1>4. /\ I \subseteq DOMAIN ledger /\ IsFiniteSet(I) /\ Cardinality(I) \in Nat
      /\ \A i \in I : Worth[i] \in Nat
      /\ SumFunctionOnSet(Worth, I) \in Nat
  BY EntriesType
<1>5. I' = IF e.security = s /\ e.action = "issue" THEN I \cup {n} ELSE I
  BY <1>1 DEF IssueEntries
<1> HIDE DEF f, I, n
<1>6. SumFunctionOnSet(f, I) = SumFunctionOnSet(Worth, I)
  BY <1>3, <1>4, SumAgree
<1>7. SumFunctionOnSet(Worth, I)' = SumFunctionOnSet(f, I')
  BY DEF f
<1>8. CASE e.security = s /\ e.action = "issue"
  <2>1. n \notin I /\ \A i \in I \cup {n} : f[i] \in Int
    BY <1>1, <1>2, <1>3, <1>4
  <2>2. Cardinality(I \cup {n}) = Cardinality(I) + 1
    BY <1>4, <2>1, FS_AddElement
  <2>3. SumFunctionOnSet(f, I \cup {n}) = f[n] + SumFunctionOnSet(f, I)
    BY <1>4, <2>1, SumAdd
  <2>4. I' = I \cup {n}
    BY <1>5, <1>8
  <2>5. QED
    BY <1>2, <1>3, <1>4, <1>6, <1>7, <1>8, <2>2, <2>3, <2>4 DEF I
<1>9. CASE ~(e.security = s /\ e.action = "issue")
  <2>1. I' = I
    BY <1>5, <1>9
  <2>2. QED
    BY <1>4, <1>6, <1>7, <1>9, <2>1 DEF I
<1>10. QED
  BY <1>8, <1>9

(* Nothing is in the ledger.                                               *)
LEMMA EntriesInit == Init => IssuedIsLedger
<1> SUFFICES ASSUME Init, NEW s \in Offerings
             PROVE  /\ issued[s].count = Cardinality(IssueEntries(s))
                    /\ issued[s].value = SumFunctionOnSet(Worth, IssueEntries(s))
  BY DEF IssuedIsLedger, Worth
<1>1. /\ ledger = <<>>
      /\ issued[s] = [opening |-> 0, value |-> 0, count |-> 0]
  BY DEF Init
<1>2. IssueEntries(s) = {}
  BY <1>1 DEF IssueEntries
<1>3. QED
  BY <1>1, <1>2, SumEmpty, FS_EmptySet

(* Nothing but an append touches the ledger or what counts as issued.      *)
LEMMA EntriesStay ==
  ASSUME IssuedIsLedger, ledger' = ledger,
         \A s \in Offerings : /\ issued'[s].value = issued[s].value
                              /\ issued'[s].count = issued[s].count
  PROVE  IssuedIsLedger'
BY DEF IssuedIsLedger, IssueEntries

(* Every step keeps them so.                                               *)
LEMMA EntriesStep == IInv /\ IssuedIsLedger /\ [Next]_vars => IssuedIsLedger'
<1> SUFFICES ASSUME IInv, IssuedIsLedger, [Next]_vars
             PROVE  IssuedIsLedger'
  OBVIOUS
<1>1. TypeOK
  BY DEF IInv
<1>2. ASSUME NEW s \in Offerings, NEW sec, CreateSecurity(s, sec)
      PROVE  IssuedIsLedger'
  <2>1. /\ ledger' = ledger
        /\ issued' = [issued EXCEPT ![s].opening =
                        IF sec.raised > @ THEN sec.raised ELSE @]
    BY <1>2, Zenon DEF CreateSecurity
  <2>2. \A x \in Offerings : /\ issued'[x].value = issued[x].value
                             /\ issued'[x].count = issued[x].count
    BY <1>1, <2>1 DEF TypeOK
  <2>3. QED
    BY <2>1, <2>2, EntriesStay
<1>3. ASSUME ledger' = ledger, issued' = issued
      PROVE  IssuedIsLedger'
  BY <1>3, EntriesStay
<1>4. ASSUME NEW c, NEW step, NEW r, Begin(c, step, r)
      PROVE  IssuedIsLedger'
  BY <1>3, <1>4 DEF Begin
<1>5. ASSUME NEW call \in calls, AppendLedger(call)
      PROVE  IssuedIsLedger'
  <2> DEFINE r == call.req
             s == call.req.security
             e == [action |-> Action(r), security |-> s,
                   from |-> r.from, to |-> r.to, value |-> r.value]
  <2>1. /\ call.step = "append" /\ ledger' = Append(ledger, e)
        /\ IF r.action = "issue"
           THEN issued' = [issued EXCEPT ![s].value = @ + r.value,
                                         ![s].count = @ + 1]
           ELSE issued' = issued
    BY <1>5, Zenon DEF AppendLedger
  <2>2. r \in Request /\ s \in Offerings
    BY <1>1, <2>1, CallFields DEF IInv, TypeOK, StepsMatch
  <2>3. /\ e \in LedgerEntry /\ e.security = s
        /\ e.action = r.action /\ e.value = r.value /\ r.value \in Nat
    BY <2>2, RequestFields DEF LedgerEntry, Action
  <2> HIDE DEF e
  <2>4. ASSUME NEW x \in Offerings
        PROVE  /\ issued'[x].count = Cardinality(IssueEntries(x))'
               /\ issued'[x].value = SumFunctionOnSet(Worth, IssueEntries(x))'
    <3> DEFINE new == s = x /\ r.action = "issue"
               sum == SumFunctionOnSet(Worth, IssueEntries(x))
    <3>1. /\ issued[x].value = sum
          /\ issued[x].count = Cardinality(IssueEntries(x))
      BY DEF IssuedIsLedger, Worth
    <3>2. /\ Cardinality(IssueEntries(x))' =
               Cardinality(IssueEntries(x)) + IF new THEN 1 ELSE 0
          /\ SumFunctionOnSet(Worth, IssueEntries(x))' =
               sum + IF new THEN r.value ELSE 0
      BY <1>1, <2>1, <2>3, EntryAdds
    <3> HIDE DEF sum
    <3>3. CASE new
      <4>1. /\ issued'[x].value = issued[x].value + r.value
            /\ issued'[x].count = issued[x].count + 1
        BY <1>1, <2>1, <2>2, <3>3 DEF TypeOK
      <4>2. QED
        BY <3>1, <3>2, <3>3, <4>1
    <3>4. CASE ~new
      <4>1. issued'[x] = issued[x]
        BY <1>1, <2>1, <2>2, <3>4 DEF TypeOK
      <4>2. issued[x].value \in Nat /\ issued[x].count \in Nat
        BY <1>1, Counters
      <4>3. QED
        BY <3>1, <3>2, <3>4, <4>1, <4>2
    <3>5. QED
      BY <3>3, <3>4
  <2>5. QED
    BY <2>4 DEF IssuedIsLedger, Worth
<1>6. ASSUME NEW call \in calls, UpdateSecurity(call) \/ Fails(call)
      PROVE  IssuedIsLedger'
  BY <1>3, <1>6 DEF UpdateSecurity, Fails
<1>7. CASE UNCHANGED vars
  BY <1>3, <1>7 DEF vars
<1>8. QED
  BY <1>2, <1>4, <1>5, <1>6, <1>7
     DEF Next, Step, BeginIssue, BeginMovement, BeginEdit

(* What counts as issued is what the ledger says was issued, whatever      *)
(* overlaps or fails: only an issuance leaves an issue entry.              *)
THEOREM IssuancesAreInTheLedger == Spec => []IssuedIsLedger
<1>1. Init => IInv /\ IssuedIsLedger
  BY LedgerInit, EntriesInit
<1>2. IInv /\ IssuedIsLedger /\ [Next]_vars => IInv' /\ IssuedIsLedger'
  BY LedgerStep, EntriesStep
<1>3. QED
  BY <1>1, <1>2, PTL DEF Spec

-----------------------------------------------------------------------------

(* Whatever the host does, pkg/securities sees one of its own steps.       *)
LEMMA GatedStepsAreSteps ==
  ASSUME cleared \subseteq Clearance, [GatedNext]_gatedVars
  PROVE  [Next]_vars
<1>1. ASSUME NEW s \in Offerings, NEW sec \in NewSecurity, Create(s, sec)
      PROVE  Next
  BY <1>1, Zenon DEF Create, Next
<1>2. ASSUME NEW c \in Callers, NEW r \in Transfers, CheckFirst(c, r)
      PROVE  UNCHANGED vars
  BY <1>2, Zenon DEF CheckFirst
<1>3. ASSUME NEW c \in Callers, StartUnchecked(c)
      PROVE  Next
  BY <1>3, Zenon DEF StartUnchecked, Next
<1>4. ASSUME NEW x \in cleared, TransferCleared(x)
      PROVE  Next
  <2>1. x \in Clearance
    OBVIOUS
  <2>2. x.caller \in Callers /\ x.req \in Transfers
    BY <2>1, Zenon DEF Clearance
  <2>3. QED
    BY <1>4, <2>2, Zenon DEF TransferCleared, Next
<1>5. ASSUME NEW call \in calls, CallStep(call)
      PROVE  Next
  BY <1>5, Zenon DEF CallStep, Next
<1>6. ASSUME NEW i \in RestrictionIds, ChangeRules(i)
      PROVE  UNCHANGED vars
  BY <1>6, Zenon DEF ChangeRules
<1>7. CASE Clock
  BY <1>7, Zenon DEF Clock
<1>8. CASE UNCHANGED gatedVars
  BY <1>8, Zenon DEF gatedVars
<1>9. QED
  BY <1>1, <1>2, <1>3, <1>4, <1>5, <1>6, <1>7, <1>8, Zenon DEF GatedNext

(* The clock and the ends of restrictions are numbers of one range.        *)
LEMMA ClockBound == MaxTime \in Nat /\ 0 \in 0..MaxTime
<1>1. MaxTime \in Nat
  BY GatedAssumption
<1>2. QED
  BY <1>1

(* The times a check compares.                                             *)
LEMMA Times ==
  ASSUME Rules!TypeOK, NEW i \in RestrictionIds
  PROVE  now \in Int /\ restriction[i].end \in Int
<1>1. now \in 0..MaxTime /\ restriction[i] \in Rules!Restriction
  BY Zenon DEF Rules!TypeOK
<1>2. restriction[i].end \in 0..MaxTime
  BY <1>1, Zenon DEF Rules!Restriction, Rules!Never
<1>3. QED
  BY <1>1, <1>2

(* A later time is no earlier.                                             *)
LEMMA Later == \A t, u, end \in Int : (u = t \/ u = t + 1) /\ u <= end => t <= end
  OBVIOUS

(* What a call that ends can do to the clearances: it takes some away.     *)
LEMMA ClearancesShrink ==
  ASSUME NEW call \in calls, CallStep(call)
  PROVE  cleared' \subseteq cleared
  BY DEF CallStep

-----------------------------------------------------------------------------

(* The types of the composition are inductive given those of the parts.    *)
LEMMA RulesStep ==
  ASSUME Rules!TypeOK, cleared \subseteq Clearance, GatedNext
  PROVE  Rules!TypeOK' /\ cleared' \subseteq Clearance
<1>1. MaxTime \in Nat
  BY ClockBound
<1>2. ASSUME restriction' = restriction, now' = now
      PROVE  Rules!TypeOK'
  BY <1>2 DEF Rules!TypeOK
<1>3. ASSUME NEW s, NEW sec, Create(s, sec)
      PROVE  Rules!TypeOK' /\ cleared' \subseteq Clearance
  BY <1>2, <1>3, Zenon DEF Create
<1>4. ASSUME NEW c \in Callers, NEW r \in Transfers, CheckFirst(c, r)
      PROVE  Rules!TypeOK' /\ cleared' \subseteq Clearance
  <2>1. [caller |-> c, req |-> r] \in Clearance
    BY Zenon DEF Clearance
  <2>2. QED
    BY <1>2, <1>4, <2>1, Zenon DEF CheckFirst
<1>5. ASSUME NEW c, StartUnchecked(c)
      PROVE  Rules!TypeOK' /\ cleared' \subseteq Clearance
  BY <1>2, <1>5, Zenon DEF StartUnchecked
<1>6. ASSUME NEW x, TransferCleared(x)
      PROVE  Rules!TypeOK' /\ cleared' \subseteq Clearance
  BY <1>2, <1>6, Zenon DEF TransferCleared
<1>7. ASSUME NEW call \in calls, CallStep(call)
      PROVE  Rules!TypeOK' /\ cleared' \subseteq Clearance
  BY <1>2, <1>7, ClearancesShrink, Zenon DEF CallStep
<1>8. ASSUME NEW i \in RestrictionIds, ChangeRules(i)
      PROVE  Rules!TypeOK' /\ cleared' \subseteq Clearance
  <2>1. cleared' = cleared
    BY <1>8, Zenon DEF ChangeRules
  <2>2. ASSUME NEW holder \in Stakeholders \cup {""},
               NEW class \in Classes \cup {""}, NEW end \in 0..Rules!Never,
               Rules!CreateRestriction(i, holder, class, end)
        PROVE  Rules!TypeOK'
    <3>1. [status |-> "active", holder |-> holder, class |-> class,
           end |-> end] \in Rules!Restriction
      BY Zenon DEF Rules!Restriction
    <3>2. QED
      BY <2>2, <3>1, Zenon DEF Rules!CreateRestriction, Rules!TypeOK
  <2>3. ASSUME Rules!WaiveRestriction(i)
        PROVE  Rules!TypeOK'
    <3>1. [restriction[i] EXCEPT !.status = "waived"] \in Rules!Restriction
      BY DEF Rules!TypeOK, Rules!Restriction
    <3>2. restriction' = [restriction EXCEPT ![i] =
                            [restriction[i] EXCEPT !.status = "waived"]]
      BY <2>3, Zenon DEF Rules!WaiveRestriction
    <3>3. QED
      BY <2>3, <3>1, <3>2, Zenon DEF Rules!WaiveRestriction, Rules!TypeOK
  <2>4. QED
    BY <1>8, <2>1, <2>2, <2>3, Zenon DEF ChangeRules
<1>9. ASSUME Clock
      PROVE  Rules!TypeOK' /\ cleared' \subseteq Clearance
  BY <1>1, <1>9 DEF Clock, Rules!Tick, Rules!TypeOK
<1>10. QED
  BY <1>3, <1>4, <1>5, <1>6, <1>7, <1>8, <1>9, Zenon DEF GatedNext

(* With a serial host a call in flight leaves the class of a security.     *)
LEMMA ClassStays ==
  ASSUME SInv, host.serial, NEW call \in calls, Step(call), NEW s \in Offerings
  PROVE  security'[s].class = security[s].class
<1>1. security \in [Offerings -> Security]
  BY DEF SInv, IInv, TypeOK
<1>2. CASE UpdateSecurity(call)
  <2>1. security' = [security EXCEPT ![call.req.security] = Written(call)]
    BY <1>2, Zenon DEF UpdateSecurity
  <2>2. call.sec = security[call.req.security] /\ call \in Call
    BY DEF SInv, SerialSound, IInv, TypeOK
  <2>3. Written(call).class = call.sec.class
    BY <2>2, CallFields DEF Written, Security
  <2>4. QED
    BY <1>1, <2>1, <2>2, <2>3
<1>3. CASE AppendLedger(call) \/ Fails(call)
  BY <1>3, Zenon DEF AppendLedger, Fails
<1>4. QED
  BY <1>2, <1>3, Zenon DEF Step

-----------------------------------------------------------------------------

(* The inductive invariant: with a serial host every clearance is still    *)
(* good, although the clock moves between the check and the transfer.      *)
ClearancesGood == host.serial => \A x \in cleared : ~Forbidden(x.req)

GInv ==
  /\ SInv
  /\ Rules!TypeOK
  /\ cleared \subseteq Clearance
  /\ ClearancesGood

(* The check forbids whatever a restriction in force forbids.              *)
LEMMA CheckIsEnough ==
  ASSUME Rules!TypeOK, NEW r, Unrestricted(r)
  PROVE  ~Forbidden(r)
<1>1. SUFFICES ASSUME NEW i \in RestrictionIds,
                      restriction[i].status = "active",
                      now <= restriction[i].end,
                      restriction[i].holder \in {"", r.from},
                      restriction[i].class \in {"", security[r.security].class}
               PROVE  FALSE
  BY Zenon DEF Forbidden
<1>2. now \in Int /\ restriction[i].end \in Int
  BY Times
<1>3. restriction[i].end >= now
  BY <1>1, <1>2
<1>4. QED
  BY <1>1, <1>3, Zenon DEF Unrestricted, Rules!CheckTransfer, Rules!Applies

(* What was allowed stays allowed when no restriction is made and time     *)
(* only passes.                                                            *)
LEMMA AllowedStays ==
  ASSUME Rules!TypeOK, NEW r, ~Forbidden(r), restriction' = restriction,
         now' = now \/ now' = now + 1,
         security'[r.security].class = security[r.security].class
  PROVE  ~Forbidden(r)'
<1>1. SUFFICES ASSUME NEW i \in RestrictionIds,
                      restriction[i].status = "active",
                      now' <= restriction[i].end,
                      restriction[i].holder \in {"", r.from},
                      restriction[i].class \in {"", security[r.security].class}
               PROVE  FALSE
  BY Zenon DEF Forbidden
<1>2. now \in Int /\ now' \in Int /\ restriction[i].end \in Int
  BY Times
<1>3. now <= restriction[i].end
  BY <1>1, <1>2, Later
<1>4. QED
  BY <1>1, <1>3, Zenon DEF Forbidden

(* No transfer is cleared at first.                                        *)
LEMMA GatedBegin == GatedInit => GInv
<1> SUFFICES ASSUME GatedInit
             PROVE  GInv
  OBVIOUS
<1>1. Init /\ Rules!Init /\ cleared = {}
  BY Zenon DEF GatedInit
<1>2. SInv
  BY <1>1, SerialInit
<1>3. Rules!TypeOK
  <2>1. 0 \in 0..MaxTime
    BY ClockBound
  <2>2. Rules!NoRestriction \in Rules!Restriction
    BY <2>1, Zenon DEF Rules!NoRestriction, Rules!Restriction, Rules!Never
  <2>3. QED
    BY <1>1, <2>1, <2>2, Zenon DEF Rules!Init, Rules!TypeOK
<1>4. QED
  BY <1>1, <1>2, <1>3, Zenon DEF GInv, ClearancesGood

(* Every step keeps the clearances of a serial host good.                  *)
LEMMA ClearancesStep ==
  ASSUME GInv, GatedNext
  PROVE  ClearancesGood'
<1>1. [Next]_vars
  BY GatedStepsAreSteps, Zenon DEF GInv
<1>2. SUFFICES ASSUME host'.serial, NEW x \in cleared'
               PROVE  ~Forbidden(x.req)'
  BY Zenon DEF ClearancesGood
<1>3. host' = host
  BY <1>1, Zenon DEF Next, vars, CreateSecurity, BeginIssue, BeginMovement,
     BeginEdit, Begin, Step, AppendLedger, UpdateSecurity, Fails
<1>4. host.serial
  BY <1>2, <1>3
<1>5. ASSUME x \in cleared, restriction' = restriction,
             now' = now \/ now' = now + 1,
             \/ security' = security
             \/ \E call \in calls : Step(call)
      PROVE  ~Forbidden(x.req)'
  <2>1. x \in Clearance
    BY <1>5 DEF GInv
  <2>2. x.req.security \in Offerings
    BY <2>1, RequestFields DEF Clearance, Request
  <2>3. security'[x.req.security].class = security[x.req.security].class
    BY <1>4, <1>5, <2>2, ClassStays, Zenon DEF GInv
  <2>4. ~Forbidden(x.req)
    BY <1>4, <1>5, Zenon DEF GInv, ClearancesGood
  <2>5. QED
    BY <1>5, <2>3, <2>4, AllowedStays DEF GInv
<1>6. ASSUME NEW s, NEW sec, Create(s, sec)
      PROVE  ~Forbidden(x.req)'
  BY <1>2, <1>4, <1>6, Zenon DEF Create
<1>7. ASSUME NEW c \in Callers, NEW r \in Transfers, CheckFirst(c, r)
      PROVE  ~Forbidden(x.req)'
  <2>1. /\ cleared' = cleared \cup {[caller |-> c, req |-> r]}
        /\ security' = security /\ restriction' = restriction /\ now' = now
    BY <1>7, Zenon DEF CheckFirst, vars
  <2>2. CASE x \in cleared
    BY <1>5, <2>1, <2>2
  <2>3. CASE x \notin cleared
    <3>1. x.req = r
      BY <1>2, <2>1, <2>3
    <3>2. ~Forbidden(r)
      BY <1>7, CheckIsEnough, Zenon DEF CheckFirst, GInv
    <3>3. ~Forbidden(r)'
      BY <2>1, <3>2, AllowedStays DEF GInv
    <3>4. QED
      BY <3>1, <3>3, Zenon
  <2>4. QED
    BY <2>2, <2>3
<1>8. ASSUME NEW c, StartUnchecked(c)
      PROVE  ~Forbidden(x.req)'
  BY <1>2, <1>5, <1>8, Zenon
     DEF StartUnchecked, BeginIssue, BeginMovement, BeginEdit, Begin
<1>9. ASSUME NEW y, TransferCleared(y)
      PROVE  ~Forbidden(x.req)'
  BY <1>2, <1>5, <1>9, Zenon DEF TransferCleared, BeginMovement, Begin
<1>10. ASSUME NEW call \in calls, CallStep(call)
       PROVE  ~Forbidden(x.req)'
  BY <1>2, <1>5, <1>10, ClearancesShrink, Zenon DEF CallStep
<1>11. ASSUME NEW i \in RestrictionIds, ChangeRules(i)
       PROVE  ~Forbidden(x.req)'
  BY <1>2, <1>4, <1>11, Zenon DEF ChangeRules
<1>12. ASSUME Clock
       PROVE  ~Forbidden(x.req)'
  BY <1>2, <1>5, <1>12, Zenon DEF Clock, Rules!Tick, vars
<1>13. QED
  BY <1>6, <1>7, <1>8, <1>9, <1>10, <1>11, <1>12, Zenon DEF GatedNext

(* Every step of the composition keeps its invariant.                      *)
LEMMA GatedStep == GInv /\ [GatedNext]_gatedVars => GInv'
<1> SUFFICES ASSUME GInv, [GatedNext]_gatedVars
             PROVE  GInv'
  OBVIOUS
<1>1. SInv'
  BY GatedStepsAreSteps, SerialStep, Zenon DEF GInv
<1>2. CASE GatedNext
  BY <1>1, <1>2, RulesStep, ClearancesStep, Zenon DEF GInv
<1>3. CASE UNCHANGED gatedVars
  <2>1. /\ restriction' = restriction /\ now' = now /\ cleared' = cleared
        /\ host' = host /\ security' = security
    BY <1>3, Zenon DEF gatedVars, vars
  <2>2. Rules!TypeOK' /\ cleared' \subseteq Clearance
    BY <2>1 DEF GInv, Rules!TypeOK
  <2>3. ClearancesGood'
    BY <2>1 DEF GInv, ClearancesGood, Forbidden
  <2>4. QED
    BY <1>1, <2>2, <2>3, Zenon DEF GInv
<1>4. QED
  BY <1>2, <1>3, Zenon

(* The invariant holds of every behaviour of the composition.              *)
THEOREM GatedInvariant == GatedSpec => []GInv
<1>1. GatedInit => GInv
  BY GatedBegin
<1>2. GInv /\ [GatedNext]_gatedVars => GInv'
  BY GatedStep
<1>3. QED
  BY <1>1, <1>2, PTL DEF GatedSpec

(* The state of the composition stays in its types.                        *)
THEOREM GatedTypeCorrect == GatedSpec => []GatedTypeOK
<1>1. GInv => GatedTypeOK
  BY Zenon DEF GInv, SInv, IInv, GatedTypeOK
<1>2. QED
  BY <1>1, GatedInvariant, PTL

(* Composed with the restrictions, pkg/securities still behaves as it does *)
(* alone, so what is proved of Securities holds of the composition too.    *)
THEOREM GatedImplementsSecurities == GatedSpec => Spec
<1>1. GatedInit => Init
  BY Zenon DEF GatedInit
<1>2. GInv /\ [GatedNext]_gatedVars => [Next]_vars
  BY GatedStepsAreSteps, Zenon DEF GInv
<1>3. QED
  BY <1>1, <1>2, GatedInvariant, PTL DEF GatedSpec, Spec

(* A host that keeps CheckTransfer and Transfer together records no        *)
(* transfer it checked while a restriction in force forbids it.            *)
THEOREM ChecksHold == GatedSpec => GateRespected
<1>1. GInv /\ [GatedNext]_gatedVars =>
        [\A x \in cleared, call \in calls :
           host.serial /\ call.caller = x.caller /\ AppendLedger(call) =>
             ~Forbidden(x.req)]_gatedVars
  BY Zenon DEF GInv, ClearancesGood
<1>2. QED
  BY <1>1, GatedInvariant, PTL DEF GatedSpec, GateRespected
=============================================================================
