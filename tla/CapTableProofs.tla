--------------------------- MODULE CapTableProofs ---------------------------
(***************************************************************************)
(* What holds of the cap table for every set of callers, classes, entries, *)
(* share counts and counter width.                                         *)
(***************************************************************************)
EXTENDS CapTable, SumTheorems, TLAPS

(* Adding a positive amount to a counter stays in the counter's width and, *)
(* wrapping or not, never gives more than the sum.                         *)
LEMMA Add64Bounds ==
  ASSUME NEW a \in Int64, NEW b \in 0..MaxInt
  PROVE  Add64(a, b) \in Int64 /\ Add64(a, b) <= a + b
<1>1. MaxInt \in Nat
  BY CapTableAssumption
<1>2. QED
  BY <1>1 DEF Add64, Int64, MinInt

(* The ranges of the constants, as facts about single values.              *)
LEMMA Ranges ==
  /\ MaxInt \in Int
  /\ 0 \in Int64 /\ 0 \in 0..MaxInt
  /\ \A n \in 0..MaxInt : n \in Int64 /\ n \in Nat
  /\ \A n \in Int64 : n \in Int
  /\ \A n \in Sizes : n \in 0..MaxInt
  /\ \A n \in ShareAmounts : n \in 0..MaxInt
  /\ \A n \in Openings : n \in 0..MaxInt
<1>1. MaxInt \in Nat
  BY CapTableAssumption
<1>2. /\ MaxInt \in Int
      /\ 0 \in Int64 /\ 0 \in 0..MaxInt
      /\ \A n \in 0..MaxInt : n \in Int64 /\ n \in Nat
      /\ \A n \in Int64 : n \in Int
  BY <1>1 DEF Int64, MinInt
<1>3. /\ \A n \in Sizes : n \in 0..MaxInt
      /\ \A n \in ShareAmounts : n \in 0..MaxInt
      /\ \A n \in Openings : n \in 0..MaxInt
  BY CapTableAssumption
<1>4. QED
  BY <1>2, <1>3

(* Counting n more shares leaves a class record that has gone up by at     *)
(* most n: UpdateShareClass after AddInt64 that may wrap.                  *)
LEMMA CountedType ==
  ASSUME NEW sc \in ShareClass, NEW n \in 0..MaxInt
  PROVE  /\ Counted(sc, n) \in ShareClass
         /\ Counted(sc, n).issued <= sc.issued + n
         /\ Counted(sc, n).company = sc.company
         /\ Counted(sc, n).authorized = sc.authorized
<1>1. sc.issued \in Int64 /\ sc.outstanding \in Int64
  BY DEF ShareClass
<1>2. Add64(sc.issued, n) \in Int64 /\ Add64(sc.issued, n) <= sc.issued + n
  BY <1>1, Add64Bounds
<1>3. Add64(sc.outstanding, n) \in Int64
  BY <1>1, Add64Bounds
<1>4. QED
  BY <1>2, <1>3 DEF Counted, ShareClass

-----------------------------------------------------------------------------

(* The empty repository is well typed.                                     *)
LEMMA TypeInit == Init => TypeOK
<1>1. NoClass \in ShareClass
  BY Ranges DEF NoClass, ShareClass
<1>2. NoSummary \in Summary
  <2>1. [k \in Classes |-> 0] \in [Classes -> Int64]
    BY Ranges
  <2>2. [k \in Classes |-> 0] \in [Classes -> Nat]
    OBVIOUS
  <2>3. QED
    BY <2>1, <2>2, Zenon DEF NoSummary, Summary
<1>3. QED
  BY <1>1, <1>2 DEF Init, TypeOK

(* Every operation of the service stores records of the right types.       *)
LEMMA TypeStep ==
  ASSUME TypeOK, [Next]_vars
  PROVE  TypeOK'
<1> USE DEF TypeOK
<1>1. ASSUME NEW co \in Companies, CreateCompany(co)
      PROVE  TypeOK'
  BY <1>1 DEF CreateCompany
<1>2. ASSUME NEW k \in Classes, NEW co \in Companies, NEW size \in Sizes,
             NEW opening \in Openings, CreateShareClass(k, co, size, opening)
      PROVE  TypeOK'
  <2>1. [company |-> co, authorized |-> size, issued |-> opening,
         outstanding |-> opening] \in ShareClass
    BY Ranges DEF ShareClass
  <2>2. opening \in Nat
    BY Ranges
  <2>3. QED
    BY <1>2, <2>1, <2>2 DEF CreateShareClass
<1>3. ASSUME NEW c \in Callers, NEW e \in Entry, IssueLoadClass(c, e)
      PROVE  TypeOK'
  <2>1. [caller |-> c, step |-> "CreateEntry", e |-> e,
         sc |-> class[e.class]] \in Call
    BY <1>3 DEF Call, Entry
  <2>2. QED
    BY <1>3, <2>1 DEF IssueLoadClass
<1>4. ASSUME NEW call \in calls, IssueStep(call)
      PROVE  TypeOK'
  <2>1. call \in Call /\ call.e \in Entry /\ call.sc \in ShareClass
        /\ call.e.class \in Classes /\ call.e.shares \in 0..MaxInt
        /\ call.e.shares \in Nat
    BY Ranges DEF Call, Entry
  <2>2. CASE IssueCreateEntry(call)
    <3>1. [call EXCEPT !.step = "UpdateShareClass"] \in Call
      BY <2>1 DEF Call
    <3>2. entered' \in [Classes -> Nat]
      <4>1. entered[call.e.class] + call.e.shares \in Nat
        BY <2>1
      <4>2. entered' = [entered EXCEPT ![call.e.class] =
                          entered[call.e.class] + call.e.shares]
        BY <2>2, Zenon DEF IssueCreateEntry
      <4>3. QED
        BY <2>1, <4>1, <4>2
    <3>3. entries' \subseteq Entry /\ calls' \subseteq Call
      BY <2>1, <2>2, <3>1 DEF IssueCreateEntry
    <3>4. QED
      BY <2>2, <3>2, <3>3 DEF IssueCreateEntry
  <2>3. CASE IssueEntryExists(call)
    BY <2>3 DEF IssueEntryExists
  <2>4. CASE IssueUpdateClass(call)
    <3>1. Counted(call.sc, call.e.shares) \in ShareClass
      BY <2>1, CountedType
    <3>2. class' \in [Classes -> ShareClass]
      BY <2>1, <2>4, <3>1 DEF IssueUpdateClass
    <3>3. QED
      BY <2>4, <3>2 DEF IssueUpdateClass
  <2>5. CASE IssueFails(call)
    BY <2>5 DEF IssueFails
  <2>6. QED
    BY <1>4, <2>2, <2>3, <2>4, <2>5 DEF IssueStep
<1>5. ASSUME NEW co \in Companies, GetSummary(co)
      PROVE  TypeOK'
  <2>1. IssuedIn(co) \in [Classes -> Int64]
    BY Ranges DEF IssuedIn, ShareClass
  <2>2. HoldersIn(summary.company) \subseteq Stakeholders
        /\ HoldersIn(co) \subseteq Stakeholders
    BY DEF HoldersIn, Entry
  <2>3. summary' \in Summary
    <3>1. CASE /\ summary.step # "reading"
               /\ summary' = [ReadClasses(NoSummary, co) EXCEPT
                                !.step = "reading", !.company = co]
      <4>1. summary' = [step |-> "reading", company |-> co,
                        issued |-> IssuedIn(co), holders |-> {},
                        listed |-> [k \in Classes |-> 0]]
        BY <3>1 DEF ReadClasses, NoSummary
      <4>2. QED
        BY <2>1, <4>1 DEF Summary
    <3>2. CASE /\ summary.step = "reading"
               /\ summary.company = co
               /\ summary' = [ReadEntries(summary, co) EXCEPT
                                !.step = "returned"]
      BY <2>2, <3>2 DEF ReadEntries, Summary
    <3>3. QED
      BY <1>5, <3>1, <3>2 DEF GetSummary, SummaryReads, ReadClassesThenEntries
  <2>4. QED
    BY <1>5, <2>3 DEF GetSummary
<1>6. CASE UNCHANGED vars
  BY <1>6 DEF vars
<1>7. QED
  BY <1>1, <1>2, <1>3, <1>4, <1>5, <1>6 DEF Next

(* Every variable keeps its type in every behaviour of the module.         *)
THEOREM TypeCorrect == Spec => []TypeOK
<1>1. Init => TypeOK
  BY TypeInit
<1>2. TypeOK /\ [Next]_vars => TypeOK'
  BY TypeStep
<1>3. QED
  BY <1>1, <1>2, PTL DEF Spec

-----------------------------------------------------------------------------

(* The inductive invariant.  A class that does not exist yet has no entries*)
(* and nothing entered; a call in flight works on a class that exists, its *)
(* copy agrees with the stored class on what never changes, passed the     *)
(* capacity check, and counts no share that is not entered, also once its  *)
(* own shares are added.                                                   *)
OpenBooks ==
  /\ \A k \in Classes : ~Exists(k) => entered[k] = 0
  /\ \A e \in entries : Exists(e.class)

Pending(call) == IF call.step = "UpdateShareClass" THEN call.e.shares ELSE 0

CallsSound ==
  \A call \in calls :
    /\ Exists(call.e.class)
    /\ call.sc.authorized = class[call.e.class].authorized
    /\ call.sc.company = class[call.e.class].company
    /\ call.e.shares > 0 /\ HasCapacity(call.sc, call.e.shares)
    /\ call.sc.issued + Pending(call) <= entered[call.e.class]

ReadingBacked ==
  summary.step = "reading" =>
    \A k \in Classes : summary.issued[k] <= entered[k]

IInv ==
  /\ TypeOK
  /\ OpenBooks
  /\ CallsSound
  /\ IssuedBacked
  /\ EntriesConsistent
  /\ ReadingBacked
  /\ SummaryBacked

(* The fields of an issuance in flight, at every step of IssueShares.      *)
LEMMA CallFields ==
  ASSUME NEW call \in Call
  PROVE  /\ call.caller \in Callers
         /\ call.step \in {"CreateEntry", "UpdateShareClass"}
         /\ call.e \in Entry /\ call.sc \in ShareClass
         /\ call.e.class \in Classes /\ call.e.shares \in 0..MaxInt
         /\ call.e.shares \in Nat
         /\ call.sc.issued \in Int
         /\ Pending(call) \in Nat
<1>1. /\ call.caller \in Callers
      /\ call.step \in {"CreateEntry", "UpdateShareClass"}
      /\ call.e \in Entry /\ call.sc \in ShareClass
  BY DEF Call
<1>2. call.e.class \in Classes /\ call.e.shares \in ShareAmounts
  BY <1>1 DEF Entry
<1>3. call.sc.issued \in Int64
  BY <1>1 DEF ShareClass
<1>4. call.e.shares \in 0..MaxInt /\ call.e.shares \in Nat
      /\ call.sc.issued \in Int
  BY <1>2, <1>3, Ranges
<1>5. QED
  BY <1>1, <1>2, <1>4 DEF Pending

(* The counters of a stored share class are numbers.                       *)
LEMMA ClassFields ==
  ASSUME TypeOK, NEW k \in Classes
  PROVE  /\ class[k].issued \in Int
         /\ class[k].authorized \in Nat
         /\ entered[k] \in Nat
<1>1. class[k] \in ShareClass /\ entered[k] \in Nat
  BY DEF TypeOK
<1>2. class[k].issued \in Int64 /\ class[k].authorized \in 0..MaxInt
  BY <1>1 DEF ShareClass
<1>3. QED
  BY <1>1, <1>2, Ranges

(* The empty repository satisfies the invariant.                           *)
LEMMA BooksInit == Init => IInv
<1> SUFFICES ASSUME Init
             PROVE  IInv
  OBVIOUS
<1>1. TypeOK
  BY TypeInit
<1>2. \A k \in Classes : class[k].issued = 0 /\ entered[k] = 0
  BY DEF Init, NoClass
<1>3. summary.step = "none" /\ calls = {} /\ entries = {}
  BY DEF Init, NoSummary
<1>4. QED
  BY <1>1, <1>2, <1>3
     DEF IInv, OpenBooks, CallsSound, IssuedBacked, EntriesConsistent,
         ReadingBacked, SummaryBacked

(* Opening a class: no call, entry or summary knows of it yet.             *)
LEMMA BooksOpen ==
  ASSUME IInv, TypeOK',
         NEW k \in Classes, NEW co \in Companies, NEW size \in Sizes,
         NEW opening \in Openings, CreateShareClass(k, co, size, opening)
  PROVE  IInv'
<1> USE DEF IInv
<1>1. /\ size > 0 /\ ~Exists(k)
      /\ class' = [class EXCEPT ![k] =
                     [company |-> co, authorized |-> size,
                      issued |-> opening, outstanding |-> opening]]
      /\ entered' = [entered EXCEPT ![k] = opening]
      /\ entries' = entries /\ calls' = calls /\ summary' = summary
  BY DEF CreateShareClass
<1>2. /\ class'[k].company = co /\ class'[k].authorized = size
      /\ class'[k].issued = opening /\ entered'[k] = opening
  BY <1>1 DEF TypeOK
<1>3. \A x \in Classes : x # k => class'[x] = class[x] /\ entered'[x] = entered[x]
  BY <1>1 DEF TypeOK
<1>4. \A e \in entries : e \in Entry /\ e.class \in Classes /\ e.class # k
  <2>1. \A e \in entries : e \in Entry /\ Exists(e.class)
    BY DEF TypeOK, OpenBooks
  <2>2. \A e \in Entry : e.class \in Classes
    BY DEF Entry
  <2>3. QED
    BY <1>1, <2>1, <2>2
<1>5. \A call \in calls : call \in Call /\ call.e.class \in Classes
                          /\ call.e.class # k
  <2>1. \A call \in calls : call \in Call /\ Exists(call.e.class)
    BY DEF TypeOK, CallsSound
  <2>2. QED
    BY <1>1, <2>1, CallFields
<1>6. entered[k] = 0 /\ opening \in Nat
  BY <1>1, Ranges DEF OpenBooks
<1>7. OpenBooks'
  BY <1>1, <1>2, <1>3, <1>4 DEF OpenBooks, Exists
<1>8. CallsSound'
  BY <1>1, <1>3, <1>5 DEF CallsSound, Exists, Pending
<1>9. IssuedBacked'
  BY <1>2, <1>3, <1>6 DEF IssuedBacked
<1>10. EntriesConsistent'
  BY <1>1, <1>3, <1>4, <1>5 DEF EntriesConsistent
<1>11. ReadingBacked'
  <2>1. SUFFICES ASSUME summary.step = "reading", NEW x \in Classes
                 PROVE  summary.issued[x] <= entered'[x]
    BY <1>1 DEF ReadingBacked
  <2>2. summary.issued[x] <= entered[x]
    BY <2>1 DEF ReadingBacked
  <2>3. CASE x = k
    <3>1. summary.issued[k] \in Int64
      BY DEF TypeOK, Summary
    <3>2. summary.issued[k] \in Int
      BY <3>1, Ranges
    <3>3. QED
      BY <1>2, <1>6, <2>2, <2>3, <3>2
  <2>4. CASE x # k
    BY <1>3, <2>2, <2>4
  <2>5. QED
    BY <2>3, <2>4
<1>12. SummaryBacked'
  BY <1>1 DEF SummaryBacked
<1>13. QED
  BY <1>7, <1>8, <1>9, <1>10, <1>11, <1>12

(* Loading a class: the copy agrees with the record and passed the checks. *)
LEMMA BooksLoad ==
  ASSUME IInv, TypeOK',
         NEW c \in Callers, NEW e \in Entry, IssueLoadClass(c, e)
  PROVE  IInv'
<1> USE DEF IInv
<1> DEFINE new == [caller |-> c, step |-> "CreateEntry",
                   e |-> e, sc |-> class[e.class]]
<1>1. /\ Exists(e.class)
      /\ class[e.class].company = e.company
      /\ e.shares > 0 /\ HasCapacity(class[e.class], e.shares)
      /\ calls' = calls \cup {new}
      /\ class' = class /\ entries' = entries
      /\ summary' = summary /\ entered' = entered
  BY DEF IssueLoadClass, BelongsTo
<1>2. /\ new.e = e /\ new.sc = class[e.class]
      /\ Pending(new) = 0 /\ e.class \in Classes
  BY DEF Pending, Entry
<1>3. /\ class[e.class].issued <= entered[e.class]
      /\ class[e.class].issued + 0 <= entered[e.class]
  BY <1>2, ClassFields DEF IssuedBacked
<1>4. OpenBooks' /\ IssuedBacked' /\ ReadingBacked' /\ SummaryBacked'
  BY <1>1 DEF OpenBooks, IssuedBacked, ReadingBacked, SummaryBacked, Exists
<1>5. CallsSound'
  <2>1. SUFFICES ASSUME NEW x \in calls'
                 PROVE  /\ Exists(x.e.class)
                        /\ x.sc.authorized = class[x.e.class].authorized
                        /\ x.sc.company = class[x.e.class].company
                        /\ x.e.shares > 0 /\ HasCapacity(x.sc, x.e.shares)
                        /\ x.sc.issued + Pending(x) <= entered[x.e.class]
    BY <1>1 DEF CallsSound, Exists
  <2>2. CASE x \in calls
    BY <2>2 DEF CallsSound
  <2>3. CASE x = new
    BY <1>1, <1>2, <1>3, <2>3
  <2>4. QED
    BY <1>1, <2>2, <2>3
<1>6. EntriesConsistent'
  <2>1. {call.e : call \in calls'} = {call.e : call \in calls} \cup {e}
    BY <1>1, <1>2
  <2>2. QED
    BY <1>1, <2>1 DEF EntriesConsistent
<1>7. QED
  BY <1>4, <1>5, <1>6

(* A call that ends early takes nothing back.                              *)
LEMMA BooksEnd ==
  ASSUME IInv, TypeOK', NEW call \in calls,
         IssueEntryExists(call) \/ IssueFails(call)
  PROVE  IInv'
<1>1. /\ calls' = calls \ {call}
      /\ class' = class /\ entries' = entries
      /\ summary' = summary /\ entered' = entered
  BY DEF IssueEntryExists, IssueFails
<1>2. OpenBooks' /\ IssuedBacked' /\ ReadingBacked' /\ SummaryBacked'
  BY <1>1 DEF IInv, OpenBooks, IssuedBacked, ReadingBacked, SummaryBacked, Exists
<1>3. CallsSound' /\ EntriesConsistent'
  BY <1>1 DEF IInv, CallsSound, EntriesConsistent, Exists
<1>4. QED
  BY <1>2, <1>3 DEF IInv

(* Storing the entry: what is entered for the class grows by its shares,   *)
(* so every counter and copy stays covered, and so does this call's copy   *)
(* with the shares it is about to add.                                     *)
LEMMA BooksEnter ==
  ASSUME IInv, TypeOK', NEW call \in calls, IssueCreateEntry(call)
  PROVE  IInv'
<1> USE DEF IInv
<1> DEFINE k == call.e.class
           moved == [call EXCEPT !.step = "UpdateShareClass"]
<1>1. /\ call.step = "CreateEntry" /\ ~Taken(call.e.id)
      /\ entries' = entries \cup {call.e}
      /\ entered' = [entered EXCEPT ![k] = @ + call.e.shares]
      /\ calls' = (calls \ {call}) \cup {moved}
      /\ class' = class /\ summary' = summary
  BY Zenon DEF IssueCreateEntry
<1>2. call \in Call
  BY DEF TypeOK
<1>3. /\ moved.e = call.e /\ moved.sc = call.sc
      /\ Pending(moved) = call.e.shares /\ Pending(call) = 0
  BY <1>1, <1>2 DEF Call, Pending
<1>4. k \in Classes /\ call.e.shares \in Nat /\ call.sc.issued \in Int
  BY <1>2, CallFields
<1>5. \A x \in Classes : entered[x] \in Nat /\ entered'[x] \in Nat
                         /\ entered[x] <= entered'[x]
  BY <1>1, <1>4 DEF TypeOK
<1>6. entered'[k] = entered[k] + call.e.shares
  BY <1>1, <1>4 DEF TypeOK
<1>7. Exists(k)
  BY DEF CallsSound
<1>8. OpenBooks'
  BY <1>1, <1>4, <1>7 DEF OpenBooks, Exists, TypeOK
<1>9. CallsSound'
  <2>1. SUFFICES ASSUME NEW x \in calls'
                 PROVE  /\ Exists(x.e.class)
                        /\ x.sc.authorized = class[x.e.class].authorized
                        /\ x.sc.company = class[x.e.class].company
                        /\ x.e.shares > 0 /\ HasCapacity(x.sc, x.e.shares)
                        /\ x.sc.issued + Pending(x) <= entered'[x.e.class]
    BY <1>1 DEF CallsSound, Exists
  <2>2. CASE x \in calls
    <3>1. x \in Call
      BY <2>2 DEF TypeOK
    <3>2. x.sc.issued + Pending(x) <= entered[x.e.class]
      BY <2>2 DEF CallsSound
    <3>3. x.e.class \in Classes /\ x.sc.issued + Pending(x) \in Int
      BY <3>1, CallFields
    <3>4. x.sc.issued + Pending(x) <= entered'[x.e.class]
      BY <1>5, <3>2, <3>3
    <3>5. QED
      BY <2>2, <3>4 DEF CallsSound
  <2>3. CASE x = moved
    <3>1. call.sc.issued + 0 <= entered[k]
      BY <1>3 DEF CallsSound
    <3>2. call.sc.issued + call.e.shares <= entered'[k]
      BY <1>4, <1>5, <1>6, <3>1
    <3>3. x.e = call.e /\ x.sc = call.sc /\ Pending(x) = call.e.shares
      BY <1>3, <2>3
    <3>4. QED
      BY <3>2, <3>3 DEF CallsSound
  <2>4. QED
    BY <1>1, <2>2, <2>3
<1>10. IssuedBacked'
  BY <1>1, <1>5, ClassFields DEF IssuedBacked
<1>11. EntriesConsistent'
  <2>1. {x.e : x \in calls'} \subseteq {x.e : x \in calls} \cup {call.e}
    BY <1>1, <1>3
  <2>2. call.e.company = class[k].company
    BY DEF EntriesConsistent
  <2>3. \A x \in entries' \cup {y.e : y \in calls'} :
          x.company = class'[x.class].company
    BY <1>1, <2>1, <2>2 DEF EntriesConsistent
  <2>4. \A e1, e2 \in entries' : e1.id = e2.id => e1 = e2
    BY <1>1 DEF EntriesConsistent, Taken
  <2>5. QED
    BY <2>3, <2>4 DEF EntriesConsistent
<1>12. ReadingBacked'
  <2>1. \A x \in Classes : summary.issued[x] \in Int
    BY Ranges DEF TypeOK, Summary
  <2>2. QED
    BY <1>1, <1>5, <2>1 DEF ReadingBacked
<1>13. SummaryBacked'
  BY <1>1 DEF SummaryBacked
<1>14. QED
  BY <1>8, <1>9, <1>10, <1>11, <1>12, <1>13

(* Writing the class back: a stale copy loses other calls' shares, but it  *)
(* keeps size and company, and counts only shares that are entered.        *)
LEMMA BooksCount ==
  ASSUME IInv, TypeOK', NEW call \in calls, IssueUpdateClass(call)
  PROVE  IInv'
<1> USE DEF IInv
<1> DEFINE k == call.e.class
           written == Counted(call.sc, call.e.shares)
<1>1. /\ call.step = "UpdateShareClass"
      /\ class' = [class EXCEPT ![k] = written]
      /\ calls' = calls \ {call}
      /\ entries' = entries /\ summary' = summary /\ entered' = entered
  BY Zenon DEF IssueUpdateClass
<1>2. call \in Call
  BY DEF TypeOK
<1>3. /\ k \in Classes /\ call.e.shares \in Nat /\ call.e.shares \in 0..MaxInt
      /\ call.sc \in ShareClass /\ call.sc.issued \in Int
  BY <1>2, CallFields
<1>4. /\ written \in ShareClass
      /\ written.issued <= call.sc.issued + call.e.shares
      /\ written.company = call.sc.company
      /\ written.authorized = call.sc.authorized
  BY <1>3, CountedType
<1>5. class'[k] = written
  BY <1>1, <1>3 DEF TypeOK
<1>6. \A x \in Classes : x # k => class'[x] = class[x]
  BY <1>1 DEF TypeOK
<1>7. \A x \in Classes : /\ class'[x].authorized = class[x].authorized
                         /\ class'[x].company = class[x].company
  BY <1>4, <1>5, <1>6 DEF CallsSound
<1>8. \A e \in entries : e.class \in Classes
  BY DEF TypeOK, Entry
<1>9. \A x \in calls : x.e.class \in Classes
  BY CallFields DEF TypeOK
<1>10. OpenBooks'
  BY <1>1, <1>7, <1>8 DEF OpenBooks, Exists
<1>11. CallsSound'
  BY <1>1, <1>7, <1>9 DEF CallsSound, Exists
<1>12. IssuedBacked'
  <2>1. written.issued <= entered[k]
    <3>1. call.sc.issued + call.e.shares <= entered[k]
      BY <1>1 DEF CallsSound, Pending
    <3>2. written.issued \in Int
      BY <1>4, Ranges DEF ShareClass
    <3>3. QED
      BY <1>3, <1>4, <3>1, <3>2, ClassFields
  <2>2. QED
    BY <1>1, <1>5, <1>6, <2>1 DEF IssuedBacked
<1>13. EntriesConsistent'
  BY <1>1, <1>7, <1>8, <1>9 DEF EntriesConsistent
<1>14. ReadingBacked' /\ SummaryBacked'
  BY <1>1 DEF ReadingBacked, SummaryBacked
<1>15. QED
  BY <1>10, <1>11, <1>12, <1>13, <1>14

(* Summaries: what the first read sees is covered by what the second lists.*)
LEMMA BooksSummary ==
  ASSUME IInv, TypeOK', NEW co \in Companies, GetSummary(co)
  PROVE  IInv'
<1> USE DEF IInv
<1>1. /\ calls' = calls /\ class' = class
      /\ entries' = entries /\ entered' = entered
  BY DEF GetSummary
<1>2. OpenBooks' /\ CallsSound' /\ IssuedBacked' /\ EntriesConsistent'
  BY <1>1 DEF OpenBooks, CallsSound, IssuedBacked, EntriesConsistent, Exists
<1>3. CASE summary' = [ReadClasses(NoSummary, co) EXCEPT
                         !.step = "reading", !.company = co]
  <2>1. summary'.step = "reading" /\ summary'.issued = IssuedIn(co)
    BY <1>3 DEF ReadClasses, NoSummary
  <2>2. \A k \in Classes : IssuedIn(co)[k] <= entered[k]
    BY ClassFields DEF IssuedIn, IssuedBacked
  <2>3. QED
    BY <1>1, <1>2, <2>1, <2>2 DEF ReadingBacked, SummaryBacked
<1>4. CASE /\ summary.step = "reading"
           /\ summary' = [ReadEntries(summary, co) EXCEPT !.step = "returned"]
  <2>1. /\ summary'.step = "returned" /\ summary'.issued = summary.issued
        /\ summary'.listed = entered
    BY <1>4 DEF ReadEntries, TypeOK, Summary
  <2>2. QED
    BY <1>1, <1>2, <1>4, <2>1 DEF ReadingBacked, SummaryBacked
<1>5. QED
  BY <1>3, <1>4 DEF GetSummary, SummaryReads, ReadClassesThenEntries

(* Every operation of the service keeps the invariant.                     *)
LEMMA BooksStep ==
  ASSUME IInv, [Next]_vars
  PROVE  IInv'
<1>1. TypeOK'
  BY TypeStep DEF IInv
<1>2. ASSUME NEW co \in Companies, CreateCompany(co)
      PROVE  IInv'
  BY <1>1, <1>2
     DEF CreateCompany, IInv, OpenBooks, CallsSound, IssuedBacked,
         EntriesConsistent, ReadingBacked, SummaryBacked, Exists
<1>3. ASSUME NEW call \in calls, IssueStep(call)
      PROVE  IInv'
  BY <1>1, <1>3, BooksEnter, BooksEnd, BooksCount DEF IssueStep
<1>4. CASE UNCHANGED vars
  BY <1>1, <1>4
     DEF vars, IInv, OpenBooks, CallsSound, IssuedBacked,
         EntriesConsistent, ReadingBacked, SummaryBacked, Exists
<1>5. QED
  BY <1>1, <1>2, <1>3, <1>4, BooksOpen, BooksLoad, BooksSummary DEF Next

(* The invariant holds of every behaviour, whatever overlaps or fails.     *)
THEOREM BooksInvariant == Spec => []IInv
<1>1. Init => IInv
  BY BooksInit
<1>2. IInv /\ [Next]_vars => IInv'
  BY BooksStep
<1>3. QED
  BY <1>1, <1>2, PTL DEF Spec

(* Whatever overlaps, fails or wraps, the issued counter of a class never  *)
(* runs ahead of the entries.                                              *)
THEOREM IssuedStaysBacked == Spec => []IssuedBacked
BY BooksInvariant, PTL DEF IInv

(* A summary never reports more shares issued than the entries it listed.  *)
THEOREM SummariesBacked == Spec => []SummaryBacked
BY BooksInvariant, PTL DEF IInv

(* Entries keep distinct identifiers and the company of their class.       *)
THEOREM EntriesStayConsistent == Spec => []EntriesConsistent
BY BooksInvariant, PTL DEF IInv

(* A step that raises an issued counter leaves it within the class's size. *)
THEOREM IssuedStaysAuthorized == Spec => IssuedGrowsWithinAuthorized
<1>1. ASSUME IInv, [Next]_vars, NEW k \in Classes, Exists(k),
             class'[k].issued > class[k].issued
      PROVE  class'[k].issued <= class'[k].authorized
  <2>1. class'[k] # class[k]
    <3>1. class[k].issued \in Int
      BY <1>1, ClassFields DEF IInv
    <3>2. QED
      BY <1>1, <3>1
  <2>2. PICK call \in calls : IssueUpdateClass(call)
    BY <1>1, <2>1
       DEF Next, vars, CreateCompany, CreateShareClass, IssueLoadClass, IssueStep,
           IssueCreateEntry, IssueEntryExists, IssueFails, GetSummary, IInv, TypeOK
  <2>3. k = call.e.class /\ class'[k] = Counted(call.sc, call.e.shares)
    BY <1>1, <2>1, <2>2, Zenon DEF IssueUpdateClass, IInv, TypeOK
  <2>4. call \in Call /\ HasCapacity(call.sc, call.e.shares)
    BY <1>1 DEF IInv, TypeOK, CallsSound
  <2>5. /\ call.sc \in ShareClass
        /\ Add64(call.sc.issued, call.e.shares) <= call.sc.authorized
    BY <2>4, CallFields DEF HasCapacity
  <2>6. QED
    BY <2>3, <2>5 DEF Counted, ShareClass
<1>2. IInv /\ [Next]_vars =>
        [\A k \in Classes :
           Exists(k) /\ class'[k].issued > class[k].issued =>
             class'[k].issued <= class'[k].authorized]_vars
  BY <1>1
<1>3. QED
  BY <1>2, BooksInvariant, PTL DEF Spec, IssuedGrowsWithinAuthorized

-----------------------------------------------------------------------------

(* What is filed under a class, and the shares of what is filed.           *)
FiledUnder(k) == {e \in entries : e.class = k}

SharesOf(S) == [e \in S |-> e.shares]

EnteredInv == IsFiniteSet(entries) /\ EnteredOnce

LEMMA SharesInIs ==
  \A k : /\ SharesIn(k) = SumFunctionOnSet(SharesOf(FiledUnder(k)), FiledUnder(k))
        /\ SharesIn(k)' = SumFunctionOnSet(SharesOf(FiledUnder(k)'),
                                           FiledUnder(k)')
BY DEF SharesIn, SumFunction, SharesOf, FiledUnder

(* Filing an entry adds its shares to those of its class and to no other.  *)
LEMMA FilingAdds ==
  ASSUME IInv, IsFiniteSet(entries),
         NEW e \in Entry, e \notin entries, entries' = entries \cup {e}
  PROVE  /\ IsFiniteSet(entries')
         /\ \A k \in Classes : SharesIn(k)' =
              SharesIn(k) + IF k = e.class THEN e.shares ELSE 0
<1>1. IsFiniteSet(entries')
  BY FS_AddElement
<1>2. ASSUME NEW k \in Classes
      PROVE  SharesIn(k)' = SharesIn(k) + IF k = e.class THEN e.shares ELSE 0
  <2> DEFINE S == FiledUnder(k)
  <2>1. S \subseteq Entry /\ IsFiniteSet(S)
    BY FS_Subset DEF FiledUnder, IInv, TypeOK
  <2>2. \A x \in Entry : x.shares \in Nat
    BY Ranges DEF Entry
  <2>3. SumFunctionOnSet(SharesOf(S), S) \in Nat
    BY <2>1, <2>2, SumType DEF SharesOf
  <2>4. CASE k = e.class
    <3>1. S' = S \cup {e} /\ e \notin S
      BY <2>4 DEF FiledUnder
    <3> HIDE DEF S
    <3> DEFINE f == SharesOf(S \cup {e})
    <3>2. \A x \in S \cup {e} : f[x] = x.shares /\ f[x] \in Int
      BY <2>1, <2>2 DEF SharesOf
    <3>3. \A x \in S : SharesOf(S)[x] = f[x]
      BY <3>2 DEF SharesOf
    <3> HIDE DEF f
    <3>4. SumFunctionOnSet(f, S \cup {e}) = f[e] + SumFunctionOnSet(f, S)
      BY <2>1, <3>1, <3>2, SumAdd
    <3>5. SumFunctionOnSet(SharesOf(S), S) = SumFunctionOnSet(f, S)
      BY <2>1, <3>3, SumAgree
    <3>6. SharesIn(k)' = SumFunctionOnSet(f, S \cup {e})
      BY <3>1, SharesInIs DEF f, S
    <3>7. SharesIn(k) = SumFunctionOnSet(SharesOf(S), S)
      BY SharesInIs DEF S
    <3>8. f[e] = e.shares /\ e.shares \in Nat
      BY <2>2, <3>2
    <3>9. QED
      BY <2>3, <2>4, <3>4, <3>5, <3>6, <3>7, <3>8
  <2>5. CASE k # e.class
    <3>1. S' = S
      BY <2>5 DEF FiledUnder
    <3>2. SharesIn(k)' = SharesIn(k)
      BY <3>1, SharesInIs
    <3>3. QED
      BY <2>3, <2>5, <3>2, SharesInIs
  <2>6. QED
    BY <2>4, <2>5
<1>3. QED
  BY <1>1, <1>2

LEMMA EnteredInit == Init => EnteredInv
<1> SUFFICES ASSUME Init PROVE EnteredInv
  OBVIOUS
<1>1. entries = {} /\ entered = [k \in Classes |-> 0]
  BY DEF Init
<1>2. \A k \in Classes : SharesIn(k) = 0
  <2>1. \A k : FiledUnder(k) = {}
    BY <1>1 DEF FiledUnder
  <2>2. QED
    BY <2>1, SharesInIs, SumEmpty
<1>3. QED
  BY <1>1, <1>2, FS_EmptySet DEF EnteredInv, EnteredOnce

LEMMA EnteredStep == IInv /\ EnteredInv /\ [Next]_vars => EnteredInv'
<1> SUFFICES ASSUME IInv, EnteredInv, [Next]_vars PROVE EnteredInv'
  OBVIOUS
<1> USE DEF EnteredInv
<1>1. CASE UNCHANGED <<entries, entered>>
  BY <1>1 DEF EnteredOnce, SharesIn
<1>2. ASSUME NEW k \in Classes, NEW co \in Companies, NEW size \in Sizes,
             NEW opening \in Openings, CreateShareClass(k, co, size, opening)
      PROVE  EnteredInv'
  <2>1. /\ ~Exists(k) /\ entered' = [entered EXCEPT ![k] = opening]
        /\ UNCHANGED entries
    BY <1>2 DEF CreateShareClass
  <2>2. entered'[k] = opening /\ opening \in Nat
        /\ \A j \in Classes : j # k => entered'[j] = entered[j]
    BY <2>1, Ranges DEF IInv, TypeOK
  <2>3. SharesIn(k) = 0
    <3>1. FiledUnder(k) = {}
      BY <2>1 DEF FiledUnder, IInv, OpenBooks
    <3>2. QED
      BY <3>1, SharesInIs, SumEmpty
  <2>4. \A j : SharesIn(j)' = SharesIn(j)
    BY <2>1 DEF SharesIn
  <2>5. EnteredOnce'
    <3>1. entered'[k] = opening + SharesIn(k)'
      BY <2>2, <2>3, <2>4
    <3>2. \A j \in Classes : j # k =>
            \E o \in {0} \cup Openings : entered'[j] = o + SharesIn(j)'
      BY <2>2, <2>4 DEF EnteredOnce
    <3>3. QED
      BY <3>1, <3>2 DEF EnteredOnce
  <2>6. QED
    BY <2>1, <2>5
<1>3. ASSUME NEW call \in calls, IssueCreateEntry(call)
      PROVE  EnteredInv'
  <2> DEFINE e == call.e
             k == call.e.class
  <2>1. /\ ~Taken(e.id) /\ entries' = entries \cup {e}
        /\ entered' = [entered EXCEPT ![k] = entered[k] + e.shares]
    BY <1>3, Zenon DEF IssueCreateEntry
  <2>2. e \in Entry /\ k \in Classes /\ e.shares \in Nat
    BY CallFields DEF IInv, TypeOK
  <2>3. e \notin entries
    BY <2>1 DEF Taken
  <2> HIDE DEF e, k
  <2>4. /\ IsFiniteSet(entries')
        /\ \A j \in Classes : SharesIn(j)' =
             SharesIn(j) + IF j = e.class THEN e.shares ELSE 0
    BY <2>1, <2>2, <2>3, FilingAdds
  <2>5. \A j \in Classes : SharesIn(j) \in Nat
    <3>1. ASSUME NEW j \in Classes PROVE SharesIn(j) \in Nat
      <4>1. FiledUnder(j) \subseteq Entry /\ IsFiniteSet(FiledUnder(j))
        BY FS_Subset DEF FiledUnder, IInv, TypeOK
      <4>2. \A x \in Entry : x.shares \in Nat
        BY Ranges DEF Entry
      <4>3. \A x \in FiledUnder(j) : SharesOf(FiledUnder(j))[x] \in Nat
        BY <4>1, <4>2 DEF SharesOf
      <4>4. QED
        BY <4>1, <4>3, SumType, SharesInIs
    <3>2. QED
      BY <3>1
  <2>6. ASSUME NEW j \in Classes
        PROVE  \E o \in {0} \cup Openings : entered'[j] = o + SharesIn(j)'
    <3>1. PICK o \in {0} \cup Openings : entered[j] = o + SharesIn(j)
      BY DEF EnteredOnce
    <3>2. o \in Nat
      BY Ranges
    <3>3. entered'[j] = entered[j] + IF j = k THEN e.shares ELSE 0
      BY <2>1, <2>2, ClassFields DEF IInv, TypeOK
    <3>4. k = e.class
      BY DEF k, e
    <3>5. entered'[j] = o + SharesIn(j)'
      BY <2>2, <2>4, <2>5, <3>1, <3>2, <3>3, <3>4
    <3>6. QED
      BY <3>5
  <2>7. QED
    BY <2>4, <2>6 DEF EnteredOnce
<1>4. QED
  BY <1>1, <1>2, <1>3
     DEF Next, vars, CreateCompany, IssueLoadClass, IssueStep,
         IssueEntryExists, IssueUpdateClass, IssueFails, GetSummary

(* What IssueShares enters for a class is its opening and the shares of    *)
(* the entries on file, however issuances are repeated, fail or overlap.   *)
THEOREM NothingEnteredTwice == Spec => []EnteredOnce
<1>1. EnteredInv => EnteredOnce
  BY DEF EnteredInv
<1>2. QED
  BY <1>1, BooksInvariant, EnteredInit, EnteredStep, PTL DEF Spec

-----------------------------------------------------------------------------

(* The host that the package's promises are for: it runs one issuance at a *)
(* time, its repository does not fail, books open within the authorized    *)
(* size, and the counters are wide enough for a full class and one more    *)
(* issuance.                                                               *)
CarefulHost ==
  /\ Exclusive
  /\ ~Faults
  /\ \A size \in Sizes, opening \in Openings : opening <= size
  /\ \A size \in Sizes, n \in ShareAmounts : size + n <= MaxInt

(* Shares of class k that a call has entered and not yet counted.          *)
Uncounted(k, call) == IF call.e.class = k THEN Pending(call) ELSE 0

(* Under such a host there is one call, its copy is never stale, and the   *)
(* counters lag the entries by exactly what it has entered.                *)
ExactBooks ==
  /\ \A x, y \in calls : x = y
  /\ \A call \in calls : call.sc = class[call.e.class]
  /\ \A k \in Classes : Exists(k) => class[k].authorized \in Sizes
  /\ calls = {} => \A k \in Classes : class[k].issued = entered[k]
  /\ \A call \in calls, k \in Classes :
       class[k].issued + Uncounted(k, call) = entered[k]
  /\ EntriesWithinAuthorized

EInv == IInv /\ ExactBooks

(* The capacity check does not wrap on a copy of a class within its size.  *)
LEMMA CapacityExact ==
  ASSUME CarefulHost, NEW sc \in ShareClass, NEW n \in ShareAmounts,
         sc.authorized \in Sizes, sc.issued <= sc.authorized
  PROVE  /\ Add64(sc.issued, n) = sc.issued + n
         /\ HasCapacity(sc, n) => sc.issued + n <= sc.authorized
<1>1. sc.issued \in Int /\ sc.authorized \in Int /\ n \in Int
  BY Ranges DEF ShareClass
<1>2. sc.authorized + n <= MaxInt
  BY DEF CarefulHost
<1>3. MaxInt \in Int
  BY Ranges
<1>4. Add64(sc.issued, n) = sc.issued + n
  BY <1>1, <1>2, <1>3 DEF Add64
<1>5. QED
  BY <1>4 DEF HasCapacity

(* The empty repository is exact.                                          *)
LEMMA ExactInit ==
  ASSUME Init
  PROVE  EInv
<1>1. IInv
  BY BooksInit
<1>2. \A k \in Classes : class[k].issued = 0 /\ class[k].authorized = 0
                         /\ entered[k] = 0
  BY DEF Init, NoClass
<1>3. calls = {}
  BY DEF Init
<1>4. QED
  BY <1>1, <1>2, <1>3 DEF EInv, ExactBooks, EntriesWithinAuthorized, Exists

(* A new class starts exact: its counter and its entries are both zero.    *)
LEMMA ExactOpen ==
  ASSUME CarefulHost, EInv, IInv',
         NEW k \in Classes, NEW co \in Companies, NEW size \in Sizes,
         NEW opening \in Openings, CreateShareClass(k, co, size, opening)
  PROVE  ExactBooks'
<1> USE DEF EInv
<1>1. /\ ~Exists(k)
      /\ class' = [class EXCEPT ![k] =
                     [company |-> co, authorized |-> size,
                      issued |-> opening, outstanding |-> opening]]
      /\ entered' = [entered EXCEPT ![k] = opening]
      /\ calls' = calls
  BY DEF CreateShareClass
<1>2. /\ class'[k].authorized = size
      /\ class'[k].issued = opening /\ entered'[k] = opening
  BY <1>1 DEF IInv, TypeOK
<1>3. \A x \in Classes : x # k => class'[x] = class[x] /\ entered'[x] = entered[x]
  BY <1>1 DEF IInv, TypeOK
<1>4. \A call \in calls : call.e.class \in Classes /\ call.e.class # k
  BY <1>1, CallFields DEF IInv, TypeOK, CallsSound
<1>5. \A call \in calls : call.sc = class'[call.e.class]
  BY <1>3, <1>4 DEF ExactBooks
<1>6. \A call \in calls, x \in Classes :
        class'[x].issued + Uncounted(x, call) = entered'[x]
  <2>1. SUFFICES ASSUME NEW call \in calls, NEW x \in Classes
                 PROVE  class'[x].issued + Uncounted(x, call) = entered'[x]
    OBVIOUS
  <2>2. CASE x = k
    <3>1. Uncounted(x, call) = 0 /\ opening \in Nat
      BY <1>4, <2>2, Ranges DEF Uncounted
    <3>2. QED
      BY <1>2, <2>2, <3>1
  <2>3. CASE x # k
    BY <1>3, <2>3 DEF ExactBooks
  <2>4. QED
    BY <2>2, <2>3
<1>7. EntriesWithinAuthorized'
  BY <1>2, <1>3 DEF ExactBooks, EntriesWithinAuthorized, Exists, CarefulHost
<1>8. \A x \in Classes : Exists(x)' => class'[x].authorized \in Sizes
  BY <1>2, <1>3 DEF ExactBooks, Exists
<1>9. calls' = {} => \A x \in Classes : class'[x].issued = entered'[x]
  BY <1>1, <1>2, <1>3 DEF ExactBooks
<1>10. QED
  BY <1>1, <1>5, <1>6, <1>7, <1>8, <1>9 DEF ExactBooks, Uncounted, Pending

(* Loading a class changes no counter, and the copy agrees with it.        *)
LEMMA ExactLoad ==
  ASSUME CarefulHost, EInv, IInv',
         NEW c \in Callers, NEW e \in Entry, IssueLoadClass(c, e)
  PROVE  ExactBooks'
<1> USE DEF EInv
<1> DEFINE new == [caller |-> c, step |-> "CreateEntry",
                   e |-> e, sc |-> class[e.class]]
<1>1. /\ calls = {} /\ calls' = {new}
      /\ class' = class /\ entered' = entered
  BY DEF IssueLoadClass, MayStart, CarefulHost
<1>2. new.e = e /\ new.sc = class[e.class]
  OBVIOUS
<1>3. \A k \in Classes : Uncounted(k, new) = 0 /\ class[k].issued \in Int
                         /\ class[k].issued = entered[k]
  BY <1>1, ClassFields DEF Uncounted, Pending, ExactBooks, IInv
<1>4. \A k \in Classes : class[k].issued + Uncounted(k, new) = entered[k]
  BY <1>3
<1>5. EntriesWithinAuthorized' /\
      \A k \in Classes : Exists(k)' => class'[k].authorized \in Sizes
  BY <1>1 DEF ExactBooks, EntriesWithinAuthorized, Exists
<1>6. QED
  BY <1>1, <1>2, <1>4, <1>5 DEF ExactBooks, Uncounted, Pending

(* A taken identifier ends the call before it has entered anything.        *)
LEMMA ExactEnd ==
  ASSUME CarefulHost, EInv, IInv', NEW call \in calls, IssueEntryExists(call)
  PROVE  ExactBooks'
<1> USE DEF EInv
<1>1. /\ call.step = "CreateEntry" /\ calls = {call} /\ calls' = {}
      /\ class' = class /\ entered' = entered
  BY DEF IssueEntryExists, ExactBooks
<1>2. \A k \in Classes : class[k].issued = entered[k]
  <2>1. \A k \in Classes : class[k].issued + 0 = entered[k]
    BY <1>1 DEF ExactBooks, Uncounted, Pending
  <2>2. QED
    BY <2>1, ClassFields DEF IInv
<1>3. EntriesWithinAuthorized' /\
      \A k \in Classes : Exists(k)' => class'[k].authorized \in Sizes
  BY <1>1 DEF ExactBooks, EntriesWithinAuthorized, Exists
<1>4. QED
  BY <1>1, <1>2, <1>3 DEF ExactBooks

(* What the call in flight knows when it stores its entry.                 *)
LEMMA EnterWithinSize ==
  ASSUME CarefulHost, EInv, NEW call \in calls, IssueCreateEntry(call)
  PROVE  /\ call.e.class \in Classes /\ call.e.shares \in ShareAmounts
         /\ Exists(call.e.class)
         /\ class[call.e.class].issued = entered[call.e.class]
         /\ entered[call.e.class] + call.e.shares
              <= class[call.e.class].authorized
<1> USE DEF EInv
<1>1. call \in Call /\ call.step = "CreateEntry"
  BY DEF IInv, TypeOK, IssueCreateEntry
<1>2. /\ call.e.class \in Classes /\ call.e.shares \in ShareAmounts
      /\ Exists(call.e.class)
  BY <1>1, CallFields DEF IInv, CallsSound, Entry
<1>3. class[call.e.class].issued = entered[call.e.class]
  <2>1. class[call.e.class].issued + 0 = entered[call.e.class]
    BY <1>1, <1>2 DEF ExactBooks, Uncounted, Pending
  <2>2. QED
    BY <1>2, <2>1, ClassFields DEF IInv
<1>4. /\ call.sc = class[call.e.class] /\ call.sc \in ShareClass
      /\ call.sc.authorized \in Sizes
      /\ call.sc.issued <= call.sc.authorized
  BY <1>1, <1>2, <1>3, CallFields DEF ExactBooks, EntriesWithinAuthorized
<1>5. HasCapacity(call.sc, call.e.shares)
  BY DEF IInv, CallsSound
<1>6. QED
  BY <1>2, <1>3, <1>4, <1>5, CapacityExact

(* Storing the entry moves the entries ahead of the counter by the one     *)
(* call in flight, and stays within the size that call checked.            *)
LEMMA ExactEnter ==
  ASSUME CarefulHost, EInv, IInv', NEW call \in calls, IssueCreateEntry(call)
  PROVE  ExactBooks'
<1> USE DEF EInv
<1> DEFINE k == call.e.class
           moved == [call EXCEPT !.step = "UpdateShareClass"]
<1>1. /\ calls = {call} /\ calls' = {moved}
      /\ entered' = [entered EXCEPT ![k] = entered[k] + call.e.shares]
      /\ class' = class
  <2>1. /\ calls' = (calls \ {call}) \cup {moved}
        /\ entered' = [entered EXCEPT ![k] = entered[k] + call.e.shares]
        /\ class' = class
    BY Zenon DEF IssueCreateEntry
  <2>2. calls = {call}
    BY DEF ExactBooks
  <2>3. QED
    BY <2>1, <2>2
<1>2. call \in Call /\ call.step = "CreateEntry"
  BY DEF IInv, TypeOK, IssueCreateEntry
<1>3. moved.e = call.e /\ moved.sc = call.sc /\ Pending(moved) = call.e.shares
  BY <1>2 DEF Call, Pending
<1>4. /\ k \in Classes /\ class[k].issued = entered[k]
      /\ entered[k] + call.e.shares <= class[k].authorized
  BY EnterWithinSize
<1>5. /\ entered'[k] = entered[k] + call.e.shares
      /\ \A x \in Classes : x # k => entered'[x] = entered[x]
  BY <1>1, <1>4 DEF IInv, TypeOK
<1>6. \A x \in Classes : class[x].issued + Uncounted(x, moved) = entered'[x]
  <2>1. SUFFICES ASSUME NEW x \in Classes
                 PROVE  class[x].issued + Uncounted(x, moved) = entered'[x]
    OBVIOUS
  <2>2. CASE x = k
    BY <1>3, <1>4, <1>5, <2>2 DEF Uncounted
  <2>3. CASE x # k
    <3>1. class[x].issued + 0 = entered[x]
      BY <1>2, <2>3 DEF ExactBooks, Uncounted
    <3>2. Uncounted(x, moved) = 0
      BY <1>3, <2>3 DEF Uncounted
    <3>3. QED
      BY <1>5, <2>3, <3>1, <3>2
  <2>4. QED
    BY <2>2, <2>3
<1>7. EntriesWithinAuthorized'
  BY <1>1, <1>4, <1>5 DEF ExactBooks, EntriesWithinAuthorized, Exists
<1>8. \A x \in Classes : Exists(x)' => class'[x].authorized \in Sizes
  BY <1>1 DEF ExactBooks, Exists
<1>9. moved.sc = class'[moved.e.class]
  BY <1>1, <1>3 DEF ExactBooks
<1>10. \A x \in Classes : class'[x].issued + Uncounted(x, moved)' = entered'[x]
  BY <1>1, <1>6 DEF Uncounted, Pending
<1>11. QED
  BY ZenonT(60), <1>1, <1>7, <1>8, <1>9, <1>10 DEF ExactBooks, Uncounted, Pending

(* Storing the class settles the difference the entry left.                *)
LEMMA ExactCount ==
  ASSUME CarefulHost, EInv, IInv', NEW call \in calls, IssueUpdateClass(call)
  PROVE  ExactBooks'
<1> USE DEF EInv
<1> DEFINE k == call.e.class
           written == Counted(call.sc, call.e.shares)
<1>1. /\ calls = {call} /\ calls' = {} /\ call.step = "UpdateShareClass"
      /\ class' = [class EXCEPT ![k] = written]
      /\ entered' = entered
  <2>1. /\ calls' = calls \ {call} /\ call.step = "UpdateShareClass"
        /\ class' = [class EXCEPT ![k] = written]
        /\ entered' = entered
    BY Zenon DEF IssueUpdateClass
  <2>2. calls = {call}
    BY DEF ExactBooks
  <2>3. QED
    BY <2>1, <2>2
<1>2. call \in Call /\ k \in Classes /\ call.e.shares \in ShareAmounts
      /\ call.sc \in ShareClass /\ call.sc = class[k]
  BY CallFields DEF IInv, TypeOK, ExactBooks, Entry
<1>3. class[k].issued + call.e.shares = entered[k]
  BY <1>1, <1>2 DEF ExactBooks, Uncounted, Pending
<1>4. class[k].authorized \in Sizes /\ entered[k] <= class[k].authorized
  BY <1>2 DEF ExactBooks, EntriesWithinAuthorized, IInv, CallsSound
<1>5. class[k].issued <= class[k].authorized
  <2>1. call.e.shares \in Nat
    BY <1>2, CallFields
  <2>2. QED
    BY <1>2, <1>3, <1>4, <2>1, ClassFields DEF IInv
<1>6. written.issued = entered[k] /\ written.authorized = class[k].authorized
  <2>1. Add64(call.sc.issued, call.e.shares) = call.sc.issued + call.e.shares
    BY <1>2, <1>4, <1>5, CapacityExact
  <2>2. QED
    BY <1>2, <1>3, <2>1 DEF Counted, ShareClass
<1>7. class'[k] = written
  BY <1>1, <1>2 DEF IInv, TypeOK
<1>8. \A x \in Classes : x # k => class'[x] = class[x]
  BY <1>1 DEF IInv, TypeOK
<1>9. \A x \in Classes : class'[x].issued = entered'[x]
  <2>1. SUFFICES ASSUME NEW x \in Classes, x # k
                 PROVE  class[x].issued = entered[x]
    BY <1>1, <1>6, <1>7, <1>8
  <2>2. class[x].issued + 0 = entered[x]
    BY <2>1 DEF ExactBooks, Uncounted
  <2>3. QED
    BY <2>2, ClassFields DEF IInv
<1>10. EntriesWithinAuthorized'
  BY <1>1, <1>6, <1>7, <1>8 DEF ExactBooks, EntriesWithinAuthorized, Exists
<1>11. \A x \in Classes : Exists(x)' => class'[x].authorized \in Sizes
  BY <1>6, <1>7, <1>8 DEF ExactBooks, Exists
<1>12. QED
  BY <1>1, <1>9, <1>10, <1>11 DEF ExactBooks

(* Under a careful host every operation keeps the books exact.             *)
LEMMA ExactStep ==
  ASSUME CarefulHost, EInv, [Next]_vars
  PROVE  EInv'
<1>1. IInv'
  BY BooksStep DEF EInv
<1>2. ASSUME UNCHANGED <<class, calls, entered>>
      PROVE  ExactBooks'
  <2>1. ExactBooks
    BY DEF EInv
  <2>2. QED
    BY <1>2, <2>1
       DEF ExactBooks, EntriesWithinAuthorized, Exists, Uncounted, Pending
<1>3. ASSUME NEW co \in Companies, CreateCompany(co) \/ GetSummary(co)
      PROVE  ExactBooks'
  BY <1>2, <1>3 DEF CreateCompany, GetSummary
<1>4. ASSUME NEW call \in calls, IssueStep(call)
      PROVE  ExactBooks'
  <2>1. ~IssueFails(call)
    BY DEF IssueFails, CarefulHost
  <2>2. QED
    BY <1>1, <1>4, <2>1, ExactEnter, ExactEnd, ExactCount DEF IssueStep
<1>5. ASSUME UNCHANGED vars
      PROVE  ExactBooks'
  BY <1>2, <1>5 DEF vars
<1>6. ExactBooks'
  BY <1>1, <1>3, <1>4, <1>5, ExactOpen, ExactLoad DEF Next
<1>7. QED
  BY <1>1, <1>6 DEF EInv

(* Under a careful host the books are exact in every behaviour.            *)
THEOREM ExactInvariant ==
  ASSUME CarefulHost
  PROVE  Spec => []EInv
<1>1. Init => EInv
  BY ExactInit
<1>2. EInv /\ [Next]_vars => EInv'
  BY ExactStep
<1>3. QED
  BY <1>1, <1>2, PTL DEF Spec

(* Under a careful host the counters are exact between calls.              *)
THEOREM CarefulHostCounts ==
  ASSUME CarefulHost
  PROVE  Spec => []CountersExact
<1>1. EInv => CountersExact
  BY DEF EInv, ExactBooks, CountersExact
<1>2. QED
  BY <1>1, ExactInvariant, PTL

(* Under a careful host no class is ever over-issued.                      *)
THEOREM CarefulHostAuthorized ==
  ASSUME CarefulHost
  PROVE  Spec => []EntriesWithinAuthorized
<1>1. EInv => EntriesWithinAuthorized
  BY DEF EInv, ExactBooks
<1>2. QED
  BY <1>1, ExactInvariant, PTL

(* Under a careful host IssueShares implements the indivisible issuance of *)
(* ShareRegister: storing the entry is the abstract step, everything else  *)
(* stutters.                                                               *)
THEOREM CarefulHostRefines ==
  ASSUME CarefulHost
  PROVE  Spec => ImplementsRegister
<1> DEFINE sizes == [k \in Classes |-> class[k].authorized]
<1>1. Init => Register!Init
  <2> SUFFICES ASSUME Init
               PROVE  Register!Init
    OBVIOUS
  <2>1. \A k \in Classes : class[k].authorized = 0
    BY DEF Init, NoClass
  <2>2. sizes = [k \in Classes |-> 0]
    BY <2>1
  <2>3. QED
    BY <2>2 DEF Register!Init, Init
<1>2. EInv /\ EInv' /\ [Next]_vars => [Register!Next]_(Register!registerVars)
  <2> SUFFICES ASSUME EInv, EInv', [Next]_vars
               PROVE  Register!Next \/ UNCHANGED Register!registerVars
    OBVIOUS
  <2>1. ASSUME NEW k \in Classes, NEW co \in Companies, NEW size \in Sizes,
               NEW opening \in Openings, CreateShareClass(k, co, size, opening)
        PROVE  Register!Next
    <3>1. /\ size > 0 /\ ~Exists(k)
          /\ class' = [class EXCEPT ![k] =
                         [company |-> co, authorized |-> size,
                          issued |-> opening, outstanding |-> opening]]
          /\ entered' = [entered EXCEPT ![k] = opening]
      BY <2>1 DEF CreateShareClass
    <3>2. sizes[k] = 0
      BY <3>1, ClassFields DEF EInv, IInv, Exists
    <3>3. sizes' = [sizes EXCEPT ![k] = size]
      BY <3>1 DEF EInv, IInv, TypeOK
    <3>4. Register!Open(k, size, opening)
      BY <3>1, <3>2, <3>3 DEF Register!Open
    <3>5. QED
      BY <3>4 DEF Register!Next
  <2>2. ASSUME NEW call \in calls, IssueCreateEntry(call)
        PROVE  Register!Next
    <3> DEFINE k == call.e.class
    <3>1. /\ k \in Classes /\ call.e.shares \in ShareAmounts
          /\ Exists(k) /\ entered[k] + call.e.shares <= class[k].authorized
      BY <2>2, EnterWithinSize
    <3>2. /\ entered' = [entered EXCEPT ![k] = entered[k] + call.e.shares]
          /\ class' = class
      BY <2>2, Zenon DEF IssueCreateEntry
    <3>3. call.e.shares > 0
      BY <2>2 DEF EInv, IInv, CallsSound
    <3>4. Register!Issue(k, call.e.shares)
      BY <3>1, <3>2, <3>3 DEF Register!Issue, Exists
    <3>5. QED
      BY <3>1, <3>4 DEF Register!Next
  <2>3. ASSUME UNCHANGED entered, sizes' = sizes
        PROVE  UNCHANGED Register!registerVars
    BY <2>3 DEF Register!registerVars
  <2>4. ASSUME NEW call \in calls, IssueUpdateClass(call)
        PROVE  UNCHANGED Register!registerVars
    <3>1. /\ class' = [class EXCEPT ![call.e.class] =
                         Counted(call.sc, call.e.shares)]
          /\ entered' = entered
      BY <2>4, Zenon DEF IssueUpdateClass
    <3>2. /\ call.sc \in ShareClass /\ call.e.shares \in 0..MaxInt
          /\ call.e.class \in Classes
          /\ call.sc.authorized = class[call.e.class].authorized
      BY CallFields DEF EInv, IInv, TypeOK, CallsSound
    <3>3. Counted(call.sc, call.e.shares).authorized
            = class[call.e.class].authorized
      BY <3>2, CountedType
    <3>4. sizes' = sizes
      BY <3>1, <3>2, <3>3 DEF EInv, IInv, TypeOK
    <3>5. QED
      BY <2>3, <3>1, <3>4
  <2>5. ASSUME NEW call \in calls, IssueStep(call)
        PROVE  Register!Next \/ UNCHANGED Register!registerVars
    <3>1. CASE IssueEntryExists(call) \/ IssueFails(call)
      BY <2>3, <3>1 DEF IssueEntryExists, IssueFails
    <3>2. QED
      BY <2>2, <2>4, <2>5, <3>1 DEF IssueStep
  <2>6. ASSUME \/ UNCHANGED vars
               \/ \E co \in Companies : CreateCompany(co)
               \/ \E co \in Companies : GetSummary(co)
               \/ \E c \in Callers, e \in Entry : IssueLoadClass(c, e)
        PROVE  UNCHANGED Register!registerVars
    BY <2>3, <2>6 DEF vars, CreateCompany, GetSummary, IssueLoadClass
  <2>7. CASE Next
    BY <2>1, <2>5, <2>6, <2>7 DEF Next
  <2>8. QED
    BY <2>6, <2>7
<1>3. QED
  BY <1>1, <1>2, ExactInvariant, PTL DEF Spec, ImplementsRegister, Register!Spec
=============================================================================
