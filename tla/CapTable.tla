------------------------------ MODULE CapTable ------------------------------
(***************************************************************************)
(* pkg/captable: companies, share classes and cap table entries, written   *)
(* by Service through an injected Repository.                              *)
(*                                                                         *)
(* Every Repository method is one atomic step on copies of the stored      *)
(* records (the repository of the tests locks and copies per call), and    *)
(* nothing wider is atomic: IssueShares reads the class, stores the entry  *)
(* and then writes the whole class record back in three steps, and other   *)
(* calls run between them.  A call is a record in `calls` from its read    *)
(* to its return.                                                          *)
(***************************************************************************)
EXTENDS Integers, FiniteSets, Functions

CONSTANTS
  Callers,       \* goroutines or processes that call the service
  Companies,
  Classes,
  Stakeholders,
  EntryIds,      \* identifiers callers give their entries
  Sizes,         \* AuthorizedShares a class can be created with
  ShareAmounts,  \* Shares an issuance can ask for
  Openings,      \* IssuedShares a class can be created with
  MaxInt,        \* largest value of the int64 counters
  Exclusive,     \* TRUE: the host runs one issuance at a time
  Faults         \* TRUE: a repository call can fail, or the process stop

ASSUME CapTableAssumption ==
  /\ MaxInt \in Nat \ {0}
  /\ Sizes \subseteq 0..MaxInt
  /\ ShareAmounts \subseteq 0..MaxInt
  /\ Openings \subseteq 0..MaxInt
  /\ "" \notin Companies
  /\ Exclusive \in BOOLEAN
  /\ Faults \in BOOLEAN

VARIABLES
  companies,     \* companies created so far
  class,         \* class[k]: the stored ShareClass record
  entries,       \* the stored Entry records
  calls,         \* IssueShares calls in flight
  summary,       \* the latest GetSummary call
  entered        \* history: per class, its opening plus all shares entered

vars == <<companies, class, entries, calls, summary, entered>>

-----------------------------------------------------------------------------

(* int64 arithmetic: adding two values in range wraps past MaxInt.         *)
MinInt == -MaxInt - 1
Int64 == MinInt..MaxInt

Add64(a, b) == IF a + b > MaxInt THEN a + b - 2 * (MaxInt + 1) ELSE a + b

ShareClass ==
  [company : Companies \cup {""}, authorized : 0..MaxInt,
   issued : Int64, outstanding : Int64]

Entry ==
  [id : EntryIds, company : Companies, class : Classes,
   holder : Stakeholders, shares : ShareAmounts]

(* An IssueShares call: the entry it was given, the class record it read   *)
(* and the repository call it makes next.                                  *)
Call ==
  [caller : Callers, step : {"CreateEntry", "UpdateShareClass"},
   e : Entry, sc : ShareClass]

(* A GetSummary call: per class the issued counter it read, and of the     *)
(* entries it listed the holders and (as history) the shares behind them.  *)
Summary ==
  [step : {"none", "reading", "returned"}, company : Companies \cup {""},
   issued : [Classes -> Int64], holders : SUBSET Stakeholders,
   listed : [Classes -> Nat]]

NoSummary ==
  [step |-> "none", company |-> "", issued |-> [k \in Classes |-> 0],
   holders |-> {}, listed |-> [k \in Classes |-> 0]]

NoClass == [company |-> "", authorized |-> 0, issued |-> 0, outstanding |-> 0]
Exists(k) == class[k].authorized > 0

Init ==
  /\ companies = {}
  /\ class = [k \in Classes |-> NoClass]
  /\ entries = {}
  /\ calls = {}
  /\ summary = NoSummary
  /\ entered = [k \in Classes |-> 0]

-----------------------------------------------------------------------------

CreateCompany(co) ==
  /\ co \notin companies
  /\ companies' = companies \cup {co}
  /\ UNCHANGED <<class, entries, calls, summary, entered>>

(* The company is not looked up, and IssuedShares and OutstandingShares    *)
(* are stored as the caller gives them.                                    *)
CreateShareClass(k, co, size, opening) ==
  /\ size > 0
  /\ ~Exists(k)
  /\ class' = [class EXCEPT ![k] =
                 [company |-> co, authorized |-> size,
                  issued |-> opening, outstanding |-> opening]]
  /\ entered' = [entered EXCEPT ![k] = opening]
  /\ UNCHANGED <<companies, entries, calls, summary>>

-----------------------------------------------------------------------------

(* Mutant: the capacity check forgets the shares being issued.             *)
HasCapacityBefore(sc, n) == sc.issued < sc.authorized

HasCapacity(sc, n) == Add64(sc.issued, n) <= sc.authorized

(* Mutant: the company check is dropped.                                   *)
BelongsToAny(e, sc) == TRUE

BelongsTo(e, sc) == sc.company = e.company

MayStart(c) ==
  /\ \A call \in calls : call.caller # c
  /\ Exclusive => calls = {}

(* GetShareClass and the checks made on the copy it returns.  A call that  *)
(* fails one of them returns an error and leaves no trace.                 *)
IssueLoadClass(c, e) ==
  /\ MayStart(c)
  /\ e.shares > 0
  /\ Exists(e.class)
  /\ BelongsTo(e, class[e.class])
  /\ HasCapacity(class[e.class], e.shares)
  /\ calls' = calls \cup {[caller |-> c, step |-> "CreateEntry",
                           e |-> e, sc |-> class[e.class]]}
  /\ UNCHANGED <<companies, class, entries, summary, entered>>

(* Mutant: the repository accepts an identifier again.                     *)
TakenNever(id) == FALSE

Taken(id) == \E e \in entries : e.id = id

(* CreateEntry: the entry is stored unless its identifier is taken.        *)
IssueCreateEntry(call) ==
  /\ call.step = "CreateEntry"
  /\ ~Taken(call.e.id)
  /\ entries' = entries \cup {call.e}
  /\ entered' = [entered EXCEPT ![call.e.class] = @ + call.e.shares]
  /\ calls' = (calls \ {call}) \cup {[call EXCEPT !.step = "UpdateShareClass"]}
  /\ UNCHANGED <<companies, class, summary>>

(* Mutant: the error of CreateEntry is ignored.                            *)
IgnoreRejectedEntry(call) ==
  /\ call.step = "CreateEntry"
  /\ Taken(call.e.id)
  /\ calls' = (calls \ {call}) \cup {[call EXCEPT !.step = "UpdateShareClass"]}
  /\ UNCHANGED <<companies, class, entries, summary, entered>>

(* CreateEntry fails on a taken identifier: the call returns its error.    *)
IssueEntryExists(call) ==
  /\ call.step = "CreateEntry"
  /\ Taken(call.e.id)
  /\ calls' = calls \ {call}
  /\ UNCHANGED <<companies, class, entries, summary, entered>>

(* Mutant: only the outstanding counter is moved on.                       *)
CountedOutstanding(sc, n) == [sc EXCEPT !.outstanding = Add64(@, n)]

(* Mutant: the counters move on as if they had no width.                   *)
CountedUnbounded(sc, n) ==
  [sc EXCEPT !.issued = @ + n, !.outstanding = @ + n]

(* The class record as IssueShares writes it back: the copy it read, with  *)
(* both counters moved on.                                                 *)
Counted(sc, n) ==
  [sc EXCEPT !.issued = Add64(@, n), !.outstanding = Add64(@, n)]

IssueUpdateClass(call) ==
  /\ call.step = "UpdateShareClass"
  /\ class' = [class EXCEPT ![call.e.class] = Counted(call.sc, call.e.shares)]
  /\ calls' = calls \ {call}
  /\ UNCHANGED <<companies, entries, summary, entered>>

(* A repository call fails, its context is cancelled, or the process       *)
(* stops: the call ends where it is and what it stored stays.              *)
IssueFails(call) ==
  /\ Faults
  /\ calls' = calls \ {call}
  /\ UNCHANGED <<companies, class, entries, summary, entered>>

IssueStep(call) ==
  \/ IssueCreateEntry(call)
  \/ IssueEntryExists(call)
  \/ IssueUpdateClass(call)
  \/ IssueFails(call)

-----------------------------------------------------------------------------

IssuedIn(co) ==
  [k \in Classes |-> IF class[k].company = co THEN class[k].issued ELSE 0]

HoldersIn(co) == {e.holder : e \in {x \in entries : x.company = co}}

ReadClasses(s, co) == [s EXCEPT !.issued = IssuedIn(co)]
ReadEntries(s, co) == [s EXCEPT !.holders = HoldersIn(co), !.listed = entered]

(* GetSummary: ListShareClasses and then ListEntries, on different states. *)
ReadClassesThenEntries(co) ==
  \/ /\ summary.step # "reading"
     /\ summary' = [ReadClasses(NoSummary, co) EXCEPT !.step = "reading",
                                                     !.company = co]
  \/ /\ summary.step = "reading"
     /\ summary.company = co
     /\ summary' = [ReadEntries(summary, co) EXCEPT !.step = "returned"]

(* Mutant: the entries are listed before the classes.                      *)
ReadEntriesThenClasses(co) ==
  \/ /\ summary.step # "reading"
     /\ summary' = [ReadEntries(NoSummary, co) EXCEPT !.step = "reading",
                                                     !.company = co]
  \/ /\ summary.step = "reading"
     /\ summary.company = co
     /\ summary' = [ReadClasses(summary, co) EXCEPT !.step = "returned"]

SummaryReads(co) == ReadClassesThenEntries(co)

GetSummary(co) ==
  /\ SummaryReads(co)
  /\ UNCHANGED <<companies, class, entries, calls, entered>>

Next ==
  \/ \E co \in Companies : CreateCompany(co)
  \/ \E k \in Classes, co \in Companies, size \in Sizes, opening \in Openings :
       CreateShareClass(k, co, size, opening)
  \/ \E c \in Callers, e \in Entry : IssueLoadClass(c, e)
  \/ \E call \in calls : IssueStep(call)
  \/ \E co \in Companies : GetSummary(co)

Spec == Init /\ [][Next]_vars

-----------------------------------------------------------------------------

TypeOK ==
  /\ companies \subseteq Companies
  /\ class \in [Classes -> ShareClass]
  /\ entries \subseteq Entry
  /\ calls \subseteq Call
  /\ summary \in Summary
  /\ entered \in [Classes -> Nat]

(* The issued counter of a class never runs ahead of the entries: whatever *)
(* overlaps, fails or wraps, every share the class record counts as issued *)
(* stands in some stored entry (service.go stores the entry first and      *)
(* writes the counters it read, which may be stale, after it).             *)
IssuedBacked == \A k \in Classes : class[k].issued <= entered[k]

(* A step that raises an issued counter leaves it within the authorized    *)
(* size: also a call that writes back a stale copy cannot push the record  *)
(* past the limit that the check on that copy enforced.                    *)
IssuedGrowsWithinAuthorized ==
  [][\A k \in Classes :
       Exists(k) /\ class'[k].issued > class[k].issued =>
         class'[k].issued <= class'[k].authorized]_vars

(* A summary is internally consistent although its two reads see different *)
(* states: the shares it reports as issued are covered by the entries it   *)
(* listed, because entries are stored before counters move and are listed  *)
(* after the counters were read.                                           *)
SummaryBacked ==
  summary.step = "returned" =>
    \A k \in Classes : summary.issued[k] <= summary.listed[k]

(* No two stored entries share an identifier, every entry belongs to the   *)
(* company its class belongs to, and calls in flight still agree with the  *)
(* stored class on it.                                                     *)
EntriesConsistent ==
  /\ \A e1, e2 \in entries : e1.id = e2.id => e1 = e2
  /\ \A e \in entries \cup {call.e : call \in calls} :
       e.company = class[e.class].company

SharesIn(k) == SumFunction([e \in {x \in entries : x.class = k} |-> e.shares])

(* No share is entered twice: what has been entered for a class is its     *)
(* opening and the shares of the entries on file, also when a caller       *)
(* repeats an issuance under an identifier it has used before.             *)
EnteredOnce ==
  \A k \in Classes : \E o \in {0} \cup Openings : entered[k] = o + SharesIn(k)

-----------------------------------------------------------------------------

(* What the package promises a host that runs one issuance at a time on a  *)
(* repository that does not fail, on books opened within the authorized    *)
(* size and without int64 overflow.                                        *)

(* Between calls, the issued counter of every class is exactly the number  *)
(* of shares its entries (and opening) hold.                               *)
CountersExact ==
  calls = {} => \A k \in Classes : class[k].issued = entered[k]

(* The entries of a class never hold more shares than it authorizes, the   *)
(* claim of the capacity check in IssueShares.                             *)
EntriesWithinAuthorized ==
  \A k \in Classes : Exists(k) => entered[k] <= class[k].authorized

(* IssueShares behaves as one indivisible issuance.                        *)
Register ==
  INSTANCE ShareRegister WITH
    authorized <- [k \in Classes |-> class[k].authorized]

ImplementsRegister == Register!Spec
=============================================================================
