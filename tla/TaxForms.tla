------------------------------ MODULE TaxForms ------------------------------
(***************************************************************************)
(* Pure parts of pkg/tax: which 1099 forms a run of Generate1099DIV makes, *)
(* what IRIS takes (pkg/tax/iris), and where the states of a federal form  *)
(* are filed (pkg/tax/cfsf).  Amounts are in cents.                        *)
(***************************************************************************)
EXTENDS Integers, Sequences, FiniteSets, Functions

(* Dividends below ten dollars need no form; a holder whose particulars    *)
(* are not known, or whose form cannot be stored, is counted as an error.  *)
Generate1099DIV(dividends, known, unstored) ==
  LET reportable == {h \in DOMAIN dividends : dividends[h] >= 1000}
      made == (reportable \cap known) \ unstored IN
  [forms |-> [h \in made |-> dividends[h]],
   created |-> Cardinality(made), errors |-> Cardinality(reportable \ made)]

-----------------------------------------------------------------------------

(* The element of each form type, and the one around its data.             *)
FormElement ==
  [DIV |-> "Form1099DIV", B |-> "Form1099B", INT |-> "Form1099INT",
   MISC |-> "Form1099MISC", NEC |-> "Form1099NEC", OID |-> "Form1099OID",
   K |-> "Form1099K", R |-> "Form1099R"]

DataElement ==
  [DIV |-> "DividendPayments", B |-> "BrokerProceeds",
   INT |-> "InterestIncome", MISC |-> "MiscellaneousIncome",
   NEC |-> "NonemployeeCompensation", OID |-> "OriginalIssueDiscount",
   K |-> "PaymentCardOrThirdParty", R |-> "Distributions"]

FormTypes == DOMAIN FormElement

(* wireNameAndStruct: the data has to be of the form's own type.           *)
WireName(type, data) == IF type = data THEN DataElement[type] ELSE "none"

MaxPayeesPerSubmission == 3   \* bound, for 100,000

(* validateSubmission; payees is the sequence of their data's types.       *)
Valid(fs) ==
  /\ fs.type \in FormTypes
  /\ fs.tcc # "empty"
  /\ Len(fs.payees) \in 1 .. MaxPayeesPerSubmission
  /\ \A j \in DOMAIN fs.payees : WireName(fs.type, fs.payees[j].data) # "none"
  /\ fs.kind \in {"corrected", "replacement"} => fs.original # "none"

(* SubmitForm: validated before the client's code could stand in for a     *)
(* missing one, so that it never does.                                     *)
Submitted(fs, client) ==
  IF ~Valid(fs) THEN [sent |-> FALSE]
  ELSE [sent |-> TRUE,
        kind |-> IF fs.kind = "unset" THEN "original" ELSE fs.kind,
        tcc |-> IF fs.tcc = "empty" THEN client.tcc ELSE fs.tcc,
        test |-> client.env = "aats", original |-> fs.original,
        count |-> Len(fs.payees),
        records |-> [j \in DOMAIN fs.payees |->
                       [element |-> FormElement[fs.type],
                        data |-> DataElement[fs.payees[j].data]]]]

(* CorrectSubmission: here the client's code does.                         *)
Corrected(original, fs, client) ==
  IF original = "none" \/ fs.payees = <<>> \/ fs.type = "none"
  THEN [sent |-> FALSE]
  ELSE Submitted([fs EXCEPT !.kind = "corrected", !.original = original,
                            !.tcc = IF @ = "empty" THEN client.tcc ELSE @],
                 client)

-----------------------------------------------------------------------------

(* The participants of combined filing and their codes.                    *)
CFSFCodes ==
  {<<"AL", 1>>, <<"AZ", 4>>, <<"AR", 5>>, <<"CA", 6>>, <<"CO", 7>>,
   <<"CT", 8>>, <<"DE", 10>>, <<"DC", 11>>, <<"GA", 13>>, <<"HI", 15>>,
   <<"ID", 16>>, <<"IN", 18>>, <<"KS", 20>>, <<"LA", 22>>, <<"ME", 23>>,
   <<"MD", 24>>, <<"MA", 25>>, <<"MI", 26>>, <<"MN", 27>>, <<"MS", 28>>,
   <<"MO", 29>>, <<"MT", 30>>, <<"NE", 31>>, <<"NJ", 34>>, <<"NM", 35>>,
   <<"NC", 37>>, <<"ND", 38>>, <<"OH", 39>>, <<"OK", 40>>, <<"SC", 45>>,
   <<"WV", 54>>, <<"WI", 55>>}

Participants == {p[1] : p \in CFSFCodes}

NoIncomeTax == {"AK", "FL", "NH", "NV", "SD", "TN", "TX", "WA", "WY"}

OwnPortal == {"IL", "IA", "KY", "NY", "OR", "PA", "RI", "UT", "VT", "VA"}

(* The forms whose data has an amount of state income.                     *)
WithStateIncome == {"DIV", "MISC", "NEC", "K", "R"}

Income(payee) == IF payee.data \in WithStateIncome THEN payee.income ELSE 0

(* StateBreakdown: the payees filed for each state; none without a state.  *)
StateBreakdown(payees) ==
  [s \in {payees[j].state : j \in DOMAIN payees} \ {"none"} |->
     {j \in DOMAIN payees : payees[j].state = s}]

RoutingType(s) ==
  CASE s \in Participants -> "cfsf"
    [] s \in NoIncomeTax -> "none"
    [] OTHER -> "direct"

(* buildFiling, of the payees js filed for a state.                        *)
BuildFiling(s, payees, js) ==
  [state |-> s, routing |-> RoutingType(s), count |-> Cardinality(js),
   portal |-> RoutingType(s) = "direct" /\ s \in OwnPortal,
   withheld |-> SumFunction([j \in js |-> payees[j].tax]),
   income |-> SumFunction([j \in js |-> Income(payees[j])])]

(* Without requested states those of the payees are taken.                 *)
RouteToStates(payees, requested) ==
  LET breakdown == StateBreakdown(payees)
      states == IF requested = {} THEN DOMAIN breakdown ELSE requested IN
  {BuildFiling(s, payees,
               IF s \in DOMAIN breakdown THEN breakdown[s] ELSE {}) :
     s \in states}

-----------------------------------------------------------------------------

(* Every holder with reportable dividends has a form of the whole amount   *)
(* or is an error.                                                         *)
GenerationSound(dividends, known, unstored) ==
  LET r == Generate1099DIV(dividends, known, unstored) IN
  /\ \A h \in DOMAIN r.forms : r.forms[h] = dividends[h]
  /\ r.created + r.errors = Cardinality({h \in DOMAIN dividends :
                                           dividends[h] >= 1000})

(* What passes the checks of SubmitForm is written with one record a payee *)
(* in the elements of its form and names a transmitter; a correction that  *)
(* is sent names the original; and only a correction goes without a code   *)
(* of its own.                                                             *)
SubmissionSound(fs, client) ==
  LET s == Submitted(fs, client)
      c == Corrected("R1", fs, client) IN
  /\ s.sent => /\ s.tcc = fs.tcc /\ s.tcc # "empty"
               /\ s.count = Len(s.records)
               /\ \A j \in DOMAIN s.records :
                    s.records[j] = [element |-> FormElement[fs.type],
                                    data |-> DataElement[fs.type]]
  /\ c.sent => c.kind = "corrected" /\ c.original = "R1" /\ c.tcc # "empty"
  /\ s.sent => c.sent

(* When no states are requested every payee with a state is in exactly one *)
(* filing, and the filings add up to what was withheld; a state has one    *)
(* code that no other has, and is in one of the registry's groups.         *)
StateRoutingSound(payees) ==
  LET filings == RouteToStates(payees, {})
      placed == {j \in DOMAIN payees : payees[j].state # "none"} IN
  /\ SumFunction([f \in filings |-> f.count]) = Cardinality(placed)
  /\ SumFunction([f \in filings |-> f.withheld])
       = SumFunction([j \in placed |-> payees[j].tax])
  /\ \A p, q \in CFSFCodes : p[1] = q[1] <=> p[2] = q[2]
  /\ NoIncomeTax \cap OwnPortal = {}
  /\ Participants \cap (NoIncomeTax \cup OwnPortal) = {}
=============================================================================
