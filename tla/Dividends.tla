----------------------------- MODULE Dividends -----------------------------
(***************************************************************************)
(* pkg/dividend: one declaration and its distributions.  ProcessRecordDate *)
(* stores one distribution per holder, in no particular order, and only    *)
(* then closes the declaration; a call that fails half way leaves it open  *)
(* and the next one starts over, storing distributions afresh.  Paying     *)
(* looks at no status.                                                     *)
(***************************************************************************)
EXTENDS Hosts

CONSTANTS
  Holders,
  Holdings,   \* Holdings[h]: shares of h at the record date
  PerShare    \* shares that earn one share of a stock dividend

ASSUME DividendsAssumption ==
  Holdings \in [Holders -> Nat] /\ PerShare \in Nat \ {0}

VARIABLES
  declaration,   \* the stored declaration
  distribution,  \* distribution[h]: status of the stored one of holder h
  processing,    \* processing[c]: the ProcessRecordDate call c
  paid           \* history: paid[h]: how often h was paid

dividends == <<declaration, distribution, processing, paid>>

Declaration ==
  [type : {"cash", "stock"}, total : Nat,
   status : {"absent", "declared", "record_set", "cancelled"}]

InitDividends ==
  /\ declaration \in [type : {"cash", "stock"}, total : {0},
                      status : {"absent"}]
  /\ distribution = [h \in Holders |-> "none"]
  /\ processing = [c \in Calls |-> [step |-> "idle", todo |-> {}, total |-> 0]]
  /\ paid = [h \in Holders |-> 0]

(* Declare keeps a status it is given.                                     *)
Declare ==
  /\ declaration.status = "absent"
  /\ \E s \in {"declared", "cancelled"} :
       declaration' = [declaration EXCEPT !.status = s]
  /\ UNCHANGED <<host, distribution, processing, paid>>

(* Nothing is distributed for no shares, or for less than one new share.   *)
Entitled ==
  {h \in Holders :
     Holdings[h] >= IF declaration.type = "stock" THEN PerShare ELSE 1}

(* One unit of money a share; stock dividends add nothing to the total.    *)
Amount(h) == IF declaration.type = "cash" THEN Holdings[h] ELSE 0

(* Mutant: a declaration already processed is processed again.             *)
ProcessableAgain(status) == status \in {"declared", "record_set"}

Processable(status) == status = "declared"

Running(c) == processing[c].step = "distribute"

ReadDeclaration(c) ==
  /\ processing[c].step = "idle"
  /\ host = "serial" => \A d \in Calls : ~Running(d)
  /\ \/ /\ Processable(declaration.status)
        /\ processing' = [processing EXCEPT ![c].step = "distribute",
                                            ![c].todo = Entitled]
     \/ /\ declaration.status # "absent"
        /\ processing' = [processing EXCEPT ![c].step = "done"]
  /\ UNCHANGED <<host, declaration, distribution, paid>>

(* Mutant: a distribution that could not be stored is passed over.         *)
AfterFailurePasses(run, h) == [run EXCEPT !.todo = @ \ {h}]

AfterFailure(run, h) == [run EXCEPT !.step = "done"]

(* CreateDistribution overwrites the one an earlier run stored.            *)
Distribute(c) ==
  /\ Running(c)
  /\ \E h \in processing[c].todo :
       \/ /\ distribution' = [distribution EXCEPT ![h] = "pending"]
          /\ processing' = [processing EXCEPT ![c].todo = @ \ {h},
                                              ![c].total = @ + Amount(h)]
       \/ /\ processing' = [processing EXCEPT ![c] = AfterFailure(@, h)]
          /\ UNCHANGED distribution
  /\ UNCHANGED <<host, declaration, paid>>

CloseRecord(c) ==
  /\ Running(c)
  /\ processing[c].todo = {}
  /\ \/ declaration' = [declaration EXCEPT !.status = "record_set",
                                           !.total = processing[c].total]
     \/ UNCHANGED declaration
  /\ processing' = [processing EXCEPT ![c].step = "done"]
  /\ UNCHANGED <<host, distribution, paid>>

(* A host with one call at a time pays what is pending once the record     *)
(* date is processed, another whatever is pending.                         *)
MarkPaid(h) ==
  /\ distribution[h] = "pending"
  /\ host = "serial" => declaration.status = "record_set"
                        /\ \A d \in Calls : ~Running(d)
  /\ distribution' = [distribution EXCEPT ![h] = "paid"]
  /\ paid' = [paid EXCEPT ![h] = @ + 1]
  /\ UNCHANGED <<host, declaration, processing>>

NextDividends ==
  \/ Declare
  \/ \E c \in Calls : ReadDeclaration(c) \/ Distribute(c) \/ CloseRecord(c)
  \/ \E h \in Holders : MarkPaid(h)

DividendsSpec ==
  /\ host \in Host /\ InitDividends
  /\ [][NextDividends]_<<host, dividends>>

-----------------------------------------------------------------------------

DividendsTyped ==
  /\ declaration \in Declaration
  /\ distribution \in [Holders -> {"none", "pending", "paid"}]
  /\ processing \in [Calls -> [step : {"idle", "distribute", "done"},
                               todo : SUBSET Holders, total : Nat]]
  /\ paid \in [Holders -> Nat]

(* A declaration whose record date is processed has a distribution for     *)
(* every holder entitled to one, and its total is theirs, whatever failed  *)
(* or overlapped on the way.                                               *)
DistributionsComplete ==
  declaration.status = "record_set" =>
    /\ \A h \in Holders : distribution[h] # "none" <=> h \in Entitled
    /\ declaration.total = SumFunctionOnSet([h \in Holders |-> Amount(h)], Entitled)

(* A host that makes one call at a time and pays after the record date is  *)
(* processed pays nobody twice.  (A second run that overlaps, or a run     *)
(* again after a failure when the host paid early, makes what was paid     *)
(* pending again.)                                                         *)
PaidOnce == host = "serial" => \A h \in Holders : paid[h] <= 1
=============================================================================
