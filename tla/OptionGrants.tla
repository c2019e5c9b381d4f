---------------------------- MODULE OptionGrants ----------------------------
(***************************************************************************)
(* pkg/exercise: an exercise checks the grant, stores its result and then  *)
(* has the grant provider add to the exercised options, three calls that   *)
(* can fail or be overtaken.  EarlyExercise stores the result once more    *)
(* with its 83(b) election and ignores how that went.  One grant.          *)
(***************************************************************************)
EXTENDS Hosts

CONSTANTS
  Options,   \* options granted less those cancelled
  Amounts    \* options an exercise can ask for

ASSUME OptionGrantsAssumption ==
  Options \in Nat /\ Amounts \subseteq Nat \ {0}

VARIABLES
  exercised,  \* OptionsExercised of the grant
  exercise,   \* exercise[c]: the call c
  result      \* result[c]: what is stored of its result

grants == <<exercised, exercise, result>>

Exercise ==
  [step : {"idle", "store", "count", "elect", "done"},
   amount : Amounts \cup {0}, early : BOOLEAN,
   outcome : {"none", "refused", "unstored", "uncounted", "returned"}]

InitGrants ==
  /\ exercised = 0
  /\ exercise = [c \in Calls |-> [step |-> "idle", amount |-> 0,
                                  early |-> FALSE, outcome |-> "none"]]
  /\ result = [c \in Calls |-> "none"]

Ended(c, outcome) ==
  exercise' = [exercise EXCEPT ![c].step = "done", ![c].outcome = outcome]

(* Mutant: what is exercised already is not counted.                       *)
AvailableOnce(amount) == amount <= Options

Available(amount) == amount <= Options - exercised

(* validateRequest, the owner and the price are further ways to refuse.    *)
CheckGrant(c) ==
  /\ exercise[c].step = "idle"
  /\ host = "serial" =>
       \A d \in Calls : exercise[d].step \in {"idle", "done"}
  /\ \E amount \in Amounts, early \in BOOLEAN :
       \/ /\ Available(amount)
          /\ exercise' = [exercise EXCEPT
                            ![c] = [step |-> "store", amount |-> amount,
                                    early |-> early, outcome |-> "none"]]
       \/ Ended(c, "refused")
  /\ UNCHANGED <<host, exercised, result>>

StoreResult(c) ==
  /\ exercise[c].step = "store"
  /\ \/ /\ result' = [result EXCEPT ![c] = "plain"]
        /\ exercise' = [exercise EXCEPT ![c].step = "count"]
     \/ Ended(c, "unstored") /\ UNCHANGED result
  /\ UNCHANGED <<host, exercised>>

(* The provider adds; it is not handed a total.                            *)
UpdateExercised(c) ==
  /\ exercise[c].step = "count"
  /\ \/ /\ exercised' = exercised + exercise[c].amount
        /\ IF exercise[c].early
           THEN exercise' = [exercise EXCEPT ![c].step = "elect"]
           ELSE Ended(c, "returned")
     \/ Ended(c, "uncounted") /\ UNCHANGED exercised
  /\ UNCHANGED <<host, result>>

EarlyExercise(c) ==
  /\ exercise[c].step = "elect"
  /\ result' \in {result, [result EXCEPT ![c] = "elected"]}
  /\ Ended(c, "returned")
  /\ UNCHANGED <<host, exercised>>

NextGrants ==
  \E c \in Calls : CheckGrant(c) \/ StoreResult(c) \/ UpdateExercised(c)
                   \/ EarlyExercise(c)

GrantsSpec ==
  /\ host \in Host /\ InitGrants
  /\ [][NextGrants]_<<host, grants>>

-----------------------------------------------------------------------------

GrantsTyped ==
  /\ exercised \in Nat
  /\ exercise \in [Calls -> Exercise]
  /\ result \in [Calls -> {"none", "plain", "elected"}]

Stored == SumFunctionOnSet([c \in Calls |-> exercise[c].amount],
                           {c \in Calls : result[c] # "none"})

(* Options counted as exercised always have stored results behind them;    *)
(* with one call at a time results go beyond the grant only after a call   *)
(* that told its caller the count had failed, and the count never does.    *)
(* (Overlapping exercises pass one check and overdraw the grant.)          *)
OptionsCovered ==
  /\ exercised <= Stored
  /\ host = "serial" =>
       /\ exercised <= Options
       /\ Stored > Options =>
            \E c \in Calls : exercise[c].outcome = "uncounted"
=============================================================================
