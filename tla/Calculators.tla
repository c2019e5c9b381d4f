---------------------------- MODULE Calculators ----------------------------
(***************************************************************************)
(* The services that keep nothing and only work something out.  A          *)
(* behaviour asks one question of one of them; answer holds the question   *)
(* with what was made of it.                                               *)
(***************************************************************************)
EXTENDS Waterfall, Pricing, Rules, TaxForms, FireRecords

CONSTANTS
  Exits,        \* <<share classes, proceeds>>
  Conversions,  \* <<instruments, trigger>>
  Rounds,       \* <<holders, pre-money, investment, percent of the pool>>
  Exercises,    \* <<shares, strike, market value, type>>
  Splits,       \* <<shares, ratio>>
  Offerings,    \* as Form D and the compliance check see them
  Sizes,        \* amounts of offerings, in thousands
  Sales,        \* as Rule 144 sees them
  Amounts1099,  \* dividends of a holder, in cents
  Submissions,  \* forms for IRIS
  PayeeLists,   \* the payees of a federal form
  CodeLists     \* the amount codes of a payer record

(* Questions are of the code's types.  The code checks that proceeds, what *)
(* converts, a round's money and pool, a ratio, a market value and an      *)
(* offering noticed are not out of range; that no other amount is below    *)
(* zero it takes for granted.                                              *)
ASSUME QuestionsAssumption ==
  /\ \A q \in Exits : ClassTable(q[1]) /\ q[2] \in Nat
  /\ \A q \in Conversions : q[1] \in Seq(Convertible) /\ q[2] \in Trigger
  /\ \A q \in Rounds : RoundAsked(q[1], q[2], q[3], q[4])
  /\ \A q \in Splits :
       q[1] \in Nat /\ Rational(q[2]) /\ Positive(q[2])
  /\ Exercises \subseteq Nat \X Nat \X (Nat \ {0})
                         \X {"cash", "cashless", "net"}
  /\ Offerings \subseteq [exemption : STRING, nonAccredited : Int,
                          offering : Int, sold : Int, filed : BOOLEAN,
                          yetToOccur : BOOLEAN]
  /\ Sizes \subseteq Nat
  /\ Sales \subseteq [reporting : BOOLEAN, affiliate : BOOLEAN, months : Int,
                      held : Int, weekly : Int, selling : Nat]
  /\ Amounts1099 \subseteq Int
  /\ Submissions \subseteq [type : STRING, tcc : STRING, kind : STRING,
                            original : STRING, payees : Seq([data : STRING])]
  /\ PayeeLists \subseteq Seq([data : STRING, tax : Int, income : Int,
                               state : STRING])
  /\ CodeLists \subseteq SUBSET AmountCodes

VARIABLE answer

InitAnswer == answer = [of |-> "nothing"]

Asked == answer.of = "nothing"

Exit == \E q \in Exits :
  answer' = [of |-> "exit", result |-> Calculate(q[1], Whole(q[2]))]

Conversion == \E q \in Conversions :
  answer' = [of |-> "conversion", asked |-> q,
             result |-> ConvertAll(q[1], q[2])]

Round == \E q \in Rounds :
  answer' = [of |-> "round", asked |-> q,
             result |-> ModelRound(q[1], q[2], q[3], q[4])]

OptionExercise == \E q \in Exercises :
  answer' = [of |-> "exercise", asked |-> q]

StockSplit == \E q \in Splits :
  answer' = [of |-> "split", asked |-> q, result |-> Split(q[1], q[2])]

Offering == \E f \in Offerings :
  answer' = [of |-> "offering", asked |-> f, found |-> Violations(f),
             warned |-> Warnings(f)]

StateFees == \E small, large \in Sizes :
  answer' = [of |-> "fees", asked |-> <<small, large>>]

Sale == \E s \in Sales :
  answer' = [of |-> "sale", asked |-> s, result |-> Eligible144(s)]

Forms1099 == \E dividends \in [{"h1", "h2"} -> Amounts1099],
                known, unstored \in SUBSET {"h1", "h2"} :
  answer' = [of |-> "forms", asked |-> <<dividends, known, unstored>>]

IrisForm == \E fs \in Submissions :
  \E client \in [tcc : {"K1"}, env : {"production", "aats"}] :
    answer' = [of |-> "iris", asked |-> <<fs, client>>]

StateRouting == \E payees \in PayeeLists :
  answer' = [of |-> "states", asked |-> payees,
             result |-> RouteToStates(payees, {})]

FileLayout == \E codes \in CodeLists :
  answer' = [of |-> "layout", asked |-> codes]

NextAnswer ==
  /\ Asked
  /\ \/ Exit \/ Conversion \/ Round \/ OptionExercise \/ StockSplit
     \/ Offering \/ StateFees \/ Sale \/ Forms1099 \/ IrisForm \/ StateRouting
     \/ FileLayout

-----------------------------------------------------------------------------

(* What an exit brings goes where the terms of the classes say it goes.    *)
ProceedsAccounted == answer.of = "exit" => DistributionSound(answer.result)

(* An exit pays out no more than it brings.                                *)
WithinProceeds ==
  answer.of = "exit" => Leq(Zero, answer.result.remaining)

(* SAFEs and notes convert at the best price their terms give, rounds and  *)
(* splits keep every share, and an exercise gives away no more than its    *)
(* spread.  The compliance check of an offering and its Form D agree; fees *)
(* keep within their schedule and grow with the offering; and who may sell *)
(* under Rule 144 may sell less and may sell later.                        *)
CalculationsSound ==
  CASE answer.of = "conversion" ->
         \A i \in DOMAIN answer.result :
           ConversionSound(answer.result[i], answer.asked[2])
    [] answer.of = "round" ->
         RoundSound(answer.asked[1], answer.asked[2], answer.asked[3],
                    answer.asked[4])
    [] answer.of = "exercise" ->
         ExerciseSound(answer.asked[1], answer.asked[2], answer.asked[3],
                       answer.asked[4])
    [] answer.of = "split" -> SplitSound(answer.asked[1], answer.asked[2])
    [] answer.of = "offering" -> RegDConsistent(answer.asked)
    [] answer.of = "fees" ->
         /\ FeesSound(answer.asked[1], answer.asked[2])
         /\ RemainingSound(answer.asked[1], answer.asked[2], 0)
    [] answer.of = "sale" -> Rule144Monotone(answer.asked)
    [] OTHER -> TRUE

(* The forms made, submitted and written, and where each goes.             *)
FormsSound ==
  CASE answer.of = "forms" ->
         GenerationSound(answer.asked[1], answer.asked[2], answer.asked[3])
    [] answer.of = "iris" -> SubmissionSound(answer.asked[1], answer.asked[2])
    [] answer.of = "states" -> StateRoutingSound(answer.asked)
    [] answer.of = "layout" -> FieldsApart(answer.asked)
    [] OTHER -> TRUE
=============================================================================
