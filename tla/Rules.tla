------------------------------- MODULE Rules -------------------------------
(***************************************************************************)
(* The rules an offering is held against: Regulation D as pkg/compliance   *)
(* checks it and as the Form D builder of pkg/edgar enforces it, the fees  *)
(* of state notices (pkg/bluesky) and Rule 144 (pkg/transfer).  Offerings  *)
(* are in thousands of dollars, fees in cents.                             *)
(***************************************************************************)
EXTENDS Integers, FiniteSets, FiniteSetsExt

(* CheckRegDCompliance: what it finds wrong.  sold: days since the first   *)
(* sale, -1 before it; filed: the record has a filing date.                *)
Violations(f) ==
  {v \in {"506b_investors", "506c_investors", "504_offering", "late"} :
     CASE v = "506b_investors" -> f.exemption = "506b" /\ f.nonAccredited > 35
       [] v = "506c_investors" -> f.exemption = "506c" /\ f.nonAccredited > 0
       [] v = "504_offering" -> f.exemption = "504" /\ f.offering > 10000
       [] v = "late" -> f.sold > 15 /\ ~f.filed}

Warnings(f) ==
  {w \in {"506b_investors", "deadline"} :
     CASE w = "506b_investors" -> f.exemption = "506b"
                                  /\ f.nonAccredited \in 30 .. 35
       [] w = "deadline" -> f.sold \in 0 .. 15 /\ ~f.filed}

(* validateFormD, for a filing with all its blocks filled in.              *)
FormDRefused(f, amend) ==
  \/ f.sold < 0 /\ ~f.yetToOccur /\ ~amend
  \/ f.exemption = "506c" /\ f.nonAccredited > 0
  \/ f.exemption = "504" /\ f.offering > 10000

(* buildOfferingSalesAmounts: what remains, computed when it is zero.      *)
Remaining(offering, soldAmount, stated) ==
  LET left == IF stated = 0 THEN offering - soldAmount ELSE stated IN
  IF left < 0 THEN 0 ELSE left

-----------------------------------------------------------------------------

(* The flat fees in dollars, each with its states.                         *)
FlatFees ==
  {<<50, {"ID", "MN"}>>,
   <<60, {"UT"}>>,
   <<75, {"CO"}>>,
   <<100, {"AR", "IA", "IN", "MD", "MI", "MO", "ND", "OH", "OK"}>>,
   <<150, {"CT", "SD"}>>,
   <<200, {"DE", "FL", "HI", "IL", "MT", "NE", "WI", "WY"}>>,
   <<225, {"OR"}>>,
   <<250, {"AZ", "DC", "GA", "KS", "KY", "NJ", "VA", "WV"}>>,
   <<300, {"AL", "LA", "MA", "ME", "MS", "PA", "RI", "SC"}>>,
   <<350, {"NC", "NM", "NV"}>>,
   <<500, {"NH", "TN", "TX"}>>,
   <<600, {"AK", "VT"}>>}

FlatStates == UNION {fee[2] : fee \in FlatFees}

FlatFee(state) == (CHOOSE fee \in FlatFees : state \in fee[2])[1]

Least(a, b) == IF a < b THEN a ELSE b

(* stateFeeSchedule; nothing for a state it does not know.                 *)
StateFee(state, offering) ==
  CASE state \in FlatStates -> 100 * FlatFee(state)
    [] state = "CA" -> Least(2500 + offering, 30000)
    [] state = "NY" -> IF offering > 500 THEN 120000 ELSE 30000
    [] state = "WA" -> IF offering > 50
                       THEN Least(30000 + 100 * (offering - 50), 150000)
                       ELSE 30000
    [] OTHER -> 0

EFDSystemFee == 16000

PortalStates == {"FL", "TX", "NY", "CA", "MA"}

(* CalculateFee of the adapter that serves the state.                      *)
CalculateFee(state, offering) ==
  IF state \in PortalStates
  THEN [due |-> StateFee(state, offering),
        method |-> IF state \in {"FL", "TX"} THEN "check" ELSE "ach"]
  ELSE [due |-> StateFee(state, offering) + EFDSystemFee, method |-> "ach"]

(* GetRequiredStates.                                                      *)
RequiredStates ==
  {"AL", "AK", "AZ", "AR", "CA", "CO", "CT", "DE", "FL", "GA", "HI", "ID",
   "IL", "IN", "IA", "KS", "KY", "LA", "ME", "MD", "MA", "MI", "MN", "MS",
   "MO", "MT", "NE", "NV", "NH", "NJ", "NM", "NY", "NC", "ND", "OH", "OK",
   "OR", "PA", "RI", "SC", "SD", "TN", "TX", "UT", "VT", "VA", "WA", "WV",
   "WI", "WY", "DC"}

-----------------------------------------------------------------------------

(* CheckRule144: one percent, rounded up, of the shares held.              *)
VolumeLimit(check) ==
  LET percent == (check.held + 99) \div 100 IN
  IF check.weekly > percent THEN check.weekly ELSE percent

Eligible144(check) ==
  LET required == IF check.reporting THEN 6 ELSE 12 IN
  /\ check.months >= required
  /\ \/ ~check.affiliate
     \/ check.selling <= VolumeLimit(check)

-----------------------------------------------------------------------------

(* Whatever Form D refuses for its investors or its size the compliance    *)
(* check reports; what the check reports and Form D files all the same is  *)
(* a 506(b) offering with too many investors or one filed late; and no     *)
(* offering has the deadline ahead of it and behind it.                    *)
RegDConsistent(f) ==
  /\ FormDRefused(f, TRUE) => Violations(f) # {}
  /\ Violations(f) # {} /\ ~FormDRefused(f, TRUE) =>
       "late" \in Violations(f) \/ f.exemption = "506b"
  /\ ~("late" \in Violations(f) /\ "deadline" \in Warnings(f))

(* Every state that requires a notice has a fee, a larger offering never a *)
(* lower one.                                                              *)
FeesSound(small, large) ==
  /\ RequiredStates = FlatStates \cup {"CA", "NY", "WA"}
  /\ \A s \in RequiredStates :
       LET low == CalculateFee(s, small).due
           high == CalculateFee(s, large).due IN
       /\ 2500 <= low /\ high <= 166000
       /\ small <= large => low <= high

(* A holder who may sell may sell less, and may sell later.                *)
Rule144Monotone(check) ==
  Eligible144(check) =>
    /\ Eligible144([check EXCEPT !.selling = @ \div 2])
    /\ Eligible144([check EXCEPT !.months = @ + 6])

(* What is written as remaining is never negative, and is what is left of  *)
(* an offering when the filer left it out.                                 *)
RemainingSound(offering, soldAmount, stated) ==
  LET r == Remaining(offering, soldAmount, stated) IN
  /\ r >= 0
  /\ stated = 0 /\ soldAmount <= offering => r + soldAmount = offering
=============================================================================
