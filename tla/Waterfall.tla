----------------------------- MODULE Waterfall -----------------------------
(***************************************************************************)
(* pkg/waterfall: how the proceeds of an exit pass through four tiers.  A  *)
(* table cs gives the terms of every share class; what a tier works on is  *)
(* the money that remains and what each class has been paid so far.        *)
(***************************************************************************)
EXTENDS Fractions, Folds, FiniteSetsExt

ClassTable(cs) ==
  /\ IsFiniteSet(DOMAIN cs)
  /\ cs \in [DOMAIN cs -> [shares : Nat, investment : Nat, multiple : Nat,
                           participating : BOOLEAN, cap : Nat,
                           seniority : Int, ratio : Nat]]

Preferred(cs) == {c \in DOMAIN cs : cs[c].seniority > 0}
Common(cs) == DOMAIN cs \ Preferred(cs)

Participating(cs) == {c \in Preferred(cs) : cs[c].participating}
NonParticipating(cs) == Preferred(cs) \ Participating(cs)

AsConverted(cs, c) ==
  Whole(cs[c].shares * (IF cs[c].ratio = 0 THEN 1 ELSE cs[c].ratio))

CommonShares(cs) ==
  Total([c \in Common(cs) |-> Whole(cs[c].shares)], Common(cs))

AsConvertedTotal(cs, S) == Total([c \in S |-> AsConverted(cs, c)], S)

AsConvertedShares(cs) ==
  Plus(CommonShares(cs), AsConvertedTotal(cs, Preferred(cs)))

Preference(cs, c) == Whole(cs[c].investment * cs[c].multiple)

(* Tier 1, one seniority: all of it is paid, or what remains pro rata.     *)
LiquidationTier(cs, money, seniority) ==
  LET group == {c \in DOMAIN cs : cs[c].seniority = seniority}
      due == Total([c \in group |-> Preference(cs, c)], group)
      covered == Leq(due, money.remaining)
      payout(c) == IF covered THEN Preference(cs, c)
                   ELSE Times(money.remaining, Over(Preference(cs, c), due)) IN
  [remaining |-> IF covered THEN Minus(money.remaining, due) ELSE Zero,
   paid |-> [c \in DOMAIN cs |->
               IF c \in group THEN Plus(money.paid[c], payout(c))
               ELSE money.paid[c]]]

(* groupBySeniority: the lowest seniority works on what all above it left. *)
Liquidate(cs, proceeds) ==
  MapThenFoldSet(LAMBDA s, money : LiquidationTier(cs, money, s),
                 [remaining |-> proceeds, paid |-> [c \in DOMAIN cs |-> Zero]],
                 LAMBDA s : s, Min, {cs[c].seniority : c \in Preferred(cs)})

(* Mutant: the cap holds for the participation alone.                      *)
CappedApart(cs, c, paid, share) ==
  IF cs[c].cap = 0 THEN share
  ELSE Lesser(share, Whole(cs[c].investment * cs[c].cap))

(* What a class may still take under its cap, its preference included.     *)
Capped(cs, c, paid, share) ==
  IF cs[c].cap = 0 THEN share
  ELSE Lesser(share, Greater(Zero, Minus(Whole(cs[c].investment * cs[c].cap),
                                         paid)))

(* Tier 2: participating classes share pro rata in what remains.           *)
ParticipationTier(cs, money) ==
  LET share(c) == Times(money.remaining, Over(AsConverted(cs, c),
                                              AsConvertedShares(cs)))
      payout(c) == IF c \in Participating(cs)
                   THEN Capped(cs, c, money.paid[c], share(c)) ELSE Zero IN
  IF ~Positive(money.remaining) THEN money
  ELSE [remaining |-> Minus(money.remaining,
                            Total([c \in DOMAIN cs |-> payout(c)],
                                  DOMAIN cs)),
        paid |-> [c \in DOMAIN cs |-> Plus(money.paid[c], payout(c))]]

(* Tier 3: the pool a class compares its preference with is what remains   *)
(* and the preferences of all others, whether they convert or keep them.   *)
ConversionPayout(cs, money, c) ==
  LET pool == Plus(money.remaining,
                   Total(money.paid, NonParticipating(cs)))
      shares == Plus(CommonShares(cs),
                     AsConvertedTotal(cs, NonParticipating(cs))) IN
  Times(pool, Over(AsConverted(cs, c), shares))

Converters(cs, money) ==
  {c \in NonParticipating(cs) :
     Positive(money.remaining)
     /\ Less(money.paid[c], ConversionPayout(cs, money, c))}

ConversionTier(cs, money) ==
  LET paid(c) == IF c \in Converters(cs, money)
                 THEN ConversionPayout(cs, money, c) ELSE money.paid[c]
      more(c) == Minus(paid(c), money.paid[c]) IN
  [remaining |-> Minus(money.remaining,
                       Total([c \in DOMAIN cs |-> more(c)], DOMAIN cs)),
   paid |-> [c \in DOMAIN cs |-> paid(c)]]

(* Tier 4: common stock shares what is left.                               *)
CommonTier(cs, money) ==
  LET payout(c) == Times(money.remaining,
                         Over(Whole(cs[c].shares), CommonShares(cs))) IN
  IF ~Positive(money.remaining) \/ ~Positive(CommonShares(cs)) THEN money
  ELSE [remaining |-> Zero,
        paid |-> [c \in DOMAIN cs |->
                    IF c \in Common(cs) THEN Plus(money.paid[c], payout(c))
                    ELSE money.paid[c]]]

Calculate(cs, proceeds) ==
  LET kept == ParticipationTier(cs, Liquidate(cs, proceeds))
      last == CommonTier(cs, ConversionTier(cs, kept)) IN
  [classes |-> cs, proceeds |-> proceeds, paid |-> last.paid,
   remaining |-> last.remaining, converted |-> Converters(cs, kept)]

-----------------------------------------------------------------------------

(* Everything is either paid out or left; a class that is junior to one    *)
(* whose preference was not covered gets nothing; no participating class   *)
(* gets more than its preference or its cap; what common stock there is    *)
(* takes all that is left; and if more is paid than there was, one class   *)
(* converted while another kept its preference.                            *)
DistributionSound(r) ==
  LET cs == r.classes
      due(c) == Preference(cs, c) IN
  /\ Plus(Total(r.paid, DOMAIN cs), r.remaining) = r.proceeds
  /\ \A c \in Preferred(cs) : Less(r.paid[c], due(c)) =>
       \A d \in DOMAIN cs : cs[d].seniority < cs[c].seniority =>
         r.paid[d] = Zero
  /\ \A c \in Participating(cs) : cs[c].cap # 0 =>
       Leq(r.paid[c], Greater(due(c), Whole(cs[c].investment * cs[c].cap)))
  /\ Positive(CommonShares(cs)) => ~Positive(r.remaining)
  /\ Less(r.remaining, Zero) =>
       r.converted # {} /\ r.converted # NonParticipating(cs)
=============================================================================
