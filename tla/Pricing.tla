------------------------------ MODULE Pricing ------------------------------
(***************************************************************************)
(* What shares cost and who ends up with how many: the conversion of SAFEs *)
(* and notes (pkg/conversion), the pro forma of a round and a plain exit   *)
(* (pkg/scenario), stock splits (pkg/corporate), and the shares and tax of *)
(* an exercise (pkg/exercise, pkg/warrant).                                *)
(***************************************************************************)
EXTENDS Fractions, FiniteSets, Sequences

None == Whole(-1)   \* an error is returned instead

Percent(n) == Fraction(n, 100)

-----------------------------------------------------------------------------

Convertible ==
  [type : {"pre_money", "post_money", "mfn", "note"}, amount : Nat \ {0},
   cap : Nat, discount : Nat, rate : Nat, maturity : Int]

Trigger == [price : Nat, preShares : Nat, postShares : Nat, days : Int]

(* Shares the valuation cap is divided by.                                 *)
CapShares(instrument, trigger) ==
  IF instrument.type = "post_money" THEN trigger.postShares
  ELSE trigger.preShares

CapPrice(instrument, trigger) ==
  Over(Whole(instrument.cap), Whole(CapShares(instrument, trigger)))

DiscountPrice(instrument, trigger) ==
  IF instrument.discount = 0 THEN Zero
  ELSE Times(Whole(trigger.price), Percent(100 - instrument.discount))

(* Mutant: a cap decides whenever there is one.                            *)
CapDecides(cap, discount, round) ==
  IF Positive(cap) THEN cap
  ELSE IF Positive(discount) THEN Lesser(discount, round) ELSE round

(* The lowest of the prices there are, zero when there is none.            *)
SelectBestPrice(cap, discount, round) ==
  LET prices == {p \in {cap, discount, round} : Positive(p)} IN
  IF prices = {} THEN Zero
  ELSE CHOOSE p \in prices : \A q \in prices : Leq(p, q)

(* Simple interest from issue to conversion, which is maturity when the    *)
(* trigger has no date.                                                    *)
AccruedInterest(note, trigger) ==
  LET days == IF trigger.days = 0 THEN note.maturity ELSE trigger.days IN
  IF note.rate = 0 \/ days <= 0 THEN Zero
  ELSE Times(Times(Whole(note.amount), Percent(note.rate)),
             Fraction(days, 365))

ConvertedAmount(instrument, trigger) ==
  IF instrument.type = "note"
  THEN Plus(Whole(instrument.amount), AccruedInterest(instrument, trigger))
  ELSE Whole(instrument.amount)

(* The method is named after the terms, whichever price was taken.         *)
Method(cap, discount) ==
  IF Positive(cap) /\ (Positive(discount) => Leq(cap, discount)) THEN "cap"
  ELSE IF Positive(discount) THEN "discount" ELSE "mfn"

Unpriced(instrument, trigger) ==
  \/ trigger.price = 0 /\ instrument.cap = 0
  \/ instrument.cap > 0 /\ CapShares(instrument, trigger) = 0

(* ConvertSAFE and ConvertNote.                                            *)
Convert(instrument, trigger) ==
  LET cap == CapPrice(instrument, trigger)
      discount == DiscountPrice(instrument, trigger)
      price == SelectBestPrice(cap, discount, Whole(trigger.price))
      amount == ConvertedAmount(instrument, trigger) IN
  IF Unpriced(instrument, trigger) THEN [price |-> None]
  ELSE [price |-> price, amount |-> amount, cap |-> cap,
        discount |-> discount, method |-> Method(cap, discount),
        shares |-> Floor(Over(amount, price))]

(* One instrument that cannot be converted and none is.                    *)
ConvertAll(instruments, trigger) ==
  IF \E i \in DOMAIN instruments : Unpriced(instruments[i], trigger) THEN <<>>
  ELSE [i \in DOMAIN instruments |-> Convert(instruments[i], trigger)]

(* Nobody converts at more than the round's price, the cap's or the        *)
(* discounted one; the shares are worth the amount converted to within one *)
(* share; and a method other than the price's own names a worse price than *)
(* the round's.                                                            *)
ConversionSound(c, trigger) ==
  /\ \A p \in {c.cap, c.discount, Whole(trigger.price)} :
       Positive(p) => Leq(c.price, p)
  /\ Positive(c.price)
  /\ Leq(Times(Whole(c.shares), c.price), c.amount)
  /\ Less(c.amount, Times(Whole(c.shares + 1), c.price))
  /\ c.method = "cap" =>
       c.price = c.cap \/ Less(Whole(trigger.price), c.cap)
  /\ c.method = "discount" => c.price = c.discount

-----------------------------------------------------------------------------

TotalShares(held) ==
  Total([h \in DOMAIN held |-> Whole(held[h])], DOMAIN held)

(* What ModelRound does not refuse, over holders with names of their own.  *)
RoundAsked(before, preMoney, investment, pool) ==
  /\ IsFiniteSet(DOMAIN before) /\ before \in [DOMAIN before -> Nat]
  /\ {"investor", "pool"} \cap DOMAIN before = {}
  /\ Positive(TotalShares(before))
  /\ preMoney \in Nat \ {0} /\ investment \in Nat \ {0} /\ pool \in 0 .. 99

(* A priced round over the holders in before; the pool is enlarged to its  *)
(* share of what there is after the round.                                 *)
ModelRound(before, preMoney, investment, pool) ==
  LET existing == TotalShares(before)
      price == Over(Whole(preMoney), existing)
      new == Floor(Over(Whole(investment), price))
      enlarged == Floor(Over(Times(Percent(pool), Plus(existing, Whole(new))),
                             Percent(100 - pool))) IN
  [price |-> price, new |-> new, pool |-> enlarged,
   diluted |-> existing.n + new + enlarged,
   after |-> [h \in DOMAIN before \cup {"investor"} \cup
                (IF enlarged > 0 THEN {"pool"} ELSE {}) |->
                CASE h = "investor" -> new [] h = "pool" -> enlarged
                  [] OTHER -> before[h]]]

(* ModelExit: pro rata, holders without shares left out.                   *)
ModelExit(after, valuation) ==
  LET all == TotalShares(after) IN
  [h \in {g \in DOMAIN after : after[g] # 0} |->
     Times(Over(Whole(after[h]), all), Whole(valuation))]

(* Shares after the round add up to the fully diluted count, the investor  *)
(* pays for whole shares only, the pool is the largest its percentage      *)
(* allows, and an exit right after it pays out the valuation, all holders  *)
(* at one price per share.                                                 *)
RoundSound(before, preMoney, investment, pool) ==
  LET r == ModelRound(before, preMoney, investment, pool)
      all == TotalShares(r.after)
      exit == ModelExit(r.after, preMoney + investment) IN
  /\ all = Whole(r.diluted)
  /\ Leq(Times(Whole(r.new), r.price), Whole(investment))
  /\ r.pool * 100 <= pool * r.diluted
  /\ pool > 0 => (r.pool + 1) * 100 > pool * (r.diluted + 1)
  /\ Total(exit, DOMAIN exit) = Whole(preMoney + investment)
  /\ \A g, h \in DOMAIN exit : Times(exit[g], Whole(r.after[h]))
                               = Times(exit[h], Whole(r.after[g]))

-----------------------------------------------------------------------------

(* CalculateSplit: whole shares, and the fraction the caller settles.      *)
Split(shares, ratio) ==
  LET exact == Times(Whole(shares), ratio) IN
  [after |-> Floor(exact), fractional |-> Minus(exact, Whole(Floor(exact)))]

(* Exercise of options: the shares issued for so many at a strike and a    *)
(* market value; "net" is treated like cash.                               *)
NetShares(shares, strike, fmv, type) ==
  IF type # "cashless" THEN shares
  ELSE IF fmv < strike THEN 0 ELSE ((fmv - strike) * shares) \div fmv

TotalCost(shares, strike, type) ==
  IF type = "cashless" THEN 0 ELSE shares * strike

TaxableSpread(shares, strike, fmv) ==
  IF fmv < strike THEN 0 ELSE (fmv - strike) * shares

(* CalculateTax: federal, California, social security and medicare on an   *)
(* nso; an iso is an AMT item; in hundredths of a percent of the spread.   *)
Withholding(type) == IF type = "nso" THEN 3700 + 1330 + 620 + 145 ELSE 0

(* Exercise of a warrant: cashless and net are refused without a gain.     *)
WarrantShares(quantity, strike, fmv, type) ==
  CASE type = "cash" -> quantity
    [] type \in {"cashless", "net"} /\ fmv > strike ->
         (quantity * (fmv - strike)) \div fmv
    [] OTHER -> -1

(* No exercise gives away more value than its spread and what is paid, and *)
(* a cashless one is worth the spread to within a share; for options and   *)
(* warrants alike; the tax withheld never takes more than the spread.      *)
ExerciseSound(shares, strike, fmv, type) ==
  LET net == NetShares(shares, strike, fmv, type)
      spread == TaxableSpread(shares, strike, fmv)
      warrant == WarrantShares(shares, strike, fmv, type) IN
  /\ net \in 0 .. shares
  /\ net * fmv <= spread + TotalCost(shares, strike, type)
  /\ type = "cashless" => spread - net * fmv \in 0 .. fmv - 1
  /\ type = "cashless" /\ fmv > strike => warrant = net
  /\ spread * Withholding("nso") <= spread * 10000

(* A split keeps every share or a fraction of one.                         *)
SplitSound(shares, ratio) ==
  LET s == Split(shares, ratio) IN
  /\ Plus(Whole(s.after), s.fractional) = Times(Whole(shares), ratio)
  /\ Leq(Zero, s.fractional) /\ Less(s.fractional, Whole(1))
=============================================================================
