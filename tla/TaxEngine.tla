----------------------------- MODULE TaxEngine -----------------------------
(***************************************************************************)
(* Income tax by the policies FY2025-26 and FY2026-27, which agree in all  *)
(* that is used here: slabs, rebate, surcharge, the two marginal reliefs   *)
(* and cess, and the search for the deduction at which the old regime is   *)
(* worth its while.  Incomes are thousands of rupees; taxes are half       *)
(* rupees, in which all rates of multiples of 1000 are whole.              *)
(***************************************************************************)
EXTENDS Integers, Sequences, FiniteSetsExt

CONSTANTS
  Incomes,     \* bound: the incomes that are looked at
  Claimed      \* bound: deductions under 80C, and the same under 80CCD(1B), already claimed

VARIABLE payer \* an income, who has it, and what is deducted in the old regime

Age == {"nonSenior", "seniorCitizen", "superSeniorCitizen"}
Payer == [income : Incomes, salaried : BOOLEAN, age : Age, c80 : Claimed, nps : Claimed]

Init == payer \in Payer /\ payer.income = Min(Incomes)

-----------------------------------------------------------------------------

Smaller(a, b) == IF a < b THEN a ELSE b

\* <<lower bound, rate in percent>>; a slab ends where the next one begins.
NewSlabs == << <<0, 0>>, <<400, 5>>, <<800, 10>>, <<1200, 15>>, <<1600, 20>>, <<2000, 25>>, <<2400, 30>> >>
OldSlabs(age) ==
  CASE age = "nonSenior" -> << <<0, 0>>, <<250, 5>>, <<500, 20>>, <<1000, 30>> >>
    [] age = "seniorCitizen" -> << <<0, 0>>, <<300, 5>>, <<500, 20>>, <<1000, 30>> >>
    [] age = "superSeniorCitizen" -> << <<0, 0>>, <<500, 20>>, <<1000, 30>> >>

Slabs(regime, age) == IF regime = "new" THEN NewSlabs ELSE OldSlabs(age)

\* What is due in a slab; one percent of 1000 rupees are 20 half rupees.
InSlab(taxable, slabs, i) ==
  LET top == IF i < Len(slabs) THEN Smaller(taxable, slabs[i + 1][1]) ELSE taxable
  IN IF taxable <= slabs[i][1] THEN 0 ELSE (top - slabs[i][1]) * slabs[i][2] * 20

\* calculateFromSlabs: the loop over the slabs.
FromSlabs(taxable, slabs) ==
  LET due[i \in 0 .. Len(slabs)] == IF i = 0 THEN 0 ELSE due[i - 1] + InSlab(taxable, slabs, i)
  IN due[Len(slabs)]

\* The income up to which a surcharge is the one before, and its percentage above it.
Surcharges(regime) ==
  IF regime = "new" THEN << <<5000, 10>>, <<10000, 15>>, <<20000, 25>> >>
  ELSE << <<5000, 10>>, <<10000, 15>>, <<20000, 25>>, <<50000, 37>> >>

\* The surcharge reached: an index, or 0 up to 50 lakh.
Reached(taxable, regime) == Cardinality({i \in DOMAIN Surcharges(regime) : taxable > Surcharges(regime)[i][1]})

Percent(regime, i) == IF i = 0 THEN 0 ELSE Surcharges(regime)[i][2]

\* computeSurcharge; every tax before it is a multiple of 100 half rupees.
Surcharge(tax, taxable, regime) == (tax \div 100) * Percent(regime, Reached(taxable, regime))

\* computeMarginalRelief, rounded to a rupee: the tax may exceed that at the last threshold by
\* what the income exceeds it.
MarginalRelief(tax, surcharge, taxable, regime, age) ==
  LET i == Reached(taxable, regime)
      threshold == Surcharges(regime)[i][1]
      atThreshold == FromSlabs(threshold, Slabs(regime, age))
      allowed == atThreshold + (atThreshold \div 100) * Percent(regime, i - 1) + (taxable - threshold) * 2000
  IN IF i = 0 \/ tax + surcharge <= allowed THEN 0 ELSE ((tax + surcharge - allowed + 1) \div 2) * 2

\* Mutant of AfterRebate: the rebate ends at its limit, at once.
AfterRebateAtOnce(tax, taxable, regime) == IF taxable <= (IF regime = "new" THEN 1200 ELSE 500) THEN 0 ELSE tax

\* Section 87A; its maximum is the tax at the limit, so that nothing is left.  Above it only
\* the new regime has a marginal relief.
AfterRebate(tax, taxable, regime) ==
  LET limit == IF regime = "new" THEN 1200 ELSE 500
      maximum == IF regime = "new" THEN 120000 ELSE 25000
  IN IF taxable <= limit THEN tax - Smaller(tax, maximum)
     ELSE IF regime = "new" THEN Smaller(tax, (taxable - limit) * 2000) ELSE tax

\* computeTax before the cess.
AfterSurcharge(taxable, regime, age) ==
  LET tax == AfterRebate(FromSlabs(taxable, Slabs(regime, age)), taxable, regime)
      surcharge == Surcharge(tax, taxable, regime)
  IN tax + surcharge - MarginalRelief(tax, surcharge, taxable, regime, age)

\* ... and with it: 4 %, the amount rounded to a rupee (52 / 100, in steps that stay below 2^31).
TaxAmount(taxable, regime, age) ==
  LET n == AfterSurcharge(taxable, regime, age) IN 13 * (n \div 25) + ((26 * (n % 25) + 25) \div 50)

\* calculateTaxableIncome: the standard deduction, and in the old regime 80C and 80CCD(1B), each to its limit.
Taxable(p, regime) ==
  LET standard == IF p.salaried THEN IF regime = "new" THEN 75 ELSE 50 ELSE 0
      old == IF regime = "old" THEN Smaller(p.c80, 150) + Smaller(p.nps, 50) ELSE 0
  IN IF p.income > standard + old THEN p.income - standard - old ELSE 0

\* computeTax.
Tax(p, regime) == TaxAmount(Taxable(p, regime), regime, p.age)

\* What is claimed in addition fills 80C first.
WithMore(p, additional) ==
  LET c80 == Smaller(p.c80, 150) nps == Smaller(p.nps, 50) IN
  [p EXCEPT !.c80 = c80 + Smaller(150 - c80, additional),
            !.nps = nps + Smaller(50 - nps, additional - Smaller(150 - c80, additional))]

OldIsBetter(p, additional) == Tax(WithMore(p, additional), "old") <= Tax(p, "new")

\* The loop of analyzeTaxOptimization, in steps of 1000 rupees where the code has one rupee.
Bisect(p, room) ==
  LET search[span \in (0 .. room) \X (0 .. room)] ==
        LET low == span[1] high == span[2] mid == (low + high) \div 2 IN
        IF low >= high THEN low
        ELSE IF OldIsBetter(p, mid) THEN search[<<low, mid>>]
             ELSE search[<<mid + 1, high>>]
  IN search[<<0, room>>]

Room(p) == 200 - Smaller(p.c80, 150) - Smaller(p.nps, 50)

\* The answer of the code where no deduction within the limits suffices: null.
NoCrossover == -1

\* Mutant of Crossover: what is already claimed is not added.
CrossoverOfRest(p) ==
  IF Tax(p, "old") <= Tax(p, "new") THEN 200 - Room(p)
  ELSE IF Room(p) > 0 /\ OldIsBetter(p, Room(p)) THEN Bisect(p, Room(p))
  ELSE NoCrossover

\* analyzeTaxOptimization: the deduction from which the old regime costs no more than the new one.
Crossover(p) ==
  IF Tax(p, "old") <= Tax(p, "new") THEN 200 - Room(p)
  ELSE IF Room(p) > 0 /\ OldIsBetter(p, Room(p)) THEN 200 - Room(p) + Bisect(p, Room(p))
  ELSE NoCrossover

-----------------------------------------------------------------------------

\* The next income.
Earn == \E more \in Incomes :
  /\ more > payer.income /\ \A i \in Incomes : i > payer.income => more <= i
  /\ payer' = [payer EXCEPT !.income = more]

Next == Earn

-----------------------------------------------------------------------------

\* Who earns more pays no less and keeps more, before cess and up to the rounding of the relief,
\* through rebate, slabs and surcharges, at each of which one relief ends and another begins;
\* only the old regime has no relief where its rebate ends (computeMarginalRelief, section 87A).
MoreIsKept ==
  [][payer' # payer => \A regime \in {"new", "old"} :
       LET before == Taxable(payer, regime) after == Taxable(payer', regime)
           more == AfterSurcharge(after, regime, payer.age) - AfterSurcharge(before, regime, payer.age) IN
       /\ more >= 0
       /\ regime = "new" \/ before > 500 => more <= (after - before) * 2000 + 2]_payer

\* The deduction that the bisection finds is the least that makes the old regime no dearer, and
\* none is found only if none within the limits does (analyzeTaxOptimization).
CrossoverIsLeast ==
  LET claimed == 200 - Room(payer)
      enough == {d \in 0 .. Room(payer) : OldIsBetter(payer, d)}
  IN Crossover(payer) = IF enough = {} THEN NoCrossover ELSE claimed + Min(enough)
=============================================================================
