----------------------------- MODULE TaxProofs -----------------------------
(***************************************************************************)
(* Proofs about the income tax, for every income: the tax grows with what  *)
(* is taxable and never by more than that, and the bisection finds the     *)
(* least deduction for which the old regime is no dearer.                  *)
(***************************************************************************)
EXTENDS TaxEngine, FiniteSetTheorems, WellFoundedInduction, TLAPS

-----------------------------------------------------------------------------
(* The slabs *)

\* What the loop over three, four and seven slabs adds up.
LEMMA ThreeSlabs ==
  ASSUME NEW P, \A i \in 1 .. 3 : P[i] \in Int
  PROVE  (CHOOSE f : f = [i \in 0 .. 3 |-> IF i = 0 THEN 0 ELSE f[i - 1] + P[i]])[3] = P[1] + P[2] + P[3]
<1>. DEFINE Adds(f) == f = [i \in 0 .. 3 |-> IF i = 0 THEN 0 ELSE f[i - 1] + P[i]]
            sum == [i \in 0 .. 3 |-> IF i = 0 THEN 0 ELSE IF i = 1 THEN P[1] ELSE IF i = 2 THEN P[1] + P[2]
                                     ELSE P[1] + P[2] + P[3]]
<1>1. Adds(sum)
  OBVIOUS
<1>2. Adds(CHOOSE f : Adds(f))
  BY <1>1
<1>3. \A f : Adds(f) => f[3] = P[1] + P[2] + P[3]
  OBVIOUS
<1>. QED
  BY <1>2, <1>3

LEMMA FourSlabs ==
  ASSUME NEW P, \A i \in 1 .. 4 : P[i] \in Int
  PROVE  (CHOOSE f : f = [i \in 0 .. 4 |-> IF i = 0 THEN 0 ELSE f[i - 1] + P[i]])[4] = P[1] + P[2] + P[3] + P[4]
<1>. DEFINE Adds(f) == f = [i \in 0 .. 4 |-> IF i = 0 THEN 0 ELSE f[i - 1] + P[i]]
            sum == [i \in 0 .. 4 |-> IF i = 0 THEN 0 ELSE IF i = 1 THEN P[1] ELSE IF i = 2 THEN P[1] + P[2]
                                     ELSE IF i = 3 THEN P[1] + P[2] + P[3] ELSE P[1] + P[2] + P[3] + P[4]]
<1>1. Adds(sum)
  OBVIOUS
<1>2. Adds(CHOOSE f : Adds(f))
  BY <1>1
<1>3. \A f : Adds(f) => f[4] = P[1] + P[2] + P[3] + P[4]
  OBVIOUS
<1>. QED
  BY <1>2, <1>3

LEMMA SevenSlabs ==
  ASSUME NEW P, \A i \in 1 .. 7 : P[i] \in Int
  PROVE  (CHOOSE f : f = [i \in 0 .. 7 |-> IF i = 0 THEN 0 ELSE f[i - 1] + P[i]])[7] =
           P[1] + P[2] + P[3] + P[4] + P[5] + P[6] + P[7]
<1>. DEFINE Adds(f) == f = [i \in 0 .. 7 |-> IF i = 0 THEN 0 ELSE f[i - 1] + P[i]]
            sum == [i \in 0 .. 7 |->
                      IF i = 0 THEN 0 ELSE IF i = 1 THEN P[1] ELSE IF i = 2 THEN P[1] + P[2]
                      ELSE IF i = 3 THEN P[1] + P[2] + P[3] ELSE IF i = 4 THEN P[1] + P[2] + P[3] + P[4]
                      ELSE IF i = 5 THEN P[1] + P[2] + P[3] + P[4] + P[5]
                      ELSE IF i = 6 THEN P[1] + P[2] + P[3] + P[4] + P[5] + P[6]
                      ELSE P[1] + P[2] + P[3] + P[4] + P[5] + P[6] + P[7]]
<1>1. Adds(sum)
  OBVIOUS
<1>2. Adds(CHOOSE f : Adds(f))
  BY <1>1
<1>3. \A f : Adds(f) => f[7] = P[1] + P[2] + P[3] + P[4] + P[5] + P[6] + P[7]
  OBVIOUS
<1>. QED
  BY <1>2, <1>3

\* How much of an income lies above a, and how much of that below b.
Beyond(t, a) == IF t <= a THEN 0 ELSE t - a
Band(t, a, b) == IF t <= a THEN 0 ELSE Smaller(t, b) - a

\* The tax of the slabs in units of 100 half rupees, which is 5 percent of 1000 rupees.
Exempt(age) == IF age = "nonSenior" THEN 250 ELSE IF age = "seniorCitizen" THEN 300 ELSE 500
Units(t, regime, age) ==
  IF regime = "new"
    THEN Band(t, 400, 800) + 2 * Band(t, 800, 1200) + 3 * Band(t, 1200, 1600) + 4 * Band(t, 1600, 2000)
           + 5 * Band(t, 2000, 2400) + 6 * Beyond(t, 2400)
    ELSE Band(t, Exempt(age), 500) + 4 * Band(t, 500, 1000) + 6 * Beyond(t, 1000)

\* The loop computes them in the new regime,
LEMMA NewFromSlabs ==
  ASSUME NEW t \in Nat, NEW age
  PROVE  FromSlabs(t, NewSlabs) = 100 * Units(t, "new", age)
<1>. DEFINE P == [i \in 1 .. 7 |-> InSlab(t, NewSlabs, i)]
<1>1. /\ P[1] = 0 /\ P[2] = 100 * Band(t, 400, 800) /\ P[3] = 200 * Band(t, 800, 1200)
      /\ P[4] = 300 * Band(t, 1200, 1600) /\ P[5] = 400 * Band(t, 1600, 2000)
      /\ P[6] = 500 * Band(t, 2000, 2400) /\ P[7] = 600 * Beyond(t, 2400)
  BY DEF InSlab, NewSlabs, Band, Beyond, Smaller
<1>2. \A i \in 1 .. 7 : P[i] \in Int
  BY <1>1 DEF Band, Beyond, Smaller
<1>3. FromSlabs(t, NewSlabs) = (CHOOSE f : f = [i \in 0 .. 7 |-> IF i = 0 THEN 0 ELSE f[i - 1] + P[i]])[7]
  BY DEF FromSlabs, NewSlabs
<1>. HIDE DEF P
<1>4. FromSlabs(t, NewSlabs) = P[1] + P[2] + P[3] + P[4] + P[5] + P[6] + P[7]
  BY <1>2, <1>3, SevenSlabs
<1>. QED
  BY <1>1, <1>4 DEF Units, Band, Beyond, Smaller

\* and in the old one, whose exemption depends on the age.
LEMMA OldFromSlabs ==
  ASSUME NEW t \in Nat, NEW age \in Age
  PROVE  FromSlabs(t, OldSlabs(age)) = 100 * Units(t, "old", age)
<1>. DEFINE P == [i \in 1 .. 4 |-> InSlab(t, OldSlabs(age), i)]
<1>1. CASE age # "superSeniorCitizen"
  <2>1. OldSlabs(age) = << <<0, 0>>, <<Exempt(age), 5>>, <<500, 20>>, <<1000, 30>> >> /\ Exempt(age) \in {250, 300}
    BY <1>1 DEF OldSlabs, Exempt, Age
  <2>2. P[1] = 0 /\ P[2] = 100 * Band(t, Exempt(age), 500) /\ P[3] = 400 * Band(t, 500, 1000) /\ P[4] = 600 * Beyond(t, 1000)
    BY <2>1 DEF InSlab, Band, Beyond, Smaller
  <2>3. \A i \in 1 .. 4 : P[i] \in Int
    BY <2>1, <2>2 DEF Band, Beyond, Smaller
  <2>4. FromSlabs(t, OldSlabs(age)) = (CHOOSE f : f = [i \in 0 .. 4 |-> IF i = 0 THEN 0 ELSE f[i - 1] + P[i]])[4]
    <3>1. Len(OldSlabs(age)) = 4
      BY <2>1
    <3>. QED
      BY <3>1 DEF FromSlabs
  <2>. HIDE DEF P
  <2>5. FromSlabs(t, OldSlabs(age)) = P[1] + P[2] + P[3] + P[4]
    BY <2>3, <2>4, FourSlabs
  <2>. QED
    BY <2>1, <2>2, <2>5 DEF Units, Band, Beyond, Smaller
<1>2. CASE age = "superSeniorCitizen"
  <2>1. OldSlabs(age) = << <<0, 0>>, <<500, 20>>, <<1000, 30>> >>
    BY <1>2 DEF OldSlabs
  <2>2. P[1] = 0 /\ P[2] = 400 * Band(t, 500, 1000) /\ P[3] = 600 * Beyond(t, 1000)
    BY <2>1 DEF InSlab, Band, Beyond, Smaller
  <2>3. \A i \in 1 .. 3 : P[i] \in Int
    BY <2>2 DEF Band, Beyond, Smaller
  <2>. DEFINE Q == [i \in 1 .. 3 |-> InSlab(t, OldSlabs(age), i)]
  <2>4. FromSlabs(t, OldSlabs(age)) = (CHOOSE f : f = [i \in 0 .. 3 |-> IF i = 0 THEN 0 ELSE f[i - 1] + Q[i]])[3]
    <3>1. Len(OldSlabs(age)) = 3
      BY <2>1
    <3>. QED
      BY <3>1 DEF FromSlabs
  <2>5. \A i \in 1 .. 3 : Q[i] = P[i]
    OBVIOUS
  <2>. HIDE DEF P, Q
  <2>6. FromSlabs(t, OldSlabs(age)) = P[1] + P[2] + P[3]
    BY <2>3, <2>4, <2>5, ThreeSlabs
  <2>7. Band(t, Exempt(age), 500) = 0
    BY <1>2 DEF Exempt, Band, Smaller
  <2>. QED
    BY <2>2, <2>6, <2>7 DEF Units, Band, Beyond, Smaller
<1>. QED
  BY <1>1, <1>2

\* calculateFromSlabs, in units.
LEMMA ByUnits ==
  ASSUME NEW t \in Nat, NEW regime \in {"new", "old"}, NEW age \in Age
  PROVE  FromSlabs(t, Slabs(regime, age)) = 100 * Units(t, regime, age)
  BY NewFromSlabs, OldFromSlabs DEF Slabs

\* A unit or two more of income never cost less, and cost at most six units each.
LEMMA UnitsGrow ==
  ASSUME NEW t \in Nat, NEW u \in Nat, t <= u, NEW regime \in {"new", "old"}, NEW age \in Age
  PROVE  /\ Units(t, regime, age) \in Nat /\ Units(u, regime, age) \in Nat
         /\ Units(t, regime, age) <= Units(u, regime, age)
         /\ Units(u, regime, age) <= Units(t, regime, age) + 6 * (u - t)
<1>1. CASE regime = "new"
  BY <1>1 DEF Units, Band, Beyond, Smaller
<1>2. CASE regime = "old"
  <2>1. Exempt(age) \in {250, 300, 500}
    BY DEF Exempt
  <2>. QED
    BY <1>2, <2>1 DEF Units, Band, Beyond, Smaller
<1>. QED
  BY <1>1, <1>2

\* What an income beyond all slabs falls short of six units for each 1000 rupees.
Short(regime, age) ==
  IF regime = "new" THEN 8400
  ELSE IF age = "nonSenior" THEN 3750 ELSE IF age = "seniorCitizen" THEN 3800 ELSE 4000

\* Beyond all slabs, what they amount to.
LEMMA UnitsAbove ==
  ASSUME NEW t \in Nat, t >= 2400, NEW regime \in {"new", "old"}, NEW age \in Age
  PROVE  Units(t, regime, age) = 6 * t - Short(regime, age)
  BY DEF Units, Band, Beyond, Smaller, Short, Exempt, Age

\* How far the surcharge has gone.
LEMMA ReachedIs ==
  ASSUME NEW t \in Nat, NEW regime \in {"new", "old"}
  PROVE  Reached(t, regime) =
           IF t <= 5000 THEN 0 ELSE IF t <= 10000 THEN 1 ELSE IF t <= 20000 THEN 2
           ELSE IF regime = "new" \/ t <= 50000 THEN 3 ELSE 4
<1>. DEFINE n == IF t <= 5000 THEN 0 ELSE IF t <= 10000 THEN 1 ELSE IF t <= 20000 THEN 2
                 ELSE IF regime = "new" \/ t <= 50000 THEN 3 ELSE 4
<1>1. {i \in DOMAIN Surcharges(regime) : t > Surcharges(regime)[i][1]} = 1 .. n
  <2>1. CASE regime = "new"
    BY <2>1 DEF Surcharges
  <2>2. CASE regime = "old"
    BY <2>2 DEF Surcharges
  <2>. QED
    BY <2>1, <2>2
<1>2. Cardinality(1 .. n) = n
  BY FS_Interval
<1>. DEFINE passed == {i \in DOMAIN Surcharges(regime) : t > Surcharges(regime)[i][1]}
<1>3. Reached(t, regime) = Cardinality(passed)
  BY DEF Reached
<1>. HIDE DEF passed
<1>4. Cardinality(passed) = n
  <2>1. passed = 1 .. n
    BY <1>1 DEF passed
  <2>. HIDE DEF n
  <2>2. Cardinality(1 .. n) = n
    BY <1>2
  <2>. QED
    BY <2>1, <2>2
<1>. QED
  BY <1>3, <1>4

-----------------------------------------------------------------------------
(* Rebate, surcharge and the reliefs *)

\* What is left of the units after the rebate and its marginal relief.
Left(t, regime, age) ==
  IF regime = "new" THEN IF t <= 1200 THEN 0 ELSE Smaller(Units(t, regime, age), 20 * (t - 1200))
  ELSE IF t <= 500 THEN 0 ELSE Units(t, regime, age)

\* ... is that, in units: section 87A leaves nothing up to its limit.
LEMMA LeftIs ==
  ASSUME NEW t \in Nat, NEW regime \in {"new", "old"}, NEW age \in Age
  PROVE  AfterRebate(FromSlabs(t, Slabs(regime, age)), t, regime) = 100 * Left(t, regime, age)
<1>1. Units(t, regime, age) \in Nat
  BY UnitsGrow
<1>2. t <= 1200 => Units(t, "new", age) <= 1200
  BY DEF Units, Band, Beyond, Smaller
<1>3. t <= 500 => Units(t, "old", age) <= 250
  BY DEF Units, Band, Beyond, Smaller, Exempt
<1>. QED
  BY <1>1, <1>2, <1>3, ByUnits DEF AfterRebate, Left, Smaller

\* What is left grows, by no more than is earned; only in the old regime there is a step at 500.
LEMMA LeftGrows ==
  ASSUME NEW t \in Nat, NEW u \in Nat, t <= u, NEW regime \in {"new", "old"}, NEW age \in Age
  PROVE  /\ Left(t, regime, age) \in Nat /\ Left(u, regime, age) \in Nat
         /\ Left(t, regime, age) <= Left(u, regime, age)
         /\ regime = "new" \/ t > 500 => Left(u, regime, age) <= Left(t, regime, age) + 20 * (u - t)
<1>1. /\ Units(t, regime, age) \in Nat /\ Units(u, regime, age) \in Nat
      /\ Units(t, regime, age) <= Units(u, regime, age)
      /\ Units(u, regime, age) <= Units(t, regime, age) + 6 * (u - t)
  BY UnitsGrow
<1>. QED
  BY <1>1 DEF Left, Smaller

\* Beyond all slabs the rebate and its relief have ended.
LEMMA LeftAbove ==
  ASSUME NEW t \in Nat, t >= 5000, NEW regime \in {"new", "old"}, NEW age \in Age
  PROVE  Left(t, regime, age) = 6 * t - Short(regime, age)
<1>1. Units(t, regime, age) = 6 * t - Short(regime, age)
  BY UnitsAbove
<1>. QED
  BY <1>1 DEF Left, Smaller, Short

\* Above 50 lakh: the tax with the surcharge, and what the marginal relief allows, in which
\* k is what the units fall short of 6 * t.
Full(t, k) ==
  (6 * t - k) * (IF t <= 10000 THEN 110 ELSE IF t <= 20000 THEN 115 ELSE IF k = 8400 \/ t <= 50000 THEN 125 ELSE 137)
Allowed(t, k) ==
  IF t <= 10000 THEN (30000 - k) * 100 + (t - 5000) * 2000
  ELSE IF t <= 20000 THEN (60000 - k) * 110 + (t - 10000) * 2000
  ELSE IF k = 8400 \/ t <= 50000 THEN (120000 - k) * 115 + (t - 20000) * 2000
  ELSE (300000 - k) * 125 + (t - 50000) * 2000
Due(t, k) == Smaller(Full(t, k), Allowed(t, k))

\* The rounding of the relief may leave half a rupee less than it allows.
LEMMA HighTax ==
  ASSUME NEW t \in Nat, t > 5000, NEW regime \in {"new", "old"}, NEW age \in Age
  PROVE  LET tax == AfterSurcharge(t, regime, age) due == Due(t, Short(regime, age))
         IN tax \in Int /\ due - 1 <= tax /\ tax <= due
<1>. DEFINE k == Short(regime, age)
            n == 6 * t - k
            i == Reached(t, regime)
            threshold == Surcharges(regime)[i][1]
<1>. SUFFICES ASSUME NEW tax, tax = 100 * n, NEW surcharge, surcharge = n * Percent(regime, i),
                     NEW at, at = 6 * threshold - k,
                     NEW allowed, allowed = 100 * at + at * Percent(regime, i - 1) + (t - threshold) * 2000,
                     NEW full, full = tax + surcharge,
                     NEW relief, relief = MarginalRelief(tax, surcharge, t, regime, age)
              PROVE  LET due == Due(t, k) final == AfterSurcharge(t, regime, age)
                     IN final \in Int /\ due - 1 <= final /\ final <= due
  OBVIOUS
<1>. DEFINE excess == full - allowed
<1>1. k \in Nat /\ k <= 8400 /\ (k = 8400 <=> regime = "new")
  BY DEF Short
<1>2. i = IF t <= 10000 THEN 1 ELSE IF t <= 20000 THEN 2 ELSE IF regime = "new" \/ t <= 50000 THEN 3 ELSE 4
  BY ReachedIs
<1>3. /\ threshold = IF i = 1 THEN 5000 ELSE IF i = 2 THEN 10000 ELSE IF i = 3 THEN 20000 ELSE 50000
      /\ Percent(regime, i) = IF i = 1 THEN 10 ELSE IF i = 2 THEN 15 ELSE IF i = 3 THEN 25 ELSE 37
      /\ Percent(regime, i - 1) = IF i = 1 THEN 0 ELSE IF i = 2 THEN 10 ELSE IF i = 3 THEN 15 ELSE 25
  BY <1>2 DEF Surcharges, Percent
<1>4. AfterRebate(FromSlabs(t, Slabs(regime, age)), t, regime) = tax
  <2>1. Left(t, regime, age) = n
    BY LeftAbove
  <2>. QED
    BY <2>1, LeftIs
<1>5. FromSlabs(threshold, Slabs(regime, age)) = 100 * at
  <2>1. threshold \in Nat /\ threshold >= 2400
    BY <1>3
  <2>. QED
    BY <2>1, ByUnits, UnitsAbove
<1>6. tax \div 100 = n /\ (100 * at) \div 100 = at
  BY <1>1, <1>3
<1>7. Surcharge(tax, t, regime) = surcharge
  BY <1>6 DEF Surcharge
<1>8. relief = IF full <= allowed THEN 0 ELSE ((excess + 1) \div 2) * 2
  <2>1. i # 0
    BY <1>2
  <2>. QED
    BY <2>1, <1>5, <1>6 DEF MarginalRelief
<1>9. AfterSurcharge(t, regime, age) = full - relief
  <2>1. AfterSurcharge(t, regime, age) = tax + surcharge - relief
    BY <1>4, <1>7 DEF AfterSurcharge
  <2>2. tax \in Int /\ surcharge \in Int /\ relief \in Int
    BY <1>1, <1>3, <1>8
  <2>. QED
    BY <2>1, <2>2
<1>10. full = Full(t, k) /\ allowed = Allowed(t, k)
  BY <1>1, <1>2, <1>3 DEF Full, Allowed
<1>11. Full(t, k) \in Int /\ Allowed(t, k) \in Int
  BY <1>1 DEF Full, Allowed
<1>12. \A e \in Nat : ((e + 1) \div 2) * 2 \in {e, e + 1}
  OBVIOUS
<1>13. full \in Int /\ allowed \in Int /\ full = Full(t, k) /\ allowed = Allowed(t, k)
  BY <1>10, <1>11
<1>14. Due(t, k) = IF full <= allowed THEN full ELSE allowed
  <2>. HIDE DEF k
  <2>. QED
    BY <1>13 DEF Due, Smaller
<1>15. CASE full <= allowed
  BY <1>13, <1>8, <1>9, <1>14, <1>15
<1>16. CASE full > allowed
  <2>1. relief = ((excess + 1) \div 2) * 2 /\ excess \in Nat
    BY <1>13, <1>8, <1>16
  <2>2. ((excess + 1) \div 2) * 2 \in {excess, excess + 1}
    BY <2>1, <1>12
  <2>3. AfterSurcharge(t, regime, age) \in {allowed, allowed - 1}
    BY <2>1, <2>2, <1>9, <1>13
  <2>. QED
    BY <2>3, <1>13, <1>14, <1>16
<1>. QED
  BY <1>13, <1>15, <1>16

\* Above 50 lakh the tax grows, and never by more than is earned.
LEMMA DueGrows ==
  ASSUME NEW t \in Nat, NEW u \in Nat, t > 5000, t <= u, NEW k \in {3750, 3800, 4000, 8400}
  PROVE  /\ Due(t, k) \in Int /\ Due(u, k) \in Int
         /\ Due(t, k) + (u - t) <= Due(u, k)
         /\ Due(u, k) <= Due(t, k) + 2000 * (u - t)
<1>1. CASE k = 8400
  BY <1>1 DEF Due, Full, Allowed, Smaller
<1>2. CASE k = 3750
  BY <1>2 DEF Due, Full, Allowed, Smaller
<1>3. CASE k = 3800
  BY <1>3 DEF Due, Full, Allowed, Smaller
<1>4. CASE k = 4000
  BY <1>4 DEF Due, Full, Allowed, Smaller
<1>. QED
  BY <1>1, <1>2, <1>3, <1>4

\* Up to 50 lakh there is no surcharge.
LEMMA LowTax ==
  ASSUME NEW t \in Nat, t <= 5000, NEW regime \in {"new", "old"}, NEW age \in Age
  PROVE  AfterSurcharge(t, regime, age) = 100 * Left(t, regime, age)
<1>. DEFINE tax == 100 * Left(t, regime, age)
<1>1. Left(t, regime, age) \in Nat
  BY LeftGrows
<1>2. Reached(t, regime) = 0
  BY ReachedIs
<1>3. Surcharge(tax, t, regime) = 0
  <2>1. Percent(regime, Reached(t, regime)) = 0
    BY <1>2 DEF Percent
  <2>2. tax \div 100 \in Int
    BY <1>1
  <2>. QED
    BY <2>1, <2>2 DEF Surcharge
<1>4. MarginalRelief(tax, 0, t, regime, age) = 0
  BY <1>2 DEF MarginalRelief
<1>5. AfterRebate(FromSlabs(t, Slabs(regime, age)), t, regime) = tax
  BY LeftIs
<1>6. AfterSurcharge(t, regime, age) = tax + 0 - 0
  BY <1>3, <1>4, <1>5 DEF AfterSurcharge
<1>. QED
  BY <1>1, <1>6

\* More taxable income is taxed no less, and by no more than the difference, up to a rupee.
THEOREM MoreTax ==
  ASSUME NEW t \in Nat, NEW u \in Nat, t <= u, NEW regime \in {"new", "old"}, NEW age \in Age
  PROVE  LET before == AfterSurcharge(t, regime, age) after == AfterSurcharge(u, regime, age)
         IN /\ before \in Int /\ after \in Int
            /\ before <= after
            /\ regime = "new" \/ t > 500 => after <= before + 2000 * (u - t) + 2
<1>. DEFINE k == Short(regime, age)
            before == AfterSurcharge(t, regime, age)
            after == AfterSurcharge(u, regime, age)
<1>1. k \in {3750, 3800, 4000, 8400}
  BY DEF Short
<1>. HIDE DEF k
<1>2. t > 5000 => before \in Int /\ Due(t, k) - 1 <= before /\ before <= Due(t, k)
  BY HighTax DEF k
<1>3. u > 5000 => after \in Int /\ Due(u, k) - 1 <= after /\ after <= Due(u, k)
  BY HighTax DEF k
<1>4. t <= 5000 => before = 100 * Left(t, regime, age) /\ Left(t, regime, age) \in Nat
  BY LowTax, LeftGrows
<1>5. u <= 5000 => after = 100 * Left(u, regime, age) /\ Left(u, regime, age) \in Nat
  BY LowTax, LeftGrows
<1>. HIDE DEF before, after
<1>6. CASE u <= 5000
  <2>1. /\ Left(t, regime, age) <= Left(u, regime, age)
        /\ regime = "new" \/ t > 500 => Left(u, regime, age) <= Left(t, regime, age) + 20 * (u - t)
    BY LeftGrows
  <2>. QED
    BY <2>1, <1>4, <1>5, <1>6 DEF before, after
<1>7. CASE t > 5000
  <2>1. t = u => before = after
    BY DEF before, after
  <2>2. /\ Due(t, k) \in Int /\ Due(u, k) \in Int /\ Due(t, k) + (u - t) <= Due(u, k)
        /\ Due(u, k) <= Due(t, k) + 2000 * (u - t)
    BY <1>1, <1>7, DueGrows
  <2>. QED
    BY <2>1, <2>2, <1>2, <1>3, <1>7 DEF before, after
<1>8. CASE t <= 5000 /\ u > 5000
  <2>1. Left(5000, regime, age) = 30000 - k
    BY LeftAbove DEF k
  <2>2. /\ Left(t, regime, age) <= Left(5000, regime, age)
        /\ regime = "new" \/ t > 500 => Left(5000, regime, age) <= Left(t, regime, age) + 20 * (5000 - t)
    BY <1>8, LeftGrows
  <2>3. /\ Due(u, k) \in Int /\ 100 * (30000 - k) + (u - 5000) <= Due(u, k)
        /\ Due(u, k) <= 100 * (30000 - k) + 2000 * (u - 5000)
    <3>1. u > 5000
      BY <1>8
    <3>. QED
      BY <1>1, <3>1 DEF Due, Full, Allowed, Smaller
  <2>. QED
    BY <2>1, <2>2, <2>3, <1>1, <1>3, <1>4, <1>8 DEF before, after
<1>. QED
  BY <1>6, <1>7, <1>8
-----------------------------------------------------------------------------
(* Who earns more *)

Safe == Incomes \subseteq Nat /\ Claimed \subseteq Nat

\* Who earns more has no less that is taxable, whatever is deducted.
LEMMA TaxableGrows ==
  ASSUME Safe, NEW p \in Payer, NEW q \in Payer, q = [p EXCEPT !.income = q.income], p.income <= q.income,
         NEW regime \in {"new", "old"}
  PROVE  Taxable(p, regime) \in Nat /\ Taxable(q, regime) \in Nat /\ Taxable(p, regime) <= Taxable(q, regime)
<1>1. /\ p.income \in Nat /\ q.income \in Nat /\ p.c80 \in Nat /\ p.nps \in Nat /\ p.salaried \in BOOLEAN
      /\ q.c80 = p.c80 /\ q.nps = p.nps /\ q.salaried = p.salaried
  BY DEF Safe, Payer
<1>. QED
  BY <1>1 DEF Taxable, Smaller

\* A step only raises the income.
LEMMA PayerStep ==
  ASSUME Safe, payer \in Payer, [Next]_payer
  PROVE  /\ payer' \in Payer
         /\ payer' # payer => payer' = [payer EXCEPT !.income = payer'.income] /\ payer.income <= payer'.income
<1>1. CASE UNCHANGED payer
  BY <1>1
<1>2. ASSUME NEW more \in Incomes, more > payer.income, payer' = [payer EXCEPT !.income = more]
      PROVE  payer' \in Payer /\ payer'.income = more /\ payer.income <= more
  <2>1. payer.income \in Nat /\ more \in Nat
    BY DEF Payer, Safe
  <2>. QED
    BY <1>2, <2>1 DEF Payer
<1>. QED
  BY <1>1, <1>2 DEF Next, Earn

\* Whoever the payer is, a step to a higher income costs no less and leaves more (MoreIsKept).
THEOREM MoreIsKeptOfAStep ==
  ASSUME Safe, payer \in Payer, [Next]_payer, payer' # payer, NEW regime \in {"new", "old"}
  PROVE  LET before == Taxable(payer, regime) after == Taxable(payer', regime)
             more == AfterSurcharge(after, regime, payer.age) - AfterSurcharge(before, regime, payer.age)
         IN /\ more >= 0
            /\ regime = "new" \/ before > 500 => more <= (after - before) * 2000 + 2
<1>. DEFINE t == Taxable(payer, regime)
            u == Taxable(payer', regime)
<1>1. t \in Nat /\ u \in Nat /\ t <= u /\ payer.age \in Age
  BY PayerStep, TaxableGrows DEF Payer
<1>. HIDE DEF t, u
<1>2. /\ AfterSurcharge(t, regime, payer.age) \in Int /\ AfterSurcharge(u, regime, payer.age) \in Int
      /\ AfterSurcharge(t, regime, payer.age) <= AfterSurcharge(u, regime, payer.age)
      /\ regime = "new" \/ t > 500 =>
           AfterSurcharge(u, regime, payer.age) <= AfterSurcharge(t, regime, payer.age) + 2000 * (u - t) + 2
  BY <1>1, MoreTax
<1>3. /\ AfterSurcharge(u, regime, payer.age) - AfterSurcharge(t, regime, payer.age) >= 0
      /\ regime = "new" \/ t > 500 =>
           AfterSurcharge(u, regime, payer.age) - AfterSurcharge(t, regime, payer.age) <= (u - t) * 2000 + 2
  BY <1>1, <1>2
<1>. QED
  BY <1>3 DEF t, u

-----------------------------------------------------------------------------
(* The deduction at which the old regime is no dearer *)

\* A set of numbers has a least one.
LEMMA LeastExists ==
  ASSUME NEW S, S \subseteq Nat, S # {}
  PROVE  \E x \in S : \A y \in S : x <= y
<1>1. PICK x \in S : \A y \in S : ~ (<<y, x>> \in OpToRel(<, Nat))
  BY NatLessThanWellFounded, WFMin
<1>2. \A y \in S : ~ (y < x)
  BY <1>1 DEF OpToRel
<1>3. ASSUME NEW y \in S PROVE x <= y
  <2>1. x \in Nat /\ y \in Nat /\ ~ (y < x)
    BY <1>2
  <2>. QED
    BY <2>1
<1>. QED
  BY <1>3

\* ... which is what Min returns.
LEMMA MinIs ==
  ASSUME NEW S, S \subseteq Nat, NEW x \in S, \A y \in S : x <= y
  PROVE  Min(S) = x
<1>. DEFINE Least(z) == z \in S /\ \A y \in S : z <= y
<1>1. Least(x) /\ \A z : Least(z) => z = x
  <2>1. ASSUME NEW z, Least(z) PROVE z = x
    <3>1. z \in Nat /\ x \in Nat /\ z <= x /\ x <= z
      BY <2>1
    <3>. QED
      BY <3>1
  <2>. QED
    BY <2>1
<1>2. Min(S) = CHOOSE z : Least(z)
  BY DEF Min
<1>. HIDE DEF Least
<1>. QED
  BY <1>1, <1>2

\* The loop of the search, as an equation of the function it computes.
Searches(search, p, room) ==
  search = [span \in (0 .. room) \X (0 .. room) |->
              LET low == span[1] high == span[2] mid == (low + high) \div 2 IN
              IF low >= high THEN low
              ELSE IF OldIsBetter(p, mid) THEN search[<<low, mid>>]
                   ELSE search[<<mid + 1, high>>]]

\* The same between a and b.
SearchesFrom(f, p, a, b) ==
  f[<<a, b>>] =
    IF a >= b THEN a
    ELSE IF OldIsBetter(p, (a + b) \div 2) THEN f[<<a, (a + b) \div 2>>] ELSE f[<<(a + b) \div 2 + 1, b>>]

\* A function that satisfies the equation satisfies it at every pair of bounds.
LEMMA SearchStep ==
  ASSUME NEW p, NEW room \in Nat, NEW f, Searches(f, p, room), NEW a \in 0 .. room, NEW b \in 0 .. room
  PROVE  SearchesFrom(f, p, a, b)
<1>. DEFINE Spans == (0 .. room) \X (0 .. room)
<1>1. \A span \in Spans : f[span] =
        LET low == span[1] high == span[2] mid == (low + high) \div 2 IN
        IF low >= high THEN low ELSE IF OldIsBetter(p, mid) THEN f[<<low, mid>>] ELSE f[<<mid + 1, high>>]
  BY DEF Searches
<1>2. <<a, b>> \in Spans /\ <<a, b>>[1] = a /\ <<a, b>>[2] = b
  OBVIOUS
<1>. HIDE DEF Spans
<1>. QED
  BY <1>1, <1>2, Zenon DEF SearchesFrom

\* What is found between a and b when m is the least that suffices.
Found(a, b, m) == IF a >= b \/ m <= a THEN a ELSE IF m >= b THEN b ELSE m

FoundFrom(p, m, a, b) ==
  /\ Found(a, b, m) =
       IF a >= b THEN a
       ELSE IF OldIsBetter(p, (a + b) \div 2) THEN Found(a, (a + b) \div 2, m) ELSE Found((a + b) \div 2 + 1, b, m)
  /\ a < b => (a + b) \div 2 \in a .. b - 1

\* Found satisfies the equation of the search.
LEMMA FoundStep ==
  ASSUME NEW p, NEW room \in Nat, NEW m \in 0 .. room, \A d \in 0 .. room : OldIsBetter(p, d) <=> m <= d,
         NEW a \in 0 .. room, NEW b \in 0 .. room
  PROVE  FoundFrom(p, m, a, b)
<1>. DEFINE mid == (a + b) \div 2
<1>1. a < b => mid \in a .. b - 1
  OBVIOUS
<1>2. a < b => mid \in 0 .. room /\ (OldIsBetter(p, mid) <=> m <= mid)
  BY <1>1
<1>. HIDE DEF mid
<1>3. Found(a, b, m) =
        IF a >= b THEN a ELSE IF OldIsBetter(p, mid) THEN Found(a, mid, m) ELSE Found(mid + 1, b, m)
  BY <1>1, <1>2 DEF Found
<1>. QED
  BY <1>1, <1>3 DEF mid, FoundFrom

\* So there is a function that satisfies it,
LEMMA SearchExists ==
  ASSUME NEW p, NEW room \in Nat, NEW m \in 0 .. room, \A d \in 0 .. room : OldIsBetter(p, d) <=> m <= d
  PROVE  \E f : Searches(f, p, room)
<1>. DEFINE Spans == (0 .. room) \X (0 .. room)
            g == [span \in Spans |-> Found(span[1], span[2], m)]
<1>1. \A a, b \in 0 .. room : g[<<a, b>>] = Found(a, b, m)
  OBVIOUS
<1>2. ASSUME NEW span \in Spans
      PROVE  g[span] =
               LET low == span[1] high == span[2] mid == (low + high) \div 2 IN
               IF low >= high THEN low ELSE IF OldIsBetter(p, mid) THEN g[<<low, mid>>] ELSE g[<<mid + 1, high>>]
  <2>1. PICK lo \in 0 .. room, hi \in 0 .. room : span = <<lo, hi>>
    OBVIOUS
  <2>. DEFINE mid == (lo + hi) \div 2
  <2>2. lo < hi => mid \in 0 .. room /\ mid + 1 \in 0 .. room
    OBVIOUS
  <2>3. g[span] = Found(lo, hi, m) /\ span[1] = lo /\ span[2] = hi
    BY <2>1, <1>1
  <2>4. lo < hi => g[<<lo, mid>>] = Found(lo, mid, m) /\ g[<<mid + 1, hi>>] = Found(mid + 1, hi, m)
    BY <1>1, <2>2
  <2>5. Found(lo, hi, m) =
          IF lo >= hi THEN lo ELSE IF OldIsBetter(p, mid) THEN Found(lo, mid, m) ELSE Found(mid + 1, hi, m)
    <3>1. FoundFrom(p, m, lo, hi)
      BY FoundStep
    <3>. QED
      BY <3>1 DEF FoundFrom
  <2>. HIDE DEF g, mid
  <2>6. g[span] = IF lo >= hi THEN lo ELSE IF OldIsBetter(p, mid) THEN g[<<lo, mid>>] ELSE g[<<mid + 1, hi>>]
    BY <2>3, <2>4, <2>5
  <2>. QED
    BY <2>3, <2>6, Zenon DEF mid
<1>3. Searches(g, p, room)
  BY <1>2, Zenon DEF Searches
<1>. QED
  BY <1>3

\* and by induction on the distance of the bounds each one that does is Found.
LEMMA SearchFinds ==
  ASSUME NEW p, NEW room \in Nat, NEW m \in 0 .. room, \A d \in 0 .. room : OldIsBetter(p, d) <=> m <= d,
         NEW f, Searches(f, p, room), NEW a \in 0 .. room, NEW b \in 0 .. room, a <= b
  PROVE  f[<<a, b>>] = Found(a, b, m)
<1>. DEFINE Differ(c, d) == c \in 0 .. room /\ d \in 0 .. room /\ c <= d /\ f[<<c, d>>] # Found(c, d, m)
            S == {n \in Nat : \E c, d \in 0 .. room : n = d - c /\ Differ(c, d)}
<1>. SUFFICES ASSUME S # {} PROVE FALSE
  <2>1. Differ(a, b) => b - a \in S
    OBVIOUS
  <2>. QED
    BY <2>1
<1>1. PICK n \in S : \A k \in S : n <= k
  BY LeastExists
<1>2. PICK c \in 0 .. room, d \in 0 .. room : n = d - c /\ Differ(c, d)
  BY <1>1
<1>3. \A x, y \in 0 .. room : x <= y /\ y - x < n => f[<<x, y>>] = Found(x, y, m)
  <2>. SUFFICES ASSUME NEW x \in 0 .. room, NEW y \in 0 .. room, x <= y, y - x < n, Differ(x, y) PROVE FALSE
    OBVIOUS
  <2>1. y - x \in Nat
    OBVIOUS
  <2>2. y - x \in S
    <3>. HIDE DEF Differ
    <3>. QED
      BY <2>1
  <2>3. n \in Nat /\ n <= y - x
    BY <2>2, <1>1
  <2>. QED
    BY <2>1, <2>3
<1>. DEFINE mid == (c + d) \div 2
<1>4. /\ f[<<c, d>>] = IF c >= d THEN c ELSE IF OldIsBetter(p, mid) THEN f[<<c, mid>>] ELSE f[<<mid + 1, d>>]
      /\ Found(c, d, m) =
           IF c >= d THEN c ELSE IF OldIsBetter(p, mid) THEN Found(c, mid, m) ELSE Found(mid + 1, d, m)
      /\ c < d => mid \in c .. d - 1
  <2>. HIDE DEF S, Differ
  <2>1. SearchesFrom(f, p, c, d)
    BY SearchStep
  <2>2. FoundFrom(p, m, c, d)
    BY FoundStep
  <2>. QED
    BY <2>1, <2>2 DEF SearchesFrom, FoundFrom
<1>5. c < d => f[<<c, mid>>] = Found(c, mid, m) /\ f[<<mid + 1, d>>] = Found(mid + 1, d, m)
  <2>. HIDE DEF mid, Differ
  <2>. QED
    BY <1>2, <1>3, <1>4
<1>. QED
  BY <1>2, <1>4, <1>5

\* The search finds the least deduction that suffices.
THEOREM BisectIs ==
  ASSUME NEW p, NEW room \in Nat, NEW m \in 0 .. room, \A d \in 0 .. room : OldIsBetter(p, d) <=> m <= d
  PROVE  Bisect(p, room) = m
<1>. DEFINE f == CHOOSE g : Searches(g, p, room)
<1>1. Searches(f, p, room)
  BY SearchExists
<1>2. Bisect(p, room) = f[<<0, room>>]
  BY DEF Bisect, Searches
<1>. HIDE DEF f
<1>3. f[<<0, room>>] = Found(0, room, m)
  BY <1>1, SearchFinds
<1>. QED
  BY <1>2, <1>3 DEF Found

\* The cess keeps the order.
LEMMA TaxAmountGrows ==
  ASSUME NEW t \in Nat, NEW u \in Nat, t <= u, NEW regime \in {"new", "old"}, NEW age \in Age
  PROVE  /\ TaxAmount(t, regime, age) \in Int /\ TaxAmount(u, regime, age) \in Int
         /\ TaxAmount(t, regime, age) <= TaxAmount(u, regime, age)
<1>. DEFINE Cess(n) == 13 * (n \div 25) + ((26 * (n % 25) + 25) \div 50)
<1>1. \A n \in Int : n = 25 * (n \div 25) + (n % 25) /\ n \div 25 \in Int /\ n % 25 \in 0 .. 24
  OBVIOUS
<1>2. \A r \in 0 .. 24 : (26 * r + 25) \div 50 \in 0 .. 13
  OBVIOUS
<1>3. \A r, s \in 0 .. 24 : r <= s => (26 * r + 25) \div 50 <= (26 * s + 25) \div 50
  OBVIOUS
<1>4. ASSUME NEW n \in Int, NEW o \in Int, n <= o PROVE Cess(n) \in Int /\ Cess(o) \in Int /\ Cess(n) <= Cess(o)
  <2>. DEFINE q == n \div 25 r == n % 25 v == o \div 25 s == o % 25
              x == (26 * r + 25) \div 50 y == (26 * s + 25) \div 50
  <2>1. /\ n = 25 * q + r /\ q \in Int /\ r \in 0 .. 24
        /\ o = 25 * v + s /\ v \in Int /\ s \in 0 .. 24
    BY <1>1
  <2>. HIDE DEF q, r, v, s
  <2>2. x \in 0 .. 13 /\ y \in 0 .. 13 /\ (r <= s => x <= y)
    BY <2>1, <1>2, <1>3
  <2>. HIDE DEF x, y
  <2>3. q < v \/ (q = v /\ r <= s)
    BY <2>1, <1>4
  <2>4. 13 * q + x <= 13 * v + y
    BY <2>1, <2>2, <2>3
  <2>5. Cess(n) = 13 * q + x /\ Cess(o) = 13 * v + y
    BY DEF x, y, q, r, v, s
  <2>. QED
    BY <2>1, <2>2, <2>4, <2>5
<1>5. /\ TaxAmount(t, regime, age) = Cess(AfterSurcharge(t, regime, age))
      /\ TaxAmount(u, regime, age) = Cess(AfterSurcharge(u, regime, age))
  BY DEF TaxAmount
<1>6. /\ AfterSurcharge(t, regime, age) \in Int /\ AfterSurcharge(u, regime, age) \in Int
      /\ AfterSurcharge(t, regime, age) <= AfterSurcharge(u, regime, age)
  BY MoreTax
<1>. HIDE DEF Cess
<1>. QED
  BY <1>4, <1>5, <1>6

\* What is taxable in the old regime after d more is deducted, within the limits.
Rest(p, d) ==
  LET deducted == (IF p.salaried THEN 50 ELSE 0) + (200 - Room(p)) + d
  IN IF p.income > deducted THEN p.income - deducted ELSE 0

\* 80C is filled first and then 80CCD(1B), each to its limit.
LEMMA RestIs ==
  ASSUME Safe, NEW p \in Payer
  PROVE  /\ Room(p) \in 0 .. 200 /\ p.age \in Age
         /\ Taxable(p, "old") = Rest(p, 0) /\ Taxable(p, "new") \in Nat
         /\ \A d \in 0 .. Room(p) :
              /\ Rest(p, d) \in Nat
              /\ Taxable(WithMore(p, d), "old") = Rest(p, d) /\ WithMore(p, d).age = p.age
         /\ \A d, e \in 0 .. Room(p) : d <= e => Rest(p, e) <= Rest(p, d)
<1>1. /\ p.income \in Nat /\ p.c80 \in Nat /\ p.nps \in Nat /\ p.salaried \in BOOLEAN /\ p.age \in Age
      /\ DOMAIN p = {"income", "salaried", "age", "c80", "nps"}
  BY DEF Safe, Payer
<1>2. Room(p) \in 0 .. 200
  BY <1>1 DEF Room, Smaller
<1>3. Taxable(p, "old") = Rest(p, 0) /\ Taxable(p, "new") \in Nat
  BY <1>1 DEF Taxable, Rest, Room, Smaller
<1>4. ASSUME NEW d \in 0 .. Room(p)
      PROVE  /\ Rest(p, d) \in Nat
             /\ Taxable(WithMore(p, d), "old") = Rest(p, d) /\ WithMore(p, d).age = p.age
  <2>. DEFINE c80 == Smaller(p.c80, 150)
              nps == Smaller(p.nps, 50)
              q == WithMore(p, d)
  <2>1. Rest(p, d) \in Nat
    BY <1>1, <1>2 DEF Rest
  <2>2. /\ q.income = p.income /\ q.salaried = p.salaried /\ q.age = p.age
        /\ q.c80 = c80 + Smaller(150 - c80, d)
        /\ q.nps = nps + Smaller(50 - nps, d - Smaller(150 - c80, d))
    BY <1>1 DEF WithMore
  <2>3. Smaller(q.c80, 150) + Smaller(q.nps, 50) = 200 - Room(p) + d
    BY <1>1, <1>2, <2>2 DEF Room, Smaller
  <2>. HIDE DEF q
  <2>4. Taxable(q, "old") = Rest(p, d)
    BY <1>1, <1>2, <2>2, <2>3 DEF Taxable, Rest
  <2>. QED
    BY <2>1, <2>2, <2>4 DEF q
<1>5. \A d, e \in 0 .. Room(p) : d <= e => Rest(p, e) <= Rest(p, d)
  BY <1>1, <1>2 DEF Rest
<1>. QED
  BY <1>1, <1>2, <1>3, <1>4, <1>5

\* A greater deduction never makes the old regime dearer.
LEMMA BetterGrows ==
  ASSUME Safe, NEW p \in Payer
  PROVE  /\ 0 \in 0 .. Room(p)
         /\ OldIsBetter(p, 0) <=> Tax(p, "old") <= Tax(p, "new")
         /\ \A d, e \in 0 .. Room(p) : d <= e /\ OldIsBetter(p, d) => OldIsBetter(p, e)
<1>1. 0 \in 0 .. Room(p)
  BY RestIs
<1>2. Tax(p, "old") = TaxAmount(Rest(p, 0), "old", p.age)
  BY RestIs DEF Tax
<1>3. \A d \in 0 .. Room(p) : Tax(WithMore(p, d), "old") = TaxAmount(Rest(p, d), "old", p.age)
  BY RestIs DEF Tax
<1>4. Tax(p, "new") \in Int
  BY RestIs, TaxAmountGrows DEF Tax
<1>5. ASSUME NEW d \in 0 .. Room(p), NEW e \in 0 .. Room(p), d <= e, OldIsBetter(p, d) PROVE OldIsBetter(p, e)
  <2>1. Rest(p, e) \in Nat /\ Rest(p, d) \in Nat /\ Rest(p, e) <= Rest(p, d) /\ p.age \in Age
    BY <1>5, RestIs
  <2>2. /\ TaxAmount(Rest(p, e), "old", p.age) \in Int /\ TaxAmount(Rest(p, d), "old", p.age) \in Int
        /\ TaxAmount(Rest(p, e), "old", p.age) <= TaxAmount(Rest(p, d), "old", p.age)
    BY <2>1, TaxAmountGrows
  <2>3. TaxAmount(Rest(p, d), "old", p.age) <= Tax(p, "new")
    BY <1>3, <1>5 DEF OldIsBetter
  <2>4. TaxAmount(Rest(p, e), "old", p.age) <= Tax(p, "new")
    BY <1>4, <2>2, <2>3
  <2>. QED
    BY <1>3, <2>4 DEF OldIsBetter
<1>6. OldIsBetter(p, 0) <=> Tax(p, "old") <= Tax(p, "new")
  BY <1>1, <1>2, <1>3 DEF OldIsBetter
<1>. QED
  BY <1>1, <1>5, <1>6

\* The answer of analyzeTaxOptimization is the least deduction that suffices, whoever the payer is, and
\* none only if none within the limits does.
THEOREM CrossoverFound ==
  ASSUME Safe, payer \in Payer
  PROVE  CrossoverIsLeast
<1>. DEFINE room == Room(payer)
            enough == {d \in 0 .. room : OldIsBetter(payer, d)}
<1>1. room \in Nat /\ room \in 0 .. 200
  BY RestIs
<1>2. /\ 0 \in 0 .. room
      /\ OldIsBetter(payer, 0) <=> Tax(payer, "old") <= Tax(payer, "new")
      /\ \A d, e \in 0 .. room : d <= e /\ OldIsBetter(payer, d) => OldIsBetter(payer, e)
  BY BetterGrows
<1>. SUFFICES Crossover(payer) = IF enough = {} THEN NoCrossover ELSE 200 - room + Min(enough)
  BY DEF CrossoverIsLeast
<1>. HIDE DEF room
<1>3. CASE enough = {}
  <2>1. ~OldIsBetter(payer, 0) /\ ~OldIsBetter(payer, room)
    BY <1>1, <1>3
  <2>. QED
    BY <1>2, <1>3, <2>1 DEF Crossover, room
<1>4. CASE enough # {}
  <2>1. PICK m \in enough : \A d \in enough : m <= d
    <3>1. enough \subseteq Nat
      BY <1>1
    <3>. HIDE DEF enough
    <3>. QED
      BY <1>4, <3>1, LeastExists
  <2>2. Min(enough) = m
    BY <1>1, <2>1, MinIs
  <2>3. m \in 0 .. room /\ \A d \in 0 .. room : OldIsBetter(payer, d) <=> m <= d
    BY <1>1, <1>2, <2>1
  <2>4. CASE m = 0
    <3>1. Tax(payer, "old") <= Tax(payer, "new")
      BY <1>2, <2>3, <2>4
    <3>2. Crossover(payer) = 200 - room
      BY <3>1 DEF Crossover, room
    <3>. QED
      BY <1>1, <1>4, <2>2, <2>4, <3>2
  <2>5. CASE m > 0
    <3>1. ~(Tax(payer, "old") <= Tax(payer, "new"))
      BY <1>2, <2>3, <2>5
    <3>2. room > 0 /\ OldIsBetter(payer, room)
      BY <1>1, <2>3, <2>5
    <3>3. Bisect(payer, room) = m
      BY <1>1, <2>3, BisectIs
    <3>4. Crossover(payer) = 200 - room + m
      BY <3>1, <3>2, <3>3 DEF Crossover, room
    <3>. QED
      BY <1>4, <2>2, <3>4
  <2>. QED
    BY <2>3, <2>4, <2>5
<1>. QED
  BY <1>3, <1>4
=============================================================================
