---------------------------- MODULE MCServices ----------------------------
(* The incomes for model checking: around the thresholds of either regime, *)
(* and coarser ones between them.                                          *)
EXTENDS Services

IncomeSet ==
  {0} \cup {200 * i : i \in 1 .. 14}
    \cup {t + d : t \in {1200, 5000, 10000, 20000, 50000}, d \in {0, 1, 50, 51, 75, 76, 150, 250, 300, 600, 1500}}
=============================================================================
