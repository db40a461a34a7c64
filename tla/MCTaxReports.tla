---------------------------- MODULE MCTaxReports ----------------------------
(* The reports on the ledgers of MCShareMatching, with two tax years: one  *)
(* that ends inside the 30-day window of a disposal, one whose rates       *)
(* change.                                                                 *)
EXTENDS MCShareMatching, IncomeReports

Year(first, last, change, limit) ==
  [first |-> first, last |-> last, change |-> change, exempt |-> 20, basicLimit |-> limit,
   basic |-> 18, higher |-> 24, basicPre |-> 10, higherPre |-> 20,
   allowance |-> 100, dividendBasic |-> 8, dividendHigher |-> 33]

(* A holding that is closed in the first year and opened again in the      *)
(* second.                                                                 *)
Reopened ==
  {PricedRows(<<Row("BUY", 0, 3), Row("SELL", 1, 3), Row("BUY", d, 2), Row("SELL", 50, q)>>) :
     d \in {15, 40}, q \in {1, 2}}

(* Shares from an employer's plan, and fewer or more sold than were bought *)
(* before.                                                                 *)
PlanShares ==
  {PricedRows(<<Row("ESPP_PURCHASE", 0, 3), Row("SELL", 5, q), Row("ESPP_PURCHASE", d, 2),
                Row("SELL", 50, 2)>>) : q \in {1, 3}, d \in {5, 20, 40}}

MCReportLedgers == MCLedgers \cup Reopened \cup PlanShares

(* Withheld within the treaty and beyond it; amounts as computed, typed in *)
(* for some payments, in pairs or not.                                     *)
Column(withheld, gross, net) == [withheld |-> withheld, paid |-> 30, gross |-> gross, net |-> net]
MCColumns ==
  {[t \in MCIds |-> Column(w[1 + (t % 2)], NotTyped, NotTyped)] : w \in {<<0, 15>>, <<40, 0>>}}
    \cup {[t \in MCIds |-> IF t % 2 = 0 THEN Column(15, 260, n) ELSE Column(15, NotTyped, NotTyped)] :
            n \in {NotTyped, 240}}

(* The limit of the first year is lower than the one the page goes by.     *)
MCPageLimit == 100
MCYears == {Year(0, 15, 0, 90), Year(16, 60, 31, 100)}

(* Above neither limit, between them, above them by a fraction, above both. *)
MCIncomes == {0, 9500, 10050, 11000}
=============================================================================
