---------------------------- MODULE IncomeReports ----------------------------
(***************************************************************************)
(* The income a ledger gives rise to, and the year's totals that several   *)
(* routes compute each for itself: dividends and their foreign tax credit  *)
(* (services/tax/dividends.ts, GET /api/tax/dividends, the annual report), *)
(* the discount of shares bought through an employer's plan                *)
(* (services/tax/espp.ts, GET /api/tax/espp), the monthly charts of gains  *)
(* and of dividends (routes/charts.ts) and the summaries that "Run tax     *)
(* engine" returns (services/tax/engine.ts).                               *)
(*                                                                         *)
(* Amounts of dividend tax are hundredths, so that percentages are exact.  *)
(***************************************************************************)
EXTENDS TaxReports

CONSTANTS
  Columns,    \* by id: percent of a dividend withheld, price paid for a plan's share,
              \* amounts of a dividend that were typed in
  PageLimit,  \* the income from which the page takes the higher rate, whatever the year: 50270
  Incomes     \* incomes that are typed in, in hundredths

NotTyped == -1

ASSUME ColumnsAreTyped ==
  Columns \subseteq [Ids -> [withheld : Nat, paid : Nat,
                            gross : Nat \cup {NotTyped}, net : Nat \cup {NotTyped}]]
ASSUME IncomesAreTyped == PageLimit \in Nat /\ Incomes \subseteq Nat

(* The seeded years do not overlap; their allowances and rates are not     *)
(* negative.                                                               *)
ASSUME YearsAreApart ==
  /\ IsFiniteSet(Years)
  /\ \A y \in Years : {y.allowance, y.dividendBasic, y.dividendHigher} \subseteq Nat
  /\ \A x, y \in Years : x # y => x.last < y.first \/ y.last < x.first

InAYear(date) == \E y \in Years : date \in y.first .. y.last

(* A record refers to the row of its year (cgt_disposal.tax_year), so that *)
(* a disposal outside of them all cannot be stored.                        *)
ASSUME DisposalsAreInYears ==
  \A f \in Ledgers : \A t \in Ids : f[t].type \in DisposalTypes => InAYear(f[t].date)

Dated(y) == {t \in Ids : ledger[t].date \in y.first .. y.last}
MonthLength == 30
MonthOf(date) == date \div MonthLength

(* The end of a chart: that of the year, or today.                         *)
ChartTo(y, today) == Smaller(y.last, today)
SumByMonth(date, amount) ==
  [m \in {MonthOf(date[x]) : x \in DOMAIN date} |->
     Total(LAMBDA x : amount[x], {x \in DOMAIN date : MonthOf(date[x]) = m})]

-----------------------------------------------------------------------------
(* Dividends. *)

Dividends(y) == {t \in Dated(y) : ledger[t].type = "DIV_PAY"}

(* An amount that was typed in goes before the one computed from a price.  *)
PaidOut(t, col) ==
  IF col[t].gross # NotTyped THEN col[t].gross ELSE ledger[t].quantity * UnitPrice(t)
Gross(t, col) == 100 * PaidOut(t, col)
WithheldOf(t, col) == PaidOut(t, col) * col[t].withheld

TreatyRate == 15
(* Faulty: a credit is given for more than the tax.                        *)
FaultyRelief(withheld, gross, tax) == Smaller(withheld, (gross \div 100) * TreatyRate)
Relief(withheld, gross, tax) == Smaller(Smaller(withheld, (gross \div 100) * TreatyRate), tax)

(* The page reads whole units of the income (parseInt) and compares them   *)
(* with a constant; the report reads all of it and compares it with the    *)
(* limit of the year.                                                      *)
AboveForPage(income) == income \div 100 > PageLimit
AboveForReport(y, income) == income > 100 * y.basicLimit

DividendRate(y, above) == IF above THEN y.dividendHigher ELSE y.dividendBasic
DividendDue(y, above, gross) ==
  (NotBelowZero(gross - 100 * y.allowance) \div 100) * DividendRate(y, above)

(* computeDividendTax, one payment: the whole allowance is set against     *)
(* each.                                                                   *)
DividendItem(y, col, above, t) ==
  LET due == DividendDue(y, above, Gross(t, col))
      credit == Relief(WithheldOf(t, col), Gross(t, col), due)
  IN  [gross |-> Gross(t, col), withheld |-> WithheldOf(t, col), due |-> due,
       credit |-> credit, left |-> due - credit]

PageDividend(y, col, income, t) == DividendItem(y, col, AboveForPage(income), t)

(* The year on the page: one allowance, and all that was withheld is set   *)
(* against the tax.  The treaty's limit is not applied.                    *)
DividendYear(y, col, income) ==
  LET gross    == Total(LAMBDA t : Gross(t, col), Dividends(y))
      withheld == Total(LAMBDA t : WithheldOf(t, col), Dividends(y))
      due      == DividendDue(y, AboveForPage(income), gross)
      credit   == Smaller(due, withheld)
  IN  [gross |-> gross, withheld |-> withheld, due |-> due,
       credit |-> credit, left |-> due - credit]

(* A row of the annual report.  What it prints as the net amount is the    *)
(* tax that is left.                                                       *)
ReportDividend(y, col, income, t) ==
  LET item == DividendItem(y, col, AboveForReport(y, income), t)
  IN  [gross |-> item.gross, withheld |-> item.withheld, net |-> item.left, credit |-> item.credit]

(* The chart shows what was received: a net amount that was typed in, or   *)
(* the one computed from the price, its fees deducted.                     *)
Received(t, col) ==
  IF col[t].net # NotTyped THEN 100 * col[t].net
  ELSE IF ledger[t].given THEN 100 * (ledger[t].quantity * UnitPrice(t)) - 100 * ledger[t].costs
  ELSE 0
DividendChart(y, col, today) ==
  LET S == {t \in Dividends(y) : ledger[t].date <= ChartTo(y, today)}
  IN  SumByMonth([t \in S |-> ledger[t].date], [t \in S |-> Received(t, col)])

-----------------------------------------------------------------------------
(* Employee share purchase plans: purchases with the price that was paid.  *)

PlanPurchases(y, col) ==
  {t \in Dated(y) : ledger[t].type = "ESPP_PURCHASE" /\ col[t].paid > 0}

(* Faulty: the fees are taken off the income, as well as the gain.         *)
FaultyPlanIncome(t, col) ==
  [income |-> (UnitPrice(t) - col[t].paid) * ledger[t].quantity - ledger[t].costs,
   poolCost |-> UnitPrice(t) * ledger[t].quantity]
PlanIncome(t, col) ==
  [income |-> (UnitPrice(t) - col[t].paid) * ledger[t].quantity,
   poolCost |-> UnitPrice(t) * ledger[t].quantity]

PlanYear(y, col) ==
  [income   |-> Total(LAMBDA t : PlanIncome(t, col).income, PlanPurchases(y, col)),
   poolCost |-> Total(LAMBDA t : PlanIncome(t, col).poolCost, PlanPurchases(y, col))]

-----------------------------------------------------------------------------
(* Gains. *)

GainChart(y, today) ==
  LET S == {s \in Records(y) : ledger[s.txn].date <= ChartTo(y, today)}
  IN  SumByMonth([s \in S |-> ledger[s.txn].date], [s \in S |-> s.gain])

(* Years without a record have no summary.                                 *)
EngineResult ==
  [recorded  |-> Cardinality(disposals),
   summaries |-> [y \in {x \in Years : Records(x) # {}} |-> NetGain(Records(y))]]

-----------------------------------------------------------------------------
(* Properties. *)

ChartTotal(chart) == Total(LAMBDA m : chart[m], DOMAIN chart)

(* The page and the report take the same rate.  dividends.ts:52 means them *)
(* to, by the limit of the year; between the two limits they do not.       *)
SameBand(y, income) == AboveForPage(income) <=> AboveForReport(y, income)

(* Of a payment, by the amounts typed in or by its fees.                   *)
Deducted(t, col) ==
  IF col[t].net # NotTyped THEN Gross(t, col) - 100 * col[t].net
  ELSE IF ledger[t].given THEN 100 * ledger[t].costs ELSE 0
(* A gross amount typed in without its net one leaves the chart to what    *)
(* the price gives.                                                        *)
TypedInPairs(y, col) ==
  \A t \in Dividends(y) : col[t].gross # NotTyped => col[t].net # NotTyped

(* On the page the year's credit is no less than that of its payments; no  *)
(* less either than that of the report's rows, if both take the same rate. *)
(* The report, the page and the chart count the same payments.             *)
DividendsReconcile(y, col, income) ==
  LET year  == DividendYear(y, col, income)
      items == [t \in Dividends(y) |-> PageDividend(y, col, income, t)]
      rows  == [t \in Dividends(y) |-> ReportDividend(y, col, income, t)]
  IN  /\ Total(LAMBDA t : items[t].credit, Dividends(y)) <= year.credit
      /\ SameBand(y, income) => Total(LAMBDA t : rows[t].credit, Dividends(y)) <= year.credit
      /\ Total(LAMBDA t : rows[t].gross, Dividends(y)) = year.gross
      /\ Total(LAMBDA t : rows[t].withheld, Dividends(y)) = year.withheld
      /\ TypedInPairs(y, col) =>
           ChartTotal(DividendChart(y, col, y.last)) =
             year.gross - Total(LAMBDA t : Deducted(t, col), Dividends(y))

(* A holding that was only ever bought through a plan, at a known price    *)
(* and in the years that are reported.                                     *)
PlanHolding(col) ==
  \A t \in Ids :
    ledger[t].type \in {"ESPP_PURCHASE", "SELL", "DIV_PAY"} /\ Priced(t)
      /\ (ledger[t].type = "ESPP_PURCHASE" => col[t].paid > 0 /\ InAYear(ledger[t].date))
OverPlan(col, amount(_, _)) == Total(LAMBDA y : amount(y, col), Years)

(* espp.ts:4-6, "The allowable cost for CGT purposes is the full market    *)
(* value at purchase [...], because the discount has already been charged  *)
(* to income tax": what was received for the shares, less what they cost   *)
(* the employee and what the pool still holds, is taxed once, as income or *)
(* as gain, up to two roundings of each record.  The payments of a year    *)
(* never have more credit than the year they add up to, and the pages that *)
(* show them agree (tax.ts:157-190, import-export.ts:416-435,              *)
(* charts.ts:298-311), except for what SameBand and TypedInPairs leave     *)
(* out.  The engine's summaries, the monthly charts of finished years and  *)
(* the list of disposals add up to the same gains.                         *)
IncomeReconciles ==
  Returned => \A col \in Columns :
    /\ \A y \in Years, income \in Incomes : DividendsReconcile(y, col, income)
    /\ PlanHolding(col) =>
         LET bought == {t \in Ids : ledger[t].type = "ESPP_PURCHASE"}
             spent  == Total(LAMBDA t : col[t].paid * ledger[t].quantity + ledger[t].costs, bought)
             taxed  == Total(LAMBDA s : s.gain, disposals)
                         + OverPlan(col, LAMBDA y, c : PlanYear(y, c).income)
         IN  Near(taxed, Total(LAMBDA s : s.proceeds - s.selling, disposals) - spent + pool.cost,
                  2 * Cardinality(disposals))
    /\ LET engine == EngineResult.summaries
       IN  /\ EngineResult.recorded = Total(LAMBDA y : Cardinality(Records(y)), Years)
           /\ \A y \in DOMAIN engine : ChartTotal(GainChart(y, y.last)) = engine[y]
           /\ ChartTotal(engine) = Total(LAMBDA s : s.gain, disposals)
=============================================================================
