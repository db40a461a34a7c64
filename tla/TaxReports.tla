----------------------------- MODULE TaxReports -----------------------------
(***************************************************************************)
(* What the server reports of a finished matching: the capital gains       *)
(* summary of a tax year (services/tax/cgt_summary.ts), the computations   *)
(* and the pool history of the annual report (export/computation.ts and    *)
(* GET /api/export/report), and the two other replays of the same ledger,  *)
(* the quantity timeline of routes/charts.ts and the rows of               *)
(* export/cgtcalculator.ts.                                                *)
(*                                                                         *)
(* The matcher's run is that of ShareMatching with the list of snapshots   *)
(* it returns; the reports are operators on the state in which it returns. *)
(* Rates are whole percentages.                                            *)
(***************************************************************************)
EXTENDS ShareMatching

CONSTANT
  Years   \* the rows of tax_year_config

(* In every row of the migrations the basic rate is the lower one.         *)
ASSUME YearsAreTyped ==
  \A y \in Years :
    /\ {y.first, y.last, y.change, y.exempt, y.basicLimit} \subseteq Int
    /\ {y.basic, y.higher, y.basicPre, y.higherPre} \subseteq Int
    /\ y.basic <= y.higher

VARIABLE history   \* the pool after each transaction that may change it

reportVars == <<vars, history>>

Snapshot(t) ==
  history' = Append(history, [txn |-> t, quantity |-> pool'.quantity, cost |-> pool'.cost])

HistoryInit == Init /\ history = <<>>

(* A disposal is recorded when its last share is identified.               *)
HistoryNext ==
  \/ MatchSameDay /\ UNCHANGED history
  \/ MatchThirtyDay /\ UNCHANGED history
  \/ MatchPool /\ UNCHANGED history
  \/ RejectDisposal /\ UNCHANGED history
  \/ EndDisposal /\ Snapshot(cur)
  \/ \E t \in Ids :
       \/ TakeDisposal(t) /\ UNCHANGED history
       \/ TakeAcquisition(t) /\ Snapshot(t)
       \/ TakeSplit(t) /\ Snapshot(t)
       \/ TakeUnsplit(t) /\ Snapshot(t)
       \/ TakeCapReturn(t) /\ Snapshot(t)
       \/ TakeRightsIssue(t) /\ Snapshot(t)
       \/ TakeIgnored(t) /\ UNCHANGED history
  \/ Finished /\ UNCHANGED reportVars

HistorySpec == HistoryInit /\ [][HistoryNext]_reportVars /\ WF_vars(Step)

-----------------------------------------------------------------------------
(* The summary of a year. *)

Records(y) == {s \in disposals : ledger[s.txn].date \in y.first .. y.last}

NotBelowZero(n) == IF n < 0 THEN 0 ELSE n
Smaller(m, n) == IF m < n THEN m ELSE n

GainsOf(amounts, S) == Total(LAMBDA x : NotBelowZero(amounts[x]), S)
LossesOf(amounts, S) == Total(LAMBDA x : NotBelowZero(-amounts[x]), S)

(* Faulty: the costs of selling are left off the return.                   *)
FaultyCostsForReturn(S) == Total(LAMBDA s : s.allowable, S)
CostsForReturn(S) == Total(LAMBDA s : s.allowable + s.selling, S)

NetGain(S) ==
  LET gain == [s \in S |-> s.gain] IN GainsOf(gain, S) - LossesOf(gain, S)

TaxableGain(y) == NotBelowZero(NetGain(Records(y)) - y.exempt)

(* Percent of a gain laid over what the income leaves of the basic band.   *)
BandTax(y, income, basic, higher) ==
  LET inBasic == Smaller(TaxableGain(y), NotBelowZero(y.basicLimit - income))
  IN  inBasic * basic + (TaxableGain(y) - inBasic) * higher

(* In a year whose rates change the estimate weighs both sets of rates by  *)
(* the records on either side, whatever their gains are.  The result is    *)
(* times 100 and times the number of records.                              *)
EstimatedTax(y, income) ==
  LET R    == Records(y)
      pre  == {s \in R : ledger[s.txn].date < y.change}
  IN  Cardinality(pre) * BandTax(y, income, y.basicPre, y.higherPre)
        + Cardinality(R \ pre) * BandTax(y, income, y.basic, y.higher)

-----------------------------------------------------------------------------
(* The annual report: one computation per disposing transaction, and the   *)
(* part of the pool's history that is evidence for it.                     *)

Disposers(y) == {s.txn : s \in Records(y)}
Workings(y, d) == {s \in Records(y) : s.txn = d}

Computation(y, d) ==
  [proceeds |-> Total(LAMBDA s : s.proceeds, Workings(y, d)),
   costs    |-> CostsForReturn(Workings(y, d)),
   gain     |-> Total(LAMBDA s : s.gain, Workings(y, d))]

(* The totals under the computations: proceeds, costs, and the net gain on *)
(* the per-disposal basis.                                                 *)
ReportTotals(y) ==
  LET gain == [d \in Disposers(y) |-> Computation(y, d).gain]
  IN  [proceeds |-> Total(LAMBDA d : Computation(y, d).proceeds, Disposers(y)),
       costs    |-> Total(LAMBDA d : Computation(y, d).costs, Disposers(y)),
       net      |-> GainsOf(gain, Disposers(y)) - LossesOf(gain, Disposers(y))]

DateOf(row) == ledger[row.txn].date
Earliest(y) == Min({ledger[d].date : d \in Disposers(y)})

(* The rows of the history, by index, up to the end of the year.           *)
InScope(y) == {i \in DOMAIN history : DateOf(history[i]) <= y.last}

(* Faulty: the row that closes the pool on the disposal's own day opens it.*)
FaultyEmptied(y, rows) ==
  {i \in rows : DateOf(history[i]) <= Earliest(y) /\ history[i].quantity = 0}
(* Rows from before the year's first disposal that left nothing held.      *)
Emptied(y, rows) ==
  {i \in rows : DateOf(history[i]) < Earliest(y) /\ history[i].quantity = 0}

(* From the row that last emptied the pool to the end of the year.         *)
ScopedHistory(y) ==
  LET rows == InScope(y)
  IN  {i \in rows : \A j \in Emptied(y, rows) : j <= i}

(* The pool a disposal was taken from, put together again from the row     *)
(* that records what it left.                                              *)
PoolBefore(s, row) ==
  [quantity |-> row.quantity + s.quantity, cost |-> row.cost + s.allowable]

-----------------------------------------------------------------------------
(* The other replays. *)

ListedBefore(a, b) ==
  ledger[a].date < ledger[b].date \/ (ledger[a].date = ledger[b].date /\ a < b)

(* The timeline's quantity is the fraction num / den; a disposal never     *)
(* takes it below nothing, and a rights issue is not in its list.          *)
(* Faulty: a reverse split is applied as a split.                          *)
FaultyTimelineStep(held, t) ==
  LET row == ledger[t]
  IN  CASE IsAcquisition(t) -> [held EXCEPT !.num = @ + row.quantity * held.den]
        [] IsDisposal(t) -> [held EXCEPT !.num = NotBelowZero(@ - row.quantity * held.den)]
        [] row.type \in {"SPLIT", "UNSPLIT"} /\ row.given ->
             [num |-> held.num * row.num, den |-> held.den * row.den]
        [] OTHER -> held
TimelineStep(held, t) ==
  LET row == ledger[t]
  IN  CASE IsAcquisition(t) -> [held EXCEPT !.num = @ + row.quantity * held.den]
        [] IsDisposal(t) -> [held EXCEPT !.num = NotBelowZero(@ - row.quantity * held.den)]
        [] row.type = "SPLIT" /\ row.given ->
             [num |-> held.num * row.num, den |-> held.den * row.den]
        [] row.type = "UNSPLIT" /\ row.given ->
             [num |-> held.num * row.den, den |-> held.den * row.num]
        [] OTHER -> held

LastListed(S) == CHOOSE t \in S : \A u \in S \ {t} : ListedBefore(u, t)
Timeline[S \in SUBSET Ids] ==
  IF S = {} THEN [num |-> 0, den |-> 1]
  ELSE TimelineStep(Timeline[S \ {LastListed(S)}], LastListed(S))

(* Only priced purchases and sales are exported.                           *)
Bought(t) == IsAcquisition(t) \/ ledger[t].type = "RIGHTS_ISSUE"
Exported == {t \in Ids : (Bought(t) \/ IsDisposal(t)) /\ ledger[t].given}
ExportedShares ==
  Total(LAMBDA t : IF Bought(t) THEN ledger[t].quantity ELSE -ledger[t].quantity, Exported)

-----------------------------------------------------------------------------
(* Properties. *)

Near(m, n, bound) == m - n \in -bound .. bound

(* In a year with one set of rates the estimated liability lies between    *)
(* the tax at the basic and at the higher rate shown beside it.            *)
EstimateWithinBands(y, income) ==
  LET scaled == TaxableGain(y) * Cardinality(Records(y))
  IN  {s \in Records(y) : ledger[s.txn].date < y.change} = {} =>
        /\ scaled * y.basic <= EstimatedTax(y, income)
        /\ EstimatedTax(y, income) <= scaled * y.higher

(* The return's boxes, the totals under the computations and the gain are  *)
(* one calculation: cgt_summary.ts:40 derives the net gain from proceeds   *)
(* and costs, and computation.ts:337 promises that the computations        *)
(* reconcile to the boxes with the same net on both bases.  Proceeds and   *)
(* costs are exact; proceeds less costs is the net gain up to the two      *)
(* roundings of each record.  The estimate of the tax on it stays within   *)
(* the bands.                                                              *)
ReturnReconciles ==
  Returned => \A y \in Years :
    LET R == Records(y)
        totals == ReportTotals(y)
    IN  /\ totals.net = NetGain(R)
        /\ totals.proceeds = Total(LAMBDA s : s.proceeds, R)
        /\ Near(totals.proceeds - totals.costs, NetGain(R), 2 * Cardinality(R))
        /\ \A income \in {0, y.basicLimit - 30, y.basicLimit + 10} : EstimateWithinBands(y, income)

(* The report shows the pool every pool-matched disposal was taken from:   *)
(* the row above the disposal's own is in the scoped history and holds the *)
(* quantity and cost that the working quotes (computation.ts:75-82).       *)
PoolIsEvidenced ==
  Returned => \A y \in Years : \A s \in Records(y) :
    s.matchType = "s104-pool" =>
      \E i \in ScopedHistory(y) :
        LET above == {j \in ScopedHistory(y) : j < i}
            row   == history[Max(above)]
        IN  /\ history[i].txn = s.txn
            /\ above # {}
            /\ PoolBefore(s, history[i]) = [quantity |-> row.quantity, cost |-> row.cost]

Splits == {t \in Ids : ledger[t].type \in {"SPLIT", "UNSPLIT"}}

(* Where every acquisition is priced and a disposal is sold from shares    *)
(* already listed, on a day without a split, ...                           *)
HeldWhenSold ==
  \A d \in Ids : IsDisposal(d) =>
    /\ LET held == Timeline[{t \in Ids : ListedBefore(t, d)}]
       IN  held.num >= ledger[d].quantity * held.den
    /\ \A t \in Splits : ledger[t].date # ledger[d].date

(* (and where no split leaves a fraction of a unit for the matcher to      *)
(* round)                                                                  *)
SplitsComeOutWhole ==
  \A t \in Splits :
    LET held == Timeline[{u \in Ids : u = t \/ ListedBefore(u, t)}]
    IN  held.num % held.den = 0

(* ... all replays of the ledger end with the matcher's pool: the chart's  *)
(* (which leaves rights issues out), to a unit if the matcher rounded at   *)
(* its only split, and, without splits, the shares bought less the shares  *)
(* sold of the cgtcalculator file.                                         *)
ReplaysAgree ==
  Returned /\ AllPriced /\ NoMatchAcrossSplit =>
    /\ HeldWhenSold /\ (\A t \in Ids : ledger[t].type # "RIGHTS_ISSUE") =>
         LET held == Timeline[Ids]
         IN  /\ SplitsComeOutWhole => held.num = pool.quantity * held.den
             /\ Cardinality(Splits) <= 1 => Near(held.num, pool.quantity * held.den, held.den)
    /\ Splits = {} /\ (\A t \in Ids : IsDisposal(t) => ledger[t].given) =>
         ExportedShares = pool.quantity
=============================================================================
