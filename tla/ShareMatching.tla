--------------------------- MODULE ShareMatching ---------------------------
(***************************************************************************)
(* UK share identification for one instrument, as matchDisposals() of      *)
(* services/tax/matching.ts computes it with the Section 104 pool of       *)
(* services/tax/pool.ts.  One action is one iteration of a loop of the     *)
(* code: a transaction taken from the sorted list, or one slice of the     *)
(* disposal being matched.                                                 *)
(*                                                                         *)
(* Quantities and amounts of money are integers: the unit is the eighth    *)
(* decimal that toFixed(8) keeps, and RoundDiv is its rounding.  Dates are *)
(* day numbers.                                                            *)
(***************************************************************************)
EXTENDS Integers, FiniteSets, FiniteSetsExt, SequencesExt

CONSTANTS
  Ids,       \* transaction ids, in the order the rows were entered
  Ledgers    \* the transaction lists to match: a set of functions on Ids

NoTxn == 0   \* ids start at 1

AcquisitionTypes ==
  {"BUY", "RSU_VEST", "ESPP_PURCHASE", "TRANSFER_IN", "DRIP"}
DisposalTypes == {"SELL", "TRANSFER_OUT"}
PoolEventTypes == {"SPLIT", "UNSPLIT", "CAPRETURN", "RIGHTS_ISSUE"}
TxnTypes == AcquisitionTypes \cup DisposalTypes \cup PoolEventTypes \cup {"DIV_PAY"}

(* A row of the ledger.  `given` says whether the column its branch tests  *)
(* is set (unitPriceGbp, splitRatio, capreturnsPerShareGbp); `price` is    *)
(* that unit price or amount per share, `num`/`den` the split ratio.       *)
Txn == [type : TxnTypes, date : Nat, quantity : Nat \ {0}, given : BOOLEAN,
        price : Nat, costs : Nat, num : Nat \ {0}, den : Nat \ {0}]

ASSUME IdsAreNumbers == IsFiniteSet(Ids) /\ Ids \subseteq Nat \ {NoTxn}
ASSUME LedgersAreTyped == Ledgers \subseteq [Ids -> Txn]

VARIABLES
  ledger,     \* the instrument's transactions, by id
  pending,    \* ids the main loop has not reached
  cur,        \* the disposal being matched, or NoTxn
  toMatch,    \* shares of cur still to identify
  remaining,  \* per acquisition, the shares no slice has consumed
  pool,       \* the Section 104 pool
  disposals,  \* the slices recorded
  rejected    \* the matcher threw: nothing of it is persisted

vars == <<ledger, pending, cur, toMatch, remaining, pool, disposals, rejected>>

IsAcquisition(t) == ledger[t].type \in AcquisitionTypes
IsDisposal(t) == ledger[t].type \in DisposalTypes
Acquisitions == {t \in Ids : IsAcquisition(t)}

-----------------------------------------------------------------------------
(* The order of the main loop. *)

(* Faulty: same-day ties broken by id alone.                               *)
FaultyRank(t) == 0
DisposalRank(t) == IF IsDisposal(t) THEN 0 ELSE 1

Precedes(a, b) ==
  \/ ledger[a].date < ledger[b].date
  \/ /\ ledger[a].date = ledger[b].date
     /\ \/ DisposalRank(a) < DisposalRank(b)
        \/ DisposalRank(a) = DisposalRank(b) /\ a < b

IsFirst(t, S) == t \in S /\ \A u \in S \ {t} : Precedes(t, u)

-----------------------------------------------------------------------------
(* Rounding and the pool. *)

(* n / d to the nearest unit, halves away from zero (big.js's default). *)
RoundDiv(n, d) ==
  IF n >= 0 THEN (2 * n + d) \div (2 * d) ELSE -((2 * (-n) + d) \div (2 * d))

EmptyPool == [quantity |-> 0, cost |-> 0]

AddToPool(p, q, c) == [quantity |-> p.quantity + q, cost |-> p.cost + c]

PoolCostOf(p, q) == RoundDiv(p.cost * q, p.quantity)

DisposeFromPool(p, q) ==
  [quantity |-> p.quantity - q,
   cost     |-> IF p.quantity = q THEN 0 ELSE p.cost - PoolCostOf(p, q)]

ApplyStockSplit(p, num, den) ==
  [p EXCEPT !.quantity = RoundDiv(p.quantity * num, den)]

(* Faulty: the cost may fall below nothing.                                *)
FaultyApplyCapReturn(p, perShare) == [p EXCEPT !.cost = @ - p.quantity * perShare]
ApplyCapReturn(p, perShare) ==
  [p EXCEPT !.cost = IF @ < p.quantity * perShare THEN 0 ELSE @ - p.quantity * perShare]

UnitPrice(t) == IF ledger[t].given THEN ledger[t].price ELSE 0

(* The acquisition's price of m shares plus their share of its fees, over  *)
(* the acquisition's quantity (a fraction until it is rounded).            *)
MatchedCostOver(acq, m) ==
  m * (UnitPrice(acq) * ledger[acq].quantity + ledger[acq].costs)

(* Faulty: the purchase price alone, its fees forgotten.                   *)
FaultyAcquisitionCost(acq, m) == m * UnitPrice(acq)
MatchedAcquisitionCost(acq, m) == RoundDiv(MatchedCostOver(acq, m), ledger[acq].quantity)

-----------------------------------------------------------------------------
(* The slices of the disposal being matched. *)

(* Selling costs of m of d's shares, over d's quantity; a disposal without *)
(* proceeds carries none.                                                  *)
ProRataCostsOver(d, m) == IF UnitPrice(d) > 0 THEN m * ledger[d].costs ELSE 0

(* The record of m shares of d identified under a rule; the allowable cost *)
(* is `over` / `parts`.                                                    *)
Slice(d, rule, acq, m, over, parts) ==
  LET proceeds == UnitPrice(d) * m
      q        == ledger[d].quantity
  IN  [txn |-> d, matchType |-> rule, acq |-> acq, quantity |-> m,
       proceeds  |-> proceeds,
       allowable |-> RoundDiv(over, parts),
       selling   |-> RoundDiv(ProRataCostsOver(d, m), q),
       gain      |-> RoundDiv(proceeds * parts * q - over * q - ProRataCostsOver(d, m) * parts,
                              parts * q)]

Available(S) == {a \in S : remaining[a] > 0}

SameDay(d) == {a \in Acquisitions : ledger[a].date = ledger[d].date}

(* Faulty: one day too many.                                               *)
FaultyWindow(d) ==
  {a \in Acquisitions : ledger[d].date < ledger[a].date /\ ledger[a].date <= ledger[d].date + 31}
Within30Days(d) ==
  {a \in Acquisitions : ledger[d].date < ledger[a].date /\ ledger[a].date <= ledger[d].date + 30}

Matching == cur # NoTxn /\ toMatch > 0

(* Record m shares of acq against the current disposal.                    *)
RecordSlice(rule, acq, m) ==
  disposals' = disposals \cup
    {Slice(cur, rule, acq, m, MatchedCostOver(acq, m), ledger[acq].quantity)}

(* Faulty: the acquisition stays as available as it was.                   *)
FaultyMatchFrom(rule, S) ==
  \E acq \in Ids :
    /\ IsFirst(acq, Available(S))
    /\ LET m == IF toMatch < remaining[acq] THEN toMatch ELSE remaining[acq]
       IN  RecordSlice(rule, acq, m) /\ toMatch' = toMatch - m
    /\ UNCHANGED <<ledger, pending, cur, remaining, pool, rejected>>

(* The next slice comes from the first acquisition of S with shares left. *)
MatchFrom(rule, S) ==
  \E acq \in Ids :
    /\ IsFirst(acq, Available(S))
    /\ LET m == IF toMatch < remaining[acq] THEN toMatch ELSE remaining[acq]
       IN  /\ RecordSlice(rule, acq, m)
           /\ remaining' = [remaining EXCEPT ![acq] = @ - m]
           /\ toMatch' = toMatch - m
    /\ UNCHANGED <<ledger, pending, cur, pool, rejected>>

(* 1. The acquisitions of the disposal's own day. *)
MatchSameDay == Matching /\ MatchFrom("same-day", SameDay(cur))

(* 2. Those of the thirty days after it, once its own day is used up. *)
MatchThirtyDay ==
  /\ Matching
  /\ Available(SameDay(cur)) = {}
  /\ MatchFrom("30-day", Within30Days(cur))

(* 3. The pool, once both are used up.                                     *)
TakeFromPool ==
  /\ pool' = DisposeFromPool(pool, toMatch)
  /\ disposals' = disposals \cup
       {Slice(cur, "s104-pool", NoTxn, toMatch, PoolCostOf(pool, toMatch), 1)}
  /\ toMatch' = 0
  /\ UNCHANGED <<ledger, pending, cur, remaining, rejected>>

MatchPool ==
  /\ Matching
  /\ Available(SameDay(cur) \cup Within30Days(cur)) = {}
  /\ pool.quantity >= toMatch
  /\ TakeFromPool

(* A pool that is too small throws.                                        *)
RejectDisposal ==
  /\ Matching
  /\ Available(SameDay(cur) \cup Within30Days(cur)) = {}
  /\ pool.quantity < toMatch
  /\ rejected' = TRUE
  /\ cur' = NoTxn
  /\ UNCHANGED <<ledger, pending, toMatch, remaining, pool, disposals>>

EndDisposal ==
  /\ cur # NoTxn /\ toMatch = 0
  /\ cur' = NoTxn
  /\ UNCHANGED <<ledger, pending, toMatch, remaining, pool, disposals, rejected>>

-----------------------------------------------------------------------------
(* The main loop: the next transaction in order. *)

IsNext(t) == ~rejected /\ cur = NoTxn /\ IsFirst(t, pending)

TakeDisposal(t) ==
  /\ IsNext(t) /\ IsDisposal(t)
  /\ cur' = t
  /\ toMatch' = ledger[t].quantity
  /\ pending' = pending \ {t}
  /\ UNCHANGED <<ledger, remaining, pool, disposals, rejected>>

(* Any other transaction only changes the pool. *)
TakeOther(t, newPool) ==
  /\ IsNext(t)
  /\ pool' = newPool
  /\ pending' = pending \ {t}
  /\ UNCHANGED <<ledger, cur, toMatch, remaining, disposals, rejected>>

(* What no slice has consumed enters the pool, if the price is known. *)
TakeAcquisition(t) ==
  /\ IsAcquisition(t)
  /\ TakeOther(t, IF remaining[t] > 0 /\ ledger[t].given
                  THEN AddToPool(pool, remaining[t], MatchedAcquisitionCost(t, remaining[t]))
                  ELSE pool)

TakeSplit(t) ==
  /\ ledger[t].type = "SPLIT" /\ ledger[t].given
  /\ TakeOther(t, ApplyStockSplit(pool, ledger[t].num, ledger[t].den))

TakeUnsplit(t) ==
  /\ ledger[t].type = "UNSPLIT" /\ ledger[t].given
  /\ TakeOther(t, ApplyStockSplit(pool, ledger[t].den, ledger[t].num))

TakeCapReturn(t) ==
  /\ ledger[t].type = "CAPRETURN" /\ ledger[t].given
  /\ TakeOther(t, ApplyCapReturn(pool, ledger[t].price))

TakeRightsIssue(t) ==
  /\ ledger[t].type = "RIGHTS_ISSUE" /\ ledger[t].given
  /\ TakeOther(t, AddToPool(pool, ledger[t].quantity, ledger[t].price * ledger[t].quantity))

(* A row no branch takes: a dividend, or a pool event without its column.  *)
TakeIgnored(t) ==
  /\ \/ ledger[t].type = "DIV_PAY"
     \/ ledger[t].type \in PoolEventTypes /\ ~ledger[t].given
  /\ TakeOther(t, pool)

Init ==
  /\ ledger \in Ledgers
  /\ pending = Ids
  /\ cur = NoTxn
  /\ toMatch = 0
  /\ remaining = [t \in Ids |-> IF IsAcquisition(t) THEN ledger[t].quantity ELSE 0]
  /\ pool = EmptyPool
  /\ disposals = {}
  /\ rejected = FALSE

Step ==
  \/ MatchSameDay \/ MatchThirtyDay \/ MatchPool \/ RejectDisposal \/ EndDisposal
  \/ \E t \in Ids :
       \/ TakeDisposal(t) \/ TakeAcquisition(t)
       \/ TakeSplit(t) \/ TakeUnsplit(t) \/ TakeCapReturn(t) \/ TakeRightsIssue(t)
       \/ TakeIgnored(t)

Returned == pending = {} /\ cur = NoTxn /\ ~rejected
Finished == Returned \/ rejected

(* matchDisposals returns or throws: the only way the loop stops.          *)
Next == Step \/ (Finished /\ UNCHANGED vars)

Spec == Init /\ [][Next]_vars /\ WF_vars(Step)

-----------------------------------------------------------------------------
(* Properties. *)

MatchTypes == {"same-day", "30-day", "s104-pool"}

SliceType ==
  [txn : Ids, matchType : MatchTypes, acq : Ids \cup {NoTxn}, quantity : Nat \ {0},
   proceeds : Nat, allowable : Nat, selling : Nat, gain : Int]

(* The variables keep their types; in particular no count of shares and    *)
(* neither the pool's quantity nor its cost is ever negative.              *)
TypeOK ==
  /\ ledger \in [Ids -> Txn]
  /\ pending \subseteq Ids
  /\ cur \in Ids \cup {NoTxn}
  /\ toMatch \in Nat
  /\ remaining \in [Ids -> Nat]
  /\ pool \in [quantity : Nat, cost : Nat]
  /\ disposals \subseteq SliceType
  /\ rejected \in BOOLEAN

DaysAfter(a, d) == ledger[a].date - ledger[d].date
UsedUp(a) == remaining[a] = 0

(* DESIGN.md 5.1: every slice obeys the statutory order of identification. *)
(* A 30-day slice comes from the thirty days after its disposal, earliest  *)
(* acquisition first, and only once the acquisitions of the disposal's own *)
(* day are used up; a pool slice only once those of its day and of the     *)
(* thirty days after it are.                                               *)
SameDayOrder(s) == s.matchType = "same-day" => s.acq \in Acquisitions /\ DaysAfter(s.acq, s.txn) = 0

ThirtyDayOrder(s) ==
  s.matchType = "30-day" =>
    /\ s.acq \in Acquisitions
    /\ DaysAfter(s.acq, s.txn) \in 1 .. 30
    /\ \A a \in Acquisitions :
         0 <= DaysAfter(a, s.txn) /\ ledger[a].date < ledger[s.acq].date => UsedUp(a)

PoolOrder(s) ==
  s.matchType = "s104-pool" =>
    \A a \in Acquisitions : DaysAfter(a, s.txn) \in 0 .. 30 => UsedUp(a)

StatutoryOrder == \A s \in disposals : SameDayOrder(s) /\ ThirtyDayOrder(s) /\ PoolOrder(s)

Shares(S) == MapThenSumSet(LAMBDA s : s.quantity, S)
SlicesOf(d) == {s \in disposals : s.txn = d}
SlicesFrom(a) == {s \in disposals : s.acq = a}

(* The slices account for every share exactly once: an acquisition's are   *)
(* what `remaining` says has gone, never more than it bought, and a        *)
(* disposal the loop has left behind is identified to its last share.      *)
EveryShareIdentifiedOnce ==
  /\ \A a \in Acquisitions : Shares(SlicesFrom(a)) + remaining[a] = ledger[a].quantity
  /\ \A d \in Ids \ pending :
       IsDisposal(d) /\ ~rejected =>
         Shares(SlicesOf(d)) = ledger[d].quantity - (IF cur = d THEN toMatch ELSE 0)

(* The shares held after the transactions of S, taken in the order of the  *)
(* loop and each at its face value: nothing is matched with anything.      *)
HeldAfter(held, t) ==
  CASE IsAcquisition(t) \/ ledger[t].type = "RIGHTS_ISSUE" -> held + ledger[t].quantity
    [] IsDisposal(t) -> held - ledger[t].quantity
    [] ledger[t].type = "SPLIT" /\ ledger[t].given ->
         RoundDiv(held * ledger[t].num, ledger[t].den)
    [] ledger[t].type = "UNSPLIT" /\ ledger[t].given ->
         RoundDiv(held * ledger[t].den, ledger[t].num)
    [] OTHER -> held

LastOf(S) == CHOOSE t \in S : \A u \in S \ {t} : Precedes(u, t)
Held[S \in SUBSET Ids] ==
  IF S = {} THEN 0 ELSE HeldAfter(Held[S \ {LastOf(S)}], LastOf(S))

(* A ledger whose acquisitions all have a price.                           *)
Priced(t) == IsAcquisition(t) \/ ledger[t].type = "RIGHTS_ISSUE" => ledger[t].given
AllPriced == \A t \in Ids : Priced(t)

(* A split the loop meets after a disposal and before the acquisition that *)
(* it is matched with.                                                     *)
IsSplit(t) == ledger[t].type \in {"SPLIT", "UNSPLIT"} /\ ledger[t].given
SplitDuring(s) == \E t \in Ids : IsSplit(t) /\ Precedes(s.txn, t) /\ Precedes(t, s.acq)
NoMatchAcrossSplit == \A s \in disposals : s.acq # NoTxn => ~SplitDuring(s)

(* What the matcher returns as the pool is the holding: shares identified  *)
(* on the same day or under the 30-day rule leave through their own        *)
(* acquisition and never linger in the pool, nor leave it twice.           *)
PoolIsHolding ==
  Returned /\ AllPriced /\ NoMatchAcrossSplit => pool.quantity = Held[Ids]

Total(Op(_), S) == MapThenSumSet(Op, S)

(* The lifetime gain up to rounding, for ledgers whose money the matcher   *)
(* sees whole: prices known, no return of capital, no fees on a rights     *)
(* issue or on a disposal without proceeds.                                *)
FullyCosted ==
  \A t \in Ids :
    /\ Priced(t)
    /\ ledger[t].type # "CAPRETURN"
    /\ ledger[t].type = "RIGHTS_ISSUE" => ledger[t].costs = 0
    /\ IsDisposal(t) /\ UnitPrice(t) = 0 => ledger[t].costs = 0

CostPaid(t) == IF IsAcquisition(t) \/ ledger[t].type = "RIGHTS_ISSUE"
               THEN UnitPrice(t) * ledger[t].quantity + ledger[t].costs ELSE 0
NetProceeds(t) == IF IsDisposal(t) THEN UnitPrice(t) * ledger[t].quantity - ledger[t].costs ELSE 0

Profit == Total(NetProceeds, Ids) - (Total(CostPaid, Ids) - pool.cost)
GainsRecorded == Total(LAMBDA s : s.gain, disposals)

(* DESIGN.md 5.1: the gains over the life of the holding are its economic  *)
(* profit, total proceeds less total cost paid (of the shares no longer in *)
(* the pool), up to one rounding unit per slice and per acquisition.       *)
LifetimeGainIsProfit ==
  Returned /\ FullyCosted =>
    LET bound == Cardinality(disposals) + Cardinality(Ids)
    IN  GainsRecorded - Profit \in -bound .. bound

(* DESIGN.md 5.1, again: over a whole life, with nothing held any more,    *)
(* the gains are total proceeds less total cost paid.                      *)
WholeLifeGainIsProfit ==
  Returned /\ FullyCosted /\ Held[Ids] = 0 =>
    LET bound == Cardinality(disposals) + Cardinality(Ids)
    IN  GainsRecorded - (Total(NetProceeds, Ids) - Total(CostPaid, Ids)) \in -bound .. bound

(* matching.ts:5 and DESIGN.md 5.1: a disposal is matched against the      *)
(* acquisitions of its own day first, so an acquisition that satisfies an  *)
(* earlier disposal under the 30-day rule has no disposal of its own day   *)
(* left looking elsewhere.                                                 *)
SameDayFirst ==
  \A s, u \in disposals :
    s.matchType = "30-day" /\ DaysAfter(s.acq, u.txn) = 0 => u.matchType = "same-day"
=============================================================================
