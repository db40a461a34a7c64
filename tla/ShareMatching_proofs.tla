----------------------- MODULE ShareMatching_proofs -----------------------
(***************************************************************************)
(* Proofs about ShareMatching, and about what TaxReports and IncomeReports *)
(* make of its result, for every set of ids, every ledger and every table  *)
(* of years.                                                               *)
(*                                                                         *)
(* 1. The variables keep their types: no share count, and neither the      *)
(*    quantity nor the cost of the pool, ever goes below zero.  The slices *)
(*    obey the statutory order: the order of a new slice follows from the  *)
(*    guards of the rule that records it, that of an old one from          *)
(*    `remaining` never growing.                                           *)
(* 2. Sums over finite sets, by a smallest counterexample.                 *)
(* 3. SInv: what a transaction has left and what its slices took are       *)
(*    together what was bought or sold.                                    *)
(* 4. PInv: the pool is the holding, as far as the replay has come.        *)
(* 5. GInv: the gain recorded so far and the cost still to be allowed are  *)
(*    the profit, to within one half per rounding.                         *)
(* 6. The run with the history is a run of the matcher.  EInv: its rows    *)
(*    are in order, and the last one is the pool until the disposal in     *)
(*    hand takes from it, so that the report shows what every pool slice   *)
(*    was taken from.                                                      *)
(* 7. FInv: the amounts of a slice agree to within a unit.  The sums over  *)
(*    the report's computations are those over the year's records.         *)
(* 8. The income reports add the same amounts up by month, by year and by  *)
(*    plan.  CInv: the fees paid are in the pool, in what the slices       *)
(*    allowed, or with the acquisitions still to take.                     *)
(* 9. The replays: the chart's timeline follows the holding through every  *)
(*    first part of its list, which is not in the order of the main loop.  *)
(***************************************************************************)
EXTENDS IncomeReports, FiniteSetTheorems, WellFoundedInduction, TLAPS

(* Rounding a fraction of natural numbers gives a natural number. *)
LEMMA RoundDivNat ==
  ASSUME NEW n \in Nat, NEW d \in Nat \ {0}
  PROVE  RoundDiv(n, d) \in Nat
<1>1. 2 * n + d \in Nat /\ 2 * d \in Nat \ {0}
  OBVIOUS
<1>2. (2 * n + d) \div (2 * d) \in Nat
  BY <1>1
<1> QED BY <1>2 DEF RoundDiv

(* Rounding any fraction gives an integer. *)
LEMMA RoundDivInt ==
  ASSUME NEW n \in Int, NEW d \in Nat \ {0}
  PROVE  RoundDiv(n, d) \in Int
<1>1. 2 * n + d \in Int /\ 2 * (-n) + d \in Int /\ 2 * d \in Nat \ {0}
  OBVIOUS
<1>2. (2 * n + d) \div (2 * d) \in Int /\ (2 * (-n) + d) \div (2 * d) \in Int
  BY <1>1
<1> QED BY <1>2 DEF RoundDiv

(* A fraction that is at most a whole number rounds to at most it. *)
LEMMA RoundDivBound ==
  ASSUME NEW n \in Nat, NEW d \in Nat \ {0}, NEW c \in Nat, n <= c * d
  PROVE  RoundDiv(n, d) <= c
<1> DEFINE m == 2 * n + d
           e == 2 * d
           q == m \div e
<1>1. m \in Nat /\ e \in Nat \ {0}
  OBVIOUS
<1>2. q \in Nat /\ e * q <= m
  BY <1>1
<1>3. m < e * (c + 1)
  OBVIOUS
<1>4. q < c + 1
  <2> SUFFICES ASSUME c + 1 <= q PROVE FALSE
    BY <1>2
  <2>1. e * (c + 1) <= e * q
    BY <1>1, <1>2
  <2> QED BY <2>1, <1>1, <1>2, <1>3
<1> QED BY <1>2, <1>4 DEF RoundDiv

(* What a disposal takes out of the pool is at most what the pool holds. *)
LEMMA PoolCostBound ==
  ASSUME NEW p \in [quantity : Nat, cost : Nat], NEW q \in Nat,
         0 < q, q <= p.quantity
  PROVE  PoolCostOf(p, q) \in 0 .. p.cost
<1>1. p.quantity \in Nat \ {0} /\ p.cost \in Nat /\ p.cost * q \in Nat
  OBVIOUS
<1>2. p.cost * q <= p.cost * p.quantity
  BY <1>1
<1>3. RoundDiv(p.cost * q, p.quantity) \in Nat
  BY <1>1, RoundDivNat
<1>4. RoundDiv(p.cost * q, p.quantity) <= p.cost
  BY <1>1, <1>2, RoundDivBound
<1> QED BY <1>3, <1>4, <1>1 DEF PoolCostOf
-----------------------------------------------------------------------------
(* The slice of m shares of a disposal has its type, whatever rule and     *)
(* cost it is recorded with.                                               *)
LEMMA SliceTyped ==
  ASSUME TypeOK, NEW d \in Ids, NEW rule \in MatchTypes, NEW acq \in Ids \cup {NoTxn},
         NEW m \in Nat \ {0}, NEW over \in Nat, NEW parts \in Nat \ {0}
  PROVE  /\ Slice(d, rule, acq, m, over, parts) \in SliceType
         /\ Slice(d, rule, acq, m, over, parts).txn = d
         /\ Slice(d, rule, acq, m, over, parts).matchType = rule
         /\ Slice(d, rule, acq, m, over, parts).acq = acq
         /\ Slice(d, rule, acq, m, over, parts).quantity = m
<1> DEFINE q == ledger[d].quantity
           sell == ProRataCostsOver(d, m)
           net == UnitPrice(d) * m * parts * q - over * q - sell * parts
<1>1. ledger[d] \in Txn
  BY DEF TypeOK
<1>2. q \in Nat \ {0} /\ UnitPrice(d) \in Nat /\ sell \in Nat
  BY <1>1 DEF Txn, UnitPrice, ProRataCostsOver
<1>3. UnitPrice(d) * m \in Nat /\ parts * q \in Nat \ {0} /\ net \in Int
  BY <1>2
<1>4. /\ RoundDiv(over, parts) \in Nat
      /\ RoundDiv(sell, q) \in Nat
  BY <1>2, RoundDivNat
<1>5. RoundDiv(net, parts * q) \in Int
  BY <1>3, RoundDivInt
<1> QED BY <1>2, <1>3, <1>4, <1>5 DEF Slice, SliceType

(* The cost of m shares of an acquisition, over its quantity.              *)
LEMMA MatchedCostTyped ==
  ASSUME TypeOK, NEW a \in Ids, NEW m \in Nat
  PROVE  /\ MatchedCostOver(a, m) \in Nat
         /\ ledger[a].quantity \in Nat \ {0}
         /\ MatchedAcquisitionCost(a, m) \in Nat
<1>1. ledger[a] \in Txn
  BY DEF TypeOK
<1>2. ledger[a].quantity \in Nat \ {0} /\ ledger[a].costs \in Nat /\ UnitPrice(a) \in Nat
  BY <1>1 DEF Txn, UnitPrice
<1>3. MatchedCostOver(a, m) \in Nat
  BY <1>2 DEF MatchedCostOver
<1> QED BY <1>2, <1>3, RoundDivNat DEF MatchedAcquisitionCost
-----------------------------------------------------------------------------
(* A slice in order stays in order while the ledger is the same and no     *)
(* used-up acquisition gets shares back.                                   *)
InOrder(s) == SameDayOrder(s) /\ ThirtyDayOrder(s) /\ PoolOrder(s)
LedgerKept == ledger' = ledger /\ \A a \in Ids : remaining[a] = 0 => remaining'[a] = 0

LEMMA OrderKept ==
  ASSUME LedgerKept, NEW s, InOrder(s)
  PROVE  InOrder(s)'
BY DEF LedgerKept, InOrder, SameDayOrder, ThirtyDayOrder, PoolOrder, DaysAfter, UsedUp,
       Acquisitions, IsAcquisition

(* A step that records no slice keeps the order.                           *)
LEMMA NoNewSlice ==
  ASSUME StatutoryOrder, LedgerKept, disposals' = disposals
  PROVE  StatutoryOrder'
BY OrderKept DEF StatutoryOrder, InOrder

(* A step that records one slice, itself in order, keeps the order.        *)
LEMMA OneNewSlice ==
  ASSUME StatutoryOrder, LedgerKept, NEW new, InOrder(new)',
         disposals' = disposals \cup {new}
  PROVE  StatutoryOrder'
BY OrderKept DEF StatutoryOrder, InOrder

(* The first available acquisition of a set: no earlier one has shares.    *)
LEMMA FirstIsEarliest ==
  ASSUME TypeOK, NEW S \in SUBSET Ids, NEW acq \in Ids, IsFirst(acq, Available(S))
  PROVE  /\ acq \in S
         /\ remaining[acq] \in Nat \ {0}
         /\ \A a \in S : ledger[a].date < ledger[acq].date => remaining[a] = 0
<1>1. acq \in Available(S)
  BY DEF IsFirst
<1>2. acq \in S /\ remaining[acq] \in Nat \ {0}
  BY <1>1 DEF Available, TypeOK
<1>3. ASSUME NEW a \in S, ledger[a].date < ledger[acq].date
      PROVE  remaining[a] = 0
  <2>1. ledger[a].date \in Nat /\ ledger[acq].date \in Nat /\ remaining[a] \in Nat
    BY DEF TypeOK, Txn
  <2>2. ~ Precedes(acq, a)
    BY <1>3, <2>1 DEF Precedes
  <2>3. a \notin Available(S)
    BY <1>3, <2>1, <2>2 DEF IsFirst
  <2> QED BY <2>1, <2>3 DEF Available
<1> QED BY <1>2, <1>3

(* A slice of a single acquisition keeps the types and, if it is in order  *)
(* itself, the order.                                                      *)
LEMMA MatchFromKeeps ==
  ASSUME TypeOK, StatutoryOrder, Matching,
         NEW rule \in MatchTypes, NEW S \in SUBSET Ids, MatchFrom(rule, S),
         \A acq \in Ids, s \in SliceType :
           /\ LedgerKept /\ IsFirst(acq, Available(S))
           /\ s.txn = cur /\ s.matchType = rule /\ s.acq = acq
           => InOrder(s)'
  PROVE  TypeOK' /\ StatutoryOrder'
<1>1. PICK acq \in Ids :
        /\ IsFirst(acq, Available(S))
        /\ LET m == IF toMatch < remaining[acq] THEN toMatch ELSE remaining[acq]
           IN  /\ RecordSlice(rule, acq, m)
               /\ remaining' = [remaining EXCEPT ![acq] = @ - m]
               /\ toMatch' = toMatch - m
        /\ UNCHANGED <<ledger, pending, cur, pool, rejected>>
  BY DEF MatchFrom
<1> DEFINE m == IF toMatch < remaining[acq] THEN toMatch ELSE remaining[acq]
           new == Slice(cur, rule, acq, m, MatchedCostOver(acq, m), ledger[acq].quantity)
<1>2. remaining[acq] \in Nat \ {0}
  BY <1>1, FirstIsEarliest
<1>3. cur \in Ids /\ toMatch \in Nat \ {0}
  BY DEF Matching, TypeOK
<1>4. m \in Nat \ {0} /\ m <= toMatch /\ m <= remaining[acq]
  BY <1>2, <1>3
<1>5. MatchedCostOver(acq, m) \in Nat /\ ledger[acq].quantity \in Nat \ {0}
  BY <1>4, MatchedCostTyped
<1>6. PICK slice \in SliceType :
        slice = new /\ slice.txn = cur /\ slice.matchType = rule /\ slice.acq = acq
  <2> HIDE DEF m
  <2>1. new \in SliceType /\ new.txn = cur /\ new.matchType = rule /\ new.acq = acq
    BY <1>3, <1>4, <1>5, SliceTyped
  <2> HIDE DEF new
  <2> QED BY <2>1
<1> HIDE DEF new
<1>7. disposals' = disposals \cup {slice}
  <2>1. disposals' = disposals \cup {new}
    BY <1>1 DEF RecordSlice, new
  <2> QED BY <1>6, <2>1
<1>8. remaining' \in [Ids -> Nat] /\ toMatch' \in Nat
  BY <1>1, <1>3, <1>4 DEF TypeOK
<1>9. LedgerKept
  BY <1>1, <1>2 DEF LedgerKept, TypeOK
<1>10. TypeOK'
  BY <1>1, <1>7, <1>8 DEF TypeOK
<1>11. InOrder(slice)'
  BY <1>1, <1>6, <1>9
<1>12. StatutoryOrder'
  BY <1>7, <1>9, <1>11, OneNewSlice
<1> QED BY <1>10, <1>12
-----------------------------------------------------------------------------
(* The inductive invariant. *)
IInv == TypeOK /\ StatutoryOrder

LEMMA InitIInv == Init => IInv
<1> SUFFICES ASSUME Init PROVE IInv
  OBVIOUS
<1>1. ledger \in [Ids -> Txn]
  BY LedgersAreTyped DEF Init
<1>2. \A t \in Ids : ledger[t].quantity \in Nat
  BY <1>1 DEF Txn
<1>3. remaining \in [Ids -> Nat]
  BY <1>2 DEF Init
<1>4. TypeOK
  BY <1>1, <1>3 DEF Init, TypeOK, EmptyPool
<1> QED BY <1>4 DEF Init, IInv, StatutoryOrder

LEMMA MatchSameDayKeeps == IInv /\ MatchSameDay => IInv'
<1> SUFFICES ASSUME IInv, MatchSameDay PROVE IInv'
  OBVIOUS
<1>1. SameDay(cur) \in SUBSET Ids /\ "same-day" \in MatchTypes
  BY DEF SameDay, Acquisitions, MatchTypes
<1>2. ASSUME NEW acq \in Ids, NEW s \in SliceType, LedgerKept,
             IsFirst(acq, Available(SameDay(cur))),
             s.txn = cur, s.matchType = "same-day", s.acq = acq
      PROVE  InOrder(s)'
  <2>1. acq \in SameDay(cur)
    BY <1>1, <1>2, FirstIsEarliest DEF IInv
  <2>2. acq \in Acquisitions /\ ledger[acq].date = ledger[cur].date /\ ledger[acq].date \in Nat
    BY <2>1 DEF SameDay, IInv, TypeOK, Txn
  <2> QED BY <1>2, <2>2 DEF LedgerKept, InOrder, SameDayOrder, ThirtyDayOrder, PoolOrder,
            DaysAfter, Acquisitions, IsAcquisition
<1> QED BY <1>1, <1>2, MatchFromKeeps DEF MatchSameDay, IInv

LEMMA MatchThirtyDayKeeps == IInv /\ MatchThirtyDay => IInv'
<1> SUFFICES ASSUME IInv, MatchThirtyDay PROVE IInv'
  OBVIOUS
<1> DEFINE W == Within30Days(cur)
<1>1. W \in SUBSET Ids /\ "30-day" \in MatchTypes /\ cur \in Ids
  BY DEF Within30Days, Acquisitions, MatchTypes, MatchThirtyDay, Matching, IInv, TypeOK
<1>2. \A t \in Ids : ledger[t].date \in Nat /\ remaining[t] \in Nat
  BY DEF IInv, TypeOK, Txn
<1>3. \A a \in SameDay(cur) : remaining[a] = 0
  BY <1>2 DEF MatchThirtyDay, Available, SameDay, Acquisitions
<1>4. ASSUME NEW acq \in Ids, NEW s \in SliceType, LedgerKept, IsFirst(acq, Available(W)),
             s.txn = cur, s.matchType = "30-day", s.acq = acq
      PROVE  InOrder(s)'
  <2>1. acq \in W /\ \A a \in W : ledger[a].date < ledger[acq].date => remaining[a] = 0
    BY <1>1, <1>4, FirstIsEarliest DEF IInv
  <2>2. /\ acq \in Acquisitions
        /\ ledger[cur].date < ledger[acq].date
        /\ ledger[acq].date <= ledger[cur].date + 30
    BY <2>1 DEF Within30Days
  <2>3. ASSUME NEW a \in Acquisitions,
               0 <= DaysAfter(a, cur), ledger[a].date < ledger[acq].date
        PROVE  remaining[a] = 0
    <3>1. a \in Ids
      BY DEF Acquisitions
    <3>2. a \in SameDay(cur) \/ a \in W
      BY <1>1, <1>2, <2>2, <2>3, <3>1 DEF DaysAfter, SameDay, Within30Days
    <3> QED BY <1>3, <2>1, <2>3, <3>2
  <2>4. DaysAfter(acq, cur) \in 1 .. 30
    BY <1>1, <1>2, <2>2 DEF DaysAfter
  <2> QED BY <1>4, <2>2, <2>3, <2>4 DEF LedgerKept, InOrder, SameDayOrder, ThirtyDayOrder,
            PoolOrder, DaysAfter, UsedUp, Acquisitions, IsAcquisition
<1> QED BY <1>1, <1>4, MatchFromKeeps DEF MatchThirtyDay, IInv

LEMMA MatchPoolKeeps == IInv /\ MatchPool => IInv'
<1> SUFFICES ASSUME IInv, MatchPool PROVE IInv'
  OBVIOUS
<1>1. /\ cur \in Ids /\ toMatch \in Nat \ {0} /\ pool \in [quantity : Nat, cost : Nat]
      /\ toMatch <= pool.quantity
      /\ "s104-pool" \in MatchTypes
  BY DEF MatchPool, Matching, IInv, TypeOK, MatchTypes
<1>2. PoolCostOf(pool, toMatch) \in 0 .. pool.cost
  BY <1>1, PoolCostBound
<1>3. pool' \in [quantity : Nat, cost : Nat]
  BY <1>1, <1>2 DEF MatchPool, TakeFromPool, DisposeFromPool
<1> DEFINE cost == PoolCostOf(pool, toMatch)
           new == Slice(cur, "s104-pool", NoTxn, toMatch, cost, 1)
<1>4. PICK slice \in SliceType : slice = new /\ slice.txn = cur /\ slice.matchType = "s104-pool"
  <2> DEFINE one  == 1
             rule == "s104-pool"
  <2>1. /\ cur \in Ids /\ rule \in MatchTypes /\ NoTxn \in Ids \cup {NoTxn}
        /\ toMatch \in Nat \ {0} /\ cost \in Nat /\ one \in Nat \ {0} /\ TypeOK
    BY <1>1, <1>2 DEF IInv
  <2> HIDE DEF cost, one, rule, new
  <2>2. /\ Slice(cur, rule, NoTxn, toMatch, cost, one) \in SliceType
        /\ Slice(cur, rule, NoTxn, toMatch, cost, one).txn = cur
        /\ Slice(cur, rule, NoTxn, toMatch, cost, one).matchType = rule
    BY <2>1, SliceTyped, Z3T(30)
  <2> USE DEF new, cost
  <2> QED BY <2>2 DEF one, rule
<1>5. disposals' = disposals \cup {slice}
  BY <1>4 DEF MatchPool, TakeFromPool
<1>6. LedgerKept
  BY DEF MatchPool, TakeFromPool, LedgerKept
<1>7. \A t \in Ids : ledger[t].date \in Nat /\ remaining[t] \in Nat
  BY DEF IInv, TypeOK, Txn
<1>8. ASSUME NEW a \in Acquisitions, DaysAfter(a, cur) \in 0 .. 30
      PROVE  remaining[a] = 0
  <2>1. a \in Ids
    BY DEF Acquisitions
  <2>2. a \in SameDay(cur) \cup Within30Days(cur)
    BY <1>1, <1>7, <1>8, <2>1 DEF DaysAfter, SameDay, Within30Days
  <2> QED BY <1>7, <2>1, <2>2 DEF MatchPool, Available
<1>9. InOrder(slice)'
  BY <1>4, <1>6, <1>8 DEF MatchPool, TakeFromPool, LedgerKept, InOrder, SameDayOrder, ThirtyDayOrder, PoolOrder,
     DaysAfter, UsedUp, Acquisitions, IsAcquisition
<1>10. StatutoryOrder'
  BY <1>5, <1>6, <1>9, OneNewSlice DEF IInv
<1>11. TypeOK'
  BY <1>3, <1>5 DEF MatchPool, TakeFromPool, IInv, TypeOK
<1> QED BY <1>10, <1>11 DEF IInv

(* A step of the main loop that only changes the pool.                     *)
LEMMA TakeOtherKeeps ==
  ASSUME IInv, NEW t \in Ids, NEW newPool \in [quantity : Nat, cost : Nat], TakeOther(t, newPool)
  PROVE  IInv'
<1>1. LedgerKept /\ disposals' = disposals
  BY DEF TakeOther, LedgerKept
<1>2. StatutoryOrder'
  BY <1>1, NoNewSlice DEF IInv
<1>3. TypeOK'
  BY DEF TakeOther, IInv, TypeOK
<1> QED BY <1>2, <1>3 DEF IInv

LEMMA PoolEventsKeep ==
  ASSUME IInv, NEW t \in Ids,
         \/ TakeAcquisition(t) \/ TakeSplit(t) \/ TakeUnsplit(t)
         \/ TakeCapReturn(t) \/ TakeRightsIssue(t) \/ TakeIgnored(t)
  PROVE  IInv'
<1> DEFINE Pool == [quantity : Nat, cost : Nat]
<1>1. /\ pool \in Pool /\ pool.quantity \in Nat /\ pool.cost \in Nat
      /\ ledger[t] \in Txn /\ remaining[t] \in Nat
  BY DEF IInv, TypeOK
<1>2. /\ ledger[t].quantity \in Nat /\ ledger[t].price \in Nat
      /\ ledger[t].num \in Nat \ {0} /\ ledger[t].den \in Nat \ {0}
  BY <1>1 DEF Txn
<1>3. CASE TakeAcquisition(t)
  <2>1. MatchedAcquisitionCost(t, remaining[t]) \in Nat
    BY <1>1, MatchedCostTyped DEF IInv
  <2>2. AddToPool(pool, remaining[t], MatchedAcquisitionCost(t, remaining[t])) \in Pool
    BY <1>1, <2>1 DEF AddToPool
  <2> QED BY <1>1, <1>3, <2>2, TakeOtherKeeps DEF TakeAcquisition
<1>4. CASE TakeSplit(t)
  <2>1. RoundDiv(pool.quantity * ledger[t].num, ledger[t].den) \in Nat
    BY <1>1, <1>2, RoundDivNat
  <2>2. ApplyStockSplit(pool, ledger[t].num, ledger[t].den) \in Pool
    BY <1>1, <2>1 DEF ApplyStockSplit
  <2> QED BY <1>4, <2>2, TakeOtherKeeps DEF TakeSplit
<1>5. CASE TakeUnsplit(t)
  <2>1. RoundDiv(pool.quantity * ledger[t].den, ledger[t].num) \in Nat
    BY <1>1, <1>2, RoundDivNat
  <2>2. ApplyStockSplit(pool, ledger[t].den, ledger[t].num) \in Pool
    BY <1>1, <2>1 DEF ApplyStockSplit
  <2> QED BY <1>5, <2>2, TakeOtherKeeps DEF TakeUnsplit
<1>6. CASE TakeCapReturn(t)
  <2>1. pool.quantity * ledger[t].price \in Nat
    BY <1>1, <1>2
  <2>2. ApplyCapReturn(pool, ledger[t].price) \in Pool
    BY <1>1, <2>1 DEF ApplyCapReturn
  <2> QED BY <1>6, <2>2, TakeOtherKeeps DEF TakeCapReturn
<1>7. CASE TakeRightsIssue(t)
  <2>1. ledger[t].price * ledger[t].quantity \in Nat
    BY <1>2
  <2>2. AddToPool(pool, ledger[t].quantity, ledger[t].price * ledger[t].quantity) \in Pool
    BY <1>1, <1>2, <2>1 DEF AddToPool
  <2> QED BY <1>7, <2>2, TakeOtherKeeps DEF TakeRightsIssue
<1>8. CASE TakeIgnored(t)
  BY <1>1, <1>8, TakeOtherKeeps DEF TakeIgnored
<1> QED BY <1>3, <1>4, <1>5, <1>6, <1>7, <1>8

(* The steps that leave slices, shares and pool alone.                     *)
LEMMA ControlKeeps ==
  ASSUME IInv, \/ RejectDisposal \/ EndDisposal \/ UNCHANGED vars
               \/ \E t \in Ids : TakeDisposal(t)
  PROVE  IInv'
<1>1. LedgerKept /\ disposals' = disposals
  BY DEF RejectDisposal, EndDisposal, TakeDisposal, vars, LedgerKept
<1>2. StatutoryOrder'
  BY <1>1, NoNewSlice DEF IInv
<1>3. \A t \in Ids : ledger[t].quantity \in Nat
  BY DEF IInv, TypeOK, Txn
<1>4. TypeOK'
  BY <1>3 DEF IInv, TypeOK, RejectDisposal, EndDisposal, TakeDisposal, vars
<1> QED BY <1>2, <1>4 DEF IInv

LEMMA NextIInv == IInv /\ [Next]_vars => IInv'
<1> SUFFICES ASSUME IInv, [Next]_vars PROVE IInv'
  OBVIOUS
<1>1. CASE MatchSameDay
  BY <1>1, MatchSameDayKeeps
<1>2. CASE MatchThirtyDay
  BY <1>2, MatchThirtyDayKeeps
<1>3. CASE MatchPool
  BY <1>3, MatchPoolKeeps
<1>4. CASE RejectDisposal \/ EndDisposal \/ UNCHANGED vars \/ \E t \in Ids : TakeDisposal(t)
  BY <1>4, ControlKeeps
<1>5. ASSUME NEW t \in Ids,
             \/ TakeAcquisition(t) \/ TakeSplit(t) \/ TakeUnsplit(t)
             \/ TakeCapReturn(t) \/ TakeRightsIssue(t) \/ TakeIgnored(t)
      PROVE  IInv'
  BY <1>5, PoolEventsKeep
<1> QED BY <1>1, <1>2, <1>3, <1>4, <1>5 DEF Next, Step

-----------------------------------------------------------------------------
(* For every ledger the matcher's counts stay in range: no acquisition is  *)
(* left with fewer than no shares and the pool is never overdrawn, neither *)
(* in shares nor, through the rounding of its average cost, in money.      *)
THEOREM TypeCorrect == Spec => []TypeOK
<1>1. IInv => TypeOK
  BY DEF IInv
<1> QED BY <1>1, InitIInv, NextIInv, PTL DEF Spec

(* For every ledger the slices obey the order of DESIGN.md 5.1.            *)
THEOREM OrderCorrect == Spec => []StatutoryOrder
<1>1. IInv => StatutoryOrder
  BY DEF IInv
<1> QED BY <1>1, InitIInv, NextIInv, PTL DEF Spec

-----------------------------------------------------------------------------
(* Induction over finite sets, as it can be had without an operator for    *)
(* the induction hypothesis: what does not hold for all of them fails for  *)
(* one of least size.                                                      *)
LEMMA NatMin ==
  ASSUME NEW S \in SUBSET Nat, S # {}
  PROVE  \E x \in S : \A y \in S : x <= y
<1> DEFINE R == OpToRel(<, Nat)
<1>1. IsWellFoundedOn(R, Nat)
  BY NatLessThanWellFounded
<1>2. \A x, y \in Nat : <<y, x>> \in R <=> y < x
  BY DEF OpToRel
<1> HIDE DEF R
<1>3. PICK x \in S : \A y \in S : ~(<<y, x>> \in R)
  BY <1>1, WFMin
<1>4. \A y \in S : ~(y < x)
  BY <1>2, <1>3
<1> QED BY <1>4

LEMMA Without ==
  ASSUME NEW s, IsFiniteSet(s), NEW x \in s
  PROVE  /\ IsFiniteSet(s \ {x}) /\ Cardinality(s) \in Nat /\ Cardinality(s \ {x}) \in Nat
         /\ Cardinality(s \ {x}) = Cardinality(s) - 1
BY FS_RemoveElement, FS_CardinalityType

LEMMA Smallest ==
  ASSUME NEW F, F # {}, \A s \in F : IsFiniteSet(s)
  PROVE  \E s \in F : \A x \in s : s \ {x} \notin F
<1> DEFINE sizes == {Cardinality(s) : s \in F}
<1>1. sizes \in SUBSET Nat /\ sizes # {}
  BY FS_CardinalityType
<1>2. PICK n \in sizes : \A m \in sizes : n <= m
  BY <1>1, NatMin
<1>3. PICK s \in F : n = Cardinality(s)
  OBVIOUS
<1>4. ASSUME NEW x \in s, s \ {x} \in F PROVE FALSE
  <2>1. Cardinality(s) <= Cardinality(s \ {x})
    BY <1>2, <1>3, <1>4
  <2> QED BY <2>1, <1>4, Without
<1> QED BY <1>4

(* A fold over a finite set exists: with base for the empty set, and op    *)
(* applied to what pick takes out of a set and the fold of the others.     *)
Picks(pick, S) == \A s \in SUBSET S : s # {} => pick[s] \in s
Folded(g, base, op, pick, s) ==
  IF s = {} THEN base ELSE op[pick[s]][g[s \ {pick[s]}]]
IsFold(g, base, op, pick, S) == \A s \in SUBSET S : g[s] = Folded(g, base, op, pick, s)

LEMMA FoldExists ==
  ASSUME NEW S, IsFiniteSet(S), NEW V, NEW base \in V, NEW op \in [S -> [V -> V]],
         NEW pick, Picks(pick, S)
  PROVE  \E g \in [SUBSET S -> V] : IsFold(g, base, op, pick, S)
<1> DEFINE UpTo(n) == {s \in SUBSET S : Cardinality(s) <= n}
           Fold(g, n) == \A s \in UpTo(n) : g[s] = Folded(g, base, op, pick, s)
           bad == {n \in Nat : ~\E g \in [UpTo(n) -> V] : Fold(g, n)}
<1>1. \A s \in SUBSET S :
        IsFiniteSet(s) /\ Cardinality(s) \in Nat /\ (Cardinality(s) = 0 <=> s = {})
  BY FS_Subset, FS_CardinalityType, FS_EmptySet
<1>2. bad = {}
  <2> SUFFICES ASSUME bad # {} PROVE FALSE
    OBVIOUS
  <2>1. PICK n \in bad : \A m \in bad : n <= m
    BY NatMin
  <2>2. CASE n = 0
    <3> DEFINE g == [s \in UpTo(0) |-> base]
    <3>1. \A s \in UpTo(0) : s = {}
      BY <1>1
    <3>2. g \in [UpTo(0) -> V] /\ Fold(g, 0)
      BY <3>1 DEF Folded
    <3> QED BY <2>2, <3>2
  <2>3. CASE n # 0
    <3>1. n - 1 \in Nat /\ n \in Nat
      BY <2>3
    <3>2. PICK h \in [UpTo(n - 1) -> V] : Fold(h, n - 1)
      <4>1. n - 1 \notin bad
        <5> HIDE DEF bad
        <5> QED BY <2>1, <3>1
      <4> HIDE DEF UpTo, Fold
      <4> QED BY <3>1, <4>1
    <3> DEFINE g == [s \in UpTo(n) |-> Folded(h, base, op, pick, s)]
    <3>3. ASSUME NEW s \in UpTo(n), s # {}
          PROVE  pick[s] \in S /\ s \ {pick[s]} \in UpTo(n - 1)
      <4>1. s \in SUBSET S /\ pick[s] \in s /\ Cardinality(s) <= n
        BY <3>3 DEF Picks
      <4>2. Cardinality(s \ {pick[s]}) = Cardinality(s) - 1 /\ Cardinality(s) \in Nat
        BY <1>1, <4>1, Without
      <4> QED BY <3>1, <4>1, <4>2
    <3>4. UpTo(n - 1) \subseteq UpTo(n)
      BY <1>1, <3>1
    <3> HIDE DEF UpTo
    <3>5. \A t \in UpTo(n - 1) : g[t] = h[t]
      BY <3>2, <3>4
    <3>6. \A s \in UpTo(n) : Folded(h, base, op, pick, s) \in V
      <4> SUFFICES ASSUME NEW s \in UpTo(n) PROVE Folded(h, base, op, pick, s) \in V
        OBVIOUS
      <4>1. CASE s = {}
        BY <4>1 DEF Folded
      <4>2. CASE s # {}
        <5>1. h[s \ {pick[s]}] \in V
          BY <3>2, <3>3, <4>2
        <5> QED BY <3>3, <4>2, <5>1 DEF Folded
      <4> QED BY <4>1, <4>2
    <3>7. \A s \in UpTo(n) : Folded(g, base, op, pick, s) = Folded(h, base, op, pick, s)
      <4> SUFFICES ASSUME NEW s \in UpTo(n)
                   PROVE  Folded(g, base, op, pick, s) = Folded(h, base, op, pick, s)
        OBVIOUS
      <4> HIDE DEF g
      <4>1. CASE s = {}
        BY <4>1 DEF Folded
      <4>2. CASE s # {}
        <5>1. g[s \ {pick[s]}] = h[s \ {pick[s]}]
          BY <3>3, <3>5, <4>2
        <5> QED BY <4>2, <5>1 DEF Folded
      <4> QED BY <4>1, <4>2
    <3>8. g \in [UpTo(n) -> V] /\ Fold(g, n)
      BY <3>6, <3>7
    <3> QED BY <3>1, <3>8
  <2> QED BY <2>2, <2>3
<1>3. Cardinality(S) \in Nat /\ UpTo(Cardinality(S)) = SUBSET S
  <2>1. \A s \in SUBSET S : Cardinality(s) <= Cardinality(S)
    BY FS_Subset
  <2> QED BY <2>1, FS_CardinalityType
<1>4. PICK g \in [UpTo(Cardinality(S)) -> V] : Fold(g, Cardinality(S))
  BY <1>2, <1>3
<1> QED BY <1>3, <1>4 DEF IsFold

(* The sums of the model are folds of +.  SumOf is one whose terms are     *)
(* given as a function, so that lemmas can be about every f.               *)
SumOf(f, S) == MapThenSumSet(LAMBDA x : f[x], S)
Ints(f, S) == IsFiniteSet(S) /\ \A x \in S : f[x] \in Int

OneOf(s) == CHOOSE x \in s : TRUE
Summed(g, f, s) == IF s = {} THEN 0 ELSE f[OneOf(s)] + g[s \ {OneOf(s)}]
IsSum(g, f, S) == g = [s \in SUBSET S |-> Summed(g, f, s)]

LEMMA OneOfIn == ASSUME NEW s, s # {} PROVE OneOf(s) \in s
BY DEF OneOf

LEMMA SumExists ==
  ASSUME NEW f, NEW S, Ints(f, S)
  PROVE  \E g \in [SUBSET S -> Int] : IsSum(g, f, S)
<1> DEFINE op == [x \in S |-> [v \in Int |-> f[x] + v]]
           pick == [s \in SUBSET S |-> OneOf(s)]
           zero == 0
           ints == Int
<1>1. zero \in ints /\ op \in [S -> [ints -> ints]] /\ IsFiniteSet(S)
  BY DEF Ints
<1>2. Picks(pick, S)
  BY OneOfIn DEF Picks
<1>3. \A v \in Int, x \in S : op[x][v] = f[x] + v
  OBVIOUS
<1>4. \A s \in SUBSET S : pick[s] = OneOf(s)
  OBVIOUS
<1> HIDE DEF op, pick, zero, ints
<1>5. PICK g \in [SUBSET S -> ints] : IsFold(g, zero, op, pick, S)
  BY <1>1, <1>2, FoldExists
<1>6. \A s \in SUBSET S : g[s] = Summed(g, f, s)
  <2> SUFFICES ASSUME NEW s \in SUBSET S PROVE g[s] = Summed(g, f, s)
    OBVIOUS
  <2>1. CASE s = {}
    BY <1>5, <2>1 DEF IsFold, Folded, Summed, zero
  <2>2. CASE s # {}
    <3>1. pick[s] = OneOf(s) /\ OneOf(s) \in S /\ s \ {OneOf(s)} \in SUBSET S
      BY <1>4, <2>2, OneOfIn
    <3>2. g[s] = op[OneOf(s)][g[s \ {OneOf(s)}]]
      BY <1>5, <2>2, <3>1 DEF IsFold, Folded
    <3> QED BY <1>3, <2>2, <3>1, <3>2 DEF Summed, ints
  <2> QED BY <2>1, <2>2
<1> QED BY <1>6 DEF IsSum, ints

LEMMA SumAgrees ==
  ASSUME NEW f, NEW e, NEW S, NEW T, NEW g, NEW h, IsSum(g, f, S), IsSum(h, e, T),
         NEW U, U \subseteq S, U \subseteq T, IsFiniteSet(U), \A x \in U : f[x] = e[x]
  PROVE  g[U] = h[U]
<1> DEFINE bad == {s \in SUBSET U : g[s] # h[s]}
<1>1. \A s \in bad : IsFiniteSet(s)
  BY FS_Subset
<1>2. bad = {}
  <2> SUFFICES ASSUME bad # {} PROVE FALSE
    OBVIOUS
  <2>1. PICK s \in bad : \A x \in s : s \ {x} \notin bad
    <3> HIDE DEF bad
    <3> QED BY <1>1, Smallest
  <2>2. g[s] = Summed(g, f, s) /\ h[s] = Summed(h, e, s)
    BY DEF IsSum
  <2>3. s # {}
    BY <2>2 DEF Summed
  <2> DEFINE t == s \ {OneOf(s)}
  <2>4. OneOf(s) \in s /\ t \in SUBSET U
    BY <2>3, OneOfIn
  <2>5. t \notin bad
    BY <2>1, <2>4
  <2>6. g[t] = h[t]
    BY <2>4, <2>5
  <2> QED BY <2>2, <2>3, <2>4, <2>6 DEF Summed
<1> QED BY <1>2

LEMMA SumIs ==
  ASSUME NEW f, NEW S, Ints(f, S)
  PROVE  \E g \in [SUBSET S -> Int] : IsSum(g, f, S) /\ \A T \in SUBSET S : SumOf(f, T) = g[T]
<1> DEFINE G(T) == CHOOSE g : IsSum(g, f, T)
<1>1. \A T : SumOf(f, T) = G(T)[T]
  BY DEF SumOf, MapThenSumSet, MapThenFoldSet, IsSum, Summed, OneOf
<1> HIDE DEF G
<1>2. PICK h \in [SUBSET S -> Int] : IsSum(h, f, S)
  BY SumExists
<1>3. ASSUME NEW T \in SUBSET S PROVE G(T)[T] = h[T]
  <2>1. Ints(f, T) /\ IsFiniteSet(T)
    BY FS_Subset DEF Ints
  <2>2. \E g : IsSum(g, f, T)
    BY <2>1, SumExists
  <2>3. IsSum(G(T), f, T)
    BY <2>2 DEF G
  <2> QED BY <1>2, <2>1, <2>3, SumAgrees
<1> QED BY <1>1, <1>2, <1>3

(* What is used of sums.                                                   *)
LEMMA SumInt ==
  ASSUME NEW f, NEW S, Ints(f, S)
  PROVE  SumOf(f, S) \in Int
<1>1. PICK g \in [SUBSET S -> Int] : IsSum(g, f, S) /\ \A T \in SUBSET S : SumOf(f, T) = g[T]
  BY SumIs
<1> QED BY <1>1

LEMMA SumEmpty == ASSUME NEW f PROVE SumOf(f, {}) = 0
<1>1. Ints(f, {})
  BY FS_EmptySet DEF Ints
<1>2. PICK g \in [SUBSET {} -> Int] : IsSum(g, f, {}) /\ \A T \in SUBSET {} : SumOf(f, T) = g[T]
  BY <1>1, SumIs
<1>3. g[{}] = Summed(g, f, {})
  BY <1>2 DEF IsSum
<1> QED BY <1>2, <1>3 DEF Summed

LEMMA SumAny ==
  ASSUME NEW f, NEW S, Ints(f, S), S # {}
  PROVE  SumOf(f, S) = f[OneOf(S)] + SumOf(f, S \ {OneOf(S)})
<1>1. PICK g \in [SUBSET S -> Int] : IsSum(g, f, S) /\ \A T \in SUBSET S : SumOf(f, T) = g[T]
  BY SumIs
<1>2. g[S] = Summed(g, f, S)
  BY <1>1 DEF IsSum
<1> QED BY <1>1, <1>2 DEF Summed

LEMMA SumSame ==
  ASSUME NEW f, NEW e, NEW S, Ints(f, S), \A x \in S : f[x] = e[x]
  PROVE  SumOf(f, S) = SumOf(e, S)
<1>1. PICK g \in [SUBSET S -> Int] : IsSum(g, f, S) /\ \A T \in SUBSET S : SumOf(f, T) = g[T]
  BY SumIs
<1>2. Ints(e, S)
  BY DEF Ints
<1>3. PICK h \in [SUBSET S -> Int] : IsSum(h, e, S) /\ \A T \in SUBSET S : SumOf(e, T) = h[T]
  BY <1>2, SumIs
<1> QED BY <1>1, <1>3, SumAgrees DEF Ints

LEMMA SumRemove ==
  ASSUME NEW f, NEW S, Ints(f, S), NEW x \in S
  PROVE  SumOf(f, S) = f[x] + SumOf(f, S \ {x})
<1> DEFINE bad == {s \in SUBSET S : \E y \in s : SumOf(f, s) # f[y] + SumOf(f, s \ {y})}
<1>1. \A s \in SUBSET S : IsFiniteSet(s) /\ Ints(f, s)
  BY FS_Subset DEF Ints
<1>2. bad = {}
  <2> SUFFICES ASSUME bad # {} PROVE FALSE
    OBVIOUS
  <2>1. PICK s \in bad : \A z \in s : s \ {z} \notin bad
    <3>1. \A s \in bad : IsFiniteSet(s)
      BY <1>1
    <3> HIDE DEF bad
    <3> QED BY <3>1, Smallest
  <2>2. PICK y \in s : SumOf(f, s) # f[y] + SumOf(f, s \ {y})
    OBVIOUS
  <2> DEFINE p == OneOf(s)
             t == s \ {p}
             u == s \ {y}
             w == t \ {y}
  <2>3. p \in s
    BY <2>2, OneOfIn
  <2>4. SumOf(f, s) = f[p] + SumOf(f, t)
    BY <1>1, <2>2, SumAny
  <2>5. /\ p # y /\ y \in t /\ p \in u /\ w = u \ {p}
        /\ t \in SUBSET S /\ u \in SUBSET S /\ w \in SUBSET S
    BY <2>2, <2>3, <2>4
  <2> HIDE DEF p
  <2>6. t \notin bad /\ u \notin bad
    BY <2>1, <2>2, <2>3
  <2> HIDE DEF t, u, w
  <2>7. SumOf(f, t) = f[y] + SumOf(f, w) /\ SumOf(f, u) = f[p] + SumOf(f, w)
    BY <2>5, <2>6 DEF w
  <2>8. SumOf(f, w) \in Int /\ f[y] \in Int /\ f[p] \in Int
    BY <1>1, <2>2, <2>3, <2>5, SumInt DEF Ints
  <2>9. SumOf(f, s) = f[y] + SumOf(f, u)
    BY <2>4, <2>7, <2>8
  <2> QED BY <2>2, <2>9 DEF u
<1> QED BY <1>2

LEMMA SumAdd ==
  ASSUME NEW f, NEW S, NEW x, x \notin S, Ints(f, S \cup {x})
  PROVE  SumOf(f, S \cup {x}) = f[x] + SumOf(f, S)
<1>1. (S \cup {x}) \ {x} = S
  OBVIOUS
<1> QED BY <1>1, SumRemove

(* A sum of nothing but zeros.                                             *)
LEMMA SumZero ==
  ASSUME NEW f, NEW S, Ints(f, S), \A x \in S : f[x] = 0
  PROVE  SumOf(f, S) = 0
<1> DEFINE bad == {s \in SUBSET S : SumOf(f, s) # 0}
<1>1. \A s \in SUBSET S : IsFiniteSet(s) /\ Ints(f, s)
  BY FS_Subset DEF Ints
<1>2. bad = {}
  <2> SUFFICES ASSUME bad # {} PROVE FALSE
    OBVIOUS
  <2>1. PICK s \in bad : \A z \in s : s \ {z} \notin bad
    <3>1. \A s \in bad : IsFiniteSet(s)
      BY <1>1
    <3> HIDE DEF bad
    <3> QED BY <3>1, Smallest
  <2>2. s # {}
    BY SumEmpty
  <2>3. OneOf(s) \in s /\ SumOf(f, s) = f[OneOf(s)] + SumOf(f, s \ {OneOf(s)})
    BY <1>1, <2>2, SumAny, OneOfIn
  <2>4. SumOf(f, s \ {OneOf(s)}) = 0 /\ f[OneOf(s)] = 0
    BY <2>1, <2>3
  <2> QED BY <2>3, <2>4
<1> QED BY <1>2

-----------------------------------------------------------------------------
(* A slice recorded, from an acquisition or from the pool.                 *)
FromAcquisition(s) ==
  /\ s.acq \in Acquisitions /\ ledger[cur].date <= ledger[s.acq].date
  /\ s.quantity <= remaining[s.acq]
  /\ s = Slice(cur, s.matchType, s.acq, s.quantity,
               MatchedCostOver(s.acq, s.quantity), ledger[s.acq].quantity)
  /\ remaining' = [remaining EXCEPT ![s.acq] = @ - s.quantity]
  /\ pool' = pool
  /\ toMatch' = 0 \/ remaining'[s.acq] = 0

FromPool(s) ==
  /\ s.acq = NoTxn /\ s.quantity = toMatch /\ toMatch <= pool.quantity
  /\ s = Slice(cur, s.matchType, NoTxn, s.quantity, PoolCostOf(pool, toMatch), 1)
  /\ pool' = DisposeFromPool(pool, toMatch)
  /\ remaining' = remaining

Identifies(s) ==
  /\ Matching
  /\ s \in SliceType /\ s.txn = cur /\ s.quantity <= toMatch
  /\ disposals' = disposals \cup {s}
  /\ toMatch' = toMatch - s.quantity
  /\ UNCHANGED <<ledger, pending, cur, rejected>>
  /\ FromAcquisition(s) \/ FromPool(s)

LEMMA MatchFromIdentifies ==
  ASSUME TypeOK, Matching, NEW rule \in MatchTypes, NEW S \in SUBSET Acquisitions, MatchFrom(rule, S),
         \A a \in S : ledger[cur].date <= ledger[a].date
  PROVE  \E s : Identifies(s)
<1>1. PICK acq \in Ids :
        /\ IsFirst(acq, Available(S))
        /\ LET m == IF toMatch < remaining[acq] THEN toMatch ELSE remaining[acq]
           IN  /\ RecordSlice(rule, acq, m)
               /\ remaining' = [remaining EXCEPT ![acq] = @ - m]
               /\ toMatch' = toMatch - m
        /\ UNCHANGED <<ledger, pending, cur, pool, rejected>>
  BY DEF MatchFrom
<1> DEFINE m == IF toMatch < remaining[acq] THEN toMatch ELSE remaining[acq]
           new == Slice(cur, rule, acq, m, MatchedCostOver(acq, m), ledger[acq].quantity)
<1>2. acq \in S /\ acq \in Ids /\ remaining[acq] \in Nat \ {0}
  BY <1>1, FirstIsEarliest DEF Acquisitions
<1>3. cur \in Ids /\ toMatch \in Nat \ {0} /\ acq # NoTxn
  BY IdsAreNumbers DEF Matching, TypeOK
<1>4. m \in Nat \ {0} /\ m <= toMatch /\ m <= remaining[acq] /\ (m = toMatch \/ m = remaining[acq])
  BY <1>2, <1>3
<1>5. /\ remaining' = [remaining EXCEPT ![acq] = @ - m] /\ toMatch' = toMatch - m
      /\ disposals' = disposals \cup {new}
  BY <1>1 DEF RecordSlice
<1> HIDE DEF m
<1>6. /\ new \in SliceType /\ new.txn = cur /\ new.acq = acq
      /\ new.quantity = m /\ new.matchType = rule
  <2>1. MatchedCostOver(acq, m) \in Nat /\ ledger[acq].quantity \in Nat \ {0}
    BY <1>4, MatchedCostTyped
  <2>2. PICK over \in Nat, parts \in Nat \ {0} :
          over = MatchedCostOver(acq, m) /\ parts = ledger[acq].quantity
    BY <2>1
  <2>3. new = Slice(cur, rule, acq, m, over, parts)
    BY <2>2
  <2> HIDE DEF new
  <2> QED BY <1>2, <1>3, <1>4, <2>3, SliceTyped
<1>10. new = Slice(cur, new.matchType, new.acq, new.quantity,
                   MatchedCostOver(new.acq, new.quantity), ledger[new.acq].quantity)
  BY <1>6
<1> HIDE DEF new
<1>7. remaining'[acq] = remaining[acq] - m
  BY <1>5 DEF TypeOK
<1>8. toMatch' = 0 \/ remaining'[acq] = 0
  BY <1>2, <1>3, <1>4, <1>5, <1>7
<1>9. Identifies(new)
  <2>1. FromAcquisition(new)
    BY <1>1, <1>2, <1>4, <1>5, <1>6, <1>8, <1>10 DEF FromAcquisition
  <2> QED BY <1>1, <1>3, <1>4, <1>5, <1>6, <2>1 DEF Identifies
<1> QED BY <1>9

LEMMA MatchIdentifies ==
  ASSUME TypeOK, MatchSameDay \/ MatchThirtyDay \/ MatchPool
  PROVE  \E s : Identifies(s)
<1>1. CASE MatchSameDay
  <2>1. SameDay(cur) \in SUBSET Acquisitions /\ "same-day" \in MatchTypes
    BY DEF SameDay, MatchTypes
  <2>2. \A a \in SameDay(cur) : ledger[cur].date <= ledger[a].date
    BY DEF SameDay, Acquisitions, TypeOK, Txn
  <2> QED BY <1>1, <2>1, <2>2, MatchFromIdentifies DEF MatchSameDay
<1>2. CASE MatchThirtyDay
  <2>1. Within30Days(cur) \in SUBSET Acquisitions /\ "30-day" \in MatchTypes
    BY DEF Within30Days, MatchTypes
  <2>2. \A a \in Within30Days(cur) : ledger[cur].date <= ledger[a].date
    <3>1. cur \in Ids /\ \A t \in Ids : ledger[t].date \in Nat
      BY <1>2 DEF MatchThirtyDay, Matching, TypeOK, Txn
    <3> QED BY <3>1 DEF Within30Days, Acquisitions
  <2> QED BY <1>2, <2>1, <2>2, MatchFromIdentifies DEF MatchThirtyDay
<1>3. CASE MatchPool
  <2> DEFINE cost == PoolCostOf(pool, toMatch)
             one  == 1
             rule == "s104-pool"
             new  == Slice(cur, rule, NoTxn, toMatch, cost, one)
  <2>1. /\ cur \in Ids /\ toMatch \in Nat \ {0} /\ pool \in [quantity : Nat, cost : Nat]
        /\ toMatch <= pool.quantity
    BY <1>3 DEF MatchPool, Matching, TypeOK
  <2>2. cost \in Nat
    BY <2>1, PoolCostBound
  <2>3. rule \in MatchTypes /\ one \in Nat \ {0} /\ NoTxn \in Ids \cup {NoTxn}
    BY DEF MatchTypes
  <2>4. disposals' = disposals \cup {new} /\ toMatch' = 0 /\ Matching
        /\ UNCHANGED <<ledger, pending, cur, remaining, rejected>>
        /\ pool' = DisposeFromPool(pool, toMatch)
    BY <1>3 DEF MatchPool, TakeFromPool
  <2> HIDE DEF cost, one, rule
  <2>5. new \in SliceType /\ new.txn = cur /\ new.acq = NoTxn /\ new.quantity = toMatch
        /\ new.matchType = rule
    <3>1. cur \in Ids /\ toMatch \in Nat \ {0}
      BY <2>1
    <3> QED BY <2>2, <2>3, <3>1, SliceTyped
  <2>6. new = Slice(cur, new.matchType, NoTxn, new.quantity, PoolCostOf(pool, toMatch), 1)
    BY <2>5 DEF cost, one
  <2> HIDE DEF new
  <2>7. FromPool(new)
    BY <2>1, <2>4, <2>5, <2>6 DEF FromPool
  <2>8. Identifies(new)
    BY <2>1, <2>4, <2>5, <2>7 DEF Identifies
  <2> QED BY <2>8
<1> QED BY <1>1, <1>2, <1>3
-----------------------------------------------------------------------------
(* The shares of a set of slices as a sum.                                 *)
LEMMA SharesSum ==
  ASSUME NEW S
  PROVE  Shares(S) = SumOf([s \in S |-> s.quantity], S)
<1> DEFINE f == [s \in S |-> s.quantity]
           B(g) == [s \in SUBSET S |-> IF s = {} THEN 0 ELSE f[OneOf(s)] + g[s \ {OneOf(s)}]]
           C(g) == [s \in SUBSET S |-> IF s = {} THEN 0 ELSE OneOf(s).quantity + g[s \ {OneOf(s)}]]
<1>1. ASSUME NEW g PROVE B(g) = C(g)
  <2>1. \A s \in SUBSET S : s # {} => f[OneOf(s)] = OneOf(s).quantity
    BY OneOfIn
  <2> HIDE DEF f
  <2> QED BY <2>1
<1>2. SumOf(f, S) = (CHOOSE g : g = B(g))[S]
  BY DEF SumOf, MapThenSumSet, MapThenFoldSet, OneOf
<1>3. Shares(S) = (CHOOSE g : g = C(g))[S]
  BY DEF Shares, MapThenSumSet, MapThenFoldSet, OneOf
<1>4. \A g : (g = B(g)) <=> (g = C(g))
  BY <1>1
<1> HIDE DEF B, C, f
<1>5. (CHOOSE g : g = B(g)) = (CHOOSE g : g = C(g))
  BY <1>4
<1> QED BY <1>2, <1>3, <1>5 DEF f

LEMMA SharesEmpty == Shares({}) = 0
BY SharesSum, SumEmpty

LEMMA SharesInt ==
  ASSUME NEW S \in SUBSET SliceType, IsFiniteSet(S)
  PROVE  Shares(S) \in Int
<1> DEFINE f == [s \in S |-> s.quantity]
<1>1. Ints(f, S)
  BY DEF Ints, SliceType
<1> HIDE DEF f
<1>2. SumOf(f, S) \in Int
  BY <1>1, SumInt
<1> QED BY <1>2, SharesSum DEF f

LEMMA SharesAdd ==
  ASSUME NEW S \in SUBSET SliceType, IsFiniteSet(S), NEW x \in SliceType, x \notin S
  PROVE  Shares(S \cup {x}) = Shares(S) + x.quantity
<1> DEFINE T == S \cup {x}
           f == [s \in T |-> s.quantity]
           h == [s \in S |-> s.quantity]
<1>1. Ints(f, T) /\ Ints(h, S)
  BY FS_AddElement DEF Ints, SliceType
<1>2. (\A s \in S : f[s] = h[s]) /\ f[x] = x.quantity /\ x.quantity \in Int
  BY DEF SliceType
<1>3. Shares(T) = SumOf(f, T) /\ Shares(S) = SumOf(h, S)
  BY SharesSum
<1> HIDE DEF f, h
<1>4. SumOf(f, T) = f[x] + SumOf(f, S)
  BY <1>1, SumAdd
<1>5. SumOf(f, S) = SumOf(h, S)
  BY <1>1, <1>2, SumSame
<1>6. Shares(S) \in Int
  BY SharesInt
<1> QED BY <1>2, <1>3, <1>4, <1>5, <1>6
-----------------------------------------------------------------------------
(* Every share once.  A new slice is a new record because what is recorded *)
(* for the disposal in hand has used its acquisition up (or all of toMatch *)
(* is gone), and what is recorded at all is for a disposal already taken.  *)
TakenSlices == \A s \in disposals : s.txn \notin pending
InHand == cur # NoTxn => cur \notin pending /\ IsDisposal(cur) /\ ~rejected
OnceEach ==
  \A s \in disposals :
    s.txn = cur => toMatch = 0 \/ (s.acq # NoTxn /\ remaining[s.acq] = 0)

AcquiredShares == \A a \in Acquisitions : Shares(SlicesFrom(a)) + remaining[a] = ledger[a].quantity
DisposedShares ==
  \A d \in Ids \ pending :
    IsDisposal(d) /\ ~rejected =>
      Shares(SlicesOf(d)) = ledger[d].quantity - (IF cur = d THEN toMatch ELSE 0)

SInv ==
  /\ IInv
  /\ IsFiniteSet(disposals)
  /\ TakenSlices /\ InHand /\ OnceEach
  /\ AcquiredShares /\ DisposedShares

LEMMA InitSInv == Init => SInv
<1> SUFFICES ASSUME Init PROVE SInv
  OBVIOUS
<1>1. IInv /\ disposals = {} /\ cur = NoTxn /\ pending = Ids
  BY InitIInv DEF Init
<1>2. IsFiniteSet(disposals) /\ TakenSlices /\ InHand /\ OnceEach /\ DisposedShares
  BY <1>1, FS_EmptySet DEF TakenSlices, InHand, OnceEach, DisposedShares
<1>3. ASSUME NEW a \in Acquisitions
      PROVE  Shares(SlicesFrom(a)) + remaining[a] = ledger[a].quantity
  <2>1. SlicesFrom(a) = {}
    BY <1>1 DEF SlicesFrom
  <2>2. a \in Ids /\ remaining[a] = ledger[a].quantity
    BY DEF Init, Acquisitions
  <2>3. ledger[a].quantity \in Nat
    BY <1>1, <2>2 DEF IInv, TypeOK, Txn
  <2> QED BY <2>1, <2>2, <2>3, SharesEmpty
<1> QED BY <1>1, <1>2, <1>3 DEF SInv, AcquiredShares

(* A slice recorded is a new one.                                          *)
LEMMA IdentifiesTypes ==
  ASSUME SInv, NEW s, Identifies(s)
  PROVE  /\ s \in SliceType /\ s.quantity \in Nat \ {0} /\ s.txn = cur
         /\ disposals' = disposals \cup {s} /\ disposals \in SUBSET SliceType
         /\ remaining \in [Ids -> Nat] /\ toMatch \in Nat \ {0} /\ cur \in Ids
         /\ ledger' = ledger /\ pending' = pending /\ cur' = cur /\ rejected' = rejected
         /\ toMatch' = toMatch - s.quantity
         /\ s.acq # NoTxn => s.acq \in Ids /\ FromAcquisition(s)
         /\ s.acq = NoTxn => FromPool(s)
         /\ s \notin disposals
<1>1. FromAcquisition(s) => s.acq # NoTxn /\ s.acq \in Ids
  BY IdsAreNumbers DEF FromAcquisition, Acquisitions
<1>2. FromPool(s) => s.acq = NoTxn
  BY DEF FromPool
<1>3. /\ s \in SliceType /\ s.quantity \in Nat \ {0} /\ s.txn = cur
      /\ disposals' = disposals \cup {s} /\ disposals \in SUBSET SliceType
      /\ remaining \in [Ids -> Nat] /\ toMatch \in Nat \ {0} /\ cur \in Ids
      /\ ledger' = ledger /\ pending' = pending /\ cur' = cur /\ rejected' = rejected
      /\ toMatch' = toMatch - s.quantity
      /\ s.acq # NoTxn => s.acq \in Ids /\ FromAcquisition(s)
      /\ s.acq = NoTxn => FromPool(s)
  BY <1>1, <1>2 DEF Identifies, SInv, IInv, TypeOK, SliceType, Matching
<1>4. ASSUME s \in disposals PROVE FALSE
  <2>1. s.acq # NoTxn /\ remaining[s.acq] = 0
    BY <1>3, <1>4 DEF SInv, OnceEach
  <2>2. s.quantity <= remaining[s.acq]
    BY <1>3, <2>1 DEF FromAcquisition
  <2> QED BY <1>3, <2>1, <2>2
<1> QED BY <1>3, <1>4

LEMMA IdentifiesKeeps ==
  ASSUME SInv, IInv', NEW s, Identifies(s)
  PROVE  SInv'
<1>1. /\ s \in SliceType /\ s.quantity \in Nat \ {0} /\ s.txn = cur
      /\ disposals' = disposals \cup {s} /\ disposals \in SUBSET SliceType
      /\ remaining \in [Ids -> Nat] /\ toMatch \in Nat \ {0} /\ cur \in Ids
      /\ ledger' = ledger /\ pending' = pending /\ cur' = cur /\ rejected' = rejected
      /\ toMatch' = toMatch - s.quantity
      /\ s.acq # NoTxn => s.acq \in Ids /\ FromAcquisition(s)
      /\ s.acq = NoTxn => FromPool(s)
  BY IdentifiesTypes
<1>2. s \notin disposals
  BY IdentifiesTypes
<1>3. IsFiniteSet(disposals')
  BY <1>1, FS_AddElement DEF SInv
<1>4. TakenSlices' /\ InHand'
  BY <1>1 DEF SInv, TakenSlices, InHand, IsDisposal, Identifies, Matching
<1>5. ASSUME NEW a \in Ids, s.acq # a PROVE remaining'[a] = remaining[a]
  BY <1>1, <1>5 DEF FromAcquisition, FromPool
<1>6. ASSUME s.acq # NoTxn PROVE remaining'[s.acq] = remaining[s.acq] - s.quantity
  BY <1>1, <1>6 DEF FromAcquisition
<1>7. OnceEach'
  <2> SUFFICES ASSUME NEW u \in disposals', u.txn = cur, toMatch' # 0
               PROVE  u.acq # NoTxn /\ remaining'[u.acq] = 0
    BY <1>1 DEF OnceEach
  <2>1. s.acq # NoTxn /\ remaining'[s.acq] = 0
    BY <1>1 DEF FromAcquisition, FromPool
  <2>2. CASE u = s
    BY <2>1, <2>2
  <2>3. CASE u \in disposals
    <3>1. u.acq # NoTxn /\ remaining[u.acq] = 0
      BY <1>1, <2>3 DEF SInv, OnceEach
    <3>2. u.acq \in Ids
      BY <1>1, <2>3, <3>1 DEF SliceType
    <3> QED BY <1>5, <2>1, <3>1, <3>2
  <2> QED BY <1>1, <2>2, <2>3
<1>8. AcquiredShares'
  <2> SUFFICES ASSUME NEW a \in Acquisitions
               PROVE  Shares(SlicesFrom(a)') + remaining'[a] = ledger[a].quantity
    BY <1>1 DEF AcquiredShares, SlicesFrom, Acquisitions, IsAcquisition
  <2> DEFINE S == SlicesFrom(a)
  <2>1. S \in SUBSET SliceType /\ IsFiniteSet(S) /\ s \notin S /\ a \in Ids /\ a # NoTxn
    BY <1>1, <1>2, FS_Subset, IdsAreNumbers DEF SlicesFrom, SInv, Acquisitions
  <2>2. Shares(S) \in Int /\ Shares(S) + remaining[a] = ledger[a].quantity
    BY <2>1, SharesInt DEF SInv, AcquiredShares
  <2>3. CASE s.acq = a
    <3>1. S' = S \cup {s}
      BY <1>1, <2>3 DEF SlicesFrom
    <3> HIDE DEF S
    <3>2. Shares(S \cup {s}) = Shares(S) + s.quantity
      BY <1>1, <2>1, SharesAdd
    <3>3. remaining'[a] = remaining[a] - s.quantity /\ remaining[a] \in Nat
      BY <1>1, <1>6, <2>1, <2>3
    <3> QED BY <1>1, <2>2, <3>1, <3>2, <3>3 DEF S
  <2>4. CASE s.acq # a
    <3>1. S' = S
      BY <1>1, <2>4 DEF SlicesFrom
    <3> QED BY <1>5, <2>1, <2>2, <2>4, <3>1
  <2> QED BY <2>3, <2>4
<1>9. DisposedShares'
  <2> SUFFICES ASSUME NEW d \in Ids \ pending, IsDisposal(d), ~rejected
               PROVE  Shares(SlicesOf(d)') = ledger[d].quantity - (IF cur = d THEN toMatch' ELSE 0)
    BY <1>1 DEF DisposedShares, SlicesOf, IsDisposal
  <2> DEFINE S == SlicesOf(d)
  <2>1. S \in SUBSET SliceType /\ IsFiniteSet(S) /\ s \notin S
    BY <1>1, <1>2, FS_Subset DEF SlicesOf, SInv
  <2>2. Shares(S) = ledger[d].quantity - (IF cur = d THEN toMatch ELSE 0)
    BY DEF SInv, DisposedShares
  <2>3. ledger[d].quantity \in Nat
    BY DEF SInv, IInv, TypeOK, Txn
  <2>4. CASE cur = d
    <3>1. S' = S \cup {s}
      BY <1>1, <2>4 DEF SlicesOf
    <3> HIDE DEF S
    <3>2. Shares(S \cup {s}) = Shares(S) + s.quantity
      BY <1>1, <2>1, SharesAdd
    <3> QED BY <1>1, <2>2, <2>3, <2>4, <3>1, <3>2 DEF S
  <2>5. CASE cur # d
    <3>1. S' = S
      BY <1>1, <2>5 DEF SlicesOf
    <3> QED BY <2>2, <2>5, <3>1
  <2> QED BY <2>4, <2>5
<1> QED BY <1>3, <1>4, <1>7, <1>8, <1>9 DEF SInv

(* The other steps record nothing; a disposal that is taken has no slice   *)
(* yet, and one that is left has nothing to match.                         *)
LEMMA SlicesUntouched ==
  ASSUME SInv, IInv', UNCHANGED <<ledger, remaining, disposals>>
  PROVE  IsFiniteSet(disposals)' /\ AcquiredShares'
BY DEF SInv, AcquiredShares, Acquisitions, IsAcquisition, SlicesFrom

LEMMA TakeKeeps ==
  ASSUME SInv, IInv', NEW t \in Ids, IsNext(t), pending' = pending \ {t},
         UNCHANGED <<ledger, remaining, disposals, rejected>>,
         IF IsDisposal(t) THEN cur' = t /\ toMatch' = ledger[t].quantity
                          ELSE UNCHANGED <<cur, toMatch>>
  PROVE  SInv'
<1>1. t \in pending /\ cur = NoTxn /\ ~rejected /\ t # NoTxn
  BY IdsAreNumbers DEF IsNext, IsFirst
<1>2. TakenSlices' /\ InHand'
  BY <1>1 DEF SInv, TakenSlices, InHand, IsDisposal
<1>3. \A s \in disposals : s.txn # t /\ s.txn # NoTxn
  BY <1>1, IdsAreNumbers DEF SInv, IInv, TypeOK, SliceType, TakenSlices
<1>4. OnceEach'
  BY <1>1, <1>3 DEF OnceEach
<1>5. DisposedShares'
  <2> SUFFICES ASSUME NEW d \in Ids \ pending', IsDisposal(d)
               PROVE  Shares(SlicesOf(d)) = ledger[d].quantity - (IF cur' = d THEN toMatch' ELSE 0)
    BY DEF DisposedShares, SlicesOf, IsDisposal
  <2>1. ledger[d].quantity \in Nat
    BY DEF SInv, IInv, TypeOK, Txn
  <2>2. CASE d = t
    <3>1. SlicesOf(d) = {}
      BY <1>3, <2>2 DEF SlicesOf
    <3> QED BY <2>1, <2>2, <3>1, SharesEmpty
  <2>3. CASE d # t
    <3>1. d \in Ids \ pending /\ cur # d /\ cur' # d
      BY <1>1, <2>3, IdsAreNumbers
    <3> QED BY <1>1, <2>1, <3>1 DEF SInv, DisposedShares
  <2> QED BY <2>2, <2>3
<1> QED BY <1>2, <1>4, <1>5, SlicesUntouched DEF SInv

LEMMA LeaveKeeps ==
  ASSUME SInv, IInv', RejectDisposal \/ EndDisposal
  PROVE  SInv'
<1>1. /\ UNCHANGED <<ledger, pending, toMatch, remaining, disposals>>
      /\ cur' = NoTxn /\ (rejected' \/ (toMatch = 0 /\ rejected' = rejected))
  BY DEF RejectDisposal, EndDisposal
<1>2. \A s \in disposals : s.txn # NoTxn
  BY IdsAreNumbers DEF SInv, IInv, TypeOK, SliceType
<1>3. TakenSlices' /\ InHand' /\ OnceEach'
  BY <1>1, <1>2 DEF SInv, TakenSlices, InHand, OnceEach
<1>4. DisposedShares'
  <2> SUFFICES ASSUME NEW d \in Ids \ pending, IsDisposal(d), ~rejected'
               PROVE  Shares(SlicesOf(d)) = ledger[d].quantity - (IF cur' = d THEN toMatch' ELSE 0)
    BY <1>1 DEF DisposedShares, SlicesOf, IsDisposal
  <2>1. ledger[d].quantity \in Nat /\ d # NoTxn
    BY IdsAreNumbers DEF SInv, IInv, TypeOK, Txn
  <2>2. Shares(SlicesOf(d)) = ledger[d].quantity - (IF cur = d THEN toMatch ELSE 0)
    BY <1>1 DEF SInv, DisposedShares
  <2> QED BY <1>1, <2>1, <2>2
<1> QED BY <1>1, <1>3, <1>4, SlicesUntouched DEF SInv

LEMMA NextSInv == SInv /\ [Next]_vars => SInv'
<1> SUFFICES ASSUME SInv, [Next]_vars PROVE SInv'
  OBVIOUS
<1>1. IInv'
  BY NextIInv DEF SInv
<1>2. CASE MatchSameDay \/ MatchThirtyDay \/ MatchPool
  <2>1. PICK s : Identifies(s)
    BY <1>2, MatchIdentifies DEF SInv, IInv
  <2> QED BY <1>1, <2>1, IdentifiesKeeps
<1>3. CASE RejectDisposal \/ EndDisposal
  BY <1>1, <1>3, LeaveKeeps
<1>4. ASSUME NEW t \in Ids, TakeDisposal(t) PROVE SInv'
  <2>1. /\ IsNext(t) /\ pending' = pending \ {t} /\ IsDisposal(t)
        /\ cur' = t /\ toMatch' = ledger[t].quantity
        /\ UNCHANGED <<ledger, remaining, disposals, rejected>>
    BY <1>4 DEF TakeDisposal
  <2> QED BY <1>1, <2>1, TakeKeeps
<1>5. ASSUME NEW t \in Ids,
             \/ TakeAcquisition(t) \/ TakeSplit(t) \/ TakeUnsplit(t)
             \/ TakeCapReturn(t) \/ TakeRightsIssue(t) \/ TakeIgnored(t)
      PROVE  SInv'
  <2>1. \E p : TakeOther(t, p)
    BY <1>5 DEF TakeAcquisition, TakeSplit, TakeUnsplit, TakeCapReturn, TakeRightsIssue, TakeIgnored
  <2>2. ~IsDisposal(t)
    BY <1>5 DEF TakeAcquisition, TakeSplit, TakeUnsplit, TakeCapReturn, TakeRightsIssue, TakeIgnored,
       IsAcquisition, IsDisposal, AcquisitionTypes, DisposalTypes, PoolEventTypes
  <2>3. /\ IsNext(t) /\ pending' = pending \ {t} /\ UNCHANGED <<cur, toMatch>>
        /\ UNCHANGED <<ledger, remaining, disposals, rejected>>
    BY <2>1 DEF TakeOther
  <2> QED BY <1>1, <2>2, <2>3, TakeKeeps
<1>6. CASE UNCHANGED vars
  BY <1>1, <1>6 DEF vars, SInv, TakenSlices, InHand, OnceEach, AcquiredShares, DisposedShares,
     SlicesFrom, SlicesOf, Acquisitions, IsAcquisition, IsDisposal
<1> QED BY <1>2, <1>3, <1>4, <1>5, <1>6 DEF Next, Step

(* For every ledger the slices account for every share exactly once.       *)
THEOREM SharesCorrect == Spec => []EveryShareIdentifiedOnce
<1>1. SInv => EveryShareIdentifiedOnce
  BY DEF SInv, AcquiredShares, DisposedShares, EveryShareIdentifiedOnce
<1> QED BY <1>1, InitSInv, NextSInv, PTL DEF Spec
-----------------------------------------------------------------------------
(* The order of the main loop is a strict total order, so that every set   *)
(* of transactions has a last one.                                         *)
LEMMA PrecedesOrders ==
  ASSUME TypeOK, NEW a \in Ids, NEW b \in Ids, NEW c \in Ids
  PROVE  /\ ~(Precedes(a, b) /\ Precedes(b, a))
         /\ a # b => Precedes(a, b) \/ Precedes(b, a)
         /\ Precedes(a, b) /\ Precedes(b, c) => Precedes(a, c)
<1>1. \A t \in Ids : ledger[t].date \in Nat /\ t \in Nat /\ DisposalRank(t) \in {0, 1}
  BY IdsAreNumbers DEF TypeOK, Txn, DisposalRank
<1> QED BY <1>1 DEF Precedes

IsLast(t, S) == t \in S /\ \A u \in S \ {t} : Precedes(u, t)

LEMMA LastExists ==
  ASSUME TypeOK, NEW S \in SUBSET Ids, S # {}
  PROVE  \E t : IsLast(t, S)
<1> DEFINE bad == {s \in SUBSET S : s # {} /\ ~\E t : IsLast(t, s)}
<1> SUFFICES ASSUME bad # {} PROVE FALSE
  OBVIOUS
<1>1. PICK s \in bad : \A x \in s : s \ {x} \notin bad
  <2>1. \A s \in bad : IsFiniteSet(s)
    BY FS_Subset, IdsAreNumbers
  <2> HIDE DEF bad
  <2> QED BY <2>1, Smallest
<1>2. PICK x \in s : TRUE
  OBVIOUS
<1>3. CASE s = {x}
  BY <1>3 DEF IsLast
<1>4. CASE s # {x}
  <2>1. PICK t : IsLast(t, s \ {x})
    BY <1>1, <1>2, <1>4
  <2>2. t \in Ids /\ x \in Ids /\ t # x /\ s \subseteq Ids
    BY <2>1 DEF IsLast
  <2>3. CASE Precedes(x, t)
    <3>1. IsLast(t, s)
      BY <2>1, <2>2, <2>3 DEF IsLast
    <3> QED BY <3>1
  <2>4. CASE Precedes(t, x)
    <3>1. \A u \in s \ {x} : u = t \/ Precedes(u, t)
      BY <2>1 DEF IsLast
    <3>2. IsLast(x, s)
      BY <2>2, <2>4, <3>1, PrecedesOrders DEF IsLast
    <3> QED BY <3>2
  <2> QED BY <2>2, <2>3, <2>4, PrecedesOrders
<1> QED BY <1>3, <1>4

LEMMA LastIs ==
  ASSUME TypeOK, NEW S \in SUBSET Ids, NEW t, IsLast(t, S)
  PROVE  LastOf(S) = t
<1>1. LastOf(S) \in S /\ \A u \in S \ {LastOf(S)} : Precedes(u, LastOf(S))
  BY DEF LastOf, IsLast
<1>2. t \in Ids /\ LastOf(S) \in Ids
  BY <1>1 DEF IsLast
<1> QED BY <1>1, <1>2, PrecedesOrders DEF IsLast

LEMMA LastIn ==
  ASSUME TypeOK, NEW S \in SUBSET Ids, S # {}
  PROVE  LastOf(S) \in S
<1>1. PICK t : IsLast(t, S)
  BY LastExists
<1> QED BY <1>1, LastIs DEF IsLast

(* The recursive definition of the holding has a solution.                 *)
LEMMA HeldAfterInt ==
  ASSUME TypeOK, NEW t \in Ids, NEW v \in Int
  PROVE  HeldAfter(v, t) \in Int
<1>1. ledger[t].quantity \in Nat /\ ledger[t].num \in Nat \ {0} /\ ledger[t].den \in Nat \ {0}
  BY DEF TypeOK, Txn
<1>2. v * ledger[t].num \in Int /\ v * ledger[t].den \in Int
  BY <1>1
<1>3. RoundDiv(v * ledger[t].num, ledger[t].den) \in Int
      /\ RoundDiv(v * ledger[t].den, ledger[t].num) \in Int
  BY <1>1, <1>2, RoundDivInt
<1> QED BY <1>1, <1>3 DEF HeldAfter

HeldOf(g, S) == IF S = {} THEN 0 ELSE HeldAfter(g[S \ {LastOf(S)}], LastOf(S))

LEMMA HeldExists ==
  ASSUME TypeOK
  PROVE  \E g : g = [S \in SUBSET Ids |-> HeldOf(g, S)] /\ g \in [SUBSET Ids -> Int]
<1> DEFINE op == [t \in Ids |-> [v \in Int |-> HeldAfter(v, t)]]
           pick == [S \in SUBSET Ids |-> LastOf(S)]
           zero == 0
           ints == Int
<1>1. zero \in ints /\ op \in [Ids -> [ints -> ints]] /\ IsFiniteSet(Ids)
  BY HeldAfterInt, IdsAreNumbers
<1>2. Picks(pick, Ids)
  BY LastIn DEF Picks
<1>3. \A v \in ints, t \in Ids : op[t][v] = HeldAfter(v, t)
  OBVIOUS
<1>4. \A S \in SUBSET Ids : pick[S] = LastOf(S)
  OBVIOUS
<1> HIDE DEF op, pick, zero, ints
<1>5. PICK g \in [SUBSET Ids -> ints] : IsFold(g, zero, op, pick, Ids)
  BY <1>1, <1>2, FoldExists
<1>6. ASSUME NEW S \in SUBSET Ids PROVE g[S] = HeldOf(g, S)
  <2>1. CASE S = {}
    BY <1>5, <2>1 DEF IsFold, Folded, HeldOf, zero
  <2>2. CASE S # {}
    <3>1. pick[S] = LastOf(S) /\ LastOf(S) \in Ids /\ S \ {LastOf(S)} \in SUBSET Ids
      BY <1>4, <2>2, LastIn
    <3>2. g[S] = op[LastOf(S)][g[S \ {LastOf(S)}]]
      BY <1>5, <2>2, <3>1 DEF IsFold, Folded
    <3> QED BY <1>3, <2>2, <3>1, <3>2 DEF HeldOf
  <2> QED BY <2>1, <2>2
<1> QED BY <1>6 DEF ints

LEMMA HeldIs ==
  ASSUME TypeOK
  PROVE  Held \in [SUBSET Ids -> Int] /\ Held = [S \in SUBSET Ids |-> HeldOf(Held, S)]
<1>1. Held = CHOOSE g : g = [S \in SUBSET Ids |-> HeldOf(g, S)]
  BY DEF Held, HeldOf
<1>2. Held = [S \in SUBSET Ids |-> HeldOf(Held, S)]
  BY <1>1, HeldExists
<1> DEFINE bad == {S \in SUBSET Ids : Held[S] \notin Int}
<1>3. bad = {}
  <2> SUFFICES ASSUME bad # {} PROVE FALSE
    OBVIOUS
  <2>1. PICK s \in bad : \A x \in s : s \ {x} \notin bad
    <3>1. \A s \in bad : IsFiniteSet(s)
      BY FS_Subset, IdsAreNumbers
    <3> HIDE DEF bad
    <3> QED BY <3>1, Smallest
  <2>2. Held[s] = HeldOf(Held, s) /\ s \in SUBSET Ids
    BY <1>2
  <2>3. s # {}
    BY <2>2 DEF HeldOf
  <2>4. LastOf(s) \in s /\ LastOf(s) \in Ids
    BY <2>2, <2>3, LastIn
  <2>5. Held[s \ {LastOf(s)}] \in Int
    BY <2>1, <2>2, <2>4
  <2> QED BY <2>2, <2>3, <2>4, <2>5, HeldAfterInt DEF HeldOf
<1>4. \A S \in SUBSET Ids : Held[S] \in Int
  BY <1>3
<1> HIDE DEF bad
<1> QED BY <1>2, <1>4

(* The holding after one more transaction, later than all the others.      *)
LEMMA HeldNext ==
  ASSUME TypeOK, NEW S \in SUBSET Ids, NEW t \in Ids \ S, \A u \in S : Precedes(u, t)
  PROVE  Held[S \cup {t}] = HeldAfter(Held[S], t)
<1> DEFINE T == S \cup {t}
<1>1. IsLast(t, T) /\ T \in SUBSET Ids /\ T # {}
  BY DEF IsLast
<1>2. LastOf(T) = t /\ T \ {t} = S
  BY <1>1, LastIs
<1>3. Held[T] = HeldOf(Held, T)
  BY <1>1, HeldIs
<1> HIDE DEF T
<1> QED BY <1>1, <1>2, <1>3 DEF HeldOf, T

LEMMA HeldNone == TypeOK => Held[{}] = 0
BY HeldIs DEF HeldOf

(* It is a function of the ledger.                                         *)
LEMMA HeldKept == ledger' = ledger => Held' = Held
<1> DEFINE Acq(l, t) == l[t].type \in AcquisitionTypes
           Dis(l, t) == l[t].type \in DisposalTypes
           Rank(l, t) == IF Dis(l, t) THEN 0 ELSE 1
           Pre(l, a, b) ==
             \/ l[a].date < l[b].date
             \/ /\ l[a].date = l[b].date
                /\ \/ Rank(l, a) < Rank(l, b)
                   \/ Rank(l, a) = Rank(l, b) /\ a < b
           LatestOf(l, S) == CHOOSE t \in S : \A u \in S \ {t} : Pre(l, u, t)
           After(l, h, t) ==
             CASE Acq(l, t) \/ l[t].type = "RIGHTS_ISSUE" -> h + l[t].quantity
               [] Dis(l, t) -> h - l[t].quantity
               [] l[t].type = "SPLIT" /\ l[t].given -> RoundDiv(h * l[t].num, l[t].den)
               [] l[t].type = "UNSPLIT" /\ l[t].given -> RoundDiv(h * l[t].den, l[t].num)
               [] OTHER -> h
           H(l) == CHOOSE g : g = [S \in SUBSET Ids |->
                     IF S = {} THEN 0 ELSE After(l, g[S \ {LatestOf(l, S)}], LatestOf(l, S))]
<1>1. Held = H(ledger)
  BY DEF Held, HeldAfter, LastOf, Precedes, DisposalRank, IsAcquisition, IsDisposal
<1>2. Held' = H(ledger')
  BY DEF Held, HeldAfter, LastOf, Precedes, DisposalRank, IsAcquisition, IsDisposal
<1> HIDE DEF H
<1> QED BY <1>1, <1>2
-----------------------------------------------------------------------------
(* The pool and the holding.  The holding counts a transaction at its face *)
(* value when the loop takes it; the pool lags behind by what the disposal *)
(* in hand has still to identify, and runs ahead by what disposals have    *)
(* identified with acquisitions the loop has still to take.                *)
Ordered == \A u \in Ids \ pending, v \in pending : Precedes(u, v)
LatestInHand == cur # NoTxn => \A u \in (Ids \ pending) \ {cur} : Precedes(u, cur)
NothingInHand == cur = NoTxn /\ ~rejected => toMatch = 0

IdentifiedOf == [a \in Ids |-> ledger[a].quantity - remaining[a]]
Ahead == SumOf(IdentifiedOf, Acquisitions \cap pending)
Balanced ==
  ~rejected /\ AllPriced /\ NoMatchAcrossSplit =>
    pool.quantity = Held[Ids \ pending] + toMatch + Ahead

PInv == SInv /\ Ordered /\ LatestInHand /\ NothingInHand /\ Balanced

LEMMA PInvTypes ==
  ASSUME PInv
  PROVE  /\ TypeOK /\ toMatch \in Nat /\ pool.quantity \in Nat /\ pending \subseteq Ids
         /\ remaining \in [Ids -> Nat]
         /\ \A t \in Ids : ledger[t].quantity \in Nat \ {0} /\ ledger[t] \in Txn
         /\ Held[Ids \ pending] \in Int
         /\ \A S \in SUBSET Ids : Ints(IdentifiedOf, S)
<1>1. TypeOK
  BY DEF PInv, SInv, IInv
<1>2. \A t \in Ids : ledger[t].quantity \in Nat \ {0} /\ ledger[t] \in Txn
  BY <1>1 DEF TypeOK, Txn
<1>3. Held[Ids \ pending] \in Int
  BY <1>1, HeldIs
<1>4. ASSUME NEW S \in SUBSET Ids PROVE Ints(IdentifiedOf, S)
  <2>1. IsFiniteSet(S)
    BY FS_Subset, IdsAreNumbers
  <2> QED BY <1>1, <1>2, <2>1 DEF Ints, IdentifiedOf, TypeOK
<1> QED BY <1>1, <1>2, <1>3, <1>4 DEF TypeOK

LEMMA InitPInv == Init => PInv
<1> SUFFICES ASSUME Init PROVE PInv
  OBVIOUS
<1>1. SInv /\ TypeOK /\ pending = Ids /\ cur = NoTxn /\ toMatch = 0 /\ pool.quantity = 0
  BY InitSInv DEF Init, EmptyPool, SInv, IInv
<1>2. Ordered /\ LatestInHand /\ NothingInHand
  BY <1>1 DEF Ordered, LatestInHand, NothingInHand
<1>3. Held[Ids \ pending] = 0
  <2>1. Ids \ pending = {}
    BY <1>1
  <2> QED BY <1>1, <2>1, HeldNone
<1>4. Ahead = 0
  <2>1. \A a \in Acquisitions : a \in Ids /\ IdentifiedOf[a] = 0
    <3>1. \A a \in Ids : ledger[a].quantity \in Nat
      BY <1>1 DEF TypeOK, Txn
    <3> QED BY <3>1 DEF Init, Acquisitions, IdentifiedOf
  <2>2. Ints(IdentifiedOf, Acquisitions \cap pending)
    BY <2>1, FS_Subset, IdsAreNumbers DEF Ints
  <2> QED BY <2>1, <2>2, SumZero DEF Ahead
<1> QED BY <1>1, <1>2, <1>3, <1>4 DEF PInv, Balanced

(* The conditions on the ledger and on the slices so far.                  *)
LEMMA ConditionsKept ==
  ASSUME ledger' = ledger, disposals \subseteq disposals'
  PROVE  /\ AllPriced' = AllPriced
         /\ NoMatchAcrossSplit' => NoMatchAcrossSplit
         /\ Acquisitions' = Acquisitions
         /\ Ordered /\ pending' = pending => Ordered'
         /\ LatestInHand /\ pending' = pending /\ cur' \in {cur, NoTxn} => LatestInHand'
<1>1. \A t : /\ IsAcquisition(t)' = IsAcquisition(t) /\ IsDisposal(t)' = IsDisposal(t)
             /\ IsSplit(t)' = IsSplit(t) /\ Priced(t)' = Priced(t)
  BY DEF IsAcquisition, IsDisposal, IsSplit, Priced
<1>2. \A a, b : Precedes(a, b)' = Precedes(a, b)
  BY DEF Precedes, DisposalRank, IsDisposal
<1>3. \A s : SplitDuring(s)' = SplitDuring(s)
  BY <1>1, <1>2 DEF SplitDuring
<1>4. AllPriced' = AllPriced /\ Acquisitions' = Acquisitions
  BY <1>1 DEF AllPriced, Acquisitions
<1>5. NoMatchAcrossSplit' => NoMatchAcrossSplit
  BY <1>3 DEF NoMatchAcrossSplit
<1>6. Ordered /\ pending' = pending => Ordered'
  BY <1>2 DEF Ordered
<1>7. LatestInHand /\ pending' = pending /\ cur' \in {cur, NoTxn} => LatestInHand'
  BY <1>2 DEF LatestInHand
<1> QED BY <1>4, <1>5, <1>6, <1>7

(* A slice from an acquisition: the loop has still to take it.             *)
LEMMA AcquisitionAhead ==
  ASSUME PInv, NEW s, Identifies(s), FromAcquisition(s)
  PROVE  s.acq \in Acquisitions \cap pending
<1>1. /\ s.acq \in Ids /\ cur \in Ids /\ cur \notin pending /\ s.acq \in Acquisitions
      /\ IsAcquisition(s.acq) /\ IsDisposal(cur) /\ cur # NoTxn
      /\ ledger[cur].date <= ledger[s.acq].date
      /\ ledger[cur].date \in Nat /\ ledger[s.acq].date \in Nat
  BY PInvTypes DEF FromAcquisition, Identifies, Matching, TypeOK, Acquisitions, PInv, SInv, InHand, Txn
<1>2. ~IsDisposal(s.acq)
  BY <1>1 DEF IsAcquisition, IsDisposal, AcquisitionTypes, DisposalTypes
<1>3. Precedes(cur, s.acq) /\ s.acq # cur
  BY <1>1, <1>2 DEF Precedes, DisposalRank
<1>4. s.acq \notin Ids \ pending
  BY <1>1, <1>3, PrecedesOrders, PInvTypes DEF PInv, LatestInHand
<1> QED BY <1>1, <1>4

LEMMA IdentifiesBalances ==
  ASSUME PInv, SInv', NEW s, Identifies(s)
  PROVE  PInv'
<1>1. /\ s.quantity \in Nat \ {0} /\ toMatch' = toMatch - s.quantity
      /\ ledger' = ledger /\ pending' = pending /\ cur' = cur /\ rejected' = rejected
      /\ disposals \subseteq disposals' /\ cur # NoTxn
  BY DEF Identifies, SliceType, Matching
<1>2. Ordered' /\ LatestInHand' /\ NothingInHand'
  BY <1>1, ConditionsKept DEF PInv, NothingInHand
<1>3. Held'[Ids \ pending'] = Held[Ids \ pending]
  BY <1>1, HeldKept
<1>4. Acquisitions' = Acquisitions
  BY <1>1, ConditionsKept
<1> DEFINE P == Acquisitions \cap pending
           f == IdentifiedOf
<1>5. Ahead' = SumOf(f', P)
  BY <1>1, <1>4 DEF Ahead
<1>6. P \subseteq Ids /\ Ints(f, P) /\ Ahead \in Int /\ pool.quantity \in Nat
  BY PInvTypes, SumInt DEF Ahead, Acquisitions
<1>7. CASE FromPool(s)
  <2>1. pool'.quantity = pool.quantity - s.quantity
    BY <1>7 DEF FromPool, DisposeFromPool
  <2>2. f' = f
    BY <1>1, <1>7 DEF FromPool, IdentifiedOf
  <2>3. Ahead' = Ahead
    BY <1>5, <2>2 DEF Ahead
  <2>4. Balanced'
    <3> SUFFICES ASSUME ~rejected', AllPriced', NoMatchAcrossSplit'
                 PROVE  pool'.quantity = Held'[Ids \ pending'] + toMatch' + Ahead'
      BY DEF Balanced
    <3>1. ~rejected /\ AllPriced /\ NoMatchAcrossSplit
      BY <1>1, ConditionsKept
    <3>2. pool.quantity = Held[Ids \ pending] + toMatch + Ahead
      BY <3>1 DEF PInv, Balanced
    <3> QED BY <1>1, <1>3, <1>6, <2>1, <2>3, <3>2, PInvTypes
  <2> QED BY <1>2, <2>4 DEF PInv
<1>8. CASE FromAcquisition(s)
  <2> DEFINE a == s.acq
             q == s.quantity
  <2>1. a \in P /\ a \in Ids
    BY <1>6, <1>8, AcquisitionAhead
  <2>2. /\ remaining' = [remaining EXCEPT ![a] = @ - q] /\ pool' = pool
        /\ remaining \in [Ids -> Nat] /\ \A t \in Ids : ledger[t].quantity \in Nat
    BY <1>8, PInvTypes DEF FromAcquisition
  <2>3. f'[a] = f[a] + q
    BY <1>1, <2>1, <2>2 DEF IdentifiedOf
  <2>4. \A x \in Ids \ {a} : f'[x] = f[x]
    BY <1>1, <2>1, <2>2 DEF IdentifiedOf
  <2>5. Ints(f', P) /\ Ints(f, P \ {a}) /\ Ints(f', P \ {a})
    <3>1. IsFiniteSet(P) /\ IsFiniteSet(P \ {a}) /\ \A x \in P : f[x] \in Int
      BY <1>6, FS_Subset DEF Ints
    <3> HIDE DEF f
    <3> QED BY <1>1, <1>6, <2>1, <2>3, <2>4, <3>1 DEF Ints
  <2> DEFINE e == f'
  <2> HIDE DEF f, e, a, q, P
  <2>6. SumOf(e, P) = e[a] + SumOf(e, P \ {a}) /\ SumOf(f, P) = f[a] + SumOf(f, P \ {a})
    BY <1>6, <2>1, <2>5, SumRemove DEF e
  <2>7. SumOf(e, P \ {a}) = SumOf(f, P \ {a})
    BY <1>6, <2>4, <2>5, SumSame DEF e
  <2>8. SumOf(f, P \ {a}) \in Int /\ f[a] \in Int /\ q \in Int
    BY <1>1, <1>6, <2>1, <2>5, SumInt DEF Ints, q
  <2>9. Ahead' = Ahead + q
    BY <1>5, <2>3, <2>6, <2>7, <2>8 DEF Ahead, P, f, e
  <2>10. Balanced'
    <3> SUFFICES ASSUME ~rejected', AllPriced', NoMatchAcrossSplit'
                 PROVE  pool'.quantity = Held'[Ids \ pending'] + toMatch' + Ahead'
      BY DEF Balanced
    <3>1. ~rejected /\ AllPriced /\ NoMatchAcrossSplit
      BY <1>1, ConditionsKept
    <3>2. pool.quantity = Held[Ids \ pending] + toMatch + Ahead
      BY <3>1 DEF PInv, Balanced
    <3> QED BY <1>1, <1>3, <1>6, <2>2, <2>9, <3>2, PInvTypes DEF q
  <2> QED BY <1>2, <2>10 DEF PInv
<1> QED BY <1>7, <1>8 DEF Identifies

(* The next transaction of the loop, and the holding with it.              *)
LEMMA NextTaken ==
  ASSUME PInv, NEW t \in Ids, IsNext(t), pending' = pending \ {t},
         UNCHANGED <<ledger, remaining, disposals, rejected>>,
         cur' \in {cur, t}
  PROVE  /\ Ordered' /\ LatestInHand'
         /\ Held'[Ids \ pending'] = HeldAfter(Held[Ids \ pending], t)
         /\ Acquisitions' = Acquisitions /\ IdentifiedOf' = IdentifiedOf
         /\ toMatch = 0 /\ cur = NoTxn /\ ~rejected
<1>1. /\ t \in pending /\ cur = NoTxn /\ ~rejected /\ toMatch = 0 /\ pending \subseteq Ids
      /\ \A u \in pending \ {t} : Precedes(t, u)
      /\ \A u \in Ids \ pending : Precedes(u, t)
      /\ Ids \ pending' = (Ids \ pending) \cup {t}
  BY PInvTypes DEF IsNext, IsFirst, PInv, NothingInHand, Ordered
<1>2. \A a, b : Precedes(a, b)' = Precedes(a, b)
  BY DEF Precedes, DisposalRank, IsDisposal
<1>3. Ordered' /\ LatestInHand'
  BY <1>1, <1>2 DEF Ordered, LatestInHand, PInv
<1>4. Held' = Held
  BY HeldKept
<1>5. Held[(Ids \ pending) \cup {t}] = HeldAfter(Held[Ids \ pending], t)
  BY <1>1, PInvTypes, HeldNext
<1>6. Acquisitions' = Acquisitions /\ IdentifiedOf' = IdentifiedOf
  BY DEF Acquisitions, IsAcquisition, IdentifiedOf
<1> QED BY <1>1, <1>3, <1>4, <1>5, <1>6

(* What runs ahead before and after an acquisition is taken.               *)
LEMMA AheadNext ==
  ASSUME PInv, NEW t \in pending, pending' = pending \ {t},
         Acquisitions' = Acquisitions, IdentifiedOf' = IdentifiedOf
  PROVE  /\ Ahead \in Int /\ Ahead' \in Int
         /\ Ahead = Ahead' + (IF t \in Acquisitions THEN IdentifiedOf[t] ELSE 0)
<1> DEFINE P == Acquisitions \cap pending
           Q == P \ {t}
           f == IdentifiedOf
<1>1. P \subseteq Ids /\ Ints(f, P) /\ Ints(f, Q)
  BY PInvTypes DEF Acquisitions
<1>2. Ahead = SumOf(f, P) /\ Ahead' = SumOf(f, Q)
  <2>1. Acquisitions' \cap pending' = Q
    OBVIOUS
  <2> QED BY <2>1 DEF Ahead
<1>3. SumOf(f, P) \in Int /\ SumOf(f, Q) \in Int
  BY <1>1, SumInt
<1>4. CASE t \in Acquisitions
  <2>1. t \in P
    BY <1>4
  <2> HIDE DEF f, P
  <2>2. SumOf(f, P) = f[t] + SumOf(f, P \ {t}) /\ f[t] \in Int
    BY <1>1, <2>1, SumRemove DEF Ints
  <2>3. SumOf(f, P) = SumOf(f, Q) + f[t]
    BY <1>3, <2>2
  <2> QED BY <1>2, <1>3, <1>4, <2>3 DEF f
<1>5. CASE t \notin Acquisitions
  <2>1. P = Q
    BY <1>5
  <2> HIDE DEF f, P, Q
  <2> QED BY <1>2, <1>3, <1>5, <2>1
<1> HIDE DEF P, Q, f
<1> QED BY <1>2, <1>3, <1>4, <1>5 DEF f

(* At a split nothing has run ahead: an acquisition the loop has still to  *)
(* take and a slice has drawn on would be matched across the split.        *)
LEMMA NothingAhead ==
  ASSUME PInv, NEW t \in Ids, IsNext(t), IsSplit(t), NoMatchAcrossSplit
  PROVE  Ahead = 0
<1> DEFINE P == Acquisitions \cap pending
<1>1. P \subseteq Ids /\ Ints(IdentifiedOf, P)
  BY PInvTypes DEF Acquisitions
<1>2. /\ t \in pending /\ \A u \in pending \ {t} : Precedes(t, u)
      /\ \A u \in Ids \ pending : Precedes(u, t)
  BY DEF IsNext, IsFirst, PInv, Ordered
<1>3. ASSUME NEW a \in P PROVE IdentifiedOf[a] = 0
  <2>1. a # t /\ a \in Ids /\ a \in pending
    BY <1>1 DEF IsSplit, Acquisitions, IsAcquisition, AcquisitionTypes
  <2>2. Precedes(t, a) /\ a # NoTxn
    BY <1>2, <2>1, IdsAreNumbers
  <2>3. ASSUME NEW s \in disposals PROVE s.acq # a
    <3> SUFFICES ASSUME s.acq = a PROVE FALSE
      OBVIOUS
    <3>1. s.txn \in Ids \ pending
      BY DEF PInv, SInv, IInv, TypeOK, SliceType, TakenSlices
    <3>2. SplitDuring(s)
      BY <1>2, <2>2, <3>1 DEF SplitDuring
    <3> QED BY <2>2, <3>2 DEF NoMatchAcrossSplit
  <2>4. SlicesFrom(a) = {}
    BY <2>3 DEF SlicesFrom
  <2>5. Shares(SlicesFrom(a)) + remaining[a] = ledger[a].quantity
    BY DEF PInv, SInv, AcquiredShares
  <2>6. remaining[a] \in Nat /\ ledger[a].quantity \in Nat
    BY <2>1, PInvTypes
  <2> QED BY <2>1, <2>4, <2>5, <2>6, SharesEmpty DEF IdentifiedOf
<1> QED BY <1>1, <1>3, SumZero DEF Ahead
(* A transaction other than a disposal: the pool changes as the holding    *)
(* does, by what has not run ahead.                                        *)
PoolFollows(t, newPool) ==
  newPool.quantity + (IF t \in Acquisitions THEN IdentifiedOf[t] ELSE 0)
    = HeldAfter(Held[Ids \ pending], t) + Ahead

LEMMA TakeOtherBalances ==
  ASSUME PInv, SInv', NEW t \in Ids, NEW newPool, TakeOther(t, newPool),
         newPool.quantity \in Nat,
         AllPriced /\ NoMatchAcrossSplit => PoolFollows(t, newPool)
  PROVE  PInv'
<1>1. /\ IsNext(t) /\ pending' = pending \ {t} /\ pool' = newPool
      /\ UNCHANGED <<ledger, cur, toMatch, remaining, disposals, rejected>>
      /\ t \in pending
  BY DEF TakeOther, IsNext, IsFirst
<1>2. /\ Ordered' /\ LatestInHand'
      /\ Held'[Ids \ pending'] = HeldAfter(Held[Ids \ pending], t)
      /\ Acquisitions' = Acquisitions /\ IdentifiedOf' = IdentifiedOf
      /\ toMatch = 0
  BY <1>1, NextTaken
<1>3. NothingInHand'
  BY <1>1 DEF PInv, NothingInHand
<1>4. /\ Ahead \in Int /\ Ahead' \in Int
      /\ Ahead = Ahead' + (IF t \in Acquisitions THEN IdentifiedOf[t] ELSE 0)
  BY <1>1, <1>2, AheadNext
<1>5. Balanced'
  <2> SUFFICES ASSUME AllPriced', NoMatchAcrossSplit'
               PROVE  pool'.quantity = Held'[Ids \ pending'] + toMatch' + Ahead'
    BY DEF Balanced
  <2>1. AllPriced /\ NoMatchAcrossSplit
    BY <1>1, ConditionsKept
  <2>2. HeldAfter(Held[Ids \ pending], t) \in Int
    BY PInvTypes, HeldAfterInt
  <2>3. IdentifiedOf[t] \in Int
    BY PInvTypes DEF IdentifiedOf
  <2> QED BY <1>1, <1>2, <1>4, <2>1, <2>2, <2>3 DEF PoolFollows
<1> QED BY <1>2, <1>3, <1>5 DEF PInv

LEMMA TakeDisposalBalances ==
  ASSUME PInv, SInv', NEW t \in Ids, TakeDisposal(t)
  PROVE  PInv'
<1>1. /\ IsNext(t) /\ pending' = pending \ {t} /\ cur' = t /\ toMatch' = ledger[t].quantity
      /\ UNCHANGED <<ledger, remaining, pool, disposals, rejected>>
      /\ t \in pending /\ t # NoTxn /\ IsDisposal(t)
  BY IdsAreNumbers DEF TakeDisposal, IsNext, IsFirst
<1>2. /\ Ordered' /\ LatestInHand'
      /\ Held'[Ids \ pending'] = HeldAfter(Held[Ids \ pending], t)
      /\ Acquisitions' = Acquisitions /\ IdentifiedOf' = IdentifiedOf
      /\ toMatch = 0 /\ ~rejected
  BY <1>1, NextTaken
<1>3. NothingInHand'
  BY <1>1 DEF NothingInHand
<1>4. /\ t \notin Acquisitions /\ ~IsAcquisition(t)
      /\ ledger[t].type \notin {"RIGHTS_ISSUE", "SPLIT", "UNSPLIT"}
  BY <1>1 DEF Acquisitions, IsAcquisition, IsDisposal, AcquisitionTypes, DisposalTypes
<1>5. Ahead \in Int /\ Ahead' = Ahead
  BY <1>1, <1>2, <1>4, AheadNext
<1>6. HeldAfter(Held[Ids \ pending], t) = Held[Ids \ pending] - ledger[t].quantity
  BY <1>1, <1>4 DEF HeldAfter
<1>7. Balanced'
  <2> SUFFICES ASSUME AllPriced', NoMatchAcrossSplit'
               PROVE  pool'.quantity = Held'[Ids \ pending'] + toMatch' + Ahead'
    BY DEF Balanced
  <2>1. pool.quantity = Held[Ids \ pending] + Ahead
    <3>1. AllPriced /\ NoMatchAcrossSplit
      BY <1>1, ConditionsKept
    <3> QED BY <1>2, <1>5, <3>1, PInvTypes DEF PInv, Balanced
  <2> QED BY <1>1, <1>2, <1>5, <1>6, <2>1, PInvTypes
<1> QED BY <1>2, <1>3, <1>7 DEF PInv

LEMMA OtherBalances ==
  ASSUME PInv, SInv', NEW t \in Ids,
         \/ TakeAcquisition(t) \/ TakeSplit(t) \/ TakeUnsplit(t)
         \/ TakeCapReturn(t) \/ TakeRightsIssue(t) \/ TakeIgnored(t)
  PROVE  PInv'
<1> DEFINE held == Held[Ids \ pending]
           pooled == ~rejected /\ AllPriced /\ NoMatchAcrossSplit => pool.quantity = held + Ahead
<1>1. /\ pool.quantity \in Nat /\ remaining[t] \in Nat /\ held \in Int
      /\ ledger[t].quantity \in Nat /\ ledger[t].num \in Nat \ {0} /\ ledger[t].den \in Nat \ {0}
  BY PInvTypes DEF Txn
<1>2. IsNext(t) /\ t \in pending /\ ~rejected
  BY DEF TakeAcquisition, TakeSplit, TakeUnsplit, TakeCapReturn, TakeRightsIssue, TakeIgnored,
     TakeOther, IsNext, IsFirst
<1>3. toMatch = 0 /\ Ahead \in Int
  <2>1. Acquisitions \cap pending \subseteq Ids
    BY DEF Acquisitions
  <2> QED BY <1>2, <2>1, PInvTypes, SumInt DEF PInv, NothingInHand, IsNext, Ahead
<1>4. ASSUME AllPriced, NoMatchAcrossSplit PROVE pool.quantity = held + Ahead
  BY <1>1, <1>2, <1>3, <1>4 DEF PInv, Balanced
<1>5. CASE TakeAcquisition(t)
  <2> DEFINE cost == MatchedAcquisitionCost(t, remaining[t])
             new == IF remaining[t] > 0 /\ ledger[t].given
                    THEN AddToPool(pool, remaining[t], cost) ELSE pool
  <2>1. TakeOther(t, new) /\ IsAcquisition(t) /\ t \in Acquisitions
    BY <1>5 DEF TakeAcquisition, Acquisitions
  <2>2. AllPriced => new.quantity = pool.quantity + remaining[t]
    BY <1>1, <2>1 DEF AllPriced, Priced, AddToPool
  <2>3. new.quantity \in Nat
    BY <1>1 DEF AddToPool
  <2>4. HeldAfter(held, t) = held + ledger[t].quantity
    <3>1. ~IsDisposal(t) /\ ledger[t].type \notin {"RIGHTS_ISSUE", "SPLIT", "UNSPLIT"}
      BY <2>1 DEF IsAcquisition, IsDisposal, AcquisitionTypes, DisposalTypes
    <3> QED BY <2>1, <3>1 DEF HeldAfter
  <2>5. IdentifiedOf[t] = ledger[t].quantity - remaining[t]
    BY DEF IdentifiedOf
  <2> HIDE DEF new
  <2>6. AllPriced /\ NoMatchAcrossSplit => PoolFollows(t, new)
    BY <1>1, <1>3, <1>4, <2>1, <2>2, <2>4, <2>5 DEF PoolFollows
  <2> QED BY <2>1, <2>3, <2>6, TakeOtherBalances
<1>6. CASE TakeSplit(t)
  <2> DEFINE new == ApplyStockSplit(pool, ledger[t].num, ledger[t].den)
  <2>1. TakeOther(t, new) /\ IsSplit(t) /\ ledger[t].type = "SPLIT" /\ ledger[t].given
    BY <1>6 DEF TakeSplit, IsSplit
  <2>2. new.quantity = RoundDiv(pool.quantity * ledger[t].num, ledger[t].den)
    BY PInvTypes DEF ApplyStockSplit, TypeOK
  <2>3. new.quantity \in Nat
    BY <1>1, <2>2, RoundDivNat
  <2>4. HeldAfter(held, t) = RoundDiv(held * ledger[t].num, ledger[t].den) /\ t \notin Acquisitions
    BY <2>1 DEF HeldAfter, IsAcquisition, IsDisposal, AcquisitionTypes, DisposalTypes, Acquisitions
  <2>5. NoMatchAcrossSplit => Ahead = 0
    BY <1>2, <2>1, NothingAhead
  <2> HIDE DEF new
  <2>6. AllPriced /\ NoMatchAcrossSplit => PoolFollows(t, new)
    <3> SUFFICES ASSUME AllPriced, NoMatchAcrossSplit PROVE PoolFollows(t, new)
      OBVIOUS
    <3>1. pool.quantity = held /\ Ahead = 0
      BY <1>1, <1>4, <2>5
    <3> QED BY <2>2, <2>3, <2>4, <3>1 DEF PoolFollows
  <2> QED BY <2>1, <2>3, <2>6, TakeOtherBalances
<1>7. CASE TakeUnsplit(t)
  <2> DEFINE new == ApplyStockSplit(pool, ledger[t].den, ledger[t].num)
  <2>1. TakeOther(t, new) /\ IsSplit(t) /\ ledger[t].type = "UNSPLIT" /\ ledger[t].given
    BY <1>7 DEF TakeUnsplit, IsSplit
  <2>2. new.quantity = RoundDiv(pool.quantity * ledger[t].den, ledger[t].num)
    BY PInvTypes DEF ApplyStockSplit, TypeOK
  <2>3. new.quantity \in Nat
    BY <1>1, <2>2, RoundDivNat
  <2>4. HeldAfter(held, t) = RoundDiv(held * ledger[t].den, ledger[t].num) /\ t \notin Acquisitions
    BY <2>1 DEF HeldAfter, IsAcquisition, IsDisposal, AcquisitionTypes, DisposalTypes, Acquisitions
  <2>5. NoMatchAcrossSplit => Ahead = 0
    BY <1>2, <2>1, NothingAhead
  <2> HIDE DEF new
  <2>6. AllPriced /\ NoMatchAcrossSplit => PoolFollows(t, new)
    <3> SUFFICES ASSUME AllPriced, NoMatchAcrossSplit PROVE PoolFollows(t, new)
      OBVIOUS
    <3>1. pool.quantity = held /\ Ahead = 0
      BY <1>1, <1>4, <2>5
    <3> QED BY <2>2, <2>3, <2>4, <3>1 DEF PoolFollows
  <2> QED BY <2>1, <2>3, <2>6, TakeOtherBalances
<1>8. CASE TakeCapReturn(t)
  <2> DEFINE new == ApplyCapReturn(pool, ledger[t].price)
  <2>1. TakeOther(t, new) /\ ledger[t].type = "CAPRETURN"
    BY <1>8 DEF TakeCapReturn
  <2>2. new.quantity = pool.quantity
    BY PInvTypes DEF ApplyCapReturn, TypeOK
  <2>3. HeldAfter(held, t) = held /\ t \notin Acquisitions
    BY <2>1 DEF HeldAfter, IsAcquisition, IsDisposal, AcquisitionTypes, DisposalTypes, Acquisitions
  <2> HIDE DEF new
  <2>4. AllPriced /\ NoMatchAcrossSplit => PoolFollows(t, new)
    BY <1>1, <1>3, <1>4, <2>2, <2>3 DEF PoolFollows
  <2> QED BY <1>1, <2>1, <2>2, <2>4, TakeOtherBalances
<1>9. CASE TakeRightsIssue(t)
  <2> DEFINE new == AddToPool(pool, ledger[t].quantity, ledger[t].price * ledger[t].quantity)
  <2>1. TakeOther(t, new) /\ ledger[t].type = "RIGHTS_ISSUE"
    BY <1>9 DEF TakeRightsIssue
  <2>2. new.quantity = pool.quantity + ledger[t].quantity
    BY DEF AddToPool
  <2>3. HeldAfter(held, t) = held + ledger[t].quantity /\ t \notin Acquisitions
    BY <2>1 DEF HeldAfter, IsAcquisition, IsDisposal, AcquisitionTypes, DisposalTypes, Acquisitions
  <2> HIDE DEF new
  <2>4. AllPriced /\ NoMatchAcrossSplit => PoolFollows(t, new)
    BY <1>1, <1>3, <1>4, <2>2, <2>3 DEF PoolFollows
  <2> QED BY <1>1, <2>1, <2>2, <2>4, TakeOtherBalances
<1>10. CASE TakeIgnored(t)
  <2>1. TakeOther(t, pool)
    BY <1>10 DEF TakeIgnored
  <2>2. ledger[t].type = "DIV_PAY" \/ (ledger[t].type \in PoolEventTypes /\ ~ledger[t].given)
    BY <1>10 DEF TakeIgnored
  <2>3. ~IsAcquisition(t) /\ ~IsDisposal(t) /\ t \notin Acquisitions
    BY <2>2 DEF IsAcquisition, IsDisposal, AcquisitionTypes, DisposalTypes, PoolEventTypes, Acquisitions
  <2>4. AllPriced => ledger[t].type # "RIGHTS_ISSUE"
    BY <2>2 DEF AllPriced, Priced
  <2>5. AllPriced => HeldAfter(held, t) = held
    BY <2>2, <2>3, <2>4 DEF HeldAfter
  <2>6. AllPriced /\ NoMatchAcrossSplit => PoolFollows(t, pool)
    BY <1>1, <1>3, <1>4, <2>3, <2>5 DEF PoolFollows
  <2> QED BY <1>1, <2>1, <2>6, TakeOtherBalances
<1> QED BY <1>5, <1>6, <1>7, <1>8, <1>9, <1>10

LEMMA NextPInv == PInv /\ [Next]_vars => PInv'
<1> SUFFICES ASSUME PInv, [Next]_vars PROVE PInv'
  OBVIOUS
<1>1. SInv'
  BY NextSInv DEF PInv
<1>2. CASE MatchSameDay \/ MatchThirtyDay \/ MatchPool
  <2>1. PICK s : Identifies(s)
    BY <1>2, MatchIdentifies, PInvTypes
  <2> QED BY <1>1, <2>1, IdentifiesBalances
<1>3. ASSUME RejectDisposal \/ EndDisposal \/ UNCHANGED vars PROVE PInv'
  <2>1. /\ UNCHANGED <<ledger, pending, toMatch, remaining, pool, disposals>>
        /\ cur' \in {cur, NoTxn} /\ (rejected' \/ (rejected' = rejected /\ (toMatch = 0 \/ cur' = cur)))
    BY <1>3 DEF RejectDisposal, EndDisposal, vars
  <2>2. Ordered' /\ LatestInHand' /\ NothingInHand'
    BY <2>1, ConditionsKept DEF PInv, NothingInHand
  <2>3. Held' = Held /\ Acquisitions' = Acquisitions /\ IdentifiedOf' = IdentifiedOf
    BY <2>1, HeldKept, ConditionsKept DEF IdentifiedOf
  <2>4. Ahead' = Ahead
    BY <2>1, <2>3 DEF Ahead
  <2>5. Balanced'
    <3> SUFFICES ASSUME ~rejected', AllPriced', NoMatchAcrossSplit'
                 PROVE  pool'.quantity = Held'[Ids \ pending'] + toMatch' + Ahead'
      BY DEF Balanced
    <3>1. ~rejected
      BY <2>1
    <3>2. AllPriced /\ NoMatchAcrossSplit
      <4>1. ledger' = ledger /\ disposals \subseteq disposals'
        BY <2>1
      <4> QED BY <4>1, ConditionsKept
    <3>3. pool.quantity = Held[Ids \ pending] + toMatch + Ahead
      BY <3>1, <3>2 DEF PInv, Balanced
    <3> QED BY <2>1, <2>3, <2>4, <3>3
  <2> QED BY <1>1, <2>2, <2>5 DEF PInv
<1>4. ASSUME NEW t \in Ids, TakeDisposal(t) PROVE PInv'
  BY <1>1, <1>4, TakeDisposalBalances
<1>5. ASSUME NEW t \in Ids,
             \/ TakeAcquisition(t) \/ TakeSplit(t) \/ TakeUnsplit(t)
             \/ TakeCapReturn(t) \/ TakeRightsIssue(t) \/ TakeIgnored(t)
      PROVE  PInv'
  BY <1>1, <1>5, OtherBalances
<1> QED BY <1>2, <1>3, <1>4, <1>5 DEF Next, Step

LEMMA PInvPool == PInv => PoolIsHolding
<1> SUFFICES ASSUME PInv, Returned, AllPriced, NoMatchAcrossSplit
              PROVE  pool.quantity = Held[Ids]
    BY DEF PoolIsHolding
<1>1. Ids \ pending = Ids /\ toMatch = 0 /\ ~rejected
    BY DEF Returned, PInv, NothingInHand
<1>2. Acquisitions \cap pending = {}
    BY DEF Returned
<1>3. Ahead = 0
    BY <1>2, SumEmpty DEF Ahead
<1>4. pool.quantity = Held[Ids \ pending] + toMatch + Ahead
    BY <1>1 DEF PInv, Balanced
<1>5. Held[Ids \ pending] = Held[Ids] /\ Held[Ids \ pending] \in Int
    BY <1>1, PInvTypes
<1>6. Held[Ids \ pending] + toMatch + Ahead = Held[Ids \ pending]
    BY <1>1, <1>3, <1>5
<1> QED BY <1>4, <1>5, <1>6

(* For every ledger the pool that is returned is the holding.              *)
THEOREM PoolCorrect == Spec => []PoolIsHolding
BY PInvPool, InitPInv, NextPInv, PTL DEF Spec

-----------------------------------------------------------------------------
(* Rounding is off by at most a half, in whatever unit it is counted.      *)
LEMMA HalfUp ==
  ASSUME NEW n \in Nat, NEW d \in Nat \ {0}
  PROVE  /\ 2 * (d * ((2 * n + d) \div (2 * d))) - 2 * n <= d
         /\ -d <= 2 * (d * ((2 * n + d) \div (2 * d))) - 2 * n
<1> DEFINE m == 2 * n + d
           e == 2 * d
           q == m \div e
<1>1. m \in Nat /\ e \in Nat \ {0}
  OBVIOUS
<1>2. q \in Nat /\ e * q <= m /\ m < e * q + e
  <2> HIDE DEF m, e
  <2>1. m = e * (m \div e) + (m % e) /\ (m % e) \in 0 .. e - 1 /\ (m \div e) \in Nat
    BY <1>1
  <2>2. e * (m \div e) \in Nat
    BY <1>1, <2>1
  <2> QED BY <1>1, <2>1, <2>2 DEF q
<1> HIDE DEF q
<1>3. e * q = 2 * (d * q) /\ d * q \in Nat
  BY <1>2
<1>4. 2 * (d * q) - 2 * n <= d /\ -d <= 2 * (d * q) - 2 * n
  BY <1>2, <1>3
<1> QED BY <1>4 DEF q

LEMMA RoundDivNear ==
  ASSUME NEW n \in Int, NEW d \in Nat \ {0}
  PROVE  /\ 2 * (d * RoundDiv(n, d)) - 2 * n <= d
         /\ -d <= 2 * (d * RoundDiv(n, d)) - 2 * n
<1>1. CASE n >= 0
  <2>1. n \in Nat
    BY <1>1
  <2>2. RoundDiv(n, d) = (2 * n + d) \div (2 * d)
    BY <1>1 DEF RoundDiv
  <2> QED BY <2>1, <2>2, HalfUp
<1>2. CASE ~(n >= 0)
  <2> DEFINE k == -n
             q == (2 * k + d) \div (2 * d)
  <2>1. k \in Nat
    BY <1>2
  <2>2. RoundDiv(n, d) = -q
    BY <1>2 DEF RoundDiv
  <2>3. 2 * (d * q) - 2 * k <= d /\ -d <= 2 * (d * q) - 2 * k
    BY <2>1, HalfUp
  <2>4. q \in Int
    <3>1. 2 * k + d \in Nat /\ 2 * d \in Nat \ {0}
      BY <2>1
    <3> QED BY <3>1
  <2> HIDE DEF q
  <2>5. d * (-q) = -(d * q) /\ d * q \in Int
    BY <2>4
  <2>6. 2 * (d * (-q)) - 2 * n = -(2 * (d * q) - 2 * k)
    BY <2>5
  <2> QED BY <2>2, <2>3, <2>5, <2>6
<1> QED BY <1>1, <1>2

(* The same error with the fraction n / d written x / u.                   *)
LEMMA RoundDivScaled ==
  ASSUME NEW n \in Int, NEW d \in Nat \ {0}, NEW u \in Nat \ {0}, NEW x \in Int,
         u * n = d * x
  PROVE  /\ 2 * (u * RoundDiv(n, d) - x) <= u
         /\ -u <= 2 * (u * RoundDiv(n, d) - x)
<1> DEFINE g == RoundDiv(n, d)
           y == 2 * (u * g - x)
           e == 2 * (d * g) - 2 * n
<1>1. g \in Int /\ e <= d /\ -d <= e
  BY RoundDivInt, RoundDivNear
<1> HIDE DEF g
<1>2. y \in Int /\ e \in Int
  BY <1>1
<1>3. d * y = u * e
  BY <1>1
<1> HIDE DEF y, e
<1>4. u * e <= u * d /\ -(u * d) <= u * e
  BY <1>1, <1>2
<1>5. d * y <= d * u /\ -(d * u) <= d * y
  BY <1>3, <1>4
<1>6. y <= u
  BY <1>2, <1>5
<1>7. -u <= y
  BY <1>2, <1>5
<1> QED BY <1>6, <1>7 DEF y, g

(* A whole number is not rounded.                                          *)
LEMMA RoundDivWhole ==
  ASSUME NEW c \in Int, NEW d \in Nat \ {0}
  PROVE  RoundDiv(c * d, d) = c
<1>1. RoundDiv(c * d, d) \in Int
  BY RoundDivInt
<1> DEFINE g == RoundDiv(c * d, d)
<1>2. 2 * (1 * g - c) <= 1 /\ -1 <= 2 * (1 * g - c)
  <2> DEFINE one == 1
             n == c * d
  <2>1. one \in Nat \ {0} /\ n \in Int /\ one * n = d * c
    OBVIOUS
  <2> HIDE DEF one, n
  <2>2. 2 * (one * RoundDiv(n, d) - c) <= one /\ -one <= 2 * (one * RoundDiv(n, d) - c)
    BY <2>1, RoundDivScaled
  <2> QED BY <2>2 DEF one, n
<1> QED BY <1>1, <1>2

-----------------------------------------------------------------------------
(* The gains and the profit.  A gain is a rounded fraction of the quantity *)
(* of its disposal and of its acquisition; counted in units 1/u, with u a  *)
(* multiple of every quantity (u = k[t] * quantity of t), everything is a  *)
(* whole number.  Exact is what the gains recorded so far would be without *)
(* rounding: what the transactions taken have brought in less what they    *)
(* cost, with the cost still in the pool, less the proceeds of the shares  *)
(* in hand, and less the cost of the shares that were identified with      *)
(* acquisitions still to take.  Every slice and every acquisition adds at  *)
(* most a half to the difference.                                          *)
Shared(u, k) ==
  u \in Nat \ {0} /\ k \in [Ids -> Nat \ {0}] /\ \A t \in Ids : k[t] * ledger[t].quantity = u

NetOf == [t \in Ids |-> NetProceeds(t) - CostPaid(t)]
Earned == SumOf(NetOf, Ids \ pending)
CostAheadOf(k) == [a \in Ids |-> k[a] * (IdentifiedOf[a] * CostPaid(a))]
CostAhead(k) == SumOf(CostAheadOf(k), Acquisitions \cap pending)
PerShare(u, k, d) == u * UnitPrice(d) - k[d] * ledger[d].costs
Unmatched(u, k) == IF cur = NoTxn THEN 0 ELSE toMatch * PerShare(u, k, cur)
Exact(u, k) == u * (Earned + pool.cost) - Unmatched(u, k) - CostAhead(k)

Roundings == Cardinality(disposals) + Cardinality(Ids \ pending)
Within(e, b) == -b <= e /\ e <= b
GainsExact(u, k) == Within(2 * (u * GainsRecorded - Exact(u, k)), u * Roundings)
GainsFollow == ~rejected /\ FullyCosted => \A u, k : Shared(u, k) => GainsExact(u, k)

GInv == PInv /\ GainsFollow

LEMMA ErrorsAdd ==
  ASSUME NEW u \in Int, NEW e \in Int, NEW f \in Int, NEW b \in Int,
         Within(2 * e, u * b), Within(2 * f, u)
  PROVE  Within(2 * (e + f), u * (b + 1))
<1>1. u * (b + 1) = u * b + u /\ u * b \in Int
  OBVIOUS
<1> QED BY <1>1 DEF Within

(* Sums over the ledger and over the slices.                               *)
LEMMA CostTypes ==
  ASSUME TypeOK, NEW t \in Ids
  PROVE  /\ UnitPrice(t) \in Nat /\ ledger[t].costs \in Nat /\ ledger[t].quantity \in Nat \ {0}
         /\ CostPaid(t) \in Int /\ NetProceeds(t) \in Int /\ NetOf[t] \in Int
<1>1. UnitPrice(t) \in Nat /\ ledger[t].costs \in Nat /\ ledger[t].quantity \in Nat \ {0}
  BY DEF TypeOK, Txn, UnitPrice
<1>2. UnitPrice(t) * ledger[t].quantity \in Nat
  BY <1>1
<1>3. CostPaid(t) \in Int /\ NetProceeds(t) \in Int
  BY <1>1, <1>2 DEF CostPaid, NetProceeds
<1> QED BY <1>1, <1>3 DEF NetOf

GainsIn(S) == MapThenSumSet(LAMBDA s : s.gain, S)

LEMMA GainsSum ==
  ASSUME NEW S
  PROVE  GainsIn(S) = SumOf([s \in S |-> s.gain], S)
<1> DEFINE f == [s \in S |-> s.gain]
           B(g) == [s \in SUBSET S |-> IF s = {} THEN 0 ELSE f[OneOf(s)] + g[s \ {OneOf(s)}]]
           C(g) == [s \in SUBSET S |-> IF s = {} THEN 0 ELSE OneOf(s).gain + g[s \ {OneOf(s)}]]
<1>1. ASSUME NEW g PROVE B(g) = C(g)
  <2>1. \A s \in SUBSET S : s # {} => f[OneOf(s)] = OneOf(s).gain
    BY OneOfIn
  <2> HIDE DEF f
  <2> QED BY <2>1
<1>2. SumOf(f, S) = (CHOOSE g : g = B(g))[S]
  BY DEF SumOf, MapThenSumSet, MapThenFoldSet, OneOf
<1>3. GainsIn(S) = (CHOOSE g : g = C(g))[S]
  BY DEF GainsIn, MapThenSumSet, MapThenFoldSet, OneOf
<1>4. \A g : (g = B(g)) <=> (g = C(g))
  BY <1>1
<1> HIDE DEF B, C, f
<1>5. (CHOOSE g : g = B(g)) = (CHOOSE g : g = C(g))
  BY <1>4
<1> QED BY <1>2, <1>3, <1>5 DEF f

LEMMA ProceedsSum == Total(NetProceeds, Ids) = SumOf([t \in Ids |-> NetProceeds(t)], Ids)
<1> DEFINE f == [t \in Ids |-> NetProceeds(t)]
           B(g) == [s \in SUBSET Ids |-> IF s = {} THEN 0 ELSE f[OneOf(s)] + g[s \ {OneOf(s)}]]
           C(g) == [s \in SUBSET Ids |->
                      IF s = {} THEN 0 ELSE NetProceeds(OneOf(s)) + g[s \ {OneOf(s)}]]
<1>1. ASSUME NEW g PROVE B(g) = C(g)
  <2>1. \A s \in SUBSET Ids : s # {} => f[OneOf(s)] = NetProceeds(OneOf(s))
    BY OneOfIn
  <2> HIDE DEF f
  <2> QED BY <2>1
<1>2. SumOf(f, Ids) = (CHOOSE g : g = B(g))[Ids]
  BY DEF SumOf, MapThenSumSet, MapThenFoldSet, OneOf
<1>3. Total(NetProceeds, Ids) = (CHOOSE g : g = C(g))[Ids]
  BY DEF Total, MapThenSumSet, MapThenFoldSet, OneOf
<1>4. \A g : (g = B(g)) <=> (g = C(g))
  BY <1>1
<1> HIDE DEF B, C, f
<1>5. (CHOOSE g : g = B(g)) = (CHOOSE g : g = C(g))
  BY <1>4
<1> QED BY <1>2, <1>3, <1>5 DEF f

LEMMA CostSum == Total(CostPaid, Ids) = SumOf([t \in Ids |-> CostPaid(t)], Ids)
<1> DEFINE f == [t \in Ids |-> CostPaid(t)]
           B(g) == [s \in SUBSET Ids |-> IF s = {} THEN 0 ELSE f[OneOf(s)] + g[s \ {OneOf(s)}]]
           C(g) == [s \in SUBSET Ids |->
                      IF s = {} THEN 0 ELSE CostPaid(OneOf(s)) + g[s \ {OneOf(s)}]]
<1>1. ASSUME NEW g PROVE B(g) = C(g)
  <2>1. \A s \in SUBSET Ids : s # {} => f[OneOf(s)] = CostPaid(OneOf(s))
    BY OneOfIn
  <2> HIDE DEF f
  <2> QED BY <2>1
<1>2. SumOf(f, Ids) = (CHOOSE g : g = B(g))[Ids]
  BY DEF SumOf, MapThenSumSet, MapThenFoldSet, OneOf
<1>3. Total(CostPaid, Ids) = (CHOOSE g : g = C(g))[Ids]
  BY DEF Total, MapThenSumSet, MapThenFoldSet, OneOf
<1>4. \A g : (g = B(g)) <=> (g = C(g))
  BY <1>1
<1> HIDE DEF B, C, f
<1>5. (CHOOSE g : g = B(g)) = (CHOOSE g : g = C(g))
  BY <1>4
<1> QED BY <1>2, <1>3, <1>5 DEF f

(* The difference of two sums.                                             *)
LEMMA SumLess ==
  ASSUME NEW f, NEW e, NEW d, NEW S, Ints(f, S), Ints(e, S), \A x \in S : d[x] = f[x] - e[x]
  PROVE  SumOf(d, S) = SumOf(f, S) - SumOf(e, S)
<1> DEFINE bad == {s \in SUBSET S : SumOf(d, s) # SumOf(f, s) - SumOf(e, s)}
<1>1. \A s \in SUBSET S : IsFiniteSet(s) /\ Ints(f, s) /\ Ints(e, s) /\ Ints(d, s)
  BY FS_Subset DEF Ints
<1>2. bad = {}
  <2> SUFFICES ASSUME bad # {} PROVE FALSE
    OBVIOUS
  <2>1. PICK s \in bad : \A z \in s : s \ {z} \notin bad
    <3>1. \A s \in bad : IsFiniteSet(s)
      BY <1>1
    <3> HIDE DEF bad
    <3> QED BY <3>1, Smallest
  <2>2. s # {}
    BY SumEmpty
  <2> DEFINE p == OneOf(s)
             t == s \ {p}
  <2>3. p \in s /\ t \in SUBSET S
    BY <2>2, OneOfIn
  <2>4. /\ SumOf(f, s) = f[p] + SumOf(f, t)
        /\ SumOf(e, s) = e[p] + SumOf(e, t)
        /\ SumOf(d, s) = d[p] + SumOf(d, t)
    BY <1>1, <2>2, SumAny
  <2>5. SumOf(d, t) = SumOf(f, t) - SumOf(e, t)
    BY <2>1, <2>3
  <2>6. /\ f[p] \in Int /\ e[p] \in Int /\ d[p] = f[p] - e[p]
        /\ SumOf(f, t) \in Int /\ SumOf(e, t) \in Int
    BY <1>1, <2>3, SumInt DEF Ints
  <2> HIDE DEF p, t
  <2> QED BY <2>4, <2>5, <2>6
<1> QED BY <1>2

LEMMA GainsAdd ==
  ASSUME SInv, NEW s, Identifies(s)
  PROVE  /\ GainsRecorded \in Int /\ s.gain \in Int
         /\ GainsRecorded' = GainsRecorded + s.gain
         /\ Cardinality(disposals) \in Nat
         /\ Cardinality(disposals') = Cardinality(disposals) + 1
<1> DEFINE S == disposals
           T == S \cup {s}
           f == [x \in T |-> x.gain]
           h == [x \in S |-> x.gain]
<1>1. /\ s \in SliceType /\ disposals' = T /\ S \in SUBSET SliceType /\ s \notin S
      /\ IsFiniteSet(S)
  BY IdentifiesTypes DEF SInv
<1>2. Ints(f, T) /\ Ints(h, S) /\ s.gain \in Int
  BY <1>1, FS_AddElement DEF Ints, SliceType
<1>3. (\A x \in S : f[x] = h[x]) /\ f[s] = s.gain
  OBVIOUS
<1>4. GainsRecorded = SumOf(h, S) /\ GainsRecorded' = SumOf(f, T)
  <2>1. GainsRecorded = GainsIn(disposals) /\ GainsRecorded' = GainsIn(disposals')
    BY DEF GainsRecorded, Total, GainsIn, MapThenSumSet, MapThenFoldSet
  <2> QED BY <1>1, <2>1, GainsSum
<1>5. Cardinality(S) \in Nat /\ Cardinality(T) = Cardinality(S) + 1
  BY <1>1, FS_AddElement, FS_CardinalityType
<1>6. Ints(f, S)
  BY <1>2, <1>3 DEF Ints
<1> HIDE DEF f, h
<1>7. SumOf(f, T) = f[s] + SumOf(f, S)
  BY <1>1, <1>2, SumAdd
<1>8. SumOf(f, S) = SumOf(h, S)
  BY <1>3, <1>6, SumSame
<1>9. SumOf(h, S) \in Int
  BY <1>2, SumInt
<1> QED BY <1>1, <1>2, <1>3, <1>4, <1>5, <1>7, <1>8, <1>9

(* The whole cost of an acquisition is what its shares cost together.      *)
LEMMA CostOver ==
  ASSUME TypeOK, NEW a \in Acquisitions, NEW m \in Nat
  PROVE  /\ MatchedCostOver(a, m) = m * CostPaid(a)
         /\ MatchedAcquisitionCost(a, m) = RoundDiv(m * CostPaid(a), ledger[a].quantity)
         /\ CostPaid(a) \in Nat
<1>1. a \in Ids /\ IsAcquisition(a)
  BY DEF Acquisitions
<1>2. UnitPrice(a) \in Nat /\ ledger[a].costs \in Nat /\ ledger[a].quantity \in Nat
  BY <1>1, CostTypes
<1>3. CostPaid(a) = UnitPrice(a) * ledger[a].quantity + ledger[a].costs
  BY <1>1 DEF CostPaid
<1>4. UnitPrice(a) * ledger[a].quantity \in Nat
  BY <1>2
<1> QED BY <1>2, <1>3, <1>4 DEF MatchedCostOver, MatchedAcquisitionCost

(* The gain of a slice of m shares, whose allowable cost is over / parts.  *)
LEMMA SliceGain ==
  ASSUME TypeOK, FullyCosted, NEW d \in Ids, IsDisposal(d), NEW rule, NEW acq,
         NEW m \in Nat, NEW over \in Nat, NEW parts \in Nat \ {0},
         NEW u, NEW k, Shared(u, k), NEW p \in Nat, p * parts = u
  PROVE  LET x == m * PerShare(u, k, d) - p * over
         IN  /\ x \in Int
             /\ Within(2 * (u * Slice(d, rule, acq, m, over, parts).gain - x), u)
<1> DEFINE q == ledger[d].quantity
           c == ledger[d].costs
           w == UnitPrice(d)
           x == m * PerShare(u, k, d) - p * over
           n == w * m * parts * q - over * q - ProRataCostsOver(d, m) * parts
<1>1. /\ q \in Nat \ {0} /\ c \in Nat /\ w \in Nat /\ u \in Nat \ {0} /\ k[d] \in Nat
      /\ k[d] * q = u
  BY CostTypes DEF Shared
<1>2. ProRataCostsOver(d, m) = m * c
  <2>1. CASE w > 0
    BY <2>1 DEF ProRataCostsOver
  <2>2. CASE w = 0
    <3>1. c = 0
      BY <2>2 DEF FullyCosted
    <3> QED BY <2>2, <3>1 DEF ProRataCostsOver
  <2> QED BY <1>1, <2>1, <2>2
<1>3. x = m * (u * w - k[d] * c) - p * over
  BY DEF PerShare
<1>4. n = w * m * parts * q - over * q - m * c * parts
  BY <1>2
<1>5. Slice(d, rule, acq, m, over, parts).gain = RoundDiv(n, parts * q)
  BY DEF Slice
<1> HIDE DEF x, n, q, c, w
<1> DEFINE h == k[d]
<1>6. h \in Nat /\ h * q = u /\ x = m * (u * w - h * c) - p * over
  BY <1>1, <1>3
<1> HIDE DEF h
<1>7. x \in Int /\ n \in Int /\ parts * q \in Nat \ {0}
  BY <1>1, <1>4, <1>6
<1>8. u * n = (parts * q) * x
  <2>1. u * n = u * (w * m * parts * q) - u * (over * q) - u * (m * c * parts)
    BY <1>1, <1>4
  <2>2. (parts * q) * x = (parts * q) * (m * (u * w)) - (parts * q) * (m * (h * c))
                           - (parts * q) * (p * over)
    BY <1>1, <1>6
  <2>3. (parts * q) * (m * (u * w)) = u * (w * m * parts * q)
    BY <1>1
  <2>4. (parts * q) * (m * (h * c)) = (h * q) * (m * c * parts)
    BY <1>1, <1>6
  <2>5. (parts * q) * (p * over) = (p * parts) * (over * q)
    BY <1>1
  <2>6. (parts * q) * (m * (h * c)) = u * (m * c * parts)
    BY <1>6, <2>4
  <2>7. (parts * q) * (p * over) = u * (over * q)
    BY <2>5
  <2> DEFINE a == u * (w * m * parts * q)
             b == u * (over * q)
             e == u * (m * c * parts)
  <2>8. a \in Int /\ b \in Int /\ e \in Int
    BY <1>1
  <2>9. u * n = a - b - e
    BY <2>1
  <2>10. (parts * q) * x = a - e - b
    BY <2>2, <2>3, <2>6, <2>7
  <2> HIDE DEF a, b, e
  <2> QED BY <2>8, <2>9, <2>10
<1>9. Within(2 * (u * RoundDiv(n, parts * q) - x), u)
  BY <1>1, <1>7, <1>8, RoundDivScaled DEF Within
<1> QED BY <1>5, <1>7, <1>9 DEF x

(* What a step changes of the exact gains.                                 *)
LEMMA CostAheadInts ==
  ASSUME PInv, NEW u, NEW k, Shared(u, k)
  PROVE  /\ Ints(CostAheadOf(k), Acquisitions \cap pending)
         /\ CostAhead(k) \in Int
         /\ Ints(NetOf, Ids \ pending) /\ Earned \in Int /\ pool.cost \in Int
         /\ cur \in Ids => PerShare(u, k, cur) \in Int
<1>1. ASSUME NEW a \in Ids PROVE CostAheadOf(k)[a] \in Int
  <2>1. IdentifiedOf[a] \in Int /\ CostPaid(a) \in Int /\ k[a] \in Int
    BY PInvTypes, CostTypes DEF IdentifiedOf, Shared
  <2>2. IdentifiedOf[a] * CostPaid(a) \in Int
    BY <2>1
  <2> QED BY <2>1, <2>2 DEF CostAheadOf
<1>2. IsFiniteSet(Acquisitions \cap pending) /\ IsFiniteSet(Ids \ pending)
  <2>1. Acquisitions \cap pending \subseteq Ids /\ Ids \ pending \subseteq Ids
    BY DEF Acquisitions
  <2> QED BY <2>1, FS_Subset, IdsAreNumbers
<1>3. Ints(CostAheadOf(k), Acquisitions \cap pending)
  BY <1>1, <1>2 DEF Ints, Acquisitions
<1>4. Ints(NetOf, Ids \ pending)
  BY <1>2, PInvTypes, CostTypes DEF Ints
<1>5. pool.cost \in Int
  BY PInvTypes DEF TypeOK
<1>6. ASSUME cur \in Ids PROVE PerShare(u, k, cur) \in Int
  BY <1>6, PInvTypes, CostTypes DEF PerShare, Shared
<1> QED BY <1>3, <1>4, <1>5, <1>6, SumInt DEF CostAhead, Earned

LEMMA MoneyKept ==
  ASSUME ledger' = ledger
  PROVE  /\ FullyCosted' = FullyCosted /\ NetOf' = NetOf
         /\ \A u, k : Shared(u, k)' <=> Shared(u, k)
         /\ \A t : CostPaid(t)' = CostPaid(t) /\ UnitPrice(t)' = UnitPrice(t)
<1>1. \A t : /\ IsAcquisition(t)' = IsAcquisition(t) /\ IsDisposal(t)' = IsDisposal(t)
             /\ UnitPrice(t)' = UnitPrice(t)
  BY DEF IsAcquisition, IsDisposal, UnitPrice
<1>2. \A t : CostPaid(t)' = CostPaid(t) /\ NetProceeds(t)' = NetProceeds(t)
  BY <1>1 DEF CostPaid, NetProceeds
<1>3. NetOf' = NetOf
  BY <1>2 DEF NetOf
<1>4. FullyCosted' = FullyCosted
  BY <1>1 DEF FullyCosted, Priced
<1>5. \A u, k : Shared(u, k)' <=> Shared(u, k)
  BY DEF Shared
<1> QED BY <1>1, <1>2, <1>3, <1>4, <1>5

(* A step that adds g to the gains recorded, x to the exact ones and one   *)
(* rounding.                                                               *)
LEMMA OneRounding ==
  ASSUME NEW u \in Nat, NEW k, GainsExact(u, k),
         GainsRecorded \in Int, Exact(u, k) \in Int, Roundings \in Int,
         NEW g \in Int, NEW x \in Int, Within(2 * (u * g - x), u),
         GainsRecorded' = GainsRecorded + g, Exact(u, k)' = Exact(u, k) + x,
         Roundings' = Roundings + 1
  PROVE  GainsExact(u, k)'
<1> DEFINE e == u * GainsRecorded - Exact(u, k)
           f == u * g - x
<1>1. e \in Int /\ f \in Int
  OBVIOUS
<1>2. Within(2 * (e + f), u * (Roundings + 1))
  <2> HIDE DEF e, f
  <2>1. Within(2 * e, u * Roundings) /\ Within(2 * f, u)
    BY DEF GainsExact, e, f
  <2> DEFINE b == Roundings
  <2>2. u \in Int /\ b \in Int
    OBVIOUS
  <2> HIDE DEF b
  <2> QED BY <1>1, <2>1, <2>2, ErrorsAdd DEF b
<1>3. u * GainsRecorded' - Exact(u, k)' = e + f
  OBVIOUS
<1> HIDE DEF e, f
<1> QED BY <1>2, <1>3 DEF GainsExact

LEMMA IdentifiesFollows ==
  ASSUME GInv, PInv', NEW s, Identifies(s)
  PROVE  GInv'
<1>1. /\ SInv /\ PInv /\ TypeOK
      /\ s \in SliceType /\ s.quantity \in Nat \ {0} /\ s.txn = cur
      /\ toMatch \in Nat \ {0} /\ cur \in Ids /\ cur # NoTxn
      /\ ledger' = ledger /\ pending' = pending /\ cur' = cur /\ rejected' = rejected
      /\ toMatch' = toMatch - s.quantity
      /\ s.acq # NoTxn => s.acq \in Ids /\ FromAcquisition(s)
      /\ s.acq = NoTxn => FromPool(s)
  BY IdentifiesTypes, IdsAreNumbers DEF GInv, PInv, SInv, IInv
<1> SUFFICES ASSUME ~rejected, FullyCosted, NEW u, NEW k, Shared(u, k)
             PROVE  GainsExact(u, k)'
  BY <1>1, MoneyKept DEF GInv, GainsFollow
<1> DEFINE m == s.quantity
           e == PerShare(u, k, cur)
<1>2. GainsExact(u, k)
  BY DEF GInv, GainsFollow
<1>3. /\ CostAhead(k) \in Int /\ Earned \in Int /\ pool.cost \in Nat /\ e \in Int
      /\ u \in Nat \ {0} /\ k[cur] \in Nat
  BY <1>1, CostAheadInts DEF Shared, TypeOK
<1>4. Unmatched(u, k) = toMatch * e /\ Unmatched(u, k)' = (toMatch - m) * e
  <2>1. PerShare(u, k, cur)' = e
    BY <1>1, MoneyKept DEF PerShare
  <2> QED BY <1>1, <2>1 DEF Unmatched
<1>5. Earned' = Earned
  BY <1>1, MoneyKept DEF Earned
<1>6. /\ GainsRecorded \in Int /\ s.gain \in Int /\ GainsRecorded' = GainsRecorded + s.gain
      /\ Roundings \in Int /\ Roundings' = Roundings + 1
  <2>1. IsFiniteSet(Ids \ pending)
    BY FS_Subset, IdsAreNumbers
  <2>2. Cardinality(Ids \ pending) \in Nat /\ Cardinality(Ids \ pending') = Cardinality(Ids \ pending)
    BY <1>1, <2>1, FS_CardinalityType
  <2>3. /\ GainsRecorded \in Int /\ s.gain \in Int /\ GainsRecorded' = GainsRecorded + s.gain
        /\ Cardinality(disposals) \in Nat /\ Cardinality(disposals') = Cardinality(disposals) + 1
    BY <1>1, GainsAdd
  <2> QED BY <2>2, <2>3 DEF Roundings
<1>7. m * e \in Int /\ toMatch * e \in Int /\ (toMatch - m) * e = toMatch * e - m * e
  <2> HIDE DEF e
  <2> QED BY <1>1, <1>3
<1>8. IsDisposal(cur)
  BY <1>1 DEF SInv, InHand
<1>9. CASE s.acq = NoTxn
  <2> DEFINE over == PoolCostOf(pool, toMatch)
             x == m * e - u * over
             one == 1
  <2>1. /\ FromPool(s) /\ m = toMatch /\ toMatch <= pool.quantity
        /\ s = Slice(cur, s.matchType, NoTxn, m, over, one)
        /\ pool' = DisposeFromPool(pool, toMatch) /\ remaining' = remaining
    BY <1>1, <1>9 DEF FromPool
  <2>2. over \in Nat /\ pool \in [quantity : Nat, cost : Nat]
    BY <1>1, <2>1, PoolCostBound DEF TypeOK
  <2>3. pool'.cost = pool.cost - over
    <3>1. CASE pool.quantity = toMatch
      <4>1. over = pool.cost
        <5>1. RoundDiv(pool.cost * toMatch, toMatch) = pool.cost
          <6> DEFINE c == pool.cost
          <6>1. c \in Int /\ toMatch \in Nat \ {0}
            BY <1>1, <1>3
          <6> HIDE DEF c
          <6>2. RoundDiv(c * toMatch, toMatch) = c
            BY <6>1, RoundDivWhole
          <6> QED BY <6>2 DEF c
        <5> QED BY <3>1, <5>1 DEF PoolCostOf
      <4>2. pool'.cost = 0
        BY <2>1, <3>1 DEF DisposeFromPool
      <4> QED BY <1>3, <4>1, <4>2
    <3>2. CASE pool.quantity # toMatch
      BY <2>1, <3>2 DEF DisposeFromPool
    <3> QED BY <3>1, <3>2
  <2>4. CostAhead(k)' = CostAhead(k)
    <3>1. CostAheadOf(k)' = CostAheadOf(k)
      BY <1>1, <2>1, MoneyKept DEF CostAheadOf, IdentifiedOf
    <3>2. Acquisitions' = Acquisitions
      BY <1>1 DEF Acquisitions, IsAcquisition
    <3> QED BY <1>1, <3>1, <3>2 DEF CostAhead
  <2>5. x \in Int /\ Within(2 * (u * s.gain - x), u)
    <3>1. one \in Nat \ {0} /\ u \in Nat /\ u * one = u
      BY <1>3
    <3> HIDE DEF over, one
    <3>2. /\ m * e - u * over \in Int
          /\ Within(2 * (u * Slice(cur, s.matchType, NoTxn, m, over, one).gain - (m * e - u * over)), u)
      BY <1>1, <1>8, <2>2, <3>1, SliceGain
    <3> QED BY <2>1, <3>2
  <2> HIDE DEF over, one, e
  <2>6. /\ u * over \in Int /\ u * (Earned + pool.cost) \in Int
        /\ u * (Earned + (pool.cost - over)) = u * (Earned + pool.cost) - u * over
    BY <1>3, <2>2
  <2>7. Exact(u, k) \in Int /\ Exact(u, k)' = Exact(u, k) + x
    BY <1>3, <1>4, <1>5, <1>7, <2>3, <2>4, <2>6 DEF Exact
  <2> HIDE DEF x
  <2> QED BY <1>2, <1>3, <1>6, <2>5, <2>7, OneRounding
<1>10. CASE s.acq # NoTxn
  <2> DEFINE a == s.acq
             c == CostPaid(a)
             over == m * c
             q == ledger[a].quantity
             x == m * e - k[a] * over
  <2>1. /\ a \in Acquisitions /\ a \in Ids
        /\ s = Slice(cur, s.matchType, a, m, MatchedCostOver(a, m), q)
        /\ remaining' = [remaining EXCEPT ![a] = @ - m] /\ pool' = pool
    BY <1>1, <1>10 DEF FromAcquisition
  <2>2. /\ c \in Nat /\ q \in Nat \ {0} /\ over \in Nat /\ MatchedCostOver(a, m) = over
        /\ k[a] \in Nat /\ k[a] * q = u
    BY <1>1, <2>1, CostOver, CostTypes DEF Shared
  <2>3. x \in Int /\ Within(2 * (u * s.gain - x), u)
    <3> HIDE DEF over, q, a
    <3>1. /\ m * e - k[a] * over \in Int
          /\ Within(2 * (u * Slice(cur, s.matchType, a, m, over, q).gain - (m * e - k[a] * over)), u)
      BY <1>1, <1>8, <2>2, SliceGain
    <3> QED BY <2>1, <2>2, <3>1
  <2>4. CostAhead(k)' = CostAhead(k) + k[a] * over
    <3> DEFINE P == Acquisitions \cap pending
               f == CostAheadOf(k)
               g == [y \in Ids |-> k[y] * ((ledger[y].quantity - remaining'[y]) * CostPaid(y))]
    <3>1. Acquisitions' = Acquisitions
      BY <1>1 DEF Acquisitions, IsAcquisition
    <3>2. CostAhead(k)' = SumOf(g, P)
      <4>1. CostAheadOf(k)' = g
        BY <1>1, MoneyKept DEF CostAheadOf, IdentifiedOf
      <4> QED BY <1>1, <3>1, <4>1 DEF CostAhead
    <3>3. a \in P /\ P \subseteq Ids
      <4>1. a \in P
        BY <1>1, <1>10, AcquisitionAhead
      <4> QED BY <4>1 DEF Acquisitions
    <3>4. \A y \in Ids \ {a} : g[y] = f[y]
      BY <1>1, <2>1 DEF CostAheadOf, IdentifiedOf, TypeOK
    <3>5. g[a] = f[a] + k[a] * over
      <4> DEFINE i == ledger[a].quantity - remaining[a]
      <4>1. remaining[a] \in Nat /\ remaining'[a] = remaining[a] - m /\ i \in Int
        BY <1>1, <2>1, <2>2 DEF TypeOK
      <4>2. ledger[a].quantity - remaining'[a] = i + m
        BY <1>1, <2>2, <4>1
      <4>3. g[a] = k[a] * ((i + m) * c) /\ f[a] = k[a] * (i * c)
        BY <2>1, <4>2 DEF CostAheadOf, IdentifiedOf
      <4> HIDE DEF i, g, f, c
      <4>4. (i + m) * c = i * c + m * c /\ i * c \in Int /\ m * c \in Int
        BY <1>1, <2>2, <4>1
      <4>5. k[a] * (i * c + m * c) = k[a] * (i * c) + k[a] * (m * c)
        BY <2>2, <4>4
      <4> QED BY <4>3, <4>4, <4>5
    <3>6. Ints(f, P) /\ IsFiniteSet(P) /\ \A y \in P : f[y] \in Int
      BY <1>1, CostAheadInts DEF Ints
    <3>7. k[a] * over \in Int
      BY <2>2
    <3> DEFINE b == k[a] * over
    <3> HIDE DEF g, f, a, P, b
    <3>8. Ints(g, P) /\ Ints(f, P \ {a}) /\ Ints(g, P \ {a})
      <4>1. IsFiniteSet(P \ {a})
        BY <3>6, FS_Subset
      <4>2. \A y \in P : g[y] \in Int
        BY <3>3, <3>4, <3>5, <3>6, <3>7 DEF b
      <4> QED BY <3>6, <4>1, <4>2 DEF Ints
    <3>9. SumOf(g, P) = g[a] + SumOf(g, P \ {a}) /\ SumOf(f, P) = f[a] + SumOf(f, P \ {a})
      BY <3>3, <3>6, <3>8, SumRemove
    <3>10. SumOf(g, P \ {a}) = SumOf(f, P \ {a})
      BY <3>3, <3>4, <3>8, SumSame
    <3>11. SumOf(f, P \ {a}) \in Int /\ f[a] \in Int
      BY <3>3, <3>6, <3>8, SumInt
    <3>12. SumOf(g, P) = SumOf(f, P) + b
      BY <3>5, <3>7, <3>9, <3>10, <3>11 DEF b
    <3> QED BY <3>2, <3>12 DEF CostAhead, P, f, b
  <2>5. k[a] * over \in Int
    BY <2>2
  <2>6. u * (Earned + pool.cost) \in Int
    BY <1>3
  <2> HIDE DEF a, over, e
  <2>7. Exact(u, k) \in Int /\ Exact(u, k)' = Exact(u, k) + x
    BY <1>3, <1>4, <1>5, <1>7, <2>1, <2>4, <2>5, <2>6 DEF Exact
  <2> HIDE DEF x
  <2> QED BY <1>2, <1>3, <1>6, <2>3, <2>7, OneRounding
<1> QED BY <1>9, <1>10

(* The next transaction: what it brings in or costs, what it adds to the   *)
(* cost of the pool, and what was ahead of it, come to x, a rounding error.*)
Rounded(u, x) == x \in Int /\ Within(2 * x, u)

LEMMA TakenFollows ==
  ASSUME GInv, PInv', NEW t \in Ids, IsNext(t), pending' = pending \ {t},
         UNCHANGED <<ledger, remaining, disposals, rejected>>, cur' \in {cur, t},
         FullyCosted =>
           \A u, k : Shared(u, k) =>
             /\ Unmatched(u, k)' \in Int
             /\ Rounded(u, u * (NetOf[t] + (pool'.cost - pool.cost)) - Unmatched(u, k)'
                             + (IF t \in Acquisitions THEN CostAheadOf(k)[t] ELSE 0))
  PROVE  GInv'
<1>1. /\ PInv /\ TypeOK /\ t \in pending /\ pending \subseteq Ids
      /\ Acquisitions' = Acquisitions /\ IdentifiedOf' = IdentifiedOf
      /\ toMatch = 0 /\ cur = NoTxn /\ ~rejected
  BY NextTaken, PInvTypes DEF GInv, IsNext, IsFirst
<1> SUFFICES ASSUME FullyCosted, NEW u, NEW k, Shared(u, k) PROVE GainsExact(u, k)'
  BY MoneyKept DEF GInv, GainsFollow
<1> DEFINE x == u * (NetOf[t] + (pool'.cost - pool.cost)) - Unmatched(u, k)'
                  + (IF t \in Acquisitions THEN CostAheadOf(k)[t] ELSE 0)
           S == Ids \ pending
           P == Acquisitions \cap pending
           Q == P \ {t}
           f == CostAheadOf(k)
           after == IF t \in Acquisitions THEN f[t] ELSE 0
<1>2. GainsExact(u, k) /\ Rounded(u, x) /\ Unmatched(u, k)' \in Int
  BY <1>1 DEF GInv, GainsFollow
<1>3. /\ Ints(f, P) /\ CostAhead(k) \in Int /\ Ints(NetOf, S) /\ Earned \in Int
      /\ pool.cost \in Int /\ pool'.cost \in Int /\ u \in Nat /\ NetOf[t] \in Int
      /\ P \subseteq Ids
  <2>1. TypeOK' => pool'.cost \in Int
    BY DEF TypeOK
  <2> QED BY <1>1, <2>1, CostAheadInts, CostTypes DEF Shared, PInv, SInv, IInv, Acquisitions
<1>4. Earned' = Earned + NetOf[t]
  <2>1. NetOf' = NetOf /\ Ids \ pending' = S \cup {t} /\ t \notin S
    BY <1>1, MoneyKept
  <2>2. Ints(NetOf, S \cup {t})
    <3>1. IsFiniteSet(S \cup {t})
      BY <1>3, FS_AddElement DEF Ints
    <3> QED BY <1>3, <3>1 DEF Ints
  <2> DEFINE n == NetOf
  <2> HIDE DEF n
  <2>3. SumOf(n, S \cup {t}) = n[t] + SumOf(n, S)
    BY <2>1, <2>2, SumAdd DEF n
  <2>4. Earned' = SumOf(n, S \cup {t}) /\ Earned = SumOf(n, S)
    BY <2>1 DEF Earned, n
  <2>5. n[t] \in Int /\ SumOf(n, S) \in Int
    BY <1>3, <2>4 DEF n
  <2>6. Earned' = Earned + n[t]
    BY <2>3, <2>4, <2>5
  <2> QED BY <2>6 DEF n
<1>5. CostAhead(k)' \in Int /\ CostAhead(k) = CostAhead(k)' + after /\ after \in Int
  <2>1. CostAhead(k)' = SumOf(f, Q)
    <3>1. CostAheadOf(k)' = f
      BY <1>1, MoneyKept DEF CostAheadOf
    <3>2. Acquisitions' \cap pending' = Q
      BY <1>1
    <3> QED BY <3>1, <3>2 DEF CostAhead
  <2>2. Ints(f, Q)
    BY <1>3, FS_Subset DEF Ints
  <2>3. SumOf(f, Q) \in Int
    BY <2>2, SumInt
  <2>4. CASE t \in Acquisitions
    <3>1. t \in P
      BY <1>1, <2>4
    <3>2. after = f[t]
      BY <2>4
    <3> HIDE DEF f, P
    <3>3. SumOf(f, P) = f[t] + SumOf(f, P \ {t}) /\ f[t] \in Int
      BY <1>3, <3>1, SumRemove DEF Ints
    <3> HIDE DEF after
    <3>4. SumOf(f, P) = SumOf(f, Q) + f[t]
      BY <2>3, <3>3
    <3> QED BY <2>1, <2>3, <3>2, <3>3, <3>4 DEF CostAhead, f, P
  <2>5. CASE t \notin Acquisitions
    <3>1. P = Q /\ after = 0
      BY <2>5
    <3> HIDE DEF f, P, Q, after
    <3>2. SumOf(f, P) = SumOf(f, Q)
      BY <3>1
    <3> QED BY <2>1, <2>3, <3>1, <3>2 DEF CostAhead, f, P
  <2> QED BY <2>4, <2>5
<1>6. /\ GainsRecorded \in Int /\ GainsRecorded' = GainsRecorded + 0
      /\ Roundings \in Int /\ Roundings' = Roundings + 1
  <2>1. Ids \ pending' = S \cup {t} /\ t \notin S /\ IsFiniteSet(S)
    BY <1>1, <1>3 DEF Ints
  <2>2. Cardinality(S) \in Nat /\ Cardinality(Ids \ pending') = Cardinality(S) + 1
    BY <2>1, FS_AddElement, FS_CardinalityType
  <2>3. IsFiniteSet(disposals) /\ disposals \in SUBSET SliceType
    BY <1>1 DEF PInv, SInv, TypeOK
  <2>4. Cardinality(disposals) \in Nat /\ Cardinality(disposals') = Cardinality(disposals)
    BY <2>3, FS_CardinalityType
  <2>5. GainsRecorded = GainsIn(disposals) /\ GainsRecorded' = GainsIn(disposals')
    BY DEF GainsRecorded, Total, GainsIn, MapThenSumSet, MapThenFoldSet
  <2>6. GainsIn(disposals) \in Int
    <3> DEFINE g == [s \in disposals |-> s.gain]
    <3>1. Ints(g, disposals)
      BY <2>3 DEF Ints, SliceType
    <3> HIDE DEF g
    <3>2. SumOf(g, disposals) \in Int
      BY <3>1, SumInt
    <3> QED BY <3>2, GainsSum DEF g
  <2>7. GainsRecorded' = GainsRecorded /\ GainsRecorded \in Int
    BY <2>5, <2>6
  <2> QED BY <2>2, <2>4, <2>7 DEF Roundings
<1>7. Unmatched(u, k) = 0
  BY <1>1 DEF Unmatched
<1> DEFINE n == NetOf[t]
           w == Unmatched(u, k)'
           d == pool'.cost - pool.cost
<1>8. /\ x = u * (n + d) - w + after
      /\ x \in Int /\ n \in Int /\ d \in Int /\ after \in Int /\ w \in Int
  BY <1>2, <1>3, <1>5 DEF Rounded
<1>10. Exact(u, k)' = u * (Earned' + pool'.cost) - w - CostAhead(k)'
  BY DEF Exact
<1>11. Exact(u, k) = u * (Earned + pool.cost) - CostAhead(k)
  <2>1. u * (Earned + pool.cost) \in Int
    BY <1>3
  <2> QED BY <1>3, <1>7, <2>1 DEF Exact
<1> HIDE DEF x, n, w, d, after
<1>12. /\ Earned' + pool'.cost = (Earned + pool.cost) + (n + d)
       /\ n + d \in Int /\ Earned + pool.cost \in Int
  BY <1>3, <1>4, <1>8 DEF n, d
<1> DEFINE h == Earned + pool.cost
           i == n + d
<1>13. u * (h + i) = u * h + u * i /\ u * h \in Int /\ u * i \in Int
  <2>1. h \in Int /\ i \in Int
    BY <1>12
  <2> HIDE DEF h, i
  <2> QED BY <1>3, <2>1
<1>14. Exact(u, k)' = Exact(u, k) + x /\ Exact(u, k) \in Int
  <2>1. Exact(u, k)' = u * (h + i) - w - CostAhead(k)'
    BY <1>10, <1>12
  <2>2. Exact(u, k) = u * h - CostAhead(k) /\ x = u * i - w + after
    BY <1>8, <1>11
  <2> HIDE DEF h, i
  <2> QED BY <1>3, <1>5, <1>8, <1>13, <2>1, <2>2
<1>15. Within(2 * (u * 0 - x), u)
  BY <1>2, <1>3, <1>8 DEF Rounded, Within
<1> QED BY <1>2, <1>3, <1>6, <1>8, <1>14, <1>15, OneRounding

LEMMA NoError == ASSUME NEW u \in Nat PROVE Rounded(u, 0)
BY DEF Rounded, Within

LEMMA TakeDisposalFollows ==
  ASSUME GInv, PInv', NEW t \in Ids, TakeDisposal(t)
  PROVE  GInv'
<1>1. /\ IsNext(t) /\ pending' = pending \ {t} /\ cur' = t /\ toMatch' = ledger[t].quantity
      /\ UNCHANGED <<ledger, remaining, pool, disposals, rejected>>
      /\ IsDisposal(t) /\ t # NoTxn
  BY IdsAreNumbers DEF TakeDisposal
<1>2. t \notin Acquisitions /\ ~IsAcquisition(t) /\ ledger[t].type # "RIGHTS_ISSUE"
  BY <1>1 DEF Acquisitions, IsAcquisition, IsDisposal, AcquisitionTypes, DisposalTypes
<1>3. ASSUME NEW u, NEW k, Shared(u, k)
      PROVE  /\ Unmatched(u, k)' \in Int
             /\ Rounded(u, u * (NetOf[t] + (pool'.cost - pool.cost)) - Unmatched(u, k)'
                             + (IF t \in Acquisitions THEN CostAheadOf(k)[t] ELSE 0))
  <2> DEFINE p == UnitPrice(t)
             q == ledger[t].quantity
             c == ledger[t].costs
             h == k[t]
  <2>1. /\ p \in Nat /\ q \in Nat \ {0} /\ c \in Nat /\ h \in Nat /\ u \in Nat /\ h * q = u
        /\ pool.cost \in Int
    BY <1>3, PInvTypes, CostTypes DEF GInv, Shared, TypeOK
  <2>2. NetOf[t] = p * q - c
    BY <1>1, <1>2, <2>1 DEF NetOf, NetProceeds, CostPaid
  <2>3. Unmatched(u, k)' = q * (u * p - h * c)
    <3>1. PerShare(u, k, t)' = u * p - h * c
      BY <1>1, MoneyKept DEF PerShare
    <3> QED BY <1>1, <3>1 DEF Unmatched, PerShare
  <2> HIDE DEF p, q, c, h
  <2>4. q * (u * p - h * c) = u * (p * q - c)
    <3>1. q * (u * p - h * c) = u * (p * q) - (h * q) * c
      BY <2>1
    <3>2. u * (p * q - c) = u * (p * q) - u * c
      BY <2>1
    <3> QED BY <2>1, <3>1, <3>2
  <2>5. u * (p * q - c) \in Int
    BY <2>1
  <2>6. pool'.cost - pool.cost = 0 /\ p * q - c \in Int
    BY <1>1, <2>1
  <2>7. u * (NetOf[t] + (pool'.cost - pool.cost)) = u * (p * q - c)
    BY <2>2, <2>6
  <2>8. u * (NetOf[t] + (pool'.cost - pool.cost)) - Unmatched(u, k)'
          + (IF t \in Acquisitions THEN CostAheadOf(k)[t] ELSE 0) = 0
    <3> DEFINE x == u * (p * q - c)
    <3>1. x \in Int /\ u * (NetOf[t] + (pool'.cost - pool.cost)) = x /\ Unmatched(u, k)' = x
      BY <2>3, <2>4, <2>5, <2>7
    <3> HIDE DEF x
    <3> QED BY <1>2, <3>1
  <2> QED BY <2>1, <2>3, <2>4, <2>5, <2>8, NoError
<1> QED BY <1>1, <1>3, TakenFollows

(* Any other transaction leaves nothing in hand.                           *)
LEMMA TakeOtherFollows ==
  ASSUME GInv, PInv', NEW t \in Ids, NEW newPool, TakeOther(t, newPool),
         FullyCosted =>
           \A u, k : Shared(u, k) =>
             Rounded(u, u * (NetOf[t] + (newPool.cost - pool.cost))
                          + (IF t \in Acquisitions THEN CostAheadOf(k)[t] ELSE 0))
  PROVE  GInv'
<1>1. /\ IsNext(t) /\ pending' = pending \ {t} /\ pool' = newPool /\ cur' = NoTxn
      /\ cur' = cur
      /\ UNCHANGED <<ledger, remaining, disposals, rejected>>
  BY DEF TakeOther, IsNext
<1>2. ASSUME NEW u, NEW k PROVE Unmatched(u, k)' = 0
  BY <1>1 DEF Unmatched
<1>3. ASSUME FullyCosted, NEW u, NEW k, Shared(u, k)
      PROVE  Rounded(u, u * (NetOf[t] + (pool'.cost - pool.cost)) - Unmatched(u, k)'
                          + (IF t \in Acquisitions THEN CostAheadOf(k)[t] ELSE 0))
  <2> DEFINE n == NetOf[t] + (newPool.cost - pool.cost)
             a == IF t \in Acquisitions THEN CostAheadOf(k)[t] ELSE 0
  <2>1. Rounded(u, u * n + a)
    BY <1>3
  <2>2. n \in Int
    <3>1. TypeOK' => pool'.cost \in Int
      BY DEF TypeOK
    <3>2. pool.cost \in Int /\ NetOf[t] \in Int
      BY PInvTypes, CostTypes DEF TypeOK, GInv
    <3> QED BY <1>1, <3>1, <3>2 DEF PInv, SInv, IInv
  <2>3. u * n \in Int
    BY <1>3, <2>2 DEF Shared
  <2> HIDE DEF n, a
  <2>4. u * n - 0 + a = u * n + a
    BY <2>3
  <2> QED BY <1>1, <1>2, <2>1, <2>4 DEF n, a
<1> QED BY <1>1, <1>2, <1>3, TakenFollows

LEMMA OtherFollows ==
  ASSUME GInv, PInv', NEW t \in Ids,
         \/ TakeAcquisition(t) \/ TakeSplit(t) \/ TakeUnsplit(t)
         \/ TakeCapReturn(t) \/ TakeRightsIssue(t) \/ TakeIgnored(t)
  PROVE  GInv'
<1>1. /\ PInv /\ TypeOK /\ pool.cost \in Int /\ remaining[t] \in Nat /\ ledger[t] \in Txn
  BY PInvTypes DEF GInv, TypeOK
<1>2. CASE TakeAcquisition(t)
  <2> DEFINE c == CostPaid(t)
             q == ledger[t].quantity
             r == remaining[t]
             entered == RoundDiv(r * c, q)
             new == IF remaining[t] > 0 /\ ledger[t].given
                    THEN AddToPool(pool, remaining[t], MatchedAcquisitionCost(t, remaining[t]))
                    ELSE pool
  <2>1. TakeOther(t, new) /\ t \in Acquisitions /\ IsAcquisition(t)
    BY <1>2 DEF TakeAcquisition, Acquisitions
  <2>2. c \in Nat /\ q \in Nat \ {0} /\ r \in Nat /\ MatchedAcquisitionCost(t, r) = entered
    BY <1>1, <2>1, CostOver, CostTypes
  <2>3. NetOf[t] = -c
    <3>1. ~IsDisposal(t)
      BY <2>1 DEF IsAcquisition, IsDisposal, AcquisitionTypes, DisposalTypes
    <3>2. NetProceeds(t) = 0
      BY <3>1 DEF NetProceeds
    <3> QED BY <2>2, <3>2 DEF NetOf
  <2>4. entered \in Int
    <3>1. r * c \in Int
      BY <2>2
    <3> QED BY <2>2, <3>1, RoundDivInt
  <2>5. FullyCosted => new.cost - pool.cost = entered
    <3> SUFFICES ASSUME FullyCosted PROVE new.cost - pool.cost = entered
      OBVIOUS
    <3>1. ledger[t].given
      BY <2>1 DEF FullyCosted, Priced
    <3>2. CASE r > 0
      <4>1. new.cost = pool.cost + entered
        BY <2>2, <3>1, <3>2 DEF AddToPool
      <4> HIDE DEF new, entered
      <4> QED BY <1>1, <2>4, <4>1
    <3>3. CASE r = 0
      <4>1. new = pool
        BY <3>3
      <4>2. r * c = 0 * q
        BY <2>2, <3>3
      <4>3. RoundDiv(0 * q, q) = 0
        <5> DEFINE zero == 0
        <5>1. zero \in Int
          OBVIOUS
        <5> HIDE DEF zero
        <5>2. RoundDiv(zero * q, q) = zero
          BY <2>2, <5>1, RoundDivWhole
        <5> QED BY <5>2 DEF zero
      <4>4. entered = 0
        BY <4>2, <4>3
      <4> QED BY <1>1, <4>1, <4>4
    <3> QED BY <2>2, <3>2, <3>3
  <2>6. ASSUME FullyCosted, NEW u, NEW k, Shared(u, k)
        PROVE  Rounded(u, u * (NetOf[t] + (new.cost - pool.cost)) + CostAheadOf(k)[t])
    <3> DEFINE h == k[t]
               x == h * (r * c)
               e == u * entered - x
    <3>1. h \in Nat /\ u \in Nat \ {0} /\ h * q = u
      BY <2>6 DEF Shared
    <3>2. CostAheadOf(k)[t] = h * ((q - r) * c)
      BY DEF CostAheadOf, IdentifiedOf
    <3> HIDE DEF c, q, r, h
    <3>3. x \in Int /\ r * c \in Int /\ u * (r * c) = q * x
      <4>1. q * (h * (r * c)) = (h * q) * (r * c) /\ r * c \in Int
        BY <2>2, <3>1
      <4>2. h * (r * c) \in Int
        BY <3>1, <4>1
      <4> QED BY <3>1, <4>1, <4>2
    <3>4. Within(2 * (u * RoundDiv(r * c, q) - x), u)
      <4> DEFINE n == r * c
      <4> HIDE DEF x, n
      <4>1. n \in Int /\ u * n = q * x /\ x \in Int
        BY <3>3 DEF n
      <4>2. Within(2 * (u * RoundDiv(n, q) - x), u)
        BY <2>2, <3>1, <4>1, RoundDivScaled DEF Within
      <4> QED BY <4>2 DEF n
    <3>5. h * ((q - r) * c) = u * c - x
      <4>1. h * ((q - r) * c) = (h * q) * c - h * (r * c)
        BY <2>2, <3>1
      <4> QED BY <3>1, <4>1
    <3>6. u * (-c + entered) = u * entered - u * c /\ u * c \in Int /\ u * entered \in Int
      <4> HIDE DEF entered
      <4> QED BY <2>2, <2>4, <3>1
    <3>7. u * (NetOf[t] + (new.cost - pool.cost)) + CostAheadOf(k)[t] = e
      <4>1. u * (NetOf[t] + (new.cost - pool.cost)) = u * (-c + entered)
        BY <2>3, <2>5, <2>6
      <4>2. u * (-c + entered) + h * ((q - r) * c) = e
        <5> HIDE DEF entered, x
        <5> QED BY <3>3, <3>5, <3>6
      <4> QED BY <3>2, <4>1, <4>2
    <3>8. e \in Int /\ Within(2 * e, u)
      <4>1. e \in Int
        <5> HIDE DEF entered, x
        <5> QED BY <3>3, <3>6
      <4> QED BY <3>4, <4>1
    <3> HIDE DEF e, new
    <3> QED BY <3>7, <3>8 DEF Rounded
  <2> HIDE DEF new
  <2> QED BY <2>1, <2>6, TakeOtherFollows
<1>3. ASSUME NEW new, TakeOther(t, new), t \notin Acquisitions, new.cost \in Int,
             FullyCosted => NetOf[t] + (new.cost - pool.cost) = 0
      PROVE  GInv'
  <2>1. ASSUME FullyCosted, NEW u, NEW k, Shared(u, k)
        PROVE  Rounded(u, u * (NetOf[t] + (new.cost - pool.cost))
                            + (IF t \in Acquisitions THEN CostAheadOf(k)[t] ELSE 0))
    <3>1. NetOf[t] + (new.cost - pool.cost) = 0 /\ u \in Nat
      BY <1>3, <2>1 DEF Shared
    <3>2. u * 0 + 0 = 0
      BY <3>1
    <3> QED BY <1>3, <3>1, <3>2, NoError
  <2> QED BY <1>3, <2>1, TakeOtherFollows
<1>4. ASSUME ledger[t].type \in {"SPLIT", "UNSPLIT", "CAPRETURN", "DIV_PAY"}
      PROVE  NetOf[t] = 0 /\ t \notin Acquisitions
  <2>1. ~IsAcquisition(t) /\ ~IsDisposal(t) /\ ledger[t].type # "RIGHTS_ISSUE"
    BY <1>4 DEF IsAcquisition, IsDisposal, AcquisitionTypes, DisposalTypes
  <2> QED BY <2>1 DEF NetOf, NetProceeds, CostPaid, Acquisitions
<1>5. CASE TakeSplit(t) \/ TakeUnsplit(t)
  <2>1. \E new : TakeOther(t, new) /\ new.cost = pool.cost
    BY <1>1, <1>5 DEF TakeSplit, TakeUnsplit, ApplyStockSplit, TypeOK
  <2>2. ledger[t].type \in {"SPLIT", "UNSPLIT", "CAPRETURN", "DIV_PAY"}
    BY <1>5 DEF TakeSplit, TakeUnsplit
  <2> QED BY <1>1, <1>3, <1>4, <2>1, <2>2
<1>6. CASE TakeCapReturn(t)
  <2> DEFINE new == ApplyCapReturn(pool, ledger[t].price)
  <2>1. TakeOther(t, new) /\ ledger[t].type = "CAPRETURN"
    BY <1>6 DEF TakeCapReturn
  <2>2. ~FullyCosted
    BY <2>1 DEF FullyCosted
  <2>3. new.cost \in Int
    <3>1. pool' = new /\ TypeOK'
      BY <2>1 DEF TakeOther, PInv, SInv, IInv
    <3> QED BY <3>1 DEF TypeOK
  <2> HIDE DEF new
  <2> QED BY <1>3, <1>4, <2>1, <2>2, <2>3
<1>7. CASE TakeRightsIssue(t)
  <2> DEFINE v == ledger[t].price * ledger[t].quantity
             new == AddToPool(pool, ledger[t].quantity, v)
  <2>1. TakeOther(t, new) /\ ledger[t].type = "RIGHTS_ISSUE" /\ ledger[t].given
    BY <1>7 DEF TakeRightsIssue
  <2>2. ~IsDisposal(t) /\ ~IsAcquisition(t) /\ t \notin Acquisitions
    BY <2>1 DEF IsAcquisition, IsDisposal, AcquisitionTypes, DisposalTypes, Acquisitions
  <2>3. v \in Int
    BY <1>1 DEF Txn
  <2>4. FullyCosted => NetOf[t] = -v
    <3> SUFFICES ASSUME FullyCosted PROVE NetOf[t] = -v
      OBVIOUS
    <3>1. ledger[t].costs = 0 /\ UnitPrice(t) = ledger[t].price
      BY <2>1 DEF FullyCosted, UnitPrice
    <3>2. CostPaid(t) = v + 0 /\ NetProceeds(t) = 0
      BY <2>1, <2>2, <3>1 DEF CostPaid, NetProceeds
    <3> HIDE DEF v
    <3> QED BY <2>3, <3>2 DEF NetOf
  <2>5. new.cost = pool.cost + v
    BY DEF AddToPool
  <2> HIDE DEF v, new
  <2> QED BY <1>1, <1>3, <2>1, <2>2, <2>3, <2>4, <2>5
<1>8. CASE TakeIgnored(t)
  <2>1. TakeOther(t, pool)
    BY <1>8 DEF TakeIgnored
  <2>2. CASE ledger[t].type = "RIGHTS_ISSUE"
    <3>1. ~ledger[t].given
      BY <1>8, <2>2 DEF TakeIgnored
    <3>2. ~FullyCosted
      BY <2>2, <3>1 DEF FullyCosted, Priced
    <3>3. t \notin Acquisitions
      BY <2>2 DEF Acquisitions, IsAcquisition, AcquisitionTypes
    <3> QED BY <1>1, <1>3, <2>1, <3>2, <3>3
  <2>3. CASE ledger[t].type # "RIGHTS_ISSUE"
    <3>1. ledger[t].type \in {"SPLIT", "UNSPLIT", "CAPRETURN", "DIV_PAY"}
      BY <1>8, <2>3 DEF TakeIgnored, PoolEventTypes
    <3> QED BY <1>1, <1>3, <1>4, <2>1, <3>1
  <2> QED BY <2>2, <2>3
<1> QED BY <1>2, <1>5, <1>6, <1>7, <1>8

LEMMA InitGInv == Init => GInv
<1> SUFFICES ASSUME Init PROVE GInv
  OBVIOUS
<1>1. PInv /\ TypeOK /\ disposals = {} /\ Ids \ pending = {} /\ cur = NoTxn /\ pool.cost = 0
  BY InitPInv, PInvTypes DEF Init, EmptyPool
<1>2. ASSUME NEW u, NEW k, Shared(u, k) PROVE GainsExact(u, k)
  <2>1. Earned = 0 /\ Roundings = 0 /\ Unmatched(u, k) = 0
    BY <1>1, SumEmpty, FS_EmptySet DEF Earned, Roundings, Unmatched
  <2>2. GainsRecorded = 0
    <3>1. GainsRecorded = GainsIn(disposals)
      BY DEF GainsRecorded, Total, GainsIn, MapThenSumSet, MapThenFoldSet
    <3> QED BY <1>1, <3>1, GainsSum, SumEmpty
  <2>3. CostAhead(k) = 0
    <3>1. \A a \in Acquisitions \cap pending : CostAheadOf(k)[a] = 0
      <4>1. ASSUME NEW a \in Acquisitions PROVE CostAheadOf(k)[a] = 0
        <5>1. a \in Ids /\ remaining[a] = ledger[a].quantity /\ ledger[a].quantity \in Nat
          BY <1>1 DEF Init, Acquisitions, TypeOK, Txn
        <5>2. k[a] \in Nat /\ CostPaid(a) \in Int
          BY <1>1, <1>2, <5>1, CostTypes DEF Shared
        <5>3. CostAheadOf(k)[a] = k[a] * (0 * CostPaid(a))
          BY <5>1 DEF CostAheadOf, IdentifiedOf
        <5> QED BY <5>2, <5>3
      <4> QED BY <4>1
    <3> QED BY <1>1, <1>2, <3>1, CostAheadInts, SumZero DEF CostAhead
  <2>4. Exact(u, k) = 0 /\ u \in Nat
    BY <1>1, <1>2, <2>1, <2>3 DEF Exact, Shared
  <2> QED BY <2>1, <2>2, <2>4 DEF GainsExact, Within
<1> QED BY <1>1, <1>2 DEF GInv, GainsFollow

LEMMA NextGInv == GInv /\ [Next]_vars => GInv'
<1> SUFFICES ASSUME GInv, [Next]_vars PROVE GInv'
  OBVIOUS
<1>1. PInv'
  BY NextPInv DEF GInv
<1>2. CASE MatchSameDay \/ MatchThirtyDay \/ MatchPool
  <2>1. PICK s : Identifies(s)
    BY <1>2, MatchIdentifies, PInvTypes DEF GInv
  <2> QED BY <1>1, <2>1, IdentifiesFollows
<1>3. ASSUME RejectDisposal \/ EndDisposal \/ UNCHANGED vars PROVE GInv'
  <2>1. CASE rejected'
    BY <1>1, <2>1 DEF GInv, GainsFollow
  <2>2. CASE ~rejected'
    <3>1. /\ UNCHANGED <<ledger, pending, toMatch, remaining, pool, disposals>> /\ ~rejected
          /\ cur' = cur \/ (cur' = NoTxn /\ toMatch = 0)
      BY <1>3, <2>2 DEF RejectDisposal, EndDisposal, vars
    <3> SUFFICES ASSUME FullyCosted, NEW u, NEW k, Shared(u, k) PROVE GainsExact(u, k)'
      BY <1>1, <3>1, MoneyKept DEF GInv, GainsFollow
    <3>2. Unmatched(u, k)' = Unmatched(u, k)
      <4>1. CASE cur' = cur
        <5>1. PerShare(u, k, cur)' = PerShare(u, k, cur)
          BY <3>1, <4>1, MoneyKept DEF PerShare
        <5> QED BY <3>1, <4>1, <5>1 DEF Unmatched
      <4>2. CASE cur' = NoTxn /\ toMatch = 0
        <5>1. cur # NoTxn => PerShare(u, k, cur) \in Int
          BY CostAheadInts, PInvTypes DEF GInv, TypeOK
        <5> QED BY <4>2, <5>1 DEF Unmatched
      <4> QED BY <3>1, <4>1, <4>2
    <3>3. Earned' = Earned
      BY <3>1, MoneyKept DEF Earned
    <3>4. CostAhead(k)' = CostAhead(k)
      <4>1. CostAheadOf(k)' = CostAheadOf(k)
        BY <3>1, MoneyKept DEF CostAheadOf, IdentifiedOf
      <4>2. Acquisitions' = Acquisitions
        BY <3>1 DEF Acquisitions, IsAcquisition
      <4> QED BY <3>1, <4>1, <4>2 DEF CostAhead
    <3>5. GainsRecorded' = GainsRecorded /\ Roundings' = Roundings
      <4>1. GainsRecorded = GainsIn(disposals) /\ GainsRecorded' = GainsIn(disposals')
        BY DEF GainsRecorded, Total, GainsIn, MapThenSumSet, MapThenFoldSet
      <4> QED BY <3>1, <4>1 DEF Roundings
    <3>6. Exact(u, k)' = Exact(u, k)
      BY <3>1, <3>2, <3>3, <3>4 DEF Exact
    <3> QED BY <3>1, <3>5, <3>6 DEF GInv, GainsFollow, GainsExact
  <2> QED BY <2>1, <2>2
<1>4. ASSUME NEW t \in Ids, TakeDisposal(t) PROVE GInv'
  BY <1>1, <1>4, TakeDisposalFollows
<1>5. ASSUME NEW t \in Ids,
             \/ TakeAcquisition(t) \/ TakeSplit(t) \/ TakeUnsplit(t)
             \/ TakeCapReturn(t) \/ TakeRightsIssue(t) \/ TakeIgnored(t)
      PROVE  GInv'
  BY <1>1, <1>5, OtherFollows
<1> QED BY <1>2, <1>3, <1>4, <1>5 DEF Next, Step

(* The quantities have a common multiple: their product.                   *)
LEMMA SharedExists ==
  ASSUME TypeOK
  PROVE  \E u, k : Shared(u, k)
<1> DEFINE P == Nat \ {0}
           q(t) == ledger[t].quantity
           Has(S) == \E u \in P : \E k \in [Ids -> P] : \A t \in S : k[t] * q(t) = u
           bad == {S \in SUBSET Ids : ~Has(S)}
<1>1. \A t \in Ids : q(t) \in P
  BY CostTypes
<1>2. bad = {}
  <2> SUFFICES ASSUME bad # {} PROVE FALSE
    OBVIOUS
  <2>1. PICK S \in bad : \A x \in S : S \ {x} \notin bad
    <3>1. \A S \in bad : IsFiniteSet(S)
      BY FS_Subset, IdsAreNumbers
    <3> HIDE DEF bad
    <3> QED BY <3>1, Smallest
  <2>2. CASE S = {}
    <3>1. 1 \in P /\ [t \in Ids |-> 1] \in [Ids -> P]
      OBVIOUS
    <3>2. Has(S)
      BY <2>2, <3>1
    <3> QED BY <3>2
  <2>3. CASE S # {}
    <3>1. PICK x \in S : TRUE
      BY <2>3
    <3>2. S \in SUBSET Ids /\ x \in Ids /\ Has(S \ {x})
      BY <2>1, <3>1
    <3>3. PICK u \in P, k \in [Ids -> P] : \A t \in S \ {x} : k[t] * q(t) = u
      BY <3>2
    <3> DEFINE v == u * q(x)
               h == [t \in Ids |-> IF t = x THEN u ELSE k[t] * q(x)]
    <3>4. v \in P /\ h \in [Ids -> P]
      <4>1. \A i, j \in P : i * j \in P
        OBVIOUS
      <4> HIDE DEF P, q
      <4> QED BY <1>1, <3>2, <3>3, <4>1
    <3>5. ASSUME NEW t \in S PROVE h[t] * q(t) = v
      <4>1. CASE t = x
        BY <3>2, <4>1
      <4>2. CASE t # x
        <5>1. k[t] * q(t) = u /\ t \in Ids
          BY <3>2, <3>3, <4>2
        <5>2. k[t] \in Nat /\ q(t) \in Nat /\ q(x) \in Nat
          BY <1>1, <3>2, <3>3, <5>1
        <5>3. h[t] = k[t] * q(x)
          BY <4>2, <5>1
        <5> HIDE DEF q, h
        <5>4. (k[t] * q(x)) * q(t) = (k[t] * q(t)) * q(x)
          BY <5>2
        <5> QED BY <5>1, <5>3, <5>4
      <4> QED BY <4>1, <4>2
    <3> HIDE DEF v, h
    <3>6. Has(S)
      BY <3>4, <3>5
    <3> QED BY <3>6
  <2> QED BY <2>2, <2>3
<1>3. Has(Ids)
  BY <1>2
<1> QED BY <1>3 DEF Shared

(* For every ledger whose money the matcher sees whole, the gains come to  *)
(* the profit, to half a unit per slice and per transaction.               *)
THEOREM GainsCorrect == Spec => []LifetimeGainIsProfit
<1>1. GInv => LifetimeGainIsProfit
  <2> DEFINE b == Cardinality(disposals) + Cardinality(Ids)
             z == GainsRecorded - Profit
  <2> SUFFICES ASSUME GInv, Returned, FullyCosted PROVE z \in -b .. b
    BY DEF LifetimeGainIsProfit
  <2>1. /\ PInv /\ TypeOK /\ ~rejected /\ cur = NoTxn /\ Ids \ pending = Ids
        /\ Acquisitions \cap pending = {} /\ pool.cost \in Int
    BY PInvTypes DEF GInv, Returned, TypeOK
  <2>2. PICK u, k : Shared(u, k)
    BY <2>1, SharedExists
  <2>3. GainsExact(u, k) /\ u \in Nat \ {0}
    BY <2>1, <2>2 DEF GInv, GainsFollow, Shared
  <2>4. Unmatched(u, k) = 0 /\ CostAhead(k) = 0 /\ Roundings = b
    BY <2>1, SumEmpty DEF Unmatched, CostAhead, Roundings
  <2>5. Earned = Total(NetProceeds, Ids) - Total(CostPaid, Ids) /\ Earned \in Int
    <3> DEFINE f == [t \in Ids |-> NetProceeds(t)]
               e == [t \in Ids |-> CostPaid(t)]
               d == NetOf
    <3>1. Ints(f, Ids) /\ Ints(e, Ids) /\ \A t \in Ids : d[t] = f[t] - e[t]
      BY <2>1, CostTypes, IdsAreNumbers DEF Ints, NetOf
    <3>2. Total(NetProceeds, Ids) = SumOf(f, Ids) /\ Total(CostPaid, Ids) = SumOf(e, Ids)
      BY ProceedsSum, CostSum
    <3>3. Earned = SumOf(d, Ids)
      BY <2>1 DEF Earned
    <3> HIDE DEF f, e, d
    <3>4. SumOf(d, Ids) = SumOf(f, Ids) - SumOf(e, Ids)
      BY <3>1, SumLess
    <3>5. SumOf(f, Ids) \in Int /\ SumOf(e, Ids) \in Int
      BY <3>1, SumInt
    <3> QED BY <3>2, <3>3, <3>4, <3>5
  <2>6. Total(NetProceeds, Ids) \in Int /\ Total(CostPaid, Ids) \in Int
    <3> DEFINE f == [t \in Ids |-> NetProceeds(t)]
               e == [t \in Ids |-> CostPaid(t)]
    <3>1. Ints(f, Ids) /\ Ints(e, Ids)
      BY <2>1, CostTypes, IdsAreNumbers DEF Ints
    <3> HIDE DEF f, e
    <3>2. SumOf(f, Ids) \in Int /\ SumOf(e, Ids) \in Int
      BY <3>1, SumInt
    <3> QED BY <3>2, ProceedsSum, CostSum DEF f, e
  <2>7. Profit = Earned + pool.cost /\ Profit \in Int
    BY <2>1, <2>5, <2>6 DEF Profit
  <2>8. Exact(u, k) = u * Profit
    <3>1. u * Profit \in Int
      BY <2>3, <2>7
    <3> QED BY <2>4, <2>7, <3>1 DEF Exact
  <2>9. GainsRecorded \in Int /\ b \in Nat
    <3>1. IsFiniteSet(disposals) /\ disposals \in SUBSET SliceType
      BY <2>1 DEF PInv, SInv, TypeOK
    <3> DEFINE g == [s \in disposals |-> s.gain]
    <3>2. Ints(g, disposals)
      BY <3>1 DEF Ints, SliceType
    <3> HIDE DEF g
    <3>3. SumOf(g, disposals) \in Int
      BY <3>2, SumInt
    <3>4. GainsRecorded = GainsIn(disposals)
      BY DEF GainsRecorded, Total, GainsIn, MapThenSumSet, MapThenFoldSet
    <3>5. GainsRecorded \in Int
      BY <3>3, <3>4, GainsSum DEF g
    <3> QED BY <3>1, <3>5, FS_CardinalityType, IdsAreNumbers
  <2>10. Within(2 * (u * GainsRecorded - u * Profit), u * b)
    BY <2>3, <2>4, <2>8 DEF GainsExact
  <2> HIDE DEF b
  <2>11. z \in Int /\ u * GainsRecorded - u * Profit = u * z
    BY <2>3, <2>7, <2>9
  <2> HIDE DEF z
  <2>12. 2 * (u * z) <= u * b /\ -(u * b) <= 2 * (u * z)
    BY <2>10, <2>11 DEF Within
  <2>13. ~(z > b)
    BY <2>3, <2>9, <2>11, <2>12
  <2>14. ~(z < -b)
    BY <2>3, <2>9, <2>11, <2>12
  <2> QED BY <2>9, <2>11, <2>13, <2>14
<1> QED BY <1>1, InitGInv, NextGInv, PTL DEF Spec

-----------------------------------------------------------------------------
(* The run with the history of the pool is a run of the matcher.           *)
LEMMA HistoryStep == [HistoryNext]_reportVars => [Next]_vars
BY DEF HistoryNext, reportVars, Next, Step, Finished, vars

THEOREM HistoryRefines == HistorySpec => Spec
<1>1. HistoryInit => Init
  BY DEF HistoryInit
<1> QED BY <1>1, HistoryStep, PTL DEF HistorySpec, Spec

-----------------------------------------------------------------------------
(* The history.  Its rows are transactions taken, in order; the last one   *)
(* is the pool as it stands, until the disposal in hand takes from it.     *)
PoolSlices == {s \in disposals : s.acq = NoTxn}
PoolOf(row) == [quantity |-> row.quantity, cost |-> row.cost]
LastPool == IF history = <<>> THEN EmptyPool ELSE PoolOf(history[Len(history)])

RowsTaken ==
  /\ history \in Seq([txn : Ids, quantity : Nat, cost : Nat])
  /\ \A i \in 1 .. Len(history) : history[i].txn \notin pending \cup {cur}
RowsOrdered ==
  \A i, j \in 1 .. Len(history) : i < j => Precedes(history[i].txn, history[j].txn)
RulesKept == \A s \in disposals : s.matchType = "s104-pool" => s.acq = NoTxn
Shown(s) ==
  \E i \in 2 .. Len(history) :
    history[i].txn = s.txn /\ PoolBefore(s, history[i]) = PoolOf(history[i - 1])
SlicesShown == \A s \in PoolSlices : s.txn # cur => Shown(s)
InHandShown ==
  \A s \in PoolSlices : s.txn = cur =>
    toMatch = 0 /\ history # <<>> /\ PoolBefore(s, pool) = LastPool
PoolIsLast == (\A s \in PoolSlices : s.txn # cur) => pool = LastPool

EInv ==
  PInv /\ RowsTaken /\ RowsOrdered /\ RulesKept /\ SlicesShown /\ InHandShown /\ PoolIsLast

LEMMA RowTypes ==
  ASSUME EInv, NEW i \in 1 .. Len(history)
  PROVE  /\ history[i].txn \in Ids \ pending /\ history[i].txn # cur /\ history[i].txn # NoTxn
         /\ history[i].quantity \in Nat /\ history[i].cost \in Nat
<1> DEFINE Row == [txn : Ids, quantity : Nat, cost : Nat]
<1>1. history \in Seq(Row) /\ history[i].txn \notin pending \cup {cur}
  BY DEF EInv, RowsTaken
<1>2. \A r \in Row : r.txn \in Ids /\ r.quantity \in Nat /\ r.cost \in Nat
  OBVIOUS
<1> HIDE DEF Row
<1>3. history[i] \in Row
  BY <1>1
<1> QED BY <1>1, <1>2, <1>3, IdsAreNumbers

(* A step that leaves the history alone.                                   *)
LEMMA SameHistory ==
  ASSUME EInv, history' = history, ledger' = ledger, pending' \subseteq pending,
         cur' \in pending \cup {cur, NoTxn}, cur' \in {cur, NoTxn} \/ cur' \notin pending'
  PROVE  /\ RowsTaken' /\ RowsOrdered' /\ LastPool' = LastPool
         /\ \A s : Shown(s)' = Shown(s)
<1>1. \A a, b : Precedes(a, b)' = Precedes(a, b)
  BY DEF Precedes, DisposalRank, IsDisposal
<1>2. RowsOrdered' /\ LastPool' = LastPool /\ \A s : Shown(s)' = Shown(s)
  BY <1>1 DEF EInv, RowsOrdered, LastPool, Shown, PoolBefore, PoolOf
<1>3. \A i \in 1 .. Len(history) : history[i].txn \in Ids /\ history[i].txn # NoTxn
  BY RowTypes
<1>4. RowsTaken'
  BY <1>3 DEF EInv, RowsTaken
<1> QED BY <1>2, <1>4

(* A row appended for t, which every row before precedes.                  *)
LEMMA OneRow ==
  ASSUME EInv, PInv', NEW t \in Ids, t \notin pending', t # cur', ledger' = ledger,
         pending' \subseteq pending, cur' = NoTxn,
         \A i \in 1 .. Len(history) : Precedes(history[i].txn, t),
         Snapshot(t)
  PROVE  /\ RowsTaken' /\ RowsOrdered' /\ LastPool' = pool'
         /\ history' # <<>> /\ Len(history') = Len(history) + 1
         /\ history'[Len(history')] = [txn |-> t, quantity |-> pool'.quantity, cost |-> pool'.cost]
         /\ \A i \in 1 .. Len(history) : history'[i] = history[i]
         /\ \A s : Shown(s) => Shown(s)'
<1> DEFINE row == [txn |-> t, quantity |-> pool'.quantity, cost |-> pool'.cost]
           Row == [txn : Ids, quantity : Nat, cost : Nat]
           n == Len(history)
<1>1. pool' \in [quantity : Nat, cost : Nat]
  BY PInvTypes DEF PInv, SInv, IInv, TypeOK
<1>2. row \in Row /\ history \in Seq(Row) /\ history' = Append(history, row)
  BY <1>1 DEF Snapshot, EInv, RowsTaken
<1>3. PoolOf(row) = pool' /\ row.txn = t
  BY <1>1 DEF PoolOf
<1> HIDE DEF row
<1>4. /\ history' \in Seq(Row) /\ Len(history') = n + 1 /\ n \in Nat
      /\ history'[n + 1] = row /\ \A i \in 1 .. n : history'[i] = history[i]
  BY <1>2
<1>5. history' # <<>>
  BY <1>4
<1>6. RowsTaken'
  <2>1. \A i \in 1 .. n : history[i].txn \in Ids \ pending
    BY RowTypes
  <2>2. \A i \in 1 .. n + 1 : i \in 1 .. n \/ i = n + 1
    BY <1>4
  <2>3. ASSUME NEW i \in 1 .. n + 1 PROVE history'[i].txn \notin pending' \cup {cur'}
    <3>1. NoTxn \notin Ids
      BY IdsAreNumbers
    <3> QED BY <1>3, <1>4, <2>1, <2>2, <3>1
  <2> QED BY <1>4, <2>3 DEF RowsTaken
<1>7. RowsOrdered'
  <2>1. \A a, b : Precedes(a, b)' = Precedes(a, b)
    BY DEF Precedes, DisposalRank, IsDisposal
  <2>2. ASSUME NEW i \in 1 .. n + 1, NEW j \in 1 .. n + 1, i < j
        PROVE  Precedes(history'[i].txn, history'[j].txn)
    <3>1. i \in 1 .. n
      BY <1>4, <2>2
    <3>2. CASE j = n + 1
      BY <1>3, <1>4, <3>1, <3>2
    <3>3. CASE j \in 1 .. n
      BY <1>4, <2>2, <3>1, <3>3 DEF EInv, RowsOrdered
    <3> QED BY <1>4, <3>2, <3>3
  <2> QED BY <1>4, <2>1, <2>2 DEF RowsOrdered
<1>8. LastPool' = pool'
  BY <1>3, <1>4, <1>5 DEF LastPool, PoolOf
<1>9. ASSUME NEW s, Shown(s) PROVE Shown(s)'
  <2>1. PICK i \in 2 .. n : history[i].txn = s.txn /\ PoolBefore(s, history[i]) = PoolOf(history[i - 1])
    BY <1>9 DEF Shown
  <2>2. i \in 1 .. n /\ i - 1 \in 1 .. n /\ i \in 2 .. Len(history')
    BY <1>4
  <2>3. history'[i] = history[i] /\ history'[i - 1] = history[i - 1]
    BY <1>4, <2>2
  <2> QED BY <2>1, <2>2, <2>3 DEF Shown, PoolBefore, PoolOf
<1> QED BY <1>4, <1>5, <1>6, <1>7, <1>8, <1>9 DEF row

LEMMA SliceTxns ==
  ASSUME EInv, NEW s \in disposals
  PROVE  /\ s.txn \in Ids \ pending /\ s.txn # NoTxn
         /\ s.quantity \in Nat \ {0} /\ s.allowable \in Nat
<1>1. s \in SliceType /\ s.txn \notin pending
  BY DEF EInv, PInv, SInv, IInv, TypeOK, TakenSlices
<1> QED BY <1>1, IdsAreNumbers DEF SliceType

(* Slices under the first two rules leave the pool as it is, and only its  *)
(* own rule takes from it.                                                 *)
LEMMA RulesStay ==
  ASSUME EInv, [HistoryNext]_reportVars
  PROVE  RulesKept'
<1>1. CASE disposals' = disposals
  BY <1>1 DEF EInv, RulesKept
<1>2. ASSUME NEW rule \in {"same-day", "30-day"}, NEW S, MatchFrom(rule, S) PROVE RulesKept'
  <2>1. PICK acq, m : RecordSlice(rule, acq, m)
    BY <1>2 DEF MatchFrom
  <2>2. \A s \in disposals' : s \in disposals \/ s.matchType # "s104-pool"
    BY <2>1 DEF RecordSlice, Slice
  <2> QED BY <2>2 DEF EInv, RulesKept
<1>3. CASE TakeFromPool
  <2>1. \A s \in disposals' : s \in disposals \/ s.acq = NoTxn
    BY <1>3 DEF TakeFromPool, Slice
  <2> QED BY <2>1 DEF EInv, RulesKept
<1>4. CASE MatchSameDay \/ MatchThirtyDay \/ MatchPool
  <2>1. MatchSameDay => MatchFrom("same-day", SameDay(cur))
    BY DEF MatchSameDay
  <2>2. MatchThirtyDay => MatchFrom("30-day", Within30Days(cur))
    BY DEF MatchThirtyDay
  <2>3. MatchPool => TakeFromPool
    BY DEF MatchPool
  <2> QED BY <1>2, <1>3, <1>4, <2>1, <2>2, <2>3
<1>5. CASE ~(MatchSameDay \/ MatchThirtyDay \/ MatchPool)
  <2>1. disposals' = disposals
    BY <1>5 DEF HistoryNext, reportVars, vars, RejectDisposal, EndDisposal, TakeDisposal, TakeAcquisition,
       TakeSplit, TakeUnsplit, TakeCapReturn, TakeRightsIssue, TakeIgnored, TakeOther
  <2> QED BY <1>1, <2>1
<1> QED BY <1>4, <1>5

(* A disposal in hand with shares left has taken nothing from the pool.    *)
LEMMA NothingTaken ==
  ASSUME EInv, toMatch > 0
  PROVE  (\A s \in PoolSlices : s.txn # cur) /\ pool = LastPool
<1>1. toMatch # 0
  BY PInvTypes DEF EInv
<1> QED BY <1>1 DEF EInv, InHandShown, PoolIsLast

LEMMA IdentifiesShows ==
  ASSUME EInv, PInv', RulesKept', history' = history, NEW s, Identifies(s)
  PROVE  EInv'
<1>1. /\ s \in SliceType /\ s.quantity \in Nat \ {0} /\ s.txn = cur
      /\ disposals' = disposals \cup {s} /\ cur \in Ids /\ toMatch > 0
      /\ ledger' = ledger /\ pending' = pending /\ cur' = cur
      /\ toMatch' = toMatch - s.quantity /\ toMatch \in Nat
  BY IdentifiesTypes DEF EInv, PInv, Identifies, Matching
<1>2. /\ RowsTaken' /\ RowsOrdered' /\ LastPool' = LastPool
      /\ \A x : Shown(x)' = Shown(x)
  BY <1>1, SameHistory
<1>3. (\A x \in PoolSlices : x.txn # cur) /\ pool = LastPool
  BY <1>1, NothingTaken
<1>4. CASE FromAcquisition(s)
  <2>1. s.acq # NoTxn /\ pool' = pool
    BY <1>4, IdsAreNumbers DEF FromAcquisition, Acquisitions
  <2>2. PoolSlices' = PoolSlices
    BY <1>1, <2>1 DEF PoolSlices
  <2>3. SlicesShown' /\ InHandShown' /\ PoolIsLast'
    BY <1>1, <1>2, <1>3, <2>1, <2>2 DEF EInv, SlicesShown, InHandShown, PoolIsLast
  <2> QED BY <1>2, <2>3 DEF EInv
<1>5. CASE FromPool(s)
  <2>1. /\ s.acq = NoTxn /\ s.quantity = toMatch /\ toMatch <= pool.quantity
        /\ s = Slice(cur, s.matchType, NoTxn, s.quantity, PoolCostOf(pool, toMatch), 1)
        /\ pool' = DisposeFromPool(pool, toMatch)
    BY <1>5 DEF FromPool
  <2>2. PoolSlices' = PoolSlices \cup {s}
    BY <1>1, <2>1 DEF PoolSlices
  <2>3. toMatch' = 0
    BY <1>1, <2>1
  <2>4. pool \in [quantity : Nat, cost : Nat] /\ pool.quantity \in Nat \ {0} /\ pool.cost \in Nat
    BY <1>1, <2>1 DEF EInv, PInv, SInv, IInv, TypeOK
  <2>5. history # <<>>
    BY <1>3, <2>4 DEF LastPool, EmptyPool
  <2>6. PoolCostOf(pool, toMatch) \in 0 .. pool.cost
    BY <1>1, <2>1, <2>4, PoolCostBound
  <2>7. s.allowable = PoolCostOf(pool, toMatch)
    <3> DEFINE c == PoolCostOf(pool, toMatch)
               one == 1
    <3>1. s.allowable = RoundDiv(c, one)
      BY <2>1 DEF Slice
    <3>2. c \in Int /\ one \in Nat \ {0} /\ c * one = c
      BY <2>6
    <3> HIDE DEF c, one
    <3> QED BY <3>1, <3>2, RoundDivWhole DEF c
  <2>8. pool.quantity = toMatch => PoolCostOf(pool, toMatch) = pool.cost
    BY <2>4, RoundDivWhole DEF PoolCostOf
  <2>9. PoolBefore(s, pool') = pool
    <3> DEFINE c == PoolCostOf(pool, toMatch)
    <3>1. pool'.quantity + s.quantity = pool.quantity
      BY <1>1, <2>1, <2>4 DEF DisposeFromPool
    <3>2. pool'.cost = IF pool.quantity = toMatch THEN 0 ELSE pool.cost - c
      BY <2>1 DEF DisposeFromPool
    <3>3. c \in Nat /\ s.allowable = c /\ (pool.quantity = toMatch => c = pool.cost)
      BY <2>6, <2>7, <2>8
    <3> HIDE DEF c
    <3>4. pool'.cost + s.allowable = pool.cost
      BY <2>4, <3>2, <3>3
    <3> QED BY <2>4, <3>1, <3>4 DEF PoolBefore
  <2>10. InHandShown'
    BY <1>1, <1>2, <1>3, <2>2, <2>3, <2>5, <2>9 DEF InHandShown
  <2>11. SlicesShown' /\ PoolIsLast'
    BY <1>1, <1>2, <2>2 DEF EInv, SlicesShown, PoolIsLast
  <2> QED BY <1>2, <2>10, <2>11 DEF EInv
<1> QED BY <1>4, <1>5 DEF Identifies

LEMMA EndShows ==
  ASSUME EInv, PInv', RulesKept', EndDisposal, Snapshot(cur)
  PROVE  EInv'
<1>1. /\ cur \in Ids /\ cur # NoTxn /\ toMatch = 0 /\ cur' = NoTxn /\ ledger' = ledger /\ pending' = pending
      /\ pool' = pool /\ disposals' = disposals /\ cur \notin pending
  BY DEF EndDisposal, EInv, PInv, SInv, IInv, TypeOK, InHand
<1>2. \A i \in 1 .. Len(history) : Precedes(history[i].txn, cur)
  BY <1>1, RowTypes DEF EInv, PInv, LatestInHand
<1>3. /\ RowsTaken' /\ RowsOrdered' /\ LastPool' = pool
      /\ history' # <<>> /\ Len(history') = Len(history) + 1
      /\ history'[Len(history')] = [txn |-> cur, quantity |-> pool.quantity, cost |-> pool.cost]
      /\ \A i \in 1 .. Len(history) : history'[i] = history[i]
      /\ \A s : Shown(s) => Shown(s)'
  <2>1. cur # cur'
    BY <1>1, IdsAreNumbers
  <2> QED BY <1>1, <1>2, <2>1, OneRow
<1>4. PoolSlices' = PoolSlices
  BY <1>1 DEF PoolSlices
<1>5. ASSUME NEW s \in PoolSlices, s.txn = cur PROVE Shown(s)'
  <2> DEFINE n == Len(history)
  <2>1. history # <<>> /\ PoolBefore(s, pool) = LastPool
    BY <1>5 DEF EInv, InHandShown
  <2>2. n \in Nat \ {0}
    BY <2>1 DEF EInv, RowsTaken
  <2>3. history'[n] = history[n] /\ history'[n + 1].txn = s.txn /\ n + 1 \in 2 .. Len(history')
    BY <1>3, <1>5, <2>2
  <2>4. (n + 1) - 1 = n
    BY <2>2
  <2>5. PoolBefore(s, history'[n + 1]) = PoolBefore(s, pool)
    BY <1>3 DEF PoolBefore
  <2>6. LastPool = PoolOf(history[n])
    BY <2>1 DEF LastPool
  <2>7. PoolBefore(s, history'[n + 1]) = PoolOf(history'[(n + 1) - 1])
    BY <2>1, <2>3, <2>4, <2>5, <2>6
  <2> HIDE DEF n
  <2> QED BY <2>3, <2>7 DEF Shown, PoolBefore, PoolOf
<1>6. SlicesShown'
  BY <1>3, <1>4, <1>5 DEF EInv, SlicesShown
<1>7. \A s \in PoolSlices' : s.txn # cur'
  BY <1>1, <1>4, SliceTxns DEF PoolSlices
<1> QED BY <1>1, <1>3, <1>6, <1>7 DEF EInv, InHandShown, PoolIsLast

(* Every other step leaves the slices alone.                               *)
LEMMA RejectShows ==
  ASSUME EInv, PInv', RulesKept', history' = history, RejectDisposal
  PROVE  EInv'
<1>1. /\ toMatch > 0 /\ cur' = NoTxn /\ ledger' = ledger /\ pending' = pending
      /\ pool' = pool /\ disposals' = disposals
  BY DEF RejectDisposal, Matching
<1>2. /\ RowsTaken' /\ RowsOrdered' /\ LastPool' = LastPool
      /\ \A x : Shown(x)' = Shown(x)
  BY <1>1, SameHistory
<1>3. (\A x \in PoolSlices : x.txn # cur) /\ pool = LastPool
  BY <1>1, NothingTaken
<1>4. PoolSlices' = PoolSlices /\ \A s \in PoolSlices' : s.txn # cur'
  BY <1>1, SliceTxns DEF PoolSlices
<1> QED BY <1>1, <1>2, <1>3, <1>4 DEF EInv, SlicesShown, InHandShown, PoolIsLast

LEMMA NoneInHand ==
  ASSUME EInv, cur = NoTxn
  PROVE  (\A s \in PoolSlices : s.txn # cur /\ Shown(s)) /\ pool = LastPool
BY SliceTxns DEF EInv, SlicesShown, PoolIsLast, PoolSlices

LEMMA TakeDisposalShows ==
  ASSUME EInv, PInv', RulesKept', history' = history, NEW t \in Ids, TakeDisposal(t)
  PROVE  EInv'
<1>1. /\ cur = NoTxn /\ t \in pending /\ cur' = t /\ pending' = pending \ {t}
      /\ ledger' = ledger /\ pool' = pool /\ disposals' = disposals
  BY DEF TakeDisposal, IsNext, IsFirst
<1>2. /\ RowsTaken' /\ RowsOrdered' /\ LastPool' = LastPool
      /\ \A x : Shown(x)' = Shown(x)
  BY <1>1, SameHistory
<1>3. (\A s \in PoolSlices : s.txn # cur /\ Shown(s)) /\ pool = LastPool
  BY <1>1, NoneInHand
<1>4. PoolSlices' = PoolSlices /\ \A s \in PoolSlices' : s.txn # cur'
  BY <1>1, SliceTxns DEF PoolSlices
<1> QED BY <1>1, <1>2, <1>3, <1>4 DEF EInv, SlicesShown, InHandShown, PoolIsLast

LEMMA TakeOtherShows ==
  ASSUME EInv, PInv', RulesKept', NEW t \in Ids, NEW newPool, TakeOther(t, newPool),
         Snapshot(t) \/ (history' = history /\ newPool = pool)
  PROVE  EInv'
<1>1. /\ cur = NoTxn /\ t \in pending /\ cur' = cur /\ pending' = pending \ {t}
      /\ ledger' = ledger /\ pool' = newPool /\ disposals' = disposals
  BY DEF TakeOther, IsNext, IsFirst
<1>2. (\A s \in PoolSlices : s.txn # cur /\ Shown(s)) /\ pool = LastPool
  BY <1>1, NoneInHand
<1>3. PoolSlices' = PoolSlices
  BY <1>1 DEF PoolSlices
<1>4. RowsTaken' /\ RowsOrdered' /\ LastPool' = pool' /\ \A s : Shown(s) => Shown(s)'
  <2>1. CASE Snapshot(t)
    <3>1. \A i \in 1 .. Len(history) : Precedes(history[i].txn, t)
      BY <1>1, RowTypes DEF EInv, PInv, Ordered
    <3>2. t \notin pending' /\ t # cur' /\ pending' \subseteq pending /\ cur' = NoTxn
      BY <1>1, IdsAreNumbers
    <3> QED BY <1>1, <2>1, <3>1, <3>2, OneRow
  <2>2. CASE history' = history /\ newPool = pool
    <3>1. pending' \subseteq pending /\ cur' \in pending \cup {cur, NoTxn} /\ cur' \in {cur, NoTxn}
      BY <1>1
    <3>2. RowsTaken' /\ RowsOrdered' /\ LastPool' = LastPool /\ \A s : Shown(s)' = Shown(s)
      BY <1>1, <2>2, <3>1, SameHistory
    <3> QED BY <1>1, <1>2, <2>2, <3>2
  <2> QED BY <2>1, <2>2
<1> QED BY <1>1, <1>2, <1>3, <1>4 DEF EInv, SlicesShown, InHandShown, PoolIsLast

LEMMA InitEInv == HistoryInit => EInv
<1> SUFFICES ASSUME HistoryInit PROVE EInv
  OBVIOUS
<1>1. PInv /\ history = <<>> /\ disposals = {} /\ pool = EmptyPool
  BY InitPInv DEF HistoryInit, Init
<1>2. RowsTaken /\ RowsOrdered
  BY <1>1 DEF RowsTaken, RowsOrdered
<1> QED BY <1>1, <1>2 DEF EInv, RulesKept, PoolSlices, SlicesShown, InHandShown, PoolIsLast, LastPool

LEMMA NextEInv == EInv /\ [HistoryNext]_reportVars => EInv'
<1> SUFFICES ASSUME EInv, [HistoryNext]_reportVars PROVE EInv'
  OBVIOUS
<1>1. PInv' /\ RulesKept'
  BY HistoryStep, NextPInv, RulesStay DEF EInv
<1>2. CASE (MatchSameDay \/ MatchThirtyDay \/ MatchPool) /\ history' = history
  <2>1. PICK s : Identifies(s)
    BY <1>2, MatchIdentifies DEF EInv, PInv, SInv, IInv
  <2> QED BY <1>1, <1>2, <2>1, IdentifiesShows
<1>3. CASE RejectDisposal /\ history' = history
  BY <1>1, <1>3, RejectShows
<1>4. CASE EndDisposal /\ Snapshot(cur)
  BY <1>1, <1>4, EndShows
<1>5. ASSUME NEW t \in Ids, TakeDisposal(t), history' = history PROVE EInv'
  BY <1>1, <1>5, TakeDisposalShows
<1>6. ASSUME NEW t \in Ids, Snapshot(t),
             \/ TakeAcquisition(t) \/ TakeSplit(t) \/ TakeUnsplit(t)
             \/ TakeCapReturn(t) \/ TakeRightsIssue(t)
      PROVE  EInv'
  <2>1. \E p : TakeOther(t, p)
    BY <1>6 DEF TakeAcquisition, TakeSplit, TakeUnsplit, TakeCapReturn, TakeRightsIssue
  <2> QED BY <1>1, <1>6, <2>1, TakeOtherShows
<1>7. ASSUME NEW t \in Ids, TakeIgnored(t), history' = history PROVE EInv'
  BY <1>1, <1>7, TakeOtherShows DEF TakeIgnored
<1>8. CASE UNCHANGED reportVars
  <2>1. UNCHANGED <<ledger, pending, cur, toMatch, pool, disposals, history>>
    BY <1>8 DEF reportVars, vars
  <2>2. RowsTaken' /\ RowsOrdered' /\ LastPool' = LastPool /\ \A s : Shown(s)' = Shown(s)
    BY <2>1, SameHistory
  <2> QED BY <1>1, <2>1, <2>2 DEF EInv, PoolSlices, SlicesShown, InHandShown, PoolIsLast
<1> QED BY <1>2, <1>3, <1>4, <1>5, <1>6, <1>7, <1>8 DEF HistoryNext

LEMMA EarliestIs ==
  ASSUME TypeOK, NEW y \in Years, NEW s \in Records(y)
  PROVE  /\ s.txn \in Ids /\ ledger[s.txn].date \in Nat /\ ledger[s.txn].date <= y.last
         /\ Earliest(y) \in Nat /\ Earliest(y) <= ledger[s.txn].date
<1> DEFINE dates == {ledger[d].date : d \in Disposers(y)}
<1>1. \A x \in Records(y) : x.txn \in Ids /\ ledger[x.txn].date \in Nat
  BY DEF Records, TypeOK, SliceType, Txn
<1>2. dates \in SUBSET Nat /\ ledger[s.txn].date \in dates
  BY <1>1 DEF Disposers
<1>3. Earliest(y) = CHOOSE d \in dates : \A e \in dates : d <= e
  BY DEF Earliest, Min
<1> HIDE DEF dates
<1>4. \E d \in dates : \A e \in dates : d <= e
  BY <1>2, NatMin
<1>5. Earliest(y) \in dates /\ \A e \in dates : Earliest(y) <= e
  BY <1>3, <1>4
<1>6. ledger[s.txn].date <= y.last
  BY <1>1, YearsAreTyped DEF Records
<1> QED BY <1>1, <1>2, <1>5, <1>6

LEMMA GreatestBelow ==
  ASSUME NEW S \in SUBSET Int, NEW i \in Int, i - 1 \in S
  PROVE  Max({j \in S : j < i}) = i - 1
<1> DEFINE T == {j \in S : j < i}
<1>1. i - 1 \in T /\ \A j \in T : j \in Int /\ i - 1 >= j
  OBVIOUS
<1>2. Max(T) \in T /\ \A j \in T : Max(T) >= j
  BY <1>1 DEF Max
<1>3. Max(T) = i - 1
  <2> HIDE DEF T
  <2> QED BY <1>1, <1>2
<1> QED BY <1>3 DEF T

(* For every ledger the report shows, above the row of a pool-matched      *)
(* disposal, the pool that its working quotes.                             *)
THEOREM EvidenceCorrect == HistorySpec => []PoolIsEvidenced
<1>1. EInv => PoolIsEvidenced
  <2> SUFFICES ASSUME EInv, Returned, NEW y \in Years, NEW s \in Records(y), s.matchType = "s104-pool"
               PROVE  \E i \in ScopedHistory(y) :
                        LET above == {j \in ScopedHistory(y) : j < i}
                            row   == history[Max(above)]
                        IN  /\ history[i].txn = s.txn
                            /\ above # {}
                            /\ PoolBefore(s, history[i]) = [quantity |-> row.quantity, cost |-> row.cost]
    BY DEF PoolIsEvidenced
  <2> DEFINE N == 1 .. Len(history)
  <2>1. TypeOK /\ cur = NoTxn /\ s \in disposals
    BY DEF EInv, PInv, SInv, IInv, Returned, Records
  <2>2. PICK i \in 2 .. Len(history) :
          history[i].txn = s.txn /\ PoolBefore(s, history[i]) = PoolOf(history[i - 1])
    <3>1. s \in PoolSlices
      BY <2>1 DEF EInv, RulesKept, PoolSlices
    <3> QED BY <2>1, <3>1, NoneInHand DEF Shown
  <2>3. Len(history) \in Nat /\ DOMAIN history = N
    BY DEF EInv, RowsTaken
  <2>4. i \in N /\ i - 1 \in N /\ i \in Int /\ N \subseteq Int
    BY <2>3
  <2>5. \A j \in N : DateOf(history[j]) \in Nat
    BY <2>1, RowTypes DEF DateOf, TypeOK, Txn
  <2>6. \A j, k \in N : j < k => DateOf(history[j]) <= DateOf(history[k])
    <3> SUFFICES ASSUME NEW j \in N, NEW k \in N, j < k PROVE DateOf(history[j]) <= DateOf(history[k])
      OBVIOUS
    <3>1. Precedes(history[j].txn, history[k].txn)
      BY DEF EInv, RowsOrdered
    <3>2. ledger[history[j].txn].date \in Nat /\ ledger[history[k].txn].date \in Nat
      BY <2>5 DEF DateOf
    <3> QED BY <3>1, <3>2 DEF Precedes, DateOf
  <2>7. /\ DateOf(history[i]) <= y.last /\ Earliest(y) <= DateOf(history[i])
        /\ Earliest(y) \in Nat /\ y.last \in Int
    BY <2>1, <2>2, EarliestIs, YearsAreTyped DEF DateOf
  <2>8. \A j \in Emptied(y, InScope(y)) : j \in N /\ j < i
    BY <2>3, <2>4, <2>5, <2>6, <2>7 DEF Emptied, InScope
  <2>9. i \in InScope(y) /\ i - 1 \in InScope(y) /\ InScope(y) \subseteq N
    BY <2>3, <2>4, <2>5, <2>6, <2>7 DEF InScope
  <2>10. i \in ScopedHistory(y) /\ i - 1 \in ScopedHistory(y) /\ ScopedHistory(y) \subseteq Int
    BY <2>4, <2>8, <2>9 DEF ScopedHistory
  <2>11. Max({j \in ScopedHistory(y) : j < i}) = i - 1
    BY <2>4, <2>10, GreatestBelow
  <2> DEFINE above == {j \in ScopedHistory(y) : j < i}
  <2>12. i - 1 \in above /\ Max(above) = i - 1
    BY <2>4, <2>10, <2>11
  <2>13. /\ history[i].txn = s.txn /\ above # {}
         /\ PoolBefore(s, history[i]) = [quantity |-> history[Max(above)].quantity,
                                         cost |-> history[Max(above)].cost]
    <3> HIDE DEF above
    <3> QED BY <2>2, <2>12 DEF PoolOf
  <2> QED BY <2>10, <2>13
<1> QED BY <1>1, InitEInv, NextEInv, PTL DEF HistorySpec

-----------------------------------------------------------------------------
(* The reports' totals as sums.                                            *)
ProceedsOf(S) == Total(LAMBDA s : s.proceeds, S)
ReportedProceeds(y, S) == Total(LAMBDA d : Computation(y, d).proceeds, S)
ReportedCosts(y, S) == Total(LAMBDA d : Computation(y, d).costs, S)

LEMMA ProceedsOfSum ==
  ASSUME NEW S
  PROVE  ProceedsOf(S) = SumOf([x \in S |-> x.proceeds], S)
<1> DEFINE f == [x \in S |-> x.proceeds]
           B(g) == [s \in SUBSET S |-> IF s = {} THEN 0 ELSE f[OneOf(s)] + g[s \ {OneOf(s)}]]
           C(g) == [s \in SUBSET S |-> IF s = {} THEN 0 ELSE OneOf(s).proceeds + g[s \ {OneOf(s)}]]
<1>1. ASSUME NEW g PROVE B(g) = C(g)
  <2>1. \A s \in SUBSET S : s # {} => f[OneOf(s)] = OneOf(s).proceeds
    BY OneOfIn
  <2> HIDE DEF f
  <2> QED BY <2>1
<1>2. SumOf(f, S) = (CHOOSE g : g = B(g))[S]
  BY DEF SumOf, MapThenSumSet, MapThenFoldSet, OneOf
<1>3. ProceedsOf(S) = (CHOOSE g : g = C(g))[S]
  BY DEF ProceedsOf, Total, MapThenSumSet, MapThenFoldSet, OneOf
<1>4. \A g : (g = B(g)) <=> (g = C(g))
  BY <1>1
<1> HIDE DEF B, C, f
<1>5. (CHOOSE g : g = B(g)) = (CHOOSE g : g = C(g))
  BY <1>4
<1> QED BY <1>2, <1>3, <1>5 DEF f

LEMMA CostsForReturnSum ==
  ASSUME NEW S
  PROVE  CostsForReturn(S) = SumOf([x \in S |-> (x.allowable + x.selling)], S)
<1> DEFINE f == [x \in S |-> (x.allowable + x.selling)]
           B(g) == [s \in SUBSET S |-> IF s = {} THEN 0 ELSE f[OneOf(s)] + g[s \ {OneOf(s)}]]
           C(g) == [s \in SUBSET S |-> IF s = {} THEN 0 ELSE (OneOf(s).allowable + OneOf(s).selling) + g[s \ {OneOf(s)}]]
<1>1. ASSUME NEW g PROVE B(g) = C(g)
  <2>1. \A s \in SUBSET S : s # {} => f[OneOf(s)] = (OneOf(s).allowable + OneOf(s).selling)
    BY OneOfIn
  <2> HIDE DEF f
  <2> QED BY <2>1
<1>2. SumOf(f, S) = (CHOOSE g : g = B(g))[S]
  BY DEF SumOf, MapThenSumSet, MapThenFoldSet, OneOf
<1>3. CostsForReturn(S) = (CHOOSE g : g = C(g))[S]
  BY DEF CostsForReturn, Total, MapThenSumSet, MapThenFoldSet, OneOf
<1>4. \A g : (g = B(g)) <=> (g = C(g))
  BY <1>1
<1> HIDE DEF B, C, f
<1>5. (CHOOSE g : g = B(g)) = (CHOOSE g : g = C(g))
  BY <1>4
<1> QED BY <1>2, <1>3, <1>5 DEF f

LEMMA GainsOfSum ==
  ASSUME NEW a, NEW S
  PROVE  GainsOf(a, S) = SumOf([x \in S |-> NotBelowZero(a[x])], S)
<1> DEFINE f == [x \in S |-> NotBelowZero(a[x])]
           B(g) == [s \in SUBSET S |-> IF s = {} THEN 0 ELSE f[OneOf(s)] + g[s \ {OneOf(s)}]]
           C(g) == [s \in SUBSET S |-> IF s = {} THEN 0 ELSE NotBelowZero(a[OneOf(s)]) + g[s \ {OneOf(s)}]]
<1>1. ASSUME NEW g PROVE B(g) = C(g)
  <2>1. \A s \in SUBSET S : s # {} => f[OneOf(s)] = NotBelowZero(a[OneOf(s)])
    BY OneOfIn
  <2> HIDE DEF f
  <2> QED BY <2>1
<1>2. SumOf(f, S) = (CHOOSE g : g = B(g))[S]
  BY DEF SumOf, MapThenSumSet, MapThenFoldSet, OneOf
<1>3. GainsOf(a, S) = (CHOOSE g : g = C(g))[S]
  BY DEF GainsOf, Total, MapThenSumSet, MapThenFoldSet, OneOf
<1>4. \A g : (g = B(g)) <=> (g = C(g))
  BY <1>1
<1> HIDE DEF B, C, f
<1>5. (CHOOSE g : g = B(g)) = (CHOOSE g : g = C(g))
  BY <1>4
<1> QED BY <1>2, <1>3, <1>5 DEF f

LEMMA LossesOfSum ==
  ASSUME NEW a, NEW S
  PROVE  LossesOf(a, S) = SumOf([x \in S |-> NotBelowZero(-a[x])], S)
<1> DEFINE f == [x \in S |-> NotBelowZero(-a[x])]
           B(g) == [s \in SUBSET S |-> IF s = {} THEN 0 ELSE f[OneOf(s)] + g[s \ {OneOf(s)}]]
           C(g) == [s \in SUBSET S |-> IF s = {} THEN 0 ELSE NotBelowZero(-a[OneOf(s)]) + g[s \ {OneOf(s)}]]
<1>1. ASSUME NEW g PROVE B(g) = C(g)
  <2>1. \A s \in SUBSET S : s # {} => f[OneOf(s)] = NotBelowZero(-a[OneOf(s)])
    BY OneOfIn
  <2> HIDE DEF f
  <2> QED BY <2>1
<1>2. SumOf(f, S) = (CHOOSE g : g = B(g))[S]
  BY DEF SumOf, MapThenSumSet, MapThenFoldSet, OneOf
<1>3. LossesOf(a, S) = (CHOOSE g : g = C(g))[S]
  BY DEF LossesOf, Total, MapThenSumSet, MapThenFoldSet, OneOf
<1>4. \A g : (g = B(g)) <=> (g = C(g))
  BY <1>1
<1> HIDE DEF B, C, f
<1>5. (CHOOSE g : g = B(g)) = (CHOOSE g : g = C(g))
  BY <1>4
<1> QED BY <1>2, <1>3, <1>5 DEF f

LEMMA ReportedProceedsSum ==
  ASSUME NEW y, NEW S
  PROVE  ReportedProceeds(y, S) = SumOf([x \in S |-> Computation(y, x).proceeds], S)
<1> DEFINE f == [x \in S |-> Computation(y, x).proceeds]
           B(g) == [s \in SUBSET S |-> IF s = {} THEN 0 ELSE f[OneOf(s)] + g[s \ {OneOf(s)}]]
           C(g) == [s \in SUBSET S |-> IF s = {} THEN 0 ELSE Computation(y, OneOf(s)).proceeds + g[s \ {OneOf(s)}]]
<1>1. ASSUME NEW g PROVE B(g) = C(g)
  <2>1. \A s \in SUBSET S : s # {} => f[OneOf(s)] = Computation(y, OneOf(s)).proceeds
    BY OneOfIn
  <2> HIDE DEF f
  <2> QED BY <2>1
<1>2. SumOf(f, S) = (CHOOSE g : g = B(g))[S]
  BY DEF SumOf, MapThenSumSet, MapThenFoldSet, OneOf
<1>3. ReportedProceeds(y, S) = (CHOOSE g : g = C(g))[S]
  BY DEF ReportedProceeds, Total, MapThenSumSet, MapThenFoldSet, OneOf
<1>4. \A g : (g = B(g)) <=> (g = C(g))
  BY <1>1
<1> HIDE DEF B, C, f
<1>5. (CHOOSE g : g = B(g)) = (CHOOSE g : g = C(g))
  BY <1>4
<1> QED BY <1>2, <1>3, <1>5 DEF f

LEMMA ReportedCostsSum ==
  ASSUME NEW y, NEW S
  PROVE  ReportedCosts(y, S) = SumOf([x \in S |-> Computation(y, x).costs], S)
<1> DEFINE f == [x \in S |-> Computation(y, x).costs]
           B(g) == [s \in SUBSET S |-> IF s = {} THEN 0 ELSE f[OneOf(s)] + g[s \ {OneOf(s)}]]
           C(g) == [s \in SUBSET S |-> IF s = {} THEN 0 ELSE Computation(y, OneOf(s)).costs + g[s \ {OneOf(s)}]]
<1>1. ASSUME NEW g PROVE B(g) = C(g)
  <2>1. \A s \in SUBSET S : s # {} => f[OneOf(s)] = Computation(y, OneOf(s)).costs
    BY OneOfIn
  <2> HIDE DEF f
  <2> QED BY <2>1
<1>2. SumOf(f, S) = (CHOOSE g : g = B(g))[S]
  BY DEF SumOf, MapThenSumSet, MapThenFoldSet, OneOf
<1>3. ReportedCosts(y, S) = (CHOOSE g : g = C(g))[S]
  BY DEF ReportedCosts, Total, MapThenSumSet, MapThenFoldSet, OneOf
<1>4. \A g : (g = B(g)) <=> (g = C(g))
  BY <1>1
<1> HIDE DEF B, C, f
<1>5. (CHOOSE g : g = B(g)) = (CHOOSE g : g = C(g))
  BY <1>4
<1> QED BY <1>2, <1>3, <1>5 DEF f

(* Sums over a set in two parts, and over the groups of a set of slices.   *)
LEMMA SumUnion ==
  ASSUME NEW f, NEW S, NEW T, Ints(f, S \cup T), S \cap T = {}
  PROVE  SumOf(f, S \cup T) = SumOf(f, S) + SumOf(f, T)
<1> DEFINE bad == {t \in SUBSET T : SumOf(f, S \cup t) # SumOf(f, S) + SumOf(f, t)}
<1>1. \A s \in SUBSET (S \cup T) : IsFiniteSet(s) /\ Ints(f, s) /\ SumOf(f, s) \in Int
  <2> SUFFICES ASSUME NEW s \in SUBSET (S \cup T) PROVE IsFiniteSet(s) /\ Ints(f, s) /\ SumOf(f, s) \in Int
    OBVIOUS
  <2>1. IsFiniteSet(s) /\ Ints(f, s)
    BY FS_Subset DEF Ints
  <2> QED BY <2>1, SumInt
<1>2. bad = {}
  <2> SUFFICES ASSUME bad # {} PROVE FALSE
    OBVIOUS
  <2>1. PICK t \in bad : \A z \in t : t \ {z} \notin bad
    <3>1. \A t \in bad : IsFiniteSet(t)
      BY <1>1
    <3> HIDE DEF bad
    <3> QED BY <3>1, Smallest
  <2>2. SumOf(f, S) \in Int /\ S \in SUBSET (S \cup T)
    BY <1>1
  <2>3. t # {}
    <3>1. S \cup {} = S
      OBVIOUS
    <3> QED BY <2>2, <3>1, SumEmpty
  <2>4. PICK p : p \in t
    BY <2>3
  <2> DEFINE u == t \ {p}
  <2>5. u \in SUBSET T /\ p \in T /\ p \notin S /\ (S \cup t) \ {p} = S \cup u
    BY <2>4
  <2>6. SumOf(f, S \cup u) = SumOf(f, S) + SumOf(f, u)
    BY <2>1, <2>4, <2>5
  <2>7. SumOf(f, t) = f[p] + SumOf(f, u) /\ SumOf(f, S \cup t) = f[p] + SumOf(f, S \cup u)
    BY <1>1, <2>4, <2>5, SumRemove
  <2>8. f[p] \in Int /\ SumOf(f, u) \in Int
    BY <1>1, <2>5 DEF Ints
  <2> HIDE DEF u
  <2> QED BY <2>2, <2>6, <2>7, <2>8
<1>3. SumOf(f, S \cup T) = SumOf(f, S) + SumOf(f, T)
  BY <1>2
<1> QED BY <1>3

TxnsOf(R) == {s.txn : s \in R}
OfTxn(R, d) == {s \in R : s.txn = d}

LEMMA SumGroups ==
  ASSUME NEW f, NEW R, Ints(f, R), NEW h, IsFiniteSet(TxnsOf(R)),
         \A d \in TxnsOf(R) : h[d] = SumOf(f, OfTxn(R, d))
  PROVE  Ints(h, TxnsOf(R)) /\ SumOf(h, TxnsOf(R)) = SumOf(f, R)
<1> DEFINE D == {s.txn : s \in R}
<1> USE DEF TxnsOf, OfTxn
<1> DEFINE Of(E) == {s \in R : s.txn \in E}
           bad == {E \in SUBSET D : SumOf(h, E) # SumOf(f, Of(E))}
<1>1. \A S \in SUBSET R : Ints(f, S) /\ SumOf(f, S) \in Int
  <2> SUFFICES ASSUME NEW S \in SUBSET R PROVE Ints(f, S) /\ SumOf(f, S) \in Int
    OBVIOUS
  <2>1. Ints(f, S)
    BY FS_Subset DEF Ints
  <2> QED BY <2>1, SumInt
<1>2. Ints(h, D) /\ \A E \in SUBSET D : IsFiniteSet(E) /\ Ints(h, E)
  <2>1. \A d \in D : h[d] \in Int
    BY <1>1
  <2> QED BY <2>1, FS_Subset DEF Ints
<1>3. bad = {}
  <2> SUFFICES ASSUME bad # {} PROVE FALSE
    OBVIOUS
  <2>1. PICK E \in bad : \A z \in E : E \ {z} \notin bad
    <3>1. \A E \in bad : IsFiniteSet(E)
      BY <1>2
    <3> HIDE DEF bad
    <3> QED BY <3>1, Smallest
  <2>2. E # {}
    <3>1. Of({}) = {}
      OBVIOUS
    <3> QED BY <3>1, SumEmpty
  <2>3. PICK d : d \in E
    BY <2>2
  <2> DEFINE F == E \ {d}
             W == {s \in R : s.txn = d}
  <2>4. F \in SUBSET D /\ d \in D /\ Of(E) = Of(F) \cup W /\ Of(F) \cap W = {}
    BY <2>3
  <2>5. SumOf(h, F) = SumOf(f, Of(F))
    BY <2>1, <2>3, <2>4
  <2>6. SumOf(h, E) = h[d] + SumOf(h, F)
    BY <1>2, <2>3, SumRemove
  <2>7. SumOf(f, Of(E)) = SumOf(f, Of(F)) + SumOf(f, W)
    <3>1. Of(E) \in SUBSET R
      OBVIOUS
    <3>2. Ints(f, Of(F) \cup W)
      BY <1>1, <2>4, <3>1
    <3> DEFINE A == Of(F)
               B == W
    <3>3. Ints(f, A \cup B) /\ A \cap B = {} /\ Of(E) = A \cup B
      BY <2>4, <3>2
    <3> HIDE DEF A, B
    <3>4. SumOf(f, A \cup B) = SumOf(f, A) + SumOf(f, B)
      BY <3>3, SumUnion
    <3>5. SumOf(f, Of(E)) = SumOf(f, A) + SumOf(f, B)
      BY <3>3, <3>4
    <3> QED BY <3>5 DEF A, B
  <2>8. h[d] = SumOf(f, W)
    BY <2>4
  <2>9. SumOf(f, Of(F)) \in Int /\ SumOf(f, W) \in Int
    <3>1. Of(F) \in SUBSET R /\ W \in SUBSET R
      OBVIOUS
    <3> HIDE DEF Of, W
    <3> QED BY <1>1, <3>1
  <2> HIDE DEF F, W, Of
  <2>10. SumOf(h, E) = SumOf(f, Of(E))
    BY <2>5, <2>6, <2>7, <2>8, <2>9
  <2> QED BY <2>10
<1>4. Of(D) = R
  OBVIOUS
<1>5. SumOf(h, D) = SumOf(f, Of(D))
  BY <1>3
<1> QED BY <1>2, <1>4, <1>5

(* Terms that are small make a small sum.                                  *)
LEMMA SumSmall ==
  ASSUME NEW f, NEW S, Ints(f, S), \A x \in S : f[x] \in -1 .. 1
  PROVE  SumOf(f, S) \in -Cardinality(S) .. Cardinality(S)
<1> DEFINE bad == {s \in SUBSET S : SumOf(f, s) \notin -Cardinality(s) .. Cardinality(s)}
<1>1. \A s \in SUBSET S : IsFiniteSet(s) /\ Ints(f, s)
  BY FS_Subset DEF Ints
<1>2. bad = {}
  <2> SUFFICES ASSUME bad # {} PROVE FALSE
    OBVIOUS
  <2>1. PICK s \in bad : \A z \in s : s \ {z} \notin bad
    <3>1. \A s \in bad : IsFiniteSet(s)
      BY <1>1
    <3> HIDE DEF bad
    <3> QED BY <3>1, Smallest
  <2>2. s # {}
    <3>1. Cardinality({}) = 0
      BY FS_EmptySet
    <3> QED BY <3>1, SumEmpty
  <2>3. PICK p : p \in s
    BY <2>2
  <2> DEFINE t == s \ {p}
  <2>4. t \in SUBSET S /\ t \notin bad /\ p \in S
    BY <2>1, <2>3
  <2>5. SumOf(f, t) \in -Cardinality(t) .. Cardinality(t)
    BY <2>4
  <2>6. SumOf(f, s) = f[p] + SumOf(f, t)
    BY <1>1, <2>3, SumRemove
  <2>7. Cardinality(s) \in Nat /\ Cardinality(t) \in Nat /\ Cardinality(t) = Cardinality(s) - 1
    BY <1>1, <2>3, Without
  <2>8. f[p] \in Int /\ -1 <= f[p] /\ f[p] <= 1
    BY <2>4
  <2> HIDE DEF t
  <2>9. SumOf(f, s) \in -Cardinality(s) .. Cardinality(s)
    BY <2>5, <2>6, <2>7, <2>8
  <2> QED BY <2>9
<1>3. SumOf(f, S) \in -Cardinality(S) .. Cardinality(S)
  BY <1>2
<1> QED BY <1>3

(* Gains less losses are the sum of both.                                  *)
LEMMA GainsLessLosses ==
  ASSUME NEW a, NEW S, Ints(a, S)
  PROVE  GainsOf(a, S) - LossesOf(a, S) = SumOf(a, S)
<1> DEFINE up == [x \in S |-> NotBelowZero(a[x])]
           down == [x \in S |-> NotBelowZero(-a[x])]
<1>1. Ints(up, S) /\ Ints(down, S) /\ \A x \in S : a[x] = up[x] - down[x]
  BY DEF Ints, NotBelowZero
<1>2. GainsOf(a, S) = SumOf(up, S) /\ LossesOf(a, S) = SumOf(down, S)
  BY GainsOfSum, LossesOfSum
<1> HIDE DEF up, down
<1> QED BY <1>1, <1>2, SumLess

-----------------------------------------------------------------------------
(* The three roundings of a slice together are off by less than two.       *)
Reconciles(s) == s.proceeds - s.allowable - s.selling - s.gain \in -1 .. 1

LEMMA SliceReconciles ==
  ASSUME TypeOK, NEW d \in Ids, NEW rule, NEW acq, NEW m \in Nat,
         NEW over \in Nat, NEW parts \in Nat \ {0}
  PROVE  Reconciles(Slice(d, rule, acq, m, over, parts))
<1> DEFINE q == ledger[d].quantity
           c == ProRataCostsOver(d, m)
           p == UnitPrice(d) * m
           n == p * parts * q - over * q - c * parts
           s == Slice(d, rule, acq, m, over, parts)
<1>1. q \in Nat \ {0} /\ p \in Nat /\ c \in Nat
  BY CostTypes DEF ProRataCostsOver
<1>2. /\ s.proceeds = p /\ s.allowable = RoundDiv(over, parts) /\ s.selling = RoundDiv(c, q)
      /\ s.gain = RoundDiv(n, parts * q)
  BY DEF Slice
<1> HIDE DEF q, c, p
<1> DEFINE D == parts * q
           A == RoundDiv(over, parts)
           S == RoundDiv(c, q)
           G == RoundDiv(n, D)
<1>3. D \in Nat \ {0} /\ n \in Int /\ over * q \in Int /\ c * parts \in Int /\ p * parts * q = p * D
  BY <1>1
<1>4. A \in Int /\ S \in Int /\ G \in Int
  BY <1>1, <1>3, RoundDivInt
<1>5. /\ 2 * (parts * A) - 2 * over <= parts /\ -parts <= 2 * (parts * A) - 2 * over
      /\ 2 * (q * S) - 2 * c <= q /\ -q <= 2 * (q * S) - 2 * c
      /\ 2 * (D * G) - 2 * n <= D /\ -D <= 2 * (D * G) - 2 * n
  BY <1>1, <1>3, RoundDivNear
<1> HIDE DEF A, S, G
<1>6. 2 * (D * A) - 2 * (over * q) <= D /\ -D <= 2 * (D * A) - 2 * (over * q)
  <2> DEFINE e == 2 * (parts * A) - 2 * over
  <2>1. e \in Int /\ e <= parts /\ -parts <= e
    BY <1>4, <1>5
  <2>2. q * e = 2 * (D * A) - 2 * (over * q)
    BY <1>1, <1>4
  <2> HIDE DEF e
  <2>3. q * e <= q * parts /\ -(q * parts) <= q * e
    BY <1>1, <2>1
  <2>4. q * parts = D
    BY <1>1
  <2> QED BY <2>2, <2>3, <2>4
<1>7. 2 * (D * S) - 2 * (c * parts) <= D /\ -D <= 2 * (D * S) - 2 * (c * parts)
  <2> DEFINE e == 2 * (q * S) - 2 * c
  <2>1. e \in Int /\ e <= q /\ -q <= e
    BY <1>1, <1>4, <1>5
  <2>2. parts * e = 2 * (D * S) - 2 * (c * parts)
    BY <1>1, <1>4
  <2> HIDE DEF e
  <2>3. parts * e <= parts * q /\ -(parts * q) <= parts * e
    BY <1>1, <2>1
  <2> QED BY <2>2, <2>3
<1> DEFINE r == p - A - S - G
<1>8. r \in Int /\ D * r = p * D - D * A - D * S - D * G
  BY <1>1, <1>3, <1>4
<1>9. 2 * (D * r) <= 3 * D /\ -(3 * D) <= 2 * (D * r)
  <2>1. n = p * D - over * q - c * parts
    BY <1>3
  <2>2. D * A \in Int /\ D * S \in Int /\ D * G \in Int /\ p * D \in Int
    BY <1>1, <1>3, <1>4
  <2> HIDE DEF D, n, r
  <2> QED BY <1>3, <1>5, <1>6, <1>7, <1>8, <2>1, <2>2
<1>10. r \in -1 .. 1
  <2> HIDE DEF D, r
  <2>1. CASE r >= 2
    <3>1. D * r >= D * 2
      BY <1>3, <1>8, <2>1
    <3> QED BY <1>3, <1>8, <1>9, <3>1
  <2>2. CASE r <= -2
    <3>1. D * r <= D * (-2)
      BY <1>3, <1>8, <2>2
    <3> QED BY <1>3, <1>8, <1>9, <3>1
  <2> QED BY <1>8, <2>1, <2>2
<1> QED BY <1>2, <1>10 DEF Reconciles, A, S, G

FInv == SInv /\ \A s \in disposals : Reconciles(s)

LEMMA IdentifiesReconciles ==
  ASSUME SInv, NEW s, Identifies(s)
  PROVE  Reconciles(s)
<1>1. TypeOK /\ cur \in Ids /\ s.quantity \in Nat
  BY IdentifiesTypes DEF SInv, IInv
<1>2. CASE FromAcquisition(s)
  <2>1. PICK over \in Nat, parts \in Nat \ {0} : s = Slice(cur, s.matchType, s.acq, s.quantity, over, parts)
    <3>1. s.acq \in Ids
      BY <1>2 DEF FromAcquisition, Acquisitions
    <3>2. MatchedCostOver(s.acq, s.quantity) \in Nat /\ ledger[s.acq].quantity \in Nat \ {0}
      BY <1>1, <3>1, MatchedCostTyped
    <3> QED BY <1>2, <3>2 DEF FromAcquisition
  <2> QED BY <1>1, <2>1, SliceReconciles
<1>3. CASE FromPool(s)
  <2> DEFINE over == PoolCostOf(pool, toMatch)
             one == 1
  <2>1. s = Slice(cur, s.matchType, NoTxn, s.quantity, over, one)
    BY <1>3 DEF FromPool
  <2>2. over \in Nat
    <3>1. toMatch \in Nat /\ 0 < toMatch /\ toMatch <= pool.quantity /\ pool \in [quantity : Nat, cost : Nat]
      BY <1>1, <1>3 DEF FromPool, Identifies, Matching, TypeOK
    <3> QED BY <3>1, PoolCostBound
  <2>3. one \in Nat \ {0}
    OBVIOUS
  <2> HIDE DEF over, one
  <2> QED BY <1>1, <2>1, <2>2, <2>3, SliceReconciles
<1> QED BY <1>2, <1>3 DEF Identifies

LEMMA NextFInv == FInv /\ [Next]_vars => FInv'
<1> SUFFICES ASSUME FInv, [Next]_vars PROVE FInv'
  OBVIOUS
<1>1. SInv'
  BY NextSInv DEF FInv
<1>2. \A s : Reconciles(s)' = Reconciles(s)
  BY DEF Reconciles
<1>3. CASE MatchSameDay \/ MatchThirtyDay \/ MatchPool
  <2>1. PICK s : Identifies(s)
    BY <1>3, MatchIdentifies DEF FInv, SInv, IInv
  <2>2. disposals' = disposals \cup {s} /\ Reconciles(s)
    BY <2>1, IdentifiesReconciles DEF FInv, Identifies
  <2> QED BY <1>1, <1>2, <2>2 DEF FInv
<1>4. CASE ~(MatchSameDay \/ MatchThirtyDay \/ MatchPool)
  <2>1. disposals' = disposals
    BY <1>4 DEF Next, Step, vars, RejectDisposal, EndDisposal, TakeDisposal, TakeAcquisition, TakeSplit,
       TakeUnsplit, TakeCapReturn, TakeRightsIssue, TakeIgnored, TakeOther
  <2> QED BY <1>1, <1>2, <2>1 DEF FInv
<1> QED BY <1>3, <1>4

-----------------------------------------------------------------------------
(* A year's records, and what its computations add up to.                  *)
LEMMA RecordTypes ==
  ASSUME SInv, NEW y
  PROVE  /\ Records(y) \in SUBSET SliceType /\ IsFiniteSet(Records(y)) /\ IsFiniteSet(Disposers(y))
         /\ Cardinality(Records(y)) \in Nat
<1>1. Records(y) \in SUBSET SliceType /\ IsFiniteSet(Records(y))
  BY FS_Subset DEF SInv, IInv, TypeOK, Records
<1>2. Disposers(y) \subseteq Ids
  BY <1>1 DEF Disposers, SliceType
<1> QED BY <1>1, <1>2, FS_Subset, FS_CardinalityType, IdsAreNumbers

LEMMA ComputationSums ==
  ASSUME SInv, NEW y
  PROVE  LET R == Records(y)
             D == Disposers(y)
             p == [s \in R |-> s.proceeds]
             c == [s \in R |-> s.allowable + s.selling]
             g == [s \in R |-> s.gain]
             gain == [d \in D |-> Computation(y, d).gain]
         IN  /\ Ints(p, R) /\ Ints(c, R) /\ Ints(g, R) /\ Ints(gain, D)
             /\ ReportedProceeds(y, D) = SumOf(p, R)
             /\ ReportedCosts(y, D) = SumOf(c, R)
             /\ SumOf(gain, D) = SumOf(g, R)
<1> DEFINE R == Records(y)
           D == Disposers(y)
           W(d) == OfTxn(R, d)
           p == [s \in R |-> s.proceeds]
           c == [s \in R |-> s.allowable + s.selling]
           g == [s \in R |-> s.gain]
           proceeds == [d \in D |-> Computation(y, d).proceeds]
           costs == [d \in D |-> Computation(y, d).costs]
           gain == [d \in D |-> Computation(y, d).gain]
<1>1. R \in SUBSET SliceType /\ IsFiniteSet(R) /\ IsFiniteSet(D) /\ D = TxnsOf(R)
  BY RecordTypes DEF Disposers, TxnsOf
<1>2. Ints(p, R) /\ Ints(c, R) /\ Ints(g, R)
  <2>1. \A s \in R : s.proceeds \in Int /\ s.allowable + s.selling \in Int /\ s.gain \in Int
    BY <1>1 DEF SliceType
  <2> QED BY <1>1, <2>1 DEF Ints
<1>3. ASSUME NEW d \in D
      PROVE  proceeds[d] = SumOf(p, W(d)) /\ costs[d] = SumOf(c, W(d)) /\ gain[d] = SumOf(g, W(d))
  <2> DEFINE S == W(d)
             pS == [s \in S |-> s.proceeds]
             cS == [s \in S |-> s.allowable + s.selling]
             gS == [s \in S |-> s.gain]
  <2>1. /\ proceeds[d] = ProceedsOf(S) /\ costs[d] = CostsForReturn(S) /\ gain[d] = GainsIn(S)
    BY DEF Computation, Workings, OfTxn, ProceedsOf, GainsIn, Total
  <2>2. /\ Ints(p, S) /\ Ints(c, S) /\ Ints(g, S)
        /\ \A s \in S : p[s] = pS[s] /\ c[s] = cS[s] /\ g[s] = gS[s]
    <3>1. IsFiniteSet(S) /\ S \subseteq R
      BY <1>1, FS_Subset DEF OfTxn
    <3> QED BY <1>2, <3>1 DEF Ints
  <2>3. ProceedsOf(S) = SumOf(pS, S) /\ CostsForReturn(S) = SumOf(cS, S) /\ GainsIn(S) = SumOf(gS, S)
    BY ProceedsOfSum, CostsForReturnSum, GainsSum
  <2> HIDE DEF S, pS, cS, gS, p, c, g
  <2>4. SumOf(p, S) = SumOf(pS, S) /\ SumOf(c, S) = SumOf(cS, S) /\ SumOf(g, S) = SumOf(gS, S)
    BY <2>2, SumSame
  <2> QED BY <2>1, <2>3, <2>4 DEF S
<1>4. ReportedProceeds(y, D) = SumOf(proceeds, D) /\ ReportedCosts(y, D) = SumOf(costs, D)
  BY ReportedProceedsSum, ReportedCostsSum
<1>5. /\ SumOf(proceeds, D) = SumOf(p, R) /\ SumOf(costs, D) = SumOf(c, R)
      /\ Ints(gain, D) /\ SumOf(gain, D) = SumOf(g, R)
  <2>1. /\ \A d \in D : proceeds[d] = SumOf(p, OfTxn(R, d))
        /\ \A d \in D : costs[d] = SumOf(c, OfTxn(R, d))
        /\ \A d \in D : gain[d] = SumOf(g, OfTxn(R, d))
    <3> HIDE DEF R, D, p, c, g, proceeds, costs, gain
    <3> QED BY <1>3
  <2> HIDE DEF R, D, p, c, g, proceeds, costs, gain
  <2>2. SumOf(proceeds, D) = SumOf(p, R)
    BY <1>1, <1>2, <2>1, SumGroups
  <2>3. SumOf(costs, D) = SumOf(c, R)
    BY <1>1, <1>2, <2>1, SumGroups
  <2>4. Ints(gain, D) /\ SumOf(gain, D) = SumOf(g, R)
    BY <1>1, <1>2, <2>1, SumGroups
  <2> QED BY <2>2, <2>3, <2>4
<1> QED BY <1>2, <1>4, <1>5

LEMMA NetIsSum ==
  ASSUME SInv, NEW y
  PROVE  LET R == Records(y)
             g == [s \in R |-> s.gain]
         IN  NetGain(R) = SumOf(g, R) /\ NetGain(R) \in Int
<1> DEFINE R == Records(y)
           g == [s \in R |-> s.gain]
<1>1. Ints(g, R)
  BY ComputationSums
<1>2. NetGain(R) = GainsOf(g, R) - LossesOf(g, R)
  BY DEF NetGain
<1> HIDE DEF g, R
<1>3. NetGain(R) = SumOf(g, R) /\ SumOf(g, R) \in Int
  BY <1>1, <1>2, GainsLessLosses, SumInt
<1> QED BY <1>3 DEF g, R

(* What lies in the basic band is taxed at the lower rate.                 *)
LEMMA BandsHold ==
  ASSUME SInv, NEW y \in Years, NEW income \in Int
  PROVE  EstimateWithinBands(y, income)
<1> SUFFICES ASSUME {s \in Records(y) : ledger[s.txn].date < y.change} = {}
             PROVE  LET scaled == TaxableGain(y) * Cardinality(Records(y))
                    IN  /\ scaled * y.basic <= EstimatedTax(y, income)
                        /\ EstimatedTax(y, income) <= scaled * y.higher
  BY DEF EstimateWithinBands
<1> DEFINE n == Cardinality(Records(y))
           t == TaxableGain(y)
           b == Smaller(t, NotBelowZero(y.basicLimit - income))
           tax == BandTax(y, income, y.basic, y.higher)
<1>1. /\ y.exempt \in Int /\ y.basicLimit \in Int /\ y.basic \in Int /\ y.higher \in Int
      /\ y.basicPre \in Int /\ y.higherPre \in Int /\ y.basic <= y.higher
  BY YearsAreTyped
<1>2. n \in Nat /\ t \in Nat
  <2>1. NetGain(Records(y)) \in Int
    BY NetIsSum
  <2> QED BY <1>1, <2>1, RecordTypes DEF TaxableGain, NotBelowZero
<1>3. b \in Nat /\ b <= t
  <2> HIDE DEF t
  <2>1. y.basicLimit - income \in Int
    BY <1>1
  <2> QED BY <1>2, <2>1 DEF Smaller, NotBelowZero
<1>4. tax = b * y.basic + (t - b) * y.higher
  BY DEF BandTax
<1>5. EstimatedTax(y, income) = n * tax
  <2> DEFINE pre == BandTax(y, income, y.basicPre, y.higherPre)
  <2>1. pre \in Int
    <3>1. pre = b * y.basicPre + (t - b) * y.higherPre
      BY DEF BandTax
    <3> HIDE DEF b, t
    <3> QED BY <1>1, <1>2, <1>3, <3>1
  <2>2. EstimatedTax(y, income) = Cardinality({}) * pre + Cardinality(Records(y) \ {}) * tax
    BY DEF EstimatedTax
  <2>3. Cardinality({}) = 0 /\ Records(y) \ {} = Records(y)
    BY FS_EmptySet
  <2>4. tax \in Int
    <3> HIDE DEF b, t, tax
    <3> QED BY <1>1, <1>2, <1>3, <1>4
  <2> HIDE DEF pre, tax
  <2> QED BY <1>2, <2>1, <2>2, <2>3, <2>4
<1> HIDE DEF n, t, b, tax
<1> DEFINE lo == y.basic
           hi == y.higher
<1>6. lo \in Int /\ hi \in Int /\ lo <= hi /\ tax = b * lo + (t - b) * hi
  BY <1>1, <1>4
<1> HIDE DEF lo, hi
<1>7. t * lo <= tax /\ tax <= t * hi
  <2>1. b * lo <= b * hi /\ (t - b) * lo <= (t - b) * hi
    BY <1>2, <1>3, <1>6
  <2>2. t * lo = b * lo + (t - b) * lo /\ t * hi = b * hi + (t - b) * hi
    BY <1>2, <1>3, <1>6
  <2>3. b * lo \in Int /\ b * hi \in Int /\ (t - b) * lo \in Int /\ (t - b) * hi \in Int
    BY <1>2, <1>3, <1>6
  <2> QED BY <1>6, <2>1, <2>2, <2>3
<1>8. (t * n) * lo <= n * tax /\ n * tax <= (t * n) * hi
  <2>1. tax \in Int /\ t * lo \in Int /\ t * hi \in Int
    BY <1>2, <1>3, <1>6
  <2>2. n * (t * lo) <= n * tax /\ n * tax <= n * (t * hi)
    BY <1>2, <1>7, <2>1
  <2>3. n * (t * lo) = (t * n) * lo /\ n * (t * hi) = (t * n) * hi
    BY <1>2, <1>6
  <2> QED BY <2>2, <2>3
<1> QED BY <1>5, <1>8 DEF n, t, lo, hi

(* For every ledger and every tax year the boxes of the return, the totals *)
(* under the computations and the gain are one calculation, and the        *)
(* estimate stays within its bands.                                        *)
THEOREM ReturnCorrect == HistorySpec => []ReturnReconciles
<1>1. FInv => ReturnReconciles
  <2> SUFFICES ASSUME FInv, NEW y \in Years
               PROVE  LET R == Records(y)
                          totals == ReportTotals(y)
                      IN  /\ totals.net = NetGain(R)
                          /\ totals.proceeds = Total(LAMBDA s : s.proceeds, R)
                          /\ Near(totals.proceeds - totals.costs, NetGain(R), 2 * Cardinality(R))
                          /\ \A income \in {0, y.basicLimit - 30, y.basicLimit + 10} :
                               EstimateWithinBands(y, income)
    BY DEF ReturnReconciles
  <2> DEFINE R == Records(y)
             D == Disposers(y)
             p == [s \in R |-> s.proceeds]
             c == [s \in R |-> s.allowable + s.selling]
             g == [s \in R |-> s.gain]
             gain == [d \in D |-> Computation(y, d).gain]
             totals == ReportTotals(y)
  <2>1. /\ Ints(p, R) /\ Ints(c, R) /\ Ints(g, R) /\ Ints(gain, D)
        /\ ReportedProceeds(y, D) = SumOf(p, R)
        /\ ReportedCosts(y, D) = SumOf(c, R)
        /\ SumOf(gain, D) = SumOf(g, R)
    BY ComputationSums DEF FInv
  <2>2. /\ totals.net = GainsOf(gain, D) - LossesOf(gain, D)
        /\ totals.proceeds = ReportedProceeds(y, D) /\ totals.costs = ReportedCosts(y, D)
    BY DEF ReportTotals, ReportedProceeds, ReportedCosts
  <2>3. NetGain(R) = SumOf(g, R) /\ Cardinality(R) \in Nat
    BY NetIsSum, RecordTypes DEF FInv
  <2>4. Total(LAMBDA s : s.proceeds, R) = SumOf(p, R)
    BY ProceedsOfSum DEF ProceedsOf
  <2>5. totals.net = NetGain(R)
    <3> HIDE DEF R, D, g, gain, totals
    <3> QED BY <2>1, <2>2, <2>3, GainsLessLosses
  <2>6. Near(totals.proceeds - totals.costs, NetGain(R), 2 * Cardinality(R))
    <3> DEFINE m == [s \in R |-> p[s] - c[s]]
               e == [s \in R |-> m[s] - g[s]]
    <3>1. \A s \in R : s.proceeds \in Int /\ s.allowable \in Int /\ s.selling \in Int /\ s.gain \in Int
      BY RecordTypes DEF FInv, SliceType
    <3>2. \A s \in R : e[s] \in -1 .. 1
      <4>1. \A s \in R : Reconciles(s)
        BY DEF FInv, Records
      <4> QED BY <3>1, <4>1 DEF Reconciles
    <3>3. (\A s \in R : m[s] = p[s] - c[s]) /\ (\A s \in R : e[s] = m[s] - g[s])
      OBVIOUS
    <3> HIDE DEF R, p, c, g, m, e
    <3>4. Ints(m, R) /\ Ints(e, R)
      BY <2>1, <3>3 DEF Ints
    <3>5. SumOf(m, R) = SumOf(p, R) - SumOf(c, R) /\ SumOf(e, R) = SumOf(m, R) - SumOf(g, R)
      BY <2>1, <3>3, <3>4, SumLess
    <3>6. SumOf(e, R) \in -Cardinality(R) .. Cardinality(R)
      BY <3>2, <3>4, SumSmall
    <3>7. SumOf(p, R) \in Int /\ SumOf(c, R) \in Int /\ SumOf(g, R) \in Int
      BY <2>1, SumInt
    <3> HIDE DEF totals, D
    <3>8. totals.proceeds - totals.costs = SumOf(m, R)
      BY <2>1, <2>2, <3>5
    <3>9. SumOf(m, R) - NetGain(R) \in -(2 * Cardinality(R)) .. 2 * Cardinality(R)
      BY <2>3, <3>5, <3>6, <3>7
    <3> QED BY <3>8, <3>9 DEF Near
  <2>7. \A income \in {0, y.basicLimit - 30, y.basicLimit + 10} : EstimateWithinBands(y, income)
    BY BandsHold, YearsAreTyped DEF FInv
  <2>8. totals.proceeds = Total(LAMBDA s : s.proceeds, R)
    <3> HIDE DEF R, D, p, c, g, gain, totals
    <3> QED BY <2>1, <2>2, <2>4
  <2> HIDE DEF p, c, g, gain
  <2> QED BY <2>5, <2>6, <2>7, <2>8
<1>2. HistoryInit => FInv
  BY InitSInv DEF HistoryInit, Init, FInv
<1>3. FInv /\ [HistoryNext]_reportVars => FInv'
  BY HistoryStep, NextFInv
<1> QED BY <1>1, <1>2, <1>3, PTL DEF HistorySpec

-----------------------------------------------------------------------------
(* The totals of the income reports as sums.                               *)
RowCredits(rows, S) == Total(LAMBDA t : rows[t].credit, S)
RowGross(rows, S) == Total(LAMBDA t : rows[t].gross, S)
RowWithheld(rows, S) == Total(LAMBDA t : rows[t].withheld, S)
GrossOf(col, S) == Total(LAMBDA t : Gross(t, col), S)
WithheldFrom(col, S) == Total(LAMBDA t : WithheldOf(t, col), S)
DeductedFrom(col, S) == Total(LAMBDA t : Deducted(t, col), S)
SpentOn(col, S) == Total(LAMBDA t : col[t].paid * ledger[t].quantity + ledger[t].costs, S)
PlanIncomeFrom(col, S) == Total(LAMBDA t : PlanIncome(t, col).income, S)
PlanIncomeOver(col, S) == Total(LAMBDA y : PlanYear(y, col).income, S)
SoldFor(S) == Total(LAMBDA s : s.proceeds - s.selling, S)
RecordsOver(S) == Total(LAMBDA y : Cardinality(Records(y)), S)

LEMMA RowCreditsSum ==
  ASSUME NEW S, NEW rows
  PROVE  RowCredits(rows, S) = SumOf([x \in S |-> rows[x].credit], S)
<1> DEFINE f == [x \in S |-> rows[x].credit]
           B(g) == [s \in SUBSET S |-> IF s = {} THEN 0 ELSE f[OneOf(s)] + g[s \ {OneOf(s)}]]
           C(g) == [s \in SUBSET S |->
                      IF s = {} THEN 0 ELSE rows[OneOf(s)].credit + g[s \ {OneOf(s)}]]
<1>1. ASSUME NEW g PROVE B(g) = C(g)
  <2>1. \A s \in SUBSET S : s # {} => f[OneOf(s)] = rows[OneOf(s)].credit
    BY OneOfIn
  <2> HIDE DEF f
  <2> QED BY <2>1
<1>2. SumOf(f, S) = (CHOOSE g : g = B(g))[S]
  BY DEF SumOf, MapThenSumSet, MapThenFoldSet, OneOf
<1>3. RowCredits(rows, S) = (CHOOSE g : g = C(g))[S]
  BY DEF RowCredits, Total, MapThenSumSet, MapThenFoldSet, OneOf
<1>4. \A g : (g = B(g)) <=> (g = C(g))
  BY <1>1
<1> HIDE DEF B, C, f
<1>5. (CHOOSE g : g = B(g)) = (CHOOSE g : g = C(g))
  BY <1>4
<1> QED BY <1>2, <1>3, <1>5 DEF f

LEMMA RowGrossSum ==
  ASSUME NEW S, NEW rows
  PROVE  RowGross(rows, S) = SumOf([x \in S |-> rows[x].gross], S)
<1> DEFINE f == [x \in S |-> rows[x].gross]
           B(g) == [s \in SUBSET S |-> IF s = {} THEN 0 ELSE f[OneOf(s)] + g[s \ {OneOf(s)}]]
           C(g) == [s \in SUBSET S |->
                      IF s = {} THEN 0 ELSE rows[OneOf(s)].gross + g[s \ {OneOf(s)}]]
<1>1. ASSUME NEW g PROVE B(g) = C(g)
  <2>1. \A s \in SUBSET S : s # {} => f[OneOf(s)] = rows[OneOf(s)].gross
    BY OneOfIn
  <2> HIDE DEF f
  <2> QED BY <2>1
<1>2. SumOf(f, S) = (CHOOSE g : g = B(g))[S]
  BY DEF SumOf, MapThenSumSet, MapThenFoldSet, OneOf
<1>3. RowGross(rows, S) = (CHOOSE g : g = C(g))[S]
  BY DEF RowGross, Total, MapThenSumSet, MapThenFoldSet, OneOf
<1>4. \A g : (g = B(g)) <=> (g = C(g))
  BY <1>1
<1> HIDE DEF B, C, f
<1>5. (CHOOSE g : g = B(g)) = (CHOOSE g : g = C(g))
  BY <1>4
<1> QED BY <1>2, <1>3, <1>5 DEF f

LEMMA RowWithheldSum ==
  ASSUME NEW S, NEW rows
  PROVE  RowWithheld(rows, S) = SumOf([x \in S |-> rows[x].withheld], S)
<1> DEFINE f == [x \in S |-> rows[x].withheld]
           B(g) == [s \in SUBSET S |-> IF s = {} THEN 0 ELSE f[OneOf(s)] + g[s \ {OneOf(s)}]]
           C(g) == [s \in SUBSET S |->
                      IF s = {} THEN 0 ELSE rows[OneOf(s)].withheld + g[s \ {OneOf(s)}]]
<1>1. ASSUME NEW g PROVE B(g) = C(g)
  <2>1. \A s \in SUBSET S : s # {} => f[OneOf(s)] = rows[OneOf(s)].withheld
    BY OneOfIn
  <2> HIDE DEF f
  <2> QED BY <2>1
<1>2. SumOf(f, S) = (CHOOSE g : g = B(g))[S]
  BY DEF SumOf, MapThenSumSet, MapThenFoldSet, OneOf
<1>3. RowWithheld(rows, S) = (CHOOSE g : g = C(g))[S]
  BY DEF RowWithheld, Total, MapThenSumSet, MapThenFoldSet, OneOf
<1>4. \A g : (g = B(g)) <=> (g = C(g))
  BY <1>1
<1> HIDE DEF B, C, f
<1>5. (CHOOSE g : g = B(g)) = (CHOOSE g : g = C(g))
  BY <1>4
<1> QED BY <1>2, <1>3, <1>5 DEF f

LEMMA GrossOfSum ==
  ASSUME NEW col, NEW S
  PROVE  GrossOf(col, S) = SumOf([x \in S |-> Gross(x, col)], S)
<1> DEFINE f == [x \in S |-> Gross(x, col)]
           B(g) == [s \in SUBSET S |-> IF s = {} THEN 0 ELSE f[OneOf(s)] + g[s \ {OneOf(s)}]]
           C(g) == [s \in SUBSET S |->
                      IF s = {} THEN 0 ELSE Gross(OneOf(s), col) + g[s \ {OneOf(s)}]]
<1>1. ASSUME NEW g PROVE B(g) = C(g)
  <2>1. \A s \in SUBSET S : s # {} => f[OneOf(s)] = Gross(OneOf(s), col)
    BY OneOfIn
  <2> HIDE DEF f
  <2> QED BY <2>1
<1>2. SumOf(f, S) = (CHOOSE g : g = B(g))[S]
  BY DEF SumOf, MapThenSumSet, MapThenFoldSet, OneOf
<1>3. GrossOf(col, S) = (CHOOSE g : g = C(g))[S]
  BY DEF GrossOf, Total, MapThenSumSet, MapThenFoldSet, OneOf
<1>4. \A g : (g = B(g)) <=> (g = C(g))
  BY <1>1
<1> HIDE DEF B, C, f
<1>5. (CHOOSE g : g = B(g)) = (CHOOSE g : g = C(g))
  BY <1>4
<1> QED BY <1>2, <1>3, <1>5 DEF f

LEMMA WithheldFromSum ==
  ASSUME NEW S, NEW col
  PROVE  WithheldFrom(col, S) = SumOf([x \in S |-> WithheldOf(x, col)], S)
<1> DEFINE f == [x \in S |-> WithheldOf(x, col)]
           B(g) == [s \in SUBSET S |-> IF s = {} THEN 0 ELSE f[OneOf(s)] + g[s \ {OneOf(s)}]]
           C(g) == [s \in SUBSET S |->
                      IF s = {} THEN 0 ELSE WithheldOf(OneOf(s), col) + g[s \ {OneOf(s)}]]
<1>1. ASSUME NEW g PROVE B(g) = C(g)
  <2>1. \A s \in SUBSET S : s # {} => f[OneOf(s)] = WithheldOf(OneOf(s), col)
    BY OneOfIn
  <2> HIDE DEF f
  <2> QED BY <2>1
<1>2. SumOf(f, S) = (CHOOSE g : g = B(g))[S]
  BY DEF SumOf, MapThenSumSet, MapThenFoldSet, OneOf
<1>3. WithheldFrom(col, S) = (CHOOSE g : g = C(g))[S]
  BY DEF WithheldFrom, Total, MapThenSumSet, MapThenFoldSet, OneOf
<1>4. \A g : (g = B(g)) <=> (g = C(g))
  BY <1>1
<1> HIDE DEF B, C, f
<1>5. (CHOOSE g : g = B(g)) = (CHOOSE g : g = C(g))
  BY <1>4
<1> QED BY <1>2, <1>3, <1>5 DEF f

LEMMA DeductedSum ==
  ASSUME NEW col, NEW S
  PROVE  DeductedFrom(col, S) = SumOf([x \in S |-> Deducted(x, col)], S)
<1> DEFINE f == [x \in S |-> Deducted(x, col)]
           B(g) == [s \in SUBSET S |-> IF s = {} THEN 0 ELSE f[OneOf(s)] + g[s \ {OneOf(s)}]]
           C(g) == [s \in SUBSET S |->
                      IF s = {} THEN 0 ELSE Deducted(OneOf(s), col) + g[s \ {OneOf(s)}]]
<1>1. ASSUME NEW g PROVE B(g) = C(g)
  <2>1. \A s \in SUBSET S : s # {} => f[OneOf(s)] = Deducted(OneOf(s), col)
    BY OneOfIn
  <2> HIDE DEF f
  <2> QED BY <2>1
<1>2. SumOf(f, S) = (CHOOSE g : g = B(g))[S]
  BY DEF SumOf, MapThenSumSet, MapThenFoldSet, OneOf
<1>3. DeductedFrom(col, S) = (CHOOSE g : g = C(g))[S]
  BY DEF DeductedFrom, Total, MapThenSumSet, MapThenFoldSet, OneOf
<1>4. \A g : (g = B(g)) <=> (g = C(g))
  BY <1>1
<1> HIDE DEF B, C, f
<1>5. (CHOOSE g : g = B(g)) = (CHOOSE g : g = C(g))
  BY <1>4
<1> QED BY <1>2, <1>3, <1>5 DEF f

LEMMA SpentOnSum ==
  ASSUME NEW S, NEW col
  PROVE  SpentOn(col, S) = SumOf([x \in S |-> (col[x].paid * ledger[x].quantity + ledger[x].costs)], S)
<1> DEFINE f == [x \in S |-> (col[x].paid * ledger[x].quantity + ledger[x].costs)]
           B(g) == [s \in SUBSET S |-> IF s = {} THEN 0 ELSE f[OneOf(s)] + g[s \ {OneOf(s)}]]
           C(g) == [s \in SUBSET S |->
                      IF s = {} THEN 0 ELSE (col[OneOf(s)].paid * ledger[OneOf(s)].quantity + ledger[OneOf(s)].costs) + g[s \ {OneOf(s)}]]
<1>1. ASSUME NEW g PROVE B(g) = C(g)
  <2>1. \A s \in SUBSET S : s # {} => f[OneOf(s)] = (col[OneOf(s)].paid * ledger[OneOf(s)].quantity + ledger[OneOf(s)].costs)
    BY OneOfIn
  <2> HIDE DEF f
  <2> QED BY <2>1
<1>2. SumOf(f, S) = (CHOOSE g : g = B(g))[S]
  BY DEF SumOf, MapThenSumSet, MapThenFoldSet, OneOf
<1>3. SpentOn(col, S) = (CHOOSE g : g = C(g))[S]
  BY DEF SpentOn, Total, MapThenSumSet, MapThenFoldSet, OneOf
<1>4. \A g : (g = B(g)) <=> (g = C(g))
  BY <1>1
<1> HIDE DEF B, C, f
<1>5. (CHOOSE g : g = B(g)) = (CHOOSE g : g = C(g))
  BY <1>4
<1> QED BY <1>2, <1>3, <1>5 DEF f

LEMMA PlanIncomeFromSum ==
  ASSUME NEW S, NEW col
  PROVE  PlanIncomeFrom(col, S) = SumOf([x \in S |-> PlanIncome(x, col).income], S)
<1> DEFINE f == [x \in S |-> PlanIncome(x, col).income]
           B(g) == [s \in SUBSET S |-> IF s = {} THEN 0 ELSE f[OneOf(s)] + g[s \ {OneOf(s)}]]
           C(g) == [s \in SUBSET S |->
                      IF s = {} THEN 0 ELSE PlanIncome(OneOf(s), col).income + g[s \ {OneOf(s)}]]
<1>1. ASSUME NEW g PROVE B(g) = C(g)
  <2>1. \A s \in SUBSET S : s # {} => f[OneOf(s)] = PlanIncome(OneOf(s), col).income
    BY OneOfIn
  <2> HIDE DEF f
  <2> QED BY <2>1
<1>2. SumOf(f, S) = (CHOOSE g : g = B(g))[S]
  BY DEF SumOf, MapThenSumSet, MapThenFoldSet, OneOf
<1>3. PlanIncomeFrom(col, S) = (CHOOSE g : g = C(g))[S]
  BY DEF PlanIncomeFrom, Total, MapThenSumSet, MapThenFoldSet, OneOf
<1>4. \A g : (g = B(g)) <=> (g = C(g))
  BY <1>1
<1> HIDE DEF B, C, f
<1>5. (CHOOSE g : g = B(g)) = (CHOOSE g : g = C(g))
  BY <1>4
<1> QED BY <1>2, <1>3, <1>5 DEF f

LEMMA PlanIncomeOverSum ==
  ASSUME NEW S, NEW col
  PROVE  PlanIncomeOver(col, S) = SumOf([x \in S |-> PlanYear(x, col).income], S)
<1> DEFINE f == [x \in S |-> PlanYear(x, col).income]
           B(g) == [s \in SUBSET S |-> IF s = {} THEN 0 ELSE f[OneOf(s)] + g[s \ {OneOf(s)}]]
           C(g) == [s \in SUBSET S |->
                      IF s = {} THEN 0 ELSE PlanYear(OneOf(s), col).income + g[s \ {OneOf(s)}]]
<1>1. ASSUME NEW g PROVE B(g) = C(g)
  <2>1. \A s \in SUBSET S : s # {} => f[OneOf(s)] = PlanYear(OneOf(s), col).income
    BY OneOfIn
  <2> HIDE DEF f
  <2> QED BY <2>1
<1>2. SumOf(f, S) = (CHOOSE g : g = B(g))[S]
  BY DEF SumOf, MapThenSumSet, MapThenFoldSet, OneOf
<1>3. PlanIncomeOver(col, S) = (CHOOSE g : g = C(g))[S]
  BY DEF PlanIncomeOver, Total, MapThenSumSet, MapThenFoldSet, OneOf
<1>4. \A g : (g = B(g)) <=> (g = C(g))
  BY <1>1
<1> HIDE DEF B, C, f
<1>5. (CHOOSE g : g = B(g)) = (CHOOSE g : g = C(g))
  BY <1>4
<1> QED BY <1>2, <1>3, <1>5 DEF f

LEMMA SoldForSum ==
  ASSUME NEW S
  PROVE  SoldFor(S) = SumOf([x \in S |-> (x.proceeds - x.selling)], S)
<1> DEFINE f == [x \in S |-> (x.proceeds - x.selling)]
           B(g) == [s \in SUBSET S |-> IF s = {} THEN 0 ELSE f[OneOf(s)] + g[s \ {OneOf(s)}]]
           C(g) == [s \in SUBSET S |->
                      IF s = {} THEN 0 ELSE (OneOf(s).proceeds - OneOf(s).selling) + g[s \ {OneOf(s)}]]
<1>1. ASSUME NEW g PROVE B(g) = C(g)
  <2>1. \A s \in SUBSET S : s # {} => f[OneOf(s)] = (OneOf(s).proceeds - OneOf(s).selling)
    BY OneOfIn
  <2> HIDE DEF f
  <2> QED BY <2>1
<1>2. SumOf(f, S) = (CHOOSE g : g = B(g))[S]
  BY DEF SumOf, MapThenSumSet, MapThenFoldSet, OneOf
<1>3. SoldFor(S) = (CHOOSE g : g = C(g))[S]
  BY DEF SoldFor, Total, MapThenSumSet, MapThenFoldSet, OneOf
<1>4. \A g : (g = B(g)) <=> (g = C(g))
  BY <1>1
<1> HIDE DEF B, C, f
<1>5. (CHOOSE g : g = B(g)) = (CHOOSE g : g = C(g))
  BY <1>4
<1> QED BY <1>2, <1>3, <1>5 DEF f

LEMMA RecordsOverSum ==
  ASSUME NEW S
  PROVE  RecordsOver(S) = SumOf([x \in S |-> Cardinality(Records(x))], S)
<1> DEFINE f == [x \in S |-> Cardinality(Records(x))]
           B(g) == [s \in SUBSET S |-> IF s = {} THEN 0 ELSE f[OneOf(s)] + g[s \ {OneOf(s)}]]
           C(g) == [s \in SUBSET S |->
                      IF s = {} THEN 0 ELSE Cardinality(Records(OneOf(s))) + g[s \ {OneOf(s)}]]
<1>1. ASSUME NEW g PROVE B(g) = C(g)
  <2>1. \A s \in SUBSET S : s # {} => f[OneOf(s)] = Cardinality(Records(OneOf(s)))
    BY OneOfIn
  <2> HIDE DEF f
  <2> QED BY <2>1
<1>2. SumOf(f, S) = (CHOOSE g : g = B(g))[S]
  BY DEF SumOf, MapThenSumSet, MapThenFoldSet, OneOf
<1>3. RecordsOver(S) = (CHOOSE g : g = C(g))[S]
  BY DEF RecordsOver, Total, MapThenSumSet, MapThenFoldSet, OneOf
<1>4. \A g : (g = B(g)) <=> (g = C(g))
  BY <1>1
<1> HIDE DEF B, C, f
<1>5. (CHOOSE g : g = B(g)) = (CHOOSE g : g = C(g))
  BY <1>4
<1> QED BY <1>2, <1>3, <1>5 DEF f

-----------------------------------------------------------------------------
(* A sum over the groups of a set by some key.                             *)
ByKey(R, key, d) == {x \in R : key[x] = d}

LEMMA SumByKey ==
  ASSUME NEW f, NEW R, Ints(f, R), NEW key, NEW D, IsFiniteSet(D), \A x \in R : key[x] \in D,
         NEW h, \A d \in D : h[d] = SumOf(f, ByKey(R, key, d))
  PROVE  Ints(h, D) /\ SumOf(h, D) = SumOf(f, R)
<1> DEFINE Of(E) == {x \in R : key[x] \in E}
           bad == {E \in SUBSET D : SumOf(h, E) # SumOf(f, Of(E))}
<1>1. \A S \in SUBSET R : Ints(f, S) /\ SumOf(f, S) \in Int
  <2> SUFFICES ASSUME NEW S \in SUBSET R PROVE Ints(f, S) /\ SumOf(f, S) \in Int
    OBVIOUS
  <2>1. Ints(f, S)
    BY FS_Subset DEF Ints
  <2> QED BY <2>1, SumInt
<1>2. Ints(h, D) /\ \A E \in SUBSET D : IsFiniteSet(E) /\ Ints(h, E)
  <2>1. \A d \in D : h[d] \in Int
    BY <1>1 DEF ByKey
  <2> QED BY <2>1, FS_Subset DEF Ints
<1>3. bad = {}
  <2> SUFFICES ASSUME bad # {} PROVE FALSE
    OBVIOUS
  <2>1. PICK E \in bad : \A z \in E : E \ {z} \notin bad
    <3>1. \A E \in bad : IsFiniteSet(E)
      BY <1>2
    <3> HIDE DEF bad
    <3> QED BY <3>1, Smallest
  <2>2. E # {}
    <3>1. Of({}) = {}
      OBVIOUS
    <3> QED BY <3>1, SumEmpty
  <2>3. PICK d : d \in E
    BY <2>2
  <2> DEFINE F == E \ {d}
             A == Of(F)
             W == ByKey(R, key, d)
  <2>4. F \in SUBSET D /\ d \in D /\ Of(E) = A \cup W /\ A \cap W = {} /\ A \in SUBSET R /\ W \in SUBSET R
    BY <2>3 DEF ByKey
  <2>5. SumOf(h, F) = SumOf(f, A)
    BY <2>1, <2>3, <2>4
  <2>6. SumOf(h, E) = h[d] + SumOf(h, F)
    BY <1>2, <2>3, SumRemove
  <2>7. Ints(f, A \cup W)
    BY <1>1, <2>4
  <2> HIDE DEF A, W, F
  <2>8. SumOf(f, A \cup W) = SumOf(f, A) + SumOf(f, W)
    BY <2>4, <2>7, SumUnion
  <2>9. h[d] = SumOf(f, W)
    BY <2>4 DEF W
  <2>10. SumOf(f, A) \in Int /\ SumOf(f, W) \in Int
    BY <1>1, <2>4
  <2> HIDE DEF Of
  <2>11. SumOf(h, E) = SumOf(f, Of(E))
    BY <2>4, <2>5, <2>6, <2>8, <2>9, <2>10
  <2> QED BY <2>11
<1>4. Of(D) = R
  OBVIOUS
<1>5. SumOf(h, D) = SumOf(f, Of(D))
  BY <1>3
<1> QED BY <1>2, <1>4, <1>5

(* Smaller terms make a smaller sum.                                       *)
LEMMA SumAtMost ==
  ASSUME NEW f, NEW e, NEW S, Ints(f, S), Ints(e, S), \A x \in S : f[x] <= e[x]
  PROVE  SumOf(f, S) <= SumOf(e, S)
<1> DEFINE bad == {s \in SUBSET S : ~(SumOf(f, s) <= SumOf(e, s))}
<1>1. \A s \in SUBSET S : IsFiniteSet(s) /\ Ints(f, s) /\ Ints(e, s)
  BY FS_Subset DEF Ints
<1>2. bad = {}
  <2> SUFFICES ASSUME bad # {} PROVE FALSE
    OBVIOUS
  <2>1. PICK s \in bad : \A z \in s : s \ {z} \notin bad
    <3>1. \A s \in bad : IsFiniteSet(s)
      BY <1>1
    <3> HIDE DEF bad
    <3> QED BY <3>1, Smallest
  <2>2. s # {}
    BY SumEmpty
  <2>3. PICK p : p \in s
    BY <2>2
  <2> DEFINE t == s \ {p}
  <2>4. t \in SUBSET S /\ p \in S /\ SumOf(f, t) <= SumOf(e, t)
    BY <2>1, <2>3
  <2>5. SumOf(f, s) = f[p] + SumOf(f, t) /\ SumOf(e, s) = e[p] + SumOf(e, t)
    BY <1>1, <2>3, SumRemove
  <2>6. SumOf(f, t) \in Int /\ SumOf(e, t) \in Int
    BY <1>1, <2>4, SumInt
  <2>7. f[p] \in Int /\ e[p] \in Int /\ f[p] <= e[p]
    BY <2>4 DEF Ints
  <2> HIDE DEF t
  <2>8. SumOf(f, s) <= SumOf(e, s)
    BY <2>4, <2>5, <2>6, <2>7
  <2> QED BY <2>8
<1> QED BY <1>2

(* Terms that are not negative make a sum that is not.                     *)
LEMMA SumNat ==
  ASSUME NEW f, NEW S, Ints(f, S), \A x \in S : f[x] >= 0
  PROVE  SumOf(f, S) \in Nat
<1> DEFINE z == [x \in S |-> 0]
<1>1. Ints(z, S) /\ \A x \in S : z[x] = 0
  BY DEF Ints
<1> HIDE DEF z
<1>2. \A x \in S : z[x] <= f[x]
  BY <1>1
<1>3. SumOf(z, S) = 0 /\ SumOf(z, S) <= SumOf(f, S)
  BY <1>1, <1>2, SumZero, SumAtMost
<1> QED BY <1>3, SumInt

(* What is above an allowance is taxed once of the whole, or of each part  *)
(* above an allowance of its own: the parts never make more.               *)
LEMMA AllowanceOnce ==
  ASSUME NEW x, NEW S, Ints(x, S), \A t \in S : x[t] >= 0, NEW a \in Nat,
         NEW e, \A t \in S : e[t] = NotBelowZero(x[t] - a)
  PROVE  Ints(e, S) /\ SumOf(e, S) <= NotBelowZero(SumOf(x, S) - a)
<1>1. Ints(e, S) /\ \A t \in S : x[t] \in Nat /\ e[t] \in Nat /\ e[t] <= x[t]
  BY DEF Ints, NotBelowZero
<1>2. SumOf(x, S) \in Int
  BY SumInt
<1>3. CASE \A t \in S : x[t] <= a
  <2>1. \A t \in S : e[t] = 0
    BY <1>1, <1>3 DEF NotBelowZero
  <2>2. SumOf(e, S) = 0
    BY <1>1, <2>1, SumZero
  <2> QED BY <1>1, <1>2, <2>2 DEF NotBelowZero
<1>4. CASE \E t \in S : x[t] > a
  <2>1. PICK p \in S : x[p] > a
    BY <1>4
  <2> DEFINE T == S \ {p}
  <2>2. Ints(x, T) /\ Ints(e, T) /\ \A t \in T : e[t] <= x[t]
    <3>1. IsFiniteSet(T)
      BY FS_Subset DEF Ints
    <3> QED BY <1>1, <3>1 DEF Ints
  <2>3. SumOf(e, S) = e[p] + SumOf(e, T) /\ SumOf(x, S) = x[p] + SumOf(x, T)
    BY <1>1, SumRemove
  <2> HIDE DEF T
  <2>4. SumOf(e, T) <= SumOf(x, T) /\ SumOf(e, T) \in Int /\ SumOf(x, T) \in Int
    BY <2>2, SumAtMost, SumInt
  <2>5. e[p] = x[p] - a /\ x[p] \in Nat
    BY <1>1, <2>1 DEF NotBelowZero
  <2> QED BY <1>1, <1>2, <2>3, <2>4, <2>5 DEF NotBelowZero
<1> QED BY <1>1, <1>3, <1>4

(* A factor of all terms.                                                  *)
LEMMA SumTimes ==
  ASSUME NEW f, NEW S, Ints(f, S), NEW k \in Int, NEW e, \A x \in S : e[x] = k * f[x]
  PROVE  Ints(e, S) /\ SumOf(e, S) = k * SumOf(f, S)
<1> DEFINE bad == {s \in SUBSET S : SumOf(e, s) # k * SumOf(f, s)}
<1>1. Ints(e, S) /\ \A s \in SUBSET S : IsFiniteSet(s) /\ Ints(f, s) /\ Ints(e, s)
  BY FS_Subset DEF Ints
<1>2. bad = {}
  <2> SUFFICES ASSUME bad # {} PROVE FALSE
    OBVIOUS
  <2>1. PICK s \in bad : \A z \in s : s \ {z} \notin bad
    <3>1. \A s \in bad : IsFiniteSet(s)
      BY <1>1
    <3> HIDE DEF bad
    <3> QED BY <3>1, Smallest
  <2>2. s # {}
    BY SumEmpty
  <2>3. PICK p : p \in s
    BY <2>2
  <2> DEFINE t == s \ {p}
  <2>4. t \in SUBSET S /\ p \in S /\ SumOf(e, t) = k * SumOf(f, t)
    BY <2>1, <2>3
  <2>5. SumOf(f, s) = f[p] + SumOf(f, t) /\ SumOf(e, s) = e[p] + SumOf(e, t)
    BY <1>1, <2>3, SumRemove
  <2>6. SumOf(f, t) \in Int
    BY <1>1, <2>4, SumInt
  <2>7. f[p] \in Int /\ e[p] = k * f[p]
    BY <2>4 DEF Ints
  <2> HIDE DEF t
  <2>8. SumOf(e, s) = k * SumOf(f, s)
    BY <2>4, <2>5, <2>6, <2>7
  <2> QED BY <2>8
<1>3. SumOf(e, S) = k * SumOf(f, S)
  BY <1>2
<1> QED BY <1>1, <1>3

LEMMA FiniteKeys ==
  ASSUME NEW S, IsFiniteSet(S), NEW key
  PROVE  IsFiniteSet({key[x] : x \in S})
<1> DEFINE K(s) == {key[x] : x \in s}
           bad == {s \in SUBSET S : ~IsFiniteSet(K(s))}
<1>1. \A s \in SUBSET S : IsFiniteSet(s)
  BY FS_Subset
<1>2. bad = {}
  <2> SUFFICES ASSUME bad # {} PROVE FALSE
    OBVIOUS
  <2>1. PICK s \in bad : \A z \in s : s \ {z} \notin bad
    <3>1. \A s \in bad : IsFiniteSet(s)
      BY <1>1
    <3> HIDE DEF bad
    <3> QED BY <3>1, Smallest
  <2>2. s # {}
    <3>1. K({}) = {}
      OBVIOUS
    <3> QED BY <3>1, FS_EmptySet
  <2>3. PICK p : p \in s
    BY <2>2
  <2>4. K(s) = K(s \ {p}) \cup {key[p]}
    BY <2>3
  <2>5. IsFiniteSet(K(s \ {p}))
    BY <2>1, <2>3
  <2>6. ~IsFiniteSet(K(s))
    OBVIOUS
  <2> HIDE DEF K, bad
  <2>7. IsFiniteSet(K(s \ {p}) \cup {key[p]})
    BY <2>5, FS_AddElement
  <2> QED BY <2>4, <2>6, <2>7
<1> QED BY <1>2

(* A chart's months add up to the amounts it was drawn from.               *)
LEMMA ChartSum ==
  ASSUME NEW date, NEW amount, Ints(amount, DOMAIN date)
  PROVE  ChartTotal(SumByMonth(date, amount)) = SumOf(amount, DOMAIN date)
<1> DEFINE S == DOMAIN date
           key == [x \in S |-> MonthOf(date[x])]
           D == {MonthOf(date[x]) : x \in S}
           chart == SumByMonth(date, amount)
<1>1. D = {key[x] : x \in S} /\ \A x \in S : key[x] \in D
  OBVIOUS
<1>2. IsFiniteSet(D)
  <2>1. IsFiniteSet(S)
    BY DEF Ints
  <2> HIDE DEF S, key, D
  <2> QED BY <1>1, <2>1, FiniteKeys
<1>3. DOMAIN chart = D /\ \A m \in D : chart[m] = SumOf(amount, ByKey(S, key, m))
  <2>1. \A m : {x \in S : MonthOf(date[x]) = m} = ByKey(S, key, m)
    BY DEF ByKey
  <2>2. chart = [m \in D |-> SumOf(amount, {x \in S : MonthOf(date[x]) = m})]
    BY DEF SumByMonth, Total, SumOf
  <2> HIDE DEF chart, D, key
  <2> QED BY <2>1, <2>2
<1>4. ChartTotal(chart) = SumOf(chart, D)
  BY <1>3 DEF ChartTotal, Total, SumOf
<1> HIDE DEF chart, D, key
<1>5. SumOf(chart, D) = SumOf(amount, S)
  BY <1>1, <1>2, <1>3, SumByKey
<1> QED BY <1>4, <1>5 DEF chart

(* The dividends of a year.                                                *)
LEMMA DividendTypes ==
  ASSUME TypeOK, NEW y, NEW col \in Columns, NEW t \in Dividends(y)
  PROVE  /\ t \in Ids /\ PaidOut(t, col) \in Nat
         /\ Gross(t, col) = 100 * PaidOut(t, col) /\ Gross(t, col) \in Nat
         /\ Gross(t, col) \div 100 = PaidOut(t, col)
         /\ WithheldOf(t, col) \in Nat /\ Received(t, col) \in Int /\ Deducted(t, col) \in Int
<1>1. t \in Ids
  BY DEF Dividends, Dated
<1>2. UnitPrice(t) \in Nat /\ ledger[t].quantity \in Nat /\ ledger[t].costs \in Nat
  BY <1>1, CostTypes
<1>3. /\ col[t].withheld \in Nat
      /\ col[t].gross # NotTyped => col[t].gross \in Nat
      /\ col[t].net # NotTyped => col[t].net \in Nat
  BY <1>1, ColumnsAreTyped
<1>4. PaidOut(t, col) \in Nat
  BY <1>2, <1>3 DEF PaidOut
<1> DEFINE g == PaidOut(t, col)
<1>5. Gross(t, col) = 100 * g
  BY DEF Gross
<1>6. WithheldOf(t, col) \in Nat
  BY <1>3, <1>4 DEF WithheldOf
<1> HIDE DEF g
<1>7. g \in Nat /\ 100 * g \in Nat /\ (100 * g) \div 100 = g
  BY <1>4 DEF g
<1>8. Received(t, col) \in Int
  BY <1>2, <1>3 DEF Received
<1>9. Deducted(t, col) \in Int
  BY <1>2, <1>3, <1>5, <1>7 DEF Deducted
<1> QED BY <1>1, <1>4, <1>5, <1>6, <1>7, <1>8, <1>9 DEF g

LEMMA DividendSets ==
  ASSUME NEW y
  PROVE  Dividends(y) \subseteq Ids /\ IsFiniteSet(Dividends(y))
<1>1. Dividends(y) \subseteq Ids
  BY DEF Dividends, Dated
<1> QED BY <1>1, FS_Subset, IdsAreNumbers

(* The year's tax is that of all its payments above one allowance.         *)
LEMMA DueOnAll ==
  ASSUME TypeOK, NEW y \in Years, NEW col \in Columns, NEW above \in BOOLEAN
  PROVE  LET D == Dividends(y)
             e == [t \in D |-> DividendDue(y, above, Gross(t, col))]
         IN  Ints(e, D) /\ SumOf(e, D) <= DividendDue(y, above, GrossOf(col, D))
<1> DEFINE D == Dividends(y)
           a == y.allowance
           r == DividendRate(y, above)
           x == [t \in D |-> PaidOut(t, col)]
           h == [t \in D |-> 100 * x[t]]
           u == [t \in D |-> NotBelowZero(x[t] - a)]
           e == [t \in D |-> DividendDue(y, above, Gross(t, col))]
<1>1. a \in Nat /\ r \in Nat /\ IsFiniteSet(D)
  BY YearsAreApart, DividendSets DEF DividendRate
<1>2. \A t \in D : x[t] \in Nat /\ Gross(t, col) = 100 * x[t]
  BY DividendTypes
<1> DEFINE Whole(n) == (NotBelowZero(100 * n - 100 * a) \div 100) * r
<1>3. ASSUME NEW n \in Nat PROVE Whole(n) = NotBelowZero(n - a) * r
  <2> HIDE DEF a, r
  <2>1. CASE 100 * n - 100 * a < 0
    <3>1. n - a < 0 /\ NotBelowZero(100 * n - 100 * a) = 0
      BY <1>1, <2>1 DEF NotBelowZero
    <3>2. 0 \div 100 = 0
      OBVIOUS
    <3> QED BY <3>1, <3>2 DEF NotBelowZero
  <2>2. CASE ~(100 * n - 100 * a < 0)
    <3>1. ~(n - a < 0) /\ NotBelowZero(100 * n - 100 * a) = 100 * (n - a) /\ n - a \in Nat
      BY <1>1, <2>2 DEF NotBelowZero
    <3>2. (100 * (n - a)) \div 100 = n - a
      BY <3>1
    <3> QED BY <3>1, <3>2 DEF NotBelowZero
  <2> QED BY <2>1, <2>2
<1>4. Ints(x, D) /\ Ints(h, D) /\ Ints(u, D) /\ (\A t \in D : u[t] = NotBelowZero(x[t] - a))
  BY <1>1, <1>2 DEF Ints, NotBelowZero
<1>5. \A t \in D : e[t] = u[t] * r
  BY <1>2, <1>3 DEF DividendDue
<1>6. GrossOf(col, D) = 100 * SumOf(x, D)
  <2> DEFINE k == [t \in D |-> Gross(t, col)]
  <2>1. GrossOf(col, D) = SumOf(k, D)
    BY GrossOfSum
  <2>2. Ints(k, D) /\ \A t \in D : k[t] = 100 * x[t]
    BY <1>1, <1>2 DEF Ints
  <2> HIDE DEF k, x
  <2>3. SumOf(k, D) = 100 * SumOf(x, D)
    BY <1>4, <2>2, SumTimes
  <2> QED BY <2>1, <2>3
<1> HIDE DEF x, u, h, e
<1>7. SumOf(u, D) <= NotBelowZero(SumOf(x, D) - a) /\ SumOf(u, D) \in Int
  <2>1. \A t \in D : x[t] >= 0
    BY <1>2
  <2> HIDE DEF D, a
  <2> QED BY <1>1, <1>4, <2>1, AllowanceOnce, SumInt
<1>8. Ints(e, D) /\ SumOf(e, D) = r * SumOf(u, D)
  <2>1. \A t \in D : e[t] = r * u[t]
    BY <1>1, <1>4, <1>5 DEF Ints
  <2> HIDE DEF D, r
  <2> QED BY <1>1, <1>4, <2>1, SumTimes
<1>9. SumOf(x, D) \in Nat
  BY <1>2, <1>4, SumNat
<1>10. DividendDue(y, above, GrossOf(col, D)) = NotBelowZero(SumOf(x, D) - a) * r
  BY <1>3, <1>6, <1>9 DEF DividendDue
<1>11. r * SumOf(u, D) <= NotBelowZero(SumOf(x, D) - a) * r
  <2> DEFINE m == SumOf(u, D)
             n == NotBelowZero(SumOf(x, D) - a)
  <2>1. m \in Int /\ n \in Int /\ m <= n
    BY <1>1, <1>7, <1>9 DEF NotBelowZero
  <2> HIDE DEF m, n, r
  <2>2. r * m <= n * r
    BY <1>1, <2>1
  <2> QED BY <2>2 DEF m, n
<1> QED BY <1>8, <1>10, <1>11 DEF e

(* A chart of a finished year shows all its dividends, less what was       *)
(* deducted.                                                               *)
LEMMA DividendsCharted ==
  ASSUME TypeOK, NEW y \in Years, NEW col \in Columns, TypedInPairs(y, col)
  PROVE  LET D == Dividends(y)
         IN  ChartTotal(DividendChart(y, col, y.last)) = GrossOf(col, D) - DeductedFrom(col, D)
<1> DEFINE D == Dividends(y)
           date == [t \in D |-> ledger[t].date]
           r == [t \in D |-> Received(t, col)]
           g == [t \in D |-> Gross(t, col)]
           k == [t \in D |-> Deducted(t, col)]
<1>1. IsFiniteSet(D) /\ D \subseteq Ids
  BY DividendSets
<1>2. \A t \in D : /\ Gross(t, col) \in Nat /\ Received(t, col) \in Int /\ Deducted(t, col) \in Int
                   /\ Gross(t, col) = 100 * PaidOut(t, col)
  BY DividendTypes
<1>3. {t \in D : ledger[t].date <= ChartTo(y, y.last)} = D
  <2>1. ChartTo(y, y.last) = y.last /\ y.last \in Int /\ y.first \in Int
    BY YearsAreTyped DEF ChartTo, Smaller
  <2>2. \A t \in D : ledger[t].date <= y.last
    BY <2>1 DEF Dividends, Dated
  <2> HIDE DEF D
  <2> QED BY <2>1, <2>2
<1>4. DividendChart(y, col, y.last) = SumByMonth(date, r)
  BY <1>3 DEF DividendChart
<1>5. ASSUME NEW t \in D PROVE r[t] = g[t] - k[t]
  <2>1. ledger[t].quantity \in Nat /\ ledger[t].costs \in Nat /\ UnitPrice(t) \in Nat
    BY <1>1, CostTypes
  <2>2. CASE col[t].net # NotTyped
    <3>1. col[t].net \in Nat
      BY <1>1, <2>2, ColumnsAreTyped
    <3> QED BY <1>2, <2>2, <3>1 DEF Received, Deducted
  <2>3. CASE col[t].net = NotTyped
    <3>1. PaidOut(t, col) = ledger[t].quantity * UnitPrice(t)
      BY <2>3 DEF TypedInPairs, PaidOut
    <3>2. CASE ledger[t].given
      <4> DEFINE n == ledger[t].quantity * UnitPrice(t)
      <4>1. g[t] = 100 * n /\ r[t] = 100 * n - 100 * ledger[t].costs /\ k[t] = 100 * ledger[t].costs
        BY <1>2, <2>3, <3>1, <3>2 DEF Received, Deducted
      <4> QED BY <4>1
    <3>3. CASE ~ledger[t].given
      <4>1. PaidOut(t, col) = 0
        BY <2>1, <3>1, <3>3 DEF UnitPrice
      <4>2. g[t] = 0 /\ r[t] = 0 /\ k[t] = 0
        BY <1>2, <2>3, <3>3, <4>1 DEF Received, Deducted
      <4> QED BY <4>2
    <3> QED BY <3>2, <3>3
  <2> QED BY <2>2, <2>3
<1>6. Ints(r, D) /\ Ints(g, D) /\ Ints(k, D)
  BY <1>1, <1>2 DEF Ints
<1>7. GrossOf(col, D) = SumOf(g, D) /\ DeductedFrom(col, D) = SumOf(k, D)
  BY GrossOfSum, DeductedSum
<1>8. ChartTotal(SumByMonth(date, r)) = SumOf(r, D)
  <2>1. DOMAIN date = D
    OBVIOUS
  <2> HIDE DEF date, r, D
  <2> QED BY <1>6, <2>1, ChartSum
<1> HIDE DEF D, date, r, g, k
<1>9. SumOf(r, D) = SumOf(g, D) - SumOf(k, D)
  BY <1>5, <1>6, SumLess
<1>10. ChartTotal(DividendChart(y, col, y.last)) = GrossOf(col, D) - DeductedFrom(col, D)
  BY <1>4, <1>7, <1>8, <1>9
<1> QED BY <1>10 DEF D

(* What is relieved payment by payment is never more than what the year    *)
(* relieves: no more than was withheld, and no more than the tax.          *)
LEMMA CreditsWithinYear ==
  ASSUME TypeOK, NEW y \in Years, NEW col \in Columns, NEW above \in BOOLEAN,
         NEW rows,
         \A t \in Dividends(y) : rows[t].credit = DividendItem(y, col, above, t).credit
  PROVE  RowCredits(rows, Dividends(y))
           <= Smaller(DividendDue(y, above, GrossOf(col, Dividends(y))), WithheldFrom(col, Dividends(y)))
<1> DEFINE D == Dividends(y)
           c == [t \in D |-> rows[t].credit]
           withheld == [t \in D |-> WithheldOf(t, col)]
           due == [t \in D |-> DividendDue(y, above, Gross(t, col))]
           d == DividendDue(y, above, GrossOf(col, D))
<1>1. IsFiniteSet(D) /\ \A t \in D : WithheldOf(t, col) \in Nat
  BY DividendSets, DividendTypes
<1>2. Ints(due, D) /\ SumOf(due, D) <= d
  BY DueOnAll
<1>3. /\ GrossOf(col, D) = SumOf([t \in D |-> Gross(t, col)], D)
      /\ WithheldFrom(col, D) = SumOf(withheld, D) /\ RowCredits(rows, D) = SumOf(c, D)
  BY GrossOfSum, WithheldFromSum, RowCreditsSum
<1>4. Ints(withheld, D)
  BY <1>1 DEF Ints
<1>5. ASSUME NEW t \in D PROVE c[t] \in Int /\ c[t] <= withheld[t] /\ c[t] <= due[t]
  <2> DEFINE treaty == (Gross(t, col) \div 100) * TreatyRate
  <2>1. c[t] = Smaller(Smaller(withheld[t], treaty), due[t])
    BY DEF DividendItem, Relief
  <2>2. treaty \in Int
    BY DividendTypes DEF TreatyRate
  <2>3. withheld[t] \in Int /\ due[t] \in Int
    BY <1>2, <1>4 DEF Ints
  <2> HIDE DEF treaty, c, withheld, due
  <2> QED BY <2>1, <2>2, <2>3 DEF Smaller
<1>6. Ints(c, D)
  BY <1>1, <1>5 DEF Ints
<1>7. d \in Int
  <2> DEFINE gross == [t \in D |-> Gross(t, col)]
  <2>1. Ints(gross, D)
    BY <1>1, DividendTypes DEF Ints
  <2>2. GrossOf(col, D) \in Int
    <3> HIDE DEF gross
    <3> QED BY <1>3, <2>1, SumInt DEF gross
  <2>3. y.allowance \in Nat /\ DividendRate(y, above) \in Nat
    BY YearsAreApart DEF DividendRate
  <2> DEFINE n == NotBelowZero(GrossOf(col, D) - 100 * y.allowance)
  <2>4. n \in Nat
    BY <2>2, <2>3 DEF NotBelowZero
  <2>5. n \div 100 \in Int
    <3> HIDE DEF n
    <3> QED BY <2>4
  <2> HIDE DEF n
  <2> QED BY <2>3, <2>5 DEF DividendDue, n
<1> HIDE DEF D, c, withheld, due, d
<1>8. SumOf(c, D) <= SumOf(withheld, D) /\ SumOf(c, D) <= SumOf(due, D)
  BY <1>2, <1>4, <1>5, <1>6, SumAtMost
<1>9. SumOf(c, D) \in Int /\ SumOf(withheld, D) \in Int /\ SumOf(due, D) \in Int
  BY <1>2, <1>4, <1>6, SumInt
<1>10. RowCredits(rows, D) <= Smaller(d, WithheldFrom(col, D))
  BY <1>2, <1>3, <1>7, <1>8, <1>9 DEF Smaller
<1> QED BY <1>10 DEF D, d

LEMMA DividendsAgree ==
  ASSUME TypeOK, NEW y \in Years, NEW col \in Columns, NEW income
  PROVE  DividendsReconcile(y, col, income)
<1> DEFINE D == Dividends(y)
           year == DividendYear(y, col, income)
           items == [t \in D |-> PageDividend(y, col, income, t)]
           rows == [t \in D |-> ReportDividend(y, col, income, t)]
           page == AboveForPage(income)
<1>1. /\ year.gross = GrossOf(col, D) /\ year.withheld = WithheldFrom(col, D)
      /\ year.credit = Smaller(DividendDue(y, page, GrossOf(col, D)), WithheldFrom(col, D))
  BY DEF DividendYear, GrossOf, WithheldFrom
<1>2. page \in BOOLEAN
  BY DEF AboveForPage
<1>3. RowCredits(items, D) <= year.credit
  <2>1. \A t \in D : items[t].credit = DividendItem(y, col, page, t).credit
    BY DEF PageDividend
  <2> HIDE DEF items, page, year
  <2> QED BY <1>1, <1>2, <2>1, CreditsWithinYear
<1>4. ASSUME SameBand(y, income) PROVE RowCredits(rows, D) <= year.credit
  <2>1. AboveForReport(y, income) = page
    BY <1>4 DEF SameBand, AboveForPage, AboveForReport
  <2>2. \A t \in D : rows[t].credit = DividendItem(y, col, page, t).credit
    BY <2>1 DEF ReportDividend
  <2> HIDE DEF rows, page, year
  <2> QED BY <1>1, <1>2, <2>2, CreditsWithinYear
<1>5. RowGross(rows, D) = year.gross /\ RowWithheld(rows, D) = year.withheld
  <2>1. \A t \in D : rows[t].gross = Gross(t, col) /\ rows[t].withheld = WithheldOf(t, col)
    BY DEF ReportDividend, DividendItem
  <2>2. /\ [t \in D |-> rows[t].gross] = [t \in D |-> Gross(t, col)]
        /\ [t \in D |-> rows[t].withheld] = [t \in D |-> WithheldOf(t, col)]
    BY <2>1
  <2> HIDE DEF D, rows, year
  <2> QED BY <1>1, <2>2, RowGrossSum, RowWithheldSum, GrossOfSum, WithheldFromSum
<1>6. TypedInPairs(y, col) =>
        ChartTotal(DividendChart(y, col, y.last)) = year.gross - DeductedFrom(col, D)
  BY <1>1, DividendsCharted
<1> QED BY <1>3, <1>4, <1>5, <1>6 DEF DividendsReconcile, RowCredits, RowGross, RowWithheld, DeductedFrom

(* The years part the days that are in one.                                *)
YearOf(date) == CHOOSE y \in Years : date \in y.first .. y.last

LEMMA YearIn ==
  ASSUME NEW date, InAYear(date)
  PROVE  YearOf(date) \in Years /\ date \in YearOf(date).first .. YearOf(date).last
BY DEF InAYear, YearOf

LEMMA YearIs ==
  ASSUME NEW date, NEW y \in Years, date \in y.first .. y.last
  PROVE  YearOf(date) = y
<1> DEFINE x == YearOf(date)
<1>1. x \in Years /\ date \in x.first .. x.last
  BY YearIn DEF InAYear
<1> HIDE DEF x
<1>2. /\ x.first \in Int /\ x.last \in Int /\ y.first \in Int /\ y.last \in Int
  BY <1>1, YearsAreTyped
<1>3. ~(x.last < y.first) /\ ~(y.last < x.first)
  BY <1>1, <1>2
<1> QED BY <1>1, <1>3, YearsAreApart DEF x

LEMMA SumOnes ==
  ASSUME NEW f, NEW S, IsFiniteSet(S), \A x \in S : f[x] = 1
  PROVE  SumOf(f, S) = Cardinality(S)
<1> DEFINE bad == {s \in SUBSET S : SumOf(f, s) # Cardinality(s)}
<1>1. \A s \in SUBSET S : IsFiniteSet(s) /\ Ints(f, s)
  BY FS_Subset DEF Ints
<1>2. bad = {}
  <2> SUFFICES ASSUME bad # {} PROVE FALSE
    OBVIOUS
  <2>1. PICK s \in bad : \A z \in s : s \ {z} \notin bad
    <3>1. \A s \in bad : IsFiniteSet(s)
      BY <1>1
    <3> HIDE DEF bad
    <3> QED BY <3>1, Smallest
  <2>2. s # {}
    BY SumEmpty, FS_EmptySet
  <2>3. PICK p : p \in s
    BY <2>2
  <2>4. SumOf(f, s) = f[p] + SumOf(f, s \ {p}) /\ f[p] = 1
    BY <1>1, <2>3, SumRemove
  <2>5. SumOf(f, s \ {p}) = Cardinality(s \ {p})
    BY <2>1, <2>3
  <2>6. Cardinality(s) \in Nat /\ Cardinality(s \ {p}) = Cardinality(s) - 1
    BY <1>1, <2>3, Without
  <2> QED BY <2>4, <2>5, <2>6
<1> QED BY <1>2

(* Every record is of a disposal, and so of a year.                        *)
SoldSlices == \A s \in disposals : IsDisposal(s.txn)
RecordYear == [s \in disposals |-> YearOf(ledger[s.txn].date)]

LEMMA RecordYears ==
  ASSUME SInv, ledger \in Ledgers, SoldSlices
  PROVE  /\ \A s \in disposals : RecordYear[s] \in Years
         /\ \A y \in Years : ByKey(disposals, RecordYear, y) = Records(y)
<1>1. ASSUME NEW s \in disposals PROVE InAYear(ledger[s.txn].date)
  <2>1. s.txn \in Ids /\ ledger[s.txn].type \in DisposalTypes
    BY DEF SInv, IInv, TypeOK, SliceType, SoldSlices, IsDisposal
  <2> QED BY <2>1, DisposalsAreInYears
<1>2. ASSUME NEW s \in disposals
      PROVE  /\ RecordYear[s] \in Years
             /\ \A y \in Years : RecordYear[s] = y <=> ledger[s.txn].date \in y.first .. y.last
  <2>1. RecordYear[s] = YearOf(ledger[s.txn].date)
    BY DEF RecordYear
  <2>2. /\ RecordYear[s] \in Years
        /\ ledger[s.txn].date \in RecordYear[s].first .. RecordYear[s].last
    BY <1>1, <2>1, YearIn
  <2> QED BY <2>1, <2>2, YearIs
<1> QED BY <1>2 DEF ByKey, Records

(* The engine's summaries, the charts and the records are one calculation. *)
LEMMA GainsAgree ==
  ASSUME SInv, ledger \in Ledgers, SoldSlices
  PROVE  LET engine == EngineResult.summaries
         IN  /\ EngineResult.recorded = RecordsOver(Years)
             /\ \A y \in DOMAIN engine : ChartTotal(GainChart(y, y.last)) = engine[y]
             /\ ChartTotal(engine) = GainsIn(disposals)
<1> DEFINE S == disposals
           D == {x \in Years : Records(x) # {}}
           engine == [y \in D |-> NetGain(Records(y))]
           one == [s \in S |-> 1]
           gain == [s \in S |-> s.gain]
           count == [y \in Years |-> Cardinality(Records(y))]
<1>1. EngineResult.summaries = engine /\ EngineResult.recorded = Cardinality(S)
  BY DEF EngineResult
<1>2. /\ IsFiniteSet(S) /\ IsFiniteSet(Years) /\ IsFiniteSet(D)
      /\ \A y : Records(y) \subseteq S /\ IsFiniteSet(Records(y))
  <2>1. \A y : Records(y) \subseteq S
    BY DEF Records
  <2> QED BY <2>1, FS_Subset, YearsAreApart DEF SInv
<1>3. Ints(one, S) /\ Ints(gain, S) /\ \A y : Ints(gain, Records(y))
  <2>1. \A s \in S : s.gain \in Int
    BY DEF SInv, IInv, TypeOK, SliceType
  <2> QED BY <1>2, <2>1 DEF Ints
<1>4. RecordsOver(Years) = SumOf(count, Years)
  BY RecordsOverSum
<1>5. \A y \in Years : count[y] = SumOf(one, ByKey(S, RecordYear, y))
  <2> SUFFICES ASSUME NEW y \in Years PROVE count[y] = SumOf(one, Records(y))
    BY RecordYears
  <2>1. \A s \in Records(y) : one[s] = 1
    BY <1>2
  <2> HIDE DEF one
  <2>2. SumOf(one, Records(y)) = Cardinality(Records(y))
    BY <1>2, <2>1, SumOnes
  <2> QED BY <2>2
<1>6. SumOf(one, S) = Cardinality(S)
  BY <1>2, SumOnes
<1>7. \A y : NetGain(Records(y)) = SumOf(gain, Records(y))
  <2> SUFFICES ASSUME NEW y PROVE NetGain(Records(y)) = SumOf(gain, Records(y))
    OBVIOUS
  <2> DEFINE g == [s \in Records(y) |-> s.gain]
  <2>1. NetGain(Records(y)) = SumOf(g, Records(y))
    BY NetIsSum
  <2>2. \A s \in Records(y) : gain[s] = g[s]
    BY <1>2
  <2> HIDE DEF gain, g
  <2>3. SumOf(gain, Records(y)) = SumOf(g, Records(y))
    BY <1>3, <2>2, SumSame
  <2> QED BY <2>1, <2>3
<1>8. \A s \in S : RecordYear[s] \in Years
  BY RecordYears
<1>9. \A s \in S : RecordYear[s] \in D
  BY RecordYears DEF ByKey
<1>10. \A y \in D : engine[y] = SumOf(gain, ByKey(S, RecordYear, y))
  BY <1>7, RecordYears
<1>11. ChartTotal(engine) = SumOf(engine, D)
  BY DEF ChartTotal, Total, SumOf
<1>12. GainsIn(S) = SumOf(gain, S)
  BY GainsSum
<1>13. ASSUME NEW y \in D PROVE ChartTotal(GainChart(y, y.last)) = NetGain(Records(y))
  <2> DEFINE R == Records(y)
             date == [s \in R |-> ledger[s.txn].date]
             g == [s \in R |-> s.gain]
  <2>1. {s \in R : ledger[s.txn].date <= ChartTo(y, y.last)} = R
    <3>1. y.first \in Int /\ y.last \in Int
      BY YearsAreTyped
    <3>2. ChartTo(y, y.last) = y.last
      BY <3>1 DEF ChartTo, Smaller
    <3>3. \A s \in R : ledger[s.txn].date <= y.last
      BY <3>1 DEF Records
    <3> QED BY <3>2, <3>3
  <2>2. GainChart(y, y.last) = SumByMonth(date, g)
    BY <2>1 DEF GainChart
  <2>3. Ints(g, R) /\ NetGain(R) = SumOf(g, R)
    BY ComputationSums, NetIsSum
  <2>4. DOMAIN date = R
    OBVIOUS
  <2> HIDE DEF R, date, g
  <2>5. ChartTotal(SumByMonth(date, g)) = SumOf(g, R)
    BY <2>3, <2>4, ChartSum
  <2> QED BY <2>2, <2>3, <2>5 DEF R
<1>14. DOMAIN engine = D /\ \A y \in D : engine[y] = NetGain(Records(y))
  OBVIOUS
<1> HIDE DEF S, D, engine, one, gain, count
<1>15. SumOf(count, Years) = SumOf(one, S)
  BY <1>2, <1>3, <1>5, <1>8, SumByKey
<1>16. SumOf(engine, D) = SumOf(gain, S)
  BY <1>2, <1>3, <1>9, <1>10, SumByKey
<1> QED BY <1>1, <1>4, <1>6, <1>11, <1>12, <1>13, <1>14, <1>15, <1>16 DEF S

-----------------------------------------------------------------------------
(* Costs.  What an acquisition costs is allowed to the slices that draw on *)
(* it and, for the shares they leave, enters the pool when the loop takes  *)
(* it; what enters the pool stays there or is allowed to a pool slice.     *)
EnteredOf ==
  [t \in Ids |-> IF IsAcquisition(t) THEN RoundDiv(remaining[t] * CostPaid(t), ledger[t].quantity)
                                     ELSE 0]
Allowable == [s \in SliceType |-> s.allowable]
OnlyBought == \A t \in Ids : Priced(t) /\ ledger[t].type \notin {"CAPRETURN", "RIGHTS_ISSUE"}

CostedSlices ==
  \A s \in disposals :
    s.acq # NoTxn =>
      /\ s.acq \in Acquisitions
      /\ s.allowable = RoundDiv(s.quantity * CostPaid(s.acq), ledger[s.acq].quantity)
PoolCosts ==
  OnlyBought => pool.cost + SumOf(Allowable, PoolSlices) = SumOf(EnteredOf, Ids \ pending)

CInv ==
  /\ PInv /\ FInv /\ ledger \in Ledgers
  /\ SoldSlices /\ CostedSlices /\ PoolCosts

LEMMA CostSets ==
  ASSUME SInv
  PROVE  /\ \A S \in SUBSET disposals : Ints(Allowable, S) /\ SumOf(Allowable, S) \in Int
         /\ \A S \in SUBSET Ids : Ints(EnteredOf, S) /\ SumOf(EnteredOf, S) \in Int
         /\ PoolSlices \in SUBSET disposals /\ pool.cost \in Int
<1>1. ASSUME NEW S \in SUBSET disposals PROVE Ints(Allowable, S)
  <2>1. IsFiniteSet(S) /\ S \subseteq SliceType
    BY FS_Subset DEF SInv, IInv, TypeOK
  <2>2. \A s \in S : Allowable[s] = s.allowable /\ s.allowable \in Int
    BY <2>1 DEF Allowable, SliceType
  <2> QED BY <2>1, <2>2 DEF Ints
<1>2. ASSUME NEW t \in Ids PROVE EnteredOf[t] \in Int
  <2>1. remaining[t] \in Int /\ CostPaid(t) \in Int /\ ledger[t].quantity \in Nat \ {0}
    BY CostTypes DEF SInv, IInv, TypeOK
  <2> DEFINE c == remaining[t] * CostPaid(t)
  <2>2. c \in Int
    BY <2>1
  <2> HIDE DEF c
  <2>3. RoundDiv(c, ledger[t].quantity) \in Int
    BY <2>1, <2>2, RoundDivInt
  <2> QED BY <2>3 DEF EnteredOf, c
<1>3. ASSUME NEW S \in SUBSET Ids PROVE Ints(EnteredOf, S)
  BY <1>2, FS_Subset, IdsAreNumbers DEF Ints
<1> QED BY <1>1, <1>3, SumInt DEF PoolSlices, SInv, IInv, TypeOK

LEMMA LedgerSame ==
  ASSUME ledger' = ledger
  PROVE  /\ OnlyBought' = OnlyBought /\ Acquisitions' = Acquisitions
         /\ \A t : /\ IsAcquisition(t)' = IsAcquisition(t) /\ IsDisposal(t)' = IsDisposal(t)
                   /\ CostPaid(t)' = CostPaid(t)
<1>1. \A t : /\ IsAcquisition(t)' = IsAcquisition(t) /\ IsDisposal(t)' = IsDisposal(t)
             /\ Priced(t)' = Priced(t)
  BY DEF IsAcquisition, IsDisposal, Priced
<1>2. \A t : CostPaid(t)' = CostPaid(t)
  BY MoneyKept
<1>3. OnlyBought' = OnlyBought /\ Acquisitions' = Acquisitions
  BY <1>1 DEF OnlyBought, Acquisitions
<1> QED BY <1>1, <1>2, <1>3

(* A pool slice takes its allowable cost out of the pool.                  *)
LEMMA PoolPays ==
  ASSUME SInv, NEW s, Identifies(s), FromPool(s)
  PROVE  pool'.cost = pool.cost - s.allowable
<1> DEFINE over == PoolCostOf(pool, toMatch)
           c == pool.cost
           one == 1
<1>1. /\ s = Slice(cur, s.matchType, NoTxn, s.quantity, over, one)
      /\ pool' = DisposeFromPool(pool, toMatch)
      /\ toMatch \in Nat \ {0} /\ toMatch <= pool.quantity /\ c \in Int
      /\ pool \in [quantity : Nat, cost : Nat]
  BY IdentifiesTypes DEF FromPool, SInv, IInv, TypeOK
<1>2. over \in Nat
  BY <1>1, PoolCostBound
<1>3. s.allowable = over
  <2>1. s.allowable = RoundDiv(over, one)
    <3> HIDE DEF over, one
    <3> QED BY <1>1 DEF Slice
  <2> HIDE DEF over
  <2>2. RoundDiv(over * one, one) = over
    <3>1. one \in Nat \ {0}
      OBVIOUS
    <3> HIDE DEF one
    <3> QED BY <1>2, <3>1, RoundDivWhole
  <2> QED BY <1>2, <2>1, <2>2
<1>4. CASE pool.quantity = toMatch
  <2>1. over = RoundDiv(c * toMatch, toMatch)
    BY <1>4 DEF PoolCostOf
  <2> HIDE DEF c, over
  <2>2. over = c
    BY <1>1, <2>1, RoundDivWhole
  <2> QED BY <1>1, <1>3, <1>4, <2>2 DEF DisposeFromPool, c
<1>5. CASE pool.quantity # toMatch
  BY <1>1, <1>3, <1>5 DEF DisposeFromPool
<1> QED BY <1>4, <1>5

LEMMA IdentifiesCosts ==
  ASSUME CInv, PInv', FInv', NEW s, Identifies(s)
  PROVE  CInv'
<1>1. /\ SInv /\ PInv /\ TypeOK
      /\ s \in SliceType /\ s.quantity \in Nat \ {0} /\ s.txn = cur
      /\ cur \in Ids /\ cur # NoTxn /\ s \notin disposals
      /\ disposals' = disposals \cup {s}
      /\ ledger' = ledger /\ pending' = pending
      /\ s.acq # NoTxn => s.acq \in Ids /\ FromAcquisition(s)
      /\ s.acq = NoTxn => FromPool(s)
  BY IdentifiesTypes, IdsAreNumbers DEF CInv, PInv, SInv, IInv
<1>2. SoldSlices'
  <2>1. IsDisposal(cur)
    BY <1>1 DEF SInv, InHand
  <2>2. \A x \in disposals' : x \in disposals \/ x = s
    BY <1>1
  <2>3. \A t : IsDisposal(t)' = IsDisposal(t)
    BY <1>1, LedgerSame
  <2> QED BY <1>1, <2>1, <2>2, <2>3 DEF CInv, SoldSlices
<1>3. s.acq # NoTxn =>
        /\ s.acq \in Acquisitions
        /\ s.allowable = RoundDiv(s.quantity * CostPaid(s.acq), ledger[s.acq].quantity)
  <2> SUFFICES ASSUME s.acq # NoTxn
               PROVE  /\ s.acq \in Acquisitions
                      /\ s.allowable = RoundDiv(s.quantity * CostPaid(s.acq), ledger[s.acq].quantity)
    OBVIOUS
  <2> DEFINE over == MatchedCostOver(s.acq, s.quantity)
             parts == ledger[s.acq].quantity
  <2>1. s.acq \in Acquisitions /\ s = Slice(cur, s.matchType, s.acq, s.quantity, over, parts)
    BY <1>1 DEF FromAcquisition
  <2>2. over = s.quantity * CostPaid(s.acq)
    BY <1>1, <2>1, CostOver
  <2> HIDE DEF over, parts
  <2>3. s.allowable = RoundDiv(over, parts)
    BY <2>1 DEF Slice
  <2> QED BY <2>1, <2>2, <2>3 DEF parts
<1>4. CostedSlices'
  <2> SUFFICES ASSUME NEW x \in disposals', x.acq # NoTxn
               PROVE  /\ x.acq \in Acquisitions'
                      /\ x.allowable = RoundDiv(x.quantity * CostPaid(x.acq)', ledger'[x.acq].quantity)
    BY DEF CostedSlices, RoundDiv
  <2>1. x \in disposals \/ x = s
    BY <1>1
  <2>2. /\ x.acq \in Acquisitions
        /\ x.allowable = RoundDiv(x.quantity * CostPaid(x.acq), ledger[x.acq].quantity)
    BY <1>3, <2>1 DEF CInv, CostedSlices
  <2>3. CostPaid(x.acq)' = CostPaid(x.acq) /\ Acquisitions' = Acquisitions
    BY <1>1, LedgerSame
  <2> QED BY <1>1, <2>2, <2>3
<1>5. ASSUME OnlyBought
      PROVE  pool'.cost + SumOf(Allowable, PoolSlices') = SumOf(EnteredOf', Ids \ pending)
  <2> DEFINE Taken == Ids \ pending
             A == PoolSlices
             old == SumOf(Allowable, A)
             e == EnteredOf'
  <2>1. pool.cost + old = SumOf(EnteredOf, Taken)
    BY <1>5 DEF CInv, PoolCosts
  <2>2. old \in Int /\ pool.cost \in Int /\ Ints(EnteredOf, Taken) /\ A \subseteq disposals
    BY <1>1, CostSets
  <2>3. SumOf(e, Taken) = SumOf(EnteredOf, Taken)
    <3>1. \A t \in Ids : t # s.acq => remaining'[t] = remaining[t]
      BY <1>1 DEF FromAcquisition, FromPool, TypeOK
    <3>2. s.acq \notin Taken
      BY <1>1, AcquisitionAhead, IdsAreNumbers
    <3>3. \A t : IsAcquisition(t)' = IsAcquisition(t) /\ CostPaid(t)' = CostPaid(t)
      BY <1>1, LedgerSame
    <3>4. \A t \in Taken : EnteredOf[t] = e[t]
      BY <1>1, <3>1, <3>2, <3>3 DEF EnteredOf, RoundDiv
    <3> HIDE DEF e, Taken
    <3> QED BY <2>2, <3>4, SumSame
  <2>4. CASE s.acq = NoTxn
    <3>1. PoolSlices' = A \cup {s} /\ s \notin A
      BY <1>1, <2>4 DEF PoolSlices
    <3>2. Ints(Allowable, A \cup {s}) /\ Allowable[s] = s.allowable /\ s.allowable \in Int
      <4>1. Ints(Allowable, A)
        BY <1>1, <2>2, CostSets
      <4>2. Allowable[s] = s.allowable /\ s.allowable \in Int
        BY <1>1 DEF Allowable, SliceType
      <4> QED BY <4>1, <4>2, FS_AddElement DEF Ints
    <3> HIDE DEF A
    <3>3. SumOf(Allowable, A \cup {s}) = s.allowable + old
      BY <3>1, <3>2, SumAdd
    <3>4. pool'.cost = pool.cost - s.allowable
      BY <1>1, <2>4, PoolPays
    <3> HIDE DEF old, e
    <3> QED BY <2>1, <2>2, <2>3, <3>1, <3>2, <3>3, <3>4 DEF e
  <2>5. CASE s.acq # NoTxn
    <3>1. PoolSlices' = A
      BY <1>1, <2>5 DEF PoolSlices
    <3>2. pool' = pool
      BY <1>1, <2>5 DEF FromAcquisition
    <3> HIDE DEF A, e
    <3> QED BY <2>1, <2>2, <2>3, <3>1, <3>2 DEF e
  <2> QED BY <2>4, <2>5
<1>6. Allowable' = Allowable
  BY DEF Allowable, SliceType
<1>7. PoolCosts'
  BY <1>1, <1>5, <1>6, LedgerSame DEF PoolCosts
<1> QED BY <1>1, <1>2, <1>4, <1>7 DEF CInv

(* The next transaction, with what it brings into the pool.                *)
LEMMA TakenCosts ==
  ASSUME CInv, PInv', FInv', NEW t \in pending, pending' = pending \ {t},
         UNCHANGED <<ledger, remaining, disposals>>,
         OnlyBought => pool'.cost = pool.cost + EnteredOf[t]
  PROVE  CInv'
<1>1. SInv /\ pending \subseteq Ids
  BY PInvTypes DEF CInv, PInv
<1>2. \A x : IsAcquisition(x)' = IsAcquisition(x) /\ IsDisposal(x)' = IsDisposal(x) /\ CostPaid(x)' = CostPaid(x)
  BY LedgerSame
<1>3. SoldSlices' /\ EnteredOf' = EnteredOf /\ PoolSlices' = PoolSlices /\ Allowable' = Allowable
  BY <1>2 DEF CInv, SoldSlices, EnteredOf, PoolSlices, Allowable, RoundDiv, SliceType
<1>4. CostedSlices'
  <2> SUFFICES ASSUME NEW x \in disposals, x.acq # NoTxn
               PROVE  /\ x.acq \in Acquisitions'
                      /\ x.allowable = RoundDiv(x.quantity * CostPaid(x.acq)', ledger'[x.acq].quantity)
    BY DEF CostedSlices, RoundDiv
  <2>1. CostPaid(x.acq)' = CostPaid(x.acq) /\ Acquisitions' = Acquisitions
    BY LedgerSame
  <2> QED BY <2>1 DEF CInv, CostedSlices
<1>5. PoolCosts'
  <2> SUFFICES ASSUME OnlyBought
               PROVE  pool'.cost + SumOf(Allowable, PoolSlices) = SumOf(EnteredOf, Ids \ pending')
    BY <1>3, LedgerSame DEF PoolCosts
  <2> DEFINE Taken == Ids \ pending
             old == SumOf(Allowable, PoolSlices)
             e == EnteredOf
  <2>1. Ids \ pending' = Taken \cup {t} /\ t \notin Taken /\ Taken \cup {t} \subseteq Ids
    BY <1>1
  <2>2. pool.cost + old = SumOf(e, Taken)
    BY DEF CInv, PoolCosts
  <2>3. Ints(e, Taken \cup {t}) /\ SumOf(e, Taken) \in Int /\ pool.cost \in Int /\ old \in Int
    BY <1>1, <2>1, CostSets
  <2>4. e[t] \in Int
    BY <2>3 DEF Ints
  <2> HIDE DEF Taken, e, old
  <2>5. SumOf(e, Taken \cup {t}) = e[t] + SumOf(e, Taken)
    BY <2>1, <2>3, SumAdd
  <2>6. SumOf(e, Ids \ pending') = SumOf(e, Taken \cup {t})
    BY <2>1
  <2>7. pool'.cost = pool.cost + e[t]
    BY DEF e
  <2>8. pool'.cost + old = SumOf(e, Taken \cup {t})
    BY <2>2, <2>3, <2>4, <2>5, <2>7
  <2> QED BY <2>6, <2>8 DEF e, old
<1> QED BY <1>3, <1>4, <1>5 DEF CInv

LEMMA OtherCosts ==
  ASSUME CInv, PInv', FInv', NEW t \in Ids,
         \/ TakeDisposal(t) \/ TakeAcquisition(t) \/ TakeSplit(t) \/ TakeUnsplit(t)
         \/ TakeCapReturn(t) \/ TakeRightsIssue(t) \/ TakeIgnored(t)
  PROVE  CInv'
<1>1. /\ t \in pending /\ pending' = pending \ {t} /\ UNCHANGED <<ledger, remaining, disposals>>
      /\ TypeOK /\ pool.cost \in Int
  BY PInvTypes DEF TakeDisposal, TakeAcquisition, TakeSplit, TakeUnsplit, TakeCapReturn,
     TakeRightsIssue, TakeIgnored, TakeOther, IsNext, IsFirst, CInv, TypeOK
<1>2. ASSUME OnlyBought PROVE pool'.cost = pool.cost + EnteredOf[t]
  <2>1. CASE TakeAcquisition(t)
    <3> DEFINE cost == MatchedAcquisitionCost(t, remaining[t])
    <3>1. /\ t \in Acquisitions /\ ledger[t].given /\ remaining[t] \in Nat
          /\ ledger[t].quantity \in Nat \ {0}
      BY <1>1, <1>2, <2>1, CostTypes DEF TakeAcquisition, Acquisitions, OnlyBought, Priced, TypeOK
    <3>2. CostPaid(t) \in Int /\ cost = RoundDiv(remaining[t] * CostPaid(t), ledger[t].quantity)
      BY <1>1, <3>1, CostOver
    <3>3. EnteredOf[t] = cost
      BY <3>1, <3>2 DEF EnteredOf, Acquisitions
    <3>4. CASE remaining[t] > 0
      <4>1. pool' = AddToPool(pool, remaining[t], cost)
        BY <2>1, <3>1, <3>4 DEF TakeAcquisition, TakeOther
      <4> HIDE DEF cost
      <4> QED BY <3>3, <4>1 DEF AddToPool
    <3>5. CASE remaining[t] = 0
      <4>1. pool' = pool
        BY <2>1, <3>5 DEF TakeAcquisition, TakeOther
      <4>2. cost = 0
        <5> DEFINE z == 0
                   q == ledger[t].quantity
        <5>1. remaining[t] * CostPaid(t) = z * q /\ z \in Int /\ q \in Nat \ {0}
          BY <3>1, <3>2, <3>5
        <5> HIDE DEF z, q
        <5>2. RoundDiv(z * q, q) = z
          BY <5>1, RoundDivWhole
        <5> QED BY <3>2, <5>1, <5>2 DEF z, q
      <4> QED BY <1>1, <3>3, <4>1, <4>2
    <3> QED BY <3>1, <3>4, <3>5
  <2>2. CASE ~TakeAcquisition(t)
    <3>1. ledger[t].type \notin {"CAPRETURN", "RIGHTS_ISSUE"}
      BY <1>2 DEF OnlyBought
    <3>2. ~IsAcquisition(t)
      BY <2>2 DEF TakeDisposal, TakeSplit, TakeUnsplit, TakeCapReturn, TakeRightsIssue, TakeIgnored,
         IsAcquisition, IsDisposal, AcquisitionTypes, DisposalTypes, PoolEventTypes
    <3>3. pool'.cost = pool.cost
      BY <1>1, <2>2, <3>1 DEF TakeDisposal, TakeSplit, TakeUnsplit, TakeCapReturn, TakeRightsIssue,
         TakeIgnored, TakeOther, ApplyStockSplit, TypeOK
    <3> QED BY <1>1, <3>2, <3>3 DEF EnteredOf
  <2> QED BY <2>1, <2>2
<1> QED BY <1>1, <1>2, TakenCosts

LEMMA InitCInv == Init => CInv
<1> SUFFICES ASSUME Init PROVE CInv
  OBVIOUS
<1>1. PInv /\ SInv /\ disposals = {} /\ ledger \in Ledgers /\ pool.cost = 0 /\ Ids \ pending = {}
  BY InitPInv, InitSInv DEF Init, EmptyPool
<1>2. FInv /\ SoldSlices /\ CostedSlices /\ PoolSlices = {}
  BY <1>1 DEF FInv, SoldSlices, CostedSlices, PoolSlices
<1>3. PoolCosts
  BY <1>1, <1>2, SumEmpty DEF PoolCosts
<1> QED BY <1>1, <1>2, <1>3 DEF CInv

LEMMA NextCInv == CInv /\ [Next]_vars => CInv'
<1> SUFFICES ASSUME CInv, [Next]_vars PROVE CInv'
  OBVIOUS
<1>1. PInv' /\ FInv'
  BY NextPInv, NextFInv DEF CInv
<1>2. CASE MatchSameDay \/ MatchThirtyDay \/ MatchPool
  <2>1. PICK s : Identifies(s)
    BY <1>2, MatchIdentifies, PInvTypes DEF CInv
  <2> QED BY <1>1, <2>1, IdentifiesCosts
<1>3. ASSUME RejectDisposal \/ EndDisposal \/ UNCHANGED vars PROVE CInv'
  <2>1. UNCHANGED <<ledger, pending, remaining, pool, disposals>>
    BY <1>3 DEF RejectDisposal, EndDisposal, vars
  <2>2. /\ OnlyBought' = OnlyBought /\ Acquisitions' = Acquisitions
        /\ \A t : /\ IsAcquisition(t)' = IsAcquisition(t) /\ IsDisposal(t)' = IsDisposal(t)
                  /\ CostPaid(t)' = CostPaid(t)
    BY <2>1, LedgerSame
  <2>3. SoldSlices' /\ EnteredOf' = EnteredOf /\ PoolSlices' = PoolSlices /\ Allowable' = Allowable
    BY <2>1, <2>2 DEF CInv, SoldSlices, EnteredOf, PoolSlices, Allowable, RoundDiv, SliceType
  <2>4. CostedSlices'
    <3> SUFFICES ASSUME NEW x \in disposals, x.acq # NoTxn
                 PROVE  /\ x.acq \in Acquisitions'
                        /\ x.allowable = RoundDiv(x.quantity * CostPaid(x.acq)', ledger'[x.acq].quantity)
      BY <2>1 DEF CostedSlices, RoundDiv
    <3> QED BY <2>1, <2>2 DEF CInv, CostedSlices
  <2>5. PoolCosts'
    BY <2>1, <2>2, <2>3 DEF CInv, PoolCosts
  <2> QED BY <1>1, <2>1, <2>3, <2>4, <2>5 DEF CInv
<1>4. ASSUME NEW t \in Ids,
             \/ TakeDisposal(t) \/ TakeAcquisition(t) \/ TakeSplit(t) \/ TakeUnsplit(t)
             \/ TakeCapReturn(t) \/ TakeRightsIssue(t) \/ TakeIgnored(t)
      PROVE  CInv'
  BY <1>1, <1>4, OtherCosts
<1> QED BY <1>2, <1>3, <1>4 DEF Next, Step

(* Terms within a bound make a sum within as many of it.                   *)
LEMMA SumWithin ==
  ASSUME NEW f, NEW S, Ints(f, S), NEW b \in Nat, \A x \in S : Within(f[x], b)
  PROVE  Within(SumOf(f, S), b * Cardinality(S))
<1> DEFINE bad == {s \in SUBSET S : ~Within(SumOf(f, s), b * Cardinality(s))}
<1>1. \A s \in SUBSET S : IsFiniteSet(s) /\ Ints(f, s)
  BY FS_Subset DEF Ints
<1>2. bad = {}
  <2> SUFFICES ASSUME bad # {} PROVE FALSE
    OBVIOUS
  <2>1. PICK s \in bad : \A z \in s : s \ {z} \notin bad
    <3>1. \A s \in bad : IsFiniteSet(s)
      BY <1>1
    <3> HIDE DEF bad
    <3> QED BY <3>1, Smallest
  <2>2. s # {}
    <3>1. Cardinality({}) = 0
      BY FS_EmptySet
    <3> QED BY <3>1, SumEmpty DEF Within
  <2>3. PICK p : p \in s
    BY <2>2
  <2> DEFINE t == s \ {p}
             m == Cardinality(t)
             n == Cardinality(s)
  <2>4. t \in SUBSET S /\ p \in S /\ Within(SumOf(f, t), b * m)
    BY <2>1, <2>3
  <2>5. SumOf(f, s) = f[p] + SumOf(f, t) /\ SumOf(f, t) \in Int
    BY <1>1, <2>3, SumRemove, SumInt
  <2>6. n \in Nat /\ m \in Nat /\ n = m + 1
    BY <1>1, <2>3, Without
  <2>7. f[p] \in Int /\ Within(f[p], b)
    BY <2>4 DEF Ints
  <2> HIDE DEF t, m, n
  <2>8. b * n = b * m + b /\ b * m \in Int
    BY <2>6
  <2>9. Within(SumOf(f, s), b * n)
    BY <2>4, <2>5, <2>7, <2>8 DEF Within
  <2> QED BY <2>9 DEF n
<1>3. Within(SumOf(f, S), b * Cardinality(S))
  BY <1>2
<1> QED BY <1>3

(* What an acquisition cost is allowed or entered, up to a unit a slice.   *)
LEMMA AcquisitionAllowed ==
  ASSUME CInv, NEW a \in Acquisitions
  PROVE  Within(CostPaid(a) - EnteredOf[a] - SumOf(Allowable, SlicesFrom(a)), Cardinality(SlicesFrom(a)))
<1> DEFINE S == SlicesFrom(a)
           n == Cardinality(S)
           q == ledger[a].quantity
           c == CostPaid(a)
           r == remaining[a]
           E == RoundDiv(r * c, q)
           A == SumOf(Allowable, S)
           share == [s \in S |-> s.quantity]
           paid == [s \in S |-> c * share[s]]
           whole == [s \in S |-> q * Allowable[s]]
           e == [s \in S |-> whole[s] - paid[s]]
           e2 == [s \in S |-> 2 * e[s]]
           H == SumOf(share, S)
<1>1. /\ SInv /\ TypeOK /\ a \in Ids /\ IsAcquisition(a) /\ a # NoTxn
      /\ q \in Nat \ {0} /\ c \in Nat /\ r \in Nat /\ S \subseteq disposals
  <2>1. SInv /\ TypeOK /\ a \in Ids /\ IsAcquisition(a) /\ a # NoTxn /\ S \subseteq disposals
    BY IdsAreNumbers DEF CInv, PInv, SInv, IInv, Acquisitions, SlicesFrom
  <2>2. q \in Nat \ {0} /\ r \in Nat
    BY <2>1, CostTypes DEF TypeOK
  <2>3. c \in Nat
    <3>1. q \in Nat
      BY <2>2
    <3> QED BY <2>1, <3>1, CostOver
  <2> QED BY <2>1, <2>2, <2>3
<1>2. Ints(Allowable, S) /\ A \in Int /\ IsFiniteSet(S) /\ n \in Nat
  BY <1>1, CostSets, FS_CardinalityType DEF Ints
<1>3. \A s \in S : /\ s.quantity \in Nat /\ Allowable[s] = s.allowable /\ s.allowable \in Int
                   /\ s.allowable = RoundDiv(s.quantity * c, q)
  BY <1>1 DEF CInv, CostedSlices, SlicesFrom, TypeOK, SliceType, Allowable
<1>4. EnteredOf[a] = E
  BY <1>1 DEF EnteredOf
<1>5. H + r = q
  BY <1>1, SharesSum DEF SInv, AcquiredShares
<1> HIDE DEF c, q, r
<1>6. Ints(share, S) /\ Ints(paid, S) /\ Ints(whole, S) /\ Ints(e, S) /\ Ints(e2, S)
  BY <1>1, <1>2, <1>3 DEF Ints
<1>7. \A s \in S : Within(e2[s], q)
  <2> SUFFICES ASSUME NEW s \in S PROVE Within(e2[s], q)
    OBVIOUS
  <2> DEFINE m == s.quantity * c
  <2>1. m \in Int /\ e2[s] = 2 * (q * RoundDiv(m, q)) - 2 * m
    <3>1. s.quantity * c = c * s.quantity /\ s.quantity * c \in Int
      BY <1>1, <1>3
    <3>2. e2[s] = 2 * (q * s.allowable - c * s.quantity)
      BY <1>3
    <3>3. q * s.allowable \in Int
      BY <1>1, <1>3
    <3> HIDE DEF e2
    <3> QED BY <1>3, <3>1, <3>2, <3>3
  <2> HIDE DEF m, e2
  <2> QED BY <1>1, <2>1, RoundDivNear DEF Within
<1>8. /\ \A s \in S : paid[s] = c * share[s]
      /\ \A s \in S : whole[s] = q * Allowable[s]
      /\ \A s \in S : e[s] = whole[s] - paid[s]
      /\ \A s \in S : e2[s] = 2 * e[s]
  OBVIOUS
<1> HIDE DEF share, paid, whole, e, e2, E
<1>9. SumOf(paid, S) = c * H /\ SumOf(whole, S) = q * A /\ SumOf(e2, S) = 2 * SumOf(e, S)
  <2>1. c \in Int /\ q \in Int
    BY <1>1
  <2> HIDE DEF S
  <2>2. SumOf(paid, S) = c * H
    BY <1>6, <1>8, <2>1, SumTimes
  <2>3. SumOf(whole, S) = q * A
    BY <1>2, <1>8, <2>1, SumTimes
  <2>4. SumOf(e2, S) = 2 * SumOf(e, S)
    BY <1>6, <1>8, SumTimes
  <2> QED BY <2>2, <2>3, <2>4
<1>10. SumOf(e, S) = q * A - c * H /\ H \in Int
  <2> HIDE DEF S
  <2> QED BY <1>6, <1>8, <1>9, SumLess, SumInt
<1>11. Within(2 * (q * A - c * H), q * n)
  <2>1. q \in Nat
    BY <1>1
  <2> HIDE DEF S
  <2> QED BY <1>6, <1>7, <1>9, <1>10, <2>1, SumWithin DEF n
<1>12. CASE n = 0
  <2>1. S = {}
    BY <1>2, <1>12, FS_EmptySet
  <2>2. A = 0 /\ H = 0
    BY <2>1, SumEmpty
  <2>3. r = q
    BY <1>1, <1>5, <2>2
  <2>4. E = c
    <3>1. c \in Int /\ r * c = c * q
      BY <1>1, <2>3
    <3> QED BY <1>1, <3>1, RoundDivWhole DEF E
  <2> QED BY <1>1, <1>4, <1>12, <2>2, <2>4 DEF Within, c
<1>13. CASE n # 0
  <2> DEFINE d == c - E - A
  <2>1. E \in Int /\ Within(2 * (q * E) - 2 * (r * c), q)
    <3> DEFINE m == r * c
    <3>1. m \in Int
      BY <1>1
    <3> HIDE DEF m
    <3>2. E = RoundDiv(m, q)
      BY DEF E, m
    <3>3. E \in Int /\ Within(2 * (q * E) - 2 * m, q)
      BY <1>1, <3>1, <3>2, RoundDivInt, RoundDivNear DEF Within
    <3> QED BY <3>3 DEF m
  <2> HIDE DEF H, A, S, n
  <2>2. c * q = c * H + r * c /\ c * H \in Int /\ r * c \in Int
    <3>1. c * (H + r) = c * H + r * c
      BY <1>1, <1>10
    <3> QED BY <1>1, <1>5, <1>10, <3>1
  <2>3. q * d = c * q - q * E - q * A /\ q * E \in Int /\ q * A \in Int /\ d \in Int
    BY <1>1, <1>2, <2>1
  <2> DEFINE qd == q * d
  <2>4. qd \in Int /\ Within(2 * qd, q * n + q)
    <3> DEFINE qE == q * E
               qA == q * A
               cH == c * H
               rc == r * c
               qn == q * n
    <3>1. qE \in Int /\ qA \in Int /\ cH \in Int /\ rc \in Int /\ qn \in Int /\ q \in Int
      BY <1>1, <1>2, <2>2, <2>3
    <3>2. qd = cH + rc - qE - qA /\ Within(2 * (qA - cH), qn) /\ Within(2 * qE - 2 * rc, q)
      BY <1>11, <2>1, <2>2, <2>3
    <3> HIDE DEF qd, qE, qA, cH, rc, qn
    <3>3. Within(2 * qd, qn + q)
      BY <3>1, <3>2 DEF Within
    <3> QED BY <3>1, <3>2, <3>3 DEF qn
  <2> HIDE DEF d
  <2>5. d <= n
    <3> SUFFICES ASSUME d >= n + 1 PROVE FALSE
      BY <1>2, <2>3
    <3>1. q * d >= q * n + q
      <4>1. q * d >= q * (n + 1)
        BY <1>1, <1>2, <2>3
      <4> QED BY <1>1, <1>2, <2>3, <4>1
    <3>2. q * n + q > 0
      BY <1>1, <1>2
    <3> QED BY <1>1, <1>2, <2>4, <3>1, <3>2 DEF Within
  <2>6. -n <= d
    <3> SUFFICES ASSUME -d >= n + 1 PROVE FALSE
      BY <1>2, <2>3
    <3>1. -(q * d) >= q * n + q
      <4>1. q * (-d) >= q * (n + 1)
        BY <1>1, <1>2, <2>3
      <4>2. q * (-d) = -(q * d) /\ q * (n + 1) = q * n + q
        BY <1>1, <1>2, <2>3
      <4> QED BY <4>1, <4>2
    <3>2. q * n + q > 0
      BY <1>1, <1>2
    <3> QED BY <1>1, <1>2, <2>4, <3>1, <3>2 DEF Within
  <2> QED BY <1>4, <2>5, <2>6 DEF Within, d, c, A, n, S
<1> QED BY <1>12, <1>13

(* No cost is lost: what was paid is allowed or in the pool, up to a unit  *)
(* a slice.                                                                *)
PaidFor == [a \in Acquisitions |-> CostPaid(a)]

LEMMA CostsConserved ==
  ASSUME CInv, pending = {}, OnlyBought
  PROVE  /\ SumOf(PaidFor, Acquisitions) \in Int
         /\ Within(SumOf(PaidFor, Acquisitions) - SumOf(Allowable, disposals) - pool.cost,
                   Cardinality(disposals))
<1> DEFINE A == Acquisitions
           B == Ids \ A
           P == PoolSlices
           M == disposals \ P
           key == [s \in M |-> s.acq]
           one == [s \in M |-> 1]
           count == [a \in A |-> Cardinality(SlicesFrom(a))]
           less == [a \in A |-> (-1) * count[a]]
           allowed == [a \in A |-> SumOf(Allowable, SlicesFrom(a))]
           rest == [a \in A |-> PaidFor[a] - EnteredOf[a]]
           d == [a \in A |-> rest[a] - allowed[a]]
<1>1. /\ SInv /\ TypeOK /\ A \subseteq Ids /\ IsFiniteSet(A) /\ IsFiniteSet(disposals)
      /\ IsFiniteSet(M) /\ P \subseteq disposals
  <2>1. SInv /\ TypeOK /\ A \subseteq Ids /\ IsFiniteSet(disposals) /\ P \subseteq disposals
    BY DEF CInv, PInv, SInv, IInv, Acquisitions, PoolSlices
  <2> QED BY <2>1, FS_Subset, IdsAreNumbers
<1>2. \A s \in M : key[s] \in A
  BY DEF PoolSlices, CInv, CostedSlices
<1>3. \A a \in A : ByKey(M, key, a) = SlicesFrom(a)
  BY <1>1, IdsAreNumbers DEF ByKey, SlicesFrom, PoolSlices
<1>4. \A a \in A : SlicesFrom(a) \in SUBSET disposals /\ IsFiniteSet(SlicesFrom(a))
  BY <1>1, FS_Subset DEF SlicesFrom
<1>5. /\ Ints(Allowable, M) /\ Ints(Allowable, disposals) /\ disposals = M \cup P /\ M \cap P = {}
      /\ SumOf(Allowable, M) \in Int /\ SumOf(Allowable, P) \in Int
  BY <1>1, CostSets
<1>6. \A a \in A : /\ count[a] = SumOf(one, ByKey(M, key, a)) /\ count[a] \in Nat
                   /\ allowed[a] = SumOf(Allowable, ByKey(M, key, a))
  <2> SUFFICES ASSUME NEW a \in A
               PROVE  /\ count[a] = SumOf(one, ByKey(M, key, a)) /\ count[a] \in Nat
                      /\ allowed[a] = SumOf(Allowable, ByKey(M, key, a))
    OBVIOUS
  <2>1. ByKey(M, key, a) = SlicesFrom(a) /\ IsFiniteSet(SlicesFrom(a))
    BY <1>3, <1>4
  <2>2. \A s \in ByKey(M, key, a) : one[s] = 1
    BY DEF ByKey
  <2> DEFINE W == ByKey(M, key, a)
  <2>3. SumOf(one, W) = Cardinality(W)
    <3> HIDE DEF W, one
    <3> QED BY <2>1, <2>2, SumOnes DEF W
  <2> HIDE DEF one, key, M
  <2> QED BY <2>1, <2>3, FS_CardinalityType
<1>7. Ints(one, M) /\ SumOf(one, M) = Cardinality(M)
  <2>1. Ints(one, M) /\ \A s \in M : one[s] = 1
    BY <1>1 DEF Ints
  <2> HIDE DEF one, M
  <2> QED BY <1>1, <2>1, SumOnes
<1>8. Cardinality(M) <= Cardinality(disposals) /\ Cardinality(M) \in Nat /\ Cardinality(disposals) \in Nat
  BY <1>1, FS_Subset, FS_CardinalityType
<1>9. \A a \in A : PaidFor[a] \in Int /\ EnteredOf[a] \in Int /\ allowed[a] \in Int
  <2> SUFFICES ASSUME NEW a \in A PROVE PaidFor[a] \in Int /\ EnteredOf[a] \in Int /\ allowed[a] \in Int
    OBVIOUS
  <2>1. PaidFor[a] \in Int
    BY <1>1, CostTypes DEF PaidFor
  <2>2. EnteredOf[a] \in Int
    <3>1. Ints(EnteredOf, Ids)
      BY <1>1, CostSets
    <3> QED BY <1>1, <3>1 DEF Ints
  <2>3. SumOf(Allowable, SlicesFrom(a)) \in Int
    BY <1>1, <1>4, CostSets
  <2> QED BY <2>1, <2>2, <2>3
<1>10. \A a \in A : Within(d[a], count[a])
  BY AcquisitionAllowed DEF PaidFor
<1>11. /\ Ints(PaidFor, A) /\ Ints(EnteredOf, A) /\ Ints(count, A) /\ Ints(less, A)
       /\ Ints(allowed, A) /\ Ints(rest, A) /\ Ints(d, A)
  <2>1. \A a \in A : /\ count[a] \in Int /\ less[a] \in Int /\ rest[a] \in Int /\ d[a] \in Int
                     /\ allowed[a] \in Int /\ PaidFor[a] \in Int /\ EnteredOf[a] \in Int
    <3> SUFFICES ASSUME NEW a \in A
                 PROVE  /\ count[a] \in Int /\ less[a] \in Int /\ rest[a] \in Int /\ d[a] \in Int
                        /\ allowed[a] \in Int /\ PaidFor[a] \in Int /\ EnteredOf[a] \in Int
      OBVIOUS
    <3>1. less[a] = (-1) * count[a] /\ rest[a] = PaidFor[a] - EnteredOf[a] /\ d[a] = rest[a] - allowed[a]
      OBVIOUS
    <3> HIDE DEF count, less, rest, d, allowed, A
    <3>2. count[a] \in Int /\ allowed[a] \in Int /\ PaidFor[a] \in Int /\ EnteredOf[a] \in Int
      <4>1. count[a] \in Nat
        BY <1>6
      <4> QED BY <1>9, <4>1
    <3>3. rest[a] \in Int
      BY <3>1, <3>2
    <3>4. d[a] \in Int /\ less[a] \in Int
      BY <3>1, <3>2, <3>3
    <3> QED BY <3>2, <3>3, <3>4
  <2> HIDE DEF A, count, less, rest, d, allowed
  <2> QED BY <1>1, <2>1 DEF Ints
<1>12. /\ \A a \in A : rest[a] = PaidFor[a] - EnteredOf[a]
       /\ \A a \in A : d[a] = rest[a] - allowed[a]
       /\ \A a \in A : less[a] = (-1) * count[a]
       /\ \A a \in A : d[a] <= count[a] /\ less[a] <= d[a]
  <2>1. /\ \A a \in A : rest[a] = PaidFor[a] - EnteredOf[a]
        /\ \A a \in A : d[a] = rest[a] - allowed[a]
        /\ \A a \in A : less[a] = (-1) * count[a]
    OBVIOUS
  <2> HIDE DEF A, rest, d, less, count, allowed
  <2>2. \A a \in A : d[a] <= count[a] /\ less[a] <= d[a]
    BY <1>6, <1>10, <1>11, <2>1 DEF Within, Ints
  <2> QED BY <2>1, <2>2
<1>13. SumOf(EnteredOf, A) = pool.cost + SumOf(Allowable, P)
  <2>1. pool.cost + SumOf(Allowable, P) = SumOf(EnteredOf, Ids)
    <3>1. Ids \ pending = Ids
      OBVIOUS
    <3> QED BY <3>1 DEF CInv, PoolCosts
  <2>2. /\ Ids = A \cup B /\ A \cap B = {} /\ Ints(EnteredOf, A \cup B) /\ Ints(EnteredOf, B)
        /\ \A t \in B : EnteredOf[t] = 0
    <3>1. Ids = A \cup B /\ A \cap B = {} /\ B \subseteq Ids
      BY <1>1
    <3>2. \A t \in B : EnteredOf[t] = 0
      BY DEF Acquisitions, EnteredOf
    <3>3. Ints(EnteredOf, Ids) /\ Ints(EnteredOf, B)
      BY <1>1, <3>1, CostSets
    <3> HIDE DEF A, B
    <3> QED BY <3>1, <3>2, <3>3
  <2> HIDE DEF A, B
  <2>3. SumOf(EnteredOf, A \cup B) = SumOf(EnteredOf, A) + SumOf(EnteredOf, B)
    BY <2>2, SumUnion
  <2>4. SumOf(EnteredOf, B) = 0
    BY <2>2, SumZero
  <2>5. SumOf(EnteredOf, A) \in Int
    BY <1>11, SumInt
  <2>6. SumOf(EnteredOf, Ids) = SumOf(EnteredOf, A \cup B)
    BY <2>2
  <2> QED BY <2>1, <2>3, <2>4, <2>5, <2>6
<1> HIDE DEF A, B, P, M, key, one, count, less, allowed, rest, d
<1>14. SumOf(allowed, A) = SumOf(Allowable, M)
  BY <1>1, <1>2, <1>5, <1>6, SumByKey
<1>15. SumOf(count, A) = SumOf(one, M)
  BY <1>1, <1>2, <1>6, <1>7, SumByKey
<1>16. SumOf(less, A) = (-1) * SumOf(count, A)
  <2> DEFINE m == -1
  <2>1. m \in Int /\ \A a \in A : less[a] = m * count[a]
    BY <1>12
  <2> HIDE DEF m
  <2>2. SumOf(less, A) = m * SumOf(count, A)
    BY <1>11, <2>1, SumTimes
  <2> QED BY <2>2 DEF m
<1>17. SumOf(d, A) <= SumOf(count, A) /\ SumOf(less, A) <= SumOf(d, A)
  BY <1>11, <1>12, SumAtMost
<1>18. SumOf(d, A) = SumOf(rest, A) - SumOf(allowed, A) /\ SumOf(rest, A) = SumOf(PaidFor, A) - SumOf(EnteredOf, A)
  BY <1>11, <1>12, SumLess
<1>19. SumOf(Allowable, disposals) = SumOf(Allowable, M) + SumOf(Allowable, P)
  BY <1>5, SumUnion
<1>20. SumOf(PaidFor, A) \in Int /\ SumOf(d, A) \in Int /\ pool.cost \in Int
  BY <1>1, <1>11, SumInt, CostSets
<1>21. SumOf(d, A) = SumOf(PaidFor, A) - SumOf(Allowable, disposals) - pool.cost
  BY <1>5, <1>13, <1>14, <1>18, <1>19, <1>20
<1>22. Within(SumOf(d, A), Cardinality(disposals))
  <2>1. SumOf(count, A) = Cardinality(M)
    BY <1>7, <1>15
  <2>2. -Cardinality(M) <= SumOf(d, A) /\ SumOf(d, A) <= Cardinality(M)
    BY <1>8, <1>16, <1>17, <1>20, <2>1
  <2> QED BY <1>8, <1>20, <2>2 DEF Within
<1> QED BY <1>20, <1>21, <1>22 DEF A

(* A plan's purchases: what they cost the pool is what the employee spent  *)
(* and what was taxed as income.                                           *)
Plan == {t \in Ids : ledger[t].type = "ESPP_PURCHASE"}

LEMMA PlanIncomes ==
  ASSUME TypeOK, NEW col \in Columns, PlanHolding(col)
  PROVE  /\ Plan = Acquisitions /\ OnlyBought /\ SpentOn(col, Plan) \in Int
         /\ PlanIncomeOver(col, Years) = SumOf(PaidFor, Acquisitions) - SpentOn(col, Plan)
<1> DEFINE S == Plan
           sp == [t \in S |-> col[t].paid * ledger[t].quantity + ledger[t].costs]
           inc == [t \in S |-> PlanIncome(t, col).income]
           key == [t \in S |-> YearOf(ledger[t].date)]
           yr == [y \in Years |-> PlanYear(y, col).income]
<1>1. /\ \A t \in Ids : ledger[t].type \in {"ESPP_PURCHASE", "SELL", "DIV_PAY"} /\ Priced(t)
      /\ \A t \in S : col[t].paid > 0 /\ InAYear(ledger[t].date)
      /\ S \subseteq Ids
  BY DEF PlanHolding, Plan
<1>2. S = Acquisitions
  BY <1>1 DEF Plan, Acquisitions, IsAcquisition, AcquisitionTypes
<1>3. OnlyBought
  BY <1>1 DEF OnlyBought
<1>4. IsFiniteSet(S)
  BY <1>1, FS_Subset, IdsAreNumbers
<1>5. ASSUME NEW t \in S
      PROVE  /\ sp[t] \in Int /\ inc[t] \in Int /\ PaidFor[t] \in Int
             /\ inc[t] = PaidFor[t] - sp[t]
  <2> DEFINE u == UnitPrice(t)
             q == ledger[t].quantity
             k == ledger[t].costs
             p == col[t].paid
  <2>1. u \in Nat /\ q \in Nat /\ k \in Nat /\ p \in Nat
    BY <1>1, CostTypes, ColumnsAreTyped
  <2>2. sp[t] = p * q + k /\ inc[t] = (u - p) * q
    BY DEF PlanIncome
  <2>3. PaidFor[t] = u * q + k
    BY <1>2 DEF PaidFor, CostPaid, Acquisitions
  <2> HIDE DEF u, q, k, p, sp, inc
  <2>4. (u - p) * q = u * q - p * q /\ u * q \in Int /\ p * q \in Int
    BY <2>1
  <2> QED BY <2>1, <2>2, <2>3, <2>4
<1>6. Ints(sp, S) /\ Ints(inc, S) /\ Ints(PaidFor, S) /\ \A t \in S : inc[t] = PaidFor[t] - sp[t]
  <2> HIDE DEF S, sp, inc
  <2> QED BY <1>4, <1>5 DEF Ints
<1>7. SpentOn(col, S) = SumOf(sp, S) /\ PlanIncomeOver(col, Years) = SumOf(yr, Years)
  BY SpentOnSum, PlanIncomeOverSum
<1>8. \A t \in S : key[t] \in Years
  BY <1>1, YearIn
<1>9. ASSUME NEW y \in Years PROVE yr[y] = SumOf(inc, ByKey(S, key, y))
  <2> DEFINE P == PlanPurchases(y, col)
             g == [t \in P |-> PlanIncome(t, col).income]
  <2>1. P = ByKey(S, key, y)
    <3>1. \A t \in S : key[t] = y <=> ledger[t].date \in y.first .. y.last
      BY <1>1, YearIn, YearIs
    <3>2. \A t : t \in P <=> t \in S /\ ledger[t].date \in y.first .. y.last
      BY <1>1 DEF PlanPurchases, Dated, Plan
    <3> HIDE DEF P, key, S
    <3> QED BY <3>1, <3>2 DEF ByKey
  <2>2. yr[y] = PlanIncomeFrom(col, P)
    BY DEF PlanYear, PlanIncomeFrom
  <2>3. PlanIncomeFrom(col, P) = SumOf(g, P)
    BY PlanIncomeFromSum
  <2>4. P \subseteq S
    BY DEF PlanPurchases, Dated, Plan
  <2>5. \A t \in P : inc[t] = g[t]
    BY <2>4
  <2>6. Ints(inc, P)
    <3> HIDE DEF P, inc, S
    <3> QED BY <1>6, <2>4, FS_Subset DEF Ints
  <2> HIDE DEF P, g, inc, S, key, yr
  <2>7. SumOf(inc, P) = SumOf(g, P)
    BY <2>5, <2>6, SumSame
  <2> QED BY <2>1, <2>2, <2>3, <2>7
<1> HIDE DEF S, sp, inc, key, yr
<1>10. SumOf(yr, Years) = SumOf(inc, S)
  BY <1>6, <1>8, <1>9, SumByKey, YearsAreApart
<1>11. SumOf(inc, S) = SumOf(PaidFor, S) - SumOf(sp, S) /\ SumOf(sp, S) \in Int
  BY <1>6, SumLess, SumInt
<1> QED BY <1>2, <1>3, <1>7, <1>10, <1>11 DEF S

(* Income and gains together tax once what was received for the shares,    *)
(* less what they cost and what is still in the pool.                      *)
LEMMA PlanAgrees ==
  ASSUME CInv, pending = {}, NEW col \in Columns, PlanHolding(col)
  PROVE  LET taxed == GainsIn(disposals) + PlanIncomeOver(col, Years)
         IN  Near(taxed, SoldFor(disposals) - SpentOn(col, Plan) + pool.cost,
                  2 * Cardinality(disposals))
<1> DEFINE S == disposals
           n == Cardinality(S)
           gain == [s \in S |-> s.gain]
           sold == [s \in S |-> s.proceeds - s.selling]
           m == [s \in S |-> sold[s] - Allowable[s]]
           e == [s \in S |-> m[s] - gain[s]]
           spent == SpentOn(col, Plan)
           income == PlanIncomeOver(col, Years)
           paid == SumOf(PaidFor, Acquisitions)
<1>1. SInv /\ TypeOK /\ IsFiniteSet(S) /\ n \in Nat
  BY FS_CardinalityType DEF CInv, PInv, SInv, IInv
<1>2. OnlyBought /\ spent \in Int /\ income = paid - spent
  BY <1>1, PlanIncomes
<1>3. paid \in Int /\ Within(paid - SumOf(Allowable, S) - pool.cost, n) /\ pool.cost \in Int
  BY <1>1, <1>2, CostsConserved, CostSets
<1>4. \A s \in S : /\ s.proceeds \in Int /\ s.selling \in Int /\ s.gain \in Int
                   /\ Allowable[s] = s.allowable /\ s.allowable \in Int
  BY <1>1 DEF TypeOK, SliceType, Allowable
<1>5. \A s \in S : Reconciles(s)
  BY DEF CInv, FInv
<1>6. \A s \in S : e[s] \in -1 .. 1
  BY <1>4, <1>5 DEF Reconciles
<1>7. Ints(gain, S) /\ Ints(sold, S) /\ Ints(m, S) /\ Ints(e, S) /\ Ints(Allowable, S)
  BY <1>1, <1>4 DEF Ints
<1>8. (\A s \in S : m[s] = sold[s] - Allowable[s]) /\ (\A s \in S : e[s] = m[s] - gain[s])
  OBVIOUS
<1>9. GainsIn(S) = SumOf(gain, S) /\ SoldFor(S) = SumOf(sold, S)
  BY GainsSum, SoldForSum
<1> HIDE DEF S, gain, sold, m, e, spent, income, paid
<1>10. SumOf(m, S) = SumOf(sold, S) - SumOf(Allowable, S) /\ SumOf(e, S) = SumOf(m, S) - SumOf(gain, S)
  BY <1>7, <1>8, SumLess
<1>11. SumOf(e, S) \in -n .. n
  BY <1>6, <1>7, SumSmall
<1>12. SumOf(sold, S) \in Int /\ SumOf(gain, S) \in Int /\ SumOf(Allowable, S) \in Int
  BY <1>7, SumInt
<1>13. Near(GainsIn(S) + income, SoldFor(S) - spent + pool.cost, 2 * n)
  <2> HIDE DEF n
  <2> QED BY <1>1, <1>2, <1>3, <1>9, <1>10, <1>11, <1>12 DEF Near, Within
<1> QED BY <1>13 DEF S, spent, income, n

(* Every transaction reaches its lists, reports and charts once; the year  *)
(* relieves at least what its payments do, for any income, the report's    *)
(* rows included where page and report take the same rate; see             *)
(* IncomeReports.                                                          *)
THEOREM IncomeCorrect == HistorySpec => []IncomeReconciles
<1>1. CInv => IncomeReconciles
  <2> SUFFICES ASSUME CInv, Returned, NEW col \in Columns
               PROVE  /\ \A y \in Years, income \in Incomes :
                           DividendsReconcile(y, col, income)
                      /\ PlanHolding(col) =>
                           Near(GainsIn(disposals) + PlanIncomeOver(col, Years),
                                SoldFor(disposals) - SpentOn(col, Plan) + pool.cost,
                                2 * Cardinality(disposals))
                      /\ LET engine == EngineResult.summaries
                         IN  /\ EngineResult.recorded = RecordsOver(Years)
                             /\ \A y \in DOMAIN engine : ChartTotal(GainChart(y, y.last)) = engine[y]
                             /\ ChartTotal(engine) = GainsIn(disposals)
    BY DEF IncomeReconciles, GainsIn, Total, PlanIncomeOver, OverPlan, SoldFor, SpentOn, Plan, RecordsOver
  <2>1. SInv /\ TypeOK /\ pending = {} /\ ledger \in Ledgers /\ SoldSlices
    BY DEF CInv, PInv, SInv, IInv, Returned
  <2>2. \A y \in Years, income \in Incomes : DividendsReconcile(y, col, income)
    BY <2>1, DividendsAgree
  <2>3. PlanHolding(col) =>
          Near(GainsIn(disposals) + PlanIncomeOver(col, Years),
               SoldFor(disposals) - SpentOn(col, Plan) + pool.cost, 2 * Cardinality(disposals))
    BY <2>1, PlanAgrees
  <2> QED BY <2>1, <2>2, <2>3, GainsAgree
<1>2. HistoryInit => CInv
  BY InitCInv DEF HistoryInit
<1>3. CInv /\ [HistoryNext]_reportVars => CInv'
  BY HistoryStep, NextCInv
<1> QED BY <1>1, <1>2, <1>3, PTL DEF HistorySpec

-----------------------------------------------------------------------------
(* The replays.  The order of the chart's list is a strict total order too, *)
(* ...                                                                     *)
LEMMA ListedOrders ==
  ASSUME TypeOK, NEW a \in Ids, NEW b \in Ids, NEW c \in Ids
  PROVE  /\ ~(ListedBefore(a, b) /\ ListedBefore(b, a))
         /\ a # b => ListedBefore(a, b) \/ ListedBefore(b, a)
         /\ ListedBefore(a, b) /\ ListedBefore(b, c) => ListedBefore(a, c)
<1>1. \A t \in Ids : ledger[t].date \in Nat /\ t \in Nat
  BY IdsAreNumbers DEF TypeOK, Txn
<1> QED BY <1>1 DEF ListedBefore

ListedLast(t, S) == t \in S /\ \A u \in S \ {t} : ListedBefore(u, t)

LEMMA ListedLastExists ==
  ASSUME TypeOK, NEW S \in SUBSET Ids, S # {}
  PROVE  \E t : ListedLast(t, S)
<1> DEFINE bad == {s \in SUBSET S : s # {} /\ ~\E t : ListedLast(t, s)}
<1> SUFFICES ASSUME bad # {} PROVE FALSE
  OBVIOUS
<1>1. PICK s \in bad : \A x \in s : s \ {x} \notin bad
  <2>1. \A s \in bad : IsFiniteSet(s)
    BY FS_Subset, IdsAreNumbers
  <2> HIDE DEF bad
  <2> QED BY <2>1, Smallest
<1>2. PICK x \in s : TRUE
  OBVIOUS
<1>3. CASE s = {x}
  BY <1>3 DEF ListedLast
<1>4. CASE s # {x}
  <2>1. PICK t : ListedLast(t, s \ {x})
    BY <1>1, <1>2, <1>4
  <2>2. t \in Ids /\ x \in Ids /\ t # x /\ s \subseteq Ids
    BY <2>1 DEF ListedLast
  <2>3. CASE ListedBefore(x, t)
    <3>1. ListedLast(t, s)
      BY <2>1, <2>2, <2>3 DEF ListedLast
    <3> QED BY <3>1
  <2>4. CASE ListedBefore(t, x)
    <3>1. \A u \in s \ {x} : u = t \/ ListedBefore(u, t)
      BY <2>1 DEF ListedLast
    <3>2. ListedLast(x, s)
      BY <2>2, <2>4, <3>1, ListedOrders DEF ListedLast
    <3> QED BY <3>2
  <2> QED BY <2>2, <2>3, <2>4, ListedOrders
<1> QED BY <1>3, <1>4

LEMMA LastListedIs ==
  ASSUME TypeOK, NEW S \in SUBSET Ids, S # {}
  PROVE  ListedLast(LastListed(S), S)
<1>1. PICK t : ListedLast(t, S)
  BY ListedLastExists
<1> QED BY <1>1 DEF LastListed, ListedLast

(* ... and its recursive definition has a solution: a fraction.            *)
Fraction == [num : Nat, den : Nat \ {0}]

LEMMA TimelineStepTyped ==
  ASSUME TypeOK, NEW t \in Ids, NEW v \in Fraction
  PROVE  TimelineStep(v, t) \in Fraction
<1> DEFINE row == ledger[t]
<1>1. /\ row.quantity \in Nat /\ row.num \in Nat \ {0} /\ row.den \in Nat \ {0}
      /\ v.num \in Nat /\ v.den \in Nat \ {0}
  BY DEF TypeOK, Txn, Fraction
<1>2. row.quantity * v.den \in Nat
  BY <1>1
<1>3. v.num + row.quantity * v.den \in Nat /\ NotBelowZero(v.num - row.quantity * v.den) \in Nat
  BY <1>1, <1>2 DEF NotBelowZero
<1>4. /\ v.num * row.num \in Nat /\ v.num * row.den \in Nat
      /\ v.den * row.num \in Nat \ {0} /\ v.den * row.den \in Nat \ {0}
  BY <1>1
<1>5. \A n \in Nat : [v EXCEPT !.num = n] \in Fraction
  BY DEF Fraction
<1>6. \A n \in Nat, m \in Nat \ {0} : [num |-> n, den |-> m] \in Fraction
  BY DEF Fraction
<1> QED BY <1>3, <1>4, <1>5, <1>6 DEF TimelineStep

TimelineOf(g, S) ==
  IF S = {} THEN [num |-> 0, den |-> 1] ELSE TimelineStep(g[S \ {LastListed(S)}], LastListed(S))

LEMMA TimelineExists ==
  ASSUME TypeOK
  PROVE  \E g : g = [S \in SUBSET Ids |-> TimelineOf(g, S)] /\ g \in [SUBSET Ids -> Fraction]
<1> DEFINE op == [t \in Ids |-> [v \in Fraction |-> TimelineStep(v, t)]]
           pick == [S \in SUBSET Ids |-> LastListed(S)]
           none == [num |-> 0, den |-> 1]
<1>1. none \in Fraction /\ op \in [Ids -> [Fraction -> Fraction]] /\ IsFiniteSet(Ids)
  <2>1. none \in Fraction
    BY DEF Fraction
  <2> QED BY <2>1, TimelineStepTyped, IdsAreNumbers
<1>2. Picks(pick, Ids)
  BY LastListedIs DEF Picks, ListedLast
<1>3. \A v \in Fraction, t \in Ids : op[t][v] = TimelineStep(v, t)
  OBVIOUS
<1>4. \A S \in SUBSET Ids : pick[S] = LastListed(S)
  OBVIOUS
<1> HIDE DEF op, pick, none
<1>5. PICK g \in [SUBSET Ids -> Fraction] : IsFold(g, none, op, pick, Ids)
  BY <1>1, <1>2, FoldExists
<1>6. ASSUME NEW S \in SUBSET Ids PROVE g[S] = TimelineOf(g, S)
  <2>1. CASE S = {}
    BY <1>5, <2>1 DEF IsFold, Folded, TimelineOf, none
  <2>2. CASE S # {}
    <3>1. pick[S] = LastListed(S) /\ LastListed(S) \in Ids /\ S \ {LastListed(S)} \in SUBSET Ids
      BY <1>4, <2>2, LastListedIs DEF ListedLast
    <3>2. g[S] = op[LastListed(S)][g[S \ {LastListed(S)}]]
      BY <1>5, <2>2, <3>1 DEF IsFold, Folded
    <3> QED BY <1>3, <2>2, <3>1, <3>2 DEF TimelineOf
  <2> QED BY <2>1, <2>2
<1> QED BY <1>6

LEMMA TimelineIs ==
  ASSUME TypeOK
  PROVE  Timeline \in [SUBSET Ids -> Fraction] /\ Timeline = [S \in SUBSET Ids |-> TimelineOf(Timeline, S)]
<1>1. Timeline = CHOOSE g : g = [S \in SUBSET Ids |-> TimelineOf(g, S)]
  BY DEF Timeline, TimelineOf
<1>2. Timeline = [S \in SUBSET Ids |-> TimelineOf(Timeline, S)]
  BY <1>1, TimelineExists
<1> DEFINE bad == {S \in SUBSET Ids : Timeline[S] \notin Fraction}
<1>3. bad = {}
  <2> SUFFICES ASSUME bad # {} PROVE FALSE
    OBVIOUS
  <2>1. PICK s \in bad : \A x \in s : s \ {x} \notin bad
    <3>1. \A s \in bad : IsFiniteSet(s)
      BY FS_Subset, IdsAreNumbers
    <3> HIDE DEF bad
    <3> QED BY <3>1, Smallest
  <2>2. Timeline[s] = TimelineOf(Timeline, s) /\ s \in SUBSET Ids
    BY <1>2
  <2>3. s # {}
    BY <2>2 DEF TimelineOf, Fraction
  <2>4. LastListed(s) \in s /\ LastListed(s) \in Ids
    BY <2>2, <2>3, LastListedIs DEF ListedLast
  <2>5. Timeline[s \ {LastListed(s)}] \in Fraction
    BY <2>1, <2>2, <2>4
  <2> QED BY <2>2, <2>3, <2>4, <2>5, TimelineStepTyped DEF TimelineOf
<1>4. \A S \in SUBSET Ids : Timeline[S] \in Fraction
  BY <1>3
<1> HIDE DEF bad
<1> QED BY <1>2, <1>4

(* What a transaction that is not a split adds to the holding.             *)
Signed ==
  [t \in Ids |-> IF IsAcquisition(t) \/ ledger[t].type = "RIGHTS_ISSUE" THEN ledger[t].quantity
                 ELSE IF IsDisposal(t) THEN -ledger[t].quantity ELSE 0]

LEMMA SignedInts ==
  ASSUME TypeOK, NEW S \in SUBSET Ids
  PROVE  Ints(Signed, S) /\ SumOf(Signed, S) \in Int
<1>1. \A t \in Ids : ledger[t].quantity \in Nat
  BY DEF TypeOK, Txn
<1>2. \A t \in Ids : Signed[t] \in Int
  BY <1>1 DEF Signed
<1>3. Ints(Signed, S)
  BY <1>2, FS_Subset, IdsAreNumbers DEF Ints
<1> QED BY <1>3, SumInt

LEMMA HeldAfterSigned ==
  ASSUME TypeOK, NEW t \in Ids, t \notin Splits, NEW v \in Int
  PROVE  HeldAfter(v, t) = v + Signed[t]
<1>1. ledger[t].quantity \in Nat /\ ledger[t].type \notin {"SPLIT", "UNSPLIT"}
  BY DEF TypeOK, Txn, Splits
<1> DEFINE q == ledger[t].quantity
<1>2. CASE IsAcquisition(t) \/ ledger[t].type = "RIGHTS_ISSUE"
  <2>1. Signed[t] = q
    BY <1>2 DEF Signed
  <2>2. HeldAfter(v, t) = v + q
    BY <1>2 DEF HeldAfter, IsAcquisition, IsDisposal, AcquisitionTypes, DisposalTypes
  <2> QED BY <2>1, <2>2
<1>3. CASE IsDisposal(t)
  <2>1. ~IsAcquisition(t) /\ ledger[t].type # "RIGHTS_ISSUE"
    BY <1>3 DEF IsAcquisition, IsDisposal, AcquisitionTypes, DisposalTypes
  <2>2. Signed[t] = -q
    BY <1>3, <2>1 DEF Signed
  <2>3. HeldAfter(v, t) = v - q
    BY <1>1, <1>3, <2>1 DEF HeldAfter
  <2> QED BY <1>1, <2>2, <2>3
<1>4. CASE ~(IsAcquisition(t) \/ ledger[t].type = "RIGHTS_ISSUE") /\ ~IsDisposal(t)
  <2>1. Signed[t] = 0
    BY <1>4 DEF Signed
  <2>2. HeldAfter(v, t) = v
    BY <1>1, <1>4 DEF HeldAfter
  <2> QED BY <2>1, <2>2
<1> QED BY <1>2, <1>3, <1>4

(* Without a split the order of the transactions of X does not matter.     *)
LEMMA HeldFlat ==
  ASSUME TypeOK, NEW B \in SUBSET Ids, NEW X \in SUBSET Ids, X \cap Splits = {},
         \A b \in B, x \in X : ledger[b].date < ledger[x].date
  PROVE  Held[B \cup X] = Held[B] + SumOf(Signed, X)
<1> DEFINE bad == {Y \in SUBSET X : Held[B \cup Y] # Held[B] + SumOf(Signed, Y)}
<1> SUFFICES ASSUME bad # {} PROVE FALSE
  OBVIOUS
<1>1. PICK Y \in bad : \A x \in Y : Y \ {x} \notin bad
  <2>1. \A s \in bad : IsFiniteSet(s)
    BY FS_Subset, IdsAreNumbers
  <2> HIDE DEF bad
  <2> QED BY <2>1, Smallest
<1>2. Y \in SUBSET X /\ Held[B \cup Y] # Held[B] + SumOf(Signed, Y)
  OBVIOUS
<1>3. Held[B] \in Int
  BY HeldIs
<1>4. Y # {}
  <2> SUFFICES ASSUME Y = {} PROVE FALSE
    OBVIOUS
  <2>1. B \cup Y = B /\ SumOf(Signed, Y) = 0
    BY SumEmpty
  <2> QED BY <1>2, <1>3, <2>1
<1>5. PICK t : IsLast(t, Y)
  BY <1>2, <1>4, LastExists
<1>6. t \in Y /\ t \in X /\ t \in Ids /\ t \notin Splits /\ \A u \in Y \ {t} : Precedes(u, t)
  BY <1>2, <1>5 DEF IsLast
<1> DEFINE Z == Y \ {t}
           C == B \cup Z
<1>7. Z \notin bad /\ Z \in SUBSET X
  BY <1>1, <1>2, <1>6
<1>8. Held[C] = Held[B] + SumOf(Signed, Z)
  BY <1>7
<1>9. ledger[t].date \in Nat
  BY <1>6 DEF TypeOK, Txn
<1>10. t \notin C
  BY <1>6, <1>9
<1>11. \A u \in C : Precedes(u, t)
  BY <1>6 DEF Precedes
<1>12. C \in SUBSET Ids /\ C \cup {t} = B \cup Y
  BY <1>2, <1>6
<1>13. SumOf(Signed, Y) = Signed[t] + SumOf(Signed, Z)
  BY <1>2, <1>6, SignedInts, SumRemove
<1>14. SumOf(Signed, Z) \in Int /\ Signed[t] \in Int
  <2>1. Z \in SUBSET Ids
    BY <1>7
  <2> HIDE DEF Z
  <2>2. Ints(Signed, Ids)
    BY SignedInts
  <2> QED BY <1>6, <2>1, <2>2, SignedInts DEF Ints
<1> HIDE DEF C, Z, bad
<1>15. Held[C \cup {t}] = HeldAfter(Held[C], t)
  BY <1>6, <1>10, <1>11, <1>12, HeldNext
<1>16. Held[C] \in Int
  BY <1>12, HeldIs
<1>17. Held[B \cup Y] = Held[C] + Signed[t]
  BY <1>6, <1>12, <1>15, <1>16, HeldAfterSigned
<1> QED BY <1>2, <1>3, <1>8, <1>13, <1>14, <1>17

(* The holding in the order of the list.  The main loop takes a day's      *)
(* disposals first, which changes nothing on a day without a split.        *)
SoldOffSplitDays == \A d \in Ids, t \in Splits : IsDisposal(d) => ledger[t].date # ledger[d].date

LEMMA HeldListed ==
  ASSUME TypeOK, SoldOffSplitDays, NEW S \in SUBSET Ids, NEW t, ListedLast(t, S)
  PROVE  Held[S] = HeldAfter(Held[S \ {t}], t)
<1>1. t \in S /\ t \in Ids /\ \A u \in S \ {t} : ListedBefore(u, t)
  BY DEF ListedLast
<1>2. \A u \in Ids : ledger[u].date \in Nat /\ u \in Nat
  BY IdsAreNumbers DEF TypeOK, Txn
<1>3. CASE \A u \in S : ledger[u].date = ledger[t].date => ~IsDisposal(u)
  <2>1. \A u \in S \ {t} : Precedes(u, t)
    BY <1>1, <1>3 DEF ListedBefore, Precedes, DisposalRank
  <2>2. LastOf(S) = t
    BY <1>1, <2>1, LastIs DEF IsLast
  <2>3. Held[S] = HeldOf(Held, S)
    BY HeldIs
  <2> QED BY <1>1, <2>2, <2>3 DEF HeldOf
<1>4. CASE \E u \in S : ledger[u].date = ledger[t].date /\ IsDisposal(u)
  <2> DEFINE B == {u \in S : ledger[u].date < ledger[t].date}
             X == {u \in S : ledger[u].date = ledger[t].date}
             W == X \ {t}
  <2>1. X \cap Splits = {} /\ t \in X /\ t \notin Splits
    BY <1>1, <1>4 DEF SoldOffSplitDays
  <2>2. S = B \cup X
    BY <1>1, <1>2 DEF ListedBefore
  <2>3. S \ {t} = B \cup W
    BY <1>1, <1>2, <2>2
  <2>4. B \in SUBSET Ids /\ X \in SUBSET Ids /\ W \in SUBSET Ids /\ W \cap Splits = {}
    BY <2>1
  <2>5. \A b \in B, x \in X : ledger[b].date < ledger[x].date
    BY <1>1
  <2>6. \A b \in B, x \in W : ledger[b].date < ledger[x].date
    BY <1>1
  <2>7. W = X \ {t}
    OBVIOUS
  <2> HIDE DEF B, X, W
  <2>8. Held[S] = Held[B] + SumOf(Signed, X)
    BY <2>1, <2>2, <2>4, <2>5, HeldFlat
  <2>9. Held[S \ {t}] = Held[B] + SumOf(Signed, W)
    BY <2>3, <2>4, <2>6, HeldFlat
  <2>10. SumOf(Signed, X) = Signed[t] + SumOf(Signed, W)
    BY <2>1, <2>4, <2>7, SignedInts, SumRemove
  <2>11. Held[B] \in Int /\ SumOf(Signed, W) \in Int /\ Held[S \ {t}] \in Int
    BY <2>4, HeldIs, SignedInts
  <2>12. Signed[t] \in Int
    <3>1. Ints(Signed, Ids)
      BY SignedInts
    <3> QED BY <1>1, <3>1 DEF Ints
  <2>13. HeldAfter(Held[S \ {t}], t) = Held[S \ {t}] + Signed[t]
    BY <1>1, <2>1, <2>11, HeldAfterSigned
  <2> QED BY <2>8, <2>9, <2>10, <2>11, <2>12, <2>13
<1> QED BY <1>3, <1>4

(* One step of the timeline beside one of the holding.                     *)
LEMMA TimelineStepSigned ==
  ASSUME TypeOK, NEW t \in Ids, t \notin Splits, ledger[t].type # "RIGHTS_ISSUE",
         NEW v \in Fraction, IsDisposal(t) => v.num >= ledger[t].quantity * v.den
  PROVE  /\ TimelineStep(v, t).den = v.den
         /\ TimelineStep(v, t).num = v.num + Signed[t] * v.den
<1> DEFINE q == ledger[t].quantity
           m == q * v.den
<1>1. q \in Nat /\ v.num \in Nat /\ v.den \in Nat /\ ledger[t].type \notin {"SPLIT", "UNSPLIT"}
  BY DEF TypeOK, Txn, Splits, Fraction
<1>2. m \in Nat /\ (-q) * v.den = -m /\ 0 * v.den = 0
  BY <1>1
<1>3. \A n : [v EXCEPT !.num = n].num = n /\ [v EXCEPT !.num = n].den = v.den
  BY DEF Fraction
<1>4. CASE IsAcquisition(t)
  <2>1. Signed[t] = q
    BY <1>4 DEF Signed
  <2>2. TimelineStep(v, t) = [v EXCEPT !.num = v.num + m]
    BY <1>4 DEF TimelineStep, IsAcquisition, IsDisposal, AcquisitionTypes, DisposalTypes
  <2> QED BY <1>3, <2>1, <2>2
<1>5. CASE IsDisposal(t)
  <2>1. ~IsAcquisition(t) /\ ledger[t].type # "RIGHTS_ISSUE"
    BY <1>5 DEF IsAcquisition, IsDisposal, AcquisitionTypes, DisposalTypes
  <2>2. Signed[t] = -q
    BY <1>5, <2>1 DEF Signed
  <2>3. TimelineStep(v, t) = [v EXCEPT !.num = NotBelowZero(v.num - m)]
    BY <1>1, <1>5, <2>1 DEF TimelineStep
  <2> HIDE DEF m
  <2>4. NotBelowZero(v.num - m) = v.num - m
    BY <1>1, <1>2, <1>5 DEF NotBelowZero, m
  <2>5. v.num + Signed[t] * v.den = v.num - m
    BY <1>1, <1>2, <2>2
  <2> QED BY <1>3, <2>3, <2>4, <2>5
<1>6. CASE ~IsAcquisition(t) /\ ~IsDisposal(t)
  <2>1. Signed[t] = 0
    BY <1>6 DEF Signed
  <2>2. TimelineStep(v, t) = v
    BY <1>1, <1>6 DEF TimelineStep
  <2> QED BY <1>1, <1>2, <2>1, <2>2
<1> QED BY <1>4, <1>5, <1>6

(* Where nothing is rounded and nothing clamped the difference stays.      *)
LEMMA SameError ==
  ASSUME NEW n \in Int, NEW d \in Int, NEW h \in Int, NEW s \in Int
  PROVE  (n + s * d) - (h + s) * d = n - h * d
<1>1. (h + s) * d = h * d + s * d /\ h * d \in Int /\ s * d \in Int
  OBVIOUS
<1> QED BY <1>1

SplitBy(t, n, d) ==
  /\ n \in Nat \ {0} /\ d \in Nat \ {0}
  /\ \A v \in Fraction : TimelineStep(v, t) = [num |-> v.num * n, den |-> v.den * d]
  /\ \A h \in Int : HeldAfter(h, t) = RoundDiv(h * n, d)

LEMMA SplitSteps ==
  ASSUME TypeOK, NEW t \in Splits
  PROVE  \/ \E n, d : SplitBy(t, n, d)
         \/ (\A v : TimelineStep(v, t) = v) /\ (\A h : HeldAfter(h, t) = h)
<1>1. t \in Ids /\ ledger[t].num \in Nat \ {0} /\ ledger[t].den \in Nat \ {0}
      /\ ledger[t].type \in {"SPLIT", "UNSPLIT"} /\ ledger[t].given \in BOOLEAN
  BY DEF TypeOK, Txn, Splits
<1>2. ~IsAcquisition(t) /\ ~IsDisposal(t) /\ ledger[t].type # "RIGHTS_ISSUE"
  BY <1>1 DEF IsAcquisition, IsDisposal, AcquisitionTypes, DisposalTypes
<1>3. CASE ~ledger[t].given
  BY <1>2, <1>3 DEF TimelineStep, HeldAfter
<1>4. CASE ledger[t].given /\ ledger[t].type = "SPLIT"
  <2>1. SplitBy(t, ledger[t].num, ledger[t].den)
    BY <1>1, <1>2, <1>4 DEF SplitBy, TimelineStep, HeldAfter
  <2> QED BY <2>1
<1>5. CASE ledger[t].given /\ ledger[t].type = "UNSPLIT"
  <2>1. SplitBy(t, ledger[t].den, ledger[t].num)
    BY <1>1, <1>2, <1>5 DEF SplitBy, TimelineStep, HeldAfter
  <2> QED BY <2>1
<1> QED BY <1>1, <1>3, <1>4, <1>5

(* A split that comes out whole is not rounded.                            *)
WholeKept(a, h, e, n, d) ==
  a - h * e = 0 /\ (a * n) % (e * d) = 0 => a * n - RoundDiv(h * n, d) * (e * d) = 0

LEMMA WholeSplitKept ==
  ASSUME NEW a \in Nat, NEW h \in Int, NEW e \in Nat \ {0}, NEW n \in Nat \ {0}, NEW d \in Nat \ {0}
  PROVE  WholeKept(a, h, e, n, d)
<1> SUFFICES ASSUME a - h * e = 0, (a * n) % (e * d) = 0
             PROVE  a * n - RoundDiv(h * n, d) * (e * d) = 0
  BY Zenon DEF WholeKept
<1> DEFINE m == a * n
           p == e * d
           k == m \div p
<1>1. m \in Int /\ p \in Nat \ {0} /\ m % p = 0
  OBVIOUS
<1>2. m = p * k /\ k \in Int
  <2> HIDE DEF m, p
  <2>1. m = p * (m \div p) + (m % p) /\ (m \div p) \in Int
    BY <1>1
  <2>2. p * (m \div p) \in Int
    BY <1>1, <2>1
  <2> QED BY <1>1, <2>1, <2>2
<1> HIDE DEF k
<1>3. a = h * e
  <2> DEFINE x == h * e
  <2>1. x \in Int /\ a - x = 0
    OBVIOUS
  <2> HIDE DEF x
  <2>2. a = x
    BY <2>1
  <2> QED BY <2>2 DEF x
<1>4. h * n = k * d
  <2> DEFINE x == h * n
             y == k * d
  <2>1. x \in Int /\ y \in Int
    BY <1>2
  <2>2. m = e * x
    BY <1>3
  <2>3. p * k = e * y
    BY <1>2
  <2> HIDE DEF x, y, m, p
  <2>4. e * x = e * y
    BY <1>2, <2>2, <2>3, Zenon
  <2>5. x = y
    BY <2>1, <2>4
  <2> QED BY <2>5 DEF x, y
<1>5. RoundDiv(h * n, d) = k
  <2>1. RoundDiv(k * d, d) = k
    BY <1>2, RoundDivWhole
  <2> QED BY <1>4, <2>1, Zenon
<1>6. m - k * p = 0
  <2> HIDE DEF m, p
  <2>1. p * k = k * p /\ k * p \in Int
    BY <1>1, <1>2
  <2> QED BY <1>1, <1>2, <2>1
<1> QED BY <1>5, <1>6, Zenon

(* The timeline of every first part of the list follows the holding.       *)
Listed(S) == \A u \in S, w \in Ids : ListedBefore(w, u) => w \in S
Off(S) == Timeline[S].num - Held[S] * Timeline[S].den
Follows(S) ==
  /\ S \cap Splits = {} => Timeline[S].den = 1 /\ Off(S) = 0
  /\ SplitsComeOutWhole => Off(S) = 0
  /\ Cardinality(Splits) <= 1 => Within(2 * Off(S), Timeline[S].den)

LEMMA OnlySplit ==
  ASSUME Cardinality(Splits) <= 1, NEW t \in Splits, NEW u \in Splits
  PROVE  u = t
<1>1. IsFiniteSet(Splits)
  <2>1. Splits \subseteq Ids
    BY DEF Splits
  <2> QED BY <2>1, FS_Subset, IdsAreNumbers
<1>2. CASE u # t
  <2>1. IsFiniteSet(Splits \ {t}) /\ Cardinality(Splits \ {t}) = Cardinality(Splits) - 1
        /\ Cardinality(Splits) \in Nat
    BY <1>1, Without
  <2>2. u \in Splits \ {t}
    BY <1>2
  <2>3. Cardinality((Splits \ {t}) \ {u}) = Cardinality(Splits \ {t}) - 1
        /\ Cardinality((Splits \ {t}) \ {u}) \in Nat
    BY <2>1, <2>2, Without
  <2> QED BY <2>1, <2>3
<1> QED BY <1>2

LEMMA FollowsPlain ==
  ASSUME TypeOK, NEW S \in SUBSET Ids, NEW t \in S, t \notin Splits, Follows(S \ {t}),
         NEW v \in Fraction, NEW h \in Int, v = Timeline[S \ {t}], h = Held[S \ {t}],
         Timeline[S].den = v.den, Timeline[S].num = v.num + Signed[t] * v.den,
         Held[S] = h + Signed[t]
  PROVE  Follows(S)
<1>1. Signed[t] \in Int
  <2>1. Ints(Signed, Ids)
    BY SignedInts
  <2> QED BY <2>1 DEF Ints
<1>2. v.num \in Int /\ v.den \in Int
  BY DEF Fraction
<1>3. Off(S) = (v.num + Signed[t] * v.den) - (h + Signed[t]) * v.den
  BY DEF Off
<1>4. Off(S) = v.num - h * v.den
  BY <1>1, <1>2, <1>3, SameError
<1>5. Off(S) = Off(S \ {t})
  BY <1>4 DEF Off
<1>6. S \cap Splits = {} => (S \ {t}) \cap Splits = {}
  OBVIOUS
<1> QED BY <1>5, <1>6 DEF Follows

LEMMA FollowsSplit ==
  ASSUME NEW S \in SUBSET Ids, NEW t \in S, t \in Splits, Follows(S \ {t}),
         SplitsComeOutWhole => Timeline[S].num % Timeline[S].den = 0,
         NEW a \in Nat, NEW e \in Nat \ {0}, NEW h \in Int,
         Timeline[S \ {t}].num = a, Timeline[S \ {t}].den = e, Held[S \ {t}] = h,
         NEW n \in Nat \ {0}, NEW d \in Nat \ {0},
         Timeline[S].num = a * n, Timeline[S].den = e * d, Held[S] = RoundDiv(h * n, d)
  PROVE  Follows(S)
<1> DEFINE g == RoundDiv(h * n, d)
<1>1. Off(S) = a * n - g * (e * d)
  BY Zenon DEF Off
<1>2. Off(S \ {t}) = a - h * e
  BY Zenon DEF Off
<1>3. ASSUME SplitsComeOutWhole PROVE Off(S) = 0
  <2>1. a - h * e = 0
    BY <1>2, <1>3 DEF Follows
  <2>2. (a * n) % (e * d) = 0
    BY <1>3, Zenon
  <2>3. WholeKept(a, h, e, n, d)
    BY WholeSplitKept
  <2> QED BY <1>1, <2>1, <2>2, <2>3, Zenon DEF WholeKept
<1>4. ASSUME Cardinality(Splits) <= 1 PROVE Within(2 * Off(S), Timeline[S].den)
  <2>1. (S \ {t}) \cap Splits = {}
    BY <1>4, OnlySplit
  <2>2. e = 1 /\ a = h
    <3>1. e = 1 /\ a - h * e = 0
      BY <1>2, <2>1 DEF Follows
    <3>2. h * e = h
      BY <3>1
    <3> QED BY <3>1, <3>2
  <2>3. 2 * (d * g) - 2 * (h * n) <= d /\ -d <= 2 * (d * g) - 2 * (h * n) /\ g \in Int
    BY RoundDivNear, RoundDivInt
  <2> HIDE DEF g
  <2>4. a * n = h * n /\ e * d = d /\ g * d = d * g
    BY <2>2, <2>3
  <2> DEFINE x == d * g
             z == h * n
  <2>5. Off(S) = z - x
    BY <1>1, <2>4, Zenon
  <2>6. 2 * x - 2 * z <= d /\ -d <= 2 * x - 2 * z /\ x \in Int /\ z \in Int
    BY <2>3
  <2> HIDE DEF x, z
  <2>7. 2 * Off(S) <= d /\ -d <= 2 * Off(S)
    BY <2>5, <2>6
  <2>8. Timeline[S].den = d
    BY <2>4, Zenon
  <2> QED BY <2>7, <2>8 DEF Within
<1>5. S \cap Splits # {}
  OBVIOUS
<1> QED BY <1>3, <1>4, <1>5 DEF Follows

LEMMA FollowsUnsplit ==
  ASSUME NEW S \in SUBSET Ids, NEW t \in S, t \in Splits, Follows(S \ {t}),
         Timeline[S] = Timeline[S \ {t}], Held[S] = Held[S \ {t}]
  PROVE  Follows(S)
<1>1. Off(S) = Off(S \ {t})
  BY DEF Off
<1>2. S \cap Splits # {}
  OBVIOUS
<1> QED BY <1>1, <1>2 DEF Follows

LEMMA TimelineFollows ==
  ASSUME TypeOK, HeldWhenSold, \A t \in Ids : ledger[t].type # "RIGHTS_ISSUE",
         NEW S \in SUBSET Ids, Listed(S)
  PROVE  Follows(S)
<1> DEFINE bad == {s \in SUBSET Ids : Listed(s) /\ ~Follows(s)}
<1> SUFFICES ASSUME bad # {} PROVE FALSE
  OBVIOUS
<1>1. PICK s \in bad : \A x \in s : s \ {x} \notin bad
  <2>1. \A z \in bad : IsFiniteSet(z)
    BY FS_Subset, IdsAreNumbers
  <2> HIDE DEF bad
  <2> QED BY <2>1, Smallest
<1>2. s \in SUBSET Ids /\ Listed(s) /\ ~Follows(s)
  OBVIOUS
<1>3. CASE s = {}
  <2>1. Timeline[s] = [num |-> 0, den |-> 1] /\ Held[s] = 0
    BY <1>3, TimelineIs, HeldNone DEF TimelineOf
  <2>2. Off(s) = 0 /\ Timeline[s].den = 1
    BY <2>1 DEF Off
  <2>3. Follows(s)
    BY <2>2 DEF Follows, Within
  <2> QED BY <1>2, <2>3
<1>4. CASE s # {}
  <2> DEFINE t == LastListed(s)
             A == s \ {t}
             v == Timeline[A]
             h == Held[A]
  <2>1. ListedLast(t, s)
    BY <1>2, <1>4, LastListedIs
  <2> HIDE DEF t
  <2>2. t \in s /\ t \in Ids /\ \A u \in A : ListedBefore(u, t)
    BY <1>2, <2>1 DEF ListedLast
  <2>3. Listed(A)
    <3> SUFFICES ASSUME NEW u \in A, NEW w \in Ids, ListedBefore(w, u) PROVE w \in A
      BY DEF Listed
    <3>1. w \in s
      BY <1>2 DEF Listed
    <3>2. ListedBefore(u, t) /\ u \in Ids
      BY <1>2, <2>2
    <3>3. w # t
      BY <2>2, <3>2, ListedOrders
    <3> QED BY <3>1, <3>3
  <2>4. A \in SUBSET Ids /\ A \notin bad
    BY <1>1, <1>2, <2>2
  <2>5. Follows(A)
    BY <2>3, <2>4
  <2>6. v \in Fraction /\ h \in Int
    BY <2>4, TimelineIs, HeldIs
  <2>7. Timeline[s] = TimelineStep(v, t)
    BY <1>2, <1>4, TimelineIs DEF TimelineOf, t
  <2>8. SoldOffSplitDays
    BY DEF HeldWhenSold, SoldOffSplitDays
  <2>9. Held[s] = HeldAfter(h, t)
    BY <1>2, <2>1, <2>8, HeldListed
  <2>10. \A u \in Ids : u \in s <=> u = t \/ ListedBefore(u, t)
    BY <1>2, <2>2 DEF Listed
  <2>11. A = {u \in Ids : ListedBefore(u, t)}
    <3>1. ~ListedBefore(t, t)
      BY <2>2, ListedOrders
    <3> QED BY <1>2, <2>10, <3>1
  <2>12. s = {u \in Ids : u = t \/ ListedBefore(u, t)}
    BY <1>2, <2>10
  <2> HIDE DEF bad
  <2>13. CASE t \notin Splits
    <3>1. IsDisposal(t) => v.num >= ledger[t].quantity * v.den
      BY <2>2, <2>11 DEF HeldWhenSold
    <3> HIDE DEF v, h
    <3>2. TimelineStep(v, t).den = v.den /\ TimelineStep(v, t).num = v.num + Signed[t] * v.den
      BY <2>2, <2>6, <2>13, <3>1, TimelineStepSigned
    <3>3. HeldAfter(h, t) = h + Signed[t]
      BY <2>2, <2>6, <2>13, HeldAfterSigned
    <3>4. v = Timeline[s \ {t}] /\ h = Held[s \ {t}]
      BY DEF v, h
    <3>5. Follows(s)
      BY <1>2, <2>2, <2>5, <2>6, <2>7, <2>9, <2>13, <3>2, <3>3, <3>4, FollowsPlain
    <3> QED BY <1>2, <3>5
  <2>14. CASE t \in Splits
    <3>1. SplitsComeOutWhole => Timeline[s].num % Timeline[s].den = 0
      BY <2>12, <2>14 DEF SplitsComeOutWhole
    <3>2. ASSUME NEW n, NEW d, SplitBy(t, n, d) PROVE Follows(s)
      <4> HIDE DEF v, h
      <4>1. n \in Nat \ {0} /\ d \in Nat \ {0}
        BY <3>2 DEF SplitBy
      <4>2. /\ Timeline[s].num = v.num * n /\ Timeline[s].den = v.den * d
            /\ v.num \in Nat /\ v.den \in Nat \ {0}
        <5>1. Timeline[s] = [num |-> v.num * n, den |-> v.den * d]
          BY <2>6, <2>7, <3>2 DEF SplitBy
        <5> QED BY <2>6, <5>1 DEF Fraction
      <4>3. Held[s] = RoundDiv(h * n, d)
        BY <2>6, <2>9, <3>2 DEF SplitBy
      <4>4. Timeline[s \ {t}].num = v.num /\ Timeline[s \ {t}].den = v.den /\ Held[s \ {t}] = h
        BY DEF v, h
      <4> QED BY <1>2, <2>2, <2>5, <2>6, <2>14, <3>1, <4>1, <4>2, <4>3, <4>4, FollowsSplit
    <3>3. ASSUME \A w : TimelineStep(w, t) = w, \A w : HeldAfter(w, t) = w PROVE Follows(s)
      <4>1. Timeline[s] = Timeline[s \ {t}] /\ Held[s] = Held[s \ {t}]
        BY <2>7, <2>9, <3>3
      <4> QED BY <1>2, <2>2, <2>5, <2>14, <4>1, FollowsUnsplit
    <3> QED BY <1>2, <2>14, <3>2, <3>3, SplitSteps
  <2> QED BY <2>13, <2>14
<1> QED BY <1>3, <1>4

(* The file's rows, counted with their sign, are the holding.              *)
ExportedOf(S) == Total(LAMBDA t : IF Bought(t) THEN ledger[t].quantity ELSE -ledger[t].quantity, S)

LEMMA ExportedOfSum ==
  ASSUME NEW S
  PROVE  ExportedOf(S)
           = SumOf([x \in S |-> IF Bought(x) THEN ledger[x].quantity ELSE -ledger[x].quantity], S)
<1> DEFINE E(t) == IF Bought(t) THEN ledger[t].quantity ELSE -ledger[t].quantity
           f == [x \in S |-> E(x)]
           B(g) == [s \in SUBSET S |-> IF s = {} THEN 0 ELSE f[OneOf(s)] + g[s \ {OneOf(s)}]]
           C(g) == [s \in SUBSET S |-> IF s = {} THEN 0 ELSE E(OneOf(s)) + g[s \ {OneOf(s)}]]
<1>1. ASSUME NEW g PROVE B(g) = C(g)
  <2>1. \A s \in SUBSET S : s # {} => f[OneOf(s)] = E(OneOf(s))
    BY OneOfIn
  <2> HIDE DEF f, E
  <2> QED BY <2>1
<1>2. SumOf(f, S) = (CHOOSE g : g = B(g))[S]
  BY DEF SumOf, MapThenSumSet, MapThenFoldSet, OneOf
<1>3. ExportedOf(S) = (CHOOSE g : g = C(g))[S]
  BY DEF ExportedOf, Total, MapThenSumSet, MapThenFoldSet, OneOf
<1>4. \A g : (g = B(g)) <=> (g = C(g))
  BY <1>1
<1> HIDE DEF B, C, f
<1>5. (CHOOSE g : g = B(g)) = (CHOOSE g : g = C(g))
  BY <1>4
<1> QED BY <1>2, <1>3, <1>5 DEF f

LEMMA ExportIsHolding ==
  ASSUME TypeOK, AllPriced, Splits = {}, \A t \in Ids : IsDisposal(t) => ledger[t].given
  PROVE  ExportedShares = Held[Ids]
<1> DEFINE f == [x \in Exported |-> IF Bought(x) THEN ledger[x].quantity ELSE -ledger[x].quantity]
           none == {}
           rest == Ids \ Exported
<1>1. Held[Ids] = SumOf(Signed, Ids)
  <2>1. Held[none \cup Ids] = Held[none] + SumOf(Signed, Ids)
    <3>1. none \in SUBSET Ids /\ Ids \in SUBSET Ids /\ Ids \cap Splits = {}
      OBVIOUS
    <3>2. \A b \in none, x \in Ids : ledger[b].date < ledger[x].date
      OBVIOUS
    <3> HIDE DEF none
    <3> QED BY <3>1, <3>2, HeldFlat
  <2>2. Held[none] = 0 /\ none \cup Ids = Ids
    BY HeldNone
  <2>3. Held[Ids] = 0 + SumOf(Signed, Ids)
    BY <2>1, <2>2, Zenon
  <2>4. SumOf(Signed, Ids) \in Int
    <3>1. Ids \in SUBSET Ids
      OBVIOUS
    <3> QED BY <3>1, SignedInts
  <2> QED BY <2>3, <2>4
<1>2. Exported \in SUBSET Ids /\ rest \in SUBSET Ids /\ Exported \cap rest = {} /\ Exported \cup rest = Ids
  BY DEF Exported
<1>3. ExportedShares = SumOf(f, Exported)
  BY ExportedOfSum DEF ExportedShares, ExportedOf
<1>4. \A x \in Exported : Signed[x] = f[x]
  <2> SUFFICES ASSUME NEW x \in Exported PROVE Signed[x] = f[x]
    OBVIOUS
  <2>1. x \in Ids /\ (Bought(x) \/ IsDisposal(x))
    BY DEF Exported
  <2>2. f[x] = IF Bought(x) THEN ledger[x].quantity ELSE -ledger[x].quantity
    OBVIOUS
  <2> HIDE DEF f
  <2>3. Signed[x] = IF Bought(x) THEN ledger[x].quantity
                    ELSE IF IsDisposal(x) THEN -ledger[x].quantity ELSE 0
    BY <2>1 DEF Signed, Bought
  <2> QED BY <2>1, <2>2, <2>3
<1>5. \A x \in rest : Signed[x] = 0
  <2> SUFFICES ASSUME NEW x \in rest PROVE Signed[x] = 0
    OBVIOUS
  <2>1. x \in Ids /\ ~(Bought(x) \/ IsDisposal(x))
    BY DEF Exported, AllPriced, Priced, Bought
  <2> QED BY <2>1 DEF Signed, Bought
<1> HIDE DEF f, rest
<1>6. SumOf(Signed, Ids) = SumOf(Signed, Exported) + SumOf(Signed, rest)
  BY <1>2, SignedInts, SumUnion
<1>7. SumOf(Signed, rest) = 0
  BY <1>2, <1>5, SignedInts, SumZero
<1>8. SumOf(Signed, Exported) = SumOf(f, Exported) /\ SumOf(Signed, Exported) \in Int
  BY <1>2, <1>4, SignedInts, SumSame
<1> QED BY <1>1, <1>3, <1>6, <1>7, <1>8

LEMMA ReplaysEnd ==
  ASSUME TypeOK, pool.quantity = Held[Ids], AllPriced
  PROVE  /\ HeldWhenSold /\ (\A t \in Ids : ledger[t].type # "RIGHTS_ISSUE") =>
              LET held == Timeline[Ids]
              IN  /\ SplitsComeOutWhole => held.num = pool.quantity * held.den
                  /\ Cardinality(Splits) <= 1 => Near(held.num, pool.quantity * held.den, held.den)
         /\ Splits = {} /\ (\A t \in Ids : IsDisposal(t) => ledger[t].given) =>
              ExportedShares = pool.quantity
<1>1. ASSUME HeldWhenSold, \A t \in Ids : ledger[t].type # "RIGHTS_ISSUE"
      PROVE  /\ SplitsComeOutWhole => Timeline[Ids].num = pool.quantity * Timeline[Ids].den
             /\ Cardinality(Splits) <= 1 =>
                  Near(Timeline[Ids].num, pool.quantity * Timeline[Ids].den, Timeline[Ids].den)
  <2> DEFINE n == Timeline[Ids].num
             d == Timeline[Ids].den
             m == pool.quantity * d
  <2>1. Listed(Ids) /\ Ids \in SUBSET Ids
    BY DEF Listed
  <2>2. Follows(Ids)
    BY <1>1, <2>1, TimelineFollows
  <2>3. n \in Int /\ d \in Nat /\ pool.quantity \in Int
    <3>1. Timeline[Ids] \in Fraction
      BY <2>1, TimelineIs
    <3> QED BY <3>1 DEF Fraction, TypeOK
  <2>4. Off(Ids) = n - m
    BY DEF Off
  <2>5. m \in Int
    BY <2>3
  <2>6. SplitsComeOutWhole => n - m = 0
    BY <2>2, <2>4 DEF Follows
  <2>7. Cardinality(Splits) <= 1 => -d <= 2 * (n - m) /\ 2 * (n - m) <= d
    BY <2>2, <2>4, Zenon DEF Follows, Within
  <2> HIDE DEF n, m, d
  <2>8. SplitsComeOutWhole => n = m
    BY <2>3, <2>5, <2>6
  <2>9. Cardinality(Splits) <= 1 => n - m \in -d .. d
    BY <2>3, <2>5, <2>7
  <2> QED BY <2>8, <2>9, Zenon DEF Near, n, m, d
<1>2. ASSUME Splits = {}, \A t \in Ids : IsDisposal(t) => ledger[t].given
      PROVE  ExportedShares = pool.quantity
  BY <1>2, ExportIsHolding
<1> QED BY <1>1, <1>2

(* Every replay of the ledger ends with the matcher's pool: the chart's    *)
(* timeline (routes/charts.ts, which lists the transactions in another     *)
(* order and never rounds) and the rows of the cgtcalculator file, each    *)
(* under the conditions ReplaysAgree names, for every ledger.              *)
THEOREM ReplaysCorrect == HistorySpec => []ReplaysAgree
<1>1. PInv => ReplaysAgree
  <2> SUFFICES ASSUME PInv, Returned, AllPriced, NoMatchAcrossSplit PROVE ReplaysAgree
    BY DEF ReplaysAgree
  <2>1. pool.quantity = Held[Ids]
    BY PInvPool DEF PoolIsHolding
  <2> QED BY <2>1, PInvTypes, ReplaysEnd DEF ReplaysAgree
<1>2. HistoryInit => PInv
  BY InitPInv DEF HistoryInit
<1>3. PInv /\ [HistoryNext]_reportVars => PInv'
  BY HistoryStep, NextPInv
<1> QED BY <1>1, <1>2, <1>3, PTL DEF HistorySpec
=============================================================================
