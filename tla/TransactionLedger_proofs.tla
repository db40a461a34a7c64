---------------------- MODULE TransactionLedger_proofs ----------------------
(* For any number of requests, rows and projections: types hold, nothing   *)
(* derived names a row that is gone, and disposals and pool follow from    *)
(* the ledger once every call that recalculates has come to its end.       *)
(* The last is not inductive.  IInv adds what makes it so: until then, a   *)
(* call is under way whose row is there, and which will recalculate.       *)
(* At the end, what no step may do: compute over what was typed, hand a    *)
(* projection from one row to another, or lose what was saved before the   *)
(* ledger was refused.                                                     *)
EXTENDS TransactionLedger, TLAPS, SequenceTheorems, FiniteSetTheorems, WellFoundedInduction

(* What is taken of the matcher, for all finite ledgers.                   *)
MatchSound == \A trades \in SUBSET Trade :
  IsFiniteSet(trades) /\ IdsDiffer(trades) => SoundOn(trades)

GoodTables == {d \in Tables : References(d)}

CallFits(c, d) ==
  /\ c # Idle => c.id \in DOMAIN d.txn /\ c.row # None
  /\ c.op = "dividends" => \A k \in DOMAIN c.left : c.left[k].type = "DIV_PAY"
Fits(calls, d) == calls \in [Requests -> CallState] /\ \A r \in Requests : CallFits(calls[r], d)

(* Whatever the derived rows lack, a call that has a live row makes up.    *)
Owes(c, d) == c.op \in {"post", "patch", "import"} /\ c.id \in Live(d)
Covered(calls, d, flag) == flag \/ Follows(d) \/ \E r \in Requests : Owes(calls[r], d)

IInv ==
  /\ db \in GoodTables /\ Fits(request, db)
  /\ server \in {"up", "down", "starting"} /\ unsynced \in BOOLEAN
  /\ todo \subseteq Pending(db) /\ (server # "starting" => todo = {})
  /\ server = "up" => Covered(request, db, unsynced)

LEMMA IInvSuffices == IInv => TypeOK /\ DerivedFollows /\ ReferencesLive
  BY DEF IInv, TypeOK, GoodTables, Fits, CallFits, DerivedFollows, ReferencesLive, Covered,
         Owes, WillRecalculate

-----------------------------------------------------------------------------
(* The nearest candidate exists *)

LEMMA NatMin ==
  ASSUME NEW S \in SUBSET Nat, S # {}
  PROVE  \E x \in S : \A y \in S : x <= y
<1> DEFINE R == OpToRel(<, Nat)
<1>1. IsWellFoundedOn(R, Nat)
  BY NatLessThanWellFounded
<1>2. \A x, y \in Nat : <<y, x>> \in R <=> y < x
  BY DEF OpToRel
<1> HIDE DEF R
<1>3. PICK x \in S : \A y \in S : ~(<<y, x>> \in R)
  BY <1>1, WFMin
<1>4. \A y \in S : ~(y < x)
  BY <1>2, <1>3
<1> QED BY <1>4

LEMMA DistanceNat == \A a, b \in Nat : Distance(a, b) \in Nat
  BY DEF Distance

LEMMA BestFound ==
  ASSUME NEW dates, DOMAIN dates \in SUBSET Nat, DOMAIN dates # {},
         \A x \in DOMAIN dates : dates[x] \in Nat, NEW anchor \in Nat
  PROVE  Best(dates, anchor) \in DOMAIN dates
<1> DEFINE D(x) == Distance(dates[x], anchor)
           near == {x \in DOMAIN dates : \A y \in DOMAIN dates : D(x) <= D(y)}
           first == {x \in near : \A y \in near : dates[x] <= dates[y]}
<1>1. \A x \in DOMAIN dates : D(x) \in Nat
  BY DistanceNat
<1> HIDE DEF D
<1>2. near # {}
  <2> DEFINE all == {D(x) : x \in DOMAIN dates}
  <2>1. all \in SUBSET Nat /\ all # {}
    BY <1>1
  <2>2. PICK m \in all : \A n \in all : m <= n
    BY <2>1, NatMin
  <2> QED BY <2>2
<1>3. first # {}
  <2> DEFINE all == {dates[x] : x \in near}
  <2>1. all \in SUBSET Nat /\ all # {}
    BY <1>2
  <2>2. PICK m \in all : \A n \in all : m <= n
    BY <2>1, NatMin
  <2> QED BY <2>2
<1>4. PICK x \in first : \A y \in first : x <= y
  BY <1>3, NatMin
<1>5. \A y \in DOMAIN dates \ {x} :
        D(x) < D(y) \/ (D(x) = D(y) /\ Before(x, y, dates))
  BY <1>1, <1>4 DEF Before
<1> QED BY <1>4, <1>5 DEF Best, D

-----------------------------------------------------------------------------
(* What each statement leaves as it is *)

Stays(d, e) == e \in GoodTables /\ Len(e.txn) = Len(d.txn) /\ Live(e) = Live(d)
Quiet(d, e) == Trades(e) = Trades(d) /\ e.disposals = d.disposals /\ e.pool = d.pool

LEMMA QuietFollows ==
  ASSUME NEW d, NEW e, Quiet(d, e)
  PROVE  Follows(e) <=> Follows(d)
BY DEF Quiet, Follows, Matched

LEMMA StaysQuietTransitive ==
  ASSUME NEW d, NEW e, NEW f
  PROVE  /\ Stays(d, e) /\ Stays(e, f) => Stays(d, f)
         /\ Quiet(d, e) /\ Quiet(e, f) => Quiet(d, f)
BY DEF Stays, Quiet

LEMMA RowTyped ==
  ASSUME NEW d \in GoodTables, NEW i \in Live(d)
  PROVE  /\ i \in 1 .. Len(d.txn) /\ DOMAIN d.txn = 1 .. Len(d.txn) /\ Len(d.txn) \in Nat
         /\ i \in DOMAIN d.txn /\ i \in Nat /\ d.txn[i] \in Row
BY DEF GoodTables, Tables, Live

LEMMA UpdatedStays ==
  ASSUME NEW d \in GoodTables, NEW i \in Live(d), NEW row \in Row
  PROVE  /\ Stays(d, Updated(d, i, row))
         /\ Updated(d, i, row).disposals = d.disposals /\ Updated(d, i, row).pool = d.pool
         /\ Updated(d, i, row).txn = [d.txn EXCEPT ![i] = row]
<1> DEFINE e == Updated(d, i, row)
           new == [d.txn EXCEPT ![i] = row]
<1>1. new \in Seq(Row \cup {None}) /\ Len(new) = Len(d.txn)
  BY RowTyped, ExceptSeq DEF GoodTables, Tables
<1> HIDE DEF new
<1>2. e = [d EXCEPT !.txn = new]
  BY DEF Updated, new
<1>3. e \in Tables /\ e.txn = [d.txn EXCEPT ![i] = row] /\ Len(e.txn) = Len(d.txn)
      /\ e.sched = d.sched /\ e.disposals = d.disposals /\ e.pool = d.pool
  BY <1>1, <1>2 DEF new, GoodTables, Tables
<1>4. Live(e) = Live(d)
  BY <1>3, RowTyped, NamesDistinct DEF Live, GoodTables, Tables
<1>5. References(e)
  BY <1>3, <1>4 DEF References, GoodTables
<1> QED BY <1>3, <1>4, <1>5 DEF Stays, GoodTables

(* A row that is no trade before and after, or has the same figures, is    *)
(* the same to the matcher.                                                *)
SameTrade(a, b) ==
  \/ a.type = "DIV_PAY" /\ b.type = "DIV_PAY"
  \/ a.type = b.type /\ a.date = b.date /\ a.gbp = b.gbp
LEMMA UpdatedQuiet ==
  ASSUME NEW d \in GoodTables, NEW i \in Live(d), NEW row \in Row, SameTrade(d.txn[i], row)
  PROVE  Quiet(d, Updated(d, i, row))
<1> DEFINE e == Updated(d, i, row)
           T(x) == {j \in Live(x) : x.txn[j].type # "DIV_PAY"}
           trade(x, j) == [id |-> j, type |-> x.txn[j].type, date |-> x.txn[j].date,
                           gbp |-> x.txn[j].gbp]
<1>1. Live(e) = Live(d) /\ e.txn = [d.txn EXCEPT ![i] = row]
  BY UpdatedStays DEF Stays
<1>2. \A j \in Live(d) : j # i => e.txn[j] = d.txn[j]
  BY <1>1, RowTyped
<1>3. e.txn[i] = row
  BY <1>1, RowTyped
<1>4. T(e) = T(d)
  BY <1>1, <1>2, <1>3 DEF SameTrade
<1>5. \A j \in T(d) : trade(e, j) = trade(d, j)
  BY <1>2, <1>3 DEF SameTrade
<1>6. Trades(e) = {trade(e, j) : j \in T(e)} /\ Trades(d) = {trade(d, j) : j \in T(d)}
  BY DEF Trades
<1> HIDE DEF T, trade
<1>7. {trade(e, j) : j \in T(e)} = {trade(d, j) : j \in T(d)}
  BY <1>4, <1>5
<1> QED BY <1>6, <1>7, UpdatedStays DEF Quiet

LEMMA PricedStays ==
  ASSUME NEW d \in GoodTables, NEW i, NEW row \in Terms
  PROVE  /\ Stays(d, Priced(d, i, row))
         /\ ~IsTrade(d, i) => Quiet(d, Priced(d, i, row))
<1>1. CASE i \in Live(d)
  <2> DEFINE new == [d.txn[i] EXCEPT !.gbp = <<row.price, row.date>>]
  <2>1. new \in Row /\ new.type = d.txn[i].type
    BY <1>1, RowTyped DEF Row, Figures, Terms
  <2>2. Priced(d, i, row) = Updated(d, i, new)
    BY <1>1 DEF Priced
  <2>3. ~IsTrade(d, i) => SameTrade(d.txn[i], new)
    BY <1>1, <2>1 DEF IsTrade, SameTrade
  <2> HIDE DEF new
  <2>4. Stays(d, Updated(d, i, new))
    BY <1>1, <2>1, UpdatedStays
  <2>5. ~IsTrade(d, i) => Quiet(d, Updated(d, i, new))
    BY <1>1, <2>1, <2>3, UpdatedQuiet
  <2> QED BY <2>2, <2>4, <2>5
<1>2. CASE i \notin Live(d)
  BY <1>2 DEF Priced, Stays, Quiet
<1> QED BY <1>1, <1>2

LEMMA WithholdingTyped ==
  ASSUME NEW row \in Row
  PROVE  WithholdingOf(row) \in Row /\ SameTrade(row, WithholdingOf(row))
BY DEF WithholdingOf, NeedsWithholding, Row, SameTrade

LEMMA WithheldStays ==
  ASSUME NEW d \in GoodTables, NEW i
  PROVE  Stays(d, Withheld(d, i)) /\ Quiet(d, Withheld(d, i))
<1>1. CASE i \in Live(d)
  BY <1>1, RowTyped, WithholdingTyped, UpdatedStays, UpdatedQuiet DEF Withheld
<1>2. CASE i \notin Live(d)
  BY <1>2 DEF Withheld, Stays, Quiet
<1> QED BY <1>1, <1>2

(* Statements on projections leave rows and derived rows alone.            *)
LEMMA SchedStays ==
  ASSUME NEW d \in GoodTables, NEW sched \in [Projections -> Scheduled \cup {None}],
         \A p \in Projections : sched[p] # None => sched[p].realised \in Live(d) \cup {None}
  PROVE  LET e == [d EXCEPT !.sched = sched]
         IN Stays(d, e) /\ Quiet(d, e) /\ e.sched = sched /\ e.txn = d.txn
<1> DEFINE e == [d EXCEPT !.sched = sched]
<1>1. e \in Tables /\ e.txn = d.txn /\ e.sched = sched /\ e.disposals = d.disposals /\ e.pool = d.pool
  BY DEF GoodTables, Tables
<1>2. Live(e) = Live(d) /\ Trades(e) = Trades(d)
  BY <1>1 DEF Live, Trades
<1> QED BY <1>1, <1>2 DEF Stays, Quiet, GoodTables, References

LEMMA RealisedStays ==
  ASSUME NEW d \in GoodTables, NEW p \in Pending(d), NEW i \in Live(d)
  PROVE  /\ Stays(d, Realised(d, p, i)) /\ Quiet(d, Realised(d, p, i))
         /\ Realised(d, p, i).sched = [d.sched EXCEPT ![p].realised = i]
<1> DEFINE sched == [d.sched EXCEPT ![p].realised = i]
<1>1. d.sched \in [Projections -> Scheduled \cup {None}] /\ p \in Projections /\ d.sched[p] \in Scheduled
  BY DEF GoodTables, Tables, Pending
<1>2. [d.sched[p] EXCEPT !.realised = i] \in Scheduled /\ [d.sched[p] EXCEPT !.realised = i].realised = i
  BY <1>1, RowTyped DEF Scheduled
<1>3. sched \in [Projections -> Scheduled \cup {None}]
  BY <1>1, <1>2
<1>4. \A q \in Projections : sched[q] # None => sched[q].realised \in Live(d) \cup {None}
  BY <1>1, <1>2 DEF GoodTables, References
<1> HIDE DEF sched
<1>5. Realised(d, p, i) = [d EXCEPT !.sched = sched]
  BY DEF Realised, sched, GoodTables, Tables
<1>6. Stays(d, Realised(d, p, i)) /\ Quiet(d, Realised(d, p, i)) /\ Realised(d, p, i).sched = sched
  BY <1>3, <1>4, <1>5, SchedStays
<1> QED BY <1>6 DEF sched

LEMMA CandidateDates ==
  ASSUME NEW d \in GoodTables, NEW row, Candidates(d, row) # {}, row.date \in Nat
  PROVE  Best([p \in Candidates(d, row) |-> d.sched[p].date], row.date) \in Candidates(d, row)
<1> DEFINE found == [p \in Candidates(d, row) |-> d.sched[p].date]
<1>1. Candidates(d, row) \subseteq Projections /\ Candidates(d, row) \in SUBSET Nat
  BY InputsTyped DEF Candidates, Pending
<1>2. \A p \in Candidates(d, row) : d.sched[p] \in Scheduled
  BY <1>1 DEF Candidates, Pending, GoodTables, Tables
<1>3. \A p \in DOMAIN found : found[p] \in Nat
  BY <1>2 DEF Scheduled
<1>4. DOMAIN found = Candidates(d, row)
  OBVIOUS
<1> HIDE DEF found
<1>5. Best(found, row.date) \in DOMAIN found
  BY <1>1, <1>3, <1>4, BestFound
<1> QED BY <1>4, <1>5 DEF found

LEMMA LinkedStays ==
  ASSUME NEW d \in GoodTables, NEW i, NEW row \in Terms, ~LinkRefused(d, i, row)
  PROVE  Stays(d, Linked(d, i, row)) /\ Quiet(d, Linked(d, i, row))
<1>1. CASE Candidates(d, row) = {}
  BY <1>1 DEF Linked, Stays, Quiet
<1>2. CASE Candidates(d, row) # {}
  <2>1. i \in Live(d) /\ row.date \in Nat
    BY <1>2 DEF LinkRefused, Terms
  <2>2. PICK p \in Candidates(d, row) : Linked(d, i, row) = Realised(d, p, i)
    BY <1>2, <2>1, CandidateDates DEF Linked
  <2>3. p \in Pending(d)
    BY DEF Candidates
  <2>4. Stays(d, Realised(d, p, i)) /\ Quiet(d, Realised(d, p, i))
    BY <2>1, <2>3, RealisedStays
  <2> QED BY <2>2, <2>4
<1> QED BY <1>1, <1>2

LEMMA UnlinkedStays ==
  ASSUME NEW d \in GoodTables, NEW i
  PROVE  /\ Stays(d, Unlinked(d, i)) /\ Quiet(d, Unlinked(d, i)) /\ Unlinked(d, i).txn = d.txn
         /\ i # None => RealisedBy(Unlinked(d, i), i) = {}
<1> DEFINE sched == [p \in Projections |->
     IF p \in RealisedBy(d, i) THEN [d.sched[p] EXCEPT !.realised = None] ELSE d.sched[p]]
<1>1. \A p \in Projections : d.sched[p] \in Scheduled \cup {None}
  BY DEF GoodTables, Tables
<1>2. \A p \in RealisedBy(d, i) :
        [d.sched[p] EXCEPT !.realised = None] \in Scheduled /\ [d.sched[p] EXCEPT !.realised = None].realised = None
  BY <1>1 DEF RealisedBy, Scheduled
<1>3. sched \in [Projections -> Scheduled \cup {None}]
  BY <1>1, <1>2
<1>4. \A p \in Projections : sched[p] # None => sched[p].realised \in Live(d) \cup {None}
  BY <1>2 DEF GoodTables, References
<1>5. i # None => \A p \in Projections : sched[p] # None => sched[p].realised # i
  BY <1>2 DEF RealisedBy
<1>6. Unlinked(d, i) = [d EXCEPT !.sched = sched]
  BY DEF Unlinked
<1> HIDE DEF sched
<1> QED BY <1>3, <1>4, <1>5, <1>6, SchedStays DEF RealisedBy

LEMMA ClearedStays ==
  ASSUME NEW d \in GoodTables, NEW i \in Live(d)
  PROVE  LET e == Cleared(d, i)
         IN Stays(d, e) /\ e.txn = d.txn /\ \A x \in e.disposals : ~Names(x, i)
<1> DEFINE left == {x \in d.disposals : ~Names(x, i)}
           e == Cleared(d, i)
<1>1. e \in Tables /\ e.txn = d.txn /\ e.sched = d.sched /\ e.disposals = left
  BY DEF Cleared, GoodTables, Tables
<1>2. Live(e) = Live(d)
  BY <1>1 DEF Live
<1>3. References(e)
  BY <1>1, <1>2 DEF References, GoodTables
<1> QED BY <1>1, <1>2, <1>3 DEF Stays, GoodTables

(* A row goes once nothing names it.                                       *)
LEMMA RemovedGood ==
  ASSUME NEW d \in GoodTables, NEW i \in Live(d), RealisedBy(d, i) = {},
         \A x \in d.disposals : ~Names(x, i)
  PROVE  LET e == Removed(d, i)
         IN e \in GoodTables /\ Len(e.txn) = Len(d.txn) /\ Live(e) = Live(d) \ {i}
<1> DEFINE e == Removed(d, i)
           new == [d.txn EXCEPT ![i] = None]
<1>1. new \in Seq(Row \cup {None}) /\ Len(new) = Len(d.txn)
  BY RowTyped, ExceptSeq DEF GoodTables, Tables
<1>2. \A j \in DOMAIN d.txn : new[j] = IF j = i THEN None ELSE d.txn[j]
  BY RowTyped
<1> HIDE DEF new
<1>3. e = [d EXCEPT !.txn = new]
  BY DEF Removed, new
<1>4. e \in Tables /\ e.txn = new /\ e.sched = d.sched /\ e.disposals = d.disposals
  BY <1>1, <1>3 DEF GoodTables, Tables
<1>5. DOMAIN new = DOMAIN d.txn
  BY <1>1 DEF GoodTables, Tables
<1>6. Live(e) = Live(d) \ {i}
  BY <1>2, <1>4, <1>5 DEF Live
<1>7. References(e)
  BY <1>4, <1>6, NamesDistinct, RowTyped DEF References, GoodTables, RealisedBy, Names
<1> QED BY <1>1, <1>4, <1>6, <1>7 DEF GoodTables

LEMMA InsertedGood ==
  ASSUME NEW d \in GoodTables, NEW body \in Body
  PROVE  LET e == Inserted(d, body)
         IN /\ e \in GoodTables /\ Len(e.txn) = Len(d.txn) + 1
            /\ Live(e) = Live(d) \cup {Len(d.txn) + 1}
            /\ body.type = "DIV_PAY" => Quiet(d, e)
<1> DEFINE e == Inserted(d, body)
           row == [type |-> body.type, date |-> body.date, price |-> body.price,
                   gbp |-> None, withheld |-> body.withheld]
           new == Append(d.txn, row)
           n == Len(d.txn) + 1
<1>1. row \in Row /\ row.type = body.type
  BY DEF Row, Body
<1> HIDE DEF row
<1>2. d.txn \in Seq(Row \cup {None})
  BY DEF GoodTables, Tables
<1>3. new \in Seq(Row \cup {None}) /\ Len(new) = n /\ new[n] = row /\ Len(d.txn) \in Nat
      /\ DOMAIN new = 1 .. n /\ DOMAIN d.txn = 1 .. Len(d.txn)
      /\ \A j \in DOMAIN d.txn : new[j] = d.txn[j]
  BY <1>1, <1>2
<1>4. e = [d EXCEPT !.txn = new]
  BY DEF Inserted, row, GoodTables, Tables
<1> HIDE DEF new
<1>5. e \in Tables /\ e.txn = new /\ e.sched = d.sched /\ e.disposals = d.disposals /\ e.pool = d.pool
  BY <1>3, <1>4 DEF GoodTables, Tables
<1>6. Live(e) = Live(d) \cup {n}
  BY <1>1, <1>3, <1>5, NamesDistinct DEF Live
<1>7. References(e)
  BY <1>5, <1>6 DEF References, GoodTables
<1>8. ASSUME body.type = "DIV_PAY"
      PROVE  Trades(e) = Trades(d)
  <2>1. {j \in Live(e) : e.txn[j].type # "DIV_PAY"} = {j \in Live(d) : d.txn[j].type # "DIV_PAY"}
    BY <1>1, <1>3, <1>5, <1>6, <1>8 DEF Live
  <2>2. \A j \in Live(d) : e.txn[j] = d.txn[j]
    BY <1>3, <1>5 DEF Live
  <2> QED BY <2>1, <2>2 DEF Trades
<1> QED BY <1>3, <1>5, <1>6, <1>7, <1>8 DEF GoodTables, Quiet

LEMMA TradesTyped ==
  ASSUME NEW d \in GoodTables
  PROVE  Trades(d) \in SUBSET Trade /\ IsFiniteSet(Trades(d)) /\ IdsDiffer(Trades(d))
<1> DEFINE S == {j \in Live(d) : d.txn[j].type # "DIV_PAY"}
           T == [j \in S |-> [id |-> j, type |-> d.txn[j].type, date |-> d.txn[j].date,
                         gbp |-> d.txn[j].gbp]]
<1>1. \A j \in S : j \in 1 .. Len(d.txn) /\ j \in Nat /\ Len(d.txn) \in Nat /\ d.txn[j] \in Row
  BY RowTyped
<1>2. \A j \in S : T[j] \in Trade
  <2> SUFFICES ASSUME NEW j \in S PROVE T[j] \in Trade
    OBVIOUS
  <2>1. j \in Nat /\ d.txn[j].type \in Types \ {"DIV_PAY"} /\ d.txn[j].date \in Nat
        /\ d.txn[j].gbp \in Figures \cup {None}
    BY <1>1 DEF Row
  <2> QED BY <2>1 DEF Trade
<1>3. IsFiniteSet(S)
  <2>1. Len(d.txn) \in Nat
    BY DEF GoodTables, Tables
  <2>2. S \subseteq 1 .. Len(d.txn)
    BY <1>1
  <2>3. IsFiniteSet(1 .. Len(d.txn))
    BY <2>1, FS_Interval
  <2> HIDE DEF S
  <2> QED BY <2>2, <2>3, FS_Subset
<1>4. IsFiniteSet({T[j] : j \in S})
  <2>1. T \in Surjection(S, {T[j] : j \in S})
    BY DEF Surjection
  <2> HIDE DEF S, T
  <2> QED BY <1>3, <2>1, FS_Surjection
<1>5. Trades(d) = {T[j] : j \in S}
  BY DEF Trades, S, T
<1>6. \A j \in S : T[j].id = j
  BY DEF T
<1> HIDE DEF S, T
<1>7. IdsDiffer(Trades(d))
  <2>1. SUFFICES ASSUME NEW s \in Trades(d), NEW t \in Trades(d), s.id = t.id PROVE s = t
    BY DEF IdsDiffer
  <2>2. PICK j \in S : s = T[j]
    BY <1>5
  <2>3. PICK k \in S : t = T[k]
    BY <1>5
  <2> QED BY <1>6, <2>1, <2>2, <2>3
<1>8. Trades(d) \in SUBSET Trade
  BY <1>2, <1>5
<1> QED BY <1>4, <1>5, <1>7, <1>8

LEMMA RecalculatedGood ==
  ASSUME MatchSound, NEW d \in GoodTables
  PROVE  /\ Recalculated(d) \in Seq(GoodTables)
         /\ Recalculated(d) = <<>> => ~Matched(d).accepted
         /\ Recalculated(d) # <<>> =>
              LET e == Recalculated(d)[Len(Recalculated(d))]
              IN Stays(d, e) /\ Follows(e)
<1> DEFINE a == Replaced(d)
           b == Saved(a)
<1>1. CASE ~Matched(d).accepted
  BY <1>1 DEF Recalculated
<1>2. CASE Matched(d).accepted
  <2>1. Matched(d) \in Outcome
    BY TradesTyped DEF MatchSound, SoundOn, Matched
  <2>2. a \in Tables /\ a.txn = d.txn /\ a.sched = d.sched /\ a.disposals = Matched(d).disposals
    BY <2>1 DEF Replaced, GoodTables, Tables, Outcome
  <2>3. Live(a) = Live(d) /\ Trades(a) = Trades(d)
    BY <2>2 DEF Live, Trades
  <2>4. {t.id : t \in Trades(d)} \subseteq Live(d)
    BY DEF Trades
  <2>5. References(a)
    BY <2>2, <2>3, <2>4, TradesTyped DEF References, GoodTables, MatchSound, SoundOn, Matched
  <2>6. b \in Tables /\ b.txn = a.txn /\ b.sched = a.sched /\ b.disposals = a.disposals
        /\ b.pool = Matched(a).pool
    BY <2>1, <2>2, <2>3 DEF Saved, Tables, Outcome, Matched
  <2>7. Live(b) = Live(d) /\ Trades(b) = Trades(d)
    BY <2>2, <2>6 DEF Live, Trades
  <2>8. References(b)
    BY <2>3, <2>5, <2>6, <2>7 DEF References
  <2>9. Follows(b)
    BY <2>2, <2>3, <2>6, <2>7 DEF Follows, Matched
  <2>10. a \in GoodTables /\ b \in GoodTables /\ Stays(d, b)
    BY <2>2, <2>5, <2>6, <2>7, <2>8 DEF GoodTables, Stays
  <2>11. Recalculated(d) = <<a, b>>
    BY <1>2 DEF Recalculated
  <2> HIDE DEF a, b
  <2> QED BY <2>9, <2>10, <2>11
<1> QED BY <1>1, <1>2

-----------------------------------------------------------------------------
(* Handlers as sequences of statements *)

Last(steps) == steps[Len(steps)]

(* Every table on the way is good, the last one is e.                      *)
Reaches(steps, e) == steps \in Seq(GoodTables) /\ steps # <<>> /\ Last(steps) = e

LEMMA OneStep == ASSUME NEW a \in GoodTables PROVE Reaches(<<a>>, a)
  BY DEF Reaches, Last
LEMMA TwoSteps ==
  ASSUME NEW a \in GoodTables, NEW b \in GoodTables PROVE Reaches(<<a, b>>, b)
  BY DEF Reaches, Last
LEMMA ThreeSteps ==
  ASSUME NEW a \in GoodTables, NEW b \in GoodTables, NEW c \in GoodTables
  PROVE  Reaches(<<a, b, c>>, c)
  BY DEF Reaches, Last
LEMMA FourSteps ==
  ASSUME NEW a \in GoodTables, NEW b \in GoodTables, NEW c \in GoodTables, NEW d \in GoodTables
  PROVE  Reaches(<<a, b, c, d>>, d)
  BY DEF Reaches, Last

LEMMA ConcatReaches ==
  ASSUME NEW s, NEW d, NEW t \in Seq(GoodTables), Reaches(s, d)
  PROVE  Reaches(s \o t, IF t = <<>> THEN d ELSE Last(t))
<1>1. s \o t \in Seq(GoodTables) /\ Len(s \o t) = Len(s) + Len(t) /\ Len(s) \in Nat /\ Len(t) \in Nat
      /\ Len(s) > 0
  BY ConcatProperties, EmptySeq DEF Reaches
<1>2. CASE t = <<>>
  BY <1>2, ConcatEmptySeq DEF Reaches
<1>3. CASE t # <<>>
  <2>1. Len(t) > 0 /\ Len(s \o t) \in 1 .. Len(s) + Len(t)
    BY <1>1, <1>3, EmptySeq
  <2>2. (s \o t)[Len(s \o t)] = t[Len(t)]
    BY <1>1, <2>1, ConcatProperties DEF Reaches
  <2>3. s \o t # <<>>
    BY <1>1, <2>1, EmptySeq
  <2> QED BY <1>1, <1>3, <2>2, <2>3 DEF Reaches, Last
<1> QED BY <1>2, <1>3

LEMMA ThenRecalculated ==
  ASSUME MatchSound, NEW steps, NEW d \in GoodTables, Reaches(steps, d)
  PROVE  \E e : Reaches(steps \o Recalculated(d), e) /\ Stays(d, e) /\ Follows(e)
<1>1. CASE Recalculated(d) = <<>>
  BY <1>1, RecalculatedGood, ConcatReaches DEF Stays, Follows
<1>2. CASE Recalculated(d) # <<>>
  BY <1>2, RecalculatedGood, ConcatReaches DEF Last
<1> QED BY <1>1, <1>2

-----------------------------------------------------------------------------
(* Calls, and how a handler's end leaves them *)

LEMMA IdleTyped == Idle \in CallState /\ \A d : CallFits(Idle, d) /\ ~Owes(Idle, d)
<1>1. <<>> \in Seq(Body)
  OBVIOUS
<1> QED BY <1>1 DEF Idle, CallState, CallFits, Owes

(* Calls go on fitting as rows are added, and whatever one of them does.   *)
LEMMA FitsKept ==
  ASSUME NEW calls, NEW d \in GoodTables, NEW e \in GoodTables, Len(d.txn) <= Len(e.txn),
         Fits(calls, d), NEW r \in Requests, NEW c \in CallState, CallFits(c, e)
  PROVE  Fits(calls, e) /\ Fits([calls EXCEPT ![r] = c], e)
<1>1. d.txn \in Seq(Row \cup {None}) /\ e.txn \in Seq(Row \cup {None})
  BY DEF GoodTables, Tables
<1>2. DOMAIN d.txn \subseteq DOMAIN e.txn
  BY <1>1
<1> QED BY <1>2 DEF Fits, CallFits

(* A step of one call leaves the derived rows covered when it passes on    *)
(* what that call owed.                                                    *)
LEMMA CoveredKept ==
  ASSUME NEW calls \in [Requests -> CallState], NEW r \in Requests, NEW c,
         NEW d, NEW e, NEW flag, NEW new, Covered(calls, d, flag), Live(d) \subseteq Live(e),
         flag => new, Follows(d) => Follows(e) \/ new \/ Owes(c, e),
         Owes(calls[r], d) => new \/ Owes(c, e)
  PROVE  Covered([calls EXCEPT ![r] = c], e, new)
<1>1. \A q \in Requests : q # r /\ Owes(calls[q], d) => Owes([calls EXCEPT ![r] = c][q], e)
  BY DEF Owes
<1>2. [calls EXCEPT ![r] = c][r] = c
  OBVIOUS
<1> QED BY <1>1, <1>2 DEF Covered

LEMMA HaltKeeps == ASSUME db' \in GoodTables, Halt PROVE IInv'
<1>1. Fits(request', db')
  BY IdleTyped DEF Halt, Fits
<1> QED BY <1>1 DEF IInv, Halt

LEMMA PerformsKeeps ==
  ASSUME NEW steps, NEW e, Reaches(steps, e), NEW calls, NEW flag \in BOOLEAN,
         Fits(calls, e), Covered(calls, e, flag), Performs(steps, calls, flag)
  PROVE  IInv'
<1>1. CASE db' = steps[Len(steps)] /\ request' = calls /\ unsynced' = flag
           /\ server' = "up" /\ todo' = {}
  <2>1. Len(steps) \in 1 .. Len(steps) /\ e = steps[Len(steps)] /\ e \in GoodTables
    BY EmptySeq DEF Reaches, Last
  <2> QED BY <1>1, <2>1 DEF IInv
<1>2. CASE (\E k \in 1 .. Len(steps) - 1 : db' = steps[k]) /\ Halt
  <2>1. db' \in GoodTables
    BY <1>2 DEF Reaches
  <2> QED BY <1>2, <2>1, HaltKeeps
<1> QED BY <1>1, <1>2 DEF Performs

(* The end of a handler that recalculates.                                 *)
LEMMA RecalculatingKeeps ==
  ASSUME MatchSound, NEW steps, NEW d \in GoodTables, Reaches(steps, d),
         NEW calls, Fits(calls, d), Performs(steps \o Recalculated(d), calls, FALSE)
  PROVE  IInv'
<1>1. PICK e : Reaches(steps \o Recalculated(d), e) /\ Stays(d, e) /\ Follows(e)
  BY ThenRecalculated
<1>2. DOMAIN e.txn = DOMAIN d.txn
  BY <1>1 DEF Stays, GoodTables, Tables
<1>3. Fits(calls, e)
  BY <1>2 DEF Fits, CallFits
<1>4. Covered(calls, e, FALSE)
  BY <1>1 DEF Covered
<1> QED BY <1>1, <1>3, <1>4, PerformsKeeps

(* The call that goes on with the row just inserted.                       *)
LEMMA CreatingFits ==
  ASSUME NEW d \in GoodTables, NEW rows \in Seq(Body), rows # <<>>,
         NEW op \in {"post", "import", "dividends"}, NEW touched \in BOOLEAN,
         op = "dividends" => \A k \in DOMAIN rows : rows[k].type = "DIV_PAY"
  PROVE  LET c == Creating(op, d, rows, touched)
             e == Inserted(d, Head(rows))
         IN /\ e \in GoodTables /\ Len(d.txn) <= Len(e.txn) /\ Live(d) \subseteq Live(e)
            /\ c \in CallState /\ CallFits(c, e)
            /\ op # "dividends" => Owes(c, e)
            /\ op = "dividends" => Quiet(d, e)
<1> DEFINE c == Creating(op, d, rows, touched)
           e == Inserted(d, Head(rows))
<1>1. Head(rows) \in Body /\ Tail(rows) \in Seq(Body) /\ Head(rows) = rows[1] /\ 1 \in DOMAIN rows
  BY EmptySeq
<1>2. e \in GoodTables /\ Len(e.txn) = Len(d.txn) + 1 /\ Live(e) = Live(d) \cup {Len(d.txn) + 1}
      /\ (Head(rows).type = "DIV_PAY" => Quiet(d, e))
  BY <1>1, InsertedGood
<1>3. Len(d.txn) \in Nat
  BY DEF GoodTables, Tables
<1>4. c \in CallState /\ c.row # None /\ c.op = op /\ c.id = Len(d.txn) + 1 /\ c.left = Tail(rows)
  <2>1. /\ Head(rows).type \in Types /\ Head(rows).date \in Nat /\ Head(rows).price \in Nat
        /\ Len(d.txn) + 1 \in Nat /\ op \in {"post", "patch", "import", "dividends"}
    BY <1>1, <1>3 DEF Body
  <2>2. c = Call(op, Len(d.txn) + 1, Head(rows), Tail(rows), touched)
    BY DEF Creating
  <2> HIDE DEF c
  <2>3. Tail(rows) \in Seq(Body)
    BY <1>1
  <2> QED BY <2>1, <2>2, <2>3, NamesDistinct DEF Call, Fields, CallState, Terms
<1>5. c.id \in DOMAIN e.txn
  BY <1>2, <1>3, <1>4 DEF GoodTables, Tables
<1>6. \A k \in DOMAIN Tail(rows) : k + 1 \in DOMAIN rows /\ Tail(rows)[k] = rows[k + 1]
  BY <1>1
<1>7. op = "dividends" => \A k \in DOMAIN c.left : c.left[k].type = "DIV_PAY"
  BY <1>4, <1>6
<1> HIDE DEF c, e
<1>8. CallFits(c, e)
  BY <1>4, <1>5, <1>7 DEF CallFits
<1>9. op # "dividends" => Owes(c, e)
  BY <1>2, <1>4 DEF Owes
<1> QED BY <1>1, <1>2, <1>3, <1>4, <1>8, <1>9 DEF c, e

-----------------------------------------------------------------------------
(* Each action keeps the invariant *)

LEMMA BusyCall ==
  ASSUME IInv, NEW r \in Requests, Busy(r)
  PROVE  /\ request[r] \in CallState /\ request[r].row \in Terms /\ CallFits(request[r], db)
         /\ request \in [Requests -> CallState] /\ Fits(request, db)
         /\ db \in GoodTables /\ unsynced \in BOOLEAN /\ Covered(request, db, unsynced)
BY DEF IInv, Busy, Fits, CallFits, CallState

LEMMA PricedCall ==
  ASSUME IInv, NEW r \in Requests, Busy(r)
  PROVE  LET c == request[r]
         IN /\ Stays(db, PricedBy(c)) /\ (~IsTrade(db, c.id) => Quiet(db, PricedBy(c)))
            /\ Stays(PricedBy(c), FreedBy(c)) /\ Quiet(PricedBy(c), FreedBy(c))
            /\ (Refused(c) => ~Owes(c, db) /\ PricedBy(c) = db)
<1> DEFINE c == request[r]
<1>1. Stays(db, PricedBy(c)) /\ (~IsTrade(db, c.id) => Quiet(db, PricedBy(c)))
  BY BusyCall, PricedStays DEF PricedBy
<1>2. Stays(PricedBy(c), FreedBy(c)) /\ Quiet(PricedBy(c), FreedBy(c))
  <2>1. PricedBy(c) \in GoodTables
    BY <1>1 DEF Stays
  <2>2. CASE c.op = "patch"
    BY <2>1, <2>2, UnlinkedStays DEF FreedBy, Freed
  <2>3. CASE c.op # "patch"
    BY <2>1, <2>3 DEF FreedBy, Freed, Stays, Quiet
  <2> QED BY <2>2, <2>3
<1>3. ASSUME Refused(c)
      PROVE  ~Owes(c, db) /\ PricedBy(c) = db
  <2>1. c.id \notin Live(db)
    BY <1>1, <1>2, <1>3 DEF Refused, LinkRefused, Stays
  <2> QED BY <2>1 DEF Owes, PricedBy, Priced
<1> QED BY <1>1, <1>2, <1>3

LEMMA LinkedCall ==
  ASSUME IInv, NEW r \in Requests, Busy(r), ~Refused(request[r])
  PROVE  LET c == request[r]
             done == Withheld(LinkedBy(c), c.id)
         IN /\ Stays(FreedBy(c), LinkedBy(c)) /\ Quiet(FreedBy(c), LinkedBy(c))
            /\ Stays(LinkedBy(c), done) /\ Quiet(LinkedBy(c), done)
            /\ Stays(db, LinkedBy(c)) /\ Stays(db, done)
<1> DEFINE c == request[r]
<1>1. Stays(db, PricedBy(c)) /\ Stays(PricedBy(c), FreedBy(c)) /\ FreedBy(c) \in GoodTables
  BY PricedCall DEF Stays
<1>2. Stays(FreedBy(c), LinkedBy(c)) /\ Quiet(FreedBy(c), LinkedBy(c))
  BY <1>1, BusyCall, LinkedStays DEF Refused, LinkedBy
<1>3. LinkedBy(c) \in GoodTables
  BY <1>2 DEF Stays
<1>4. Stays(LinkedBy(c), Withheld(LinkedBy(c), c.id)) /\ Quiet(LinkedBy(c), Withheld(LinkedBy(c), c.id))
  BY <1>3, WithheldStays
<1> QED BY <1>1, <1>2, <1>4, StaysQuietTransitive

LEMMA EndedFits ==
  ASSUME IInv, NEW r \in Requests, Busy(r), NEW e, Stays(db, e)
  PROVE  Fits(Ended(r), e)
<1>1. Len(db.txn) <= Len(e.txn) /\ db \in GoodTables /\ e \in GoodTables
  BY BusyCall DEF Stays, GoodTables, Tables
<1> QED BY <1>1, BusyCall, IdleTyped, FitsKept DEF Ended

LEMMA EndedCovered ==
  ASSUME IInv, NEW r \in Requests, Busy(r), NEW e, Stays(db, e), NEW flag, unsynced => flag,
         flag \/ (Quiet(db, e) /\ ~Owes(request[r], db))
  PROVE  Covered(Ended(r), e, flag)
<1>1. CASE flag
  BY <1>1 DEF Covered
<1>2. CASE ~flag
  <2>1. Follows(db) => Follows(e)
    BY <1>2, QuietFollows
  <2>2. Live(db) \subseteq Live(e)
    BY DEF Stays
  <2> QED BY <1>2, <2>1, <2>2, BusyCall, CoveredKept DEF Ended
<1> QED BY <1>1, <1>2

LEMMA CreateKeeps ==
  ASSUME IInv, NEW r \in Requests, NEW op \in {"post", "import", "dividends"},
         NEW rows \in Seq(Body), rows # <<>>,
         op = "dividends" => \A k \in DOMAIN rows : rows[k].type = "DIV_PAY",
         Create(r, op, rows)
  PROVE  IInv'
<1> DEFINE c == Creating(op, db, rows, FALSE)
           e == Inserted(db, Head(rows))
<1>1. /\ db \in GoodTables /\ Fits(request, db) /\ unsynced \in BOOLEAN /\ server = "up" /\ todo = {}
      /\ Covered(request, db, unsynced) /\ request \in [Requests -> CallState] /\ request[r] = Idle
  BY DEF IInv, Create, Ready, Fits
<1>2. /\ e \in GoodTables /\ Len(db.txn) <= Len(e.txn) /\ Live(db) \subseteq Live(e)
      /\ c \in CallState /\ CallFits(c, e)
      /\ (op # "dividends" => Owes(c, e))
      /\ (op = "dividends" => Quiet(db, e))
  BY <1>1, CreatingFits
<1>3. /\ db' = e /\ request' = [request EXCEPT ![r] = c]
      /\ server' = server /\ todo' = todo /\ unsynced' = unsynced
  BY DEF Create
<1> HIDE DEF c, e
<1>4. Fits(request', e)
  BY <1>1, <1>2, <1>3, FitsKept
<1>5. Follows(db) => Follows(e) \/ Owes(c, e)
  BY <1>2, QuietFollows
<1>6. Covered(request', e, unsynced)
  BY <1>1, <1>2, <1>3, <1>5, IdleTyped, CoveredKept
<1> QED BY <1>1, <1>2, <1>3, <1>4, <1>6 DEF IInv

LEMMA ContinueKeeps ==
  ASSUME MatchSound, IInv, NEW r \in Requests, Busy(r), request[r].op \in {"import", "dividends"},
         NEW steps, NEW e, Reaches(steps, e), Stays(db, e),
         NEW touched \in BOOLEAN, NEW flag \in BOOLEAN,
         request[r].op = "dividends" => ~touched,
         Covered(Ended(r), e, flag) \/ (request[r].op = "import" /\ touched),
         Continue(r, steps, touched, flag)
  PROVE  IInv'
<1> DEFINE c == request[r]
           next == Creating(c.op, e, c.left, touched)
           grown == Inserted(e, Head(c.left))
<1>1. steps[Len(steps)] = e /\ e \in GoodTables /\ Fits(Ended(r), e) /\ Live(e) = Live(db)
  BY EndedFits DEF Reaches, Last, Stays
<1>2. CASE c.left # <<>>
  <2>1. Performs(steps \o <<grown>>, [request EXCEPT ![r] = next], flag)
    BY <1>1, <1>2 DEF Continue
  <2>2. c.left \in Seq(Body) /\ (c.op = "dividends" => \A k \in DOMAIN c.left : c.left[k].type = "DIV_PAY")
    BY BusyCall DEF CallState, CallFits
  <2>3. /\ grown \in GoodTables /\ Len(e.txn) <= Len(grown.txn) /\ Live(e) \subseteq Live(grown)
        /\ next \in CallState /\ CallFits(next, grown)
        /\ (c.op # "dividends" => Owes(next, grown))
        /\ (c.op = "dividends" => Quiet(e, grown))
    BY <1>1, <1>2, <2>2, CreatingFits
  <2> HIDE DEF next, grown
  <2>4. [request EXCEPT ![r] = next] = [Ended(r) EXCEPT ![r] = next] /\ Ended(r)[r] = Idle
        /\ Ended(r) \in [Requests -> CallState]
    BY BusyCall, IdleTyped DEF Ended
  <2>5. Fits([request EXCEPT ![r] = next], grown)
    BY <1>1, <2>3, <2>4, FitsKept
  <2>6. Covered([request EXCEPT ![r] = next], grown, flag)
    <3>1. CASE c.op = "import"
      <4>1. [request EXCEPT ![r] = next][r] = next
        BY BusyCall
      <4> QED BY <2>3, <3>1, <4>1 DEF Covered
    <3>2. CASE c.op = "dividends"
      <4>1. Covered(Ended(r), e, flag) /\ (Follows(e) => Follows(grown))
        BY <2>3, <3>2, QuietFollows
      <4> QED BY <2>3, <2>4, <4>1, IdleTyped, CoveredKept
    <3> QED BY <3>1, <3>2
  <2>7. Reaches(steps \o <<grown>>, grown)
    <3>1. <<grown>> \in Seq(GoodTables) /\ <<grown>> # <<>> /\ Last(<<grown>>) = grown
      BY <2>3 DEF Last
    <3> QED BY <3>1, ConcatReaches
  <2> QED BY <2>1, <2>5, <2>6, <2>7, PerformsKeeps
<1>3. CASE c.left = <<>> /\ touched
  <2>1. Performs(steps \o Recalculated(e), Ended(r), FALSE)
    BY <1>1, <1>3 DEF Continue
  <2> QED BY <1>1, <2>1, RecalculatingKeeps
<1>4. CASE c.left = <<>> /\ ~touched
  <2>1. Performs(steps, Ended(r), flag) /\ Covered(Ended(r), e, flag)
    BY <1>4 DEF Continue
  <2> QED BY <1>1, <2>1, PerformsKeeps
<1> QED BY <1>2, <1>3, <1>4

LEMMA PostKeeps == ASSUME IInv, NEW r \in Requests, Post(r) PROVE IInv'
<1>1. PICK body \in Bodies : Create(r, "post", <<body>>)
  BY DEF Post
<1>2. <<body>> \in Seq(Body) /\ <<body>> # <<>>
  BY InputsTyped
<1> QED BY <1>1, <1>2, CreateKeeps

LEMMA ImportFileKeeps ==
  ASSUME IInv, NEW r \in Requests, ImportFile(r)
  PROVE  IInv'
<1>1. PICK file \in Files : Create(r, "import", file)
  BY DEF ImportFile
<1>2. file \in Seq(Body) /\ file # <<>>
  BY InputsTyped
<1> QED BY <1>1, <1>2, CreateKeeps

LEMMA ImportDividendsKeeps ==
  ASSUME IInv, NEW r \in Requests, ImportDividends(r)
  PROVE  IInv'
<1>10. PICK history \in Histories :
        \E places \in [1 .. Cardinality(ToInsert(history)) -> ToInsert(history)] :
          /\ ToInsert(history) # {}
          /\ Create(r, "dividends", [n \in DOMAIN places |-> Paid(history[places[n]])])
  BY DEF ImportDividends
<1>1. PICK places \in [1 .. Cardinality(ToInsert(history)) -> ToInsert(history)] :
        /\ ToInsert(history) # {}
        /\ Create(r, "dividends", [n \in DOMAIN places |-> Paid(history[places[n]])])
  BY <1>10
<1> DEFINE rows == [n \in DOMAIN places |-> Paid(history[places[n]])]
           N == Cardinality(ToInsert(history))
<1>2. history \in Seq(Dividend) /\ ToInsert(history) \subseteq 1 .. Len(history) /\ Len(history) \in Nat
  BY InputsTyped DEF ToInsert
<1>3. IsFiniteSet(ToInsert(history)) /\ N \in Nat /\ N # 0
  <2>1. IsFiniteSet(1 .. Len(history))
    BY <1>2, FS_Interval
  <2>2. IsFiniteSet(ToInsert(history))
    BY <1>2, <2>1, FS_Subset
  <2> QED BY <1>1, <2>2, FS_EmptySet, FS_CardinalityType
<1>4. \A k \in ToInsert(history) : Paid(history[k]) \in Body /\ Paid(history[k]).type = "DIV_PAY"
  <2>1. \A k \in ToInsert(history) : history[k] \in Dividend
    BY <1>2
  <2> QED BY <2>1 DEF Body, Dividend, Types, Paid
<1> HIDE DEF N
<1>5. DOMAIN places = 1 .. N /\ \A n \in 1 .. N : places[n] \in ToInsert(history)
  BY DEF N
<1>6. DOMAIN rows = 1 .. N /\ \A n \in 1 .. N : rows[n] \in Body /\ rows[n].type = "DIV_PAY"
  BY <1>4, <1>5
<1>7. rows = [n \in 1 .. N |-> rows[n]]
  BY <1>5
<1> HIDE DEF rows
<1>8. rows \in Seq(Body)
  BY <1>3, <1>6, <1>7
<1>9. rows # <<>>
  BY <1>3, <1>6, <1>8
<1> QED BY <1>1, <1>6, <1>8, <1>9, CreateKeeps DEF rows

LEMMA EditKeeps == ASSUME IInv, NEW r \in Requests, Edit(r) PROVE IInv'
<1>1. PICK i \in Live(db), patch \in Patches :
        LET row == Merged(db.txn[i], patch)
        IN /\ Ready(r) /\ db' = Updated(db, i, row)
           /\ request' = [request EXCEPT ![r] = Call("patch", i, row, <<>>, FALSE)]
           /\ UNCHANGED <<server, todo, unsynced>>
  BY DEF Edit
<1> DEFINE row == Merged(db.txn[i], patch)
           c == Call("patch", i, row, <<>>, FALSE)
<1>2. /\ db \in GoodTables /\ Fits(request, db) /\ unsynced \in BOOLEAN /\ server = "up" /\ todo = {}
      /\ Covered(request, db, unsynced) /\ request \in [Requests -> CallState]
  BY <1>1 DEF IInv, Ready, Fits
<1>3. db.txn[i] \in Row /\ patch \in Patch /\ i \in Nat /\ i \in DOMAIN db.txn
  BY <1>2, InputsTyped, RowTyped
<1>4. row \in Row
  <2>1. Or(patch.type, db.txn[i].type) \in Types /\ Or(patch.date, db.txn[i].date) \in Nat
        /\ Or(patch.price, db.txn[i].price) \in Nat
    BY <1>3 DEF Or, Row, Patch
  <2>2. \A kept \in Figures \cup {None, Typed} : Or(patch.withheld, kept) \in Figures \cup {None, Typed}
    BY <1>3 DEF Or, Patch
  <2>3. (IF WasAutoWithheld(db.txn[i]) THEN None ELSE db.txn[i].withheld) \in Figures \cup {None, Typed}
    BY <1>3 DEF Row
  <2> QED BY <1>3, <2>1, <2>2, <2>3 DEF Merged, Row
<1> HIDE DEF row
<1>5. c \in CallState /\ c.row # None /\ c.op = "patch" /\ c.id = i
  BY <1>3, <1>4, NamesDistinct DEF Call, Fields, CallState, Terms, Row
<1> HIDE DEF c
<1>6. db' = Updated(db, i, row) /\ request' = [request EXCEPT ![r] = c]
      /\ server' = server /\ todo' = todo /\ unsynced' = unsynced
  BY <1>1 DEF row, c
<1>7. Stays(db, db')
  BY <1>2, <1>4, <1>6, UpdatedStays
<1>8. Len(db.txn) <= Len(db'.txn) /\ db' \in GoodTables /\ DOMAIN db'.txn = DOMAIN db.txn
      /\ Live(db') = Live(db)
  BY <1>2, <1>7 DEF Stays, GoodTables, Tables
<1>9. CallFits(c, db')
  BY <1>3, <1>5, <1>8 DEF CallFits
<1>10. Fits(request', db')
  BY <1>2, <1>5, <1>6, <1>8, <1>9, FitsKept
<1>11. Owes(request'[r], db')
  BY <1>2, <1>5, <1>6, <1>8 DEF Owes
<1> QED BY <1>2, <1>6, <1>8, <1>10, <1>11 DEF IInv, Covered

LEMMA SaveKeeps == ASSUME MatchSound, IInv, NEW r \in Requests, Save(r) PROVE IInv'
<1> DEFINE c == request[r]
           done == Withheld(LinkedBy(c), c.id)
           steps == <<PricedBy(c), FreedBy(c), LinkedBy(c), done>>
<1>1. Busy(r) /\ ~Refused(c) /\ Performs(steps \o Recalculated(done), Ended(r), FALSE)
  BY DEF Save
<1>2. /\ Stays(db, PricedBy(c)) /\ Stays(PricedBy(c), FreedBy(c)) /\ Stays(FreedBy(c), LinkedBy(c))
      /\ Stays(LinkedBy(c), done) /\ Stays(db, done)
  BY <1>1, PricedCall, LinkedCall
<1> HIDE DEF done
<1>3. Reaches(steps, done) /\ done \in GoodTables
  BY <1>2, FourSteps DEF Stays
<1>4. Fits(Ended(r), done)
  BY <1>1, <1>2, EndedFits
<1> HIDE DEF steps
<1> QED BY <1>1, <1>3, <1>4, RecalculatingKeeps

LEMMA SaveRefusedKeeps == ASSUME IInv, NEW r \in Requests, SaveRefused(r) PROVE IInv'
<1> DEFINE c == request[r]
<1>1. Busy(r) /\ Refused(c) /\ Performs(<<PricedBy(c), FreedBy(c)>>, Ended(r), unsynced)
  BY DEF SaveRefused
<1>2. Stays(db, PricedBy(c)) /\ PricedBy(c) = db /\ ~Owes(c, db)
      /\ Stays(db, FreedBy(c)) /\ Quiet(db, FreedBy(c))
  BY <1>1, PricedCall
<1>3. Reaches(<<PricedBy(c), FreedBy(c)>>, FreedBy(c))
  BY <1>2, TwoSteps DEF Stays
<1>4. Fits(Ended(r), FreedBy(c)) /\ Covered(Ended(r), FreedBy(c), unsynced)
  BY <1>1, <1>2, EndedFits, EndedCovered
<1>5. unsynced \in BOOLEAN
  BY DEF IInv
<1> QED BY <1>1, <1>3, <1>4, <1>5, PerformsKeeps

LEMMA DbStays == IInv => Stays(db, db) /\ Quiet(db, db) /\ Reaches(<<db>>, db)
  BY OneStep DEF IInv, Stays, Quiet

LEMMA ImportRowKeeps == ASSUME MatchSound, IInv, NEW r \in Requests, ImportRow(r) PROVE IInv'
<1> DEFINE c == request[r]
<1>1. Busy(r) /\ c.op = "import" /\ unsynced \in BOOLEAN /\ c.touched \in BOOLEAN
  BY BusyCall DEF ImportRow, CallState
<1>2. CASE Refused(c)
  <2>1. Continue(r, <<db>>, c.touched, unsynced)
    BY <1>2 DEF ImportRow
  <2>2. Covered(Ended(r), db, unsynced)
    BY <1>1, <1>2, PricedCall, DbStays, EndedCovered
  <2> QED BY <1>1, <2>1, <2>2, DbStays, ContinueKeeps
<1>3. CASE ~Refused(c)
  <2> DEFINE done == Withheld(LinkedBy(c), c.id)
             steps == <<PricedBy(c), LinkedBy(c), done>>
  <2>1. Continue(r, steps, TRUE, unsynced)
    BY <1>3 DEF ImportRow
  <2>2. Stays(db, PricedBy(c)) /\ Stays(db, LinkedBy(c)) /\ Stays(db, done)
    BY <1>1, <1>3, PricedCall, LinkedCall
  <2> HIDE DEF done
  <2>3. Reaches(steps, done)
    BY <2>2, ThreeSteps DEF Stays
  <2> HIDE DEF steps
  <2> QED BY <1>1, <2>1, <2>2, <2>3, ContinueKeeps
<1> QED BY <1>2, <1>3

LEMMA ImportDividendKeeps ==
  ASSUME MatchSound, IInv, NEW r \in Requests, ImportDividend(r)
  PROVE  IInv'
<1> DEFINE c == request[r]
           flag == unsynced \/ IsTrade(db, c.id)
           done == Withheld(PricedBy(c), c.id)
           steps == <<PricedBy(c), done>>
<1>1. Busy(r) /\ c.op = "dividends" /\ unsynced \in BOOLEAN /\ Continue(r, steps, FALSE, flag)
  BY BusyCall DEF ImportDividend
<1>2. /\ Stays(db, PricedBy(c)) /\ (~flag => Quiet(db, PricedBy(c)))
      /\ Stays(PricedBy(c), done) /\ Quiet(PricedBy(c), done)
  BY <1>1, PricedCall, WithheldStays DEF Stays
<1> HIDE DEF done
<1>3. Stays(db, done) /\ (~flag => Quiet(db, done))
  BY <1>2, StaysQuietTransitive
<1>4. Reaches(steps, done)
  BY <1>2, TwoSteps DEF Stays
<1> HIDE DEF steps
<1>5. ~Owes(c, db) /\ flag \in BOOLEAN /\ (unsynced => flag)
  BY <1>1 DEF Owes, IsTrade
<1> HIDE DEF flag
<1>6. Covered(Ended(r), done, flag)
  BY <1>1, <1>3, <1>5, EndedCovered
<1> QED BY <1>1, <1>3, <1>4, <1>5, <1>6, ContinueKeeps

LEMMA RateFailsKeeps == ASSUME MatchSound, IInv, NEW r \in Requests, RateFails(r) PROVE IInv'
<1> DEFINE c == request[r]
<1>1. Busy(r) /\ unsynced \in BOOLEAN /\ c.touched \in BOOLEAN /\ Stays(db, db) /\ Quiet(db, db)
      /\ Reaches(<<db>>, db)
  BY DbStays, BusyCall DEF RateFails, CallState
<1>2. Fits(Ended(r), db) /\ Covered(Ended(r), db, TRUE)
  BY <1>1, EndedFits DEF Covered
<1>3. CASE c.op \in {"post", "patch"} /\ Performs(<<db>>, Ended(r), TRUE)
  BY <1>1, <1>2, <1>3, PerformsKeeps
<1>4. CASE c.op = "dividends" /\ Performs(<<db>>, Ended(r), unsynced)
  <2>1. Covered(Ended(r), db, unsynced)
    BY <1>1, <1>4, EndedCovered DEF Owes
  <2> QED BY <1>1, <1>2, <1>4, <2>1, PerformsKeeps
<1>5. CASE c.op = "import" /\ Continue(r, <<db>>, c.touched, TRUE)
  BY <1>1, <1>2, <1>5, ContinueKeeps
<1> QED BY <1>3, <1>4, <1>5 DEF RateFails

LEMMA DeleteKeeps == ASSUME MatchSound, IInv, NEW i \in Live(db), Delete(i) PROVE IInv'
<1> DEFINE cleared == Cleared(db, i)
           unlinked == Unlinked(cleared, i)
           removed == Removed(unlinked, i)
           steps == <<cleared, unlinked, removed>>
<1>1. server = "up" /\ Performs(steps \o Recalculated(removed), request, FALSE)
  BY DEF Delete
<1>2. db \in GoodTables /\ Fits(request, db) /\ i \in Nat /\ i # None
  BY RowTyped, NamesDistinct DEF IInv
<1>3. Stays(db, cleared) /\ \A x \in cleared.disposals : ~Names(x, i)
  BY <1>2, ClearedStays
<1> HIDE DEF cleared
<1>4. /\ Stays(cleared, unlinked) /\ unlinked.disposals = cleared.disposals
      /\ RealisedBy(unlinked, i) = {}
  BY <1>2, <1>3, UnlinkedStays DEF Stays, Quiet
<1> HIDE DEF unlinked
<1>5. removed \in GoodTables /\ Len(removed.txn) = Len(unlinked.txn)
  BY <1>3, <1>4, RemovedGood DEF Stays
<1> HIDE DEF removed
<1>6. Reaches(steps, removed)
  BY <1>3, <1>4, <1>5, ThreeSteps DEF Stays
<1>7. DOMAIN removed.txn = DOMAIN db.txn
  BY <1>2, <1>3, <1>4, <1>5 DEF Stays, GoodTables, Tables
<1>8. Fits(request, removed)
  BY <1>2, <1>7 DEF Fits, CallFits
<1> HIDE DEF steps
<1> QED BY <1>1, <1>5, <1>6, <1>8, RecalculatingKeeps

LEMMA RunTaxEngineKeeps == ASSUME MatchSound, IInv, RunTaxEngine PROVE IInv'
<1>1. /\ db \in GoodTables /\ Fits(request, db) /\ Matched(db).accepted
      /\ Performs(Recalculated(db), request, FALSE)
  BY DEF IInv, RunTaxEngine
<1> DEFINE e == Last(Recalculated(db))
<1>2. Recalculated(db) \in Seq(GoodTables) /\ Recalculated(db) # <<>> /\ Stays(db, e) /\ Follows(e)
  BY <1>1, RecalculatedGood DEF Last
<1> HIDE DEF e
<1>3. Reaches(Recalculated(db), e)
  BY <1>2 DEF Reaches, e
<1>4. DOMAIN e.txn = DOMAIN db.txn
  BY <1>1, <1>2 DEF Stays, GoodTables, Tables
<1>5. Fits(request, e) /\ Covered(request, e, FALSE)
  BY <1>1, <1>2, <1>4 DEF Fits, CallFits, Covered
<1> QED BY <1>1, <1>3, <1>5, PerformsKeeps

(* Steps on projections alone.                                             *)
LEMMA SchedKeeps ==
  ASSUME IInv, Stays(db, db'), Quiet(db, db'), db'.txn = db.txn,
         UNCHANGED <<request, server, unsynced>>,
         todo' \subseteq Pending(db'), server # "starting" => todo' = {}
  PROVE  IInv'
<1>1. db' \in GoodTables /\ Fits(request, db')
  BY DEF IInv, Stays, Fits, CallFits
<1>2. Covered(request, db, unsynced) => Covered(request, db', unsynced)
  BY QuietFollows DEF Covered, Owes, Stays
<1> QED BY <1>1, <1>2 DEF IInv

LEMMA ScheduleStays ==
  ASSUME IInv, NEW p \in Projections, NEW entry \in Scheduled \cup {None},
         entry # None => entry.realised = None
  PROVE  /\ Stays(db, Schedule(p, entry)) /\ Quiet(db, Schedule(p, entry))
         /\ Schedule(p, entry).txn = db.txn
<1> DEFINE sched == [db.sched EXCEPT ![p] = entry]
<1>1. db \in GoodTables /\ db.sched \in [Projections -> Scheduled \cup {None}]
  BY DEF IInv, GoodTables, Tables
<1>2. sched \in [Projections -> Scheduled \cup {None}]
  BY <1>1
<1>3. \A q \in Projections : sched[q] # None => sched[q].realised \in Live(db) \cup {None}
  BY <1>1 DEF GoodTables, References
<1>4. Schedule(p, entry) = [db EXCEPT !.sched = sched]
  BY <1>1 DEF Schedule, GoodTables, Tables
<1> HIDE DEF sched
<1> QED BY <1>1, <1>2, <1>3, <1>4, SchedStays

LEMMA ProjectKeeps == ASSUME IInv, NEW p \in Projections, Project(p) PROVE IInv'
<1>1. PICK e \in Entries : db' = Schedule(p, [type |-> e.type, date |-> e.date, realised |-> None])
  BY DEF Project
<1> DEFINE entry == [type |-> e.type, date |-> e.date, realised |-> None]
<1>2. entry \in Scheduled /\ entry.realised = None
  BY InputsTyped DEF Projection, Scheduled
<1> HIDE DEF entry
<1>3. Stays(db, db') /\ Quiet(db, db') /\ db'.txn = db.txn
  BY <1>1, <1>2, ScheduleStays DEF entry
<1>4. todo' = {} /\ UNCHANGED <<request, server, unsynced>> /\ server # "starting"
  BY DEF Project, IInv
<1> QED BY <1>3, <1>4, SchedKeeps

LEMMA UnprojectKeeps == ASSUME IInv, NEW p \in Projections, Unproject(p) PROVE IInv'
<1>1. Stays(db, db') /\ Quiet(db, db') /\ db'.txn = db.txn
  BY ScheduleStays DEF Unproject
<1>2. todo' = {} /\ UNCHANGED <<request, server, unsynced>> /\ server # "starting"
  BY DEF Unproject, IInv
<1> QED BY <1>1, <1>2, SchedKeeps

LEMMA BackfillProjectionKeeps ==
  ASSUME IInv, NEW p \in Projections, BackfillProjection(p)
  PROVE  IInv'
<1> DEFINE entry == db.sched[p]
           found == [i \in Realising(db, entry) |-> db.txn[i].date]
<1>1. /\ db \in GoodTables /\ p \in todo /\ todo \subseteq Pending(db) /\ todo' = todo \ {p}
      /\ UNCHANGED <<request, server, unsynced>> /\ server = "starting"
      /\ db' = IF Realising(db, entry) = {} THEN db ELSE Realised(db, p, Best(found, entry.date))
  BY DEF IInv, BackfillProjection
<1>2. entry \in Scheduled /\ entry.date \in Nat
  BY <1>1 DEF Pending, GoodTables, Tables, Scheduled
<1>3. CASE Realising(db, entry) = {}
  <2>1. Stays(db, db') /\ Quiet(db, db') /\ db'.txn = db.txn
    BY <1>1, <1>3 DEF Stays, Quiet
  <2> QED BY <1>1, <1>3, <2>1, SchedKeeps
<1>4. CASE Realising(db, entry) # {}
  <2>1. \A i \in Realising(db, entry) : i \in Live(db) /\ i \in Nat /\ db.txn[i] \in Row
    BY <1>1, RowTyped DEF Realising
  <2>2. DOMAIN found = Realising(db, entry) /\ DOMAIN found \in SUBSET Nat
        /\ \A i \in DOMAIN found : found[i] \in Nat
    BY <2>1 DEF Row
  <2> DEFINE i == Best(found, entry.date)
  <2> HIDE DEF found
  <2>3. i \in Live(db)
    BY <1>2, <1>4, <2>1, <2>2, BestFound
  <2> HIDE DEF i
  <2>4. db' = Realised(db, p, i)
    BY <1>1, <1>4 DEF i, found
  <2>5. Stays(db, db') /\ Quiet(db, db') /\ db'.sched = [db.sched EXCEPT ![p].realised = i]
    BY <1>1, <2>3, <2>4, RealisedStays
  <2>6. db'.txn = db.txn
    BY <1>1, <2>4 DEF Realised, GoodTables, Tables
  <2>7. todo' \subseteq Pending(db')
    BY <1>1, <2>5 DEF Pending, GoodTables, Tables
  <2> QED BY <1>1, <2>5, <2>6, <2>7, SchedKeeps
<1> QED BY <1>3, <1>4

LEMMA BackfillWithholdingStays ==
  ASSUME NEW d \in GoodTables
  PROVE  Stays(d, BackfillWithholding(d))
<1> DEFINE e == BackfillWithholding(d)
           new == [i \in DOMAIN d.txn |-> IF d.txn[i] = None THEN None ELSE WithholdingOf(d.txn[i])]
           N == Len(d.txn)
<1>1. d.txn \in Seq(Row \cup {None}) /\ DOMAIN d.txn = 1 .. Len(d.txn) /\ Len(d.txn) \in Nat
  BY DEF GoodTables, Tables
<1>2. \A i \in Live(d) : WithholdingOf(d.txn[i]) \in Row /\ WithholdingOf(d.txn[i]) # None
  BY RowTyped, WithholdingTyped, NamesDistinct
<1>3. \A i \in 1 .. N : new[i] \in Row \cup {None} /\ (new[i] = None <=> d.txn[i] = None)
  BY <1>1, <1>2 DEF Live
<1>4. new = [i \in 1 .. N |-> new[i]]
  BY <1>1
<1>5. e = [d EXCEPT !.txn = new]
  BY DEF BackfillWithholding
<1> HIDE DEF new
<1>6. new \in Seq(Row \cup {None}) /\ Len(new) = Len(d.txn) /\ DOMAIN new = DOMAIN d.txn
  <2>1. N \in Nat
    BY <1>1
  <2> HIDE DEF N
  <2>2. new \in Seq(Row \cup {None}) /\ Len(new) = N /\ DOMAIN new = 1 .. N
    BY <1>3, <1>4, <2>1
  <2> QED BY <1>1, <2>2 DEF N
<1>7. e \in Tables /\ e.txn = new /\ e.sched = d.sched /\ e.disposals = d.disposals
  BY <1>5, <1>6 DEF GoodTables, Tables
<1>8. Live(e) = Live(d)
  BY <1>1, <1>3, <1>6, <1>7 DEF Live
<1>9. References(e)
  BY <1>7, <1>8 DEF References, GoodTables
<1> QED BY <1>6, <1>7, <1>8, <1>9 DEF Stays, GoodTables

LEMMA BootKeeps == ASSUME MatchSound, IInv, Boot PROVE IInv'
<1> DEFINE d == BackfillWithholding(db)
<1>1. db \in GoodTables /\ Fits(request, db) /\ Performs(<<d>> \o Recalculated(d), request, FALSE)
  BY DEF IInv, Boot
<1>2. Stays(db, d)
  BY <1>1, BackfillWithholdingStays
<1> HIDE DEF d
<1>3. Reaches(<<d>>, d) /\ d \in GoodTables /\ DOMAIN d.txn = DOMAIN db.txn
  BY <1>1, <1>2, OneStep DEF Stays, GoodTables, Tables
<1>4. Fits(request, d)
  BY <1>1, <1>3 DEF Fits, CallFits
<1> QED BY <1>1, <1>3, <1>4, RecalculatingKeeps

-----------------------------------------------------------------------------
LEMMA InitHolds == MatchSound /\ Init => IInv
<1> SUFFICES ASSUME MatchSound, Init PROVE IInv
  OBVIOUS
<1>1. db.txn \in Seq(Row \cup {None}) /\ Live(db) = {}
  BY DEF Init, Live
<1>2. db \in GoodTables
  BY <1>1, NamesDistinct DEF Init, GoodTables, Tables, References, Pool
<1>3. Fits(request, db)
  BY IdleTyped DEF Init, Fits
<1>4. Trades(db) = {}
  BY <1>1 DEF Trades
<1>5. Matched(db).disposals = {} /\ Matched(db).pool = [in |-> {}, out |-> 0]
  <2>1. {} \in SUBSET Trade /\ IsFiniteSet({}) /\ IdsDiffer({})
    BY FS_EmptySet DEF IdsDiffer
  <2>2. SoundOn({})
    BY <2>1 DEF MatchSound
  <2> QED BY <1>4, <2>2 DEF Matched, SoundOn
<1>6. Follows(db)
  BY <1>5 DEF Init, Follows
<1> QED BY <1>2, <1>3, <1>6 DEF IInv, Init, Covered

LEMMA NextKeeps == MatchSound /\ IInv /\ [Next]_vars => IInv'
<1> SUFFICES ASSUME MatchSound, IInv, [Next]_vars PROVE IInv'
  OBVIOUS
<1>1. ASSUME NEW r \in Requests, Post(r) \/ ImportFile(r) \/ ImportDividends(r) \/ Edit(r)
      PROVE  IInv'
  BY <1>1, PostKeeps, ImportFileKeeps, ImportDividendsKeeps, EditKeeps
<1>2. ASSUME NEW r \in Requests, Save(r) \/ SaveRefused(r) \/ ImportRow(r) \/ ImportDividend(r)
      PROVE  IInv'
  BY <1>2, SaveKeeps, SaveRefusedKeeps, ImportRowKeeps, ImportDividendKeeps
<1>3. ASSUME NEW r \in Requests, RateFails(r) PROVE IInv'
  BY <1>3, RateFailsKeeps
<1>4. ASSUME NEW i \in Live(db), Delete(i) PROVE IInv'
  BY <1>4, DeleteKeeps
<1>5. ASSUME NEW p \in Projections, Project(p) \/ Unproject(p) \/ BackfillProjection(p) PROVE IInv'
  BY <1>5, ProjectKeeps, UnprojectKeeps, BackfillProjectionKeeps
<1>6. CASE RunTaxEngine
  BY <1>6, RunTaxEngineKeeps
<1>7. CASE Stop
  BY <1>7, HaltKeeps DEF Stop, IInv
<1>8. CASE Start
  BY <1>8 DEF Start, IInv
<1>9. CASE Boot
  BY <1>9, BootKeeps
<1>10. CASE UNCHANGED vars
  BY <1>10 DEF vars, IInv, Fits, CallFits, Covered, Owes, Live, Follows, Matched, Trades, Pending
<1> QED BY <1>1, <1>2, <1>3, <1>4, <1>5, <1>6, <1>7, <1>8, <1>9, <1>10 DEF Next

LEMMA Inductive == ASSUME MatchSound PROVE Spec => []IInv
<1>1. Init => IInv
  BY InitHolds
<1>2. IInv /\ [Next]_vars => IInv'
  BY NextKeeps
<1> QED BY <1>1, <1>2, PTL DEF Spec

(* Tables and calls keep their types, whatever the calls and stops.        *)
THEOREM TypeCorrect == ASSUME MatchSound PROVE Spec => []TypeOK
BY Inductive, IInvSuffices, PTL

(* After every way in which calls can overlap, fail or be cut off by a     *)
(* stop, disposals and pool are those of the ledger once nothing is under  *)
(* way that would recalculate.                                             *)
THEOREM DerivedCorrect == ASSUME MatchSound PROVE Spec => []DerivedFollows
BY Inductive, IInvSuffices, PTL

(* No projection and no disposal ever names a row that is gone.            *)
THEOREM ReferencesCorrect == ASSUME MatchSound PROVE Spec => []ReferencesLive
BY Inductive, IInvSuffices, PTL

-----------------------------------------------------------------------------
(* What no step may do                                                     *)
(*                                                                         *)
(* A step of a handler goes from table to table; each statement leaves     *)
(* what was typed, and the links of all rows but those it is about (loose):*)
(* none, or the one row that is edited or deleted, whose projection may    *)
(* come free, and be linked again only to that same row.                   *)
KeepsTyped(d, e) ==
  /\ DOMAIN d.txn \subseteq DOMAIN e.txn
  /\ \A i \in DOMAIN d.txn : i \in Live(e) =>
       i \in Live(d) /\ (d.txn[i].withheld = Typed => e.txn[i].withheld = Typed)

LinksKept(d, e, loose) ==
  \A p \in Projections :
    /\ d.sched[p] = None <=> e.sched[p] = None
    /\ d.sched[p] # None =>
         /\ d.sched[p].realised \notin loose \cup {None} => e.sched[p].realised = d.sched[p].realised
         /\ loose # {} /\ d.sched[p].realised \in loose \cup {None} =>
              e.sched[p].realised \in loose \cup {None}

Onward(d, loose) == {e \in GoodTables : KeepsTyped(d, e) /\ LinksKept(d, e, loose)}

LEMMA OnwardTransitive ==
  ASSUME NEW loose, NEW d, NEW e \in Onward(d, loose), NEW f \in Onward(e, loose)
  PROVE  f \in Onward(d, loose)
<1>1. KeepsTyped(d, f)
  BY DEF Onward, KeepsTyped
<1>2. LinksKept(d, f, loose)
  BY DEF Onward, LinksKept
<1> QED BY <1>1, <1>2 DEF Onward

(* The rows, or the projections, are left alone.                           *)
LEMMA SameRowsOnward ==
  ASSUME NEW loose, NEW d, NEW e \in GoodTables, e.txn = d.txn, LinksKept(d, e, loose)
  PROVE  e \in Onward(d, loose)
BY DEF Onward, KeepsTyped, Live

LEMMA SameSchedOnward ==
  ASSUME NEW loose, NEW d, NEW e \in GoodTables, e.sched = d.sched, KeepsTyped(d, e)
  PROVE  e \in Onward(d, loose)
BY DEF Onward, LinksKept

LEMMA UpdatedOnward ==
  ASSUME NEW loose, NEW d \in GoodTables, NEW i \in Live(d), NEW row \in Row,
         d.txn[i].withheld = Typed => row.withheld = Typed
  PROVE  Updated(d, i, row) \in Onward(d, loose)
<1> DEFINE e == Updated(d, i, row)
<1>1. Stays(d, e) /\ e.txn = [d.txn EXCEPT ![i] = row] /\ e.sched = d.sched
  BY UpdatedStays DEF Updated, GoodTables, Tables
<1>2. DOMAIN e.txn = DOMAIN d.txn /\ e.txn[i] = row /\ \A j \in DOMAIN d.txn : j # i => e.txn[j] = d.txn[j]
  BY <1>1, RowTyped
<1>3. e \in GoodTables /\ Live(e) = Live(d)
  BY <1>1 DEF Stays
<1> HIDE DEF e
<1>4. KeepsTyped(d, e)
  BY <1>2, <1>3 DEF KeepsTyped
<1>5. e \in Onward(d, loose)
  BY <1>1, <1>3, <1>4, SameSchedOnward
<1> QED BY <1>5 DEF e

(* A handler that has done nothing to the tables.                          *)
LEMMA SelfOnward == ASSUME NEW loose, NEW d \in GoodTables PROVE d \in Onward(d, loose)
BY DEF Onward, KeepsTyped, LinksKept

LEMMA PricedOnward ==
  ASSUME NEW loose, NEW d \in GoodTables, NEW i, NEW row \in Terms
  PROVE  Priced(d, i, row) \in Onward(d, loose)
<1>1. CASE i \in Live(d)
  <2> DEFINE new == [d.txn[i] EXCEPT !.gbp = <<row.price, row.date>>]
  <2>1. new \in Row /\ new.withheld = d.txn[i].withheld
    BY <1>1, RowTyped DEF Row, Figures, Terms
  <2>2. Priced(d, i, row) = Updated(d, i, new)
    BY <1>1 DEF Priced
  <2> HIDE DEF new
  <2> QED BY <1>1, <2>1, <2>2, UpdatedOnward
<1>2. CASE i \notin Live(d)
  BY <1>2, SelfOnward DEF Priced
<1> QED BY <1>1, <1>2

(* What was typed is not computed over.                                    *)
LEMMA WithholdingKeepsTyped ==
  ASSUME NEW row \in Row, row.withheld = Typed
  PROVE  WithholdingOf(row) = row
BY NamesDistinct DEF WithholdingOf, NeedsWithholding

LEMMA WithheldOnward ==
  ASSUME NEW loose, NEW d \in GoodTables, NEW i
  PROVE  Withheld(d, i) \in Onward(d, loose)
<1>1. CASE i \in Live(d)
  BY <1>1, RowTyped, WithholdingTyped, WithholdingKeepsTyped, UpdatedOnward DEF Withheld
<1>2. CASE i \notin Live(d)
  BY <1>2, SelfOnward DEF Withheld
<1> QED BY <1>1, <1>2

LEMMA RealisedOnward ==
  ASSUME NEW loose, NEW d \in GoodTables, NEW p \in Pending(d), NEW i \in Live(d), loose \subseteq {i}
  PROVE  Realised(d, p, i) \in Onward(d, loose)
<1> DEFINE e == Realised(d, p, i)
<1>1. Stays(d, e) /\ e.sched = [d.sched EXCEPT ![p].realised = i]
  BY RealisedStays
<1>2. d.sched \in [Projections -> Scheduled \cup {None}] /\ p \in Projections /\ d.sched[p] \in Scheduled
      /\ d.sched[p].realised = None
  BY DEF GoodTables, Tables, Pending
<1>3. e.sched[p] = [d.sched[p] EXCEPT !.realised = i]
  BY <1>1, <1>2
<1>4. e.sched[p] # None /\ e.sched[p].realised = i
  <2>1. [d.sched[p] EXCEPT !.realised = i] \in Scheduled /\ [d.sched[p] EXCEPT !.realised = i].realised = i
    BY <1>2, RowTyped DEF Scheduled
  <2> QED BY <1>3, <2>1, NamesDistinct
<1>5. \A q \in Projections : q # p => e.sched[q] = d.sched[q]
  BY <1>1, <1>2
<1>6. d.sched[p] # None
  BY <1>2, NamesDistinct
<1>7. e.txn = d.txn /\ e \in GoodTables
  BY <1>1 DEF Realised, GoodTables, Tables, Stays
<1> HIDE DEF e
<1>8. LinksKept(d, e, loose)
  BY <1>2, <1>4, <1>5, <1>6 DEF LinksKept
<1>9. e \in Onward(d, loose)
  BY <1>7, <1>8, SameRowsOnward
<1> QED BY <1>9 DEF e

LEMMA LinkedOnward ==
  ASSUME NEW loose, NEW d \in GoodTables, NEW i, NEW row \in Terms, ~LinkRefused(d, i, row),
         loose \subseteq {i}
  PROVE  Linked(d, i, row) \in Onward(d, loose)
<1>1. CASE Candidates(d, row) = {}
  BY <1>1, SelfOnward DEF Linked
<1>2. CASE Candidates(d, row) # {}
  <2>1. i \in Live(d) /\ row.date \in Nat
    BY <1>2 DEF LinkRefused, Terms
  <2>2. PICK p \in Candidates(d, row) : Linked(d, i, row) = Realised(d, p, i)
    BY <1>2, <2>1, CandidateDates DEF Linked
  <2>3. p \in Pending(d)
    BY DEF Candidates
  <2> QED BY <2>1, <2>2, <2>3, RealisedOnward
<1> QED BY <1>1, <1>2

LEMMA UnlinkedOnward ==
  ASSUME NEW d \in GoodTables, NEW i
  PROVE  Unlinked(d, i) \in Onward(d, {i})
<1> DEFINE e == Unlinked(d, i)
<1>1. e \in GoodTables /\ e.txn = d.txn
  BY UnlinkedStays DEF Stays
<1>2. \A p \in Projections : d.sched[p] \in Scheduled \cup {None}
  BY DEF GoodTables, Tables
<1>3. e.sched = [p \in Projections |->
     IF p \in RealisedBy(d, i) THEN [d.sched[p] EXCEPT !.realised = None] ELSE d.sched[p]]
  BY DEF Unlinked, GoodTables, Tables
<1>4. \A p \in RealisedBy(d, i) : /\ p \in Projections /\ d.sched[p] \in Scheduled /\ d.sched[p].realised = i
                                  /\ e.sched[p] # None /\ e.sched[p].realised = None
  <2> SUFFICES ASSUME NEW p \in RealisedBy(d, i)
               PROVE  /\ p \in Projections /\ d.sched[p] \in Scheduled /\ d.sched[p].realised = i
                      /\ e.sched[p] # None /\ e.sched[p].realised = None
    OBVIOUS
  <2>1. p \in Projections /\ d.sched[p] \in Scheduled /\ d.sched[p].realised = i
    BY <1>2 DEF RealisedBy
  <2>2. e.sched[p] = [d.sched[p] EXCEPT !.realised = None]
    BY <1>3, <2>1
  <2>3. [d.sched[p] EXCEPT !.realised = None] \in Scheduled /\ [d.sched[p] EXCEPT !.realised = None].realised = None
    BY <2>1 DEF Scheduled
  <2> QED BY <2>1, <2>2, <2>3, NamesDistinct
<1>5. \A p \in Projections \ RealisedBy(d, i) : e.sched[p] = d.sched[p] /\ (d.sched[p] # None => d.sched[p].realised # i)
  BY <1>3 DEF RealisedBy
<1> HIDE DEF e
<1>6. LinksKept(d, e, {i})
  BY <1>4, <1>5, NamesDistinct DEF LinksKept
<1>7. e \in Onward(d, {i})
  BY <1>1, <1>6, SameRowsOnward
<1> QED BY <1>7 DEF e


(* A row that goes, or comes.                                              *)
LEMMA RemovedOnward ==
  ASSUME NEW loose, NEW d \in GoodTables, NEW i \in Live(d), Removed(d, i) \in GoodTables,
         Live(Removed(d, i)) = Live(d) \ {i}
  PROVE  Removed(d, i) \in Onward(d, loose)
<1> DEFINE e == Removed(d, i)
<1>1. e.txn = [d.txn EXCEPT ![i] = None] /\ e.sched = d.sched
  BY DEF Removed, GoodTables, Tables
<1>2. DOMAIN e.txn = DOMAIN d.txn /\ \A j \in DOMAIN d.txn : j # i => e.txn[j] = d.txn[j]
  BY <1>1, RowTyped
<1>3. Live(e) = Live(d) \ {i}
  OBVIOUS
<1> HIDE DEF e
<1>4. KeepsTyped(d, e)
  BY <1>2, <1>3 DEF KeepsTyped
<1>5. e \in Onward(d, loose)
  BY <1>1, <1>4, SameSchedOnward DEF e
<1> QED BY <1>5 DEF e

LEMMA InsertedOnward ==
  ASSUME NEW loose, NEW d \in GoodTables, NEW body \in Body
  PROVE  /\ Inserted(d, body) \in Onward(d, loose)
         /\ Inserted(d, body).disposals = d.disposals /\ Inserted(d, body).pool = d.pool
<1> DEFINE e == Inserted(d, body)
           row == [type |-> body.type, date |-> body.date, price |-> body.price,
                   gbp |-> None, withheld |-> body.withheld]
<1>1. e \in GoodTables /\ Live(e) = Live(d) \cup {Len(d.txn) + 1}
  BY InsertedGood
<1>2. d.txn \in Seq(Row \cup {None}) /\ row \in Row
  BY DEF GoodTables, Tables, Row, Body
<1>3. /\ e.txn = Append(d.txn, row) /\ e.sched = d.sched /\ e.disposals = d.disposals
      /\ e.pool = d.pool
  BY DEF Inserted, GoodTables, Tables
<1> HIDE DEF row, e
<1>4. DOMAIN d.txn \subseteq DOMAIN e.txn /\ Len(d.txn) + 1 \notin DOMAIN d.txn
      /\ \A i \in DOMAIN d.txn : e.txn[i] = d.txn[i]
  BY <1>2, <1>3
<1>5. KeepsTyped(d, e)
  BY <1>1, <1>4 DEF KeepsTyped
<1>6. e \in Onward(d, loose)
  BY <1>1, <1>3, <1>5, SameSchedOnward
<1> QED BY <1>3, <1>6 DEF e

(* Recalculation rewrites what is derived, and does so only if it can.     *)
LEMMA RecalculatedOnward ==
  ASSUME MatchSound, NEW loose, NEW d \in GoodTables
  PROVE  /\ Recalculated(d) \in Seq(Onward(d, loose))
         /\ Recalculated(d) # <<>> => Matched(Last(Recalculated(d))).accepted
<1> DEFINE a == Replaced(d)
           b == Saved(a)
<1>1. CASE ~Matched(d).accepted
  BY <1>1 DEF Recalculated
<1>2. CASE Matched(d).accepted
  <2>1. Recalculated(d) = <<a, b>> /\ Recalculated(d) \in Seq(GoodTables)
    BY <1>2, RecalculatedGood DEF Recalculated
  <2>2. a.txn = d.txn /\ a.sched = d.sched
    BY DEF Replaced, GoodTables, Tables
  <2> HIDE DEF a, b
  <2>3. <<a, b>> \in Seq(GoodTables) /\ Len(<<a, b>>) = 2 /\ <<a, b>>[1] = a /\ <<a, b>>[2] = b
    BY <2>1
  <2>4. a \in GoodTables /\ b \in GoodTables
    <3>1. 1 \in 1 .. 2 /\ 2 \in 1 .. 2 /\ DOMAIN <<a, b>> = 1 .. 2
      OBVIOUS
    <3> QED BY <2>3, <3>1, ElementOfSeq
  <2>5. b.txn = d.txn /\ b.sched = d.sched
    BY <2>2, <2>4 DEF b, Saved, GoodTables, Tables
  <2>6. a \in Onward(d, loose) /\ b \in Onward(d, loose)
    BY <2>2, <2>4, <2>5, SameRowsOnward DEF LinksKept
  <2>7. Trades(b) = Trades(d)
    BY <2>5 DEF Trades, Live
  <2>8. Matched(b).accepted
    BY <1>2, <2>7 DEF Matched
  <2> QED BY <2>1, <2>3, <2>6, <2>8 DEF Last
<1> QED BY <1>1, <1>2

LEMMA ThenRecalculatedOnward ==
  ASSUME MatchSound, NEW loose, NEW d, NEW e \in Onward(d, loose),
         NEW steps \in Seq(Onward(d, loose)), steps # <<>>, Last(steps) = e
  PROVE  LET all == steps \o Recalculated(e)
         IN /\ all \in Seq(Onward(d, loose)) /\ all # <<>>
            /\ Last(all) \in Onward(e, loose)
            /\ Last(all) = e \/ Matched(Last(all)).accepted
<1> DEFINE t == Recalculated(e)
           all == steps \o t
<1>1. e \in GoodTables
  BY DEF Onward
<1>2. t \in Seq(Onward(e, loose)) /\ (t # <<>> => Matched(Last(t)).accepted)
  BY <1>1, RecalculatedOnward
<1>3. Onward(e, loose) \subseteq Onward(d, loose)
  BY OnwardTransitive
<1> HIDE DEF t
<1>4. t \in Seq(Onward(d, loose))
  BY <1>2, <1>3
<1>5. all \in Seq(Onward(d, loose)) /\ Len(all) = Len(steps) + Len(t) /\ Len(steps) \in Nat
      /\ Len(t) \in Nat /\ Len(steps) > 0
  BY <1>4, ConcatProperties, EmptySeq
<1>6. CASE t = <<>>
  BY <1>1, <1>6, <1>4, ConcatEmptySeq, SelfOnward DEF t
<1>7. CASE t # <<>>
  <2>1. Len(t) > 0 /\ Len(all) \in 1 .. Len(steps) + Len(t)
    BY <1>4, <1>5, <1>7, EmptySeq
  <2>2. all[Len(all)] = t[Len(t)]
    BY <1>4, <1>5, <2>1, ConcatProperties
  <2>3. all # <<>>
    BY <1>5, <2>1, EmptySeq
  <2>4. t[Len(t)] \in Onward(e, loose)
    BY <1>2, <1>5, <2>1, ElementOfSeq
  <2> QED BY <1>2, <1>5, <1>7, <2>2, <2>3, <2>4 DEF Last, t
<1> QED BY <1>6, <1>7


(* What the properties say of one step.                                    *)
TypedStep ==
  \A i \in Live(db) : db.txn[i].withheld = Typed /\ db'.txn[i] # None => db'.txn[i].withheld = Typed
LinkStep ==
  \A p \in Projections : LET i == db.sched[p].realised IN
    db.sched[p] # None /\ i # None /\ db'.sched[p] # None =>
      \/ db'.sched[p].realised = i
      \/ /\ db'.sched[p].realised = None
         /\ \/ i \notin Live(db') \/ server' = "down"
            \/ \E r \in Requests : request[r].op = "patch" /\ request[r].id = i /\ request'[r] = Idle
RejectionStep ==
  server' = "up" /\ ~Matched(db').accepted =>
    /\ db'.pool = db.pool /\ db'.disposals \subseteq db.disposals
    /\ \A x \in db.disposals \ db'.disposals : \E i \in {x.txn, x.acquisition} \ {None} :
         i \notin Live(db')
AllKept == TypedStep /\ LinkStep /\ RejectionStep

SameDerived(d, e) == e.disposals = d.disposals /\ e.pool = d.pool

(* Why a row may lose its projection.                                      *)
MayLoose(i) ==
  \/ i \notin Live(db') \/ server' = "down"
  \/ \E r \in Requests : request[r].op = "patch" /\ request[r].id = i /\ request'[r] = Idle

LEMMA OnwardStep ==
  ASSUME IInv, NEW loose, db' \in Onward(db, loose), \A i \in loose : MayLoose(i), \A i, j \in loose : i = j
  PROVE  TypedStep /\ LinkStep
<1>1. TypedStep
  BY DEF TypedStep, Onward, KeepsTyped, Live
<1>2. ASSUME NEW p \in Projections, NEW i, i = db.sched[p].realised, db.sched[p] # None, i # None
      PROVE  db'.sched[p].realised = i \/ (db'.sched[p].realised = None /\ MayLoose(i))
  BY <1>2 DEF Onward, LinksKept
<1>3. LinkStep
  BY <1>2 DEF LinkStep, MayLoose
<1> QED BY <1>1, <1>3

LEMMA PerformsOnward ==
  ASSUME NEW loose, NEW steps \in Seq(Onward(db, loose)), steps # <<>>, NEW calls, NEW flag,
         Performs(steps, calls, flag)
  PROVE  /\ db' \in Onward(db, loose)
         /\ server' = "down" \/ (db' = Last(steps) /\ request' = calls)
<1>1. Len(steps) \in Nat /\ DOMAIN steps = 1 .. Len(steps) /\ Len(steps) > 0
  BY EmptySeq
<1>2. Len(steps) \in 1 .. Len(steps) /\ 1 .. Len(steps) - 1 \subseteq 1 .. Len(steps)
  BY <1>1
<1>3. \A k \in 1 .. Len(steps) : steps[k] \in Onward(db, loose)
  BY <1>1, ElementOfSeq
<1> QED BY <1>2, <1>3 DEF Performs, Halt, Last

(* A handler that leaves disposals and pool alone up to its recalculation. *)
LEMMA HandlerKeeps ==
  ASSUME MatchSound, IInv, NEW loose, NEW steps \in Seq(Onward(db, loose)), steps # <<>>,
         NEW calls, NEW flag,
         \/ Performs(steps, calls, flag)
         \/ Performs(steps \o Recalculated(Last(steps)), calls, flag),
         SameDerived(db, Last(steps)),
         \A i \in loose : \E r \in Requests :
           request[r].op = "patch" /\ request[r].id = i /\ calls[r] = Idle,
         \A i, j \in loose : i = j
  PROVE  AllKept
<1> DEFINE e == Last(steps)
           all == steps \o Recalculated(e)
<1>1. e \in Onward(db, loose)
  <2>1. Len(steps) \in DOMAIN steps
    BY EmptySeq
  <2> QED BY <2>1, ElementOfSeq DEF Last
<1>2. all \in Seq(Onward(db, loose)) /\ all # <<>> /\ (Last(all) = e \/ Matched(Last(all)).accepted)
  BY <1>1, ThenRecalculatedOnward
<1> HIDE DEF e, all
<1>3. /\ db' \in Onward(db, loose)
      /\ server' = "down" \/ (request' = calls /\ (db' = e \/ Matched(db').accepted))
  <2>1. CASE Performs(steps, calls, flag)
    BY <2>1, PerformsOnward DEF e
  <2>2. CASE Performs(all, calls, flag)
    BY <1>2, <2>2, PerformsOnward
  <2> QED BY <2>1, <2>2 DEF e, all
<1>4. TypedStep /\ LinkStep
  BY <1>3, OnwardStep DEF MayLoose
<1>5. RejectionStep
  <2>1. e.disposals = db.disposals /\ e.pool = db.pool
    BY DEF SameDerived, e
  <2> QED BY <1>3, <2>1 DEF RejectionStep
<1> QED BY <1>4, <1>5 DEF AllKept

(* A step that leaves everything the properties are about as it is.        *)
LEMMA StillKept ==
  ASSUME IInv, db' \in Onward(db, {}), SameDerived(db, db')
  PROVE  AllKept
<1>1. TypedStep /\ LinkStep
  BY OnwardStep
<1> QED BY <1>1 DEF AllKept, RejectionStep, SameDerived

LEMMA StatementsSameDerived ==
  ASSUME NEW d \in GoodTables, NEW i, NEW row \in Terms
  PROVE  /\ SameDerived(d, Priced(d, i, row)) /\ SameDerived(d, Withheld(d, i))
         /\ ~LinkRefused(d, i, row) => SameDerived(d, Linked(d, i, row))
         /\ SameDerived(d, Unlinked(d, i))
<1>1. SameDerived(d, Priced(d, i, row))
  BY DEF SameDerived, Priced, Updated, GoodTables, Tables
<1> QED BY <1>1, WithheldStays, LinkedStays, UnlinkedStays DEF Quiet, SameDerived

(* The statements of a call after its await.                               *)
LEMMA CallOnward ==
  ASSUME IInv, NEW r \in Requests, Busy(r)
  PROVE  LET c == request[r]
             loose == IF c.op = "patch" THEN {c.id} ELSE {}
             done == Withheld(LinkedBy(c), c.id)
         IN /\ PricedBy(c) \in Onward(db, loose) /\ SameDerived(db, PricedBy(c))
            /\ FreedBy(c) \in Onward(db, loose) /\ SameDerived(db, FreedBy(c))
            /\ ~Refused(c) => /\ LinkedBy(c) \in Onward(db, loose)
                              /\ done \in Onward(db, loose) /\ SameDerived(db, done)
<1> DEFINE c == request[r]
           loose == IF c.op = "patch" THEN {c.id} ELSE {}
<1>1. db \in GoodTables /\ c.row \in Terms
  BY BusyCall
<1>2. PricedBy(c) \in Onward(db, loose) /\ SameDerived(db, PricedBy(c)) /\ PricedBy(c) \in GoodTables
  BY <1>1, PricedOnward, StatementsSameDerived DEF PricedBy, Onward
<1>3. FreedBy(c) \in Onward(PricedBy(c), loose) /\ SameDerived(PricedBy(c), FreedBy(c))
  <2>1. CASE c.op = "patch"
    BY <1>1, <1>2, <2>1, UnlinkedOnward, StatementsSameDerived DEF FreedBy, Freed
  <2>2. CASE c.op # "patch"
    BY <1>2, <2>2, SelfOnward DEF FreedBy, Freed, SameDerived
  <2> QED BY <2>1, <2>2
<1>4. FreedBy(c) \in Onward(db, loose) /\ SameDerived(db, FreedBy(c)) /\ FreedBy(c) \in GoodTables
  BY <1>2, <1>3, OnwardTransitive DEF SameDerived, Onward
<1>5. ASSUME ~Refused(c)
      PROVE  /\ LinkedBy(c) \in Onward(db, loose) /\ LinkedBy(c) \in GoodTables
             /\ SameDerived(db, LinkedBy(c))
  <2>1. LinkedBy(c) \in Onward(FreedBy(c), loose) /\ SameDerived(FreedBy(c), LinkedBy(c))
    BY <1>1, <1>4, <1>5, LinkedOnward, StatementsSameDerived DEF LinkedBy, Refused
  <2> QED BY <1>4, <2>1, OnwardTransitive DEF SameDerived, Onward
<1>6. ASSUME ~Refused(c)
      PROVE  /\ Withheld(LinkedBy(c), c.id) \in Onward(db, loose)
             /\ SameDerived(db, Withheld(LinkedBy(c), c.id))
  <2>1. Withheld(LinkedBy(c), c.id) \in Onward(LinkedBy(c), loose)
        /\ SameDerived(LinkedBy(c), Withheld(LinkedBy(c), c.id))
    BY <1>1, <1>5, <1>6, WithheldOnward, StatementsSameDerived
  <2> QED BY <1>5, <1>6, <2>1, OnwardTransitive DEF SameDerived
<1> QED BY <1>2, <1>4, <1>5, <1>6


LEMMA CreateKept ==
  ASSUME IInv, NEW r \in Requests, NEW op, NEW rows \in Seq(Body), rows # <<>>, Create(r, op, rows)
  PROVE  AllKept
<1>1. Head(rows) \in Body /\ db \in GoodTables /\ db' = Inserted(db, Head(rows))
  BY DEF IInv, Create
<1>2. db' \in Onward(db, {}) /\ SameDerived(db, db')
  BY <1>1, InsertedOnward DEF SameDerived
<1> QED BY <1>2, StillKept

LEMMA ContinueKept ==
  ASSUME MatchSound, IInv, NEW r \in Requests, Busy(r), NEW steps \in Seq(Onward(db, {})), steps # <<>>,
         SameDerived(db, Last(steps)), NEW touched, NEW flag, Continue(r, steps, touched, flag)
  PROVE  AllKept
<1> DEFINE c == request[r]
           e == steps[Len(steps)]
           grown == Inserted(e, Head(c.left))
           all == steps \o <<grown>>
<1>1. e = Last(steps)
  BY DEF Last
<1>2. e \in Onward(db, {}) /\ e \in GoodTables
  <2>1. Len(steps) \in DOMAIN steps
    BY EmptySeq
  <2> QED BY <2>1, ElementOfSeq DEF Onward
<1>3. CASE c.left # <<>>
  <2>1. \E calls : Performs(all, calls, flag)
    BY <1>3 DEF Continue
  <2>2. Head(c.left) \in Body
    BY <1>3, BusyCall DEF CallState
  <2>3. grown \in Onward(e, {}) /\ SameDerived(e, grown)
    BY <1>2, <2>2, InsertedOnward DEF SameDerived
  <2>4. grown \in Onward(db, {}) /\ SameDerived(db, grown)
    BY <1>1, <1>2, <2>3, OnwardTransitive DEF SameDerived
  <2> HIDE DEF grown, e
  <2>5. <<grown>> \in Seq(Onward(db, {})) /\ Len(<<grown>>) = 1 /\ <<grown>>[1] = grown
    BY <2>4
  <2>6. all \in Seq(Onward(db, {})) /\ Len(all) = Len(steps) + 1 /\ Len(steps) \in Nat
    BY <2>5, ConcatProperties
  <2>7. Last(all) = grown /\ all # <<>>
    <3>1. all[Len(steps) + 1] = grown
      BY <2>5, <2>6, ConcatProperties
    <3> QED BY <2>6, <3>1, EmptySeq DEF Last
  <2> HIDE DEF all
  <2> QED BY <2>1, <2>4, <2>6, <2>7, HandlerKeeps
<1>4. CASE c.left = <<>>
  <2>1. \E calls, f : Performs(steps, calls, f) \/ Performs(steps \o Recalculated(Last(steps)), calls, f)
    BY <1>1, <1>4 DEF Continue
  <2> QED BY <2>1, HandlerKeeps
<1> QED BY <1>3, <1>4

LEMMA ImportDividendsKept ==
  ASSUME IInv, NEW r \in Requests, ImportDividends(r)
  PROVE  AllKept
<1>1. PICK history \in Histories :
        \E places \in [1 .. Cardinality(ToInsert(history)) -> ToInsert(history)] :
          /\ ToInsert(history) # {}
          /\ db' = Inserted(db, Head([n \in DOMAIN places |-> Paid(history[places[n]])]))
  BY DEF ImportDividends, Create
<1>2. PICK places \in [1 .. Cardinality(ToInsert(history)) -> ToInsert(history)] :
          /\ ToInsert(history) # {}
          /\ db' = Inserted(db, Head([n \in DOMAIN places |-> Paid(history[places[n]])]))
  BY <1>1
<1>3. ToInsert(history) \subseteq 1 .. Len(history) /\ history \in Seq(Dividend)
  BY InputsTyped DEF ToInsert
<1>4. 1 \in 1 .. Cardinality(ToInsert(history))
  <2>1. IsFiniteSet(ToInsert(history))
    BY <1>3, FS_Interval, FS_Subset
  <2> QED BY <1>2, <2>1, FS_EmptySet, FS_CardinalityType
<1>5. history[places[1]] \in Dividend
  <2>1. places[1] \in 1 .. Len(history)
    BY <1>3, <1>4
  <2> QED BY <1>3, <2>1
<1>6. Head([n \in DOMAIN places |-> Paid(history[places[n]])]) = Paid(history[places[1]])
  BY <1>4
<1>7. Paid(history[places[1]]) \in Body
  BY <1>5 DEF Body, Dividend, Types, Paid
<1>8. db \in GoodTables
  BY DEF IInv
<1>9. db' \in Onward(db, {}) /\ SameDerived(db, db')
  BY <1>2, <1>6, <1>7, <1>8, InsertedOnward DEF SameDerived
<1> QED BY <1>9, StillKept

(* A typed amount is no computed one, so that an edit merges it in.         *)
LEMMA MergedTyped ==
  ASSUME NEW old \in Row, NEW patch \in Patch
  PROVE  /\ Merged(old, patch) \in Row
         /\ old.withheld = Typed => Merged(old, patch).withheld = Typed
<1>1. Or(patch.type, old.type) \in Types /\ Or(patch.date, old.date) \in Nat /\ Or(patch.price, old.price) \in Nat
  BY DEF Or, Row, Patch
<1>2. Merged(old, patch).withheld \in Figures \cup {None, Typed}
  <2>1. \A kept \in Figures \cup {None, Typed} : Or(patch.withheld, kept) \in Figures \cup {None, Typed}
    BY DEF Or, Patch
  <2>2. (IF WasAutoWithheld(old) THEN None ELSE old.withheld) \in Figures \cup {None, Typed}
    BY DEF Row
  <2> QED BY <2>1, <2>2 DEF Merged
<1>3. Merged(old, patch) \in Row
  BY <1>1, <1>2 DEF Merged, Row
<1>4. old.withheld = Typed => ~WasAutoWithheld(old)
  BY NamesDistinct DEF WasAutoWithheld, Row
<1> QED BY <1>3, <1>4 DEF Merged, Or, Patch

LEMMA EditKept == ASSUME IInv, NEW r \in Requests, Edit(r) PROVE AllKept
<1>1. PICK i \in Live(db), patch \in Patches : db' = Updated(db, i, Merged(db.txn[i], patch))
  BY DEF Edit
<1> DEFINE row == Merged(db.txn[i], patch)
<1>2. db \in GoodTables /\ db.txn[i] \in Row /\ patch \in Patch
  BY InputsTyped, RowTyped DEF IInv
<1>3. row \in Row /\ (db.txn[i].withheld = Typed => row.withheld = Typed)
  BY <1>2, MergedTyped
<1> HIDE DEF row
<1>4. db' \in Onward(db, {})
  BY <1>1, <1>2, <1>3, UpdatedOnward DEF row
<1>5. SameDerived(db, db')
  BY <1>1, <1>2 DEF SameDerived, Updated, GoodTables, Tables
<1> QED BY <1>4, <1>5, StillKept


LEMMA SaveKept == ASSUME MatchSound, IInv, NEW r \in Requests, Save(r) PROVE AllKept
<1> DEFINE c == request[r]
           loose == IF c.op = "patch" THEN {c.id} ELSE {}
           done == Withheld(LinkedBy(c), c.id)
           steps == <<PricedBy(c), FreedBy(c), LinkedBy(c), done>>
<1>1. Busy(r) /\ ~Refused(c) /\ Performs(steps \o Recalculated(done), Ended(r), FALSE)
  BY DEF Save
<1>2. /\ PricedBy(c) \in Onward(db, loose) /\ FreedBy(c) \in Onward(db, loose)
      /\ LinkedBy(c) \in Onward(db, loose) /\ done \in Onward(db, loose) /\ SameDerived(db, done)
  BY <1>1, CallOnward
<1>3. \A i \in loose : request[r].op = "patch" /\ request[r].id = i /\ Ended(r)[r] = Idle
  BY <1>1, BusyCall DEF Ended
<1>4. \A i, j \in loose : i = j
  OBVIOUS
<1> HIDE DEF done, loose
<1>5. steps \in Seq(Onward(db, loose)) /\ steps # <<>> /\ Last(steps) = done
  BY <1>2 DEF Last
<1> HIDE DEF steps
<1> QED BY <1>1, <1>2, <1>3, <1>4, <1>5, HandlerKeeps

LEMMA SaveRefusedKept == ASSUME MatchSound, IInv, NEW r \in Requests, SaveRefused(r) PROVE AllKept
<1> DEFINE c == request[r]
           loose == IF c.op = "patch" THEN {c.id} ELSE {}
           steps == <<PricedBy(c), FreedBy(c)>>
<1>1. Busy(r) /\ Performs(steps, Ended(r), unsynced)
  BY DEF SaveRefused
<1>2. PricedBy(c) \in Onward(db, loose) /\ FreedBy(c) \in Onward(db, loose) /\ SameDerived(db, FreedBy(c))
  BY <1>1, CallOnward
<1>3. \A i \in loose : request[r].op = "patch" /\ request[r].id = i /\ Ended(r)[r] = Idle
  BY <1>1, BusyCall DEF Ended
<1>4. \A i, j \in loose : i = j
  OBVIOUS
<1> HIDE DEF loose
<1>5. steps \in Seq(Onward(db, loose)) /\ steps # <<>> /\ Last(steps) = FreedBy(c)
  BY <1>2 DEF Last
<1> HIDE DEF steps
<1> QED BY <1>1, <1>2, <1>3, <1>4, <1>5, HandlerKeeps

LEMMA JustDb ==
  ASSUME IInv
  PROVE  <<db>> \in Seq(Onward(db, {})) /\ <<db>> # <<>> /\ Last(<<db>>) = db /\ SameDerived(db, db)
<1>1. db \in Onward(db, {})
  BY SelfOnward DEF IInv
<1> QED BY <1>1 DEF Last, SameDerived

LEMMA ImportRowKept == ASSUME MatchSound, IInv, NEW r \in Requests, ImportRow(r) PROVE AllKept
<1> DEFINE c == request[r]
           done == Withheld(LinkedBy(c), c.id)
           steps == <<PricedBy(c), LinkedBy(c), done>>
<1>1. Busy(r) /\ c.op = "import"
  BY DEF ImportRow
<1>2. CASE Refused(c)
  BY <1>1, <1>2, JustDb, ContinueKept DEF ImportRow
<1>3. CASE ~Refused(c)
  <2>1. Continue(r, steps, TRUE, unsynced)
    BY <1>3 DEF ImportRow
  <2>2. /\ PricedBy(c) \in Onward(db, {}) /\ LinkedBy(c) \in Onward(db, {})
        /\ done \in Onward(db, {}) /\ SameDerived(db, done)
    BY <1>1, <1>3, CallOnward
  <2> HIDE DEF done
  <2>3. steps \in Seq(Onward(db, {})) /\ steps # <<>> /\ Last(steps) = done
    BY <2>2 DEF Last
  <2> HIDE DEF steps
  <2> QED BY <1>1, <2>1, <2>2, <2>3, ContinueKept
<1> QED BY <1>2, <1>3

LEMMA ImportDividendKept ==
  ASSUME MatchSound, IInv, NEW r \in Requests, ImportDividend(r)
  PROVE  AllKept
<1> DEFINE c == request[r]
           done == Withheld(PricedBy(c), c.id)
           steps == <<PricedBy(c), done>>
<1>1. Busy(r) /\ c.op = "dividends" /\ Continue(r, steps, FALSE, unsynced \/ IsTrade(db, c.id))
  BY DEF ImportDividend
<1>2. PricedBy(c) \in Onward(db, {}) /\ SameDerived(db, PricedBy(c)) /\ PricedBy(c) \in GoodTables
  BY <1>1, CallOnward DEF Onward
<1>3. done \in Onward(PricedBy(c), {}) /\ SameDerived(PricedBy(c), done)
  BY <1>1, <1>2, BusyCall, WithheldOnward, StatementsSameDerived
<1>4. done \in Onward(db, {}) /\ SameDerived(db, done)
  BY <1>2, <1>3, OnwardTransitive DEF SameDerived
<1> HIDE DEF done
<1>5. steps \in Seq(Onward(db, {})) /\ steps # <<>> /\ Last(steps) = done
  BY <1>2, <1>4 DEF Last
<1> HIDE DEF steps
<1> QED BY <1>1, <1>4, <1>5, ContinueKept

LEMMA RateFailsKept == ASSUME MatchSound, IInv, NEW r \in Requests, RateFails(r) PROVE AllKept
<1> DEFINE steps == <<db>>
<1>1. \/ \E calls, flag : Performs(steps, calls, flag)
      \/ \E touched : Continue(r, steps, touched, TRUE)
  BY DEF RateFails
<1>2. Busy(r)
  BY DEF RateFails
<1>3. steps \in Seq(Onward(db, {})) /\ steps # <<>> /\ SameDerived(db, Last(steps))
  BY JustDb
<1> HIDE DEF steps
<1>4. CASE \E calls, flag : Performs(steps, calls, flag)
  BY <1>3, <1>4, HandlerKeeps
<1>5. CASE \E touched : Continue(r, steps, touched, TRUE)
  BY <1>2, <1>3, <1>5, ContinueKept
<1> QED BY <1>1, <1>4, <1>5


LEMMA DeleteKept == ASSUME MatchSound, IInv, NEW i \in Live(db), Delete(i) PROVE AllKept
<1> DEFINE cleared == Cleared(db, i)
           unlinked == Unlinked(cleared, i)
           removed == Removed(unlinked, i)
           steps == <<cleared, unlinked, removed>>
           all == steps \o Recalculated(removed)
<1>1. server = "up" /\ Performs(all, request, FALSE)
  BY DEF Delete
<1>2. db \in GoodTables /\ i \in Nat /\ i # None /\ i \in DOMAIN db.txn
  BY RowTyped, NamesDistinct DEF IInv
<1>3. Stays(db, cleared) /\ cleared.txn = db.txn /\ \A x \in cleared.disposals : ~Names(x, i)
  BY <1>2, ClearedStays
<1>4. /\ cleared.sched = db.sched /\ cleared.pool = db.pool
      /\ cleared.disposals = {x \in db.disposals : ~Names(x, i)}
  BY <1>2 DEF Cleared, GoodTables, Tables
<1>5. cleared \in GoodTables /\ cleared \in Onward(db, {i})
  BY <1>3, <1>4, SameRowsOnward DEF Stays, LinksKept
<1> HIDE DEF cleared
<1>6. /\ Stays(cleared, unlinked) /\ SameDerived(cleared, unlinked)
      /\ RealisedBy(unlinked, i) = {}
  BY <1>2, <1>5, UnlinkedStays DEF Stays, Quiet, SameDerived
<1>7. unlinked \in GoodTables /\ unlinked \in Onward(db, {i}) /\ Live(unlinked) = Live(db)
  BY <1>3, <1>5, <1>6, UnlinkedOnward, OnwardTransitive DEF Stays
<1> HIDE DEF unlinked
<1>8. removed \in GoodTables /\ Live(removed) = Live(db) \ {i} /\ Len(removed.txn) = Len(unlinked.txn)
  BY <1>3, <1>6, <1>7, RemovedGood DEF SameDerived
<1>9. removed \in Onward(db, {i}) /\ removed.disposals = cleared.disposals /\ removed.pool = db.pool
  <2>1. removed \in Onward(unlinked, {i})
    BY <1>7, <1>8, RemovedOnward
  <2>2. removed.disposals = unlinked.disposals /\ removed.pool = unlinked.pool
    BY <1>7 DEF Removed, GoodTables, Tables
  <2> QED BY <1>4, <1>6, <1>7, <2>1, <2>2, OnwardTransitive DEF SameDerived
<1> HIDE DEF removed
<1>10. steps \in Seq(Onward(db, {i})) /\ steps # <<>> /\ Last(steps) = removed
  BY <1>5, <1>7, <1>9 DEF Last
<1> HIDE DEF steps
<1>11. /\ all \in Seq(Onward(db, {i})) /\ all # <<>> /\ Last(all) \in Onward(removed, {i})
       /\ Last(all) = removed \/ Matched(Last(all)).accepted
  BY <1>9, <1>10, ThenRecalculatedOnward
<1> HIDE DEF all
<1>12. db' \in Onward(db, {i}) /\ (server' = "down" \/ db' = Last(all))
  BY <1>1, <1>11, PerformsOnward
<1>13. i \in DOMAIN removed.txn
  BY <1>2, <1>9 DEF Onward, KeepsTyped
<1>14. server' = "down" \/ i \notin Live(db')
  BY <1>8, <1>11, <1>12, <1>13 DEF Onward, KeepsTyped
<1>15. TypedStep /\ LinkStep
  BY <1>12, <1>14, OnwardStep DEF MayLoose
<1>16. RejectionStep
  <2> SUFFICES ASSUME server' = "up", ~Matched(db').accepted
               PROVE  /\ db'.pool = db.pool /\ db'.disposals \subseteq db.disposals
                      /\ \A x \in db.disposals \ db'.disposals :
                           \E k \in {x.txn, x.acquisition} \ {None} : k \notin Live(db')
    BY DEF RejectionStep
  <2>1. db' = removed /\ i \notin Live(db')
    BY <1>11, <1>12, <1>14
  <2> QED BY <1>2, <1>4, <1>9, <2>1 DEF Names
<1> QED BY <1>15, <1>16 DEF AllKept

LEMMA BootKept == ASSUME MatchSound, IInv, Boot PROVE AllKept
<1> DEFINE e == BackfillWithholding(db)
           steps == <<e>>
<1>1. db \in GoodTables /\ Performs(steps \o Recalculated(e), request, FALSE)
  BY DEF IInv, Boot
<1>2. Stays(db, e)
  BY <1>1, BackfillWithholdingStays
<1>3. /\ DOMAIN e.txn = DOMAIN db.txn /\ e.sched = db.sched /\ SameDerived(db, e)
      /\ \A i \in Live(db) : e.txn[i] = WithholdingOf(db.txn[i])
  BY <1>1 DEF BackfillWithholding, GoodTables, Tables, SameDerived, Live
<1> HIDE DEF e
<1>4. KeepsTyped(db, e)
  BY <1>1, <1>2, <1>3, RowTyped, WithholdingKeepsTyped DEF KeepsTyped, Stays
<1>5. e \in Onward(db, {})
  BY <1>2, <1>3, <1>4, SameSchedOnward DEF Stays
<1>6. steps \in Seq(Onward(db, {})) /\ steps # <<>> /\ Last(steps) = e
  BY <1>5 DEF Last
<1> HIDE DEF steps
<1>7. Performs(steps \o Recalculated(Last(steps)), request, FALSE) /\ SameDerived(db, Last(steps))
  BY <1>1, <1>3, <1>6
<1> DEFINE loose == {}
           calls == request
<1>8. /\ steps \in Seq(Onward(db, loose))
      /\ \A i \in loose : \E r \in Requests :
           request[r].op = "patch" /\ request[r].id = i /\ calls[r] = Idle
      /\ \A i, j \in loose : i = j
      /\ Performs(steps \o Recalculated(Last(steps)), calls, FALSE)
  BY <1>6, <1>7
<1> HIDE DEF loose, calls
<1> QED BY <1>6, <1>7, <1>8, HandlerKeeps

(* The engine runs only when the ledger can be matched.                    *)
LEMMA RunTaxEngineKept == ASSUME MatchSound, IInv, RunTaxEngine PROVE AllKept
<1> DEFINE steps == Recalculated(db)
<1>1. db \in GoodTables /\ Matched(db).accepted /\ Performs(steps, request, FALSE)
  BY DEF IInv, RunTaxEngine
<1>2. steps # <<>>
  BY <1>1, RecalculatedGood
<1>3. steps \in Seq(Onward(db, {})) /\ Matched(Last(steps)).accepted
  BY <1>1, <1>2, RecalculatedOnward
<1> HIDE DEF steps
<1>4. db' \in Onward(db, {}) /\ (server' = "down" \/ db' = Last(steps))
  BY <1>1, <1>2, <1>3, PerformsOnward
<1>5. RejectionStep
  BY <1>3, <1>4 DEF RejectionStep
<1> QED BY <1>4, <1>5, OnwardStep DEF AllKept

(* A projection is entered, or taken away, with no row in sight.           *)
LEMMA ScheduleKept ==
  ASSUME IInv, NEW p \in Projections, NEW entry, db' = Schedule(p, entry), db.sched[p] = None \/ entry = None
  PROVE  AllKept
<1>1. db \in GoodTables /\ db.sched \in [Projections -> Scheduled \cup {None}]
  BY DEF IInv, GoodTables, Tables
<1>2. db'.txn = db.txn /\ db'.disposals = db.disposals /\ db'.pool = db.pool
      /\ db'.sched = [db.sched EXCEPT ![p] = entry]
  BY <1>1 DEF Schedule, GoodTables, Tables
<1>3. TypedStep
  BY <1>2 DEF TypedStep
<1>4. LinkStep
  <2>1. \A q \in Projections : q # p => db'.sched[q] = db.sched[q]
    BY <1>1, <1>2
  <2>2. db'.sched[p] = entry
    BY <1>1, <1>2
  <2> QED BY <2>1, <2>2 DEF LinkStep
<1>5. RejectionStep
  BY <1>2 DEF RejectionStep
<1> QED BY <1>3, <1>4, <1>5 DEF AllKept

LEMMA BackfillProjectionKept ==
  ASSUME IInv, NEW p \in Projections, BackfillProjection(p)
  PROVE  AllKept
<1> DEFINE entry == db.sched[p]
           found == [i \in Realising(db, entry) |-> db.txn[i].date]
<1>1. /\ db \in GoodTables /\ p \in Pending(db)
      /\ db' = IF Realising(db, entry) = {} THEN db ELSE Realised(db, p, Best(found, entry.date))
  BY DEF IInv, BackfillProjection
<1>2. entry \in Scheduled /\ entry.date \in Nat
  BY <1>1 DEF Pending, GoodTables, Tables, Scheduled
<1>3. CASE Realising(db, entry) = {}
  BY <1>1, <1>3, SelfOnward, StillKept DEF SameDerived
<1>4. CASE Realising(db, entry) # {}
  <2>1. \A i \in Realising(db, entry) : i \in Live(db) /\ i \in Nat /\ db.txn[i] \in Row
    BY <1>1, RowTyped DEF Realising
  <2>2. DOMAIN found = Realising(db, entry) /\ DOMAIN found \in SUBSET Nat
        /\ \A i \in DOMAIN found : found[i] \in Nat
    BY <2>1 DEF Row
  <2> DEFINE i == Best(found, entry.date)
  <2> HIDE DEF found
  <2>3. i \in Live(db)
    BY <1>2, <1>4, <2>1, <2>2, BestFound
  <2> HIDE DEF i
  <2>4. db' = Realised(db, p, i)
    BY <1>1, <1>4 DEF i, found
  <2>5. Realised(db, p, i) \in Onward(db, {})
    BY <1>1, <2>3, RealisedOnward
  <2>6. SameDerived(db, Realised(db, p, i))
    BY <1>1, <2>3, RealisedStays DEF Quiet, SameDerived
  <2> QED BY <2>4, <2>5, <2>6, StillKept
<1> QED BY <1>3, <1>4

LEMMA NextKept == MatchSound /\ IInv /\ [Next]_vars => AllKept
<1> SUFFICES ASSUME MatchSound, IInv, [Next]_vars PROVE AllKept
  OBVIOUS
<1>1. ASSUME NEW r \in Requests, Post(r) PROVE AllKept
  <2>1. PICK body \in Bodies : Create(r, "post", <<body>>)
    BY <1>1 DEF Post
  <2>2. <<body>> \in Seq(Body) /\ <<body>> # <<>>
    BY InputsTyped
  <2> QED BY <2>1, <2>2, CreateKept
<1>2. ASSUME NEW r \in Requests, ImportFile(r) PROVE AllKept
  <2>1. PICK file \in Files : Create(r, "import", file)
    BY <1>2 DEF ImportFile
  <2>2. file \in Seq(Body) /\ file # <<>>
    BY InputsTyped
  <2> QED BY <2>1, <2>2, CreateKept
<1>3. ASSUME NEW r \in Requests, ImportDividends(r) \/ Edit(r) PROVE AllKept
  BY <1>3, ImportDividendsKept, EditKept
<1>4. ASSUME NEW r \in Requests, Save(r) \/ SaveRefused(r) \/ ImportRow(r) \/ ImportDividend(r) \/ RateFails(r)
      PROVE  AllKept
  BY <1>4, SaveKept, SaveRefusedKept, ImportRowKept, ImportDividendKept, RateFailsKept
<1>5. ASSUME NEW i \in Live(db), Delete(i) PROVE AllKept
  BY <1>5, DeleteKept
<1>6. ASSUME NEW p \in Projections, Project(p) \/ Unproject(p) PROVE AllKept
  <2>1. \E entry : db' = Schedule(p, entry) /\ (db.sched[p] = None \/ entry = None)
    BY <1>6 DEF Project, Unproject
  <2> QED BY <2>1, ScheduleKept
<1>7. ASSUME NEW p \in Projections, BackfillProjection(p) PROVE AllKept
  BY <1>7, BackfillProjectionKept
<1>8. CASE RunTaxEngine \/ Boot
  BY <1>8, RunTaxEngineKept, BootKept
<1>9. CASE Stop \/ Start \/ UNCHANGED vars
  <2>1. db' = db
    BY <1>9 DEF Stop, Start, vars
  <2>2. db' \in Onward(db, {}) /\ SameDerived(db, db')
    BY <2>1, SelfOnward DEF IInv, SameDerived
  <2> QED BY <2>2, StillKept
<1> QED BY <1>1, <1>2, <1>3, <1>4, <1>5, <1>6, <1>7, <1>8, <1>9 DEF Next

(* A withheld amount that the user typed in is never computed over, by any *)
(* overlap of handlers (withholding.ts, wasAutoWithheld), stop or start.   *)
THEOREM TypedAlwaysKept == ASSUME MatchSound PROVE Spec => TypedKept
<1>1. IInv /\ [Next]_vars => [TypedStep]_vars
  BY NextKept DEF AllKept
<1> QED BY <1>1, Inductive, PTL DEF Spec, TypedKept, TypedStep

(* A projection stays with the row that realises it until that row is      *)
(* edited or deleted, and no other row takes it over (findLinkable looks   *)
(* only at projections without one).                                       *)
THEOREM LinkAlwaysKept == ASSUME MatchSound PROVE Spec => LinkKept
<1>1. IInv /\ [Next]_vars => [LinkStep]_vars
  BY NextKept DEF AllKept
<1> QED BY <1>1, Inductive, PTL DEF Spec, LinkKept, LinkStep

(* While the ledger cannot be matched, what was last saved stays, but for  *)
(* disposals that name a row deleted since (recalc.ts writes after the     *)
(* matcher has returned).                                                  *)
THEOREM RejectionAlwaysKeeps == ASSUME MatchSound PROVE Spec => RejectionKeeps
<1>1. IInv /\ [Next]_vars => [RejectionStep]_vars
  BY NextKept DEF AllKept
<1> QED BY <1>1, Inductive, PTL DEF Spec, RejectionKeeps, RejectionStep

=============================================================================
