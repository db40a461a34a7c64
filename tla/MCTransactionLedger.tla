------------------------ MODULE MCTransactionLedger ------------------------
(* A few of each input, dated so that the first two days and the last two  *)
(* are within the tolerance of a link, but only the first two in the same  *)
(* tax year.                                                               *)
EXTENDS TransactionLedger, SequencesExt, TLC

Of(type, date) == [type |-> type, date |-> date, price |-> 1, withheld |-> None]
MCBodies == {Of("RSU_VEST", 1), Of("SELL", 5), [Of("DIV_PAY", 9) EXCEPT !.withheld = Typed]}
NoChange == [type |-> None, date |-> None, price |-> None, withheld |-> None]
MCPatches == {[NoChange EXCEPT !.date = 9], [NoChange EXCEPT !.type = "SELL"]}
Reprice == {[NoChange EXCEPT !.price = p] : p \in {1, 2}}
Dividend9 == {Of("DIV_PAY", 9)}
MCFiles == {<<Of("RSU_VEST", 1), Of("SELL", 5)>>}
MCHistories == {<<[ex |-> 2, date |-> 9, price |-> 1], [ex |-> 6, date |-> 20, price |-> 1]>>}
MCEntries == {[type |-> "RSU_VEST", date |-> 5]}

(* The matcher of ShareMatching for one-unit trades within thirty days:    *)
(* a sale takes an acquisition of its day, else a later one, else one of   *)
(* those in the pool.                                                      *)
Order(a, b) ==
  LET rank(t) == IF t.type = "SELL" THEN 0 ELSE 1
  IN \/ a.date < b.date
     \/ a.date = b.date /\ (rank(a) < rank(b) \/ (rank(a) = rank(b) /\ a.id < b.id))

MCMatch(trades) ==
  LET free(s, day) == {t \in trades : t.type # "SELL" /\ t.date >= day /\ t.id \notin s.used}
      record(s, t, id, cost) ==
        s.disposals \cup {[txn |-> t.id, acquisition |-> id, proceeds |-> t.gbp, cost |-> cost]}
      Take(s, t) ==
        IF t.type # "SELL"
        THEN IF t.id \in s.used \/ t.gbp = None THEN s
             ELSE [s EXCEPT !.pool.in = @ \cup {<<t.id, t.gbp>>}]
        ELSE IF free(s, t.date) # {}
        THEN LET a == CHOOSE x \in free(s, t.date) :
                        \A y \in free(s, t.date) \ {x} :
                          x.date < y.date \/ (x.date = y.date /\ x.id < y.id)
             IN [s EXCEPT !.used = @ \cup {a.id}, !.disposals = record(s, t, a.id, a.gbp)]
        ELSE IF Cardinality(s.pool.in) > s.pool.out
        THEN [s EXCEPT !.pool.out = @ + 1, !.disposals = record(s, t, None, None)]
        ELSE [s EXCEPT !.accepted = FALSE]
      start == [accepted |-> TRUE, used |-> {}, disposals |-> {}, pool |-> [in |-> {}, out |-> 0]]
      end == FoldLeft(Take, start, SetToSortSeq(trades, Order))
  IN [accepted |-> end.accepted, disposals |-> end.disposals, pool |-> end.pool]

(* The matcher is as the proofs take it to be, for up to three trades.     *)
Terms3 == [type : {"RSU_VEST", "SELL"}, date : {1, 5}, gbp : {None, <<1, 1>>}] \cup {None}
Ledger(rows) ==
  {[id |-> i, type |-> rows[i].type, date |-> rows[i].date, gbp |-> rows[i].gbp] :
     i \in {j \in DOMAIN rows : rows[j] # None}}
ASSUME MatchIsSound == \A rows \in [1 .. 3 -> Terms3] : SoundOn(Ledger(rows))

(* A third row is followed only through the imports that create it.        *)
Importing(r) == request[r].op \in {"import", "dividends"}
Followed ==
  \/ Len(db.txn) <= 2
  \/ /\ Len(db.txn) = 3 /\ None \notin {db.txn[i] : i \in 1 .. 3}
     /\ \E r \in Requests : Importing(r)
     /\ \A r \in Requests : Importing(r) \/ request[r] = Idle

Symmetry == Permutations(Requests)

=============================================================================
