-------------------------- MODULE MCShareMatching --------------------------
(* Small ledgers for TLC.  Ids are entered in date order, which loses      *)
(* nothing: the matcher compares ids only within a day.                    *)
EXTENDS ShareMatching

MCIds == 1 .. 4

Row(type, date, quantity) ==
  [type |-> type, date |-> date, quantity |-> quantity, given |-> TRUE,
   price |-> 0, costs |-> 0, num |-> 2, den |-> 1]

InDateOrder(f) == \A i \in 1 .. 3 : f[i].date <= f[i + 1].date

(* Prices and fees are fixed by position: a gain then tells which shares   *)
(* it was computed from, and a fee exceeds what rounding may lose.         *)
Price == <<50, 71, 32, 83>>
Fee == <<10, 20, 0, 13>>
PricedRows(f) == [i \in MCIds |-> [f[i] EXCEPT !.price = Price[i], !.costs = Fee[i]]]

(* Buying and selling around both edges of the 30-day window.              *)
Trades ==
  {PricedRows(f) : f \in {g \in [MCIds -> {Row(type, date, q) :
       type \in {"BUY", "SELL"}, date \in {0, 1, 30, 31}, q \in {1, 3}}] : InDateOrder(g)}}

(* One event of each kind between trades, with and without its column.     *)
Event(type, date) == {[Row(type, date, 2) EXCEPT !.given = g] : g \in BOOLEAN}
Events ==
  LET middle == UNION {Event(type, 10) : type \in TxnTypes \ {"BUY", "SELL"}}
  IN  {PricedRows(<<Row("BUY", 0, 3), a, b, Row("SELL", 40, q)>>) :
         a \in middle, b \in middle \cup {Row("SELL", 12, 2), Row("BUY", 12, 3)}, q \in {1, 4}}

(* A split between a disposal and the acquisition it is matched with.      *)
SplitBetween ==
  {PricedRows(<<Row("BUY", 0, 4), Row("SELL", 5, q), Row("SPLIT", 10, 1), Row("BUY", d, 2)>>) :
     q \in {1, 2}, d \in {12, 35, 36}}

(* Splits on the day of a disposal and after it, before and after the      *)
(* acquisitions that it is matched with.                                   *)
SplitThatDay ==
  LET onDay == {Row("SELL", 5, 3), Row("SPLIT", 5, 1), Row("UNSPLIT", 5, 1)}
  IN  {PricedRows(<<Row("BUY", 0, 4), a, b, c>>) :
         a \in onDay, b \in onDay \cup {Row("BUY", 5, 3)},
         c \in {Row("BUY", 5, 3), Row("BUY", 6, 1), Row("SELL", 7, 1), Row("SPLIT", 7, 1)}}

(* The whole life of a holding whose only split falls inside a 30-day      *)
(* match: 4 bought, 1 sold, a 2-for-1 split, 2 bought back, all 8 sold.    *)
LifePrice == <<500, 700, 0, 300, 800>>
SplitLife ==
  LET rows == <<Row("BUY", 0, 4), Row("SELL", 5, 1), Row("SPLIT", 10, 1),
                Row("BUY", 35, 2), Row("SELL", 90, 8)>>
  IN  {[i \in 1 .. 5 |-> [rows[i] EXCEPT !.price = LifePrice[i]]]}
MCLifeIds == 1 .. 5

MCLedgers == Trades \cup Events \cup SplitBetween \cup SplitThatDay
=============================================================================
