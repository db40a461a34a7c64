------------------------- MODULE TransactionLedger -------------------------
(***************************************************************************)
(* The transactions of one instrument and what is derived from them.       *)
(* routes/transactions.ts writes a row, awaits an exchange rate, stores    *)
(* the GBP figures, links the row to the projected vest it realises, fills *)
(* in withheld tax and recalculates the disposals and the Section 104 pool *)
(* (services/tax/recalc.ts).  Calls interleave at the await only.  Each    *)
(* statement commits on its own, so the server may stop between any two.   *)
(*                                                                         *)
(* Quantities are one unit.  GBP figures are named by the price and the    *)
(* date they were computed from.  Share matching is the constant operator  *)
(* Match: its result for a set of trades, or a refusal (a sale of shares   *)
(* that are not held, a disposal outside the configured tax years).        *)
(***************************************************************************)
EXTENDS Integers, Sequences, FiniteSets

CONSTANTS
  Requests,     \* calls that can be in flight at once
  None, Typed,  \* nothing; an amount of withheld tax the user typed in
  Projections,  \* ids of projected vests, numbers in the order of creation
  Bodies,       \* what a POST may carry
  Patches,      \* what a PATCH may carry, None where a field is absent
  Files,        \* the rows a CSV import maps its file to
  Histories,    \* the dividends a provider reports
  Entries,      \* what a projected vest may be entered with
  YearEnd,      \* the last day of a tax year, others are far away
  MaxRows,      \* bound: rows ever created, but for imports under way
  Match(_)

(* Other acquisitions and disposals pass through the handlers like BUY and *)
(* SELL; only a vest or a purchase plan is linked to a projection.         *)
LinkedTypes == {"RSU_VEST", "ESPP_PURCHASE"}
Acquisitions == LinkedTypes \cup {"BUY"}
Types == Acquisitions \cup {"SELL", "DIV_PAY"}
Figures == Nat \X Nat

Row == [type : Types, date : Nat, price : Nat, gbp : Figures \cup {None},
        withheld : Figures \cup {None, Typed}]
Projection == [type : LinkedTypes \cup {"option-expiry"}, date : Nat]
Scheduled == [type : LinkedTypes \cup {"option-expiry"}, date : Nat, realised : Nat \cup {None}]
Body == [type : Types, date : Nat, price : Nat, withheld : {None, Typed}]
(* What a call uses after the await of the row it has read.                *)
Terms == [type : Types, date : Nat, price : Nat]
Patch == [type : Types \cup {None}, date : Nat \cup {None}, price : Nat \cup {None},
          withheld : {None, Typed}]
Dividend == [ex : Nat, date : Nat, price : Nat]

Disposal == [txn : Nat, acquisition : Nat \cup {None}, proceeds : Figures \cup {None},
             cost : Figures \cup {None}]
Pool == [in : SUBSET (Nat \X Figures), out : Nat]
Trade == [id : Nat, type : Types \ {"DIV_PAY"}, date : Nat, gbp : Figures \cup {None}]
Outcome == [accepted : BOOLEAN, disposals : SUBSET Disposal, pool : Pool]

ASSUME InputsTyped ==
  /\ Bodies \subseteq Body /\ Patches \subseteq Patch /\ Entries \subseteq Projection
  /\ Projections \subseteq Nat
  /\ Files \subseteq Seq(Bodies) \ {<<>>} /\ Histories \subseteq Seq(Dividend)
ASSUME NamesDistinct ==
  /\ None \notin Row \cup Terms \cup Scheduled \cup Nat \cup Figures \cup Types
  /\ Typed # None /\ Typed \notin Figures

(* What is taken of the matcher: of no trades it makes nothing, and a      *)
(* disposal names rows that it was given.                                  *)
IdsDiffer(trades) == \A s, t \in trades : s.id = t.id => s = t
SoundOn(trades) ==
  /\ Match(trades) \in Outcome
  /\ trades = {} => Match(trades).disposals = {} /\ Match(trades).pool = [in |-> {}, out |-> 0]
  /\ \A x \in Match(trades).disposals :
       {x.txn, x.acquisition} \subseteq {t.id : t \in trades} \cup {None}

Tables == [txn : Seq(Row \cup {None}), sched : [Projections -> Scheduled \cup {None}],
           disposals : SUBSET Disposal, pool : Pool]

VARIABLES
  db,        \* the tables: txn, sched (vest_schedule), disposals, pool
  request,   \* per request, the call in flight and what it has read
  server,    \* "up", "down" or "starting"
  todo,      \* projections the start-up pass has yet to look at
  unsynced   \* history: a call ended for want of an exchange rate, or an
             \* import of dividends has priced a row edited into a trade, and
             \* nothing has been recalculated since

vars == <<db, request, server, todo, unsynced>>

(* The id of a row is its place: ids are not used again.                   *)
Live(d) == {i \in DOMAIN d.txn : d.txn[i] # None}

(* Fault: linked projections are listed too.                               *)
FaultyPending(d) == {p \in Projections : d.sched[p] # None}
Pending(d) == {p \in Projections : d.sched[p] # None /\ d.sched[p].realised = None}

-----------------------------------------------------------------------------
(* What one statement of a handler does to the tables *)

Inserted(d, body) ==
  [d EXCEPT !.txn = Append(@, [type |-> body.type, date |-> body.date, price |-> body.price,
                               gbp |-> None, withheld |-> body.withheld])]
Updated(d, i, row) == [d EXCEPT !.txn[i] = row]

(* An update of a row that is gone does nothing.                           *)
Priced(d, i, row) ==
  IF i \in Live(d) THEN Updated(d, i, [d.txn[i] EXCEPT !.gbp = <<row.price, row.date>>]) ELSE d

(* A stored amount that is what the gross would give counts as computed;   *)
(* a typed one that equals it by chance does so too and is left out.       *)
WasAutoWithheld(row) == row.type = "DIV_PAY" /\ row.gbp # None /\ row.withheld = row.gbp

(* Fault: an amount that is there already is not looked for.               *)
FaultyNeedsWithholding(row) == row.type = "DIV_PAY" /\ row.gbp # None
NeedsWithholding(row) == row.type = "DIV_PAY" /\ row.withheld = None /\ row.gbp # None
WithholdingOf(row) ==
  IF NeedsWithholding(row) THEN [row EXCEPT !.withheld = row.gbp] ELSE row
Withheld(d, i) == IF i \in Live(d) THEN Updated(d, i, WithholdingOf(d.txn[i])) ELSE d

LinkTolerance == 7
TaxYear(date) == date > YearEnd
Distance(a, b) == IF a > b THEN a - b ELSE b - a
CanLink(a, b) == Distance(a, b) <= LinkTolerance /\ TaxYear(a) = TaxYear(b)

(* The nearest of the candidates in date, then the first in the list.      *)
Before(x, y, dates) == dates[x] < dates[y] \/ (dates[x] = dates[y] /\ x < y)
Best(dates, anchor) ==
  CHOOSE x \in DOMAIN dates : \A y \in DOMAIN dates \ {x} :
    \/ Distance(dates[x], anchor) < Distance(dates[y], anchor)
    \/ Distance(dates[x], anchor) = Distance(dates[y], anchor) /\ Before(x, y, dates)

Realised(d, p, i) == [d EXCEPT !.sched[p].realised = i]
Candidates(d, row) ==
  {p \in Pending(d) : row.type \in LinkedTypes /\ d.sched[p].type = row.type
                      /\ CanLink(d.sched[p].date, row.date)}
(* The projection that a row with these fields realises.                   *)
Linked(d, i, row) ==
  LET found == [p \in Candidates(d, row) |-> d.sched[p].date]
  IN IF Candidates(d, row) = {} THEN d ELSE Realised(d, Best(found, row.date), i)
(* A link to a row that is gone violates the foreign key and throws.       *)
LinkRefused(d, i, row) == Candidates(d, row) # {} /\ i \notin Live(d)

RealisedBy(d, i) == {p \in Projections : d.sched[p] # None /\ d.sched[p].realised = i}
Unlinked(d, i) ==
  [d EXCEPT !.sched = [p \in Projections |->
     IF p \in RealisedBy(d, i) THEN [d.sched[p] EXCEPT !.realised = None] ELSE d.sched[p]]]

Names(disposal, i) == disposal.txn = i \/ disposal.acquisition = i

(* Fault: disposals that were matched with the row are forgotten.          *)
FaultyCleared(d, i) == [d EXCEPT !.disposals = {x \in d.disposals : x.txn # i}]
Cleared(d, i) == [d EXCEPT !.disposals = {x \in d.disposals : ~Names(x, i)}]
Removed(d, i) == [d EXCEPT !.txn[i] = None]

(* What the matcher reads: dividends pass it by, withheld tax too.         *)
Trades(d) ==
  {[id |-> i, type |-> d.txn[i].type, date |-> d.txn[i].date, gbp |-> d.txn[i].gbp] :
     i \in {j \in Live(d) : d.txn[j].type # "DIV_PAY"}}
Matched(d) == Match(Trades(d))

(* Disposals and pool are saved one after the other; a refusal saves       *)
(* neither and is logged.                                                  *)
Replaced(d) == [d EXCEPT !.disposals = Matched(d).disposals]
Saved(d) == [d EXCEPT !.pool = Matched(d).pool]

(* Fault: the pool is left as it was.                                      *)
FaultyRecalculated(d) == IF Matched(d).accepted THEN <<Replaced(d)>> ELSE <<>>
(* Fault: the old disposals are gone before the ledger is refused.         *)
HastyRecalculated(d) ==
  IF Matched(d).accepted THEN <<Replaced(d), Saved(Replaced(d))>>
  ELSE <<[d EXCEPT !.disposals = {}]>>
Recalculated(d) == IF Matched(d).accepted THEN <<Replaced(d), Saved(Replaced(d))>> ELSE <<>>

-----------------------------------------------------------------------------
CallState == [op : {"idle", "post", "patch", "import", "dividends"}, id : Nat,
              row : Terms \cup {None}, left : Seq(Body), touched : BOOLEAN]
Idle == [op |-> "idle", id |-> 0, row |-> None, left |-> <<>>, touched |-> FALSE]
Fields(row) == [type |-> row.type, date |-> row.date, price |-> row.price]
Call(op, i, row, left, touched) ==
  [op |-> op, id |-> i, row |-> Fields(row), left |-> left, touched |-> touched]
(* A call that has created its row and awaits the rate of its date.        *)
Creating(op, d, rows, touched) ==
  Call(op, Len(d.txn) + 1, Head(rows), Tail(rows), touched)

Busy(r) == server = "up" /\ request[r] # Idle
Ready(r) == server = "up" /\ request[r] = Idle
Admits(rows) == Len(db.txn) + Len(rows) <= MaxRows

Ended(r) == [request EXCEPT ![r] = Idle]
Halt ==
  /\ server' = "down" /\ todo' = {} /\ unsynced' = FALSE
  /\ request' = [r \in Requests |-> Idle]

(* A handler's statements up to its next await, or until the server stops. *)
Performs(steps, calls, flag) ==
  \/ /\ db' = steps[Len(steps)] /\ request' = calls /\ unsynced' = flag
     /\ server' = "up" /\ todo' = {}
  \/ /\ \E k \in 1 .. Len(steps) - 1 : db' = steps[k]
     /\ Halt

(* Before the first await: the row is there, unpriced.                     *)
Create(r, op, rows) ==
  /\ Ready(r) /\ Admits(rows)
  /\ db' = Inserted(db, Head(rows))
  /\ request' = [request EXCEPT ![r] = Creating(op, db, rows, FALSE)]
  /\ UNCHANGED <<server, todo, unsynced>>

Post(r) == \E body \in Bodies : Create(r, "post", <<body>>)
ImportFile(r) == \E file \in Files : Create(r, "import", file)

DividendTolerance == 3
HeldAt(date) ==
  LET earlier(types) == {i \in Live(db) : db.txn[i].type \in types /\ db.txn[i].date < date}
  IN Cardinality(earlier(Acquisitions)) > Cardinality(earlier({"SELL"}))
IsDuplicate(dividend) == \E i \in Live(db) :
  db.txn[i].type = "DIV_PAY" /\ Distance(db.txn[i].date, dividend.date) <= DividendTolerance
(* Places in the history, which is inserted from in its own order.         *)
ToInsert(history) ==
  {k \in DOMAIN history : ~IsDuplicate(history[k]) /\ HeldAt(history[k].ex)}
Paid(dividend) ==
  [type |-> "DIV_PAY", date |-> dividend.date, price |-> dividend.price, withheld |-> None]
ImportDividends(r) == \E history \in Histories :
  \E places \in [1 .. Cardinality(ToInsert(history)) -> ToInsert(history)] :
    /\ ToInsert(history) # {}
    /\ \A m, n \in DOMAIN places : m < n => places[m] < places[n]
    /\ Create(r, "dividends", [n \in DOMAIN places |-> Paid(history[places[n]])])

Or(new, old) == IF new = None THEN old ELSE new
Merged(row, patch) ==
  LET kept == IF WasAutoWithheld(row) THEN None ELSE row.withheld
  IN [type |-> Or(patch.type, row.type), date |-> Or(patch.date, row.date),
      price |-> Or(patch.price, row.price), gbp |-> row.gbp,
      withheld |-> Or(patch.withheld, kept)]
Edit(r) == \E i \in Live(db), patch \in Patches :
  LET row == Merged(db.txn[i], patch) IN
  /\ Ready(r)
  /\ db' = Updated(db, i, row)
  /\ request' = [request EXCEPT ![r] = Call("patch", i, row, <<>>, FALSE)]
  /\ UNCHANGED <<server, todo, unsynced>>

-----------------------------------------------------------------------------
(* After the await: the rate is there, the row may have changed or gone *)

(* An edit lets go of its projection before it looks for one.              *)
Freed(c, d) == IF c.op = "patch" THEN Unlinked(d, c.id) ELSE d
PricedBy(c) == Priced(db, c.id, c.row)
FreedBy(c) == Freed(c, PricedBy(c))
LinkedBy(c) == Linked(FreedBy(c), c.id, c.row)
Refused(c) == LinkRefused(FreedBy(c), c.id, c.row)

Save(r) ==
  LET c == request[r]
      done == Withheld(LinkedBy(c), c.id)
  IN /\ Busy(r) /\ c.op \in {"post", "patch"} /\ ~Refused(c)
     /\ Performs(<<PricedBy(c), FreedBy(c), LinkedBy(c), done>> \o Recalculated(done), Ended(r), FALSE)

SaveRefused(r) ==
  LET c == request[r]
  IN /\ Busy(r) /\ c.op \in {"post", "patch"} /\ Refused(c)
     /\ Performs(<<PricedBy(c), FreedBy(c)>>, Ended(r), unsynced)

(* An import goes on to its next row, and recalculates after the last one  *)
(* if any of them came through.                                            *)
Continue(r, steps, touched, flag) ==
  LET c == request[r]
      d == steps[Len(steps)]
      next == [request EXCEPT ![r] = Creating(c.op, d, c.left, touched)]
  IN IF c.left # <<>> THEN Performs(steps \o <<Inserted(d, Head(c.left))>>, next, flag)
     ELSE IF touched THEN Performs(steps \o Recalculated(d), Ended(r), FALSE)
     ELSE Performs(steps, Ended(r), flag)

ImportRow(r) ==
  LET c == request[r]
  IN /\ Busy(r) /\ c.op = "import"
     /\ IF Refused(c) THEN Continue(r, <<db>>, c.touched, unsynced)
        ELSE Continue(r, <<PricedBy(c), LinkedBy(c), Withheld(LinkedBy(c), c.id)>>, TRUE, unsynced)

IsTrade(d, i) == i \in Live(d) /\ d.txn[i].type # "DIV_PAY"
ImportDividend(r) ==
  LET c == request[r]
      flag == unsynced \/ IsTrade(db, c.id)
  IN /\ Busy(r) /\ c.op = "dividends"
     /\ Continue(r, <<PricedBy(c), Withheld(PricedBy(c), c.id)>>, FALSE, flag)

(* No rate: the call fails with the row as it is.  A file's next row is    *)
(* tried all the same.                                                     *)
RateFails(r) ==
  LET c == request[r]
  IN /\ Busy(r)
     /\ \/ c.op \in {"post", "patch"} /\ Performs(<<db>>, Ended(r), TRUE)
        \/ c.op = "dividends" /\ Performs(<<db>>, Ended(r), unsynced)
        \/ c.op = "import" /\ Continue(r, <<db>>, c.touched, TRUE)

-----------------------------------------------------------------------------
(* Calls without an await *)

Delete(i) ==
  LET unlinked == Unlinked(Cleared(db, i), i)
      removed == Removed(unlinked, i)
  IN /\ server = "up"
     /\ Performs(<<Cleared(db, i), unlinked, removed>> \o Recalculated(removed), request, FALSE)

RunTaxEngine ==
  /\ server = "up" /\ Matched(db).accepted
  /\ Performs(Recalculated(db), request, FALSE)

Schedule(p, entry) == [db EXCEPT !.sched[p] = entry]
Project(p) ==
  /\ server = "up" /\ db.sched[p] = None
  /\ \E e \in Entries : db' = Schedule(p, [type |-> e.type, date |-> e.date, realised |-> None])
  /\ UNCHANGED <<request, server, todo, unsynced>>
Unproject(p) ==
  /\ server = "up" /\ db.sched[p] # None
  /\ db' = Schedule(p, None)
  /\ UNCHANGED <<request, server, todo, unsynced>>

-----------------------------------------------------------------------------
(* Stop and start *)

Stop == server # "down" /\ Halt /\ UNCHANGED db

(* Fault: the pass looks at linked projections as well.                    *)
FaultyStart ==
  /\ server = "down"
  /\ server' = "starting" /\ todo' = {p \in Projections : db.sched[p] # None}
  /\ UNCHANGED <<db, request, unsynced>>
Start ==
  /\ server = "down"
  /\ server' = "starting" /\ todo' = Pending(db)
  /\ UNCHANGED <<db, request, unsynced>>

LinkedIds(d) == {d.sched[p].realised : p \in {q \in Projections : d.sched[q] # None}}
Realising(d, entry) ==
  {i \in Live(d) \ LinkedIds(d) : d.txn[i].type = entry.type /\ CanLink(d.txn[i].date, entry.date)}
BackfillProjection(p) ==
  LET entry == db.sched[p]
      found == [i \in Realising(db, entry) |-> db.txn[i].date]
  IN /\ server = "starting" /\ p \in todo
     /\ \A q \in todo \ {p} : Before(p, q, [x \in todo |-> db.sched[x].date])
     /\ todo' = todo \ {p}
     /\ db' = IF Realising(db, entry) = {} THEN db ELSE Realised(db, p, Best(found, entry.date))
     /\ UNCHANGED <<request, server, unsynced>>

BackfillWithholding(d) ==
  [d EXCEPT !.txn = [i \in DOMAIN d.txn |->
     IF d.txn[i] = None THEN None ELSE WithholdingOf(d.txn[i])]]
Boot ==
  LET d == BackfillWithholding(db)
  IN /\ server = "starting" /\ todo = {}
     /\ Performs(<<d>> \o Recalculated(d), request, FALSE)

-----------------------------------------------------------------------------
Init ==
  /\ db = [txn |-> <<>>, sched |-> [p \in Projections |-> None],
           disposals |-> {}, pool |-> [in |-> {}, out |-> 0]]
  /\ request = [r \in Requests |-> Idle]
  /\ server = "up" /\ todo = {} /\ unsynced = FALSE

Next ==
  \/ \E r \in Requests : Post(r) \/ ImportFile(r) \/ ImportDividends(r) \/ Edit(r)
  \/ \E r \in Requests : Save(r) \/ SaveRefused(r) \/ ImportRow(r) \/ ImportDividend(r)
  \/ \E r \in Requests : RateFails(r)
  \/ \E i \in Live(db) : Delete(i)
  \/ \E p \in Projections : Project(p) \/ Unproject(p) \/ BackfillProjection(p)
  \/ RunTaxEngine \/ Stop \/ Start \/ Boot

Spec == Init /\ [][Next]_vars

-----------------------------------------------------------------------------
(* Properties *)

(* Tables and calls keep their types.                                      *)
TypeOK ==
  /\ db \in Tables
  /\ request \in [Requests -> CallState]
  /\ \A r \in Requests :
       request[r] # Idle => request[r].id \in DOMAIN db.txn /\ request[r].row # None
  /\ server \in {"up", "down", "starting"} /\ todo \subseteq Pending(db) /\ unsynced \in BOOLEAN

Follows(d) ==
  Matched(d).accepted => d.disposals = Matched(d).disposals /\ d.pool = Matched(d).pool
WillRecalculate(r) == request[r].op \in {"post", "patch", "import"}

(* With no call under way that is yet to recalculate, and none that ended  *)
(* without (unsynced), disposals and pool are what the ledger gives, if it *)
(* gives anything: however calls overlapped, and after any stop.           *)
DerivedFollows ==
  server = "up" /\ ~unsynced /\ ~(\E r \in Requests : WillRecalculate(r)) => Follows(db)

References(d) ==
  /\ \A p \in Projections : d.sched[p] # None => d.sched[p].realised \in Live(d) \cup {None}
  /\ \A x \in d.disposals : {x.txn, x.acquisition} \subseteq Live(d) \cup {None}
(* Nothing derived names a row that is gone: what a deletion clears is all *)
(* that refers to the row, so that foreign keys never stop it.             *)
ReferencesLive == References(db)

(* A withheld amount the user typed in is never computed over.             *)
TypedKept == [][
  \A i \in Live(db) : db.txn[i].withheld = Typed /\ db'.txn[i] # None => db'.txn[i].withheld = Typed
  ]_vars

(* A projection stays with the row that realises it until that row is      *)
(* edited or deleted, and no other row takes it over meanwhile.            *)
LinkKept == [][
  \A p \in Projections : LET i == db.sched[p].realised IN
    db.sched[p] # None /\ i # None /\ db'.sched[p] # None =>
      \/ db'.sched[p].realised = i
      \/ /\ db'.sched[p].realised = None
         /\ \/ i \notin Live(db') \/ server' = "down"
            \/ \E r \in Requests : request[r].op = "patch" /\ request[r].id = i /\ request'[r] = Idle
  ]_vars

(* While the ledger cannot be matched, what was last saved stays, but for  *)
(* disposals that name a row deleted since.                                *)
RejectionKeeps == [][
  server' = "up" /\ ~Matched(db').accepted =>
    /\ db'.pool = db.pool /\ db'.disposals \subseteq db.disposals
    /\ \A x \in db.disposals \ db'.disposals : \E i \in {x.txn, x.acquisition} \ {None} :
         i \notin Live(db')
  ]_vars

(* Computed withholding is that of the gross that is stored, whenever no   *)
(* call is under way: a stale one would misstate the foreign tax credit.   *)
WithholdingCurrent ==
  server = "up" /\ (\A r \in Requests : request[r] = Idle) =>
    \A i \in Live(db) : db.txn[i].withheld \in {None, Typed, db.txn[i].gbp}

=============================================================================
