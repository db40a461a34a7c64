------------------------------ MODULE MarketData ------------------------------
(***************************************************************************)
(* Exchange rates and prices: the caches of both (services/fx,             *)
(* services/prices and their stores), the requests that read and fill them *)
(* (routes/holdings.ts, services/holdings/valuation.ts, routes/charts.ts)  *)
(* and the backfill-fx command.                                            *)
(*                                                                         *)
(* One instrument, in one foreign currency, and the days of one month.     *)
(* Every fetch is an await; whatever a request does between two of them    *)
(* happens at once.  A price is told apart by whether it is the close of   *)
(* its day; a daily rate by the business day it is of; the monthly rate is *)
(* one value.                                                              *)
(***************************************************************************)
EXTENDS Integers, FiniteSetsExt

CONSTANTS
  LastDay,     \* bound: the days are 1..LastDay, of one month
  Trading,     \* the days with a close and a daily rate
  Back,        \* how far getPrice walks back: 5 days in the code
  Requests,
  Rows,        \* transactions that carry a native price only
  None

Days == 1..LastDay

MarketConstantsOK ==
  /\ LastDay \in Nat /\ LastDay > 0
  /\ Trading \subseteq Days /\ 1 \in Trading
  /\ Back \in Nat
  /\ None \notin Days \cup {0} /\ None \notin {"close", "intraday"}

VARIABLES
  today, closed,  \* the clock: the day, and whether its close and its rate are out
  policy,         \* FX_RATE_POLICY
  monthly,        \* the month's row of type hmrc-monthly is there
  spot,           \* rows of type daily-spot: per date, the business day of the rate
  prices,         \* table price
  locked,         \* the keyring
  req,            \* per request, what it keeps across its await
  answer,         \* per request, what it returned
  early,          \* history: the dates whose daily rate was fetched before it was out
  encrypted,      \* the database is encrypted
  backfill,       \* the command: the row it waits for, or None; the rows it has not done
  filled,         \* the rows that have their GBP amounts
  plaintext       \* history: rows written as plaintext into an encrypted database

rates == <<monthly, spot, early>>
offline == <<encrypted, backfill, filled, plaintext>>
marketVars == <<today, closed, policy, rates, prices, locked, req, answer, offline>>

Values == {"close", "intraday"}
Monthly == 0   \* the month's rate, beside the days' rates
Idle == [at |-> "new", kind |-> None, date |-> None, offset |-> 0,
         floor |-> 0, sure |-> FALSE, first |-> None]

Stages == {"new", "price", "range", "hmrc", "spot", "ended"}
Kinds == {"price", "value", "plan", "range", "rate"}

Await(r, stage, locals) == req' = [req EXCEPT ![r] = [locals EXCEPT !.at = stage]]

(* Outcomes: a price and its date, a rate, nothing, or an error.           *)
NoAnswer == [is |-> "none", date |-> None, rate |-> None]
Return(r, locals, what) ==
  /\ req' = [req EXCEPT ![r] = [locals EXCEPT !.at = "ended"]]
  /\ answer' = [answer EXCEPT ![r] = what]
Fail(r, error) == Return(r, req[r], [NoAnswer EXCEPT !.is = error])

-----------------------------------------------------------------------------
(* What the services publish (external). *)

Out(d) == d \in Trading /\ (d < today \/ (d = today /\ closed))

(* Frankfurter rolls back to the last business day it has.                 *)
Published(d) == Max({b \in Trading : b <= d /\ Out(b)})

(* The providers in turn: any may have nothing or fail.  Yahoo has a price *)
(* of the running day.                                                     *)
Quote(d) ==
  IF Out(d) THEN {"close"} ELSE IF d \in Trading /\ d = today THEN {"intraday"} ELSE {}

-----------------------------------------------------------------------------
(* Exchange rates. *)

Told(rate) == [NoAnswer EXCEPT !.is = "rate", !.rate = rate]

(* Faulty: the cache is asked for the date, but holds the month's first.   *)
FaultyHasMonth(date) == monthly /\ date = 1
(* getHmrcRateForDate looks under the first of the month.                  *)
HasMonth(date) == monthly

(* A rate is there.  The purchase plan asks again, for the price that was  *)
(* paid; it waits again where the first answer was not the monthly one.    *)
Converted(r, locals, rate) ==
  LET once == [locals EXCEPT !.first = rate]
  IN  IF locals.kind # "plan" \/ locals.first # None THEN Return(r, locals, Told(rate))
      ELSE IF rate = Monthly \/ policy = "daily-spot" THEN Return(r, once, Told(rate))
      ELSE IF HasMonth(locals.date) THEN Return(r, once, Told(Monthly))
      ELSE Await(r, "hmrc", once) /\ UNCHANGED answer

(* getFrankfurterRate up to its fetch.                                     *)
AskSpot(r, locals) ==
  IF spot[locals.date] # None
  THEN Converted(r, locals, spot[locals.date])
  ELSE Await(r, "spot", locals) /\ UNCHANGED answer

(* getRate, for another currency than pounds or pence.                     *)
AskRate(r, locals) ==
  LET known == [locals EXCEPT !.sure = monthly]
  IN  IF policy = "daily-spot" THEN AskSpot(r, known)
      ELSE IF HasMonth(locals.date) THEN Converted(r, known, Monthly)
      ELSE Await(r, "hmrc", known) /\ UNCHANGED answer

GetRate(r, d) ==
  /\ req[r].at = "new" /\ d <= today
  /\ AskRate(r, [Idle EXCEPT !.kind = "rate", !.date = d])
  /\ UNCHANGED <<today, closed, policy, rates, prices, locked, offline>>

(* fetchHmrcMonthlyRates: the file with a row for the currency, or without *)
(* one where another request has stored it meanwhile.                      *)
HmrcAnswers(r) ==
  /\ req[r].at = "hmrc"
  /\ monthly' = TRUE
  /\ Converted(r, req[r], Monthly)
  /\ UNCHANGED <<today, closed, policy, spot, early, prices, locked, offline>>

(* No file or an error, whatever another request stored meanwhile; or a    *)
(* file without the currency.                                              *)
HmrcFails(r) ==
  /\ req[r].at = "hmrc"
  /\ AskSpot(r, req[r])
  /\ UNCHANGED <<today, closed, policy, rates, prices, locked, offline>>

(* Faulty: a rate that was rolled back is taken for one of the date itself. *)
FaultyStoreSpot(d, b) == spot' = [spot EXCEPT ![d] = d, ![b] = b] /\ UNCHANGED early
(* The rate is stored under the business day and under the date asked for. *)
StoreSpot(d, b) ==
  /\ spot' = [spot EXCEPT ![d] = b, ![b] = b]
  /\ early' = IF d \in Trading /\ b # d THEN early \cup {d} ELSE early

SpotAnswers(r) ==
  /\ req[r].at = "spot"
  /\ LET d == req[r].date
         b == Published(d)
     IN  StoreSpot(d, b) /\ Converted(r, req[r], b)
  /\ UNCHANGED <<today, closed, policy, monthly, prices, locked, offline>>

SpotFails(r) ==
  /\ req[r].at = "spot"
  /\ Fail(r, "error")
  /\ UNCHANGED <<today, closed, policy, rates, prices, locked, offline>>

-----------------------------------------------------------------------------
(* Prices. *)

Priced(d) == [NoAnswer EXCEPT !.is = "price", !.date = d]
Cached(d) == d \in Days /\ prices[d] # None
LatestCached(d) == Max({c \in Days : c <= d /\ Cached(c)} \cup {0})

(* What a request does with its price: computeHoldings asks for the rate   *)
(* of the day of the price, and does without a rate that fails.            *)
Settle(r, d) ==
  IF req[r].kind = "value" THEN AskRate(r, [req[r] EXCEPT !.date = d])
  ELSE Return(r, req[r], Priced(d))

(* Faulty: only the date that was asked for is looked up in the cache.     *)
FaultyFallback(d) == FALSE
Fallback(d) == Cached(d)

(* getPrice walks back a day at a time: the cache, then the providers.     *)
WalkBack(r) ==
  LET offset == req[r].offset + 1
      d == req[r].date - offset
  IN  IF offset > Back \/ d < 1 THEN Return(r, req[r], NoAnswer)
      ELSE IF Fallback(d)
      THEN IF locked THEN Fail(r, "locked") ELSE Settle(r, d)
      ELSE Await(r, "price", [req[r] EXCEPT !.offset = offset]) /\ UNCHANGED answer

(* POST /refresh-prices.                                                   *)
GetPrice(r, d) ==
  /\ req[r].at = "new" /\ ~locked /\ d <= today
  /\ LET locals == [Idle EXCEPT !.kind = "price", !.date = d, !.floor = LatestCached(d)]
     IN  IF Cached(d)
         THEN Return(r, locals, Priced(d))
         ELSE Await(r, "price", locals) /\ UNCHANGED answer
  /\ UNCHANGED <<today, closed, policy, rates, prices, locked, offline>>

(* Without a price there is no estimate.                                   *)
Estimate(r, kind) ==
  /\ req[r].at = "new" /\ ~locked
  /\ LET latest == LatestCached(today)
         locals == [Idle EXCEPT !.kind = kind, !.date = latest, !.floor = latest]
     IN  IF latest > 0 THEN AskRate(r, locals)
         ELSE Return(r, [locals EXCEPT !.date = today], NoAnswer)
  /\ UNCHANGED <<today, closed, policy, rates, prices, locked, offline>>

(* GET /cost-vs-value and GET /projections.                                *)
CostVsValue(r) == Estimate(r, "value")
ProjectEvents(r) == Estimate(r, "value")
(* The purchases still to come of GET /espp.                               *)
ProjectPlan(r) == Estimate(r, "plan")

(* GET /holdings: the latest price, however old; a fetch where there is    *)
(* none.                                                                   *)
Value(r) ==
  /\ req[r].at = "new" /\ ~locked
  /\ LET latest == LatestCached(today)
         locals == [Idle EXCEPT !.kind = "value", !.date = today, !.floor = latest]
     IN  IF latest > 0 THEN AskRate(r, [locals EXCEPT !.date = latest])
         ELSE Await(r, "price", locals) /\ UNCHANGED answer
  /\ UNCHANGED <<today, closed, policy, rates, prices, locked, offline>>

PriceArrives(r) ==
  /\ req[r].at = "price"
  /\ LET d == req[r].date - req[r].offset
     IN  \E v \in Quote(d) :
           IF locked
           THEN Fail(r, "locked") /\ UNCHANGED prices
           ELSE prices' = [prices EXCEPT ![d] = v] /\ Settle(r, d)
  /\ UNCHANGED <<today, closed, policy, rates, locked, offline>>

NoPrice(r) ==
  /\ req[r].at = "price"
  /\ WalkBack(r)
  /\ UNCHANGED <<today, closed, policy, rates, prices, locked, offline>>

(* POST /fetch-history, and GET /portfolio-value, which asks for a range   *)
(* only when the first price it has is late; the gaps of the range stay.   *)
FetchRange(r) ==
  /\ req[r].at = "new" /\ ~locked
  /\ Await(r, "range", [Idle EXCEPT !.kind = "range", !.date = today])
  /\ UNCHANGED <<today, closed, policy, rates, prices, locked, answer, offline>>

RangeArrives(r) ==
  /\ req[r].at = "range"
  /\ \E got \in SUBSET {d \in Days : d <= req[r].date /\ Quote(d) # {}} :
       IF locked /\ got # {}
       THEN Fail(r, "locked") /\ UNCHANGED prices
       ELSE /\ prices' = [d \in Days |-> IF d \in got THEN CHOOSE v \in Quote(d) : TRUE ELSE prices[d]]
            /\ Return(r, req[r], NoAnswer)
  /\ UNCHANGED <<today, closed, policy, rates, locked, offline>>

-----------------------------------------------------------------------------
(* backfill-fx: it reads the rows once and waits for a rate before each. *)

StartBackfill ==
  /\ backfill.left = {} /\ ~backfill.done /\ ~encrypted
  /\ backfill' = [left |-> Rows \ filled, done |-> TRUE]
  /\ UNCHANGED <<today, closed, policy, rates, prices, locked, req, answer,
                 encrypted, filled, plaintext>>

(* Faulty: only the start of the command looks.                            *)
FaultyMayFill == TRUE
(* assertNotEncrypted, under the write lock.                               *)
MayFill == ~encrypted

Fill(row) ==
  /\ row \in backfill.left
  /\ IF MayFill
     THEN /\ backfill' = [backfill EXCEPT !.left = @ \ {row}]
          /\ filled' = filled \cup {row}
          /\ plaintext' = IF encrypted THEN plaintext \cup {row} ELSE plaintext
     ELSE backfill' = [backfill EXCEPT !.left = {}] /\ UNCHANGED <<filled, plaintext>>
  /\ UNCHANGED <<today, closed, policy, rates, prices, locked, req, answer, encrypted>>

(* No rate: the row is left, and the next one is tried.                    *)
FillFails(row) ==
  /\ row \in backfill.left
  /\ backfill' = [backfill EXCEPT !.left = @ \ {row}]
  /\ UNCHANGED <<today, closed, policy, rates, prices, locked, req, answer,
                 encrypted, filled, plaintext>>

(* Setup or the upgrade, in the server.                                    *)
Encrypt ==
  /\ ~encrypted /\ encrypted' = TRUE
  /\ UNCHANGED <<today, closed, policy, rates, prices, locked, req, answer,
                 backfill, filled, plaintext>>

-----------------------------------------------------------------------------
Tick ==
  /\ IF closed THEN today + 1 \in Days /\ today' = today + 1 /\ closed' = FALSE
     ELSE today' = today /\ closed' = TRUE
  /\ UNCHANGED <<policy, rates, prices, locked, req, answer, offline>>

(* The last session ends, or someone signs in.                             *)
TurnKey ==
  /\ encrypted /\ locked' = ~locked
  /\ UNCHANGED <<today, closed, policy, rates, prices, req, answer, offline>>

MarketInit ==
  /\ today = 1 /\ closed = TRUE
  /\ policy \in {"hmrc-monthly", "daily-spot"}
  /\ monthly \in {FALSE, policy = "hmrc-monthly"} /\ spot = [d \in Days |-> None] /\ early = {}
  /\ prices = [d \in Days |-> None]
  /\ encrypted \in BOOLEAN /\ locked = FALSE
  /\ req = [r \in Requests |-> Idle] /\ answer = [r \in Requests |-> NoAnswer]
  /\ backfill = [left |-> {}, done |-> FALSE] /\ filled = {} /\ plaintext = {}

MarketNext ==
  \/ \E r \in Requests :
       \/ \E d \in Days : GetRate(r, d) \/ GetPrice(r, d)
       \/ Value(r) \/ CostVsValue(r) \/ ProjectEvents(r) \/ ProjectPlan(r) \/ FetchRange(r)
       \/ HmrcAnswers(r) \/ HmrcFails(r) \/ SpotAnswers(r) \/ SpotFails(r)
       \/ PriceArrives(r) \/ NoPrice(r) \/ RangeArrives(r)
  \/ \E row \in Rows : Fill(row) \/ FillFails(row)
  \/ StartBackfill \/ Encrypt \/ Tick \/ TurnKey

MarketSpec == MarketInit /\ [][MarketNext]_marketVars

-----------------------------------------------------------------------------
(* Types.                                                                  *)
MarketTypeOK ==
  /\ today \in Days /\ closed \in BOOLEAN /\ policy \in {"hmrc-monthly", "daily-spot"}
  /\ monthly \in BOOLEAN /\ spot \in [Days -> Trading \cup {None}] /\ early \subseteq Days
  /\ prices \in [Days -> Values \cup {None}]
  /\ locked \in BOOLEAN /\ encrypted \in BOOLEAN /\ (locked => encrypted)
  /\ req \in [Requests -> [at : Stages, kind : Kinds \cup {None}, date : Days \cup {None},
                           offset : 0..Back, floor : Days \cup {0}, sure : BOOLEAN, first : Days \cup {Monthly, None}]]
  /\ answer \in [Requests -> [is : {"none", "price", "rate", "error", "locked"},
                              date : Days \cup {None}, rate : Days \cup {Monthly, None}]]
  /\ backfill \in [left : SUBSET Rows, done : BOOLEAN]
  /\ filled \subseteq Rows /\ plaintext \subseteq Rows

Rated(r) == req[r].at = "ended" /\ answer[r].is = "rate"

(* fx/index.ts:58, "check local cache first regardless of policy": two     *)
(* lookups of one date give one rate, in whatever order their fetches      *)
(* answer or fail, so that equal transactions are not taxed at different   *)
(* rates, and both prices of a purchase to come are converted at one rate  *)
(* (routes/tax.ts:282, "apply same FX conversion").  Not covered are a     *)
(* date whose daily rate was fetched before it was out, and, under the     *)
(* monthly policy, lookups that began before the month was stored: a fetch *)
(* that fails falls back to the daily rate.                                *)
Settled(r) ==
  /\ Rated(r) /\ req[r].date \notin early
  /\ policy = "hmrc-monthly" => req[r].sure
RatesAgree ==
  \A r, q \in Requests :
    Settled(r) /\ Settled(q) /\ req[r].date = req[q].date =>
      /\ answer[r].rate = answer[q].rate
      /\ req[r].kind = "plan" => req[r].first = answer[r].rate

(* prices/cache.ts:56: walking back past the days that have no price never *)
(* passes one that the cache held when the price was asked for, whichever  *)
(* providers fail meanwhile.                                               *)
PriceNotOlder ==
  \A r \in Requests :
    req[r].at = "ended" /\ req[r].kind = "price" =>
      /\ answer[r].is = "price" => answer[r].date >= req[r].floor
      /\ answer[r].is = "none" => req[r].floor = 0 \/ req[r].floor < req[r].date - Back

(* commands/backfill-fx.ts:88, "an encryption started while this waits on  *)
(* exchange rates cannot be followed by plaintext writes".                 *)
NoPlaintext == plaintext = {}
=============================================================================
