# A formal model of UK Tax Tracker

TLA+ specifications of the server of UK Tax Tracker, the TLC configurations that check them on small
instances, and proofs for TLAPS. Paths below are relative to `src/server/` of the repository unless
they say otherwise. `PROJECT.json` maps every definition to the lines it models and lists the runs,
the faulty variants each property must catch, the findings, the hazards and the theorems.

Run everything from this directory:

    tlc -workers 2 -config MCKeyCustody.cfg MCKeyCustody.tla
    tlapm KeyCustody_proofs.tla

## 1. Inventory

The program is one Node process with one SQLite file, a browser client and a few offline commands.

| Part | State | Operations | Correct when |
|---|---|---|---|
| Share matching (`services/tax/matching.ts`, `pool.ts`) | two queues over a sorted ledger, the Section 104 pool, the disposals | match one disposal by three rules; add, split, return capital | shares identified once, in statutory order; the pool is the holding; gains add up |
| Tax summaries and reports (`services/tax/cgt_summary.ts`, `dividends.ts`, `espp.ts`, `services/export/computation.ts`, `cgtcalculator.ts`, `routes/tax.ts`, `charts.ts`, `import-export.ts`) | none: each computes from the disposals, the pool history or the rows | summarise a year, estimate tax, scope the evidence, chart, export | the same figure is the same wherever it is computed |
| Key custody (`routes/auth.ts`, `crypto/keyring.ts`, `keyslots.ts`, `session-tracker.ts`, `upgrade.ts`, `lock.ts`) | the `user` row, `key_slot`, key in memory, live sessions, audit events, safety copies | setup, login, recover, change, upgrade, confirm, rotate recovery key, logout, sweep, boot | who signs in can open the data; one data key; nothing lost while a key is unconfirmed |
| Key rotation and key commands (`crypto/rotate.ts`, `commands/rotate.ts`, `keys.ts`, `open-data.ts`) | every sealed value, the slots, the pre-rotation copy, free pages and WAL | rotate, add or remove the unattended key, new recovery key, scrub | every slot opens the data; the report says what happened |
| Data directory (`services/backup/server-lock.ts`, `restore.ts`, `start.ts`, `commands/data-dir-lock.ts`) | `server.lock`, the database file, `restore-pending.db`, `restore-applying.db`, pre-restore copies | start, beat, stage, cancel, claim, validate, copy, swap, open | one owner; no acknowledged write lost; protected data stays protected |
| Copies and archives (`services/backup/archive.ts`, `backups.ts`, `scheduler.ts`, `db/database.ts`) | files in `backups/`, the archive, migrations applied | back up, prune, schedule, migrate, export, import into empty or replacing | enough later copies stay; what is replaced or migrated is in a copy |
| Transactions and recalculation (`routes/transactions.ts`, `services/tax/recalc.ts`, `engine.ts`) | `txn`, `cgt_disposal`, `s104_pool`, `vest_schedule` with its links | create, patch, delete, import a file or dividends, project, run the tax engine, start-up pass | derived rows follow from the ledger; nothing names a row that is gone; what the user typed stays |
| Rates, prices, valuations (`services/fx`, `services/prices`, `services/holdings`, `commands/backfill-fx.ts`) | cached rates and prices | fetch, walk back, fall back, cache, value, backfill | one date has one rate; no older price than a cached one; nothing in plaintext once encrypted |
| Browser: session (`client/src/App.svelte`, `lib/api.ts`, `Login`, `Setup`, `Recover`, `Upgrade`, `RecoveryKey`) | the screen, who is signed in, locked, the upgrade's state, a key that is shown once, fetches under way | sign in, set up, upgrade, confirm, rotate, sign out | an unconfirmed recovery key is asked for |
| Browser: entry (`Transactions`, `Projections`, `ImportExport`) | form, panel, preview, one loading flag, handlers under way | open, choose, create an instrument, save, preview, import | what is sent is what was entered, once |
| Browser: reports (`TaxSummary`, `Dashboard`, `Holdings`, `Backups`) | choice, parts shown, loads under way | select, load, run an operation, expand | what is shown belongs to the choice |
| Field cipher, KDF, password hashing (`crypto/aead.ts`, `kdf.ts`, ...) | none | seal, open, derive | external cryptography |
| CSV and PDF layout, settings, instruments, CLI parsing | single rows or none | read, format, parse | I/O and layout |

Interaction. Routes call the stores directly; stores seal and open fields through the keyring, so the
lock state decides what any of them can do. The session tracker locks the keyring through its
`onEmpty` callback. The first unlock runs the start-up tasks, which recalculate every instrument. A
recalculation is a call of the matcher followed by writes of disposals and pool; every report reads
those. Servers and offline commands meet only in the file system: `server.lock`, the staged restore,
the database file and its copies. The browser meets the server in fetches, each of which may be
answered late, in another order, or not at all.

What is hard here:

* handlers that await the thread pool (argon2 takes about a second), a rate or a price between reading
  a row and using it, on the server, in commands beside it and in the browser;
* the same secret kept twice, as a login hash and as a key slot, in different tables;
* a key in memory whose life is tied to sessions that may end while a request is under way;
* files that stand for state (`restore-applying.db`, the safety copy, the heartbeat, copies whose names
  are their order) and processes that can stop between any two renames, or sleep for longer than a
  lock lasts;
* a matching algorithm with overlapping claims on the same shares, integer rounding, and corporate
  events inside its 30-day window; and the same figures computed from it in half a dozen places.

## 2. Modules

| Module | What it is | Proofs |
|---|---|---|
| `ShareMatching` | `matchDisposals`, one action per loop iteration | `ShareMatching_proofs` |
| `TaxReports` | extends it by the pool history; the yearly summary, the report's computations, the replays of the ledger | `ShareMatching_proofs` |
| `IncomeReports` | extends that by dividends, purchase plans, monthly charts and the engine's summaries | `ShareMatching_proofs` |
| `KeyCustody` | the handlers of `routes/auth.ts` and what they share | `KeyCustody_proofs` |
| `DataVault` | abstract: what these handlers promise about the stored data | |
| `KeyMaintenance` | rotation and key commands beside a server | `KeyHandling_proofs` |
| `DataDirectory` | the lock file and the restore, processes that crash | `DataDirectory_proofs` |
| `Backups` | copies, pruning, migrations, archives | `Upkeep_proofs` |
| `TransactionLedger` | the handlers that change transactions, and what they derive | `TransactionLedger_proofs` |
| `MarketData` | rates, prices, valuations, backfill | `Upkeep_proofs` |
| `BrowserSession` | the client's sign-in state machine against the server's answers | `KeyHandling_proofs` |
| `MountedScreen` | what the two modules below have in common: the mounted screen, its flag, its handlers | |
| `EntryForms` | the client's forms and imports | `Screens_proofs` |
| `ReportScreens` | the client's screens that show computed figures | `Screens_proofs` |
| `Services` | the six parts that need no other one, of which the first step chooses one | `Services_proofs` |
| `MCShareMatching`, `MCTaxReports`, `MCKeyCustody`, `MCDataDirectory`, `MCTransactionLedger`, `MCServices` | instances for TLC | |

What composes what. `IncomeReports` extends `TaxReports`, which extends `ShareMatching`: its `HistoryNext`
runs the matcher's actions and records a snapshot beside those after which the code pushes one, and
the reports are operators on the state in which the matcher returns. `TransactionLedger` takes the
matcher as the operator `Match`, of which `ShareMatching` is the full account. `KeyCustody` implements
`DataVault`. The others share no variable with each other and are not composed into one state machine:
`DataDirectory` sees the database as a file with a set of edits and a flag for key slots; `KeyCustody`
is what happens inside a process that owns it (`Restart` is the boot of `lock.ts`); `KeyMaintenance` takes
from `DataDirectory` that one process owns the directory, and cuts the server down to its key;
`Backups` cuts it down to whether it runs. `BrowserSession` takes the handlers of `KeyCustody` as answers
that come at once. `Services` instantiates the proof modules of six of them (and with these the modules), so
that what is proved of a part can be cited for the whole.

### ShareMatching

`ledger` is the list passed in, `pending` the ids the main loop has not reached, `cur` and `toMatch`
the disposal in hand (`matching.ts:142`), `remaining` the queue entries (`matching.ts:121`), `pool` the
Section 104 pool, `disposals` the result. Each of `MatchSameDay`, `MatchThirtyDay`, `MatchPool` is one
iteration of the loop of that rule; `TakeAcquisition`, `TakeSplit`, `TakeUnsplit`, `TakeCapReturn`,
`TakeRightsIssue` and `TakeIgnored` are the other branches; `RejectDisposal` is the throw at
`matching.ts:243`. Quantities and money are integers in units of the eighth decimal, and `RoundDiv`
rounds as `toFixed(8)` does; a `Decimal` wider than that is not modelled.

### KeyCustody

A handler runs uninterrupted up to its next await on the thread pool. So each action is one such
stretch of a handler, and `req[r]` holds what request `r` keeps across the await. Awaits that only
queue microtasks (the HKDF of the recovery slot, the in-memory session store) do not let another
handler in and do not split an action. Keys, hashes, sessions and copies are named after the request
that made them, so that two keys are equal exactly when they are the same key. `database` survives
`Restart`; `keyring` and sessions do not. `GoIdle` is time passing for a session and `Sweep` is the
interval timer of `lock.ts`.

Left out: the `/lock` route and rate limiting, listing of leftover copies and the cipher itself. The
commands that change slots are in `KeyMaintenance`.

### DataVault

One passphrase, one key, whether it is open, and the keys that values are sealed under. Its key, once
there, never changes; all values change key in the step that creates it; nothing is stored while it is
shut. `KeyCustody` maps `passphrase` to the secret of the passphrase slot (or of the login, before
there are slots), `key` to the data key of the slots and `open` to the keyring.

### DataDirectory

`lock` is `server.lock` with its last writer and an age class: fresh for 30 seconds, suspect until ten
minutes, then dead, which is all the code distinguishes. `applying` is the claimed restore with its
own class (five minutes). A process is a server or `tax-tracker restore`; `proc[p].at` is the step it
is about to take. Every file operation whose order matters is an action: look at the lock, wait,
write it, stage, claim, validate, copy, swap, open. Steps that the code takes without any other
process being able to tell them apart are one action: requeue-and-claim, the removal of sidecars and the
rename. `SetAside` moves a file to the backups that was refused, or could not be put in place. `Crash` is possible anywhere and leaves the lock; `Stop` is a signal or a failed start and
removes it. `Stall` stops a heartbeat (a long synchronous check, a suspended machine) while the steps
of the process can go on.

Whether a process shares a host with the lock's owner is not fixed: where `writtenByDeadProcessHere`
would settle the matter on one host and the clock on another, both are possible. `excused` becomes TRUE
in the two situations the code cannot see: two processes look at the lock in the same moment (looking and
writing are separate, `start.ts:21` and `:26`), or a lock runs out while its owner is stalled.
Properties are about directories where neither has happened. In the first situation two processes do
end up as owners; this is recorded as a hazard.

Left out: live files that SQLite finds damaged (copied raw), clocks that disagree between hosts,
reasons to reject a staged file other than a downgrade (`SetAside` covers them as a free choice), and the
migrations at opening. A safety copy stays: `pre-restore` copies are not pruned (`backups.ts:19`).

### TransactionLedger

`db` holds the tables of one instrument: `txn` (a row's id is its place; a deleted row is `None`, ids
being `AUTOINCREMENT`), `sched` (`vest_schedule` with `realised_txn_id`), `disposals` and `pool`.
`request[r]` is a call that awaits the exchange rate of its row: the id, the fields it had read
(`merged` of `transactions.ts:242`, the body of a POST), the rows an import has left, whether it has
`touchedInstruments`. Between two awaits a handler runs alone, but each of its statements commits on
its own. So an action lists the tables after each statement, and `Performs` either reaches the last of
them or stops the process at one of the others. `Recalculated` is `recalcInstrument`: two statements
(`engine.ts:121`, `:122`) when the matcher accepts, none when it throws.

| Handler | Actions |
|---|---|
| POST | `Post` up to the await, `Save`, or `SaveRefused` when the row is gone and the link violates its foreign key |
| PATCH | `Edit`, then `Save` or `SaveRefused` (which has unlinked already) |
| CSV import | `ImportFile`, `ImportRow` for each row, going on with the next one |
| dividend import | `ImportDividends` (duplicates and holdings looked up once), `ImportDividend` for each |
| any of them without a rate | `RateFails` |
| DELETE, `POST /tax/run`, projections | `Delete`, `RunTaxEngine`, `Project`, `Unproject`: no await |
| stop and start | `Stop`, `Start`, `BackfillProjection` for each pending projection, `Boot` (withholding, then recalculation) |

Data is cut down to what the properties tell apart: shares come one at a time, a GBP figure is the
price and the date it was computed from, a withheld amount is such a figure, or `Typed`. An amount
that was typed and equals the computed one by chance is left out: `wasAutoWithheld` cannot tell it
apart and the code says so. `unsynced` is a history variable: a call ended for want of a rate, or a dividend
import has priced a row that was edited into a trade meanwhile, and nothing has been recalculated
since. In both situations the code does leave the derived rows behind.

Left out: the audit log, figures given by hand (`fxRate`, ESPP discount, `dividendGrossGbp`, which `IncomeReports` has), rows
that carry no price, `commands/backfill-fx`, keys that lock while a call waits (`KeyCustody`).

### TaxReports and IncomeReports

`history` is the list of snapshots that `matchDisposals` returns beside the disposals. The summary of a
year (`cgt_summary.ts`) is `Records`, `GainsOf`, `LossesOf`, `CostsForReturn`, `TaxableGain` and the
estimate, which in a year whose rates change weighs both sets by the number of records (as the code
does). The annual report is `Computation`, `ReportTotals` and `ScopedHistory` with the boundary of
`computation.ts:217`. `Timeline` is the quantity replay of `charts.ts`, which goes by date and id, clamps at zero and
leaves rights issues out; it is a function on sets of transactions, of which the last one listed is taken last. `ExportedShares` sums
the rows of `cgtcalculator.ts`. `IncomeReports` adds dividends per payment
(`dividends.ts`), per year (`routes/tax.ts`) and in the chart, purchase plans (`espp.ts`), monthly gains and
the summaries of the engine. Which rate a dividend is taxed at is decided twice: `AboveForPage` compares whole
pounds of the income with a constant (`PageLimit`, 50270 in `tax.ts:141`), `AboveForReport` all of it with the year's
limit (`import-export.ts:423`). `SameBand` says that they agree, and the report's credits are compared with the year's
only then. Gross and net amounts that were typed in are a
column of the instance, or `NotTyped`; the page goes by the gross one, the chart by the net one, so that the two are compared only
where they were typed together (`TypedInPairs`). Rates are whole percentages and incomes and dividend tax are counted in hundredths, so
these are exact; what is rounded is what the matcher has rounded.

Left out: `rsu.ts` (`rsuPoolEntry` has no caller), several instruments in one summary, years without a
configuration row, the wording and layout of reports.

### KeyMaintenance

`proc[c]` is a command with what it keeps across a prompt or a derivation. `keys rotate` is
`StartRotate` (claim, passphrase), `RotateVerified` (pre-rotation copy, look at the unattended slot),
`RotateUnlocked`, `RotateChecked`, then one transaction that ends in one of three ways: it lands,
also where COMMIT reports an error (`RotateLands`), it fails (`RotateFails`), or COMMIT leaves it open
so that the look at the slots reads the rotation's own rows (`RotateStaysOpen`, `rotate.ts:183`; a
COMMIT can fail for a reader only outside WAL mode, in which a restored file is until a server opens
it). `RotateScrubs` is the clean-up. The other commands run `StartCommand`, an unlock, and one write;
`AddChecked` is the look at the data key before the derivation of the unattended slot, `AddUnattended`
the write after it. The server boots (with or without the unattended key), is signed in to, changes its
passphrase, writes and stops. `Killed` is possible at any await.

`overtaken`, `disturbed` and `misled` are history variables for what the code does not see: a rotation
between the check and the write of an unattended slot, another command's write to that slot during a
rotation, and the open transaction. The properties say what holds outside them.

### Backups

`entries` are the rows of the portfolio, `since` a history of when each came in last. A copy has a reason,
a stamp, a number (the order of copies of one tick) and what it holds. `CreateBackup` is
`VACUUM INTO`, check, rename and the pruning of both pools; a copy that fails leaves nothing. `Start(v)` is
`initDb` of an app with `v` migrations: the copy before them unless a recent one is there, then the
migrations, any of which may fail. `StartImport` and `Import` are the two sides of an archive's key
derivation. `SetBack` is a clock set back once, after which `CopiesProtect` says nothing.

Left out: the archive's format and validation (`ImportEnds` covers refusals as a free choice), two processes in
the same millisecond, copies removed by hand.

### MarketData

The days of one month, some of which have a close and a daily rate once they are `Out`. `prices` and
`spot` are the cached rows, `monthly` whether the month's HMRC rate is stored. A request is a chain of
awaits: `price` (the walk back of `cache.ts:56`), `range`, `hmrc`, `spot`. `Converted` is what goes on when a rate is
there: a purchase plan asks twice (`tax.ts:278`, `:289`). `Quote` and `Published` are the providers
(external): any fetch may fail, and on a running day the price is an intraday one. `Fill` is one
row of `backfill-fx` with the check under its write lock. `TurnKey` locks the data while a request waits.

`early` and `sure` mark what the code does not settle: a daily rate fetched before it was out is cached
under that date for good (`frankfurter.ts:48`), and, before the month is stored, a fetch that fails falls
back to the daily rate while another succeeds. There one date does get two rates.

Left out: provider formats, the currency of an instrument being changed, the sums of a valuation,
several months (each is as this one) and pounds or pence, which need no rate.

### BrowserSession, EntryForms, ReportScreens

The client is a set of handlers that run up to their next fetch. In each module `calls` or `net` has the
fetches under way with what their handler keeps, and there are three kinds of action: the user's, the server's
(`Serve`, `Compute`, answers left on their way back) and the handler that goes on (with the answer, a refusal, or none at
all). A component that was left keeps waiting and its callbacks still run; a screen that is left discards its
state.

`BrowserSession`: `screen` to `fresh` are the variables of `App.svelte`, `page` the recovery key screen,
`cookie` the browser's session, and `stage`, `key`, `live` the server's side cut down to what these
screens are told. Other browsers encrypt, confirm and rotate. `excused` marks that the user, or an answer that was
lost, put the recovery key off.

`EntryForms`: the forms are numbered as they are opened; `chosen` is what the user opened and picked,
`meant` what the user saw when a call was sent and `sent` what the handler put in it. `Holds` is which
handlers own the one loading flag of a screen. `excused` names the forms that something befell which the code
does not prevent: an answer lost after the row was recorded, a button given back by another handler, an
instrument or a preview that arrived for another choice, a mapping changed after the preview.

`ReportScreens`: a load is sent for a choice and lands on whatever is selected by then; `data` counts the
server's versions. The dashboard asks for its charts twice when it is mounted, in `onMount` and in the effect that watches the
year (`SendLoads`). `current` is the history of whether the last load to be answered was the last sent.

Left out: the fields of a form beyond its row and instrument, the figures, masking, charts' drawing, a double
submission of the sign-in form, settings entered in `ApiKeys`.

## 3. Runs

| Run | Instance | Shows |
|---|---|---|
| `share_matching` | all ledgers of four buys and sells on days 0, 1, 30, 31; events of every kind between trades; splits inside a match, on the day of a disposal and after it; holdings opened again; plan shares; two tax years, four columns of withheld and typed amounts, four incomes | order, accounting for every share, pool = holding, lifetime gain = profit; the return, the computations, the evidence, the charts and the income reports agree |
| `same_day_first` | the trades only | an earlier sale takes, under the 30-day rule, shares bought on the day of a later sale |
| `split_life` | one ledger of five rows | a split inside a 30-day match breaks the lifetime gain |
| `key_custody` | three overlapping requests, two passphrases | the safety invariants and the refinement of `DataVault` |
| `key_dropped` | two requests | liveness: an unused key is dropped |
| `held_for_session` | as `key_custody` | a credential change that outlives its session keeps the key with nobody signed in |
| `sign_in_current` | as `key_custody` | a login under way survives a change of the passphrase it used |
| `data_directory` | three processes | one owner, nothing lost, no downgrade |
| `late_restore` | three servers, nobody stalls | a restore interrupted after its claim is applied late, over newer writes |
| `ledger` | two calls at a time, one projection, up to two rows, three while an import goes on | the derived rows agree with the ledger, links hold, typed amounts stay, a refused ledger keeps what was saved |
| `services` | six parts, each with two commands, requests or handlers at a time (below) | every slot opens the data, rotations told and cleaned up after, copies protect, rates and prices agree, no plaintext, the recovery key is asked for, forms and screens keep to what was entered and selected |
| `stale_withholding` | one dividend, two calls | a PATCH over an unfinished POST leaves the withheld tax of the older price |

Why the bounds are enough. Days 0, 1, 30 and 31 have distances on both sides of each edge of the window
(same day, next day, day 30, day 31); four rows allow two disposals to compete for two acquisitions,
and quantities 1 and 3 make both partial and exact matches. Prices differ by position, so a gain tells
which shares it came from. For the handlers, the known failures need a request that waits, one that
commits meanwhile and at most a third whose session matters; the invariants are proved for any
number. For the directory, one process leaves something behind, a second works and a third comes later.
The constraint `Followed` cuts behaviours short only after a directory is disputed, where no property
says anything; a database-less directory is followed on, so that `Abort` and `LoseClaim` are met.
For the ledger, a vest, a sale on the other side of the tax-year end, and a dividend with a typed amount
meet an edit of the date (out of the link's window) and one of the type; two calls are what an overlap
takes, and a deletion or a stop needs no place of its own. A third row is followed (`Followed`)
only while an import creates it, and `MaxRows` bounds what is created. The matcher of the instance
(`MCMatch`) covers one-unit trades with all three rules. `MatchIsSound` has TLC check, for all ledgers of
three rows, what the proofs take of a matcher.
`OnlyServers` narrows the search for one counterexample.

For the reports, one year ends inside the 30-day window of a disposal, so that a match reaches into the
next, and the other has a change of rates; `Reopened` closes a holding and opens it again on either
side of the boundary that scopes the evidence. Payments have nothing withheld, or tax within or beyond the treaty's
rate, and amounts typed in for all of their figures, for the gross one only, or for none. The page's limit (100) is that of the second year
and above that of the first (90), as 50270 is above the 50000 of 2020-21; the four incomes lie below both limits, between them, a
fraction above the higher one, and well above it.

`MCServices` is an instance of `Services`, six modules that need no other one. The first step chooses a part and only
that part moves; the parts take turns at the same variables, so that the states of the run are the sum of those of its
parts. Every action of every part is reached; when a part is run alone it reaches the same ones. Two actors
are what an overlap takes, and each part has the third that matters as a value:
- keys: two commands, two passphrases, two unattended keys, and the server between them. Every pair of commands,
  rotations included, overlaps at every await.
- copies: keep 1, a day and a recent time of 1, up to three copies and two entries, together at most three,
  one tick and one step back. `Keep` 1 is exceeded by the second copy of a kind, while a copy of another kind
  lies between.
- market: three days of which the second has no price, walk back 1, two requests of any kind, one row to
  fill, before the requests: the command and they read nothing of each other's. A walk back meets a day without a
  price, a cached one and the bound.
- browser: two fetches, two sessions, two recovery keys, together at most three, at most one
  while the user is excused.
- entry: two handlers, two forms, two instruments; behaviours in which every form is excused are cut.
- reports: two handlers, two choices, two rows, two operations that change the data.

Symmetry is used only in runs without
liveness properties. `CHECK_DEADLOCK FALSE` in the directory runs: every process may have ended.

Fairness. `WF_vars(Sweep)` in `KeyCustody`: the sweeper is a `setInterval` of the running server
(`lock.ts:83`), so it fires again and again; handlers get none, since a client may disappear.
`WF_vars(Step)` in `ShareMatching`: a synchronous loop. In `DataDirectory` each process goes on with its
own steps; nothing is assumed of users, crashes or clocks. The other modules state no liveness: what they wait
for are users, providers and answers that may never come. `CHECK_DEADLOCK FALSE` in `services`: the bounded
requests and commands may all have ended.

### Findings

* `same_day_first`: `matching.ts:198` against `DESIGN.md:224` and `matching.ts:5`.
* `split_life`: `matching.ts:214` against `DESIGN.md:257`.
* `held_for_session`: `session-tracker.ts:49` against the comment above it and `README.md:318`.
* `sign_in_current`: `auth.ts:332` against `docs/plans/DEPLOYABILITY.md:72`.
* `late_restore`: `restore.ts:300` against `README.md:214`.
* `stale_withholding`: `transactions.ts:234` with `withholding.ts:51` against `transactions.ts:230` and
  `withholding.ts:23`.

## 4. Proofs

All theorems hold for every value of the constants, under the named assumptions of the modules (`None`
is none of the things it stands in for; names of requests are distinct; ledgers are typed).

`ShareMatching_proofs`. `TypeCorrect` needs that what a rule takes is at most what is left on both
sides, so remainders stay natural numbers. `OrderCorrect` adds to `StatutoryOrder` what the loop
variables know: a disposal in hand has used up all that an earlier rule offered before the next rule
starts, and what is used up stays so.

The three sums are proved for every ledger. What a fold over a finite set computes is shown without an
induction rule: if it failed for some subset, it would fail for one of least size (`Smallest`), and that one
less an element is smaller. From this follow the sums' existence (`FoldExists`) and their change by one
element. `SharesCorrect` (invariant `SInv`): for an acquisition, its slices and what remains of it, and for a
disposal taken, its slices and what is in hand, are its quantity; a new slice is a new record because the slice before
it has used its acquisition or the disposal up. `PoolCorrect` (`PInv`): at any point of the loop the pool is
the holding, plus what the disposal in hand has still to identify, plus what was identified with acquisitions that
the loop has still to take (`Balanced`); a split keeps this only if nothing of the last two is outstanding, which is
`NoMatchAcrossSplit`. `GainsCorrect` (`GInv`): counted in units 1/u, with u a common multiple of all
quantities, every unrounded gain is a whole number; the gains recorded differ from the exact ones by at most half a
unit of money for each slice and each transaction taken.

About `TaxReports`: `HistoryRefines` shows that the run with snapshots implements `Spec`, so that all of this holds of the
states the reports are computed from. `EvidenceCorrect` (`EInv`): the rows of the history are transactions taken, in the
order of the loop, and the last one is the pool as it stands until the disposal in hand takes from it (`PoolIsLast`,
`InHandShown`); so the row that ends a disposal lies right above what it was taken from, whose cost is exact because
a pool slice is not rounded twice. That the scope leaves neither row out follows from the order of dates: what
emptied the pool strictly before the year's first disposal comes before the row of any of them. The scope is
a set of indices, as dates never decrease along the history. `ReturnCorrect` (`FInv`): three roundings of a half each leave the
amounts of a slice at most a unit apart (`SliceReconciles`); a sum over the records of a year is the sum
over its disposing transactions of their sums (`SumGroups`), gains less losses are the sum of both whichever way they
are grouped, and a share of the gain taxed at the lower of two rates keeps the tax between them (`BandsHold`). Both
assume of the years only that their columns are numbers and that the basic rate is not above the higher one
(`YearsAreTyped`), as in every row of the migrations.

Trying to prove `PoolIsHolding` and `ReplaysAgree` showed that both were wrong as they had been stated: the split that
divides a match was sought by date, and a split on the day of a disposal comes before or after it in the loop by
its id; and a split that leaves a fraction is rounded at once, so that later splits scale the error. They now go by the
order of the loop, and the run has the ledgers that tell the difference (`SplitThatDay`).

`ReplaysCorrect` compares two recursive functions that take the same transactions in two orders: the chart's list goes by
date and id, the main loop puts a day's disposals first. On a day without a split the order changes nothing
(`HeldFlat`), and on a day with one there is no disposal (`HeldWhenSold`), so that the holding can be taken apart in the
order of the list too (`HeldListed`). Over every first part of the list the timeline then follows the holding
(`TimelineFollows`): both are moved by the same number of shares, nothing is clamped since what is sold is there, a split that comes
out whole is not rounded, and the only split of a ledger adds at most a half.

`IncomeCorrect`, about `IncomeReports`. Dividends and gains are grouped by month or by year: a sum over the groups
is the sum (`SumByKey`), and the yearly allowance, set against each payment, relieves at least what it does once a year
(`AllowanceOnce`). So at one rate, whichever it is, the payments have no more credit than the year (`CreditsWithinYear`): that is applied
to the page's items and, where the rates agree, to the report's rows, for any set of incomes and any limit of the page. The gains of all years are those of all records because a record lies in exactly one year: years do
not overlap (`YearsAreApart`, as seeded by the migrations) and a record refers to the row of its year
(`DisposalsAreInYears`, the foreign key `cgt_disposal.tax_year`, which `database.ts:37` has SQLite enforce). That a plan's shares are
taxed once needs where their cost went: `CInv` says that what entered the pool is there or in what pool slices
allowed, and that every other slice allows its part of its acquisition's cost, so that over a whole acquisition at most half a unit
per slice is lost (`AcquisitionAllowed`, `CostsConserved`).

`KeyCustody_proofs`. The inductive invariant is `TypeOK`, `KeyInv` (all the invariants about database
and memory) and `RequestOK(r)` for every waiting request: what it has remembered is still worth
acting on, or is looked at again when it commits. One lemma per handler. `RequestOK` is why
`upgrade` must compare the hash in its transaction (`auth.ts:494`) and why `setup` must look for slots
again. `VaultImplemented` maps each handler to a step of `DataVault` or to none.

`DataDirectory_proofs`. `LockInv`: whoever is in an undisputed directory wrote the lock last, it is
fresh, and nobody outside still believes a look that predates it. `RestoreInv`: from the validation on, the
claimed file is there and does not downgrade; from the copy on, the current database is among the copies;
a server has the database open. `Exclusive` follows from the first, and with a single owner nobody
else disturbs the second, so that `NothingLost` and `NoDowngrade` are preserved by the swap.

`TransactionLedger_proofs`. The theorems assume `MatchSound`: for every finite ledger with ids of
its own the matcher returns typed results, whose disposals name rows it was given, and nothing for no rows.
`DerivedFollows` is not inductive: while a call is under way the derived rows may lag. `IInv` says who
makes up for it: either they follow, or `unsynced` is set, or some POST, PATCH or file import whose row
is still there is under way, and it recalculates at its end (`Covered`). A deletion of that row recalculates itself, so
the debt is never lost; a stop is answered by the start-up pass. The rest of `IInv` are the types
and `References`. Handlers are proved as sequences of statements: `Reaches` says that every table on
the way is good, which is what a stop at any of them needs; one lemma per statement, one per action.
The action properties `TypedKept` and `LinkKept` follow the same way: a statement leads to tables that are `Onward` of
those before it, onward is transitive, and a stop leaves some of them. `RejectionKeeps` is about the one statement
pair that writes derived rows, and the deletion that clears some.

`KeyHandling_proofs`, about `KeyMaintenance`. The invariant `KeysInv` is the types, the three state properties and `ProcOK(c)`, what each stage
of command `c` may rely on: whoever rotates owns the directory, so that from `rotate-unlock` on no other
rotation lands, its data key is the one that the slots wrap, and its copy holds what the tables hold. The
unattended slot it saw is still there unless another command changed it (`disturbed`); from that and `Keeps` follows
`UnattendedAlwaysCarried`, an action property. Every other command looks at the data key again before it writes
(`MatchesSlots`) except between `AddChecked` and `AddUnattended`: that gap is `overtaken`.

About `BrowserSession`: `Asked` strengthens `UnconfirmedIsAsked` to the screens that lead to the app without another
question. It is inductive together with what is known of a fetch (`FetchOK`): only a status has something that
waits for it, a form's fetch counts as its screen's only while that screen is shown, and an answer tells of a
session that was opened. Every way for the data to become unconfirmed either ends the session, mounts the recovery
key screen, or sets `excused`.

`Upkeep_proofs`, about `Backups`. Numbers grow with every copy, and while the clock only goes forward stamps follow the numbers
(`DatesOK`), so that the order of names is the order in which copies were made. Pruning: of the copies that are
surplus, take the one made last (a least element of the well-founded order of naturals, `LastMade`); what is
named after it stays, and there are `Keep` of those. Migration: what a copy lacks came in since
it was made (`DatesOK`). `ReplacedKept` needs that archives name only entries that were ever made
(`ArchivesOK`), and that copies of other kinds are never pruned.

About `MarketData`: `RatesAgree` follows from what each lookup knows by itself, with no pair of requests in
the invariant (`DoneOK`): under the daily policy its rate is that of the nearest business day (`Nearest`), which
is also what the cache holds (`SpotOK`) for every date that was not fetched too early; under the monthly one a lookup
that began with the month stored never waits. `PriceNotOlder` needs that the walk back stays above the
latest price there was (`WaitOK`): that price stays cached, so that the step to its day finds it. Maxima over days
exist by a least element of a well-founded order (`MaxOf`).

`Screens_proofs`, about `EntryForms`. An answer finds whatever form is open by then, so the invariant `EntryInv`
relates three things: each handler to the form it was sent from (`SentOK`), each form to the handlers
that may still make a row of it (`FormOK`: one save at a time, which holds the loading flag until it ends; after it
was recorded either its save is under way or the form is closed), and the open form to what the user
picked (`ScreenOK`). A handler that gives back a flag it shares with a save puts the save's form among `excused`, which is
where `FormOK` would fail. For imports, rows of another text or instrument than the one chosen are hidden by the flag of
the preview on its way (`DividendsOK`, `ImportOK`).

About `ReportScreens`: sending a load makes every other one `older`, so there is at most one newest. While a screen
counts as `current` it is up to date or the newest load is on its way (`CurrentOK`), and that load is for the choice on
the screen and, once answered, not behind any operation that was answered (`NewestOK`). A badge is always older, a
newest load that is refused takes `current` away. A row's history stays open unless it was closed while it was being
fetched (`RowsOK`).

`Services_proofs`. The variables follow the specification of a part or that part never moves (`KeysBehave` and the
lemmas after it), by a state predicate that no step changes; so each part's theorem, cited through the instance, gives
the property of the whole that `services` checks. These twelve and the types assume `PartsOK`, the parts' own assumptions.

Only model-checked: liveness (`KeyDropped`) and the violations, which provers cannot settle here. Every invariant and every
action property of a passing run is a theorem.

## 5. Not modelled

Cryptography and password hashing are names. Parsing and layout of CSV files and of the PDF, the charts' drawing,
settings, API keys, instruments and the command line's flags hold no state that others rely on: single rows,
written without an await between reading and writing. SQLite transactions are atomic; a COMMIT that fails after it
has landed is modelled where the code looks for it (`KeyMaintenance`). Damaged files are outside
`DataDirectory`, damaged archives a free choice to refuse in `Backups`. `rsu.ts` is used by nothing but its
test. More than one instrument, currency or tenant adds rows that do not interact: every handler works on the
rows of one instrument, except the year's summaries, which add them up.

Known differences between the code and what is said of it that no run shows, since the modules take the code as it
is, are in the notes of the hazards in `PROJECT.json`: the rate of a dividend, which the page takes from 50270 and the report from the
year's limit, so that for 2020-21, seeded with 50000, an income of 50001 to 50270 has 8.75% on one and 33.75% on the other
(`SameBand`); the net amount of a dividend in the report, the treaty limit
of the year's credit, the order of copies after the clock is set back, two rates for one date after an early fetch or a
failed one, a second click on Import.

## 6. Plan

1. The abstract `DerivedLedger`, where disposals and pool are a function of the rows at rest, implemented by
   `TransactionLedger`; a second projection, to compare `transactions.ts:264` with links made by a POST that resumes
   after an edit.
2. `KeyMaintenance` as a further refinement of `DataVault` with one more action, a change of key that
   reseals every value.
3. Ledgers with gifts (disposals without proceeds), to settle what becomes of their selling costs
   (`matching.ts:162`).
