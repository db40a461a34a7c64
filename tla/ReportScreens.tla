------------------------------ MODULE ReportScreens ------------------------------
(***************************************************************************)
(* The browser screens that show what the server computed for a choice:    *)
(* the tax summary (client/src/routes/TaxSummary.svelte), the dashboard's  *)
(* charts by tax year and by period and its badge of unencrypted copies    *)
(* (Dashboard.svelte), the holdings with their history rows                *)
(* (Holdings.svelte) and the backups (Backups.svelte).                     *)
(*                                                                         *)
(* A change of the choice, and the end of every operation, sends a load    *)
(* with the choice of that moment.  Loads are answered in any order, and   *)
(* nothing tells an old answer from a new one.                             *)
(***************************************************************************)
EXTENDS Naturals, MountedScreen

CONSTANTS
  Choices,    \* tax years with an income, or chart periods
  Rows,       \* holdings
  MaxData     \* bound: how often an operation changes the server's data

Tasks == {"years", "load", "badge", "operation", "export", "cancel", "history"}

ReportConstantsOK ==
  MaxData \in Nat /\ Choices \subseteq Nat \ {0} /\ None \notin Nat \cup Tasks

VARIABLES
  data,       \* the server's data; its versions are numbered
  known,      \* history: the version the last operation made that was answered
  selected,   \* the choice, or 0 before there is one
  typed,      \* history: an income was typed into its field, which has not been left yet
  shown,      \* for each part of the screen: the choice and the version it shows
  badge,      \* the version the dashboard's badge counts the copies of
  current,    \* history: the last load to be answered was the last one sent, and complete
  open, wanted,   \* the holdings that show their history; history: those the user opened
  crossed     \* history: holdings closed before their history had come

reportVars == <<mounted, data, known, selected, typed, shown, badge, loading, current,
                open, wanted, crossed, calls>>

Screens == {"tax", "charts", "portfolio", "holdings", "backups"}
Parts == {"first", "second"}   \* fetches of one load: the summary and the disposals, the gains and the dividends
Nothing == [of |-> 0, as |-> 0]

(* older: a load was sent after this one; after: its handler ran an operation first. *)
Idle == [kind |-> None, of |-> 0, as |-> None, older |-> FALSE, after |-> FALSE]

-----------------------------------------------------------------------------
(* Faulty: the load starts before the new choice is stored.                *)
FaultyChoice(old, new) == old
Choice(old, new) == new

(* A load is sent for choice x by handler c, and an older one by each of   *)
(* twins.                                                                  *)
SendLoads(c, twins, x, after) ==
  /\ calls' = [q \in Calls |->
                 IF q = c THEN [Idle EXCEPT !.kind = "load", !.of = x, !.after = after]
                 ELSE IF q \in twins THEN [Idle EXCEPT !.kind = "load", !.of = x, !.older = TRUE]
                 ELSE IF calls[q].kind \in {"load", "badge"} THEN [calls[q] EXCEPT !.older = TRUE]
                 ELSE calls[q]]
  /\ loading' = (mounted # "backups")

Load(c, x, after) == SendLoads(c, {}, x, after)

(* onMount: the tax years come first.  An empty list leaves the screen     *)
(* empty.  The dashboard's charts are asked for twice: setting the year    *)
(* runs the effect that watches it.                                        *)
YearsKnown(c) ==
  /\ calls[c].kind = "years"
  /\ \/ /\ selected' \in Choices
        /\ \/ mounted = "tax" /\ Load(c, selected', FALSE)
           \/ /\ mounted = "charts"
              /\ \E d \in Calls \ {c} : calls[d] = Idle /\ SendLoads(c, {d}, selected', FALSE)
     \/ /\ calls' = [calls EXCEPT ![c] = Idle] /\ UNCHANGED <<selected, loading>>
  /\ UNCHANGED <<mounted, data, known, typed, shown, badge, current, open, wanted, crossed>>

Selected(c, x) ==
  /\ selected # 0 /\ calls[c] = Idle /\ selected' = x /\ typed' = FALSE
  /\ Load(c, Choice(selected, x), FALSE)
  /\ UNCHANGED <<mounted, data, known, shown, badge, current, open, wanted, crossed>>

(* Another year or tax band; or the income field is left.                  *)
SelectTax(c) == mounted = "tax" /\ \E x \in Choices : Selected(c, x)

(* Another year of the gains and dividends, or another period.             *)
SelectChart(c) ==
  /\ mounted \in {"charts", "portfolio"}
  /\ \E x \in Choices \ {selected} : Selected(c, x)

(* The field is bound to the choice, but a load waits until it is left.    *)
TypeIncome ==
  /\ mounted = "tax" /\ selected # 0
  /\ selected' \in Choices /\ typed' = TRUE
  /\ UNCHANGED <<mounted, data, known, shown, badge, loading, current, open, wanted, crossed, calls>>

(* The running, refreshing and busy flags.                                 *)
Running == \E c \in Calls : calls[c].kind \in {"operation", "export"} \/ calls[c].after

(* "Cancel it" is the only button that neither waits for the others nor    *)
(* holds them.                                                             *)
Start(c, kind) ==
  /\ calls[c] = Idle /\ calls' = [calls EXCEPT ![c] = [Idle EXCEPT !.kind = kind]]
  /\ UNCHANGED <<mounted, data, known, selected, typed, shown, badge, loading, current, open, wanted, crossed>>

Operation(c) == ~Running /\ Start(c, "operation")

RunEngine(c) == mounted = "tax" /\ Operation(c)
RefreshPrices(c) == mounted = "holdings" /\ Operation(c)
(* Create backup, stage a restore, delete unencrypted copies.              *)
ChangeBackups(c) == mounted = "backups" /\ Operation(c)
ImportArchive(c) == mounted = "backups" /\ Operation(c)
ExportArchive(c) == mounted = "backups" /\ ~Running /\ Start(c, "export")
CancelRestore(c) == mounted = "backups" /\ Start(c, "cancel")

(* The routes, as these screens see them: they compute from the data as it *)
(* is then, and an operation changes it first, or fails.                   *)
Compute(c) ==
  /\ calls[c].as = None /\ calls[c].kind \notin {None, "years"}
  /\ \/ /\ calls[c].kind \in {"operation", "cancel"} /\ data < MaxData
        /\ data' = data + 1 /\ calls' = [calls EXCEPT ![c].as = data + 1]
     \/ UNCHANGED data /\ calls' = [calls EXCEPT ![c].as = data]
  /\ UNCHANGED <<mounted, known, selected, typed, shown, badge, loading, current, open, wanted, crossed>>

(* The operation is over; what it changed is loaded.                       *)
Operated(c) ==
  /\ calls[c].kind \in {"operation", "cancel"} /\ calls[c].as # None
  /\ known' = IF calls[c].as > known THEN calls[c].as ELSE known
  /\ Load(c, selected, calls[c].kind = "operation")
  /\ UNCHANGED <<mounted, data, selected, typed, shown, badge, current, open, wanted, crossed>>

(* Nothing is loaded after an export.                                      *)
Exported(c) ==
  /\ calls[c].kind = "export" /\ calls[c].as # None
  /\ calls' = [calls EXCEPT ![c] = Idle]
  /\ UNCHANGED <<mounted, data, known, selected, typed, shown, badge, loading, current, open, wanted, crossed>>

(* The parts in good were answered, the others were refused.               *)
Landed(c, good, refused) ==
  /\ calls[c].kind = "load" /\ calls[c].as # None
  /\ shown' = [p \in Parts |->
                 IF p \in good THEN [of |-> calls[c].of, as |-> calls[c].as] ELSE refused[p]]
  /\ current' = (~calls[c].older /\ good = Parts)
  /\ loading' = FALSE /\ calls' = [calls EXCEPT ![c] = Idle]
  /\ UNCHANGED <<mounted, data, known, selected, typed, open, wanted, crossed>>

(* A part of the summary that was refused stays, a chart is emptied.       *)
SummaryLanded(c) ==
  mounted = "tax" /\ (\E good \in SUBSET Parts : Landed(c, good, shown)) /\ UNCHANGED badge
ChartLanded(c) ==
  /\ mounted \in {"charts", "portfolio"}
  /\ \E good \in SUBSET Parts : Landed(c, good, [p \in Parts |-> Nothing])
  /\ UNCHANGED badge
HoldingsLanded(c) ==
  mounted = "holdings" /\ (\E good \in {{}, Parts} : Landed(c, good, shown)) /\ UNCHANGED badge
BackupsLanded(c) ==
  /\ mounted = "backups"
  /\ \E good \in {{}, Parts} :
       Landed(c, good, shown) /\ badge' = IF good = Parts THEN calls[c].as ELSE badge

(* loadPlaintextCopies, sent when the dashboard was mounted.               *)
BadgeLanded(c) ==
  /\ calls[c].kind = "badge" /\ calls[c].as # None
  /\ badge' = calls[c].as /\ current' = (current /\ ~calls[c].older)
  /\ calls' = [calls EXCEPT ![c] = Idle]
  /\ UNCHANGED <<mounted, data, known, selected, typed, shown, loading, open, wanted, crossed>>

(* Refused, or lost.  The newest load leaves the screen as it was.         *)
Refused(c) ==
  /\ calls[c].kind \notin {None, "history"}
  /\ calls' = [calls EXCEPT ![c] = Idle]
  /\ loading' = (loading /\ calls[c].kind # "load")
  /\ current' = (current /\ (calls[c].kind = "load" => calls[c].older))
  /\ UNCHANGED <<mounted, data, known, selected, typed, shown, badge, open, wanted, crossed>>

-----------------------------------------------------------------------------
(* Holdings: toggleHistory of row r.  A copy of the open rows is changed,  *)
(* and replaces them all; it is taken when the answer has come.            *)
History(c, r) == calls[c].kind = "history" /\ calls[c].of = r

(* Faulty: the copy is taken when the history is asked for.                *)
FaultyOpenRows(asked, now) == asked
OpenRows(asked, now) == now

CloseHistory(r) ==
  /\ mounted = "holdings" /\ r \in open
  /\ open' = open \ {r} /\ wanted' = wanted \ {r}
  /\ crossed' = IF \E c \in Calls : History(c, r) THEN crossed \cup {r} ELSE crossed
  /\ UNCHANGED <<mounted, data, known, selected, typed, shown, badge, loading, current, calls>>

OpenHistory(c, r) ==
  /\ mounted = "holdings" /\ r \notin open /\ calls[c] = Idle
  /\ open' = open \cup {r} /\ wanted' = wanted \cup {r}
  /\ calls' = [calls EXCEPT ![c] = [Idle EXCEPT !.kind = "history", !.of = r, !.as = open']]
  /\ UNCHANGED <<mounted, data, known, selected, typed, shown, badge, loading, current, crossed>>

HistoryLanded(c, r) ==
  /\ History(c, r)
  /\ open' = OpenRows(calls[c].as, open) \cup {r} /\ calls' = [calls EXCEPT ![c] = Idle]
  /\ UNCHANGED <<mounted, data, known, selected, typed, shown, badge, loading, current, wanted, crossed>>

HistoryFailed(c, r) ==
  /\ History(c, r) /\ calls' = [calls EXCEPT ![c] = Idle]
  /\ UNCHANGED <<mounted, data, known, selected, typed, shown, badge, loading, current, open, wanted, crossed>>

-----------------------------------------------------------------------------
(* What each screen asks for when it is mounted.                           *)
Asked ==
  CASE mounted \in {"tax", "charts"} -> "years"
    [] mounted = "backups" -> "badge"
    [] OTHER -> "load"

(* The backups are opened from the dashboard, whose badge may still be on  *)
(* its way.                                                                *)
ReportInit ==
  /\ mounted \in Screens
  /\ data = 0 /\ known = 0 /\ selected \in {0} \cup Choices /\ typed = FALSE
  /\ mounted = "portfolio" <=> selected # 0
  /\ shown = [p \in Parts |-> Nothing] /\ badge = 0 /\ loading = (Asked = "load") /\ current = FALSE
  /\ open = {} /\ wanted = {} /\ crossed = {}
  /\ \E c, d \in Calls :
       /\ c # d
       /\ calls = [q \in Calls |->
                     CASE q = c -> [Idle EXCEPT !.kind = Asked, !.of = selected, !.older = (Asked = "badge")]
                       [] q = d /\ mounted = "backups" -> [Idle EXCEPT !.kind = "load"]
                       [] OTHER -> Idle]

ReportNext ==
  \/ TypeIncome
  \/ \E r \in Rows : CloseHistory(r)
  \/ \E c \in Calls :
       \/ YearsKnown(c) \/ SelectTax(c) \/ SelectChart(c)
       \/ RunEngine(c) \/ RefreshPrices(c) \/ ChangeBackups(c) \/ ImportArchive(c)
       \/ ExportArchive(c) \/ CancelRestore(c)
       \/ Compute(c) \/ Operated(c) \/ Exported(c)
       \/ SummaryLanded(c) \/ ChartLanded(c) \/ HoldingsLanded(c) \/ BackupsLanded(c)
       \/ BadgeLanded(c) \/ Refused(c)
       \/ \E r \in Rows : OpenHistory(c, r) \/ HistoryLanded(c, r) \/ HistoryFailed(c, r)

ReportSpec == ReportInit /\ [][ReportNext]_reportVars

-----------------------------------------------------------------------------
(* Types.                                                                  *)
ReportTypeOK ==
  /\ mounted \in Screens /\ data \in 0..MaxData /\ known \in 0..data /\ badge \in 0..data
  /\ selected \in {0} \cup Choices /\ typed \in BOOLEAN /\ loading \in BOOLEAN /\ current \in BOOLEAN
  /\ shown \in [Parts -> [of : {0} \cup Choices, as : 0..data]]
  /\ open \subseteq Rows /\ wanted \subseteq Rows /\ crossed \subseteq Rows
  /\ \A c \in Calls :
       /\ calls[c].kind \in Tasks \cup {None}
       /\ calls[c].older \in BOOLEAN /\ calls[c].after \in BOOLEAN

(* TaxSummary.svelte:132-192, Dashboard.svelte:95-180, Holdings.svelte:    *)
(* 44-84 and Backups.svelte:24-35: once nothing is on its way, no flag     *)
(* hides a screen; if the last load to be answered was the last one sent   *)
(* and brought every part, each part shows what belongs to the choice on   *)
(* the screen (unless an income is still being typed), the screen and the  *)
(* badge are as new as the last operation that was answered; and the       *)
(* histories open are those the user opened, except for rows closed while  *)
(* theirs was being fetched.                                               *)
ShownAsSelected ==
  /\ (\A c \in Calls : calls[c] = Idle) =>
       /\ ~loading
       /\ current => /\ \A p \in Parts : shown[p].as >= known /\ (typed \/ shown[p].of = selected)
                     /\ mounted = "backups" => badge >= known
  /\ \A r \in Rows \ crossed : r \in open <=> r \in wanted
=============================================================================
