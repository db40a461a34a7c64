------------------------------- MODULE Services -------------------------------
(***************************************************************************)
(* The parts of the system that need no other one: key maintenance, the    *)
(* copies, exchange rates and prices, and the screens of the browser.  The *)
(* first step chooses one of them, and only that one moves, so that the    *)
(* states of the whole are the sum of those of its parts.  The parts take  *)
(* turns at the same variables v1, v2 and so on; those that a part does    *)
(* not need stay 0.  Two parts share an instance where their proofs share  *)
(* a module.                                                               *)
(***************************************************************************)
EXTENDS Naturals, Sequences

CONSTANTS
  Actors,                                 \* commands, imports, requests and handlers
  Past, None,
  Passphrases, UnattendedKeys,            \* key maintenance
  Keep, Day, Recent, Versions,            \* copies
  MaxEntries, MaxTaken, MaxTime,
  LastDay, Trading, DaysBack, Rows,       \* rates and prices
  MaxSessions, MaxKeys,                   \* the browser's session
  MaxForms, MaxInstruments,               \* entry forms
  Holdings, Choices, MaxData              \* report screens

VARIABLES part, v1, v2, v3, v4, v5, v6, v7, v8, v9, v10, v11, v12, v13, v14, v15
vars == <<part, v1, v2, v3, v4, v5, v6, v7, v8, v9, v10, v11, v12, v13, v14, v15>>

-----------------------------------------------------------------------------
(* Key maintenance and the browser's session.                              *)
Keys == INSTANCE KeyHandling_proofs WITH
  Commands <- Actors,
  slots <- v1, stored <- v2, wal <- v3, residue <- v4, pending <- v5, copies <- v6,
  owner <- v7, server <- v8, proc <- v9, told <- v10,
  replaced <- v11, overtaken <- v12, disturbed <- v13, misled <- v14,
  Calls <- Actors, Null <- None,
  stage <- v1, key <- v2, live <- v3, issued <- v4, cookie <- v5, net <- v6,
  screen <- v7, signedIn <- v8, locked <- v9, canRecover <- v10, upgrade <- v11,
  skipped <- v12, fresh <- v13, page <- v14, excused <- v15

(* Copies, and rates and prices.                                           *)
Upkeep == INSTANCE Upkeep_proofs WITH
  Imports <- Actors, Nothing <- None,
  now <- v1, wentBack <- v2, entries <- v3, since <- v4, user <- v5, version <- v6,
  files <- v7, taken <- v8, server <- v9, calls <- v10, archive <- v11,
  Requests <- Actors, Back <- DaysBack,
  today <- v1, closed <- v2, policy <- v3, monthly <- v4, spot <- v5, prices <- v6,
  locked <- v7, req <- v8, answer <- v9, early <- v10,
  encrypted <- v11, backfill <- v12, filled <- v13, plaintext <- v14

(* Entry forms and report screens.                                         *)
Screen == INSTANCE Screens_proofs WITH
  Calls <- Actors, mounted <- v1, loading <- v2, calls <- v3,
  made <- v4, entered <- v5, view <- v6, listed <- v7, form <- v8, panel <- v9,
  previewed <- v10, chosen <- v11, excused <- v12,
  Rows <- Holdings,
  data <- v4, known <- v5, selected <- v6, typed <- v7, shown <- v8, badge <- v9,
  current <- v10, open <- v11, wanted <- v12, crossed <- v13

ASSUME PartsOK ==
  /\ Keys!KeysConstantsOK /\ Keys!BrowserConstantsOK
  /\ Upkeep!BackupsConstantsOK /\ Upkeep!MarketConstantsOK
  /\ Screen!EntryConstantsOK /\ Screen!ReportConstantsOK

-----------------------------------------------------------------------------
Init ==
  \/ part = "keys" /\ Keys!KeysInit /\ v15 = 0
  \/ part = "copies" /\ Upkeep!BackupsInit /\ v12 = 0 /\ v13 = 0 /\ v14 = 0 /\ v15 = 0
  \/ part = "market" /\ Upkeep!MarketInit /\ v15 = 0
  \/ part = "browser" /\ Keys!BrowserInit
  \/ part = "entry" /\ Screen!EntryInit /\ v13 = 0 /\ v14 = 0 /\ v15 = 0
  \/ part = "report" /\ Screen!ReportInit /\ v14 = 0 /\ v15 = 0

KeysStep == part = "keys" /\ Keys!KeysNext /\ UNCHANGED <<part, v15>>
CopiesStep == part = "copies" /\ Upkeep!BackupsNext /\ UNCHANGED <<part, v12, v13, v14, v15>>
MarketStep == part = "market" /\ Upkeep!MarketNext /\ UNCHANGED <<part, v15>>
BrowserStep == part = "browser" /\ Keys!BrowserNext /\ UNCHANGED part
EntryStep == part = "entry" /\ Screen!EntryNext /\ UNCHANGED <<part, v13, v14, v15>>
ReportStep == part = "report" /\ Screen!ReportNext /\ UNCHANGED <<part, v14, v15>>

Next == KeysStep \/ CopiesStep \/ MarketStep \/ BrowserStep \/ EntryStep \/ ReportStep
Spec == Init /\ [][Next]_vars

-----------------------------------------------------------------------------
(* The types of each part.                                                 *)
TypeOK ==
  /\ part = "keys" => Keys!KeysTypeOK
  /\ part = "copies" => Upkeep!BackupsTypeOK
  /\ part = "market" => Upkeep!MarketTypeOK
  /\ part = "browser" => Keys!BrowserTypeOK
  /\ part = "entry" => Screen!EntryTypeOK
  /\ part = "report" => Screen!ReportTypeOK

(* KeyMaintenance: every slot opens the data; the state a rotation         *)
(* replaced is in its own copy.                                            *)
SlotsOpenData == part = "keys" => Keys!SlotsOpenData
(* KeyMaintenance: a rotation is reported as what it did.                  *)
RotationTold == part = "keys" => Keys!RotationTold
(* KeyMaintenance: ciphertext of a replaced key is noted for the clean-up. *)
OldCiphertextPending == part = "keys" => Keys!OldCiphertextPending
(* KeyMaintenance: no rotation loses or invents an unattended slot.        *)
UnattendedCarried == [][part = "keys" => Keys!CarriesUnattended]_vars
(* Backups: what an import replaced is in a copy made before it.           *)
ReplacedKept == part = "copies" => Upkeep!ReplacedKept
(* Backups: pruning leaves the newest, migrations change what was copied.  *)
CopiesProtect ==
  [][part = "copies" /\ ~v2 => Upkeep!RemovesSurplus /\ Upkeep!MigratesCopied]_vars
(* MarketData: two lookups of one date give one rate.                      *)
RatesAgree == part = "market" => Upkeep!RatesAgree
(* MarketData: a price is never older than one that was cached.            *)
PriceNotOlder == part = "market" => Upkeep!PriceNotOlder
(* MarketData: no plaintext is written into an encrypted database.         *)
NoPlaintext == part = "market" => Upkeep!NoPlaintext
(* BrowserSession: a key nobody has typed back is asked for.               *)
UnconfirmedIsAsked == part = "browser" => Keys!UnconfirmedIsAsked
(* EntryForms: what is sent and recorded is what was entered.              *)
RecordedAsEntered == part = "entry" => Screen!RecordedAsEntered
(* ReportScreens: what is shown is what was selected.                      *)
ShownAsSelected == part = "report" => Screen!ShownAsSelected
=============================================================================
