--------------------------- MODULE Services_proofs ---------------------------
(***************************************************************************)
(* Proofs about Services.  Whatever the first step chose, the variables    *)
(* follow the specification of that part, or that part never moves; what   *)
(* the proofs of the parts establish then holds of the whole.              *)
(***************************************************************************)
EXTENDS Services, TLAPS

-----------------------------------------------------------------------------
(* What moves is one of the parts, from its first state on. *)

Moves(p) == part = p

LEMMA KeysBehave == Spec => Keys!KeysSpec \/ []~Moves("keys")
<1>1. Init /\ Moves("keys") => Keys!KeysInit
  BY DEF Init, Moves
<1>2. Moves("keys") /\ [Next]_vars => [Keys!KeysNext]_(Keys!keyVars) /\ Moves("keys")'
  BY DEF Next, KeysStep, CopiesStep, MarketStep, BrowserStep, EntryStep, ReportStep, Moves,
         vars, Keys!keyVars, Keys!database, Keys!histories
<1>3. ~Moves("keys") /\ [Next]_vars => ~Moves("keys")'
  BY DEF Next, KeysStep, CopiesStep, MarketStep, BrowserStep, EntryStep, ReportStep, Moves,
         vars
<1> QED
  BY <1>1, <1>2, <1>3, PTL DEF Spec, Keys!KeysSpec

LEMMA CopiesBehave == Spec => Upkeep!BackupsSpec \/ []~Moves("copies")
<1>1. Init /\ Moves("copies") => Upkeep!BackupsInit
  BY DEF Init, Moves
<1>2. Moves("copies") /\ [Next]_vars => [Upkeep!BackupsNext]_(Upkeep!backupVars) /\ Moves("copies")'
  BY DEF Next, KeysStep, CopiesStep, MarketStep, BrowserStep, EntryStep, ReportStep, Moves,
         vars, Upkeep!backupVars, Upkeep!clock, Upkeep!data,
         Upkeep!folder
<1>3. ~Moves("copies") /\ [Next]_vars => ~Moves("copies")'
  BY DEF Next, KeysStep, CopiesStep, MarketStep, BrowserStep, EntryStep, ReportStep, Moves,
         vars
<1> QED
  BY <1>1, <1>2, <1>3, PTL DEF Spec, Upkeep!BackupsSpec

LEMMA MarketBehave == Spec => Upkeep!MarketSpec \/ []~Moves("market")
<1>1. Init /\ Moves("market") => Upkeep!MarketInit
  BY DEF Init, Moves
<1>2. Moves("market") /\ [Next]_vars => [Upkeep!MarketNext]_(Upkeep!marketVars) /\ Moves("market")'
  BY DEF Next, KeysStep, CopiesStep, MarketStep, BrowserStep, EntryStep, ReportStep, Moves,
         vars, Upkeep!marketVars, Upkeep!rates, Upkeep!offline
<1>3. ~Moves("market") /\ [Next]_vars => ~Moves("market")'
  BY DEF Next, KeysStep, CopiesStep, MarketStep, BrowserStep, EntryStep, ReportStep, Moves,
         vars
<1> QED
  BY <1>1, <1>2, <1>3, PTL DEF Spec, Upkeep!MarketSpec

LEMMA BrowserBehave == Spec => Keys!BrowserSpec \/ []~Moves("browser")
<1>1. Init /\ Moves("browser") => Keys!BrowserInit
  BY DEF Init, Moves
<1>2. Moves("browser") /\ [Next]_vars => [Keys!BrowserNext]_(Keys!browserVars) /\ Moves("browser")'
  BY DEF Next, KeysStep, CopiesStep, MarketStep, BrowserStep, EntryStep, ReportStep, Moves,
         vars, Keys!browserVars, Keys!serverSide, Keys!app
<1>3. ~Moves("browser") /\ [Next]_vars => ~Moves("browser")'
  BY DEF Next, KeysStep, CopiesStep, MarketStep, BrowserStep, EntryStep, ReportStep, Moves,
         vars
<1> QED
  BY <1>1, <1>2, <1>3, PTL DEF Spec, Keys!BrowserSpec

LEMMA EntryBehave == Spec => Screen!EntrySpec \/ []~Moves("entry")
<1>1. Init /\ Moves("entry") => Screen!EntryInit
  BY DEF Init, Moves
<1>2. Moves("entry") /\ [Next]_vars => [Screen!EntryNext]_(Screen!entryVars) /\ Moves("entry")'
  BY DEF Next, KeysStep, CopiesStep, MarketStep, BrowserStep, EntryStep, ReportStep, Moves,
         vars, Screen!entryVars, Screen!server
<1>3. ~Moves("entry") /\ [Next]_vars => ~Moves("entry")'
  BY DEF Next, KeysStep, CopiesStep, MarketStep, BrowserStep, EntryStep, ReportStep, Moves,
         vars
<1> QED
  BY <1>1, <1>2, <1>3, PTL DEF Spec, Screen!EntrySpec

LEMMA ReportBehave == Spec => Screen!ReportSpec \/ []~Moves("report")
<1>1. Init /\ Moves("report") => Screen!ReportInit
  BY DEF Init, Moves
<1>2. Moves("report") /\ [Next]_vars => [Screen!ReportNext]_(Screen!reportVars) /\ Moves("report")'
  BY DEF Next, KeysStep, CopiesStep, MarketStep, BrowserStep, EntryStep, ReportStep, Moves,
         vars, Screen!reportVars
<1>3. ~Moves("report") /\ [Next]_vars => ~Moves("report")'
  BY DEF Next, KeysStep, CopiesStep, MarketStep, BrowserStep, EntryStep, ReportStep, Moves,
         vars
<1> QED
  BY <1>1, <1>2, <1>3, PTL DEF Spec, Screen!ReportSpec

-----------------------------------------------------------------------------
(* What the parts promise, of the whole. *)

(* keyslots.ts and rotate.ts: whatever the order of commands, rotations,   *)
(* starts and kills, every slot opens the data.                            *)
THEOREM SlotsAlwaysOpenData == Spec => []SlotsOpenData
<1>1. Keys!KeysConstantsOK
  BY PartsOK
<1>2. Keys!KeysSpec => []Keys!SlotsOpenData
  BY <1>1, Keys!SlotsAlwaysOpenData
<1>3. ~Moves("keys") => SlotsOpenData
  BY DEF SlotsOpenData, Moves
<1>4. Keys!SlotsOpenData => SlotsOpenData
  BY DEF SlotsOpenData
<1> QED
  BY KeysBehave, <1>2, <1>3, <1>4, PTL

(* rotate.ts: a rotation is reported as what it did.                       *)
THEOREM RotationAlwaysTold == Spec => []RotationTold
<1>1. Keys!KeysConstantsOK
  BY PartsOK
<1>2. Keys!KeysSpec => []Keys!RotationTold
  BY <1>1, Keys!RotationAlwaysTold
<1>3. ~Moves("keys") => RotationTold
  BY DEF RotationTold, Moves
<1>4. Keys!RotationTold => RotationTold
  BY DEF RotationTold
<1> QED
  BY KeysBehave, <1>2, <1>3, <1>4, PTL

(* upgrade.ts: while ciphertext of a replaced key is left in the file, the *)
(* clean-up is noted as pending.                                           *)
THEOREM OldCiphertextAlwaysPending == Spec => []OldCiphertextPending
<1>1. Keys!KeysConstantsOK
  BY PartsOK
<1>2. Keys!KeysSpec => []Keys!OldCiphertextPending
  BY <1>1, Keys!OldCiphertextAlwaysPending
<1>3. ~Moves("keys") => OldCiphertextPending
  BY DEF OldCiphertextPending, Moves
<1>4. Keys!OldCiphertextPending => OldCiphertextPending
  BY DEF OldCiphertextPending
<1> QED
  BY KeysBehave, <1>2, <1>3, <1>4, PTL

(* archive.ts: what an import replaced is in a copy made before it.        *)
THEOREM ReplacedAlwaysKept == Spec => []ReplacedKept
<1>1. Upkeep!BackupsConstantsOK
  BY PartsOK
<1>2. Upkeep!BackupsSpec => []Upkeep!ReplacedKept
  BY <1>1, Upkeep!ReplacedAlwaysKept
<1>3. ~Moves("copies") => ReplacedKept
  BY DEF ReplacedKept, Moves
<1>4. Upkeep!ReplacedKept => ReplacedKept
  BY DEF ReplacedKept
<1> QED
  BY CopiesBehave, <1>2, <1>3, <1>4, PTL

(* fx/index.ts: two lookups of one date give one rate.                     *)
THEOREM RatesAlwaysAgree == Spec => []RatesAgree
<1>1. Upkeep!MarketConstantsOK
  BY PartsOK
<1>2. Upkeep!MarketSpec => []Upkeep!RatesAgree
  BY <1>1, Upkeep!RatesAlwaysAgree
<1>3. ~Moves("market") => RatesAgree
  BY DEF RatesAgree, Moves
<1>4. Upkeep!RatesAgree => RatesAgree
  BY DEF RatesAgree
<1> QED
  BY MarketBehave, <1>2, <1>3, <1>4, PTL

(* prices/cache.ts: a price is never older than one that was cached when it *)
(* was asked for.                                                          *)
THEOREM PriceNeverOlder == Spec => []PriceNotOlder
<1>1. Upkeep!MarketConstantsOK
  BY PartsOK
<1>2. Upkeep!MarketSpec => []Upkeep!PriceNotOlder
  BY <1>1, Upkeep!PriceNeverOlder
<1>3. ~Moves("market") => PriceNotOlder
  BY DEF PriceNotOlder, Moves
<1>4. Upkeep!PriceNotOlder => PriceNotOlder
  BY DEF PriceNotOlder
<1> QED
  BY MarketBehave, <1>2, <1>3, <1>4, PTL

(* commands/backfill-fx.ts: no plaintext is written into an encrypted      *)
(* database.                                                               *)
THEOREM NeverPlaintext == Spec => []NoPlaintext
<1>1. Upkeep!MarketConstantsOK
  BY PartsOK
<1>2. Upkeep!MarketSpec => []Upkeep!NoPlaintext
  BY <1>1, Upkeep!NeverPlaintext
<1>3. ~Moves("market") => NoPlaintext
  BY DEF NoPlaintext, Moves
<1>4. Upkeep!NoPlaintext => NoPlaintext
  BY DEF NoPlaintext
<1> QED
  BY MarketBehave, <1>2, <1>3, <1>4, PTL

(* App.svelte: a recovery key that nobody has typed back is asked for.     *)
THEOREM UnconfirmedAlwaysAsked == Spec => []UnconfirmedIsAsked
<1>1. Keys!BrowserConstantsOK
  BY PartsOK
<1>2. Keys!BrowserSpec => []Keys!UnconfirmedIsAsked
  BY <1>1, Keys!UnconfirmedAlwaysAsked
<1>3. ~Moves("browser") => UnconfirmedIsAsked
  BY DEF UnconfirmedIsAsked, Moves
<1>4. Keys!UnconfirmedIsAsked => UnconfirmedIsAsked
  BY DEF UnconfirmedIsAsked
<1> QED
  BY BrowserBehave, <1>2, <1>3, <1>4, PTL

(* Transactions.svelte, ImportExport.svelte and Projections.svelte: what is *)
(* sent and recorded is what was entered, whichever answers come late.     *)
THEOREM AlwaysRecordedAsEntered == Spec => []RecordedAsEntered
<1>1. Screen!EntryConstantsOK
  BY PartsOK
<1>2. Screen!EntrySpec => []Screen!RecordedAsEntered
  BY <1>1, Screen!AlwaysRecordedAsEntered
<1>3. ~Moves("entry") => RecordedAsEntered
  BY DEF RecordedAsEntered, Moves
<1>4. Screen!RecordedAsEntered => RecordedAsEntered
  BY DEF RecordedAsEntered
<1> QED
  BY EntryBehave, <1>2, <1>3, <1>4, PTL

(* TaxSummary.svelte, Dashboard.svelte, Holdings.svelte and Backups.svelte: *)
(* what is shown is what was selected, once nothing is on its way.         *)
THEOREM AlwaysShownAsSelected == Spec => []ShownAsSelected
<1>1. Screen!ReportConstantsOK
  BY PartsOK
<1>2. Screen!ReportSpec => []Screen!ShownAsSelected
  BY <1>1, Screen!AlwaysShownAsSelected
<1>3. ~Moves("report") => ShownAsSelected
  BY DEF ShownAsSelected, Moves
<1>4. Screen!ShownAsSelected => ShownAsSelected
  BY DEF ShownAsSelected
<1> QED
  BY ReportBehave, <1>2, <1>3, <1>4, PTL

(* rotate.ts: no rotation loses or invents an unattended slot.             *)
THEOREM UnattendedAlwaysCarried == Spec => UnattendedCarried
<1>1. Keys!KeysConstantsOK
  BY PartsOK
<1>2. Keys!KeysSpec => Keys!UnattendedCarried
  BY <1>1, Keys!UnattendedAlwaysCarried
<1>3. [Next]_vars /\ [Keys!CarriesUnattended]_(Keys!keyVars) =>
        [part = "keys" => Keys!CarriesUnattended]_vars
  BY DEF Next, KeysStep, CopiesStep, MarketStep, BrowserStep, EntryStep, ReportStep,
         vars, Keys!keyVars, Keys!database, Keys!histories
<1>4. ~Moves("keys") => [part = "keys" => Keys!CarriesUnattended]_vars
  BY DEF Moves
<1> QED
  BY KeysBehave, <1>2, <1>3, <1>4, PTL DEF Spec, Keys!UnattendedCarried, UnattendedCarried

(* backups.ts and database.ts: while the clock is never set back, pruning  *)
(* leaves the newest copies and migrations change what was copied.         *)
THEOREM CopiesAlwaysProtect == Spec => CopiesProtect
<1>1. Upkeep!BackupsConstantsOK
  BY PartsOK
<1>2. Upkeep!BackupsSpec => Upkeep!CopiesProtect
  BY <1>1, Upkeep!CopiesAlwaysProtect
<1> DEFINE Protects == Upkeep!RemovesSurplus /\ Upkeep!MigratesCopied
<1>3. [Next]_vars /\ [~v2 => Protects]_(Upkeep!backupVars) =>
        [part = "copies" /\ ~v2 => Protects]_vars
  BY DEF Next, KeysStep, CopiesStep, MarketStep, BrowserStep, EntryStep, ReportStep,
         vars, Upkeep!backupVars, Upkeep!clock, Upkeep!data, Upkeep!folder
<1>4. ~Moves("copies") => [part = "copies" /\ ~v2 => Protects]_vars
  BY DEF Moves
<1> QED
  BY CopiesBehave, <1>2, <1>3, <1>4, PTL DEF Spec, Upkeep!CopiesProtect, CopiesProtect

(* Types: whichever part moves, its variables stay of their types.         *)
THEOREM TypeCorrect == Spec => []TypeOK
<1>1. /\ Keys!KeysConstantsOK /\ Keys!BrowserConstantsOK
      /\ Upkeep!BackupsConstantsOK /\ Upkeep!MarketConstantsOK
      /\ Screen!EntryConstantsOK /\ Screen!ReportConstantsOK
  BY PartsOK
<1>2. /\ Keys!KeysSpec => []Keys!KeysTypeOK
      /\ Keys!BrowserSpec => []Keys!BrowserTypeOK
  BY <1>1, Keys!KeysTypeCorrect, Keys!BrowserTypeCorrect
<1>3. /\ Upkeep!BackupsSpec => []Upkeep!BackupsTypeOK
      /\ Upkeep!MarketSpec => []Upkeep!MarketTypeOK
  BY <1>1, Upkeep!BackupsTypeCorrect, Upkeep!MarketTypeCorrect
<1>4. /\ Screen!EntrySpec => []Screen!EntryTypeOK
      /\ Screen!ReportSpec => []Screen!ReportTypeOK
  BY <1>1, Screen!EntryTypeCorrect, Screen!ReportTypeCorrect
<1>5. /\ (Moves("keys") => Keys!KeysTypeOK) /\ (Moves("copies") => Upkeep!BackupsTypeOK)
      /\ (Moves("market") => Upkeep!MarketTypeOK) /\ (Moves("browser") => Keys!BrowserTypeOK)
      /\ (Moves("entry") => Screen!EntryTypeOK) /\ (Moves("report") => Screen!ReportTypeOK)
      => TypeOK
  BY DEF TypeOK, Moves
<1> QED
  BY KeysBehave, CopiesBehave, MarketBehave, BrowserBehave, EntryBehave, ReportBehave,
     <1>2, <1>3, <1>4, <1>5, PTL
=============================================================================
