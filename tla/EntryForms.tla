------------------------------- MODULE EntryForms -------------------------------
(***************************************************************************)
(* The browser screens in which data is entered: transactions and imported *)
(* dividends (client/src/routes/Transactions.svelte), scheduled events     *)
(* (Projections.svelte) and the CSV import (ImportExport.svelte).          *)
(*                                                                         *)
(* Every fetch is an await after which the handler goes on, whatever form  *)
(* the user has opened since; one "loading" flag holds back the buttons.   *)
(* Only one of the screens is mounted, and leaving it discards its state.  *)
(* What the server does with a row is TransactionLedger's subject: here a  *)
(* row is recorded or refused, and either may never be told.               *)
(***************************************************************************)
EXTENDS Naturals, MountedScreen

CONSTANTS
  MaxForms,         \* bound: the forms opened, or CSV texts typed
  MaxInstruments    \* bound

Kinds == {"load", "create", "adjust", "save", "remove", "preview", "commit"}

EntryConstantsOK ==
  MaxForms \in Nat /\ MaxInstruments \in Nat \ {0} /\ None \notin Nat \cup Kinds

VARIABLES
  made,       \* the server's instruments; they are numbered as they are made
  entered,    \* history: whether the server recorded a new row for each form never, once or more (2)
  view,       \* what it shows
  listed,     \* the instruments it lists
  form,       \* the form: its number, the row it edits (0: a new one), its instrument (0: none)
  panel,      \* the instrument whose name is being edited inside the form, or 0
  previewed,  \* the instrument whose dividends, or the CSV text whose rows, are previewed, or 0
  chosen,     \* history: the row that was opened and the instrument last picked for it
  excused     \* history: the forms something named below happened to

entryVars == <<made, entered, mounted, view, listed, form, panel, previewed, loading, chosen, calls, excused>>
server == <<made, entered>>

Forms == 1..MaxForms
New == MaxInstruments + 1      \* "Add new instrument" in the list of instruments
Target(row, inst) == [row |-> row, inst |-> inst]

(* at: sent, served, or listing: waiting for the refreshed list.           *)
Free == [kind |-> None, at |-> None, no |-> 0, sent |-> Target(0, 0), meant |-> Target(0, 0)]

(* The handlers that set the loading flag, and clear it when they end.     *)
Holds(c) ==
  CASE mounted = "transactions" -> calls[c].kind \in {"save", "preview", "commit"}
    [] mounted = "projections" ->
         calls[c].kind \in {"save", "load"} \/ (calls[c].kind = "remove" /\ calls[c].at = "listing")
    [] mounted = "import" -> calls[c].kind \in {"preview", "commit"}

(* savingInst and savingEditInst: such a handler is waiting.               *)
Busy(kind) == \E c \in Calls : calls[c].kind = kind

Send(c, kind, sent, meant) ==
  /\ calls[c] = Free
  /\ calls' = [calls EXCEPT ![c] = [kind |-> kind, at |-> "sent", no |-> form.no,
                                    sent |-> sent, meant |-> meant]]
  /\ UNCHANGED <<server, mounted, listed, excused>>

-----------------------------------------------------------------------------
(* The routes, as these screens see them: the row is recorded or not, the  *)
(* answer may be one or the other.                                         *)
Record(c) ==
  \/ /\ calls[c].kind = "create" /\ made < MaxInstruments
     /\ made' = made + 1 /\ UNCHANGED entered
     /\ calls' = [calls EXCEPT ![c].at = "served", ![c].sent.inst = made + 1]
  \/ /\ calls[c].kind = "save" /\ calls[c].sent.row = 0
     /\ entered' = [entered EXCEPT ![calls[c].no] = IF @ = 0 THEN 1 ELSE 2] /\ UNCHANGED made
     /\ calls' = [calls EXCEPT ![c].at = "served"]
  \/ /\ calls[c].kind # "create" /\ ~(calls[c].kind = "save" /\ calls[c].sent.row = 0)
     /\ calls' = [calls EXCEPT ![c].at = "served"] /\ UNCHANGED server

Serve(c) ==
  /\ calls[c].at = "sent" /\ Record(c)
  /\ UNCHANGED <<mounted, view, listed, form, panel, previewed, loading, chosen, excused>>

-----------------------------------------------------------------------------
(* Opening and leaving.                                                    *)
Opened(v, row, inst) ==
  /\ form.no < MaxForms
  /\ form' = [no |-> form.no + 1, row |-> row, inst |-> inst]
  /\ chosen' = Target(row, inst) /\ panel' = 0 /\ view' = v
  /\ UNCHANGED <<server, mounted, listed, loading, calls, excused>>

OpenAdd == view = "list" /\ mounted # "import" /\ Opened("form", 0, 0) /\ UNCHANGED previewed

OpenEdit ==
  /\ view = "list" /\ mounted = "transactions"
  /\ \E i \in 1..listed : Opened("form", 1, i)
  /\ UNCHANGED previewed

OpenImportDividends ==
  /\ view = "list" /\ mounted = "transactions"
  /\ Opened("dividends", 0, IF listed = 1 THEN 1 ELSE 0) /\ previewed' = 0

Back ==
  /\ view # "list" /\ view' = "list"
  /\ UNCHANGED <<server, mounted, listed, form, panel, previewed, loading, chosen, calls, excused>>

(* Faulty: the rows of the text before it stay counted as valid.           *)
FaultyForget(old) == old
Forget(old) == 0

(* Another CSV text: its rows have not been previewed.                     *)
OnCsvChange ==
  /\ mounted = "import" /\ form.no < MaxForms
  /\ form' = [form EXCEPT !.no = @ + 1] /\ previewed' = Forget(previewed)
  /\ UNCHANGED <<server, mounted, view, listed, panel, loading, chosen, calls, excused>>

(* Another mapping: the rows previewed under the old one stay valid.       *)
ChangeMapping ==
  /\ mounted = "import" /\ previewed # 0 /\ excused' = excused \cup {form.no}
  /\ UNCHANGED <<server, mounted, view, listed, form, panel, previewed, loading, chosen, calls>>

-----------------------------------------------------------------------------
(* Inside a form.                                                          *)
ChooseInstrument ==
  /\ view = "form"
  /\ \E i \in 0..listed \cup (IF mounted = "transactions" THEN {New} ELSE {}) :
       form' = [form EXCEPT !.inst = i] /\ chosen' = [chosen EXCEPT !.inst = i]
  /\ panel' = 0
  /\ UNCHANGED <<server, mounted, view, listed, previewed, loading, calls, excused>>

OpenEditInst ==
  /\ view = "form" /\ mounted = "transactions" /\ form.inst \in 1..listed
  /\ panel' = form.inst
  /\ UNCHANGED <<server, mounted, view, listed, form, previewed, loading, chosen, calls, excused>>

CreateInstrument(c) ==
  /\ view = "form" /\ form.inst = New /\ ~Busy("create")
  /\ Send(c, "create", Target(0, 0), Target(0, 0))
  /\ UNCHANGED <<view, form, panel, previewed, loading, chosen>>

SaveEditInst(c) ==
  /\ view = "form" /\ panel # 0 /\ form.inst \in 1..MaxInstruments /\ ~Busy("adjust")
  /\ Send(c, "adjust", Target(0, form.inst), Target(0, panel))
  /\ UNCHANGED <<view, form, panel, previewed, loading, chosen>>

(* Faulty: the button is not held back while the form is being saved.      *)
FaultyMaySave(busy) == view = "form" /\ form.inst \in 1..MaxInstruments
MaySave(busy) == view = "form" /\ form.inst \in 1..MaxInstruments /\ ~busy

Save(c) ==
  /\ MaySave(loading)
  /\ Send(c, "save", Target(form.row, form.inst), chosen) /\ loading' = TRUE
  /\ UNCHANGED <<view, form, panel, previewed, chosen>>

Remove(c) ==
  /\ view = "list" /\ mounted # "import"
  /\ Send(c, "remove", Target(0, 0), Target(0, 0))
  /\ UNCHANGED <<view, form, panel, previewed, loading, chosen>>

(* Choosing an instrument asks for its dividends, also while others are    *)
(* being fetched.                                                          *)
PreviewDividends(c) ==
  /\ view = "dividends"
  /\ \E i \in 1..listed :
       /\ form' = [form EXCEPT !.inst = i] /\ chosen' = [chosen EXCEPT !.inst = i]
       /\ Send(c, "preview", Target(0, i), Target(0, i))
  /\ loading' = TRUE
  /\ UNCHANGED <<view, panel, previewed>>

(* The rows and their button are hidden while something is loading.        *)
CommitDividends(c) ==
  /\ view = "dividends" /\ ~loading /\ previewed # 0
  /\ Send(c, "commit", Target(0, form.inst), Target(0, previewed)) /\ loading' = TRUE
  /\ UNCHANGED <<view, form, panel, previewed, chosen>>

PreviewCsv(c) ==
  /\ mounted = "import" /\ form.no # 0 /\ ~loading
  /\ Send(c, "preview", Target(0, form.no), Target(0, form.no)) /\ loading' = TRUE
  /\ UNCHANGED <<view, form, panel, previewed, chosen>>

CommitCsv(c) ==
  /\ mounted = "import" /\ previewed # 0 /\ ~loading
  /\ Send(c, "commit", Target(0, form.no), Target(0, previewed)) /\ loading' = TRUE
  /\ UNCHANGED <<view, form, panel, previewed, chosen>>

-----------------------------------------------------------------------------
(* The answers.  Excused: a save whose buttons another handler gives back, *)
(* and a preview whose rows show beside another choice.                    *)

Under(kind, c) == {q \in Calls \ {c} : calls[q].kind = kind}

Freed(c) ==
  IF ~Holds(c) THEN {}
  ELSE {calls[q].no : q \in Under("save", c)} \cup (IF Under("preview", c) # {} THEN {form.no} ELSE {})

Done(c, also) ==
  /\ calls' = [calls EXCEPT ![c] = Free]
  /\ loading' = (loading /\ ~Holds(c))
  /\ excused' = excused \cup Freed(c) \cup also
  /\ UNCHANGED <<server, mounted>>

(* The list is asked for again; dividends that were imported are not       *)
(* offered any more.                                                       *)
Answered(c) ==
  /\ calls[c].at = "served" /\ calls[c].kind # "preview"
  /\ ~(mounted = "import" /\ calls[c].kind = "commit")
  /\ calls' = [calls EXCEPT ![c].at = "listing"]
  /\ previewed' = IF calls[c].kind = "commit" THEN 0 ELSE previewed
  /\ loading' = (loading \/ (mounted = "projections" /\ calls[c].kind = "remove"))
  /\ UNCHANGED <<server, mounted, view, listed, form, panel, chosen, excused>>

(* Whatever instrument or text is chosen by now.                           *)
Previewed(c) ==
  /\ calls[c].kind = "preview" /\ calls[c].at = "served"
  /\ previewed' = calls[c].sent.inst
  /\ Done(c, IF calls[c].no # form.no \/ (view = "dividends" /\ calls[c].sent.inst # form.inst)
             THEN {form.no} ELSE {})
  /\ UNCHANGED <<view, listed, form, panel, chosen>>

(* The rows stay counted as valid.                                         *)
CsvCommitted(c) ==
  /\ mounted = "import" /\ calls[c].kind = "commit" /\ calls[c].at = "served"
  /\ Done(c, {})
  /\ UNCHANGED <<view, listed, form, panel, previewed, chosen>>

(* The new instrument is put in the form that is open by now.              *)
Created(c) ==
  /\ calls[c].kind = "create" /\ calls[c].at = "listing"
  /\ listed' = made
  /\ form' = [form EXCEPT !.inst = calls[c].sent.inst]
  /\ chosen' = IF chosen.inst = New THEN [chosen EXCEPT !.inst = calls[c].sent.inst] ELSE chosen
  /\ Done(c, IF calls[c].no # form.no \/ form.inst # New THEN {form.no} ELSE {})
  /\ UNCHANGED <<view, panel, previewed>>

(* The list is shown, whatever form is open by now.                        *)
Saved(c) ==
  /\ calls[c].kind = "save" /\ calls[c].at = "listing"
  /\ view' = "list" /\ Done(c, {})
  /\ UNCHANGED <<listed, form, panel, previewed, chosen>>

Adjusted(c) ==
  /\ calls[c].kind = "adjust" /\ calls[c].at = "listing"
  /\ listed' = made /\ panel' = 0 /\ Done(c, {})
  /\ UNCHANGED <<view, form, previewed, chosen>>

Loaded(c) ==
  /\ calls[c].kind \in {"load", "remove", "commit"} /\ calls[c].at = "listing"
  /\ listed' = IF calls[c].kind = "load" THEN made ELSE listed
  /\ Done(c, {})
  /\ UNCHANGED <<view, form, panel, previewed, chosen>>

(* Refused, or lost: the request or its answer.  Excused: a row that was   *)
(* recorded although its form is told otherwise, and a preview that left   *)
(* the rows before it.                                                     *)
Failed(c) ==
  /\ calls[c] # Free
  /\ Done(c, IF (calls[c].kind = "save" /\ calls[c].at \in {"served", "listing"}) \/ calls[c].kind = "preview"
             THEN {calls[c].no, form.no} \ {0} ELSE {})
  /\ UNCHANGED <<view, listed, form, panel, previewed, chosen>>

EntryInit ==
  /\ made = 1 /\ entered = [f \in Forms |-> 0]
  /\ mounted \in {"transactions", "projections", "import"}
  /\ view = "list" /\ listed = 0 /\ panel = 0 /\ previewed = 0
  /\ form = [no |-> 0, row |-> 0, inst |-> 0] /\ chosen = Target(0, 0)
  /\ \E c \in Calls :
       calls = [q \in Calls |-> IF q = c THEN [Free EXCEPT !.kind = "load", !.at = "listing"] ELSE Free]
  /\ loading = (mounted = "projections")
  /\ excused = {}

EntryNext ==
  \/ OpenAdd \/ OpenEdit \/ OpenImportDividends \/ Back \/ OnCsvChange \/ ChangeMapping
  \/ ChooseInstrument \/ OpenEditInst
  \/ \E c \in Calls :
       \/ CreateInstrument(c) \/ SaveEditInst(c) \/ Save(c) \/ Remove(c)
       \/ PreviewDividends(c) \/ CommitDividends(c) \/ PreviewCsv(c) \/ CommitCsv(c)
       \/ Serve(c) \/ Answered(c) \/ Previewed(c) \/ CsvCommitted(c)
       \/ Created(c) \/ Saved(c) \/ Adjusted(c) \/ Loaded(c) \/ Failed(c)

EntrySpec == EntryInit /\ [][EntryNext]_entryVars

-----------------------------------------------------------------------------
(* Types.                                                                  *)
EntryTypeOK ==
  /\ made \in 1..MaxInstruments /\ listed \in 0..made /\ entered \in [Forms -> 0..2]
  /\ mounted \in {"transactions", "projections", "import"} /\ view \in {"list", "form", "dividends"}
  /\ form \in [no : 0..MaxForms, row : 0..1, inst : 0..New]
  /\ chosen \in [row : 0..1, inst : 0..New]
  /\ panel \in 0..MaxInstruments /\ previewed \in Nat
  /\ loading \in BOOLEAN
  /\ \A c \in Calls :
       /\ calls[c].kind \in Kinds \cup {None}
       /\ calls[c].at \in {"sent", "served", "listing", None}
       /\ calls[c].no \in 0..MaxForms
  /\ excused \subseteq 0..MaxForms

(* Transactions.svelte:217-256, 271-313, ImportExport.svelte:97-152 and    *)
(* Projections.svelte:61-89: what a handler sends is what the user opened, *)
(* chose and was shown, and a form filled in once makes one row - however  *)
(* the answers of forms that were left arrive - unless the answer that it  *)
(* was recorded was lost, another handler gave the button back meanwhile,  *)
(* a new instrument or a preview arrived for another choice or not at all, *)
(* or the mapping was changed after the preview.                           *)
RecordedAsEntered ==
  /\ \A f \in Forms \ excused : entered[f] <= 1
  /\ \A c \in Calls :
       calls[c].kind \in {"save", "adjust", "commit"} /\ calls[c].no \notin excused =>
         calls[c].sent = calls[c].meant
=============================================================================
