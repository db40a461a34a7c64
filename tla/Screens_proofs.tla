--------------------------- MODULE Screens_proofs ---------------------------
(***************************************************************************)
(* Proofs about EntryForms and ReportScreens, for any number of handlers   *)
(* waiting, of forms, instruments, choices and holdings.                   *)
(*                                                                         *)
(* A handler that was sent tells nothing of the form that is open when its *)
(* answer comes.  EntryForms therefore relates each handler to the form it *)
(* was sent from (SentOK), each form to the handlers that may still make a *)
(* row of it (FormOK), and the open form to what the user chose (ScreenOK). *)
(*                                                                         *)
(* In ReportScreens at most the load sent last is not "older": its answer  *)
(* brings the screen up to date, any other answer takes "current" away     *)
(* (CurrentOK).                                                            *)
(***************************************************************************)
EXTENDS EntryForms, ReportScreens, TLAPS

-----------------------------------------------------------------------------
(* EntryForms: the inductive invariant. *)

Handlers ==
  [kind : Kinds \cup {None},
   at : {"sent", "served", "listing", None}, no : 0..MaxForms,
   sent : [row : 0..1, inst : Nat], meant : [row : 0..1, inst : Nat]]

(* A new instrument has its number once it is made.                        *)
HandlersOK ==
  /\ calls \in [Calls -> Handlers]
  /\ \A c \in Calls :
       /\ calls[c].no <= form.no
       /\ calls[c].kind = "create" /\ calls[c].at \in {"served", "listing"} =>
            calls[c].sent.inst \in 1..MaxInstruments

(* The form is as the user left it, unless excused.                        *)
ChosenOK ==
  /\ view # "list" => form.no # 0
  /\ form.no \notin excused => chosen = Target(form.row, form.inst)
  /\ panel # 0 /\ form.no \notin excused => panel = form.inst

(* Dividends of another instrument than the one chosen are on their way    *)
(* out, and hidden.                                                        *)
DividendsOK ==
  view = "dividends" =>
    /\ panel = 0 /\ form.inst <= MaxInstruments
    /\ form.no \notin excused /\ previewed \notin {0, form.inst} => loading /\ Busy("preview")

ImportOK ==
  mounted = "import" =>
    /\ view = "list" /\ panel = 0 /\ form.row = 0 /\ form.inst = 0 /\ chosen = Target(0, 0)
    /\ form.no \notin excused => previewed \in {0, form.no}
    /\ \A c \in Calls :
         /\ calls[c].kind # "create"
         /\ calls[c].kind = "preview" => calls[c].sent.inst = calls[c].no

SentOK ==
  \A c \in Calls :
    calls[c].kind \in {"save", "adjust", "commit"} /\ calls[c].no \notin excused =>
      calls[c].sent = calls[c].meant

Saves(c, f) == calls[c].kind = "save" /\ calls[c].no = f

(* A form that is not excused has one save at a time, which holds its      *)
(* buttons; once it is recorded, its save is under way or it is closed.    *)
FormOK(f) ==
  /\ f > form.no => entered[f] = 0
  /\ f \notin excused =>
       /\ entered[f] <= 1
       /\ \A c, d \in Calls : Saves(c, f) /\ Saves(d, f) => c = d
       /\ \A c \in Calls :
            Saves(c, f) => loading /\ (calls[c].at = "sent" /\ calls[c].sent.row = 0 => entered[f] = 0)
       /\ entered[f] # 0 /\ form.no = f /\ view = "form" =>
            \E c \in Calls : Saves(c, f) /\ calls[c].at \in {"served", "listing"}

ScreenOK == ChosenOK /\ DividendsOK /\ ImportOK
FormsOK == \A f \in Forms : FormOK(f)

EntryInv == EntryTypeOK /\ HandlersOK /\ ScreenOK /\ SentOK /\ FormsOK

-----------------------------------------------------------------------------
(* Handlers that start and end. *)

LEMMA FreeTyped == ASSUME EntryConstantsOK PROVE Free \in Handlers
BY DEF Free, Handlers, Target, EntryConstantsOK

(* What a handler that starts leaves of the others, and of the forms.      *)
LEMMA SendOK ==
  ASSUME EntryConstantsOK, EntryInv, NEW c \in Calls,
         NEW kind \in Kinds,
         NEW sent \in [row : 0..1, inst : Nat], NEW meant \in [row : 0..1, inst : Nat],
         Send(c, kind, sent, meant),
         kind \in {"save", "adjust", "commit"} /\ form.no \notin excused => sent = meant,
         kind = "save" => ~loading /\ view = "form",
         form'.no = form.no, view' = view, loading \/ kind = "save" => loading'
  PROVE  /\ calls'[c].kind = kind /\ calls'[c].sent = sent /\ calls'[c].no = form.no
         /\ \A d \in Calls \ {c} : calls'[d] = calls[d]
         /\ HandlersOK' /\ SentOK' /\ FormsOK'
<1> DEFINE call == [kind |-> kind, at |-> "sent", no |-> form.no, sent |-> sent, meant |-> meant]
<1>1. EntryTypeOK /\ HandlersOK /\ SentOK /\ FormsOK
  BY DEF EntryInv
<1>2. /\ calls[c] = Free /\ calls' = [calls EXCEPT ![c] = call]
      /\ made' = made /\ entered' = entered /\ listed' = listed /\ excused' = excused /\ mounted' = mounted
  BY DEF Send, server
<1>3. form.no \in 0..MaxForms
  BY <1>1 DEF EntryTypeOK
<1>4. call \in Handlers
  BY <1>3 DEF Handlers
<1>5. calls' \in [Calls -> Handlers] /\ calls'[c] = call /\ \A d \in Calls \ {c} : calls'[d] = calls[d]
  BY <1>1, <1>2, <1>4 DEF HandlersOK
<1>6. /\ calls'[c].kind = kind /\ calls'[c].at = "sent" /\ calls'[c].no = form.no
      /\ calls'[c].sent = sent /\ calls'[c].meant = meant
  BY <1>5
<1> HIDE DEF call
<1>7. HandlersOK'
  <2> SUFFICES ASSUME NEW d \in Calls
               PROVE  /\ calls'[d].no <= form.no
                      /\ calls'[d].kind = "create" /\ calls'[d].at \in {"served", "listing"} =>
                           calls'[d].sent.inst \in 1..MaxInstruments
    BY <1>5 DEF HandlersOK
  <2>1. CASE d = c
    BY <2>1, <1>3, <1>6
  <2>2. CASE d # c
    BY <2>2, <1>1, <1>5 DEF HandlersOK
  <2> QED BY <2>1, <2>2
<1>8. SentOK'
  <2> SUFFICES ASSUME NEW d \in Calls, calls'[d].kind \in {"save", "adjust", "commit"},
                      calls'[d].no \notin excused
               PROVE  calls'[d].sent = calls'[d].meant
    BY <1>2 DEF SentOK
  <2>1. CASE d = c
    BY <2>1, <1>6
  <2>2. CASE d # c
    BY <2>2, <1>1, <1>5 DEF SentOK
  <2> QED BY <2>1, <2>2
<1>9. ASSUME NEW f \in Forms PROVE FormOK(f)'
  <2>1. FormOK(f)
    BY <1>1 DEF FormsOK
  <2>2. ASSUME NEW d \in Calls, d # c PROVE Saves(d, f)' <=> Saves(d, f)
    BY <2>2, <1>5 DEF Saves
  <2>3. Saves(c, f)' <=> kind = "save" /\ form.no = f
    BY <1>6 DEF Saves
  <2>4. ~Saves(c, f)
    BY <1>2 DEF Saves, Free, Forms, EntryConstantsOK
  <2>5. f > form'.no => entered'[f] = 0
    BY <2>1, <1>2 DEF FormOK
  <2> SUFFICES ASSUME f \notin excused
               PROVE  /\ entered[f] <= 1
                      /\ \A p, q \in Calls : Saves(p, f)' /\ Saves(q, f)' => p = q
                      /\ \A d \in Calls :
                           Saves(d, f)' =>
                             loading' /\ (calls'[d].at = "sent" /\ calls'[d].sent.row = 0 => entered[f] = 0)
                      /\ entered[f] # 0 /\ form.no = f /\ view = "form" =>
                           \E d \in Calls : Saves(d, f)' /\ calls'[d].at \in {"served", "listing"}
    BY <2>5, <1>2 DEF FormOK
  <2>6. kind = "save" /\ form.no = f => entered[f] = 0 /\ \A d \in Calls : ~Saves(d, f)
    <3> SUFFICES ASSUME kind = "save", form.no = f
                 PROVE  entered[f] = 0 /\ \A d \in Calls : ~Saves(d, f)
      OBVIOUS
    <3>1. \A d \in Calls : ~Saves(d, f)
      BY <2>1 DEF FormOK
    <3> QED BY <3>1, <2>1 DEF FormOK
  <2>7. \A p, q \in Calls : Saves(p, f)' /\ Saves(q, f)' => p = q
    BY <2>1, <2>2, <2>3, <2>6 DEF FormOK
  <2>8. ASSUME NEW d \in Calls, Saves(d, f)'
        PROVE  loading' /\ (calls'[d].at = "sent" /\ calls'[d].sent.row = 0 => entered[f] = 0)
    <3>1. CASE d = c
      BY <3>1, <2>8, <2>3, <2>6
    <3>2. CASE d # c
      BY <3>2, <2>8, <2>1, <2>2, <1>5 DEF FormOK
    <3> QED BY <3>1, <3>2
  <2>9. ASSUME entered[f] # 0, form.no = f, view = "form"
        PROVE  \E d \in Calls : Saves(d, f)' /\ calls'[d].at \in {"served", "listing"}
    <3>1. PICK d \in Calls : Saves(d, f) /\ calls[d].at \in {"served", "listing"}
      BY <2>9, <2>1 DEF FormOK
    <3>2. d # c
      BY <3>1, <2>4
    <3> QED BY <3>1, <3>2, <2>2, <1>5
  <2> QED BY <2>1, <2>7, <2>8, <2>9 DEF FormOK
<1> QED BY <1>5, <1>6, <1>7, <1>8, <1>9 DEF FormsOK

(* The same for a handler that ends: what it gives back, or is told too    *)
(* late, is excused.                                                       *)
LEMMA DoneOK ==
  ASSUME EntryConstantsOK, EntryInv, NEW c \in Calls, NEW also \in SUBSET (0..MaxForms), Done(c, also),
         form'.no = form.no, view' \in {view, "list"},
         calls[c].kind = "save" /\ calls[c].at \in {"served", "listing"} =>
           view' = "list" \/ calls[c].no \in also \cup {0}
  PROVE  /\ calls'[c] = Free /\ \A d \in Calls \ {c} : calls'[d] = calls[d]
         /\ excused \cup also \subseteq excused' /\ excused' \subseteq 0..MaxForms
         /\ loading' \in BOOLEAN /\ made' = made /\ entered' = entered /\ mounted' = mounted
         /\ \A d \in Calls \ {c} :
              calls[d].kind = "preview" /\ form.no \notin excused' => loading' = loading
         /\ HandlersOK' /\ SentOK' /\ FormsOK'
<1>1. EntryTypeOK /\ HandlersOK /\ SentOK /\ FormsOK
  BY DEF EntryInv
<1>2. /\ calls' = [calls EXCEPT ![c] = Free] /\ loading' = (loading /\ ~Holds(c))
      /\ excused' = excused \cup Freed(c) \cup also
      /\ made' = made /\ entered' = entered /\ mounted' = mounted
  BY DEF Done, server
<1>3. calls' \in [Calls -> Handlers] /\ calls'[c] = Free /\ \A d \in Calls \ {c} : calls'[d] = calls[d]
  BY <1>1, <1>2, FreeTyped DEF HandlersOK
<1>4. Freed(c) \subseteq 0..MaxForms
  <2>1. form.no \in 0..MaxForms /\ \A q \in Calls : calls[q].no \in 0..MaxForms
    BY <1>1 DEF EntryTypeOK
  <2> QED BY <2>1 DEF Freed, Under
<1>5. excused \cup also \subseteq excused' /\ excused' \subseteq 0..MaxForms /\ loading' \in BOOLEAN
  BY <1>1, <1>2, <1>4 DEF EntryTypeOK
<1>6. ASSUME NEW d \in Calls, d # c, calls[d].kind = "save", calls[d].no \notin excused'
      PROVE  ~Holds(c)
  <2>1. d \in Under("save", c)
    BY <1>6 DEF Under
  <2>2. Holds(c) => calls[d].no \in Freed(c)
    BY <2>1 DEF Freed
  <2> QED BY <2>2, <1>2, <1>6
<1>7. ASSUME NEW d \in Calls \ {c}, calls[d].kind = "preview", form.no \notin excused'
      PROVE  loading' = loading
  <2>1. d \in Under("preview", c)
    BY <1>7 DEF Under
  <2>2. Holds(c) => form.no \in Freed(c)
    BY <2>1 DEF Freed
  <2> QED BY <2>2, <1>1, <1>2, <1>7 DEF EntryTypeOK
<1>8. Free.no = 0 /\ Free.sent = Free.meant /\ Free.kind \notin Kinds
  BY DEF Free, EntryConstantsOK
<1>9. HandlersOK'
  <2>1. form.no \in 0..MaxForms
    BY <1>1 DEF EntryTypeOK
  <2> SUFFICES ASSUME NEW d \in Calls
               PROVE  /\ calls'[d].no <= form.no
                      /\ calls'[d].kind = "create" /\ calls'[d].at \in {"served", "listing"} =>
                           calls'[d].sent.inst \in 1..MaxInstruments
    BY <1>3 DEF HandlersOK
  <2>2. CASE d = c
    BY <2>1, <2>2, <1>3, <1>8 DEF Kinds
  <2>3. CASE d # c
    BY <2>3, <1>1, <1>3 DEF HandlersOK
  <2> QED BY <2>2, <2>3
<1>10. SentOK'
  <2> SUFFICES ASSUME NEW d \in Calls, calls'[d].kind \in {"save", "adjust", "commit"},
                      calls'[d].no \notin excused'
               PROVE  calls'[d].sent = calls'[d].meant
    BY DEF SentOK
  <2>1. CASE d = c
    BY <2>1, <1>3, <1>8
  <2>2. CASE d # c
    BY <2>2, <1>1, <1>3, <1>5 DEF SentOK
  <2> QED BY <2>1, <2>2
<1>11. ASSUME NEW f \in Forms PROVE FormOK(f)'
  <2>1. FormOK(f)
    BY <1>1 DEF FormsOK
  <2>2. ASSUME NEW d \in Calls PROVE Saves(d, f)' <=> d # c /\ Saves(d, f)
    BY <2>2, <1>3, <1>8 DEF Saves, Forms
  <2>3. f > form'.no => entered'[f] = 0
    BY <2>1, <1>2 DEF FormOK
  <2> SUFFICES ASSUME f \notin excused'
               PROVE  /\ entered[f] <= 1
                      /\ \A p, q \in Calls : Saves(p, f)' /\ Saves(q, f)' => p = q
                      /\ \A d \in Calls :
                           Saves(d, f)' =>
                             loading' /\ (calls'[d].at = "sent" /\ calls'[d].sent.row = 0 => entered[f] = 0)
                      /\ entered[f] # 0 /\ form.no = f /\ view' = "form" =>
                           \E d \in Calls : Saves(d, f)' /\ calls'[d].at \in {"served", "listing"}
    BY <2>3, <1>2 DEF FormOK
  <2>4. f \notin excused
    BY <1>5
  <2>5. \A p, q \in Calls : Saves(p, f)' /\ Saves(q, f)' => p = q
    BY <2>1, <2>2, <2>4 DEF FormOK
  <2>6. ASSUME NEW d \in Calls, Saves(d, f)'
        PROVE  loading' /\ (calls'[d].at = "sent" /\ calls'[d].sent.row = 0 => entered[f] = 0)
    <3>1. d # c /\ Saves(d, f)
      BY <2>2, <2>6
    <3>2. loading /\ (calls[d].at = "sent" /\ calls[d].sent.row = 0 => entered[f] = 0)
      BY <3>1, <2>1, <2>4 DEF FormOK
    <3>3. ~Holds(c)
      BY <3>1, <1>6 DEF Saves
    <3> QED BY <3>1, <3>2, <3>3, <1>2, <1>3
  <2>7. ASSUME entered[f] # 0, form.no = f, view' = "form"
        PROVE  \E d \in Calls : Saves(d, f)' /\ calls'[d].at \in {"served", "listing"}
    <3>1. PICK d \in Calls : Saves(d, f) /\ calls[d].at \in {"served", "listing"}
      BY <2>7, <2>1, <2>4 DEF FormOK
    <3>2. d # c
      BY <3>1, <2>7, <1>5 DEF Saves, Forms
    <3> QED BY <3>1, <3>2, <2>2, <1>3
  <2> QED BY <2>1, <2>4, <2>5, <2>6, <2>7 DEF FormOK
<1> QED BY <1>2, <1>3, <1>5, <1>7, <1>9, <1>10, <1>11 DEF FormsOK

(* The same for what the user does without a handler.                      *)
LEMMA ViewOK ==
  ASSUME EntryConstantsOK, EntryInv, calls' = calls, made' = made, entered' = entered,
         excused \subseteq excused', loading' = loading, form'.no \in Nat,
         \/ form'.no = form.no /\ (view' = "form" => view = "form")
         \/ form'.no = form.no + 1
  PROVE  HandlersOK' /\ SentOK' /\ FormsOK'
<1>1. EntryTypeOK /\ HandlersOK /\ SentOK /\ FormsOK
  BY DEF EntryInv
<1>2. form.no \in Nat /\ form'.no >= form.no
  BY <1>1 DEF EntryTypeOK
<1>3. HandlersOK'
  <2> SUFFICES ASSUME NEW d \in Calls PROVE calls[d].no <= form'.no
    BY <1>1 DEF HandlersOK
  <2>1. calls[d].no \in 0..MaxForms /\ calls[d].no <= form.no
    BY <1>1 DEF HandlersOK, EntryTypeOK
  <2> QED BY <2>1, <1>2 DEF EntryConstantsOK
<1>4. SentOK'
  BY <1>1 DEF SentOK
<1>5. ASSUME NEW f \in Forms PROVE FormOK(f)'
  <2>1. FormOK(f) /\ f \in Nat
    BY <1>1 DEF FormsOK, Forms
  <2>2. ASSUME NEW d \in Calls PROVE Saves(d, f)' <=> Saves(d, f)
    BY DEF Saves
  <2>3. f > form'.no => entered[f] = 0
    BY <2>1, <1>2 DEF FormOK
  <2>4. form'.no = f /\ view' = "form" /\ entered[f] # 0 => form.no = f /\ view = "form"
    BY <2>1, <1>2 DEF FormOK
  <2> QED BY <2>1, <2>2, <2>3, <2>4 DEF FormOK
<1> QED BY <1>3, <1>4, <1>5 DEF FormsOK

-----------------------------------------------------------------------------
(* What the user does. *)

LEMMA OpenedOK ==
  ASSUME EntryConstantsOK, EntryInv, NEW v \in {"form", "dividends"}, NEW row \in 0..1,
         NEW inst \in 0..listed, Opened(v, row, inst), mounted # "import",
         previewed' = previewed \/ previewed' = 0, v = "dividends" => previewed' = 0
  PROVE  EntryInv'
<1>1. EntryTypeOK /\ HandlersOK
  BY DEF EntryInv
<1>2. /\ form.no < MaxForms /\ form' = [no |-> form.no + 1, row |-> row, inst |-> inst]
      /\ chosen' = Target(row, inst) /\ panel' = 0 /\ view' = v
      /\ made' = made /\ entered' = entered /\ mounted' = mounted /\ listed' = listed
      /\ loading' = loading /\ calls' = calls /\ excused' = excused
  BY DEF Opened, server
<1>3. /\ form.no \in Nat /\ form.no + 1 \in 1..MaxForms /\ inst \in 0..MaxInstruments
      /\ inst \in 0..New
  BY <1>1, <1>2 DEF EntryTypeOK, EntryConstantsOK, New
<1>4. HandlersOK' /\ SentOK' /\ FormsOK'
  BY <1>2, <1>3, ViewOK
<1>5. EntryTypeOK'
  BY <1>1, <1>2, <1>3 DEF EntryTypeOK, EntryConstantsOK, Target
<1>6. ScreenOK'
  BY <1>2, <1>3 DEF ScreenOK, ChosenOK, DividendsOK, ImportOK, Target
<1> QED BY <1>4, <1>5, <1>6 DEF EntryInv

LEMMA OpensOK ==
  ASSUME EntryConstantsOK, EntryInv, OpenAdd \/ OpenEdit \/ OpenImportDividends
  PROVE  EntryInv'
<1>1. EntryTypeOK /\ listed \in Nat /\ 0 \in 0..listed /\ 0 \in 0..1 /\ 1 \in 0..1
  BY DEF EntryInv, EntryTypeOK, EntryConstantsOK
<1>2. CASE OpenAdd
  BY <1>1, <1>2, OpenedOK DEF OpenAdd
<1>3. CASE OpenEdit
  <2>1. PICK i \in 1..listed : Opened("form", 1, i)
    BY <1>3 DEF OpenEdit
  <2> QED BY <1>1, <1>3, <2>1, OpenedOK DEF OpenEdit
<1>4. CASE OpenImportDividends
  <2> DEFINE inst == IF listed = 1 THEN 1 ELSE 0
  <2>1. inst \in 0..listed
    BY <1>1
  <2>2. Opened("dividends", 0, inst) /\ previewed' = 0 /\ mounted # "import"
    BY <1>4 DEF OpenImportDividends
  <2> QED BY <1>1, <2>1, <2>2, OpenedOK
<1> QED BY <1>2, <1>3, <1>4

LEMMA BackOK ==
  ASSUME EntryConstantsOK, EntryInv, Back
  PROVE  EntryInv'
<1>1. EntryTypeOK /\ HandlersOK /\ ScreenOK
  BY DEF EntryInv
<1>2. /\ view' = "list" /\ UNCHANGED <<made, entered, mounted, listed, form, panel, previewed>>
      /\ UNCHANGED <<loading, chosen, calls, excused>>
  BY DEF Back, server
<1>3. HandlersOK' /\ SentOK' /\ FormsOK'
  <2>1. form'.no \in Nat
    BY <1>1, <1>2 DEF EntryTypeOK
  <2> QED BY <1>2, <2>1, ViewOK
<1>4. EntryTypeOK'
  BY <1>1, <1>2 DEF EntryTypeOK
<1>5. ScreenOK'
  BY <1>1, <1>2 DEF ScreenOK, ChosenOK, DividendsOK, ImportOK
<1> QED BY <1>3, <1>4, <1>5 DEF EntryInv

LEMMA CsvOK ==
  ASSUME EntryConstantsOK, EntryInv, OnCsvChange \/ ChangeMapping
  PROVE  EntryInv'
<1>1. EntryTypeOK /\ HandlersOK /\ ScreenOK /\ form.no \in 0..MaxForms
  BY DEF EntryInv, EntryTypeOK
<1>2. /\ UNCHANGED <<made, entered, mounted, view, listed, panel, loading, chosen, calls>>
      /\ mounted = "import" /\ excused \subseteq excused'
  BY DEF OnCsvChange, ChangeMapping, server
<1>3. view = "list"
  BY <1>1, <1>2 DEF ScreenOK, ImportOK
<1>4. CASE OnCsvChange
  <2>1. /\ form' = [form EXCEPT !.no = form.no + 1] /\ previewed' = 0 /\ excused' = excused
        /\ form.no < MaxForms
    BY <1>4 DEF OnCsvChange, Forget
  <2>2. /\ form'.no = form.no + 1 /\ form'.no \in 0..MaxForms /\ form'.row = form.row
        /\ form'.inst = form.inst /\ form' \in [no : 0..MaxForms, row : 0..1, inst : 0..New]
    BY <1>1, <2>1 DEF EntryTypeOK, EntryConstantsOK
  <2>3. HandlersOK' /\ SentOK' /\ FormsOK'
    BY <1>2, <2>2, ViewOK
  <2>4. EntryTypeOK'
    BY <1>1, <1>2, <2>1, <2>2 DEF EntryTypeOK
  <2>5. ScreenOK'
    BY <1>1, <1>2, <1>3, <2>1, <2>2 DEF ScreenOK, ChosenOK, DividendsOK, ImportOK, Target
  <2> QED BY <2>3, <2>4, <2>5 DEF EntryInv
<1>5. CASE ChangeMapping
  <2>1. form' = form /\ previewed' = previewed /\ excused' = excused \cup {form.no}
    BY <1>5 DEF ChangeMapping
  <2>2. HandlersOK' /\ SentOK' /\ FormsOK'
    <3>1. form'.no \in Nat
      BY <1>1, <2>1
    <3> QED BY <3>1, <1>2, <2>1, ViewOK
  <2>3. EntryTypeOK'
    BY <1>1, <1>2, <2>1 DEF EntryTypeOK
  <2>4. ScreenOK'
    BY <1>1, <1>2, <1>3, <2>1 DEF ScreenOK, ChosenOK, DividendsOK, ImportOK
  <2> QED BY <2>2, <2>3, <2>4 DEF EntryInv
<1> QED BY <1>4, <1>5

LEMMA ChooseOK ==
  ASSUME EntryConstantsOK, EntryInv, ChooseInstrument \/ OpenEditInst
  PROVE  EntryInv'
<1>1. EntryTypeOK /\ HandlersOK /\ ScreenOK /\ form.no \in Nat
  BY DEF EntryInv, EntryTypeOK
<1>2. /\ UNCHANGED <<made, entered, mounted, view, listed, previewed, loading, calls, excused>>
      /\ view = "form"
  BY DEF ChooseInstrument, OpenEditInst, server
<1>3. mounted # "import"
  BY <1>1, <1>2 DEF ScreenOK, ImportOK
<1>4. CASE ChooseInstrument
  <2>1. PICK i \in 0..listed \cup {New} :
          form' = [form EXCEPT !.inst = i] /\ chosen' = [chosen EXCEPT !.inst = i] /\ panel' = 0
    BY <1>4 DEF ChooseInstrument
  <2>2. i \in 0..New
    BY <1>1 DEF EntryTypeOK, New, EntryConstantsOK
  <2>3. /\ form'.no = form.no /\ form'.row = form.row /\ form'.inst = i
        /\ chosen'.row = chosen.row /\ chosen'.inst = i
        /\ form' \in [no : 0..MaxForms, row : 0..1, inst : 0..New]
        /\ chosen' \in [row : 0..1, inst : 0..New]
    BY <1>1, <2>1, <2>2 DEF EntryTypeOK
  <2>4. HandlersOK' /\ SentOK' /\ FormsOK'
    BY <1>1, <1>2, <2>3, ViewOK
  <2>5. EntryTypeOK'
    BY <1>1, <1>2, <2>1, <2>3 DEF EntryTypeOK, EntryConstantsOK
  <2>6. form.no \notin excused => chosen' = Target(form'.row, i)
    BY <1>1, <2>1, <2>3 DEF ScreenOK, ChosenOK, Target, EntryTypeOK
  <2>7. ScreenOK'
    BY <1>1, <1>2, <1>3, <2>1, <2>3, <2>6 DEF ScreenOK, ChosenOK, DividendsOK, ImportOK
  <2> QED BY <2>4, <2>5, <2>7 DEF EntryInv
<1>5. CASE OpenEditInst
  <2>1. form' = form /\ chosen' = chosen /\ panel' = form.inst /\ form.inst \in 1..listed
    BY <1>5 DEF OpenEditInst
  <2>2. panel' \in 0..MaxInstruments
    BY <1>1, <2>1 DEF EntryTypeOK, EntryConstantsOK
  <2>3. HandlersOK' /\ SentOK' /\ FormsOK'
    <3>1. form'.no \in Nat
      BY <1>1, <2>1
    <3> QED BY <3>1, <1>2, <2>1, ViewOK
  <2>4. EntryTypeOK'
    BY <1>1, <1>2, <2>1, <2>2 DEF EntryTypeOK
  <2>5. ScreenOK'
    BY <1>1, <1>2, <1>3, <2>1 DEF ScreenOK, ChosenOK, DividendsOK, ImportOK
  <2> QED BY <2>3, <2>4, <2>5 DEF EntryInv
<1> QED BY <1>4, <1>5

-----------------------------------------------------------------------------
(* The handlers: what they send. *)

LEMMA CreatesOK ==
  ASSUME EntryConstantsOK, EntryInv, NEW c \in Calls, CreateInstrument(c) \/ Remove(c)
  PROVE  EntryInv'
<1>1. EntryTypeOK /\ ScreenOK
  BY DEF EntryInv
<1>2. PICK kind \in {"create", "remove"} :
        /\ Send(c, kind, Target(0, 0), Target(0, 0))
        /\ kind = "create" => view = "form"
  BY DEF CreateInstrument, Remove
<1>3. /\ UNCHANGED <<made, entered, mounted, view, listed, form, panel, previewed, loading>>
      /\ UNCHANGED <<chosen, excused>>
  BY <1>2 DEF CreateInstrument, Remove, Send, server
<1>4. /\ calls'[c].kind = kind /\ \A d \in Calls \ {c} : calls'[d] = calls[d]
      /\ HandlersOK' /\ SentOK' /\ FormsOK'
  <2>1. Target(0, 0) \in [row : 0..1, inst : Nat] /\ kind \in Kinds
    BY DEF Target, Kinds
  <2> QED BY <1>2, <1>3, <2>1, SendOK
<1>5. EntryTypeOK'
  BY <1>1, <1>3, <1>4 DEF EntryTypeOK, HandlersOK, Handlers
<1>6. ChosenOK' /\ ImportOK'
  BY <1>1, <1>2, <1>3, <1>4 DEF ScreenOK, ChosenOK, ImportOK
<1>7. DividendsOK'
  <2>1. Busy("preview") => Busy("preview")'
    BY <1>2, <1>4 DEF Busy, Send, Free, EntryConstantsOK, Kinds
  <2> QED BY <2>1, <1>1, <1>3 DEF ScreenOK, DividendsOK
<1> QED BY <1>4, <1>5, <1>6, <1>7 DEF EntryInv, ScreenOK

LEMMA AdjustsOK ==
  ASSUME EntryConstantsOK, EntryInv, NEW c \in Calls, SaveEditInst(c)
  PROVE  EntryInv'
<1>1. EntryTypeOK /\ ScreenOK
  BY DEF EntryInv
<1>2. /\ Send(c, "adjust", Target(0, form.inst), Target(0, panel)) /\ view = "form" /\ panel # 0
      /\ UNCHANGED <<made, entered, mounted, view, listed, form, panel, previewed, loading>>
      /\ UNCHANGED <<chosen, excused>>
  BY DEF SaveEditInst, Send, server
<1>3. /\ calls'[c].kind = "adjust" /\ \A d \in Calls \ {c} : calls'[d] = calls[d]
      /\ HandlersOK' /\ SentOK' /\ FormsOK'
  <2>1. /\ Target(0, form.inst) \in [row : 0..1, inst : Nat] /\ "adjust" \in Kinds
        /\ Target(0, panel) \in [row : 0..1, inst : Nat]
    BY <1>1 DEF Target, Kinds, EntryTypeOK, New, EntryConstantsOK
  <2>2. form.no \notin excused => Target(0, form.inst) = Target(0, panel)
    BY <1>1, <1>2 DEF ScreenOK, ChosenOK
  <2> HIDE DEF Target
  <2> QED BY <1>2, <2>1, <2>2, SendOK
<1>4. EntryTypeOK'
  BY <1>1, <1>2, <1>3 DEF EntryTypeOK, HandlersOK, Handlers
<1>5. ScreenOK'
  BY <1>1, <1>2 DEF ScreenOK, ChosenOK, DividendsOK, ImportOK
<1> QED BY <1>3, <1>4, <1>5 DEF EntryInv

LEMMA SaveOK ==
  ASSUME EntryConstantsOK, EntryInv, NEW c \in Calls, Save(c)
  PROVE  EntryInv'
<1>1. EntryTypeOK /\ ScreenOK
  BY DEF EntryInv
<1>2. /\ Send(c, "save", Target(form.row, form.inst), chosen) /\ view = "form" /\ ~loading
      /\ loading' = TRUE
      /\ UNCHANGED <<made, entered, mounted, view, listed, form, panel, previewed, chosen, excused>>
  BY DEF Save, MaySave, Send, server
<1>3. /\ calls'[c].kind = "save" /\ \A d \in Calls \ {c} : calls'[d] = calls[d]
      /\ HandlersOK' /\ SentOK' /\ FormsOK'
  <2>1. /\ Target(form.row, form.inst) \in [row : 0..1, inst : Nat] /\ "save" \in Kinds
        /\ chosen \in [row : 0..1, inst : Nat]
    BY <1>1 DEF Target, Kinds, EntryTypeOK, New, EntryConstantsOK
  <2>2. form.no \notin excused => Target(form.row, form.inst) = chosen
    BY <1>1, <1>2 DEF ScreenOK, ChosenOK
  <2> QED BY <1>2, <2>1, <2>2, SendOK
<1>4. EntryTypeOK'
  BY <1>1, <1>2, <1>3 DEF EntryTypeOK, HandlersOK, Handlers
<1>5. ScreenOK'
  BY <1>1, <1>2 DEF ScreenOK, ChosenOK, DividendsOK, ImportOK
<1> QED BY <1>3, <1>4, <1>5 DEF EntryInv

LEMMA PreviewDividendsOK ==
  ASSUME EntryConstantsOK, EntryInv, NEW c \in Calls, PreviewDividends(c)
  PROVE  EntryInv'
<1>1. EntryTypeOK /\ ScreenOK
  BY DEF EntryInv
<1>2. PICK i \in 1..listed :
        /\ form' = [form EXCEPT !.inst = i] /\ chosen' = [chosen EXCEPT !.inst = i]
        /\ Send(c, "preview", Target(0, i), Target(0, i))
  BY DEF PreviewDividends
<1>3. /\ view = "dividends" /\ loading' = TRUE
      /\ UNCHANGED <<made, entered, mounted, view, listed, panel, previewed, excused>>
  BY <1>2 DEF PreviewDividends, Send, server
<1>4. i \in 1..MaxInstruments /\ i \in 0..New
  BY <1>1 DEF EntryTypeOK, New, EntryConstantsOK
<1>5. /\ form'.no = form.no /\ form'.row = form.row /\ form'.inst = i
      /\ chosen'.row = chosen.row /\ chosen'.inst = i
      /\ form' \in [no : 0..MaxForms, row : 0..1, inst : 0..New]
      /\ chosen' \in [row : 0..1, inst : 0..New]
  BY <1>1, <1>2, <1>4 DEF EntryTypeOK
<1>6. /\ calls'[c].kind = "preview" /\ HandlersOK' /\ SentOK' /\ FormsOK'
  <2>1. Target(0, i) \in [row : 0..1, inst : Nat] /\ "preview" \in Kinds
    BY <1>4 DEF Target, Kinds
  <2> QED BY <1>2, <1>3, <1>5, <2>1, SendOK
<1>7. EntryTypeOK'
  BY <1>1, <1>3, <1>5, <1>6 DEF EntryTypeOK, HandlersOK, Handlers
<1>8. ScreenOK'
  <2>1. form.no \notin excused => chosen' = Target(form'.row, i)
    BY <1>1, <1>2, <1>5 DEF ScreenOK, ChosenOK, Target, EntryTypeOK
  <2>2. ChosenOK'
    BY <1>1, <1>3, <1>5, <2>1 DEF ScreenOK, ChosenOK, DividendsOK
  <2>3. DividendsOK' /\ ImportOK'
    BY <1>1, <1>3, <1>4, <1>5, <1>6 DEF ScreenOK, DividendsOK, ImportOK, Busy
  <2> QED BY <2>2, <2>3 DEF ScreenOK
<1> QED BY <1>6, <1>7, <1>8 DEF EntryInv

LEMMA CommitDividendsOK ==
  ASSUME EntryConstantsOK, EntryInv, NEW c \in Calls, CommitDividends(c)
  PROVE  EntryInv'
<1>1. EntryTypeOK /\ ScreenOK
  BY DEF EntryInv
<1>2. /\ Send(c, "commit", Target(0, form.inst), Target(0, previewed)) /\ view = "dividends"
      /\ ~loading /\ previewed # 0 /\ loading' = TRUE
      /\ UNCHANGED <<made, entered, mounted, view, listed, form, panel, previewed, chosen, excused>>
  BY DEF CommitDividends, Send, server
<1>3. form.no \notin excused => previewed = form.inst
  BY <1>1, <1>2 DEF ScreenOK, DividendsOK
<1>4. /\ calls'[c].kind = "commit" /\ HandlersOK' /\ SentOK' /\ FormsOK'
  <2>1. /\ Target(0, form.inst) \in [row : 0..1, inst : Nat] /\ "commit" \in Kinds
        /\ Target(0, previewed) \in [row : 0..1, inst : Nat]
    BY <1>1 DEF Target, Kinds, EntryTypeOK, New, EntryConstantsOK
  <2> QED BY <1>2, <1>3, <2>1, SendOK
<1>5. EntryTypeOK'
  BY <1>1, <1>2, <1>4 DEF EntryTypeOK, HandlersOK, Handlers
<1>6. ScreenOK'
  BY <1>1, <1>2, <1>3 DEF ScreenOK, ChosenOK, DividendsOK, ImportOK
<1> QED BY <1>4, <1>5, <1>6 DEF EntryInv

LEMMA CsvSendsOK ==
  ASSUME EntryConstantsOK, EntryInv, NEW c \in Calls, PreviewCsv(c) \/ CommitCsv(c)
  PROVE  EntryInv'
<1>1. EntryTypeOK /\ ScreenOK
  BY DEF EntryInv
<1>2. PICK kind \in {"preview", "commit"}, text \in Nat :
        /\ Send(c, kind, Target(0, form.no), Target(0, text))
        /\ kind = "preview" => text = form.no
        /\ kind = "commit" => text = previewed /\ previewed # 0
  BY <1>1 DEF PreviewCsv, CommitCsv, EntryTypeOK
<1>3. /\ mounted = "import" /\ loading' = TRUE
      /\ UNCHANGED <<made, entered, mounted, view, listed, form, panel, previewed, chosen, excused>>
  BY <1>2 DEF PreviewCsv, CommitCsv, Send, server
<1>4. kind = "commit" /\ form.no \notin excused => text = form.no
  BY <1>1, <1>2, <1>3 DEF ScreenOK, ImportOK
<1>5. /\ calls'[c].kind = kind /\ calls'[c].no = form.no /\ calls'[c].sent = Target(0, form.no)
      /\ \A d \in Calls \ {c} : calls'[d] = calls[d]
      /\ HandlersOK' /\ SentOK' /\ FormsOK'
  <2>1. /\ Target(0, form.no) \in [row : 0..1, inst : Nat] /\ kind \in Kinds
        /\ Target(0, text) \in [row : 0..1, inst : Nat]
    BY <1>1 DEF Target, Kinds, EntryTypeOK
  <2> QED BY <1>2, <1>3, <1>4, <2>1, SendOK
<1>6. EntryTypeOK'
  BY <1>1, <1>3, <1>5 DEF EntryTypeOK, HandlersOK, Handlers
<1>7. ScreenOK'
  <2>1. view = "list" /\ calls'[c].sent.inst = form.no
    BY <1>1, <1>3, <1>5 DEF ScreenOK, ImportOK, Target
  <2>2. ChosenOK' /\ DividendsOK'
    BY <1>1, <1>3, <2>1 DEF ScreenOK, ChosenOK, DividendsOK
  <2>3. ImportOK'
    BY <1>1, <1>3, <1>5, <2>1 DEF ScreenOK, ImportOK
  <2> QED BY <2>2, <2>3 DEF ScreenOK
<1> QED BY <1>5, <1>6, <1>7 DEF EntryInv

-----------------------------------------------------------------------------
(* The handlers: what they are answered. *)

LEMMA ServeOK ==
  ASSUME EntryConstantsOK, EntryInv, NEW c \in Calls, Serve(c)
  PROVE  EntryInv'
<1>1. EntryTypeOK /\ HandlersOK /\ ScreenOK /\ SentOK /\ FormsOK
  BY DEF EntryInv
<1>2. /\ calls[c].at = "sent" /\ Record(c)
      /\ UNCHANGED <<mounted, view, listed, form, panel, previewed, loading, chosen, excused>>
  BY DEF Serve
<1>3. calls[c] \in Handlers
  BY <1>1 DEF HandlersOK
(* The handler is served; only a new instrument gets its number.           *)
<1>4. /\ calls' \in [Calls -> Handlers] /\ \A d \in Calls \ {c} : calls'[d] = calls[d]
      /\ calls'[c].kind = calls[c].kind /\ calls'[c].no = calls[c].no /\ calls'[c].at = "served"
      /\ calls'[c].meant = calls[c].meant
      /\ calls[c].kind # "create" => calls'[c].sent = calls[c].sent
      /\ calls[c].kind = "create" => calls'[c].sent.inst \in 1..MaxInstruments
      /\ made' \in 1..MaxInstruments /\ made' >= made
  <2>1. CASE calls[c].kind = "create"
    <3> DEFINE sent == [calls[c].sent EXCEPT !.inst = made + 1]
               call == [calls[c] EXCEPT !.at = "served", !.sent = sent]
    <3>1. /\ made < MaxInstruments /\ made' = made + 1
          /\ calls' = [calls EXCEPT ![c].at = "served", ![c].sent.inst = made + 1]
      BY <1>2, <2>1 DEF Record
    <3>2. made + 1 \in 1..MaxInstruments
      BY <3>1, <1>1 DEF EntryTypeOK, EntryConstantsOK
    <3>3. /\ call \in Handlers /\ call.kind = calls[c].kind /\ call.no = calls[c].no
          /\ call.at = "served" /\ call.meant = calls[c].meant /\ call.sent.inst = made + 1
      <4>1. sent \in [row : 0..1, inst : Nat] /\ sent.inst = made + 1
        BY <1>3, <3>2 DEF Handlers
      <4> HIDE DEF sent
      <4> QED BY <1>3, <4>1 DEF Handlers
    <3>4. calls' = [calls EXCEPT ![c] = call]
      BY <3>1, <1>1, <1>3 DEF HandlersOK, Handlers
    <3> HIDE DEF call, sent
    <3>5. /\ calls' \in [Calls -> Handlers] /\ calls'[c] = call
          /\ \A d \in Calls \ {c} : calls'[d] = calls[d]
      BY <1>1, <3>3, <3>4 DEF HandlersOK
    <3> QED BY <2>1, <3>1, <3>2, <3>3, <3>5, <1>1 DEF EntryTypeOK
  <2>2. CASE calls[c].kind # "create"
    <3> DEFINE call == [calls[c] EXCEPT !.at = "served"]
    <3>1. made' = made /\ calls' = [calls EXCEPT ![c].at = "served"]
      BY <1>2, <2>2 DEF Record, server
    <3>2. /\ call \in Handlers /\ call.kind = calls[c].kind /\ call.no = calls[c].no
          /\ call.at = "served" /\ call.meant = calls[c].meant /\ call.sent = calls[c].sent
      BY <1>3 DEF Handlers
    <3>3. calls' = [calls EXCEPT ![c] = call]
      BY <3>1, <1>1 DEF HandlersOK
    <3> HIDE DEF call
    <3>4. /\ calls' \in [Calls -> Handlers] /\ calls'[c] = call
          /\ \A d \in Calls \ {c} : calls'[d] = calls[d]
      BY <1>1, <3>2, <3>3 DEF HandlersOK
    <3> QED BY <2>2, <3>1, <3>2, <3>4, <1>1 DEF EntryTypeOK, EntryConstantsOK
  <2> QED BY <2>1, <2>2
(* A new row counts for its form, but never above two.                     *)
<1>5. \A f \in Forms :
        entered'[f] = IF Saves(c, f) /\ calls[c].sent.row = 0
                      THEN IF entered[f] = 0 THEN 1 ELSE 2 ELSE entered[f]
  <2> SUFFICES ASSUME NEW f \in Forms
               PROVE  entered'[f] = IF Saves(c, f) /\ calls[c].sent.row = 0
                                    THEN IF entered[f] = 0 THEN 1 ELSE 2 ELSE entered[f]
    OBVIOUS
  <2>1. CASE calls[c].kind = "save" /\ calls[c].sent.row = 0
    <3>1. entered' = [entered EXCEPT ![calls[c].no] = IF @ = 0 THEN 1 ELSE 2]
      BY <1>2, <2>1 DEF Record
    <3> QED BY <3>1, <2>1, <1>1 DEF Saves, EntryTypeOK
  <2>2. CASE ~(calls[c].kind = "save" /\ calls[c].sent.row = 0)
    <3>1. entered' = entered
      BY <1>2, <2>2 DEF Record, server
    <3> QED BY <3>1, <2>2 DEF Saves
  <2> QED BY <2>1, <2>2
<1>6. entered' \in [Forms -> 0..2]
  <2>1. \/ entered' = [entered EXCEPT ![calls[c].no] = IF @ = 0 THEN 1 ELSE 2]
        \/ entered' = entered
    BY <1>2 DEF Record, server
  <2> QED BY <2>1, <1>1 DEF EntryTypeOK
<1>7. EntryTypeOK'
  BY <1>1, <1>2, <1>4, <1>6 DEF EntryTypeOK, Handlers, EntryConstantsOK
<1>8. HandlersOK'
  BY <1>1, <1>2, <1>4 DEF HandlersOK
<1>9. SentOK'
  <2> SUFFICES ASSUME NEW d \in Calls, calls'[d].kind \in {"save", "adjust", "commit"},
                      calls'[d].no \notin excused
               PROVE  calls'[d].sent = calls'[d].meant
    BY <1>2 DEF SentOK
  <2> QED BY <1>1, <1>4 DEF SentOK
<1>10. ASSUME NEW d \in Calls, NEW f PROVE Saves(d, f)' <=> Saves(d, f)
  BY <1>4 DEF Saves
<1>11. ASSUME NEW f \in Forms PROVE FormOK(f)'
  <2>1. FormOK(f) /\ f \in Nat /\ entered[f] \in 0..2
    BY <1>1 DEF FormsOK, Forms, EntryTypeOK
  <2>2. f > form.no => entered'[f] = 0
    <3>1. f > form.no => ~Saves(c, f)
      <4>1. calls[c].no <= form.no /\ calls[c].no \in Nat /\ form.no \in Nat
        BY <1>1, <1>3 DEF HandlersOK, Handlers, EntryTypeOK
      <4> QED BY <4>1, <2>1 DEF Saves
    <3> QED BY <3>1, <2>1, <1>5 DEF FormOK
  <2> SUFFICES ASSUME f \notin excused
               PROVE  /\ entered'[f] <= 1
                      /\ \A p, q \in Calls : Saves(p, f)' /\ Saves(q, f)' => p = q
                      /\ \A d \in Calls :
                           Saves(d, f)' =>
                             loading /\ (calls'[d].at = "sent" /\ calls'[d].sent.row = 0 => entered'[f] = 0)
                      /\ entered'[f] # 0 /\ form.no = f /\ view = "form" =>
                           \E d \in Calls : Saves(d, f)' /\ calls'[d].at \in {"served", "listing"}
    BY <2>2, <1>2 DEF FormOK
  <2>3. Saves(c, f) /\ calls[c].sent.row = 0 => entered[f] = 0
    BY <2>1, <1>2 DEF FormOK
  <2>4. entered'[f] <= 1
    BY <2>1, <2>3, <1>5 DEF FormOK
  <2>5. \A p, q \in Calls : Saves(p, f)' /\ Saves(q, f)' => p = q
    BY <2>1, <1>10 DEF FormOK
  <2>6. ASSUME NEW d \in Calls, Saves(d, f)'
        PROVE  loading /\ (calls'[d].at = "sent" /\ calls'[d].sent.row = 0 => entered'[f] = 0)
    <3>1. Saves(d, f) /\ loading
      BY <2>1, <2>6, <1>10 DEF FormOK
    <3>2. CASE d = c
      BY <3>1, <3>2, <1>4
    <3>3. CASE d # c
      <4>1. ~Saves(c, f)
        BY <3>1, <3>3, <2>1 DEF FormOK
      <4> QED BY <4>1, <3>1, <3>3, <2>1, <1>4, <1>5 DEF FormOK
    <3> QED BY <3>2, <3>3
  <2>7. ASSUME entered'[f] # 0, form.no = f, view = "form"
        PROVE  \E d \in Calls : Saves(d, f)' /\ calls'[d].at \in {"served", "listing"}
    <3>1. CASE Saves(c, f) /\ calls[c].sent.row = 0
      BY <3>1, <1>4, <1>10
    <3>2. CASE ~(Saves(c, f) /\ calls[c].sent.row = 0)
      <4>1. PICK d \in Calls : Saves(d, f) /\ calls[d].at \in {"served", "listing"}
        BY <3>2, <2>1, <2>7, <1>5 DEF FormOK
      <4> QED BY <4>1, <1>2, <1>4, <1>10
    <3> QED BY <3>1, <3>2
  <2> QED BY <2>4, <2>5, <2>6, <2>7
<1>12. ScreenOK'
  <2>1. Busy("preview") => Busy("preview")'
    BY <1>4 DEF Busy
  <2>2. ChosenOK' /\ DividendsOK'
    BY <2>1, <1>1, <1>2 DEF ScreenOK, ChosenOK, DividendsOK
  <2>3. ImportOK'
    BY <1>1, <1>2, <1>4 DEF ScreenOK, ImportOK
  <2> QED BY <2>2, <2>3 DEF ScreenOK
<1> QED BY <1>7, <1>8, <1>9, <1>11, <1>12 DEF EntryInv, FormsOK

LEMMA AnsweredOK ==
  ASSUME EntryConstantsOK, EntryInv, NEW c \in Calls, Answered(c)
  PROVE  EntryInv'
<1>1. EntryTypeOK /\ HandlersOK /\ ScreenOK /\ SentOK /\ FormsOK
  BY DEF EntryInv
<1>2. /\ calls[c].at = "served" /\ calls[c].kind # "preview"
      /\ ~(mounted = "import" /\ calls[c].kind = "commit")
      /\ calls' = [calls EXCEPT ![c].at = "listing"]
      /\ previewed' = previewed \/ (calls[c].kind = "commit" /\ previewed' = 0)
      /\ loading => loading'
      /\ loading' = (loading \/ (mounted = "projections" /\ calls[c].kind = "remove"))
      /\ UNCHANGED <<made, entered, mounted, view, listed, form, panel, chosen, excused>>
  BY DEF Answered, server
<1>3. /\ calls' \in [Calls -> Handlers] /\ \A d \in Calls \ {c} : calls'[d] = calls[d]
      /\ calls'[c].kind = calls[c].kind /\ calls'[c].no = calls[c].no /\ calls'[c].at = "listing"
      /\ calls'[c].meant = calls[c].meant /\ calls'[c].sent = calls[c].sent
  <2> DEFINE call == [calls[c] EXCEPT !.at = "listing"]
  <2>1. calls[c] \in Handlers
    BY <1>1 DEF HandlersOK
  <2>2. /\ call \in Handlers /\ call.kind = calls[c].kind /\ call.no = calls[c].no
        /\ call.at = "listing" /\ call.meant = calls[c].meant /\ call.sent = calls[c].sent
    BY <2>1 DEF Handlers
  <2>3. calls' = [calls EXCEPT ![c] = call]
    BY <1>1, <1>2 DEF HandlersOK
  <2> HIDE DEF call
  <2>4. /\ calls' \in [Calls -> Handlers] /\ calls'[c] = call
        /\ \A d \in Calls \ {c} : calls'[d] = calls[d]
    BY <1>1, <2>2, <2>3 DEF HandlersOK
  <2> QED BY <2>2, <2>4
<1>4. loading' \in BOOLEAN /\ previewed' \in Nat
  BY <1>1, <1>2 DEF EntryTypeOK
<1>5. EntryTypeOK'
  BY <1>1, <1>2, <1>3, <1>4 DEF EntryTypeOK, Handlers
<1>6. HandlersOK'
  BY <1>1, <1>2, <1>3 DEF HandlersOK
<1>7. SentOK'
  <2> SUFFICES ASSUME NEW d \in Calls, calls'[d].kind \in {"save", "adjust", "commit"},
                      calls'[d].no \notin excused
               PROVE  calls'[d].sent = calls'[d].meant
    BY <1>2 DEF SentOK
  <2> QED BY <1>1, <1>3 DEF SentOK
<1>8. ASSUME NEW d \in Calls, NEW f PROVE Saves(d, f)' <=> Saves(d, f)
  BY <1>3 DEF Saves
<1>9. ASSUME NEW f \in Forms PROVE FormOK(f)'
  <2>1. FormOK(f)
    BY <1>1 DEF FormsOK
  <2>2. ASSUME NEW d \in Calls
        PROVE  /\ calls'[d].at = "sent" => calls[d].at = "sent"
               /\ calls[d].at \in {"served", "listing"} => calls'[d].at \in {"served", "listing"}
               /\ calls'[d].sent = calls[d].sent
    BY <1>3
  <2> QED BY <2>1, <2>2, <1>2, <1>8 DEF FormOK
<1>10. ScreenOK'
  <2>1. Busy("preview") => Busy("preview")'
    BY <1>3 DEF Busy
  <2>2. ChosenOK' /\ DividendsOK'
    BY <2>1, <1>1, <1>2 DEF ScreenOK, ChosenOK, DividendsOK
  <2>3. ImportOK'
    BY <1>1, <1>2, <1>3 DEF ScreenOK, ImportOK
  <2> QED BY <2>2, <2>3 DEF ScreenOK
<1> QED BY <1>5, <1>6, <1>7, <1>9, <1>10 DEF EntryInv, FormsOK

(* What a handler that ends leaves of a screen whose form and rows stay.   *)
LEMMA DoneScreenOK ==
  ASSUME EntryConstantsOK, EntryInv, NEW c \in Calls,
         calls'[c] = Free, \A d \in Calls \ {c} : calls'[d] = calls[d],
         excused \subseteq excused', mounted' = mounted, form' = form, chosen' = chosen,
         previewed' = previewed, panel' \in {panel, 0}, view' \in {view, "list"},
         \A d \in Calls \ {c} :
           calls[d].kind = "preview" /\ form.no \notin excused' => loading' = loading,
         view = "dividends" /\ form.no \notin excused' => calls[c].kind # "preview"
  PROVE  ScreenOK'
<1>1. ScreenOK
  BY DEF EntryInv
<1>2. ChosenOK'
  BY <1>1 DEF ScreenOK, ChosenOK
<1>3. DividendsOK'
  <2> SUFFICES ASSUME view' = "dividends"
               PROVE  /\ panel' = 0 /\ form.inst <= MaxInstruments
                      /\ form.no \notin excused' /\ previewed \notin {0, form.inst} =>
                           loading' /\ Busy("preview")'
    BY DEF DividendsOK
  <2>1. view = "dividends" /\ panel' = 0 /\ form.inst <= MaxInstruments
    BY <1>1 DEF ScreenOK, DividendsOK
  <2>2. ASSUME form.no \notin excused', previewed \notin {0, form.inst}
        PROVE  loading' /\ Busy("preview")'
    <3>1. form.no \notin excused
      BY <2>2
    <3>2. loading /\ Busy("preview")
      BY <1>1, <2>1, <2>2, <3>1 DEF ScreenOK, DividendsOK
    <3>3. PICK q \in Calls : calls[q].kind = "preview"
      BY <3>2 DEF Busy
    <3>4. q # c
      BY <2>1, <2>2, <3>3
    <3> QED BY <2>2, <3>2, <3>3, <3>4 DEF Busy
  <2> QED BY <2>1, <2>2
<1>4. ImportOK'
  <2>1. Free.kind \notin Kinds
    BY DEF Free, EntryConstantsOK
  <2> SUFFICES ASSUME mounted = "import"
               PROVE  /\ view' = "list" /\ panel' = 0 /\ form.row = 0 /\ form.inst = 0
                      /\ chosen = Target(0, 0)
                      /\ form.no \notin excused' => previewed \in {0, form.no}
                      /\ \A d \in Calls :
                           /\ calls'[d].kind # "create"
                           /\ calls'[d].kind = "preview" => calls'[d].sent.inst = calls'[d].no
    BY DEF ImportOK
  <2>2. ImportOK
    BY <1>1 DEF ScreenOK
  <2>3. ASSUME NEW d \in Calls
        PROVE  /\ calls'[d].kind # "create"
               /\ calls'[d].kind = "preview" => calls'[d].sent.inst = calls'[d].no
    <3>1. CASE d = c
      BY <3>1, <2>1 DEF Kinds
    <3>2. CASE d # c
      BY <3>2, <2>2 DEF ImportOK
    <3> QED BY <3>1, <3>2
  <2> QED BY <2>2, <2>3 DEF ImportOK
<1> QED BY <1>2, <1>3, <1>4 DEF ScreenOK

LEMMA EndsOK ==
  ASSUME EntryConstantsOK, EntryInv, NEW c \in Calls,
         CsvCommitted(c) \/ Saved(c) \/ Adjusted(c) \/ Loaded(c) \/ Failed(c)
  PROVE  EntryInv'
<1>1. EntryTypeOK /\ HandlersOK /\ ScreenOK
  BY DEF EntryInv
<1>2. form.no \in 0..MaxForms /\ calls[c].no \in 0..MaxForms
  BY <1>1 DEF EntryTypeOK
(* Only Failed tells of too little.                                        *)
<1>3. PICK also \in SUBSET (0..MaxForms) :
        /\ Done(c, also)
        /\ calls[c].kind = "save" /\ calls[c].at \in {"served", "listing"} =>
             view' = "list" \/ calls[c].no \in also \cup {0}
        /\ calls[c].kind = "preview" => form.no \in also \cup {0}
  <2>1. CASE Failed(c)
    <3> DEFINE late == (calls[c].kind = "save" /\ calls[c].at \in {"served", "listing"})
                         \/ calls[c].kind = "preview"
               also == IF late THEN {calls[c].no, form.no} \ {0} ELSE {}
    <3>1. Done(c, also)
      BY <2>1 DEF Failed
    <3>2. also \in SUBSET (0..MaxForms)
      BY <1>2
    <3>3. late => calls[c].no \in also \cup {0} /\ form.no \in also \cup {0}
      OBVIOUS
    <3> HIDE DEF also
    <3> QED BY <3>1, <3>2, <3>3
  <2>2. CASE CsvCommitted(c) \/ Saved(c) \/ Adjusted(c) \/ Loaded(c)
    <3>1. Done(c, {}) /\ {} \in SUBSET (0..MaxForms)
      BY <2>2 DEF CsvCommitted, Saved, Adjusted, Loaded
    <3>2. calls[c].kind = "save" => view' = "list"
      BY <2>2 DEF CsvCommitted, Saved, Adjusted, Loaded
    <3>3. calls[c].kind # "preview"
      BY <2>2 DEF CsvCommitted, Saved, Adjusted, Loaded
    <3> QED BY <3>1, <3>2, <3>3
  <2> QED BY <2>1, <2>2
<1>4. /\ form' = form /\ chosen' = chosen /\ previewed' = previewed /\ panel' \in {panel, 0}
      /\ view' \in {view, "list"} /\ listed' \in {listed, made}
  BY DEF CsvCommitted, Saved, Adjusted, Loaded, Failed
<1>5. /\ calls'[c] = Free /\ \A d \in Calls \ {c} : calls'[d] = calls[d]
      /\ excused \cup also \subseteq excused' /\ excused' \subseteq 0..MaxForms
      /\ loading' \in BOOLEAN /\ made' = made /\ entered' = entered /\ mounted' = mounted
      /\ \A d \in Calls \ {c} :
           calls[d].kind = "preview" /\ form.no \notin excused' => loading' = loading
      /\ HandlersOK' /\ SentOK' /\ FormsOK'
  BY <1>3, <1>4, DoneOK
<1>6. EntryTypeOK'
  BY <1>1, <1>4, <1>5 DEF EntryTypeOK, HandlersOK, Handlers, EntryConstantsOK
<1>7. view = "dividends" /\ form.no \notin excused' => calls[c].kind # "preview"
  BY <1>1, <1>3, <1>5 DEF ScreenOK, ChosenOK
<1>8. ScreenOK'
  BY <1>4, <1>5, <1>7, DoneScreenOK
<1> QED BY <1>5, <1>6, <1>8 DEF EntryInv

LEMMA PreviewedOK ==
  ASSUME EntryConstantsOK, EntryInv, NEW c \in Calls, Previewed(c)
  PROVE  EntryInv'
<1>1. EntryTypeOK /\ HandlersOK /\ ScreenOK
  BY DEF EntryInv
<1> DEFINE other == calls[c].no # form.no \/ (view = "dividends" /\ calls[c].sent.inst # form.inst)
           also == IF other THEN {form.no} ELSE {}
<1>2. /\ calls[c].kind = "preview" /\ previewed' = calls[c].sent.inst /\ Done(c, also)
      /\ UNCHANGED <<view, listed, form, panel, chosen>>
  BY DEF Previewed
<1>3. also \in SUBSET (0..MaxForms)
  BY <1>1 DEF EntryTypeOK
<1>4. other => form.no \in also
  OBVIOUS
<1> HIDE DEF also
<1>5. /\ calls'[c] = Free /\ \A d \in Calls \ {c} : calls'[d] = calls[d]
      /\ excused \cup also \subseteq excused' /\ excused' \subseteq 0..MaxForms
      /\ loading' \in BOOLEAN /\ made' = made /\ entered' = entered /\ mounted' = mounted
      /\ HandlersOK' /\ SentOK' /\ FormsOK'
  BY <1>2, <1>3, DoneOK
<1>6. previewed' \in Nat
  BY <1>1, <1>2 DEF HandlersOK, Handlers
<1>7. EntryTypeOK'
  BY <1>1, <1>2, <1>5, <1>6 DEF EntryTypeOK, HandlersOK, Handlers
<1>8. ChosenOK'
  BY <1>1, <1>2, <1>5 DEF ScreenOK, ChosenOK
<1>9. DividendsOK'
  <2>1. view = "dividends" /\ form.no \notin excused' => previewed' = form.inst
    BY <1>2, <1>4, <1>5
  <2> QED BY <2>1, <1>1, <1>2 DEF ScreenOK, DividendsOK
<1>10. ImportOK'
  <2>1. Free.kind \notin Kinds
    BY DEF Free, EntryConstantsOK
  <2>2. mounted = "import" /\ form.no \notin excused' => previewed' = form.no
    BY <1>1, <1>2, <1>4, <1>5 DEF ScreenOK, ImportOK
  <2> SUFFICES ASSUME mounted = "import", NEW d \in Calls
               PROVE  /\ calls'[d].kind # "create"
                      /\ calls'[d].kind = "preview" => calls'[d].sent.inst = calls'[d].no
    BY <2>2, <1>1, <1>2, <1>5 DEF ScreenOK, ImportOK
  <2>3. CASE d = c
    BY <2>1, <2>3, <1>5 DEF Kinds
  <2>4. CASE d # c
    BY <2>4, <1>1, <1>5 DEF ScreenOK, ImportOK
  <2> QED BY <2>3, <2>4
<1> QED BY <1>5, <1>7, <1>8, <1>9, <1>10 DEF EntryInv, ScreenOK

LEMMA CreatedOK ==
  ASSUME EntryConstantsOK, EntryInv, NEW c \in Calls, Created(c)
  PROVE  EntryInv'
<1>1. EntryTypeOK /\ HandlersOK /\ ScreenOK
  BY DEF EntryInv
<1> DEFINE other == calls[c].no # form.no \/ form.inst # New
           also == IF other THEN {form.no} ELSE {}
           inst == calls[c].sent.inst
<1>2. /\ calls[c].kind = "create" /\ calls[c].at = "listing" /\ Done(c, also)
      /\ form' = [form EXCEPT !.inst = inst] /\ listed' = made
      /\ chosen' = IF chosen.inst = New THEN [chosen EXCEPT !.inst = inst] ELSE chosen
      /\ UNCHANGED <<view, panel, previewed>>
  BY DEF Created
<1>3. also \in SUBSET (0..MaxForms)
  BY <1>1 DEF EntryTypeOK
<1>4. other => form.no \in also
  OBVIOUS
<1>5. inst \in 1..MaxInstruments /\ inst \in 0..New
  BY <1>1, <1>2 DEF HandlersOK, New, EntryConstantsOK
<1> HIDE DEF also, inst
<1>6. /\ form'.no = form.no /\ form'.row = form.row /\ form'.inst = inst
      /\ form' \in [no : 0..MaxForms, row : 0..1, inst : 0..New]
      /\ chosen' \in [row : 0..1, inst : 0..New]
      /\ chosen.inst = New => chosen' = Target(chosen.row, inst)
  BY <1>1, <1>2, <1>5 DEF EntryTypeOK, Target
<1>7. /\ calls'[c] = Free /\ \A d \in Calls \ {c} : calls'[d] = calls[d]
      /\ excused \cup also \subseteq excused' /\ excused' \subseteq 0..MaxForms
      /\ loading' \in BOOLEAN /\ made' = made /\ entered' = entered /\ mounted' = mounted
      /\ HandlersOK' /\ SentOK' /\ FormsOK'
  BY <1>2, <1>3, <1>6, DoneOK
<1>8. EntryTypeOK'
  BY <1>1, <1>2, <1>6, <1>7 DEF EntryTypeOK, HandlersOK, Handlers, EntryConstantsOK
<1>9. mounted # "import"
  BY <1>1, <1>2 DEF ScreenOK, ImportOK
<1>10. ASSUME form.no \notin excused'
       PROVE  form.inst = New /\ chosen = Target(form.row, form.inst) /\ panel = 0
  <2>1. form.inst = New /\ form.no \notin excused
    BY <1>4, <1>7, <1>10
  <2>2. chosen = Target(form.row, form.inst) /\ (panel # 0 => panel = form.inst)
    BY <2>1, <1>1 DEF ScreenOK, ChosenOK
  <2>3. panel \in 0..MaxInstruments
    BY <1>1 DEF EntryTypeOK
  <2> QED BY <2>1, <2>2, <2>3 DEF New, EntryConstantsOK
<1>11. ChosenOK'
  <2>1. form.no \notin excused' => chosen' = Target(form.row, inst)
    BY <1>6, <1>10 DEF Target
  <2> QED BY <2>1, <1>1, <1>2, <1>6, <1>10 DEF ScreenOK, ChosenOK
<1>12. DividendsOK'
  <2>1. view = "dividends" => form.inst # New /\ panel = 0
    BY <1>1 DEF ScreenOK, DividendsOK, New, EntryConstantsOK
  <2> QED BY <2>1, <1>2, <1>5, <1>6, <1>10 DEF DividendsOK
<1> QED BY <1>7, <1>8, <1>9, <1>11, <1>12 DEF EntryInv, ScreenOK, ImportOK

-----------------------------------------------------------------------------
LEMMA EntryInitOK ==
  ASSUME EntryConstantsOK, EntryInit
  PROVE  EntryInv
<1>1. /\ made = 1 /\ entered = [f \in Forms |-> 0]
      /\ mounted \in {"transactions", "projections", "import"}
      /\ view = "list" /\ listed = 0 /\ panel = 0 /\ previewed = 0
      /\ form = [no |-> 0, row |-> 0, inst |-> 0] /\ chosen = Target(0, 0)
      /\ loading = (mounted = "projections") /\ excused = {}
  BY DEF EntryInit
<1> DEFINE load == [Free EXCEPT !.kind = "load", !.at = "listing"]
<1>2. PICK c \in Calls : calls = [q \in Calls |-> IF q = c THEN load ELSE Free]
  BY DEF EntryInit
<1>3. Free \in Handlers /\ load \in Handlers /\ load.kind = "load" /\ load.no = 0 /\ Free.no = 0
      /\ Free.kind \notin Kinds
  BY FreeTyped DEF Handlers, Kinds, Free, EntryConstantsOK
<1> HIDE DEF load
<1>4. calls \in [Calls -> Handlers]
  BY <1>2, <1>3
<1>5. \A q \in Calls : calls[q].no = 0 /\ calls[q].kind \notin (Kinds \ {"load"})
  BY <1>2, <1>3
<1>6. EntryTypeOK
  BY <1>1, <1>4 DEF EntryTypeOK, Handlers, New, Target, EntryConstantsOK
<1>7. HandlersOK
  BY <1>1, <1>4, <1>5 DEF HandlersOK, Kinds
<1>8. ScreenOK
  BY <1>1, <1>5 DEF ScreenOK, ChosenOK, DividendsOK, ImportOK, Kinds
<1>9. SentOK
  BY <1>5 DEF SentOK, Kinds
<1>10. FormsOK
  BY <1>1, <1>5 DEF FormsOK, FormOK, Saves, Kinds
<1> QED BY <1>6, <1>7, <1>8, <1>9, <1>10 DEF EntryInv

LEMMA EntryStutterOK ==
  ASSUME EntryInv, UNCHANGED entryVars
  PROVE  EntryInv'
<1>1. /\ UNCHANGED <<made, entered, mounted, view, listed, form, panel>>
      /\ UNCHANGED <<previewed, loading, chosen, calls, excused>>
  BY DEF entryVars
<1>2. EntryTypeOK' /\ HandlersOK' /\ SentOK'
  BY <1>1 DEF EntryInv, EntryTypeOK, HandlersOK, SentOK
<1>3. ScreenOK'
  BY <1>1 DEF EntryInv, ScreenOK, ChosenOK, DividendsOK, ImportOK, Busy
<1>4. FormsOK'
  <2> SUFFICES ASSUME NEW f \in Forms PROVE FormOK(f)'
    BY DEF FormsOK
  <2>1. FormOK(f)
    BY DEF EntryInv, FormsOK
  <2> QED BY <2>1, <1>1 DEF FormOK, Saves
<1> QED BY <1>2, <1>3, <1>4 DEF EntryInv

LEMMA EntryNextOK ==
  ASSUME EntryConstantsOK
  PROVE  EntryInv /\ [EntryNext]_entryVars => EntryInv'
<1> SUFFICES ASSUME EntryInv, [EntryNext]_entryVars PROVE EntryInv'
  OBVIOUS
<1>1. CASE OpenAdd \/ OpenEdit \/ OpenImportDividends \/ Back
  BY <1>1, OpensOK, BackOK
<1>2. CASE OnCsvChange \/ ChangeMapping \/ ChooseInstrument \/ OpenEditInst
  BY <1>2, CsvOK, ChooseOK
<1>3. ASSUME NEW c \in Calls,
             \/ CreateInstrument(c) \/ SaveEditInst(c) \/ Save(c) \/ Remove(c)
             \/ PreviewDividends(c) \/ CommitDividends(c) \/ PreviewCsv(c) \/ CommitCsv(c)
      PROVE  EntryInv'
  BY <1>3, CreatesOK, AdjustsOK, SaveOK, PreviewDividendsOK, CommitDividendsOK, CsvSendsOK
<1>4. ASSUME NEW c \in Calls,
             \/ Serve(c) \/ Answered(c) \/ Previewed(c) \/ CsvCommitted(c)
             \/ Created(c) \/ Saved(c) \/ Adjusted(c) \/ Loaded(c) \/ Failed(c)
      PROVE  EntryInv'
  BY <1>4, ServeOK, AnsweredOK, PreviewedOK, CreatedOK, EndsOK
<1>5. CASE UNCHANGED entryVars
  BY <1>5, EntryStutterOK
<1> QED BY <1>1, <1>2, <1>3, <1>4, <1>5 DEF EntryNext

(* The inductive invariant: it adds to the invariants what the open form   *)
(* and the handlers under way know of each other.                          *)
THEOREM EntryInvariant ==
  ASSUME EntryConstantsOK
  PROVE  EntrySpec => []EntryInv
<1>1. EntryInit => EntryInv
  BY EntryInitOK
<1>2. EntryInv /\ [EntryNext]_entryVars => EntryInv'
  BY EntryNextOK
<1> QED BY <1>1, <1>2, PTL DEF EntrySpec

(* Types: the form, the lists and the handlers stay of their kinds.        *)
THEOREM EntryTypeCorrect ==
  ASSUME EntryConstantsOK
  PROVE  EntrySpec => []EntryTypeOK
<1>1. EntryInv => EntryTypeOK
  BY DEF EntryInv
<1> QED BY <1>1, EntryInvariant, PTL

(* Transactions.svelte, ImportExport.svelte and Projections.svelte: what   *)
(* is sent is what was opened, chosen and shown, and a form makes one row, *)
(* for any number of handlers waiting.                                     *)
THEOREM AlwaysRecordedAsEntered ==
  ASSUME EntryConstantsOK
  PROVE  EntrySpec => []RecordedAsEntered
<1>1. EntryInv => RecordedAsEntered
  BY DEF EntryInv, SentOK, FormsOK, FormOK, RecordedAsEntered
<1> QED BY <1>1, EntryInvariant, PTL

-----------------------------------------------------------------------------
(* ReportScreens: the inductive invariant. *)

TaskSet ==
  [kind : Tasks \cup {None}, of : {0} \cup Choices \cup Rows,
   as : {None} \cup (0..MaxData) \cup SUBSET Rows, older : BOOLEAN, after : BOOLEAN]

(* An answer is no newer than the data; a load is for a choice.            *)
TaskOK(c) ==
  /\ calls[c].kind # "history" => calls[c].as = None \/ calls[c].as \in 0..data
  /\ calls[c].kind = "load" => calls[c].of \in {0} \cup Choices
  /\ calls[c].kind = "badge" => calls[c].older

TasksOK == calls \in [Calls -> TaskSet] /\ \A c \in Calls : TaskOK(c)

Newest(c) == calls[c].kind = "load" /\ ~calls[c].older

(* The last load sent is for the choice on the screen, and its answer, if  *)
(* there is one, as new as any operation that was answered.                *)
NewestOK ==
  \A c \in Calls :
    Newest(c) =>
      /\ typed \/ calls[c].of = selected
      /\ calls[c].as # None => calls[c].as >= known

Loads == \E c \in Calls : calls[c].kind = "load"

UpToDate ==
  /\ \A p \in Parts : shown[p].as >= known /\ (typed \/ shown[p].of = selected)
  /\ mounted = "backups" => badge >= known

(* Unless a newer load is on its way.                                      *)
CurrentOK == current => UpToDate \/ \E c \in Calls : Newest(c)

RowsOK ==
  /\ \A r \in Rows \ crossed : r \in open <=> r \in wanted
  /\ \A c \in Calls : \A r \in Rows : History(c, r) => r \in crossed \/ (r \in open /\ r \in wanted)

ReportInv ==
  ReportTypeOK /\ TasksOK /\ NewestOK /\ CurrentOK /\ RowsOK /\ (loading => Loads)

-----------------------------------------------------------------------------
(* ReportScreens: lemmas about the handlers under way.                     *)

LEMMA IdleTyped ==
  ASSUME ReportConstantsOK
  PROVE  Idle \in TaskSet /\ Idle.kind = None /\ Idle.as = None /\ None \notin Tasks
BY DEF Idle, TaskSet, ReportConstantsOK

(* One handler changes.                                                    *)
LEMMA Put ==
  ASSUME TasksOK, NEW c \in Calls, NEW t \in TaskSet, calls' = [calls EXCEPT ![c] = t]
  PROVE  /\ calls' \in [Calls -> TaskSet] /\ calls'[c] = t
         /\ \A q \in Calls \ {c} : calls'[q] = calls[q]
BY DEF TasksOK

(* The newest load is the one just sent; histories are left alone.         *)
LEMMA LoadSent ==
  ASSUME ReportConstantsOK, TasksOK, NEW c \in Calls, NEW x \in {0} \cup Choices,
         NEW after \in BOOLEAN, calls[c].kind # "history", data' = data,
         NEW twins \in SUBSET (Calls \ {c}), \A q \in twins : calls[q] = Idle,
         SendLoads(c, twins, x, after)
  PROVE  /\ TasksOK' /\ Loads' /\ loading' \in BOOLEAN
         /\ \A q \in Calls : Newest(q)' <=> q = c
         /\ calls'[c].of = x /\ calls'[c].as = None
         /\ \A q \in Calls, r \in Rows : History(q, r)' <=> History(q, r)
<1> DEFINE new == [Idle EXCEPT !.kind = "load", !.of = x, !.after = after]
           twin == [Idle EXCEPT !.kind = "load", !.of = x, !.older = TRUE]
<1>1. new \in TaskSet /\ new.kind = "load" /\ new.of = x /\ new.as = None /\ new.older = FALSE
  BY IdleTyped DEF Idle, TaskSet, Tasks
<1>t. twin \in TaskSet /\ twin.kind = "load" /\ twin.of = x /\ twin.as = None /\ twin.older = TRUE
  BY IdleTyped DEF Idle, TaskSet, Tasks
<1>2. \A q \in Calls : [calls[q] EXCEPT !.older = TRUE] \in TaskSet
  BY DEF TasksOK, TaskSet
<1>3. /\ calls' = [q \in Calls |->
                     IF q = c THEN new ELSE IF q \in twins THEN twin
                     ELSE IF calls[q].kind \in {"load", "badge"} THEN [calls[q] EXCEPT !.older = TRUE]
                     ELSE calls[q]]
      /\ loading' = (mounted # "backups")
  BY DEF SendLoads
<1> HIDE DEF new, twin
<1>4. calls' \in [Calls -> TaskSet] /\ calls'[c] = new
  BY <1>1, <1>t, <1>2, <1>3 DEF TasksOK
<1>w. \A q \in twins : calls'[q] = twin /\ calls[q].kind = None
  BY <1>3, IdleTyped
<1>5. \A q \in Calls \ ({c} \cup twins) :
        /\ calls'[q].kind = calls[q].kind /\ calls'[q].of = calls[q].of /\ calls'[q].as = calls[q].as
        /\ calls'[q].kind \in {"load", "badge"} => calls'[q].older
  <2> SUFFICES ASSUME NEW q \in Calls \ ({c} \cup twins)
               PROVE  /\ calls'[q].kind = calls[q].kind /\ calls'[q].of = calls[q].of /\ calls'[q].as = calls[q].as
                      /\ calls'[q].kind \in {"load", "badge"} => calls'[q].older
    OBVIOUS
  <2>1. calls[q] \in TaskSet
    BY DEF TasksOK
  <2>2. CASE calls[q].kind \in {"load", "badge"}
    <3>1. calls'[q] = [calls[q] EXCEPT !.older = TRUE]
      BY <1>3, <2>2
    <3> QED BY <2>1, <3>1 DEF TaskSet
  <2>3. CASE calls[q].kind \notin {"load", "badge"}
    <3>1. calls'[q] = calls[q]
      BY <1>3, <2>3
    <3> QED BY <2>3, <3>1
  <2> QED BY <2>2, <2>3
<1>6. \A q \in Calls : TaskOK(q)'
  <2>1. TaskOK(c)'
    BY <1>1, <1>4 DEF TaskOK
  <2>2. ASSUME NEW q \in twins PROVE TaskOK(q)'
    BY <1>t, <1>w DEF TaskOK
  <2>3. ASSUME NEW q \in Calls \ ({c} \cup twins) PROVE TaskOK(q)'
    BY <1>5 DEF TaskOK, TasksOK
  <2> QED BY <2>1, <2>2, <2>3
<1>7. \A q \in Calls : Newest(q)' <=> q = c
  BY <1>1, <1>t, <1>4, <1>5, <1>w DEF Newest
<1>8. \A q \in Calls, r \in Rows : History(q, r)' <=> History(q, r)
  <2>1. None # "history"
    BY DEF ReportConstantsOK, Tasks
  <2> QED BY <1>1, <1>t, <1>4, <1>5, <1>w, <2>1 DEF History
<1> QED BY <1>1, <1>3, <1>4, <1>6, <1>7, <1>8 DEF TasksOK, Loads

(* A handler begins or ends something that is no load.                     *)
LEMMA NoLoadPut ==
  ASSUME ReportConstantsOK, TasksOK, NEW c \in Calls, NEW t \in TaskSet,
         calls' = [calls EXCEPT ![c] = t], data' = data,
         calls[c].kind # "load", t.kind \notin {"load", "badge"},
         t.kind # "history" => t.as = None
  PROVE  /\ TasksOK' /\ (Loads <=> Loads')
         /\ \A q \in Calls : Newest(q)' <=> Newest(q)
         /\ \A q \in Calls : Newest(q) => calls'[q] = calls[q]
         /\ \A q \in Calls \ {c} : calls'[q] = calls[q]
<1>1. /\ calls' \in [Calls -> TaskSet] /\ calls'[c] = t
      /\ \A q \in Calls \ {c} : calls'[q] = calls[q]
  BY Put
<1>2. \A q \in Calls : TaskOK(q)'
  BY <1>1 DEF TasksOK, TaskOK
<1> QED BY <1>1, <1>2 DEF TasksOK, Newest, Loads

-----------------------------------------------------------------------------
(* ReportScreens: each action keeps the invariant.                         *)

(* Whatever it was sent for, a load that belongs to the choice.            *)
LEMMA LoadKeeps ==
  ASSUME ReportConstantsOK, ReportInv, NEW c \in Calls, NEW x \in {0} \cup Choices,
         NEW after \in BOOLEAN, calls[c].kind # "history",
         NEW twins \in SUBSET (Calls \ {c}), \A q \in twins : calls[q] = Idle,
         SendLoads(c, twins, x, after), selected' = x, typed' \in BOOLEAN, known' \in 0..data,
         UNCHANGED <<mounted, data, shown, badge, current, open, wanted, crossed>>
  PROVE  ReportInv'
<1>1. /\ TasksOK' /\ Loads' /\ loading' \in BOOLEAN
      /\ \A q \in Calls : Newest(q)' <=> q = c
      /\ calls'[c].of = x /\ calls'[c].as = None
      /\ \A q \in Calls, r \in Rows : History(q, r)' <=> History(q, r)
  BY LoadSent DEF ReportInv
<1>2. \A q \in Calls : calls'[q] \in TaskSet
  BY <1>1 DEF TasksOK
<1>3. ReportTypeOK'
  BY <1>1, <1>2 DEF ReportTypeOK, ReportInv, TaskSet
<1>4. NewestOK'
  BY <1>1 DEF NewestOK
<1>5. CurrentOK'
  BY <1>1 DEF CurrentOK
<1>6. RowsOK'
  BY <1>1 DEF RowsOK, ReportInv
<1> QED BY <1>1, <1>3, <1>4, <1>5, <1>6 DEF ReportInv

LEMMA SendsKeep ==
  ASSUME ReportConstantsOK, ReportInv, NEW c \in Calls,
         SelectTax(c) \/ SelectChart(c) \/ Operated(c)
  PROVE  ReportInv'
<1>1. known \in 0..data /\ data \in Nat /\ selected \in {0} \cup Choices /\ typed \in BOOLEAN /\ TasksOK
  BY DEF ReportInv, ReportTypeOK, ReportConstantsOK
<1>2. ASSUME NEW x \in Choices, Selected(c, x) PROVE ReportInv'
  <2>1. calls[c].kind # "history"
    BY <1>2, IdleTyped DEF Selected, Tasks
  <2>2. /\ Load(c, x, FALSE) /\ selected' = x /\ typed' = FALSE
        /\ UNCHANGED <<mounted, data, known, shown, badge, current, open, wanted, crossed>>
    BY <1>2 DEF Selected, Choice
  <2> DEFINE twins == {}
  <2>3. twins \in SUBSET (Calls \ {c}) /\ (\A q \in twins : calls[q] = Idle) /\ SendLoads(c, twins, x, FALSE)
    BY <2>2 DEF Load
  <2>4. x \in {0} \cup Choices /\ typed' \in BOOLEAN /\ known' \in 0..data
    BY <1>1, <2>2
  <2> HIDE DEF twins
  <2> QED BY <2>1, <2>2, <2>3, <2>4, LoadKeeps
<1>3. CASE Operated(c)
  <2> DEFINE after == calls[c].kind = "operation"
  <2>1. /\ calls[c].kind # "history" /\ Load(c, selected, after)
        /\ known' = IF calls[c].as > known THEN calls[c].as ELSE known
        /\ calls[c].as # None /\ after \in BOOLEAN
        /\ UNCHANGED <<mounted, data, selected, typed, shown, badge, current, open, wanted, crossed>>
    BY <1>3 DEF Operated
  <2>2. calls[c].as \in 0..data
    BY <1>1, <2>1 DEF TasksOK, TaskOK
  <2>3. known' \in 0..data
    BY <1>1, <2>1, <2>2
  <2> HIDE DEF after
  <2> DEFINE twins == {}
  <2>4. twins \in SUBSET (Calls \ {c}) /\ (\A q \in twins : calls[q] = Idle)
        /\ SendLoads(c, twins, selected, after)
    BY <2>1 DEF Load
  <2>5. typed' \in BOOLEAN
    BY <1>1, <2>1
  <2> HIDE DEF twins
  <2> QED BY <1>1, <2>1, <2>3, <2>4, <2>5, LoadKeeps
<1> QED BY <1>2, <1>3 DEF SelectTax, SelectChart

(* Whatever begins or ends and is no load; the rows are the caller's.      *)
LEMMA NoLoadKeeps ==
  ASSUME ReportConstantsOK, ReportInv, NEW c \in Calls, NEW t \in TaskSet,
         calls' = [calls EXCEPT ![c] = t],
         calls[c].kind # "load", t.kind \notin {"load", "badge"},
         t.kind # "history" => t.as = None,
         UNCHANGED <<mounted, data, known, selected, typed, shown, badge, loading, current>>,
         open' \subseteq Rows, wanted' \subseteq Rows, crossed' \subseteq Rows, RowsOK'
  PROVE  ReportInv'
<1>1. /\ TasksOK' /\ (Loads <=> Loads')
      /\ \A q \in Calls : Newest(q)' <=> Newest(q)
      /\ \A q \in Calls : Newest(q) => calls'[q] = calls[q]
  BY NoLoadPut DEF ReportInv
<1>2. \A q \in Calls : calls'[q] \in TaskSet
  BY <1>1 DEF TasksOK
<1>3. ReportTypeOK'
  BY <1>2 DEF ReportTypeOK, ReportInv, TaskSet
<1>4. NewestOK'
  BY <1>1 DEF NewestOK, ReportInv
<1>5. CurrentOK'
  BY <1>1 DEF CurrentOK, UpToDate, ReportInv
<1> QED BY <1>1, <1>3, <1>4, <1>5 DEF ReportInv

LEMMA StartKeeps ==
  ASSUME ReportConstantsOK, ReportInv, NEW c \in Calls, NEW kind \in {"operation", "export", "cancel"},
         Start(c, kind)
  PROVE  ReportInv'
<1> DEFINE t == [Idle EXCEPT !.kind = kind]
<1>1. t \in TaskSet /\ t.kind = kind /\ t.as = None
  BY IdleTyped DEF Idle, TaskSet, Tasks
<1>2. /\ calls[c] = Idle /\ calls' = [calls EXCEPT ![c] = t]
      /\ UNCHANGED <<mounted, data, known, selected, typed, shown, badge, loading, current, open, wanted, crossed>>
  BY DEF Start
<1> HIDE DEF t
<1>3. /\ calls'[c] = t
      /\ \A q \in Calls \ {c} : calls'[q] = calls[q]
  BY <1>1, <1>2, Put DEF ReportInv
<1>4. RowsOK'
  BY <1>1, <1>2, <1>3 DEF RowsOK, History, ReportInv
<1>5. calls[c].kind # "load"
  BY <1>2, IdleTyped DEF Tasks
<1> QED BY <1>1, <1>2, <1>4, <1>5, NoLoadKeeps DEF ReportInv, ReportTypeOK

LEMMA EndKeeps ==
  ASSUME ReportConstantsOK, ReportInv, NEW c \in Calls, calls[c].kind # "load",
         calls' = [calls EXCEPT ![c] = Idle],
         UNCHANGED <<mounted, data, known, selected, typed, shown, badge, loading, current, wanted, crossed>>,
         open' \subseteq Rows, \A r \in Rows : (r \in open' <=> r \in open) \/ History(c, r),
         \A r \in Rows : r \in open => r \in open'
  PROVE  ReportInv'
<1>1. Idle \in TaskSet /\ Idle.kind = None /\ Idle.as = None /\ None \notin Tasks
  BY IdleTyped
<1>2. /\ calls'[c] = Idle
      /\ \A q \in Calls \ {c} : calls'[q] = calls[q]
  BY <1>1, Put DEF ReportInv
<1>3. RowsOK'
  BY <1>1, <1>2 DEF RowsOK, History, ReportInv, Tasks
<1> QED BY <1>1, <1>3, NoLoadKeeps DEF ReportInv, ReportTypeOK, Tasks

LEMMA YearsKeep ==
  ASSUME ReportConstantsOK, ReportInv, NEW c \in Calls, YearsKnown(c)
  PROVE  ReportInv'
<1>1. /\ calls[c].kind = "years"
      /\ UNCHANGED <<mounted, data, known, typed, shown, badge, current, open, wanted, crossed>>
  BY DEF YearsKnown
<1>2. ASSUME NEW twins \in SUBSET (Calls \ {c}), \A q \in twins : calls[q] = Idle,
             selected' \in Choices, SendLoads(c, twins, selected', FALSE)
      PROVE  ReportInv'
  <2> DEFINE x == selected'
  <2>1. x \in {0} \cup Choices /\ SendLoads(c, twins, x, FALSE) /\ selected' = x
    BY <1>2
  <2>2. known' \in 0..data /\ typed' \in BOOLEAN
    BY <1>1 DEF ReportInv, ReportTypeOK
  <2> HIDE DEF x
  <2> QED BY <1>1, <1>2, <2>1, <2>2, LoadKeeps
<1>3. CASE calls' = [calls EXCEPT ![c] = Idle] /\ UNCHANGED <<selected, loading>>
  BY <1>1, <1>3, EndKeeps DEF ReportInv, ReportTypeOK
<1>4. CASE selected' \in Choices /\ Load(c, selected', FALSE)
  <2> DEFINE twins == {}
  <2>1. twins \in SUBSET (Calls \ {c}) /\ (\A q \in twins : calls[q] = Idle)
        /\ SendLoads(c, twins, selected', FALSE)
    BY <1>4 DEF Load
  <2> HIDE DEF twins
  <2> QED BY <1>2, <1>4, <2>1
<1>5. ASSUME NEW d \in Calls \ {c}, calls[d] = Idle, selected' \in Choices,
             SendLoads(c, {d}, selected', FALSE)
      PROVE  ReportInv'
  <2> DEFINE twins == {d}
  <2>1. twins \in SUBSET (Calls \ {c}) /\ (\A q \in twins : calls[q] = Idle)
        /\ SendLoads(c, twins, selected', FALSE)
    BY <1>5
  <2> HIDE DEF twins
  <2> QED BY <1>2, <1>5, <2>1
<1> QED BY <1>3, <1>4, <1>5 DEF YearsKnown

LEMMA OperationsKeep ==
  ASSUME ReportConstantsOK, ReportInv, NEW c \in Calls,
         \/ RunEngine(c) \/ RefreshPrices(c) \/ ChangeBackups(c) \/ ImportArchive(c)
         \/ ExportArchive(c) \/ CancelRestore(c) \/ Exported(c)
  PROVE  ReportInv'
<1>1. CASE Exported(c)
  BY <1>1, EndKeeps DEF Exported, ReportInv, ReportTypeOK
<1>2. ASSUME NEW kind \in {"operation", "export", "cancel"}, Start(c, kind) PROVE ReportInv'
  BY <1>2, StartKeeps
<1> QED BY <1>1, <1>2 DEF RunEngine, RefreshPrices, ChangeBackups, ImportArchive, Operation,
                          ExportArchive, CancelRestore

LEMMA HistoriesKeep ==
  ASSUME ReportConstantsOK, ReportInv, NEW c \in Calls, NEW r \in Rows,
         OpenHistory(c, r) \/ HistoryLanded(c, r) \/ HistoryFailed(c, r)
  PROVE  ReportInv'
<1>1. CASE OpenHistory(c, r)
  <2> DEFINE t == [Idle EXCEPT !.kind = "history", !.of = r, !.as = open']
  <2>1. /\ r \notin open /\ calls[c] = Idle /\ open' = open \cup {r} /\ wanted' = wanted \cup {r}
        /\ calls' = [calls EXCEPT ![c] = t]
        /\ UNCHANGED <<mounted, data, known, selected, typed, shown, badge, loading, current, crossed>>
    BY <1>1 DEF OpenHistory
  <2>2. open' \subseteq Rows /\ wanted' \subseteq Rows /\ crossed' \subseteq Rows
    BY <2>1 DEF ReportInv, ReportTypeOK
  <2>3. t \in TaskSet /\ t.kind = "history" /\ t.of = r
    BY <2>2, IdleTyped DEF Idle, TaskSet, Tasks
  <2> HIDE DEF t
  <2>4. /\ calls'[c] = t
        /\ \A q \in Calls \ {c} : calls'[q] = calls[q]
    BY <2>1, <2>3, Put DEF ReportInv
  <2>5. RowsOK'
    BY <2>1, <2>3, <2>4 DEF RowsOK, History, ReportInv
  <2>6. calls[c].kind # "load"
    BY <2>1, IdleTyped DEF Tasks
  <2> QED BY <2>1, <2>2, <2>3, <2>5, <2>6, NoLoadKeeps
<1>2. CASE HistoryLanded(c, r)
  BY <1>2, EndKeeps DEF HistoryLanded, OpenRows, History, ReportInv, ReportTypeOK
<1>3. CASE HistoryFailed(c, r)
  BY <1>3, EndKeeps DEF HistoryFailed, History, ReportInv, ReportTypeOK
<1> QED BY <1>1, <1>2, <1>3

LEMMA CloseKeeps ==
  ASSUME ReportInv, NEW r \in Rows, CloseHistory(r)
  PROVE  ReportInv'
<1>1. /\ open' = open \ {r} /\ wanted' = wanted \ {r}
      /\ crossed' = IF \E c \in Calls : History(c, r) THEN crossed \cup {r} ELSE crossed
      /\ UNCHANGED <<mounted, data, known, selected, typed, shown, badge, loading, current, calls>>
  BY DEF CloseHistory
<1>2. RowsOK'
  BY <1>1 DEF RowsOK, History, ReportInv
<1>3. ReportTypeOK'
  BY <1>1 DEF ReportTypeOK, ReportInv
<1> QED BY <1>1, <1>2, <1>3 DEF ReportInv, TasksOK, TaskOK, NewestOK, Newest, CurrentOK, UpToDate, Loads

LEMMA TypeIncomeKeeps ==
  ASSUME ReportInv, TypeIncome
  PROVE  ReportInv'
<1>1. /\ selected' \in Choices /\ typed' = TRUE
      /\ UNCHANGED <<mounted, data, known, shown, badge, loading, current, open, wanted, crossed, calls>>
  BY DEF TypeIncome
<1>2. ReportTypeOK'
  BY <1>1 DEF ReportTypeOK, ReportInv
<1> QED BY <1>1, <1>2 DEF ReportInv, TasksOK, TaskOK, NewestOK, Newest, CurrentOK, UpToDate, Loads, RowsOK, History

(* The server's answer is as new as its data.                              *)
LEMMA ComputeKeeps ==
  ASSUME ReportConstantsOK, ReportInv, NEW c \in Calls, Compute(c)
  PROVE  ReportInv'
<1> DEFINE t == [calls[c] EXCEPT !.as = data']
<1>1. /\ data' \in 0..MaxData /\ data' >= data /\ calls' = [calls EXCEPT ![c] = t]
      /\ UNCHANGED <<mounted, known, selected, typed, shown, badge, loading, current, open, wanted, crossed>>
  BY DEF Compute, ReportInv, ReportTypeOK, ReportConstantsOK
<1>2. /\ t \in TaskSet /\ t.kind = calls[c].kind /\ t.of = calls[c].of /\ t.older = calls[c].older
      /\ t.as = data'
  BY <1>1 DEF TasksOK, TaskSet, ReportInv
<1> HIDE DEF t
<1>3. /\ calls' \in [Calls -> TaskSet] /\ calls'[c] = t
      /\ \A q \in Calls \ {c} : calls'[q] = calls[q]
  BY <1>1, <1>2, Put DEF ReportInv
<1>4. data \in Nat /\ known \in 0..data /\ badge \in 0..data /\ MaxData \in Nat
  BY DEF ReportInv, ReportTypeOK, ReportConstantsOK
<1>5. TasksOK'
  <2> SUFFICES ASSUME NEW q \in Calls PROVE TaskOK(q)'
    BY <1>3 DEF TasksOK
  <2>1. TaskOK(q)
    BY DEF ReportInv, TasksOK
  <2> QED BY <1>1, <1>2, <1>3, <1>4, <2>1 DEF TaskOK
<1>6. ReportTypeOK'
  <2>1. \A q \in Calls : calls'[q] \in TaskSet
    BY <1>3
  <2>2. shown' \in [Parts -> [of : {0} \cup Choices, as : 0..data']]
    BY <1>1, <1>4 DEF ReportTypeOK, ReportInv
  <2> QED BY <1>1, <1>4, <2>1, <2>2 DEF ReportTypeOK, ReportInv, TaskSet
<1>7. \A q \in Calls : Newest(q)' <=> Newest(q)
  BY <1>2, <1>3 DEF Newest
<1>8. NewestOK'
  BY <1>1, <1>2, <1>3, <1>4, <1>7 DEF NewestOK, ReportInv
<1>9. CurrentOK'
  BY <1>1, <1>7 DEF CurrentOK, UpToDate, ReportInv
<1>10. RowsOK'
  BY <1>1, <1>2, <1>3 DEF RowsOK, History, ReportInv
<1>11. Loads' <=> Loads
  BY <1>2, <1>3 DEF Loads
<1> QED BY <1>1, <1>5, <1>6, <1>8, <1>9, <1>10, <1>11 DEF ReportInv

(* The answer to a load: if it was the newest, the screen is up to date.   *)
LEMMA LandedKeeps ==
  ASSUME ReportConstantsOK, ReportInv, NEW c \in Calls, NEW good \in SUBSET Parts,
         NEW refused \in [Parts -> [of : {0} \cup Choices, as : 0..data]],
         Landed(c, good, refused), badge' \in 0..data,
         mounted = "backups" /\ good = Parts => badge' = calls[c].as
  PROVE  ReportInv'
<1>1. /\ calls[c].kind = "load" /\ calls[c].as # None
      /\ shown' = [p \in Parts |->
                     IF p \in good THEN [of |-> calls[c].of, as |-> calls[c].as] ELSE refused[p]]
      /\ current' = (~calls[c].older /\ good = Parts)
      /\ loading' = FALSE /\ calls' = [calls EXCEPT ![c] = Idle]
      /\ UNCHANGED <<mounted, data, known, selected, typed, open, wanted, crossed>>
  BY DEF Landed
<1>2. /\ Idle \in TaskSet /\ Idle.kind = None /\ Idle.as = None /\ None \notin Tasks
      /\ calls' \in [Calls -> TaskSet] /\ calls'[c] = Idle
      /\ \A q \in Calls \ {c} : calls'[q] = calls[q]
  BY <1>1, IdleTyped, Put DEF ReportInv
<1>3. calls[c].of \in {0} \cup Choices /\ calls[c].as \in 0..data /\ calls[c].older \in BOOLEAN
  BY <1>1 DEF ReportInv, ReportTypeOK, TasksOK, TaskOK
<1>4. TasksOK'
  BY <1>1, <1>2 DEF TasksOK, TaskOK, ReportInv, Tasks
<1>5. ReportTypeOK'
  <2>1. shown' \in [Parts -> [of : {0} \cup Choices, as : 0..data]]
    BY <1>1, <1>3
  <2>2. \A q \in Calls : calls'[q] \in TaskSet
    BY <1>2
  <2>3. current' \in BOOLEAN
    BY <1>1
  <2> QED BY <1>1, <2>1, <2>2, <2>3 DEF ReportTypeOK, ReportInv, TaskSet
<1>6. NewestOK'
  BY <1>1, <1>2 DEF NewestOK, Newest, ReportInv, Tasks
<1>7. CurrentOK'
  <2> SUFFICES ASSUME current' PROVE UpToDate'
    BY DEF CurrentOK
  <2>1. Newest(c) /\ good = Parts
    BY <1>1 DEF Newest
  <2>2. (typed \/ calls[c].of = selected) /\ calls[c].as >= known
    BY <1>1, <2>1 DEF NewestOK, ReportInv
  <2>3. \A p \in Parts : shown'[p].of = calls[c].of /\ shown'[p].as = calls[c].as
    BY <1>1, <2>1
  <2> QED BY <1>1, <2>1, <2>2, <2>3 DEF UpToDate
<1>8. RowsOK'
  BY <1>1, <1>2 DEF RowsOK, History, ReportInv, Tasks
<1> QED BY <1>1, <1>4, <1>5, <1>6, <1>7, <1>8 DEF ReportInv

LEMMA AnswersKeep ==
  ASSUME ReportConstantsOK, ReportInv, NEW c \in Calls,
         SummaryLanded(c) \/ ChartLanded(c) \/ HoldingsLanded(c) \/ BackupsLanded(c)
  PROVE  ReportInv'
<1> DEFINE empty == [p \in Parts |-> Nothing]
<1>1. /\ badge \in 0..data /\ shown \in [Parts -> [of : {0} \cup Choices, as : 0..data]]
      /\ empty \in [Parts -> [of : {0} \cup Choices, as : 0..data]]
  BY DEF ReportInv, ReportTypeOK, Nothing, ReportConstantsOK
<1> HIDE DEF empty
<1>2. CASE SummaryLanded(c)
  BY <1>1, <1>2, LandedKeeps DEF SummaryLanded
<1>3. CASE ChartLanded(c)
  <2>1. PICK good \in SUBSET Parts : Landed(c, good, empty)
    BY <1>3 DEF ChartLanded, empty
  <2>2. badge' = badge /\ mounted # "backups"
    BY <1>3 DEF ChartLanded
  <2> QED BY <1>1, <2>1, <2>2, LandedKeeps
<1>4. CASE HoldingsLanded(c)
  BY <1>1, <1>4, LandedKeeps DEF HoldingsLanded
<1>5. CASE BackupsLanded(c)
  <2>1. PICK good \in SUBSET Parts :
          Landed(c, good, shown) /\ badge' = IF good = Parts THEN calls[c].as ELSE badge
    BY <1>5 DEF BackupsLanded
  <2>2. calls[c].as \in 0..data
    BY <2>1 DEF Landed, ReportInv, TasksOK, TaskOK
  <2>3. badge' \in 0..data /\ (mounted = "backups" /\ good = Parts => badge' = calls[c].as)
    BY <1>1, <2>1, <2>2
  <2> QED BY <1>1, <2>1, <2>3, LandedKeeps
<1> QED BY <1>2, <1>3, <1>4, <1>5

(* The badge was asked for before the last load: the screen is no longer   *)
(* known to be up to date.                                                 *)
LEMMA BadgeKeeps ==
  ASSUME ReportConstantsOK, ReportInv, NEW c \in Calls, BadgeLanded(c)
  PROVE  ReportInv'
<1>1. /\ calls[c].kind = "badge" /\ calls[c].as # None
      /\ badge' = calls[c].as /\ current' = (current /\ ~calls[c].older)
      /\ calls' = [calls EXCEPT ![c] = Idle]
      /\ UNCHANGED <<mounted, data, known, selected, typed, shown, loading, open, wanted, crossed>>
  BY DEF BadgeLanded
<1>2. calls[c].older /\ calls[c].as \in 0..data
  BY <1>1 DEF ReportInv, TasksOK, TaskOK
<1>3. Idle \in TaskSet /\ Idle.kind = None /\ Idle.as = None /\ None \notin Tasks
  BY IdleTyped
<1>4. /\ TasksOK' /\ (Loads <=> Loads')
      /\ \A q \in Calls : Newest(q)' <=> Newest(q)
      /\ \A q \in Calls : Newest(q) => calls'[q] = calls[q]
      /\ \A q \in Calls \ {c} : calls'[q] = calls[q]
  BY <1>1, <1>3, NoLoadPut DEF ReportInv, Tasks
<1>5. calls'[c] = Idle /\ \A q \in Calls : calls'[q] \in TaskSet
  BY <1>1, <1>3, Put DEF ReportInv
<1>6. current' = FALSE
  BY <1>1, <1>2
<1>7. ReportTypeOK'
  BY <1>1, <1>2, <1>5, <1>6 DEF ReportTypeOK, ReportInv, TaskSet
<1>8. NewestOK' /\ CurrentOK'
  BY <1>1, <1>4, <1>6 DEF NewestOK, CurrentOK, ReportInv
<1>9. RowsOK'
  BY <1>1, <1>3, <1>4, <1>5 DEF RowsOK, History, ReportInv, Tasks
<1> QED BY <1>1, <1>4, <1>7, <1>8, <1>9 DEF ReportInv

LEMMA RefusedKeeps ==
  ASSUME ReportConstantsOK, ReportInv, NEW c \in Calls, Refused(c)
  PROVE  ReportInv'
<1>1. /\ calls[c].kind \notin {None, "history"}
      /\ calls' = [calls EXCEPT ![c] = Idle]
      /\ loading' = (loading /\ calls[c].kind # "load")
      /\ current' = (current /\ (calls[c].kind = "load" => calls[c].older))
      /\ UNCHANGED <<mounted, data, known, selected, typed, shown, badge, open, wanted, crossed>>
  BY DEF Refused
<1>2. /\ Idle \in TaskSet /\ Idle.kind = None /\ Idle.as = None /\ None \notin Tasks
      /\ calls' \in [Calls -> TaskSet] /\ calls'[c] = Idle
      /\ \A q \in Calls \ {c} : calls'[q] = calls[q]
  BY <1>1, IdleTyped, Put DEF ReportInv
<1>3. TasksOK'
  BY <1>1, <1>2 DEF TasksOK, TaskOK, ReportInv, Tasks
<1>4. ReportTypeOK'
  <2>1. \A q \in Calls : calls'[q] \in TaskSet
    BY <1>2
  <2>2. loading' \in BOOLEAN /\ current' \in BOOLEAN
    BY <1>1
  <2> QED BY <1>1, <2>1, <2>2 DEF ReportTypeOK, ReportInv, TaskSet
<1>5. NewestOK'
  BY <1>1, <1>2 DEF NewestOK, Newest, ReportInv, Tasks
<1>6. CurrentOK'
  <2> SUFFICES ASSUME current' PROVE UpToDate \/ \E q \in Calls : Newest(q)'
    BY <1>1 DEF CurrentOK, UpToDate
  <2>1. current /\ ~Newest(c)
    BY <1>1 DEF Newest
  <2>2. UpToDate \/ \E q \in Calls \ {c} : Newest(q)
    BY <2>1 DEF ReportInv, CurrentOK
  <2> QED BY <1>2, <2>2 DEF Newest
<1>7. RowsOK'
  BY <1>1, <1>2 DEF RowsOK, History, ReportInv, Tasks
<1>8. (loading => Loads)'
  BY <1>1, <1>2 DEF Loads, ReportInv
<1> QED BY <1>3, <1>4, <1>5, <1>6, <1>7, <1>8 DEF ReportInv

LEMMA ReportInitOK ==
  ASSUME ReportConstantsOK, ReportInit
  PROVE  ReportInv
<1>1. /\ mounted \in Screens
      /\ data = 0 /\ known = 0 /\ selected \in {0} \cup Choices /\ typed = FALSE
      /\ shown = [p \in Parts |-> Nothing] /\ badge = 0 /\ loading = (Asked = "load") /\ current = FALSE
      /\ open = {} /\ wanted = {} /\ crossed = {}
  BY DEF ReportInit
<1> DEFINE first == [Idle EXCEPT !.kind = Asked, !.of = selected, !.older = (Asked = "badge")]
           second == [Idle EXCEPT !.kind = "load"]
<1>2. PICK c \in Calls, d \in Calls :
        /\ c # d
        /\ calls = [q \in Calls |->
                      CASE q = c -> first
                        [] q = d /\ mounted = "backups" -> second
                        [] OTHER -> Idle]
  BY DEF ReportInit
<1>3. Asked \in {"years", "badge", "load"} /\ (mounted = "backups" <=> Asked = "badge")
  BY <1>1 DEF Asked, Screens
<1>4. /\ first \in TaskSet /\ first.kind = Asked /\ first.of = selected /\ first.as = None
      /\ Asked = "badge" => first.older
      /\ second \in TaskSet /\ second.kind = "load" /\ second.of = 0 /\ second.as = None
      /\ Idle \in TaskSet /\ Idle.kind = None /\ Idle.as = None /\ None \notin Tasks
  BY <1>1, <1>3, IdleTyped DEF Idle, TaskSet, Tasks
<1> HIDE DEF first, second
<1>5. /\ calls \in [Calls -> TaskSet] /\ calls[c] = first
      /\ \A q \in Calls \ {c} :
           (q = d /\ mounted = "backups" /\ calls[q] = second) \/ calls[q] = Idle
  <2>1. \A q \in Calls : calls[q] = IF q = c THEN first
                                    ELSE IF q = d /\ mounted = "backups" THEN second ELSE Idle
    BY <1>2
  <2>2. calls \in [Calls -> TaskSet]
    BY <1>2, <1>4, <2>1
  <2> QED BY <2>1, <2>2
<1>6. TasksOK
  <2> SUFFICES ASSUME NEW q \in Calls PROVE TaskOK(q)
    BY <1>5 DEF TasksOK
  <2>1. CASE q = c
    BY <1>1, <1>3, <1>4, <1>5, <2>1 DEF TaskOK, Tasks
  <2>2. CASE q # c
    BY <1>1, <1>4, <1>5, <2>2 DEF TaskOK, Tasks
  <2> QED BY <2>1, <2>2
<1>7. ReportTypeOK
  <2>1. shown \in [Parts -> [of : {0} \cup Choices, as : 0..data]]
    BY <1>1 DEF Nothing
  <2>2. \A q \in Calls : calls[q] \in TaskSet
    BY <1>5
  <2>3. loading \in BOOLEAN /\ typed \in BOOLEAN /\ current \in BOOLEAN
    BY <1>1
  <2>4. data \in 0..MaxData /\ known \in 0..data /\ badge \in 0..data
    BY <1>1 DEF ReportConstantsOK
  <2> QED BY <1>1, <2>1, <2>2, <2>3, <2>4 DEF ReportTypeOK, TaskSet
<1>8. NewestOK
  <2> SUFFICES ASSUME NEW q \in Calls, Newest(q)
               PROVE  (typed \/ calls[q].of = selected) /\ calls[q].as = None
    BY DEF NewestOK
  <2>1. CASE q = c
    BY <1>4, <1>5, <2>1
  <2>2. CASE q # c
    <3>1. mounted = "backups" /\ calls[q] = second
      BY <1>4, <1>5, <2>2 DEF Newest, Tasks
    <3>2. selected = 0
      BY <1>1, <3>1 DEF ReportInit
    <3> QED BY <1>4, <3>1, <3>2
  <2> QED BY <2>1, <2>2
<1>9. RowsOK
  BY <1>1, <1>3, <1>4, <1>5 DEF RowsOK, History, Tasks
<1>10. (loading => Loads) /\ CurrentOK
  BY <1>1, <1>4, <1>5 DEF Loads, CurrentOK
<1> QED BY <1>6, <1>7, <1>8, <1>9, <1>10 DEF ReportInv

LEMMA ReportNextOK ==
  ASSUME ReportConstantsOK
  PROVE  ReportInv /\ [ReportNext]_reportVars => ReportInv'
<1> SUFFICES ASSUME ReportInv, [ReportNext]_reportVars PROVE ReportInv'
  OBVIOUS
<1>1. CASE TypeIncome \/ \E r \in Rows : CloseHistory(r)
  BY <1>1, TypeIncomeKeeps, CloseKeeps
<1>2. ASSUME NEW c \in Calls,
             YearsKnown(c) \/ SelectTax(c) \/ SelectChart(c) \/ Compute(c) \/ Operated(c)
      PROVE  ReportInv'
  BY <1>2, YearsKeep, SendsKeep, ComputeKeeps
<1>3. ASSUME NEW c \in Calls,
             \/ RunEngine(c) \/ RefreshPrices(c) \/ ChangeBackups(c) \/ ImportArchive(c)
             \/ ExportArchive(c) \/ CancelRestore(c) \/ Exported(c)
      PROVE  ReportInv'
  BY <1>3, OperationsKeep
<1>4. ASSUME NEW c \in Calls,
             \/ SummaryLanded(c) \/ ChartLanded(c) \/ HoldingsLanded(c) \/ BackupsLanded(c)
             \/ BadgeLanded(c) \/ Refused(c)
      PROVE  ReportInv'
  BY <1>4, AnswersKeep, BadgeKeeps, RefusedKeeps
<1>5. ASSUME NEW c \in Calls, NEW r \in Rows,
             OpenHistory(c, r) \/ HistoryLanded(c, r) \/ HistoryFailed(c, r)
      PROVE  ReportInv'
  BY <1>5, HistoriesKeep
<1>6. CASE UNCHANGED reportVars
  BY <1>6 DEF reportVars, ReportInv, ReportTypeOK, TasksOK, TaskOK, NewestOK, Newest, CurrentOK,
              UpToDate, Loads, RowsOK, History
<1> QED BY <1>1, <1>2, <1>3, <1>4, <1>5, <1>6 DEF ReportNext

(* The inductive invariant: a screen that counts as current shows the      *)
(* choice and the newest answer, or the load that will is on its way.      *)
THEOREM ReportInvariant ==
  ASSUME ReportConstantsOK
  PROVE  ReportSpec => []ReportInv
<1>1. ReportInit => ReportInv
  BY ReportInitOK
<1>2. ReportInv /\ [ReportNext]_reportVars => ReportInv'
  BY ReportNextOK
<1> QED BY <1>1, <1>2, PTL DEF ReportSpec

(* Types: no screen or badge is newer than the server's data.              *)
THEOREM ReportTypeCorrect ==
  ASSUME ReportConstantsOK
  PROVE  ReportSpec => []ReportTypeOK
<1>1. ReportInv => ReportTypeOK
  BY DEF ReportInv
<1> QED BY <1>1, ReportInvariant, PTL

(* TaxSummary.svelte, Dashboard.svelte, Holdings.svelte and                *)
(* Backups.svelte: once nothing is on its way, what is shown belongs to    *)
(* the choice and is as new as the last operation, and the open histories  *)
(* are the user's, for any number of handlers, choices and holdings.       *)
THEOREM AlwaysShownAsSelected ==
  ASSUME ReportConstantsOK
  PROVE  ReportSpec => []ShownAsSelected
<1>1. ReportInv => ShownAsSelected
  <2> SUFFICES ASSUME ReportInv, \A c \in Calls : calls[c] = Idle
               PROVE  ~loading /\ (current => UpToDate)
    BY DEF ReportInv, RowsOK, ShownAsSelected, UpToDate
  <2>1. \A c \in Calls : calls[c].kind # "load"
    BY IdleTyped DEF Tasks
  <2> QED BY <2>1 DEF ReportInv, CurrentOK, Loads, Newest
<1> QED BY <1>1, ReportInvariant, PTL
=============================================================================
