------------------------- MODULE KeyHandling_proofs -------------------------
(***************************************************************************)
(* Proofs about KeyMaintenance, for every set of commands, passphrases and *)
(* unattended keys, and about BrowserSession, for every number of fetches  *)
(* under way, of sessions and of recovery keys.                            *)
(*                                                                         *)
(* A rotation holds the data directory from its start to its end, so that  *)
(* what it has seen of the slots and put in its copy is still so when it   *)
(* commits, except for the unattended slot, which the commands that do not *)
(* hold the directory may change.  ProcOK says this, command by command.   *)
(*                                                                         *)
(* In the browser, only a status has something that waits for it, a form's *)
(* fetch is "mine" only while its screen is shown, and an answer tells of  *)
(* a session that was opened.  FetchOK says this, fetch by fetch.          *)
(***************************************************************************)
EXTENDS KeyMaintenance, BrowserSession, TLAPS

-----------------------------------------------------------------------------
(* KeyMaintenance: the inductive invariant. *)

Rotating == {"rotate-verify", "rotate-unlock", "rotate-check", "rotate-prepare", "rotate-scrub"}
Copied == {"rotate-unlock", "rotate-check", "rotate-prepare"}

(* What rotation c takes over of the unattended slot it has seen.          *)
Keeps(c) ==
  IF proc[c].seen = None \/ (proc[c].drop /\ proc[c].env = None)
  THEN proc[c].keep = None
  ELSE proc[c].keep # None /\ proc[c].keep = proc[c].seen.secret

ProcOK(c) ==
  /\ proc[c].at \in Rotating => owner = c
  /\ proc[c].at = "rotate-verify" => proc[c].dek = Unwrap(slots.passphrase, proc[c].secret)
  /\ proc[c].at \in {"rotate-verify", "rotate-unlock"} => proc[c].keep = None
  /\ proc[c].at \in Copied =>
       /\ proc[c].dek = slots.passphrase.dek /\ proc[c].secret = slots.passphrase.secret
       /\ copies[c] # None /\ copies[c].slots.passphrase.dek = slots.passphrase.dek
       /\ copies[c].stored = stored
  /\ proc[c].at \in Copied /\ c \notin disturbed => proc[c].seen = slots.unattended
  /\ proc[c].at = "rotate-check" /\ c \notin disturbed =>
       /\ proc[c].seen # None /\ proc[c].env # None
       /\ proc[c].keep # None => proc[c].keep = proc[c].seen.secret
  /\ proc[c].at = "rotate-prepare" /\ c \notin disturbed => Keeps(c)
  /\ proc[c].at = "unlock" /\ proc[c].kind = "import" =>
       owner = c /\ (~overtaken => proc[c].dek \in {None, slots.passphrase.dek})
  /\ proc[c].at = "unlock" /\ proc[c].kind = "add-unattended" => proc[c].env # None
  /\ proc[c].at = "wrap" => proc[c].env # None /\ proc[c].dek # None
  /\ proc[c].at = "rotate-scrub" => replaced[c] # None
  /\ proc[c].at \notin {"rotate-scrub", "ended"} => replaced[c] = None
  /\ told[c] # "" => proc[c].at = "ended"

KeysInv ==
  /\ KeysTypeOK /\ SlotsOpenData /\ RotationTold /\ OldCiphertextPending
  /\ \A c \in Commands : ProcOK(c)

-----------------------------------------------------------------------------
(* What a step of one command leaves of the others. *)

LEMMA IdleTyped == Idle \in Locals /\ [Idle EXCEPT !.at = "ended"] \in Locals
  BY DEF Idle, Locals, Stages

LEMMA AwaitKeeps ==
  ASSUME KeysTypeOK, NEW c \in Commands, NEW to \in Stages, NEW locals \in Locals,
         Await(c, to, locals)
  PROVE  /\ proc' \in [Commands -> Locals]
         /\ proc'[c] = [locals EXCEPT !.at = to]
         /\ \A d \in Commands \ {c} : proc'[d] = proc[d]
<1>1. [locals EXCEPT !.at = to] \in Locals
  BY DEF Locals
<1> QED BY <1>1 DEF Await, KeysTypeOK

LEMMA EndKeeps ==
  ASSUME KeysTypeOK, NEW c \in Commands, NEW outcome \in Outcomes, End(c, outcome)
  PROVE  /\ proc' \in [Commands -> Locals] /\ proc'[c] = [Idle EXCEPT !.at = "ended"]
         /\ proc'[c].at = "ended"
         /\ \A d \in Commands \ {c} : proc'[d] = proc[d] /\ told'[d] = told[d] /\ (owner = d => owner' = d)
         /\ told' \in [Commands -> Outcomes] /\ told'[c] = outcome
         /\ owner' \in {owner, None} /\ (owner # c => owner' = owner)
<1>1. [Idle EXCEPT !.at = "ended"] \in Locals /\ [Idle EXCEPT !.at = "ended"].at = "ended"
  BY IdleTyped DEF Idle
<1> QED BY <1>1 DEF End, KeysTypeOK

LEMMA OthersKeep ==
  ASSUME KeysInv, NEW S \in SUBSET Commands,
         overtaken => overtaken', disturbed \subseteq disturbed',
         \A d \in S :
           /\ proc'[d] = proc[d] /\ told'[d] = told[d]
           /\ replaced'[d] = replaced[d] /\ copies'[d] = copies[d]
           /\ owner = d => /\ owner' = d
                           /\ slots'.passphrase = slots.passphrase /\ stored' = stored
                           /\ slots'.unattended = slots.unattended \/ d \in disturbed'
  PROVE  \A d \in S : ProcOK(d)'
<1> SUFFICES ASSUME NEW d \in S PROVE ProcOK(d)'
  OBVIOUS
<1>1. ProcOK(d)
  BY DEF KeysInv
<1>2. proc[d].at \in Copied => proc[d].at \in Rotating
  BY DEF Copied, Rotating
<1>3. proc[d].at \in {"rotate-verify", "rotate-check", "rotate-prepare"} => proc[d].at \in Rotating
  BY DEF Rotating
<1>4. CASE owner = d
  <2>1. slots'.passphrase = slots.passphrase /\ stored' = stored /\ owner' = d
    BY <1>4
  <2>2. Keeps(d)' <=> Keeps(d)
    BY DEF Keeps
  <2>3. d \notin disturbed' => d \notin disturbed /\ slots'.unattended = slots.unattended
    BY <1>4
  <2> QED BY ZenonT(60), <1>1, <2>1, <2>2, <2>3 DEF ProcOK, Unwrap
<1>5. CASE owner # d
  <2>1. proc[d].at \notin Rotating /\ proc[d].at \notin Copied
    BY <1>1, <1>2, <1>5 DEF ProcOK
  <2> QED BY <1>1, <1>3, <1>5, <2>1 DEF ProcOK, Rotating
<1> QED BY <1>4, <1>5

(* A command that has ended has nothing left to agree with.                *)
LEMMA EndedOK ==
  ASSUME NEW c \in Commands, proc'[c].at = "ended"
  PROVE  ProcOK(c)'
BY DEF ProcOK, Rotating, Copied

(* Where neither slots nor values nor copies move, only the types, what is *)
(* told and c itself are at stake.                                         *)
LEMMA NothingMoves ==
  ASSUME KeysInv, UNCHANGED <<database, copies, server, histories>>
  PROVE  SlotsOpenData' /\ OldCiphertextPending'
BY DEF KeysInv, SlotsOpenData, OldCiphertextPending, Readable, database, histories

LEMMA AwaitOK ==
  ASSUME KeysConstantsOK, KeysInv, NEW c \in Commands, NEW to \in Stages, NEW locals \in Locals,
         Await(c, to, locals), UNCHANGED <<database, copies, server, told, histories>>,
         owner' \in {owner, c}, owner # owner' => owner = None /\ server = None,
         ProcOK(c)'
  PROVE  KeysInv'
<1>1. KeysTypeOK
  BY DEF KeysInv
<1>2. proc' \in [Commands -> Locals] /\ \A d \in Commands \ {c} : proc'[d] = proc[d]
  BY <1>1, AwaitKeeps
<1>3. KeysTypeOK'
  <2>1. owner' \in Commands \cup {"server", None} /\ (server' # None => owner' = "server")
    BY <1>1 DEF KeysTypeOK
  <2> QED BY <1>1, <1>2, <2>1 DEF KeysTypeOK, database, histories
<1>4. \A d \in Commands \ {c} : ProcOK(d)'
  BY <1>2, OthersKeep DEF database, histories, KeysConstantsOK, Names
<1>5. RotationTold'
  BY DEF KeysInv, RotationTold, histories
<1> QED BY <1>3, <1>4, <1>5, NothingMoves DEF KeysInv

(* A command that ends, whatever it has done to the database.              *)
LEMMA EndsOK ==
  ASSUME KeysConstantsOK, KeysInv, NEW c \in Commands, NEW outcome \in Outcomes, End(c, outcome),
         proc[c].at # "ended", UNCHANGED <<replaced, server, copies>>,
         slots' \in Slots, stored' \subseteq Names, residue' \subseteq Names,
         wal' \in BOOLEAN, pending' \in BOOLEAN,
         overtaken' \in BOOLEAN, overtaken => overtaken',
         disturbed' \subseteq Commands, disturbed \subseteq disturbed',
         misled' \subseteq Commands, misled \subseteq misled',
         outcome = "rotated" => replaced[c] # None \/ c \in misled',
         outcome = "failed" => replaced[c] = None,
         SlotsOpenData', OldCiphertextPending',
         \A d \in Commands \ {c} : owner = d =>
           /\ slots'.passphrase = slots.passphrase /\ stored' = stored
           /\ slots'.unattended = slots.unattended \/ d \in disturbed'
  PROVE  KeysInv'
<1>1. KeysTypeOK
  BY DEF KeysInv
<1>2. /\ proc' \in [Commands -> Locals] /\ proc'[c].at = "ended"
      /\ \A d \in Commands \ {c} : proc'[d] = proc[d] /\ told'[d] = told[d] /\ (owner = d => owner' = d)
      /\ told' \in [Commands -> Outcomes] /\ told'[c] = outcome
      /\ owner' \in {owner, None} /\ (owner # c => owner' = owner)
  BY <1>1, EndKeeps
<1>3. KeysTypeOK'
  <2>1. owner' \in Commands \cup {"server", None} /\ (server' # None => owner' = "server")
    BY <1>1, <1>2 DEF KeysTypeOK, KeysConstantsOK
  <2> QED BY <1>1, <1>2, <2>1 DEF KeysTypeOK
<1>4. \A d \in Commands \ {c} : ProcOK(d)'
  BY <1>2, OthersKeep
<1>5. RotationTold'
  BY <1>2 DEF KeysInv, RotationTold
<1> QED BY <1>2, <1>3, <1>4, <1>5, EndedOK DEF KeysInv

(* A command that only ends, with something to tell.                       *)
LEMMA EndOK ==
  ASSUME KeysConstantsOK, KeysInv, NEW c \in Commands, NEW outcome \in Outcomes, End(c, outcome),
         UNCHANGED <<database, copies, server, histories>>,
         proc[c].at # "ended", outcome = "rotated" => replaced[c] # None,
         outcome = "failed" => replaced[c] = None
  PROVE  KeysInv'
<1>1. KeysTypeOK
  BY DEF KeysInv
<1>2. UNCHANGED <<slots, stored, wal, residue, pending, replaced, overtaken, disturbed, misled>>
  BY DEF database, histories
<1> QED BY <1>1, <1>2, NothingMoves, EndsOK DEF KeysTypeOK

LEMMA RefuseOK ==
  ASSUME KeysConstantsOK, KeysInv, NEW c \in Commands, Refuse(c), proc[c].at # "ended"
  PROVE  KeysInv'
<1>1. "refused" \in Outcomes
  BY DEF Outcomes
<1> QED BY <1>1, EndOK DEF Refuse

-----------------------------------------------------------------------------
(* A rotation. *)

LEMMA StartRotateOK ==
  ASSUME KeysConstantsOK, KeysInv, NEW c \in Commands, NEW p \in Passphrases,
         NEW env \in UnattendedKeys \cup {None}, NEW drop \in BOOLEAN,
         StartRotate(c, p, env, drop)
  PROVE  KeysInv'
<1> DEFINE locals == [Idle EXCEPT !.secret = p, !.dek = Unwrap(slots.passphrase, p),
                                  !.env = env, !.drop = drop]
<1>1. KeysTypeOK /\ ProcOK(c) /\ proc[c].at = "new" /\ owner = None /\ owner' = c
  BY DEF KeysInv, StartRotate
<1>2. locals \in Locals
  <2>1. Unwrap(slots.passphrase, p) \in Names \cup {None}
    BY <1>1 DEF Unwrap, KeysTypeOK, Slots, Slot
  <2> QED BY <2>1, IdleTyped DEF Locals
<1>3. Await(c, "rotate-verify", locals) /\ UNCHANGED <<database, copies, server, told, histories>>
  BY DEF StartRotate
<1>4. "rotate-verify" \in Stages /\ server = None
  BY <1>1 DEF Stages, KeysTypeOK, KeysConstantsOK
<1> HIDE DEF locals
<1>5. proc'[c] = [locals EXCEPT !.at = "rotate-verify"]
  BY <1>1, <1>2, <1>3, <1>4, AwaitKeeps
<1>6. /\ locals.dek = Unwrap(slots.passphrase, locals.secret) /\ locals.keep = None
      /\ DOMAIN locals = {"at", "kind", "secret", "env", "drop", "seen", "dek", "keep"}
  BY DEF locals, Idle
<1>7. /\ proc'[c].at = "rotate-verify" /\ proc'[c].keep = None
      /\ proc'[c].dek = Unwrap(slots.passphrase, proc'[c].secret)
  BY <1>5, <1>6, <1>2 DEF Locals
<1>8. ProcOK(c)'
  BY <1>1, <1>3, <1>7 DEF ProcOK, Rotating, Copied, database, histories, Unwrap
<1> QED BY <1>1, <1>2, <1>3, <1>4, <1>8, AwaitOK

LEMMA RotateVerifiedOK ==
  ASSUME KeysConstantsOK, KeysInv, NEW c \in Commands, RotateVerified(c)
  PROVE  KeysInv'
<1> DEFINE locals == [proc[c] EXCEPT !.dek = Unwrap(slots.passphrase, proc[c].secret),
                                     !.seen = slots.unattended]
<1>1. /\ KeysTypeOK /\ ProcOK(c) /\ proc[c].at = "rotate-verify" /\ proc[c].dek # None
      /\ SlotsOpenData /\ RotationTold /\ OldCiphertextPending
  BY DEF KeysInv, RotateVerified
<1>2. /\ Await(c, "rotate-unlock", locals) /\ PreRotationCopy(c)
      /\ UNCHANGED <<database, owner, server, told, histories>>
  BY DEF RotateVerified
<1>3. owner = c /\ proc[c].keep = None /\ replaced[c] = None /\ told[c] = ""
  BY <1>1 DEF ProcOK, Rotating
<1>4. /\ Unwrap(slots.passphrase, proc[c].secret) = slots.passphrase.dek
      /\ slots.passphrase.secret = proc[c].secret
  BY <1>1 DEF ProcOK, Unwrap
<1>5. locals \in Locals
  <2>1. slots.passphrase.dek \in Names \cup {None} /\ slots.unattended \in Slot(UnattendedKeys) \cup {None}
    BY <1>1 DEF KeysTypeOK, Slots, Slot
  <2>2. proc[c] \in Locals
    BY <1>1 DEF KeysTypeOK
  <2> QED BY <1>4, <2>1, <2>2 DEF Locals
<1>6. /\ locals.dek = slots.passphrase.dek /\ locals.seen = slots.unattended
      /\ locals.secret = slots.passphrase.secret /\ locals.keep = None
  <2>1. proc[c] \in Locals
    BY <1>1 DEF KeysTypeOK
  <2>2. /\ locals.dek = Unwrap(slots.passphrase, proc[c].secret) /\ locals.seen = slots.unattended
        /\ locals.secret = proc[c].secret /\ locals.keep = proc[c].keep
    BY <2>1 DEF Locals
  <2> QED BY <1>3, <1>4, <2>2
<1> HIDE DEF locals
<1>7. /\ proc' \in [Commands -> Locals] /\ proc'[c] = [locals EXCEPT !.at = "rotate-unlock"]
      /\ \A d \in Commands \ {c} : proc'[d] = proc[d]
  BY <1>1, <1>2, <1>5, AwaitKeeps DEF Stages
<1>8. /\ proc'[c].at = "rotate-unlock" /\ proc'[c].dek = slots.passphrase.dek
      /\ proc'[c].seen = slots.unattended /\ proc'[c].secret = slots.passphrase.secret
      /\ proc'[c].keep = None
  BY <1>5, <1>6, <1>7 DEF Locals
<1>9. /\ copies' \in [Commands -> Copies \cup {None}]
      /\ copies'[c] = [slots |-> slots, stored |-> stored] /\ copies'[c] # None
      /\ \A d \in Commands \ {c} : copies'[d] = copies[d]
  BY <1>1, <1>2 DEF PreRotationCopy, KeysTypeOK, Copies, KeysConstantsOK
<1>10. KeysTypeOK'
  BY <1>1, <1>2, <1>7, <1>9 DEF KeysTypeOK, database, histories
<1>11. ProcOK(c)'
  <2>1. copies'[c].slots.passphrase.dek = slots.passphrase.dek /\ copies'[c].stored = stored
    BY <1>9
  <2> QED BY <1>2, <1>3, <1>8, <1>9, <2>1 DEF ProcOK, Rotating, Copied, database, histories
<1>12. \A d \in Commands \ {c} : ProcOK(d)'
  BY <1>2, <1>7, <1>9, OthersKeep DEF database, histories
<1>13. SlotsOpenData'
  BY <1>1, <1>2, <1>3, <1>9 DEF SlotsOpenData, Readable, database, histories
<1>14. RotationTold' /\ OldCiphertextPending'
  BY <1>1, <1>2 DEF RotationTold, OldCiphertextPending, database, histories
<1> QED BY <1>10, <1>11, <1>12, <1>13, <1>14 DEF KeysInv

LEMMA RotateUnlockedOK ==
  ASSUME KeysConstantsOK, KeysInv, NEW c \in Commands, RotateUnlocked(c)
  PROVE  KeysInv'
<1>1. KeysTypeOK /\ ProcOK(c) /\ proc[c].at = "rotate-unlock" /\ proc[c] \in Locals
  BY DEF KeysInv, RotateUnlocked, KeysTypeOK
<1>2. UNCHANGED <<database, copies, owner, server, told, histories>>
  BY DEF RotateUnlocked
<1>3. /\ owner = c /\ proc[c].keep = None
      /\ proc[c].dek = slots.passphrase.dek /\ proc[c].secret = slots.passphrase.secret
      /\ copies[c] # None /\ copies[c].slots.passphrase.dek = slots.passphrase.dek
      /\ copies[c].stored = stored /\ replaced[c] = None /\ told[c] = ""
      /\ c \notin disturbed => proc[c].seen = slots.unattended
  BY <1>1 DEF ProcOK, Rotating, Copied
<1>4. CASE /\ proc[c].seen # None /\ proc[c].env # None
           /\ Await(c, "rotate-check", [proc[c] EXCEPT !.keep = OpensUnattended(proc[c].env)])
  <2> DEFINE locals == [proc[c] EXCEPT !.keep = OpensUnattended(proc[c].env)]
  <2>1. locals \in Locals
    BY <1>1 DEF Locals, OpensUnattended
  <2>2. locals.keep = OpensUnattended(proc[c].env)
    BY <1>1 DEF Locals
  <2>3. locals.keep # None => slots.unattended # None /\ slots.unattended.secret = locals.keep
    BY <2>2 DEF OpensUnattended, Unwrap
  <2>4. /\ locals.dek = proc[c].dek /\ locals.secret = proc[c].secret
        /\ locals.seen = proc[c].seen /\ locals.env = proc[c].env
    BY <1>1 DEF Locals
  <2> HIDE DEF locals
  <2>5. Await(c, "rotate-check", locals)
    BY <1>4 DEF locals
  <2>6. proc'[c] = [locals EXCEPT !.at = "rotate-check"]
    BY <1>1, <2>1, <2>5, AwaitKeeps DEF Stages
  <2>7. /\ proc'[c].at = "rotate-check" /\ proc'[c].dek = proc[c].dek
        /\ proc'[c].secret = proc[c].secret /\ proc'[c].seen = proc[c].seen
        /\ proc'[c].env = proc[c].env /\ proc'[c].keep = locals.keep
    BY <2>1, <2>4, <2>6 DEF Locals
  <2>8. ProcOK(c)'
    BY <1>2, <1>3, <1>4, <2>3, <2>7 DEF ProcOK, Rotating, Copied, database, histories
  <2> QED BY <1>2, <2>1, <2>5, <2>8, AwaitOK DEF Stages
<1>5. CASE /\ proc[c].seen = None \/ (proc[c].env = None /\ proc[c].drop)
           /\ Await(c, "rotate-prepare", proc[c])
  <2>1. proc'[c] = [proc[c] EXCEPT !.at = "rotate-prepare"]
    BY <1>1, <1>5, AwaitKeeps DEF Stages
  <2>2. /\ proc'[c].at = "rotate-prepare" /\ proc'[c].dek = proc[c].dek
        /\ proc'[c].secret = proc[c].secret /\ proc'[c].seen = proc[c].seen
        /\ proc'[c].env = proc[c].env /\ proc'[c].drop = proc[c].drop /\ proc'[c].keep = proc[c].keep
    BY <1>1, <2>1 DEF Locals
  <2>3. ProcOK(c)'
    BY <1>2, <1>3, <1>5, <2>2 DEF ProcOK, Keeps, Rotating, Copied, database, histories
  <2> QED BY <1>1, <1>2, <1>5, <2>3, AwaitOK DEF Stages
<1> QED BY <1>4, <1>5 DEF RotateUnlocked

LEMMA RotateCheckedOK ==
  ASSUME KeysConstantsOK, KeysInv, NEW c \in Commands, RotateChecked(c)
  PROVE  KeysInv'
<1>1. /\ KeysTypeOK /\ ProcOK(c) /\ proc[c].at = "rotate-check" /\ proc[c] \in Locals
      /\ proc[c].keep # None /\ Await(c, "rotate-prepare", proc[c])
      /\ UNCHANGED <<database, copies, owner, server, told, histories>>
  BY DEF KeysInv, RotateChecked, KeysTypeOK
<1>2. proc'[c] = [proc[c] EXCEPT !.at = "rotate-prepare"]
  BY <1>1, AwaitKeeps DEF Stages
<1>3. /\ proc'[c].at = "rotate-prepare" /\ proc'[c].dek = proc[c].dek
      /\ proc'[c].secret = proc[c].secret /\ proc'[c].seen = proc[c].seen
      /\ proc'[c].env = proc[c].env /\ proc'[c].drop = proc[c].drop /\ proc'[c].keep = proc[c].keep
  BY <1>1, <1>2 DEF Locals
<1>4. ProcOK(c)'
  BY <1>1, <1>3 DEF ProcOK, Keeps, Rotating, Copied, database, histories
<1> QED BY <1>1, <1>4, AwaitOK DEF Stages

LEMMA RotateLandsOK ==
  ASSUME KeysConstantsOK, KeysInv, NEW c \in Commands, RotateLands(c)
  PROVE  KeysInv'
<1>1. /\ KeysTypeOK /\ ProcOK(c) /\ proc[c].at = "rotate-prepare" /\ proc[c] \in Locals
      /\ SlotsOpenData /\ RotationTold
  BY DEF KeysInv, RotateLands, KeysTypeOK
<1>2. /\ owner = c /\ replaced[c] = None /\ told[c] = ""
      /\ proc[c].dek = slots.passphrase.dek /\ proc[c].secret = slots.passphrase.secret
      /\ copies[c] # None /\ copies[c].slots.passphrase.dek = slots.passphrase.dek
      /\ copies[c].stored = stored
  BY <1>1 DEF ProcOK, Rotating, Copied
<1>3. server = None /\ c \in Names
  BY <1>1, <1>2 DEF KeysTypeOK, KeysConstantsOK, Names
<1>4. /\ slots.passphrase.secret \in Passphrases /\ slots.passphrase.dek \in Names
      /\ slots.passphrase.dek # None
  BY <1>1 DEF KeysTypeOK, Slots, Slot, KeysConstantsOK
<1>5. /\ slots' = NewSlots(c) /\ stored' = Resealed(c) /\ residue' = residue \cup stored
      /\ pending' = TRUE /\ replaced' = [replaced EXCEPT ![c] = slots.passphrase.dek]
      /\ UNCHANGED <<wal, copies, server, overtaken, disturbed, misled>>
      /\ Readable(proc[c].dek)
  BY DEF RotateLands, NoteRotation
<1>6. Landed(NewSlots(c), c)
  BY DEF Landed, NewSlots
<1>7. Await(c, "rotate-scrub", proc[c]) /\ UNCHANGED <<told, owner>>
  BY <1>6 DEF RotateLands
<1>8. /\ proc' \in [Commands -> Locals] /\ proc'[c] = [proc[c] EXCEPT !.at = "rotate-scrub"]
      /\ \A d \in Commands \ {c} : proc'[d] = proc[d]
  BY <1>1, <1>7, AwaitKeeps DEF Stages
<1>9. proc'[c].at = "rotate-scrub"
  BY <1>1, <1>8 DEF Locals
<1>10. /\ slots'.passphrase = [secret |-> proc[c].secret, dek |-> c]
       /\ slots'.recovery = [secret |-> c, dek |-> c]
       /\ slots'.unattended = IF proc[c].keep = None THEN None ELSE [secret |-> proc[c].keep, dek |-> c]
  BY <1>5 DEF NewSlots
<1>11. slots' \in Slots /\ stored' \subseteq {c}
  <2>1. slots'.unattended \in Slot(UnattendedKeys) \cup {None}
    BY <1>1, <1>3, <1>10 DEF Locals, Slot
  <2>2. slots'.passphrase \in Slot(Passphrases) /\ slots'.recovery \in Slot(Names)
    <3>1. proc[c].secret \in Passphrases /\ c \in Names
      BY <1>2, <1>3, <1>4
    <3> QED BY <3>1, <1>10 DEF Slot
  <2>3. slots' \in Slots
    BY <1>5, <1>10, <2>1, <2>2 DEF Slots, NewSlots
  <2>4. stored' \subseteq {c}
    BY <1>5 DEF Resealed
  <2> QED BY <2>3, <2>4
<1>12. /\ replaced'[c] = slots.passphrase.dek /\ \A d \in Commands \ {c} : replaced'[d] = replaced[d]
       /\ replaced' \in [Commands -> Names \cup {None}]
  BY <1>1, <1>4, <1>5 DEF KeysTypeOK
<1>13. KeysTypeOK'
  BY <1>1, <1>3, <1>5, <1>7, <1>8, <1>11, <1>12 DEF KeysTypeOK
<1>14. SlotsOpenData'
  <2>1. slots'.unattended # None => slots'.unattended.dek = c
    BY <1>10
  <2>2. stored \subseteq {slots.passphrase.dek}
    BY <1>2, <1>5 DEF Readable
  <2>3. slots'.recovery.dek = c /\ slots'.passphrase.dek = c /\ server' = None
    BY <1>3, <1>5, <1>10
  <2>4. ASSUME NEW d \in Commands, replaced'[d] # None
        PROVE  /\ copies'[d] # None /\ copies'[d].slots.passphrase.dek = replaced'[d]
               /\ copies'[d].stored \subseteq {replaced'[d]}
    BY <1>1, <1>2, <1>5, <1>12, <2>2, <2>4 DEF SlotsOpenData
  <2>5. stored' \subseteq {slots'.passphrase.dek}
    BY <1>11, <2>3
  <2> QED BY <2>1, <2>3, <2>4, <2>5 DEF SlotsOpenData, Readable
<1>15. RotationTold'
  BY <1>1, <1>2, <1>5, <1>7, <1>12 DEF RotationTold
<1>16. OldCiphertextPending'
  BY <1>5 DEF OldCiphertextPending
<1>17. ProcOK(c)'
  BY <1>2, <1>4, <1>7, <1>9, <1>12 DEF ProcOK, Rotating, Copied
<1>18. \A d \in Commands \ {c} : ProcOK(d)'
  BY <1>2, <1>5, <1>7, <1>8, <1>12, OthersKeep
<1> QED BY <1>13, <1>14, <1>15, <1>16, <1>17, <1>18 DEF KeysInv

LEMMA RotateFailsOK ==
  ASSUME KeysConstantsOK, KeysInv, NEW c \in Commands, RotateFails(c)
  PROVE  KeysInv'
<1>1. ProcOK(c) /\ proc[c].at = "rotate-prepare" /\ "failed" \in Outcomes
  BY DEF KeysInv, RotateFails, Outcomes
<1> QED BY <1>1, EndOK DEF RotateFails, ProcOK

LEMMA RotateStaysOpenOK ==
  ASSUME KeysConstantsOK, KeysInv, NEW c \in Commands, RotateStaysOpen(c)
  PROVE  KeysInv'
<1>1. KeysTypeOK /\ proc[c].at = "rotate-prepare" /\ "rotated" \in Outcomes
  BY DEF KeysInv, RotateStaysOpen, Outcomes
<1>2. /\ UNCHANGED <<slots, stored, wal, residue, pending, copies, server>>
      /\ UNCHANGED <<replaced, overtaken, disturbed>> /\ misled' = misled \cup {c}
      /\ End(c, "rotated")
  BY DEF RotateStaysOpen, database
<1>3. SlotsOpenData' /\ OldCiphertextPending'
  BY <1>2 DEF KeysInv, SlotsOpenData, OldCiphertextPending, Readable
<1> QED BY <1>1, <1>2, <1>3, EndsOK DEF KeysTypeOK

LEMMA ScrubKeeps ==
  ASSUME KeysInv, Scrub
  PROVE  residue' \subseteq Names /\ pending' \in BOOLEAN /\ OldCiphertextPending'
BY DEF KeysInv, KeysTypeOK, OldCiphertextPending, Scrub

LEMMA RotateScrubsOK ==
  ASSUME KeysConstantsOK, KeysInv, NEW c \in Commands, RotateScrubs(c)
  PROVE  KeysInv'
<1>1. KeysTypeOK /\ ProcOK(c) /\ proc[c].at = "rotate-scrub" /\ "rotated" \in Outcomes
  BY DEF KeysInv, RotateScrubs, Outcomes
<1>2. /\ UNCHANGED <<slots, stored, wal, copies, server>> /\ End(c, "rotated")
      /\ UNCHANGED <<replaced, overtaken, disturbed, misled>> /\ Scrub
  BY DEF RotateScrubs, histories
<1>3. SlotsOpenData'
  BY <1>2 DEF KeysInv, SlotsOpenData, Readable
<1>4. replaced[c] # None
  BY <1>1 DEF ProcOK
<1> QED BY <1>1, <1>2, <1>3, <1>4, ScrubKeeps, EndsOK DEF KeysTypeOK

-----------------------------------------------------------------------------
(* The other commands. *)

LEMMA StartCommandOK ==
  ASSUME KeysConstantsOK, KeysInv, NEW c \in Commands, NEW kind \in Kinds,
         NEW env \in UnattendedKeys \cup {None}, NEW dek \in UnlockDatabase,
         StartCommand(c, kind, env, dek)
  PROVE  KeysInv'
<1> DEFINE locals == [Idle EXCEPT !.kind = kind, !.dek = dek, !.env = env]
<1>1. /\ KeysTypeOK /\ ProcOK(c) /\ proc[c].at = "new" /\ SlotsOpenData
      /\ (kind = "add-unattended") = (env # None)
      /\ kind = "import" => owner = None /\ owner' = c
      /\ kind # "import" => owner' = owner
      /\ Await(c, "unlock", locals) /\ UNCHANGED <<database, copies, server, told, histories>>
  BY DEF KeysInv, StartCommand
<1>2. dek \in Names \cup {None}
  BY <1>1 DEF UnlockDatabase, KeysTypeOK, Slots, Slot
<1>3. locals \in Locals /\ locals.kind = kind /\ locals.env = env /\ locals.dek = dek
  <2>1. locals \in Locals
    BY <1>2, IdleTyped DEF Locals
  <2> QED BY <2>1 DEF Idle
<1>4. ~overtaken => dek \in {None, slots.passphrase.dek}
  BY <1>1 DEF SlotsOpenData, UnlockDatabase
<1> HIDE DEF locals
<1>5. proc'[c] = [locals EXCEPT !.at = "unlock"]
  BY <1>1, <1>3, AwaitKeeps DEF Stages
<1>6. proc'[c].at = "unlock" /\ proc'[c].kind = kind /\ proc'[c].env = env /\ proc'[c].dek = dek
  BY <1>3, <1>5 DEF Locals
<1>7. ProcOK(c)'
  BY <1>1, <1>4, <1>6 DEF ProcOK, Rotating, Copied, database, histories
<1>8. owner' \in {owner, c} /\ (owner # owner' => owner = None /\ server = None)
  BY <1>1 DEF KeysTypeOK, KeysConstantsOK
<1> QED BY <1>1, <1>3, <1>7, <1>8, AwaitOK DEF Stages

LEMMA AddCheckedOK ==
  ASSUME KeysConstantsOK, KeysInv, NEW c \in Commands, AddChecked(c)
  PROVE  KeysInv'
<1>1. /\ KeysTypeOK /\ ProcOK(c) /\ proc[c] \in Locals /\ proc[c].at = "unlock"
      /\ proc[c].kind = "add-unattended" /\ proc[c].dek # None
      /\ Await(c, "wrap", proc[c]) /\ UNCHANGED <<database, copies, owner, server, told, histories>>
  BY DEF KeysInv, AddChecked, Unlocked, KeysTypeOK
<1>2. proc'[c] = [proc[c] EXCEPT !.at = "wrap"]
  BY <1>1, AwaitKeeps DEF Stages
<1>3. proc'[c].at = "wrap" /\ proc'[c].env = proc[c].env /\ proc'[c].dek = proc[c].dek
  BY <1>1, <1>2 DEF Locals
<1>4. ProcOK(c)'
  BY <1>1, <1>3 DEF ProcOK, Rotating, Copied, histories
<1> QED BY <1>1, <1>4, AwaitOK DEF Stages

LEMMA AddUnattendedOK ==
  ASSUME KeysConstantsOK, KeysInv, NEW c \in Commands, AddUnattended(c)
  PROVE  KeysInv'
<1>1. /\ KeysTypeOK /\ ProcOK(c) /\ proc[c] \in Locals /\ proc[c].at = "wrap"
      /\ SlotsOpenData /\ OldCiphertextPending /\ "done" \in Outcomes
  BY DEF KeysInv, AddUnattended, KeysTypeOK, Outcomes
<1>2. /\ slots' = [slots EXCEPT !.unattended = [secret |-> proc[c].env, dek |-> proc[c].dek]]
      /\ overtaken' = (overtaken \/ ~MatchesSlots(proc[c].dek)) /\ Disturb /\ End(c, "done")
      /\ UNCHANGED <<stored, wal, residue, pending, copies, server, replaced, misled>>
  BY DEF AddUnattended
<1>3. [secret |-> proc[c].env, dek |-> proc[c].dek] \in Slot(UnattendedKeys)
  BY <1>1 DEF ProcOK, Locals, Slot
<1>4. /\ slots' \in Slots /\ slots'.passphrase = slots.passphrase
      /\ slots'.recovery = slots.recovery
      /\ slots'.unattended.dek = proc[c].dek
  BY <1>1, <1>2, <1>3 DEF KeysTypeOK, Slots
<1>5. SlotsOpenData'
  BY <1>1, <1>2, <1>4 DEF SlotsOpenData, Readable, MatchesSlots
<1>6. OldCiphertextPending'
  BY <1>1, <1>2 DEF OldCiphertextPending
<1>7. /\ disturbed' \subseteq Commands /\ disturbed \subseteq disturbed'
      /\ \A d \in Commands : owner = d => d \in disturbed'
  BY <1>1, <1>2 DEF Disturb, KeysTypeOK
<1>8. overtaken' \in BOOLEAN /\ (overtaken => overtaken')
  BY <1>1, <1>2 DEF KeysTypeOK
<1> QED BY <1>1, <1>2, <1>4, <1>5, <1>6, <1>7, <1>8, EndsOK DEF KeysTypeOK

LEMMA RemoveUnattendedOK ==
  ASSUME KeysConstantsOK, KeysInv, NEW c \in Commands, RemoveUnattended(c)
  PROVE  KeysInv'
<1>1. /\ KeysTypeOK /\ proc[c].at = "unlock" /\ SlotsOpenData /\ OldCiphertextPending
      /\ "done" \in Outcomes
  BY DEF KeysInv, RemoveUnattended, Unlocked, Outcomes
<1>2. /\ slots' = [slots EXCEPT !.unattended = None] /\ Disturb /\ End(c, "done")
      /\ UNCHANGED <<stored, wal, residue, pending, copies, server, replaced, overtaken, misled>>
  BY DEF RemoveUnattended
<1>3. /\ slots' \in Slots /\ slots'.passphrase = slots.passphrase
      /\ slots'.recovery = slots.recovery /\ slots'.unattended = None
  BY <1>1, <1>2 DEF KeysTypeOK, Slots
<1>4. SlotsOpenData'
  BY <1>1, <1>2, <1>3 DEF SlotsOpenData, Readable
<1>5. OldCiphertextPending'
  BY <1>1, <1>2 DEF OldCiphertextPending
<1>6. /\ disturbed' \subseteq Commands /\ disturbed \subseteq disturbed'
      /\ \A d \in Commands : owner = d => d \in disturbed'
  BY <1>1, <1>2 DEF Disturb, KeysTypeOK
<1> QED BY <1>1, <1>2, <1>3, <1>4, <1>5, <1>6, EndsOK DEF KeysTypeOK

LEMMA RotateRecoveryOK ==
  ASSUME KeysConstantsOK, KeysInv, NEW c \in Commands, RotateRecovery(c)
  PROVE  KeysInv'
<1>1. /\ KeysTypeOK /\ proc[c].at = "unlock" /\ SlotsOpenData /\ OldCiphertextPending
      /\ "done" \in Outcomes /\ proc[c].dek = slots.passphrase.dek
  BY DEF KeysInv, RotateRecovery, Unlocked, Outcomes, MayRotateRecovery, MatchesSlots
<1>2. /\ slots' = [slots EXCEPT !.recovery = [secret |-> c, dek |-> proc[c].dek]] /\ End(c, "done")
      /\ UNCHANGED <<stored, wal, residue, pending, copies, server>>
      /\ UNCHANGED <<replaced, overtaken, disturbed, misled>>
  BY DEF RotateRecovery, histories
<1>3. [secret |-> c, dek |-> proc[c].dek] \in Slot(Names)
  BY <1>1 DEF KeysTypeOK, Slots, Slot, Names
<1>4. /\ slots' \in Slots /\ slots'.passphrase = slots.passphrase
      /\ slots'.recovery.dek = slots.passphrase.dek /\ slots'.unattended = slots.unattended
  BY <1>1, <1>2, <1>3 DEF KeysTypeOK, Slots
<1>5. SlotsOpenData'
  BY <1>1, <1>2, <1>4 DEF SlotsOpenData, Readable
<1>6. OldCiphertextPending'
  BY <1>1, <1>2 DEF OldCiphertextPending
<1> QED BY <1>1, <1>2, <1>4, <1>5, <1>6, EndsOK DEF KeysTypeOK

LEMMA ImportOK ==
  ASSUME KeysConstantsOK, KeysInv, NEW c \in Commands, Import(c)
  PROVE  KeysInv'
<1>1. /\ KeysTypeOK /\ ProcOK(c) /\ proc[c] \in Locals /\ proc[c].at = "unlock"
      /\ proc[c].kind = "import" /\ proc[c].dek # None
      /\ SlotsOpenData /\ OldCiphertextPending /\ "done" \in Outcomes
  BY DEF KeysInv, Import, Unlocked, KeysTypeOK, Outcomes
<1>2. /\ stored' = stored \cup {proc[c].dek} /\ End(c, "done")
      /\ UNCHANGED <<slots, wal, residue, pending, copies, server>>
      /\ UNCHANGED <<replaced, overtaken, disturbed, misled>>
  BY DEF Import, histories
<1>3. owner = c /\ (~overtaken => proc[c].dek = slots.passphrase.dek) /\ proc[c].dek \in Names
  BY <1>1 DEF ProcOK, Locals
<1>4. SlotsOpenData'
  BY <1>1, <1>2, <1>3 DEF SlotsOpenData, Readable
<1>5. OldCiphertextPending'
  BY <1>1, <1>2 DEF OldCiphertextPending
<1> QED BY <1>1, <1>2, <1>3, <1>4, <1>5, EndsOK DEF KeysTypeOK

LEMMA OnlyEndsOK ==
  ASSUME KeysConstantsOK, KeysInv, NEW c \in Commands,
         RotateMistyped(c) \/ RotateKeyNeeded(c) \/ RotateWrongKey(c) \/ NotOpened(c)
           \/ KeyReplaced(c) \/ Export(c) \/ Killed(c)
  PROVE  KeysInv'
<1>1. ProcOK(c) /\ {"", "failed", "done"} \subseteq Outcomes
  BY DEF KeysInv, Outcomes
<1>2. CASE RotateMistyped(c) \/ RotateKeyNeeded(c) \/ RotateWrongKey(c) \/ NotOpened(c)
  BY <1>2, RefuseOK DEF RotateMistyped, RotateKeyNeeded, RotateWrongKey, NotOpened
<1>3. CASE KeyReplaced(c)
  BY <1>1, <1>3, EndOK DEF KeyReplaced, Unlocked, ProcOK
<1>4. CASE Export(c)
  BY <1>1, <1>4, EndOK DEF Export, Unlocked, ProcOK
<1>5. CASE Killed(c)
  BY <1>1, <1>5, EndOK DEF Killed
<1> QED BY <1>2, <1>3, <1>4, <1>5

-----------------------------------------------------------------------------
(* The server, which no rotation and no import runs beside. *)

LEMMA KeyringTyped ==
  ASSUME KeysConstantsOK, KeysInv, owner \in {"server", None}, owner' \in {"server", None},
         server' # None => owner' = "server", server' \in [dek : Names \cup {None}] \cup {None},
         slots' \in Slots, stored' \subseteq Names, residue' \subseteq Names,
         wal' \in BOOLEAN, pending' \in BOOLEAN,
         UNCHANGED <<copies, proc, told, histories>>,
         SlotsOpenData', OldCiphertextPending'
  PROVE  KeysInv'
<1>1. KeysTypeOK /\ UNCHANGED <<replaced, overtaken, disturbed, misled>>
  BY DEF KeysInv, histories
<1>2. KeysTypeOK'
  BY <1>1 DEF KeysTypeOK
<1>3. \A d \in Commands : owner # d
  BY DEF KeysConstantsOK, Names
<1>4. \A d \in Commands : ProcOK(d)'
  BY <1>1, <1>3, OthersKeep
<1>5. RotationTold'
  BY <1>1 DEF KeysInv, RotationTold
<1> QED BY <1>2, <1>4, <1>5 DEF KeysInv

LEMMA BootOK ==
  ASSUME KeysConstantsOK, KeysInv, NEW env \in UnattendedKeys \cup {None}, Boot(env)
  PROVE  KeysInv'
<1>1. KeysTypeOK /\ SlotsOpenData /\ OldCiphertextPending
  BY DEF KeysInv
<1>2. /\ owner = None /\ owner' = "server" /\ server' = [dek |-> BootKey(env).dek] /\ wal' = TRUE
      /\ UNCHANGED <<slots, stored, copies, proc, told>> /\ UNCHANGED histories
      /\ UNCHANGED <<replaced, overtaken, disturbed, misled>>
      /\ Scrub \/ UNCHANGED <<residue, pending>>
  BY DEF Boot, histories
<1>3. /\ BootKey(env).dek \in Names \cup {None}
      /\ ~overtaken => BootKey(env).dek \in {None, slots.passphrase.dek}
  BY <1>1 DEF BootKey, Unwrap, KeysTypeOK, Slots, Slot, SlotsOpenData
<1>4. server' \in [dek : Names \cup {None}] /\ server'.dek = BootKey(env).dek
  BY <1>2, <1>3
<1>5. SlotsOpenData'
  BY <1>1, <1>2, <1>3, <1>4 DEF SlotsOpenData, Readable
<1>6. residue' \subseteq Names /\ pending' \in BOOLEAN /\ OldCiphertextPending'
  BY <1>1, <1>2, ScrubKeeps DEF KeysTypeOK, OldCiphertextPending
<1> QED BY <1>1, <1>2, <1>4, <1>5, <1>6, KeyringTyped DEF KeysTypeOK

LEMMA SignInOK ==
  ASSUME KeysConstantsOK, KeysInv, SignIn
  PROVE  KeysInv'
<1>1. KeysTypeOK /\ SlotsOpenData /\ OldCiphertextPending /\ server # None
  BY DEF KeysInv, SignIn
<1>2. /\ server' = [dek |-> slots.passphrase.dek] /\ UNCHANGED <<copies, owner, proc, told, histories>>
      /\ UNCHANGED <<slots, stored, wal, residue, pending, replaced, overtaken>>
  BY DEF SignIn, database, histories
<1>3. server' \in [dek : Names \cup {None}] /\ server'.dek = slots.passphrase.dek
  BY <1>1, <1>2 DEF KeysTypeOK, Slots, Slot
<1>4. SlotsOpenData' /\ OldCiphertextPending'
  BY <1>1, <1>2, <1>3 DEF SlotsOpenData, Readable, OldCiphertextPending
<1> QED BY <1>1, <1>2, <1>3, <1>4, KeyringTyped DEF KeysTypeOK

LEMMA ChangePassphraseOK ==
  ASSUME KeysConstantsOK, KeysInv, NEW p \in Passphrases, ChangePassphrase(p)
  PROVE  KeysInv'
<1>1. KeysTypeOK /\ SlotsOpenData /\ OldCiphertextPending /\ server # None /\ server.dek # None
  BY DEF KeysInv, ChangePassphrase
<1>2. /\ slots' = [slots EXCEPT !.passphrase = [secret |-> p, dek |-> server.dek]]
      /\ UNCHANGED <<stored, wal, residue, pending, copies, owner, server, proc, told, histories>>
      /\ UNCHANGED <<replaced, overtaken>>
  BY DEF ChangePassphrase, histories
<1>3. [secret |-> p, dek |-> server.dek] \in Slot(Passphrases)
  BY <1>1 DEF KeysTypeOK, Slot
<1>4. /\ slots' \in Slots /\ slots'.passphrase.dek = server.dek
      /\ slots'.recovery = slots.recovery /\ slots'.unattended = slots.unattended
  BY <1>1, <1>2, <1>3 DEF KeysTypeOK, Slots
<1>5. SlotsOpenData' /\ OldCiphertextPending'
  BY <1>1, <1>2, <1>4 DEF SlotsOpenData, Readable, OldCiphertextPending
<1> QED BY <1>1, <1>2, <1>4, <1>5, KeyringTyped DEF KeysTypeOK

LEMMA SaveOK ==
  ASSUME KeysConstantsOK, KeysInv, Save
  PROVE  KeysInv'
<1>1. KeysTypeOK /\ SlotsOpenData /\ OldCiphertextPending /\ server # None /\ server.dek # None
  BY DEF KeysInv, Save
<1>2. /\ stored' = stored \cup {server.dek}
      /\ UNCHANGED <<slots, wal, residue, pending, copies, owner, server, proc, told, histories>>
      /\ UNCHANGED <<replaced, overtaken>>
  BY DEF Save, histories
<1>3. server.dek \in Names
  BY <1>1 DEF KeysTypeOK
<1>4. SlotsOpenData' /\ OldCiphertextPending'
  BY <1>1, <1>2 DEF SlotsOpenData, Readable, OldCiphertextPending
<1> QED BY <1>1, <1>2, <1>3, <1>4, KeyringTyped DEF KeysTypeOK

LEMMA StopOK ==
  ASSUME KeysConstantsOK, KeysInv, Stop
  PROVE  KeysInv'
<1>1. KeysTypeOK /\ SlotsOpenData /\ OldCiphertextPending /\ server # None
  BY DEF KeysInv, Stop
<1>2. /\ server' = None /\ owner' = None /\ UNCHANGED <<copies, proc, told, histories>>
      /\ UNCHANGED <<slots, stored, wal, residue, pending, replaced, overtaken>>
  BY DEF Stop, database, histories
<1>3. SlotsOpenData' /\ OldCiphertextPending'
  BY <1>1, <1>2 DEF SlotsOpenData, Readable, OldCiphertextPending
<1> QED BY <1>1, <1>2, <1>3, KeyringTyped DEF KeysTypeOK
-----------------------------------------------------------------------------
LEMMA KeysInitOK ==
  ASSUME KeysConstantsOK, KeysInit
  PROVE  KeysInv
<1>1. slots \in Slots /\ slots.passphrase.dek = Past /\ slots.recovery.dek = Past
      /\ (slots.unattended # None => slots.unattended.dek = Past)
  <2>1. PICK p \in Passphrases : \E u \in {None} \cup [secret : UnattendedKeys, dek : {Past}] :
          slots = [passphrase |-> [secret |-> p, dek |-> Past],
                   recovery |-> [secret |-> Past, dek |-> Past], unattended |-> u]
    BY DEF KeysInit
  <2>2. PICK u \in {None} \cup [secret : UnattendedKeys, dek : {Past}] :
          slots = [passphrase |-> [secret |-> p, dek |-> Past],
                   recovery |-> [secret |-> Past, dek |-> Past], unattended |-> u]
    BY <2>1
  <2> QED BY <2>2 DEF Slots, Slot, Names
<1>2. /\ stored \in {{}, {Past}} /\ wal \in BOOLEAN /\ residue = {} /\ pending = FALSE
      /\ copies = [c \in Commands |-> None] /\ owner = None /\ server = None
      /\ proc = [c \in Commands |-> Idle] /\ told = [c \in Commands |-> ""]
      /\ replaced = [c \in Commands |-> None]
      /\ overtaken = FALSE /\ disturbed = {} /\ misled = {}
  BY DEF KeysInit
<1>3. KeysTypeOK
  <2>1. told \in [Commands -> Outcomes]
    <3>1. "" \in Outcomes
      BY DEF Outcomes
    <3> QED BY <1>2, <3>1
  <2>2. proc \in [Commands -> Locals]
    BY <1>2, IdleTyped
  <2>3. stored \subseteq Names /\ residue \subseteq Names /\ owner \in Commands \cup {"server", None}
    BY <1>2 DEF Names
  <2>4. /\ copies \in [Commands -> Copies \cup {None}]
        /\ replaced \in [Commands -> Names \cup {None}]
        /\ server \in [dek : Names \cup {None}] \cup {None}
    BY <1>2
  <2> QED BY <1>1, <1>2, <2>1, <2>2, <2>3, <2>4 DEF KeysTypeOK
<1>4. SlotsOpenData
  <2>1. stored \subseteq {Past} /\ \A c \in Commands : replaced[c] = None
    BY <1>2
  <2> QED BY <1>1, <1>2, <2>1 DEF SlotsOpenData, Readable
<1>5. RotationTold /\ OldCiphertextPending
  BY <1>2 DEF RotationTold, OldCiphertextPending
<1>6. \A c \in Commands : ProcOK(c)
  BY <1>2 DEF ProcOK, Idle, Rotating, Copied
<1> QED BY <1>3, <1>4, <1>5, <1>6 DEF KeysInv

LEMMA KeysNextOK ==
  ASSUME KeysConstantsOK, KeysInv, [KeysNext]_keyVars
  PROVE  KeysInv'
<1>1. CASE UNCHANGED keyVars
  <2>1. UNCHANGED <<slots, stored, wal, residue, pending, copies, owner, server, proc, told,
                    replaced, overtaken, disturbed, misled>>
    BY <1>1 DEF keyVars, database, histories
  <2>2. KeysTypeOK'
    BY <2>1 DEF KeysInv, KeysTypeOK
  <2>3. SlotsOpenData' /\ RotationTold' /\ OldCiphertextPending'
    BY <2>1 DEF KeysInv, SlotsOpenData, Readable, RotationTold, OldCiphertextPending
  <2>4. ASSUME NEW c \in Commands
        PROVE  ProcOK(c)'
    <3>1. ProcOK(c)
      BY DEF KeysInv
    <3>2. Keeps(c) <=> Keeps(c)'
      BY <2>1 DEF Keeps
    <3>3. Unwrap(slots.passphrase, proc[c].secret) = Unwrap(slots.passphrase, proc[c].secret)'
      BY <2>1 DEF Unwrap
    <3> QED BY ZenonT(60), <2>1, <3>1, <3>2, <3>3 DEF ProcOK
  <2> QED BY <2>2, <2>3, <2>4 DEF KeysInv
<1>2. ASSUME NEW c \in Commands, NEW p \in Passphrases, NEW env \in UnattendedKeys \cup {None},
             NEW drop \in BOOLEAN, StartRotate(c, p, env, drop)
      PROVE  KeysInv'
  BY <1>2, StartRotateOK
<1>3. ASSUME NEW c \in Commands,
             RotateVerified(c) \/ RotateUnlocked(c) \/ RotateChecked(c) \/ RotateLands(c)
               \/ RotateFails(c) \/ RotateStaysOpen(c) \/ RotateScrubs(c)
      PROVE  KeysInv'
  BY <1>3, RotateVerifiedOK, RotateUnlockedOK, RotateCheckedOK, RotateLandsOK, RotateFailsOK,
     RotateStaysOpenOK, RotateScrubsOK
<1>4. ASSUME NEW c \in Commands, NEW kind \in Kinds, NEW env \in UnattendedKeys \cup {None},
             NEW dek \in UnlockDatabase, StartCommand(c, kind, env, dek)
      PROVE  KeysInv'
  BY <1>4, StartCommandOK
<1>5. ASSUME NEW c \in Commands,
             AddChecked(c) \/ AddUnattended(c) \/ RemoveUnattended(c) \/ RotateRecovery(c)
               \/ Import(c)
      PROVE  KeysInv'
  BY <1>5, AddCheckedOK, AddUnattendedOK, RemoveUnattendedOK, RotateRecoveryOK, ImportOK
<1>6. ASSUME NEW c \in Commands,
             RotateMistyped(c) \/ RotateKeyNeeded(c) \/ RotateWrongKey(c) \/ NotOpened(c)
               \/ KeyReplaced(c) \/ Export(c) \/ Killed(c)
      PROVE  KeysInv'
  BY <1>6, OnlyEndsOK
<1>7. ASSUME NEW env \in UnattendedKeys \cup {None}, Boot(env) PROVE KeysInv'
  BY <1>7, BootOK
<1>8. ASSUME NEW p \in Passphrases, ChangePassphrase(p) PROVE KeysInv'
  BY <1>8, ChangePassphraseOK
<1>9. CASE SignIn \/ Save \/ Stop
  BY <1>9, SignInOK, SaveOK, StopOK
<1> QED BY <1>1, <1>2, <1>3, <1>4, <1>5, <1>6, <1>7, <1>8, <1>9 DEF KeysNext

(* The inductive invariant: it adds to the invariants what a command keeps *)
(* between its steps.                                                      *)
THEOREM KeysInvariant ==
  ASSUME KeysConstantsOK
  PROVE  KeysSpec => []KeysInv
<1>1. KeysInit => KeysInv
  BY KeysInitOK
<1>2. KeysInv /\ [KeysNext]_keyVars => KeysInv'
  BY KeysNextOK
<1> QED BY <1>1, <1>2, PTL DEF KeysSpec

(* Types: the slots, the copies and the commands stay of their kinds.      *)
THEOREM KeysTypeCorrect ==
  ASSUME KeysConstantsOK
  PROVE  KeysSpec => []KeysTypeOK
<1>1. KeysInv => KeysTypeOK
  BY DEF KeysInv
<1> QED BY <1>1, KeysInvariant, PTL

(* Every slot opens the data, in any order of any number of commands, and  *)
(* a rotation's own copy opens with the slots it was made under            *)
(* (keyslots.ts:208, rotate.ts:103).                                       *)
THEOREM SlotsAlwaysOpenData ==
  ASSUME KeysConstantsOK
  PROVE  KeysSpec => []SlotsOpenData
<1>1. KeysInv => SlotsOpenData
  BY DEF KeysInv
<1> QED BY <1>1, KeysInvariant, PTL

(* A rotation that landed is never reported as a failure (rotate.ts:183).  *)
THEOREM RotationAlwaysTold ==
  ASSUME KeysConstantsOK
  PROVE  KeysSpec => []RotationTold
<1>1. KeysInv => RotationTold
  BY DEF KeysInv
<1> QED BY <1>1, KeysInvariant, PTL

(* What a replaced key sealed is only left in the file while its clean-up  *)
(* is noted as pending (upgrade.ts:301).                                   *)
THEOREM OldCiphertextAlwaysPending ==
  ASSUME KeysConstantsOK
  PROVE  KeysSpec => []OldCiphertextPending
<1>1. KeysInv => OldCiphertextPending
  BY DEF KeysInv
<1> QED BY <1>1, KeysInvariant, PTL

LEMMA LandsCarries ==
  ASSUME KeysConstantsOK, KeysInv, NEW c \in Commands, RotateLands(c), c \notin disturbed
  PROVE  IF slots.unattended = None \/ (proc[c].drop /\ proc[c].env = None)
         THEN slots'.unattended = None
         ELSE slots'.unattended # None /\ slots'.unattended.secret = slots.unattended.secret
<1>1. proc[c].at = "rotate-prepare" /\ slots' = NewSlots(c) /\ ProcOK(c) /\ KeysTypeOK
  BY DEF RotateLands, KeysInv
<1>2. proc[c].seen = slots.unattended /\ Keeps(c)
  BY <1>1 DEF ProcOK, Copied
<1>3. slots'.unattended = IF proc[c].keep = None THEN None ELSE [secret |-> proc[c].keep, dek |-> c]
  BY <1>1 DEF NewSlots
<1>4. proc[c].keep # None => slots'.unattended \in Slot(UnattendedKeys) /\ slots'.unattended # None
  BY <1>1, <1>3 DEF KeysTypeOK, Locals, Slot, Names, KeysConstantsOK
<1> QED BY <1>2, <1>3, <1>4 DEF Keeps

(* Only the landing of a rotation moves what it replaced.                  *)
LEMMA OnlyLandsReplaces ==
  ASSUME KeysTypeOK, [KeysNext]_keyVars, ~\E c \in Commands : RotateLands(c)
  PROVE  replaced' = replaced
<1>1. CASE UNCHANGED keyVars
  BY <1>1 DEF keyVars, histories
<1>2. ASSUME NEW c \in Commands, NEW p, NEW env, NEW drop,
             StartRotate(c, p, env, drop) \/ RotateVerified(c) \/ RotateMistyped(c)
               \/ RotateUnlocked(c) \/ RotateKeyNeeded(c) \/ RotateChecked(c) \/ RotateWrongKey(c)
      PROVE  replaced' = replaced
  BY <1>2 DEF histories, StartRotate, RotateVerified, RotateMistyped, Refuse, RotateUnlocked,
     RotateKeyNeeded, RotateChecked, RotateWrongKey
<1>3. ASSUME NEW c \in Commands, RotateFails(c) \/ RotateStaysOpen(c) \/ RotateScrubs(c)
      PROVE  replaced' = replaced
  BY <1>3 DEF histories, RotateFails, RotateStaysOpen, RotateScrubs
<1>4. ASSUME NEW c \in Commands, NEW kind, NEW env, NEW dek,
             StartCommand(c, kind, env, dek) \/ NotOpened(c) \/ AddChecked(c) \/ AddUnattended(c)
               \/ RemoveUnattended(c)
      PROVE  replaced' = replaced
  BY <1>4 DEF histories, StartCommand, Refuse, NotOpened, AddChecked, AddUnattended, RemoveUnattended
<1>5. ASSUME NEW c \in Commands,
             RotateRecovery(c) \/ KeyReplaced(c) \/ Export(c) \/ Import(c) \/ Killed(c)
      PROVE  replaced' = replaced
  BY <1>5 DEF histories, RotateRecovery, KeyReplaced, Refuse, Export, Import, Killed
<1>6. ASSUME NEW p, NEW env, Boot(env) \/ SignIn \/ ChangePassphrase(p) \/ Save \/ Stop
      PROVE  replaced' = replaced
  BY <1>6 DEF histories, Boot, SignIn, ChangePassphrase, Save, Stop
<1> QED BY <1>1, <1>2, <1>3, <1>4, <1>5, <1>6 DEF KeysNext

(* A rotation keeps the unattended slot under the key that opened it, and  *)
(* drops it only when asked to, unless another command changes the slot    *)
(* meanwhile (rotate.ts:123).                                              *)
THEOREM UnattendedAlwaysCarried ==
  ASSUME KeysConstantsOK
  PROVE  KeysSpec => UnattendedCarried
<1>1. KeysInv /\ [KeysNext]_keyVars => [CarriesUnattended]_keyVars
  <2> SUFFICES ASSUME KeysInv, [KeysNext]_keyVars PROVE CarriesUnattended
    OBVIOUS
  <2>1. CASE ~\E c \in Commands : RotateLands(c)
    BY <2>1, OnlyLandsReplaces DEF KeysInv, CarriesUnattended
  <2>2. ASSUME NEW c \in Commands, RotateLands(c) PROVE CarriesUnattended
    <3>1. \A d \in Commands \ {c} : replaced'[d] = replaced[d]
      BY <2>2 DEF RotateLands, KeysInv, KeysTypeOK
    <3> QED BY <2>2, <3>1, LandsCarries DEF CarriesUnattended
  <2> QED BY <2>1, <2>2
<1> QED BY <1>1, KeysInvariant, PTL DEF KeysSpec, UnattendedCarried

-----------------------------------------------------------------------------
(* BrowserSession: the inductive invariant. *)

Answers ==
  {Null} \cup [is : {"refused", "already", "ok", "locked", "ended"}]
    \cup [is : {"ok"}, sid : Nat, key : Nat \cup {Null}]
    \cup [is : {"status"}, sid : Nat, setup : BOOLEAN, live : BOOLEAN, locked : BOOLEAN,
          protected : BOOLEAN, upgrade : Told]

Fetches ==
  [kind : Forms \cup {"status", "data", "logout", Null},
   then : {"init", "sign-in", "already", "none", Null},
   sid : Nat, key : Nat \cup {Null}, mine : BOOLEAN, answer : Answers]

(* What is known of fetch n while screen s is shown and m sessions have    *)
(* been opened.                                                            *)
AnswerOK(n, m) ==
  /\ n.kind \in {"setup", "login", "recover"} /\ n.answer # Null /\ n.answer.is = "ok" =>
       n.answer.sid \in 1..m /\ n.answer.key \in 1..MaxKeys \cup {Null}
  /\ n.kind \in {"upgrade", "rotate"} /\ n.answer # Null /\ n.answer.is = "ok" =>
       n.answer.key \in 1..MaxKeys
  /\ n.kind = "status" /\ n.answer # Null =>
       n.answer.upgrade \in Told /\ n.answer.locked \in BOOLEAN /\ n.answer.live \in BOOLEAN
         /\ n.answer.protected \in BOOLEAN

(* The forms that make a key are on a screen of their own.                 *)
Suits(kind, s) ==
  /\ kind \in {"setup", "upgrade"} => s = kind
  /\ kind \in {"rotate", "confirm"} => s = "recovery-key"

FetchOK(n, s, m) ==
  /\ n \in Fetches /\ n.sid \in 0..m /\ AnswerOK(n, m)
  /\ n.then # Null => n.kind = "status"
  /\ n.mine => Suits(n.kind, s)

NetOK == net \in [Calls -> Fetches] /\ \A c \in Calls : FetchOK(net[c], screen, issued)

ServerOK ==
  /\ stage \in {"empty", "plain", "unconfirmed", "confirmed"}
  /\ key \in 0..MaxKeys /\ issued \in 0..MaxSessions /\ live \subseteq 1..issued
  /\ cookie \in 0..issued /\ excused \in BOOLEAN

AppOK ==
  /\ screen \in Screens /\ upgrade \in Told
  /\ signedIn \in BOOLEAN /\ locked \in BOOLEAN /\ canRecover \in BOOLEAN /\ skipped \in BOOLEAN
  /\ fresh \in [key : 1..MaxKeys, first : BOOLEAN] \cup {Null}
  /\ page \in [shown : 1..MaxKeys \cup {Null}, first : BOOLEAN, done : BOOLEAN]

SigningIn == \E c \in Calls : net[c].then = "sign-in"

Asked ==
  screen \in {"app", "api-keys"} /\ cookie \in live /\ stage = "unconfirmed" =>
    excused \/ SigningIn

BrowserInv == NetOK /\ ServerOK /\ AppOK /\ Asked

-----------------------------------------------------------------------------
(* Fetches that are set, and fetches that are kept.                        *)

LEMMA FreeTyped ==
  /\ Free \in Fetches /\ Free.sid = 0 /\ Free.then = Null /\ Free.mine = FALSE
  /\ Free.answer = Null
<1>1. Null \in Answers
  BY DEF Answers
<1> QED BY <1>1 DEF Free, Fetches

LEMMA FreeOK ==
  ASSUME NEW s, NEW m \in Nat
  PROVE  FetchOK(Free, s, m)
BY FreeTyped DEF FetchOK, AnswerOK

LEMMA StatusOK ==
  ASSUME NEW s, NEW m \in Nat,
         NEW then \in {"init", "sign-in", "already", "none"}, NEW sid \in 0..m
  PROVE  FetchOK(Status(then, sid), s, m) /\ Status(then, sid).then = then
<1> DEFINE n == [Free EXCEPT !.kind = "status", !.then = then, !.sid = sid]
<1>1. n \in Fetches
  <2>1. sid \in Nat
    OBVIOUS
  <2> QED BY <2>1, FreeTyped DEF Fetches
<1>2. n.kind = "status" /\ n.then = then /\ n.sid = sid /\ n.mine = FALSE /\ n.answer = Null
  BY FreeTyped DEF Fetches
<1> HIDE DEF n
<1>3. FetchOK(n, s, m)
  BY <1>1, <1>2 DEF FetchOK, AnswerOK
<1> QED BY <1>2, <1>3 DEF n, Status

Sent(kind, sid, k) == [Free EXCEPT !.kind = kind, !.sid = sid, !.key = k, !.mine = TRUE]

LEMMA SentOK ==
  ASSUME NEW s, NEW m \in Nat, NEW kind \in Forms \cup {"data", "logout"},
         NEW sid \in 0..m, NEW k \in Nat \cup {Null},
         Suits(kind, s)
  PROVE  FetchOK(Sent(kind, sid, k), s, m) /\ Sent(kind, sid, k).then = Null
<1> DEFINE n == Sent(kind, sid, k)
<1>1. n \in Fetches
  <2>1. sid \in Nat
    OBVIOUS
  <2> QED BY <2>1, FreeTyped DEF Fetches, Sent
<1>2. n.kind = kind /\ n.then = Null /\ n.sid = sid /\ n.answer = Null
  BY FreeTyped DEF Fetches, Sent
<1> HIDE DEF n
<1>3. FetchOK(n, s, m) /\ n.then = Null
  BY <1>1, <1>2 DEF FetchOK, AnswerOK
<1> QED BY <1>3 DEF n

LEMMA AnsweredOK ==
  ASSUME NEW s, NEW m \in Nat, NEW m2 \in Nat, m <= m2, NEW n, FetchOK(n, s, m),
         NEW a \in Answers, AnswerOK([n EXCEPT !.answer = a], m2)
  PROVE  FetchOK([n EXCEPT !.answer = a], s, m2) /\ [n EXCEPT !.answer = a].then = n.then
<1> DEFINE o == [n EXCEPT !.answer = a]
<1>1. /\ o \in Fetches /\ o.sid = n.sid /\ o.then = n.then /\ o.kind = n.kind /\ o.mine = n.mine
  BY DEF FetchOK, Fetches
<1> HIDE DEF o
<1>2. FetchOK(o, s, m2)
  BY <1>1 DEF FetchOK, o
<1> QED BY <1>1, <1>2 DEF o

LEMMA LaterOK ==
  ASSUME NEW s, NEW m \in Nat, NEW m2 \in Nat, m <= m2, NEW n, FetchOK(n, s, m)
  PROVE  FetchOK(n, s, m2)
BY DEF FetchOK, AnswerOK

LEMMA SetOK ==
  ASSUME NetOK, issued \in Nat, issued' \in Nat, issued <= issued', screen' = screen,
         NEW c \in Calls, NEW n, FetchOK(n, screen, issued'), net' = [net EXCEPT ![c] = n]
  PROVE  NetOK' /\ net'[c] = n /\ \A q \in Calls \ {c} : net'[q] = net[q]
<1>1. n \in Fetches
  BY DEF FetchOK
<1>2. net' \in [Calls -> Fetches] /\ net'[c] = n /\ \A q \in Calls \ {c} : net'[q] = net[q]
  BY <1>1 DEF NetOK
<1>3. \A q \in Calls \ {c} : FetchOK(net[q], screen, issued')
  BY LaterOK DEF NetOK
<1> QED BY <1>2, <1>3 DEF NetOK

LEMMA ShowOK ==
  ASSUME NetOK, AppOK, issued' = issued, NEW c, NEW n, NEW s \in Screens,
         NEW f \in [key : 1..MaxKeys, first : BOOLEAN] \cup {Null}, Show(c, n, s, f),
         c \in Calls => FetchOK(n, s, issued)
  PROVE  /\ NetOK' /\ screen' = s /\ fresh' = f
         /\ page' \in [shown : 1..MaxKeys \cup {Null}, first : BOOLEAN, done : BOOLEAN]
         /\ \A q \in Calls : q # c => net'[q].then = net[q].then
         /\ c \in Calls => net'[c] = n
<1>1. screen' = s /\ fresh' = f
  BY DEF Show
<1>2. page' \in [shown : 1..MaxKeys \cup {Null}, first : BOOLEAN, done : BOOLEAN]
  BY DEF Show, Page, AppOK
<1>3. ASSUME NEW q \in Calls, q # c
      PROVE  /\ net'[q].then = net[q].then /\ net'[q] \in Fetches /\ FetchOK(net'[q], s, issued)
  <2>1. net'[q] = [net[q] EXCEPT !.mine = net[q].mine /\ s = screen]
    BY <1>3 DEF Show
  <2>2. net[q] \in Fetches /\ FetchOK(net[q], screen, issued)
    BY DEF NetOK
  <2>3. /\ net'[q] \in Fetches /\ net'[q].mine = (net[q].mine /\ s = screen)
        /\ net'[q].kind = net[q].kind /\ net'[q].then = net[q].then /\ net'[q].sid = net[q].sid
        /\ net'[q].answer = net[q].answer
    BY <2>1, <2>2 DEF Fetches
  <2> QED BY <2>2, <2>3 DEF FetchOK, AnswerOK
<1>4. c \in Calls => net'[c] = n /\ n \in Fetches
  BY DEF Show, FetchOK
<1>5. net' \in [Calls -> Fetches]
  <2>1. net' = [q \in Calls |-> net'[q]]
    BY DEF Show
  <2>2. \A q \in Calls : net'[q] \in Fetches
    BY <1>3, <1>4
  <2> QED BY <2>1, <2>2
<1>6. \A q \in Calls : FetchOK(net'[q], s, issued)
  BY <1>3, <1>4
<1> QED BY <1>1, <1>2, <1>3, <1>4, <1>5, <1>6 DEF NetOK
-----------------------------------------------------------------------------
(* What the server does: it answers fetch c, and may make a session or a   *)
(* key.                                                                    *)

Served(c) ==
  /\ \E a \in Answers :
       net' = [net EXCEPT ![c].answer = a] /\ AnswerOK([net[c] EXCEPT !.answer = a], issued')
  /\ stage' \in {"empty", "plain", "unconfirmed", "confirmed"}
  /\ key' \in 0..MaxKeys /\ issued' \in 0..MaxSessions /\ live' \subseteq 1..issued'
  /\ issued <= issued'
  /\ stage' = "unconfirmed" /\ cookie \in live' =>
       /\ cookie \in live
       /\ \/ stage = "unconfirmed"
          \/ key' # key /\ (net[c].mine => screen \notin {"app", "api-keys"})

LEMMA ServedOK ==
  ASSUME BrowserConstantsOK, BrowserInv, NEW c \in Calls, Served(c),
         excused' = (excused \/ (key' # key /\ ~net[c].mine)), UNCHANGED <<cookie, app, page>>
  PROVE  BrowserInv'
<1>1. ServerOK /\ AppOK /\ NetOK /\ Asked
  BY DEF BrowserInv
<1>2. PICK a \in Answers :
        net' = [net EXCEPT ![c].answer = a] /\ AnswerOK([net[c] EXCEPT !.answer = a], issued')
  BY DEF Served
<1>3. issued \in Nat /\ issued' \in Nat /\ issued <= issued' /\ screen' = screen
  BY <1>1 DEF ServerOK, Served, app, BrowserConstantsOK
<1>4. FetchOK(net[c], screen, issued)
  BY <1>1 DEF NetOK
<1> DEFINE n == [net[c] EXCEPT !.answer = a]
<1>5. FetchOK(n, screen, issued') /\ n.then = net[c].then
  BY <1>2, <1>3, <1>4, AnsweredOK
<1>6. net' = [net EXCEPT ![c] = n]
  BY <1>2
<1> HIDE DEF n
<1>7. NetOK' /\ net'[c] = n /\ \A q \in Calls \ {c} : net'[q] = net[q]
  BY <1>1, <1>3, <1>5, <1>6, SetOK
<1>8. SigningIn => SigningIn'
  BY <1>5, <1>7 DEF SigningIn
<1>9. ServerOK'
  BY <1>1, <1>3 DEF ServerOK, Served, BrowserConstantsOK
<1>10. AppOK'
  BY <1>1 DEF AppOK, app
<1>11. Asked'
  BY <1>1, <1>3, <1>8 DEF Asked, Served, ServerOK
<1> QED BY <1>7, <1>9, <1>10, <1>11 DEF BrowserInv

(* Answers that make nothing.                                              *)
LEMMA PlainServed ==
  ASSUME BrowserInv, BrowserConstantsOK, NEW c \in Calls, NEW a \in Answers, Answer(c, a), UNCHANGED serverSide,
         net[c].kind = "status" =>
           a.upgrade \in Told /\ a.locked \in BOOLEAN /\ a.live \in BOOLEAN /\ a.protected \in BOOLEAN,
         net[c].kind \in {"setup", "login", "recover", "upgrade", "rotate"} => a.is # "ok"
  PROVE  Served(c)
<1>1. net[c] \in Fetches
  BY DEF BrowserInv, NetOK
<1>2. [net[c] EXCEPT !.answer = a].kind = net[c].kind /\ [net[c] EXCEPT !.answer = a].answer = a
  BY <1>1 DEF Fetches
<1>3. AnswerOK([net[c] EXCEPT !.answer = a], issued')
  BY <1>2 DEF AnswerOK
<1>4. UNCHANGED <<stage, key, live, issued>> /\ ServerOK /\ net' = [net EXCEPT ![c].answer = a]
  BY DEF BrowserInv, Answer, serverSide
<1>5. /\ stage' \in {"empty", "plain", "unconfirmed", "confirmed"}
      /\ key' \in 0..MaxKeys /\ issued' \in 0..MaxSessions /\ live' \subseteq 1..issued'
      /\ issued <= issued'
  BY <1>4 DEF ServerOK, BrowserConstantsOK
<1>6. \E b \in Answers :
        net' = [net EXCEPT ![c].answer = b] /\ AnswerOK([net[c] EXCEPT !.answer = b], issued')
  BY <1>3, <1>4
<1> QED BY <1>4, <1>5, <1>6 DEF Served

LEMMA PlainAnswers ==
  /\ Refused \in Answers
  /\ \A w \in {"refused", "already", "ok", "locked", "ended"} : [is |-> w] \in Answers
BY DEF Refused, Answers

LEMMA OpenedServed ==
  ASSUME BrowserInv, BrowserConstantsOK, NEW c \in Calls, NEW sid, NEW k \in 1..MaxKeys \cup {Null},
         Answer(c, Opened(sid, "ok", k)), issued' \in Nat, sid \in 1..issued',
         net[c].kind \in {"upgrade", "rotate"} => k # Null, net[c].kind # "status"
  PROVE  \E a \in Answers :
           net' = [net EXCEPT ![c].answer = a] /\ AnswerOK([net[c] EXCEPT !.answer = a], issued')
<1> DEFINE a == Opened(sid, "ok", k)
<1>1. net[c] \in Fetches
  BY DEF BrowserInv, NetOK
<1>2. a \in Answers /\ a.sid = sid /\ a.key = k
  <2>1. sid \in Nat /\ k \in Nat \cup {Null}
    BY DEF BrowserConstantsOK
  <2>2. a = [is |-> "ok", sid |-> sid, key |-> k]
    BY DEF Opened
  <2> QED BY <2>1, <2>2 DEF Answers
<1>3. net' = [net EXCEPT ![c].answer = a]
  BY DEF Answer
<1> HIDE DEF a
<1>4. [net[c] EXCEPT !.answer = a].kind = net[c].kind /\ [net[c] EXCEPT !.answer = a].answer = a
  BY <1>1 DEF Fetches
<1>5. AnswerOK([net[c] EXCEPT !.answer = a], issued')
  BY <1>2, <1>4 DEF AnswerOK
<1> QED BY <1>2, <1>3, <1>5

LEMMA NewSessionOK ==
  ASSUME BrowserInv, BrowserConstantsOK, NEW old, NEW others \in SUBSET live, NewSession(old, others)
  PROVE  /\ issued' \in 0..MaxSessions /\ live' \subseteq 1..issued' /\ issued <= issued'
         /\ issued' \in Nat /\ issued + 1 \in 1..issued'
         /\ cookie \in live' => cookie \in live
<1>1. /\ issued \in Nat /\ MaxSessions \in Nat /\ cookie \in 0..issued /\ live \subseteq 1..issued
  BY DEF BrowserInv, ServerOK, BrowserConstantsOK
<1>2. issued' = issued + 1 /\ issued < MaxSessions /\ live' = (others \ {old}) \cup {issued + 1}
  BY DEF NewSession
<1>3. /\ issued' \in 0..MaxSessions /\ issued <= issued' /\ issued' \in Nat
      /\ issued + 1 \in 1..issued' /\ cookie # issued + 1
  BY <1>1, <1>2
<1>4. \A x \in live : x \in 1..issued'
  BY <1>1, <1>2
<1> QED BY <1>2, <1>3, <1>4

LEMMA NewKeyOK ==
  ASSUME BrowserInv, BrowserConstantsOK, NewKey
  PROVE  key' \in 0..MaxKeys /\ key + 1 \in 1..MaxKeys /\ key' # key
BY DEF BrowserInv, ServerOK, NewKey, BrowserConstantsOK
LEMMA ServeStatusOK ==
  ASSUME BrowserInv, BrowserConstantsOK, NEW c \in Calls, ServeStatus(c)
  PROVE  Served(c)
<1>1. PICK a \in StatusAnswer(net[c].sid) : Answer(c, a)
  BY DEF ServeStatus
<1>2. PICK l \in {FALSE, Protected /\ live = {}} :
        a = [is |-> "status", sid |-> net[c].sid, setup |-> (stage = "empty"),
             live |-> (net[c].sid \in live), locked |-> l, protected |-> Protected,
             upgrade |-> UpgradeState(net[c].sid)]
  BY <1>1 DEF StatusAnswer
<1>3. UpgradeState(net[c].sid) \in Told
  BY DEF UpgradeState, Told
<1>4. net[c].sid \in Nat /\ l \in BOOLEAN /\ Protected \in BOOLEAN
  <2>1. net[c] \in Fetches
    BY DEF BrowserInv, NetOK
  <2>2. Protected \in BOOLEAN
    BY DEF Protected
  <2> QED BY <2>1, <2>2 DEF Fetches
<1>5. /\ a.upgrade \in Told /\ a.locked \in BOOLEAN /\ a.live \in BOOLEAN /\ a.protected \in BOOLEAN
      /\ a \in [is : {"status"}, sid : Nat, setup : BOOLEAN, live : BOOLEAN, locked : BOOLEAN,
                protected : BOOLEAN, upgrade : Told]
  BY <1>2, <1>3, <1>4
<1>6. a \in Answers
  BY <1>5 DEF Answers
<1>7. UNCHANGED serverSide /\ net[c].kind = "status"
  BY DEF ServeStatus
<1> QED BY <1>1, <1>5, <1>6, <1>7, PlainServed

LEMMA ServeSetupOK ==
  ASSUME BrowserInv, BrowserConstantsOK, NEW c \in Calls, ServeSetup(c)
  PROVE  Served(c)
<1>1. net[c].kind = "setup" /\ ServerOK /\ FetchOK(net[c], screen, issued)
  BY DEF BrowserInv, ServeSetup, NetOK
<1>2. CASE stage # "empty"
  <2>1. Answer(c, [is |-> "already"]) /\ UNCHANGED serverSide
    BY <1>2 DEF ServeSetup
  <2> QED BY <1>1, <2>1, PlainServed, PlainAnswers
<1>3. CASE stage = "empty"
  <2>1. NewSession(net[c].sid, live)
    BY <1>3 DEF ServeSetup
  <2>2. net[c].mine => screen \notin {"app", "api-keys"}
    BY <1>1 DEF FetchOK, Suits
  <2>3. CASE stage' = "plain" /\ key' = key /\ Answer(c, Opened(issued + 1, "ok", Null))
    BY <1>1, <2>1, <2>3, NewSessionOK, OpenedServed DEF Served, ServerOK
  <2>4. CASE stage' = "unconfirmed" /\ NewKey /\ Answer(c, Opened(issued + 1, "ok", key + 1))
    BY <1>1, <2>1, <2>2, <2>4, NewSessionOK, NewKeyOK, OpenedServed DEF Served, ServerOK
  <2> QED BY <1>3, <2>3, <2>4 DEF ServeSetup
<1> QED BY <1>2, <1>3

LEMMA ServeLoginOK ==
  ASSUME BrowserInv, BrowserConstantsOK, NEW c \in Calls, ServeLogin(c) \/ ServeRecover(c)
  PROVE  Served(c)
<1>1. /\ net[c].kind \in {"login", "recover"} /\ ServerOK /\ UNCHANGED <<stage, key>>
      /\ Answer(c, Opened(issued + 1, "ok", Null))
  BY DEF BrowserInv, ServeLogin, ServeRecover
<1>2. \E others \in SUBSET live : NewSession(net[c].sid, others)
  BY DEF ServeLogin, ServeRecover
<1>3. PICK others \in SUBSET live : NewSession(net[c].sid, others)
  BY <1>2
<1>4. /\ issued' \in 0..MaxSessions /\ live' \subseteq 1..issued' /\ issued <= issued'
      /\ issued' \in Nat /\ issued + 1 \in 1..issued' /\ (cookie \in live' => cookie \in live)
  BY <1>3, NewSessionOK
<1>5. \E a \in Answers :
        net' = [net EXCEPT ![c].answer = a] /\ AnswerOK([net[c] EXCEPT !.answer = a], issued')
  BY <1>1, <1>4, OpenedServed
<1> QED BY <1>1, <1>4, <1>5 DEF Served, ServerOK

LEMMA LiveSession ==
  ASSUME BrowserInv, BrowserConstantsOK, NEW sid \in live
  PROVE  issued \in Nat /\ sid \in 1..issued /\ issued <= issued
<1>1. issued \in 0..MaxSessions /\ live \subseteq 1..issued
  BY DEF BrowserInv, ServerOK
<1> QED BY <1>1 DEF BrowserConstantsOK

LEMMA ServeUpgradeOK ==
  ASSUME BrowserInv, BrowserConstantsOK, NEW c \in Calls, ServeUpgrade(c)
  PROVE  Served(c)
<1>1. /\ net[c].kind = "upgrade" /\ net[c].sid \in live /\ ServerOK
      /\ FetchOK(net[c], screen, issued)
  BY DEF BrowserInv, ServeUpgrade, NetOK
<1>2. CASE Protected
  <2>1. Answer(c, [is |-> "already"]) /\ UNCHANGED serverSide
    BY <1>2 DEF ServeUpgrade
  <2> QED BY <1>1, <2>1, PlainServed, PlainAnswers
<1>3. CASE ~Protected
  <2>1. /\ stage' = "unconfirmed" /\ NewKey /\ live' = {net[c].sid} /\ issued' = issued
        /\ Answer(c, Opened(net[c].sid, "ok", key + 1))
    BY <1>3 DEF ServeUpgrade
  <2>2. net[c].mine => screen \notin {"app", "api-keys"}
    BY <1>1 DEF FetchOK, Suits
  <2>3. issued' \in Nat /\ net[c].sid \in 1..issued' /\ issued <= issued'
    BY <1>1, <2>1, LiveSession
  <2>4. key' \in 0..MaxKeys /\ key + 1 \in 1..MaxKeys /\ key' # key
    BY <2>1, NewKeyOK
  <2>5. \E a \in Answers :
          net' = [net EXCEPT ![c].answer = a] /\ AnswerOK([net[c] EXCEPT !.answer = a], issued')
    <3>1. key + 1 # Null
      BY <1>1 DEF ServerOK, BrowserConstantsOK
    <3> QED BY <1>1, <2>1, <2>3, <2>4, <3>1, OpenedServed
  <2>6. live' \subseteq 1..issued' /\ (cookie \in live' => cookie \in live)
    BY <1>1, <2>1, <2>3
  <2> QED BY <1>1, <2>1, <2>2, <2>3, <2>4, <2>5, <2>6 DEF Served, ServerOK
<1> QED BY <1>2, <1>3

LEMMA ServeConfirmOK ==
  ASSUME BrowserInv, BrowserConstantsOK, NEW c \in Calls, ServeConfirm(c)
  PROVE  Served(c)
<1>1. /\ net[c].kind = "confirm" /\ net[c].sid \in live /\ ServerOK
      /\ stage' = "confirmed" /\ Answer(c, Opened(net[c].sid, "ok", Null))
      /\ UNCHANGED <<key, live, issued>>
  BY DEF BrowserInv, ServeConfirm
<1>2. issued' \in Nat /\ net[c].sid \in 1..issued' /\ issued <= issued'
  BY <1>1, LiveSession
<1>3. \E a \in Answers :
        net' = [net EXCEPT ![c].answer = a] /\ AnswerOK([net[c] EXCEPT !.answer = a], issued')
  BY <1>1, <1>2, OpenedServed
<1> QED BY <1>1, <1>2, <1>3 DEF Served, ServerOK

LEMMA ServeRotateOK ==
  ASSUME BrowserInv, BrowserConstantsOK, NEW c \in Calls, ServeRotate(c)
  PROVE  Served(c)
<1>1. /\ net[c].kind = "rotate" /\ net[c].sid \in live /\ ServerOK /\ FetchOK(net[c], screen, issued)
      /\ stage' = "unconfirmed" /\ NewKey /\ Answer(c, Opened(net[c].sid, "ok", key + 1))
      /\ UNCHANGED <<live, issued>>
  BY DEF BrowserInv, ServeRotate, NetOK
<1>2. issued' \in Nat /\ net[c].sid \in 1..issued' /\ issued <= issued'
  BY <1>1, LiveSession
<1>3. key' \in 0..MaxKeys /\ key + 1 \in 1..MaxKeys /\ key' # key /\ key + 1 # Null
  BY <1>1, NewKeyOK DEF ServerOK, BrowserConstantsOK
<1>4. net[c].mine => screen \notin {"app", "api-keys"}
  BY <1>1 DEF FetchOK, Suits
<1>5. \E a \in Answers :
        net' = [net EXCEPT ![c].answer = a] /\ AnswerOK([net[c] EXCEPT !.answer = a], issued')
  BY <1>1, <1>2, <1>3, OpenedServed
<1> QED BY <1>1, <1>2, <1>3, <1>4, <1>5 DEF Served, ServerOK

LEMMA ServeLogoutOK ==
  ASSUME BrowserInv, BrowserConstantsOK, NEW c \in Calls, ServeLogout(c)
  PROVE  Served(c)
<1>1. /\ net[c].kind = "logout" /\ ServerOK /\ net[c] \in Fetches
      /\ live' = live \ {net[c].sid} /\ net' = [net EXCEPT ![c].answer = [is |-> "ok"]]
      /\ UNCHANGED <<stage, key, issued>>
  BY DEF BrowserInv, ServeLogout, NetOK, Answer
<1> DEFINE a == [is |-> "ok"]
<1>2. a \in Answers
  BY PlainAnswers
<1> HIDE DEF a
<1>3. [net[c] EXCEPT !.answer = a].kind = "logout"
  BY <1>1 DEF Fetches
<1>4. AnswerOK([net[c] EXCEPT !.answer = a], issued')
  BY <1>3 DEF AnswerOK
<1>5. \E b \in Answers :
        net' = [net EXCEPT ![c].answer = b] /\ AnswerOK([net[c] EXCEPT !.answer = b], issued')
  BY <1>1, <1>2, <1>4 DEF a
<1>6. issued <= issued'
  BY <1>1 DEF ServerOK, BrowserConstantsOK
<1> QED BY <1>1, <1>5, <1>6 DEF Served, ServerOK

LEMMA ServeOK ==
  ASSUME BrowserInv, BrowserConstantsOK, NEW c \in Calls, Serve(c)
  PROVE  BrowserInv'
<1>1. CASE ServeData(c)
  <2>1. /\ net[c].kind = "data" /\ UNCHANGED serverSide
        /\ \E w \in {"locked", "ended", "ok"} : Answer(c, [is |-> w])
    BY <1>1 DEF ServeData
  <2>2. PICK w \in {"locked", "ended", "ok"} : Answer(c, [is |-> w])
    BY <2>1
  <2>3. [is |-> w] \in Answers
    BY PlainAnswers
  <2>4. Served(c)
    BY <2>1, <2>2, <2>3, PlainServed
  <2> QED BY <2>4, ServedOK DEF Serve
<1>2. CASE ServeRefusal(c)
  <2>1. net[c].kind # "status" /\ Answer(c, Refused) /\ UNCHANGED serverSide
    BY <1>2 DEF ServeRefusal, Forms
  <2>2. Served(c)
    BY <2>1, PlainServed, PlainAnswers DEF Refused
  <2> QED BY <2>2, ServedOK DEF Serve
<1>3. CASE ServeStatus(c) \/ ServeSetup(c) \/ ServeLogin(c) \/ ServeRecover(c) \/ ServeUpgrade(c)
             \/ ServeConfirm(c) \/ ServeRotate(c) \/ ServeLogout(c)
  BY <1>3, ServedOK, ServeStatusOK, ServeSetupOK, ServeLoginOK, ServeUpgradeOK, ServeConfirmOK,
     ServeRotateOK, ServeLogoutOK DEF Serve
<1> QED BY <1>1, <1>2, <1>3 DEF Serve
-----------------------------------------------------------------------------
(* What the browser does: it sets one fetch, or it shows a screen.         *)

LEMMA SetsOK ==
  ASSUME BrowserConstantsOK, BrowserInv, NEW c \in Calls, NEW n, net' = [net EXCEPT ![c] = n],
         FetchOK(n, screen, issued), UNCHANGED <<serverSide, screen>>, AppOK',
         cookie' \in 0..issued, cookie' = cookie \/ n.then = "sign-in",
         net[c].then = "sign-in" => n.then = "sign-in", excused' = excused
  PROVE  BrowserInv'
<1>1. NetOK /\ ServerOK /\ Asked /\ issued \in Nat /\ issued <= issued
  BY DEF BrowserInv, ServerOK, BrowserConstantsOK
<1>2. UNCHANGED <<stage, key, live, issued, screen>>
  BY DEF serverSide
<1>3. NetOK' /\ net'[c] = n /\ \A q \in Calls \ {c} : net'[q] = net[q]
  BY <1>1, <1>2, SetOK
<1>4. (SigningIn => SigningIn') /\ (cookie' # cookie => SigningIn')
  BY <1>3 DEF SigningIn
<1>5. ServerOK' /\ Asked'
  BY <1>1, <1>2, <1>4 DEF ServerOK, Asked
<1> QED BY <1>3, <1>5 DEF BrowserInv

LEMMA ShowsOK ==
  ASSUME BrowserConstantsOK, BrowserInv, NEW c, NEW n, NEW s \in Screens,
         NEW f \in [key : 1..MaxKeys, first : BOOLEAN] \cup {Null}, Show(c, n, s, f),
         c \in Calls => FetchOK(n, s, issued), UNCHANGED serverSide, cookie' \in 0..issued,
         signedIn' \in BOOLEAN, locked' \in BOOLEAN, canRecover' \in BOOLEAN,
         skipped' \in BOOLEAN, upgrade' \in Told, excused' \in BOOLEAN,
         s \in {"app", "api-keys"} /\ cookie' \in live /\ stage = "unconfirmed" =>
           excused' \/ \E q \in Calls \ {c} : net[q].then = "sign-in"
  PROVE  BrowserInv'
<1>1. NetOK /\ AppOK /\ ServerOK /\ UNCHANGED <<stage, key, live, issued>>
  BY DEF BrowserInv, serverSide
<1>2. /\ NetOK' /\ screen' = s /\ fresh' = f
      /\ page' \in [shown : 1..MaxKeys \cup {Null}, first : BOOLEAN, done : BOOLEAN]
      /\ \A q \in Calls : q # c => net'[q].then = net[q].then
  BY ZenonT(60), <1>1, ShowOK
<1>3. AppOK'
  <2>1. screen' \in Screens
    BY <1>2
  <2>2. fresh' \in [key : 1..MaxKeys, first : BOOLEAN] \cup {Null}
    BY <1>2
  <2> QED BY <2>1, <2>2, <1>2 DEF AppOK
<1>4. ServerOK'
  BY <1>1 DEF ServerOK
<1>5. Asked'
  BY <1>1, <1>2 DEF Asked, SigningIn
<1> QED BY <1>2, <1>3, <1>4, <1>5 DEF BrowserInv

(* Where neither the screen nor the session changes, who was asked stays   *)
(* so.                                                                     *)
LEMMA StillAsked ==
  ASSUME BrowserInv, NEW c, c \in Calls => net[c].then # "sign-in",
         screen \in {"app", "api-keys"}, cookie \in live, stage = "unconfirmed"
  PROVE  excused \/ \E q \in Calls \ {c} : net[q].then = "sign-in"
BY DEF BrowserInv, Asked, SigningIn

LEMMA OnlyStatusWaits ==
  ASSUME BrowserInv, NEW c \in Calls, net[c].kind # "status"
  PROVE  net[c].then = Null
BY DEF BrowserInv, NetOK, FetchOK

LEMMA SendOK ==
  ASSUME BrowserConstantsOK, BrowserInv, NEW c \in Calls, NEW kind \in Forms \cup {"data", "logout"},
         NEW k \in Nat \cup {Null}, Send(c, kind, k),
         Suits(kind, screen)
  PROVE  BrowserInv'
<1>1. /\ net[c] = Free /\ net' = [net EXCEPT ![c] = Sent(kind, cookie, k)]
      /\ UNCHANGED <<serverSide, cookie, app, page, excused>> /\ ServerOK /\ AppOK
  BY DEF Send, Sent, BrowserInv
<1>2. issued \in Nat /\ cookie \in 0..issued
  BY <1>1 DEF ServerOK, BrowserConstantsOK
<1>3. FetchOK(Sent(kind, cookie, k), screen, issued)
  BY <1>2, SentOK
<1>4. net[c].then = Null
  BY <1>1, FreeTyped
<1>5. AppOK' /\ screen' = screen
  BY <1>1 DEF AppOK, app
<1>6. net[c].then # "sign-in"
  BY <1>4 DEF BrowserConstantsOK
<1> QED BY <1>1, <1>2, <1>3, <1>5, <1>6, SetsOK

LEMMA UserSendsOK ==
  ASSUME BrowserConstantsOK, BrowserInv, NEW c \in Calls, Submit(c) \/ Confirm(c) \/ LoadData(c) \/ Logout(c)
  PROVE  BrowserInv'
<1>1. CASE Submit(c)
  <2>1. CASE screen \in {"setup", "login", "recover", "upgrade"} /\ Send(c, screen, Null)
    BY <2>1, SendOK DEF Forms, Suits
  <2>2. CASE screen = "recovery-key" /\ Send(c, "rotate", Null)
    BY <2>2, SendOK DEF Forms, Suits
  <2> QED BY <1>1, <2>1, <2>2 DEF Submit
<1>2. CASE Confirm(c)
  <2>1. screen = "recovery-key" /\ \E k \in {page.shown, Null} : Send(c, "confirm", k)
    BY <1>2 DEF Confirm
  <2>2. page.shown \in Nat \cup {Null}
    BY DEF BrowserInv, AppOK
  <2> QED BY <2>1, <2>2, SendOK DEF Forms, Suits
<1>3. CASE LoadData(c) \/ Logout(c)
  BY <1>3, SendOK DEF LoadData, Logout, Suits
<1> QED BY <1>1, <1>2, <1>3

(* A fetch that is given up, or goes on as a status.                       *)
LEMMA DropsOK ==
  ASSUME BrowserConstantsOK, BrowserInv, NEW c \in Calls, Drop(c), net[c].kind # "status",
         UNCHANGED <<serverSide, cookie, app, excused>>,
         page' \in [shown : 1..MaxKeys \cup {Null}, first : BOOLEAN, done : BOOLEAN]
  PROVE  BrowserInv'
<1>1. issued \in Nat /\ cookie \in 0..issued /\ AppOK /\ AppOK'
  BY DEF BrowserInv, ServerOK, BrowserConstantsOK, AppOK, app
<1>2. FetchOK(Free, screen, issued) /\ net' = [net EXCEPT ![c] = Free] /\ screen' = screen
  BY <1>1, FreeOK DEF Drop, app
<1>3. net[c].then = "sign-in" => Free.then = "sign-in"
  BY OnlyStatusWaits, FreeTyped
<1> QED BY <1>1, <1>2, <1>3, SetsOK

LEMMA QuietOK ==
  ASSUME BrowserConstantsOK, BrowserInv, NEW c \in Calls, Quiet(c), net[c].kind # "status"
  PROVE  BrowserInv'
<1>1. AppOK
  BY DEF BrowserInv
<1> QED BY <1>1, DropsOK DEF Quiet, AppOK

LEMMA AlreadyOK ==
  ASSUME BrowserConstantsOK, BrowserInv, NEW c \in Calls, SetupAlready(c) \/ UpgradeAlready(c)
  PROVE  BrowserInv'
<1>1. issued \in Nat /\ cookie \in 0..issued /\ AppOK /\ net[c].kind # "status"
  BY DEF BrowserInv, ServerOK, BrowserConstantsOK, SetupAlready, UpgradeAlready, Is
<1>2. PICK then \in {"init", "already"} : net' = [net EXCEPT ![c] = Status(then, cookie)]
  BY DEF SetupAlready, UpgradeAlready
<1>3. UNCHANGED <<serverSide, cookie, app, page, excused>>
  BY DEF SetupAlready, UpgradeAlready
<1>4. FetchOK(Status(then, cookie), screen, issued) /\ Status(then, cookie).then = then
  BY <1>1, StatusOK
<1>5. AppOK' /\ screen' = screen
  BY <1>1, <1>3 DEF AppOK, app
<1>6. net[c].then = "sign-in" => Status(then, cookie).then = "sign-in"
  <2>1. net[c].then = Null
    BY <1>1, OnlyStatusWaits
  <2> QED BY <2>1 DEF BrowserConstantsOK
<1> QED BY <1>1, <1>2, <1>3, <1>4, <1>5, <1>6, SetsOK
-----------------------------------------------------------------------------
(* The screens that the user leaves. *)

LEMMA NoCall ==
  ASSUME BrowserConstantsOK
  PROVE  Null \notin Calls
BY DEF BrowserConstantsOK

LEMMA ClickOK ==
  ASSUME BrowserConstantsOK, BrowserInv, NEW s \in Screens, NEW excuse \in BOOLEAN, Click(s, excuse),
         skipped' \in BOOLEAN,
         s = "app" => excuse \/ stage # "unconfirmed" \/ screen = "api-keys",
         s # "api-keys"
  PROVE  BrowserInv'
<1>1. AppOK /\ ServerOK /\ Show(Null, Free, s, fresh) /\ excused' = (excused \/ excuse)
      /\ UNCHANGED <<serverSide, cookie, signedIn, locked, canRecover, upgrade>>
  BY DEF BrowserInv, Click
<1>2. s = "app" /\ cookie' \in live /\ stage = "unconfirmed" =>
        excused' \/ \E q \in Calls \ {Null} : net[q].then = "sign-in"
  BY <1>1, NoCall, StillAsked
<1> QED BY <1>1, <1>2, NoCall, ShowsOK DEF AppOK, ServerOK

LEMMA ClicksOK ==
  ASSUME BrowserConstantsOK, BrowserInv, ToRecover \/ ToLogin \/ Skip \/ Later \/ ApiKeysDone
  PROVE  BrowserInv'
<1>1. AppOK /\ {"recover", "login", "app"} \subseteq Screens
  BY DEF BrowserInv, Screens
<1>2. CASE ToRecover \/ ToLogin
  BY <1>1, <1>2, ClickOK DEF ToRecover, ToLogin, AppOK
<1>3. CASE Skip
  BY <1>1, <1>3, ClickOK DEF Skip
<1>4. CASE Later
  BY <1>1, <1>4, ClickOK DEF Later, AppOK
<1>5. CASE ApiKeysDone
  BY <1>1, <1>5, ClickOK DEF ApiKeysDone, AppOK
<1> QED BY <1>2, <1>3, <1>4, <1>5

LEMMA DropShownKeyOK ==
  ASSUME BrowserConstantsOK, BrowserInv, DropShownKey
  PROVE  BrowserInv'
<1>1. AppOK /\ page' = [page EXCEPT !.shown = Null] /\ UNCHANGED <<serverSide, cookie, net, app, excused>>
  BY DEF BrowserInv, DropShownKey
<1>2. AppOK'
  BY <1>1 DEF AppOK, app
<1> QED BY <1>1, <1>2 DEF BrowserInv, NetOK, ServerOK, Asked, SigningIn, serverSide, app

LEMMA OnKeyConfirmedOK ==
  ASSUME BrowserConstantsOK, BrowserInv, OnKeyConfirmed
  PROVE  BrowserInv'
<1>1. AppOK /\ ServerOK
  BY DEF BrowserInv
<1>2. PICK s \in {"api-keys", "app"} : Show(Null, Free, s, Null)
  BY DEF OnKeyConfirmed
<1>3. /\ upgrade' = "none" /\ excused' = (excused \/ stage = "unconfirmed")
      /\ UNCHANGED <<serverSide, cookie, signedIn, locked, canRecover, skipped>>
  BY DEF OnKeyConfirmed
<1>4. s \in Screens /\ upgrade' \in Told
  BY <1>3 DEF Screens, Told
<1> QED BY <1>1, <1>2, <1>3, <1>4, NoCall, ShowsOK DEF AppOK, ServerOK

-----------------------------------------------------------------------------
(* The answers. *)

LEMMA StatusKnownOK ==
  ASSUME BrowserConstantsOK, BrowserInv, NEW c \in Calls, StatusKnown(c)
  PROVE  BrowserInv'
<1>1. /\ AppOK /\ ServerOK /\ issued \in Nat /\ net[c].kind = "status" /\ net[c].answer # Null
      /\ FetchOK(net[c], screen, issued)
  BY DEF BrowserInv, NetOK, ServerOK, BrowserConstantsOK, StatusKnown, Is
<1>2. /\ upgrade' = net[c].answer.upgrade /\ locked' = net[c].answer.locked
      /\ canRecover' = net[c].answer.protected /\ GoOn(c, upgrade')
      /\ excused' = IF net[c].then = "sign-in" THEN Stale(c) ELSE excused
      /\ UNCHANGED <<serverSide, cookie, signedIn, skipped>>
  BY DEF StatusKnown, Learn
<1>3. upgrade' \in Told /\ locked' \in BOOLEAN /\ canRecover' \in BOOLEAN
  BY <1>1, <1>2 DEF FetchOK, AnswerOK
<1>4. FetchOK(Free, screen, issued) /\ \A s \in Screens : FetchOK(Free, s, issued)
  BY <1>1, FreeOK
<1>5. excused' \in BOOLEAN
  BY <1>1, <1>2 DEF Stale, ServerOK
<1>6. CASE net[c].then = "sign-in"
  <2>1. Show(c, Free, StateAfterSignIn(upgrade'), fresh)
    BY <1>2, <1>6 DEF GoOn
  <2>2. StateAfterSignIn(upgrade') \in {"recovery-key", "upgrade", "app"}
    BY DEF StateAfterSignIn
  <2>3. StateAfterSignIn(upgrade') = "app" => upgrade' # "confirm"
    BY DEF StateAfterSignIn
  <2>4. StateAfterSignIn(upgrade') \in {"app", "api-keys"} /\ stage = "unconfirmed" => excused'
    BY <1>2, <1>6, <2>2, <2>3 DEF Stale
  <2>5. StateAfterSignIn(upgrade') \in Screens
    BY <2>2 DEF Screens
  <2> QED BY <1>1, <1>2, <1>3, <1>4, <1>5, <2>1, <2>4, <2>5, ShowsOK DEF AppOK, ServerOK
<1>7. CASE net[c].then = "already"
  <2>1. Show(c, Free, "recovery-key", Null) /\ "recovery-key" \in Screens
    BY <1>2, <1>7 DEF GoOn, Screens
  <2> QED BY <1>1, <1>2, <1>3, <1>4, <1>5, <2>1, ShowsOK DEF AppOK, ServerOK
<1>8. CASE net[c].then \notin {"sign-in", "already"}
  <2>1. Show(c, Free, screen, fresh) /\ excused' = excused
    BY <1>2, <1>8 DEF GoOn
  <2>2. screen \in {"app", "api-keys"} /\ cookie' \in live /\ stage = "unconfirmed" =>
          excused' \/ \E q \in Calls \ {c} : net[q].then = "sign-in"
    BY <1>2, <1>8, <2>1, StillAsked
  <2> QED BY <1>1, <1>2, <1>3, <1>4, <1>5, <2>1, <2>2, ShowsOK DEF AppOK, ServerOK
<1> QED BY <1>6, <1>7, <1>8

LEMMA StatusLostOK ==
  ASSUME BrowserConstantsOK, BrowserInv, NEW c \in Calls, StatusLost(c)
  PROVE  BrowserInv'
<1>1. AppOK /\ ServerOK /\ issued \in Nat
  BY DEF BrowserInv, ServerOK, BrowserConstantsOK
<1>2. /\ GoOn(c, upgrade) /\ excused' = (excused \/ net[c].then = "sign-in")
      /\ UNCHANGED <<serverSide, cookie, signedIn, locked, canRecover, upgrade, skipped>>
  BY DEF StatusLost
<1>3. \A s \in Screens : FetchOK(Free, s, issued)
  BY <1>1, FreeOK
<1>4. \E s \in Screens, f \in {fresh, Null} :
        Show(c, Free, s, f) /\ (net[c].then # "sign-in" => s \in {screen, "recovery-key"})
  BY <1>1, <1>2 DEF GoOn, StateAfterSignIn, Screens, AppOK
<1>5. PICK s \in Screens, f \in {fresh, Null} :
        Show(c, Free, s, f) /\ (net[c].then # "sign-in" => s \in {screen, "recovery-key"})
  BY <1>4
<1>6. s \in {"app", "api-keys"} /\ cookie' \in live /\ stage = "unconfirmed" =>
        excused' \/ \E q \in Calls \ {c} : net[q].then = "sign-in"
  BY <1>2, <1>5, StillAsked
<1> QED BY <1>1, <1>2, <1>3, <1>5, <1>6, ShowsOK DEF AppOK, ServerOK

LEMMA InitKnownOK ==
  ASSUME BrowserConstantsOK, BrowserInv, NEW c \in Calls, InitKnown(c)
  PROVE  BrowserInv'
<1> DEFINE a == net[c].answer
<1>1. /\ AppOK /\ ServerOK /\ issued \in Nat /\ net[c].kind = "status" /\ a # Null
      /\ FetchOK(net[c], screen, issued)
  BY DEF BrowserInv, NetOK, ServerOK, BrowserConstantsOK, InitKnown, Is
<1>2. /\ upgrade' = a.upgrade /\ locked' = a.locked /\ canRecover' = a.protected
      /\ Show(c, Free, CASE a.setup -> "setup" [] ~a.setup /\ ~a.live -> "login"
                         [] OTHER -> StateAfterSignIn(a.upgrade), fresh)
      /\ signedIn' = (signedIn \/ a.live) /\ excused' = (IF a.live THEN Stale(c) ELSE excused)
      /\ UNCHANGED <<serverSide, cookie, skipped>>
  BY DEF InitKnown, Learn
<1>3. /\ upgrade' \in Told /\ locked' \in BOOLEAN /\ canRecover' \in BOOLEAN
      /\ signedIn' \in BOOLEAN /\ excused' \in BOOLEAN
  BY <1>1, <1>2 DEF FetchOK, AnswerOK, AppOK, ServerOK, Stale
<1>4. \A s \in Screens : FetchOK(Free, s, issued)
  BY <1>1, FreeOK
<1>5. PICK s \in {"setup", "login", StateAfterSignIn(a.upgrade)} :
        Show(c, Free, s, fresh) /\ (s \notin {"setup", "login"} => a.live)
  BY <1>2
<1>6. s \in Screens /\ (s \in {"app", "api-keys"} => a.upgrade # "confirm" /\ a.live)
  BY <1>5 DEF StateAfterSignIn, Screens
<1>7. s \in {"app", "api-keys"} /\ cookie' \in live /\ stage = "unconfirmed" => excused'
  BY <1>2, <1>6 DEF Stale
<1> QED BY <1>1, <1>2, <1>3, <1>4, <1>5, <1>6, <1>7, ShowsOK DEF AppOK, ServerOK

LEMMA ToOtherScreenOK ==
  ASSUME BrowserConstantsOK, BrowserInv, NEW c \in Calls,
         InitLost(c) \/ SetupKey(c) \/ OnUpgraded(c) \/ LoggedOut(c) \/ LockedOut(c) \/ SessionEnded(c)
  PROVE  BrowserInv'
<1>1. /\ AppOK /\ ServerOK /\ issued \in Nat /\ cookie \in 0..issued
      /\ FetchOK(net[c], screen, issued)
      /\ {"login", "recovery-key"} \subseteq Screens /\ "confirm" \in Told
  BY DEF BrowserInv, NetOK, ServerOK, BrowserConstantsOK, Screens, Told
<1>2. \A s \in Screens : FetchOK(Free, s, issued) /\ FetchOK(Status("none", cookie), s, issued)
  BY <1>1, FreeOK, StatusOK
<1>3. CASE InitLost(c)
  BY <1>1, <1>2, <1>3, ShowsOK DEF InitLost, AppOK, ServerOK
<1>4. CASE LoggedOut(c) \/ LockedOut(c) \/ SessionEnded(c)
  <2>1. PICK n \in {Free, Status("none", cookie)} : Show(c, n, "login", Null)
    BY <1>4 DEF LoggedOut, LockedOut, SessionEnded
  <2>2. /\ signedIn' = FALSE /\ locked' \in {locked, TRUE} /\ canRecover' \in {canRecover, TRUE}
        /\ UNCHANGED <<serverSide, cookie, upgrade, skipped, excused>>
    BY <1>4 DEF LoggedOut, LockedOut, SessionEnded
  <2> QED BY <1>1, <1>2, <2>1, <2>2, ShowsOK DEF AppOK, ServerOK
<1>5. CASE SetupKey(c)
  <2>1. net[c].answer.sid \in 1..issued /\ net[c].answer.key \in 1..MaxKeys
    BY <1>1, <1>5 DEF SetupKey, Is, FetchOK, AnswerOK
  <2>2. [key |-> net[c].answer.key, first |-> TRUE] \in [key : 1..MaxKeys, first : BOOLEAN]
    BY <2>1
  <2>3. /\ cookie' = net[c].answer.sid
        /\ Show(c, Free, "recovery-key", [key |-> net[c].answer.key, first |-> TRUE])
        /\ signedIn' = TRUE /\ locked' = FALSE /\ canRecover' = TRUE /\ upgrade' = "confirm"
        /\ UNCHANGED <<serverSide, skipped, excused>>
    BY <1>5 DEF SetupKey
  <2>4. cookie' \in 0..issued
    BY <1>1, <2>1, <2>3
  <2> QED BY <1>1, <1>2, <2>2, <2>3, <2>4, ShowsOK DEF AppOK, ServerOK
<1>6. CASE OnUpgraded(c)
  <2>1. net[c].answer.key \in 1..MaxKeys
    BY <1>1, <1>6 DEF OnUpgraded, Is, FetchOK, AnswerOK
  <2>2. [key |-> net[c].answer.key, first |-> FALSE] \in [key : 1..MaxKeys, first : BOOLEAN]
    BY <2>1
  <2>3. /\ Show(c, Free, "recovery-key", [key |-> net[c].answer.key, first |-> FALSE])
        /\ upgrade' = "confirm"
        /\ UNCHANGED <<serverSide, cookie, signedIn, locked, canRecover, skipped, excused>>
    BY <1>6 DEF OnUpgraded
  <2>4. /\ cookie' \in 0..issued /\ signedIn' \in BOOLEAN /\ locked' \in BOOLEAN
        /\ canRecover' \in BOOLEAN /\ skipped' \in BOOLEAN /\ excused' \in BOOLEAN
        /\ upgrade' \in Told
    BY <1>1, <2>3 DEF AppOK, ServerOK
  <2>5. c \in Calls => FetchOK(Free, "recovery-key", issued)
    BY <1>1, <1>2
  <2>6. "recovery-key" \in Screens
    BY <1>1
  <2> QED BY <2>2, <2>3, <2>4, <2>5, <2>6, ShowsOK
<1> QED BY <1>3, <1>4, <1>5, <1>6

LEMMA SignedInOK ==
  ASSUME BrowserConstantsOK, BrowserInv, NEW c \in Calls, SignedIn(c)
  PROVE  BrowserInv'
<1>1. /\ AppOK /\ ServerOK /\ issued \in Nat /\ FetchOK(net[c], screen, issued)
  BY DEF BrowserInv, NetOK, ServerOK, BrowserConstantsOK
<1>2. /\ cookie' = net[c].answer.sid /\ signedIn' = TRUE /\ locked' = FALSE
      /\ net' = [net EXCEPT ![c] = Status("sign-in", net[c].answer.sid)]
      /\ UNCHANGED <<serverSide, screen, canRecover, upgrade, skipped, fresh, page, excused>>
  BY DEF SignedIn
<1>3. net[c].answer.sid \in 1..issued
  BY <1>1 DEF SignedIn, Is, FetchOK, AnswerOK
<1>4. net[c].answer.sid \in 0..issued
  BY <1>1, <1>3
<1>5. /\ FetchOK(Status("sign-in", net[c].answer.sid), screen, issued)
      /\ Status("sign-in", net[c].answer.sid).then = "sign-in"
  BY <1>1, <1>4, StatusOK
<1>6. AppOK'
  BY <1>1, <1>2 DEF AppOK
<1> QED BY <1>1, <1>2, <1>4, <1>5, <1>6, SetsOK

LEMMA PageAnswersOK ==
  ASSUME BrowserConstantsOK, BrowserInv, NEW c \in Calls, Confirmed(c) \/ Rotated(c)
  PROVE  BrowserInv'
<1>1. AppOK /\ FetchOK(net[c], screen, issued)
  BY DEF BrowserInv, NetOK
<1>2. CASE Confirmed(c)
  <2>1. page' \in [shown : 1..MaxKeys \cup {Null}, first : BOOLEAN, done : BOOLEAN]
    BY <1>1, <1>2 DEF Confirmed, AppOK
  <2> QED BY <1>2, <2>1, DropsOK DEF Confirmed, Is
<1>3. CASE Rotated(c)
  <2>1. net[c].answer.key \in 1..MaxKeys
    BY <1>1, <1>3 DEF Rotated, Is, FetchOK, AnswerOK
  <2>2. page' \in [shown : 1..MaxKeys \cup {Null}, first : BOOLEAN, done : BOOLEAN]
    BY <1>1, <1>3, <2>1 DEF Rotated, AppOK
  <2> QED BY <1>3, <2>2, DropsOK DEF Rotated, Is
<1> QED BY <1>2, <1>3

LEMMA NothingLeftOK ==
  ASSUME BrowserConstantsOK, BrowserInv, NEW c \in Calls, NothingChanges(c) \/ Lost(c)
  PROVE  BrowserInv'
BY QuietOK DEF NothingChanges, Lost, Is
-----------------------------------------------------------------------------
(* What happens around them. *)

LEMMA ReloadOK ==
  ASSUME BrowserConstantsOK, BrowserInv, Reload
  PROVE  BrowserInv'
<1>1. ServerOK /\ issued \in Nat /\ cookie \in 0..issued
  BY DEF BrowserInv, ServerOK, BrowserConstantsOK
<1>2. /\ screen' = "loading" /\ signedIn' = FALSE /\ locked' = FALSE /\ canRecover' = FALSE
      /\ upgrade' = "none" /\ skipped' = FALSE /\ fresh' = Null /\ page' = Page(Null)
      /\ UNCHANGED <<stage, key, live, issued, cookie, excused>>
  BY DEF Reload, serverSide
<1>3. PICK c \in Calls : net' = [q \in Calls |-> IF q = c THEN Status("init", cookie) ELSE Free]
  BY DEF Reload
<1>4. FetchOK(Status("init", cookie), "loading", issued) /\ FetchOK(Free, "loading", issued)
  BY <1>1, FreeOK, StatusOK
<1>5. NetOK'
  <2>1. Status("init", cookie) \in Fetches /\ Free \in Fetches
    BY <1>4 DEF FetchOK
  <2>2. net' \in [Calls -> Fetches]
    BY <1>3, <2>1
  <2>3. \A q \in Calls : FetchOK(net'[q], "loading", issued)
    BY <1>3, <1>4
  <2> QED BY <1>2, <2>2, <2>3 DEF NetOK
<1>6. AppOK'
  <2>1. page' = [shown |-> Null, first |-> FALSE, done |-> FALSE]
    BY <1>2 DEF Page
  <2>2. page' \in [shown : 1..MaxKeys \cup {Null}, first : BOOLEAN, done : BOOLEAN]
    BY <2>1
  <2>3. "loading" \in Screens /\ "none" \in Told
    BY DEF Screens, Told
  <2> QED BY <1>2, <2>2, <2>3 DEF AppOK
<1>7. ServerOK' /\ Asked'
  BY <1>1, <1>2 DEF ServerOK, Asked
<1> QED BY <1>5, <1>6, <1>7 DEF BrowserInv

LEMMA ElsewhereOK ==
  ASSUME BrowserConstantsOK, BrowserInv,
         SessionsEnd \/ EncryptedElsewhere \/ ConfirmedElsewhere \/ RotatedElsewhere
  PROVE  BrowserInv'
<1>1. NetOK /\ AppOK /\ ServerOK /\ Asked
  BY DEF BrowserInv
<1>2. UNCHANGED <<issued, cookie, net, app, page>> /\ live' \subseteq live
  BY DEF SessionsEnd, EncryptedElsewhere, ConfirmedElsewhere, RotatedElsewhere
<1>3. /\ stage' \in {"empty", "plain", "unconfirmed", "confirmed"} /\ key' \in 0..MaxKeys
      /\ excused' \in {excused, TRUE}
  BY <1>1, NewKeyOK DEF SessionsEnd, EncryptedElsewhere, ConfirmedElsewhere, RotatedElsewhere,
     ServerOK
<1>4. cookie \in live' /\ stage' = "unconfirmed" => (excused' \/ stage = "unconfirmed")
  BY DEF SessionsEnd, EncryptedElsewhere, ConfirmedElsewhere, RotatedElsewhere
<1>5. NetOK' /\ AppOK'
  BY <1>1, <1>2 DEF NetOK, AppOK, app
<1>6. ServerOK'
  BY <1>1, <1>2, <1>3 DEF ServerOK
<1>7. Asked'
  <2>1. screen' = screen /\ cookie' = cookie /\ SigningIn' = SigningIn
    BY <1>2 DEF app, SigningIn
  <2>2. excused => excused'
    BY <1>3
  <2> QED BY <1>1, <1>2, <1>4, <2>1, <2>2 DEF Asked
<1> QED BY <1>5, <1>6, <1>7 DEF BrowserInv

LEMMA BrowserInitOK ==
  ASSUME BrowserConstantsOK, BrowserInit
  PROVE  BrowserInv
<1>1. /\ screen = "loading" /\ signedIn = FALSE /\ locked = FALSE /\ canRecover = FALSE
      /\ upgrade = "none" /\ skipped = FALSE /\ fresh = Null /\ page = Page(Null)
      /\ stage \in {"empty", "plain", "unconfirmed", "confirmed"}
      /\ key = 0 /\ live = {} /\ issued = 0 /\ cookie = 0 /\ excused = FALSE
  BY DEF BrowserInit
<1>2. PICK c \in Calls : net = [q \in Calls |-> IF q = c THEN Status("init", 0) ELSE Free]
  BY DEF BrowserInit
<1>3. FetchOK(Status("init", 0), "loading", 0) /\ FetchOK(Free, "loading", 0)
  BY FreeOK, StatusOK
<1>4. NetOK
  <2>1. Status("init", 0) \in Fetches /\ Free \in Fetches
    BY <1>3 DEF FetchOK
  <2>2. net \in [Calls -> Fetches]
    BY <1>2, <2>1
  <2>3. \A q \in Calls : FetchOK(net[q], "loading", 0)
    BY <1>2, <1>3
  <2> QED BY <1>1, <2>2, <2>3 DEF NetOK
<1>5. AppOK
  <2>1. page = [shown |-> Null, first |-> FALSE, done |-> FALSE]
    BY <1>1 DEF Page
  <2>2. page \in [shown : 1..MaxKeys \cup {Null}, first : BOOLEAN, done : BOOLEAN]
    BY <2>1
  <2>3. "loading" \in Screens /\ "none" \in Told
    BY DEF Screens, Told
  <2> QED BY <1>1, <2>2, <2>3 DEF AppOK
<1>6. ServerOK
  <2>1. 0 \in 0..MaxKeys /\ 0 \in 0..MaxSessions /\ 0 \in 0..0
    BY DEF BrowserConstantsOK
  <2> QED BY <1>1, <2>1 DEF ServerOK
<1>7. Asked
  BY <1>1 DEF Asked
<1> QED BY <1>4, <1>5, <1>6, <1>7 DEF BrowserInv

LEMMA BrowserNextOK ==
  ASSUME BrowserConstantsOK, BrowserInv, [BrowserNext]_browserVars
  PROVE  BrowserInv'
<1>1. CASE UNCHANGED browserVars
  BY <1>1 DEF browserVars, serverSide, app, BrowserInv, NetOK, ServerOK, AppOK, Asked, SigningIn
<1>2. ASSUME NEW c \in Calls,
             Serve(c) \/ Submit(c) \/ Confirm(c) \/ LoadData(c) \/ Logout(c)
      PROVE  BrowserInv'
  BY <1>2, ServeOK, UserSendsOK
<1>3. ASSUME NEW c \in Calls,
             StatusKnown(c) \/ StatusLost(c) \/ InitKnown(c) \/ InitLost(c) \/ SetupKey(c)
               \/ SignedIn(c) \/ SetupAlready(c) \/ OnUpgraded(c) \/ UpgradeAlready(c)
      PROVE  BrowserInv'
  BY <1>3, StatusKnownOK, StatusLostOK, InitKnownOK, ToOtherScreenOK, SignedInOK, AlreadyOK
<1>4. ASSUME NEW c \in Calls,
             Confirmed(c) \/ Rotated(c) \/ LoggedOut(c) \/ LockedOut(c) \/ SessionEnded(c)
               \/ NothingChanges(c) \/ Lost(c)
      PROVE  BrowserInv'
  BY <1>4, PageAnswersOK, ToOtherScreenOK, NothingLeftOK
<1>5. CASE ToRecover \/ ToLogin \/ Skip \/ Later \/ ApiKeysDone \/ DropShownKey \/ OnKeyConfirmed
  BY <1>5, ClicksOK, DropShownKeyOK, OnKeyConfirmedOK
<1>6. CASE Reload \/ SessionsEnd \/ EncryptedElsewhere \/ ConfirmedElsewhere \/ RotatedElsewhere
  BY <1>6, ReloadOK, ElsewhereOK
<1> QED BY <1>1, <1>2, <1>3, <1>4, <1>5, <1>6 DEF BrowserNext

(* The inductive invariant.                                                *)
THEOREM BrowserInvariant ==
  ASSUME BrowserConstantsOK
  PROVE  BrowserSpec => []BrowserInv
<1>1. BrowserInit => BrowserInv
  BY BrowserInitOK
<1>2. BrowserInv /\ [BrowserNext]_browserVars => BrowserInv'
  BY BrowserNextOK
<1> QED BY <1>1, <1>2, PTL DEF BrowserSpec

(* Types: a fetch tells of a session that was opened, the browser shows a  *)
(* key that was made.                                                      *)
THEOREM BrowserTypeCorrect ==
  ASSUME BrowserConstantsOK
  PROVE  BrowserSpec => []BrowserTypeOK
<1>1. BrowserInv => BrowserTypeOK
  <2> SUFFICES ASSUME BrowserInv PROVE BrowserTypeOK
    OBVIOUS
  <2>1. ServerOK /\ AppOK
    BY DEF BrowserInv
  <2>2. ASSUME NEW c \in Calls
        PROVE  /\ net[c].kind \in Forms \cup {"status", "data", "logout", Null}
               /\ net[c].then \in {"init", "sign-in", "already", "none", Null}
               /\ net[c].sid \in 0..issued /\ net[c].mine \in BOOLEAN
    <3>1. net[c] \in Fetches /\ net[c].sid \in 0..issued
      BY DEF BrowserInv, NetOK, FetchOK
    <3> QED BY <3>1 DEF Fetches
  <2> QED BY <2>1, <2>2 DEF BrowserTypeOK, ServerOK, AppOK
<1> QED BY <1>1, BrowserInvariant, PTL

(* Somebody at work in the app, whose data is encrypted under a recovery   *)
(* key that nobody has typed back, has been asked for it or has put it     *)
(* off, in any order of any number of fetches (App.svelte:21-23).          *)
THEOREM UnconfirmedAlwaysAsked ==
  ASSUME BrowserConstantsOK
  PROVE  BrowserSpec => []UnconfirmedIsAsked
<1>1. BrowserInv => UnconfirmedIsAsked
  BY DEF BrowserInv, Asked, SigningIn, UnconfirmedIsAsked
<1> QED BY <1>1, BrowserInvariant, PTL
=============================================================================
