--------------------------- MODULE KeyMaintenance ---------------------------
(***************************************************************************)
(* The offline commands that open or change the keys of an encrypted       *)
(* database (commands/keys.ts, commands/rotate.ts, commands/open-data.ts), *)
(* the rotation of the data key (crypto/rotate.ts) and the clean-up after  *)
(* it (crypto/upgrade.ts), beside a server that starts, writes and stops.  *)
(*                                                                         *)
(* Each command is a process of its own and runs without interruption up   *)
(* to its next argon2 derivation or prompt; proc[c] is what it keeps       *)
(* meanwhile.  A rotation and an import hold the data directory            *)
(* (DataDirectory shows that this excludes the server and each other); the *)
(* other commands do not.                                                  *)
(*                                                                         *)
(* The data key, the recovery key and the copy made by command c are named *)
(* c.                                                                      *)
(***************************************************************************)
EXTENDS FiniteSets

CONSTANTS
  Commands,         \* the runs of the command line
  Passphrases,
  UnattendedKeys,   \* values of ENCRYPTION_KEY
  Past,             \* names what was created before the first step
  None

Names == Commands \cup {Past}
Slot(secrets) == [secret : secrets, dek : Names]
Slots == [passphrase : Slot(Passphrases), recovery : Slot(Names),
          unattended : Slot(UnattendedKeys) \cup {None}]
Copies == [slots : Slots, stored : SUBSET Names]

KeysConstantsOK ==
  /\ Past \notin Commands /\ "server" \notin Commands \cup {None}
  /\ None \notin Names \cup Passphrases \cup UnattendedKeys
  /\ None \notin Slot(UnattendedKeys) \cup Copies \cup [dek : Names \cup {None}]

VARIABLES
  slots,    \* table key_slot
  stored,   \* the data keys that values in the tables are sealed under
  wal,      \* the database is in WAL mode; a restored one only after a server has opened it
  residue,  \* superseded data keys whose ciphertext is left in free pages or the WAL
  pending,  \* the latest event about the clean-up is database.scrub_pending
  copies,   \* the pre-rotation copies in the backups folder: per rotation, what it holds
  owner,    \* who holds the data directory: a command, "server" or None
  server,   \* the server's keyring, or None while it does not run
  proc,     \* per command, what it keeps across its await
  told,     \* per command, what it printed when it ended
  replaced, \* history: per rotation that landed, the data key it replaced
  overtaken,\* history: a rotation landed between the check and the write of an unattended slot
  disturbed,\* history: rotations during which another command wrote the unattended slot
  misled    \* history: rotations whose COMMIT left the transaction open

database == <<slots, stored, wal, residue, pending>>
histories == <<replaced, overtaken, disturbed, misled>>
keyVars == <<database, copies, owner, server, proc, told, histories>>

Outcomes == {"", "refused", "failed", "rotated", "done"}

(* dek: the data key that the slot read at the start opens to, or None;    *)
(* seen: the unattended slot when the rotation began; keep: the unattended *)
(* key to wrap around the new data key.                                    *)
Idle == [at |-> "new", kind |-> None, secret |-> None, env |-> None, drop |-> FALSE,
         seen |-> None, dek |-> None, keep |-> None]

Kinds == {"add-unattended", "remove-unattended", "rotate-recovery", "export", "import"}
Stages == {"new", "rotate-verify", "rotate-unlock", "rotate-check", "rotate-prepare",
           "rotate-scrub", "unlock", "wrap", "ended"}
Locals ==
  [at : Stages, kind : Kinds \cup {None}, secret : Passphrases \cup {None},
   env : UnattendedKeys \cup {None}, drop : BOOLEAN, seen : Slot(UnattendedKeys) \cup {None},
   dek : Names \cup {None}, keep : UnattendedKeys \cup {None}]

-----------------------------------------------------------------------------
(* What a secret opens, and what a key reads. *)

(* unwrap: a slot that is missing or of another secret opens to nothing.   *)
Unwrap(slot, secret) == IF slot # None /\ slot.secret = secret THEN slot.dek ELSE None

(* openField refuses a value under another key id.                         *)
Readable(dek) == stored \subseteq {dek}

(* assertDekMatchesSlots                                                   *)
MatchesSlots(dek) == slots.passphrase.dek = dek

Await(c, stage, locals) == proc' = [proc EXCEPT ![c] = [locals EXCEPT !.at = stage]]

(* The process ends: what it held of the data directory goes with it.      *)
End(c, outcome) ==
  /\ proc' = [proc EXCEPT ![c] = [Idle EXCEPT !.at = "ended"]]
  /\ told' = [told EXCEPT ![c] = outcome]
  /\ owner' = IF owner = c THEN None ELSE owner

Refuse(c) == End(c, "refused") /\ UNCHANGED <<database, copies, server, histories>>

-----------------------------------------------------------------------------
(* keys rotate *)

(* unattendedKeyFromEnv, claimDataDir and the passphrase that is typed.    *)
StartRotate(c, p, key, drop) ==
  /\ proc[c].at = "new" /\ owner = None
  /\ owner' = c
  /\ Await(c, "rotate-verify",
           [Idle EXCEPT !.secret = p, !.dek = Unwrap(slots.passphrase, p),
                        !.env = key, !.drop = drop])
  /\ UNCHANGED <<database, copies, server, told, histories>>

PreRotationCopy(c) ==
  copies' = [copies EXCEPT ![c] = [slots |-> slots, stored |-> stored]]

(* The passphrase is checked, the copy is made, and rotateDataKey begins:  *)
(* it looks whether there is an unattended slot, and opens the data key.   *)
RotateVerified(c) ==
  /\ proc[c].at = "rotate-verify"
  /\ proc[c].dek # None
  /\ PreRotationCopy(c)
  /\ Await(c, "rotate-unlock",
           [proc[c] EXCEPT !.dek = Unwrap(slots.passphrase, proc[c].secret),
                           !.seen = slots.unattended])
  /\ UNCHANGED <<database, owner, server, told, histories>>

RotateMistyped(c) ==
  /\ proc[c].at = "rotate-verify" /\ proc[c].dek = None
  /\ Refuse(c)

(* Faulty: the key of the environment is wrapped without trying it.        *)
FaultyOpensUnattended(key) == key
(* The key, if the unattended slot that is there opens with it.            *)
OpensUnattended(key) == IF Unwrap(slots.unattended, key) # None THEN key ELSE None

(* An unattended slot is only carried over with the key that opens it.     *)
RotateUnlocked(c) ==
  /\ proc[c].at = "rotate-unlock"
  /\ \/ /\ proc[c].seen # None /\ proc[c].env # None
        /\ Await(c, "rotate-check", [proc[c] EXCEPT !.keep = OpensUnattended(proc[c].env)])
     \/ /\ proc[c].seen = None \/ (proc[c].env = None /\ proc[c].drop)
        /\ Await(c, "rotate-prepare", proc[c])
  /\ UNCHANGED <<database, copies, owner, server, told, histories>>

RotateKeyNeeded(c) ==
  /\ proc[c].at = "rotate-unlock"
  /\ proc[c].seen # None /\ proc[c].env = None /\ ~proc[c].drop
  /\ Refuse(c)

RotateChecked(c) ==
  /\ proc[c].at = "rotate-check" /\ proc[c].keep # None
  /\ Await(c, "rotate-prepare", proc[c])
  /\ UNCHANGED <<database, copies, owner, server, told, histories>>

RotateWrongKey(c) ==
  /\ proc[c].at = "rotate-check" /\ proc[c].keep = None
  /\ Refuse(c)

(* prepareInitialSlots                                                     *)
NewSlots(c) ==
  [passphrase |-> [secret |-> proc[c].secret, dek |-> c],
   recovery   |-> [secret |-> c, dek |-> c],
   unattended |-> IF proc[c].keep = None THEN None ELSE [secret |-> proc[c].keep, dek |-> c]]

(* resealAll reads every value under the old key and writes it under the   *)
(* new one.                                                                *)
Resealed(c) == IF stored = {} THEN {} ELSE {c}

(* Faulty: the clean-up is noted once it has failed, not with the change.  *)
FaultyNoteRotation == UNCHANGED pending
(* recordKeyRotation                                                       *)
NoteRotation == pending' = TRUE

(* Faulty: every error of COMMIT is taken for a rotation that failed.      *)
FaultyLanded(s, c) == FALSE
(* What an error of COMMIT is taken for: the key id read back decides.     *)
Landed(s, c) == s.passphrase.dek = c

(* The transaction is committed, whether or not COMMIT reports an error.   *)
RotateLands(c) ==
  /\ proc[c].at = "rotate-prepare" /\ Readable(proc[c].dek)
  /\ stored' = Resealed(c)
  /\ slots' = NewSlots(c)
  /\ residue' = residue \cup stored
  /\ NoteRotation
  /\ replaced' = [replaced EXCEPT ![c] = slots.passphrase.dek]
  /\ \E error \in BOOLEAN :
       IF error => Landed(NewSlots(c), c)
       THEN Await(c, "rotate-scrub", proc[c]) /\ UNCHANGED <<told, owner>>
       ELSE End(c, "failed")
  /\ UNCHANGED <<wal, copies, server, overtaken, disturbed, misled>>

(* A value under some other key, a read-back that differs, or a COMMIT     *)
(* that did not land: rolled back.                                         *)
RotateFails(c) ==
  /\ proc[c].at = "rotate-prepare" /\ ~Landed(slots, c)
  /\ End(c, "failed")
  /\ UNCHANGED <<database, copies, server, histories>>

(* Outside WAL mode a long read by another process can make COMMIT fail    *)
(* with the transaction still open, and the key id read back is that of    *)
(* the open transaction, which is lost when the process ends.              *)
RotateStaysOpen(c) ==
  /\ proc[c].at = "rotate-prepare" /\ Readable(proc[c].dek) /\ ~wal
  /\ Landed(NewSlots(c), c)
  /\ misled' = misled \cup {c}
  /\ End(c, "rotated")
  /\ UNCHANGED <<database, copies, server, replaced, overtaken, disturbed>>

(* scrubAndRecord: the clean-up completes and is noted, completes without  *)
(* the note, or does not complete.                                         *)
Scrub ==
  \/ residue' = {} /\ pending' \in {FALSE, pending}
  \/ UNCHANGED <<residue, pending>>

RotateScrubs(c) ==
  /\ proc[c].at = "rotate-scrub"
  /\ Scrub
  /\ End(c, "rotated")
  /\ UNCHANGED <<slots, stored, wal, copies, server, histories>>

-----------------------------------------------------------------------------
(* The other commands: they unlock with the passphrase or the recovery     *)
(* key, and go on with the data key that this gave them. *)

StartCommand(c, kind, key, dek) ==
  /\ proc[c].at = "new"
  /\ (kind = "add-unattended") = (key # None)
  /\ IF kind = "import" THEN owner = None /\ owner' = c ELSE UNCHANGED owner
  /\ Await(c, "unlock", [Idle EXCEPT !.kind = kind, !.dek = dek, !.env = key])
  /\ UNCHANGED <<database, copies, server, told, histories>>

(* What unlockDatabase returns for the passphrase, for the recovery key,   *)
(* and for anything else.                                                  *)
UnlockDatabase == {slots.passphrase.dek, slots.recovery.dek, None}

Unlocked(c, kind) == proc[c].at = "unlock" /\ proc[c].kind = kind /\ proc[c].dek # None

NotOpened(c) ==
  /\ proc[c].at = "unlock" /\ proc[c].dek = None
  /\ Refuse(c)

(* setUnattendedKey checks the data key before it derives the slot.        *)
AddChecked(c) ==
  /\ Unlocked(c, "add-unattended") /\ MatchesSlots(proc[c].dek)
  /\ Await(c, "wrap", proc[c])
  /\ UNCHANGED <<database, copies, owner, server, told, histories>>

Disturb == disturbed' = disturbed \cup {d \in Commands : owner = d}

AddUnattended(c) ==
  /\ proc[c].at = "wrap"
  /\ slots' = [slots EXCEPT !.unattended = [secret |-> proc[c].env, dek |-> proc[c].dek]]
  /\ overtaken' = (overtaken \/ ~MatchesSlots(proc[c].dek))
  /\ Disturb
  /\ End(c, "done")
  /\ UNCHANGED <<stored, wal, residue, pending, copies, server, replaced, misled>>

RemoveUnattended(c) ==
  /\ Unlocked(c, "remove-unattended")
  /\ slots' = [slots EXCEPT !.unattended = None]
  /\ Disturb
  /\ End(c, "done")
  /\ UNCHANGED <<stored, wal, residue, pending, copies, server, replaced, overtaken, misled>>

(* Faulty: the recovery slot is wrapped around whatever key was opened.    *)
FaultyMayRotateRecovery(c) == TRUE
MayRotateRecovery(c) == MatchesSlots(proc[c].dek)

RotateRecovery(c) ==
  /\ Unlocked(c, "rotate-recovery") /\ MayRotateRecovery(c)
  /\ slots' = [slots EXCEPT !.recovery = [secret |-> c, dek |-> proc[c].dek]]
  /\ End(c, "done")
  /\ UNCHANGED <<stored, wal, residue, pending, copies, server, histories>>

(* assertDekMatchesSlots throws.                                           *)
KeyReplaced(c) ==
  /\ Unlocked(c, "add-unattended") \/ Unlocked(c, "rotate-recovery")
  /\ ~MatchesSlots(proc[c].dek)
  /\ End(c, "failed")
  /\ UNCHANGED <<database, copies, server, histories>>

(* openData and buildArchive: every value is read under the key.           *)
Export(c) ==
  /\ Unlocked(c, "export")
  /\ End(c, IF Readable(proc[c].dek) THEN "done" ELSE "failed")
  /\ UNCHANGED <<database, copies, server, histories>>

(* runImport, reduced to the values it seals; the archive module has the   *)
(* rest.                                                                   *)
Import(c) ==
  /\ Unlocked(c, "import")
  /\ stored' = stored \cup {proc[c].dek}
  /\ End(c, "done")
  /\ UNCHANGED <<slots, wal, residue, pending, copies, server, histories>>

(* Interrupted at a prompt, killed, or the machine stops.                  *)
Killed(c) ==
  /\ proc[c].at \notin {"new", "ended"}
  /\ End(c, "")
  /\ UNCHANGED <<database, copies, server, histories>>

-----------------------------------------------------------------------------
(* The server. *)

(* unlockAtBoot: locked, opened for good, or refusing to start.            *)
BootKey(key) ==
  IF key = None \/ slots.unattended = None THEN [dek |-> None, refused |-> FALSE]
  ELSE [dek |-> Unwrap(slots.unattended, key), refused |-> Unwrap(slots.unattended, key) = None]

(* buildApp: WAL mode, the keyring, and the clean-up that is still owed.   *)
Boot(key) ==
  /\ owner = None /\ ~BootKey(key).refused
  /\ owner' = "server" /\ server' = [dek |-> BootKey(key).dek]
  /\ wal' = TRUE
  /\ IF pending THEN Scrub ELSE UNCHANGED <<residue, pending>>
  /\ UNCHANGED <<slots, stored, copies, proc, told, histories>>

(* Someone signs in: the login hash and the passphrase slot agree.         *)
SignIn ==
  /\ server # None /\ server.dek = None
  /\ server' = [dek |-> slots.passphrase.dek]
  /\ UNCHANGED <<database, copies, owner, proc, told, histories>>

ChangePassphrase(p) ==
  /\ server # None /\ server.dek # None /\ p # slots.passphrase.secret
  /\ slots' = [slots EXCEPT !.passphrase = [secret |-> p, dek |-> server.dek]]
  /\ UNCHANGED <<stored, wal, residue, pending, copies, owner, server, proc, told, histories>>

Save ==
  /\ server # None /\ server.dek # None
  /\ stored' = stored \cup {server.dek}
  /\ UNCHANGED <<slots, wal, residue, pending, copies, owner, server, proc, told, histories>>

Stop ==
  /\ server # None
  /\ server' = None /\ owner' = None
  /\ UNCHANGED <<database, copies, proc, told, histories>>

-----------------------------------------------------------------------------
KeysInit ==
  /\ \E p \in Passphrases : \E u \in {None} \cup [secret : UnattendedKeys, dek : {Past}] :
       slots = [passphrase |-> [secret |-> p, dek |-> Past],
                recovery   |-> [secret |-> Past, dek |-> Past],
                unattended |-> u]
  /\ stored \in {{}, {Past}} /\ wal \in BOOLEAN
  /\ residue = {} /\ pending = FALSE
  /\ copies = [c \in Commands |-> None]
  /\ owner = None /\ server = None
  /\ proc = [c \in Commands |-> Idle]
  /\ told = [c \in Commands |-> ""]
  /\ replaced = [c \in Commands |-> None]
  /\ overtaken = FALSE /\ disturbed = {} /\ misled = {}

KeysNext ==
  \/ \E c \in Commands :
       \/ \E p \in Passphrases, key \in UnattendedKeys \cup {None}, drop \in BOOLEAN :
            StartRotate(c, p, key, drop)
       \/ RotateVerified(c) \/ RotateMistyped(c) \/ RotateUnlocked(c) \/ RotateKeyNeeded(c)
       \/ RotateChecked(c) \/ RotateWrongKey(c) \/ RotateLands(c)
       \/ RotateFails(c) \/ RotateStaysOpen(c) \/ RotateScrubs(c)
       \/ \E kind \in Kinds, key \in UnattendedKeys \cup {None}, dek \in UnlockDatabase :
            StartCommand(c, kind, key, dek)
       \/ NotOpened(c) \/ AddChecked(c) \/ AddUnattended(c) \/ RemoveUnattended(c)
       \/ RotateRecovery(c) \/ KeyReplaced(c) \/ Export(c) \/ Import(c) \/ Killed(c)
  \/ \E key \in UnattendedKeys \cup {None} : Boot(key)
  \/ \E p \in Passphrases : ChangePassphrase(p)
  \/ SignIn \/ Save \/ Stop

KeysSpec == KeysInit /\ [][KeysNext]_keyVars

-----------------------------------------------------------------------------
(* Types.                                                                  *)
KeysTypeOK ==
  /\ slots \in Slots
  /\ stored \subseteq Names /\ residue \subseteq Names
  /\ wal \in BOOLEAN /\ pending \in BOOLEAN
  /\ copies \in [Commands -> Copies \cup {None}]
  /\ owner \in Commands \cup {"server", None}
  /\ server \in [dek : Names \cup {None}] \cup {None}
  /\ server # None => owner = "server"
  /\ proc \in [Commands -> Locals]
  /\ told \in [Commands -> Outcomes]
  /\ replaced \in [Commands -> Names \cup {None}]
  /\ overtaken \in BOOLEAN /\ disturbed \subseteq Commands /\ misled \subseteq Commands

(* keyslots.ts:208 (assertDekMatchesSlots) and rotate.ts:103: whatever the *)
(* order of commands, rotations, starts and kills, every slot opens the    *)
(* data, every value is under the key that they open, and a server that is *)
(* unlocked holds that key.  The exception is what the check before the    *)
(* derivation of an unattended slot lets through: a rotation meanwhile.    *)
(* README.md:210, "Backups and archives made before a rotation still open  *)
(* with the passphrase or recovery key they were made under": the state    *)
(* that a rotation replaced is in its own pre-rotation copy.               *)
SlotsOpenData ==
  /\ ~overtaken =>
       /\ slots.recovery.dek = slots.passphrase.dek
       /\ slots.unattended # None => slots.unattended.dek = slots.passphrase.dek
       /\ Readable(slots.passphrase.dek)
       /\ server # None => server.dek \in {None, slots.passphrase.dek}
  /\ \A c \in Commands :
       replaced[c] # None =>
         /\ copies[c] # None /\ copies[c].slots.passphrase.dek = replaced[c]
         /\ copies[c].stored \subseteq {replaced[c]}

(* rotate.ts:183: a rotation that landed is never reported as a failure    *)
(* (the recovery key printed with the report is the only one there is),    *)
(* and one reported as done has landed, except where COMMIT left the       *)
(* transaction open.                                                       *)
RotationTold ==
  \A c \in Commands :
    /\ told[c] = "rotated" => replaced[c] # None \/ c \in misled
    /\ told[c] = "failed" => replaced[c] = None

(* upgrade.ts:301: ciphertext of a replaced key is left in the file only   *)
(* while the clean-up is noted as pending, so that the next start retries  *)
(* it, wherever the rotation was interrupted.                              *)
OldCiphertextPending == residue # {} => pending

(* rotate.ts:123: a rotation keeps the unattended slot under the key that  *)
(* opened it, drops it only when asked to, and creates none; unless        *)
(* another command changed the slot during the rotation.                   *)
CarriesUnattended ==
  \A c \in Commands :
    replaced'[c] # replaced[c] /\ c \notin disturbed =>
      IF slots.unattended = None \/ (proc[c].drop /\ proc[c].env = None)
      THEN slots'.unattended = None
      ELSE slots'.unattended # None /\ slots'.unattended.secret = slots.unattended.secret
(* No rotation loses the unattended slot.                                  *)
UnattendedCarried == [][CarriesUnattended]_keyVars
=============================================================================
