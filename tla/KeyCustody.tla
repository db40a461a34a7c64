----------------------------- MODULE KeyCustody -----------------------------
(***************************************************************************)
(* Who can open the data: the login hash and the key slots in the          *)
(* database, the key in memory (crypto/keyring.ts), the live sessions      *)
(* (crypto/session-tracker.ts) and the handlers of routes/auth.ts that     *)
(* change them.                                                            *)
(*                                                                         *)
(* A handler runs without interruption up to its next await on the thread  *)
(* pool (an argon2 hash, verification or derivation, the database backup): *)
(* each action is one such run, and req[r] is what request r keeps across  *)
(* the await.  Awaits that only wait for microtasks do not split a run:    *)
(* the HKDF of the recovery slot, and the in-memory session store.         *)
(*                                                                         *)
(* What a request creates bears its name: the login hash, the session, the *)
(* data key, the recovery key and the safety copy of request r are all r.  *)
(***************************************************************************)
EXTENDS FiniteSets

CONSTANTS
  Requests,     \* the requests that wait for something
  Passphrases,
  Past,         \* names what was created before the server started
  None

ASSUME NamesAreDistinct ==
  Past \notin Requests /\ None \notin Requests \cup {Past} \cup Passphrases

Names == Requests \cup {Past}

VARIABLES
  login,      \* the row of table user: the passphrase hashed, and by whom
  slots,      \* table key_slot, or None while it is empty
  stored,     \* the keys stored values are sealed under (None: plaintext)
  keyEvent,   \* the latest audit event about the recovery key
  origin,     \* whether the key slots came with setup or with an upgrade
  copies,     \* the plaintext safety copies in the backups folder
  envKey,     \* ENCRYPTION_KEY is configured
  keyring,    \* the data key in memory
  tracker,    \* the sessions the tracker knows
  idle,       \* those of them not seen for longer than idleMs
  req,        \* per request, what it keeps across its await
  typedBack   \* history: the recovery keys typed back to confirm them

database == <<login, slots, stored, keyEvent, origin, copies>>
sessions == <<tracker, idle>>
vars == <<database, envKey, keyring, sessions, req, typedBack>>

Login == [pass : Passphrases, by : Names]
Slots == [passphrase : [secret : Passphrases, dek : Names],
          recovery   : [secret : Names, dek : Names],
          unattended : Names \cup {None}]

ASSUME NoneIsNoRow == None \notin Login /\ None \notin Slots

Keyring == [protected : BOOLEAN, dek : Names \cup {None}, permanent : BOOLEAN]

Stages == {"new", "setup", "login-verify", "login-unlock", "recover",
           "change-verify", "change-hash", "change-wrap",
           "upgrade-verify", "upgrade-prepare", "upgrade-copy",
           "rotate-verify", "write", "ended"}

Blank == [at |-> "new", cookie |-> None, pass |-> None, new |-> None, hash |-> None,
          dek |-> None, unattended |-> FALSE, withData |-> FALSE]

-----------------------------------------------------------------------------
(* The keyring and the session tracker. *)

Unprotected == [protected |-> FALSE, dek |-> None, permanent |-> FALSE]

Locked == keyring.protected /\ keyring.dek = None

(* Faulty: the one-way switch to encrypting is forgotten.                  *)
FaultyProtect(dek, permanent) ==
  keyring' = [keyring EXCEPT !.dek = dek, !.permanent = permanent]
Protect(dek, permanent) ==
  keyring' = [protected |-> TRUE, dek |-> dek, permanent |-> permanent]

(* Dropping sessions; the keyring locks when the last of them goes.        *)
Drop(S) ==
  /\ tracker' = tracker \ S
  /\ idle' = idle \ S
  /\ keyring' = IF tracker' = {} /\ ~keyring.permanent
                THEN [keyring EXCEPT !.dek = None] ELSE keyring

(* Faulty: dropping idle sessions without looking whether any are left.    *)
FaultySweep ==
  tracker' = tracker \ idle /\ idle' = {} /\ UNCHANGED <<database, envKey, keyring, req, typedBack>>
Sweep == Drop(idle) /\ UNCHANGED <<database, envKey, req, typedBack>>

(* Revoking every session but s does not look whether any are left.        *)
RetainOnly(s) == tracker' = tracker \cap {s} /\ idle' = idle \cap {s}

GoIdle(s) ==
  /\ s \in tracker \ idle
  /\ idle' = idle \cup {s}
  /\ UNCHANGED <<database, envKey, keyring, tracker, req, typedBack>>

(* requireAuth and requireLiveSession let a request through.               *)
SignedIn(s) == s \in tracker \ idle

(* A request of an idle session ends it (touch).                           *)
Expire(s) == s \in idle /\ Drop({s}) /\ UNCHANGED <<database, envKey, req, typedBack>>

Logout(s) == s \in tracker /\ Drop({s}) /\ UNCHANGED <<database, envKey, req, typedBack>>

-----------------------------------------------------------------------------
(* Requests. *)

Await(r, stage, locals) ==
  req' = [req EXCEPT ![r] = [locals EXCEPT !.at = stage]]
End(r) == req' = [req EXCEPT ![r] = [Blank EXCEPT !.at = "ended"]]

Start(r, stage, locals) ==
  /\ req[r].at = "new"
  /\ Await(r, stage, locals)
  /\ UNCHANGED <<database, envKey, keyring, sessions, typedBack>>

(* The passphrase typed is the one whose hash the request read.            *)
Verified(r) == req[r].hash.pass = req[r].pass

(* Faulty: the key first, then the old session goes, then the new comes.   *)
FaultyActivate(r, dek) ==
  /\ keyring' = IF tracker \ {req[r].cookie} = {} /\ ~keyring.permanent
                THEN [keyring EXCEPT !.dek = None]
                ELSE IF Locked THEN [keyring EXCEPT !.dek = dek] ELSE keyring
  /\ tracker' = (tracker \ {req[r].cookie}) \cup {r}
  /\ idle' = idle \ {req[r].cookie}

(* activateSession: the key, the session and its tracker entry together.   *)
Activate(r, dek) ==
  /\ keyring' = IF Locked THEN [keyring EXCEPT !.dek = dek] ELSE keyring
  /\ tracker' = (tracker \ {req[r].cookie}) \cup {r}
  /\ idle' = idle \ {req[r].cookie}

InitialSlots(r) ==
  [passphrase |-> [secret |-> req[r].pass, dek |-> r],
   recovery   |-> [secret |-> r, dek |-> r],
   unattended |-> IF req[r].unattended THEN r ELSE None]

(* A request that is refused, or that fails, changes nothing; an upgrade   *)
(* takes its safety copy away.                                             *)
Fail(r) ==
  /\ req[r].at \notin {"new", "ended"}
  /\ End(r)
  /\ copies' = copies \ (IF req[r].at = "upgrade-copy" THEN {r} ELSE {})
  /\ UNCHANGED <<login, slots, stored, keyEvent, origin, envKey, keyring, sessions, typedBack>>

-----------------------------------------------------------------------------
(* POST /setup. *)

StartSetup(r, p, u) ==
  /\ login = None /\ ~keyring.protected
  /\ u => envKey
  /\ Start(r, "setup", [Blank EXCEPT !.pass = p, !.unattended = u, !.withData = stored # {}])

(* Faulty: plaintext already stored is wrapped in the new key.             *)
FaultyCreatesSlots(r) == TRUE
CreatesSlots(r) == ~req[r].withData

Setup(r) ==
  /\ req[r].at = "setup"
  /\ login = None /\ (stored # {}) = req[r].withData
  /\ login' = [pass |-> req[r].pass, by |-> r]
  /\ IF CreatesSlots(r)
     THEN /\ slots = None
          /\ slots' = InitialSlots(r)
          /\ keyEvent' = "created" /\ origin' = "created"
          /\ Protect(r, req[r].unattended)
     ELSE UNCHANGED <<slots, keyEvent, origin, keyring>>
  /\ tracker' = tracker \cup {r}
  /\ End(r)
  /\ UNCHANGED <<stored, copies, envKey, idle, typedBack>>

-----------------------------------------------------------------------------
(* POST /login. *)

StartLogin(r, cookie, p) ==
  /\ login # None
  /\ Start(r, "login-verify", [Blank EXCEPT !.cookie = cookie, !.pass = p, !.hash = login])

(* The key is derived even when another session holds it already.          *)
SlotOpenedBy(r) ==
  IF slots.passphrase.secret = req[r].pass THEN slots.passphrase.dek ELSE None

LoginVerified(r) ==
  /\ req[r].at = "login-verify" /\ Verified(r)
  /\ keyring.protected
  /\ Await(r, "login-unlock", [req[r] EXCEPT !.dek = SlotOpenedBy(r)])
  /\ UNCHANGED <<database, envKey, keyring, sessions, typedBack>>

LoginUnprotected(r) ==
  /\ req[r].at = "login-verify" /\ Verified(r)
  /\ ~keyring.protected
  /\ Activate(r, None)
  /\ End(r)
  /\ UNCHANGED <<database, envKey, typedBack>>

(* Without the key (423 UNLOCK_FAILED) the request fails.                  *)
LoginUnlocked(r) ==
  /\ req[r].at = "login-unlock" /\ req[r].dek # None
  /\ Activate(r, req[r].dek)
  /\ End(r)
  /\ UNCHANGED <<database, envKey, typedBack>>

-----------------------------------------------------------------------------
(* POST /recover and POST /change-passphrase. *)

(* applyPassphraseChange: the login hash and the slot in one transaction.  *)
ApplyPassphrase(r) ==
  /\ login' = [pass |-> req[r].new, by |-> r]
  /\ slots' = [slots EXCEPT !.passphrase = [secret |-> req[r].new, dek |-> req[r].dek]]
  /\ UNCHANGED <<stored, keyEvent, origin, copies, envKey, typedBack>>

(* The recovery key typed opens its slot at once (HKDF); a wrong one is    *)
(* answered 401 and nothing happens.                                       *)
StartRecover(r, cookie, new) ==
  /\ keyring.protected /\ login # None
  /\ Start(r, "recover",
           [Blank EXCEPT !.cookie = cookie, !.new = new, !.dek = slots.recovery.dek])

Recover(r) ==
  /\ req[r].at = "recover"
  /\ ApplyPassphrase(r)
  /\ keyring' = IF Locked THEN [keyring EXCEPT !.dek = req[r].dek] ELSE keyring
  /\ tracker' = {r} /\ idle' = {}
  /\ End(r)

StartChange(r, cookie, p, new) ==
  /\ SignedIn(cookie) /\ ~Locked /\ login # None
  /\ Start(r, "change-verify",
           [Blank EXCEPT !.cookie = cookie, !.pass = p, !.new = new, !.hash = login])

ChangeVerified(r) ==
  /\ req[r].at = "change-verify" /\ Verified(r)
  /\ Await(r, "change-hash", req[r])
  /\ UNCHANGED <<database, envKey, keyring, sessions, typedBack>>

ChangeUnprotected(r) ==
  /\ req[r].at = "change-hash" /\ ~keyring.protected
  /\ login' = [pass |-> req[r].new, by |-> r]
  /\ RetainOnly(req[r].cookie)
  /\ End(r)
  /\ UNCHANGED <<slots, stored, keyEvent, origin, copies, envKey, keyring, typedBack>>

(* copyDek refuses while locked.                                           *)
ChangeHashed(r) ==
  /\ req[r].at = "change-hash" /\ keyring.protected /\ ~Locked
  /\ Await(r, "change-wrap", [req[r] EXCEPT !.dek = keyring.dek])
  /\ UNCHANGED <<database, envKey, keyring, sessions, typedBack>>

Change(r) ==
  /\ req[r].at = "change-wrap"
  /\ ApplyPassphrase(r)
  /\ RetainOnly(req[r].cookie)
  /\ End(r)
  /\ UNCHANGED keyring

-----------------------------------------------------------------------------
(* POST /upgrade. *)

StartUpgrade(r, cookie, p, u) ==
  /\ SignedIn(cookie) /\ ~keyring.protected /\ login # None
  /\ u => envKey
  /\ Start(r, "upgrade-verify",
           [Blank EXCEPT !.cookie = cookie, !.pass = p, !.unattended = u, !.hash = login])

UpgradeVerified(r) ==
  /\ req[r].at = "upgrade-verify" /\ Verified(r)
  /\ ~keyring.protected /\ slots = None
  /\ Await(r, "upgrade-prepare", req[r])
  /\ UNCHANGED <<database, envKey, keyring, sessions, typedBack>>

(* The safety copy appears as soon as the backup starts.                   *)
UpgradePrepared(r) ==
  /\ req[r].at = "upgrade-prepare"
  /\ Await(r, "upgrade-copy", req[r])
  /\ copies' = copies \cup {r}
  /\ UNCHANGED <<login, slots, stored, keyEvent, origin, envKey, keyring, sessions, typedBack>>

(* Faulty: the login hash is not compared again before the commit.         *)
FaultyBeforeCommit(r) == TRUE
BeforeCommit(r) == login = req[r].hash

(* Faulty: the slots replace those another upgrade has stored.             *)
FaultyAssertNotAlreadyEncrypted == TRUE
AssertNotAlreadyEncrypted == slots = None

Upgrade(r) ==
  /\ req[r].at = "upgrade-copy"
  /\ AssertNotAlreadyEncrypted /\ BeforeCommit(r)
  /\ slots' = InitialSlots(r)
  /\ stored' = IF stored = {} THEN {} ELSE {r}
  /\ keyEvent' = "encrypted" /\ origin' = "encrypted"
  /\ Protect(r, req[r].unattended)
  /\ RetainOnly(req[r].cookie)
  /\ End(r)
  /\ UNCHANGED <<login, copies, envKey, typedBack>>

-----------------------------------------------------------------------------
(* The recovery key and the safety copies. *)

NeedsConfirmation == keyEvent \notin {"none", "confirmed"}

(* POST /upgrade/confirm, with the right key typed back.                   *)
Confirm(cookie) ==
  /\ SignedIn(cookie) /\ keyring.protected
  /\ keyEvent' = "confirmed"
  /\ typedBack' = typedBack \cup {slots.recovery.secret}
  /\ copies' = IF origin = "created" THEN copies ELSE {}
  /\ UNCHANGED <<login, slots, stored, origin, envKey, keyring, sessions, req>>

(* Faulty: the safety copy is offered like any other.                      *)
FaultyHoldSafetyCopy == FALSE
HoldSafetyCopy == NeedsConfirmation /\ origin # "created"

(* POST /backup/plaintext-copies/delete.                                   *)
DeleteCopies(cookie, S) ==
  /\ SignedIn(cookie) /\ keyring.protected /\ ~Locked
  /\ S # {} /\ ~HoldSafetyCopy
  /\ copies' = copies \ S
  /\ UNCHANGED <<login, slots, stored, keyEvent, origin, envKey, keyring, sessions, req, typedBack>>

(* POST /recovery-key/rotate.                                              *)
StartRotate(r, cookie, p) ==
  /\ SignedIn(cookie) /\ keyring.protected /\ login # None
  /\ Start(r, "rotate-verify", [Blank EXCEPT !.cookie = cookie, !.pass = p, !.hash = login])

(* Faulty: the new recovery key counts as confirmed like the old one.      *)
FaultyRotatedEvent == keyEvent
RotatedEvent == "rotated"

Rotate(r) ==
  /\ req[r].at = "rotate-verify" /\ Verified(r)
  /\ keyring.dek = slots.passphrase.dek
  /\ slots' = [slots EXCEPT !.recovery = [secret |-> r, dek |-> keyring.dek]]
  /\ keyEvent' = RotatedEvent
  /\ End(r)
  /\ UNCHANGED <<login, stored, origin, copies, envKey, keyring, sessions, typedBack>>

-----------------------------------------------------------------------------
(* A data request: it passes the hooks of routes/api.ts, waits (an exchange *)
(* rate, an upload) and writes a value through the field cipher.           *)

StartWrite(r, cookie) ==
  /\ ~Locked /\ SignedIn(cookie)
  /\ Start(r, "write", [Blank EXCEPT !.cookie = cookie])

(* keyring.dek is None exactly when nothing is encrypted yet.              *)
Write(r) ==
  /\ req[r].at = "write" /\ ~Locked
  /\ stored' = stored \cup {keyring.dek}
  /\ End(r)
  /\ UNCHANGED <<login, slots, keyEvent, origin, copies, envKey, keyring, sessions, typedBack>>

-----------------------------------------------------------------------------
(* The process. *)

(* registerLockState and unlockAtBoot.                                     *)
BootKeyring(s, env) ==
  IF s = None THEN Unprotected
  ELSE LET opened == IF env THEN s.unattended ELSE None
       IN  [protected |-> TRUE, dek |-> opened, permanent |-> opened # None]

(* The server stops at any point and starts again: the database stays, the *)
(* requests, the sessions and the key go.  (With an ENCRYPTION_KEY that    *)
(* does not open its slot it refuses to start.)                            *)
Restart ==
  /\ envKey' \in BOOLEAN
  /\ keyring' = BootKeyring(slots, envKey')
  /\ tracker' = {} /\ idle' = {}
  /\ req' = [r \in Requests |->
               IF req[r].at = "new" THEN Blank ELSE [Blank EXCEPT !.at = "ended"]]
  /\ UNCHANGED <<database, typedBack>>

(* A database at boot: fresh, with a user and perhaps values but no keys,  *)
(* or encrypted, its recovery key not confirmed yet.  Only an upgrade that *)
(* is not confirmed is sure to have a safety copy; others may have one of  *)
(* some other database's.                                                  *)
Init ==
  /\ login \in Login \cup {None}
  /\ login # None => login.by = Past
  /\ slots \in {None} \cup
       (IF login = None THEN {}
        ELSE {[passphrase |-> [secret |-> login.pass, dek |-> Past],
               recovery   |-> [secret |-> Past, dek |-> Past],
               unattended |-> u] : u \in {None, Past}})
  /\ stored \in {{}, {IF slots = None THEN None ELSE Past}}
  /\ origin \in IF slots = None THEN {"none"} ELSE {"created", "encrypted"}
  /\ keyEvent = origin
  /\ copies \in IF origin = "encrypted" THEN {{Past}} ELSE {{}, {Past}}
  /\ envKey \in BOOLEAN
  /\ keyring = BootKeyring(slots, envKey)
  /\ tracker = {} /\ idle = {}
  /\ req = [r \in Requests |-> Blank]
  /\ typedBack = {}

Cookies == tracker \cup {None}

Handler(r) ==
  \/ Setup(r)
  \/ LoginVerified(r) \/ LoginUnprotected(r) \/ LoginUnlocked(r)
  \/ Recover(r)
  \/ ChangeVerified(r) \/ ChangeUnprotected(r) \/ ChangeHashed(r) \/ Change(r)
  \/ UpgradeVerified(r) \/ UpgradePrepared(r) \/ Upgrade(r)
  \/ Rotate(r) \/ Write(r) \/ Fail(r)

Arrival(r) ==
  \/ \E p \in Passphrases, u \in BOOLEAN : StartSetup(r, p, u)
  \/ \E c \in Cookies, p \in Passphrases : StartLogin(r, c, p) \/ StartRecover(r, c, p)
  \/ \E c \in tracker, p, new \in Passphrases : StartChange(r, c, p, new)
  \/ \E c \in tracker, p \in Passphrases, u \in BOOLEAN : StartUpgrade(r, c, p, u)
  \/ \E c \in tracker, p \in Passphrases : StartRotate(r, c, p)
  \/ \E c \in tracker : StartWrite(r, c)

Next ==
  \/ \E r \in Requests : Arrival(r) \/ Handler(r)
  \/ \E s \in tracker : GoIdle(s) \/ Expire(s) \/ Logout(s) \/ Confirm(s)
  \/ \E s \in tracker, S \in SUBSET copies : DeleteCopies(s, S)
  \/ Sweep \/ Restart

(* The sweeper is a timer: it runs as long as the server does.             *)
Spec == Init /\ [][Next]_vars /\ WF_vars(Sweep)

-----------------------------------------------------------------------------
(* Properties. *)

Locals == [at : Stages, cookie : Names \cup {None}, pass : Passphrases \cup {None},
           new : Passphrases \cup {None}, hash : Login \cup {None},
           dek : Names \cup {None}, unattended : BOOLEAN, withData : BOOLEAN]

(* The variables keep their types; a keyring that protects nothing holds   *)
(* no key, and only a held key can be permanent.                           *)
TypeOK ==
  /\ login \in Login \cup {None}
  /\ slots \in Slots \cup {None}
  /\ stored \subseteq Names \cup {None}
  /\ keyEvent \in {"none", "created", "encrypted", "rotated", "confirmed"}
  /\ origin \in {"none", "created", "encrypted"}
  /\ copies \subseteq Names
  /\ envKey \in BOOLEAN
  /\ keyring \in Keyring
  /\ ~keyring.protected => keyring.dek = None
  /\ keyring.permanent => keyring.dek # None
  /\ tracker \subseteq Names /\ idle \subseteq tracker
  /\ req \in [Requests -> Locals]
  /\ typedBack \subseteq Names

(* auth.ts:109, "the typed passphrase would no longer open the data it     *)
(* logs in to": once there are slots, the passphrase whose hash signs in   *)
(* is the one that opens the passphrase slot, whatever changes, recoveries *)
(* and upgrades overlap.                                                   *)
LoginOpensData == slots # None => login # None /\ login.pass = slots.passphrase.secret

(* Every slot wraps one data key, every stored value is sealed under it,   *)
(* and it is the only key the keyring ever holds; without slots every      *)
(* value is plaintext and the keyring writes plaintext.                    *)
OneDataKey ==
  IF slots = None THEN stored \subseteq {None} /\ keyring = Unprotected
  ELSE LET key == slots.passphrase.dek
       IN  /\ slots.recovery.dek = key /\ slots.unattended \in {None, key}
           /\ stored \subseteq {key}
           /\ keyring.protected /\ keyring.dek \in {None, key}

(* auth.ts:65, "another session ending in between cannot lock the key out  *)
(* from under this one": while any session is live the data is unlocked.   *)
SignedInIsUnlocked == tracker # {} => ~Locked

(* upgrade.ts:197: the plaintext safety copy of the upgrade that encrypted *)
(* the database stays until a recovery key has been typed back.            *)
SafetyCopyKept ==
  origin = "encrypted" /\ slots.passphrase.dek \notin copies => typedBack # {}

(* upgrade.ts:330: a database that asks for no confirmation has had its    *)
(* current recovery key typed back, never only an earlier one.             *)
ConfirmedKeyTypedBack == keyEvent = "confirmed" => slots.recovery.secret \in typedBack

(* What DataVault promises, kept by the handlers: the data key is never    *)
(* replaced or lost, not by a second setup or upgrade either, every value  *)
(* changes key only when the database is encrypted, and nothing is written *)
(* while the data is locked.                                               *)
Vault == INSTANCE DataVault WITH
  Keys       <- Names,
  passphrase <- IF slots # None THEN slots.passphrase.secret
                ELSE IF login # None THEN login.pass ELSE None,
  key        <- IF slots # None THEN slots.passphrase.dek ELSE None,
  open       <- keyring.dek # None,
  values     <- stored

ImplementsVault == Vault!Spec

NobodyHere == tracker \subseteq idle
HeldForSessions == keyring.dek # None /\ ~keyring.permanent

(* session-tracker.ts:55: while no session is in use, the key does not     *)
(* stay in memory for ever, however the last session ended.                *)
KeyDropped == NobodyHere /\ HeldForSessions ~> ~NobodyHere \/ ~HeldForSessions

(* session-tracker.ts:47 and README.md:318: the key is in memory only      *)
(* while a session is signed in, unless it was made permanent.             *)
KeyHeldForSession == HeldForSessions => tracker # {}

(* DEPLOYABILITY.md:72, "a credential change signs out every other         *)
(* session": a sign-in ends with the passphrase that is current, not with  *)
(* one that a change or a recovery replaced while it was under way.        *)
SignInUsesCurrentPassphrase ==
  [][\A r \in Requests :
       r \in tracker' \ tracker /\ req[r].pass # None => req[r].pass = login'.pass]_vars
=============================================================================
