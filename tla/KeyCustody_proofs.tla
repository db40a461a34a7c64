------------------------- MODULE KeyCustody_proofs -------------------------
(***************************************************************************)
(* Proofs about KeyCustody, for every set of requests and passphrases.     *)
(* The invariants of the module are not inductive: they hold because of    *)
(* what a waiting request keeps.  A request that holds a copy of the key   *)
(* holds the one the slots wrap, an upgrade that is under way knows the    *)
(* passphrase whose hash it read and still has its safety copy, and no     *)
(* request that is still under way bears the name of the data key.  IInv   *)
(* adds that, request by request.                                          *)
(***************************************************************************)
EXTENDS KeyCustody, TLAPS

Key == IF slots # None THEN slots.passphrase.dek ELSE None

(* What a request keeps across its await agrees with the database.         *)
RequestOK(r) ==
  /\ req[r].at \in {"login-verify", "change-verify", "change-hash", "change-wrap",
                    "upgrade-verify", "upgrade-prepare", "upgrade-copy", "rotate-verify"} =>
       req[r].hash # None /\ req[r].pass # None
  /\ req[r].at = "setup" => req[r].pass # None
  /\ req[r].at \in {"change-verify", "change-hash", "change-wrap", "recover"} => req[r].new # None
  /\ req[r].at \in {"upgrade-prepare", "upgrade-copy"} => Verified(r)
  /\ req[r].at = "login-unlock" => slots # None /\ req[r].dek \in {None, Key}
  /\ req[r].at \in {"recover", "change-wrap"} => slots # None /\ req[r].dek = Key
  /\ req[r].at = "rotate-verify" => slots # None
  /\ req[r].at = "upgrade-copy" /\ slots = None => r \in copies
  /\ req[r].at # "ended" => Key # r

(* The audit events tell whether there are slots.                          *)
EventsOK ==
  /\ origin = "none" <=> slots = None
  /\ keyEvent = "none" <=> slots = None

KeyInv ==
  /\ LoginOpensData /\ OneDataKey /\ SignedInIsUnlocked
  /\ SafetyCopyKept /\ ConfirmedKeyTypedBack /\ EventsOK

IInv == TypeOK /\ KeyInv /\ \A r \in Requests : RequestOK(r)

-----------------------------------------------------------------------------
(* Requests. *)

LEMMA BlankTyped == Blank \in Locals /\ [Blank EXCEPT !.at = "ended"] \in Locals
  BY DEF Blank, Locals, Stages

LEMMA SetupLocals ==
  ASSUME NEW p \in Passphrases, NEW u \in BOOLEAN, NEW b \in BOOLEAN
  PROVE  LET locals == [Blank EXCEPT !.pass = p, !.unattended = u, !.withData = b]
         IN  locals \in Locals /\ locals.pass = p
  BY BlankTyped DEF Locals

(* A row that is there is not None.                                        *)
LEMMA LoginsAreNotNone == \A l \in Login : l # None
  BY NoneIsNoRow

LEMMA SlotsAreNotNone == \A s \in Slots : s # None
  BY NoneIsNoRow

(* Waiting at a stage, a request keeps its locals and its type, and the    *)
(* other requests keep theirs.                                             *)
LEMMA AwaitKeeps ==
  ASSUME TypeOK, NEW r \in Requests, NEW stage \in Stages, NEW locals \in Locals,
         Await(r, stage, locals)
  PROVE  /\ req' \in [Requests -> Locals]
         /\ req'[r] = [locals EXCEPT !.at = stage]
         /\ \A x \in Requests \ {r} : req'[x] = req[x]
<1>1. [locals EXCEPT !.at = stage] \in Locals
  BY DEF Locals
<1> QED BY <1>1 DEF Await, TypeOK

LEMMA EndKeeps ==
  ASSUME TypeOK, NEW r \in Requests, End(r)
  PROVE  /\ req' \in [Requests -> Locals]
         /\ req'[r].at = "ended"
         /\ \A x \in Requests \ {r} : req'[x] = req[x]
<1>1. [Blank EXCEPT !.at = "ended"] \in Locals /\ [Blank EXCEPT !.at = "ended"].at = "ended"
  BY BlankTyped DEF Blank
<1> QED BY <1>1 DEF End, TypeOK

(* A step of r that leaves the data key alone, or makes r's the first one, *)
(* leaves the other requests in order.                                     *)
LEMMA OthersKeep ==
  ASSUME IInv, NEW r \in Requests, Key' \in {Key, r}, slots # None => slots' # None /\ Key' = Key,
         slots' = None => copies \ {r} \subseteq copies',
         \A x \in Requests \ {r} : req'[x] = req[x]
  PROVE  \A x \in Requests \ {r} : RequestOK(x)'
<1> SUFFICES ASSUME NEW x \in Requests \ {r} PROVE RequestOK(x)'
  OBVIOUS
<1>1. RequestOK(x) /\ req'[x] = req[x] /\ x # r
  BY DEF IInv
<1>2. slots = None => Key = None
  BY DEF Key
<1> QED BY <1>1, <1>2 DEF RequestOK, Verified

LEMMA EndedOK ==
  ASSUME IInv, NEW r \in Requests, Key' \in {Key, r}, slots # None => slots' # None /\ Key' = Key,
         slots' = None => copies \ {r} \subseteq copies',
         End(r)
  PROVE  req' \in [Requests -> Locals] /\ \A x \in Requests : RequestOK(x)'
<1>1. TypeOK
  BY DEF IInv
<1>2. req' \in [Requests -> Locals] /\ req'[r].at = "ended" /\ \A x \in Requests \ {r} : req'[x] = req[x]
  BY <1>1, EndKeeps
<1>3. RequestOK(r)'
  BY <1>2 DEF RequestOK
<1>4. \A x \in Requests \ {r} : RequestOK(x)'
  BY <1>2, OthersKeep
<1> QED BY <1>2, <1>3, <1>4

(* Where only r's locals move, only r's part of the invariant is at stake. *)
LEMMA OnlyRequestMoves ==
  ASSUME IInv, NEW r \in Requests, NEW stage \in Stages, NEW locals \in Locals,
         Await(r, stage, locals), RequestOK(r)',
         UNCHANGED <<database, envKey, keyring, sessions, typedBack>>
  PROVE  IInv'
<1>1. TypeOK /\ KeyInv
  BY DEF IInv
<1>2. req' \in [Requests -> Locals] /\ \A x \in Requests \ {r} : req'[x] = req[x]
  BY <1>1, AwaitKeeps
<1>3. TypeOK'
  BY <1>1, <1>2 DEF TypeOK, database, sessions
<1>4. KeyInv'
  BY <1>1 DEF KeyInv, LoginOpensData, OneDataKey, SignedInIsUnlocked, Locked, SafetyCopyKept,
              ConfirmedKeyTypedBack, EventsOK, database, sessions
<1>5. Key' = Key /\ slots' = slots
  BY DEF Key, database
<1>6. \A x \in Requests \ {r} : RequestOK(x)'
  BY <1>2, <1>5, OthersKeep DEF database
<1> QED BY <1>3, <1>4, <1>6 DEF IInv

(* A request that starts, with what its first stage has to know.           *)
LEMMA StartKeeps ==
  ASSUME IInv, NEW r \in Requests, NEW locals \in Locals,
         NEW stage \in {"setup", "login-verify", "recover", "change-verify",
                        "upgrade-verify", "rotate-verify", "write"},
         Start(r, stage, locals),
         stage \notin {"setup", "recover", "write"} => locals.hash # None,
         stage \notin {"recover", "write"} => locals.pass # None,
         stage \in {"recover", "change-verify"} => locals.new # None,
         stage \in {"recover", "rotate-verify"} => slots # None,
         stage = "recover" => locals.dek = Key
  PROVE  IInv'
<1>1. TypeOK /\ RequestOK(r)
  BY DEF IInv
<1>2. /\ Await(r, stage, locals) /\ req[r].at = "new" /\ stage \in Stages
      /\ UNCHANGED <<database, envKey, keyring, sessions, typedBack>>
  BY DEF Start, Stages
<1>3. req'[r] = [locals EXCEPT !.at = stage]
  BY <1>1, <1>2, AwaitKeeps
<1>4. /\ req'[r].at = stage /\ req'[r].pass = locals.pass /\ req'[r].new = locals.new
      /\ req'[r].hash = locals.hash /\ req'[r].dek = locals.dek
  BY <1>3 DEF Locals
<1>5. RequestOK(r)'
  BY <1>1, <1>2, <1>4 DEF RequestOK, Key, database
<1> QED BY <1>2, <1>5, OnlyRequestMoves

(* Any request that starts.  Each hands StartKeeps the locals it begins    *)
(* with.                                                                   *)
LEMMA ArrivalKeeps ==
  ASSUME IInv, NEW r \in Requests, Arrival(r)
  PROVE  IInv'
<1>0. TypeOK /\ OneDataKey
  BY DEF IInv, KeyInv
<1>1. tracker \subseteq Names /\ Cookies \subseteq Names \cup {None}
  BY <1>0 DEF TypeOK, Cookies
<1>2. None \notin Passphrases
  BY NamesAreDistinct
<1>3. ASSUME NEW p \in Passphrases, NEW u \in BOOLEAN, StartSetup(r, p, u)
      PROVE  IInv'
  <2> DEFINE data == stored # {}
             locals == [Blank EXCEPT !.pass = p, !.unattended = u, !.withData = data]
  <2>1. Start(r, "setup", locals)
    BY <1>3 DEF StartSetup
  <2>2. data \in BOOLEAN
    OBVIOUS
  <2> HIDE DEF data
  <2>3. locals \in Locals /\ locals.pass = p
    BY <2>2, SetupLocals
  <2> HIDE DEF locals
  <2> QED BY <1>2, <2>1, <2>3, StartKeeps
<1>4. ASSUME NEW c \in Cookies, NEW p \in Passphrases, StartLogin(r, c, p)
      PROVE  IInv'
  <2> DEFINE locals == [Blank EXCEPT !.cookie = c, !.pass = p, !.hash = login]
  <2>1. locals \in Locals /\ locals.pass = p /\ locals.hash = login
    BY <1>0, <1>1, BlankTyped DEF Blank, Locals, TypeOK
  <2>2. Start(r, "login-verify", locals) /\ login # None
    BY <1>4 DEF StartLogin
  <2> HIDE DEF locals
  <2> QED BY <1>2, <2>1, <2>2, StartKeeps
<1>5. ASSUME NEW c \in Cookies, NEW p \in Passphrases, StartRecover(r, c, p)
      PROVE  IInv'
  <2> DEFINE locals == [Blank EXCEPT !.cookie = c, !.new = p, !.dek = slots.recovery.dek]
  <2>1. Start(r, "recover", locals) /\ keyring.protected
    BY <1>5 DEF StartRecover
  <2>2. slots # None /\ slots \in Slots /\ slots.recovery.dek = Key
    BY <1>0, <2>1 DEF OneDataKey, Unprotected, TypeOK, Key
  <2>3. locals \in Locals /\ locals.new = p /\ locals.dek = Key
    BY <1>1, <2>2, BlankTyped DEF Blank, Locals, Slots
  <2> HIDE DEF locals
  <2> QED BY <1>2, <2>1, <2>2, <2>3, StartKeeps
<1>6. ASSUME NEW c \in tracker, NEW p \in Passphrases, NEW new \in Passphrases,
             StartChange(r, c, p, new)
      PROVE  IInv'
  <2> DEFINE locals == [Blank EXCEPT !.cookie = c, !.pass = p, !.new = new, !.hash = login]
  <2>1. locals \in Locals /\ locals.pass = p /\ locals.new = new /\ locals.hash = login
    BY <1>0, <1>1, BlankTyped DEF Blank, Locals, TypeOK
  <2>2. Start(r, "change-verify", locals) /\ login # None
    BY <1>6 DEF StartChange
  <2> HIDE DEF locals
  <2> QED BY <1>2, <2>1, <2>2, StartKeeps
<1>7. ASSUME NEW c \in tracker, NEW p \in Passphrases, NEW u \in BOOLEAN,
             StartUpgrade(r, c, p, u)
      PROVE  IInv'
  <2> DEFINE locals == [Blank EXCEPT !.cookie = c, !.pass = p, !.unattended = u, !.hash = login]
  <2>1. locals \in Locals /\ locals.pass = p /\ locals.hash = login
    BY <1>0, <1>1, BlankTyped DEF Blank, Locals, TypeOK
  <2>2. Start(r, "upgrade-verify", locals) /\ login # None
    BY <1>7 DEF StartUpgrade
  <2> HIDE DEF locals
  <2> QED BY <1>2, <2>1, <2>2, StartKeeps
<1>8. ASSUME NEW c \in tracker, NEW p \in Passphrases, StartRotate(r, c, p)
      PROVE  IInv'
  <2> DEFINE locals == [Blank EXCEPT !.cookie = c, !.pass = p, !.hash = login]
  <2>1. locals \in Locals /\ locals.pass = p /\ locals.hash = login
    BY <1>0, <1>1, BlankTyped DEF Blank, Locals, TypeOK
  <2>2. Start(r, "rotate-verify", locals) /\ login # None /\ keyring.protected
    BY <1>8 DEF StartRotate
  <2>3. slots # None
    BY <1>0, <2>2 DEF OneDataKey, Unprotected
  <2> HIDE DEF locals
  <2> QED BY <1>2, <2>1, <2>2, <2>3, StartKeeps
<1>9. ASSUME NEW c \in tracker, StartWrite(r, c)
      PROVE  IInv'
  <2> DEFINE locals == [Blank EXCEPT !.cookie = c]
  <2>1. locals \in Locals
    BY <1>1, BlankTyped DEF Blank, Locals
  <2>2. Start(r, "write", locals)
    BY <1>9 DEF StartWrite
  <2> HIDE DEF locals
  <2> QED BY <2>1, <2>2, StartKeeps
<1> QED BY <1>3, <1>4, <1>5, <1>6, <1>7, <1>8, <1>9 DEF Arrival

-----------------------------------------------------------------------------
(* Sessions. *)

LEMMA RequestsStay ==
  ASSUME IInv, UNCHANGED <<slots, req>>, slots = None => copies \subseteq copies'
  PROVE  \A x \in Requests : RequestOK(x)'
<1>1. Key' = Key
  BY DEF Key
<1> QED BY <1>1 DEF IInv, RequestOK, Verified

(* However sessions end, the key is locked exactly when none is left.      *)
LEMMA DropKeeps ==
  ASSUME IInv, NEW S, Drop(S), UNCHANGED <<database, envKey, req, typedBack>>
  PROVE  IInv'
<1>1. TypeOK /\ KeyInv
  BY DEF IInv
<1>2. \/ keyring' = keyring
      \/ tracker' = {} /\ ~keyring.permanent /\ keyring' = [keyring EXCEPT !.dek = None]
  BY DEF Drop
<1>3. keyring \in Keyring
  BY <1>1 DEF TypeOK
<1>4. /\ keyring' \in Keyring /\ keyring'.protected = keyring.protected
      /\ keyring'.permanent = keyring.permanent
      /\ keyring'.dek \in {None, keyring.dek}
      /\ keyring'.permanent => keyring'.dek = keyring.dek
      /\ tracker' # {} => keyring' = keyring
  BY <1>2, <1>3 DEF Keyring
<1>5. TypeOK'
  BY <1>1, <1>4 DEF TypeOK, database, Drop
<1>6. KeyInv'
  <2>1. OneDataKey'
    <3>1. CASE slots = None
      <4>1. keyring = Unprotected /\ stored \subseteq {None}
        BY <1>1, <3>1 DEF KeyInv, OneDataKey
      <4>2. keyring' = Unprotected
        BY <1>2, <4>1 DEF Unprotected
      <4> QED BY <3>1, <4>1, <4>2 DEF OneDataKey, Unprotected, database
    <3>2. CASE slots # None
      BY <1>1, <1>4, <3>2 DEF KeyInv, OneDataKey, database
    <3> QED BY <3>1, <3>2
  <2>2. SignedInIsUnlocked'
    BY <1>1, <1>4 DEF Drop, KeyInv, SignedInIsUnlocked, Locked
  <2> QED BY <1>1, <2>1, <2>2
          DEF KeyInv, LoginOpensData, SafetyCopyKept, ConfirmedKeyTypedBack, EventsOK, database
<1>7. \A x \in Requests : RequestOK(x)'
  BY RequestsStay DEF database
<1> QED BY <1>5, <1>6, <1>7 DEF IInv

(* Everything about sessions that is not a request of its own.             *)
LEMMA SessionKeeps ==
  ASSUME IInv, NEW s \in tracker, GoIdle(s) \/ Expire(s) \/ Logout(s) \/ Sweep
  PROVE  IInv'
<1>1. CASE GoIdle(s)
  <2>1. TypeOK'
    BY <1>1 DEF GoIdle, IInv, TypeOK, database
  <2>2. KeyInv'
    BY <1>1 DEF GoIdle, IInv, KeyInv, LoginOpensData, OneDataKey, SignedInIsUnlocked, Locked,
                SafetyCopyKept, ConfirmedKeyTypedBack, EventsOK, database
  <2>3. \A x \in Requests : RequestOK(x)'
    BY <1>1, RequestsStay DEF GoIdle, database
  <2> QED BY <2>1, <2>2, <2>3 DEF IInv
<1>2. CASE Expire(s)
  BY <1>2, DropKeeps DEF Expire
<1>3. CASE Logout(s)
  BY <1>3, DropKeeps DEF Logout
<1>4. CASE Sweep
  BY <1>4, DropKeeps DEF Sweep
<1> QED BY <1>1, <1>2, <1>3, <1>4

(* POST /upgrade/confirm and /backup/plaintext-copies/delete.  A safety    *)
(* copy goes only once a recovery key has been typed back.                 *)
LEMMA CopiesKeep ==
  ASSUME IInv, NEW s \in tracker,
         Confirm(s) \/ \E S \in SUBSET copies : DeleteCopies(s, S)
  PROVE  IInv'
<1>1. TypeOK /\ KeyInv
  BY DEF IInv
<1>2. UNCHANGED <<login, slots, stored, origin, envKey, keyring, sessions, req>>
  BY DEF Confirm, DeleteCopies
<1>3. slots # None /\ slots \in Slots
  <2>1. keyring.protected
    BY DEF Confirm, DeleteCopies
  <2> QED BY <1>1, <2>1 DEF KeyInv, OneDataKey, Unprotected, TypeOK
<1>4. slots.recovery.secret \in Names
  BY <1>3 DEF Slots
<1>5. TypeOK'
  BY <1>1, <1>2, <1>4 DEF TypeOK, sessions, Confirm, DeleteCopies
<1>6. KeyInv'
  <2>1. (LoginOpensData /\ OneDataKey /\ SignedInIsUnlocked)'
    BY <1>1, <1>2 DEF KeyInv, LoginOpensData, OneDataKey, SignedInIsUnlocked, Locked, sessions
  <2>2. CASE Confirm(s)
    BY <1>1, <1>2, <1>3, <2>1, <2>2 DEF Confirm, KeyInv, SafetyCopyKept, ConfirmedKeyTypedBack, EventsOK
  <2>3. CASE \E S \in SUBSET copies : DeleteCopies(s, S)
    <3>1. UNCHANGED <<keyEvent, typedBack>>
      BY <2>3 DEF DeleteCopies
    <3>2. origin = "created" \/ keyEvent = "confirmed"
      BY <1>1, <1>3, <2>3 DEF DeleteCopies, HoldSafetyCopy, NeedsConfirmation, KeyInv, EventsOK, TypeOK
    <3> QED BY <1>1, <1>2, <2>1, <3>1, <3>2
            DEF KeyInv, SafetyCopyKept, ConfirmedKeyTypedBack, EventsOK
  <2> QED BY <2>2, <2>3
<1>7. \A x \in Requests : RequestOK(x)'
  BY <1>2, <1>3, RequestsStay
<1> QED BY <1>5, <1>6, <1>7 DEF IInv

-----------------------------------------------------------------------------
(* Handlers that end in another await. *)

(* The passphrase typed was right: the request goes on with what it read.  *)
LEMMA VerifiedKeeps ==
  ASSUME IInv, NEW r \in Requests,
         LoginVerified(r) \/ ChangeVerified(r) \/ ChangeHashed(r) \/ UpgradeVerified(r)
  PROVE  IInv'
<1>1. TypeOK /\ OneDataKey /\ RequestOK(r) /\ req[r] \in Locals
  BY DEF IInv, KeyInv, TypeOK
<1>2. CASE LoginVerified(r)
  <2> DEFINE dek == SlotOpenedBy(r)
             locals == [req[r] EXCEPT !.dek = dek]
  <2>1. /\ Await(r, "login-unlock", locals) /\ req[r].at = "login-verify" /\ keyring.protected
        /\ UNCHANGED <<database, envKey, keyring, sessions, typedBack>>
    BY <1>2 DEF LoginVerified
  <2>2. slots # None /\ slots \in Slots
    BY <1>1, <2>1 DEF OneDataKey, Unprotected, TypeOK
  <2>3. dek \in {None, Key} /\ dek \in Names \cup {None}
    BY <2>2 DEF SlotOpenedBy, Key, Slots
  <2> HIDE DEF dek
  <2>4. locals \in Locals /\ locals.dek = dek /\ locals.pass = req[r].pass
    BY <1>1, <2>3 DEF Locals
  <2> HIDE DEF locals
  <2>5. "login-unlock" \in Stages
    BY DEF Stages
  <2>6. req'[r] = [locals EXCEPT !.at = "login-unlock"]
    BY <1>1, <2>1, <2>4, <2>5, AwaitKeeps
  <2>7. req'[r].at = "login-unlock" /\ req'[r].dek = dek
    BY <2>4, <2>6 DEF Locals
  <2>8. RequestOK(r)'
    BY <1>1, <2>1, <2>2, <2>3, <2>7 DEF RequestOK, Key, database
  <2> QED BY <2>1, <2>4, <2>5, <2>8, OnlyRequestMoves
<1>3. CASE ChangeVerified(r)
  <2>1. /\ Await(r, "change-hash", req[r]) /\ req[r].at = "change-verify"
        /\ UNCHANGED <<database, envKey, keyring, sessions, typedBack>>
    BY <1>3 DEF ChangeVerified
  <2>2. "change-hash" \in Stages
    BY DEF Stages
  <2>3. req'[r] = [req[r] EXCEPT !.at = "change-hash"]
    BY <1>1, <2>1, <2>2, AwaitKeeps
  <2>4. /\ req'[r].at = "change-hash" /\ req'[r].pass = req[r].pass
        /\ req'[r].new = req[r].new /\ req'[r].hash = req[r].hash
    BY <1>1, <2>3 DEF Locals
  <2>5. RequestOK(r)'
    BY <1>1, <2>1, <2>4 DEF RequestOK, Key, database
  <2> QED BY <1>1, <2>1, <2>2, <2>5, OnlyRequestMoves
<1>4. CASE ChangeHashed(r)
  <2> DEFINE dek == keyring.dek
             locals == [req[r] EXCEPT !.dek = dek]
  <2>1. /\ Await(r, "change-wrap", locals) /\ req[r].at = "change-hash"
        /\ keyring.protected /\ ~Locked
        /\ UNCHANGED <<database, envKey, keyring, sessions, typedBack>>
    BY <1>4 DEF ChangeHashed
  <2>2. slots # None /\ dek = Key /\ dek \in Names \cup {None}
    BY <1>1, <2>1 DEF OneDataKey, Unprotected, Locked, Key, TypeOK, Keyring
  <2> HIDE DEF dek
  <2>3. /\ locals \in Locals /\ locals.dek = dek /\ locals.pass = req[r].pass
        /\ locals.new = req[r].new /\ locals.hash = req[r].hash
    BY <1>1, <2>2 DEF Locals
  <2> HIDE DEF locals
  <2>4. "change-wrap" \in Stages
    BY DEF Stages
  <2>5. req'[r] = [locals EXCEPT !.at = "change-wrap"]
    BY <1>1, <2>1, <2>3, <2>4, AwaitKeeps
  <2>6. /\ req'[r].at = "change-wrap" /\ req'[r].dek = dek /\ req'[r].pass = req[r].pass
        /\ req'[r].new = req[r].new /\ req'[r].hash = req[r].hash
    BY <2>3, <2>5 DEF Locals
  <2>7. RequestOK(r)'
    BY <1>1, <2>1, <2>2, <2>6 DEF RequestOK, Key, database
  <2> QED BY <2>1, <2>3, <2>4, <2>7, OnlyRequestMoves
<1>5. CASE UpgradeVerified(r)
  <2>1. /\ Await(r, "upgrade-prepare", req[r]) /\ req[r].at = "upgrade-verify" /\ Verified(r)
        /\ UNCHANGED <<database, envKey, keyring, sessions, typedBack>>
    BY <1>5 DEF UpgradeVerified
  <2>2. "upgrade-prepare" \in Stages
    BY DEF Stages
  <2>3. req'[r] = [req[r] EXCEPT !.at = "upgrade-prepare"]
    BY <1>1, <2>1, <2>2, AwaitKeeps
  <2>4. /\ req'[r].at = "upgrade-prepare" /\ req'[r].pass = req[r].pass
        /\ req'[r].hash = req[r].hash
    BY <1>1, <2>3 DEF Locals
  <2>5. RequestOK(r)'
    BY <1>1, <2>1, <2>4 DEF RequestOK, Verified, Key, database
  <2> QED BY <1>1, <2>1, <2>2, <2>5, OnlyRequestMoves
<1> QED BY <1>2, <1>3, <1>4, <1>5

(* The safety copy appears; nothing else in the database moves.            *)
LEMMA UpgradePreparedKeeps ==
  ASSUME IInv, NEW r \in Requests, UpgradePrepared(r)
  PROVE  IInv'
<1>1. TypeOK /\ KeyInv /\ RequestOK(r) /\ req[r] \in Locals
  BY DEF IInv, TypeOK
<1>2. /\ Await(r, "upgrade-copy", req[r]) /\ req[r].at = "upgrade-prepare"
      /\ copies' = copies \cup {r}
      /\ UNCHANGED <<login, slots, stored, keyEvent, origin, envKey, keyring, sessions, typedBack>>
  BY DEF UpgradePrepared
<1>3. "upgrade-copy" \in Stages
  BY DEF Stages
<1>4. /\ req' \in [Requests -> Locals] /\ req'[r] = [req[r] EXCEPT !.at = "upgrade-copy"]
      /\ \A x \in Requests \ {r} : req'[x] = req[x]
  BY <1>1, <1>2, <1>3, AwaitKeeps
<1>5. /\ req'[r].at = "upgrade-copy" /\ req'[r].pass = req[r].pass
      /\ req'[r].hash = req[r].hash
  BY <1>1, <1>4 DEF Locals
<1>6. RequestOK(r)'
  BY <1>1, <1>2, <1>5 DEF RequestOK, Verified, Key
<1>7. Key' = Key
  BY <1>2 DEF Key
<1>8. \A x \in Requests \ {r} : RequestOK(x)'
  BY <1>2, <1>4, <1>7, OthersKeep
<1>9. TypeOK'
  BY <1>1, <1>2, <1>4 DEF TypeOK, sessions, Names
<1>10. KeyInv'
  BY <1>1, <1>2 DEF KeyInv, LoginOpensData, OneDataKey, SignedInIsUnlocked, Locked, SafetyCopyKept,
                    ConfirmedKeyTypedBack, EventsOK, sessions
<1> QED BY <1>6, <1>8, <1>9, <1>10 DEF IInv

-----------------------------------------------------------------------------
(* Handlers that answer. *)

(* What any handler that answers has to show about the rest of the state.  *)
LEMMA AnswerKeeps ==
  ASSUME IInv, NEW r \in Requests, End(r),
         Key' \in {Key, r}, slots # None => slots' # None /\ Key' = Key,
         slots' = None => copies \ {r} \subseteq copies',
         login' \in Login \cup {None}, slots' \in Slots \cup {None},
         stored' \subseteq Names \cup {None},
         keyEvent' \in {"none", "created", "encrypted", "rotated", "confirmed"},
         origin' \in {"none", "created", "encrypted"},
         copies' \subseteq Names, UNCHANGED <<envKey, typedBack>>,
         keyring' \in Keyring,
         ~keyring'.protected => keyring'.dek = None,
         keyring'.permanent => keyring'.dek # None,
         tracker' \subseteq Names, idle' \subseteq tracker',
         KeyInv'
  PROVE  IInv'
<1>1. TypeOK
  BY DEF IInv
<1>2. req' \in [Requests -> Locals] /\ \A x \in Requests : RequestOK(x)'
  BY EndedOK
<1>3. TypeOK'
  BY <1>1, <1>2 DEF TypeOK
<1> QED BY <1>2, <1>3 DEF IInv

LEMMA FailKeeps ==
  ASSUME IInv, NEW r \in Requests, Fail(r)
  PROVE  IInv'
<1>1. TypeOK /\ KeyInv /\ RequestOK(r)
  BY DEF IInv
<1>2. /\ End(r) /\ req[r].at # "ended" /\ copies' \subseteq copies /\ copies \ {r} \subseteq copies'
      /\ UNCHANGED <<login, slots, stored, keyEvent, origin, envKey, keyring, sessions, typedBack>>
  BY DEF Fail
<1>3. Key' = Key /\ Key # r
  BY <1>1, <1>2 DEF Key, RequestOK
<1>4. KeyInv'
  <2>1. SafetyCopyKept'
    BY <1>1, <1>2, <1>3 DEF KeyInv, SafetyCopyKept, EventsOK, Key
  <2> QED BY <1>1, <1>2, <2>1 DEF KeyInv, LoginOpensData, OneDataKey, SignedInIsUnlocked, Locked,
                                  ConfirmedKeyTypedBack, EventsOK, sessions
<1> QED BY <1>1, <1>2, <1>3, <1>4, AnswerKeeps DEF TypeOK, sessions

(* The slots a request creates wrap its own key, under its own passphrase. *)
LEMMA InitialSlotsTyped ==
  ASSUME TypeOK, NEW r \in Requests, req[r].pass # None
  PROVE  /\ InitialSlots(r) \in Slots /\ InitialSlots(r) # None
         /\ InitialSlots(r).passphrase.secret = req[r].pass
         /\ InitialSlots(r).passphrase.dek = r /\ InitialSlots(r).recovery.dek = r
         /\ InitialSlots(r).unattended \in {None, r}
<1>1. req[r] \in Locals /\ r \in Names
  BY DEF TypeOK, Names
<1>2. InitialSlots(r) \in Slots
  BY <1>1 DEF InitialSlots, Slots, Locals
<1>3. InitialSlots(r) # None
  BY <1>2, SlotsAreNotNone
<1> QED BY <1>2, <1>3 DEF InitialSlots

LEMMA SetupKeeps ==
  ASSUME IInv, NEW r \in Requests, Setup(r)
  PROVE  IInv'
<1>1. TypeOK /\ KeyInv /\ RequestOK(r) /\ req[r] \in Locals
  BY DEF IInv, TypeOK
<1>2. /\ End(r) /\ req[r].at = "setup" /\ login = None
      /\ (stored # {}) = req[r].withData
      /\ login' = [pass |-> req[r].pass, by |-> r]
      /\ tracker' = tracker \cup {r}
      /\ UNCHANGED <<stored, copies, envKey, idle, typedBack>>
  BY DEF Setup
<1>3. slots = None /\ Key = None /\ keyring = Unprotected /\ stored \subseteq {None}
      /\ origin = "none" /\ keyEvent = "none"
  BY <1>1, <1>2 DEF KeyInv, LoginOpensData, OneDataKey, EventsOK, Key
<1>4. req[r].pass # None /\ r \in Names
  BY <1>1, <1>2 DEF RequestOK, Names
<1>5. login' \in Login /\ login' # None /\ login'.pass = req[r].pass
  BY <1>1, <1>2, <1>4, LoginsAreNotNone DEF Login, Locals
<1>6. CASE CreatesSlots(r)
  <2>1. /\ slots' = InitialSlots(r) /\ keyEvent' = "created" /\ origin' = "created"
        /\ Protect(r, req[r].unattended)
    BY <1>2, <1>6 DEF Setup
  <2>2. stored = {}
    BY <1>2, <1>6 DEF CreatesSlots
  <2>3. /\ slots' \in Slots /\ slots' # None /\ slots'.passphrase.secret = req[r].pass
        /\ slots'.passphrase.dek = r /\ slots'.recovery.dek = r
        /\ slots'.unattended \in {None, r} /\ Key' = r
    BY <1>1, <1>4, <2>1, InitialSlotsTyped DEF Key
  <2>4. /\ keyring' \in Keyring /\ keyring'.protected /\ keyring'.dek = r
        /\ keyring'.dek # None
    BY <1>1, <1>4, <2>1, NamesAreDistinct DEF Protect, Keyring, Locals
  <2>5. KeyInv'
    BY <1>2, <1>5, <2>1, <2>2, <2>3, <2>4
       DEF KeyInv, LoginOpensData, OneDataKey, SignedInIsUnlocked, Locked, SafetyCopyKept,
           ConfirmedKeyTypedBack, EventsOK
  <2> QED BY <1>1, <1>2, <1>3, <1>4, <1>5, <2>1, <2>3, <2>4, <2>5, AnswerKeeps DEF TypeOK
<1>7. CASE ~CreatesSlots(r)
  <2>1. UNCHANGED <<slots, keyEvent, origin, keyring>>
    BY <1>2, <1>7 DEF Setup
  <2>2. Key' = Key
    BY <2>1 DEF Key
  <2>3. KeyInv'
    BY <1>1, <1>2, <1>3, <2>1
       DEF KeyInv, LoginOpensData, OneDataKey, SignedInIsUnlocked, Locked, Unprotected,
           SafetyCopyKept, ConfirmedKeyTypedBack, EventsOK
  <2> QED BY <1>1, <1>2, <1>3, <1>4, <1>5, <2>1, <2>2, <2>3, AnswerKeeps DEF TypeOK
<1> QED BY <1>6, <1>7

(* A sign-in and its key appear together: whatever ended the other         *)
(* sessions in between, this one finds the data open.                      *)
LEMMA SignInKeeps ==
  ASSUME IInv, NEW r \in Requests, NEW dek, Activate(r, dek), End(r),
         UNCHANGED <<database, envKey, typedBack>>,
         \/ ~keyring.protected
         \/ slots # None /\ dek = Key
  PROVE  IInv'
<1>1. TypeOK /\ KeyInv /\ r \in Names
  BY DEF IInv, Names
<1>2. slots # None => slots \in Slots /\ Key \in Names /\ Key # None
  BY <1>1, NamesAreDistinct DEF TypeOK, Slots, Key, Names
<1>3. /\ keyring' \in Keyring /\ keyring'.protected = keyring.protected
      /\ keyring'.permanent = keyring.permanent
      /\ ~Locked'
      /\ ~Locked => keyring' = keyring
      /\ Locked => slots # None /\ keyring'.dek = Key
  BY <1>1, <1>2 DEF Activate, Locked, Keyring, TypeOK
<1>4. tracker' \subseteq Names /\ idle' \subseteq tracker'
  BY <1>1 DEF Activate, TypeOK
<1>5. Key' = Key /\ UNCHANGED <<login, slots, stored, keyEvent, origin, copies>>
  BY DEF database, Key
<1>6. KeyInv'
  <2>1. OneDataKey'
    <3>1. CASE slots = None
      <4>1. keyring = Unprotected /\ ~Locked
        BY <1>1, <3>1 DEF KeyInv, OneDataKey, Unprotected, Locked
      <4> QED BY <1>1, <1>3, <1>5, <3>1, <4>1 DEF KeyInv, OneDataKey, Unprotected
    <3>2. CASE slots # None
      BY <1>1, <1>3, <1>5, <3>2 DEF KeyInv, OneDataKey, Key
    <3> QED BY <3>1, <3>2
  <2> QED BY <1>1, <1>3, <1>5, <2>1
          DEF KeyInv, LoginOpensData, SignedInIsUnlocked, SafetyCopyKept, ConfirmedKeyTypedBack, EventsOK
<1>7. (~keyring'.protected => keyring'.dek = None) /\ (keyring'.permanent => keyring'.dek # None)
  BY <1>1, <1>2, <1>3 DEF TypeOK, Locked
<1> QED BY <1>1, <1>3, <1>4, <1>5, <1>6, <1>7, AnswerKeeps DEF TypeOK

LEMMA LoginKeeps ==
  ASSUME IInv, NEW r \in Requests, LoginUnprotected(r) \/ LoginUnlocked(r)
  PROVE  IInv'
<1>1. RequestOK(r)
  BY DEF IInv
<1>2. CASE LoginUnprotected(r)
  BY <1>2, SignInKeeps DEF LoginUnprotected
<1>3. CASE LoginUnlocked(r)
  BY <1>1, <1>3, SignInKeeps DEF LoginUnlocked, RequestOK
<1> QED BY <1>2, <1>3

(* Login hash and passphrase slot move in the same transaction, under the  *)
(* same passphrase.                                                        *)
LEMMA ApplyPassphraseKeeps ==
  ASSUME IInv, NEW r \in Requests, req[r].at \in {"recover", "change-wrap"}, ApplyPassphrase(r)
  PROVE  /\ login' \in Login /\ slots' \in Slots /\ slots # None /\ slots' # None
         /\ Key' = Key /\ Key \in Names /\ Key # None /\ req[r].dek = Key
         /\ slots'.passphrase.dek = slots.passphrase.dek
         /\ slots'.recovery = slots.recovery /\ slots'.unattended = slots.unattended
         /\ LoginOpensData'
<1>1. TypeOK /\ RequestOK(r) /\ req[r] \in Locals /\ r \in Names
  BY DEF IInv, TypeOK, Names
<1>2. req[r].new \in Passphrases /\ slots # None /\ slots \in Slots /\ req[r].dek = Key
  BY <1>1 DEF RequestOK, Locals, TypeOK
<1>3. Key = slots.passphrase.dek /\ Key \in Names
  BY <1>2 DEF Key, Slots
<1>4. login' = [pass |-> req[r].new, by |-> r] /\ login' \in Login
  BY <1>1, <1>2 DEF ApplyPassphrase, Login
<1>5. /\ slots' \in Slots /\ slots'.recovery = slots.recovery /\ slots'.unattended = slots.unattended
      /\ slots'.passphrase.dek = Key /\ slots'.passphrase.secret = req[r].new
  BY <1>2, <1>3 DEF ApplyPassphrase, Slots
<1>6. slots' # None /\ login' # None /\ Key # None
  BY <1>3, <1>4, <1>5, LoginsAreNotNone, SlotsAreNotNone, NamesAreDistinct DEF Names
<1> QED BY <1>2, <1>3, <1>4, <1>5, <1>6 DEF Key, LoginOpensData

LEMMA RecoverKeeps ==
  ASSUME IInv, NEW r \in Requests, Recover(r)
  PROVE  IInv'
<1>1. TypeOK /\ KeyInv /\ r \in Names
  BY DEF IInv, Names
<1>2. /\ req[r].at = "recover" /\ ApplyPassphrase(r) /\ End(r)
      /\ keyring' = IF Locked THEN [keyring EXCEPT !.dek = req[r].dek] ELSE keyring
      /\ tracker' = {r} /\ idle' = {}
      /\ UNCHANGED <<stored, keyEvent, origin, copies, envKey, typedBack>>
  BY DEF Recover, ApplyPassphrase
<1>3. /\ login' \in Login /\ slots' \in Slots /\ slots # None /\ slots' # None
      /\ Key' = Key /\ Key \in Names /\ Key # None /\ req[r].dek = Key
      /\ slots'.passphrase.dek = slots.passphrase.dek
      /\ slots'.recovery = slots.recovery /\ slots'.unattended = slots.unattended
      /\ LoginOpensData'
  BY <1>2, ApplyPassphraseKeeps
<1>4. /\ keyring' \in Keyring /\ keyring'.protected = keyring.protected
      /\ keyring'.permanent = keyring.permanent /\ ~Locked'
      /\ ~Locked => keyring' = keyring
      /\ Locked => keyring'.dek = Key
  BY <1>1, <1>2, <1>3 DEF Locked, Keyring, TypeOK
<1>5. KeyInv'
  BY <1>1, <1>2, <1>3, <1>4 DEF KeyInv, OneDataKey, SignedInIsUnlocked, SafetyCopyKept,
                                ConfirmedKeyTypedBack, EventsOK, Key
<1>6. (~keyring'.protected => keyring'.dek = None) /\ (keyring'.permanent => keyring'.dek # None)
  BY <1>1, <1>3, <1>4 DEF TypeOK, Locked
<1> QED BY <1>1, <1>2, <1>3, <1>4, <1>5, <1>6, AnswerKeeps DEF TypeOK

LEMMA ChangeKeeps ==
  ASSUME IInv, NEW r \in Requests, Change(r) \/ ChangeUnprotected(r)
  PROVE  IInv'
<1>1. TypeOK /\ KeyInv /\ RequestOK(r) /\ req[r] \in Locals /\ r \in Names
  BY DEF IInv, TypeOK, Names
<1>2. /\ End(r) /\ tracker' \subseteq tracker /\ idle' \subseteq tracker'
      /\ UNCHANGED <<stored, keyEvent, origin, copies, envKey, keyring, typedBack>>
  BY <1>1 DEF Change, ChangeUnprotected, ApplyPassphrase, RetainOnly, TypeOK
<1>3. SignedInIsUnlocked'
  BY <1>1, <1>2 DEF KeyInv, SignedInIsUnlocked, Locked
<1>4. CASE Change(r)
  <2>1. /\ login' \in Login /\ slots' \in Slots /\ slots # None /\ slots' # None
        /\ Key' = Key /\ slots'.passphrase.dek = slots.passphrase.dek
        /\ slots'.recovery = slots.recovery /\ slots'.unattended = slots.unattended
        /\ LoginOpensData'
    BY <1>4, ApplyPassphraseKeeps DEF Change
  <2>2. KeyInv'
    BY <1>1, <1>2, <1>3, <2>1 DEF KeyInv, OneDataKey, SafetyCopyKept, ConfirmedKeyTypedBack, EventsOK
  <2> QED BY <1>1, <1>2, <2>1, <2>2, AnswerKeeps DEF TypeOK
<1>5. CASE ChangeUnprotected(r)
  <2>1. /\ req[r].at = "change-hash" /\ ~keyring.protected /\ slots' = slots
        /\ login' = [pass |-> req[r].new, by |-> r]
    BY <1>5 DEF ChangeUnprotected
  <2>2. slots = None /\ Key' = Key
    BY <1>1, <2>1 DEF KeyInv, OneDataKey, Key
  <2>3. login' \in Login
    BY <1>1, <2>1 DEF RequestOK, Locals, Login
  <2>4. KeyInv'
    BY <1>1, <1>2, <1>3, <2>1, <2>2
       DEF KeyInv, LoginOpensData, OneDataKey, SafetyCopyKept, ConfirmedKeyTypedBack, EventsOK, Unprotected
  <2> QED BY <1>1, <1>2, <2>1, <2>2, <2>3, <2>4, AnswerKeeps DEF TypeOK
<1> QED BY <1>4, <1>5

(* The upgrade commits under the passphrase whose hash is still the one    *)
(* it read, over plaintext only, and with its safety copy in place.        *)
LEMMA UpgradeKeeps ==
  ASSUME IInv, NEW r \in Requests, Upgrade(r)
  PROVE  IInv'
<1>1. TypeOK /\ KeyInv /\ RequestOK(r) /\ req[r] \in Locals /\ r \in Names
  BY DEF IInv, TypeOK, Names
<1>2. /\ req[r].at = "upgrade-copy" /\ slots = None /\ login = req[r].hash
      /\ slots' = InitialSlots(r)
      /\ stored' = IF stored = {} THEN {} ELSE {r}
      /\ keyEvent' = "encrypted" /\ origin' = "encrypted"
      /\ Protect(r, req[r].unattended) /\ End(r)
      /\ tracker' \subseteq tracker /\ idle' \subseteq tracker'
      /\ UNCHANGED <<login, copies, envKey, typedBack>>
  BY <1>1 DEF Upgrade, AssertNotAlreadyEncrypted, BeforeCommit, RetainOnly, TypeOK
<1>3. login # None /\ login.pass = req[r].pass /\ req[r].pass # None /\ r \in copies
  BY <1>1, <1>2 DEF RequestOK, Verified
<1>4. /\ slots' \in Slots /\ slots' # None /\ slots'.passphrase.secret = req[r].pass
      /\ slots'.passphrase.dek = r /\ slots'.recovery.dek = r
      /\ slots'.unattended \in {None, r} /\ Key' = r
  BY <1>1, <1>2, <1>3, InitialSlotsTyped DEF Key
<1>5. keyring' \in Keyring /\ keyring'.protected /\ keyring'.dek = r /\ keyring'.dek # None
  BY <1>1, <1>2, NamesAreDistinct DEF Protect, Keyring, Locals
<1>6. stored' \subseteq {r} /\ stored' \subseteq Names \cup {None}
  BY <1>1, <1>2
<1>7. KeyInv'
  BY <1>2, <1>3, <1>4, <1>5, <1>6
     DEF KeyInv, LoginOpensData, OneDataKey, SignedInIsUnlocked, Locked, SafetyCopyKept,
         ConfirmedKeyTypedBack, EventsOK
<1> QED BY <1>1, <1>2, <1>4, <1>5, <1>6, <1>7, AnswerKeeps DEF TypeOK

LEMMA RotateKeeps ==
  ASSUME IInv, NEW r \in Requests, Rotate(r)
  PROVE  IInv'
<1>1. TypeOK /\ KeyInv /\ RequestOK(r) /\ r \in Names
  BY DEF IInv, Names
<1>2. /\ End(r) /\ keyring.dek = slots.passphrase.dek /\ req[r].at = "rotate-verify"
      /\ slots' = [slots EXCEPT !.recovery = [secret |-> r, dek |-> keyring.dek]]
      /\ keyEvent' = "rotated"
      /\ UNCHANGED <<login, stored, origin, copies, envKey, keyring, sessions, typedBack>>
  BY DEF Rotate, RotatedEvent
<1>3. slots # None /\ slots \in Slots /\ keyring.dek \in Names
  BY <1>1, <1>2 DEF RequestOK, TypeOK, Slots
<1>4. /\ slots' \in Slots /\ slots'.passphrase = slots.passphrase
      /\ slots'.unattended = slots.unattended /\ slots'.recovery.dek = keyring.dek
  BY <1>1, <1>2, <1>3 DEF Slots
<1>5. slots' # None /\ Key' = Key
  BY <1>3, <1>4, SlotsAreNotNone DEF Key
<1>6. KeyInv'
  BY <1>1, <1>2, <1>3, <1>4, <1>5
     DEF KeyInv, LoginOpensData, OneDataKey, SignedInIsUnlocked, Locked, SafetyCopyKept,
         ConfirmedKeyTypedBack, EventsOK, sessions
<1> QED BY <1>1, <1>2, <1>4, <1>5, <1>6, AnswerKeeps DEF TypeOK, sessions

(* A value is sealed under the key in memory: the one the slots wrap, or   *)
(* none where nothing is encrypted.                                        *)
LEMMA WriteKeeps ==
  ASSUME IInv, NEW r \in Requests, Write(r)
  PROVE  IInv'
<1>1. TypeOK /\ KeyInv
  BY DEF IInv
<1>2. /\ End(r) /\ ~Locked /\ stored' = stored \cup {keyring.dek}
      /\ UNCHANGED <<login, slots, keyEvent, origin, copies, envKey, keyring, sessions, typedBack>>
  BY DEF Write
<1>3. keyring.dek \in Names \cup {None} /\ Key' = Key
  BY <1>1, <1>2 DEF TypeOK, Keyring, Key
<1>4. OneDataKey'
  BY <1>1, <1>2 DEF KeyInv, OneDataKey, Unprotected, Locked
<1>5. KeyInv'
  BY <1>1, <1>2, <1>4 DEF KeyInv, LoginOpensData, SignedInIsUnlocked, Locked, SafetyCopyKept,
                          ConfirmedKeyTypedBack, EventsOK, sessions
<1> QED BY <1>1, <1>2, <1>3, <1>5, AnswerKeeps DEF TypeOK, sessions

LEMMA HandlerKeeps ==
  ASSUME IInv, NEW r \in Requests, Handler(r)
  PROVE  IInv'
BY SetupKeeps, VerifiedKeeps, LoginKeeps, RecoverKeeps, ChangeKeeps, UpgradePreparedKeeps,
   UpgradeKeeps, RotateKeeps, WriteKeeps, FailKeeps DEF Handler

-----------------------------------------------------------------------------
(* The process. *)

(* At boot the keyring holds what ENCRYPTION_KEY opens, or nothing.        *)
LEMMA BootOpens ==
  ASSUME TypeOK, OneDataKey, NEW env \in BOOLEAN
  PROVE  /\ BootKeyring(slots, env) \in Keyring
         /\ slots = None => BootKeyring(slots, env) = Unprotected
         /\ slots # None => /\ BootKeyring(slots, env).protected
                            /\ BootKeyring(slots, env).dek \in {None, slots.passphrase.dek}
         /\ ~BootKeyring(slots, env).protected => BootKeyring(slots, env).dek = None
         /\ BootKeyring(slots, env).permanent => BootKeyring(slots, env).dek # None
<1>1. CASE slots = None
  BY <1>1 DEF BootKeyring, Unprotected, Keyring
<1>2. CASE slots # None
  <2> DEFINE opened == IF env THEN slots.unattended ELSE None
             held == opened # None
  <2>1. opened \in {None, slots.passphrase.dek} /\ opened \in Names \cup {None}
    BY <1>2 DEF OneDataKey, TypeOK, Slots
  <2>2. BootKeyring(slots, env) = [protected |-> TRUE, dek |-> opened, permanent |-> held]
    BY <1>2 DEF BootKeyring
  <2>3. held \in BOOLEAN /\ (held => opened # None)
    OBVIOUS
  <2> HIDE DEF opened, held
  <2> QED BY <1>2, <2>1, <2>2, <2>3 DEF Keyring
<1> QED BY <1>1, <1>2

(* Only the database survives a restart, and no request is under way.      *)
LEMMA RestartKeeps ==
  ASSUME IInv, Restart
  PROVE  IInv'
<1>1. TypeOK /\ KeyInv
  BY DEF IInv
<1>2. /\ envKey' \in BOOLEAN /\ keyring' = BootKeyring(slots, envKey')
      /\ tracker' = {} /\ idle' = {}
      /\ req' = [r \in Requests |->
                   IF req[r].at = "new" THEN Blank ELSE [Blank EXCEPT !.at = "ended"]]
      /\ UNCHANGED <<login, slots, stored, keyEvent, origin, copies, typedBack>>
  BY DEF Restart, database
<1>3. /\ req' \in [Requests -> Locals]
      /\ \A r \in Requests : \/ req'[r].at = "new" /\ req[r].at = "new"
                            \/ req'[r].at = "ended"
  BY <1>2, BlankTyped DEF Blank
<1>4. TypeOK'
  BY <1>1, <1>2, <1>3, BootOpens DEF TypeOK, KeyInv
<1>5. KeyInv'
  BY <1>1, <1>2, BootOpens DEF KeyInv, LoginOpensData, OneDataKey, SignedInIsUnlocked,
                               SafetyCopyKept, ConfirmedKeyTypedBack, EventsOK, TypeOK
<1>6. \A r \in Requests : RequestOK(r)'
  BY <1>2, <1>3 DEF IInv, RequestOK, Key
<1> QED BY <1>4, <1>5, <1>6 DEF IInv

LEMMA InitIInv == Init => IInv
<1> SUFFICES ASSUME Init PROVE IInv
  OBVIOUS
<1>1. Past \in Names /\ Past \notin Requests /\ Past # None
  BY NamesAreDistinct DEF Names
<1>2. \A r \in Requests : req[r] = Blank
  BY DEF Init
<1>3. req \in [Requests -> Locals]
  BY BlankTyped DEF Init
<1>4. slots \in Slots \cup {None} /\ (slots # None => login # None)
  BY <1>1 DEF Init, Login, Slots
<1>5. slots # None => /\ slots.passphrase.secret = login.pass /\ slots.passphrase.dek = Past
                      /\ slots.recovery.dek = Past /\ slots.unattended \in {None, Past}
  BY DEF Init
<1>6. stored \subseteq Names \cup {None} /\ stored \subseteq {IF slots = None THEN None ELSE Past}
  BY <1>1 DEF Init
<1>7. OneDataKey
  <2>1. keyring = BootKeyring(slots, envKey)
    BY DEF Init
  <2>2. CASE slots = None
    BY <1>6, <2>1, <2>2 DEF OneDataKey, BootKeyring
  <2>3. CASE slots # None
    <3>1. keyring.protected /\ keyring.dek \in {None, Past}
      BY <1>5, <2>1, <2>3 DEF BootKeyring
    <3> QED BY <1>5, <1>6, <2>3, <3>1 DEF OneDataKey
  <2> QED BY <2>2, <2>3
<1>8. origin \in {"none", "created", "encrypted"} /\ keyEvent = origin /\ EventsOK
  BY DEF Init, EventsOK
<1>9. TypeOK
  <2>1. /\ keyring \in Keyring /\ (~keyring.protected => keyring.dek = None)
        /\ (keyring.permanent => keyring.dek # None)
    <3>1. keyring = BootKeyring(slots, envKey)
      BY DEF Init
    <3>2. CASE slots = None
      BY <3>1, <3>2 DEF BootKeyring, Unprotected, Keyring
    <3>3. CASE slots # None
      <4> DEFINE opened == IF envKey THEN slots.unattended ELSE None
                 held == opened # None
      <4>1. opened \in Names \cup {None}
        BY <1>1, <1>5, <3>3
      <4>2. keyring = [protected |-> TRUE, dek |-> opened, permanent |-> held]
        BY <3>1, <3>3 DEF BootKeyring
      <4>3. held \in BOOLEAN /\ (held => opened # None)
        OBVIOUS
      <4> HIDE DEF opened, held
      <4> QED BY <4>1, <4>2, <4>3 DEF Keyring
    <3> QED BY <3>2, <3>3
  <2>2. /\ login \in Login \cup {None} /\ copies \subseteq Names /\ envKey \in BOOLEAN
        /\ tracker = {} /\ idle = {} /\ typedBack = {}
    BY <1>1 DEF Init
  <2> QED BY <1>3, <1>4, <1>6, <1>8, <2>1, <2>2 DEF TypeOK
<1>10. KeyInv
  <2>1. LoginOpensData
    BY <1>4, <1>5 DEF LoginOpensData
  <2>2. SignedInIsUnlocked /\ SafetyCopyKept /\ ConfirmedKeyTypedBack
    BY <1>4, <1>5, <1>8 DEF Init, SignedInIsUnlocked, SafetyCopyKept, ConfirmedKeyTypedBack, EventsOK
  <2> QED BY <1>7, <1>8, <2>1, <2>2 DEF KeyInv
<1>11. Key \in {None, Past} /\ (slots = None => Key = None)
  BY <1>5 DEF Key
<1>12. \A r \in Requests : RequestOK(r)
  BY <1>1, <1>2, <1>11, NamesAreDistinct DEF RequestOK, Blank
<1> QED BY <1>9, <1>10, <1>12 DEF IInv

LEMMA NextIInv == IInv /\ [Next]_vars => IInv'
<1> SUFFICES ASSUME IInv, [Next]_vars PROVE IInv'
  OBVIOUS
<1>1. CASE UNCHANGED vars
  <2>1. TypeOK'
    BY <1>1 DEF IInv, TypeOK, vars, database, sessions
  <2>2. KeyInv'
    BY <1>1 DEF IInv, KeyInv, LoginOpensData, OneDataKey, SignedInIsUnlocked, Locked,
                SafetyCopyKept, ConfirmedKeyTypedBack, EventsOK, vars, database, sessions
  <2>3. \A x \in Requests : RequestOK(x)'
    BY <1>1, RequestsStay DEF vars, database
  <2> QED BY <2>1, <2>2, <2>3 DEF IInv
<1>2. CASE \E r \in Requests : Arrival(r) \/ Handler(r)
  BY <1>2, ArrivalKeeps, HandlerKeeps
<1>3. CASE \E s \in tracker : GoIdle(s) \/ Expire(s) \/ Logout(s) \/ Confirm(s)
  BY <1>3, SessionKeeps, CopiesKeep
<1>4. CASE \E s \in tracker, S \in SUBSET copies : DeleteCopies(s, S)
  BY <1>4, CopiesKeep
<1>5. CASE Sweep
  BY <1>5, DropKeeps DEF Sweep
<1>6. CASE Restart
  BY <1>6, RestartKeeps
<1> QED BY <1>1, <1>2, <1>3, <1>4, <1>5, <1>6 DEF Next

LEMMA Inductive == Spec => []IInv
<1> QED BY InitIInv, NextIInv, PTL DEF Spec

-----------------------------------------------------------------------------
(* Whatever requests overlap and wherever the server stops, the variables  *)
(* keep their types (routes/auth.ts, crypto/keyring.ts).                   *)
THEOREM TypeCorrect == Spec => []TypeOK
<1>1. IInv => TypeOK
  BY DEF IInv
<1> QED BY <1>1, Inductive, PTL

(* The passphrase that signs in is always the one that opens the data      *)
(* (applyPassphraseChange, applyUpgrade and the setup transaction).        *)
THEOREM LoginCorrect == Spec => []LoginOpensData
<1>1. IInv => LoginOpensData
  BY DEF IInv, KeyInv
<1> QED BY <1>1, Inductive, PTL

(* There is one data key: every slot wraps it, every value is sealed under *)
(* it, and the keyring holds no other (crypto/upgrade.ts, keyring.ts).     *)
THEOREM KeyCorrect == Spec => []OneDataKey
<1>1. IInv => OneDataKey
  BY DEF IInv, KeyInv
<1> QED BY <1>1, Inductive, PTL

(* While any session lives, the data is unlocked: no session that ends     *)
(* locks another one out (activateSession, session-tracker.ts drop).       *)
THEOREM SessionsCorrect == Spec => []SignedInIsUnlocked
<1>1. IInv => SignedInIsUnlocked
  BY DEF IInv, KeyInv
<1> QED BY <1>1, Inductive, PTL

(* The plaintext safety copy of an upgrade outlives every request and      *)
(* crash until a recovery key has been typed back (holdsSafetyCopy).       *)
THEOREM SafetyCopyCorrect == Spec => []SafetyCopyKept
<1>1. IInv => SafetyCopyKept
  BY DEF IInv, KeyInv
<1> QED BY <1>1, Inductive, PTL

(* A confirmed recovery key is the one that was typed back                 *)
(* (recoveryKeyNeedsConfirmation, confirmRecoveryKey).                     *)
THEOREM ConfirmationCorrect == Spec => []ConfirmedKeyTypedBack
<1>1. IInv => ConfirmedKeyTypedBack
  BY DEF IInv, KeyInv
<1> QED BY <1>1, Inductive, PTL

-----------------------------------------------------------------------------
(* KeyCustody implements DataVault.  What the refinement mapping gives for *)
(* the passphrase and for the open vault:                                  *)

Pass == IF slots # None THEN slots.passphrase.secret
        ELSE IF login # None THEN login.pass ELSE None
Open == keyring.dek # None

(* The abstract steps, in these terms.                                     *)
VaultStutters == Pass' = Pass /\ Key' = Key /\ Open' = Open /\ stored' = stored
Registers == /\ Pass = None /\ Pass' \in Passphrases
             /\ Key' = Key /\ Open' = Open /\ stored' = stored
Encrypts  == /\ Key = None /\ Key' \in Names
             /\ Pass' \in IF Pass = None THEN Passphrases ELSE {Pass}
             /\ Open' = TRUE /\ stored' = IF stored = {} THEN {} ELSE {Key'}
Renews    == /\ Pass # None /\ Pass' \in Passphrases
             /\ Open' \in IF Key = None THEN {Open} ELSE {Open, TRUE}
             /\ Key' = Key /\ stored' = stored
OpensOrShuts == Key # None /\ Open' \in BOOLEAN /\ Pass' = Pass /\ Key' = Key /\ stored' = stored
Stores    == /\ Key = None \/ Open
             /\ stored' = {Key} /\ Pass' = Pass /\ Key' = Key /\ Open' = Open

LEMMA VaultSteps ==
  ASSUME \/ VaultStutters \/ Registers \/ Encrypts \/ Renews \/ OpensOrShuts \/ Stores
  PROVE  [Vault!Next]_(Vault!vars)
<1>1. CASE VaultStutters
  BY <1>1 DEF VaultStutters, Vault!vars, Pass, Key, Open
<1>2. CASE Registers
  BY <1>2 DEF Registers, Vault!Next, Vault!Register, Pass, Key, Open
<1>3. CASE Encrypts
  BY <1>3 DEF Encrypts, Vault!Next, Vault!Encrypt, Pass, Key, Open
<1>4. CASE Renews
  BY <1>4 DEF Renews, Vault!Next, Vault!Renew, Pass, Key, Open
<1>5. CASE OpensOrShuts
  BY <1>5 DEF OpensOrShuts, Vault!Next, Vault!OpenOrShut, Pass, Key, Open
<1>6. CASE Stores
  BY <1>6 DEF Stores, Vault!Next, Vault!Store, Pass, Key, Open
<1> QED BY <1>1, <1>2, <1>3, <1>4, <1>5, <1>6

(* A step that leaves hash, slots and values alone opens or shuts the      *)
(* vault, or does nothing to it: without slots the keyring holds no key.   *)
LEMMA OnlyKeyringMoves ==
  ASSUME OneDataKey, OneDataKey', UNCHANGED <<login, slots, stored>>
  PROVE  VaultStutters \/ OpensOrShuts
<1>1. Pass' = Pass /\ Key' = Key
  BY DEF Pass, Key
<1>2. CASE slots = None
  <2>1. ~Open /\ ~Open'
    BY <1>2 DEF OneDataKey, Unprotected, Open
  <2>2. Open = FALSE /\ Open' = FALSE
    BY <2>1 DEF Open
  <2> QED BY <1>1, <2>2 DEF VaultStutters
<1>3. CASE slots # None
  <2>1. Open' \in BOOLEAN
    BY DEF Open
  <2>2. CASE Key # None
    BY <1>1, <2>1, <2>2 DEF OpensOrShuts
  <2>3. CASE Key = None
    <3>1. Open = FALSE /\ Open' = FALSE
      BY <1>3, <2>3 DEF OneDataKey, Open, Key
    <3> QED BY <1>1, <3>1 DEF VaultStutters
  <2> QED BY <2>2, <2>3
<1> QED BY <1>2, <1>3

LEMMA HandlerRefines ==
  ASSUME IInv, IInv', NEW r \in Requests, Handler(r)
  PROVE  VaultStutters \/ Registers \/ Encrypts \/ Renews \/ OpensOrShuts \/ Stores
<1>1. /\ TypeOK /\ TypeOK' /\ KeyInv /\ KeyInv' /\ OneDataKey /\ OneDataKey' /\ RequestOK(r)
      /\ req[r] \in Locals /\ r \in Names
  BY DEF IInv, KeyInv, TypeOK, Names
<1>2. None \notin Names /\ None \notin Passphrases
  BY NamesAreDistinct DEF Names
<1>3. CASE Setup(r)
  <2>1. /\ login = None /\ (stored # {}) = req[r].withData /\ stored' = stored
        /\ login' = [pass |-> req[r].pass, by |-> r] /\ req[r].at = "setup"
    BY <1>3 DEF Setup
  <2>2. slots = None /\ Pass = None /\ Key = None /\ Open = FALSE
    BY <1>1, <2>1 DEF KeyInv, LoginOpensData, OneDataKey, Unprotected, Pass, Key, Open
  <2>3. req[r].pass \in Passphrases
    BY <1>1, <2>1 DEF RequestOK, Locals
  <2>4. CASE CreatesSlots(r)
    <3>0. stored = {}
      BY <2>1, <2>4 DEF CreatesSlots
    <3>1. slots' = InitialSlots(r) /\ keyring'.dek = r
      <4>1. slots' = InitialSlots(r) /\ Protect(r, req[r].unattended)
        BY <1>3, <2>4 DEF Setup
      <4> QED BY <4>1 DEF Protect
    <3>2. /\ slots' # None /\ slots'.passphrase.secret = req[r].pass
          /\ slots'.passphrase.dek = r
      BY <1>1, <1>2, <2>3, <3>1, InitialSlotsTyped
    <3>3. Pass' = req[r].pass /\ Key' = r /\ Open' = TRUE
      BY <1>1, <1>2, <3>1, <3>2 DEF Pass, Key, Open
    <3> QED BY <1>1, <2>1, <2>2, <2>3, <3>0, <3>3 DEF Encrypts
  <2>5. CASE ~CreatesSlots(r)
    <3>1. slots' = slots /\ keyring' = keyring
      BY <1>3, <2>5 DEF Setup
    <3>2. login' # None
      BY <1>1, <2>1, <2>3, LoginsAreNotNone DEF Login
    <3>3. Pass' = req[r].pass /\ Key' = Key /\ Open' = Open
      BY <2>1, <2>2, <3>1, <3>2 DEF Pass, Key, Open
    <3> QED BY <2>1, <2>2, <2>3, <3>3 DEF Registers
  <2> QED BY <2>4, <2>5
<1>4. CASE \/ LoginVerified(r) \/ ChangeVerified(r) \/ ChangeHashed(r) \/ UpgradeVerified(r)
           \/ UpgradePrepared(r) \/ Fail(r) \/ LoginUnprotected(r) \/ LoginUnlocked(r)
  <2>1. UNCHANGED <<login, slots, stored>>
    BY <1>4 DEF LoginVerified, ChangeVerified, ChangeHashed, UpgradeVerified, UpgradePrepared,
                Fail, LoginUnprotected, LoginUnlocked, database
  <2> QED BY <1>1, <2>1, OnlyKeyringMoves
<1>5. CASE Recover(r) \/ Change(r)
  <2>1. /\ req[r].at \in {"recover", "change-wrap"} /\ ApplyPassphrase(r) /\ stored' = stored
        /\ slots' = [slots EXCEPT !.passphrase = [secret |-> req[r].new, dek |-> req[r].dek]]
    BY <1>5 DEF Recover, Change, ApplyPassphrase
  <2>2. /\ slots # None /\ slots \in Slots /\ slots' # None /\ Key' = Key /\ Key # None
        /\ req[r].dek = Key
    BY <1>1, <2>1, ApplyPassphraseKeeps DEF TypeOK
  <2>3. slots'.passphrase.secret = req[r].new /\ req[r].new \in Passphrases
    BY <1>1, <1>5, <2>1, <2>2 DEF Slots, RequestOK, Locals
  <2>4. Pass = slots.passphrase.secret /\ Pass \in Passphrases /\ Pass' = req[r].new
    BY <2>2, <2>3 DEF Pass, Slots
  <2>5. Open' \in {Open, TRUE}
    <3>1. CASE Change(r)
      BY <3>1 DEF Change, Open
    <3>2. CASE Recover(r)
      BY <1>1, <2>2, <3>2 DEF Recover, Open, TypeOK, Keyring
    <3> QED BY <1>5, <3>1, <3>2
  <2> QED BY <1>2, <2>1, <2>2, <2>3, <2>4, <2>5 DEF Renews
<1>6. CASE ChangeUnprotected(r)
  <2>1. /\ req[r].at = "change-hash" /\ ~keyring.protected /\ slots' = slots /\ stored' = stored
        /\ login' = [pass |-> req[r].new, by |-> r] /\ keyring' = keyring
    BY <1>6 DEF ChangeUnprotected
  <2>2. slots = None /\ Key = None /\ Key' = Key /\ Open' = Open
    BY <1>1, <2>1 DEF OneDataKey, Key, Open
  <2>3. req[r].new \in Passphrases
    BY <1>1, <2>1 DEF RequestOK, Locals
  <2>4. login' # None /\ Pass' = req[r].new
    BY <1>1, <2>1, <2>2, <2>3, LoginsAreNotNone DEF Pass, Login
  <2>5. CASE Pass = None
    BY <2>1, <2>2, <2>3, <2>4, <2>5 DEF Registers
  <2>6. CASE Pass # None
    BY <2>1, <2>2, <2>3, <2>4, <2>6 DEF Renews
  <2> QED BY <2>5, <2>6
<1>7. CASE Upgrade(r)
  <2>1. /\ req[r].at = "upgrade-copy" /\ slots = None /\ login = req[r].hash
        /\ slots' = InitialSlots(r) /\ keyring'.dek = r
        /\ stored' = IF stored = {} THEN {} ELSE {r}
    BY <1>7 DEF Upgrade, AssertNotAlreadyEncrypted, BeforeCommit, Protect
  <2>2. login # None /\ login.pass = req[r].pass /\ req[r].pass # None
    BY <1>1, <2>1 DEF RequestOK, Verified
  <2>3. /\ slots' # None /\ slots'.passphrase.secret = req[r].pass
        /\ slots'.passphrase.dek = r
    BY <1>1, <2>1, <2>2, InitialSlotsTyped
  <2>4. Pass = req[r].pass /\ Key = None /\ Pass' = Pass /\ Key' = r /\ Open' = TRUE
    BY <1>1, <1>2, <2>1, <2>2, <2>3 DEF Pass, Key, Open
  <2> QED BY <1>1, <2>1, <2>2, <2>4 DEF Encrypts
<1>8. CASE Rotate(r)
  <2>1. /\ req[r].at = "rotate-verify" /\ UNCHANGED <<login, stored, keyring>>
        /\ slots' = [slots EXCEPT !.recovery = [secret |-> r, dek |-> keyring.dek]]
    BY <1>8 DEF Rotate
  <2>2. slots # None /\ slots \in Slots
    BY <1>1, <2>1 DEF RequestOK, TypeOK
  <2>3. slots'.passphrase = slots.passphrase
    BY <2>1, <2>2 DEF Slots
  <2>4. slots' # None
    <3>1. keyEvent' = "rotated"
      BY <1>8 DEF Rotate, RotatedEvent
    <3> QED BY <1>1, <3>1 DEF KeyInv, EventsOK
  <2> QED BY <2>1, <2>2, <2>3, <2>4 DEF VaultStutters, Pass, Key, Open
<1>9. CASE Write(r)
  <2>1. /\ ~Locked /\ stored' = stored \cup {keyring.dek} /\ UNCHANGED <<login, slots, keyring>>
    BY <1>9 DEF Write
  <2>2. Pass' = Pass /\ Key' = Key /\ Open' = Open
    BY <2>1 DEF Pass, Key, Open
  <2>3. keyring.dek = Key /\ stored \subseteq {Key}
    BY <1>1, <2>1 DEF OneDataKey, Unprotected, Locked, Key
  <2>4. stored' = {Key} /\ (Key = None \/ Open)
    BY <2>1, <2>3 DEF Open
  <2> QED BY <2>2, <2>4 DEF Stores
<1> QED BY <1>3, <1>4, <1>5, <1>6, <1>7, <1>8, <1>9 DEF Handler

LEMMA NextRefines ==
  ASSUME IInv, IInv', [Next]_vars
  PROVE  [Vault!Next]_(Vault!vars)
<1>1. OneDataKey /\ OneDataKey'
  BY DEF IInv, KeyInv
<1>2. CASE UNCHANGED vars
  BY <1>1, <1>2, OnlyKeyringMoves, VaultSteps DEF vars, database
<1>3. ASSUME NEW r \in Requests, Arrival(r)
      PROVE  [Vault!Next]_(Vault!vars)
  <2>1. UNCHANGED database
    BY <1>3 DEF Arrival, StartSetup, StartLogin, StartRecover, StartChange, StartUpgrade,
                StartRotate, StartWrite, Start
  <2> QED BY <1>1, <2>1, OnlyKeyringMoves, VaultSteps DEF database
<1>4. ASSUME NEW r \in Requests, Handler(r)
      PROVE  [Vault!Next]_(Vault!vars)
  BY <1>4, HandlerRefines, VaultSteps
<1>5. CASE \/ \E s \in tracker : GoIdle(s) \/ Expire(s) \/ Logout(s) \/ Confirm(s)
           \/ \E s \in tracker, S \in SUBSET copies : DeleteCopies(s, S)
           \/ Sweep \/ Restart
  <2>1. UNCHANGED <<login, slots, stored>>
    BY <1>5 DEF GoIdle, Expire, Logout, Confirm, DeleteCopies, Sweep, Restart, database
  <2> QED BY <1>1, <2>1, OnlyKeyringMoves, VaultSteps
<1> QED BY <1>2, <1>3, <1>4, <1>5 DEF Next

LEMMA InitRefines == Init => Vault!Init
<1> SUFFICES ASSUME Init PROVE Vault!Init
  OBVIOUS
<1>1. TypeOK /\ OneDataKey /\ LoginOpensData
  BY InitIInv DEF IInv, KeyInv
<1>2. Pass \in Passphrases \cup {None}
  BY <1>1 DEF Pass, TypeOK, Slots, Login
<1>3. Key \in Names \cup {None} /\ (Key # None => Pass # None)
  BY <1>1, NamesAreDistinct DEF Pass, Key, TypeOK, Slots, LoginOpensData, Login
<1>4. Open \in BOOLEAN /\ (Open => Key # None)
  BY <1>1 DEF Open, Key, OneDataKey, Unprotected
<1>5. stored \subseteq {Key}
  BY <1>1 DEF OneDataKey, Key
<1> QED BY <1>2, <1>3, <1>4, <1>5 DEF Vault!Init, Pass, Key, Open

(* The handlers, sessions and restarts implement the vault: its data key   *)
(* is never replaced once it exists, no second setup or upgrade commits,   *)
(* every value is re-sealed with the key change that creates the slots,    *)
(* and nothing is written while the data is locked.                        *)
THEOREM VaultImplemented == Spec => ImplementsVault
<1>1. IInv /\ IInv' /\ [Next]_vars => [Vault!Next]_(Vault!vars)
  BY NextRefines
<1> QED BY <1>1, InitRefines, Inductive, PTL DEF Spec, ImplementsVault, Vault!Spec
=============================================================================
