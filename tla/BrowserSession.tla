----------------------------- MODULE BrowserSession -----------------------------
(***************************************************************************)
(* The browser's side of signing in, encrypting and keeping a recovery key *)
(* (client/src/App.svelte, lib/api.ts and the screens it mounts) against   *)
(* the server's /api/auth routes.                                          *)
(*                                                                         *)
(* Every fetch is an await: it is sent, served, and answered or lost.  A   *)
(* request that is lost was served before, or never is.  A screen that was *)
(* left keeps waiting, and its callback still runs.  KeyCustody has the    *)
(* server's side in detail: here one request is served at once.            *)
(***************************************************************************)
EXTENDS Naturals

CONSTANTS
  Calls,                 \* bound: the fetches under way at the same time
  MaxSessions, MaxKeys,  \* bounds
  Null

BrowserConstantsOK ==
  /\ MaxSessions \in Nat /\ MaxKeys \in Nat
  /\ Null \notin Nat \cup Calls /\ Null # "sign-in"

VARIABLES
  stage,     \* the server's data: no user yet, plain, or encrypted with a key that was typed back or not
  key,       \* its recovery key; keys are numbered as they are made
  live,      \* its sessions; they are numbered too
  issued,    \* history: the last session it opened
  cookie,    \* the browser's session, 0 for none
  net,       \* the fetches under way
  screen, signedIn, locked, canRecover, upgrade, skipped, fresh,   \* App.svelte
  page,      \* the recovery key screen: the key it shows, whether it is the first run's, whether it is done
  excused    \* history: since the sign-in, the user or a lost answer put the recovery key off

serverSide == <<stage, key, live, issued>>
app == <<screen, signedIn, locked, canRecover, upgrade, skipped, fresh>>
browserVars == <<serverSide, cookie, net, app, page, excused>>

Sessions == 1..MaxSessions
Screens == {"loading", "setup", "login", "recover", "upgrade", "recovery-key", "api-keys", "app"}
Forms == {"setup", "login", "recover", "upgrade", "confirm", "rotate"}
Told == {"none", "available", "confirm"}
Protected == stage \in {"unconfirmed", "confirmed"}

(* then: how App goes on after a status; mine: the sender is still shown.  *)
Free == [kind |-> Null, then |-> Null, sid |-> 0, key |-> Null, mine |-> FALSE, answer |-> Null]
Status(then, sid) == [Free EXCEPT !.kind = "status", !.then = then, !.sid = sid]

-----------------------------------------------------------------------------
(* The server's answers (external to the browser). *)

Refused == [is |-> "refused"]
Opened(s, what, k) == [is |-> what, sid |-> s, key |-> k]

NewSession(old, others) ==
  /\ issued < MaxSessions /\ issued' = issued + 1
  /\ live' = (others \ {old}) \cup {issued + 1}

NewKey == key < MaxKeys /\ key' = key + 1

(* upgradeState: told only to a session that is live.                      *)
UpgradeState(sid) ==
  IF sid \notin live THEN "none"
  ELSE CASE stage = "plain" -> "available" [] stage = "unconfirmed" -> "confirm" [] OTHER -> "none"

(* With no session left the key is dropped, unless it is kept unattended.  *)
StatusAnswer(sid) ==
  {[is |-> "status", sid |-> sid, setup |-> (stage = "empty"), live |-> (sid \in live),
    locked |-> l, protected |-> Protected, upgrade |-> UpgradeState(sid)] :
   l \in {FALSE, Protected /\ live = {}}}

Answer(c, answer) == net' = [net EXCEPT ![c].answer = answer]

ServeStatus(c) ==
  /\ net[c].kind = "status"
  /\ \E a \in StatusAnswer(net[c].sid) : Answer(c, a)
  /\ UNCHANGED serverSide

(* An older database already holds data: setup makes no key.               *)
ServeSetup(c) ==
  /\ net[c].kind = "setup"
  /\ IF stage = "empty"
     THEN /\ NewSession(net[c].sid, live)
          /\ \/ stage' = "plain" /\ key' = key /\ Answer(c, Opened(issued + 1, "ok", Null))
             \/ stage' = "unconfirmed" /\ NewKey /\ Answer(c, Opened(issued + 1, "ok", key + 1))
     ELSE Answer(c, [is |-> "already"]) /\ UNCHANGED serverSide

ServeLogin(c) ==
  /\ net[c].kind = "login" /\ stage # "empty"
  /\ NewSession(net[c].sid, live) /\ Answer(c, Opened(issued + 1, "ok", Null))
  /\ UNCHANGED <<stage, key>>

(* Recovery signs every other session out.                                 *)
ServeRecover(c) ==
  /\ net[c].kind = "recover" /\ Protected
  /\ NewSession(net[c].sid, {}) /\ Answer(c, Opened(issued + 1, "ok", Null))
  /\ UNCHANGED <<stage, key>>

ServeUpgrade(c) ==
  /\ net[c].kind = "upgrade" /\ net[c].sid \in live
  /\ IF Protected THEN Answer(c, [is |-> "already"]) /\ UNCHANGED serverSide
     ELSE /\ stage' = "unconfirmed" /\ NewKey /\ live' = {net[c].sid}
          /\ Answer(c, Opened(net[c].sid, "ok", key + 1))
          /\ UNCHANGED issued

ServeConfirm(c) ==
  /\ net[c].kind = "confirm" /\ net[c].sid \in live /\ Protected /\ net[c].key = key
  /\ stage' = "confirmed" /\ Answer(c, Opened(net[c].sid, "ok", Null))
  /\ UNCHANGED <<key, live, issued>>

ServeRotate(c) ==
  /\ net[c].kind = "rotate" /\ net[c].sid \in live /\ Protected
  /\ stage' = "unconfirmed" /\ NewKey /\ Answer(c, Opened(net[c].sid, "ok", key + 1))
  /\ UNCHANGED <<live, issued>>

ServeLogout(c) ==
  /\ net[c].kind = "logout"
  /\ live' = live \ {net[c].sid} /\ Answer(c, [is |-> "ok"])
  /\ UNCHANGED <<stage, key, issued>>

(* requireUnlocked comes before requireLiveSession.                        *)
ServeData(c) ==
  /\ net[c].kind = "data"
  /\ \/ live = {} /\ Protected /\ Answer(c, [is |-> "locked"])
     \/ net[c].sid \notin live /\ Answer(c, [is |-> "ended"])
     \/ net[c].sid \in live /\ Answer(c, [is |-> "ok"])
  /\ UNCHANGED serverSide

(* A wrong passphrase or key, a stale token, a rate limit, no session.     *)
ServeRefusal(c) ==
  /\ net[c].kind \in Forms \cup {"logout"}
  /\ Answer(c, Refused) /\ UNCHANGED serverSide

Serve(c) ==
  /\ net[c].answer = Null
  /\ \/ ServeStatus(c) \/ ServeSetup(c) \/ ServeLogin(c) \/ ServeRecover(c) \/ ServeUpgrade(c)
     \/ ServeConfirm(c) \/ ServeRotate(c) \/ ServeLogout(c) \/ ServeData(c) \/ ServeRefusal(c)
  /\ excused' = (excused \/ (key' # key /\ ~net[c].mine))
  /\ UNCHANGED <<cookie, app, page>>

-----------------------------------------------------------------------------
(* The screens. *)

Page(f) == [shown |-> IF f = Null THEN Null ELSE f.key, first |-> f # Null /\ f.first, done |-> FALSE]

(* Shows screen s with the fresh key f; call c goes on as next.  Another   *)
(* screen is mounted anew, the same one keeps its own state.               *)
Show(c, next, s, f) ==
  /\ screen' = s /\ fresh' = f
  /\ page' = IF s = screen THEN page ELSE Page(f)
  /\ net' = [q \in Calls |-> IF q = c THEN next
                             ELSE [net[q] EXCEPT !.mine = @ /\ s = screen]]

Busy == \E c \in Calls : net[c].mine /\ net[c].kind \in Forms

Send(c, kind, k) ==
  /\ net[c] = Free
  /\ net' = [net EXCEPT ![c] = [Free EXCEPT !.kind = kind, !.sid = cookie, !.key = k, !.mine = TRUE]]
  /\ UNCHANGED <<serverSide, cookie, app, page, excused>>

(* The form of each screen; a submit button waits for the one before.      *)
Submit(c) ==
  /\ ~Busy
  /\ \/ screen \in {"setup", "login", "recover", "upgrade"} /\ Send(c, screen, Null)
     \/ screen = "recovery-key" /\ ~page.done /\ page.shown = Null /\ Send(c, "rotate", Null)

(* The key is typed back as it is shown, or anything else.                 *)
Confirm(c) ==
  /\ ~Busy /\ screen = "recovery-key" /\ ~page.done /\ page.shown # Null
  /\ \E k \in {page.shown, Null} : Send(c, "confirm", k)

LoadData(c) == screen \in {"app", "api-keys"} /\ Send(c, "data", Null)
Logout(c) == screen = "app" /\ Send(c, "logout", Null)

Click(s, excuse) ==
  /\ Show(Null, Free, s, fresh)
  /\ excused' = (excused \/ excuse)
  /\ UNCHANGED <<serverSide, cookie, signedIn, locked, canRecover, upgrade>>

ToRecover == screen = "login" /\ canRecover /\ Click("recover", FALSE) /\ UNCHANGED skipped
ToLogin == screen = "recover" /\ Click("login", FALSE) /\ UNCHANGED skipped

(* Not now: the answer of an encryption may have been lost before.         *)
Skip ==
  /\ screen = "upgrade" /\ ~Busy
  /\ Click("app", stage = "unconfirmed") /\ skipped' = TRUE

Later == screen = "recovery-key" /\ ~page.first /\ ~page.done /\ Click("app", TRUE) /\ UNCHANGED skipped
ApiKeysDone == screen = "api-keys" /\ Click("app", FALSE) /\ UNCHANGED skipped

(* Create a different one: also while the old one is being checked.        *)
DropShownKey ==
  /\ screen = "recovery-key" /\ ~page.done /\ page.shown # Null
  /\ page' = [page EXCEPT !.shown = Null]
  /\ UNCHANGED <<serverSide, cookie, net, app, excused>>

(* Continue: the key may have been replaced elsewhere since it was typed.  *)
OnKeyConfirmed ==
  /\ screen = "recovery-key" /\ page.done
  /\ Show(Null, Free, IF fresh # Null /\ fresh.first THEN "api-keys" ELSE "app", Null)
  /\ upgrade' = "none" /\ excused' = (excused \/ stage = "unconfirmed")
  /\ UNCHANGED <<serverSide, cookie, signedIn, locked, canRecover, skipped>>

-----------------------------------------------------------------------------
(* The answers. *)

Drop(c) == net' = [net EXCEPT ![c] = Free]
Quiet(c) == Drop(c) /\ UNCHANGED <<serverSide, cookie, app, page, excused>>

Is(c, kind, what) == net[c].kind = kind /\ net[c].answer # Null /\ net[c].answer.is = what

(* The answer is about another session or was overtaken by a new key.      *)
Stale(c) ==
  ~net[c].answer.live \/ net[c].sid # cookie
    \/ (stage = "unconfirmed" /\ net[c].answer.upgrade # "confirm")

(* What a status tells.                                                    *)
Learn(a) ==
  /\ locked' = a.locked /\ canRecover' = a.protected
  /\ upgrade' = a.upgrade

(* Faulty: only the offer to encrypt is looked at.                         *)
FaultyStateAfterSignIn(u) == IF u = "available" /\ ~skipped THEN "upgrade" ELSE "app"
StateAfterSignIn(u) ==
  CASE u = "confirm" -> "recovery-key"
    [] u = "available" /\ ~skipped -> "upgrade"
    [] OTHER -> "app"

(* refreshStatus and what waits for it: nothing, a sign-in, or the screen  *)
(* that found the data encrypted already.                                  *)
GoOn(c, u) ==
  CASE net[c].then = "sign-in" -> Show(c, Free, StateAfterSignIn(u), fresh)
    [] net[c].then = "already" -> Show(c, Free, "recovery-key", Null)
    [] OTHER -> Show(c, Free, screen, fresh)

StatusKnown(c) ==
  /\ Is(c, "status", "status") /\ net[c].then # "init"
  /\ Learn(net[c].answer) /\ GoOn(c, upgrade')
  /\ excused' = IF net[c].then = "sign-in" THEN Stale(c) ELSE excused
  /\ UNCHANGED <<serverSide, cookie, signedIn, skipped>>

(* Without an answer the previous values are kept.                         *)
StatusLost(c) ==
  /\ net[c].kind = "status" /\ net[c].then # "init"
  /\ GoOn(c, upgrade)
  /\ excused' = (excused \/ net[c].then = "sign-in")
  /\ UNCHANGED <<serverSide, cookie, signedIn, locked, canRecover, upgrade, skipped>>

InitKnown(c) ==
  /\ Is(c, "status", "status") /\ net[c].then = "init"
  /\ LET a == net[c].answer
     IN  /\ Learn(a)
         /\ Show(c, Free, CASE a.setup -> "setup" [] ~a.setup /\ ~a.live -> "login"
                            [] OTHER -> StateAfterSignIn(a.upgrade), fresh)
         /\ signedIn' = (signedIn \/ a.live)
         /\ excused' = IF a.live THEN Stale(c) ELSE excused
  /\ UNCHANGED <<serverSide, cookie, skipped>>

InitLost(c) ==
  /\ net[c].kind = "status" /\ net[c].then = "init"
  /\ Show(c, Free, "login", fresh)
  /\ UNCHANGED <<serverSide, cookie, signedIn, locked, canRecover, upgrade, skipped, excused>>

(* onSetupComplete with a key: it is shown at once.                        *)
SetupKey(c) ==
  /\ Is(c, "setup", "ok") /\ net[c].answer.key # Null
  /\ cookie' = net[c].answer.sid
  /\ Show(c, Free, "recovery-key", [key |-> net[c].answer.key, first |-> TRUE])
  /\ signedIn' = TRUE /\ locked' = FALSE /\ canRecover' = TRUE /\ upgrade' = "confirm"
  /\ UNCHANGED <<serverSide, skipped, excused>>

(* onLoginSuccess, and onSetupComplete without a key.                      *)
SignedIn(c) ==
  /\ Is(c, "login", "ok") \/ Is(c, "recover", "ok") \/ (Is(c, "setup", "ok") /\ net[c].answer.key = Null)
  /\ cookie' = net[c].answer.sid
  /\ signedIn' = TRUE /\ locked' = FALSE
  /\ net' = [net EXCEPT ![c] = Status("sign-in", net[c].answer.sid)]
  /\ UNCHANGED <<serverSide, screen, canRecover, upgrade, skipped, fresh, page, excused>>

SetupAlready(c) ==
  /\ Is(c, "setup", "already")
  /\ net' = [net EXCEPT ![c] = Status("init", cookie)]
  /\ UNCHANGED <<serverSide, cookie, app, page, excused>>

OnUpgraded(c) ==
  /\ Is(c, "upgrade", "ok")
  /\ Show(c, Free, "recovery-key", [key |-> net[c].answer.key, first |-> FALSE])
  /\ upgrade' = "confirm"
  /\ UNCHANGED <<serverSide, cookie, signedIn, locked, canRecover, skipped, excused>>

UpgradeAlready(c) ==
  /\ Is(c, "upgrade", "already")
  /\ net' = [net EXCEPT ![c] = Status("already", cookie)]
  /\ UNCHANGED <<serverSide, cookie, app, page, excused>>

(* The recovery key screen's own answers: nothing is left to change once   *)
(* it is gone.                                                             *)
Confirmed(c) ==
  /\ Is(c, "confirm", "ok") /\ net[c].mine
  /\ Drop(c) /\ page' = [page EXCEPT !.shown = Null, !.done = TRUE]
  /\ UNCHANGED <<serverSide, cookie, app, excused>>

Rotated(c) ==
  /\ Is(c, "rotate", "ok") /\ net[c].mine
  /\ Drop(c) /\ page' = [page EXCEPT !.shown = net[c].answer.key]
  /\ UNCHANGED <<serverSide, cookie, app, excused>>

LoggedOut(c) ==
  /\ Is(c, "logout", "ok")
  /\ Show(c, Status("none", cookie), "login", Null)
  /\ signedIn' = FALSE
  /\ UNCHANGED <<serverSide, cookie, locked, canRecover, upgrade, skipped, excused>>

(* watchSessionLoss: any data request, whichever session it was sent for.  *)
LockedOut(c) ==
  /\ Is(c, "data", "locked")
  /\ Show(c, Free, "login", Null)
  /\ signedIn' = FALSE /\ locked' = TRUE /\ canRecover' = TRUE
  /\ UNCHANGED <<serverSide, cookie, upgrade, skipped, excused>>

SessionEnded(c) ==
  /\ Is(c, "data", "ended") /\ screen \notin {"loading", "setup", "login", "recover"}
  /\ Show(c, Status("none", cookie), "login", Null)
  /\ signedIn' = FALSE
  /\ UNCHANGED <<serverSide, cookie, locked, canRecover, upgrade, skipped, excused>>

(* An error shown in the form, data, or an answer that changes nothing.    *)
NothingChanges(c) ==
  /\ \/ net[c].kind # "status" /\ net[c].answer = Refused
     \/ Is(c, "data", "ok")
     \/ Is(c, "data", "ended") /\ screen \in {"loading", "setup", "login", "recover"}
     \/ net[c].kind \in {"confirm", "rotate"} /\ net[c].answer # Null /\ ~net[c].mine
  /\ Quiet(c)

Lost(c) == net[c].kind \notin {Null, "status"} /\ Quiet(c)

-----------------------------------------------------------------------------
(* The page is loaded again.                                               *)
Reload ==
  /\ screen' = "loading" /\ signedIn' = FALSE /\ locked' = FALSE /\ canRecover' = FALSE
  /\ upgrade' = "none" /\ skipped' = FALSE /\ fresh' = Null /\ page' = Page(Null)
  /\ \E c \in Calls :
       net' = [q \in Calls |-> IF q = c THEN Status("init", cookie) ELSE Free]
  /\ UNCHANGED <<serverSide, cookie, excused>>

(* Idle, revoked, or the server restarts.                                  *)
SessionsEnd ==
  /\ live' \in {{}, live \ {cookie}} /\ live' # live
  /\ UNCHANGED <<stage, key, issued, cookie, net, app, page, excused>>

(* Another browser encrypts (its session is then the only one), types the  *)
(* key back, or has it replaced.                                           *)
EncryptedElsewhere ==
  /\ stage = "plain" /\ stage' = "unconfirmed" /\ NewKey /\ live' = {}
  /\ UNCHANGED <<issued, cookie, net, app, page, excused>>

ConfirmedElsewhere ==
  /\ stage = "unconfirmed" /\ stage' = "confirmed"
  /\ UNCHANGED <<key, live, issued, cookie, net, app, page, excused>>

RotatedElsewhere ==
  /\ Protected /\ stage' = "unconfirmed" /\ NewKey /\ excused' = TRUE
  /\ UNCHANGED <<live, issued, cookie, net, app, page>>

BrowserInit ==
  /\ stage \in {"empty", "plain", "unconfirmed", "confirmed"}
  /\ key = 0 /\ live = {} /\ issued = 0 /\ cookie = 0
  /\ \E c \in Calls :
       net = [q \in Calls |-> IF q = c THEN Status("init", 0) ELSE Free]
  /\ screen = "loading" /\ signedIn = FALSE /\ locked = FALSE /\ canRecover = FALSE
  /\ upgrade = "none" /\ skipped = FALSE /\ fresh = Null /\ page = Page(Null)
  /\ excused = FALSE

BrowserNext ==
  \/ \E c \in Calls :
       \/ Serve(c) \/ Submit(c) \/ Confirm(c) \/ LoadData(c) \/ Logout(c)
       \/ StatusKnown(c) \/ StatusLost(c) \/ InitKnown(c) \/ InitLost(c)
       \/ SetupKey(c) \/ SignedIn(c) \/ SetupAlready(c) \/ OnUpgraded(c) \/ UpgradeAlready(c)
       \/ Confirmed(c) \/ Rotated(c) \/ LoggedOut(c) \/ LockedOut(c) \/ SessionEnded(c)
       \/ NothingChanges(c) \/ Lost(c)
  \/ ToRecover \/ ToLogin \/ Skip \/ Later \/ ApiKeysDone \/ DropShownKey \/ OnKeyConfirmed
  \/ Reload \/ SessionsEnd \/ EncryptedElsewhere \/ ConfirmedElsewhere \/ RotatedElsewhere

BrowserSpec == BrowserInit /\ [][BrowserNext]_browserVars

-----------------------------------------------------------------------------
(* Types.                                                                  *)
BrowserTypeOK ==
  /\ stage \in {"empty", "plain", "unconfirmed", "confirmed"}
  /\ key \in 0..MaxKeys /\ issued \in 0..MaxSessions /\ live \subseteq 1..issued
  /\ cookie \in 0..issued
  /\ \A c \in Calls :
       /\ net[c].kind \in Forms \cup {"status", "data", "logout", Null}
       /\ net[c].then \in {"init", "sign-in", "already", "none", Null}
       /\ net[c].sid \in 0..issued /\ net[c].mine \in BOOLEAN
  /\ screen \in Screens /\ upgrade \in Told
  /\ signedIn \in BOOLEAN /\ locked \in BOOLEAN /\ canRecover \in BOOLEAN /\ skipped \in BOOLEAN
  /\ fresh \in [key : 1..MaxKeys, first : BOOLEAN] \cup {Null}
  /\ page \in [shown : 1..MaxKeys \cup {Null}, first : BOOLEAN, done : BOOLEAN]
  /\ excused \in BOOLEAN

(* App.svelte:21-23 and auth.ts:175: somebody at work in the app with a    *)
(* live session, whose data is encrypted under a recovery key that nobody  *)
(* has typed back, has been asked for it since signing in and put it off;  *)
(* or the answer that would have said so was lost or was about another     *)
(* session, or the key was made from another browser or for a screen that  *)
(* had been left; or a sign-in is still being answered.  Whatever the      *)
(* order of answers, sign-outs, losses and reloads.                        *)
UnconfirmedIsAsked ==
  screen = "app" /\ cookie \in live /\ stage = "unconfirmed" =>
    excused \/ \E c \in Calls : net[c].then = "sign-in"
=============================================================================
