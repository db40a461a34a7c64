--------------------------- MODULE DataDirectory ---------------------------
(***************************************************************************)
(* Processes that share one data directory: servers and offline restores.  *)
(* Each claims the directory by writing server.lock and refreshing it      *)
(* every five seconds (services/backup/server-lock.ts); a restore is       *)
(* staged as a file, claimed by renaming it, and swapped in for the        *)
(* database (services/backup/restore.ts).                                  *)
(*                                                                         *)
(* Processes interleave between any two file operations, and may stop at   *)
(* any of them.  Ages are classes: a lock is "fresh" for 30 seconds,       *)
(* "suspect" until ten minutes, then "dead"; a claim is "fresh" for five   *)
(* minutes, then "stale".  What hosts share is left open: where a process  *)
(* on the lock's own host would see that its owner is gone and one on      *)
(* another host would not, both are possible.                              *)
(***************************************************************************)
EXTENDS Naturals

CONSTANTS Processes, None

VARIABLES
  lock,      \* server.lock: who wrote it last, and how long ago
  unmoved,   \* the commands watching it that have not seen it rewritten
  live,      \* the database file
  pending,   \* restore-pending.db
  applying,  \* restore-applying.db
  safety,    \* the databases that the pre-restore copies hold
  proc,      \* per process, where it is
  opened,    \* history: the servers that have opened the database
  acked,     \* history: the servers that have acknowledged a write
  excused    \* history: two claimed the directory at once, or a lock ran
             \* out while its owner was stalled

claims == <<lock, unmoved, excused>>
files == <<live, pending, applying, safety>>
history == <<opened, acked>>
vars == <<claims, files, proc, history>>

Lock == [owner : Processes, age : {"fresh", "suspect", "dead"}]
Database == [protected : BOOLEAN, edits : SUBSET Processes]
(* before: history, the servers that had opened the database by then.      *)
Staged == [protected : BOOLEAN, before : SUBSET Processes]
Claimed == [protected : BOOLEAN, before : SUBSET Processes, claim : {"fresh", "stale"}]

ASSUME NoneIsNoFile == None \notin Lock /\ None \notin Database /\ None \notin Claimed

Working == {"stage", "claim", "validate", "backup", "swap", "open", "serving"}
Stages == {"off", "check", "watch", "checked", "stopped"} \cup Working

ProcessState == [at : Stages, kind : {"server", "restore"}, file : BOOLEAN,
                 attached : BOOLEAN, stalled : BOOLEAN]
Process(stage) ==
  [at |-> stage, kind |-> "server", file |-> FALSE, attached |-> FALSE, stalled |-> FALSE]
Gone == Process("stopped")

At(p, stage) == proc[p].at = stage
Go(p, stage) == proc' = [proc EXCEPT ![p].at = stage]
IsServer(p) == proc[p].kind = "server"

(* The processes that think the directory is theirs.                       *)
Holders == {p \in Processes : proc[p].at \in Working}
Beating == {p \in Holders : ~proc[p].stalled}

-----------------------------------------------------------------------------
(* server.lock *)

Refreshed(p) == lock' = [owner |-> p, age |-> "fresh"] /\ unmoved' = {}

(* serverLockIsFresh, by the clock; the process that wrote a lock is not   *)
(* stopped by it.                                                          *)
IsFresh(p) == lock # None /\ lock.age = "fresh" /\ lock.owner # p

(* On the owner's host a dead process settles it before the clock does.    *)
MayLookFree(p) == IsFresh(p) => lock.owner \notin Holders

StartServer(p) ==
  /\ At(p, "off")
  /\ proc' = [proc EXCEPT ![p].at = "check"]
  /\ UNCHANGED <<claims, files, history>>

(* tax-tracker restore with a file that is protected or not.               *)
StartRestore(p, protected) ==
  /\ At(p, "off")
  /\ proc' = [proc EXCEPT ![p].at = "check", ![p].kind = "restore", ![p].file = protected]
  /\ UNCHANGED <<claims, files, history>>

(* waitForLockRelease polls; after 35 seconds it gives up.                 *)
ServerChecks(p) ==
  /\ At(p, "check") /\ IsServer(p)
  /\ \/ MayLookFree(p) /\ Go(p, "checked")
     \/ IsFresh(p) /\ Go(p, "stopped")
  /\ UNCHANGED <<claims, files, history>>

(* isServerRunning: a lock that is neither fresh nor clearly dead is       *)
(* watched for one heartbeat.                                              *)
RestoreChecks(p) ==
  /\ At(p, "check") /\ ~IsServer(p)
  /\ \/ (lock # None => lock.age = "dead") /\ Go(p, "checked") /\ UNCHANGED unmoved
     \/ IsFresh(p) /\ Go(p, "stopped") /\ UNCHANGED unmoved
     \/ /\ lock # None /\ lock.age # "dead" /\ MayLookFree(p)
        /\ Go(p, "watch") /\ unmoved' = unmoved \cup {p}
  /\ UNCHANGED <<lock, excused, files, history>>

(* Faulty: the lock is not looked at again after the wait.                 *)
FaultyWatched(p) == TRUE
Watched(p) == lock # None => p \in unmoved

(* A server that is running has rewritten its lock by the end of the wait. *)
EndWatch(p) ==
  /\ At(p, "watch")
  /\ Beating # {} => (p \in unmoved => lock = None)
  /\ Go(p, IF Watched(p) THEN "checked" ELSE "stopped")
  /\ unmoved' = unmoved \ {p}
  /\ UNCHANGED <<lock, excused, files, history>>

(* writeServerLock: whatever the lock has become since it was checked.     *)
WriteLock(p) ==
  /\ At(p, "checked")
  /\ Refreshed(p)
  /\ excused' = (excused \/ \E q \in Processes \ {p} : At(q, "checked"))
  /\ Go(p, IF IsServer(p) THEN "claim" ELSE "stage")
  /\ UNCHANGED <<files, history>>

Beat(p) ==
  /\ p \in Beating
  /\ Refreshed(p)
  /\ UNCHANGED <<excused, files, proc, history>>

(* A process that ends takes away a lock that is still its own.            *)
Release(p) ==
  /\ lock' = IF lock # None /\ lock.owner = p THEN None ELSE lock
  /\ UNCHANGED <<unmoved, excused>>

Leave(p) == proc' = [proc EXCEPT ![p] = Gone]

(* The end of a command, or of a server that is told to stop or that       *)
(* cannot start.                                                           *)
Exit(p) == Leave(p) /\ Release(p)

Stop(p) ==
  /\ p \in Holders /\ Exit(p)
  /\ UNCHANGED <<files, history>>

(* Killed, or the machine stops: the lock stays.                           *)
Crash(p) ==
  /\ ~At(p, "off") /\ ~At(p, "stopped")
  /\ Leave(p)
  /\ unmoved' = unmoved \ {p}
  /\ UNCHANGED <<lock, excused, files, history>>

(* A long synchronous stretch, or a machine that is suspended.             *)
Stall(p) ==
  /\ p \in Beating
  /\ proc' = [proc EXCEPT ![p].stalled = TRUE]
  /\ UNCHANGED <<claims, files, history>>

Resume(p) ==
  /\ proc[p].stalled
  /\ proc' = [proc EXCEPT ![p].stalled = FALSE]
  /\ UNCHANGED <<claims, files, history>>

(* Time passes.  A running process has refreshed its lock meanwhile.       *)
LockAges(age) ==
  \/ \E p \in Beating : Refreshed(p) /\ UNCHANGED excused
  \/ /\ Beating = {}
     /\ lock' = IF lock = None THEN None ELSE [lock EXCEPT !.age = age]
     /\ excused' = (excused \/ Holders # {})
     /\ UNCHANGED unmoved

ThirtySeconds ==
  /\ lock # None /\ lock.age = "fresh"
  /\ LockAges("suspect")
  /\ UNCHANGED <<files, proc, history>>

ClaimAges == applying' = IF applying = None THEN None ELSE [applying EXCEPT !.claim = "stale"]

FiveMinutes ==
  /\ LockAges(IF lock # None /\ lock.age = "dead" THEN "dead" ELSE "suspect")
  /\ ClaimAges
  /\ UNCHANGED <<live, pending, safety, proc, history>>

TenMinutes ==
  /\ LockAges("dead")
  /\ ClaimAges
  /\ UNCHANGED <<live, pending, safety, proc, history>>

-----------------------------------------------------------------------------
(* restore-pending.db and restore-applying.db *)

Downgrades(protected) == live # None /\ live.protected /\ ~protected

(* stage: whatever was pending is replaced.                                *)
StageFile(protected) ==
  /\ ~Downgrades(protected)
  /\ pending' = [protected |-> protected, before |-> opened]
  /\ UNCHANGED <<live, applying, safety, history>>

(* POST /backup/restore.  An upgrade may end while the file is looked at,  *)
(* which comes to the same as one that follows.                            *)
Upload(p, protected) ==
  /\ At(p, "serving")
  /\ StageFile(protected)
  /\ UNCHANGED <<claims, proc>>

(* DELETE /backup/restore: a claimed file is not looked for.               *)
Cancel(p) ==
  /\ At(p, "serving") /\ pending # None
  /\ pending' = None
  /\ UNCHANGED <<live, applying, safety, claims, proc, history>>

(* The first half of tax-tracker restore; a refused file ends the command. *)
Stage(p) ==
  /\ At(p, "stage")
  /\ \/ StageFile(proc[p].file) /\ Go(p, "claim") /\ UNCHANGED claims
     \/ Downgrades(proc[p].file) /\ Exit(p) /\ UNCHANGED <<files, history>>

(* After applyPendingRestore a server opens the database, a command ends.  *)
Continue(p) ==
  \/ IsServer(p) /\ Go(p, "open") /\ UNCHANGED claims
  \/ ~IsServer(p) /\ Exit(p)

(* A claim left by an interrupted attempt is due again when it is stale.   *)
Due == IF pending = None /\ applying # None /\ applying.claim = "stale" THEN applying ELSE pending

(* Requeue, claim by rename, restart the age of the claim.                 *)
Claim(p) ==
  /\ At(p, "claim")
  /\ \/ /\ Due # None
        /\ applying' = [protected |-> Due.protected, before |-> Due.before, claim |-> "fresh"]
        /\ pending' = None
        /\ Go(p, "validate")
        /\ UNCHANGED <<claims, live, safety>>
     \/ Due = None /\ Continue(p) /\ UNCHANGED files
  /\ UNCHANGED history

(* The staged file is damaged, has another key, or would downgrade, or it  *)
(* cannot be put in the database's place: it is moved to the backups.      *)
SetAside(p) ==
  /\ At(p, "validate") \/ (At(p, "swap") /\ (IsServer(p) \/ ~IsFresh(p)))
  /\ applying' = None
  /\ Continue(p)
  /\ UNCHANGED <<live, pending, safety, history>>

(* Faulty: a file that was accepted when it was staged is not compared     *)
(* with the database again.                                                *)
FaultyValidate(p) ==
  /\ At(p, "validate")
  /\ applying # None
  /\ Go(p, "backup")
  /\ UNCHANGED <<claims, files, history>>

Validate(p) ==
  /\ At(p, "validate")
  /\ applying # None
  /\ ~Downgrades(applying.protected)
  /\ Go(p, "backup")
  /\ UNCHANGED <<claims, files, history>>

(* Faulty: a copy is made although there is no database.                   *)
UncheckedSafetyCopies == safety \cup {live}
(* Faulty: a database without key slots is not worth a copy.               *)
ProtectedSafetyCopies == safety \cup {d \in {live} \ {None} : d.protected}
SafetyCopies == safety \cup ({live} \ {None})

(* createBackup, reason pre-restore.                                       *)
TakeCopy(p) ==
  /\ At(p, "backup")
  /\ safety' = SafetyCopies
  /\ Go(p, "swap")
  /\ UNCHANGED <<live, pending, applying, claims, history>>

(* unclaim: the staged file goes back to the queue, if it is still there.  *)
Unclaim(before) ==
  /\ IF applying = None THEN UNCHANGED pending
     ELSE pending' = [protected |-> applying.protected, before |-> before]
  /\ applying' = None

(* The database is busy or unreadable; the log says that the restore is    *)
(* postponed, so it counts as staged now.                                  *)
Postpone(p) ==
  /\ At(p, "backup") /\ live # None
  /\ Unclaim(opened \cup {p})
  /\ Continue(p)
  /\ UNCHANGED <<live, safety, history>>

(* beforeSwap of the offline command.                                      *)
Abort(p) ==
  /\ At(p, "swap") /\ ~IsServer(p) /\ IsFresh(p)
  /\ Unclaim(IF applying = None THEN {} ELSE applying.before)
  /\ Exit(p)
  /\ UNCHANGED <<live, safety, history>>

(* The rename takes the database away from whoever has it open.            *)
Swap(p) ==
  /\ At(p, "swap")
  /\ IsServer(p) \/ ~IsFresh(p)
  /\ applying # None
  /\ live' = [protected |-> applying.protected, edits |-> {}]
  /\ applying' = None
  /\ proc' = [q \in Processes |->
                IF q # p THEN [proc[q] EXCEPT !.attached = FALSE]
                ELSE IF IsServer(p) THEN [proc[p] EXCEPT !.at = "open"] ELSE Gone]
  /\ IF IsServer(p) THEN UNCHANGED claims ELSE Release(p)
  /\ UNCHANGED <<pending, safety, history>>

(* The claimed file is gone: another process has taken it.                 *)
LoseClaim(p) ==
  /\ At(p, "swap")
  /\ applying = None
  /\ Continue(p)
  /\ UNCHANGED <<files, history>>

-----------------------------------------------------------------------------
(* A running server *)

Open(p) ==
  /\ At(p, "open")
  /\ live' = IF live = None THEN [protected |-> FALSE, edits |-> {}] ELSE live
  /\ proc' = [proc EXCEPT ![p].at = "serving", ![p].attached = TRUE]
  /\ opened' = opened \cup {p}
  /\ UNCHANGED <<pending, applying, safety, acked, claims>>

(* A server without the file writes to one that nobody will open again.    *)
Edit(p) ==
  /\ At(p, "serving")
  /\ live' = IF proc[p].attached THEN [live EXCEPT !.edits = @ \cup {p}] ELSE live
  /\ acked' = acked \cup {p}
  /\ UNCHANGED <<pending, applying, safety, opened, claims, proc>>

(* Setup or upgrade of a database that has no key slots yet.               *)
Encrypt(p) ==
  /\ At(p, "serving") /\ proc[p].attached
  /\ live' = [live EXCEPT !.protected = TRUE]
  /\ UNCHANGED <<pending, applying, safety, history, claims, proc>>

-----------------------------------------------------------------------------

Init ==
  /\ lock = None /\ unmoved = {} /\ excused = FALSE
  /\ live \in {None} \cup [protected : BOOLEAN, edits : {{}}]
  /\ pending \in {None} \cup [protected : BOOLEAN, before : {{}}]
  /\ applying = None /\ safety = {}
  /\ proc = [p \in Processes |-> Process("off")]
  /\ opened = {} /\ acked = {}

Starts(p) == StartServer(p) \/ \E protected \in BOOLEAN : StartRestore(p, protected)
Locks(p) == ServerChecks(p) \/ RestoreChecks(p) \/ EndWatch(p) \/ WriteLock(p)
Restores(p) ==
  \/ Stage(p) \/ Claim(p) \/ SetAside(p) \/ Validate(p) \/ TakeCopy(p)
  \/ Postpone(p) \/ Abort(p) \/ Swap(p) \/ LoseClaim(p)
Serves(p) ==
  \/ Open(p) \/ Edit(p) \/ Encrypt(p) \/ Cancel(p) \/ Stop(p)
  \/ \E protected \in BOOLEAN : Upload(p, protected)
Fails(p) == Crash(p) \/ Stall(p) \/ Resume(p) \/ Beat(p)
Time == ThirtySeconds \/ FiveMinutes \/ TenMinutes

Next == Time \/ \E p \in Processes : Starts(p) \/ Locks(p) \/ Restores(p) \/ Serves(p) \/ Fails(p)

(* The synchronous stretches of a process that is not stopped go on.       *)
Fairness == \A p \in Processes : WF_vars(Locks(p) \/ Restores(p) \/ Open(p))
Spec == Init /\ [][Next]_vars /\ Fairness

-----------------------------------------------------------------------------

TypeOK ==
  /\ lock \in {None} \cup Lock
  /\ unmoved \subseteq Processes
  /\ live \in {None} \cup Database
  /\ pending \in {None} \cup Staged
  /\ applying \in {None} \cup Claimed
  /\ safety \subseteq Database
  /\ proc \in [Processes -> ProcessState]
  /\ opened \subseteq Processes /\ acked \subseteq Processes
  /\ excused \in BOOLEAN

(* Unless two processes looked at the lock in the same moment, or one was  *)
(* stalled for longer than its lock lasts, the directory has one owner     *)
(* (start.ts:18, data-dir-lock.ts:7).                                      *)
Exclusive == ~excused => \A p, q \in Holders : p = q

(* A write that a server acknowledged is in the database or in a copy that *)
(* a restore made before it swapped the database (restore.ts:282),         *)
(* wherever processes stop and whatever is staged meanwhile.               *)
NothingLost ==
  ~excused => \A p \in acked :
                \/ live # None /\ p \in live.edits
                \/ \E copy \in safety : p \in copy.edits

(* Protected data is never replaced by an unprotected copy                 *)
(* (restore.ts:161), however long ago that copy was staged.                *)
NoDowngrade ==
  [][~excused' /\ live # None /\ live.protected => live' # None /\ live'.protected]_vars

(* "The swap happens the next time the app starts" (README.md:214): what a *)
(* swap discards was written by servers that had started before the file   *)
(* was staged.                                                             *)
SwapAtNextStart ==
  [][~excused' /\ live # None /\ live' # None /\ ~(live.edits \subseteq live'.edits)
       => live.edits \subseteq applying.before]_vars

=============================================================================
