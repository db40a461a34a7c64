------------------------ MODULE DataDirectory_proofs ------------------------
(* For any number of processes: the directory has one owner, no            *)
(* acknowledged write is lost and protected data stays protected.          *)
EXTENDS DataDirectory, TLAPS

(* Whoever has the directory wrote the lock last, and nobody who looked    *)
(* before still thinks that it is free.                                    *)
LockInv ==
  ~excused =>
    /\ \A p \in Holders : lock # None /\ lock.owner = p /\ lock.age = "fresh"
    /\ Holders # {} => unmoved = {} /\ \A p \in Processes : ~At(p, "checked")

(* What has been looked at before a swap is so until it.                   *)
RestoreInv ==
  ~excused => \A p \in Processes :
    /\ proc[p].at \in {"backup", "swap"} => applying # None /\ ~Downgrades(applying.protected)
    /\ At(p, "swap") /\ live # None => live \in safety
    /\ At(p, "serving") => proc[p].attached /\ live # None

(* Whoever has the database open has one.                                  *)
AttachedInv == \A p \in Processes : proc[p].attached => live # None

IInv == TypeOK /\ AttachedInv /\ LockInv /\ RestoreInv /\ NothingLost

LEMMA OneHolder == LockInv => Exclusive
  BY DEF LockInv, Exclusive

-----------------------------------------------------------------------------
(* What the moves of a process do to the processes and to the lock *)

ProcTyped == proc \in [Processes -> ProcessState]
Others(p) == \A q \in Processes \ {p} : proc'[q] = proc[q]

(* Everything but the stage of p, for a p that moves on.                   *)
LEMMA GoMoves ==
  ASSUME ProcTyped, NEW p \in Processes, NEW s \in Stages, Go(p, s)
  PROVE  /\ ProcTyped' /\ Others(p)
         /\ proc'[p].at = s /\ proc'[p].attached = proc[p].attached
         /\ proc'[p].kind = proc[p].kind /\ proc'[p].stalled = proc[p].stalled
<1> DEFINE r == [proc[p] EXCEPT !.at = s]
<1>1. proc[p] \in ProcessState
  BY DEF ProcTyped
<1>2. r \in ProcessState /\ r.at = s /\ r.attached = proc[p].attached /\ r.kind = proc[p].kind
        /\ r.stalled = proc[p].stalled
  BY <1>1 DEF ProcessState
<1>3. proc' = [proc EXCEPT ![p] = r]
  BY DEF Go
<1> QED BY <1>2, <1>3 DEF ProcTyped, Others

LEMMA LeaveMoves ==
  ASSUME ProcTyped, NEW p \in Processes, Leave(p)
  PROVE  ProcTyped' /\ Others(p) /\ proc'[p].at = "stopped" /\ ~proc'[p].attached
<1>1. Gone \in ProcessState /\ Gone.at = "stopped" /\ ~Gone.attached
  BY DEF Gone, Process, ProcessState, Stages
<1> QED BY <1>1 DEF ProcTyped, Others, Leave

(* A command that ends takes its lock away, a server goes on to open.      *)
LEMMA ContinueMoves ==
  ASSUME ProcTyped, NEW p \in Processes, Continue(p)
  PROVE  /\ ProcTyped' /\ Others(p) /\ proc'[p].at \in {"open", "stopped"}
         /\ proc'[p].attached => proc[p].attached
         /\ unmoved' = unmoved /\ excused' = excused
         /\ lock' \in {lock, None}
         /\ lock' # lock => lock.owner = p /\ proc'[p].at = "stopped"
<1>1. CASE IsServer(p) /\ Go(p, "open") /\ UNCHANGED claims
  BY <1>1, GoMoves DEF claims, Stages, Working
<1>2. CASE ~IsServer(p) /\ Exit(p)
  BY <1>2, LeaveMoves DEF Exit, Release
<1> QED BY <1>1, <1>2 DEF Continue

LEMMA SwapMoves ==
  ASSUME ProcTyped, NEW p \in Processes, Swap(p)
  PROVE  /\ ProcTyped' /\ proc'[p].at \in {"open", "stopped"}
         /\ \A q \in Processes \ {p} : proc'[q].at = proc[q].at
         /\ unmoved' = unmoved /\ excused' = excused
         /\ lock' \in {lock, None}
         /\ lock' # lock => lock.owner = p /\ proc'[p].at = "stopped"
<1> DEFINE detached(q) == [proc[q] EXCEPT !.attached = FALSE]
           opening == [proc[p] EXCEPT !.at = "open"]
<1>1. \A q \in Processes : proc[q] \in ProcessState
  BY DEF ProcTyped
<1>2. \A q \in Processes : detached(q) \in ProcessState /\ detached(q).at = proc[q].at
  BY <1>1 DEF ProcessState
<1>3. opening \in ProcessState /\ opening.at = "open"
  BY <1>1 DEF ProcessState, Stages, Working
<1>4. Gone \in ProcessState /\ Gone.at = "stopped"
  BY DEF Gone, Process, ProcessState, Stages
<1>5. proc' = [q \in Processes |-> IF q # p THEN detached(q) ELSE IF IsServer(p) THEN opening ELSE Gone]
  BY DEF Swap
<1> HIDE DEF detached, opening
<1>6. ProcTyped' /\ \A q \in Processes \ {p} : proc'[q].at = proc[q].at
  BY <1>2, <1>3, <1>4, <1>5 DEF ProcTyped
<1>7. IF IsServer(p) THEN proc'[p].at = "open" /\ UNCHANGED claims
      ELSE proc'[p].at = "stopped" /\ Release(p)
  BY <1>3, <1>4, <1>5 DEF Swap
<1> QED BY <1>6, <1>7 DEF Release, claims

LEMMA SwapLive ==
  ASSUME ProcTyped, NEW p \in Processes, Swap(p), applying \in Claimed \cup {None}
  PROVE  live' # None /\ live'.protected = applying.protected
<1>1. applying.protected \in BOOLEAN /\ live' = [protected |-> applying.protected, edits |-> {}]
  BY DEF Swap, Claimed
<1>2. live' \in Database
  BY <1>1 DEF Database
<1> QED BY <1>1, <1>2, NoneIsNoFile

LEMMA RecordMoves ==
  ASSUME ProcTyped, NEW p \in Processes, NEW r \in ProcessState, proc' = [proc EXCEPT ![p] = r]
  PROVE  ProcTyped' /\ Others(p) /\ proc'[p] = r
  BY DEF ProcTyped, Others

-----------------------------------------------------------------------------
(* Types *)

LEMMA TypeNext ==
  ASSUME TypeOK, AttachedInv, [Next]_vars
  PROVE  TypeOK'
<1> DEFINE FilesTyped == /\ live \in {None} \cup Database /\ pending \in {None} \cup Staged
                         /\ applying \in {None} \cup Claimed /\ safety \subseteq Database
           LockTyped == lock \in {None} \cup Lock /\ unmoved \subseteq Processes /\ excused \in BOOLEAN
           HistoryTyped == opened \subseteq Processes /\ acked \subseteq Processes
<1>a. FilesTyped /\ LockTyped /\ HistoryTyped /\ ProcTyped
  BY DEF TypeOK, ProcTyped
<1>b. SUFFICES FilesTyped' /\ LockTyped' /\ HistoryTyped' /\ ProcTyped'
  BY DEF TypeOK, ProcTyped
<1>c. UNCHANGED claims => LockTyped'
  BY <1>a DEF claims
<1>d. UNCHANGED files => FilesTyped'
  BY <1>a DEF files
<1>e. UNCHANGED history => HistoryTyped'
  BY <1>a DEF history
<1>f. UNCHANGED proc => ProcTyped'
  BY <1>a DEF ProcTyped
<1>g. ASSUME NEW p \in Processes, Refreshed(p) PROVE lock' \in Lock /\ unmoved' \subseteq Processes
  BY <1>g DEF Refreshed, Lock
<1>h. ASSUME NEW p \in Processes, Release(p) PROVE LockTyped'
  BY <1>a, <1>h DEF Release
<1>i. \A p \in Processes : proc[p] \in ProcessState
  BY <1>a DEF ProcTyped
<1>1. CASE Time
  <2>1. ASSUME NEW age \in {"fresh", "suspect", "dead"}, LockAges(age) PROVE LockTyped'
    BY <1>a, <1>g, <2>1 DEF LockAges, Beating, Holders, Lock
  <2>2. ClaimAges => applying' \in {None} \cup Claimed
    BY <1>a DEF ClaimAges, Claimed
  <2> QED BY <1>1, <1>a, <1>d, <1>e, <1>f, <2>1, <2>2 DEF Time, ThirtySeconds, FiveMinutes, TenMinutes
<1>2. ASSUME NEW p \in Processes, Starts(p) PROVE ProcTyped' /\ LockTyped' /\ FilesTyped' /\ HistoryTyped'
  <2>1. CASE StartServer(p)
    <3> DEFINE r == [proc[p] EXCEPT !.at = "check"]
    <3>1. r \in ProcessState /\ proc' = [proc EXCEPT ![p] = r]
      BY <1>i, <2>1 DEF StartServer, ProcessState, Stages
    <3> QED BY <1>a, <1>c, <1>d, <1>e, <2>1, <3>1, RecordMoves DEF StartServer
  <2>2. ASSUME NEW protected \in BOOLEAN, StartRestore(p, protected) PROVE ProcTyped'
    <3> DEFINE r == [proc[p] EXCEPT !.at = "check", !.kind = "restore", !.file = protected]
    <3>1. r \in ProcessState /\ proc' = [proc EXCEPT ![p] = r]
      BY <1>i, <2>2 DEF StartRestore, ProcessState, Stages
    <3> QED BY <1>a, <3>1, RecordMoves
  <2> QED BY <1>2, <1>c, <1>d, <1>e, <2>1, <2>2 DEF Starts, StartRestore
<1>3. ASSUME NEW p \in Processes, Locks(p) PROVE ProcTyped' /\ LockTyped' /\ FilesTyped' /\ HistoryTyped'
  <2>1. \A s \in {"checked", "stopped", "watch", "claim", "stage"} : Go(p, s) => ProcTyped'
    BY <1>a, GoMoves DEF Stages, Working
  <2>2. CASE ServerChecks(p)
    BY <1>c, <1>d, <1>e, <2>1, <2>2 DEF ServerChecks
  <2>3. CASE RestoreChecks(p)
    BY <1>a, <1>d, <1>e, <2>1, <2>3 DEF RestoreChecks
  <2>4. CASE EndWatch(p)
    BY <1>a, <1>d, <1>e, <2>1, <2>4 DEF EndWatch
  <2>5. CASE WriteLock(p)
    BY <1>d, <1>e, <1>g, <2>1, <2>5 DEF WriteLock
  <2> QED BY <1>3, <2>2, <2>3, <2>4, <2>5 DEF Locks
<1>4. ASSUME NEW p \in Processes, Continue(p) PROVE ProcTyped' /\ LockTyped'
  BY <1>4, <1>a, ContinueMoves
<1>5. ASSUME NEW p \in Processes, Exit(p) PROVE ProcTyped' /\ LockTyped'
  BY <1>5, <1>a, <1>h, LeaveMoves DEF Exit
<1>6. \A protected \in BOOLEAN : StageFile(protected) => FilesTyped' /\ HistoryTyped'
  BY <1>a, <1>e DEF StageFile, Staged
<1>7. ASSUME NEW before \in SUBSET Processes, Unclaim(before)
      PROVE  pending' \in {None} \cup Staged /\ applying' = None
  BY <1>7, <1>a DEF Unclaim, Staged, Claimed
<1>8. ASSUME NEW p \in Processes, Restores(p) PROVE ProcTyped' /\ LockTyped' /\ FilesTyped' /\ HistoryTyped'
  <2>0. \A s \in {"claim", "validate", "backup", "swap"} : Go(p, s) => ProcTyped'
    BY <1>a, GoMoves DEF Stages, Working
  <2>1. CASE Stage(p)
    BY <1>c, <1>d, <1>e, <1>i, <1>5, <1>6, <2>0, <2>1 DEF Stage, ProcessState
  <2>2. CASE Claim(p)
    BY <1>a, <1>c, <1>d, <1>e, <1>4, <2>0, <2>2 DEF Claim, Due, Claimed, Staged
  <2>3. CASE SetAside(p)
    BY <1>a, <1>e, <1>4, <2>3 DEF SetAside
  <2>4. CASE Validate(p)
    BY <1>c, <1>d, <1>e, <2>0, <2>4 DEF Validate
  <2>5. CASE TakeCopy(p)
    BY <1>a, <1>c, <1>e, <2>0, <2>5 DEF TakeCopy, SafetyCopies
  <2>6. CASE Postpone(p)
    BY <1>a, <1>e, <1>4, <1>7, <2>6 DEF Postpone
  <2>7. CASE Abort(p)
    BY <1>a, <1>e, <1>5, <1>7, <2>7 DEF Abort, Claimed
  <2>8. CASE Swap(p)
    BY <1>a, <1>c, <1>e, <1>h, SwapMoves, <2>8 DEF Swap, Database, Claimed
  <2>9. CASE LoseClaim(p)
    BY <1>d, <1>e, <1>4, <2>9 DEF LoseClaim
  <2> QED BY <1>8, <2>1, <2>2, <2>3, <2>4, <2>5, <2>6, <2>7, <2>8, <2>9 DEF Restores
<1>9. ASSUME NEW p \in Processes, Serves(p) PROVE ProcTyped' /\ LockTyped' /\ FilesTyped' /\ HistoryTyped'
  <2>1. CASE Open(p)
    <3> DEFINE r == [proc[p] EXCEPT !.at = "serving", !.attached = TRUE]
    <3>1. r \in ProcessState /\ proc' = [proc EXCEPT ![p] = r]
      BY <1>i, <2>1 DEF Open, ProcessState, Stages, Working
    <3> QED BY <1>a, <1>c, <2>1, <3>1, RecordMoves DEF Open, Database
  <2>2. CASE Edit(p)
    BY <1>a, <1>c, <1>f, <2>2 DEF Edit, Database, AttachedInv
  <2>3. CASE Encrypt(p)
    BY <1>a, <1>c, <1>e, <1>f, <2>3 DEF Encrypt, Database, AttachedInv
  <2>4. CASE Cancel(p)
    BY <1>a, <1>c, <1>e, <1>f, <2>4 DEF Cancel
  <2>5. CASE Stop(p)
    BY <1>d, <1>e, <1>5, <2>5 DEF Stop
  <2>6. ASSUME NEW protected \in BOOLEAN, Upload(p, protected) PROVE ProcTyped' /\ LockTyped' /\ FilesTyped' /\ HistoryTyped'
    BY <1>c, <1>f, <1>6, <2>6 DEF Upload
  <2> QED BY <1>9, <2>1, <2>2, <2>3, <2>4, <2>5, <2>6 DEF Serves
<1>10. ASSUME NEW p \in Processes, Fails(p) PROVE ProcTyped' /\ LockTyped' /\ FilesTyped' /\ HistoryTyped'
  <2>1. CASE Crash(p)
    BY <1>a, <1>d, <1>e, LeaveMoves, <2>1 DEF Crash
  <2>2. ASSUME NEW b \in BOOLEAN, proc' = [proc EXCEPT ![p].stalled = b] PROVE ProcTyped'
    <3> DEFINE r == [proc[p] EXCEPT !.stalled = b]
    <3>1. r \in ProcessState /\ proc' = [proc EXCEPT ![p] = r]
      BY <1>i, <2>2 DEF ProcessState
    <3> QED BY <1>a, <3>1, RecordMoves
  <2>3. CASE Stall(p) \/ Resume(p)
    BY <1>c, <1>d, <1>e, <2>2, <2>3 DEF Stall, Resume
  <2>4. CASE Beat(p)
    BY <1>a, <1>d, <1>e, <1>f, <1>g, <2>4 DEF Beat
  <2> QED BY <1>10, <2>1, <2>3, <2>4 DEF Fails
<1>11. CASE UNCHANGED vars
  BY <1>11, <1>c, <1>d, <1>e, <1>f DEF vars
<1> QED BY <1>1, <1>2, <1>3, <1>8, <1>9, <1>10, <1>11 DEF Next

-----------------------------------------------------------------------------
(* The open database *)

LEMMA AttachedNext ==
  ASSUME TypeOK, AttachedInv, [Next]_vars
  PROVE  AttachedInv' /\ (live # None => live' # None)
<1> DEFINE Stays == live # None => live' # None
<1>a. ProcTyped /\ live \in {None} \cup Database /\ applying \in {None} \cup Claimed
  BY DEF TypeOK, ProcTyped
<1>b. \A b \in BOOLEAN, E \in SUBSET Processes : [protected |-> b, edits |-> E] # None
  BY NoneIsNoFile DEF Database
<1>c. ASSUME \A q \in Processes : proc'[q].attached => proc[q].attached, live' = live
      PROVE  AttachedInv' /\ Stays
  BY <1>c DEF AttachedInv
<1>d. ASSUME NEW p \in Processes, NEW r \in ProcessState, proc' = [proc EXCEPT ![p] = r],
             r.attached => proc[p].attached, live' = live
      PROVE  AttachedInv' /\ Stays
  BY <1>a, <1>c, <1>d, RecordMoves DEF Others
<1>e. ASSUME NEW p \in Processes, live' = live,
             Continue(p) \/ Exit(p) \/ Leave(p) \/ \E s \in Stages : Go(p, s)
      PROVE  AttachedInv' /\ Stays
  BY <1>a, <1>c, <1>e, ContinueMoves, LeaveMoves, GoMoves DEF Others, Exit
<1>f. UNCHANGED proc /\ live' = live => AttachedInv' /\ Stays
  BY <1>c
<1>g. {"check", "watch", "checked", "stopped", "stage", "claim", "validate", "backup", "swap", "open", "serving"}
        \subseteq Stages
  BY DEF Stages, Working
<1>h. \A p \in Processes : proc[p] \in ProcessState
  BY <1>a DEF ProcTyped
<1>1. CASE Time
  BY <1>1, <1>f DEF Time, ThirtySeconds, FiveMinutes, TenMinutes, files
<1>2. ASSUME NEW p \in Processes, Starts(p) PROVE AttachedInv' /\ Stays
  <2>1. CASE StartServer(p)
    BY <1>e, <1>g, <2>1 DEF StartServer, Go, files
  <2>2. ASSUME NEW protected \in BOOLEAN, StartRestore(p, protected) PROVE AttachedInv' /\ Stays
    <3> DEFINE r == [proc[p] EXCEPT !.at = "check", !.kind = "restore", !.file = protected]
    <3>1. r \in ProcessState /\ proc' = [proc EXCEPT ![p] = r] /\ (r.attached => proc[p].attached)
      BY <1>g, <1>h, <2>2 DEF StartRestore, ProcessState
    <3> QED BY <1>d, <2>2, <3>1 DEF StartRestore, files
  <2> QED BY <1>2, <2>1, <2>2 DEF Starts
<1>3. ASSUME NEW p \in Processes, Locks(p) PROVE AttachedInv' /\ Stays
  BY <1>3, <1>e, <1>g DEF Locks, ServerChecks, RestoreChecks, EndWatch, WriteLock, files
<1>4. ASSUME NEW p \in Processes, Restores(p) PROVE AttachedInv' /\ Stays
  <2>1. CASE Swap(p)
    BY <1>a, <2>1, SwapLive DEF AttachedInv
  <2>2. CASE ~Swap(p)
    BY <1>4, <1>e, <1>g, <2>2 DEF Restores, Stage, StageFile, Claim, SetAside, Validate, TakeCopy, Postpone,
       Abort, LoseClaim, files
  <2> QED BY <2>1, <2>2
<1>5. ASSUME NEW p \in Processes, Serves(p) PROVE AttachedInv' /\ Stays
  <2>1. CASE Open(p)
    BY <1>a, <1>b, <2>1 DEF Open, AttachedInv
  <2>2. CASE Edit(p)
    BY <1>a, <1>f, <2>2, NoneIsNoFile DEF Edit, AttachedInv, Database
  <2>3. CASE Encrypt(p)
    BY <1>a, <2>3, NoneIsNoFile DEF Encrypt, AttachedInv, Database
  <2>4. CASE Cancel(p)
    BY <1>f, <2>4 DEF Cancel
  <2>5. CASE Stop(p)
    BY <1>e, <2>5 DEF Stop, files
  <2>6. ASSUME NEW protected \in BOOLEAN, Upload(p, protected) PROVE AttachedInv' /\ Stays
    BY <1>f, <2>6 DEF Upload, StageFile
  <2> QED BY <1>5, <2>1, <2>2, <2>3, <2>4, <2>5, <2>6 DEF Serves
<1>6. ASSUME NEW p \in Processes, Fails(p) PROVE AttachedInv' /\ Stays
  <2>1. CASE Crash(p)
    BY <1>e, <2>1 DEF Crash, files
  <2>2. ASSUME NEW b \in BOOLEAN, proc' = [proc EXCEPT ![p].stalled = b], live' = live PROVE AttachedInv' /\ Stays
    <3> DEFINE r == [proc[p] EXCEPT !.stalled = b]
    <3>1. r \in ProcessState /\ proc' = [proc EXCEPT ![p] = r] /\ (r.attached => proc[p].attached)
      BY <1>h, <2>2 DEF ProcessState
    <3> QED BY <1>d, <2>2, <3>1
  <2>3. CASE Stall(p) \/ Resume(p)
    BY <2>2, <2>3 DEF Stall, Resume, files
  <2>4. CASE Beat(p)
    BY <1>f, <2>4 DEF Beat, files
  <2> QED BY <1>6, <2>1, <2>3, <2>4 DEF Fails
<1>7. CASE UNCHANGED vars
  BY <1>7, <1>f DEF vars, files
<1> QED BY <1>1, <1>2, <1>3, <1>4, <1>5, <1>6, <1>7 DEF Next

-----------------------------------------------------------------------------
(* The lock *)

LEMMA ExcusedStays ==
  ASSUME TypeOK, [Next]_vars, ~excused'
  PROVE  ~excused
<1>1. excused \in BOOLEAN
  BY DEF TypeOK
<1>2. \A p \in Processes : Restores(p) \/ Serves(p) => (excused' = excused)
  BY DEF Restores, Serves, Stage, Claim, SetAside, Validate, TakeCopy, Postpone, Abort, Swap, LoseClaim,
         Open, Edit, Encrypt, Cancel, Stop, Upload, Continue, Exit, Release, claims
<1>3. \A p \in Processes : Starts(p) \/ Fails(p) => (excused' = excused)
  BY DEF Starts, StartServer, StartRestore, Fails, Crash, Stall, Resume, Beat, claims
<1>4. \A p \in Processes : Locks(p) => (~excused' => ~excused)
  BY <1>1 DEF Locks, ServerChecks, RestoreChecks, EndWatch, WriteLock, claims
<1>5. Time => (~excused' => ~excused)
  BY <1>1 DEF Time, ThirtySeconds, FiveMinutes, TenMinutes, LockAges
<1> QED BY <1>1, <1>2, <1>3, <1>4, <1>5 DEF Next, vars, claims

(* While the directory is undisputed, its owner is alone in it.            *)
LEMMA SoleHolder ==
  ASSUME LockInv, ~excused, NEW p \in Processes, proc[p].at \in Working
  PROVE  /\ \A q \in Processes : q # p => proc[q].at \notin Working
         /\ lock # None /\ lock.owner = p /\ lock.age = "fresh" /\ unmoved = {}
         /\ \A q \in Processes : ~At(q, "checked")
  BY DEF LockInv, Holders

(* The owner may go on, or leave and take its lock away.                   *)
LEMMA OwnerMoves ==
  ASSUME LockInv, ~excused, NEW p \in Processes, proc[p].at \in Working,
         \A q \in Processes : q # p => proc'[q].at = proc[q].at,
         proc'[p].at \in Working \cup {"stopped"}, unmoved' = unmoved,
         lock' # lock => proc'[p].at = "stopped"
  PROVE  LockInv'
<1>1. \A q \in Processes : q # p => proc'[q].at \notin Working
  BY SoleHolder
<1>2. "checked" \notin Working /\ "stopped" # "checked" /\ "stopped" \notin Working
  BY DEF Working
<1>3. \A q \in Processes : ~At(q, "checked")'
  BY <1>2, SoleHolder DEF At
<1> QED BY <1>1, <1>2, <1>3, SoleHolder DEF LockInv, Holders

(* Who is not in the directory may move about outside of it.               *)
LEMMA OutsiderMoves ==
  ASSUME LockInv, ~excused, NEW p \in Processes, lock' = lock,
         \A q \in Processes : q # p => proc'[q].at = proc[q].at,
         proc'[p].at = proc[p].at \/ proc'[p].at \notin Working,
         proc'[p].at = "checked" \/ unmoved' \ unmoved # {} => Holders = {}
  PROVE  LockInv'
<1>1. Holders' \subseteq Holders
  BY DEF Holders
<1> QED BY <1>1 DEF LockInv, Holders, At

LEMMA LockNext ==
  ASSUME TypeOK, LockInv, [Next]_vars
  PROVE  LockInv'
<1> SUFFICES ASSUME ~excused' PROVE LockInv'
  BY DEF LockInv
<1>a. ~excused
  BY ExcusedStays
<1>b. ProcTyped /\ \A p \in Processes : proc[p] \in ProcessState
  BY DEF TypeOK, ProcTyped
<1>c. UNCHANGED claims /\ (\A q \in Processes : proc'[q].at = proc[q].at) => LockInv'
  BY DEF LockInv, Holders, At, claims
<1>d. {"check", "watch", "checked", "stopped"} \subseteq Stages /\ Working \subseteq Stages
  BY DEF Stages, Working
<1>e. {"off", "check", "watch", "checked", "stopped"} \cap Working = {}
  BY DEF Working
<1>f. \A p, q \in Processes : p \in Holders /\ q # p => IsFresh(q) /\ ~MayLookFree(q) /\ lock.owner = p
  BY <1>a DEF LockInv, IsFresh, MayLookFree
<1>1. CASE Time
  <2>1. ASSUME NEW age, LockAges(age), UNCHANGED proc PROVE LockInv'
    <3>1. ASSUME NEW p \in Beating, Refreshed(p) PROVE LockInv'
      <4>1. lock' = [owner |-> p, age |-> "fresh"] /\ lock' \in Lock /\ unmoved' = {} /\ p \in Holders
        BY <3>1 DEF Refreshed, Lock, Beating, Holders
      <4> QED BY <1>a, <2>1, <4>1, NoneIsNoFile DEF LockInv, Holders, At
    <3>2. CASE Holders = {}
      BY <2>1, <3>2 DEF LockInv, Holders
    <3> QED BY <2>1, <3>1, <3>2 DEF LockAges
  <2> QED BY <1>1, <2>1 DEF Time, ThirtySeconds, FiveMinutes, TenMinutes
<1>2. ASSUME NEW p \in Processes, Starts(p) PROVE LockInv'
  <2>1. \A q \in Processes : q # p => proc'[q].at = proc[q].at
    BY <1>2, <1>b DEF Starts, StartServer, StartRestore, ProcTyped
  <2>2. proc'[p].at = "check"
    BY <1>2, <1>b DEF Starts, StartServer, StartRestore, ProcTyped, ProcessState
  <2> QED BY <1>2, <1>a, <1>e, <2>1, <2>2, OutsiderMoves DEF Starts, StartServer, StartRestore, claims
<1>3. ASSUME NEW p \in Processes, Locks(p) PROVE LockInv'
  <2>0. \A s \in Stages : Go(p, s) => Others(p) /\ proc'[p].at = s
    BY <1>b, GoMoves
  <2>1. CASE ServerChecks(p)
    <3>1. p \notin Holders
      BY <2>1, <1>e DEF ServerChecks, Holders, At
    <3>2. MayLookFree(p) => Holders = {}
      BY <3>1, <1>f DEF Holders
    <3> QED BY <1>a, <1>d, <1>e, <2>0, <2>1, <3>2, OutsiderMoves DEF ServerChecks, Others, claims
  <2>2. CASE RestoreChecks(p)
    <3>1. p \notin Holders
      BY <2>2, <1>e DEF RestoreChecks, Holders, At
    <3>2. MayLookFree(p) \/ ~IsFresh(p) => Holders = {}
      BY <3>1, <1>f DEF Holders
    <3>3. (lock # None => lock.age = "dead") => ~IsFresh(p)
      BY DEF IsFresh
    <3> QED BY <1>a, <1>d, <1>e, <2>0, <2>2, <3>2, <3>3, OutsiderMoves DEF RestoreChecks, Others, claims
  <2>3. CASE EndWatch(p)
    <3>1. Watched(p) => Holders = {}
      BY <1>a, <2>3 DEF Watched, LockInv
    <3> QED BY <1>a, <1>d, <1>e, <2>0, <2>3, <3>1, OutsiderMoves DEF EndWatch, Others
  <2>4. CASE WriteLock(p)
    <3>1. At(p, "checked") /\ Holders = {}
      BY <1>a, <2>4 DEF WriteLock, LockInv
    <3>2. proc'[p].at \in Working /\ Others(p)
      BY <1>d, <2>0, <2>4 DEF WriteLock, Working
    <3>3. lock' = [owner |-> p, age |-> "fresh"] /\ lock' \in Lock /\ unmoved' = {}
      BY <2>4 DEF WriteLock, Refreshed, Lock
    <3>4. \A q \in Processes : ~At(q, "checked")'
      BY <1>e, <2>4, <3>2 DEF WriteLock, At, Others
    <3>5. Holders' = {p}
      BY <3>1, <3>2 DEF Holders, Others
    <3> QED BY <3>3, <3>4, <3>5, NoneIsNoFile DEF LockInv
  <2> QED BY <1>3, <2>1, <2>2, <2>3, <2>4 DEF Locks
<1>4. ASSUME NEW p \in Processes, proc[p].at \in Working,
             Continue(p) \/ Exit(p) \/ (UNCHANGED claims /\ \E s \in Working : Go(p, s))
      PROVE  LockInv'
  <2>1. CASE Continue(p)
    BY <1>a, <1>b, <1>4, <2>1, ContinueMoves, OwnerMoves DEF Others, Working
  <2>2. CASE Exit(p)
    BY <1>a, <1>b, <1>4, <2>2, LeaveMoves, OwnerMoves DEF Others, Exit, Release
  <2>3. CASE UNCHANGED claims /\ \E s \in Working : Go(p, s)
    BY <1>a, <1>b, <1>d, <1>4, <2>3, GoMoves, OwnerMoves DEF Others, claims
  <2> QED BY <1>4, <2>1, <2>2, <2>3
<1>5. ASSUME NEW p \in Processes, Restores(p) PROVE LockInv'
  <2>1. proc[p].at \in Working
    BY <1>5 DEF Restores, Stage, Claim, SetAside, Validate, TakeCopy, Postpone, Abort, Swap, LoseClaim,
                At, Working
  <2>2. CASE Swap(p)
    BY <1>a, <1>b, <2>1, <2>2, SwapMoves, OwnerMoves DEF Working
  <2>3. CASE ~Swap(p)
    BY <1>4, <1>5, <2>1, <2>3 DEF Restores, Stage, Claim, SetAside, Validate, TakeCopy, Postpone, Abort,
                                  LoseClaim, Working
  <2> QED BY <2>2, <2>3
<1>6. ASSUME NEW p \in Processes, Serves(p) PROVE LockInv'
  <2>1. CASE Open(p)
    BY <1>a, <1>b, <2>1, OwnerMoves DEF Open, At, Working, ProcTyped, ProcessState, claims
  <2>2. CASE Stop(p)
    BY <1>4, <2>2 DEF Stop, Holders
  <2>3. CASE UNCHANGED <<claims, proc>>
    BY <1>c, <2>3
  <2> QED BY <1>6, <2>1, <2>2, <2>3 DEF Serves, Edit, Encrypt, Cancel, Upload
<1>7. ASSUME NEW p \in Processes, Fails(p) PROVE LockInv'
  <2>1. CASE Crash(p)
    BY <1>a, <1>b, <1>e, <2>1, LeaveMoves, OutsiderMoves DEF Crash, Others
  <2>2. CASE Stall(p) \/ Resume(p)
    <3>1. \A q \in Processes : proc'[q].at = proc[q].at
      BY <1>b, <2>2 DEF Stall, Resume, ProcTyped, ProcessState
    <3> QED BY <1>c, <2>2, <3>1 DEF Stall, Resume
  <2>3. CASE Beat(p)
    <3>1. lock' = [owner |-> p, age |-> "fresh"] /\ lock' \in Lock /\ unmoved' = {} /\ p \in Holders
      BY <2>3 DEF Beat, Refreshed, Lock, Beating
    <3> QED BY <1>a, <2>3, <3>1, NoneIsNoFile DEF LockInv, Holders, At, Beat
  <2> QED BY <1>7, <2>1, <2>2, <2>3 DEF Fails
<1>8. CASE UNCHANGED vars
  BY <1>8, <1>c DEF vars
<1> QED BY <1>1, <1>2, <1>3, <1>5, <1>6, <1>7, <1>8 DEF Next

-----------------------------------------------------------------------------
(* The files *)

Files == RestoreInv /\ NothingLost

(* Nothing that a swap relies on changes, and nobody comes to rely on it.  *)
LEMMA FilesKept ==
  ASSUME Files, ~excused, live' = live, safety' = safety, acked' = acked,
         applying # None => applying' # None /\ applying'.protected = applying.protected,
         \A q \in Processes : proc'[q].at \in {"backup", "swap", "serving"} =>
                             proc'[q].at = proc[q].at /\ proc'[q].attached = proc[q].attached
  PROVE  Files'
  BY DEF Files, RestoreInv, NothingLost, Downgrades, At

(* The owner is the only one that RestoreInv speaks of.                    *)
LEMMA OwnerFiles ==
  ASSUME LockInv, ~excused, NEW p \in Processes, proc[p].at \in Working,
         \A q \in Processes : q # p => proc'[q].at = proc[q].at,
         proc'[p].at \in {"backup", "swap"} => applying' # None /\ ~Downgrades(applying.protected)',
         proc'[p].at = "swap" /\ live' # None => live' \in safety',
         proc'[p].at = "serving" => proc'[p].attached /\ live' # None
  PROVE  RestoreInv'
<1>1. \A q \in Processes : q # p => proc'[q].at \notin {"backup", "swap", "serving"}
  BY SoleHolder DEF Working
<1> QED BY <1>1 DEF RestoreInv, At

LEMMA FilesNext ==
  ASSUME TypeOK, AttachedInv, LockInv, Files, [Next]_vars
  PROVE  Files' /\ (~excused' /\ live # None /\ live.protected => live' # None /\ live'.protected)
<1> DEFINE Protected == live # None /\ live.protected => live' # None /\ live'.protected
<1> SUFFICES ASSUME ~excused' PROVE Files' /\ Protected
  BY DEF Files, RestoreInv, NothingLost
<1>a. ~excused
  BY ExcusedStays
<1>b. /\ ProcTyped /\ \A p \in Processes : proc[p] \in ProcessState
      /\ live \in {None} \cup Database /\ applying \in {None} \cup Claimed
  BY DEF TypeOK, ProcTyped
<1>c. live' = live => Protected
  OBVIOUS
<1>d. UNCHANGED files /\ UNCHANGED history =>
        live' = live /\ safety' = safety /\ acked' = acked /\ applying' = applying
  BY DEF files, history
<1>e. Working \subseteq Stages /\ {"checked", "watch", "stopped"} \subseteq Stages
  BY DEF Stages, Working
<1>f. live' = live /\ safety' = safety /\ acked' = acked => NothingLost'
  BY <1>a DEF Files, NothingLost
<1>1. CASE Time
  <2>1. ClaimAges => (applying # None => applying' # None /\ applying'.protected = applying.protected)
    <3>1. SUFFICES ASSUME applying # None, ClaimAges
                   PROVE  applying' # None /\ applying'.protected = applying.protected
      OBVIOUS
    <3>2. applying \in Claimed /\ applying' = [applying EXCEPT !.claim = "stale"]
      BY <1>b, <3>1 DEF ClaimAges
    <3>3. applying' \in Claimed /\ applying'.protected = applying.protected
      BY <3>2 DEF Claimed
    <3> QED BY <3>3, NoneIsNoFile
  <2> QED BY <1>1, <1>a, <1>c, <1>d, <2>1, FilesKept DEF Time, ThirtySeconds, FiveMinutes, TenMinutes, history
<1>2. ASSUME NEW p \in Processes, Starts(p) PROVE Files' /\ Protected
  <2>1. /\ UNCHANGED files /\ UNCHANGED history /\ proc'[p].at = "check"
        /\ \A q \in Processes : q # p => proc'[q] = proc[q]
    BY <1>2, <1>b DEF Starts, StartServer, StartRestore, ProcTyped, ProcessState
  <2> QED BY <1>a, <1>c, <1>d, <2>1, FilesKept
<1>3. ASSUME NEW p \in Processes, Locks(p) PROVE Files' /\ Protected
  <2>1. UNCHANGED files /\ UNCHANGED history
    BY <1>3 DEF Locks, ServerChecks, RestoreChecks, EndWatch, WriteLock
  <2>2. PICK s \in {"checked", "stopped", "watch", "claim", "stage"} : Go(p, s)
    BY <1>3 DEF Locks, ServerChecks, RestoreChecks, EndWatch, WriteLock
  <2>3. proc'[p].at = s /\ Others(p)
    BY <1>b, <1>e, <2>2, GoMoves DEF Working
  <2> QED BY <1>a, <1>c, <1>d, <2>1, <2>3, FilesKept DEF Others
<1>4. ASSUME NEW p \in Processes, Restores(p) PROVE Files' /\ Protected
  <2>0. proc[p].at \in Working
    BY <1>4 DEF Restores, Stage, Claim, SetAside, Validate, TakeCopy, Postpone, Abort, Swap, LoseClaim,
                At, Working
  <2>1. ASSUME Continue(p) \/ Exit(p) \/ Go(p, "claim") \/ Go(p, "validate") PROVE RestoreInv'
    <3>1. proc'[p].at \in {"open", "stopped", "claim", "validate"} /\ Others(p)
      BY <1>b, <1>e, <2>1, ContinueMoves, LeaveMoves, GoMoves DEF Exit, Working
    <3> QED BY <1>a, <2>0, <3>1, OwnerFiles DEF Others
  <2>2. CASE Stage(p) \/ Claim(p) \/ SetAside(p) \/ Postpone(p) \/ Abort(p) \/ LoseClaim(p)
    <3>1. live' = live /\ safety' = safety /\ acked' = acked
      BY <2>2 DEF Stage, StageFile, Claim, SetAside, Postpone, Abort, LoseClaim, files, history
    <3>2. Continue(p) \/ Exit(p) \/ Go(p, "claim") \/ Go(p, "validate")
      BY <2>2 DEF Stage, Claim, SetAside, Postpone, Abort, LoseClaim
    <3> QED BY <1>c, <1>f, <2>1, <3>1, <3>2 DEF Files
  <2>3. CASE Validate(p)
    <3>1. proc'[p].at = "backup" /\ Others(p)
      BY <1>b, <1>e, <2>3, GoMoves DEF Validate, Working
    <3>2. live' = live /\ safety' = safety /\ acked' = acked /\ applying' = applying
      BY <1>d, <2>3 DEF Validate
    <3> QED BY <1>a, <1>c, <1>f, <2>0, <2>3, <3>1, <3>2, OwnerFiles DEF Validate, Downgrades, Others, Files
  <2>4. CASE TakeCopy(p)
    <3>1. proc'[p].at = "swap" /\ Others(p)
      BY <1>b, <1>e, <2>4, GoMoves DEF TakeCopy, Working
    <3>2. live' = live /\ acked' = acked /\ applying' = applying /\ safety' = SafetyCopies
      BY <2>4 DEF TakeCopy, history
    <3>3. applying # None /\ ~Downgrades(applying.protected)
      BY <1>a, <2>4 DEF TakeCopy, Files, RestoreInv, At
    <3>4. RestoreInv'
      BY <1>a, <2>0, <3>1, <3>2, <3>3, OwnerFiles DEF Downgrades, SafetyCopies, Others
    <3>5. NothingLost'
      BY <1>a, <3>2 DEF Files, NothingLost, SafetyCopies
    <3> QED BY <1>c, <3>2, <3>4, <3>5 DEF Files
  <2>5. CASE Swap(p)
    <3>1. /\ applying # None /\ ~Downgrades(applying.protected)
          /\ live # None => live \in safety
      BY <1>a, <2>5 DEF Swap, Files, RestoreInv, At
    <3>2. live' # None /\ live'.protected = applying.protected
      BY <1>b, <2>5, SwapLive
    <3>3. RestoreInv'
      BY <1>a, <1>b, <2>0, <2>5, SwapMoves, OwnerFiles
    <3>4. NothingLost'
      BY <1>a, <2>5, <3>1 DEF Swap, Files, NothingLost, history
    <3> QED BY <3>1, <3>2, <3>3, <3>4 DEF Downgrades, Files
  <2> QED BY <1>4, <2>2, <2>3, <2>4, <2>5 DEF Restores
<1>5. ASSUME NEW p \in Processes, Serves(p) PROVE Files' /\ Protected
  <2>0. proc[p].at \in Working
    BY <1>5 DEF Serves, Open, Edit, Encrypt, Cancel, Stop, Upload, At, Working, Holders
  <2>1. CASE Open(p)
    <3>1. /\ proc'[p].at = "serving" /\ proc'[p].attached
          /\ \A q \in Processes : q # p => proc'[q].at = proc[q].at
      BY <1>b, <2>1 DEF Open, ProcTyped, ProcessState
    <3>2. live' # None /\ (live # None => live' = live)
      <4>1. [protected |-> FALSE, edits |-> {}] \in Database
        BY DEF Database
      <4> QED BY <2>1, <4>1, NoneIsNoFile DEF Open
    <3>3. RestoreInv'
      BY <1>a, <2>0, <3>1, <3>2, OwnerFiles
    <3>4. NothingLost'
      BY <1>a, <2>1, <3>2 DEF Open, Files, NothingLost
    <3> QED BY <3>2, <3>3, <3>4 DEF Files
  <2>2. CASE Edit(p) \/ Encrypt(p)
    <3>1. At(p, "serving") /\ proc[p].attached /\ live \in Database /\ live # None
      BY <1>a, <1>b, <2>2 DEF Edit, Encrypt, Files, RestoreInv
    <3>a. ASSUME Edit(p) PROVE live' = [live EXCEPT !.edits = @ \cup {p}]
      BY <3>a, <3>1 DEF Edit
    <3>b. ASSUME ~Edit(p) PROVE live' = [live EXCEPT !.protected = TRUE]
      BY <3>b, <2>2 DEF Encrypt
    <3>2. live' \in Database /\ (live.protected => live'.protected) /\ live.edits \subseteq live'.edits
          /\ (Edit(p) => p \in live'.edits)
      BY <3>1, <3>a, <3>b DEF Database
    <3>0. live' # None
      BY <3>2, NoneIsNoFile
    <3>3. safety' = safety /\ (IF Edit(p) THEN p \in live'.edits /\ acked' = acked \cup {p} ELSE acked' = acked)
      BY <2>2, <3>2 DEF Edit, Encrypt, history
    <3>4. RestoreInv'
      <4>1. proc' = proc
        BY <2>2 DEF Edit, Encrypt
      <4> QED BY <1>a, <2>0, <3>0, <3>1, <4>1, OwnerFiles DEF At
    <3>5. NothingLost'
      BY <1>a, <3>0, <3>1, <3>2, <3>3 DEF Files, NothingLost
    <3> QED BY <3>0, <3>2, <3>4, <3>5 DEF Files
  <2>3. CASE Cancel(p) \/ \E protected \in BOOLEAN : Upload(p, protected)
    BY <1>a, <1>c, <2>3, FilesKept DEF Cancel, Upload, StageFile, history
  <2>4. CASE Stop(p)
    <3>1. proc'[p].at = "stopped" /\ Others(p)
      BY <1>b, <2>4, LeaveMoves DEF Stop, Exit
    <3> QED BY <1>a, <1>c, <1>d, <2>4, <3>1, FilesKept DEF Stop, Others
  <2> QED BY <1>5, <2>1, <2>2, <2>3, <2>4 DEF Serves
<1>6. ASSUME NEW p \in Processes, Fails(p) PROVE Files' /\ Protected
  <2>1. UNCHANGED files /\ UNCHANGED history
    BY <1>6 DEF Fails, Crash, Stall, Resume, Beat
  <2>2. CASE Crash(p)
    <3>1. proc'[p].at = "stopped" /\ Others(p)
      BY <1>b, <2>2, LeaveMoves DEF Crash
    <3> QED BY <1>a, <1>c, <1>d, <2>1, <3>1, FilesKept DEF Others
  <2>3. CASE Stall(p) \/ Resume(p) \/ Beat(p)
    <3>1. \A q \in Processes : proc'[q].at = proc[q].at /\ proc'[q].attached = proc[q].attached
      BY <1>b, <2>3 DEF Stall, Resume, Beat, ProcTyped, ProcessState
    <3> QED BY <1>a, <1>c, <1>d, <2>1, <3>1, FilesKept
  <2> QED BY <1>6, <2>2, <2>3 DEF Fails
<1>7. CASE UNCHANGED vars
  BY <1>7, <1>a, <1>c, <1>d, FilesKept DEF vars
<1> QED BY <1>1, <1>2, <1>3, <1>4, <1>5, <1>6, <1>7 DEF Next

-----------------------------------------------------------------------------
(* The theorems *)

LEMMA InitInvariant == Init => IInv
<1> SUFFICES ASSUME Init PROVE IInv
  OBVIOUS
<1>1. Process("off") \in ProcessState /\ ~Process("off").attached /\ Process("off").at = "off"
  BY DEF Process, ProcessState, Stages
<1>2. TypeOK
  BY <1>1 DEF Init, TypeOK, Database, Staged
<1>3. \A p \in Processes : proc[p].at = "off" /\ ~proc[p].attached
  BY <1>1 DEF Init
<1> QED BY <1>2, <1>3 DEF Init, IInv, AttachedInv, LockInv, RestoreInv, NothingLost, Holders, Working, At

LEMMA NextInvariant == IInv /\ [Next]_vars => IInv'
  BY TypeNext, AttachedNext, LockNext, FilesNext DEF IInv, Files

THEOREM Invariant == Spec => []IInv
  BY InitInvariant, NextInvariant, PTL DEF Spec

(* Files, lock and processes keep their types (server-lock.ts,             *)
(* restore.ts).                                                            *)
THEOREM TypeCorrect == Spec => []TypeOK
<1>1. IInv => TypeOK
  BY DEF IInv
<1> QED BY <1>1, Invariant, PTL

(* An undisputed directory has one owner, for any number of processes that *)
(* start, crash, stall and look at the lock (start.ts:18).                 *)
THEOREM ExclusiveCorrect == Spec => []Exclusive
<1>1. IInv => Exclusive
  BY OneHolder DEF IInv
<1> QED BY <1>1, Invariant, PTL

(* No acknowledged write is lost by a restore, wherever processes stop     *)
(* (restore.ts:282).                                                       *)
THEOREM NothingLostCorrect == Spec => []NothingLost
<1>1. IInv => NothingLost
  BY DEF IInv
<1> QED BY <1>1, Invariant, PTL

(* Protected data is never replaced by an unprotected copy                 *)
(* (restore.ts:158).                                                       *)
THEOREM NoDowngradeCorrect == Spec => NoDowngrade
<1>1. IInv /\ [Next]_vars =>
        [~excused' /\ live # None /\ live.protected => live' # None /\ live'.protected]_vars
  BY FilesNext DEF IInv, Files
<1> QED BY <1>1, Invariant, PTL DEF Spec, NoDowngrade

=============================================================================
