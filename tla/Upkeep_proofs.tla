--------------------------- MODULE Upkeep_proofs ---------------------------
(***************************************************************************)
(* Proofs about Backups, for every number of copies to keep, of versions,  *)
(* of imports and of entries, and every length of the scheduler's day; and *)
(* about MarketData, for every calendar, every number of requests and      *)
(* every length of the walk back.                                          *)
(***************************************************************************)
EXTENDS Backups, MarketData, FiniteSetTheorems, SequenceTheorems, WellFoundedInduction, TLAPS

-----------------------------------------------------------------------------
(* Backups: the inductive invariant. *)

CallSet ==
  [at : {"new", "parse", "ended"}, offline : BOOLEAN,
   mode : {"into-empty", "replace", Nothing}, archive : (SUBSET (1..MaxEntries)) \cup {Nothing}]

(* What was exported is of entries that were made.                         *)
ArchivesOK ==
  /\ archive # Nothing => archive \subseteq DOMAIN since
  /\ \A i \in Imports :
       calls[i].at = "parse" =>
         calls[i].archive \in SUBSET (1..MaxEntries) /\ calls[i].archive \subseteq DOMAIN since

(* Copies are numbered as they are made.                                   *)
FilesOK ==
  /\ IsFiniteSet(files)
  /\ \A f \in files : f.number <= taken
  /\ \A f, g \in files : f.number = g.number => f = g

(* While the clock only goes forward, a later copy is not dated earlier,   *)
(* and what a copy lacks came in since.                                    *)
DatesOK ==
  ~wentBack =>
    /\ \A e \in DOMAIN since : since[e] <= now
    /\ \A f \in files : f.stamp <= now
    /\ \A f, g \in files : f.number < g.number => f.stamp <= g.stamp
    /\ \A f \in files : \A e \in entries \ f.entries : since[e] >= f.stamp

BackupsInv == BackupsTypeOK /\ ArchivesOK /\ FilesOK /\ ReplacedKept /\ DatesOK

-----------------------------------------------------------------------------
(* The copies. *)

LEMMA SurplusPooled ==
  ASSUME NEW copies, NEW just
  PROVE  /\ Prune(copies, just) \subseteq copies
         /\ \A f \in copies : f.reason \notin Prunable => f \in Prune(copies, just)
BY DEF Prune, Surplus, Pool

(* What a copy just made leaves of the others.                             *)
LEMMA CreatesOK ==
  ASSUME BackupsConstantsOK, BackupsInv, NEW reason \in Reasons, CreateBackup(reason)
  PROVE  \E f \in Copies :
           /\ f = [reason |-> reason, stamp |-> now, number |-> taken + 1, entries |-> entries]
           /\ f \notin files /\ files' \subseteq files \cup {f}
           /\ reason \notin Prunable => files' = files \cup {f}
           /\ reason \in Prunable => files' = Prune(files \cup {f}, f)
           /\ \A g \in files : g.reason \notin Prunable => g \in files'
           /\ taken' = taken + 1 /\ taken' \in 0..MaxTaken
<1> DEFINE f == [reason |-> reason, stamp |-> now, number |-> taken + 1, entries |-> entries]
<1>1. BackupsTypeOK /\ FilesOK
  BY DEF BackupsInv
<1>2. /\ taken \in Nat /\ MaxTaken \in Nat /\ taken < MaxTaken /\ taken' = taken + 1
      /\ files' = IF reason \in Prunable THEN Prune(files \cup {f}, f) ELSE files \cup {f}
  BY <1>1 DEF CreateBackup, BackupsTypeOK, BackupsConstantsOK
<1>3. taken + 1 \in 1..MaxTaken /\ taken' \in 0..MaxTaken
  BY <1>2
<1>4. entries \subseteq 1..MaxEntries
  BY <1>1 DEF BackupsTypeOK, BackupsConstantsOK
<1>5. f \in Copies
  BY <1>1, <1>3, <1>4 DEF Copies, BackupsTypeOK
<1>6. f \notin files
  BY <1>1, <1>2 DEF FilesOK
<1>7. f.reason = reason
  OBVIOUS
<1> HIDE DEF f
<1>8. /\ files' \subseteq files \cup {f}
      /\ \A g \in files : g.reason \notin Prunable => g \in files'
  BY <1>2, SurplusPooled
<1> QED BY <1>2, <1>3, <1>5, <1>6, <1>8 DEF f

(* A step that makes a copy, or none.                                      *)
LEMMA FolderOK ==
  ASSUME BackupsConstantsOK, BackupsInv, NEW reason \in Reasons,
         CreateBackup(reason) \/ UNCHANGED folder
  PROVE  /\ files' \subseteq Copies /\ taken' \in 0..MaxTaken /\ FilesOK'
         /\ \A g \in files : g.reason \notin Prunable => g \in files'
         /\ CreateBackup(reason) /\ reason \notin Prunable =>
              \E f \in files' : f.reason = reason /\ f.entries = entries /\ f.stamp = now
         /\ \A g \in files' \ files : g.stamp = now /\ g.entries = entries /\ g.number = taken + 1
<1>1. BackupsTypeOK /\ FilesOK /\ taken \in Nat
  BY DEF BackupsInv, BackupsTypeOK
<1>2. CASE UNCHANGED folder /\ ~CreateBackup(reason)
  BY <1>1, <1>2 DEF folder, FilesOK, BackupsTypeOK
<1>3. CASE CreateBackup(reason)
  <2>1. PICK f \in Copies :
           /\ f = [reason |-> reason, stamp |-> now, number |-> taken + 1, entries |-> entries]
           /\ f \notin files /\ files' \subseteq files \cup {f}
           /\ reason \notin Prunable => files' = files \cup {f}
           /\ reason \in Prunable => files' = Prune(files \cup {f}, f)
           /\ \A g \in files : g.reason \notin Prunable => g \in files'
           /\ taken' = taken + 1 /\ taken' \in 0..MaxTaken
    BY <1>3, CreatesOK
  <2>2. f.reason = reason /\ f.stamp = now /\ f.number = taken + 1 /\ f.entries = entries
    BY <2>1
  <2>3. IsFiniteSet(files')
    <3>1. IsFiniteSet(files \cup {f})
      BY <1>1, FS_AddElement DEF FilesOK
    <3> QED BY <2>1, <3>1, FS_Subset
  <2>4. \A g \in files : g.number \in Nat /\ g.number <= taken
    BY <1>1 DEF FilesOK, BackupsTypeOK, Copies
  <2>5. FilesOK'
    BY <1>1, <2>1, <2>2, <2>3, <2>4 DEF FilesOK
  <2> QED BY <1>1, <2>1, <2>2, <2>5 DEF BackupsTypeOK
<1> QED BY <1>2, <1>3
(* The dates of the copies, where the entries stay as they are or come in  *)
(* now.                                                                    *)
LEMMA CopiesDated ==
  ASSUME BackupsConstantsOK, BackupsInv, NEW reason \in Reasons, CreateBackup(reason) \/ UNCHANGED folder,
         UNCHANGED clock, DOMAIN since' = DOMAIN since,
         \/ entries' = entries /\ since' = since
         \/ /\ \A e \in entries' : e \in DOMAIN since /\ since'[e] = now
            /\ \A e \in DOMAIN since : since'[e] \in {since[e], now}
  PROVE  DatesOK'
<1>1. BackupsTypeOK /\ DatesOK /\ FilesOK /\ UNCHANGED <<now, wentBack>> /\ now \in Nat /\ taken \in Nat
  BY DEF BackupsInv, BackupsTypeOK, clock
<1>2. files' \subseteq Copies
      /\ \A g \in files' \ files : g.stamp = now /\ g.entries = entries /\ g.number = taken + 1
  BY FolderOK
<1> SUFFICES ASSUME ~wentBack
    PROVE  /\ \A e \in DOMAIN since' : since'[e] <= now
           /\ \A f \in files' : f.stamp <= now
           /\ \A f, g \in files' : f.number < g.number => f.stamp <= g.stamp
           /\ \A f \in files' : \A e \in entries' \ f.entries : since'[e] >= f.stamp
  BY <1>1 DEF DatesOK
<1>3. \A f \in files' : f.stamp <= now /\ f.stamp \in Nat /\ f.number \in Nat
  BY <1>1, <1>2 DEF DatesOK, Copies
<1>4. \A f, g \in files' : f.number < g.number => f.stamp <= g.stamp
  <2> SUFFICES ASSUME NEW f \in files', NEW g \in files', f.number < g.number
               PROVE  f.stamp <= g.stamp
    OBVIOUS
  <2>1. CASE f \in files /\ g \in files
    BY <1>1, <2>1 DEF DatesOK
  <2>2. CASE g \notin files
    BY <1>2, <1>3, <2>2
  <2>3. CASE f \notin files /\ g \in files
    <3>1. f.number = taken + 1 /\ g.number <= taken
      BY <1>1, <1>2, <2>3 DEF FilesOK
    <3> QED BY <1>1, <1>3, <3>1
  <2> QED BY <2>1, <2>2, <2>3
<1>5. \A e \in DOMAIN since' : since'[e] <= now
  BY <1>1 DEF DatesOK
<1>6. \A f \in files' : \A e \in entries' \ f.entries : since'[e] >= f.stamp
  <2>1. CASE entries' = entries /\ since' = since
    BY <1>1, <1>2, <2>1 DEF DatesOK
  <2>2. CASE \A e \in entries' : e \in DOMAIN since /\ since'[e] = now
    BY <1>1, <1>3, <2>2
  <2> QED BY <2>1, <2>2
<1> QED BY <1>3, <1>4, <1>5, <1>6

(* A step that makes at most a copy.                                       *)
LEMMA OnlyCopiesOK ==
  ASSUME BackupsConstantsOK, BackupsInv, NEW reason \in Reasons, CreateBackup(reason) \/ UNCHANGED folder,
         UNCHANGED <<clock, entries, since, user, calls, archive>>,
         server' \in BOOLEAN, version' \in 0..Versions
  PROVE  BackupsInv'
<1>1. BackupsTypeOK /\ ArchivesOK /\ ReplacedKept /\ UNCHANGED <<now, wentBack>>
  BY DEF BackupsInv, clock
<1>2. /\ files' \subseteq Copies /\ taken' \in 0..MaxTaken /\ FilesOK'
      /\ \A g \in files : g.reason \notin Prunable => g \in files'
  BY FolderOK
<1>3. BackupsTypeOK' /\ ArchivesOK'
  BY <1>1, <1>2 DEF BackupsTypeOK, ArchivesOK
<1>4. ReplacedKept'
  BY <1>1, <1>2 DEF ReplacedKept, Pool, Prunable
<1>5. DatesOK'
  BY CopiesDated
<1> QED BY <1>2, <1>3, <1>4, <1>5 DEF BackupsInv

LEMMA CopiesOK ==
  ASSUME BackupsConstantsOK, BackupsInv, BackUpNow \/ RunIfDue \/ \E v \in 1..Versions : Start(v)
  PROVE  BackupsInv'
<1>1. BackupsTypeOK /\ {"manual", "scheduled", "pre-migration"} \subseteq Reasons
  BY DEF BackupsInv, Reasons, Prunable
<1>2. CASE BackUpNow
  BY <1>1, <1>2, OnlyCopiesOK DEF BackUpNow, data, BackupsTypeOK
<1>3. CASE RunIfDue
  BY <1>1, <1>3, OnlyCopiesOK DEF RunIfDue, data, BackupsTypeOK
<1>4. ASSUME NEW v \in 1..Versions, Start(v)
      PROVE  BackupsInv'
  <2>1. CreateBackup("pre-migration") \/ UNCHANGED folder
    BY <1>4 DEF Start
  <2>2. PICK reached \in version..(IF v > version THEN v ELSE version) :
          version' = reached /\ server' = (reached >= v)
    BY <1>4 DEF Start
  <2>3. version' \in 0..Versions /\ server' \in BOOLEAN
    BY <1>1, <2>2 DEF BackupsTypeOK, BackupsConstantsOK
  <2>4. UNCHANGED <<clock, entries, since, user, calls, archive>>
    BY <1>4 DEF Start
  <2> QED BY <1>1, <2>1, <2>3, <2>4, OnlyCopiesOK
<1> QED BY <1>2, <1>3, <1>4

-----------------------------------------------------------------------------
(* The other steps. *)

LEMMA NoDataOK ==
  ASSUME BackupsInv, UNCHANGED <<entries, since, folder, version>>, BackupsTypeOK', ArchivesOK',
         wentBack' \/ (~wentBack /\ now <= now')
  PROVE  BackupsInv'
<1>1. UNCHANGED <<files, taken>>
  BY DEF folder
<1>2. FilesOK' /\ ReplacedKept'
  BY <1>1 DEF BackupsInv, FilesOK, ReplacedKept, Pool
<1>3. DatesOK'
  <2>1. CASE wentBack'
    BY <2>1 DEF DatesOK
  <2>2. CASE ~wentBack /\ now <= now'
    <3>1. DatesOK /\ BackupsTypeOK /\ now \in Nat /\ now' \in Nat
      BY DEF BackupsInv, BackupsTypeOK
    <3>2. /\ \A e \in DOMAIN since : since[e] \in Nat
          /\ \A f \in files : f.stamp \in Nat
      <4>1. since \in Seq(0..MaxTime) /\ files \subseteq Copies
        BY <3>1 DEF BackupsTypeOK
      <4>2. \A f \in files : f.stamp \in 0..MaxTime
        BY <4>1 DEF Copies
      <4>3. \A e \in DOMAIN since : since[e] \in 0..MaxTime
        BY <4>1, ElementOfSeq, LenProperties
      <4> QED BY <4>2, <4>3
    <3> QED BY <1>1, <2>2, <3>1, <3>2 DEF DatesOK
  <2> QED BY <2>1, <2>2
<1> QED BY <1>2, <1>3 DEF BackupsInv

LEMMA EndTyped ==
  /\ [Fresh EXCEPT !.at = "ended"] \in CallSet /\ [Fresh EXCEPT !.at = "ended"].at = "ended"
  /\ Fresh \in CallSet /\ Fresh.at = "new"
<1>1. Fresh \in CallSet /\ Fresh.at = "new"
  <2>1. Nothing \in {"into-empty", "replace", Nothing} /\ Nothing \in (SUBSET (1..MaxEntries)) \cup {Nothing}
    OBVIOUS
  <2> QED BY <2>1, Zenon DEF Fresh, CallSet
<1>2. [Fresh EXCEPT !.at = "ended"] \in CallSet
  BY <1>1 DEF CallSet
<1>3. [Fresh EXCEPT !.at = "ended"].at = "ended"
  BY DEF Fresh
<1> QED BY <1>1, <1>2, <1>3

LEMMA QuietStepsOK ==
  ASSUME BackupsConstantsOK, BackupsInv, Later \/ SetBack \/ Stop \/ SetUp \/ Export
  PROVE  BackupsInv'
<1>1. BackupsTypeOK /\ ArchivesOK /\ calls \in [Imports -> CallSet] /\ now \in Nat
  BY DEF BackupsInv, BackupsTypeOK, CallSet
<1>2. CASE Later
  <2>1. now' \in 0..MaxTime /\ now <= now' /\ UNCHANGED <<wentBack, data, folder, server, calls, archive>>
    BY <1>1, <1>2 DEF Later, BackupsTypeOK, BackupsConstantsOK
  <2>2. BackupsTypeOK' /\ ArchivesOK'
    BY <1>1, <2>1 DEF BackupsTypeOK, ArchivesOK, data, folder
  <2> QED BY <2>1, <2>2, NoDataOK DEF data
<1>3. CASE SetBack
  <2>1. now' \in 0..MaxTime /\ wentBack' = TRUE /\ UNCHANGED <<data, folder, server, calls, archive>>
    BY <1>1, <1>3 DEF SetBack, BackupsTypeOK, BackupsConstantsOK
  <2>2. BackupsTypeOK' /\ ArchivesOK'
    BY <1>1, <2>1 DEF BackupsTypeOK, ArchivesOK, data, folder
  <2> QED BY <2>1, <2>2, NoDataOK DEF data
<1>4. CASE Stop
  <2>1. /\ server' = FALSE /\ UNCHANGED <<clock, data, folder, archive>>
        /\ calls' = [i \in Imports |-> IF calls[i].at = "parse" /\ ~calls[i].offline
                                       THEN [Fresh EXCEPT !.at = "ended"] ELSE calls[i]]
    BY <1>4 DEF Stop
  <2>2. calls' \in [Imports -> CallSet]
    BY <1>1, <2>1, EndTyped
  <2>3. \A i \in Imports : calls'[i].at = "parse" => calls'[i] = calls[i]
    BY <2>1, EndTyped
  <2>4. BackupsTypeOK' /\ ArchivesOK'
    BY <1>1, <2>1, <2>2, <2>3 DEF BackupsTypeOK, ArchivesOK, CallSet, data, folder, clock
  <2> QED BY <1>1, <2>1, <2>4, NoDataOK DEF data, clock
<1>5. CASE SetUp
  <2>1. user' = TRUE /\ UNCHANGED <<clock, entries, since, version, folder, server, calls, archive>>
    BY <1>5 DEF SetUp
  <2>2. BackupsTypeOK' /\ ArchivesOK'
    BY <1>1, <2>1 DEF BackupsTypeOK, ArchivesOK, folder, clock
  <2> QED BY <1>1, <2>1, <2>2, NoDataOK DEF clock
<1>6. CASE Export
  <2>1. archive' = entries /\ UNCHANGED <<clock, data, folder, server, calls>>
    BY <1>6 DEF Export
  <2>2. entries \in SUBSET (1..MaxEntries) /\ entries \subseteq DOMAIN since
    BY <1>1 DEF BackupsTypeOK, BackupsConstantsOK
  <2>3. BackupsTypeOK' /\ ArchivesOK'
    BY <1>1, <2>1, <2>2 DEF BackupsTypeOK, ArchivesOK, data, folder, clock
  <2> QED BY <1>1, <2>1, <2>3, NoDataOK DEF data, clock
<1> QED BY <1>2, <1>3, <1>4, <1>5, <1>6
LEMMA SinceTyped ==
  ASSUME BackupsTypeOK
  PROVE  /\ Len(since) \in Nat /\ DOMAIN since = 1..Len(since)
         /\ \A e \in DOMAIN since : since[e] \in 0..MaxTime
BY ElementOfSeq, LenProperties DEF BackupsTypeOK

LEMMA RecordOK ==
  ASSUME BackupsConstantsOK, BackupsInv, Record
  PROVE  BackupsInv'
<1>1. BackupsTypeOK /\ ArchivesOK /\ FilesOK /\ ReplacedKept /\ DatesOK
  BY DEF BackupsInv
<1>2. /\ since' = Append(since, now) /\ entries' = entries \cup {Len(since) + 1}
      /\ Len(since) < MaxEntries
      /\ UNCHANGED <<now, wentBack, user, version, files, taken, server, calls, archive>>
  BY DEF Record, clock, folder
<1>3. Len(since) \in Nat /\ DOMAIN since = 1..Len(since) /\ now \in 0..MaxTime
  BY <1>1, SinceTyped DEF BackupsTypeOK
<1>4. /\ since' \in Seq(0..MaxTime) /\ Len(since') = Len(since) + 1
      /\ DOMAIN since' = 1..(Len(since) + 1) /\ since'[Len(since) + 1] = now
      /\ \A e \in 1..Len(since) : since'[e] = since[e]
  BY <1>1, <1>2, <1>3 DEF BackupsTypeOK
<1>5. /\ DOMAIN since \subseteq DOMAIN since' /\ Len(since) + 1 \in DOMAIN since'
      /\ \A e \in DOMAIN since' : e \in DOMAIN since \/ e = Len(since) + 1
  BY <1>3, <1>4
<1>6. BackupsTypeOK'
  <2>1. Len(since') <= MaxEntries
    BY <1>2, <1>3, <1>4 DEF BackupsConstantsOK
  <2>2. entries' \subseteq DOMAIN since'
    BY <1>1, <1>2, <1>5 DEF BackupsTypeOK
  <2> QED BY <1>1, <1>2, <1>4, <2>1, <2>2 DEF BackupsTypeOK
<1>7. ArchivesOK'
  BY <1>1, <1>2, <1>5 DEF ArchivesOK
<1>8. FilesOK'
  BY <1>1, <1>2 DEF FilesOK
<1>9. ReplacedKept'
  BY <1>1, <1>2, <1>5 DEF ReplacedKept, Pool
<1>10. DatesOK'
  <2> SUFFICES ASSUME ~wentBack
      PROVE  /\ \A e \in DOMAIN since' : since'[e] <= now
             /\ \A f \in files : f.stamp <= now
             /\ \A f, g \in files : f.number < g.number => f.stamp <= g.stamp
             /\ \A f \in files : \A e \in entries' \ f.entries : since'[e] >= f.stamp
    BY <1>2 DEF DatesOK
  <2>1. \A e \in DOMAIN since' : since'[e] <= now
    BY <1>1, <1>3, <1>4, <1>5 DEF DatesOK
  <2>2. \A f \in files : f.stamp <= now /\ f.stamp \in Nat
    BY <1>1 DEF DatesOK, BackupsTypeOK, Copies
  <2>3. ASSUME NEW f \in files, NEW e \in entries' \ f.entries
        PROVE  since'[e] >= f.stamp
    <3>1. CASE e = Len(since) + 1
      BY <1>3, <1>4, <2>2, <3>1
    <3>2. CASE e \in entries
      <4>1. e \in 1..Len(since) /\ since[e] >= f.stamp
        BY <1>1, <1>3, <2>3, <3>2 DEF DatesOK, BackupsTypeOK
      <4> QED BY <1>4, <4>1
    <3> QED BY <1>2, <2>3, <3>1, <3>2
  <2> QED BY <1>1, <2>1, <2>2, <2>3 DEF DatesOK
<1> QED BY <1>6, <1>7, <1>8, <1>9, <1>10 DEF BackupsInv

LEMMA StartImportOK ==
  ASSUME BackupsConstantsOK, BackupsInv, NEW i \in Imports, NEW alone \in BOOLEAN,
         NEW mode \in {"into-empty", "replace"}, StartImport(i, alone, mode)
  PROVE  BackupsInv'
<1> DEFINE call == [at |-> "parse", offline |-> alone, mode |-> mode, archive |-> archive]
<1>1. BackupsTypeOK /\ ArchivesOK
  BY DEF BackupsInv
<1>2. /\ archive # Nothing /\ calls' = [calls EXCEPT ![i] = call]
      /\ UNCHANGED <<now, wentBack, data, folder, server, archive>>
  BY DEF StartImport, clock
<1>3. archive \in SUBSET (1..MaxEntries) /\ archive \subseteq DOMAIN since
  BY <1>1, <1>2 DEF BackupsTypeOK, ArchivesOK
<1>4. call \in CallSet /\ call.at = "parse" /\ call.archive = archive
  BY <1>3 DEF CallSet
<1> HIDE DEF call
<1>5. calls' \in [Imports -> CallSet] /\ calls'[i] = call /\ \A j \in Imports \ {i} : calls'[j] = calls[j]
  BY <1>1, <1>2, <1>4 DEF BackupsTypeOK, CallSet
<1>6. BackupsTypeOK' /\ ArchivesOK'
  <2>1. BackupsTypeOK'
    BY <1>1, <1>2, <1>5 DEF BackupsTypeOK, CallSet, data, folder
  <2>2. ArchivesOK'
    BY <1>1, <1>2, <1>3, <1>4, <1>5 DEF ArchivesOK, data
  <2> QED BY <2>1, <2>2
<1>7. now \in Nat
  BY <1>1 DEF BackupsTypeOK
<1> QED BY <1>2, <1>6, <1>7, NoDataOK DEF data

(* A call that ends.                                                       *)
LEMMA EndKeeps ==
  ASSUME BackupsInv, NEW i \in Imports, End(i)
  PROVE  /\ calls' \in [Imports -> CallSet]
         /\ \A j \in Imports : calls'[j].at = "parse" => calls'[j] = calls[j]
<1>1. calls \in [Imports -> CallSet] /\ calls' = [calls EXCEPT ![i] = [Fresh EXCEPT !.at = "ended"]]
  BY DEF BackupsInv, BackupsTypeOK, CallSet, End
<1> QED BY <1>1, EndTyped

LEMMA ImportEndsOK ==
  ASSUME BackupsConstantsOK, BackupsInv, NEW i \in Imports, ImportEnds(i)
  PROVE  BackupsInv'
<1>1. BackupsTypeOK /\ ArchivesOK /\ now \in Nat
  BY DEF BackupsInv, BackupsTypeOK
<1>2. End(i) /\ UNCHANGED <<now, wentBack, data, folder, server, archive>>
  BY DEF ImportEnds, clock
<1>3. /\ calls' \in [Imports -> CallSet]
      /\ \A j \in Imports : calls'[j].at = "parse" => calls'[j] = calls[j]
  BY <1>2, EndKeeps
<1>4. BackupsTypeOK'
  BY <1>1, <1>2, <1>3 DEF BackupsTypeOK, CallSet, data, folder
<1>5. ArchivesOK'
  BY <1>1, <1>2, <1>3 DEF ArchivesOK, data
<1> QED BY <1>1, <1>2, <1>4, <1>5, NoDataOK DEF data

LEMMA ImportOK ==
  ASSUME BackupsConstantsOK, BackupsInv, NEW i \in Imports, Import(i)
  PROVE  BackupsInv'
<1>1. BackupsTypeOK /\ ArchivesOK /\ FilesOK /\ ReplacedKept /\ DatesOK
  BY DEF BackupsInv
<1>2. /\ calls[i].at = "parse" /\ MayImport(i) /\ PreImportCopy(i) /\ End(i)
      /\ UNCHANGED <<now, wentBack, user, version, server, archive>>
  BY DEF Import, clock
<1>3. calls[i].archive \in SUBSET (1..MaxEntries) /\ calls[i].archive \subseteq DOMAIN since
  BY <1>1, <1>2 DEF ArchivesOK
<1>4. "pre-import" \in Reasons /\ "pre-import" \notin Prunable
  BY DEF Reasons, Prunable
<1>5. CreateBackup("pre-import") \/ UNCHANGED folder
  BY <1>2 DEF PreImportCopy
<1>6. /\ files' \subseteq Copies /\ taken' \in 0..MaxTaken /\ FilesOK'
      /\ \A g \in files : g.reason \notin Prunable => g \in files'
      /\ CreateBackup("pre-import") =>
           \E f \in files' : f.reason = "pre-import" /\ f.entries = entries
  BY <1>4, <1>5, FolderOK
<1>7. /\ calls' \in [Imports -> CallSet]
      /\ \A j \in Imports : calls'[j].at = "parse" => calls'[j] = calls[j]
  BY <1>2, EndKeeps
<1>8. CASE UNCHANGED <<entries, since>>
  <2>1. BackupsTypeOK'
    BY <1>1, <1>2, <1>6, <1>7, <1>8 DEF BackupsTypeOK, CallSet
  <2>2. ArchivesOK'
    BY <1>1, <1>2, <1>7, <1>8 DEF ArchivesOK
  <2>3. ReplacedKept'
    BY <1>1, <1>4, <1>6, <1>8 DEF ReplacedKept, Pool
  <2>4. DatesOK'
    BY <1>2, <1>4, <1>5, <1>8, CopiesDated DEF clock
  <2> QED BY <1>6, <2>1, <2>2, <2>3, <2>4 DEF BackupsInv
<1>9. CASE /\ entries' = calls[i].archive
           /\ since' = [e \in DOMAIN since |-> IF e \in entries' THEN now ELSE since[e]]
  <2>1. Len(since) \in Nat /\ DOMAIN since = 1..Len(since) /\ now \in 0..MaxTime
        /\ \A e \in DOMAIN since : since[e] \in 0..MaxTime
    BY <1>1, SinceTyped DEF BackupsTypeOK
  <2>2. /\ DOMAIN since' = DOMAIN since /\ since' \in [1..Len(since) -> 0..MaxTime]
        /\ \A e \in entries' : e \in DOMAIN since /\ since'[e] = now
        /\ \A e \in DOMAIN since : since'[e] \in {since[e], now}
    BY <1>3, <1>9, <2>1
  <2>3. since' \in Seq(0..MaxTime) /\ Len(since') = Len(since)
    <3>1. since' \in Seq(0..MaxTime)
      <4>1. [1..Len(since) -> 0..MaxTime] \in {[1..n -> 0..MaxTime] : n \in Nat}
        BY <2>1, Zenon
      <4>2. since' \in UNION {[1..n -> 0..MaxTime] : n \in Nat}
        BY <2>2, <4>1, Zenon
      <4> QED BY <4>2, SeqDef, Zenon
    <3>2. DOMAIN since' = 1..Len(since') /\ Len(since') \in Nat
      BY <3>1, LenProperties
    <3> QED BY <2>1, <2>2, <3>1, <3>2
  <2>4. BackupsTypeOK'
    BY <1>1, <1>2, <1>6, <1>7, <2>2, <2>3 DEF BackupsTypeOK, CallSet
  <2>5. ArchivesOK'
    BY <1>1, <1>2, <1>7, <2>2 DEF ArchivesOK
  <2>6. ReplacedKept'
    <3>1. \A e \in entries : \E f \in files' : f.reason = "pre-import" /\ e \in f.entries
      <4>1. CASE calls[i].mode = "replace"
        BY <1>2, <1>6, <4>1 DEF PreImportCopy
      <4>2. CASE calls[i].mode # "replace"
        BY <1>2, <4>2 DEF MayImport
      <4> QED BY <4>1, <4>2
    <3>2. \A f \in Pool(files, "pre-import") : f \in files'
      BY <1>4, <1>6 DEF Pool
    <3> QED BY <1>1, <2>2, <3>1, <3>2 DEF ReplacedKept, Pool
  <2>7. DatesOK'
    <3>1. UNCHANGED clock
      BY <1>2 DEF clock
    <3> QED BY <1>4, <1>5, <2>2, <3>1, CopiesDated
  <2> QED BY <1>6, <2>4, <2>5, <2>6, <2>7 DEF BackupsInv
<1>10. \/ UNCHANGED <<entries, since>>
       \/ /\ entries' = calls[i].archive
          /\ since' = [e \in DOMAIN since |-> IF e \in entries' THEN now ELSE since[e]]
  BY DEF Import
<1> QED BY <1>8, <1>9, <1>10

LEMMA BackupsInitOK ==
  ASSUME BackupsConstantsOK, BackupsInit
  PROVE  BackupsInv
<1>1. /\ now = 0 /\ wentBack = FALSE /\ entries = {} /\ since = <<>> /\ files = {} /\ taken = 0
      /\ server = FALSE /\ calls = [i \in Imports |-> Fresh] /\ archive = Nothing
  BY DEF BackupsInit
<1>2. version \in 0..Versions /\ user \in BOOLEAN
  <2>1. version \in 0..Versions
    BY DEF BackupsInit, BackupsConstantsOK
  <2>2. (version > 0) \in BOOLEAN
    OBVIOUS
  <2>3. user \in {FALSE, version > 0}
    BY DEF BackupsInit
  <2> QED BY <2>1, <2>2, <2>3, Zenon
<1>3. <<>> \in Seq(0..MaxTime) /\ Len(<<>>) = 0 /\ DOMAIN <<>> = {}
  BY EmptySeq
<1>4. calls \in [Imports -> CallSet] /\ \A i \in Imports : calls[i].at = "new"
  BY <1>1, EndTyped
<1>5. BackupsTypeOK
  <2>1. now \in 0..MaxTime /\ taken \in 0..MaxTaken /\ Len(since) <= MaxEntries
    BY <1>1, <1>3 DEF BackupsConstantsOK
  <2>2. since \in Seq(0..MaxTime) /\ entries \subseteq DOMAIN since /\ files \subseteq Copies
    BY <1>1, <1>3
  <2>3. archive \in (SUBSET (1..MaxEntries)) \cup {Nothing}
    BY <1>1
  <2> QED BY <1>1, <1>2, <1>4, <2>1, <2>2, <2>3 DEF BackupsTypeOK, CallSet
<1>6. ArchivesOK
  BY <1>1, <1>4 DEF ArchivesOK
<1>7. FilesOK
  BY <1>1, FS_EmptySet DEF FilesOK
<1>8. ReplacedKept /\ DatesOK
  BY <1>1, <1>3 DEF ReplacedKept, DatesOK
<1> QED BY <1>5, <1>6, <1>7, <1>8 DEF BackupsInv

LEMMA BackupsNextOK ==
  ASSUME BackupsConstantsOK, BackupsInv, [BackupsNext]_backupVars
  PROVE  BackupsInv'
<1>1. CASE UNCHANGED backupVars
  BY <1>1 DEF backupVars, clock, data, folder, BackupsInv, BackupsTypeOK, ArchivesOK, FilesOK,
              ReplacedKept, DatesOK
<1>2. CASE BackupsNext
  <2>1. CASE Later \/ SetBack \/ Stop \/ SetUp \/ Export
    BY <2>1, QuietStepsOK
  <2>2. CASE Record
    BY <2>2, RecordOK
  <2>3. CASE BackUpNow \/ RunIfDue \/ \E v \in 1..Versions : Start(v)
    BY <2>3, CopiesOK
  <2>4. CASE \E i \in Imports : \E alone \in BOOLEAN, mode \in {"into-empty", "replace"} :
               StartImport(i, alone, mode)
    BY <2>4, StartImportOK
  <2>5. CASE \E i \in Imports : Import(i)
    BY <2>5, ImportOK
  <2>6. CASE \E i \in Imports : ImportEnds(i)
    BY <2>6, ImportEndsOK
  <2> QED BY <1>2, <2>1, <2>2, <2>3, <2>4, <2>5, <2>6 DEF BackupsNext
<1> QED BY <1>1, <1>2

(* The invariant the theorems rest on.                                     *)
THEOREM BackupsInvariant ==
  ASSUME BackupsConstantsOK
  PROVE  BackupsSpec => []BackupsInv
<1>1. BackupsInit => BackupsInv
  BY BackupsInitOK
<1>2. BackupsInv /\ [BackupsNext]_backupVars => BackupsInv'
  BY BackupsNextOK
<1> QED BY <1>1, <1>2, PTL DEF BackupsSpec

(* The copies, the calls and the entries keep their types: also that no    *)
(* archive names an entry that was never made.                             *)
THEOREM BackupsTypeCorrect ==
  ASSUME BackupsConstantsOK
  PROVE  BackupsSpec => []BackupsTypeOK
<1>1. BackupsInv => BackupsTypeOK
  BY DEF BackupsInv
<1> QED BY <1>1, BackupsInvariant, PTL

(* Every entry ever made is in the database or in a copy made before an    *)
(* import, for every number of imports under way at a time, also those     *)
(* that a restart ends (archive.ts:318).                                   *)
THEOREM ReplacedAlwaysKept ==
  ASSUME BackupsConstantsOK
  PROVE  BackupsSpec => []ReplacedKept
<1>1. BackupsInv => ReplacedKept
  BY DEF BackupsInv
<1> QED BY <1>1, BackupsInvariant, PTL

-----------------------------------------------------------------------------
(* What is removed, and what protects a migration. *)

(* While the clock only goes forward, the names tell the order in which    *)
(* the copies were made.                                                   *)
LEMMA NamesInOrder ==
  ASSUME BackupsConstantsOK, BackupsInv, ~wentBack, NEW reason \in Reasons, CreateBackup(reason),
         NEW f \in Copies,
         f = [reason |-> reason, stamp |-> now, number |-> taken + 1, entries |-> entries],
         NEW x \in files \cup {f}, NEW y \in files \cup {f}, NamedAfter(x, y)
  PROVE  x.number > y.number
<1>1. BackupsTypeOK /\ FilesOK /\ DatesOK /\ now \in Nat /\ taken \in Nat
  BY DEF BackupsInv, BackupsTypeOK
<1>2. f.stamp = now /\ f.number = taken + 1
  OBVIOUS
<1>3. \A g \in files : g.number \in Nat /\ g.stamp \in Nat /\ g.number <= taken /\ g.stamp <= now
  BY <1>1 DEF BackupsTypeOK, Copies, FilesOK, DatesOK
<1>4. x.number \in Nat /\ y.number \in Nat /\ x.stamp \in Nat /\ y.stamp \in Nat
  BY <1>1, <1>2, <1>3
<1>5. x.stamp > y.stamp \/ (x.stamp = y.stamp /\ x.number > y.number)
  BY DEF NamedAfter
<1>6. CASE x \in files /\ y \in files
  <2>1. x.number = y.number => x = y
    BY <1>1, <1>6 DEF FilesOK
  <2>2. x.number < y.number => x.stamp <= y.stamp
    BY <1>1, <1>6 DEF DatesOK
  <2> QED BY <1>4, <1>5, <2>1, <2>2
<1>7. CASE x = f
  BY <1>1, <1>2, <1>3, <1>4, <1>5, <1>7
<1>8. CASE x \in files /\ y = f
  BY <1>1, <1>2, <1>3, <1>4, <1>5, <1>8
<1> QED BY <1>6, <1>7, <1>8

(* A set of copies that is not empty has one made last.                    *)
LEMMA LastMade ==
  ASSUME BackupsConstantsOK, NEW S \in SUBSET Copies, S # {}
  PROVE  \E y \in S : \A x \in S : x.number <= y.number
<1> DEFINE Age == {MaxTaken - x.number : x \in S}
           Less == {ss \in Nat \X Nat : ss[1] < ss[2]}
<1>1. MaxTaken \in Nat /\ \A x \in S : x.number \in 1..MaxTaken
  BY DEF BackupsConstantsOK, Copies
<1>2. Age \subseteq Nat /\ Age # {}
  BY <1>1
<1>3. IsWellFoundedOn(Less, Nat)
  BY NatLessThanWellFounded DEF OpToRel
<1> HIDE DEF Age, Less
<1>4. PICK n \in Age : \A m \in Age : ~(<<m, n>> \in Less)
  BY <1>2, <1>3, WFMin
<1>5. \A m \in Age : n <= m
  <2> SUFFICES ASSUME NEW m \in Age PROVE n <= m
    OBVIOUS
  <2>1. n \in Nat /\ m \in Nat /\ <<m, n>> \in Nat \X Nat
    BY <1>2
  <2> QED BY <1>4, <2>1 DEF Less
<1>6. PICK y \in S : n = MaxTaken - y.number
  BY DEF Age
<1>7. \A x \in S : x.number <= y.number
  <2> SUFFICES ASSUME NEW x \in S PROVE x.number <= y.number
    OBVIOUS
  <2>1. MaxTaken - x.number \in Age
    BY DEF Age
  <2>2. MaxTaken - y.number <= MaxTaken - x.number
    BY <1>5, <1>6, <2>1
  <2> QED BY <1>1, <2>2
<1> QED BY <1>7

LEMMA RemovesSurplusOK ==
  ASSUME BackupsConstantsOK, BackupsInv, ~wentBack, NEW reason \in Prunable, CreateBackup(reason)
  PROVE  RemovesSurplus
<1>1. reason \in Reasons
  BY DEF Reasons
<1>2. PICK f \in Copies :
         /\ f = [reason |-> reason, stamp |-> now, number |-> taken + 1, entries |-> entries]
         /\ files' = Prune(files \cup {f}, f)
  BY <1>1, CreatesOK
<1> DEFINE copies == files \cup {f}
<1>3. copies \subseteq Copies /\ IsFiniteSet(files)
  BY <1>2 DEF BackupsInv, BackupsTypeOK, FilesOK
<1>4. IsFiniteSet(copies)
  BY <1>3, FS_AddElement
<1>5. ASSUME NEW x \in copies, NEW y \in copies, NamedAfter(x, y)
      PROVE  x.number > y.number
  BY <1>1, <1>2, <1>5, NamesInOrder
<1> HIDE DEF copies
<1>6. files \subseteq copies /\ files' = copies \ ((UNION {Surplus(copies, r) : r \in Prunable}) \ {f})
  BY <1>2 DEF copies, Prune
<1> SUFFICES ASSUME NEW g \in files \ files'
             PROVE  /\ g.reason \in Prunable
                    /\ Cardinality({h \in Pool(files', g.reason) : h.number > g.number}) >= Keep
  BY DEF RemovesSurplus
<1>7. PICK r \in Prunable : g \in Surplus(copies, r)
  BY <1>6
<1>8. g.reason = r
  BY <1>7 DEF Surplus, Pool
<1> DEFINE surplus == Surplus(copies, r)
           later == {h \in Pool(files', r) : h.number > g.number}
<1>9. surplus \in SUBSET Copies /\ surplus # {} /\ surplus \subseteq copies
  BY <1>3, <1>7 DEF Surplus, Pool
<1>10. PICK y \in surplus : \A x \in surplus : x.number <= y.number
  BY <1>9, LastMade
<1> DEFINE after == {x \in Pool(copies, r) : NamedAfter(x, y)}
<1>11. Cardinality(after) >= Keep /\ y \in copies
  BY <1>9 DEF Surplus
<1>12. after \subseteq later
  <2> SUFFICES ASSUME NEW x \in after
               PROVE  x \in files' /\ x.reason = r /\ x.number > g.number
    BY DEF Pool
  <2>1. x \in copies /\ x.reason = r /\ NamedAfter(x, y)
    BY DEF Pool
  <2>2. x.number > y.number
    BY <1>5, <1>11, <2>1
  <2>3. x.number \in Nat /\ y.number \in Nat /\ g.number \in Nat
    BY <1>3, <1>6, <1>11, <2>1 DEF Copies
  <2>4. y.number >= g.number
    BY <1>7, <1>10, <2>3
  <2>5. x \notin surplus
    BY <1>10, <2>2, <2>3
  <2>6. \A s \in Prunable : x \notin Surplus(copies, s)
    BY <2>1, <2>5 DEF Surplus, Pool
  <2>7. x \in files'
    BY <1>6, <2>1, <2>6
  <2> QED BY <2>1, <2>2, <2>3, <2>4, <2>7
<1>13. IsFiniteSet(later)
  <2>1. later \subseteq copies
    BY <1>6 DEF Pool
  <2> QED BY <1>4, <2>1, FS_Subset
<1>14. Cardinality(after) <= Cardinality(later) /\ IsFiniteSet(after)
  BY <1>12, <1>13, FS_Subset
<1>15. Cardinality(after) \in Nat /\ Cardinality(later) \in Nat
  BY <1>13, <1>14, FS_CardinalityType
<1>16. Cardinality(later) >= Keep
  BY <1>11, <1>14, <1>15 DEF BackupsConstantsOK
<1> QED BY <1>8, <1>16

LEMMA MigratesCopiedOK ==
  ASSUME BackupsConstantsOK, BackupsInv, ~wentBack, NEW v \in 1..Versions, Start(v)
  PROVE  RemovesSurplus /\ MigratesCopied
<1>1. BackupsTypeOK /\ DatesOK /\ now \in Nat /\ version \in Nat /\ v \in Nat
      /\ "pre-migration" \in Reasons /\ "pre-migration" \notin Prunable
  BY DEF BackupsInv, BackupsTypeOK, Reasons, Prunable
<1>2. IF v > version /\ version > 0 /\ ~RecentCopy
      THEN CreateBackup("pre-migration") ELSE UNCHANGED folder
  BY DEF Start
<1>3. files \subseteq files'
  <2>1. CASE UNCHANGED folder
    BY <2>1 DEF folder
  <2>2. CASE CreateBackup("pre-migration")
    BY <1>1, <2>2, CreatesOK
  <2> QED BY <1>2, <2>1, <2>2
<1>4. RemovesSurplus
  BY <1>3 DEF RemovesSurplus
<1>5. ASSUME version' > version, version > 0
      PROVE  \E f \in Pool(files', "pre-migration") :
               f.stamp + Recent > now /\ \A e \in entries \ f.entries : since[e] >= f.stamp
  <2>1. PICK reached \in version..(IF v > version THEN v ELSE version) : version' = reached
    BY DEF Start
  <2>2. v > version
    BY <1>1, <1>5, <2>1
  <2>3. CASE RecentCopy
    <3>1. PICK f \in files : Latest(f, "pre-migration") /\ f.stamp + Recent > now
      BY <2>3 DEF RecentCopy
    <3>2. f.reason = "pre-migration"
      BY <3>1 DEF Latest, Pool
    <3>3. \A e \in entries \ f.entries : since[e] >= f.stamp
      BY <1>1 DEF DatesOK
    <3> QED BY <1>3, <3>1, <3>2, <3>3 DEF Pool
  <2>4. CASE ~RecentCopy
    <3>1. CreateBackup("pre-migration")
      BY <1>2, <1>5, <2>2, <2>4
    <3>2. PICK f \in files' : f.reason = "pre-migration" /\ f.entries = entries /\ f.stamp = now
      BY <1>1, <3>1, FolderOK
    <3>3. f.stamp + Recent > now
      BY <1>1, <3>2 DEF BackupsConstantsOK
    <3> QED BY <3>2, <3>3 DEF Pool
  <2> QED BY <2>3, <2>4
<1> QED BY <1>4, <1>5 DEF MigratesCopied

LEMMA CopiesProtectOK ==
  ASSUME BackupsConstantsOK, BackupsInv, ~wentBack, [BackupsNext]_backupVars
  PROVE  RemovesSurplus /\ MigratesCopied
<1>1. version \in Nat
  BY DEF BackupsInv, BackupsTypeOK
<1>2. ASSUME files \subseteq files', version' = version
      PROVE  RemovesSurplus /\ MigratesCopied
  BY <1>1, <1>2 DEF RemovesSurplus, MigratesCopied
<1>3. CASE UNCHANGED backupVars \/ Later \/ SetBack \/ Stop \/ SetUp \/ Record \/ Export
  BY <1>2, <1>3 DEF backupVars, folder, data, Later, SetBack, Stop, SetUp, Record, Export
<1>4. CASE BackUpNow \/ RunIfDue
  <2>1. PICK reason \in Prunable : CreateBackup(reason) /\ version' = version
    BY <1>4 DEF BackUpNow, RunIfDue, Prunable, data
  <2>2. RemovesSurplus
    BY <2>1, RemovesSurplusOK
  <2> QED BY <1>1, <2>1, <2>2 DEF MigratesCopied
<1>5. ASSUME NEW v \in 1..Versions, Start(v)
      PROVE  RemovesSurplus /\ MigratesCopied
  BY <1>5, MigratesCopiedOK
<1>6. ASSUME NEW i \in Imports,
             \/ \E alone \in BOOLEAN, mode \in {"into-empty", "replace"} : StartImport(i, alone, mode)
             \/ ImportEnds(i)
      PROVE  RemovesSurplus /\ MigratesCopied
  BY <1>2, <1>6 DEF StartImport, ImportEnds, folder, data
<1>7. ASSUME NEW i \in Imports, Import(i)
      PROVE  RemovesSurplus /\ MigratesCopied
  <2>1. "pre-import" \in Reasons /\ "pre-import" \notin Prunable
    BY DEF Reasons, Prunable
  <2>2. version' = version /\ (CreateBackup("pre-import") \/ UNCHANGED folder)
    BY <1>7 DEF Import, PreImportCopy
  <2>3. files \subseteq files'
    <3>1. CASE UNCHANGED folder
      BY <3>1 DEF folder
    <3>2. CASE CreateBackup("pre-import")
      BY <2>1, <3>2, CreatesOK
    <3> QED BY <2>2, <3>1, <3>2
  <2> QED BY <1>2, <2>2, <2>3
<1> QED BY <1>3, <1>4, <1>5, <1>6, <1>7 DEF BackupsNext

(* While the clock is never set back, for every number of copies to keep   *)
(* and every order of copies of all kinds: pruning removes a copy only     *)
(* when Keep later ones of its kind stay, and a migration changes only a   *)
(* database whose entries are in a pre-migration copy (README.md:212,      *)
(* database.ts:81).                                                        *)
THEOREM CopiesAlwaysProtect ==
  ASSUME BackupsConstantsOK
  PROVE  BackupsSpec => CopiesProtect
<1>1. BackupsInv /\ [BackupsNext]_backupVars =>
        [~wentBack => RemovesSurplus /\ MigratesCopied]_backupVars
  BY CopiesProtectOK
<1> QED BY <1>1, BackupsInvariant, PTL DEF BackupsSpec, CopiesProtect

-----------------------------------------------------------------------------
(* MarketData: the inductive invariant. *)

Waiting == {"price", "range", "hmrc", "spot"}
Locals ==
  [at : Stages, kind : Kinds \cup {None}, date : Days \cup {None}, offset : 0..Back,
   floor : Days \cup {0}, sure : BOOLEAN, first : Days \cup {Monthly, None}]
Answers ==
  [is : {"none", "price", "rate", "error", "locked"}, date : Days \cup {None},
   rate : Days \cup {Monthly, None}]

Nearest(d) == Max({b \in Trading : b <= d})

(* The first day is over: there is a rate to roll back to.                 *)
FirstOut == Out(1)

(* The cache has the rate of the nearest business day, unless it was       *)
(* fetched before its own was out.                                         *)
SpotOK == \A d \in Days : spot[d] # None /\ d \notin early => spot[d] = Nearest(d)

(* What a request may count on while it waits: the walk has not come to    *)
(* the latest price there was; a rate that waits is no sure one.           *)
WaitOK(at, l) ==
  /\ l.date \in 1..today
  /\ at = "price" =>
       /\ l.first = None /\ l.offset < l.date /\ l.floor < l.date - l.offset
       /\ l.floor # 0 => Cached(l.floor)
  /\ at = "range" => l.kind = "range"
  /\ at = "hmrc" => policy = "hmrc-monthly"
  /\ at \in {"hmrc", "spot"} =>
       /\ policy = "hmrc-monthly" => ~l.sure
       /\ policy = "daily-spot" => l.first = None

DoneOK(l, a) ==
  /\ l.kind = "price" =>
       /\ a.is = "price" => a.date >= l.floor
       /\ a.is = "none" => l.floor = 0 \/ l.floor < l.date - Back
  /\ a.is = "rate" =>
       /\ policy = "hmrc-monthly" /\ l.sure =>
            a.rate = Monthly /\ (l.kind = "plan" => l.first = Monthly)
       /\ policy = "daily-spot" /\ l.date \notin early =>
            a.rate = Nearest(l.date) /\ (l.kind = "plan" => l.first = a.rate)

ReqOK(r) ==
  /\ req[r].at \in Waiting => WaitOK(req[r].at, req[r])
  /\ req[r].at = "ended" => DoneOK(req[r], answer[r])

MarketInv == MarketTypeOK /\ FirstOut /\ SpotOK /\ NoPlaintext /\ \A r \in Requests : ReqOK(r)

-----------------------------------------------------------------------------
(* Maxima. *)

LEMMA MaxOf ==
  ASSUME NEW N \in Nat, NEW S \in SUBSET (0..N), S # {}
  PROVE  Max(S) \in S /\ \A x \in S : x <= Max(S)
<1> DEFINE Below == {N - x : x \in S}
           Less == {ss \in Nat \X Nat : ss[1] < ss[2]}
<1>1. Below \subseteq Nat /\ Below # {}
  <2>1. ASSUME NEW x \in S
        PROVE  N - x \in Nat /\ N - x \in Below
    <3>1. x \in 0..N
      OBVIOUS
    <3> QED BY <3>1
  <2>2. Below \subseteq Nat
    BY <2>1
  <2> HIDE DEF Below
  <2> QED BY <2>1, <2>2
<1>2. IsWellFoundedOn(Less, Nat)
  BY NatLessThanWellFounded DEF OpToRel
<1> HIDE DEF Below, Less
<1>3. PICK n \in Below : \A m \in Below : ~(<<m, n>> \in Less)
  BY <1>1, <1>2, WFMin
<1>4. \A m \in Below : n <= m
  <2> SUFFICES ASSUME NEW m \in Below PROVE n <= m
    OBVIOUS
  <2>1. n \in Nat /\ m \in Nat /\ <<m, n>> \in Nat \X Nat
    BY <1>1
  <2> QED BY <1>3, <2>1 DEF Less
<1>5. PICK y \in S : n = N - y
  BY DEF Below
<1>6. \A x \in S : y >= x
  <2> SUFFICES ASSUME NEW x \in S PROVE y >= x
    OBVIOUS
  <2>1. N - y <= N - x
    BY <1>4, <1>5 DEF Below
  <2>2. x \in Nat /\ y \in Nat
    OBVIOUS
  <2> QED BY <2>1, <2>2
<1>7. Max(S) \in S /\ \A x \in S : Max(S) >= x
  BY <1>6, Zenon DEF Max
<1> QED BY <1>7

LEMMA DaysAreNumbers ==
  ASSUME MarketConstantsOK
  PROVE  /\ Days \subseteq Nat /\ Days \subseteq 0..LastDay /\ LastDay \in Nat
         /\ Trading \subseteq Days /\ 1 \in Trading /\ Back \in Nat
         /\ None \notin Days /\ None # 0 /\ None \notin Values
BY DEF MarketConstantsOK, Days, Values

(* A business day is its own nearest one.                                  *)
LEMMA NearestOfTrading ==
  ASSUME MarketConstantsOK, NEW d \in Trading
  PROVE  Nearest(d) = d
<1> DEFINE S == {b \in Trading : b <= d}
<1>1. S \in SUBSET (0..LastDay) /\ d \in S /\ LastDay \in Nat
  BY DaysAreNumbers
<1>2. Max(S) \in S /\ \A x \in S : x <= Max(S)
  BY <1>1, MaxOf
<1>3. Max(S) <= d /\ d <= Max(S)
  BY <1>1, <1>2
<1>4. Max(S) \in Nat /\ d \in Nat
  BY <1>1, <1>2
<1>5. Max(S) = d
  BY <1>3, <1>4
<1> QED BY <1>5 DEF Nearest

LEMMA LatestCachedOK ==
  ASSUME MarketConstantsOK, NEW d \in Days
  PROVE  /\ LatestCached(d) \in Days \cup {0} /\ LatestCached(d) <= d
         /\ LatestCached(d) # 0 => Cached(LatestCached(d))
<1> DEFINE S == {c \in Days : c <= d /\ Cached(c)} \cup {0}
<1>1. S \in SUBSET (0..LastDay) /\ S # {} /\ LastDay \in Nat
  BY DaysAreNumbers
<1>2. Max(S) \in S
  BY <1>1, MaxOf
<1>3. d >= 0
  BY DaysAreNumbers
<1> QED BY <1>2, <1>3 DEF LatestCached

(* What Frankfurter answers for a day that is there.                       *)
LEMMA PublishedOK ==
  ASSUME MarketConstantsOK, FirstOut, today \in Days, NEW d \in Days, d <= today
  PROVE  /\ Published(d) \in Trading /\ Published(d) <= d
         /\ d \notin Trading => Published(d) = Nearest(d)
<1> DEFINE S == {b \in Trading : b <= d /\ Out(b)}
<1>1. d \in Nat /\ d >= 1 /\ today \in Nat
  BY DaysAreNumbers DEF Days
<1>2. S \in SUBSET (0..LastDay) /\ 1 \in S /\ LastDay \in Nat
  BY <1>1, DaysAreNumbers DEF FirstOut
<1>3. Max(S) \in S
  BY <1>2, MaxOf
<1>4. ASSUME d \notin Trading
      PROVE  S = {b \in Trading : b <= d}
  <2>1. ASSUME NEW b \in Trading, b <= d
        PROVE  Out(b)
    <3>1. b \in Nat /\ b # d
      BY <1>4, <2>1, DaysAreNumbers
    <3>2. b < today
      BY <1>1, <2>1, <3>1
    <3> QED BY <3>2 DEF Out
  <2> QED BY <2>1
<1>5. Published(d) = Max(S)
  BY DEF Published
<1> QED BY <1>3, <1>4, <1>5 DEF Nearest

-----------------------------------------------------------------------------
(* Steps of one request. *)

Forward ==
  /\ today \in Days /\ today' \in Days /\ today <= today' /\ policy' = policy
  /\ policy \in {"hmrc-monthly", "daily-spot"}
  /\ \A d \in Days : Cached(d) => Cached(d)'
  /\ early \subseteq early'

(* One request waits again or has ended, the others are where they were.   *)
Steps(r) ==
  /\ req' \in [Requests -> Locals] /\ answer' \in [Requests -> Answers] /\ ReqOK(r)'
  /\ \A q \in Requests \ {r} : req'[q] = req[q] /\ answer'[q] = answer[q]

Typed == req \in [Requests -> Locals] /\ answer \in [Requests -> Answers]

LEMMA AwaitSteps ==
  ASSUME Typed, NEW r \in Requests, NEW at \in Waiting, NEW l \in Locals,
         WaitOK(at, l)', Await(r, at, l), UNCHANGED answer
  PROVE  Steps(r)
<1> DEFINE n == [l EXCEPT !.at = at]
<1>1. at \in Stages /\ at # "ended"
  BY DEF Stages, Waiting
<1>2. /\ n \in Locals /\ n.at = at /\ n.date = l.date /\ n.offset = l.offset
      /\ n.floor = l.floor /\ n.sure = l.sure /\ n.first = l.first /\ n.kind = l.kind
  BY <1>1 DEF Locals
<1> HIDE DEF n
<1>3. /\ req' \in [Requests -> Locals] /\ req'[r] = n
      /\ \A q \in Requests \ {r} : req'[q] = req[q]
  BY <1>2 DEF Await, Typed, n
<1>4. WaitOK(at, n)'
  BY <1>2 DEF WaitOK
<1>5. ReqOK(r)'
  BY <1>1, <1>2, <1>3, <1>4 DEF ReqOK
<1> QED BY <1>3, <1>5 DEF Steps, Typed

LEMMA ReturnSteps ==
  ASSUME Typed, NEW r \in Requests, NEW l \in Locals, NEW a \in Answers,
         DoneOK(l, a)', Return(r, l, a)
  PROVE  Steps(r)
<1> DEFINE n == [l EXCEPT !.at = "ended"]
<1>1. "ended" \in Stages /\ "ended" \notin Waiting
  BY DEF Stages, Waiting
<1>2. /\ n \in Locals /\ n.at = "ended" /\ n.date = l.date /\ n.kind = l.kind
      /\ n.floor = l.floor /\ n.sure = l.sure /\ n.first = l.first
  BY <1>1 DEF Locals
<1> HIDE DEF n
<1>3. /\ req' \in [Requests -> Locals] /\ req'[r] = n
      /\ \A q \in Requests \ {r} : req'[q] = req[q]
  BY <1>2 DEF Return, Typed, n
<1>4. /\ answer' \in [Requests -> Answers] /\ answer'[r] = a
      /\ \A q \in Requests \ {r} : answer'[q] = answer[q]
  BY DEF Return, Typed
<1>5. DoneOK(n, a)'
  BY <1>2 DEF DoneOK
<1>6. ReqOK(r)'
  BY <1>1, <1>2, <1>3, <1>4, <1>5 DEF ReqOK
<1> QED BY <1>3, <1>4, <1>6 DEF Steps

LEMMA AnswersTyped ==
  ASSUME MarketConstantsOK
  PROVE  /\ NoAnswer \in Answers /\ NoAnswer.is = "none"
         /\ \A error \in {"error", "locked"} :
              /\ [NoAnswer EXCEPT !.is = error] \in Answers
              /\ [NoAnswer EXCEPT !.is = error].is = error
         /\ \A d \in Days : Priced(d) \in Answers /\ Priced(d).is = "price" /\ Priced(d).date = d
         /\ \A rate \in Days \cup {Monthly} :
              Told(rate) \in Answers /\ Told(rate).is = "rate" /\ Told(rate).rate = rate
BY DEF NoAnswer, Answers, Priced, Told, Monthly

LEMMA FailSteps ==
  ASSUME MarketConstantsOK, Typed, NEW r \in Requests, NEW error \in {"error", "locked"},
         Fail(r, error)
  PROVE  Steps(r)
<1>1. PICK a \in Answers : a = [NoAnswer EXCEPT !.is = error] /\ a.is = error
  BY AnswersTyped
<1>2. PICK l \in Locals : l = req[r]
  BY DEF Typed
<1>3. Return(r, l, a)
  BY <1>1, <1>2 DEF Fail
<1>4. DoneOK(l, a)'
  BY <1>1 DEF DoneOK
<1> QED BY <1>3, <1>4, ReturnSteps

(* What a rate has to be when it is there.                                 *)
Fits(l, rate) ==
  /\ l.date \in 1..today
  /\ policy = "hmrc-monthly" /\ l.sure => rate = Monthly /\ l.first = None
  /\ policy = "daily-spot" =>
       l.first = None /\ (l.date \notin early => rate = Nearest(l.date))

LEMMA ConvertedSteps ==
  ASSUME MarketConstantsOK, Typed, Forward, NEW r \in Requests, NEW l \in Locals,
         NEW rate \in Days \cup {Monthly}, Fits(l, rate)', Converted(r, l, rate)
  PROVE  Steps(r)
<1> DEFINE once == [l EXCEPT !.first = rate]
<1>1. /\ once \in Locals /\ once.first = rate /\ once.date = l.date /\ once.sure = l.sure
      /\ once.kind = l.kind
  BY DEF Locals
<1>2. /\ \A x \in Days \cup {Monthly} : Told(x) \in Answers /\ Told(x).is = "rate" /\ Told(x).rate = x
      /\ None # Monthly /\ rate # None /\ Monthly \in Days \cup {Monthly}
  BY AnswersTyped, DaysAreNumbers DEF Monthly
<1>3. policy' = policy /\ policy \in {"hmrc-monthly", "daily-spot"}
  BY DEF Forward
<1> HIDE DEF once
<1>4. CASE l.kind # "plan" \/ l.first # None
  <2>1. Return(r, l, Told(rate))
    BY <1>4 DEF Converted
  <2>2. DoneOK(l, Told(rate))'
    BY <1>2, <1>3, <1>4 DEF DoneOK, Fits
  <2> QED BY <1>2, <2>1, <2>2, ReturnSteps
<1>5. CASE ~(l.kind # "plan" \/ l.first # None) /\ (rate = Monthly \/ policy = "daily-spot")
  <2>1. Return(r, once, Told(rate))
    BY <1>5 DEF Converted, once
  <2>2. DoneOK(once, Told(rate))'
    BY <1>1, <1>2, <1>3, <1>5 DEF DoneOK, Fits
  <2> QED BY <1>1, <1>2, <2>1, <2>2, ReturnSteps
<1>6. CASE ~(l.kind # "plan" \/ l.first # None) /\ ~(rate = Monthly \/ policy = "daily-spot")
  <2>1. policy = "hmrc-monthly" /\ ~l.sure
    BY <1>3, <1>6 DEF Fits
  <2>2. CASE HasMonth(l.date)
    <3>1. Return(r, once, Told(Monthly))
      BY <1>6, <2>2 DEF Converted, once
    <3>2. DoneOK(once, Told(Monthly))'
      BY <1>1, <1>2, <1>3, <1>6, <2>1 DEF DoneOK
    <3> QED BY <1>1, <1>2, <3>1, <3>2, ReturnSteps
  <2>3. CASE ~HasMonth(l.date)
    <3>1. Await(r, "hmrc", once) /\ UNCHANGED answer
      BY <1>6, <2>3 DEF Converted, once
    <3>2. WaitOK("hmrc", once)'
      BY <1>1, <1>3, <2>1 DEF WaitOK, Fits
    <3> QED BY <1>1, <3>1, <3>2, AwaitSteps DEF Waiting
  <2> QED BY <2>2, <2>3
<1> QED BY <1>4, <1>5, <1>6

LEMMA AskSpotSteps ==
  ASSUME MarketConstantsOK, Typed, Forward, SpotOK, spot \in [Days -> Trading \cup {None}],
         UNCHANGED <<today, rates>>, NEW r \in Requests, NEW l \in Locals, l.date \in 1..today,
         policy = "hmrc-monthly" => ~l.sure, policy = "daily-spot" => l.first = None,
         AskSpot(r, l)
  PROVE  Steps(r)
<1>1. l.date \in Days /\ policy' = policy /\ early' = early /\ today' = today
  BY DEF Forward, Days, MarketConstantsOK, rates
<1>2. CASE spot[l.date] # None
  <2>1. PICK rate \in Days \cup {Monthly} : rate = spot[l.date]
    BY <1>1, <1>2, DaysAreNumbers
  <2>2. Converted(r, l, rate)
    BY <1>2, <2>1 DEF AskSpot
  <2>3. l.date \notin early => rate = Nearest(l.date)
    BY <1>1, <1>2, <2>1 DEF SpotOK
  <2>4. Fits(l, rate)'
    BY <1>1, <2>3 DEF Fits, Nearest
  <2> QED BY <2>2, <2>4, ConvertedSteps
<1>3. CASE spot[l.date] = None
  <2>1. Await(r, "spot", l) /\ UNCHANGED answer
    BY <1>3 DEF AskSpot
  <2>2. WaitOK("spot", l)'
    BY <1>1 DEF WaitOK
  <2> QED BY <2>1, <2>2, AwaitSteps DEF Waiting
<1> QED BY <1>2, <1>3

LEMMA AskRateSteps ==
  ASSUME MarketConstantsOK, Typed, Forward, SpotOK, spot \in [Days -> Trading \cup {None}],
         monthly \in BOOLEAN, UNCHANGED <<today, rates>>,
         NEW r \in Requests, NEW l \in Locals, l.date \in 1..today, l.first = None, AskRate(r, l)
  PROVE  Steps(r)
<1>1. PICK known \in Locals :
        /\ known = [l EXCEPT !.sure = monthly] /\ known.sure = monthly /\ known.first = None
        /\ known.date = l.date /\ known.date \in 1..today
  <2> DEFINE n == [l EXCEPT !.sure = monthly]
  <2>1. n \in Locals /\ n.sure = monthly /\ n.first = l.first /\ n.date = l.date
    BY DEF Locals
  <2> HIDE DEF n
  <2>2. n.first = None /\ n.date \in 1..today
    BY <2>1
  <2>3. n = [l EXCEPT !.sure = monthly]
    BY DEF n
  <2> QED BY <2>1, <2>2, <2>3
<1>2. policy \in {"hmrc-monthly", "daily-spot"} /\ policy' = policy /\ today' = today
  BY DEF Forward
<1>3. CASE policy = "daily-spot"
  <2>1. AskSpot(r, known)
    BY <1>1, <1>3 DEF AskRate
  <2> QED BY <1>1, <1>3, <2>1, AskSpotSteps
<1>4. CASE policy = "hmrc-monthly" /\ monthly
  <2>1. Converted(r, known, Monthly) /\ Monthly \in Days \cup {Monthly}
    BY <1>1, <1>4 DEF AskRate, HasMonth
  <2>2. Fits(known, Monthly)'
    BY <1>1, <1>2, <1>4 DEF Fits
  <2> QED BY <1>1, <2>1, <2>2, ConvertedSteps
<1>5. CASE policy = "hmrc-monthly" /\ ~monthly
  <2>1. Await(r, "hmrc", known) /\ UNCHANGED answer
    BY <1>1, <1>5 DEF AskRate, HasMonth
  <2>2. WaitOK("hmrc", known)'
    BY <1>1, <1>2, <1>5 DEF WaitOK
  <2> QED BY <1>1, <2>1, <2>2, AwaitSteps DEF Waiting
<1> QED BY <1>2, <1>3, <1>4, <1>5

-----------------------------------------------------------------------------
(* The actions of a request. *)

(* What an action of r has to show.                                        *)
LEMMA StepsKeep ==
  ASSUME MarketInv, NEW r \in Requests, Steps(r), Forward,
         UNCHANGED <<closed, locked, offline>>, today' = today, monthly' \in BOOLEAN,
         spot' \in [Days -> Trading \cup {None}], early' \subseteq Days, SpotOK',
         prices' \in [Days -> Values \cup {None}]
  PROVE  MarketInv'
<1>1. \A q \in Requests \ {r} : ReqOK(q)'
  <2> SUFFICES ASSUME NEW q \in Requests \ {r} PROVE ReqOK(q)'
    OBVIOUS
  <2>1. ReqOK(q) /\ req'[q] = req[q] /\ answer'[q] = answer[q]
    BY DEF MarketInv, Steps
  <2>2. req[q] \in Locals
    BY DEF MarketInv, MarketTypeOK, Locals
  <2>3. WaitOK(req[q].at, req[q]) => WaitOK(req[q].at, req[q])'
    <3>1. req[q].floor # 0 => req[q].floor \in Days
      BY <2>2 DEF Locals
    <3> QED BY <2>1, <3>1 DEF WaitOK, Forward
  <2>4. DoneOK(req[q], answer[q]) => DoneOK(req[q], answer[q])'
    BY <2>1 DEF DoneOK, Forward
  <2> QED BY <2>1, <2>3, <2>4 DEF ReqOK
<1>2. MarketTypeOK'
  BY DEF MarketInv, MarketTypeOK, Steps, Forward, Locals, Answers, offline
<1>3. FirstOut' /\ NoPlaintext'
  BY DEF MarketInv, FirstOut, Out, NoPlaintext, offline
<1> QED BY <1>1, <1>2, <1>3 DEF MarketInv, Steps

LEMMA TypedNow ==
  ASSUME MarketConstantsOK, MarketInv
  PROVE  /\ Typed /\ SpotOK /\ FirstOut /\ spot \in [Days -> Trading \cup {None}]
         /\ monthly \in BOOLEAN /\ today \in Days /\ policy \in {"hmrc-monthly", "daily-spot"}
         /\ early \subseteq Days /\ prices \in [Days -> Values \cup {None}]
         /\ \A d \in Days : d <= today <=> d \in 1..today
<1>1. \A d \in Days : d <= today <=> d \in 1..today
  BY DaysAreNumbers DEF Days, MarketInv, MarketTypeOK
<1> QED BY <1>1 DEF MarketInv, MarketTypeOK, Typed, Locals, Answers

LEMMA IdleTyped ==
  ASSUME MarketConstantsOK
  PROVE  /\ Idle \in Locals /\ Idle.at = "new" /\ Idle.offset = 0 /\ Idle.first = None
         /\ Idle.floor = 0
<1>1. 0 \in 0..Back /\ "new" \in Stages
  BY DaysAreNumbers DEF Stages
<1> QED BY <1>1 DEF Idle, Locals

Begun(kind, d, f) == [Idle EXCEPT !.kind = kind, !.date = d, !.floor = f]

LEMMA BegunTyped ==
  ASSUME MarketConstantsOK, NEW kind \in Kinds, NEW d \in Days, NEW f \in Days \cup {0}
  PROVE  /\ Begun(kind, d, f) \in Locals
         /\ Begun(kind, d, f).kind = kind /\ Begun(kind, d, f).date = d
         /\ Begun(kind, d, f).floor = f /\ Begun(kind, d, f).offset = 0
         /\ Begun(kind, d, f).first = None
<1> DEFINE l == [Idle EXCEPT !.kind = kind, !.date = d, !.floor = f]
<1>1. l \in Locals /\ l.kind = kind /\ l.date = d /\ l.floor = f /\ l.offset = 0 /\ l.first = None
  BY IdleTyped DEF Locals
<1>2. l = Begun(kind, d, f)
  BY DEF Begun
<1> HIDE DEF l
<1> QED BY <1>1, <1>2

LEMMA Onward ==
  ASSUME MarketConstantsOK, MarketInv, UNCHANGED <<today, policy, rates>>,
         \A d \in Days : Cached(d) => Cached(d)'
  PROVE  Forward /\ UNCHANGED <<today, rates>> /\ SpotOK'
<1>1. today <= today
  BY TypedNow, DaysAreNumbers
<1>2. spot' = spot /\ early' = early
  BY DEF rates
<1>3. Forward
  BY <1>1, <1>2, TypedNow DEF Forward
<1>4. SpotOK'
  BY <1>2, TypedNow DEF SpotOK, Nearest
<1> QED BY <1>3, <1>4

LEMMA FirstStays ==
  ASSUME MarketInv, UNCHANGED <<today, closed>>
  PROVE  FirstOut'
BY DEF MarketInv, FirstOut, Out

(* Nothing but the requests moves.                                         *)
Still == UNCHANGED <<today, closed, policy, rates, prices, locked, offline>>

LEMMA StillKeeps ==
  ASSUME MarketConstantsOK, MarketInv, NEW r \in Requests, Still, Steps(r)
  PROVE  MarketInv'
<1>1. SpotOK' /\ Forward
  BY Onward DEF Still, Cached
<1> QED BY <1>1, TypedNow, StepsKeep DEF Still, rates

LEMMA StillForward ==
  ASSUME MarketConstantsOK, MarketInv, Still
  PROVE  Forward /\ UNCHANGED <<today, rates>>
BY Onward DEF Still, Cached

LEMMA GetRateOK ==
  ASSUME MarketConstantsOK, MarketInv, NEW r \in Requests, NEW d \in Days, GetRate(r, d)
  PROVE  MarketInv'
<1>1. Still /\ d \in 1..today
  BY TypedNow DEF GetRate, Still
<1>2. PICK l \in Locals : l = [Idle EXCEPT !.kind = "rate", !.date = d] /\ l.date = d /\ l.first = None
  <2> DEFINE n == [Idle EXCEPT !.kind = "rate", !.date = d]
  <2>1. n \in Locals /\ n.date = d /\ n.first = None
    BY IdleTyped DEF Locals, Kinds
  <2>2. n = [Idle EXCEPT !.kind = "rate", !.date = d]
    OBVIOUS
  <2> HIDE DEF n
  <2> QED BY <2>1, <2>2
<1>3. AskRate(r, l)
  BY <1>2 DEF GetRate
<1>4. Steps(r)
  BY <1>1, <1>2, <1>3, TypedNow, StillForward, AskRateSteps
<1> QED BY <1>1, <1>4, StillKeeps

LEMMA HmrcAnswersOK ==
  ASSUME MarketConstantsOK, MarketInv, NEW r \in Requests, HmrcAnswers(r)
  PROVE  MarketInv'
<1>1. PICK l \in Locals : l = req[r]
  BY TypedNow DEF Typed
<1>2. WaitOK("hmrc", l)
  BY <1>1 DEF MarketInv, ReqOK, Waiting, HmrcAnswers
<1>3. Forward /\ today' = today /\ early' = early /\ spot' = spot /\ SpotOK' /\ policy' = policy
  <2>1. UNCHANGED <<today, policy, spot, early, prices>>
    BY DEF HmrcAnswers
  <2>2. Forward
    BY <2>1, TypedNow DEF Forward, Cached, Days
  <2>3. SpotOK'
    BY <2>1, TypedNow DEF SpotOK, Nearest
  <2> QED BY <2>1, <2>2, <2>3
<1>4. policy = "hmrc-monthly"
  BY <1>2 DEF WaitOK
<1>5. Fits(l, Monthly)'
  BY <1>2, <1>3, <1>4 DEF Fits, WaitOK
<1>6. Converted(r, l, Monthly)
  BY <1>1 DEF HmrcAnswers
<1>7. Steps(r)
  BY <1>3, <1>5, <1>6, TypedNow, ConvertedSteps
<1> QED BY <1>3, <1>7, TypedNow, StepsKeep DEF HmrcAnswers

LEMMA HmrcFailsOK ==
  ASSUME MarketConstantsOK, MarketInv, NEW r \in Requests, HmrcFails(r)
  PROVE  MarketInv'
<1>1. PICK l \in Locals : l = req[r]
  BY TypedNow DEF Typed
<1>2. WaitOK("hmrc", l)
  BY <1>1 DEF MarketInv, ReqOK, Waiting, HmrcFails
<1>3. Still /\ AskSpot(r, l)
  BY <1>1 DEF HmrcFails, Still
<1>4. Steps(r)
  BY <1>2, <1>3, TypedNow, StillForward, AskSpotSteps DEF WaitOK
<1> QED BY <1>3, <1>4, StillKeeps

LEMMA SpotAnswersOK ==
  ASSUME MarketConstantsOK, MarketInv, NEW r \in Requests, SpotAnswers(r)
  PROVE  MarketInv'
<1>1. PICK l \in Locals : l = req[r]
  BY TypedNow DEF Typed
<1>2. WaitOK("spot", l)
  BY <1>1 DEF MarketInv, ReqOK, Waiting, SpotAnswers
<1>3. l.date \in Days /\ l.date <= today
  BY <1>2, TypedNow, DaysAreNumbers DEF WaitOK, Days, Locals
<1>4. PICK d \in Days : d = l.date
  BY <1>3
<1>5. PICK b \in Trading : b = Published(d) /\ (d \notin Trading => b = Nearest(d))
  BY <1>3, <1>4, TypedNow, PublishedOK
<1>6. b \in Days /\ Nearest(b) = b
  BY DaysAreNumbers, NearestOfTrading
<1>7. StoreSpot(d, b) /\ Converted(r, l, b)
  BY <1>1, <1>4, <1>5 DEF SpotAnswers
<1>8. /\ spot' \in [Days -> Trading \cup {None}] /\ spot'[d] = b
      /\ \A x \in Days : spot'[x] # spot[x] => x = d \/ x = b
      /\ spot'[b] = b
  BY <1>6, <1>7, TypedNow DEF StoreSpot
<1>9. early \subseteq early' /\ early' \subseteq Days /\ (d \in Trading /\ b # d => d \in early')
  BY <1>7, TypedNow DEF StoreSpot
<1>10. d \notin early' => b = Nearest(d)
  BY <1>5, <1>6, <1>9
<1>11. SpotOK'
  <2> SUFFICES ASSUME NEW x \in Days, spot'[x] # None, x \notin early'
               PROVE  spot'[x] = Nearest(x)
    BY DEF SpotOK, Nearest
  <2>1. CASE x = d
    BY <1>8, <1>10, <2>1
  <2>2. CASE x = b
    BY <1>6, <1>8, <2>2
  <2>3. CASE x # d /\ x # b
    BY <1>8, <1>9, <2>3, TypedNow DEF SpotOK
  <2> QED BY <2>1, <2>2, <2>3
<1>12. Forward /\ today' = today /\ policy' = policy /\ monthly' = monthly
  BY <1>9, TypedNow DEF SpotAnswers, Forward, Cached, Days
<1>13. Fits(l, b)'
  <2>1. b = Nearest(l.date)' \/ l.date \in early'
    BY <1>4, <1>10 DEF Nearest
  <2> QED BY <1>2, <1>12, <2>1 DEF Fits, WaitOK
<1>14. Steps(r)
  BY <1>6, <1>7, <1>12, <1>13, TypedNow, ConvertedSteps
<1> QED BY <1>8, <1>9, <1>11, <1>12, <1>14, TypedNow, StepsKeep DEF SpotAnswers

LEMMA SpotFailsOK ==
  ASSUME MarketConstantsOK, MarketInv, NEW r \in Requests, SpotFails(r)
  PROVE  MarketInv'
<1>1. Still /\ Fail(r, "error")
  BY DEF SpotFails, Still
<1> QED BY <1>1, TypedNow, FailSteps, StillKeeps

LEMMA SettleSteps ==
  ASSUME MarketConstantsOK, Typed, Forward, SpotOK, spot \in [Days -> Trading \cup {None}],
         monthly \in BOOLEAN, UNCHANGED <<today, rates>>, NEW r \in Requests, NEW d \in Days,
         d \in 1..today, req[r].first = None, d >= req[r].floor, Settle(r, d)
  PROVE  Steps(r)
<1>1. PICK l \in Locals : l = req[r]
  BY DEF Typed
<1>2. CASE l.kind = "value"
  <2> DEFINE n == [l EXCEPT !.date = d]
  <2>1. n \in Locals /\ n.date = d /\ n.first = None
    BY <1>1 DEF Locals
  <2>2. PICK m \in Locals : m = n /\ m.date = d /\ m.first = None
    BY <2>1
  <2>3. AskRate(r, m)
    BY <1>1, <1>2, <2>2 DEF Settle
  <2> QED BY <2>2, <2>3, AskRateSteps
<1>3. CASE l.kind # "value"
  <2>1. PICK a \in Answers : a = Priced(d) /\ a.is = "price" /\ a.date = d
    BY AnswersTyped
  <2>2. Return(r, l, a)
    BY <1>1, <1>3, <2>1 DEF Settle
  <2>3. DoneOK(l, a)'
    BY <1>1, <2>1 DEF DoneOK
  <2> QED BY <2>2, <2>3, ReturnSteps
<1> QED BY <1>2, <1>3

LEMMA GetPriceOK ==
  ASSUME MarketConstantsOK, MarketInv, NEW r \in Requests, NEW d \in Days, GetPrice(r, d)
  PROVE  MarketInv'
<1>1. Still /\ d \in 1..today /\ d \in Nat
  BY TypedNow, DaysAreNumbers DEF GetPrice, Still
<1>2. PICK f \in Days \cup {0} : f = LatestCached(d) /\ f <= d /\ (f # 0 => Cached(f))
  BY LatestCachedOK
<1>3. PICK l \in Locals :
        /\ l = Begun("price", d, f)
        /\ l.kind = "price" /\ l.date = d /\ l.floor = f /\ l.offset = 0 /\ l.first = None
  <2>1. "price" \in Kinds
    BY DEF Kinds
  <2> QED BY <1>2, <2>1, BegunTyped
<1>4. Forward /\ today' = today /\ prices' = prices
  BY <1>1, StillForward DEF Still
<1>5. f \in Nat /\ d > 0
  BY <1>1, DaysAreNumbers
<1>6. CASE Cached(d)
  <2>1. PICK a \in Answers : a = Priced(d) /\ a.is = "price" /\ a.date = d
    BY AnswersTyped
  <2>2. Return(r, l, a)
    BY <1>2, <1>3, <1>6, <2>1 DEF GetPrice, Begun
  <2>3. DoneOK(l, a)'
    BY <1>1, <1>2, <1>3, <1>5, <2>1 DEF DoneOK
  <2> QED BY <1>1, <2>2, <2>3, TypedNow, ReturnSteps, StillKeeps
<1>7. CASE ~Cached(d)
  <2>1. Await(r, "price", l) /\ UNCHANGED answer
    BY <1>2, <1>3, <1>7 DEF GetPrice, Begun
  <2>2. f < d
    <3>1. f # d
      BY <1>2, <1>5, <1>7
    <3> QED BY <1>1, <1>2, <1>5, <3>1
  <2>3. WaitOK("price", l)'
    BY <1>1, <1>2, <1>3, <1>4, <1>5, <2>2 DEF WaitOK, Cached
  <2> QED BY <1>1, <2>1, <2>3, TypedNow, AwaitSteps, StillKeeps DEF Waiting
<1> QED BY <1>6, <1>7

(* A request for a rate on the day of the latest price.                    *)
LEMMA RateOfLatest ==
  ASSUME MarketConstantsOK, MarketInv, Still, NEW r \in Requests, NEW kind \in Kinds, NEW d \in Days,
         d <= today, AskRate(r, Begun(kind, d, d))
  PROVE  MarketInv'
<1>1. PICK l \in Locals :
        /\ l = Begun(kind, d, d)
        /\ l.kind = kind /\ l.date = d /\ l.floor = d /\ l.offset = 0 /\ l.first = None
  <2>1. d \in Days \cup {0}
    OBVIOUS
  <2> QED BY <2>1, BegunTyped
<1>2. d \in 1..today /\ AskRate(r, l)
  BY <1>1, TypedNow
<1>3. Steps(r)
  BY <1>1, <1>2, TypedNow, StillForward, AskRateSteps
<1> QED BY <1>3, StillKeeps

LEMMA EstimateOK ==
  ASSUME MarketConstantsOK, MarketInv, NEW r \in Requests, NEW kind \in {"value", "plan"}, Estimate(r, kind)
  PROVE  MarketInv'
<1> DEFINE latest == LatestCached(today)
           locals == [Idle EXCEPT !.kind = kind, !.date = latest, !.floor = latest]
<1>1. Still /\ today \in Days /\ kind \in Kinds
  BY TypedNow DEF Estimate, Still, Kinds
<1>2. latest \in Days \cup {0} /\ latest <= today
  BY <1>1, LatestCachedOK
<1>3. CASE latest > 0
  <2>1. latest \in Days /\ AskRate(r, locals)
    BY <1>2, <1>3 DEF Estimate
  <2>2. PICK d \in Days : d = latest
    BY <2>1
  <2>3. AskRate(r, Begun(kind, d, d))
    BY <2>1, <2>2 DEF Begun
  <2> HIDE DEF latest
  <2> QED BY <1>1, <1>2, <2>2, <2>3, RateOfLatest
<1>4. CASE ~(latest > 0)
  <2>1. PICK f \in Days \cup {0} : f = latest
    BY <1>2
  <2>2. Return(r, [[Idle EXCEPT !.kind = kind, !.date = f, !.floor = f] EXCEPT !.date = today], NoAnswer)
    BY <1>4, <2>1 DEF Estimate
  <2>3. PICK l \in Locals : /\ l = [[Idle EXCEPT !.kind = kind, !.date = f, !.floor = f] EXCEPT !.date = today]
                            /\ l.kind = kind
    <3> DEFINE m == [Idle EXCEPT !.kind = kind, !.floor = f]
               n == [m EXCEPT !.date = today]
    <3>1. m \in Locals /\ m.kind = kind
      BY <1>1, <2>1, IdleTyped DEF Locals
    <3>2. n \in Locals /\ n.kind = kind
      BY <1>1, <3>1 DEF Locals
    <3>3. n = [[Idle EXCEPT !.kind = kind, !.date = f, !.floor = f] EXCEPT !.date = today]
      BY IdleTyped DEF Locals
    <3> HIDE DEF n
    <3> QED BY <3>2, <3>3
  <2>4. PICK a \in Answers : a = NoAnswer /\ a.is = "none"
    BY AnswersTyped
  <2>5. Return(r, l, a)
    BY <2>2, <2>3, <2>4
  <2>6. DoneOK(l, a)'
    BY <2>3, <2>4 DEF DoneOK
  <2> QED BY <1>1, <2>5, <2>6, TypedNow, ReturnSteps, StillKeeps
<1> QED BY <1>3, <1>4

LEMMA ValueOK ==
  ASSUME MarketConstantsOK, MarketInv, NEW r \in Requests, Value(r)
  PROVE  MarketInv'
<1> DEFINE latest == LatestCached(today)
           locals == [Idle EXCEPT !.kind = "value", !.date = today, !.floor = latest]
<1>1. Still /\ today \in Days /\ "value" \in Kinds /\ today \in Nat /\ today > 0
  BY TypedNow, DaysAreNumbers DEF Value, Still, Kinds, Days
<1>2. latest \in Days \cup {0} /\ latest <= today
  BY <1>1, LatestCachedOK
<1>3. CASE latest > 0
  <2>1. latest \in Days /\ AskRate(r, [locals EXCEPT !.date = latest])
    BY <1>2, <1>3 DEF Value
  <2>2. PICK d \in Days : d = latest
    BY <2>1
  <2>3. [[Idle EXCEPT !.kind = "value", !.date = today, !.floor = d] EXCEPT !.date = d]
        = Begun("value", d, d)
    BY IdleTyped DEF Locals, Begun
  <2>4. AskRate(r, Begun("value", d, d))
    BY <2>1, <2>2, <2>3
  <2> HIDE DEF latest
  <2> QED BY <1>1, <1>2, <2>2, <2>4, RateOfLatest
<1>4. CASE ~(latest > 0)
  <2>1. latest = 0
    BY <1>2, <1>4, DaysAreNumbers
  <2>2. PICK d \in Days : d = today
    BY <1>1
  <2>3. PICK l \in Locals :
          /\ l = Begun("value", d, 0)
          /\ l.kind = "value" /\ l.date = d /\ l.floor = 0 /\ l.offset = 0 /\ l.first = None
    <3>1. 0 \in Days \cup {0}
      OBVIOUS
    <3> QED BY <1>1, <3>1, BegunTyped
  <2>4. Await(r, "price", l) /\ UNCHANGED answer
    BY <1>4, <2>1, <2>2, <2>3 DEF Value, Begun
  <2>5. WaitOK("price", l)'
    BY <1>1, <2>2, <2>3 DEF WaitOK, Still
  <2> QED BY <1>1, <2>4, <2>5, TypedNow, AwaitSteps, StillKeeps DEF Waiting
<1> QED BY <1>3, <1>4

(* What a request knows while its price is on the way.                     *)
LEMMA AtPrice ==
  ASSUME MarketConstantsOK, MarketInv, NEW r \in Requests, req[r].at = "price"
  PROVE  /\ WaitOK("price", req[r]) /\ req[r] \in Locals
         /\ req[r].date \in Days /\ req[r].date \in Nat /\ req[r].date <= today /\ today \in Nat
         /\ req[r].offset \in 0..Back /\ req[r].offset \in Nat /\ Back \in Nat
         /\ req[r].floor \in Days \cup {0} /\ req[r].floor \in Nat
         /\ req[r].date - req[r].offset \in Days
         /\ req[r].date - req[r].offset \in 1..today
<1>1. WaitOK("price", req[r]) /\ req[r] \in Locals
  BY TypedNow DEF MarketInv, ReqOK, Waiting, Typed
<1>2. /\ req[r].offset \in 0..Back /\ req[r].floor \in Days \cup {0}
      /\ req[r].date \in 1..today /\ req[r].offset < req[r].date
  BY <1>1 DEF Locals, WaitOK
<1>3. today \in Days /\ Back \in Nat /\ today \in Nat
  BY TypedNow, DaysAreNumbers
<1>4. req[r].date \in Nat /\ req[r].date <= today /\ req[r].date >= 1 /\ req[r].offset \in Nat
  BY <1>2, <1>3
<1>5. req[r].date - req[r].offset \in 1..today
  BY <1>2, <1>3, <1>4
<1>6. 1..today \subseteq Days
  BY <1>3, DaysAreNumbers DEF Days
<1>7. req[r].floor \in Nat
  BY <1>2, DaysAreNumbers
<1> QED BY <1>1, <1>2, <1>3, <1>4, <1>5, <1>6, <1>7

LEMMA NoPriceOK ==
  ASSUME MarketConstantsOK, MarketInv, NEW r \in Requests, NoPrice(r)
  PROVE  MarketInv'
<1>1. Still /\ req[r].at = "price" /\ WalkBack(r)
  BY DEF NoPrice, Still
<1>2. Forward /\ today' = today /\ prices' = prices /\ UNCHANGED rates
  BY <1>1, StillForward DEF Still
<1>3. PICK l \in Locals : l = req[r]
  BY TypedNow DEF Typed
<1>4. /\ WaitOK("price", l) /\ l.date \in Days /\ l.date \in Nat /\ l.date <= today
      /\ l.offset \in 0..Back /\ l.offset \in Nat /\ Back \in Nat /\ today \in Nat
      /\ l.floor \in Days \cup {0} /\ l.floor \in Nat
  BY <1>1, <1>3, AtPrice
<1>5. l.offset < l.date /\ l.floor < l.date - l.offset /\ l.first = None /\ l.date \in 1..today
  BY <1>4 DEF WaitOK
<1>6. PICK n \in Nat : n = l.offset + 1
  BY <1>4
<1>7. l.floor <= l.date - n /\ l.date - n \in Nat
  BY <1>4, <1>5, <1>6
<1>8. CASE n > Back \/ l.date - n < 1
  <2>1. PICK a \in Answers : a = NoAnswer /\ a.is = "none"
    BY AnswersTyped
  <2>2. Return(r, l, a)
    BY <1>1, <1>3, <1>6, <1>8, <2>1 DEF WalkBack
  <2>3. l.floor = 0 \/ l.floor < l.date - Back
    <3>1. CASE n > Back
      <4>1. l.offset = Back
        BY <1>4, <1>6, <3>1
      <4> QED BY <1>5, <4>1
    <3>2. CASE l.date - n < 1
      BY <1>4, <1>7, <3>2
    <3> QED BY <1>8, <3>1, <3>2
  <2>4. DoneOK(l, a)'
    BY <2>1, <2>3 DEF DoneOK
  <2> QED BY <1>1, <2>2, <2>4, TypedNow, ReturnSteps, StillKeeps
<1>9. CASE ~(n > Back \/ l.date - n < 1)
  <2>1. n \in 0..Back /\ n < l.date /\ l.date - n \in 1..today
    BY <1>4, <1>5, <1>6, <1>7, <1>9
  <2>2. PICK d \in Days : d = l.date - n
    BY <2>1, TypedNow, DaysAreNumbers DEF Days
  <2>3. CASE Fallback(d)
    <3>1. IF locked THEN Fail(r, "locked") ELSE Settle(r, d)
      BY <1>1, <1>3, <1>6, <1>9, <2>2, <2>3 DEF WalkBack
    <3>2. CASE locked
      BY <1>1, <3>1, <3>2, TypedNow, FailSteps, StillKeeps
    <3>3. CASE ~locked
      <4>1. d \in 1..today /\ req[r].first = None /\ d >= req[r].floor
        BY <1>3, <1>4, <1>5, <1>7, <2>1, <2>2
      <4>2. Steps(r)
        BY <1>2, <3>1, <3>3, <4>1, TypedNow, SettleSteps
      <4> QED BY <1>1, <4>2, StillKeeps
    <3> QED BY <3>2, <3>3
  <2>4. CASE ~Fallback(d)
    <3> DEFINE m == [l EXCEPT !.offset = n]
    <3>1. m \in Locals /\ m.offset = n /\ m.date = l.date /\ m.floor = l.floor /\ m.first = None
      BY <1>5, <2>1 DEF Locals
    <3>2. PICK k \in Locals : k = m /\ k.offset = n /\ k.date = l.date /\ k.floor = l.floor /\ k.first = None
      BY <3>1
    <3>3. Await(r, "price", k) /\ UNCHANGED answer
      BY <1>1, <1>3, <1>6, <1>9, <2>2, <2>4, <3>2 DEF WalkBack
    <3>4. l.floor # 0 => Cached(l.floor)
      BY <1>4 DEF WaitOK
    <3>5. l.floor < l.date - n
      <4>1. d >= 1 /\ ~Cached(d)
        BY <2>1, <2>2, <2>4 DEF Fallback
      <4>2. l.floor # d
        BY <3>4, <4>1
      <4> QED BY <1>4, <1>6, <1>7, <2>2, <4>2
    <3>6. WaitOK("price", k)'
      BY <1>2, <1>5, <2>1, <3>2, <3>4, <3>5 DEF WaitOK, Cached
    <3> QED BY <1>1, <3>3, <3>6, TypedNow, AwaitSteps, StillKeeps DEF Waiting
  <2> QED BY <2>3, <2>4
<1> QED BY <1>8, <1>9

LEMMA PriceArrivesOK ==
  ASSUME MarketConstantsOK, MarketInv, NEW r \in Requests, PriceArrives(r)
  PROVE  MarketInv'
<1>1. /\ req[r].at = "price"
      /\ UNCHANGED <<today, closed, policy, rates, locked, offline>>
  BY DEF PriceArrives
<1>2. PICK d \in Days : d = req[r].date - req[r].offset /\ d \in 1..today
  BY <1>1, AtPrice
<1>3. PICK v \in Quote(d) :
        IF locked THEN Fail(r, "locked") /\ UNCHANGED prices
        ELSE prices' = [prices EXCEPT ![d] = v] /\ Settle(r, d)
  BY <1>2 DEF PriceArrives
<1>4. v \in Values
  BY <1>3 DEF Quote, Values
<1>5. CASE locked
  BY <1>1, <1>3, <1>5, TypedNow, FailSteps, StillKeeps DEF Still
<1>6. CASE ~locked
  <2>1. prices' \in [Days -> Values \cup {None}] /\ \A x \in Days : Cached(x) => Cached(x)'
    <3>1. v # None /\ prices' = [prices EXCEPT ![d] = v] /\ prices \in [Days -> Values \cup {None}]
      BY <1>3, <1>4, <1>6, TypedNow, DaysAreNumbers
    <3>2. prices' \in [Days -> Values \cup {None}]
      BY <1>4, <3>1
    <3>3. \A x \in Days : prices'[x] = IF x = d THEN v ELSE prices[x]
      BY <3>1
    <3> QED BY <3>1, <3>2, <3>3 DEF Cached
  <2>2. Forward /\ UNCHANGED <<today, rates>> /\ SpotOK'
    BY <1>1, <2>1, Onward
  <2>3. req[r].first = None /\ d >= req[r].floor
    <3>1. WaitOK("price", req[r]) /\ req[r].floor \in Nat /\ d \in Nat
      BY <1>1, <1>2, AtPrice, DaysAreNumbers
    <3> QED BY <1>2, <3>1 DEF WaitOK
  <2>4. Settle(r, d)
    BY <1>3, <1>6
  <2>5. Steps(r)
    BY <1>2, <2>2, <2>3, <2>4, TypedNow, SettleSteps
  <2> QED BY <1>1, <2>1, <2>2, <2>5, TypedNow, StepsKeep DEF rates
<1> QED BY <1>5, <1>6

LEMMA FetchRangeOK ==
  ASSUME MarketConstantsOK, MarketInv, NEW r \in Requests, FetchRange(r)
  PROVE  MarketInv'
<1>1. Still /\ today \in Days /\ today \in 1..today
  BY TypedNow, DaysAreNumbers DEF FetchRange, Still, Days
<1>2. PICK l \in Locals :
        l = [Idle EXCEPT !.kind = "range", !.date = today] /\ l.date = today /\ l.kind = "range"
  <2> DEFINE n == [Idle EXCEPT !.kind = "range", !.date = today]
  <2>1. n \in Locals /\ n.date = today /\ n.kind = "range"
    BY <1>1, IdleTyped DEF Locals, Kinds
  <2>2. n = [Idle EXCEPT !.kind = "range", !.date = today]
    OBVIOUS
  <2> HIDE DEF n
  <2> QED BY <2>1, <2>2
<1>3. Await(r, "range", l) /\ UNCHANGED answer
  BY <1>2 DEF FetchRange
<1>4. WaitOK("range", l)'
  BY <1>1, <1>2 DEF WaitOK, Still
<1> QED BY <1>1, <1>3, <1>4, TypedNow, AwaitSteps, StillKeeps DEF Waiting

LEMMA RangeArrivesOK ==
  ASSUME MarketConstantsOK, MarketInv, NEW r \in Requests, RangeArrives(r)
  PROVE  MarketInv'
<1>1. UNCHANGED <<today, closed, policy, rates, locked, offline>>
  BY DEF RangeArrives
<1>2. PICK got \in SUBSET {d \in Days : d <= req[r].date /\ Quote(d) # {}} :
        IF locked /\ got # {}
        THEN Fail(r, "locked") /\ UNCHANGED prices
        ELSE /\ prices' = [d \in Days |-> IF d \in got THEN CHOOSE v \in Quote(d) : TRUE ELSE prices[d]]
             /\ Return(r, req[r], NoAnswer)
  BY DEF RangeArrives
<1>3. CASE locked /\ got # {}
  BY <1>1, <1>2, <1>3, TypedNow, FailSteps, StillKeeps DEF Still
<1>4. CASE ~(locked /\ got # {})
  <2>1. PICK l \in Locals : l = req[r]
    BY TypedNow DEF Typed
  <2>2. PICK a \in Answers : a = NoAnswer
    BY AnswersTyped
  <2>3. req[r].at = "range" /\ Return(r, l, a)
    BY <1>2, <1>4, <2>1, <2>2 DEF RangeArrives
  <2>4. \A d \in got : (CHOOSE v \in Quote(d) : TRUE) \in Values /\ None \notin Values
    <3> SUFFICES ASSUME NEW d \in got PROVE (CHOOSE v \in Quote(d) : TRUE) \in Values
      BY DaysAreNumbers
    <3>1. Quote(d) # {} /\ Quote(d) \subseteq Values
      BY <1>2 DEF Quote, Values
    <3> QED BY <3>1
  <2>5. \A d \in Days : prices'[d] \in Values \/ prices'[d] = prices[d]
    BY <1>2, <1>4, <2>4
  <2>6. prices' \in [Days -> Values \cup {None}] /\ \A d \in Days : Cached(d) => Cached(d)'
    <3>1. \A d \in Days : prices'[d] \in Values \cup {None}
      BY <2>5, TypedNow
    <3>2. prices' = [d \in Days |-> prices'[d]]
      BY <1>2, <1>4
    <3>3. prices' \in [Days -> Values \cup {None}]
      BY <3>1, <3>2
    <3>4. \A d \in Days : Cached(d) => Cached(d)'
      BY <2>5, DaysAreNumbers DEF Cached
    <3> QED BY <3>3, <3>4
  <2>7. Forward /\ UNCHANGED <<today, rates>> /\ SpotOK'
    BY <1>1, <2>6, Onward
  <2>8. DoneOK(l, a)'
    <3>1. l.kind = "range" /\ a.is = "none"
      BY <2>1, <2>2, <2>3, AnswersTyped DEF MarketInv, ReqOK, Waiting, WaitOK
    <3> QED BY <3>1 DEF DoneOK
  <2>9. Steps(r)
    BY <2>3, <2>8, TypedNow, ReturnSteps
  <2> QED BY <1>1, <2>6, <2>7, <2>9, TypedNow, StepsKeep DEF rates
<1> QED BY <1>3, <1>4

-----------------------------------------------------------------------------
(* The others: the command, the clock and the key. *)

LEMMA OthersOK ==
  ASSUME MarketConstantsOK, MarketInv, UNCHANGED <<policy, rates, prices, req, answer>>, Forward,
         closed' \in BOOLEAN, locked' \in BOOLEAN, encrypted' \in BOOLEAN, locked' => encrypted',
         backfill' \in [left : SUBSET Rows, done : BOOLEAN],
         filled' \subseteq Rows, NoPlaintext', FirstOut'
  PROVE  MarketInv'
<1>1. SpotOK'
  BY TypedNow DEF rates, SpotOK, Nearest
<1>2. ASSUME NEW q \in Requests
      PROVE  ReqOK(q)'
  <2>1. ReqOK(q) /\ req[q] \in Locals /\ req'[q] = req[q] /\ answer'[q] = answer[q]
    BY TypedNow DEF MarketInv, Typed
  <2>2. req[q].date \in 1..today => req[q].date \in 1..today'
    BY DaysAreNumbers DEF Forward
  <2>3. WaitOK(req[q].at, req[q]) => WaitOK(req[q].at, req[q])'
    BY <2>1, <2>2 DEF WaitOK, Cached
  <2>4. DoneOK(req[q], answer[q]) => DoneOK(req[q], answer[q])'
    BY <2>1 DEF DoneOK, rates, Nearest
  <2> QED BY <2>1, <2>3, <2>4 DEF ReqOK
<1>3. MarketTypeOK'
  BY DEF MarketInv, MarketTypeOK, NoPlaintext, rates, Forward
<1> QED BY <1>1, <1>2, <1>3 DEF MarketInv

LEMMA OfflineOK ==
  ASSUME MarketConstantsOK, MarketInv,
         StartBackfill \/ Encrypt \/ \E row \in Rows : Fill(row) \/ FillFails(row)
  PROVE  MarketInv'
<1>1. /\ UNCHANGED <<today, closed, policy, rates, prices, locked, req, answer>>
      /\ encrypted => encrypted'
  BY DEF StartBackfill, Encrypt, Fill, FillFails
<1>2. Forward /\ FirstOut'
  BY <1>1, Onward, FirstStays DEF Cached
<1>3. /\ backfill \in [left : SUBSET Rows, done : BOOLEAN] /\ filled \subseteq Rows /\ plaintext = {}
      /\ closed \in BOOLEAN /\ locked \in BOOLEAN /\ encrypted \in BOOLEAN /\ (locked => encrypted)
  BY DEF MarketInv, MarketTypeOK, NoPlaintext
<1>4. /\ backfill' \in [left : SUBSET Rows, done : BOOLEAN] /\ filled' \subseteq Rows
      /\ NoPlaintext' /\ encrypted' \in BOOLEAN
  <2>1. CASE StartBackfill
    BY <1>3, <2>1 DEF StartBackfill, NoPlaintext
  <2>2. CASE Encrypt
    BY <1>3, <2>2 DEF Encrypt, NoPlaintext
  <2>3. ASSUME NEW row \in Rows, Fill(row)
        PROVE  /\ backfill' \in [left : SUBSET Rows, done : BOOLEAN] /\ filled' \subseteq Rows
               /\ NoPlaintext' /\ encrypted' \in BOOLEAN
    <3>1. CASE encrypted
      BY <1>3, <2>3, <3>1 DEF Fill, MayFill, NoPlaintext
    <3>2. CASE ~encrypted
      BY <1>3, <2>3, <3>2 DEF Fill, MayFill, NoPlaintext
    <3> QED BY <3>1, <3>2
  <2>4. ASSUME NEW row \in Rows, FillFails(row)
        PROVE  /\ backfill' \in [left : SUBSET Rows, done : BOOLEAN] /\ filled' \subseteq Rows
               /\ NoPlaintext' /\ encrypted' \in BOOLEAN
    BY <1>3, <2>4 DEF FillFails, NoPlaintext
  <2> QED BY <2>1, <2>2, <2>3, <2>4
<1> QED BY <1>1, <1>2, <1>3, <1>4, OthersOK

LEMMA TickOK ==
  ASSUME MarketConstantsOK, MarketInv, Tick \/ TurnKey
  PROVE  MarketInv'
<1>1. /\ UNCHANGED <<policy, rates, prices, req, answer>>
      /\ encrypted' = encrypted /\ backfill' = backfill /\ filled' = filled /\ plaintext' = plaintext
  BY DEF Tick, TurnKey, offline
<1>2. /\ backfill \in [left : SUBSET Rows, done : BOOLEAN] /\ filled \subseteq Rows /\ plaintext = {}
      /\ closed \in BOOLEAN /\ locked \in BOOLEAN /\ encrypted \in BOOLEAN /\ (locked => encrypted)
  BY DEF MarketInv, MarketTypeOK, NoPlaintext
<1>3. /\ closed' \in BOOLEAN /\ locked' \in BOOLEAN /\ (locked' => encrypted')
      /\ today' \in Days /\ today <= today' /\ FirstOut'
  <2>1. today \in Nat /\ today >= 1 /\ 1 \in Trading /\ today \in Days
    BY TypedNow, DaysAreNumbers DEF Days
  <2>2. CASE Tick
    <3>1. locked' = locked
      BY <2>2 DEF Tick, offline
    <3>2. CASE closed
      <4>1. today' = today + 1 /\ today' \in Days /\ closed' = FALSE
        BY <2>2, <3>2 DEF Tick
      <4>2. today <= today' /\ 1 < today'
        BY <2>1, <4>1
      <4> QED BY <1>1, <1>2, <2>1, <3>1, <4>1, <4>2 DEF FirstOut, Out
    <3>3. CASE ~closed
      BY <1>1, <1>2, <2>1, <2>2, <3>1, <3>3 DEF Tick, FirstOut, Out
    <3> QED BY <3>2, <3>3
  <2>3. CASE TurnKey
    BY <1>1, <1>2, <2>1, <2>3, TypedNow DEF TurnKey, FirstOut, Out
  <2> QED BY <2>2, <2>3
<1>4. Forward
  BY <1>1, <1>3, TypedNow DEF Forward, rates, Cached
<1> QED BY <1>1, <1>2, <1>3, <1>4, OthersOK DEF NoPlaintext

-----------------------------------------------------------------------------
(* The specification. *)

LEMMA MarketInitOK ==
  ASSUME MarketConstantsOK, MarketInit
  PROVE  MarketInv
<1>1. /\ today = 1 /\ closed = TRUE /\ 1 \in Days /\ 1 \in Trading
      /\ Idle \in Locals /\ Idle.at = "new" /\ NoAnswer \in Answers
  BY IdleTyped, AnswersTyped, DaysAreNumbers DEF MarketInit
<1>2. /\ \A r \in Requests : req[r] = Idle
      /\ req \in [Requests -> Locals] /\ answer \in [Requests -> Answers]
  BY <1>1 DEF MarketInit
<1>3. MarketTypeOK
  BY <1>1, <1>2 DEF MarketInit, MarketTypeOK, Locals, Answers
<1>4. FirstOut /\ SpotOK /\ NoPlaintext
  BY <1>1 DEF MarketInit, FirstOut, Out, SpotOK, NoPlaintext
<1>5. \A r \in Requests : ReqOK(r)
  BY <1>1, <1>2 DEF ReqOK, Waiting
<1> QED BY <1>3, <1>4, <1>5 DEF MarketInv

LEMMA MarketNextOK ==
  ASSUME MarketConstantsOK, MarketInv, [MarketNext]_marketVars
  PROVE  MarketInv'
<1>1. CASE UNCHANGED marketVars
  <2>1. /\ UNCHANGED <<today, closed, policy, rates, prices, locked, req, answer>>
        /\ UNCHANGED <<encrypted, backfill, filled, plaintext>>
    BY <1>1 DEF marketVars, offline
  <2>2. Forward /\ FirstOut'
    BY <2>1, Onward, FirstStays DEF Cached
  <2>3. NoPlaintext'
    BY <2>1 DEF MarketInv, NoPlaintext
  <2> QED BY <2>1, <2>2, <2>3, OthersOK DEF MarketInv, MarketTypeOK
<1>2. ASSUME NEW r \in Requests, NEW d \in Days, GetRate(r, d) \/ GetPrice(r, d)
      PROVE  MarketInv'
  BY <1>2, GetRateOK, GetPriceOK
<1>3. ASSUME NEW r \in Requests, CostVsValue(r) \/ ProjectEvents(r) \/ ProjectPlan(r)
      PROVE  MarketInv'
  BY <1>3, EstimateOK DEF CostVsValue, ProjectEvents, ProjectPlan
<1>4. ASSUME NEW r \in Requests,
             \/ Value(r) \/ FetchRange(r) \/ HmrcAnswers(r) \/ HmrcFails(r) \/ SpotAnswers(r)
             \/ SpotFails(r) \/ PriceArrives(r) \/ NoPrice(r) \/ RangeArrives(r)
      PROVE  MarketInv'
  BY <1>4, ValueOK, FetchRangeOK, HmrcAnswersOK, HmrcFailsOK, SpotAnswersOK, SpotFailsOK,
     PriceArrivesOK, NoPriceOK, RangeArrivesOK
<1>5. CASE StartBackfill \/ Encrypt \/ \E row \in Rows : Fill(row) \/ FillFails(row)
  BY <1>5, OfflineOK
<1>6. CASE Tick \/ TurnKey
  BY <1>6, TickOK
<1> QED BY <1>1, <1>2, <1>3, <1>4, <1>5, <1>6 DEF MarketNext

(* In every reachable state: the types, a daily rate in the cache is that  *)
(* of the nearest business day unless it was fetched too early, and every  *)
(* request still counts on what it has read.                               *)
THEOREM MarketInvariant ==
  ASSUME MarketConstantsOK
  PROVE  MarketSpec => []MarketInv
<1>1. MarketInit => MarketInv
  BY MarketInitOK
<1>2. MarketInv /\ [MarketNext]_marketVars => MarketInv'
  BY MarketNextOK
<1> QED BY <1>1, <1>2, PTL DEF MarketSpec

(* Types: the caches, the requests and the backfill stay of their types.   *)
THEOREM MarketTypeCorrect ==
  ASSUME MarketConstantsOK
  PROVE  MarketSpec => []MarketTypeOK
<1>1. MarketInv => MarketTypeOK
  BY DEF MarketInv
<1> QED BY <1>1, MarketInvariant, PTL

(* For every calendar and every number of requests, in whatever order      *)
(* their fetches answer or fail: two lookups of one date give one rate,    *)
(* and both prices of a purchase to come are converted at it, but for the  *)
(* rates fetched before they were out (fx/index.ts:58).                    *)
THEOREM RatesAlwaysAgree ==
  ASSUME MarketConstantsOK
  PROVE  MarketSpec => []RatesAgree
<1>1. ASSUME MarketInv
      PROVE  RatesAgree
  <2> SUFFICES ASSUME NEW r \in Requests, NEW q \in Requests, Settled(r), Settled(q),
                      req[r].date = req[q].date
               PROVE  /\ answer[r].rate = answer[q].rate
                      /\ req[r].kind = "plan" => req[r].first = answer[r].rate
    BY DEF RatesAgree
  <2>1. DoneOK(req[r], answer[r]) /\ DoneOK(req[q], answer[q])
    BY <1>1 DEF MarketInv, ReqOK, Settled, Rated
  <2>2. policy \in {"hmrc-monthly", "daily-spot"}
    BY <1>1 DEF MarketInv, MarketTypeOK
  <2> QED BY <2>1, <2>2 DEF DoneOK, Settled, Rated
<1>2. MarketInv => RatesAgree
  BY <1>1
<1> QED BY <1>2, MarketInvariant, PTL

(* For every calendar and every length of the walk back, whichever         *)
(* providers fail: a price is never older than one that the cache held     *)
(* when it was asked for (prices/cache.ts:56).                             *)
THEOREM PriceNeverOlder ==
  ASSUME MarketConstantsOK
  PROVE  MarketSpec => []PriceNotOlder
<1>1. MarketInv => PriceNotOlder
  BY DEF MarketInv, ReqOK, DoneOK, PriceNotOlder
<1> QED BY <1>1, MarketInvariant, PTL

(* For any set of rows: a backfill that waits for rates while the database *)
(* is encrypted writes none of them as plaintext (backfill-fx.ts:88).      *)
THEOREM NeverPlaintext ==
  ASSUME MarketConstantsOK
  PROVE  MarketSpec => []NoPlaintext
<1>1. MarketInv => NoPlaintext
  BY DEF MarketInv
<1> QED BY <1>1, MarketInvariant, PTL
=============================================================================
