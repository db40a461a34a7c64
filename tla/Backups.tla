------------------------------- MODULE Backups -------------------------------
(***************************************************************************)
(* The copies of the database in the backups folder and what depends on    *)
(* them: manual and scheduled copies and their pruning                     *)
(* (services/backup/backups.ts, scheduler.ts, commands/backup.ts), the     *)
(* copy made before migrations (db/database.ts), and the export and import *)
(* of an archive, which replaces the data (services/backup/archive.ts,     *)
(* routes/backup.ts, commands/archive.ts).                                 *)
(*                                                                         *)
(* A copy is made in one synchronous run (VACUUM INTO, check, rename); a   *)
(* run that fails leaves nothing that is listed.  What is awaited is the   *)
(* derivation of an archive's key.  The data is the set of entries that    *)
(* were made and not replaced; entry i is the i-th one.  The clock may be  *)
(* set back; copies of one tick have names in the order they were made.    *)
(***************************************************************************)
EXTENDS Naturals, Sequences, FiniteSets

CONSTANTS
  Keep,        \* DEFAULT_BACKUP_KEEP
  Day,         \* the scheduler's 24 hours, in ticks
  Recent,      \* the ten minutes for which a pre-migration copy serves again, in ticks
  Imports,     \* the import calls, of the server and of the command line
  Versions,    \* the newest version of the app
  MaxEntries, MaxTaken, MaxTime,   \* bounds
  Nothing

BackupsConstantsOK ==
  /\ Keep \in Nat \ {0} /\ Day \in Nat /\ Recent \in Nat \ {0} /\ Versions \in Nat \ {0}
  /\ MaxEntries \in Nat /\ MaxTaken \in Nat /\ MaxTime \in Nat

VARIABLES
  now, wentBack,  \* the clock; history: whether it was ever set back
  entries,        \* the portfolio: instruments, transactions, projections, prices
  since,          \* history: for each entry ever made, when it last came in
  user,           \* setup is done
  version,        \* the migrations applied; 0 while the database is new
  files,          \* the copies in the folder
  taken,          \* history: how many copies were made
  server,         \* the server is running
  calls,          \* the imports under way
  archive         \* the archive last exported

clock == <<now, wentBack>>
data == <<entries, since, user, version>>
folder == <<files, taken>>
backupVars == <<clock, data, folder, server, calls, archive>>

Prunable == {"manual", "scheduled"}
Reasons == Prunable \cup {"pre-migration", "pre-import"}

Copies == [reason : Reasons, stamp : 0..MaxTime, number : 1..MaxTaken,
           entries : SUBSET (1..MaxEntries)]
Fresh == [at |-> "new", offline |-> FALSE, mode |-> Nothing, archive |-> Nothing]

-----------------------------------------------------------------------------
(* Copies and their pruning. *)

Pool(copies, reason) == {f \in copies : f.reason = reason}

(* The order of the names.                                                 *)
NamedAfter(f, g) == f.stamp > g.stamp \/ (f.stamp = g.stamp /\ f.number > g.number)

(* Faulty: the scheduled and the manual copies are pruned as one pool.     *)
FaultySurplus(copies, reason) ==
  {f \in Pool(copies, reason) :
     Cardinality({g \in copies : g.reason \in Prunable /\ NamedAfter(g, f)}) >= Keep}
Surplus(copies, reason) ==
  {f \in Pool(copies, reason) :
     Cardinality({g \in Pool(copies, reason) : NamedAfter(g, f)}) >= Keep}

(* pruneBackups: both pools, whichever the copy just made belongs to.      *)
Prune(copies, just) == copies \ ((UNION {Surplus(copies, r) : r \in Prunable}) \ {just})

CreateBackup(reason) ==
  LET f == [reason |-> reason, stamp |-> now, number |-> taken + 1, entries |-> entries]
  IN  /\ taken < MaxTaken /\ taken' = taken + 1
      /\ files' = IF reason \in Prunable THEN Prune(files \cup {f}, f) ELSE files \cup {f}

(* POST /backup, and the backup command, with or without a server.         *)
BackUpNow ==
  /\ CreateBackup("manual")
  /\ UNCHANGED <<clock, data, server, calls, archive>>

(* The first of its reason in listBackups.                                 *)
Latest(f, reason) ==
  /\ f \in Pool(files, reason)
  /\ \A g \in Pool(files, reason) \ {f} : NamedAfter(f, g)

(* A copy dated in the future does not count.                              *)
MadeToday == \E f \in files : Latest(f, "scheduled") /\ f.stamp <= now /\ now - f.stamp < Day

(* runIfDue, soon after the start and every hour.                          *)
RunIfDue ==
  /\ server /\ user /\ ~MadeToday
  /\ CreateBackup("scheduled")
  /\ UNCHANGED <<clock, data, server, calls, archive>>

-----------------------------------------------------------------------------
(* Starting: the copy before migrations, the migrations. *)

(* Faulty: a copy made before any migration serves for every later one.    *)
FaultyRecentCopy == Pool(files, "pre-migration") # {}
RecentCopy == \E f \in files : Latest(f, "pre-migration") /\ f.stamp + Recent > now

(* initDb of an app of version v.  Each migration is a transaction; one    *)
(* that fails ends the start, as does a copy that cannot be made.          *)
Start(v) ==
  /\ ~server /\ \A i \in Imports : ~(calls[i].at = "parse" /\ calls[i].offline)
  /\ IF v > version /\ version > 0 /\ ~RecentCopy
     THEN CreateBackup("pre-migration") ELSE UNCHANGED folder
  /\ \E reached \in version..(IF v > version THEN v ELSE version) :
       version' = reached /\ server' = (reached >= v)
  /\ UNCHANGED <<clock, entries, since, user, calls, archive>>

End(i) == calls' = [calls EXCEPT ![i] = [Fresh EXCEPT !.at = "ended"]]

Stop ==
  /\ server /\ server' = FALSE
  /\ calls' = [i \in Imports |-> IF calls[i].at = "parse" /\ ~calls[i].offline
                                 THEN [Fresh EXCEPT !.at = "ended"] ELSE calls[i]]
  /\ UNCHANGED <<clock, data, folder, archive>>

-----------------------------------------------------------------------------
(* The portfolio and its archive. *)

SetUp ==
  /\ server /\ ~user /\ user' = TRUE
  /\ UNCHANGED <<clock, entries, since, version, folder, server, calls, archive>>

Record ==
  /\ server /\ user /\ Len(since) < MaxEntries
  /\ since' = Append(since, now) /\ entries' = entries \cup {Len(since) + 1}
  /\ UNCHANGED <<clock, user, version, folder, server, calls, archive>>

(* buildArchive                                                            *)
Export ==
  /\ user /\ archive' = entries
  /\ UNCHANGED <<clock, data, folder, server, calls>>

(* POST /import/archive and the import command, which holds the data       *)
(* directory.                                                              *)
StartImport(i, offline, mode) ==
  /\ calls[i].at = "new" /\ archive # Nothing /\ user /\ offline = ~server
  /\ calls' = [calls EXCEPT ![i] =
       [at |-> "parse", offline |-> offline, mode |-> mode, archive |-> archive]]
  /\ UNCHANGED <<clock, data, folder, server, archive>>

(* Faulty: the copy is left out.                                           *)
FaultyPreImportCopy(i) == UNCHANGED folder
PreImportCopy(i) == IF calls[i].mode = "replace" THEN CreateBackup("pre-import") ELSE UNCHANGED folder

MayImport(i) == calls[i].mode = "replace" \/ entries = {}

(* importArchive: one transaction, which may fail as a whole (a reference  *)
(* to a row that the archive lacks, a locked keyring).                     *)
Import(i) ==
  /\ calls[i].at = "parse" /\ MayImport(i)
  /\ PreImportCopy(i)
  /\ \/ /\ entries' = calls[i].archive
        /\ since' = [e \in DOMAIN since |-> IF e \in entries' THEN now ELSE since[e]]
     \/ UNCHANGED <<entries, since>>
  /\ End(i)
  /\ UNCHANGED <<clock, user, version, server, archive>>

(* Refused (a damaged archive, a wrong passphrase, rows where the mode     *)
(* wants none), a copy that cannot be made, or killed.                     *)
ImportEnds(i) ==
  /\ calls[i].at = "parse"
  /\ End(i)
  /\ UNCHANGED <<clock, data, folder, server, archive>>

-----------------------------------------------------------------------------
Later ==
  /\ now < MaxTime /\ now' = now + 1
  /\ UNCHANGED <<wentBack, data, folder, server, calls, archive>>

SetBack ==
  /\ now > 0 /\ ~wentBack
  /\ now' \in 0..(now - 1) /\ wentBack' = TRUE
  /\ UNCHANGED <<data, folder, server, calls, archive>>

BackupsInit ==
  /\ now = 0 /\ wentBack = FALSE
  /\ entries = {} /\ since = <<>>
  /\ version \in 0..1 /\ user \in {FALSE, version > 0}
  /\ files = {} /\ taken = 0
  /\ server = FALSE
  /\ calls = [i \in Imports |-> Fresh]
  /\ archive = Nothing

BackupsNext ==
  \/ Later \/ SetBack \/ Stop \/ SetUp \/ Record \/ Export \/ BackUpNow \/ RunIfDue
  \/ \E v \in 1..Versions : Start(v)
  \/ \E i \in Imports :
       \/ \E offline \in BOOLEAN, mode \in {"into-empty", "replace"} : StartImport(i, offline, mode)
       \/ Import(i) \/ ImportEnds(i)

BackupsSpec == BackupsInit /\ [][BackupsNext]_backupVars

-----------------------------------------------------------------------------
(* Types.                                                                  *)
BackupsTypeOK ==
  /\ now \in 0..MaxTime /\ wentBack \in BOOLEAN
  /\ since \in Seq(0..MaxTime) /\ Len(since) <= MaxEntries
  /\ entries \subseteq DOMAIN since
  /\ user \in BOOLEAN /\ server \in BOOLEAN /\ version \in 0..Versions
  /\ files \subseteq Copies
  /\ taken \in 0..MaxTaken
  /\ calls \in [Imports -> [at : {"new", "parse", "ended"}, offline : BOOLEAN,
                            mode : {"into-empty", "replace", Nothing},
                            archive : (SUBSET (1..MaxEntries)) \cup {Nothing}]]
  /\ archive \in (SUBSET (1..MaxEntries)) \cup {Nothing}

(* archive.ts:318, "'replace' clears the existing portfolio first, so the  *)
(* caller must have taken a backup": every entry ever made is in the       *)
(* database or in a copy made before an import, also one that was made     *)
(* while an archive was being parsed.                                      *)
ReplacedKept ==
  \A e \in DOMAIN since :
    e \in entries \/ \E f \in Pool(files, "pre-import") : e \in f.entries

(* README.md:212, "the last 14 manual and the last 14 scheduled backups    *)
(* are kept": a copy is removed only when Keep later ones of its own kind  *)
(* stay, however copies of all kinds alternate; the other kinds are never  *)
(* removed.                                                                *)
RemovesSurplus ==
  \A f \in files \ files' :
    /\ f.reason \in Prunable
    /\ Cardinality({g \in Pool(files', f.reason) : g.number > f.number}) >= Keep

(* database.ts:81, "it will not change a database it could not first       *)
(* protect": migrations change only a database whose entries are in a      *)
(* pre-migration copy, except those that came in since a copy that is less *)
(* than ten minutes old.                                                   *)
MigratesCopied ==
  version' > version /\ version > 0 =>
    \E f \in Pool(files', "pre-migration") :
      /\ f.stamp + Recent > now
      /\ \A e \in entries \ f.entries : since[e] >= f.stamp

(* Both while the clock is never set back: names carry it, and a copy      *)
(* dated in the future counts as recent for ever.                          *)
CopiesProtect == [][~wentBack => RemovesSurplus /\ MigratesCopied]_backupVars
=============================================================================
