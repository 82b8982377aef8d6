------------------------------- MODULE DbEnv -------------------------------
(***************************************************************************)
(* The database environment: one handle per file, shared by all threads,   *)
(* a count of who uses it, and the operations that close a file or put     *)
(* another in its place when nobody does (src/src/db.cpp 28-370,           *)
(* walletdb.cpp 325-425).                                                  *)
(*                                                                         *)
(* cs_db protects the counts.  What runs under it is one action, but for   *)
(* Rewrite, which is cut where the process may die.  A commit goes to the  *)
(* log; the file has it after a checkpoint.                                *)
(***************************************************************************)
EXTENDS Naturals, FiniteSets

CONSTANTS
  DbThread,     \* whoever opens databases
  Locker,     \* the threads that take cs_wallet first; only these encrypt
  File,
  wallet,     \* the file that is flushed, copied and rewritten
  NoThread,
  MaxUses     \* bound on how often a thread opens a database

ASSUME EnvAssumption ==
  /\ Locker \subseteq DbThread /\ wallet \in File /\ MaxUses \in Nat
  /\ IsFiniteSet(DbThread) /\ IsFiniteSet(File) /\ NoThread \notin DbThread

VARIABLES
  mapFileUseCount,  \* for the files with an entry, how many use them
  mapDb,            \* the open handle of a file, or Closed
  use,              \* a thread's CDB: [at, file, pdb]
  uses,             \* how often each thread opened one
  csWallet,         \* the owner of cs_wallet
  rewriting,        \* how far EncryptWallet's rewrite is
  unflushed,        \* nLastFlushed # nWalletDBUpdated
  inLog,            \* files whose newest commits are in the log alone
  copy,             \* what is on disk: the wallet, and its .rewrite file
  shutdown,         \* how far Shutdown is
  fDbEnvInit,
  up                \* the process runs

env == <<mapFileUseCount, mapDb, fDbEnvInit>>
envVars == <<env, use, uses, csWallet, rewriting, unflushed, inLog, copy, shutdown, up>>

Closed == 0
NoUse == [at |-> "out", file |-> wallet, pdb |-> Closed]
Handle == 1 .. Cardinality(DbThread) + Cardinality(File) + 1

fShutdown == shutdown # "no"

(* Rewrite keeps cs_db from its first to its last step.                    *)
CsDbFree == up /\ rewriting \in {"no", "wanted", "done"}

Count(f) == IF f \in DOMAIN mapFileUseCount THEN mapFileUseCount[f] ELSE 0
Unused(f) == Count(f) = 0
Counted(f, n) == [g \in DOMAIN mapFileUseCount \cup {f} |-> IF g = f THEN n ELSE mapFileUseCount[g]]
Dropped(fs) == [g \in DOMAIN mapFileUseCount \ fs |-> mapFileUseCount[g]]
WithoutHandles(fs) == [g \in File |-> IF g \in fs THEN Closed ELSE mapDb[g]]

EnvInit ==
  /\ mapFileUseCount = << >> /\ mapDb = [f \in File |-> Closed] /\ fDbEnvInit = TRUE
  /\ use = [t \in DbThread |-> NoUse] /\ uses = [t \in DbThread |-> 0]
  /\ csWallet = NoThread /\ rewriting = "no"
  /\ unflushed = FALSE /\ inLog = {}
  /\ copy = [file |-> "whole", rewrite |-> "none"]
  /\ shutdown = "no" /\ up = TRUE

At(t, where) == up /\ use[t].at = where
GoesTo(t, where) == use' = [use EXCEPT ![t].at = where]

-----------------------------------------------------------------------------
(* A thread and its CDB                                                    *)

LockWallet(t) ==
  /\ At(t, "out") /\ t \in Locker
  /\ uses[t] < MaxUses /\ csWallet = NoThread
  /\ csWallet' = t
  /\ GoesTo(t, "locked")
  /\ UNCHANGED <<env, uses, rewriting, unflushed, inLog, copy, shutdown, up>>

UnlockWallet(t) ==
  /\ At(t, "locked") /\ uses[t] > 0
  /\ rewriting \in {"no", "done"}
  /\ csWallet' = NoThread
  /\ GoesTo(t, "out")
  /\ UNCHANGED <<env, uses, rewriting, unflushed, inLog, copy, shutdown, up>>

MayOpen(t) ==
  /\ CsDbFree /\ uses[t] < MaxUses
  /\ At(t, IF t \in Locker THEN "locked" ELSE "out")
  /\ rewriting = "wanted" => csWallet # t

(* new Db: an address nobody has, for one that was given up may come again. *)
Fresh(pdb) == \A t \in DbThread, f \in File : use[t].pdb # pdb /\ mapDb[f] # pdb
NewDb(pdb) == Fresh(pdb) /\ \A h \in 1 .. pdb - 1 : ~Fresh(h)

(* CDB::CDB.                                                               *)
OpenDb(t, f) ==
  /\ MayOpen(t) /\ fDbEnvInit
  /\ \E pdb \in Handle :
       /\ IF mapDb[f] = Closed THEN NewDb(pdb) ELSE pdb = mapDb[f]
       /\ mapDb' = [mapDb EXCEPT ![f] = pdb]
       /\ use' = [use EXCEPT ![t] = [at |-> "open", file |-> f, pdb |-> pdb]]
  /\ mapFileUseCount' = Counted(f, Count(f) + 1)
  /\ uses' = [uses EXCEPT ![t] = @ + 1]
  /\ UNCHANGED <<fDbEnvInit, csWallet, rewriting, unflushed, inLog, copy, shutdown, up>>

(* Db::open gives an error: the count is taken back and the entry stays.   *)
OpenFails(t, f) ==
  /\ MayOpen(t) /\ fDbEnvInit /\ mapDb[f] = Closed
  /\ mapFileUseCount' = Counted(f, Count(f))
  /\ uses' = [uses EXCEPT ![t] = @ + 1]
  /\ UNCHANGED <<mapDb, fDbEnvInit, use, csWallet, rewriting, unflushed, inLog, copy, shutdown, up>>

(* "env open failed": Open does not bring a closed environment back.       *)
OpenRefused(t) ==
  /\ MayOpen(t) /\ ~fDbEnvInit /\ fShutdown
  /\ uses' = [uses EXCEPT ![t] = @ + 1]
  /\ UNCHANGED <<env, use, csWallet, rewriting, unflushed, inLog, copy, shutdown, up>>

(* A write to the wallet counts before it is made.                         *)
Write(t) ==
  /\ At(t, "open")
  /\ inLog' = inLog \cup {use[t].file}
  /\ unflushed' = (unflushed \/ use[t].file = wallet)
  /\ UNCHANGED <<env, use, uses, csWallet, rewriting, copy, shutdown, up>>

(* CDB::Close: the handle is given up and the environment checkpointed,    *)
(* which takes time and the environment, but not yet the count.            *)
CloseHandle(t) ==
  /\ At(t, "open")
  /\ GoesTo(t, "closing")
  /\ UNCHANGED <<env, uses, csWallet, rewriting, unflushed, inLog, copy, shutdown, up>>

CloseCount(t) ==
  /\ At(t, "closing") /\ CsDbFree
  /\ mapFileUseCount' = Counted(use[t].file, Count(use[t].file) - 1)
  /\ use' = [use EXCEPT ![t] = [NoUse EXCEPT !.at = IF t \in Locker THEN "locked" ELSE "out"]]
  /\ UNCHANGED <<mapDb, fDbEnvInit, uses, csWallet, rewriting, unflushed, inLog, copy, shutdown, up>>

-----------------------------------------------------------------------------
(* Closing a file that nobody uses                                         *)

FlushUnasked ==  \* mutant: the reference counts are not summed
  /\ CsDbFree /\ unflushed /\ ~fShutdown
  /\ wallet \in DOMAIN mapFileUseCount
  /\ unflushed' = FALSE
  /\ mapDb' = WithoutHandles({wallet})
  /\ inLog' = inLog \ {wallet}
  /\ mapFileUseCount' = Dropped({wallet})
  /\ UNCHANGED <<fDbEnvInit, use, uses, csWallet, rewriting, copy, shutdown, up>>

(* ThreadFlushWalletDB, two seconds after the last write, if no database   *)
(* at all is in use.                                                       *)
ThreadFlushWalletDB ==
  /\ CsDbFree /\ unflushed /\ ~fShutdown
  /\ \A f \in File : Unused(f)
  /\ wallet \in DOMAIN mapFileUseCount
  /\ unflushed' = FALSE
  /\ mapDb' = WithoutHandles({wallet})
  /\ inLog' = inLog \ {wallet}
  /\ mapFileUseCount' = Dropped({wallet})
  /\ UNCHANGED <<fDbEnvInit, use, uses, csWallet, rewriting, copy, shutdown, up>>

BackupUnflushed ==  \* mutant: the log is not checkpointed
  /\ CsDbFree /\ ~fShutdown /\ Unused(wallet)
  /\ mapDb' = WithoutHandles({wallet})
  /\ mapFileUseCount' = Dropped({wallet})
  /\ UNCHANGED <<fDbEnvInit, use, uses, csWallet, rewriting, unflushed, inLog, copy, shutdown, up>>

(* BackupWallet, when its turn has come.                                   *)
BackupWallet ==
  /\ CsDbFree /\ ~fShutdown /\ Unused(wallet)
  /\ mapDb' = WithoutHandles({wallet})
  /\ inLog' = inLog \ {wallet}
  /\ mapFileUseCount' = Dropped({wallet})
  /\ UNCHANGED <<fDbEnvInit, use, uses, csWallet, rewriting, unflushed, copy, shutdown, up>>

-----------------------------------------------------------------------------
(* EncryptWallet's rewrite                                                   *)

(* The keys are encrypted and the handle is closed; cs_wallet stays taken. *)
EncryptWalletDb(t) ==
  /\ csWallet = t /\ At(t, "locked") /\ uses[t] > 0
  /\ rewriting = "no"
  /\ rewriting' = "wanted"
  /\ UNCHANGED <<env, use, uses, csWallet, unflushed, inLog, copy, shutdown, up>>

(* The loop ends, or its turn has come: the file is closed, checkpointed   *)
(* and opened again to be copied.                                          *)
RewriteGivesUp ==
  /\ up /\ rewriting = "wanted" /\ fShutdown
  /\ rewriting' = "done"
  /\ UNCHANGED <<env, use, uses, csWallet, unflushed, inLog, copy, shutdown, up>>

RewriteBegins ==
  /\ up /\ rewriting = "wanted" /\ ~fShutdown /\ Unused(wallet)
  /\ rewriting' = "copying"
  /\ \E pdb \in Handle : NewDb(pdb) /\ mapDb' = [mapDb EXCEPT ![wallet] = pdb]
  /\ mapFileUseCount' = Counted(wallet, 1)
  /\ inLog' = inLog \ {wallet}
  /\ copy' = [copy EXCEPT !.rewrite = "part"]
  /\ UNCHANGED <<fDbEnvInit, use, uses, csWallet, unflushed, shutdown, up>>

RewriteCopied ==
  /\ up /\ rewriting = "copying"
  /\ rewriting' = "copied"
  /\ mapDb' = WithoutHandles({wallet})
  /\ mapFileUseCount' = Counted(wallet, 0)
  /\ copy' = [copy EXCEPT !.rewrite = "whole"]
  /\ UNCHANGED <<fDbEnvInit, use, uses, csWallet, unflushed, inLog, shutdown, up>>

(* fSuccess is lost: the old file stays, open.                             *)
RewriteFails ==
  /\ up /\ rewriting = "copying"
  /\ rewriting' = "done"
  /\ mapFileUseCount' = Counted(wallet, 0)
  /\ UNCHANGED <<mapDb, fDbEnvInit, use, uses, csWallet, unflushed, inLog, copy, shutdown, up>>

RewriteRemovesEarly ==  \* mutant: the old file goes before the copy is whole
  /\ up /\ rewriting \in {"copying", "copied"}
  /\ rewriting' = "removed"
  /\ copy' = [copy EXCEPT !.file = "none"]
  /\ UNCHANGED <<env, use, uses, csWallet, unflushed, inLog, shutdown, up>>

RewriteRemoves ==
  /\ up /\ rewriting = "copied"
  /\ rewriting' = "removed"
  /\ copy' = [copy EXCEPT !.file = "none"]
  /\ UNCHANGED <<env, use, uses, csWallet, unflushed, inLog, shutdown, up>>

RewriteRenames ==
  /\ up /\ rewriting = "removed"
  /\ rewriting' = "done"
  /\ copy' = [file |-> copy.rewrite, rewrite |-> "none"]
  /\ UNCHANGED <<env, use, uses, csWallet, unflushed, inLog, shutdown, up>>

-----------------------------------------------------------------------------
(* Shutdown, a crash, and the next start                                   *)

UnusedFiles == {f \in DOMAIN mapFileUseCount : Unused(f)}

(* Flush(false), with fShutdown set; StopNode; Flush(true), which closes   *)
(* the environment when no file is left.                                   *)
FlushFiles ==
  /\ CsDbFree
  /\ mapDb' = WithoutHandles(UnusedFiles)
  /\ mapFileUseCount' = Dropped(UnusedFiles)
  /\ inLog' = inLog \ UnusedFiles
  /\ UNCHANGED <<use, uses, csWallet, rewriting, unflushed, copy, up>>

Shutdown ==
  /\ shutdown = "no" /\ shutdown' = "stopping"
  /\ FlushFiles
  /\ UNCHANGED fDbEnvInit

FlushTrue ==
  /\ shutdown = "stopping" /\ shutdown' = "flushed"
  /\ FlushFiles
  /\ fDbEnvInit' = (UnusedFiles # DOMAIN mapFileUseCount)

(* exit(0), or the process dies at any other point.                        *)
Stop ==
  /\ up /\ up' = FALSE
  /\ UNCHANGED <<env, use, uses, csWallet, rewriting, unflushed, inLog, copy, shutdown>>

(* DB_RECOVER replays the log.  A node whose wallet is gone would make a   *)
(* new one; that is not followed here.                                     *)
Start ==
  /\ ~up /\ up' = TRUE /\ copy.file = "whole"
  /\ mapFileUseCount' = << >> /\ mapDb' = [f \in File |-> Closed] /\ fDbEnvInit' = TRUE
  /\ use' = [t \in DbThread |-> NoUse] /\ csWallet' = NoThread
  /\ rewriting' = IF rewriting = "no" THEN "no" ELSE "done"
  /\ unflushed' = FALSE /\ shutdown' = "no"
  /\ UNCHANGED <<uses, inLog, copy>>

-----------------------------------------------------------------------------
Rewrite ==
  \/ RewriteGivesUp \/ RewriteBegins \/ RewriteCopied
  \/ RewriteFails \/ RewriteRemoves \/ RewriteRenames

EnvNext ==
  \/ \E t \in DbThread :
       \/ LockWallet(t) \/ UnlockWallet(t) \/ OpenRefused(t)
       \/ \E f \in File : OpenDb(t, f) \/ OpenFails(t, f)
       \/ Write(t) \/ CloseHandle(t) \/ CloseCount(t) \/ EncryptWalletDb(t)
  \/ ThreadFlushWalletDB \/ BackupWallet
  \/ Rewrite \/ Shutdown \/ FlushTrue \/ Stop \/ Start

EnvSpec == EnvInit /\ [][EnvNext]_envVars

-----------------------------------------------------------------------------
EnvTypeOK ==
  /\ DOMAIN mapFileUseCount \subseteq File
  /\ mapFileUseCount \in [DOMAIN mapFileUseCount -> Nat]
  /\ mapDb \in [File -> Handle \cup {Closed}]
  /\ use \in [DbThread -> [at : {"out", "locked", "open", "closing"},
                         file : File, pdb : Handle \cup {Closed}]]
  /\ uses \in [DbThread -> 0 .. MaxUses]
  /\ csWallet \in DbThread \cup {NoThread}
  /\ rewriting \in {"no", "wanted", "copying", "copied", "removed", "done"}
  /\ unflushed \in BOOLEAN /\ inLog \in SUBSET File
  /\ copy \in [file : {"whole", "none"}, rewrite : {"none", "part", "whole"}]
  /\ shutdown \in {"no", "stopping", "flushed"} /\ fDbEnvInit \in BOOLEAN /\ up \in BOOLEAN

(* A thread's handle is the one the environment has open: no flush, backup,*)
(* rewrite or shutdown closes it while it is used (db.cpp 208-221), and    *)
(* the environment is not closed around it (db.cpp 350-358).               *)
HandlesLive ==
  \A t \in DbThread :
    /\ At(t, "open") => fDbEnvInit /\ use[t].pdb # Closed /\ use[t].pdb = mapDb[use[t].file]
    /\ At(t, "closing") => fDbEnvInit

(* A copy of the wallet has every commit in it: when BackupWallet or       *)
(* Rewrite takes it, none is in the log alone and nobody can add one, for  *)
(* writing does not take cs_db (walletdb.cpp 395-400, db.cpp 228-241).     *)
CopiesComplete ==
  [][BackupWallet \/ RewriteBegins =>
       /\ wallet \notin inLog'
       /\ \A t \in DbThread : use'[t].at \in {"open", "closing"} => use'[t].file # wallet]_envVars

(* The wallet's records are whole in one of the two files at every point   *)
(* where the process may die (db.cpp 297-305).                             *)
OneWholeCopy == "whole" \in {copy.file, copy.rewrite}
=============================================================================
