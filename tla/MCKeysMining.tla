---------------------------- MODULE MCKeysMining ----------------------------
(***************************************************************************)
(* What a node makes and keeps by itself, for TLC.  Keys: the pool and its *)
(* encryption (KeyPool), the threads that lock an unlocked wallet again    *)
(* (WalletLock) and the files (DbEnv); KeyPool has the locking and a write *)
(* as steps that may come at any time, and when they come is the matter of *)
(* the other two.  Blocks: the work they need (Difficulty), what goes into *)
(* them (BlockAssembly), the threads that look for them (Miner) and the    *)
(* work handed out over RPC (GetWork).  Each takes what it needs of the    *)
(* others' state as open or as given, so they share none; side says which  *)
(* of them a behaviour is about.                                           *)
(***************************************************************************)
EXTENDS KeyPool, WalletLock, DbEnv, Difficulty, BlockAssembly, Miner, GetWork

CONSTANTS x, y

VARIABLE side

keysVars == <<vars, lockVars, envVars>>
miningVars == <<chainVars, assemblyVars, minerVars, workVars>>
allVars == <<side, keysVars, miningVars>>

(* A step back in time, a fast one, one that allows an easy block on the   *)
(* test network, and one so long that the timespan is clamped.             *)
MCGaps == {-1, 1, 9, 50}

(* One transaction spends two outputs of another, one waits for two, one   *)
(* fills what is left of the block exactly, one spends a coinbase that may *)
(* not be spent yet, and one is not final.                                 *)
Out(h, k) == [hash |-> h, n |-> k]

MCTx == {"parent", "child", "other", "join", "large", "early", "timed"}
MCChainTx == {"coin", "base"}
MCvin == [t \in MCTx |->
  CASE t = "parent" -> {Out("coin", 0)}
    [] t = "child"  -> {Out("parent", 0), Out("parent", 1)}
    [] t = "other"  -> {Out("coin", 1)}
    [] t = "join"   -> {Out("other", 0), Out("parent", 2)}
    [] t = "large"  -> {Out("coin", 2)}
    [] t = "timed"  -> {Out("coin", 1)}
    [] t = "early"  -> {Out("base", 0), Out("other", 1)}]
MCvout == [t \in MCTx \cup MCChainTx |-> IF t = "other" THEN 2 ELSE 3]
MCBytes == [t \in MCTx |->
  CASE t = "large" -> 498100 [] t = "join" -> 26000 [] t = "other" -> 600 [] OTHER -> 300]
MCSigOps == [t \in MCTx |-> IF t = "large" THEN 19898 ELSE 1]
MCDust == [t \in MCTx |-> IF t = "child" THEN 1 ELSE 0]
MCPriority == [t \in MCTx |->
  CASE t = "parent" -> 1 [] t = "other" -> 3 [] t = "large" -> 2 [] OTHER -> 0]

(* For the miner, one transaction spends the other.                        *)
MCParent == [t \in {x, y} |-> IF t = y THEN {x} ELSE {}]

MCInit ==
  /\ Init /\ LockInit /\ EnvInit
  /\ ChainInit /\ AssemblyInit /\ MinerInit /\ WorkInit
  /\ side \in {"pool", "lock", "files", "difficulty", "assembly", "miner", "getwork"}
  /\ side # "assembly" => mapTx = {} /\ spent = {}

PoolStep == side = "pool" /\ Next /\ UNCHANGED <<side, lockVars, envVars, miningVars>>
LockStep == side = "lock" /\ LockNext /\ UNCHANGED <<side, vars, envVars, miningVars>>
FilesStep == side = "files" /\ EnvNext /\ UNCHANGED <<side, vars, lockVars, miningVars>>

DifficultyStep ==
  /\ side = "difficulty" /\ ChainNext
  /\ UNCHANGED <<side, keysVars, assemblyVars, minerVars, workVars>>

AssemblyStep ==
  /\ side = "assembly" /\ AssemblyNext
  /\ UNCHANGED <<side, keysVars, chainVars, minerVars, workVars>>

MinerStep ==
  /\ side = "miner" /\ MinerNext
  /\ UNCHANGED <<side, keysVars, chainVars, assemblyVars, workVars>>

GetWorkStep ==
  /\ side = "getwork" /\ WorkNext
  /\ UNCHANGED <<side, keysVars, chainVars, assemblyVars, minerVars>>

MCNext ==
  \/ PoolStep \/ LockStep \/ FilesStep
  \/ DifficultyStep \/ AssemblyStep \/ MinerStep \/ GetWorkStep

(* Threads run, time passes, and whoever waits for a lock gets it; nobody  *)
(* has to call.                                                            *)
MCSpec ==
  /\ MCInit /\ [][MCNext]_allVars
  /\ WF_lockVars(side = "lock" /\ ChangeWalletPassphrase)
  /\ WF_lockVars(side = "lock" /\ Tick)
  /\ \A t \in Relocker : WF_lockVars(side = "lock" /\ RelockThread(t))
  /\ \A t \in MinerThread :
       /\ WF_minerVars(side = "miner" /\ Run(t))
       /\ WF_minerVars(side = "miner" /\ MinuteOver(t))
=============================================================================
