# A verification development of the Altcoin node

The repository is a Bitcoin 0.6-era full node with wallet, miner and GUI, turned
into a coin of its own: one-minute blocks, a pseudo-random reward, scrypt with
an adaptive N. This directory models the program's core in TLA+, checks it with
TLC and proves its central invariants with TLAPS: which chain a node follows and
what its database, index, memory pool and wallet say after any reorganisation or
crash; how blocks, transactions and alerts get from node to node; how blocks are
made; and what the threads, locks, files and tables underneath may do to each
other. Line numbers without a file refer to `src/src/main.cpp`; other files are
in `src/src/` as well.

The program is C++. The files of the repository that end in `.ts` are the
interface's translations (`src/src/qt/locale`, XML without code); no
definition refers to them.

## 1. Inventory

| Part | State | Operations | Talks to | Modules |
|---|---|---|---|---|
| Block chain (1033-1963) | `mapBlockIndex` with `pprev`, `pnext`, `nHeight`, `bnChainWork`; `pindexBest` with `hashBestChain`, `nBestHeight`, `bnBestChainWork`; `bnBestInvalidWork`; `mapOrphanBlocks(ByPrev)` | `ProcessBlock`, `AcceptBlock`, `AddToBlockIndex`, `SetBestChain`, `Reorganize` | CTxDB; pool; wallets; asked by "block", the miner and `LoadBlockIndex` | `BlockTree`, `BestChain`, `BlockChain` |
| Transaction index (1071-1491) | one `CTxIndex` per transaction of the best chain | `ConnectBlock`, `DisconnectBlock`, `FetchInputs`, `ConnectInputs`, `DisconnectInputs` | inside the chain's database transaction | `TxIndex` |
| Block database (db.cpp 370-716) | `tx`, `blockindex`, `hashBestChain`, `bnBestInvalidWork`, the open transaction | `TxnBegin`, `TxnCommit`, `TxnAbort`, `LoadBlockIndex` | Berkeley DB | `BlockChain` |
| Memory pool (483-661) | `mapTx`, `mapNextTx` | `accept`, `addUnchecked`, `remove` | chain, relay, wallet, RPC, miner | `Mempool` |
| Transaction relay (171-235, 2828-2894) | `mapOrphanTransactions(ByPrev)` | the "tx" message, `AddOrphanTx`, `EraseOrphanTx`, `LimitOrphanTxSize` | pool, peers | `TxRelay` |
| Reward and difficulty (845-1011) | the chain's times and targets | `GetNextWorkRequired`, `GetMedianTimePast`, `GetBlockValue`, `ComputeMinWork` | chain, miner | `Difficulty` |
| Message handling (2400-3305) | per peer: version, inventories, queued requests | `ProcessMessages`, `SendMessages` | connections, chain, pool | `BlockSync`, `AskFor`, `TxRelay`, `Alerts` |
| Alerts (main.h 1440-1605, 2344-2394) | `mapAlerts`, each peer's `setKnown` | `ProcessAlert`, `RelayTo` | peers | `Alerts` |
| Miner (3310-3906) | the block being worked on | `CreateNewBlock`, `CheckWork`, the thread's loop | reads chain and pool, partly without `cs_main` | `BlockAssembly`, `Miner` |
| RPC getwork (altcoinrpc.cpp 2000-2100) | `mapNewBlock`, `vNewBlock`, statics | `getwork` | `CreateNewBlock`, `CheckWork` | `GetWork` |
| Connections (net.cpp, net.h) | `vNodes`, `vNodesDisconnected`, reference counts, `semOutbound`, `mapAskFor` | the socket, open and message threads; `AskFor` | message handling | `Connections`, `AskFor` |
| Address manager (addrman, db.cpp 723-815) | `mapInfo`, `mapAddr`, `vRandom`, "new" and "tried" buckets, counts; `peers.dat` | `Add`, `Good`, `GetAddr`, write and read | connections | `AddrMan`, `AddrDump` |
| Wallet (wallet.cpp, walletdb.cpp, init.cpp) | `mapWallet`, the wallet file with its locator | blocks, relayed and own transactions, rescan, resubmission | chain and pool through callbacks | `Wallet` |
| Key pool, encryption (wallet.cpp 215-292, 1403-1587; altcoinrpc.cpp 1626-1762) | `setKeyPool`, "pool", "key", "ckey", "mkey" records; the unlock time | reserve, keep, return, top up, encrypt; unlock for a time | miner, RPC, wallet | `KeyPool`, `WalletLock` |
| Database environment (db.cpp 1-370, walletdb.cpp 325-425) | `mapFileUseCount`, `mapDb` | open, close, flush, copy, rewrite, shutdown | wallet, chain | `DbEnv` |
| Locks (sync.h, sync.cpp; every `LOCK` of the program) | who owns what; `lockorders` | `EnterCritical`, `LeaveCritical`, the detector | everything | `LockOrder`, `Locks` |
| Scripts, checkpoints, start-up options, other RPC calls, IRC, utilities, GUI, vendored code | - | - | - | section 6 |

### What is hard

* **Partial failure.** `Reorganize` disconnects and connects block by block inside
  one database transaction and may fail at any of them (1527-1558). Memory
  (`pnext`, the pool, `pindexBest`) changes only after the commit. Blocks behind
  the reorganisation's target are connected afterwards, one transaction each,
  and their failure is ignored (1674-1676).
* **Crashes.** A block's index entry is committed before `SetBestChain` is tried
  (1751-1758), the wallet is told before the chain commits (1487) and writes its
  records one by one, a reserved key leaves its record when it is kept, the
  wallet file is replaced by its rewritten copy in two steps (db.cpp 297-305),
  the addresses in `peers.dat` are as old as the last write.
* **Ordering.** Blocks and transactions arrive in any order and are held until
  their predecessor or parents come; both holding areas are emptied by a loop
  over a queue that grows while it is worked off (1943-1959, 2850-2878). Batches
  of announcements follow each other only if the right one is answered (2777).
* **Two representations of one fact.** `mapNextTx` and the inputs of `mapTx`;
  `mapOrphanTransactionsByPrev` and what is held; `pnext` in memory and on disk;
  `CTxIndex::vSpent` and the blocks; `pindexBest` and `hashBestChain`;
  `setKeyPool` and the file; `vfSpent` of the wallet and the chain; five
  structures of the address manager; reference counts and who refers.
* **Concurrency.** Most handlers hold `cs_main` and do not interleave. What does:
  the wallet's resubmission when the node starts (init.cpp 761), which runs
  beside the message thread and shares the pool with it, the miner's unlocked
  reads (3735), the threads around a `CNode`, those that open and close database
  files, the relocking threads, `KeepKey`; and the locks themselves, whose order
  is not one.

`PROJECT.json` lists the hazards one by one, with their lines and the properties
that watch them.

## 2. Plan and state of it

1. *(done)* The chain: `BlockTree`, `TxIndex`, `Mempool` as values, `BestChain`
   as the abstract promise, `BlockChain` as the machine; `TxRelay` on top.
2. *(done)* What keeps and spends: `KeyPool`, `WalletLock`, `DbEnv`, `Wallet`.
3. *(done)* How blocks are made: `Difficulty`, `BlockAssembly`, `Miner`, `GetWork`.
4. *(done)* The network: `BlockSync`, `AskFor`, `Alerts`, `AddrMan`, `AddrDump`.
5. *(done)* Threads: `Connections`, `LockOrder`, `Locks`.
6. *(done)* Theorems about all of these: every safety property of a run, and
   what `BlockSync`, `AskFor` and `WalletLock`, of which the runs check liveness,
   never do. Section 5 says what is left to TLC.
7. *(left)* Models: the reward's table, misbehaviour and bans.

## 3. Modules

Where two components meet, the reader of a value takes it as open within what
its owner's module promises: `TxRelay`, `Wallet` and `Miner` have a chain that
moves as `BestChain` allows, with the index that `IndexDescribesChain`
justifies; `BlockSync` has blocks that are all valid; `Miner` takes the whole
pool into a block, and `BlockAssembly` says which part of it is taken.

| Module | Models | An action is |
|---|---|---|
| `BlockTree` | `pprev`, `nHeight`, `bnChainWork`: constants, because a header fixes them | - |
| `TxIndex` | `CTxIndex` and what `ConnectBlock` and `DisconnectBlock` do; `TxIndexFor` is the reference, read off a chain | - |
| `Mempool` | `CTxMemPool` as a value, the conditions of `accept`, the pool's part of `Reorganize` | - |
| `BestChain` | the abstract promise: blocks become known after their predecessor; the best chain moves to a valid one of more work, or back when the node starts | a change of the committed chain |
| `BlockChain` | `ProcessBlock` down to `Reorganize`, the database transaction, death, `LoadBlockIndex` | what ends in one commit; in `Reorganize`, one block |
| `TxRelay` | the "tx" message and the held transactions | one visit of the cascade |
| `Difficulty` | retargets, the test network's rule, the median time, the compact form | one block |
| `BlockAssembly` | `CreateNewBlock`'s two loops: `COrphan`, the priority queue, the limits | one transaction taken or passed over |
| `Miner` | `AltcoinMiner` and `CheckWork`, beside a chain and a pool that move | one read or one locked section |
| `GetWork` | the blocks and header fields kept between calls of `getwork` | one call |
| `BlockSync` | "version", "getblocks", "inv", "getdata", "block" between nodes that run the same code; connections that break | one message handled, or one `SendMessages` |
| `AskFor` | `CNode::AskFor`, the sending of requests, "inv" and "tx" | one message, one request, one second |
| `Alerts` | `CAlert`, `ProcessAlert`, `RelayTo`, "version" and "alert" | one message |
| `AddrMan`, `AddrDump` | the tables and their file | one call of a method; writing and renaming are two |
| `Wallet` | `mapWallet`, `wallet.dat` and its locator, the start's rescan and resubmission | one record written, one transaction of a block told |
| `KeyPool` | the pool's two copies, `CReserveKey`, `EncryptWallet`, death | one write to the file |
| `WalletLock` | `walletpassphrase` with its threads, `walletlock`, `walletpassphrasechange` | what a thread does between two sleeps or locks |
| `DbEnv` | `CDB`, `CDBEnv`, `Rewrite`, `ThreadFlushWalletDB`, `BackupWallet`, shutdown and recovery | one section under `cs_db` |
| `Connections` | a `CNode`'s life under the opening, socket and message threads | one access without the lock, or one section under it |
| `Ordering` | a container read in its order, and some entries of a sequence in theirs, without recursion | - |
| `LockOrder` | `push_lock` and `pop_lock` under the lock wrapper | one detector call or one mutex operation |
| `Locks` | what the node's threads lock, in which nesting | taking or releasing one lock |

`MCBlockChain`, `MCTxRelay`, `MCWallet` and `MCLocks` are instances for TLC of one
module each. `MCKeysMining`, `MCThreads` and `MCNetwork` put modules that share no
state side by side: a variable `side`, fixed at the start, says which of them a
behaviour is about, and the others stay where they begin. So one run answers for
a group of components, and its number of states is the sum of theirs and not the
product.

`ChainDataProofs` holds the lemmas about blocks, index and pool that
`BlockChainProofs` (first types, pool and work, then the best chain: index,
links, refinement), `TxRelayProofs` and `WalletProofs` use. The components of one kind have their
theorems together: `WalletFileProofs` (`KeyPool`, `DbEnv`, `WalletLock`),
`MiningProofs` (`GetWork`, `Miner`, `BlockAssembly`, `Difficulty`),
`NetworkProofs` (`AddrMan`, `AddrDump`, `Alerts`, `AskFor`, `BlockSync`) and
`ThreadProofs` (`LockOrder`, `Connections`, `Locks`).

**`BlockChain`.** `mapBlockIndex` maps each indexed block to its `pnext`
(or `Null`); the other fields of `CBlockIndex` are constants. `pindexBest` stands
for `hashBestChain`, `nBestHeight` and `bnBestChainWork`, which are always
assigned together. `txdb` is what is committed, `txn` what `Reorganize` has
written since `TxnBegin`. `job` is the position of the handler that holds
`cs_main`: `setbest` (in `SetBestChain`), `postpone` (its loop to
`pindexIntermediate`), `reorganize`, `secondary` (its loop over
`vpindexSecondary`), `orphans` (`ProcessBlock`'s loop). A transaction that is
opened, written and committed in one go (`AddToBlockIndex`, `SetBestChainInner`)
is one step, because nothing of it survives a crash before the commit.

**`Mempool`.** `accept` tests `mapNextTx` without the pool's lock (516-541) and
takes it to add (606-614). Handlers are kept apart by `cs_main`;
`ReacceptWalletTransactions` has only `cs_wallet`, and `AppInit2` calls it after
`StartNode` (init.cpp 746, 761). So `ReacceptWalletTransaction` of `BlockChain`
and `TxRelay` is enabled between any two steps of a handler, and a handler's own
accept may cross it (`AddRaced`): `between` are the wallet's transactions that
pass their tests while the handler is between its tests and its `addUnchecked`,
and conflict with what it adds; `late` are those of them that are added after
it, the others come before. Either way the second overwrites the entries of the
first, and `raced` records, as history, the outpoints for which that happened. In
`Reorganize` one step stands for all of `vResurrect`, so `between` may cross any
one of the transactions taken back. That the unlocked read of `mapNextTx` is a
data race is modelled as far as it sees the map before or after a change. The
read of the index waits for pages of the handler's open transaction, which is why
`ReacceptWalletTransaction` does not take what `txn` has written.

**`TxRelay`.** `relayed` is a history variable: the transactions the handler
accepted that are still in the pool. `job` holds `vWorkQueue`, the orphans of its
head not yet visited, and `vEraseQueue`. The order of the inner loop is the order
of hashes in the code and left open here. A "tx" message that is refused, and an
orphan block that is a duplicate, change nothing and are no step.

**`Wallet`.** `pc` is what `cs_main` is held for; `writing` and `marking` are the
records that the call at hand still has to write, the transaction's first and
then those of the coins it spends; death keeps `disk` and `bestblock`.
`SetBestChain` begins at the fork (disconnecting tells the wallet nothing),
connects block after block (`at`) and tells the wallet one transaction after the
other (`told`), each under a `cs_wallet` of its own (`Free`): a round of
`ReacceptWalletTransactions` may come in between, while relayed transactions and
payments wait for `cs_main`. `scan` is
`ScanForWalletTransactions`, which holds `cs_wallet` to its end. `accept` is one
step here: what the race above adds to the pool does not change what the wallet
knows. `givenUp` is
history: the blocks that the wallet's records may name although the branch was
given up, because `ConnectBlock` failed behind them, the process died before the
commit, or a copy of the file came from another branch.

**`KeyPool`, `DbEnv`.** The two meet in the wallet file. `KeyPool` sees it as
records that are there or not after each write; `DbEnv` sees it as a file that
is open, in the log or copied. `DbEnv`'s `uses` bounds how often a thread opens
one, `inLog` are the files whose commits the log alone has.

**`BlockSync`.** `conn[<<n, m>>]` is what node `n` keeps for `m`: known
inventory, what is to be announced, what is to be asked for, the last
"getblocks", and the messages on their way (`vSend`, read in order by `m`).
Blocks that arrive together are taken in any order of their heights (`ByHeight`),
which is more than `ProcessBlock`'s queue allows. A loop that pushes, sends or
skips entries is written as the entries it takes (`Ordering!At`); only the loop
over an "inv" is one step after the other (`AfterInv`), as each sees what the
last has changed.

**`Connections`.** A reference count that is changed without the lock is a read
and a write; a node the count of which was overwritten in between is in
the history variable `lost`. A node's slot (`grant`) moves with its grant object.
`Connector` is the thread that runs the loop over `-connect` (net.cpp 1318-1335):
it opens connections by name (`OpenByName`) and without a slot, and then never
asks the address manager. `connectTo` are the names given to `-connect`, of which
there may be none; `Resolve` says what a name stands for. `FindNode(strDest)` only
looks for the name, so one peer may be there under two. `direct` marks, as
history, the nodes which that loop opened. A deleted node is `Unborn` again, at
its `place`.

**`Miner`.** `initialDownload` is what `IsInitialBlockDownload` returns (1018-1031):
true at the start, open after every new tip, which may be below the last
checkpoint or older than a day, and changing with the clock besides
(`DownloadChanges`). A thread that waits for peers waits for the end of the
download as well (3721).

**`Locks`.** Each operator of the first part stands for one function and is the
set of the sequences of locks it may come to hold. Two things that block like
locks are among them: pages of the transaction index between a write and its
commit, and the interface's event loop; whether a lock is only tried is part of
the sequence. `Role` says which thread runs what: there is one message, socket
and interface thread and one that initialises, and any number of those that serve
RPC connections, mine, relock the wallet, fill the key pool or open connections.

**Abstractions.** Blocks, transactions, hashes, keys and addresses are
identities. `BadContents` are blocks `ConnectBlock` refuses whatever the index
holds (signatures, values, sigops, reward), `Unacceptable` those `AcceptBlock`
refuses (`nBits`, time, finality, checkpoint), `BadAtLoad` those whose check may
fail when the node starts, `NonStandard` transactions that only a block can
carry, `Free` those the rate limiter may refuse. Maturity, double spends, missing
inputs and BIP30 are modelled by what they read from index and chain. Genesis'
transactions are in no index, as in the code (1622-1628). Random choices (which
held transaction is evicted, which bucket entry goes, `Shuffle`) are left open.

## 4. Runs

| Run | Instance and configuration | Question | Outcome |
|---|---|---|---|
| `reorg` | `MCBlockChain`, `BlockChain_reorg.cfg` | Is the index right, does the pool follow and does the best chain win, with two branches, a conflicting pair, a dependent pair, a transaction in both branches, invalid and unacceptable blocks? | holds, 344,968 states |
| `crash` | `MCBlockChain`, `BlockChain_crash.cfg` | Do database and memory agree after two deaths, and does the committed chain move only as `BestChain` says? | holds, 150,705 states |
| `hole` | `MCBlockChain`, `BlockChain_hole.cfg` | Does every handler end, with an invalid block among those that a death left to be tried later? | holds, 5,842 states |
| `relay` | `MCTxRelay`, `TxRelay.cfg` | Do the orphan maps agree and does the cascade reach everything? | holds, 6,969 states |
| `wallet` | `MCWallet`, `Wallet.cfg` | Does a start bring the wallet up to the chain, wherever the process died and whatever copy of the file it finds? | holds, 905,023 states |
| `keys_mining` | `MCKeysMining`, `KeysMining.cfg` | Has every key one owner and a place in the file; is a file closed, copied or replaced only when nobody uses it; is an unlocked wallet locked again? Are retargets' stretches adjoining; does an assembled block connect; is what miners and getwork's callers solve accepted; is the pool mined? | holds, 1,021,551 states |
| `network` | `MCNetwork`, `Network.cfg` | Do nodes reach the chain of whom they asked; is an announced transaction got; are peers told the alerts for them; do the address tables stay one description across restarts? | holds, 434,005 states |
| `threads` | `MCThreads`, `Threads.cfg` | Does the detector see a deadlock coming; do the node's threads not wait in a circle; are connections within their limit and not used after their deletion? | holds, 899,496 states |
| `hole_best` | `MCBlockChain`, `BlockChain_hole_best.cfg` | Is the best block in memory the committed one? | **violated** |
| `repeat` | `MCBlockChain`, `BlockChain_repeat.cfg` | Can the best chain always be disconnected? | **violated** |
| `relay_leak` | `MCTxRelay`, `TxRelay_leak.cfg` | Is the index of held transactions empty when none is held? | **violated** |
| `locks_start` | `MCLocks`, `Locks_start.cfg` | Do threads not wait in a circle while the wallet's transactions are resubmitted at the start? | **violated** |

### The properties

**Chain.** `IndexDescribesChain`: the committed index equals the one read off the
chain, `TxIndexOf[hashBestChain]`. `BestIsCommitted`, `LinksFollowBest`: between
handlers, `pindexBest` and every `pnext`, in memory and on disk, follow the
committed best chain. `MostWorkWins`: between handlers no indexed valid block has
more work. `ValidOrphansAccepted`: a held block whose predecessor is indexed sits
behind an invalid chain. `PoolIndexed`, `NoConfirmedInPool`: the pool.
All of these hold while the wallet's resubmission runs beside the handlers.
`BestOnlyImproves`, `DisconnectedReturn`: what a step may never do.
`ImplementsBestChain`: `BestChain!Spec` under the mapping `known <- DOMAIN
txdb.blockindex`, `tip <- txdb.hashBestChain`. `HandlersReturn`: liveness.

**Relay.** `OrphansIndexed`, `CascadeComplete`, `AcceptedNotHeld`; `TypeOK`
includes the limit on what is held.

**Wallet.** `ChainIsKnown`: at rest, each transaction of the chain that pays the
wallet is in `mapWallet`, with the block of the chain it is in or one of a branch
that was given up. `MarkedAsSpent`: what the chain spends is marked, and no mark
is in the file without the transaction that spends.

**Keys and files.** `PoolReadable`, `OneOwner`, `KeptForGood`, `KeysSaved`: the
pool. `LockedAgain`: liveness, see the exceptions below. `HandlesLive`,
`CopiesComplete`, `OneWholeCopy`: the files.

**Mining.** `EveryGapMeasuredOnce`, `BlockConnects`, `SolvedBlocksAccepted`,
`PoolGetsMined` (liveness), `SolvedWorkAccepted`.

**Network.** `CatchesUp`, `AnnouncedIsHad` (liveness), `AppliesIsTold`,
`Consistent`, `SurvivesRestart`.

**Threads.** `DeadlockIsReported`, for two threads: the detector compares pairs of
locks, so a circle of three threads in which no pair is taken both ways is
outside its promise. `NoDeadlock`: for circles of any length. `OutboundWithinLimit`:
`OnePerSlot` limits the connections that need a slot, `OnePerName` those of
`-connect`, which need none. `NoUseAfterDelete`.

### The violations

* `hole_best`: a node dies after a block's entry is committed and before it is
  adopted. A later block of that branch makes it the target of a reorganisation,
  the blocks behind it are postponed, one of them does not connect, and
  `SetBestChain` still sets `pindexBest` to the end of the branch (1690).
* `repeat`: BIP30 lets a coinbase repeat one that is spent. Disconnecting its block
  erases the index entry that disconnecting the spender of the first one needs.
* `relay_leak`: reading `mapOrphanTransactionsByPrev` with `operator[]` (2853)
  leaves an empty entry for every accepted transaction.
* `locks_start`: `AppInit2` starts the node (init.cpp 746) and then calls
  `ReacceptWalletTransactions` (761), which holds `cs_wallet` and reads the
  transaction index without `cs_main` (wallet.cpp 724). The message thread, in
  the middle of `ConnectBlock`, has index pages locked by its open transaction
  and wants `cs_wallet` to tell the wallet. Each waits for the other.

### Exceptions that a property states

* `raced` in `PoolIndexed`: of two transactions that spend the same output, one of
  the wallet's resubmission and one of a handler, both get into the pool when
  each tests before the other adds; the entry in `mapNextTx` is then that of the
  second, and goes with whichever leaves first. `raced` are those outpoints; all
  others keep their entry. For the same reason `DisconnectedReturn` excuses a
  transaction when the pool has a conflicting one of the wallet's afterwards.
* `direct` in `OutboundWithinLimit`: nine addresses given to `-connect` are nine
  outbound connections, one more than `MAX_OUTBOUND_CONNECTIONS`.
* `initialDownload` in `PoolGetsMined`: a node below its last checkpoint, or one
  without peers, mines nothing.
* `crossed` in `LockedAgain`: when the relocking thread locks the wallet between
  `Lock` and `Unlock` of `ChangeWalletPassphrase` (wallet.cpp 109), the wallet is
  unlocked again and nobody is left to lock it.
* `lost` in `NoUseAfterDelete`: `ConnectNode` counts its reference without
  `cs_vNodes` (net.cpp 482); a count that was overwritten protects nobody.
* `Asked` in `CatchesUp`: only one of the first peers is asked for blocks at once
  (2543-2549); a peer that was never asked may know of more.
* `AppliesToMe` in `AppliesIsTold`: an alert that is not for this node's version
  is marked as known before the peer's version has come.
* `givenUp` in `ChainIsKnown`: `ConnectBlock` tells the wallet of a transaction
  before the branch is committed (main.cpp 1486-1488), and nobody tells it
  otherwise when a block behind fails. A transaction that the old branch has too
  then names a block outside the chain and counts as unconfirmed, until the
  wallet is rescanned from below it.
* `~IsCrypted` in `PoolReadable` and `OneOwner`: encrypting erases the pool while
  keys are reserved from it.

### Bounds and why they are enough

The number of blocks, transactions, threads, peers and so on is the size of the
sets in the cfg; every other bound is a constant named `Max...`.

* `reorg` has a fork with branches that overtake each other both ways (one block
  weighs 2, so work and height disagree) and two levels of blocks behind; every
  transaction pattern that `ConnectInputs` and the pool tell apart occurs: an
  independent one, a conflicting pair, a parent and child in separate blocks, one
  in both branches, one that spends a coinbase too early or just in time. Of
  these five are the wallet's; `w` conflicts with what blocks and peers bring, so
  that it gets into the pool before, after or across a handler's accept. `crash`
  has three branches' worth of postponed blocks and two deaths, one of which may
  hit the recovery from the other. `COINBASE_MATURITY` is 1 so that maturity
  matters in a short chain.
* `relay` has a child of two parents, a grandchild, conflicts in the pool and with
  the chain, and more candidates than the two places of its holding area.
* `wallet` has two branches that overtake each other both ways and carry the same
  payment to the wallet, a payment of the wallet's own, one that a second copy of
  the wallet makes of the same coin, a block that fails behind the payment, a
  death between any two records or told transactions, any number of times, and
  an older copy put in the file's place, which the rescan must then repair. It
  has no bound but its trees and transactions. Deadlock is checked.
* `keys_mining`, keys: two reservations over a pool of one, so that it is exhausted and topped
  up while keys are held, six keys in all; two relocking threads at a time, with
  a timeout of none, a short and a longer one; two threads, of which one does not
  take `cs_wallet`, each opening a file up to three times, and two files.
* `keys_mining`, blocks: three retargets, of which the first is the exception, with a step
  back in time, a fast block and both clamps; every pool of seven transactions,
  with every assignment of fees, in which the block's size and number of
  signature operations are reached exactly; one miner thread (threads share
  nothing but the node) over a chain that moves three times, with an initial
  download that ends and may begin again; three blocks of
  getwork, two tips, a pool and a clock that change.
* `network`: three nodes in a line, one on a branch of its own, one full batch
  ahead of another, a block that is found meanwhile and connections that break
  and come back; three peers, one honest, with the clock of `AskFor` counting
  more in a second than there are announcements, as in the code; five alerts, one
  for each way of being cancelled, expired or not for this node; buckets of one
  place, so that every entry evicts another, and two restarts.
* `threads`: two threads, three locks, nested three deep, taken again or only
  tried; one message, socket, RPC, relocking, mining and interface thread (the
  proof has any number of them, those that open connections or fill the key pool,
  and a full disk); two openers with one slot, and an address that connects from
  both sides and that a name stands for, which is given to `-connect` or not.

**Deadlock** is checked in `wallet` only. Elsewhere every instance comes to an end
when its blocks, requests or restarts are used up, and a database that has a
block index but no best chain is refused for good (db.cpp 503-508). That threads
do not wait for each other is the invariant `NoDeadlock`.

### Fairness

* `BlockChain`: weak fairness of `Step`, the steps of a handler that has begun.
  The thread that holds `cs_main` runs on; nothing is assumed of what arrives.
* `WalletLock`: of a call that has begun, of time, and of each relocking thread.
* `BlockSync`: of `ProcessMessages` and `SendMessages` of each connection; the
  message thread serves every connection again and again (net.cpp 1602-1621).
* `AskFor`: of the clock, of sending what is due, of reading what an open
  connection has sent, and of the answers of honest peers only.
* `Miner`: of each thread's steps and of the minute a thread waits.

Nothing else has fairness: nobody has to call, connect, announce or find a block.

## 5. Proofs

TLAPS checks the following for all values of the constants, from the assumptions
named in the modules: `TreeAssumption` (blocks are finitely many and every branch
reaches genesis, because a header contains its predecessor's hash),
`TxAssumption` (what `CheckBlock` guarantees: one coinbase, in front, no
transaction twice), `StandardAssumption`, `ChainAssumption`, `RelayAssumption`,
`KeyPoolAssumption`, `EnvAssumption` (threads and files are finitely many),
`AddrManAssumption` (sizes are positive, the hashes that choose buckets are
functions), `AddrDumpAssumption`, `AlertsAssumption`, `LockOrderAssumption`,
`ConnectionsAssumption` (nodes and opening threads are finitely many),
`GetWorkAssumption`, `MinerAssumption`, `AssemblyAssumption`,
`DifficultyAssumption`, `WalletAssumption` (the wallet's outputs are outputs, and a
scan is not `Null`), `WalletLockAssumption` (no timeout and no call is `Null`),
`LocksAssumption` (each thread has a role), `AskForAssumption` (peers and items
are finitely many; a second counts more than there are announcements, and a
repeated request is put off by more than that; the model's time does not end
before the last request is due) and `SyncAssumption` (nobody connects to itself,
and of two nodes one connects to the other). TLC evaluates each of them in some
run.

| Theorem | Statement |
|---|---|
| `BlockChainProofs!TypeCorrect` | `Spec => []TypeOK` |
| `BlockChainProofs!PoolStaysIndexed` | `Spec => []PoolIndexed` |
| `BlockChainProofs!ConfirmedLeavesPool` | `Spec => []NoConfirmedInPool` |
| `BlockChainProofs!BestImproves` | `Spec => BestOnlyImproves` |
| `BlockChainProofs!IndexIsOfBestChain` | `NoRepeats` implies `Spec /\ SecondariesConnect => []IndexDescribesChain` |
| `BlockChainProofs!BestStaysCommitted` | likewise `[]BestIsCommitted` |
| `BlockChainProofs!LinksStayOnBest` | likewise `[]LinksFollowBest` |
| `BlockChainProofs!BestCanBeDisconnected` | likewise `[]BestChainDisconnects` |
| `BlockChainProofs!NodeImplementsBestChain` | likewise `ImplementsBestChain`, the refinement of `BestChain` |
| `BlockChainProofs!DisconnectedReturnsToPool` | likewise `DisconnectedReturn` |
| `BlockChainProofs!ValidOrphansGoIn` | likewise `[]ValidOrphansAccepted` |
| `BlockChainProofs!MostWorkWinsAtFirst` | `NoRepeats` implies `Spec => [](crashes = 0 => MostWorkWins)` |
| `BlockChainProofs!PostponedBlocksConnect` | `NoRepeats`, and `MaxCrash = 0` or all chains valid, imply `Spec => SecondariesConnect` |
| `TxRelayProofs!TypeCorrect` | `Spec => []TypeOK` |
| `TxRelayProofs!MapsAgree` | `Spec => []OrphansIndexed` |
| `TxRelayProofs!CascadeReachesAll` | `Spec => []CascadeComplete` |
| `TxRelayProofs!AcceptedIsErased` | `Spec => []AcceptedNotHeld` |
| `WalletFileProofs!TypeCorrect` | `Spec => []TypeOK` |
| `WalletFileProofs!KeysStaySaved` | `Spec => []KeysSaved` |
| `WalletFileProofs!KeysAreKeptForGood` | `Spec => []KeptForGood` |
| `WalletFileProofs!PoolIsReadable` | `KeyPoolSize # 0` implies `Spec => []PoolReadable` |
| `WalletFileProofs!KeysHaveOneOwner` | likewise `[]OneOwner` |
| `WalletFileProofs!EnvTypeCorrect` | `EnvSpec => []EnvTypeOK` |
| `WalletFileProofs!HandlesStayLive` | `EnvSpec => []HandlesLive` |
| `WalletFileProofs!AWholeCopyStays` | `EnvSpec => []OneWholeCopy` |
| `WalletFileProofs!CopiesAreComplete` | `EnvSpec => CopiesComplete` |
| `WalletFileProofs!UnlockedIsWatched` | `LockSpec => [](RelockPending /\ UnlockTimeKept)` |
| `WalletProofs!WalletInv` | `ChainsRepeatNothing` and `FirstBest = Genesis` imply `Spec => []IInv` |
| `WalletProofs!WalletKnowsTheChain` | likewise `[]ChainIsKnown` |
| `WalletProofs!SpentIsMarked` | likewise `[]MarkedAsSpent` |
| `MiningProofs!WorkIsAccepted` | `WorkSpec => []SolvedWorkAccepted` |
| `MiningProofs!MinersBlocksAccepted` | `MinerSpec => []SolvedBlocksAccepted` |
| `MiningProofs!AssembledConnects` | `AssemblySpec => []BlockConnects` |
| `MiningProofs!GapsMeasuredOnce` | `ChainSpec => []EveryGapMeasuredOnce` |
| `NetworkProofs!SpecIInv`, `TypeCorrect` | `Spec => []IInv`, `Spec => []TypeOK` |
| `NetworkProofs!StaysConsistent` | `Spec => []Consistent` |
| `NetworkProofs!BucketsStayBounded` | `Spec => []BucketsBounded` |
| `NetworkProofs!TriedStays` | `Spec => TriedNeverDeleted` |
| `NetworkProofs!ConsistentOverRestarts` | `DumpSpec => [](TypeOK /\ Consistent /\ BucketsBounded)` |
| `NetworkProofs!FileIsRead` | `DumpSpec => []SurvivesRestart` |
| `NetworkProofs!AlertsAreTold` | `AlertSpec => []AppliesIsTold` |
| `NetworkProofs!NoRequestPutOffForEver` | `AskSpec => []EveryRequestFallsDue` |
| `NetworkProofs!OwedUntilHad` | `AskSpec => NothingOwedIsLost` |
| `NetworkProofs!NoBlockLeftBehind` | `SyncSpec => []HasTheBest` |
| `NetworkProofs!NobodyAskedInVain` | `SyncSpec => []AskedIsHad` |
| `ThreadProofs!TypeCorrect` | `Spec => []TypeOK` |
| `ThreadProofs!DeadlockReported` | `Spec => []DeadlockIsReported` |
| `ThreadProofs!OutboundLimited` | `ConnSpec => []OutboundWithinLimit` |
| `ThreadProofs!DeletedIsUnused` | `ConnSpec => []NoUseAfterDelete` |
| `ThreadProofs!NodeKeepsGoing` | `Started` implies `NodeSpec => []NoDeadlock` |

**`BlockChain`.** `TypeOK` alone is not inductive: a step of `SetBestChain` relies
on where the handler stands. `HandlerOK` says that it has a block and a caller,
`BranchOK` that `pindexIntermediate` and the block connected last are on the
branch of the new block, `WalkOK` that `Reorganize` is on its way down the old
branch to the fork or up the new one. `NoConfirmedInPool` speaks of the committed
index, but `Commit` replaces it by that of the transaction; hence `PoolOK`: what
the open transaction confirms and the pool holds, or will get back, is in a block
of the new branch, and those are removed last. `PoolStaysIndexed` rests on two
lemmas of `ChainDataProofs`: `AddUncheckedIndexed`, that a transaction may overwrite
the entries of outpoints in `raced` and no others, and `AddRacedIndexed`, that
after a race both orders of adding leave all other entries right. For `BestOnlyImproves`, `WorkOK`
says that the block `SetBestChain` was called with keeps more work than the best
one until it is adopted.

**The best chain.** Two hypotheses are stated because the code needs them.
`NoRepeats`: no chain has a transaction in two of its blocks. BIP30 allows it of
a spent coinbase, and run `repeat` shows what becomes of the index.
`SecondariesConnect`: the blocks that `SetBestChain` postponed connect. The code
ignores it when one does not, and run `hole_best` shows what becomes of
`pindexBest`. `PostponedBlocksConnect` says when that cannot happen: in a process
that never died, and whenever all blocks are valid; then the theorems hold of
`Spec` alone. The invariant is `ChainInv`: the database describes one valid chain
(`CommittedOK`: index and `pnext` are read off the chain to `hashBestChain`), the
memory is that chain, or in the loop over the postponed blocks still the old one
(`MemoryOK`), the open transaction describes the chain to the block that
`Reorganize` has reached (`TransactionOK`), and the target has more work unless
`LoadBlockIndex` backs off from a bad block (`TargetOK`). That a disconnected
block leaves the index it found is a lemma of `ChainDataProofs`: connecting a
block to a valid chain's index gives the index of the longer chain, and
disconnecting it gives the shorter one's. The refinement maps `txdb` to
`BestChain`'s state: a commit is a step of it, every other step a stutter.
`MostWorkWins` needs to know what was tried: every block of the index that could
be better has been the target of `SetBestChain`, or is about to be
(`MostWorkOK`). After a death that is not so (hazard at 1757), which is why the
theorem says `crashes = 0`. `OrphansOK`: an orphan whose predecessor is in the
index waits for a block that is in the queue of `ProcessBlock`.

**`TxRelay`.** `IndexInv` adds finiteness and a consistent pool. `CascadeInv` says
why nothing is missed while the cascade runs: a held transaction whose parents
were all accepted is among those the loop will still visit (`job.todo`), or has a
parent behind the head of the queue, or is to be erased at the end. When the
queue is empty only the last is left, and `EraseOrphans` erases those.

**`KeyPool`.** `FileInv` is about the file and holds of every pool, encrypted or
not: each key is there in the one form that `mkey` calls for (`Saved`), one record
at most leads to it (`OneRecord`), and what is being written is nobody's yet
(`NothingAhead`). `IInv` is about the pool and lasts until the wallet is
encrypted. Its heart is `TopInMemory`: the greatest index in the file is in
`setKeyPool`. A new key gets the index after the greatest in memory (wallet.cpp
1446), and this is why it never takes the record of a key that a thread holds.
With `-keypool=0` the pool can be empty while a key is held, and the argument,
like the code, has nothing to stand on; hence `KeyPoolSize # 0` in the two
theorems that rest on it.

**`DbEnv`.** `CountsExact` (a file's count is the number of its users,
the rewrite among them), `RewriteAlone` (nobody uses the wallet while it is
copied), `Live` (a user's handle is the open one, and the environment is there),
`FilesInOrder` (which of the two files is whole at each point of the rewrite).

**`WalletLock`.** `UnlockTimeKept`: where a relock time is set, a thread sleeps no
longer than that. `RelockPending`: while the wallet is unlocked, or locked by
`ChangeWalletPassphrase` that will unlock it again, a time is set or a thread has
yet to look at it, unless `crossed` came in between. A thread that finds a time
set leaves the locking to the one that set it, which is why the second needs the
first. Together they are the safety half of `LockedAgain`; that time goes by and
threads run is the other half and stays with TLC.

**Mining.** `WorkInv`: every header given out names a block that is still kept and
whose predecessor it has, as long as that is the best one (`StillThere`); the
fields that `getwork` overwrites are put back from the header. `MinerInv`: what a
thread has read is not newer than the chain, in the order it read (`ReadsInOrder`),
so a block for a chain that has moved on is recognised as stale, and one that is
not was finished against the rules of its time (`FreshIsValid`). `AssemblyInv`: the
pool that `CreateNewBlock` tests against is what the block so far adds and spends.
`DifficultyInv`: the end of the stretch measured last is the last multiple of the
interval; the proof is about multiples, and needs that the first retarget goes
back one block less (958).

**`AddrMan`.** `Sound(addrman, p, q)` says that the tables describe one set of
addresses, apart from entries `p` that are counted and not yet in their bucket
and entries `q` that have left "new" and are not yet in "tried"; each helper of
the code has a lemma that takes one such state to another, and between calls
both sets are empty. It bounds the buckets: an entry
evicted from "tried" always finds a place in "new", which `Consistent` relies on.

**`AddrDump`.** `peers.dat` does not hold ids: an entry of "new" gets its rank
among the new entries, one of "tried" follows in the order of the table. Reading
gives a sound object again: a bucket of the file had room for each tried entry
when it was written, so each finds its place, and the references of the new
entries, counted again, are as many as before because a bucket is bounded.
`DumpInv` says that the object is sound and that each file holds what a sound
object wrote, wherever the writing was cut off; from that the addresses read are
those of the file, with the tables they were in.

**`Wallet`.** Two hypotheses. `ChainsRepeatNothing` is `NoRepeats` with genesis:
no chain has a transaction in two of its blocks. `FirstBest = Genesis`: the file
has a locator from the beginning; without one a start scans nothing (init.cpp
689). `Knows(w, S)` says that the wallet `w` has what the transactions `S` pay it
and marks what they take, `Places(w, S, B)` that for those it has a block in `B`.
The invariant says this three times: of the file and the chain to its locator
(`bestblock`), which a restart goes by; of memory and the chain to `best`, or as
far as a scan has come; and of memory and the new branch as far as `SetBestChain`
has told it. A commit turns the third into the second, writing the locator the
second into the first (the file lags behind memory only by what is to be
written, `FileOK`), and a start the first into the second: the chain to the fork
is known, and the scan goes on from there. A block that fails, or a death, leaves
the second as it was, with the blocks told of in `givenUp`. That a transaction's
inputs are known when it is told comes from `ConnectBlockOK`: they are in the
chain below or earlier in the block (`InputsHeard`). For the same reason
`ReacceptWalletTransactions` never finds an output that the index has as spent
and the wallet does not: of a wallet whose keys do not change, its second scan
finds nothing to do. `Backed` says that a marked output's spender is in the same
wallet, in memory and in the file, since the spender is written first.

**`Alerts`.** `AppliesIsTold` alone is not inductive, because `RelayTo` sends
nothing that is in `setKnown`: `KnownIsTold` says that what is in it, in effect and
for this node's version was told.

**`AskFor`.** A request for what was asked for before is put off by `Retry` from the
last one's time, whoever announces it. `AskInv` bounds by how much: the schedule
is ahead of the clock by one `Retry` for each announcement looked at (`spent`), and
announcements that are still on their way have not been looked at
(`PendingOK`). So a request falls due however many peers announce the same thing
(`EveryRequestFallsDue`). `NothingOwedIsLost` is about steps: what an honest peer
has announced stays in an "inv", in `mapAskFor` or in a "getdata" until the node
has it or holds it. With fairness the two make `AnnouncedIsHad`.

**`BlockSync`.** `ChainOK` is about one node: its index is a tree, its best block
has the most work of it, and neither a held block nor the one before it is in the
index. It is not enough that `ProcessBlock` tries what hangs on a new block: the
proof follows a held block's ancestors to see that the queue reaches all of those
and no other (`AcceptedKeepsChain`), and `NewBestsFacts` that blocks taken one
after the other, each compared with the best so far, end with the greatest.
`TalkOK` is about two: what a connection carries or keeps in mind is in the index
of the side that said it (`CNodes(A, B)`). An index only grows, so that what was
true when it was said stays true however late it is read (`CNodesGrow`). The loop
over an "inv" is a recursive function inside an operator; that it is defined is
proved by the least number that would fail (`AfterInvTyped`).

**`LockOrder`.** `Owned`, `Held` and `Entered` tie mutexes, lock stacks and
positions together; `Recorded` says that what a thread holds below a lock is in
`lockorders`, up to locks taken again; `OneOrder`, that as long as nothing was
complained about no pair is there both ways. Two threads that wait for each
other would have recorded one.

**`Connections`.** `SlotsAdd`: free slots, those of threads and those of nodes add
up to the limit. `OutboundPaid`: an outbound connection without a slot has a
thread that is about to give it its own, and a thread has one node only; so the
connections without a slot are no more than the threads that have one. `LoopInv`
is about the loop over `-connect`: a node it opened has a name of `connectTo`, and
while it is about to open one there is none of that name. For
`NoUseAfterDelete`, `Counted` says that `nRefCount` is at least the number of
copies of `vNodes` the node is in, and one more while it is there itself, unless a
count was overwritten; the opening threads are kept off by the quarter of an
hour alone (`LetGo`).

**`Locks`.** `Legal(role, H, a)` is the discipline in the code: whoever may wait for
a lock holds `cs_main`, or nothing but what is only ever tried (`vRecv`) and the
event loop, or waits for `cs_KeyStore`, under which nothing is taken that is not
held already; and only the interface, or a modal message about a full disk,
waits for the event loop. `Fits` says that a set of sequences keeps to it on top
of `H`, and `StacksFit` that each thread's does, with one step for each operator
of the module. From that no set of threads waits for each other: nobody in it
waits for `cs_KeyStore`, whose holder waits for nothing, so each one that is waited
for holds `cs_main`; but it waits for another, which is then waited for and holds
`cs_main` too, and only one thread does (`OneHolds`).
`Started` is the hypothesis: initialisation is over (run `locks_start` shows why),
and where the disk may be full there is no interface, since its event loop may
wait for `cs_main` while a modal message about the disk holds it (1983).

**Only model-checked.** `HandlersReturn`, `LockedAgain`, `PoolGetsMined`,
`CatchesUp` and `AnnouncedIsHad` are liveness properties, for which one needs
fairness and `ENABLED`, outside what TLAPS proves. The safety they rest on is
proved for `LockedAgain`, `AnnouncedIsHad` and `CatchesUp` as said above.
`HasTheBest`, `AskedIsHad`, `EveryRequestFallsDue`,
`NothingOwedIsLost`, `RelockPending` and `UnlockTimeKept` are defined with their
theorems; TLC found them to hold on the instances of `network` and `keys_mining`
before they were proved, and no run repeats that.

## 6. Not modelled

**Inside the modelled parts**

* Disk: failing reads, writes and commits; commits that are lost when the whole
  machine stops (`DB_TXN_WRITE_NOSYNC`, db.h 61); a block database that dies
  between the two commits of its first start (db.cpp 507).
* Chain: the reward (`GetBlockValue`; its shift is undefined from block 4194304
  on), `ComputeMinWork`, the check for spam against the last checkpoint
  (1900-1921), which only refuses blocks, `-blocknotify`, the missing limit of
  `mapOrphanBlocks` (1929), the choice whether signatures are checked, which
  reads `nBestHeight` in the middle of a reorganisation (1277).
* Wallet: coin selection, fees, accounts, the address book, `-rescan`, and the
  marks that appear when a wallet gets a key for outputs it has seen before. The
  run and the theorems are about a wallet file that has a locator: one without
  (init.cpp 689) scans nothing at a start after a death. No property speaks of
  coins that a payment of the wallet's own takes before it is in a block: a death
  between the record of the payment and the marks of its coins (wallet.cpp 1226)
  leaves them unmarked until then.
* Keys: `-keypool=0`, and a pool that is emptied while the wallet is locked
  (wallet.cpp 1444); `walletpassphrase` with a timeout that is no integer, which
  fails after the wallet has been unlocked (altcoinrpc.cpp 1702); the ciphers.
* getwork on the test network, where the target depends on the time put into the
  header (altcoinrpc.cpp 2031), and after a failed `CreateNewBlock`, when the
  pointer kept is of a deleted block (2085).
* Miner: the hashing (a choice of outcomes), starting and counting the threads,
  a block's time and extra nonce (`GetWork` has both).
* Network: "addr", "getheaders", "ping", checksums, the order of messages in a
  buffer, misbehaviour scores and bans, bytes and sockets. Branches in
  `BlockSync` are shorter than eleven blocks, so that a locator names them all.
* Address manager: which entry of a full bucket is evicted and the times that
  only decide that; `Attempt` and `Connected` change nothing else.
* `Connections` takes the quarter of an hour for which a disconnected node is kept
  to be longer than a thread needs to open a connection.
* `Locks` in `threads` has a disk that is not full: on a full one a modal message
  waits for the interface under `cs_main` (1983), which may want `cs_main`. The
  theorem `NodeKeepsGoing` covers the full disk of a node without the interface.

**Parts as a whole.** The script interpreter is sequential and pure, and its unit
tests with data files cover the opcodes: a script is valid or not. The
proof-of-work hash and signatures are cryptography. Checkpoints are a table
(`Unacceptable`). Options and the waiting for threads at shutdown, the other RPC
calls (they format what other parts hold), IRC and name lookup, numbers and
serialisation, the GUI with its translations, the vendored JSON library and GPU
miner, and packaging are I/O, data formats or presentation.
