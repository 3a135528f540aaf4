# A verification of the Denarius node

Denarius is a hybrid proof-of-work / proof-of-stake coin in the Bitcoin,
Peercoin and Namecoin line. This directory models the part of the node that
everything else relies on: the best chain, its database, the memory pool, the
way blocks get in, the locks around all of it, the name index kept beside the
chain, and the table of peer addresses. Source paths below are
relative to the repository root (`src/src/main.cpp` is written `main.cpp`).

## The system

| Part | State it keeps | Operations | Talks to |
|---|---|---|---|
| Best chain (`main.cpp`) | `mapBlockIndex`, `pnext` links, `pindexBest`, `nBestInvalidTrust`; on disk `blockindex`, `hashBestChain` | `AddToBlockIndex`, `SetBestChain`, `Reorganize`, `SetBestChainInner`, `LoadBlockIndex` | database handle, pool, wallet, names, fortunastakes |
| Transaction index (`main.cpp`, `main.h`) | `CTxIndex`: position and spent marks | `ConnectBlock`, `DisconnectBlock`, `FetchInputs`, `ConnectInputs` | database handle |
| Memory pool (`main.cpp`) | `mapTx`, `mapNextTx` | `accept`, `addUnchecked`, `remove`, `removeConflicts` | transaction index |
| Database handle (`txdb-leveldb.*`) | one `activeBatch` per `CTxDB` over a shared LevelDB | `Read`, `Write`, `Erase`, `Exists`, `TxnBegin/Commit/Abort` | LevelDB |
| Block arrival (`main.cpp`) | `mapOrphanBlocks`, `mapOrphanBlocksByPrev`, `setStakeSeen`, `setStakeSeenOrphan` | `ProcessBlock`, `AcceptBlock` | best chain, checkpoints, peers (`AskFor`) |
| Synchronized checkpoints (`checkpoints.cpp`) | `hashSyncCheckpoint`, `hashPendingCheckpoint` | `ProcessSyncCheckpoint`, `AcceptPendingSyncCheckpoint`, `CheckSync` | best chain, block arrival |
| Locks (`sync.h`) | `cs_main`, `cs_hashSyncCheckpoint`, `mempool.cs`, ... | `LOCK`, `LOCK2` | message handler thread, miners, RPC |
| Name index (`namecoin.*`) | `denariusnamesindex.dat`: a `CNameRecord` per name; `mapNamePending` | hooks `ConnectBlock`, `DisconnectInputs`, `AddToPendingNames` | called by the best chain and the pool; a database of its own |
| Address manager (`addrman.*`) | `mapInfo`, `mapAddr`, `vRandom`, `vvNew`, `vvTried`, `nNew`, `nTried` | `Add_`, `Good_`, `GetAddr_`, `Attempt_`, `Connected_`, `Select_`, reading and writing `peers.dat` | network threads |
| Fortunastakes, fortuna pool, kernel and difficulty, wallet, secure messages, sporks, alerts | see `PROJECT.json` | | not modelled |

Orphan transactions have code but no behaviour: the `tx` handler passes
`&fMissingInputs` where the function declares `bool fCheckInputs`
(`main.cpp:5045`, `main.h:553`), so `fMissingInputs` stays false, `AddOrphanTx`
is never called and the map is always empty.

What is hard about it: a reorganisation is one database transaction over many
blocks, after which memory is changed without one; it may fail or crash at any
block; part of it is postponed to later transactions; the name index is written
along the way, outside that transaction. Blocks, transactions and checkpoints
arrive in any order, and some are turned away now and needed later. One handler
changes the best chain, and another the pool, without the lock all others use.
The address table keeps the same fact in four places.

What makes each part correct: the disk always describes exactly one valid
chain; memory agrees with it between calls; the chain with the most trust wins;
the pool's two maps agree and hold nothing confirmed; a database transaction
reads its own writes and commits atomically; no block is lost in the holding
area; the checkpoint stays on the best chain; `SetBestChain` runs alone; who
holds a name depends on the chain alone; an address that worked is not
forgotten. `PROJECT.json` lists the hazards, each at its line, with the
properties that would catch it.

## Modules

```
BlockTree <- TxIndex <- MemPool <- ChainState <- MCChainState
    ^         ^    ^                   ^  BestChain <- ChainState (INSTANCE)
    |         |    TxIndexProofs <- ChainStateProofs
    |         |                ^---- BlockArrivalProofs
    |         |                ^---- NameIndexProofs -> FoldProofs
    |         +- NameIndex <- MCNameIndex, NameIndexProofs
    +------ BlockArrival <- MCBlockArrival, BlockArrivalProofs
TxnStore <- TxDB <- MCTxDB, TxDBProofs
CheckpointLocks <- MCCheckpointLocks, CheckpointLocksProofs
AddrMan <- MCAddrMan, AddrManProofs
```

**BlockTree** holds the data: all blocks that may ever arrive with parent,
height, trust and transactions, and all transactions with the outputs they
spend. A block or transaction stands for its hash. What the node checks of one
block or transaction alone (scripts, amounts, signatures) is a set, `BadBlocks`
or `NonStandard`. The outcome of the reward check is taken as given in the same
way, although the code bases the reward on the height of `pindexBest`
(`main.cpp:1633`, `main.cpp:2678`), which during a reorganisation is not that of
the block: a block near a change of the reward schedule may connect as an
extension and fail in a reorganisation, and the models do not have that. The assumptions
are what hashing and `CheckBlock` give: parents form a tree, trust grows along
it, an input names an earlier transaction, no coinbase is twice in one chain
(its script starts with the height, `main.cpp:3686`).

**TxIndex** is the database as one view: `next` (`hashNext`), `pos` and `spent`
(`CTxIndex`). `Connects`/`ConnectBlock` and `Disconnects`/`DisconnectBlock` are
the condition and the effect of the two functions. `ViewOf(v, b)` and
`ChainOK(b)` say, with no reference to how it was reached, what the view of the
chain ending in `b` is and when that chain is valid.

**MemPool** is `CTxMemPool` as a record of `mapTx` and `mapNextTx`.

**ChainState** is the state machine. `AcceptBlock` indexes a block and starts a
`SetBestChain` call if it has more trust; the call then runs in steps, one per
block disconnected (`ReorganizeDisconnect`) or connected (`ReorganizeConnect`)
on the batch, one for the commit with the change of the links, one per
transaction resurrected or deleted, one per postponed block
(`SetBestChainInner`), and the end. `ReorganizeFails`, `ExtendFails` and
`PostponedFails` are the error paths. `SyncCheckpoint` starts a call for a block
of any trust. `Crash` loses memory and batch at any point, `LoadBlockIndex`
rebuilds memory, `LoadBlockIndexRollback` also moves back to an ancestor.
`UpdateFortunastakes` changes which payees are known; the payee check is only
made on a child of `pindexBest`, as in `ConnectBlock`. A transaction of the
wallet or of RPC reaches the pool under `cs_main`, in one step between calls
(`AcceptToMemoryPool`). One of a `tx` message does not: its handler takes no
lock, so what `accept` checks (`AcceptCheck`) and what it then adds
(`AcceptAdd`) are two steps, and a block of the staking thread may come between
them. The history variable `stale` says that a call has started from a tip that
is not on disk. Coinbase and coinstake transactions of a disconnected block are
queued here and refused by `accept`; the code does not queue them. The constant
`Events` names the faults an instance has: `crash`, `rollback`, `checkpoint`,
`list`, `race`.

**BestChain** is what the rest of the node expects of all this: an index, a tip,
and a call of `SetBestChain` (`job`) that ends on the block it was called for
(`Succeed`) or where it began (`Fail`), the first only for a valid chain, the
second only for one that is not valid or whose next payee is not known.
`Interrupt` is a crash inside the call. `ChainState` implements it under the
mapping `Tip` (`AllOrNothing`): all steps of a call but its start and its end
are invisible. `BlockArrival` relies on the same: its `SetBestChain` is one step
that fails where a block of the chain is bad.

**TxDB** is `CTxDB`: handles with a batch over a shared map, batches as
sequences searched by `ScanBatch` as the code does. **TxnStore** is what it
promises: a store with transactions in which a handle sees its own changes.
`TxDB` implements it under the mapping of a batch to the last change of each
key (`PendingOf`). `Exists` inside a transaction is allowed by the constant
`ExistsInTxn`, because there the promise is broken.

**BlockArrival** is `ProcessBlock` with `AcceptBlock`, and the checkpoints.
A call runs under `cs_main`, of the message thread or of a thread of our own
(the miner, `submitblock`, an import: `Own`). `AcceptBlock` is cut into stages:
its checks up to the proof of stake, `AcceptBlockSync` (`CheckSync`),
`AddToBlockIndex` and `AcceptBlockPending`. A checkpoint message takes no
`cs_main`, so `ProcessSyncCheckpoint` runs between any two of them when the call
is a thread of our own; a call of the message thread it cannot interrupt, as it
is the same thread. The history variable `overtaken` says that a checkpoint was
written off the branch of a block that had passed `CheckSync`. The loop over
waiting blocks runs in steps too (`ProcessWaiting`, `ProcessedAll`) with
`vWorkQueue` as state; a restart may come anywhere. `CheckProofOfStake` looks the
staked output up in the transaction index and its modifier along `pnext`, both
of the best chain of the moment: `Kernel` names the block of the modifier, and
the proof holds while that block is on the best chain. What `AcceptBlock` holds
against a block whatever the state (`Refused`), and too little work since the
last checkpoint (`TooLittle`), are constants. `SetBestChain` is one step that
fails where a block of the chain is bad; that two calls of it may overlap when
one is of a checkpoint message is CheckpointLocks' matter. `asked` is what
`AskFor` requested from the peer. The node is past initial download, on the main
network, in `STRICT` mode, and not the checkpoint master.

**CheckpointLocks** is who holds which of `cs_main`, `cs_hashSyncCheckpoint` and
`mempool.cs` on the way to and inside `SetBestChain` and `CTxMemPool::accept`. A
thread is at a label between two lock operations; a scope in which it waits for
nothing is one step. `ConnectBlock` wants `cs_main`, and with it `mempool.cs`
(`CheckPayee`); `accept` wants `mempool.cs`, and inside it `cs_main` for a name
transaction (`AddToPendingNames`); `CreateNewBlock` wants both. `MaxRounds`
bounds how many blocks, transactions and orphans one call goes through.
`cs_wallet` and `cs_vNodes` are left out.

**NameIndex** is the name database as the hooks of `namecoin.cpp` update it
while `SetBestChain` disconnects and connects blocks. A record keeps the
operations of a name, where its active chain starts and when it expires.
`ConnectNames` decides which operations of a block count (`vName`, `Written`),
appends them, cuts the record at `NAMEINDEX_CHAIN_SIZE` and computes the expiry;
an operation that does not count leaves the block valid. `DisconnectNames` takes
them back. The process stops (`aborted`) at the assertion of `DisconnectInputs`
that the operation is the last one recorded, and at the one of `ReadName`, in
either hook, that the active chain starts inside the record. The history
variable `lost` collects the names of which a registration was disconnected
without bringing back the record before it: the first one, whose record is not
erased, and one whose predecessors had been cut off. Each operation is committed by itself: `Interrupted` ends a call
halfway, by a block that does not connect or by a crash, and the name index
stays where it is while the chain goes back (`drifted`). A pending operation is
checked (`AcceptCheck`) and added (`AddToPendingNames`) in two steps, as the `tx`
handler holds no lock in between; `overtaken` collects the ones whose block was
connected in the meantime. The blocks' validity is
ChainState's matter: all blocks here connect.

**AddrMan** is `CAddrMan`. Entries, the map from network address to entry, the
random order and the buckets are the code's; each operation holds `cs` and is
one step. Which entry leaves a full bucket (`IsTerrible`, the oldest of a sample)
depends on times and random numbers and is left open, so `Attempt_` and
`Connected_`, which change times and counts only, and `Select_`, which changes
nothing, are not steps. `Reload` is writing `peers.dat`, a restart and reading
it, with the renumbering that brings; what changed after the last dump and is
lost in a restart is out of its scope.

## Runs

| Run | Instance | Shows |
|---|---|---|
| `reorg` | 11 blocks on two branches (conflicting, shared and chained transactions, a coinstake, a trust tie, a double spend, a bad block under a good one), any order | all chain and pool invariants, `MostTrust`, `PoolCleaned`, `OnlyMoreTrust`; `ChainState` implements `BestChain` (`AllOrNothing`) |
| `crash` | nine of these blocks with every fault: crash anywhere, rollback at start, forced switches, a bad block, an unknown payee, racing transactions | disk, batch and links are those of a valid chain until a call starts from a tip that is not on disk; every call ends |
| `postponed` | a payee unknown first and known later | **violated**: finding 1 |
| `tx_race` | `tx` messages while blocks connect | **violated**: finding 2 |
| `pool_missing` | a pool transaction that spends one of a disconnected block | **violated**: finding 3 |
| `txdb` | two keys, one value, three handles of which two write, batches of at most two entries (`MaxBatch`), crashes | `TxDB` implements `TxnStore` |
| `arrival_order` | four branches, two blocks of one stake, one whose kernel is on one side of a fork, one that does not connect, one refused, one with too little work, any order, restarts | the holding area is consistent, loses nothing that nothing can be held against, empties when the peer answers |
| `arrival_checkpoint` | checkpoints on the lighter branch, a block of too little work and of a stake seen before on it, two refused blocks, a block of our own on the heavier branch, restarts | the checkpoint stays on the best chain unless it overtakes a block of our own past `CheckSync`, moves only to descendants, a pending one is settled |
| `locks` | message thread and two threads that create blocks, hand them in and send transactions; block, tx, version and checkpoint messages | overlap only with a checkpoint message, circular wait only with a checkpoint message or a name transaction of a `tx` message, the pool without `cs_main` only in the message thread, otherwise all locks are released |
| `names` | four names registered, updated, deleted, expired and registered by another on three branches; switches between any two blocks, calls that end halfway | the index says of every name that is not lost what a node says that saw only this chain; only the holder changes a name; a record's active chain starts at its last registration; an assertion fails only for a block with an operation that did not count or about a lost name |
| `names_erase` | the first registration of a name on a branch | **violated**: finding 4 |
| `addrman` | four services on three network addresses, two sources, buckets of one entry | the code's own `Check_` finds nothing, buckets keep their size, no tried address is forgotten, `peers.dat` gives the same table back |

Bounds. The block trees are the smallest in which every path of the code
happens: a reorganisation over two blocks with a postponed one, a failure at the
first, the middle and the postponed block, a transaction on both branches, in
one branch's block and in the other's conflict, and its child in the same block
and in a later one. For orphans, three levels and two siblings; each premise of
`OrderIndependent` and `OrphansConnect` is needed in the run: a block of the
instance violates the property without it. For locks, two rounds (`MaxRounds`)
let a call connect two blocks, or one and then put a transaction back or go on to
an orphan; which locks are held depends on the label and the message, as the proof shows,
so more rounds bring nothing new. Two batch
entries let a key be written and erased in either order. For names, a history of
four blocks in which one record is already cut (`NAMEINDEX_CHAIN_SIZE` is 3
instead of 1000), a branch that leaves before the registration that follows the
cut and registers the name again, an active chain longer than the limit, and an
`INT_MAX` of 12, so that an update reaches the cap of the expiry. For addresses, `MaxId` bounds `nIdCount`; five numbers let an address be
thrown out and come back, and `Reload` makes numbers free again; new and tried
buckets of one entry make every insertion meet a full bucket. The trees are
finite: the chain instances end when all blocks and transactions are in, and
those configurations say `CHECK_DEADLOCK FALSE`. `locks` says so because the
threads really may wait for each other.

Fairness. `ChainState`: the thread in `SetBestChain` keeps running.
`BlockArrival`: a call of `ProcessBlock` runs on (weak fairness of `Call`), and
the peer answers what it is asked (`OrphansConnect`, `PendingSettled` are about a
peer that has the blocks). The answer is handled when the message thread gets
`cs_main`, which calls of our own may hold in between, so its fairness is strong
(`Answer`). `PendingSettled` is asked of checkpoints of one chain: a pending
checkpoint on a branch that conflicts with the current one is never settled.
`CheckpointLocks`: every thread is scheduled (weak fairness of `Step`), and one
that waits for a lock inside a call gets it if it is free again and again (strong
fairness of `TakesLock`), as a mutex gives it; loops are bounded by `MaxRounds`,
as the lists they go through are finite. Nothing is assumed about who starts a
handler first.

## Findings

1. `main.cpp:3331`. A postponed block that fails leaves the loop with `break`,
   and `SetBestChain` still makes the failed chain's tip `pindexBest`. The disk
   stays at the parent. The run reaches it with a block refused for its payee
   while it extends the tip and connected later by a reorganisation, or the
   other way round.
2. `main.cpp:5045`. The `tx` handler adds a transaction without `cs_main`
   although `accept` asserts the lock; a block with that transaction that is
   connected in between leaves it in the pool, confirmed.
3. `main.cpp:3236`. A reorganisation does not remove from the pool what spends a
   transaction that is neither on the new branch nor back in the pool;
   `CreateNewBlock` calls that impossible.
4. `namecoin.cpp:2422`. The record of a name whose only registration is
   disconnected is erased inside a transaction that is never committed.

Deviations that the properties except, or that no comment of the code denies,
have no run of their own:

- `main.cpp:3851`. Orphans of a block that `AcceptBlock` refuses, or that is
  indexed but does not connect, are not looked at again. `OrphansWait` excepts
  the ones behind a block that does not connect; `OrderIndependent` and
  `OrphansConnect` also those behind one that is refused, has too little work, or
  has its kernel off the best chain, and say that all others get out.
- `main.cpp:3664`. A stake is proved against the best chain of the moment. A
  branch that has its kernel after the fork cannot be followed by a node whose
  best chain is another one until, by its blocks before that kernel's user, it is
  the best chain; a checkpoint does not help, as its block is never indexed.
  `OrderIndependent` excepts such blocks where a block of a branch without the
  kernel is indexed (`KernelSettled`), `OrphansConnect` and `PendingSettled` where
  there may be one (`Sound`).
- `main.cpp:3677`. A checkpoint may be written between `CheckSync` and
  `AddToBlockIndex` of a heavier block of another branch that a thread of our own
  hands in; the block then takes the best chain off the checkpoint.
  `CheckpointOnBestChain` excepts this (`overtaken`); the run reaches it.
- `txdb-leveldb.h:156`. `Exists` answers true for a key the transaction erased.
  No caller asks inside a transaction today.
- `main.cpp:4982`. A checkpoint message runs `SetBestChain` without `cs_main`,
  and takes `cs_hashSyncCheckpoint` before `cs_main` where blocks take them the
  other way round. `OnlyCheckpointsOverlap` says that nothing else makes two calls
  of `SetBestChain` overlap.
- `main.cpp:1081`. For a name transaction `accept` takes `cs_main` inside
  `mempool.cs`; `ConnectBlock` (`main.cpp:2748`) and `CreateNewBlock`
  (`miner.cpp:207`) take them the other way round. Who has `cs_main` before is
  safe; the `tx` handler has not. `OnlyNetDeadlocks` says that this and the
  checkpoint message are the only ways to a deadlock, and `LocksReleased` that
  short of them no lock is kept.
- `main.cpp:5045`, again. The race of finding 2 also leaves a confirmed name
  operation pending; `PendingUnconfirmed` excepts what was added after its block
  was connected (`overtaken`).
- `main.cpp:3266`. An extension of the chain does not remove conflicts from the
  pool; only a reorganisation does (`PoolCleaned`).
- `addrman.cpp:140`. `SelectTried` swaps positions in a way that does not always
  name the oldest of its sample. Everything shown holds whichever entry goes.
- `namecoin.h:84`. A registration that is disconnected after the ones before it
  were cut off (the record had 1000 operations) leaves a record whose active
  chain starts behind its end, and the next read of it ends the process.
  `ActiveChainStart` says that this is the only way to such a record, and
  `AbortOnlyOnRefused` and `NamesPathIndependent` except such names (`lost`).
- `namecoin.cpp:2031`. The rebuild of the name file reads `pindexBest` while it
  runs. It is not modelled.

## What is proved

TLAPS checks these for every value of the constants that meets the assumptions.

- `TypeCorrect`, `PoolCorrect` (ChainStateProofs). The type invariant, for any
  tree, any transactions and all faults, and `PoolInverse`, with all faults but
  racing `tx` messages (finding 2 is why). The pool proof rests on lemmas of
  TxIndexProofs and on the fact that what `remove` takes out is what it clears
  in `mapNextTx`.
- `DiskSafe`: `SoundUntilStale` and `MemoryFollowsDisk` with every fault;
  `MemorySafe`: `MemoryMatchesDisk`, and `ChainSafe`: `DiskMatchesTip`,
  `BestChainValid`, `BatchMatchesTip` and `TipDisconnects`, both as long as no
  postponed block fails (finding 1 is why). None of them is inductive.
  `DiskInv` adds that the index is closed under parents, that the links in
  memory are those of the chain of `pindexBest` (`LinksMatch`) and where a call
  under way stands (`CallOK`): which phase has which tip, batch and chain. The
  heart is in TxIndexProofs: connecting a block to the view of its parent's
  chain gives the view of its own chain, which is valid (`ConnectBlock` and BIP30
  with the coinbase heights make every transaction of a connected block new),
  and disconnecting gives the parent's view back.
- `MoreTrustOnly`: `OnlyMoreTrust`, where nothing forces a lighter chain (a
  checkpoint, a roll-back at start-up). `TrustInv` says that the tip on disk
  never has more trust than where the call under way is taking it.
- `PoolSafe`: `PoolUnconfirmed` and `PoolCleaned`, with all faults but racing
  `tx` messages. In the middle of a call both are false; `FreshInv` and
  `CleanInv` say that what is confirmed, or conflicts with the new branch, is
  still queued in `vDelete`, and that nothing is taken out before the last
  transaction has been resurrected.
- `HeaviestWins`: `MostTrust`, while the node runs on, knows all payees and no
  postponed block fails. `HeavyInv` says that every good chain of the index other
  than the call's target has at most the trust of the tip; the step that needs an
  argument is that a call fails only on a chain that is not good, which is
  `ValidConnects` of TxIndexProofs: `ConnectBlock` refuses no block of a good
  chain. `Events` is restricted to racing `tx` messages: after a crash, a
  checkpoint, a roll-back or an unknown payee a heavier chain may stay aside.
- `SetBestChainAtomic`: `AllOrNothing`, the refinement of `BestChain`, with every
  fault as long as no postponed block fails. Three steps need an invariant. A
  failure has to mean a chain that is not valid or an unknown payee
  (`FailsOnBad`, from `CallOK` and `ValidConnects`); success has to mean a valid
  one (`DiskInv`); and what a crash finds on disk has to lie on the way to the
  target, with more trust than the old tip (`CommitInv`): a call commits once
  for the reorganisation and once more per postponed block. A failed postponed
  block breaks the refinement: the call ends on a tip whose chain is not valid.
- `OrderSafe` (BlockArrivalProofs): `OrderIndependent`, where there are no
  checkpoints. `OrderInv` says that every seen stake belongs to a block that was
  received, so that a fit block is never given up for its stake; that
  the tip has the most trust of the indexed blocks that connect, so that the
  kernel of a fit block, which is on its branch and below every fork of the index,
  is on the best chain when the block is looked at; and that a fit block received
  is indexed, held, or the one the call is at. A received block that is not
  indexed would then have a lowest missing ancestor, with its parent in the index,
  and so would not be waiting.
- `ArrivalTypes`, `HoldingAreaSafe`, `CheckpointSafe` (BlockArrivalProofs): the
  types, `OrphanMapsAgree`, `OrphansWait`, `CheckpointOnBestChain` and
  `CheckpointAdvances`; `CheckpointKept`: where no thread of our own hands in
  blocks (`Own` is empty) the checkpoint is on the best chain without exception.
  The invariant adds to the types where a call under way stands (`CallInv`); that
  the checkpoint is indexed, and that a block past `CheckSync` descends from it
  unless one has overtaken the other (`CheckInv`); that in the middle of the loop the two maps differ only
  by children of the head of the work queue (`MapsInv`); and that a held block's
  parent is missing, does not connect, or is on the queue, so the loop will find
  the block (`WaitInv`). The type of `asked` needs that the walk of
  `WantedByOrphan` down the holding area ends (`WantedExists`).
- `TxDBTransactional` (TxDBProofs): `TxDB` implements `TxnStore`
  where `Exists` is not asked inside a transaction. The step that needs an
  argument is that appending to a batch changes the last change of one key, and
  that `Written` applies to each key its last change.
- `LocksSafe`, `BlocksExclusive` (CheckpointLocksProofs): for any number of
  miners, overlap needs a checkpoint message, a circular wait of any length a
  checkpoint message or a name transaction of a `tx` message, and only the message
  thread reaches `accept` without `cs_main`. Without checkpoint messages
  `SetBestChain` runs alone, and without `tx` messages as well there is no
  circular wait. The invariant says of each label which locks its thread owns.
  For the circle: every thread in it owns a lock, and only the owner of `cs_main`
  and the message thread own one while they wait; so these two are the circle, and
  the message thread waits for `cs_main`.
- `TableConsistent`, `TriedNeverForgotten`, `ReloadFaithful` (AddrManProofs): for
  any number of addresses and buckets, any sizes and any restarts, the types, the
  conditions of `Check_`, the bucket sizes, `TriedKept` and `ReloadSame`. The code
  updates several structures one after the other and they disagree in between.
  The proof therefore states the invariant of given values of them all, with a
  set of entries that are counted but not yet in their bucket (`Table`), and has
  one lemma per update: creating an entry, counting it, putting it into a bucket,
  uncounting and erasing it, moving it to a tried bucket and back. An operation
  is a chain of such updates that ends with the set empty. For `peers.dat` the
  argument is that a tried bucket that is read has room for all that was in it
  (`NoneLost`), so no entry is dropped; the numbers are then the places of the
  entries in a total order, new ones first, and so a permutation
  (`Renumbering`); and a consistent table with its entries renumbered is
  consistent (`RenumberTable`).
- NameIndexProofs, for any block tree, any names, operations and rentals, any
  limit of a record and any calls that end halfway:
  - `NamesTyped`, `HolderSafe`, `ActiveChainSafe`: `TypeOK`, `OnlyHolderChanges`
    and `ActiveChainStart`. The invariant `RecordInv` says of each record by
    itself that its active chain starts at the last registration left, that an
    unreadable record has none left, and that every operation but a registration
    spends the one before it, also in the older chains that a disconnection makes
    active again. `OneWritten` is what makes it inductive: a block writes at most
    one operation of a name, because all of them are checked against the same
    record; if that is not active both are registrations, of which the second is
    skipped, and if it is, both spend the output of its last operation, which a
    valid chain does not do.
  - `PathIndependent`, `AbortsOnRefused`, `ConfirmedNotPending`:
    `NamesPathIndependent`, `AbortOnlyOnRefused`, `PendingUnconfirmed` (with the
    operations added after their block excepted, see above). Records
    are not determined by the chain: they are cut at different places depending
    on the way. `History` is the uncut list of operations of a chain, and the
    invariant `NameInv` says that a record that is not lost represents it: it is
    an end of that list with at least the active chain in it. Connecting a block
    extends both by the same operation (`ConnectRepresents`), since which
    operations count depends only on what is common to all representations;
    disconnecting takes the last one off both (`DisconnectRepresents`), unless
    the record has too little left, and then the name is in `lost`.

Induction. The library's induction theorems take an operator as a parameter, and
none of the provers used here can instantiate one. FoldProofs states induction
with sets instead (a set of numbers that contains 0 and with each number the
next contains all) and proves what is needed of the folds over a block's
transactions: a fold is a run of its step from the first value to the last
(`IterRun`, `TableFold`), and an invariant of the step carries over to the
result. TxIndexProofs does the same for block trees: `TreeInduction`, and
`TreeRecursion` for functions that are defined from the parent's value, such as
`Replay`.

Only model-checked: all liveness (`SetBestChainEnds`, `OrphansConnect`,
`PendingSettled`, `LocksReleased`), which is outside the prover's reach, and the
properties that a run shows violated.

## Not modelled

Ring-signature inputs, the address index, fees and rate limits; the wallet and
fortunastake data that `ConnectBlock` also touches; `getblocks`; the checkpoint
master; the reset to hardened checkpoints; initial download; the rebuild of the
name file, the wallet's name commands and the name server; LevelDB's own
recovery; sockets; the graphical client, RPC and third-party code. Most of the
repository's lines are vendored (Tor, LevelDB, JSON libraries, plotting, hash
functions) or user interface. `PROJECT.json` gives the reason for each
component.

## Plan

Done: the core, the name index, the address manager, and the proofs above. Left,
in order:

1. `Fortunastakes`: list, expiry, payments and ranks; then the payee check of
   `ConnectBlock` with its real data in place of `listed`.
2. Pure algorithms: `GetNextTargetRequired`, `ComputeMaxBits`, rewards, stake
   modifier selection, checked against reference definitions.
3. Wallet spent marks and key pool, `AskFor` retries, sporks and alerts, secure
   message buckets, the rebuild of the name file beside a running chain.
4. Proofs: BlockArrival composed with BestChain; `OrderIndependent` with
   checkpoints; the conditions on a reorganisation under which no name is lost.
