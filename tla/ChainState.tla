------------------------------ MODULE ChainState ------------------------------
(***************************************************************************)
(* The best chain of one node: the block index and the links in memory,    *)
(* the same on disk together with the transaction index, and SetBestChain, *)
(* which moves from one tip to another through a database transaction.     *)
(*                                                                         *)
(* Blocks are processed with cs_main held, so nothing interleaves with     *)
(* SetBestChain but a crash, a checkpoint message (CheckpointLocks) and a  *)
(* "tx" message, whose handler takes no lock: where Events has "race", the *)
(* checks of CTxMemPool::accept and what they allow are two steps, with    *)
(* steps of another thread in between.  One step connects or disconnects   *)
(* one block on the batch; the commit is one step, and so is each          *)
(* transaction the memory pool takes back or drops after a reorganisation. *)
(***************************************************************************)
EXTENDS MemPool

CONSTANTS
    PayeeBlocks,   \* blocks whose fortunastake payee must be on our list
    Estimated,     \* blocks not above Checkpoints::GetTotalBlocksEstimate()
    Events         \* what may happen besides blocks and transactions arriving

ASSUME EventAssumption ==
  /\ PayeeBlocks \in SUBSET Blocks
  /\ Estimated \in SUBSET Blocks
  /\ Events \in SUBSET {"crash", "rollback", "checkpoint", "list", "race"}

VARIABLES
    \* memory
    mapBlockIndex, \* the blocks in the index
    pnext,         \* CBlockIndex::pnext
    pindexBest,    \* tip of the best chain, also hashBestChain
    pool,          \* mempool
    accepting,     \* the transaction of a "tx" message past accept's checks
    listed,        \* the PayeeBlocks whose payee vecFortunastakes holds
    \* disk
    diskIndex,     \* blocks with a "blockindex" record
    diskBest,      \* the "hashBestChain" record
    disk,          \* links and transaction index
    nBestInvalidTrust,
    \* the SetBestChain call under way
    phase,
    target,        \* pindexNew
    inter,         \* pindexIntermediate
    cur,           \* tip of the chain the batch describes
    batch,         \* what the open database transaction reads
    vResurrect, vDelete,
    \* history
    stale          \* some SetBestChain started from a tip that is not on disk

memVars == <<mapBlockIndex, pnext, pindexBest>>
diskVars == <<diskIndex, diskBest, disk>>
jobVars == <<target, inter, cur, batch, vResurrect, vDelete>>
vars == <<memVars, pool, accepting, listed, diskVars, nBestInvalidTrust, phase,
          jobVars, stale>>

Phases == {"idle", "reorganize", "resurrect", "tail", "down"}

\* Every variable keeps to its type: Reorganize never walks its tip past the
\* genesis block and its batch stays a view.
TypeOK ==
  /\ mapBlockIndex \in SUBSET Blocks
  /\ pnext \in [Blocks -> Blocks \cup {Nil}]
  /\ pindexBest \in Blocks
  /\ pool \in Pool
  /\ accepting \in Txs \cup {Nil}
  /\ listed \in SUBSET PayeeBlocks
  /\ diskIndex \in SUBSET Blocks
  /\ diskBest \in Blocks
  /\ disk \in View
  /\ nBestInvalidTrust \in Nat
  /\ phase \in Phases
  /\ target \in Blocks /\ inter \in Blocks /\ cur \in Blocks
  /\ batch \in View
  /\ vResurrect \in Seq(Txs) /\ vDelete \in Seq(Txs)
  /\ stale \in BOOLEAN

-----------------------------------------------------------------------------
\* CBlockIndex::IsInMainChain
IsInMainChain(b) == pnext[b] # Nil \/ b = pindexBest

\* The loop that postpones reconnects: down from new while the parent still
\* has more trust than the best chain.
Intermediate(new, best) ==
  IF new = Genesis \/ ~ChainTrust[Prev[new]] > ChainTrust[best] THEN new
  ELSE CHOOSE x \in Ancestors[new] :
         /\ x = Genesis \/ ~ChainTrust[Prev[x]] > ChainTrust[best]
         /\ ChainTrust[x] > ChainTrust[best]

\* ConnectBlock, with the payee check it makes only on top of pindexBest.
ConnectBlockOK(v, b) ==
  /\ Connects(v, b)
  /\ Prev[b] = pindexBest /\ b \in PayeeBlocks => b \in listed

InvalidChainFound(b) ==
  nBestInvalidTrust' = IF ChainTrust[b] > nBestInvalidTrust
                       THEN ChainTrust[b] ELSE nBestInvalidTrust

\* SetBestChain(new) up to its first ConnectBlock or DisconnectBlock, with the
\* database transaction opened on the committed view.
StartSetBestChain(new, best) ==
  /\ target' = new
  /\ cur' = best
  /\ batch' = disk'
  /\ vResurrect' = <<>> /\ vDelete' = <<>>
  /\ IF Prev[new] = best
     THEN phase' = "tail" /\ inter' = new
     ELSE phase' = "reorganize" /\ inter' = Intermediate(new, best)
  /\ stale' = (stale \/ best # diskBest)

\* SetBestChain returns; its locals and the batch are gone.
EndSetBestChain ==
  /\ phase' = "idle"
  /\ target' = Genesis /\ inter' = Genesis /\ cur' = Genesis
  /\ batch' = EmptyView
  /\ vResurrect' = <<>> /\ vDelete' = <<>>

-----------------------------------------------------------------------------
\* Mutants of NewBest: height for trust, and a tie that wins.
NewBestByHeight(b) == Height[b] > Height[pindexBest]
NewBestOnTie(b) == ChainTrust[b] >= ChainTrust[pindexBest]

\* AddToBlockIndex: the block makes a new best chain.
NewBest(b) == ChainTrust[b] > ChainTrust[pindexBest]

\* AcceptBlock and AddToBlockIndex of a block that passed the checks on it
\* alone: the index record is committed first, then a new best is set.
AcceptBlock(b) ==
  /\ phase = "idle"
  /\ b \notin mapBlockIndex
  /\ Prev[b] \in mapBlockIndex
  /\ mapBlockIndex' = mapBlockIndex \cup {b}
  /\ diskIndex' = diskIndex \cup {b}
  /\ disk' = [disk EXCEPT !.next = [@ EXCEPT ![b] = Nil]]
  /\ IF NewBest(b)
     THEN StartSetBestChain(b, pindexBest)
     ELSE UNCHANGED <<phase, jobVars, stale>>
  /\ UNCHANGED <<pnext, pindexBest, pool, accepting, listed, diskBest,
                 nBestInvalidTrust>>

\* CTransaction::AcceptToMemoryPool with nothing in between: the wallet and the
\* RPC commands hold cs_main.
AcceptToMemoryPool(t) ==
  /\ phase = "idle"
  /\ Accepts(pool, disk, pindexBest, t)
  /\ pool' = addUnchecked(pool, t)
  /\ UNCHANGED <<memVars, accepting, listed, diskVars, nBestInvalidTrust, phase,
                 jobVars, stale>>

\* A "tx" message: the checks of CTxMemPool::accept pass, whatever a miner's
\* thread is doing to the chain.
AcceptCheck(t) ==
  /\ "race" \in Events
  /\ phase # "down"
  /\ accepting = Nil
  /\ Accepts(pool, disk, pindexBest, t)
  /\ accepting' = t
  /\ UNCHANGED <<memVars, pool, listed, diskVars, nBestInvalidTrust, phase,
                 jobVars, stale>>

\* CTxMemPool::accept goes on to addUnchecked; nothing is checked again.
AcceptAdd ==
  /\ accepting # Nil
  /\ pool' = addUnchecked(pool, accepting)
  /\ accepting' = Nil
  /\ UNCHANGED <<memVars, listed, diskVars, nBestInvalidTrust, phase, jobVars,
                 stale>>

\* Mutant of ReorganizeDisconnect: runs past the fork.
DisconnectPastFork ==
  /\ phase = "reorganize"
  /\ cur # inter
  /\ Disconnects(batch, cur)
  /\ batch' = DisconnectBlock(batch, cur)
  /\ cur' = Prev[cur]
  /\ vResurrect' = vtx[cur] \o vResurrect
  /\ UNCHANGED <<memVars, pool, listed, diskVars, nBestInvalidTrust, phase,
                 target, inter, vDelete>>

\* Mutant of ReorganizeDisconnect: writes past the open transaction.
DisconnectOnDisk ==
  /\ phase = "reorganize"
  /\ cur \notin Ancestors[inter]
  /\ Disconnects(batch, cur)
  /\ batch' = DisconnectBlock(batch, cur)
  /\ disk' = DisconnectBlock(disk, cur)
  /\ cur' = Prev[cur]
  /\ vResurrect' = vtx[cur] \o vResurrect
  /\ UNCHANGED <<memVars, pool, listed, diskIndex, diskBest, nBestInvalidTrust,
                 phase, target, inter, vDelete>>

\* Reorganize: disconnect the tip of the shorter branch.  (The minted
\* transactions, which the code does not queue, are refused by accept later.)
ReorganizeDisconnect ==
  /\ phase = "reorganize"
  /\ cur \notin Ancestors[inter]
  /\ Disconnects(batch, cur)
  /\ batch' = DisconnectBlock(batch, cur)
  /\ cur' = Prev[cur]
  /\ vResurrect' = (IF cur \in Estimated THEN <<>> ELSE vtx[cur]) \o vResurrect
  /\ UNCHANGED <<memVars, pool, listed, diskVars, nBestInvalidTrust, phase,
                 target, inter, vDelete>>

\* Reorganize: connect the next block of the longer branch.
ReorganizeConnect ==
  /\ phase = "reorganize"
  /\ cur \in Ancestors[inter] \ {inter}
  /\ LET b == Toward(cur, inter) IN
       /\ ConnectBlockOK(batch, b)
       /\ batch' = ConnectBlock(batch, b, pnext)
       /\ cur' = b
       /\ vDelete' = vDelete \o vtx[b]
  /\ UNCHANGED <<memVars, pool, listed, diskVars, nBestInvalidTrust, phase,
                 target, inter, vResurrect>>

\* Reorganize: a block does not connect or disconnect; SetBestChain aborts
\* the transaction and returns an error.
ReorganizeFails ==
  /\ phase = "reorganize"
  /\ IF cur \in Ancestors[inter]
     THEN cur # inter /\ ~ConnectBlockOK(batch, Toward(cur, inter))
     ELSE ~Disconnects(batch, cur)
  /\ InvalidChainFound(target)
  /\ EndSetBestChain
  /\ UNCHANGED <<memVars, pool, listed, diskVars>>

\* Mutant of Relinked: the old branch keeps its links.
LinkedOnly(vDisconnect, vConnect) ==
  [x \in Blocks |-> IF \E c \in vConnect : Prev[c] = x
                    THEN CHOOSE c \in vConnect : Prev[c] = x ELSE pnext[x]]

\* Reorganize: the links in memory once the blocks of vDisconnect are unlinked
\* from their parents and then those of vConnect linked.
Relinked(vDisconnect, vConnect) ==
  [x \in Blocks |->
     IF \E c \in vConnect : Prev[c] = x
     THEN CHOOSE c \in vConnect : Prev[c] = x
     ELSE IF \E d \in vDisconnect : Prev[d] = x THEN Nil ELSE pnext[x]]

\* Reorganize: commit, then change the structure in memory.
ReorganizeCommit ==
  /\ phase = "reorganize"
  /\ cur = inter
  /\ disk' = batch
  /\ diskBest' = inter
  /\ pnext' = Relinked(Ancestors[pindexBest] \ Ancestors[inter],
                       Ancestors[inter] \ Ancestors[pindexBest])
  /\ phase' = "resurrect"
  /\ UNCHANGED <<mapBlockIndex, pindexBest, pool, listed, diskIndex,
                 nBestInvalidTrust, jobVars>>

\* Reorganize: offer the next disconnected transaction to the pool again.
ReorganizeResurrect ==
  /\ phase = "resurrect"
  /\ vResurrect # <<>>
  /\ LET t == Head(vResurrect) IN
       pool' = IF Accepts(pool, disk, pindexBest, t)
               THEN addUnchecked(pool, t) ELSE pool
  /\ vResurrect' = Tail(vResurrect)
  /\ UNCHANGED <<memVars, listed, diskVars, nBestInvalidTrust, phase, target,
                 inter, cur, batch, vDelete>>

\* Mutant of ReorganizeDelete: only moves on over transactions in the pool.
DeletePooledOnly ==
  /\ phase = "resurrect"
  /\ vResurrect = <<>>
  /\ vDelete # <<>>
  /\ Head(vDelete) \in pool.mapTx
  /\ LET t == Head(vDelete) IN
       pool' = removeConflicts(remove(pool, {t}), t)
  /\ vDelete' = Tail(vDelete)
  /\ UNCHANGED <<memVars, listed, diskVars, nBestInvalidTrust, phase, target,
                 inter, cur, batch, vResurrect>>

\* Reorganize: drop the next connected transaction and what conflicts with it.
ReorganizeDelete ==
  /\ phase = "resurrect"
  /\ vResurrect = <<>>
  /\ vDelete # <<>>
  /\ LET t == Head(vDelete) IN
       pool' = removeConflicts(remove(pool, {t}), t)
  /\ vDelete' = Tail(vDelete)
  /\ UNCHANGED <<memVars, listed, diskVars, nBestInvalidTrust, phase, target,
                 inter, cur, batch, vResurrect>>

\* Reorganize returns: on to the postponed blocks.
ReorganizeDone ==
  /\ phase = "resurrect"
  /\ vResurrect = <<>> /\ vDelete = <<>>
  /\ phase' = "tail"
  /\ batch' = disk
  /\ UNCHANGED <<memVars, pool, listed, diskVars, nBestInvalidTrust,
                 target, inter, cur, vResurrect, vDelete>>

\* SetBestChainInner: connect and commit the next block towards target.
SetBestChainInner ==
  /\ phase = "tail"
  /\ cur # target
  /\ LET b == Toward(cur, target)
         v == ConnectBlock(batch, b, pnext)
     IN  /\ ConnectBlockOK(batch, b)
         /\ disk' = v
         /\ batch' = v
         /\ diskBest' = b
         /\ pnext' = [pnext EXCEPT ![Prev[b]] = b]
         /\ pool' = removeConfirmed(pool, b)
         /\ cur' = b
  /\ UNCHANGED <<mapBlockIndex, pindexBest, listed, diskIndex,
                 nBestInvalidTrust, phase, target, inter, vResurrect, vDelete>>

\* SetBestChainInner fails on the block that extends the best chain: abort,
\* and SetBestChain returns an error.
ExtendFails ==
  /\ phase = "tail"
  /\ cur # target
  /\ Prev[target] = pindexBest
  /\ ~ConnectBlockOK(batch, Toward(cur, target))
  /\ InvalidChainFound(target)
  /\ EndSetBestChain
  /\ UNCHANGED <<memVars, pool, listed, diskVars>>

\* Mutant of PostponedFails: the loop has no way out.
PostponedWaits ==
  /\ phase = "tail"
  /\ cur # target
  /\ Prev[target] # pindexBest
  /\ ~ConnectBlockOK(batch, Toward(cur, target))
  /\ InvalidChainFound(Toward(cur, target))
  /\ UNCHANGED <<memVars, pool, listed, diskVars, phase, jobVars>>

\* SetBestChainInner fails on a postponed block: abort, leave the loop, and go
\* on as if the whole chain were connected.
PostponedFails ==
  /\ phase = "tail"
  /\ cur # target
  /\ Prev[target] # pindexBest
  /\ ~ConnectBlockOK(batch, Toward(cur, target))
  /\ InvalidChainFound(Toward(cur, target))
  /\ pindexBest' = target
  /\ EndSetBestChain
  /\ UNCHANGED <<mapBlockIndex, pnext, pool, listed, diskVars>>

\* The end of SetBestChain: the new best block in memory.
SetBestChainDone ==
  /\ phase = "tail"
  /\ cur = target
  /\ pindexBest' = target
  /\ EndSetBestChain
  /\ UNCHANGED <<mapBlockIndex, pnext, pool, listed, diskVars,
                 nBestInvalidTrust>>

-----------------------------------------------------------------------------
\* ProcessSyncCheckpoint or AcceptPendingSyncCheckpoint makes an indexed block
\* outside the main chain the best one, whatever its trust.
SyncCheckpoint(c) ==
  /\ "checkpoint" \in Events
  /\ phase = "idle"
  /\ c \in mapBlockIndex
  /\ ~IsInMainChain(c)
  /\ disk' = disk
  /\ StartSetBestChain(c, pindexBest)
  /\ UNCHANGED <<memVars, pool, accepting, listed, diskIndex, diskBest,
                 nBestInvalidTrust>>

\* Fortunastake announcements and expiry change which payees are known.
UpdateFortunastakes(S) ==
  /\ "list" \in Events
  /\ phase = "idle"
  /\ listed' = S
  /\ UNCHANGED <<memVars, pool, accepting, diskVars, nBestInvalidTrust, phase,
                 jobVars, stale>>

\* The process dies: memory and the open batch are lost.
Crash ==
  /\ "crash" \in Events
  /\ phase # "down"
  /\ phase' = "down"
  /\ mapBlockIndex' = {}
  /\ pnext' = [b \in Blocks |-> Nil]
  /\ pindexBest' = Genesis
  /\ pool' = EmptyPool
  /\ accepting' = Nil
  /\ listed' = {}
  /\ target' = Genesis /\ inter' = Genesis /\ cur' = Genesis
  /\ batch' = EmptyView
  /\ vResurrect' = <<>> /\ vDelete' = <<>>
  /\ UNCHANGED <<diskVars, nBestInvalidTrust, stale>>

\* Mutant of LoadedFromDisk: hashNext is not read back.
LoadedWithoutLinks ==
  /\ mapBlockIndex' = diskIndex
  /\ pnext' = [b \in Blocks |-> Nil]
  /\ pindexBest' = diskBest
  /\ UNCHANGED <<pool, accepting, listed, diskVars, nBestInvalidTrust>>

\* CTxDB::LoadBlockIndex: memory is rebuilt from the records on disk.
LoadedFromDisk ==
  /\ mapBlockIndex' = diskIndex
  /\ pnext' = disk.next
  /\ pindexBest' = diskBest
  /\ UNCHANGED <<pool, accepting, listed, diskVars, nBestInvalidTrust>>

\* CTxDB::LoadBlockIndex finds the best chain good.
LoadBlockIndex ==
  /\ phase = "down"
  /\ LoadedFromDisk
  /\ phase' = "idle"
  /\ UNCHANGED <<jobVars, stale>>

\* CTxDB::LoadBlockIndex finds a bad block (CheckBlock fails on it, because the
\* clock went back or the file is damaged) and moves back to its parent.
LoadBlockIndexRollback(fork) ==
  /\ "rollback" \in Events
  /\ phase = "down"
  /\ fork \in Ancestors[diskBest] \ {diskBest}
  /\ LoadedFromDisk
  /\ StartSetBestChain(fork, diskBest)

-----------------------------------------------------------------------------
Init ==
  /\ mapBlockIndex = {Genesis}
  /\ pnext = [b \in Blocks |-> Nil]
  /\ pindexBest = Genesis
  /\ pool = EmptyPool
  /\ accepting = Nil
  /\ listed = PayeeBlocks
  /\ diskIndex = {Genesis}
  /\ diskBest = Genesis
  /\ disk = EmptyView
  /\ nBestInvalidTrust = 0
  /\ phase = "idle"
  /\ target = Genesis /\ inter = Genesis /\ cur = Genesis
  /\ batch = EmptyView
  /\ vResurrect = <<>> /\ vDelete = <<>>
  /\ stale = FALSE

\* The steps of a SetBestChain call under way.
SetBestChainStep ==
  /\ UNCHANGED <<accepting, stale>>
  /\ \/ ReorganizeDisconnect
     \/ ReorganizeConnect
     \/ ReorganizeFails
     \/ ReorganizeCommit
     \/ ReorganizeResurrect
     \/ ReorganizeDelete
     \/ ReorganizeDone
     \/ SetBestChainInner
     \/ ExtendFails
     \/ PostponedFails
     \/ SetBestChainDone

Next ==
  \/ \E b \in Blocks : AcceptBlock(b)
  \/ \E t \in Txs : AcceptToMemoryPool(t) \/ AcceptCheck(t)
  \/ AcceptAdd
  \/ SetBestChainStep
  \/ \E c \in Blocks : SyncCheckpoint(c)
  \/ \E S \in SUBSET PayeeBlocks : UpdateFortunastakes(S)
  \/ Crash
  \/ LoadBlockIndex
  \/ \E f \in Blocks : LoadBlockIndexRollback(f)

Spec == Init /\ [][Next]_vars

\* The thread inside SetBestChain holds cs_main and runs its loops to the end.
FairSpec == Spec /\ WF_vars(SetBestChainStep)

-----------------------------------------------------------------------------
\* What is on disk at any moment, between any two steps, is exactly the state
\* of the committed chain: disconnecting undoes connecting (DisconnectInputs
\* against ConnectInputs), and no half-done reorganisation is ever committed.
DiskMatchesTip == ViewOf(disk, diskBest)

\* What the open batch of SetBestChain reads is the state of the chain built
\* so far, so ConnectBlock never validates a block against another branch.
BatchMatchesTip == phase \in {"reorganize", "tail"} => ViewOf(batch, cur)

\* The committed chain spends every output at most once, only after it exists
\* and matured, and holds no block that ConnectBlock refuses.
BestChainValid == ChainOK(diskBest)

\* A reorganisation never gets stuck going back: every block of the best chain
\* disconnects (DisconnectInputs finds each index entry).
TipDisconnects ==
  phase = "reorganize" /\ cur \notin Ancestors[inter] => Disconnects(batch, cur)

\* Between calls the tip, the index and the links in memory are those on disk:
\* "Make sure it's successfully written to disk before changing memory
\* structure" (Reorganize).
MemoryMatchesDisk ==
  phase = "idle" =>
    pindexBest = diskBest /\ mapBlockIndex = diskIndex /\ pnext = disk.next

\* Until SetBestChain starts from a tip that a failed postponed block has left
\* in memory only, no crash, failure, rollback, checkpoint or transaction of
\* another thread touches the committed chain, the batch or the way back; a
\* restart in time puts the tip right again.
SoundUntilStale ==
  ~stale => DiskMatchesTip /\ BestChainValid /\ BatchMatchesTip /\ TipDisconnects

\* Up to the same point the index and the links in memory are those on disk,
\* and the tip in memory is the one on disk or a descendant of it.
MemoryFollowsDisk ==
  ~stale /\ phase = "idle" =>
    /\ mapBlockIndex = diskIndex /\ pnext = disk.next
    /\ diskBest \in Ancestors[pindexBest]

\* Between calls no indexed chain that is valid throughout has more trust than
\* the best chain: a failed SetBestChain never costs a good chain.
MostTrust ==
  phase = "idle" =>
    \A b \in mapBlockIndex : ChainOK(b) => ChainTrust[b] <= ChainTrust[pindexBest]

\* mapNextTx stays the inverse of the pool's inputs through resurrection,
\* removal and recursive conflict removal; pool transactions never conflict.
PoolInverse == PoolOK(pool)

\* Between calls no pool transaction is already in the best chain, however the
\* chain was reorganised.
PoolUnconfirmed ==
  phase = "idle" => \A t \in pool.mapTx : disk.pos[t] = Nil

\* "all transactions in the memory pool should connect to either transactions
\* in the chain or other transactions in the memory pool" (CreateNewBlock,
\* which asserts it when debugging).
PoolConnected ==
  phase = "idle" =>
    \A t \in pool.mapTx : \A o \in vin[t] :
      disk.pos[o[1]] # Nil \/ o[1] \in pool.mapTx

\* When Reorganize returns, the pool holds nothing that spends what the newly
\* connected branch spends (removeConflicts).
PoolCleaned ==
  [][phase = "resurrect" /\ phase' = "tail" =>
       \A c \in Ancestors[inter] \ Ancestors[pindexBest] :
         \A t \in pool.mapTx : vin[t] \cap BlockInputs(c) = {}]_vars

\* Every commit of SetBestChain takes the chain on disk to one with more trust;
\* it never passes through a lighter one.
OnlyMoreTrust ==
  [][diskBest' # diskBest => ChainTrust[diskBest'] > ChainTrust[diskBest]]_vars

\* SetBestChain ends, unless the process dies under it: its loops over both
\* branches and both lists run out.
SetBestChainEnds ==
  phase \in {"reorganize", "resurrect", "tail"} ~> phase \in {"idle", "down"}

\* The tip as the rest of the node sees it, before or after a restart.
Tip == IF phase = "down" THEN diskBest ELSE pindexBest

\* The blocks whose chain connects, whatever was known of payees on the way.
ValidBlocks == {b \in Blocks : ChainOK(b)}

Chain == INSTANCE BestChain
           WITH index <- diskIndex,
                best <- Tip,
                job <- IF phase \in {"idle", "down"} THEN Nil ELSE target,
                Valid <- ValidBlocks,
                Payees <- PayeeBlocks

\* SetBestChain is all or nothing: however many blocks it disconnects, connects
\* and postpones in however many commits, it ends on the block it was called
\* for exactly if that block's chain is valid (and its payee known), and on the
\* old tip if not; a crash inside it leaves a valid chain on the way there.
AllOrNothing == Chain!Spec
=============================================================================
