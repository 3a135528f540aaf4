--------------------------- MODULE ChainStateProofs ---------------------------
(***************************************************************************)
(* Proofs about ChainState for every block tree, every set of transactions *)
(* and every choice of events.                                             *)
(***************************************************************************)
EXTENDS ChainState, TxIndexProofs

\* Where the pointers of a SetBestChain call stand, whatever has happened.
JobOK ==
  /\ phase = "reorganize" => inter \in Ancestors[target]
  /\ phase = "resurrect" => cur = inter /\ inter \in Ancestors[target]
  /\ phase = "tail" => cur \in Ancestors[target]

TypeInv == TypeOK /\ JobOK

\* pindexIntermediate is on the way to the new tip, and has more trust than the
\* old one if the new tip has.
LEMMA IntermediateOK ==
  ASSUME NEW new \in Blocks, NEW best \in Blocks
  PROVE  /\ Intermediate(new, best) \in Ancestors[new]
         /\ ChainTrust[new] > ChainTrust[best]
              => ChainTrust[Intermediate(new, best)] > ChainTrust[best]
<1>1. CASE new = Genesis \/ ~ChainTrust[Prev[new]] > ChainTrust[best]
  BY <1>1, AncestorsSelf DEF Intermediate
<1>2. CASE new # Genesis /\ ChainTrust[Prev[new]] > ChainTrust[best]
  <2> DEFINE Q(x) == /\ x = Genesis \/ ~ChainTrust[Prev[x]] > ChainTrust[best]
                     /\ ChainTrust[x] > ChainTrust[best]
             S == {x \in Ancestors[new] : ChainTrust[x] > ChainTrust[best]}
  <2>1. \E x \in Ancestors[new] : Q(x)
    <3> SUFFICES ASSUME \A x \in Ancestors[new] : ~Q(x) PROVE FALSE
      OBVIOUS
    <3>1. new \in S
      <4>1. /\ Prev[new] \in Blocks /\ ChainTrust[new] > ChainTrust[Prev[new]]
            /\ ChainTrust[new] \in Nat /\ ChainTrust[Prev[new]] \in Nat
            /\ ChainTrust[best] \in Nat
        BY <1>2, TreeAssumption
      <4> QED BY <4>1, <1>2, AncestorsSelf
    <3>2. \A y \in S : y # Genesis => Prev[y] \in S
      BY AncestorsPrev
    <3>3. Ancestors[new] \subseteq S
      <4>1. S \in SUBSET Blocks
        BY AncestorsSelf
      <4> HIDE DEF S
      <4> QED BY <4>1, <3>1, <3>2, AncestorsInduction
    <3>4. Genesis \in S
      BY <3>3, TreeAssumption
    <3> QED BY <3>4
  <2>2. Intermediate(new, best) = CHOOSE x \in Ancestors[new] : Q(x)
    BY <1>2 DEF Intermediate
  <2>3. Intermediate(new, best) \in Ancestors[new] /\ Q(Intermediate(new, best))
    <3> HIDE DEF Q
    <3> QED BY <2>1, <2>2
  <2> QED BY <2>3
<1> QED BY <1>1, <1>2

\* Pool operations keep the pool's type.
LEMMA PoolType ==
  ASSUME NEW q \in Pool
  PROVE  /\ \A t \in Txs : addUnchecked(q, t) \in Pool
         /\ \A S : remove(q, S) \in Pool
BY DEF Pool, addUnchecked, remove

\* StartSetBestChain sets the pointers right.
LEMMA StartType ==
  ASSUME NEW new \in Blocks, NEW best \in Blocks, disk' \in View,
         StartSetBestChain(new, best)
  PROVE  /\ phase' \in Phases /\ target' \in Blocks /\ inter' \in Blocks
         /\ cur' \in Blocks /\ batch' \in View
         /\ vResurrect' \in Seq(Txs) /\ vDelete' \in Seq(Txs)
         /\ stale' \in BOOLEAN
         /\ JobOK'
<1>a. stale' \in BOOLEAN
  BY Zenon DEF StartSetBestChain
<1>1. Intermediate(new, best) \in Ancestors[new] /\ new \in Ancestors[new]
        /\ Intermediate(new, best) \in Blocks
  BY IntermediateOK, AncestorsSelf
<1>2. Prev[new] = best => best \in Ancestors[new]
  <2>1. ASSUME Prev[new] = best PROVE best \in Ancestors[new]
    <3>1. new # Genesis
      BY <2>1, TreeAssumption
    <3> QED BY <3>1, <2>1, <1>1, AncestorsPrev
  <2> QED BY <2>1
<1>3. target' = new /\ cur' = best /\ batch' = disk'
        /\ vResurrect' = <<>> /\ vDelete' = <<>>
  BY DEF StartSetBestChain
<1>4. CASE Prev[new] = best
  BY <1>a, <1>1, <1>2, <1>3, <1>4 DEF StartSetBestChain, JobOK, Phases
<1>5. CASE Prev[new] # best
  BY <1>a, <1>1, <1>3, <1>5 DEF StartSetBestChain, JobOK, Phases
<1> QED BY <1>4, <1>5

\* The end of SetBestChain resets its locals.
LEMMA EndType ==
  ASSUME EndSetBestChain
  PROVE  /\ phase' \in Phases /\ target' \in Blocks /\ inter' \in Blocks
         /\ cur' \in Blocks /\ batch' \in View
         /\ vResurrect' \in Seq(Txs) /\ vDelete' \in Seq(Txs)
         /\ JobOK'
BY TreeAssumption, EmptyViewOf DEF EndSetBestChain, JobOK, Phases

\* nBestInvalidTrust stays a number.
LEMMA InvalidType ==
  ASSUME NEW b \in Blocks, nBestInvalidTrust \in Nat, InvalidChainFound(b)
  PROVE  nBestInvalidTrust' \in Nat
BY TreeAssumption DEF InvalidChainFound

-----------------------------------------------------------------------------
LEMMA TypeInit == Init => TypeInv
<1> SUFFICES ASSUME Init PROVE TypeInv
  OBVIOUS
<1>1. stale \in BOOLEAN
  BY Zenon DEF Init
<1> QED BY <1>1, TreeAssumption, EmptyViewOf
        DEF Init, TypeInv, TypeOK, JobOK, Phases, EmptyPool, Pool

LEMMA TypeNext == TypeInv /\ [Next]_vars => TypeInv'
<1> SUFFICES ASSUME TypeInv, [Next]_vars PROVE TypeInv'
  OBVIOUS
<1> USE DEF TypeInv
<1>1. ASSUME NEW b \in Blocks, AcceptBlock(b) PROVE TypeInv'
  <2>1. disk' = [disk EXCEPT !.next = [@ EXCEPT ![b] = Nil]]
    BY <1>1 DEF AcceptBlock
  <2>2. disk' \in View
    BY <2>1 DEF TypeOK, View
  <2>3. CASE NewBest(b)
    <3>1. StartSetBestChain(b, pindexBest)
      BY <1>1, <2>3 DEF AcceptBlock
    <3> QED BY <3>1, <2>2, <1>1, StartType DEF AcceptBlock, TypeOK
  <2>4. CASE ~NewBest(b)
    BY <2>2, <2>4, <1>1 DEF AcceptBlock, TypeOK, JobOK, jobVars
  <2> QED BY <2>3, <2>4
<1>2. ASSUME NEW t \in Txs, AcceptToMemoryPool(t) PROVE TypeInv'
  BY <1>2, PoolType
     DEF AcceptToMemoryPool, TypeOK, JobOK, memVars, diskVars, jobVars
<1>a. ASSUME NEW t \in Txs, AcceptCheck(t) PROVE TypeInv'
  BY <1>a DEF AcceptCheck, TypeOK, JobOK, memVars, diskVars, jobVars
<1>b. ASSUME AcceptAdd PROVE TypeInv'
  BY <1>b, PoolType DEF AcceptAdd, TypeOK, JobOK, memVars, diskVars, jobVars
<1>k. ASSUME SetBestChainStep PROVE accepting' = accepting /\ stale' = stale
  BY <1>k DEF SetBestChainStep
<1> DEFINE Aside == accepting' = accepting /\ stale' = stale
<1>3. ASSUME ReorganizeDisconnect, Aside PROVE TypeInv'
  <2>1. cur # Genesis
    BY <1>3, TreeAssumption DEF ReorganizeDisconnect, TypeOK
  <2>2. Prev[cur] \in Blocks
    BY <2>1, TreeAssumption DEF TypeOK
  <2>3. DisconnectBlock(batch, cur) \in View
    BY <2>1, ViewType DEF TypeOK
  <2>4. vResurrect' \in Seq(Txs)
    <3>1. vtx[cur] \in Seq(Txs) /\ vResurrect \in Seq(Txs)
      BY TxAssumption DEF TypeOK
    <3> QED BY <3>1, <1>3 DEF ReorganizeDisconnect
  <2> QED BY <1>3, <2>2, <2>3, <2>4
          DEF ReorganizeDisconnect, TypeOK, JobOK, memVars, diskVars
<1>4. ASSUME ReorganizeConnect, Aside PROVE TypeInv'
  <2> DEFINE b == Toward(cur, inter)
  <2>1. b \in Blocks /\ b # Genesis
    BY <1>4, TowardChild DEF ReorganizeConnect, TypeOK
  <2>2. ConnectBlock(batch, b, pnext) \in View
    BY <2>1, ViewType DEF TypeOK
  <2>3. vDelete' \in Seq(Txs)
    <3>1. vtx[b] \in Seq(Txs) /\ vDelete \in Seq(Txs)
      BY <2>1, TxAssumption DEF TypeOK
    <3> QED BY <3>1, <1>4 DEF ReorganizeConnect
  <2> QED BY <1>4, <2>1, <2>2, <2>3
          DEF ReorganizeConnect, TypeOK, JobOK, memVars, diskVars
<1>5. ASSUME ReorganizeFails, Aside PROVE TypeInv'
  BY <1>5, EndType, InvalidType
     DEF ReorganizeFails, TypeOK, memVars, diskVars
<1>6. ASSUME ReorganizeCommit, Aside PROVE TypeInv'
  <2>1. pnext' \in [Blocks -> Blocks \cup {Nil}]
    <3> DEFINE C == Ancestors[inter] \ Ancestors[pindexBest]
               D == Ancestors[pindexBest] \ Ancestors[inter]
    <3>1. C \subseteq Blocks
      BY AncestorsSelf DEF TypeOK
    <3>2. pnext' = Relinked(D, C)
      BY <1>6 DEF ReorganizeCommit
    <3> HIDE DEF C, D
    <3> QED BY <3>1, <3>2 DEF Relinked, TypeOK
  <2> QED BY <1>6, <2>1
          DEF ReorganizeCommit, TypeOK, JobOK, Phases, jobVars
<1>7. ASSUME ReorganizeResurrect, Aside PROVE TypeInv'
  <2>1. Head(vResurrect) \in Txs /\ Tail(vResurrect) \in Seq(Txs)
    BY <1>7 DEF ReorganizeResurrect, TypeOK
  <2>2. pool' \in Pool
    BY <1>7, <2>1, PoolType DEF ReorganizeResurrect, TypeOK
  <2> QED BY <1>7, <2>1, <2>2
          DEF ReorganizeResurrect, TypeOK, JobOK, memVars, diskVars
<1>8. ASSUME ReorganizeDelete, Aside PROVE TypeInv'
  <2>1. Head(vDelete) \in Txs /\ Tail(vDelete) \in Seq(Txs)
    BY <1>8 DEF ReorganizeDelete, TypeOK
  <2>2. pool' \in Pool
    BY <1>8, PoolType DEF ReorganizeDelete, removeConflicts, TypeOK
  <2> QED BY <1>8, <2>1, <2>2
          DEF ReorganizeDelete, TypeOK, JobOK, memVars, diskVars
<1>9. ASSUME ReorganizeDone, Aside PROVE TypeInv'
  BY <1>9 DEF ReorganizeDone, TypeOK, JobOK, Phases, memVars, diskVars
<1>10. ASSUME SetBestChainInner, Aside PROVE TypeInv'
  <2> DEFINE b == Toward(cur, target)
  <2>1. b \in Blocks /\ b # Genesis /\ Prev[b] \in Blocks /\ b \in Ancestors[target]
    BY <1>10, TowardChild, TreeAssumption DEF SetBestChainInner, TypeOK, JobOK
  <2>2. ConnectBlock(batch, b, pnext) \in View
    BY <2>1, ViewType DEF TypeOK
  <2>3. pool' \in Pool
    BY <1>10, PoolType DEF SetBestChainInner, removeConfirmed, TypeOK
  <2>4. pnext' \in [Blocks -> Blocks \cup {Nil}]
    BY <1>10, <2>1 DEF SetBestChainInner, TypeOK
  <2> QED BY <1>10, <2>1, <2>2, <2>3, <2>4
          DEF SetBestChainInner, TypeOK, JobOK
<1>11. ASSUME ExtendFails, Aside PROVE TypeInv'
  BY <1>11, EndType, InvalidType DEF ExtendFails, TypeOK, memVars, diskVars
<1>12. ASSUME PostponedFails, Aside PROVE TypeInv'
  <2>1. Toward(cur, target) \in Blocks
    BY <1>12, TowardChild DEF PostponedFails, TypeOK, JobOK
  <2> QED BY <1>12, <2>1, EndType, InvalidType
          DEF PostponedFails, TypeOK, diskVars
<1>13. ASSUME SetBestChainDone, Aside PROVE TypeInv'
  BY <1>13, EndType DEF SetBestChainDone, TypeOK, diskVars
<1>14. ASSUME NEW c \in Blocks, SyncCheckpoint(c) PROVE TypeInv'
  BY <1>14, StartType DEF SyncCheckpoint, TypeOK, memVars
<1>15. ASSUME NEW S \in SUBSET PayeeBlocks, UpdateFortunastakes(S) PROVE TypeInv'
  BY <1>15 DEF UpdateFortunastakes, TypeOK, JobOK, memVars, diskVars, jobVars
<1>16. ASSUME Crash PROVE TypeInv'
  BY <1>16, TreeAssumption, EmptyViewOf
     DEF Crash, TypeOK, JobOK, Phases, EmptyPool, Pool, diskVars
<1>17. ASSUME LoadBlockIndex PROVE TypeInv'
  BY <1>17
     DEF LoadBlockIndex, LoadedFromDisk, TypeOK, JobOK, Phases, View, jobVars, diskVars
<1>18. ASSUME NEW f \in Blocks, LoadBlockIndexRollback(f) PROVE TypeInv'
  <2>1. LoadedFromDisk /\ StartSetBestChain(f, diskBest)
    BY <1>18 DEF LoadBlockIndexRollback
  <2>2. disk' \in View /\ diskBest \in Blocks
    BY <2>1 DEF LoadedFromDisk, TypeOK, diskVars
  <2>3. disk.next \in [Blocks -> Blocks \cup {Nil}]
    BY DEF TypeOK, View
  <2> QED BY <2>1, <2>2, <2>3, StartType DEF LoadedFromDisk, TypeOK, diskVars
<1>19. ASSUME UNCHANGED vars PROVE TypeInv'
  BY <1>19 DEF vars, memVars, diskVars, jobVars, TypeOK, JobOK
<1> QED
  BY <1>1, <1>2, <1>a, <1>b, <1>k, <1>3, <1>4, <1>5, <1>6, <1>7, <1>8, <1>9, <1>10, <1>11, <1>12,
     <1>13, <1>14, <1>15, <1>16, <1>17, <1>18, <1>19
     DEF Next, SetBestChainStep

\* The chain state keeps its types through reorganisations, failures, crashes
\* and restarts; in particular Reorganize finds the fork before it runs below
\* the genesis block.
THEOREM TypeCorrect == Spec => []TypeOK
<1>1. TypeInv => TypeOK
  BY DEF TypeInv
<1> QED BY TypeInit, TypeNext, <1>1, PTL DEF Spec

-----------------------------------------------------------------------------
\* addUnchecked of a transaction that passed accept, and remove of any set,
\* keep mapNextTx the inverse of vin over the pool.
LEMMA PoolSteps ==
  ASSUME NEW q \in Pool, PoolOK(q)
  PROVE  /\ \A v, best : \A t \in Txs : Accepts(q, v, best, t) => PoolOK(addUnchecked(q, t))
         /\ \A S : PoolOK(remove(q, S))
<1>1. ASSUME NEW v, NEW best, NEW t \in Txs, Accepts(q, v, best, t)
      PROVE  PoolOK(addUnchecked(q, t))
  <2> SUFFICES ASSUME NEW o \in Outpoints, NEW u \in Txs
               PROVE  addUnchecked(q, t).mapNextTx[o] = u
                        <=> u \in addUnchecked(q, t).mapTx /\ o \in vin[u]
    BY DEF PoolOK
  <2>1. /\ addUnchecked(q, t).mapTx = q.mapTx \cup {t}
        /\ addUnchecked(q, t).mapNextTx[o] = IF o \in vin[t] THEN t ELSE q.mapNextTx[o]
    BY DEF addUnchecked
  <2>2. q.mapNextTx[o] = u <=> u \in q.mapTx /\ o \in vin[u]
    BY DEF PoolOK
  <2>3. o \in vin[t] => q.mapNextTx[o] = Nil
    BY <1>1 DEF Accepts
  <2>4. u # Nil /\ t # Nil
    BY TreeAssumption
  <2> QED BY <2>1, <2>2, <2>3, <2>4
<1>2. ASSUME NEW S PROVE PoolOK(remove(q, S))
  <2> SUFFICES ASSUME NEW o \in Outpoints, NEW u \in Txs
               PROVE  remove(q, S).mapNextTx[o] = u
                        <=> u \in remove(q, S).mapTx /\ o \in vin[u]
    BY DEF PoolOK
  <2>1. /\ remove(q, S).mapTx = q.mapTx \ S
        /\ remove(q, S).mapNextTx[o] = IF \E t \in S \cap q.mapTx : o \in vin[t]
                                       THEN Nil ELSE q.mapNextTx[o]
    BY DEF remove
  <2>2. \A w \in Txs : q.mapNextTx[o] = w <=> w \in q.mapTx /\ o \in vin[w]
    BY DEF PoolOK
  <2>3. u # Nil /\ q.mapTx \subseteq Txs
    BY TreeAssumption DEF Pool
  <2> QED BY <2>1, <2>2, <2>3
<1> QED BY <1>1, <1>2

LEMMA PoolNext ==
  ASSUME "race" \notin Events, TypeInv, PoolInverse, accepting = Nil, [Next]_vars
  PROVE  PoolInverse' /\ accepting' = Nil
<1>a. accepting' = Nil
  BY DEF Next, SetBestChainStep, vars, AcceptBlock, AcceptToMemoryPool, AcceptCheck,
         AcceptAdd, SyncCheckpoint, UpdateFortunastakes, Crash, LoadBlockIndex,
         LoadBlockIndexRollback, LoadedFromDisk
<1> SUFFICES PoolInverse'
  BY <1>a
<1> USE DEF PoolInverse
<1>1. pool \in Pool /\ vResurrect \in Seq(Txs)
  BY DEF TypeInv, TypeOK
<1>2. ASSUME NEW t \in Txs, AcceptToMemoryPool(t) PROVE PoolOK(pool')
  BY <1>1, <1>2, PoolSteps DEF AcceptToMemoryPool
<1>3. ASSUME ReorganizeResurrect PROVE PoolOK(pool')
  <2>1. Head(vResurrect) \in Txs
    BY <1>1, <1>3 DEF ReorganizeResurrect
  <2> QED BY <1>1, <1>3, <2>1, PoolSteps DEF ReorganizeResurrect
<1>4. ASSUME ReorganizeDelete PROVE PoolOK(pool')
  <2> DEFINE t == Head(vDelete)
             q == remove(pool, {t})
  <2>1. q \in Pool /\ PoolOK(q)
    BY <1>1, PoolType, PoolSteps
  <2>2. pool' = removeConflicts(q, t)
    BY <1>4 DEF ReorganizeDelete
  <2> HIDE DEF q
  <2> QED BY <2>1, <2>2, PoolSteps DEF removeConflicts
<1>5. ASSUME SetBestChainInner PROVE PoolOK(pool')
  BY <1>1, <1>5, PoolSteps DEF SetBestChainInner, removeConfirmed
<1>6. ASSUME Crash PROVE PoolOK(pool')
  BY <1>6, TreeAssumption DEF Crash, EmptyPool, PoolOK
<1>7. ASSUME UNCHANGED pool PROVE PoolOK(pool')
  BY <1>7
<1> QED
  BY <1>2, <1>3, <1>4, <1>5, <1>6, <1>7
     DEF Next, SetBestChainStep, vars, AcceptBlock, AcceptCheck, AcceptAdd, ReorganizeDisconnect,
         ReorganizeConnect, ReorganizeFails, ReorganizeCommit, ReorganizeDone,
         ExtendFails, PostponedFails, SetBestChainDone, SyncCheckpoint,
         UpdateFortunastakes, LoadBlockIndex, LoadBlockIndexRollback,
         LoadedFromDisk

\* As long as "tx" messages do not overlap with blocks of another thread,
\* mapNextTx is the inverse of the pool's inputs at every moment, whatever
\* accept, Reorganize and SetBestChainInner do to the pool.
THEOREM PoolCorrect == "race" \notin Events => (Spec => []PoolInverse)
<1> SUFFICES ASSUME "race" \notin Events PROVE Spec => []PoolInverse
  OBVIOUS
<1> DEFINE Inv == TypeInv /\ PoolInverse /\ accepting = Nil
<1>1. Init => Inv
  BY TypeInit, TreeAssumption DEF Init, PoolInverse, EmptyPool, PoolOK
<1>2. Inv /\ [Next]_vars => Inv'
  BY TypeNext, PoolNext
<1>3. Inv => PoolInverse
  OBVIOUS
<1> QED BY <1>1, <1>2, <1>3, PTL DEF Spec

-----------------------------------------------------------------------------
(***************************************************************************)
(* The disk, the batch and memory.  The inductive invariant says where the *)
(* call under way stands between the old chain and the new one: what both  *)
(* chains share is never undone, and memory changes only with the disk.    *)
(***************************************************************************)

\* The records on disk are closed under pprev and hold the best chain.
IndexClosed ==
  /\ Genesis \in diskIndex /\ diskBest \in diskIndex
  /\ \A x \in diskIndex : Ancestors[x] \subseteq diskIndex

\* The index and the links in memory are those on disk, even inside a call.
LinksMatch == phase # "down" => mapBlockIndex = diskIndex /\ pnext = disk.next

\* Where a call stands in each phase.
CallOK ==
  /\ phase = "idle" => diskBest \in Ancestors[pindexBest]
  /\ phase = "reorganize" =>
        /\ pindexBest = diskBest
        /\ target \in diskIndex /\ Prev[target] # pindexBest
        /\ ViewOf(batch, cur) /\ ChainOK(cur)
        /\ Ancestors[inter] \cap Ancestors[pindexBest] \subseteq Ancestors[cur]
        /\ cur \in Ancestors[pindexBest] \cup Ancestors[inter]
  /\ phase = "resurrect" =>
        /\ cur = diskBest
        /\ target \in diskIndex /\ Prev[target] # pindexBest
  /\ phase = "tail" =>
        /\ cur = diskBest /\ batch = disk
        /\ target \in diskIndex
        /\ Prev[target] = pindexBest => cur \in {pindexBest, target}

DiskInv ==
  /\ TypeInv
  /\ IndexClosed
  /\ ViewOf(disk, diskBest) /\ ChainOK(diskBest)
  /\ LinksMatch
  /\ CallOK

\* A block whose ancestors are not all in the chain of v has no link in v.
LEMMA NoLink ==
  ASSUME NEW v \in View, NEW b \in Blocks, ViewOf(v, b),
         NEW x \in Blocks, x \notin Ancestors[b]
  PROVE  v.next[x] = Nil
<1> SUFFICES ASSUME v.next[x] # Nil PROVE FALSE
  OBVIOUS
<1>1. v.next[x] \in Blocks
  BY DEF View
<1>2. v.next[x] \in Ancestors[b] /\ Prev[v.next[x]] = x
  BY <1>1 DEF ViewOf
<1>3. v.next[x] # Genesis
  BY <1>2, TreeAssumption
<1> QED BY <1>2, <1>3, AncestorsPrev

\* The links Reorganize leaves in memory are those of the chain it committed.
LEMMA RelinkedLinks ==
  ASSUME NEW v \in View, NEW w \in View, NEW b \in Blocks, NEW c \in Blocks,
         ViewOf(v, b), ViewOf(w, c), pnext = v.next
  PROVE  Relinked(Ancestors[b] \ Ancestors[c], Ancestors[c] \ Ancestors[b]) = w.next
<1> DEFINE D == Ancestors[b] \ Ancestors[c]
           C == Ancestors[c] \ Ancestors[b]
<1>1. Ancestors[b] \subseteq Blocks /\ Ancestors[c] \subseteq Blocks
  BY AncestorsSelf
<1>2. /\ w.next \in [Blocks -> Blocks \cup {Nil}]
      /\ v.next \in [Blocks -> Blocks \cup {Nil}]
  BY DEF View
<1>3. ASSUME NEW x \in Blocks PROVE Relinked(D, C)[x] = w.next[x]
  <2>1. \A y \in Blocks : w.next[x] = y <=> y \in Ancestors[c] /\ Prev[y] = x
    BY DEF ViewOf
  <2>2. \A y \in Blocks : v.next[x] = y <=> y \in Ancestors[b] /\ Prev[y] = x
    BY DEF ViewOf
  <2>3. CASE \E y \in C : Prev[y] = x
    <3>1. Relinked(D, C)[x] = CHOOSE y \in C : Prev[y] = x
      BY <2>3 DEF Relinked
    <3> HIDE DEF C
    <3>2. Relinked(D, C)[x] \in C /\ Prev[Relinked(D, C)[x]] = x
      BY <2>3, <3>1
    <3> USE DEF C
    <3> QED BY <3>2, <2>1, <1>1
  <2>4. CASE ~(\E y \in C : Prev[y] = x) /\ \E d \in D : Prev[d] = x
    <3>1. Relinked(D, C)[x] = Nil
      BY <2>4 DEF Relinked
    <3>2. PICK d \in D : Prev[d] = x
      BY <2>4
    <3>3. ASSUME NEW y \in Ancestors[c], Prev[y] = x PROVE FALSE
      <4>1. y \in Ancestors[b] /\ y # d
        BY <2>4, <3>2, <3>3
      <4>2. y # Genesis /\ d # Genesis
        BY <3>2, <3>3, TreeAssumption
      <4> QED BY <4>1, <4>2, <3>2, <3>3, OneChild
    <3> QED BY <3>1, <3>3, <2>1, <1>2
  <2>5. CASE ~(\E y \in C : Prev[y] = x) /\ ~(\E d \in D : Prev[d] = x)
    <3>1. Relinked(D, C)[x] = v.next[x]
      BY <2>5 DEF Relinked
    <3>2. \A y \in Blocks : v.next[x] = y <=> w.next[x] = y
      BY <2>1, <2>2, <2>5
    <3> QED BY <3>1, <3>2, <1>2
  <2> QED BY <2>3, <2>4, <2>5
<1>4. Relinked(D, C) = [x \in Blocks |-> Relinked(D, C)[x]]
  BY DEF Relinked
<1> HIDE DEF C, D
<1>5. w.next = [x \in Blocks |-> w.next[x]]
  BY <1>2
<1>6. Relinked(D, C) = w.next
  BY <1>3, <1>4, <1>5
<1> QED BY <1>6 DEF C, D

\* What a call is allowed to assume once it has started from a good state.
LEMMA StartCall ==
  ASSUME NEW new \in Blocks, NEW best \in Blocks,
         StartSetBestChain(new, best),
         pindexBest' = best, diskBest' = best, new \in diskIndex',
         ViewOf(disk', best), ChainOK(best)
  PROVE  CallOK' /\ phase' \in {"reorganize", "tail"}
<1>1. target' = new /\ cur' = best /\ batch' = disk'
  BY DEF StartSetBestChain
<1>2. best \in Ancestors[best]
  BY AncestorsSelf
<1>3. CASE Prev[new] = best
  <2>1. phase' = "tail"
    BY <1>3 DEF StartSetBestChain
  <2> QED BY <1>1, <1>3, <2>1 DEF CallOK
<1>4. CASE Prev[new] # best
  <2>1. phase' = "reorganize"
    BY <1>4 DEF StartSetBestChain
  <2> QED BY <1>1, <1>2, <1>4, <2>1 DEF CallOK
<1> QED BY <1>3, <1>4

LEMMA DiskInit == Init => DiskInv
<1> SUFFICES ASSUME Init PROVE DiskInv
  OBVIOUS
<1>1. IndexClosed
  BY AncestorsGenesis DEF Init, IndexClosed
<1>2. LinksMatch /\ CallOK
  BY TreeAssumption DEF Init, LinksMatch, CallOK, EmptyView
<1> QED BY TypeInit, <1>1, <1>2, EmptyViewOf DEF Init, DiskInv

\* SetBestChain starts from the tip on disk, or the state is stale.
LEMMA StartStale ==
  ASSUME NEW new, NEW best, StartSetBestChain(new, best), ~stale'
  PROVE  best = diskBest
BY DEF StartSetBestChain

\* Once stale, always stale.
LEMMA StaleStays ==
  ASSUME [Next]_vars, ~stale'
  PROVE  ~stale
BY DEF Next, SetBestChainStep, vars, AcceptBlock, AcceptToMemoryPool, AcceptCheck,
       AcceptAdd, SyncCheckpoint, UpdateFortunastakes, Crash, LoadBlockIndex,
       LoadBlockIndexRollback, LoadedFromDisk, StartSetBestChain

LEMMA DiskNext ==
  ASSUME DiskInv, [Next]_vars, ~stale'
  PROVE  DiskInv'
<1>t. TypeInv'
  BY TypeNext DEF DiskInv
<1>s. /\ TypeInv /\ TypeOK /\ JobOK /\ IndexClosed /\ LinksMatch /\ CallOK
      /\ ViewOf(disk, diskBest) /\ ChainOK(diskBest)
      /\ disk \in View /\ batch \in View
      /\ diskBest \in Blocks /\ pindexBest \in Blocks
      /\ target \in Blocks /\ inter \in Blocks /\ cur \in Blocks
      /\ diskIndex \in SUBSET Blocks
      /\ pnext \in [Blocks -> Blocks \cup {Nil}]
  BY DEF DiskInv, TypeInv, TypeOK
<1> DEFINE Rest == /\ IndexClosed'
                   /\ ViewOf(disk', diskBest') /\ ChainOK(diskBest')
                   /\ LinksMatch' /\ CallOK'
<1>q. ASSUME Rest PROVE DiskInv'
  BY <1>q, <1>t DEF DiskInv
<1>1. ASSUME NEW b \in Blocks, AcceptBlock(b) PROVE Rest
  <2>1. /\ phase = "idle" /\ b \notin diskIndex /\ Prev[b] \in diskIndex
        /\ pnext = disk.next /\ diskBest \in Ancestors[pindexBest]
    BY <1>1, <1>s DEF AcceptBlock, LinksMatch, CallOK
  <2>2. b # Genesis
    BY <2>1, <1>s, TreeAssumption
  <2>3. Ancestors[b] = {b} \cup Ancestors[Prev[b]]
    BY <2>2, AncestorsStep
  <2>4. b \notin Ancestors[diskBest]
    BY <2>1, <1>s DEF IndexClosed
  <2>5. disk.next[b] = Nil
    BY <2>4, <1>s, NoLink
  <2>6. disk' = disk
    <3>1. disk' = [disk EXCEPT !.next = [@ EXCEPT ![b] = Nil]]
      BY <1>1 DEF AcceptBlock
    <3>2. [disk.next EXCEPT ![b] = Nil] = disk.next
      BY <2>5, <1>s DEF View
    <3> QED BY <3>1, <3>2, <1>s DEF View
  <2>7. /\ diskIndex' = diskIndex \cup {b} /\ mapBlockIndex' = diskIndex \cup {b}
        /\ diskBest' = diskBest /\ pindexBest' = pindexBest /\ pnext' = pnext
    BY <1>1, <1>s DEF AcceptBlock, LinksMatch
  <2>8. IndexClosed'
    BY <2>1, <2>3, <2>7, <1>s DEF IndexClosed
  <2>9. LinksMatch'
    BY <2>1, <2>6, <2>7 DEF LinksMatch
  <2>10. CallOK'
    <3>1. CASE NewBest(b)
      <4>1. StartSetBestChain(b, pindexBest)
        BY <3>1, <1>1 DEF AcceptBlock
      <4>2. pindexBest = diskBest
        BY <4>1, StartStale
      <4> QED BY <4>1, <4>2, <2>1, <2>6, <2>7, <1>s, StartCall
    <3>2. CASE ~NewBest(b)
      BY <3>2, <1>1, <2>1, <2>7 DEF AcceptBlock, CallOK
    <3> QED BY <3>1, <3>2
  <2> QED BY <2>6, <2>7, <2>8, <2>9, <2>10, <1>s
<1>2. ASSUME NEW t \in Txs, AcceptToMemoryPool(t) PROVE Rest
  BY <1>2, <1>s DEF AcceptToMemoryPool, memVars, diskVars, jobVars,
                    IndexClosed, LinksMatch, CallOK
<1>a. ASSUME NEW t \in Txs, AcceptCheck(t) PROVE Rest
  BY <1>a, <1>s DEF AcceptCheck, memVars, diskVars, jobVars,
                    IndexClosed, LinksMatch, CallOK
<1>b. ASSUME AcceptAdd PROVE Rest
  BY <1>b, <1>s DEF AcceptAdd, memVars, diskVars, jobVars,
                    IndexClosed, LinksMatch, CallOK
<1>3. ASSUME ReorganizeDisconnect PROVE Rest
  <2>1. /\ phase = "reorganize" /\ cur \notin Ancestors[inter]
        /\ batch' = DisconnectBlock(batch, cur) /\ cur' = Prev[cur]
        /\ UNCHANGED <<mapBlockIndex, pnext, pindexBest, diskIndex, diskBest, disk,
                       phase, target, inter>>
    BY <1>3 DEF ReorganizeDisconnect, memVars, diskVars
  <2>2. cur # Genesis
    BY <2>1, <1>s, TreeAssumption
  <2>3. /\ ViewOf(batch, cur) /\ ChainOK(cur) /\ cur \in Ancestors[pindexBest]
        /\ Ancestors[inter] \cap Ancestors[pindexBest] \subseteq Ancestors[cur]
    BY <2>1, <1>s DEF CallOK
  <2>4. ViewOf(batch', cur') /\ ChainOK(cur')
    BY <2>1, <2>2, <2>3, <1>s, DisconnectView, ChainOKPrev
  <2>5. Ancestors[cur] = {cur} \cup Ancestors[Prev[cur]]
    BY <2>2, <1>s, AncestorsStep
  <2>6. Prev[cur] \in Ancestors[pindexBest]
    BY <2>2, <2>3, <1>s, AncestorsPrev
  <2>7. CallOK'
    BY <2>1, <2>3, <2>4, <2>5, <2>6, <1>s DEF CallOK
  <2> QED BY <2>1, <2>7, <1>s DEF IndexClosed, LinksMatch
<1>4. ASSUME ReorganizeConnect PROVE Rest
  <2> DEFINE b == Toward(cur, inter)
  <2>1. /\ phase = "reorganize" /\ cur \in Ancestors[inter] /\ cur # inter
        /\ ConnectBlockOK(batch, b)
        /\ batch' = ConnectBlock(batch, b, pnext) /\ cur' = b
        /\ UNCHANGED <<mapBlockIndex, pnext, pindexBest, diskIndex, diskBest, disk,
                       phase, target, inter>>
    BY <1>4 DEF ReorganizeConnect, memVars, diskVars
  <2>2. b \in Ancestors[inter] /\ b \in Blocks /\ b # Genesis /\ Prev[b] = cur
    BY <2>1, <1>s, TowardChild
  <2> HIDE DEF b
  <2>3. /\ ViewOf(batch, cur) /\ ChainOK(cur) /\ pindexBest = diskBest
        /\ Ancestors[inter] \cap Ancestors[pindexBest] \subseteq Ancestors[cur]
        /\ pnext = disk.next
    BY <2>1, <1>s DEF CallOK, LinksMatch
  <2>4. b \notin Ancestors[cur] /\ Ancestors[cur] \subseteq Ancestors[b]
    BY <2>2, ParentFacts
  <2>5. pnext[b] = Nil
    BY <2>2, <2>3, <2>4, <1>s, NoLink
  <2>6. Connects(batch, b)
    BY <2>1 DEF ConnectBlockOK
  <2>7. ViewOf(batch', b) /\ ChainOK(b)
    BY <2>1, <2>2, <2>3, <2>5, <2>6, <1>s, ConnectTip, ConnectChainOK
  <2>8. CallOK'
    BY <2>1, <2>2, <2>3, <2>4, <2>7, <1>s DEF CallOK
  <2> QED BY <2>1, <2>8, <1>s DEF IndexClosed, LinksMatch
<1>5. ASSUME ReorganizeFails PROVE Rest
  BY <1>5, <1>s, AncestorsSelf DEF ReorganizeFails, EndSetBestChain, memVars, diskVars,
                    IndexClosed, LinksMatch, CallOK
<1>6. ASSUME ReorganizeCommit PROVE Rest
  <2>1. /\ phase = "reorganize" /\ cur = inter /\ phase' = "resurrect"
        /\ disk' = batch /\ diskBest' = inter
        /\ pnext' = Relinked(Ancestors[pindexBest] \ Ancestors[inter],
                             Ancestors[inter] \ Ancestors[pindexBest])
        /\ UNCHANGED <<mapBlockIndex, pindexBest, diskIndex, target, inter, cur>>
    BY <1>6 DEF ReorganizeCommit, jobVars
  <2>2. /\ ViewOf(batch, inter) /\ ChainOK(inter) /\ pindexBest = diskBest
        /\ pnext = disk.next /\ target \in diskIndex /\ Prev[target] # pindexBest
        /\ mapBlockIndex = diskIndex /\ inter \in Ancestors[target]
    BY <2>1, <1>s DEF CallOK, LinksMatch, JobOK
  <2>3. pnext' = batch.next
    BY <2>1, <2>2, <1>s, RelinkedLinks
  <2>4. IndexClosed'
    BY <2>1, <2>2, <1>s DEF IndexClosed
  <2> QED BY <2>1, <2>2, <2>3, <2>4 DEF LinksMatch, CallOK
<1>7. ASSUME ReorganizeResurrect PROVE Rest
  BY <1>7, <1>s DEF ReorganizeResurrect, memVars, diskVars,
                    IndexClosed, LinksMatch, CallOK
<1>8. ASSUME ReorganizeDelete PROVE Rest
  BY <1>8, <1>s DEF ReorganizeDelete, memVars, diskVars,
                    IndexClosed, LinksMatch, CallOK
<1>9. ASSUME ReorganizeDone PROVE Rest
  BY <1>9, <1>s DEF ReorganizeDone, memVars, diskVars,
                    IndexClosed, LinksMatch, CallOK
<1>10. ASSUME SetBestChainInner PROVE Rest
  <2> DEFINE b == Toward(cur, target)
             v == ConnectBlock(batch, b, pnext)
  <2>1. /\ phase = "tail" /\ cur # target /\ ConnectBlockOK(batch, b)
        /\ disk' = v /\ batch' = v /\ diskBest' = b /\ cur' = b
        /\ pnext' = [pnext EXCEPT ![Prev[b]] = b]
        /\ UNCHANGED <<mapBlockIndex, pindexBest, diskIndex, phase, target>>
    BY <1>10 DEF SetBestChainInner
  <2>2. /\ cur = diskBest /\ batch = disk /\ pnext = disk.next
        /\ mapBlockIndex = diskIndex /\ target \in diskIndex
        /\ cur \in Ancestors[target]
        /\ Prev[target] = pindexBest => cur \in {pindexBest, target}
    BY <2>1, <1>s DEF CallOK, LinksMatch, JobOK
  <2>3. b \in Ancestors[target] /\ b \in Blocks /\ b # Genesis /\ Prev[b] = cur
    BY <2>1, <2>2, <1>s, TowardChild
  <2>v. v.next = [batch.next EXCEPT ![b] = pnext[b], ![Prev[b]] = b]
    BY DEF ConnectBlock
  <2>w. v = ConnectBlock(batch, b, pnext)
    OBVIOUS
  <2> HIDE DEF b, v
  <2>4. b \notin Ancestors[cur]
    BY <2>3, ParentFacts
  <2>5. pnext[b] = Nil
    BY <2>2, <2>3, <2>4, <1>s, NoLink
  <2>6. ViewOf(v, b) /\ ChainOK(b)
    <3>1. Connects(batch, b)
      BY <2>1 DEF ConnectBlockOK
    <3> QED BY <2>2, <2>3, <2>5, <2>w, <3>1, <1>s, ConnectTip, ConnectChainOK
  <2>7. pnext' = v.next
    BY <2>1, <2>2, <2>3, <2>5, <2>v, <1>s, ParentFacts
  <2>8. Prev[target] = pindexBest => b = target
    <3>1. ASSUME Prev[target] = pindexBest PROVE b = target
      <4>1. Prev[b] = Prev[target] /\ target # Genesis
        BY <3>1, <2>1, <2>2, <2>3, <1>s, TreeAssumption
      <4> QED BY <4>1, <2>3, <1>s, OneChild, AncestorsSelf
    <3> QED BY <3>1
  <2>9. IndexClosed'
    BY <2>1, <2>2, <2>3, <1>s DEF IndexClosed
  <2> QED BY <2>1, <2>2, <2>6, <2>7, <2>8, <2>9 DEF LinksMatch, CallOK
<1>11. ASSUME ExtendFails PROVE Rest
  BY <1>11, <1>s, AncestorsSelf DEF ExtendFails, EndSetBestChain, memVars, diskVars,
                     IndexClosed, LinksMatch, CallOK
<1>12. ASSUME PostponedFails PROVE Rest
  <2>1. /\ phase = "tail" /\ phase' = "idle" /\ pindexBest' = target
        /\ UNCHANGED <<mapBlockIndex, pnext, diskIndex, diskBest, disk>>
    BY <1>12 DEF PostponedFails, EndSetBestChain, diskVars
  <2>2. diskBest \in Ancestors[target]
    BY <2>1, <1>s DEF CallOK, JobOK
  <2> QED BY <2>1, <2>2, <1>s DEF IndexClosed, LinksMatch, CallOK
<1>13. ASSUME SetBestChainDone PROVE Rest
  BY <1>13, <1>s, AncestorsSelf DEF SetBestChainDone, EndSetBestChain, diskVars,
                                    IndexClosed, LinksMatch, CallOK
<1>14. ASSUME NEW c \in Blocks, SyncCheckpoint(c) PROVE Rest
  <2>1. /\ phase = "idle" /\ c \in mapBlockIndex /\ StartSetBestChain(c, pindexBest)
        /\ UNCHANGED <<mapBlockIndex, pnext, pindexBest, diskIndex, diskBest, disk>>
    BY <1>14 DEF SyncCheckpoint, memVars
  <2>2. c \in diskIndex /\ pindexBest = diskBest
    BY <2>1, <1>s, StartStale DEF LinksMatch
  <2>3. CallOK'
    BY <2>1, <2>2, <1>s, StartCall
  <2> QED BY <2>1, <2>3, <1>s DEF IndexClosed, LinksMatch
<1>15. ASSUME NEW S \in SUBSET PayeeBlocks, UpdateFortunastakes(S) PROVE Rest
  BY <1>15, <1>s DEF UpdateFortunastakes, memVars, diskVars, jobVars,
                     IndexClosed, LinksMatch, CallOK
<1>16. ASSUME Crash PROVE Rest
  BY <1>16, <1>s DEF Crash, diskVars, IndexClosed, LinksMatch, CallOK
<1>17. ASSUME LoadBlockIndex PROVE Rest
  BY <1>17, <1>s, AncestorsSelf DEF LoadBlockIndex, LoadedFromDisk, diskVars, jobVars,
                     IndexClosed, LinksMatch, CallOK
<1>18. ASSUME NEW f \in Blocks, LoadBlockIndexRollback(f) PROVE Rest
  <2>1. /\ f \in Ancestors[diskBest] /\ StartSetBestChain(f, diskBest)
        /\ mapBlockIndex' = diskIndex /\ pnext' = disk.next /\ pindexBest' = diskBest
        /\ UNCHANGED <<diskIndex, diskBest, disk>>
    BY <1>18 DEF LoadBlockIndexRollback, LoadedFromDisk, diskVars
  <2>2. f \in diskIndex
    BY <2>1, <1>s DEF IndexClosed
  <2>3. CallOK'
    BY <2>1, <2>2, <1>s, StartCall
  <2> QED BY <2>1, <2>3, <1>s DEF IndexClosed, LinksMatch
<1>19. ASSUME UNCHANGED vars PROVE Rest
  BY <1>19, <1>s DEF vars, memVars, diskVars, jobVars, IndexClosed, LinksMatch, CallOK
<1> HIDE DEF Rest
<1> QED
  BY <1>q, <1>1, <1>2, <1>a, <1>b, <1>3, <1>4, <1>5, <1>6, <1>7, <1>8, <1>9, <1>10, <1>11,
     <1>12, <1>13, <1>14, <1>15, <1>16, <1>17, <1>18, <1>19
     DEF Next, SetBestChainStep

\* What the inductive invariant says of the properties.
LEMMA DiskProperties ==
  ASSUME DiskInv
  PROVE  /\ DiskMatchesTip /\ BestChainValid /\ BatchMatchesTip /\ TipDisconnects
         /\ MemoryFollowsDisk
<1>1. DiskMatchesTip /\ BestChainValid
  BY DEF DiskInv, DiskMatchesTip, BestChainValid
<1>2. BatchMatchesTip
  BY DEF DiskInv, CallOK, BatchMatchesTip
<1>3. MemoryFollowsDisk
  BY DEF DiskInv, CallOK, LinksMatch, MemoryFollowsDisk
<1>4. TipDisconnects
  <2> SUFFICES ASSUME phase = "reorganize", cur \notin Ancestors[inter]
               PROVE  Disconnects(batch, cur)
    BY DEF TipDisconnects
  <2>1. batch \in View /\ cur \in Blocks /\ inter \in Blocks
    BY DEF DiskInv, TypeInv, TypeOK
  <2>2. ViewOf(batch, cur) /\ ChainOK(cur) /\ cur # Genesis
    BY <2>1, TreeAssumption DEF DiskInv, CallOK
  <2> QED BY <2>1, <2>2, DisconnectView
<1> QED BY <1>1, <1>2, <1>3, <1>4

\* Until SetBestChain starts from a tip that is not on disk, the disk is
\* exactly the state of a valid chain through every reorganisation, failure,
\* crash, restart, checkpoint and racing transaction, the batch is that of the
\* chain built so far, every block of it disconnects, and memory follows the
\* disk.  The run postponed shows how a tip gets off the disk.
THEOREM DiskSafe == Spec => [](SoundUntilStale /\ MemoryFollowsDisk)
<1> DEFINE Inv == ~stale => DiskInv
<1>1. Init => Inv
  BY DiskInit
<1>2. Inv /\ [Next]_vars => Inv'
  <2> SUFFICES ASSUME Inv, [Next]_vars, ~stale' PROVE DiskInv'
    OBVIOUS
  <2>1. ~stale
    BY StaleStays
  <2> QED BY <2>1, DiskNext
<1>3. Inv => SoundUntilStale /\ MemoryFollowsDisk
  BY DiskProperties DEF SoundUntilStale, MemoryFollowsDisk
<1> QED BY <1>1, <1>2, <1>3, PTL DEF Spec

\* The tip in memory is the one on disk between calls, and nothing is stale.
Synchronised == DiskInv /\ ~stale /\ (phase = "idle" => pindexBest = diskBest)

LEMMA SynchronisedNext ==
  ASSUME Synchronised, [Next]_vars, [~PostponedFails]_vars
  PROVE  Synchronised'
<1>1. DiskInv /\ ~stale
  BY DEF Synchronised
<1>2. ~PostponedFails
  <2> SUFFICES ASSUME PostponedFails PROVE FALSE
    OBVIOUS
  <2>1. phase' = "idle" /\ phase = "tail"
    BY DEF PostponedFails, EndSetBestChain
  <2> QED BY <2>1 DEF vars
<1>3. ~stale'
  BY <1>1 DEF Synchronised, Next, SetBestChainStep, vars, AcceptBlock,
     AcceptToMemoryPool, AcceptCheck, AcceptAdd, SyncCheckpoint,
     UpdateFortunastakes, Crash, LoadBlockIndex, LoadBlockIndexRollback,
     LoadedFromDisk, StartSetBestChain
<1>4. DiskInv'
  BY <1>1, <1>3, DiskNext
<1>5. ASSUME phase' = "idle" PROVE pindexBest' = diskBest'
  <2>1. CallOK /\ (phase = "idle" => pindexBest = diskBest)
    BY DEF Synchronised, DiskInv
  <2>2. ASSUME ReorganizeFails \/ ExtendFails \/ SetBestChainDone
        PROVE  pindexBest' = diskBest'
    BY <2>1, <2>2
       DEF CallOK, ReorganizeFails, ExtendFails, SetBestChainDone, memVars, diskVars
  <2> QED
    BY <1>2, <1>5, <2>1, <2>2
       DEF Next, SetBestChainStep, vars, AcceptBlock, AcceptToMemoryPool,
           AcceptCheck, AcceptAdd, ReorganizeDisconnect, ReorganizeConnect,
           ReorganizeCommit, ReorganizeResurrect, ReorganizeDelete,
           ReorganizeDone, SetBestChainInner, SyncCheckpoint,
           UpdateFortunastakes, Crash, LoadBlockIndex, LoadBlockIndexRollback,
           LoadedFromDisk, StartSetBestChain, memVars, diskVars
<1> QED BY <1>3, <1>4, <1>5 DEF Synchronised

\* As long as no postponed block fails to connect, memory and disk agree
\* between calls.
THEOREM MemorySafe == Spec /\ [][~PostponedFails]_vars => []MemoryMatchesDisk
<1>1. Init => Synchronised
  BY DiskInit DEF Init, Synchronised
<1>2. Synchronised /\ [Next]_vars /\ [~PostponedFails]_vars => Synchronised'
  BY SynchronisedNext
<1>3. Synchronised => MemoryMatchesDisk
  BY DEF Synchronised, DiskInv, LinksMatch, MemoryMatchesDisk
<1> QED BY <1>1, <1>2, <1>3, PTL DEF Spec

\* As long as no postponed block fails to connect, nothing ever starts from a
\* stale tip: at every moment the disk is the state of a valid chain, the batch
\* that of the chain built so far, and the tip can be disconnected.
THEOREM ChainSafe ==
  Spec /\ [][~PostponedFails]_vars
    => [](DiskMatchesTip /\ BestChainValid /\ BatchMatchesTip /\ TipDisconnects)
<1>1. Init => Synchronised
  BY DiskInit DEF Init, Synchronised
<1>2. Synchronised /\ [Next]_vars /\ [~PostponedFails]_vars => Synchronised'
  BY SynchronisedNext
<1>3. Synchronised => DiskMatchesTip /\ BestChainValid /\ BatchMatchesTip /\ TipDisconnects
  BY DiskProperties DEF Synchronised
<1> QED BY <1>1, <1>2, <1>3, PTL DEF Spec

-----------------------------------------------------------------------------
\* The tip on disk is never ahead in trust of where the call under way takes
\* it: of the tip in memory before a commit, of the last block connected after
\* it.
TrustInv ==
  /\ phase \in {"idle", "reorganize"} => ChainTrust[diskBest] <= ChainTrust[pindexBest]
  /\ phase = "reorganize" => ChainTrust[inter] > ChainTrust[pindexBest]
  /\ phase = "resurrect" => diskBest = inter
  /\ phase = "tail" => ChainTrust[diskBest] <= ChainTrust[cur]

\* Trust is a number, so that it can be compared.
LEMMA TrustNat == \A b \in Blocks : ChainTrust[b] \in Nat
BY TreeAssumption

\* A call for a block with more trust than the tip.
LEMMA StartTrust ==
  ASSUME NEW new \in Blocks, StartSetBestChain(new, pindexBest), pindexBest \in Blocks,
         diskBest \in Blocks, ChainTrust[new] > ChainTrust[pindexBest],
         ChainTrust[diskBest] <= ChainTrust[pindexBest],
         pindexBest' = pindexBest, diskBest' = diskBest
  PROVE  TrustInv'
<1>1. CASE Prev[new] = pindexBest
  BY <1>1 DEF StartSetBestChain, TrustInv
<1>2. CASE Prev[new] # pindexBest
  BY <1>2, IntermediateOK DEF StartSetBestChain, TrustInv
<1> QED BY <1>1, <1>2

\* A call that ends with the new tip in memory, wherever it got to on disk.
LEMMA EndTrust ==
  ASSUME TypeInv, TrustInv, phase = "tail", EndSetBestChain, pindexBest' = target,
         diskBest' = diskBest
  PROVE  TrustInv'
<1>1. cur \in Ancestors[target] /\ target \in Blocks /\ diskBest \in Blocks /\ cur \in Blocks
  BY DEF TypeInv, TypeOK, JobOK
<1>2. ChainTrust[cur] <= ChainTrust[target]
  BY <1>1, AncestorsBelow, TrustNat
<1>3. ChainTrust[diskBest] <= ChainTrust[target]
  BY <1>1, <1>2, TrustNat DEF TrustInv
<1> QED BY <1>3 DEF EndSetBestChain, TrustInv

\* Steps that change neither tip, nor where the call stands.
LEMMA SameTrust ==
  ASSUME TrustInv, diskBest' = diskBest, pindexBest' = pindexBest, phase' = phase,
         inter' = inter, phase = "tail" => cur' = cur
  PROVE  TrustInv'
BY DEF TrustInv

LEMMA TrustNext ==
  ASSUME Events \cap {"checkpoint", "rollback"} = {}, TypeInv, TrustInv, [Next]_vars
  PROVE  /\ TrustInv'
         /\ diskBest' # diskBest => ChainTrust[diskBest'] > ChainTrust[diskBest]
<1>t. /\ pindexBest \in Blocks /\ diskBest \in Blocks
      /\ target \in Blocks /\ inter \in Blocks /\ cur \in Blocks
  BY DEF TypeInv, TypeOK
<1>1. ASSUME NEW b \in Blocks, AcceptBlock(b)
      PROVE  TrustInv' /\ diskBest' = diskBest
  <2>1. diskBest' = diskBest /\ pindexBest' = pindexBest /\ phase = "idle"
    BY <1>1 DEF AcceptBlock
  <2>2. CASE NewBest(b)
    BY <1>1, <1>t, <2>1, <2>2, StartTrust DEF AcceptBlock, NewBest, TrustInv
  <2>3. CASE ~NewBest(b)
    BY <1>1, <2>1, <2>3, SameTrust DEF AcceptBlock, jobVars
  <2> QED BY <2>1, <2>2, <2>3
<1>2. ASSUME NEW t \in Txs, AcceptToMemoryPool(t) \/ AcceptCheck(t)
      PROVE  TrustInv' /\ diskBest' = diskBest
  BY <1>2, SameTrust DEF AcceptToMemoryPool, AcceptCheck, memVars, diskVars, jobVars
<1>3. ASSUME AcceptAdd PROVE TrustInv' /\ diskBest' = diskBest
  BY <1>3, SameTrust DEF AcceptAdd, memVars, diskVars, jobVars
<1>4. ASSUME ReorganizeDisconnect \/ ReorganizeConnect
      PROVE  TrustInv' /\ diskBest' = diskBest
  <2>1. /\ phase = "reorganize" /\ phase' = phase /\ inter' = inter
        /\ diskBest' = diskBest /\ pindexBest' = pindexBest
    BY <1>4 DEF ReorganizeDisconnect, ReorganizeConnect, memVars, diskVars
  <2> QED BY <2>1, SameTrust
<1>5. ASSUME ReorganizeFails PROVE TrustInv' /\ diskBest' = diskBest
  BY <1>5 DEF ReorganizeFails, EndSetBestChain, memVars, diskVars, TrustInv
<1>6. ASSUME ReorganizeCommit
      PROVE  TrustInv' /\ ChainTrust[diskBest'] > ChainTrust[diskBest]
  <2>1. /\ phase = "reorganize" /\ phase' = "resurrect" /\ diskBest' = inter
        /\ inter' = inter
    BY <1>6 DEF ReorganizeCommit, jobVars
  <2>2. ChainTrust[inter] > ChainTrust[diskBest]
    BY <1>t, <2>1, TrustNat DEF TrustInv
  <2> QED BY <2>1, <2>2 DEF TrustInv
<1>7. ASSUME ReorganizeResurrect \/ ReorganizeDelete
      PROVE  TrustInv' /\ diskBest' = diskBest
  BY <1>7, SameTrust DEF ReorganizeResurrect, ReorganizeDelete, memVars, diskVars
<1>8. ASSUME ReorganizeDone PROVE TrustInv' /\ diskBest' = diskBest
  <2>1. /\ phase = "resurrect" /\ phase' = "tail" /\ cur' = cur
        /\ diskBest' = diskBest
    BY <1>8 DEF ReorganizeDone, diskVars
  <2>2. diskBest = cur
    BY <2>1 DEF TrustInv, TypeInv, JobOK
  <2> QED BY <1>t, <2>1, <2>2, TrustNat DEF TrustInv
<1>9. ASSUME SetBestChainInner
      PROVE  TrustInv' /\ ChainTrust[diskBest'] > ChainTrust[diskBest]
  <2> DEFINE b == Toward(cur, target)
  <2>1. /\ phase = "tail" /\ phase' = phase /\ cur # target
        /\ diskBest' = b /\ cur' = b
    BY <1>9 DEF SetBestChainInner
  <2>2. b \in Blocks /\ b # Genesis /\ Prev[b] = cur
    BY <1>t, <2>1, TowardChild DEF TypeInv, JobOK
  <2>3. ChainTrust[b] > ChainTrust[cur]
    BY <2>2, TreeAssumption
  <2> HIDE DEF b
  <2>4. ChainTrust[b] > ChainTrust[diskBest]
    BY <1>t, <2>1, <2>2, <2>3, TrustNat DEF TrustInv
  <2> QED BY <2>1, <2>2, <2>4, TrustNat DEF TrustInv
<1>10. ASSUME ExtendFails PROVE TrustInv' /\ diskBest' = diskBest
  <2>1. /\ phase = "tail" /\ cur # target /\ Prev[target] = pindexBest
        /\ phase' = "idle" /\ diskBest' = diskBest /\ pindexBest' = pindexBest
    BY <1>10 DEF ExtendFails, EndSetBestChain, memVars, diskVars
  <2>2. target # Genesis
    BY <1>t, <2>1, TreeAssumption
  <2>3. cur \in Ancestors[pindexBest]
    BY <1>t, <2>1, <2>2, AncestorsStep DEF TypeInv, JobOK
  <2>4. ChainTrust[cur] <= ChainTrust[pindexBest]
    BY <1>t, <2>3, AncestorsBelow, TrustNat
  <2>5. ChainTrust[diskBest] <= ChainTrust[pindexBest]
    BY <1>t, <2>1, <2>4, TrustNat DEF TrustInv
  <2> QED BY <2>1, <2>5 DEF TrustInv
<1>11. ASSUME PostponedFails \/ SetBestChainDone
       PROVE  TrustInv' /\ diskBest' = diskBest
  <2>1. /\ phase = "tail" /\ EndSetBestChain /\ pindexBest' = target
        /\ diskBest' = diskBest
    BY <1>11 DEF PostponedFails, SetBestChainDone, diskVars
  <2> QED BY <2>1, EndTrust
<1>12. ASSUME NEW S \in SUBSET PayeeBlocks, UpdateFortunastakes(S)
       PROVE  TrustInv' /\ diskBest' = diskBest
  BY <1>12, SameTrust DEF UpdateFortunastakes, memVars, diskVars, jobVars
<1>13. ASSUME Crash PROVE TrustInv' /\ diskBest' = diskBest
  BY <1>13 DEF Crash, diskVars, TrustInv
<1>14. ASSUME LoadBlockIndex PROVE TrustInv' /\ diskBest' = diskBest
  <2>1. phase' = "idle" /\ pindexBest' = diskBest /\ diskBest' = diskBest
    BY <1>14 DEF LoadBlockIndex, LoadedFromDisk, diskVars
  <2> QED BY <1>t, <2>1, TrustNat DEF TrustInv
<1>15. ASSUME UNCHANGED vars PROVE TrustInv' /\ diskBest' = diskBest
  BY <1>15, SameTrust DEF vars, memVars, diskVars, jobVars
<1>16. /\ \A c \in Blocks : ~SyncCheckpoint(c)
       /\ \A f \in Blocks : ~LoadBlockIndexRollback(f)
  BY DEF SyncCheckpoint, LoadBlockIndexRollback
<1> QED
  BY <1>1, <1>2, <1>3, <1>4, <1>5, <1>6, <1>7, <1>8, <1>9, <1>10, <1>11, <1>12,
     <1>13, <1>14, <1>15, <1>16 DEF Next, SetBestChainStep

\* As long as nothing forces a lighter chain (a sync-checkpoint, a roll-back at
\* start-up), every commit takes the chain on disk to one with more trust:
\* bad blocks, failing postponed blocks, crashes and racing transactions never
\* bring a lighter one.
THEOREM MoreTrustOnly ==
  Events \cap {"checkpoint", "rollback"} = {} => (Spec => OnlyMoreTrust)
<1> SUFFICES ASSUME Events \cap {"checkpoint", "rollback"} = {}
             PROVE  Spec => OnlyMoreTrust
  OBVIOUS
<1> DEFINE Inv == TypeInv /\ TrustInv
<1>1. Init => Inv
  BY TypeInit, TreeAssumption DEF Init, TrustInv
<1>2. Inv /\ [Next]_vars
        => /\ Inv'
           /\ [diskBest' # diskBest => ChainTrust[diskBest'] > ChainTrust[diskBest]]_vars
  BY TypeNext, TrustNext
<1> QED BY <1>1, <1>2, PTL DEF Spec, OnlyMoreTrust

-----------------------------------------------------------------------------
Queued(t, s) == \E i \in 1 .. Len(s) : s[i] = t

\* No transaction of q spends what u spends.
Cleaned(q, u) == \A t \in q.mapTx : vin[t] \cap vin[u] = {}

\* What is in the pool and confirmed is still to be deleted; what the batch
\* confirms and the disk does not yet is queued for it.
FreshInv ==
  /\ \A t \in pool.mapTx :
       disk.pos[t] = Nil \/ (phase = "resurrect" /\ Queued(t, vDelete))
  /\ phase \in {"reorganize", "tail"} =>
       \A t \in Txs : batch.pos[t] # Nil =>
         disk.pos[t] # Nil \/ (phase = "reorganize" /\ Queued(t, vDelete))

\* What the new branch holds is queued, or what conflicts with it is gone;
\* nothing is gone before the last transaction has been resurrected.
CleanInv ==
  /\ phase = "reorganize" =>
       \A c \in Ancestors[cur] \ Ancestors[pindexBest] :
         \A u \in BlockTxs(c) : Queued(u, vDelete)
  /\ phase = "resurrect" =>
       \A c \in Ancestors[inter] \ Ancestors[pindexBest] :
         \A u \in BlockTxs(c) :
           Queued(u, vDelete) \/ (vResurrect = <<>> /\ Cleaned(pool, u))

\* A queue without its head, and one with a block's transactions added.
LEMMA QueueSteps ==
  ASSUME NEW s \in Seq(Txs)
  PROVE  /\ s # <<>> => \A t : Queued(t, s) => t = Head(s) \/ Queued(t, Tail(s))
         /\ \A b \in Blocks :
              /\ \A t : Queued(t, s) => Queued(t, s \o vtx[b])
              /\ \A t \in BlockTxs(b) : Queued(t, s \o vtx[b])
<1>1. ASSUME s # <<>>, NEW t, Queued(t, s)
      PROVE  t = Head(s) \/ Queued(t, Tail(s))
  <2>1. PICK i \in 1 .. Len(s) : s[i] = t
    BY <1>1 DEF Queued
  <2>2. CASE i = 1
    BY <1>1, <2>1, <2>2
  <2>3. CASE i # 1
    <3>1. i - 1 \in 1 .. Len(Tail(s)) /\ Tail(s)[i - 1] = t
      BY <1>1, <2>1, <2>3
    <3> QED BY <3>1 DEF Queued
  <2> QED BY <2>2, <2>3
<1>2. ASSUME NEW b \in Blocks, NEW t, Queued(t, s) PROVE Queued(t, s \o vtx[b])
  <2>1. PICK i \in 1 .. Len(s) : s[i] = t
    BY <1>2 DEF Queued
  <2>2. vtx[b] \in Seq(Txs)
    BY TxAssumption
  <2>3. i \in 1 .. Len(s \o vtx[b]) /\ (s \o vtx[b])[i] = t
    BY <2>1, <2>2
  <2> QED BY <2>3 DEF Queued
<1>3. ASSUME NEW b \in Blocks, NEW t \in BlockTxs(b) PROVE Queued(t, s \o vtx[b])
  <2>1. vtx[b] \in Seq(Txs)
    BY TxAssumption
  <2>2. PICK i \in 1 .. Len(vtx[b]) : vtx[b][i] = t
    BY <2>1 DEF BlockTxs
  <2>3. /\ Len(s) + i \in 1 .. Len(s \o vtx[b])
        /\ (s \o vtx[b])[Len(s) + i] = t
    BY <2>1, <2>2
  <2> QED BY <2>3 DEF Queued
<1> QED BY <1>1, <1>2, <1>3

\* Removing keeps a subset of the pool, so what is cleaned stays cleaned.
LEMMA RemoveShrinks ==
  ASSUME NEW q \in Pool, NEW S
  PROVE  remove(q, S).mapTx = q.mapTx \ S
BY DEF remove

\* Once t is deleted with its conflicts, neither t nor anything that spends
\* what t spends is left.
LEMMA DeleteCleans ==
  ASSUME NEW q \in Pool, PoolOK(q), NEW t \in Txs
  PROVE  LET r == removeConflicts(remove(q, {t}), t) IN
         r.mapTx \subseteq q.mapTx \ {t} /\ Cleaned(r, t)
<1> DEFINE p == remove(q, {t})
           W == WithDescendants(p, {p.mapNextTx[o] : o \in vin[t]} \ {t})
           r == removeConflicts(p, t)
<1>1. p \in Pool /\ PoolOK(p) /\ p.mapTx = q.mapTx \ {t}
  BY PoolType, PoolSteps, RemoveShrinks
<1>2. r.mapTx = p.mapTx \ W
  <2> HIDE DEF p
  <2> QED BY <1>1, RemoveShrinks DEF removeConflicts
<1>3. ASSUME NEW u \in r.mapTx, NEW o \in vin[u], o \in vin[t] PROVE FALSE
  <2>1. u \in p.mapTx /\ u # t /\ u \in Txs /\ o \in Outpoints
    BY <1>1, <1>2, <1>3, TxAssumption DEF Pool
  <2>2. p.mapNextTx[o] = u
    <3> HIDE DEF p
    <3> QED BY <1>1, <2>1 DEF PoolOK
  <2>3. u \in {p.mapNextTx[x] : x \in vin[t]} \ {t}
    BY <1>3, <2>1, <2>2
  <2>4. u \in W
    <3> HIDE DEF p
    <3> QED BY <2>1, <2>3 DEF WithDescendants
  <2> QED BY <1>2, <1>3, <2>4
<1>4. Cleaned(r, t)
  <2> HIDE DEF r
  <2> QED BY <1>3 DEF Cleaned
<1> QED BY <1>1, <1>2, <1>4

\* Steps that leave the pool alone, or shrink it, between calls or at their
\* ends.
LEMMA FreshQuiet ==
  ASSUME FreshInv, phase # "resurrect", phase' \notin {"reorganize", "resurrect", "tail"},
         pool'.mapTx \subseteq pool.mapTx, disk'.pos = disk.pos
  PROVE  FreshInv'
BY DEF FreshInv

\* A call starts with nothing connected yet.
LEMMA FreshStart ==
  ASSUME NEW new, NEW best, StartSetBestChain(new, best),
         FreshInv, phase # "resurrect", pool' = pool, disk'.pos = disk.pos
  PROVE  FreshInv'
BY DEF FreshInv, StartSetBestChain

LEMMA FreshNext ==
  ASSUME "race" \notin Events, TypeInv, FreshInv, accepting = Nil, [Next]_vars
  PROVE  FreshInv'
<1>t. /\ pool \in Pool /\ disk \in View /\ batch \in View
      /\ vDelete \in Seq(Txs) /\ vResurrect \in Seq(Txs)
      /\ target \in Blocks /\ inter \in Blocks /\ cur \in Blocks
      /\ pool.mapTx \subseteq Txs
  BY DEF TypeInv, TypeOK, Pool
<1>1. ASSUME NEW b \in Blocks, AcceptBlock(b) PROVE FreshInv'
  <2>1. phase = "idle" /\ pool' = pool /\ disk'.pos = disk.pos
    BY <1>1, <1>t DEF AcceptBlock, View
  <2>2. CASE NewBest(b)
    BY <1>1, <2>1, <2>2, FreshStart DEF AcceptBlock
  <2>3. CASE ~NewBest(b)
    BY <1>1, <2>1, <2>3, FreshQuiet DEF AcceptBlock
  <2> QED BY <2>2, <2>3
<1>2. ASSUME NEW t \in Txs, AcceptToMemoryPool(t) PROVE FreshInv'
  BY <1>2 DEF AcceptToMemoryPool, Accepts, addUnchecked, FreshInv, diskVars, jobVars
<1>3. ~(\E t \in Txs : AcceptCheck(t)) /\ ~AcceptAdd
  BY DEF AcceptCheck, AcceptAdd
<1>4. ASSUME ReorganizeDisconnect PROVE FreshInv'
  <2>1. /\ phase = "reorganize" /\ phase' = phase /\ pool' = pool /\ disk' = disk
        /\ vDelete' = vDelete /\ batch' = DisconnectBlock(batch, cur)
    BY <1>4 DEF ReorganizeDisconnect, diskVars
  <2>2. \A t \in Txs : batch'.pos[t] # Nil => batch.pos[t] # Nil
    BY <2>1 DEF DisconnectBlock
  <2> QED BY <2>1, <2>2 DEF FreshInv
<1>5. ASSUME ReorganizeConnect PROVE FreshInv'
  <2> DEFINE b == Toward(cur, inter)
  <2>1. /\ phase = "reorganize" /\ phase' = phase /\ pool' = pool /\ disk' = disk
        /\ vDelete' = vDelete \o vtx[b] /\ batch' = ConnectBlock(batch, b, pnext)
        /\ b \in Blocks
    BY <1>5, <1>t, TowardChild DEF ReorganizeConnect, diskVars
  <2> HIDE DEF b
  <2>2. \A t \in Txs : batch'.pos[t] # Nil => batch.pos[t] # Nil \/ t \in BlockTxs(b)
    BY <2>1 DEF ConnectBlock
  <2>3. ASSUME NEW t \in Txs, batch'.pos[t] # Nil
        PROVE  disk'.pos[t] # Nil \/ Queued(t, vDelete')
    BY <1>t, <2>1, <2>2, <2>3, QueueSteps DEF FreshInv
  <2> QED BY <2>1, <2>3 DEF FreshInv
<1>6. ASSUME ReorganizeFails \/ ExtendFails \/ PostponedFails \/ SetBestChainDone
      PROVE  FreshInv'
  <2>1. phase # "resurrect" /\ phase' = "idle" /\ pool' = pool /\ disk' = disk
    BY <1>6 DEF ReorganizeFails, ExtendFails, PostponedFails, SetBestChainDone,
                EndSetBestChain, diskVars
  <2> QED BY <2>1, FreshQuiet
<1>7. ASSUME ReorganizeCommit PROVE FreshInv'
  <2>1. /\ phase = "reorganize" /\ phase' = "resurrect" /\ pool' = pool
        /\ disk' = batch /\ vDelete' = vDelete
    BY <1>7 DEF ReorganizeCommit, jobVars
  <2> QED BY <1>t, <2>1 DEF FreshInv
<1>8. ASSUME ReorganizeResurrect PROVE FreshInv'
  <2> DEFINE t == Head(vResurrect)
  <2>1. /\ phase = "resurrect" /\ phase' = phase /\ disk' = disk /\ vDelete' = vDelete
        /\ pool' = IF Accepts(pool, disk, pindexBest, t)
                   THEN addUnchecked(pool, t) ELSE pool
    BY <1>8 DEF ReorganizeResurrect, diskVars
  <2> HIDE DEF t
  <2> QED BY <2>1 DEF FreshInv, Accepts, addUnchecked
<1>9. ASSUME ReorganizeDelete PROVE FreshInv'
  <2> DEFINE t == Head(vDelete)
             q == remove(pool, {t})
  <2>1. /\ phase = "resurrect" /\ phase' = phase /\ disk' = disk /\ vDelete # <<>>
        /\ vDelete' = Tail(vDelete) /\ pool' = removeConflicts(q, t)
    BY <1>9 DEF ReorganizeDelete, diskVars
  <2>2. q \in Pool /\ q.mapTx = pool.mapTx \ {t}
    BY <1>t, PoolType, RemoveShrinks
  <2>3. pool'.mapTx \subseteq pool.mapTx \ {t}
    <3> HIDE DEF q
    <3> QED BY <2>1, <2>2, RemoveShrinks DEF removeConflicts
  <2>4. ASSUME NEW u \in pool'.mapTx PROVE disk'.pos[u] = Nil \/ Queued(u, vDelete')
    BY <1>t, <2>1, <2>3, <2>4, QueueSteps DEF FreshInv
  <2> QED BY <2>1, <2>4 DEF FreshInv
<1>10. ASSUME ReorganizeDone PROVE FreshInv'
  <2>1. /\ phase = "resurrect" /\ phase' = "tail" /\ disk' = disk /\ batch' = disk
        /\ pool' = pool /\ vDelete = <<>>
    BY <1>10 DEF ReorganizeDone, diskVars
  <2>2. \A t : ~Queued(t, vDelete)
    BY <2>1 DEF Queued
  <2> QED BY <2>1, <2>2 DEF FreshInv
<1>11. ASSUME SetBestChainInner PROVE FreshInv'
  <2> DEFINE b == Toward(cur, target)
             v == ConnectBlock(batch, b, pnext)
  <2>1. /\ phase = "tail" /\ phase' = phase /\ disk' = v /\ batch' = v
        /\ pool' = removeConfirmed(pool, b)
    BY <1>11 DEF SetBestChainInner
  <2>2. pool'.mapTx = pool.mapTx \ BlockTxs(b)
    BY <1>t, <2>1, RemoveShrinks DEF removeConfirmed
  <2>3. ASSUME NEW t \in pool'.mapTx PROVE disk'.pos[t] = Nil
    <3>1. t \in pool.mapTx /\ t \in Txs /\ t \notin BlockTxs(b)
      BY <1>t, <2>2, <2>3
    <3>2. disk'.pos[t] = batch.pos[t]
      BY <2>1, <3>1 DEF ConnectBlock
    <3> QED BY <2>1, <3>1, <3>2 DEF FreshInv
  <2> HIDE DEF b, v
  <2> QED BY <2>1, <2>3 DEF FreshInv
<1>12. ASSUME NEW c \in Blocks, SyncCheckpoint(c) PROVE FreshInv'
  BY <1>12, FreshStart DEF SyncCheckpoint
<1>13. ASSUME NEW S \in SUBSET PayeeBlocks, UpdateFortunastakes(S) PROVE FreshInv'
  BY <1>13, FreshQuiet DEF UpdateFortunastakes, diskVars
<1>14. ASSUME Crash PROVE FreshInv'
  BY <1>14 DEF Crash, EmptyPool, FreshInv
<1>15. ASSUME LoadBlockIndex PROVE FreshInv'
  BY <1>15, FreshQuiet DEF LoadBlockIndex, LoadedFromDisk, diskVars
<1>16. ASSUME NEW f \in Blocks, LoadBlockIndexRollback(f) PROVE FreshInv'
  BY <1>16, FreshStart DEF LoadBlockIndexRollback, LoadedFromDisk, diskVars
<1>17. ASSUME UNCHANGED vars PROVE FreshInv'
  BY <1>17 DEF vars, memVars, diskVars, jobVars, FreshInv
<1> QED
  BY <1>1, <1>2, <1>3, <1>4, <1>5, <1>6, <1>7, <1>8, <1>9, <1>10, <1>11, <1>12,
     <1>13, <1>14, <1>15, <1>16, <1>17 DEF Next, SetBestChainStep

LEMMA CleanNext ==
  ASSUME "race" \notin Events, TypeInv, PoolInverse, CleanInv, accepting = Nil, [Next]_vars
  PROVE  CleanInv'
<1>t. /\ pool \in Pool /\ vDelete \in Seq(Txs) /\ vResurrect \in Seq(Txs)
      /\ target \in Blocks /\ inter \in Blocks /\ cur \in Blocks
      /\ pindexBest \in Blocks /\ diskBest \in Blocks
  BY DEF TypeInv, TypeOK
<1>s. ASSUME NEW new, NEW best, StartSetBestChain(new, best), pindexBest' = best
      PROVE  CleanInv'
  BY <1>s DEF StartSetBestChain, CleanInv
<1>1. ASSUME NEW b \in Blocks, AcceptBlock(b) PROVE CleanInv'
  <2>1. phase = "idle" /\ pindexBest' = pindexBest
    BY <1>1 DEF AcceptBlock
  <2>2. CASE NewBest(b)
    BY <1>1, <1>s, <2>1, <2>2 DEF AcceptBlock
  <2>3. CASE ~NewBest(b)
    BY <1>1, <2>1, <2>3 DEF AcceptBlock, CleanInv
  <2> QED BY <2>2, <2>3
<1>2. ASSUME phase' \notin {"reorganize", "resurrect"} PROVE CleanInv'
  BY <1>2 DEF CleanInv
<1>3. ~(\E t \in Txs : AcceptCheck(t)) /\ ~AcceptAdd
  BY DEF AcceptCheck, AcceptAdd
<1>4. ASSUME ReorganizeDisconnect PROVE CleanInv'
  <2>1. /\ phase = "reorganize" /\ phase' = phase /\ pindexBest' = pindexBest
        /\ vDelete' = vDelete /\ cur' = Prev[cur] /\ cur # Genesis
    BY <1>4, <1>t, TreeAssumption DEF ReorganizeDisconnect, memVars
  <2>2. Ancestors[cur'] \subseteq Ancestors[cur]
    BY <1>t, <2>1, AncestorsStep
  <2> QED BY <2>1, <2>2 DEF CleanInv
<1>5. ASSUME ReorganizeConnect PROVE CleanInv'
  <2> DEFINE b == Toward(cur, inter)
  <2>1. /\ phase = "reorganize" /\ phase' = phase /\ pindexBest' = pindexBest
        /\ vDelete' = vDelete \o vtx[b] /\ cur' = b
        /\ b \in Blocks /\ b # Genesis /\ Prev[b] = cur
    BY <1>5, <1>t, TowardChild DEF ReorganizeConnect, memVars
  <2> HIDE DEF b
  <2>2. Ancestors[b] = {b} \cup Ancestors[cur]
    BY <2>1, AncestorsStep
  <2>3. ASSUME NEW c \in Ancestors[b] \ Ancestors[pindexBest], NEW u \in BlockTxs(c)
        PROVE  Queued(u, vDelete')
    BY <1>t, <2>1, <2>2, <2>3, QueueSteps DEF CleanInv
  <2> QED BY <2>1, <2>3 DEF CleanInv
<1>6. ASSUME ReorganizeCommit PROVE CleanInv'
  <2>1. /\ phase = "reorganize" /\ phase' = "resurrect" /\ cur = inter
        /\ pindexBest' = pindexBest /\ inter' = inter /\ vDelete' = vDelete
    BY <1>6 DEF ReorganizeCommit, jobVars
  <2> QED BY <2>1 DEF CleanInv
<1>7. ASSUME ReorganizeResurrect PROVE CleanInv'
  <2>1. /\ phase = "resurrect" /\ phase' = phase /\ vResurrect # <<>>
        /\ pindexBest' = pindexBest /\ inter' = inter /\ vDelete' = vDelete
    BY <1>7 DEF ReorganizeResurrect, memVars
  <2> QED BY <2>1 DEF CleanInv
<1>8. ASSUME ReorganizeDelete PROVE CleanInv'
  <2> DEFINE t == Head(vDelete)
  <2>1. /\ phase = "resurrect" /\ phase' = phase /\ vDelete # <<>> /\ vResurrect = <<>>
        /\ pindexBest' = pindexBest /\ inter' = inter /\ vDelete' = Tail(vDelete)
        /\ vResurrect' = vResurrect /\ pool' = removeConflicts(remove(pool, {t}), t)
    BY <1>8 DEF ReorganizeDelete, memVars
  <2>2. t \in Txs
    BY <1>t, <2>1
  <2>3. pool'.mapTx \subseteq pool.mapTx /\ Cleaned(pool', t)
    <3> HIDE DEF t
    <3> QED BY <1>t, <2>1, <2>2, DeleteCleans DEF PoolInverse
  <2>4. ASSUME NEW c \in Ancestors[inter] \ Ancestors[pindexBest], NEW u \in BlockTxs(c)
        PROVE  Queued(u, vDelete') \/ Cleaned(pool', u)
    <3>1. CASE Queued(u, vDelete)
      BY <1>t, <2>1, <2>3, <3>1, QueueSteps
    <3>2. CASE Cleaned(pool, u)
      BY <2>3, <3>2 DEF Cleaned
    <3> QED BY <2>1, <2>4, <3>1, <3>2 DEF CleanInv
  <2> HIDE DEF t
  <2> QED BY <2>1, <2>4 DEF CleanInv
<1>9. ASSUME NEW c \in Blocks, SyncCheckpoint(c) PROVE CleanInv'
  BY <1>9, <1>s DEF SyncCheckpoint, memVars
<1>10. ASSUME NEW f \in Blocks, LoadBlockIndexRollback(f) PROVE CleanInv'
  BY <1>10, <1>s DEF LoadBlockIndexRollback, LoadedFromDisk
<1>11. ASSUME UNCHANGED vars PROVE CleanInv'
  BY <1>11 DEF vars, memVars, diskVars, jobVars, CleanInv
<1>12. ASSUME \/ \E t \in Txs : AcceptToMemoryPool(t)
              \/ ReorganizeFails \/ ReorganizeDone \/ SetBestChainInner \/ ExtendFails
              \/ PostponedFails \/ SetBestChainDone \/ Crash \/ LoadBlockIndex
              \/ \E S \in SUBSET PayeeBlocks : UpdateFortunastakes(S)
       PROVE  phase' \notin {"reorganize", "resurrect"}
  BY <1>12 DEF AcceptToMemoryPool, ReorganizeFails, ReorganizeDone, SetBestChainInner,
               ExtendFails, PostponedFails, SetBestChainDone, EndSetBestChain, Crash,
               LoadBlockIndex, UpdateFortunastakes
<1> QED
  BY <1>1, <1>2, <1>3, <1>4, <1>5, <1>6, <1>7, <1>8, <1>9, <1>10, <1>11, <1>12
     DEF Next, SetBestChainStep

\* As long as "tx" messages do not overlap with blocks of another thread, no
\* transaction of the pool is in the chain between calls, and none spends what
\* the new branch spends when Reorganize returns, whatever bad blocks, crashes,
\* roll-backs and checkpoints there are.
THEOREM PoolSafe ==
  "race" \notin Events => (Spec => []PoolUnconfirmed /\ PoolCleaned)
<1> SUFFICES ASSUME "race" \notin Events PROVE Spec => []PoolUnconfirmed /\ PoolCleaned
  OBVIOUS
<1> DEFINE Inv == TypeInv /\ PoolInverse /\ accepting = Nil /\ FreshInv /\ CleanInv
           Clean == \A c \in Ancestors[inter] \ Ancestors[pindexBest] :
                      \A t \in pool.mapTx : vin[t] \cap BlockInputs(c) = {}
<1>1. Init => Inv
  BY TypeInit, TreeAssumption
     DEF Init, PoolInverse, EmptyPool, PoolOK, FreshInv, CleanInv
<1>2. Inv /\ [Next]_vars => Inv'
  BY TypeNext, PoolNext, FreshNext, CleanNext
<1>3. Inv => PoolUnconfirmed
  BY DEF FreshInv, PoolUnconfirmed
<1>4. Inv /\ [Next]_vars => [(phase = "resurrect" /\ phase' = "tail" => Clean)]_vars
  <2> SUFFICES ASSUME Inv, Next, phase = "resurrect", phase' = "tail" PROVE Clean
    OBVIOUS
  <2>1. vDelete = <<>>
    BY DEF Next, SetBestChainStep, AcceptBlock, AcceptToMemoryPool, AcceptCheck,
           AcceptAdd, ReorganizeDisconnect, ReorganizeConnect, ReorganizeFails,
           ReorganizeCommit, ReorganizeResurrect, ReorganizeDelete, ReorganizeDone,
           SetBestChainInner, ExtendFails, PostponedFails, SetBestChainDone,
           SyncCheckpoint, UpdateFortunastakes, Crash, LoadBlockIndex,
           LoadBlockIndexRollback
  <2>2. \A u : ~Queued(u, vDelete)
    BY <2>1 DEF Queued
  <2>3. \A c \in Ancestors[inter] \ Ancestors[pindexBest] :
          \A u \in BlockTxs(c) : Cleaned(pool, u)
    BY <2>2 DEF CleanInv
  <2> QED BY <2>3 DEF Cleaned, BlockInputs
<1> QED BY <1>1, <1>2, <1>3, <1>4, PTL DEF Spec, PoolCleaned

-----------------------------------------------------------------------------
\* No good chain that is indexed has more trust than the tip, but for the one
\* the call under way is about.
HeavyInv ==
  /\ listed = PayeeBlocks /\ phase # "down"
  /\ \A b \in mapBlockIndex :
       ChainOK(b) /\ (phase = "idle" \/ b # target) =>
         ChainTrust[b] <= ChainTrust[pindexBest]
  /\ phase # "idle" => ChainTrust[target] > ChainTrust[pindexBest]

\* A call does not fail on a good chain, unless the block that would follow the
\* tip has a payee that is not on the list.
LEMMA FailsOnBad ==
  ASSUME DiskInv, ReorganizeFails \/ ExtendFails
  PROVE  \/ ~ChainOK(target)
         \/ \E c \in Ancestors[target] : c \in PayeeBlocks \ listed /\ Prev[c] = pindexBest
<1> SUFFICES ASSUME ChainOK(target),
                    \A c \in Ancestors[target] :
                       Prev[c] = pindexBest /\ c \in PayeeBlocks => c \in listed
             PROVE  FALSE
  OBVIOUS
<1>t. /\ batch \in View /\ cur \in Blocks /\ inter \in Blocks /\ target \in Blocks
      /\ JobOK /\ CallOK
  BY DEF DiskInv, TypeInv, TypeOK
<1>1. ASSUME NEW top \in Ancestors[target], cur \in Ancestors[top], cur # top,
             ViewOf(batch, cur)
      PROVE  ConnectBlockOK(batch, Toward(cur, top))
  <2> DEFINE b == Toward(cur, top)
  <2>1. top \in Blocks /\ Ancestors[top] \subseteq Ancestors[target]
    BY <1>t, AncestorsTransitive
  <2>2. /\ b \in Blocks /\ b # Genesis /\ Prev[b] = cur /\ b \in Ancestors[target]
    BY <1>1, <2>1, TowardChild
  <2> HIDE DEF b
  <2>3. ChainOK(b)
    BY <1>t, <2>2, ChainOKAncestor
  <2>4. Connects(batch, b)
    BY <1>t, <1>1, <2>2, <2>3, ValidConnects
  <2>5. ConnectBlockOK(batch, b)
    BY <2>2, <2>4 DEF ConnectBlockOK
  <2> QED BY <2>5 DEF b
<1>2. CASE ReorganizeFails
  <2>1. /\ phase = "reorganize" /\ ViewOf(batch, cur) /\ inter \in Ancestors[target]
    BY <1>2, <1>t DEF ReorganizeFails, CallOK, JobOK
  <2>2. CASE cur \in Ancestors[inter]
    BY <1>1, <1>2, <2>1, <2>2 DEF ReorganizeFails
  <2>3. CASE cur \notin Ancestors[inter]
    BY <1>2, <2>1, <2>3, DiskProperties DEF ReorganizeFails, TipDisconnects
  <2> QED BY <2>2, <2>3
<1>3. CASE ExtendFails
  <2>1. /\ phase = "tail" /\ cur # target /\ cur \in Ancestors[target]
        /\ cur = diskBest /\ batch = disk
    BY <1>3, <1>t DEF ExtendFails, CallOK, JobOK
  <2>2. ViewOf(batch, cur)
    BY <2>1 DEF DiskInv
  <2>3. target \in Ancestors[target]
    BY <1>t, AncestorsSelf
  <2> QED BY <1>1, <1>3, <2>1, <2>2, <2>3 DEF ExtendFails
<1> QED BY <1>2, <1>3

LEMMA HeavyNext ==
  ASSUME Events \subseteq {"race"}, DiskInv, HeavyInv, [Next]_vars
  PROVE  HeavyInv'
<1>t. /\ mapBlockIndex \subseteq Blocks /\ pindexBest \in Blocks /\ target \in Blocks
  BY DEF DiskInv, TypeInv, TypeOK
<1>1. ASSUME NEW b \in Blocks, AcceptBlock(b) PROVE HeavyInv'
  <2>1. /\ phase = "idle" /\ mapBlockIndex' = mapBlockIndex \cup {b}
        /\ pindexBest' = pindexBest /\ listed' = listed
    BY <1>1 DEF AcceptBlock
  <2>2. CASE NewBest(b)
    <3>1. target' = b /\ phase' \in {"reorganize", "tail"}
      BY <1>1, <2>2 DEF AcceptBlock, StartSetBestChain
    <3> QED BY <1>t, <2>1, <2>2, <3>1 DEF HeavyInv, NewBest
  <2>3. CASE ~NewBest(b)
    <3>1. phase' = phase /\ ChainTrust[b] <= ChainTrust[pindexBest]
      BY <1>1, <1>t, <2>3, TrustNat DEF AcceptBlock, NewBest
    <3> QED BY <1>t, <2>1, <3>1 DEF HeavyInv
  <2> QED BY <2>2, <2>3
<1>2. ASSUME /\ phase = "idle" <=> phase' = "idle"
             /\ phase' # "down"
             /\ UNCHANGED <<mapBlockIndex, pindexBest, listed, target>>
      PROVE  HeavyInv'
  BY <1>2 DEF HeavyInv
<1>3. ASSUME ReorganizeFails \/ ExtendFails PROVE HeavyInv'
  <2>1. /\ phase' = "idle" /\ phase # "idle"
        /\ mapBlockIndex' = mapBlockIndex /\ pindexBest' = pindexBest /\ listed' = listed
    BY <1>3 DEF ReorganizeFails, ExtendFails, EndSetBestChain, memVars
  <2>2. ~ChainOK(target)
    BY <1>3, FailsOnBad DEF HeavyInv
  <2> QED BY <2>1, <2>2 DEF HeavyInv
<1>4. ASSUME PostponedFails \/ SetBestChainDone PROVE HeavyInv'
  <2>1. /\ phase' = "idle" /\ phase # "idle"
        /\ mapBlockIndex' = mapBlockIndex /\ pindexBest' = target /\ listed' = listed
    BY <1>4 DEF PostponedFails, SetBestChainDone, EndSetBestChain
  <2>2. ASSUME NEW b \in mapBlockIndex, ChainOK(b)
        PROVE  ChainTrust[b] <= ChainTrust[target]
    BY <1>t, <2>1, <2>2, TrustNat DEF HeavyInv
  <2> QED BY <2>1, <2>2 DEF HeavyInv
<1>5. ASSUME \/ \E t \in Txs : AcceptToMemoryPool(t) \/ AcceptCheck(t)
             \/ AcceptAdd \/ UNCHANGED vars
             \/ ReorganizeDisconnect \/ ReorganizeConnect \/ ReorganizeCommit
             \/ ReorganizeResurrect \/ ReorganizeDelete \/ ReorganizeDone
             \/ SetBestChainInner
      PROVE  /\ phase = "idle" <=> phase' = "idle"
             /\ phase' # "down"
             /\ UNCHANGED <<mapBlockIndex, pindexBest, listed, target>>
  BY <1>5 DEF HeavyInv, AcceptToMemoryPool, AcceptCheck, AcceptAdd, vars,
              ReorganizeDisconnect, ReorganizeConnect, ReorganizeCommit,
              ReorganizeResurrect, ReorganizeDelete, ReorganizeDone,
              SetBestChainInner, memVars, jobVars
<1>6. /\ \A c \in Blocks : ~SyncCheckpoint(c)
      /\ \A f \in Blocks : ~LoadBlockIndexRollback(f)
      /\ \A S \in SUBSET PayeeBlocks : ~UpdateFortunastakes(S)
      /\ ~Crash /\ ~LoadBlockIndex
  BY DEF SyncCheckpoint, LoadBlockIndexRollback, UpdateFortunastakes, Crash,
         LoadBlockIndex, HeavyInv
<1> QED BY <1>1, <1>2, <1>3, <1>4, <1>5, <1>6 DEF Next, SetBestChainStep

\* While the node runs on and knows all payees, no chain of good blocks in its
\* index ever has more trust than its best chain between calls, whatever bad
\* blocks arrive in whatever order, unless a postponed block fails: a
\* reorganisation that fails is always one to a chain that is not good.
THEOREM HeaviestWins ==
  Events \subseteq {"race"} => (Spec /\ [][~PostponedFails]_vars => []MostTrust)
<1> SUFFICES ASSUME Events \subseteq {"race"}
             PROVE  Spec /\ [][~PostponedFails]_vars => []MostTrust
  OBVIOUS
<1> DEFINE Inv == Synchronised /\ HeavyInv
<1>1. Init => Inv
  BY DiskInit, TreeAssumption DEF Init, Synchronised, HeavyInv
<1>2. Inv /\ [Next]_vars /\ [~PostponedFails]_vars => Inv'
  BY SynchronisedNext, HeavyNext DEF Synchronised
<1>3. Inv => MostTrust
  BY DEF HeavyInv, MostTrust
<1> QED BY <1>1, <1>2, <1>3, PTL DEF Spec

-----------------------------------------------------------------------------
(***************************************************************************)
(* SetBestChain as one step (BestChain).  A call commits several times, so *)
(* a crash may leave it anywhere between two commits: what is on disk is   *)
(* then the old tip, the new one, or a heavier one on the way.             *)
(***************************************************************************)

\* What a call has committed, or is about to commit first.
CommitInv ==
  /\ phase = "reorganize" => inter = target \/ ChainTrust[inter] > ChainTrust[pindexBest]
  /\ phase \in {"resurrect", "tail"} =>
        \/ diskBest \in {pindexBest, target}
        \/ ChainTrust[diskBest] > ChainTrust[pindexBest]

\* A call that starts from the tip on disk.
LEMMA CommitStart ==
  ASSUME NEW new \in Blocks, NEW best \in Blocks, StartSetBestChain(new, best),
         pindexBest' = best, diskBest' = best
  PROVE  CommitInv'
<1>1. CASE Prev[new] = best
  BY <1>1 DEF StartSetBestChain, CommitInv
<1>2. CASE Prev[new] # best
  <2>1. phase' = "reorganize" /\ inter' = Intermediate(new, best) /\ target' = new
    BY <1>2 DEF StartSetBestChain
  <2>2. CASE ChainTrust[new] > ChainTrust[best]
    BY <2>1, <2>2, IntermediateOK DEF CommitInv
  <2>3. CASE ~(ChainTrust[new] > ChainTrust[best])
    <3>1. new = Genesis \/ ~(ChainTrust[Prev[new]] > ChainTrust[best])
      <4> SUFFICES ASSUME new # Genesis PROVE ~(ChainTrust[Prev[new]] > ChainTrust[best])
        OBVIOUS
      <4>1. Prev[new] \in Blocks /\ ChainTrust[new] > ChainTrust[Prev[new]]
        BY TreeAssumption
      <4> QED BY <2>3, <4>1, TrustNat
    <3> QED BY <2>1, <3>1 DEF CommitInv, Intermediate
  <2> QED BY <2>2, <2>3
<1> QED BY <1>1, <1>2

LEMMA CommitNext ==
  ASSUME Synchronised, CommitInv, [Next]_vars
  PROVE  CommitInv'
<1>t. /\ pindexBest \in Blocks /\ diskBest \in Blocks /\ target \in Blocks
      /\ inter \in Blocks /\ cur \in Blocks /\ JobOK /\ CallOK
      /\ phase = "idle" => pindexBest = diskBest
  BY DEF Synchronised, DiskInv, TypeInv, TypeOK
<1>1. ASSUME NEW b \in Blocks, AcceptBlock(b) PROVE CommitInv'
  <2>1. phase = "idle" /\ pindexBest' = pindexBest /\ diskBest' = diskBest
    BY <1>1 DEF AcceptBlock
  <2>2. CASE NewBest(b)
    BY <1>1, <1>t, <2>1, <2>2, CommitStart DEF AcceptBlock
  <2>3. CASE ~NewBest(b)
    BY <1>1, <2>1, <2>3 DEF AcceptBlock, CommitInv
  <2> QED BY <2>2, <2>3
<1>2. ASSUME NEW c \in Blocks, SyncCheckpoint(c) PROVE CommitInv'
  <2>1. /\ phase = "idle" /\ pindexBest' = pindexBest /\ diskBest' = diskBest
        /\ StartSetBestChain(c, pindexBest)
    BY <1>2 DEF SyncCheckpoint, memVars
  <2> QED BY <1>t, <2>1, CommitStart
<1>3. ASSUME NEW f \in Blocks, LoadBlockIndexRollback(f) PROVE CommitInv'
  <2>1. pindexBest' = diskBest /\ diskBest' = diskBest /\ StartSetBestChain(f, diskBest)
    BY <1>3 DEF LoadBlockIndexRollback, LoadedFromDisk, diskVars
  <2> QED BY <1>t, <2>1, CommitStart
<1>4. ASSUME phase' \in {"idle", "down"} PROVE CommitInv'
  BY <1>4 DEF CommitInv
<1>5. ASSUME UNCHANGED <<phase, pindexBest, diskBest, inter, target>> PROVE CommitInv'
  BY <1>5 DEF CommitInv
<1>6. ASSUME ReorganizeCommit PROVE CommitInv'
  BY <1>6 DEF ReorganizeCommit, CommitInv, jobVars
<1>7. ASSUME ReorganizeDone PROVE CommitInv'
  BY <1>7 DEF ReorganizeDone, CommitInv, memVars, diskVars
<1>8. ASSUME SetBestChainInner PROVE CommitInv'
  <2> DEFINE b == Toward(cur, target)
  <2>1. /\ phase = "tail" /\ phase' = phase /\ cur # target /\ cur = diskBest
        /\ diskBest' = b /\ pindexBest' = pindexBest /\ target' = target
    BY <1>8, <1>t DEF SetBestChainInner, CallOK
  <2>2. b \in Blocks /\ b # Genesis /\ Prev[b] = cur
    BY <1>t, <2>1, TowardChild DEF JobOK
  <2>3. ChainTrust[b] > ChainTrust[cur]
    BY <2>2, TreeAssumption
  <2> HIDE DEF b
  <2>4. ChainTrust[b] > ChainTrust[pindexBest]
    BY <1>t, <2>1, <2>2, <2>3, TrustNat DEF CommitInv
  <2> QED BY <2>1, <2>4 DEF CommitInv
<1>9. ASSUME \/ ReorganizeFails \/ ExtendFails \/ PostponedFails \/ SetBestChainDone
             \/ Crash \/ LoadBlockIndex
      PROVE  phase' \in {"idle", "down"}
  BY <1>9 DEF ReorganizeFails, ExtendFails, PostponedFails, SetBestChainDone,
              Crash, LoadBlockIndex, EndSetBestChain
<1>10. ASSUME \/ \E t \in Txs : AcceptToMemoryPool(t) \/ AcceptCheck(t)
              \/ AcceptAdd \/ UNCHANGED vars
              \/ ReorganizeDisconnect \/ ReorganizeConnect
              \/ ReorganizeResurrect \/ ReorganizeDelete
              \/ \E S \in SUBSET PayeeBlocks : UpdateFortunastakes(S)
       PROVE  UNCHANGED <<phase, pindexBest, diskBest, inter, target>>
  BY <1>10 DEF AcceptToMemoryPool, AcceptCheck, AcceptAdd, vars, ReorganizeDisconnect,
               ReorganizeConnect, ReorganizeResurrect, ReorganizeDelete,
               UpdateFortunastakes, memVars, diskVars, jobVars
<1> QED
  BY <1>1, <1>2, <1>3, <1>4, <1>5, <1>6, <1>7, <1>8, <1>9, <1>10
     DEF Next, SetBestChainStep

\* A block off the best chain as IsInMainChain tells it is none of its ancestors.
LEMMA OffMainChain ==
  ASSUME DiskInv, pindexBest = diskBest, phase # "down",
         NEW c \in Blocks, ~IsInMainChain(c)
  PROVE  c \notin Ancestors[pindexBest]
<1> SUFFICES ASSUME c \in Ancestors[pindexBest] PROVE FALSE
  OBVIOUS
<1> DEFINE y == Toward(c, pindexBest)
<1>1. /\ pindexBest \in Blocks /\ c # pindexBest /\ pnext[c] = Nil
      /\ pnext = disk.next /\ ViewOf(disk, pindexBest)
  BY DEF DiskInv, TypeInv, TypeOK, IsInMainChain, LinksMatch
<1>2. y \in Blocks /\ y \in Ancestors[pindexBest] /\ Prev[y] = c
  BY <1>1, TowardChild
<1> HIDE DEF y
<1>3. pnext[c] = y
  BY <1>1, <1>2 DEF ViewOf
<1> QED BY <1>1, <1>2, <1>3, TreeAssumption

\* Every step of ChainState is a step of BestChain or leaves it as it is.
LEMMA StepSimulates ==
  ASSUME Synchronised, CommitInv, [Next]_vars, ~PostponedFails
  PROVE  [Chain!Next]_(Chain!vars)
<1>t. /\ pindexBest \in Blocks /\ diskBest \in Blocks /\ target \in Blocks
      /\ inter \in Blocks /\ cur \in Blocks /\ phase \in Phases
      /\ JobOK /\ CallOK /\ DiskInv /\ Nil \notin Blocks
      /\ phase = "idle" => pindexBest = diskBest
      /\ phase # "down" => mapBlockIndex = diskIndex /\ pnext = disk.next
      /\ diskBest \in ValidBlocks
  BY TreeAssumption DEF Synchronised, DiskInv, TypeInv, TypeOK, LinksMatch, ValidBlocks
<1>1. ASSUME NEW b \in Blocks, AcceptBlock(b) PROVE Chain!Arrive(b)
  <2>1. /\ phase = "idle" /\ b \notin diskIndex /\ Prev[b] \in diskIndex
        /\ diskIndex' = diskIndex \cup {b} /\ pindexBest' = pindexBest
    BY <1>1, <1>t DEF AcceptBlock
  <2>2. CASE NewBest(b)
    <3>1. phase' \in {"reorganize", "tail"} /\ target' = b
      BY <1>1, <2>2 DEF AcceptBlock, StartSetBestChain
    <3> QED BY <2>1, <2>2, <3>1 DEF Chain!Arrive, Tip, NewBest
  <2>3. CASE ~NewBest(b)
    <3>1. phase' = phase
      BY <1>1, <2>3 DEF AcceptBlock
    <3> QED BY <2>1, <2>3, <3>1 DEF Chain!Arrive, Tip, NewBest
  <2> QED BY <2>2, <2>3
<1>2. ASSUME NEW c \in Blocks, SyncCheckpoint(c) PROVE Chain!Switch(c)
  <2>1. /\ phase = "idle" /\ c \in diskIndex /\ ~IsInMainChain(c)
        /\ diskIndex' = diskIndex /\ pindexBest' = pindexBest
        /\ phase' \in {"reorganize", "tail"} /\ target' = c
    BY <1>2, <1>t DEF SyncCheckpoint, StartSetBestChain, memVars
  <2>2. c \notin Ancestors[pindexBest]
    BY <1>t, <2>1, OffMainChain
  <2> QED BY <2>1, <2>2 DEF Chain!Switch, Tip
<1>3. ASSUME NEW f \in Blocks, LoadBlockIndexRollback(f) PROVE Chain!GoBack(f)
  <2>1. /\ phase = "down" /\ f \in Ancestors[diskBest] \ {diskBest}
        /\ diskIndex' = diskIndex /\ pindexBest' = diskBest
        /\ phase' \in {"reorganize", "tail"} /\ target' = f
    BY <1>3 DEF LoadBlockIndexRollback, LoadedFromDisk, StartSetBestChain, diskVars
  <2> QED BY <2>1 DEF Chain!GoBack, Tip
<1>4. ASSUME SetBestChainDone PROVE Chain!Succeed
  <2>1. /\ phase = "tail" /\ target = diskBest /\ pindexBest' = target
        /\ phase' = "idle" /\ diskIndex' = diskIndex
    BY <1>4, <1>t DEF SetBestChainDone, EndSetBestChain, CallOK, diskVars
  <2> QED BY <1>t, <2>1 DEF Chain!Succeed, Tip
<1>5. ASSUME ReorganizeFails \/ ExtendFails PROVE Chain!Fail
  <2>1. /\ phase \in {"reorganize", "tail"} /\ phase' = "idle"
        /\ diskIndex' = diskIndex /\ pindexBest' = pindexBest
    BY <1>5 DEF ReorganizeFails, ExtendFails, EndSetBestChain, memVars, diskVars
  <2>2. \/ target \notin ValidBlocks
        \/ \E c \in PayeeBlocks \cap Ancestors[target] : Prev[c] = pindexBest
    BY <1>5, <1>t, FailsOnBad DEF ValidBlocks
  <2> QED BY <1>t, <2>1, <2>2 DEF Chain!Fail, Tip
<1>6. ASSUME Crash, phase \in {"reorganize", "resurrect", "tail"} PROVE Chain!Interrupt
  <2>1. phase' = "down" /\ diskIndex' = diskIndex /\ diskBest' = diskBest
    BY <1>6 DEF Crash, diskVars
  <2>2. \/ diskBest \in {pindexBest, target}
        \/ diskBest \in Ancestors[target] /\ ChainTrust[diskBest] > ChainTrust[pindexBest]
    BY <1>6, <1>t DEF CommitInv, CallOK, JobOK
  <2> QED BY <1>6, <1>t, <2>1, <2>2 DEF Chain!Interrupt, Chain!Reached, Tip
<1>7. ASSUME \/ Crash /\ phase \notin {"reorganize", "resurrect", "tail"}
             \/ LoadBlockIndex
      PROVE  UNCHANGED Chain!vars
  BY <1>7, <1>t DEF Crash, LoadBlockIndex, LoadedFromDisk, diskVars, Phases, Chain!vars, Tip
<1>8. ASSUME \/ \E t \in Txs : AcceptToMemoryPool(t) \/ AcceptCheck(t)
             \/ AcceptAdd \/ UNCHANGED vars
             \/ \E S \in SUBSET PayeeBlocks : UpdateFortunastakes(S)
      PROVE  UNCHANGED Chain!vars
  <2>1. UNCHANGED <<phase, pindexBest, diskBest, diskIndex, target>>
    BY <1>8 DEF AcceptToMemoryPool, AcceptCheck, AcceptAdd, vars,
                UpdateFortunastakes, memVars, diskVars, jobVars
  <2> QED BY <2>1 DEF Chain!vars, Tip
<1>9. ASSUME \/ ReorganizeDisconnect \/ ReorganizeConnect \/ ReorganizeCommit
             \/ ReorganizeResurrect \/ ReorganizeDelete \/ ReorganizeDone
             \/ SetBestChainInner
      PROVE  UNCHANGED Chain!vars
  <2>1. /\ {phase, phase'} \subseteq {"reorganize", "resurrect", "tail"}
        /\ UNCHANGED <<pindexBest, diskIndex, target>>
    BY <1>9 DEF ReorganizeDisconnect, ReorganizeConnect, ReorganizeCommit,
                ReorganizeResurrect, ReorganizeDelete, ReorganizeDone,
                SetBestChainInner, memVars, diskVars, jobVars
  <2> QED BY <2>1 DEF Chain!vars, Tip
<1> QED
  BY <1>1, <1>2, <1>3, <1>4, <1>5, <1>6, <1>7, <1>8, <1>9
     DEF Next, SetBestChainStep, Chain!Next

\* As long as no postponed block fails to connect, SetBestChain is one step that
\* succeeds exactly on valid chains, for every block tree and every order of
\* arrivals, checkpoints, roll-backs, crashes, restarts and racing transactions.
\* The invariant is needed for three of the steps: a failure has to mean a bad
\* chain (the batch is that of the blocks connected so far), success a good one,
\* and what a crash finds on disk has to lie on the way to the target.
THEOREM SetBestChainAtomic == Spec /\ [][~PostponedFails]_vars => AllOrNothing
<1> DEFINE Inv == Synchronised /\ CommitInv
<1>1. Init => Inv
  BY DiskInit DEF Init, Synchronised, CommitInv
<1>2. Init => Chain!Init
  BY DEF Init, Chain!Init, Tip
<1>3. Inv /\ [Next]_vars /\ [~PostponedFails]_vars => Inv'
  BY SynchronisedNext, CommitNext
<1>4. ~(PostponedFails /\ UNCHANGED vars)
  <2> SUFFICES ASSUME PostponedFails, UNCHANGED vars PROVE FALSE
    OBVIOUS
  <2>1. phase' = "idle" /\ phase = "tail" /\ phase' = phase
    BY DEF PostponedFails, EndSetBestChain, vars
  <2> QED BY <2>1
<1>5. Inv /\ [Next]_vars /\ [~PostponedFails]_vars => [Chain!Next]_(Chain!vars)
  BY <1>4, StepSimulates
<1> QED BY <1>1, <1>2, <1>3, <1>5, PTL DEF Spec, AllOrNothing, Chain!Spec
=============================================================================
