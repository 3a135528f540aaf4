------------------------ MODULE CheckpointLocksProofs ------------------------
(***************************************************************************)
(* The locks around SetBestChain for any number of miners.                 *)
(*                                                                         *)
(* Neither theorem's property is inductive: who may overlap and who may    *)
(* wait for whom follows from which lock each thread holds where, so the   *)
(* invariant says of every label which locks its thread owns.              *)
(***************************************************************************)
EXTENDS CheckpointLocks, TLAPS

\* A thread is at a label of the command it runs, and only the message thread
\* runs messages.
CommandAtLabel ==
  \A t \in Threads :
    /\ pc[t] \in {"ProcessBlock", "AddToBlockIndex", "AcceptPending"} => command[t] = "block"
    /\ pc[t] = "CreateNewBlock" => command[t] = "create"
    /\ pc[t] \in HoldsMain \cup {"tx", "version", "checkpoint"} => command[t] = pc[t]
    /\ pc[t] \in ChainLabels => command[t] \in {"block", "checkpoint"}
    /\ pc[t] \in AcceptLabels => command[t] \in {"block", "checkpoint", "tx", "send"}
    /\ t \in Miners => command[t] \in MinerCommands
    /\ t = Net /\ pc[t] # "idle" => command[t] \in Commands

\* cs_main is held from the first lock of a block, creation or sending to its
\* return, and while a checkpoint message checks a payee.
MainHeld ==
  \A t \in Threads :
    cs_main = t <=>
      \/ command[t] \in HoldsMain /\ pc[t] \notin HoldsMain \cup {"idle"}
      \/ command[t] = "checkpoint" /\ pc[t] = "CheckPayee"

\* cs_hashSyncCheckpoint is held in SetBestChain and on the way out, always if
\* a checkpoint message called it; that call returns to the handler.
CheckpointHeld ==
  \A t \in Threads :
    /\ cs_hashSyncCheckpoint = t =>
         /\ pc[t] \in ChainLabels \cup AcceptLabels \cup {"return"}
         /\ command[t] \in {"block", "checkpoint"} /\ after[t] = "return"
    /\ InSetBestChain(t) /\ command[t] = "checkpoint" =>
         cs_hashSyncCheckpoint = t /\ after[t] = "return"

\* mempool.cs is kept over a wait only where a pending name is added.
PoolHeld == \A t \in Threads : mempool_cs = t <=> pc[t] = "AddToPendingNames"

\* The inductive invariant.
LockInv == TypeOK /\ CommandAtLabel /\ MainHeld /\ CheckpointHeld /\ PoolHeld

\* Nobody holds a lock at the start.
LEMMA LockInit == Init => LockInv
  BY LocksAssumption
  DEF Init, LockInv, TypeOK, CommandAtLabel, MainHeld, CheckpointHeld, PoolHeld,
      InSetBestChain, Labels, ChainLabels, AcceptLabels, HoldsMain, MinerCommands, Threads

\* Every step of a thread takes the lock its next label calls for, or keeps it.
LEMMA LockNext == LockInv /\ [Next]_vars => LockInv'
  <1> SUFFICES ASSUME LockInv, [Next]_vars
               PROVE  LockInv'
    OBVIOUS
  <1> USE LocksAssumption
      DEF LockInv, TypeOK, CommandAtLabel, MainHeld, CheckpointHeld, PoolHeld,
          InSetBestChain, Labels, ChainLabels, AcceptLabels, HoldsMain, MinerCommands,
          Threads, At, Goto, Then, Again, Free, Release, locks
  <1>1. CASE UNCHANGED vars
    BY <1>1 DEF vars
  <1>2. ASSUME NEW t \in Threads, NEW c \in Labels, Begin(t, c)
        PROVE  LockInv'
    BY <1>2 DEF Begin
  <1>3. ASSUME NEW t \in Threads, BlockCall(t)
        PROVE  LockInv'
    BY <1>3 DEF BlockCall
  <1>4. ASSUME NEW t \in Threads, ProcessBlock(t)
        PROVE  LockInv'
    BY <1>4 DEF ProcessBlock
  <1>5. ASSUME NEW t \in Threads, AddToBlockIndex(t)
        PROVE  LockInv'
    BY <1>5 DEF AddToBlockIndex
  <1>6. ASSUME NEW t \in Threads, AcceptPendingSyncCheckpoint(t)
        PROVE  LockInv'
    BY <1>6 DEF AcceptPendingSyncCheckpoint, SwitchToCheckpoint
  <1>7. ASSUME NEW t \in Threads, VersionMessage(t)
        PROVE  LockInv'
    BY <1>7 DEF VersionMessage
  <1>8. ASSUME NEW t \in Threads, ProcessSyncCheckpoint(t)
        PROVE  LockInv'
    BY <1>8 DEF ProcessSyncCheckpoint, SwitchToCheckpoint
  <1>9. ASSUME NEW t \in Threads, SetBestChain(t)
        PROVE  LockInv'
    BY <1>9 DEF SetBestChain
  <1>10. ASSUME NEW t \in Threads, ConnectBlock(t)
         PROVE  LockInv'
    BY <1>10 DEF ConnectBlock
  <1>11. ASSUME NEW t \in Threads, CheckPayee(t)
         PROVE  LockInv'
    BY <1>11 DEF CheckPayee
  <1>12. ASSUME NEW t \in Threads, Resurrect(t)
         PROVE  LockInv'
    BY <1>12 DEF Resurrect
  <1>13. ASSUME NEW t \in Threads, remove(t)
         PROVE  LockInv'
    BY <1>13 DEF remove
  <1>14. ASSUME NEW t \in Threads, accept(t)
         PROVE  LockInv'
    BY <1>14 DEF accept, Accepted
  <1>15. ASSUME NEW t \in Threads, add(t)
         PROVE  LockInv'
    BY <1>15 DEF add, Accepted
  <1>16. ASSUME NEW t \in Threads, AddToPendingNames(t)
         PROVE  LockInv'
    BY <1>16 DEF AddToPendingNames, Accepted
  <1>17. ASSUME NEW t \in Threads, TxMessage(t)
         PROVE  LockInv'
    BY <1>17 DEF TxMessage
  <1>18. ASSUME NEW t \in Threads, SendTransaction(t)
         PROVE  LockInv'
    BY <1>18 DEF SendTransaction
  <1>19. ASSUME NEW t \in Threads, CreateNewBlock(t)
         PROVE  LockInv'
    BY <1>19 DEF CreateNewBlock
  <1>20. ASSUME NEW t \in Threads, NextOrphan(t)
         PROVE  LockInv'
    BY <1>20 DEF NextOrphan
  <1>21. ASSUME NEW t \in Threads, Return(t)
         PROVE  LockInv'
    BY <1>21 DEF Return
  <1> QED
    BY <1>1, <1>2, <1>3, <1>4, <1>5, <1>6, <1>7, <1>8, <1>9, <1>10, <1>11, <1>12,
       <1>13, <1>14, <1>15, <1>16, <1>17, <1>18, <1>19, <1>20, <1>21
    DEF Next, Step, TakesLock

\* Two threads in SetBestChain cannot both hold cs_main.
LEMMA OverlapFromLocks == LockInv => OnlyCheckpointsOverlap
  BY LocksAssumption
  DEF LockInv, TypeOK, CommandAtLabel, MainHeld, CheckpointHeld, OnlyCheckpointsOverlap,
      InSetBestChain, Threads, ChainLabels, AcceptLabels, HoldsMain, MinerCommands

\* A thread without cs_main gets to accept only in the message thread.
LEMMA AcceptFromLocks == LockInv => AcceptUnlockedOnlyInNet
  BY LocksAssumption
  DEF LockInv, TypeOK, CommandAtLabel, MainHeld, CheckpointHeld, AcceptUnlockedOnlyInNet,
      InSetBestChain, Threads, ChainLabels, AcceptLabels, HoldsMain, MinerCommands

\* A miner holds another lock only inside cs_main, so of the threads that
\* others wait for, all but the message thread hold cs_main.
LEMMA OwnerHoldsMain ==
  ASSUME LockInv, NEW t \in Threads, NEW u \in Threads, Waits(t, u), u # Net
  PROVE  u \in Miners /\ cs_main = u
  BY LocksAssumption
  DEF LockInv, TypeOK, CommandAtLabel, MainHeld, CheckpointHeld, PoolHeld, Waits,
      Threads, ChainLabels, AcceptLabels, HoldsMain, MinerCommands

\* A circle therefore is the message thread and the owner of cs_main, and what
\* the message thread waits for is cs_main.
LEMMA DeadlockFromLocks == LockInv => OnlyNetDeadlocks
  <1> SUFFICES ASSUME LockInv, NEW S \in SUBSET Threads, Stuck(S)
               PROVE  NetDeadlock
    BY DEF OnlyNetDeadlocks
  <1>1. PICK t \in S : TRUE
    BY DEF Stuck
  <1>2. PICK u \in S : Waits(t, u)
    BY <1>1 DEF Stuck
  <1>3. Net \in S
    <2>1. PICK w \in S : Waits(u, w)
      BY <1>2 DEF Stuck
    <2> QED
      BY <1>2, <2>1, OwnerHoldsMain DEF Waits
  <1>4. PICK v \in S : Waits(Net, v)
    BY <1>3 DEF Stuck
  <1>5. v \in Miners /\ cs_main = v /\ v # Net
    BY <1>3, <1>4, OwnerHoldsMain DEF Waits
  <1>6. Waits(v, Net)
    <2>1. PICK w \in S : Waits(v, w)
      BY <1>4 DEF Stuck
    <2> QED
      BY <1>5, <2>1, OwnerHoldsMain DEF Waits
  <1>7. ~(cs_main = Net)
    BY <1>5
  <1>8. WantsMain(Net)
    BY <1>3, <1>4, <1>5, <1>6, LocksAssumption
    DEF LockInv, TypeOK, CommandAtLabel, MainHeld, CheckpointHeld, PoolHeld, Waits,
        WantsMain, WantsCheckpoint, WantsPool, Threads, ChainLabels, AcceptLabels,
        HoldsMain, MinerCommands
  <1>9. \/ command[Net] = "checkpoint" /\ cs_hashSyncCheckpoint = Net
        \/ command[Net] = "tx" /\ mempool_cs = Net
    BY <1>3, <1>5, <1>6, <1>8, LocksAssumption
    DEF LockInv, TypeOK, CommandAtLabel, MainHeld, CheckpointHeld, PoolHeld, Waits,
        WantsMain, InSetBestChain, Threads, ChainLabels, AcceptLabels, HoldsMain,
        MinerCommands
  <1> QED
    BY <1>5, <1>6, <1>8, <1>9 DEF NetDeadlock

\* Without checkpoint messages every call of SetBestChain is under cs_main;
\* without tx messages either, every lock is taken inside cs_main.
LEMMA ExclusiveFromLocks ==
  ASSUME LockInv, "checkpoint" \notin Commands
  PROVE  SetBestChainAlone /\ ("tx" \notin Commands => NoCircularWait)
  <1>1. SetBestChainAlone
    BY LocksAssumption
    DEF LockInv, TypeOK, CommandAtLabel, MainHeld, SetBestChainAlone, InSetBestChain,
        Threads, ChainLabels, AcceptLabels, HoldsMain, MinerCommands
  <1>2. ASSUME "tx" \notin Commands
        PROVE  NoCircularWait
    <2>1. ~NetDeadlock
      BY <1>2 DEF LockInv, CommandAtLabel, NetDeadlock, WantsMain, Threads
    <2> QED
      BY <2>1, DeadlockFromLocks DEF OnlyNetDeadlocks, NoCircularWait
  <1> QED
    BY <1>1, <1>2

\* Whatever messages arrive and however many miners there are, two threads
\* run SetBestChain at once only where one has come from a checkpoint message,
\* only the message thread ever reaches CTxMemPool::accept without cs_main, and
\* threads wait for each other in a circle only where the message thread wants
\* cs_main while it holds a lock that the owner of cs_main wants.
THEOREM LocksSafe ==
  Spec => [](/\ OnlyCheckpointsOverlap
             /\ AcceptUnlockedOnlyInNet
             /\ OnlyNetDeadlocks)
  <1>1. Init => LockInv
    BY LockInit
  <1>2. LockInv /\ [Next]_vars => LockInv'
    BY LockNext
  <1>3. LockInv =>
          OnlyCheckpointsOverlap /\ AcceptUnlockedOnlyInNet /\ OnlyNetDeadlocks
    BY OverlapFromLocks, AcceptFromLocks, DeadlockFromLocks
  <1> QED
    BY <1>1, <1>2, <1>3, PTL DEF Spec

\* Without checkpoint messages SetBestChain runs in one thread at a time, and
\* without tx messages too no threads wait for each other over these locks.
THEOREM BlocksExclusive ==
  "checkpoint" \notin Commands =>
    (Spec => [](SetBestChainAlone /\ ("tx" \notin Commands => NoCircularWait)))
  <1> SUFFICES ASSUME "checkpoint" \notin Commands
               PROVE  Spec => [](SetBestChainAlone /\ ("tx" \notin Commands => NoCircularWait))
    OBVIOUS
  <1>1. Init => LockInv
    BY LockInit
  <1>2. LockInv /\ [Next]_vars => LockInv'
    BY LockNext
  <1>3. LockInv => SetBestChainAlone /\ ("tx" \notin Commands => NoCircularWait)
    BY ExclusiveFromLocks
  <1> QED
    BY <1>1, <1>2, <1>3, PTL DEF Spec
=============================================================================
