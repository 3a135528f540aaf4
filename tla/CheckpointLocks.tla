--------------------------- MODULE CheckpointLocks ---------------------------
(***************************************************************************)
(* Three locks around SetBestChain, cs_main, cs_hashSyncCheckpoint and     *)
(* mempool.cs, and the threads that take them: the one message handler     *)
(* thread, which runs "block", "tx", "version" and "checkpoint" messages,  *)
(* and the miners and RPC threads, which create blocks, hand them in and   *)
(* send transactions.  The handler of "tx" does not take cs_main.          *)
(*                                                                         *)
(* The locks are recursive.  A scope inside which a thread waits for       *)
(* nothing is one step; the other steps are those between which another    *)
(* thread may run.  Other locks (cs_wallet, cs_vNodes) are left out: what  *)
(* is shown is about these three.                                          *)
(***************************************************************************)
EXTENDS Naturals

CONSTANTS
    Net,        \* ThreadMessageHandler
    Miners,     \* threads with blocks and transactions of their own
    Commands,   \* the messages that arrive
    MaxRounds,  \* bound on the blocks, transactions and orphans of one call
    Nil

ASSUME LocksAssumption ==
  /\ Net \notin Miners /\ Nil \notin Miners \cup {Net}
  /\ Commands \subseteq {"block", "tx", "version", "checkpoint"}
  /\ MaxRounds \in Nat

Threads == Miners \cup {Net}

VARIABLES
    pc,                     \* what each thread is about to do
    command,                \* the message or call it is in
    after,                  \* where SetBestChain returns to
    left,                   \* how often its loops may still go round
    cs_main,                \* the owner, or Nil
    cs_hashSyncCheckpoint,  \* the owner, or Nil
    mempool_cs              \* the owner, or Nil

locks == <<cs_main, cs_hashSyncCheckpoint, mempool_cs>>
vars == <<pc, command, after, left, locks>>

\* What hands in a block, or a transaction of the wallet or of RPC, holds
\* cs_main until it returns.
HoldsMain == {"block", "create", "send"}
MinerCommands == HoldsMain

ChainLabels == {"SetBestChain", "ConnectBlock", "CheckPayee", "Resurrect", "remove"}
AcceptLabels == {"accept", "add", "AddToPendingNames"}

Labels == ChainLabels \cup AcceptLabels \cup HoldsMain \cup
  {"idle", "tx", "version", "checkpoint", "ProcessBlock", "AddToBlockIndex",
   "AcceptPending", "CreateNewBlock", "return"}

\* Threads are at a label of their handler and SetBestChain returns to one of
\* its two callers.
TypeOK ==
  /\ pc \in [Threads -> Labels]
  /\ command \in [Threads -> Commands \cup MinerCommands]
  /\ after \in [Threads -> {"AcceptPending", "return"}]
  /\ left \in [Threads -> 0 .. MaxRounds]
  /\ cs_main \in Threads \cup {Nil}
  /\ cs_hashSyncCheckpoint \in Threads \cup {Nil}
  /\ mempool_cs \in Threads \cup {Nil}

-----------------------------------------------------------------------------
At(t, l) == pc[t] = l
Goto(t, l) == pc' = [pc EXCEPT ![t] = l]
Free(lock, t) == lock \in {Nil, t}
Release(lock, t) == IF lock = t THEN Nil ELSE lock

\* Once more round a loop over blocks, transactions or orphans.
Again(t, l) ==
  /\ left[t] > 0
  /\ left' = [left EXCEPT ![t] = left[t] - 1]
  /\ Goto(t, l)

\* On to the next step of the call.
Then(t, l) == Goto(t, l) /\ UNCHANGED left

\* A message arrives, or a thread of our own wants to create a block, to hand
\* it in or to send a transaction.
Begin(t, c) ==
  /\ At(t, "idle")
  /\ IF t = Net THEN c \in Commands ELSE c \in MinerCommands
  /\ Goto(t, c)
  /\ command' = [command EXCEPT ![t] = c]
  /\ UNCHANGED <<after, left, locks>>

\* Mutant of BlockCall: ProcessBlock without cs_main.
BlockCallUnlocked(t) ==
  /\ At(t, "block")
  /\ Then(t, "ProcessBlock")
  /\ UNCHANGED <<command, after, locks>>

\* LOCK(cs_main), in the "block" message and in CheckWork and CheckStake.
BlockCall(t) ==
  /\ At(t, "block")
  /\ cs_main = Nil
  /\ cs_main' = t
  /\ Then(t, "ProcessBlock")
  /\ UNCHANGED <<command, after, cs_hashSyncCheckpoint, mempool_cs>>

\* The short scopes of cs_hashSyncCheckpoint before the block is indexed
\* (WantedByPendingSyncCheckpoint, GetLastSyncCheckpoint, CheckSync); the
\* block may be turned away or kept as an orphan after any of them.
ProcessBlock(t) ==
  /\ At(t, "ProcessBlock")
  /\ cs_hashSyncCheckpoint = Nil
  /\ Then(t, "AddToBlockIndex") \/ Then(t, "return")
  /\ UNCHANGED <<command, after, locks>>

\* The block has more trust than the tip, or has not; an error on the way
\* to disk ends the call.
AddToBlockIndex(t) ==
  /\ At(t, "AddToBlockIndex")
  /\ \/ Then(t, "SetBestChain") /\ after' = [after EXCEPT ![t] = "AcceptPending"]
     \/ \E l \in {"AcceptPending", "return"} : Then(t, l) /\ UNCHANGED after
  /\ UNCHANGED <<command, locks>>

\* SetBestChain with cs_hashSyncCheckpoint held until the handler returns, if
\* the checkpoint is not on the best chain; a short scope otherwise.
SwitchToCheckpoint(t) ==
  /\ cs_hashSyncCheckpoint = Nil
  /\ \/ /\ cs_hashSyncCheckpoint' = t
        /\ Then(t, "SetBestChain")
        /\ after' = [after EXCEPT ![t] = "return"]
     \/ Then(t, "return") /\ UNCHANGED <<after, cs_hashSyncCheckpoint>>
  /\ UNCHANGED <<command, cs_main, mempool_cs>>

AcceptPendingSyncCheckpoint(t) == At(t, "AcceptPending") /\ SwitchToCheckpoint(t)

\* The handler takes cs_hashSyncCheckpoint and not cs_main.
ProcessSyncCheckpoint(t) == At(t, "checkpoint") /\ SwitchToCheckpoint(t)

\* Mutant of VersionMessage: the relay takes cs_main inside its scope.
VersionTakesMain(t) ==
  /\ At(t, "version")
  /\ cs_hashSyncCheckpoint = Nil
  /\ cs_hashSyncCheckpoint' = t
  /\ Then(t, "block")
  /\ UNCHANGED <<command, after, cs_main, mempool_cs>>

\* The relay of the checkpoint to a new peer.
VersionMessage(t) ==
  /\ At(t, "version")
  /\ cs_hashSyncCheckpoint = Nil
  /\ Then(t, "return")
  /\ UNCHANGED <<command, after, locks>>

\* AcceptToMemoryPool of the transaction of a "tx" message, with no lock.
TxMessage(t) ==
  /\ At(t, "tx")
  /\ Then(t, "accept")
  /\ UNCHANGED <<command, after, locks>>

\* A transaction of the wallet or of RPC goes to the pool under cs_main.
SendTransaction(t) ==
  /\ At(t, "send")
  /\ cs_main = Nil
  /\ cs_main' = t
  /\ Then(t, "accept")
  /\ UNCHANGED <<command, after, cs_hashSyncCheckpoint, mempool_cs>>

\* LOCK2(cs_main, mempool.cs), one after the other.
CreateNewBlock(t) ==
  /\ \/ At(t, "create") /\ cs_main = Nil /\ cs_main' = t /\ Then(t, "CreateNewBlock")
     \/ At(t, "CreateNewBlock") /\ mempool_cs = Nil /\ Then(t, "return") /\ UNCHANGED cs_main
  /\ UNCHANGED <<command, after, cs_hashSyncCheckpoint, mempool_cs>>

\* SetBestChain disconnects and connects blocks one by one; the branch is
\* connected and the tail of Reorganize begins, or the one block of an
\* extension is, or it fails.
SetBestChain(t) ==
  /\ At(t, "SetBestChain")
  /\ Again(t, "ConnectBlock") \/ \E l \in {"Resurrect", "remove", "return"} : Then(t, l)
  /\ UNCHANGED <<command, after, locks>>

\* ConnectBlock wants cs_main: to remove a pending name, or with mempool.cs
\* after it to check the payee of a recent block (LOCK2) or to drop a name
\* transaction from the pool.
ConnectBlock(t) ==
  /\ At(t, "ConnectBlock")
  /\ Free(cs_main, t)
  /\ \/ Then(t, "SetBestChain") /\ UNCHANGED cs_main
     \/ Then(t, "CheckPayee") /\ cs_main' = t
  /\ UNCHANGED <<command, after, cs_hashSyncCheckpoint, mempool_cs>>

\* It gets mempool.cs too; the scope of both ends.
CheckPayee(t) ==
  /\ At(t, "CheckPayee")
  /\ mempool_cs = Nil
  /\ cs_main' = IF command[t] \in HoldsMain THEN t ELSE Nil
  /\ Then(t, "SetBestChain")
  /\ UNCHANGED <<command, after, cs_hashSyncCheckpoint, mempool_cs>>

\* The tail of Reorganize: the next disconnected transaction goes back to
\* the pool, or there is none left.
Resurrect(t) ==
  /\ At(t, "Resurrect")
  /\ Again(t, "accept") \/ Then(t, "remove")
  /\ UNCHANGED <<command, after, locks>>

\* mempool.remove and removeConflicts of what was connected, each in a scope
\* of mempool.cs; postponed blocks are left to connect, or the call is over.
remove(t) ==
  /\ At(t, "remove")
  /\ mempool_cs = Nil
  /\ Again(t, "SetBestChain") \/ Then(t, after[t])
  /\ UNCHANGED <<command, after, locks>>

\* Where CTxMemPool::accept returns to.
Accepted(t) ==
  Then(t, IF command[t] \in {"block", "checkpoint"} THEN "Resurrect" ELSE "return")

\* CTxMemPool::accept looks at the pool in short scopes of mempool.cs and may
\* refuse the transaction.
accept(t) ==
  /\ At(t, "accept")
  /\ mempool_cs = Nil
  /\ Then(t, "add") \/ Accepted(t)
  /\ UNCHANGED <<command, after, locks>>

\* LOCK(cs) around addUnchecked; for a name transaction AddToPendingNames
\* wants cs_main inside that scope.
add(t) ==
  /\ At(t, "add")
  /\ mempool_cs = Nil
  /\ \/ Then(t, "AddToPendingNames") /\ mempool_cs' = t
     \/ Accepted(t) /\ UNCHANGED mempool_cs
  /\ UNCHANGED <<command, after, cs_main, cs_hashSyncCheckpoint>>

\* Mutant of AddToPendingNames: the scope of mempool.cs is not left.
AddToPendingKeeps(t) ==
  /\ At(t, "AddToPendingNames")
  /\ Free(cs_main, t)
  /\ Accepted(t)
  /\ UNCHANGED <<command, after, locks>>

AddToPendingNames(t) ==
  /\ At(t, "AddToPendingNames")
  /\ Free(cs_main, t)
  /\ mempool_cs' = Nil
  /\ Accepted(t)
  /\ UNCHANGED <<command, after, cs_main, cs_hashSyncCheckpoint>>

\* The loop of ProcessBlock over the blocks that waited for this one, each
\* handed to AcceptBlock.  (Here it may follow a refused block as well.)
NextOrphan(t) ==
  /\ At(t, "return")
  /\ command[t] = "block"
  /\ cs_hashSyncCheckpoint' = Release(cs_hashSyncCheckpoint, t)
  /\ Again(t, "ProcessBlock")
  /\ UNCHANGED <<command, after, cs_main, mempool_cs>>

\* The scopes end.
Return(t) ==
  /\ At(t, "return")
  /\ cs_main' = Release(cs_main, t)
  /\ cs_hashSyncCheckpoint' = Release(cs_hashSyncCheckpoint, t)
  /\ left' = [left EXCEPT ![t] = MaxRounds]
  /\ Goto(t, "idle")
  /\ UNCHANGED <<command, after, mempool_cs>>

-----------------------------------------------------------------------------
Init ==
  /\ pc = [t \in Threads |-> "idle"]
  /\ command = [t \in Threads |-> "block"]
  /\ after = [t \in Threads |-> "return"]
  /\ left = [t \in Threads |-> MaxRounds]
  /\ cs_main = Nil
  /\ cs_hashSyncCheckpoint = Nil
  /\ mempool_cs = Nil

\* The steps that wait for a lock in the middle of a call.
TakesLock(t) ==
  \/ ProcessBlock(t) \/ AcceptPendingSyncCheckpoint(t) \/ CreateNewBlock(t)
  \/ ConnectBlock(t) \/ CheckPayee(t) \/ remove(t)
  \/ accept(t) \/ add(t) \/ AddToPendingNames(t)

\* The steps of a call under way.
Step(t) ==
  \/ BlockCall(t) \/ SendTransaction(t) \/ TxMessage(t) \/ VersionMessage(t)
  \/ ProcessSyncCheckpoint(t) \/ TakesLock(t)
  \/ AddToBlockIndex(t) \/ SetBestChain(t) \/ Resurrect(t)
  \/ NextOrphan(t) \/ Return(t)

Next == \E t \in Threads : Step(t) \/ \E c \in Labels : Begin(t, c)

Spec == Init /\ [][Next]_vars

\* Every thread is scheduled, and a mutex that is released again and again goes
\* to each thread that waits for it in the middle of a call at last.
FairSpec == Spec /\ \A t \in Threads : WF_vars(Step(t)) /\ SF_vars(TakesLock(t))

-----------------------------------------------------------------------------
\* The thread runs SetBestChain.
InSetBestChain(t) ==
  /\ command[t] \in {"block", "checkpoint"}
  /\ pc[t] \in ChainLabels \cup AcceptLabels

\* SetBestChain runs in one thread at a time: the chain, its index and the
\* pool have no other protection.
SetBestChainAlone ==
  \A t, u \in Threads : InSetBestChain(t) /\ InSetBestChain(u) => t = u

\* Two threads are in SetBestChain at once only where one of them runs a
\* checkpoint message: it got there without cs_main.
OnlyCheckpointsOverlap ==
  \A t, u \in Threads :
    t # u /\ InSetBestChain(t) /\ InSetBestChain(u) =>
      /\ Net \in {t, u} /\ command[Net] = "checkpoint"
      /\ cs_hashSyncCheckpoint = Net /\ cs_main \in {t, u} \ {Net}

\* "AssertLockHeld(cs_main)", the first line of CTxMemPool::accept, holds
\* except in a "tx" message and in the tail of a Reorganize that a checkpoint
\* message has started; both are in the message thread, so two accepts
\* overlap only if one of them has cs_main.
AcceptUnlockedOnlyInNet ==
  \A t \in Threads :
    pc[t] \in AcceptLabels =>
      \/ cs_main = t
      \/ t = Net /\ command[t] = "tx"
      \/ t = Net /\ command[t] = "checkpoint" /\ cs_hashSyncCheckpoint = Net

WantsMain(t) == pc[t] \in {"block", "create", "send", "ConnectBlock", "AddToPendingNames"}
WantsCheckpoint(t) == pc[t] \in {"ProcessBlock", "AcceptPending", "version", "checkpoint"}
WantsPool(t) == pc[t] \in {"CreateNewBlock", "CheckPayee", "remove", "accept", "add"}

\* t cannot go on before u releases a lock.
Waits(t, u) ==
  /\ t # u
  /\ \/ WantsMain(t) /\ cs_main = u
     \/ WantsCheckpoint(t) /\ cs_hashSyncCheckpoint = u
     \/ WantsPool(t) /\ mempool_cs = u

\* The threads of S wait for each other and for nobody else.
Stuck(S) == S # {} /\ \A t \in S : \E u \in S : Waits(t, u)

\* No threads wait for each other in a circle: the deadlock that the
\* lock-order bookkeeping of sync.cpp is there to find.
NoCircularWait == \A S \in SUBSET Threads : ~Stuck(S)

\* The two ways to a deadlock.  The message thread wants cs_main, whose owner
\* waits for the message thread: for cs_hashSyncCheckpoint or mempool.cs in a
\* checkpoint message, for mempool.cs in a name transaction of a tx message.
NetDeadlock ==
  /\ \/ command[Net] = "checkpoint" /\ cs_hashSyncCheckpoint = Net
     \/ command[Net] = "tx" /\ mempool_cs = Net
  /\ WantsMain(Net)
  /\ \E u \in Miners : cs_main = u /\ Waits(u, Net)

\* Threads wait for each other in a circle, of any length, only in one of
\* these two ways.
OnlyNetDeadlocks == \A S \in SUBSET Threads : Stuck(S) => NetDeadlock

\* Short of such a deadlock no thread keeps a lock for ever: blocks,
\* transactions and checkpoints go on being taken.
LocksReleased ==
  \/ <>[]NetDeadlock
  \/ /\ []<>(cs_main = Nil)
     /\ []<>(cs_hashSyncCheckpoint = Nil)
     /\ []<>(mempool_cs = Nil)
=============================================================================
