----------------------------- MODULE BlockArrival -----------------------------
(***************************************************************************)
(* How blocks get into the index: ProcessBlock with its holding area for   *)
(* blocks whose parent is missing, the limit on duplicate stakes, and the  *)
(* synchronized checkpoints, which decide what AcceptBlock takes and may   *)
(* wait for a block themselves.                                            *)
(*                                                                         *)
(* ProcessBlock runs under cs_main, in the message thread or in a thread   *)
(* of our own.  A checkpoint message takes cs_hashSyncCheckpoint only, so  *)
(* it comes between the steps of a thread of our own: AcceptBlock takes    *)
(* that lock twice, in CheckSync and in AcceptPendingSyncCheckpoint, and   *)
(* is cut there and before AddToBlockIndex.                                *)
(*                                                                         *)
(* SetBestChain is one step here and succeeds unless a block on the way is *)
(* bad (ChainState has its steps, CheckpointLocks who may be in it at the  *)
(* same time).  The node is past the initial block download, on the main   *)
(* network and in CheckpointsMode STRICT, which is the default; it is not  *)
(* the checkpoint master.  getblocks, which only brings more blocks, is    *)
(* left out.                                                               *)
(***************************************************************************)
EXTENDS BlockTree

CONSTANTS
    Stake,         \* GetProofOfStake() of each block, Nil for proof of work
    Kernel,        \* the block whose stake modifier proves the stake
    Unsound,       \* blocks CheckBlock refuses
    Refused,       \* blocks AcceptBlock refuses for a reason of their own
    TooLittle,     \* blocks with too little work since the last checkpoint
    Checkpoints,   \* blocks the checkpoint master announces
    Own,           \* blocks our miner, submitblock or an import may hand in
    MayRestart

ASSUME ArrivalAssumption ==
  /\ Stake \in [Blocks -> Nat \cup {Nil}]
  /\ Kernel \in [Blocks -> Blocks \cup {Nil}]
  /\ \A b \in Blocks : Kernel[b] = Nil <=> Stake[b] = Nil
  /\ Unsound \in SUBSET Blocks /\ Refused \in SUBSET Blocks
  /\ TooLittle \in SUBSET Blocks /\ Checkpoints \in SUBSET Blocks
  /\ Own \in SUBSET Blocks /\ MayRestart \in BOOLEAN

VARIABLES
    mapBlockIndex,
    hashBestChain,
    setStakeSeen,          \* stakes of indexed blocks
    mapOrphanBlocks,       \* the holding area, by hash
    mapOrphanBlocksByPrev, \* the same blocks, by parent
    setStakeSeenOrphan,    \* stakes of blocks in the holding area
    hashSyncCheckpoint,
    hashPendingCheckpoint, \* a checkpoint whose block we miss, or Nil
    pblock,                \* the block AcceptBlock is at, or Nil
    stage,                 \* what AcceptBlock does next
    own,                   \* the call under way is not of the message thread
    vWorkQueue,            \* the parents ProcessBlock has still to look for
    asked,                 \* blocks asked of the peer and not yet sent
    received,              \* every block handed to ProcessBlock since the start
    overtaken              \* history: a checkpoint was written off the branch
                           \* of a block that had passed CheckSync

indexVars == <<mapBlockIndex, hashBestChain, setStakeSeen>>
orphanVars == <<mapOrphanBlocks, mapOrphanBlocksByPrev, setStakeSeenOrphan>>
syncVars == <<hashSyncCheckpoint, hashPendingCheckpoint>>
callVars == <<pblock, stage, own, vWorkQueue>>
vars == <<indexVars, orphanVars, syncVars, callVars, asked, received, overtaken>>

Stakes == {Stake[b] : b \in Blocks} \ {Nil}

\* The maps and sets of the holding area hold blocks and stakes, also after
\* erasures of proof-of-work blocks, which have no stake.
TypeOK ==
  /\ mapBlockIndex \in SUBSET Blocks /\ hashBestChain \in Blocks
  /\ setStakeSeen \in SUBSET Stakes /\ setStakeSeenOrphan \in SUBSET Stakes
  /\ mapOrphanBlocks \in SUBSET Blocks /\ mapOrphanBlocksByPrev \in SUBSET Blocks
  /\ hashSyncCheckpoint \in Blocks /\ hashPendingCheckpoint \in Blocks \cup {Nil}
  /\ stage \in {"none", "sync", "index", "pending"}
  /\ IF stage = "none" THEN pblock = Nil ELSE pblock \in Blocks
  /\ own \in BOOLEAN /\ overtaken \in BOOLEAN
  /\ vWorkQueue \in Seq(Blocks)
  /\ asked \in SUBSET Blocks /\ received \in SUBSET Blocks

\* cs_main is free: no ProcessBlock is under way.
Idle == stage = "none" /\ vWorkQueue = <<>>

-----------------------------------------------------------------------------
\* Mutant of StakesWith: a proof-of-work block counts as a stake.
StakesWithAny(S, b) == S \cup {Stake[b]}

\* IsProofOfStake() and the insertion into a set of seen stakes.
StakesWith(S, b) == IF Stake[b] = Nil THEN S ELSE S \cup {Stake[b]}

\* Mutant of HasOrphanChild: no exception for a duplicate stake.
NoOrphanChild(b) == FALSE

\* mapOrphanBlocksByPrev.count(hash)
HasOrphanChild(b) == \E o \in mapOrphanBlocksByPrev : Prev[o] = b

\* The block in front of the chain of orphans in S that ends in b.
WantedByOrphan(S, b) ==
  CHOOSE x \in Ancestors[b] \ {b} :
    /\ x \notin S
    /\ \A y \in Ancestors[b] \ {b} : Height[y] > Height[x] => y \in S

\* Mutant of WantedByPendingSyncCheckpoint: the checkpoint block alone.
IsPendingSyncCheckpoint(b) == b = hashPendingCheckpoint

WantedByPendingSyncCheckpoint(b) ==
  /\ hashPendingCheckpoint # Nil
  /\ \/ b = hashPendingCheckpoint
     \/ /\ hashPendingCheckpoint \in mapOrphanBlocks
        /\ b = WantedByOrphan(mapOrphanBlocks, hashPendingCheckpoint)

\* Mutant of ValidateSyncCheckpoint: an older checkpoint is not ignored.
ValidateRelated(c) ==
  /\ {hashSyncCheckpoint, c} \subseteq mapBlockIndex
  /\ hashSyncCheckpoint \in Ancestors[c] \/ c \in Ancestors[hashSyncCheckpoint]

\* Only a proper descendant of the current checkpoint replaces it; an older
\* one is ignored, one on another branch refused.
ValidateSyncCheckpoint(c) ==
  /\ {hashSyncCheckpoint, c} \subseteq mapBlockIndex
  /\ Height[c] > Height[hashSyncCheckpoint]
  /\ hashSyncCheckpoint \in Ancestors[c]

\* Mutant of CheckSync: only the height counts.
CheckSyncHeight(b) == Height[b] > Height[hashSyncCheckpoint]

\* A new block must descend from the synchronized checkpoint.
CheckSync(b) ==
  /\ Height[b] > Height[hashSyncCheckpoint] => hashSyncCheckpoint \in Ancestors[Prev[b]]
  /\ Height[b] = Height[hashSyncCheckpoint] => b = hashSyncCheckpoint
  /\ Height[b] < Height[hashSyncCheckpoint] => b \in mapBlockIndex

\* What the block says of itself is in order.
CheckBlock(b) == b \notin Unsound

\* The bits of the block against what the last checkpoint lets one expect
\* (ComputeMinWork, ComputeMinStake).
EnoughWork(b) == b \notin TooLittle

\* SetBestChain(b) succeeds.
Connectable(b) == Ancestors[b] \cap BadBlocks = {}

\* The staked output is looked up in the transaction index and the modifier
\* along pnext, so the proof holds while the block of the modifier is on the
\* best chain; elsewhere the output has another modifier, and the proof fails.
CheckProofOfStake(b) == Kernel[b] # Nil => Kernel[b] \in Ancestors[hashBestChain]

\* A good checkpoint c: its branch becomes the best chain if it is not part of
\* it, and the checkpoint is written.
SetCheckpoint(c) ==
  IF c \in Ancestors[hashBestChain] \/ Connectable(c)
  THEN /\ hashBestChain' = IF c \in Ancestors[hashBestChain] THEN hashBestChain ELSE c
       /\ hashSyncCheckpoint' = c
       /\ hashPendingCheckpoint' = Nil
  ELSE UNCHANGED <<hashBestChain, syncVars>>

\* The call AcceptBlock ends with.
AcceptPendingSyncCheckpoint ==
  LET c == hashPendingCheckpoint IN
  IF c = Nil \/ c \notin mapBlockIndex
  THEN UNCHANGED <<hashBestChain, syncVars>>
  ELSE IF ValidateSyncCheckpoint(c)
  THEN SetCheckpoint(c)
  ELSE hashPendingCheckpoint' = Nil /\ UNCHANGED <<hashBestChain, hashSyncCheckpoint>>

\* Mutant of AcceptReturns: the blocks that wait for b are not looked for.
ReturnsAlone(b, ok, me) ==
  /\ pblock' = Nil /\ stage' = "none" /\ own' = FALSE
  /\ UNCHANGED <<orphanVars, vWorkQueue>>

\* Mutant of AcceptReturns: only the block that arrived is looked behind.
ReturnsFirst(b, ok, me) ==
  /\ pblock' = Nil /\ stage' = "none"
  /\ vWorkQueue' = IF ok /\ vWorkQueue = <<>> THEN <<b>> ELSE vWorkQueue
  /\ own' = (me /\ vWorkQueue' # <<>>)
  /\ IF vWorkQueue = <<>>
     THEN UNCHANGED orphanVars
     ELSE /\ mapOrphanBlocks' = mapOrphanBlocks \ {b}
          /\ setStakeSeenOrphan' = setStakeSeenOrphan \ {Stake[b]}
          /\ UNCHANGED mapOrphanBlocksByPrev

\* AcceptBlock of b returns ok to ProcessBlock: to its loop, where b was held
\* until now, or to its own call of AcceptBlock.
AcceptReturns(b, ok, me) ==
  /\ pblock' = Nil /\ stage' = "none"
  /\ vWorkQueue' = IF ok THEN Append(vWorkQueue, b) ELSE vWorkQueue
  /\ own' = (me /\ vWorkQueue' # <<>>)
  /\ IF vWorkQueue = <<>>
     THEN UNCHANGED orphanVars
     ELSE /\ mapOrphanBlocks' = mapOrphanBlocks \ {b}
          /\ setStakeSeenOrphan' = setStakeSeenOrphan \ {Stake[b]}
          /\ UNCHANGED mapOrphanBlocksByPrev

\* AcceptBlock returns an error before it asks for the checkpoint.
RefusesBlock(b) ==
  \/ b \in mapBlockIndex \cup Refused
  \/ Prev[b] \notin mapBlockIndex
  \/ ~CheckProofOfStake(b)

\* AcceptBlock of b, up to the proof of stake, in the thread of our own or not.
AcceptBlock(b, me) ==
  IF RefusesBlock(b)
  THEN AcceptReturns(b, FALSE, me)
  ELSE /\ pblock' = b /\ stage' = "sync" /\ own' = me
       /\ UNCHANGED <<orphanVars, vWorkQueue>>

\* AcceptBlock: the synchronized checkpoint.
AcceptBlockSync ==
  /\ stage = "sync"
  /\ IF CheckSync(pblock)
     THEN stage' = "index" /\ UNCHANGED <<pblock, own, vWorkQueue, orphanVars>>
     ELSE AcceptReturns(pblock, FALSE, own)
  /\ UNCHANGED <<indexVars, syncVars, asked, received, overtaken>>

\* AddToBlockIndex indexes the block, and SetBestChain then fails on it.
NotConnected(b) == ChainTrust[b] > ChainTrust[hashBestChain] /\ ~Connectable(b)

\* AcceptBlock: AddToBlockIndex.
AddToBlockIndex ==
  /\ stage = "index"
  /\ mapBlockIndex' = mapBlockIndex \cup {pblock}
  /\ setStakeSeen' = StakesWith(setStakeSeen, pblock)
  /\ IF NotConnected(pblock)
     THEN AcceptReturns(pblock, FALSE, own) /\ UNCHANGED hashBestChain
     ELSE /\ hashBestChain' = IF ChainTrust[pblock] > ChainTrust[hashBestChain]
                              THEN pblock ELSE hashBestChain
          /\ stage' = "pending"
          /\ UNCHANGED <<pblock, own, vWorkQueue, orphanVars>>
  /\ UNCHANGED <<syncVars, asked, received, overtaken>>

\* AcceptBlock: the pending checkpoint, and the end.
AcceptBlockPending ==
  /\ stage = "pending"
  /\ AcceptPendingSyncCheckpoint
  /\ AcceptReturns(pblock, TRUE, own)
  /\ UNCHANGED <<mapBlockIndex, setStakeSeen, asked, received, overtaken>>

-----------------------------------------------------------------------------
\* ProcessBlock returns an error at once: a block we have, a stake we have
\* seen, a block that is bad or has too little work.
TurnsAway(b) ==
  \/ b \in mapBlockIndex \cup mapOrphanBlocks
  \/ /\ Stake[b] \in setStakeSeen
     /\ ~HasOrphanChild(b) /\ ~WantedByPendingSyncCheckpoint(b)
  \/ ~CheckBlock(b)
  \/ /\ Prev[b] # hashBestChain
     /\ ~EnoughWork(b) /\ ~WantedByPendingSyncCheckpoint(b)

\* AskForPendingSyncCheckpoint
PendingAsk ==
  IF hashPendingCheckpoint # Nil
     /\ hashPendingCheckpoint \notin mapBlockIndex \cup mapOrphanBlocks
  THEN {hashPendingCheckpoint} ELSE {}

\* ProcessBlock of b begins; me says that a thread of our own calls it.
Arrives(b, me) ==
  /\ Idle
  /\ me => b \in Own
  /\ received' = received \cup {b}

\* What the peer that sent b is asked for: nothing if b is our own.
AskFor(b, me, wanted) ==
  asked' = IF me THEN asked ELSE (asked \ {b}) \cup wanted

\* ProcessBlock: the block is turned away.
ProcessBlockReject(b, me) ==
  /\ Arrives(b, me)
  /\ TurnsAway(b)
  /\ AskFor(b, me, {})
  /\ UNCHANGED <<indexVars, orphanVars, syncVars, callVars, overtaken>>

\* ProcessBlock: the parent is missing; into the holding area, unless another
\* orphan has the same stake.
ProcessBlockOrphan(b, me) ==
  /\ Arrives(b, me)
  /\ ~TurnsAway(b)
  /\ Prev[b] \notin mapBlockIndex
  /\ IF /\ Stake[b] \in setStakeSeenOrphan
        /\ ~HasOrphanChild(b) /\ ~WantedByPendingSyncCheckpoint(b)
     THEN AskFor(b, me, PendingAsk) /\ UNCHANGED orphanVars
     ELSE /\ setStakeSeenOrphan' = StakesWith(setStakeSeenOrphan, b)
          /\ mapOrphanBlocks' = mapOrphanBlocks \cup {b}
          /\ mapOrphanBlocksByPrev' = mapOrphanBlocksByPrev \cup {b}
          /\ AskFor(b, me, PendingAsk \cup {WantedByOrphan(mapOrphanBlocks', b)})
  /\ UNCHANGED <<indexVars, syncVars, callVars, overtaken>>

\* ProcessBlock: the parent is indexed; AcceptBlock begins.
ProcessBlockAccept(b, me) ==
  /\ Arrives(b, me)
  /\ ~TurnsAway(b)
  /\ Prev[b] \in mapBlockIndex
  /\ AskFor(b, me, PendingAsk)
  /\ AcceptBlock(b, me)
  /\ UNCHANGED <<indexVars, syncVars, overtaken>>

ProcessBlock(b, me) ==
  ProcessBlockReject(b, me) \/ ProcessBlockOrphan(b, me) \/ ProcessBlockAccept(b, me)

\* ProcessBlock is in its loop over vWorkQueue, between two blocks.
InLoop == stage = "none" /\ vWorkQueue # <<>>

\* The loop over vWorkQueue: the next block that waited for its head.
ProcessWaiting(b) ==
  /\ InLoop
  /\ b \in mapOrphanBlocks /\ Prev[b] = Head(vWorkQueue)
  /\ AcceptBlock(b, own)
  /\ UNCHANGED <<indexVars, syncVars, asked, received, overtaken>>

\* Mutant of ProcessedAll: mapOrphanBlocksByPrev.erase(hashPrev) is missing.
ProcessedKept ==
  /\ InLoop
  /\ ~\E b \in mapOrphanBlocks : Prev[b] = Head(vWorkQueue)
  /\ vWorkQueue' = Tail(vWorkQueue)
  /\ own' = (own /\ vWorkQueue' # <<>>)
  /\ UNCHANGED <<indexVars, orphanVars, syncVars, pblock, stage, asked, received,
                 overtaken>>

\* The loop over vWorkQueue: no block waits for its head any more.
ProcessedAll ==
  /\ InLoop
  /\ ~\E b \in mapOrphanBlocks : Prev[b] = Head(vWorkQueue)
  /\ mapOrphanBlocksByPrev' =
       {b \in mapOrphanBlocksByPrev : Prev[b] # Head(vWorkQueue)}
  /\ vWorkQueue' = Tail(vWorkQueue)
  /\ own' = (own /\ vWorkQueue' # <<>>)
  /\ UNCHANGED <<indexVars, mapOrphanBlocks, setStakeSeenOrphan, syncVars, pblock,
                 stage, asked, received, overtaken>>

\* A checkpoint message with a good signature.  The message thread handles it,
\* so no ProcessBlock of that thread is under way; one of our own may be.
ProcessSyncCheckpoint(c) ==
  /\ Idle \/ own
  /\ c \in Checkpoints
  /\ IF c \notin mapBlockIndex
     THEN /\ hashPendingCheckpoint' = c
          /\ asked' = asked \cup
               {IF c \in mapOrphanBlocks THEN WantedByOrphan(mapOrphanBlocks, c) ELSE c}
          /\ UNCHANGED <<hashBestChain, hashSyncCheckpoint>>
     ELSE /\ IF ValidateSyncCheckpoint(c)
             THEN SetCheckpoint(c)
             ELSE UNCHANGED <<hashBestChain, syncVars>>
          /\ UNCHANGED asked
  /\ overtaken' = \/ overtaken
                  \/ stage = "index" /\ hashSyncCheckpoint' \notin Ancestors[pblock]
  /\ UNCHANGED <<mapBlockIndex, setStakeSeen, orphanVars, callVars, received>>

\* The process stops and starts: the index, the tip, the checkpoint and the
\* stakes of indexed blocks come back from disk.
Restart ==
  /\ MayRestart
  /\ mapOrphanBlocks' = {} /\ mapOrphanBlocksByPrev' = {}
  /\ setStakeSeenOrphan' = {}
  /\ hashPendingCheckpoint' = Nil
  /\ pblock' = Nil /\ stage' = "none" /\ own' = FALSE /\ vWorkQueue' = <<>>
  /\ asked' = {}
  /\ received' = mapBlockIndex
  /\ UNCHANGED <<indexVars, hashSyncCheckpoint, overtaken>>

-----------------------------------------------------------------------------
Init ==
  /\ mapBlockIndex = {Genesis}
  /\ hashBestChain = Genesis
  /\ setStakeSeen = {}
  /\ mapOrphanBlocks = {} /\ mapOrphanBlocksByPrev = {}
  /\ setStakeSeenOrphan = {}
  /\ hashSyncCheckpoint = Genesis
  /\ hashPendingCheckpoint = Nil
  /\ pblock = Nil /\ stage = "none" /\ own = FALSE /\ vWorkQueue = <<>>
  /\ asked = {}
  /\ received = {Genesis}
  /\ overtaken = FALSE

\* The call of ProcessBlock under way.
Call ==
  \/ AcceptBlockSync \/ AddToBlockIndex \/ AcceptBlockPending
  \/ \E b \in Blocks : ProcessWaiting(b)
  \/ ProcessedAll

Next ==
  \/ \E b \in Blocks \ {Genesis}, me \in BOOLEAN : ProcessBlock(b, me)
  \/ Call
  \/ \E c \in Blocks : ProcessSyncCheckpoint(c)
  \/ Restart

Spec == Init /\ [][Next]_vars

\* The peer answers the getdata that AskFor sends.
Answer(b) == b \in asked /\ ProcessBlock(b, FALSE)

\* A call under way goes on, and the message thread gets cs_main again and
\* again, as ProcessBlock always gives it back.
FairSpec ==
  /\ Spec
  /\ WF_vars(Call)
  /\ \A b \in Blocks \ {Genesis} : SF_vars(Answer(b))

-----------------------------------------------------------------------------
\* The two maps of the holding area hold the same blocks between calls.
OrphanMapsAgree == Idle => mapOrphanBlocks = mapOrphanBlocksByPrev

\* A block stays in the holding area only as long as its parent is missing,
\* "until we get it" (ProcessBlock), unless SetBestChain has failed on the
\* parent: AcceptBlock then returns an error, and the children stay behind.
OrphansWait ==
  Idle => \A b \in mapOrphanBlocks :
            Prev[b] \notin mapBlockIndex \/ ~Connectable(Prev[b])

\* No other block received has the stake of b.
OwnStake(b) == Stake[b] = Nil \/ \A c \in received \ {b} : Stake[c] # Stake[b]

Related(x, y) == x \in Ancestors[y] \/ y \in Ancestors[x]

\* The best chain cannot have turned away from the kernel of b: it is on the
\* branch of b, and no block of a branch without it is indexed.
KernelSettled(b) ==
  \/ Kernel[b] = Nil
  \/ Kernel[b] \in Ancestors[Prev[b]] /\ \A x \in mapBlockIndex : Related(Kernel[b], x)

\* There is nothing to hold against b, whatever has come before it.
Fit(b) ==
  /\ b \notin Unsound \cup Refused \cup TooLittle
  /\ Connectable(Prev[b])
  /\ OwnStake(b)
  /\ KernelSettled(b)

\* In whatever order the blocks of a chain arrive, once all are here they are
\* all in the index: none is lost in the holding area, and the order matters
\* only for a duplicate stake, a kernel off the best chain and a block on the
\* way that is bad itself.  There are no checkpoints.
OrderIndependent ==
  Idle => \A b \in received \ {Genesis} :
            (Ancestors[b] \subseteq received /\ \A x \in Ancestors[b] \ {Genesis} : Fit(x))
              => b \in mapBlockIndex

\* The synchronized checkpoint stays on the best chain, whichever branch has
\* more trust and in whatever order blocks and checkpoints arrive, unless the
\* checkpoint was written while a block of another branch, handed in by a
\* thread of our own, was past CheckSync and not yet in the index.
CheckpointOnBestChain ==
  ~overtaken => hashSyncCheckpoint \in Ancestors[hashBestChain]

\* A checkpoint is only ever replaced by one of its descendants.
CheckpointAdvances ==
  [][(hashSyncCheckpoint \in Ancestors[hashSyncCheckpoint'])]_vars

\* Whatever the node has seen, it takes b once the parent is there: nothing is
\* wrong with it, and its kernel is below every fork.
Sound(b) ==
  /\ b \notin Unsound \cup Refused \cup BadBlocks \cup Own
  /\ Kernel[b] = Nil \/ /\ Kernel[b] \in Ancestors[Prev[b]]
                        /\ \A x \in Blocks : Related(Kernel[b], x)

\* A peer that has the missing blocks gets every orphan out of the holding
\* area, even where an ancestor was first turned away for its stake, unless an
\* ancestor is refused for good: it is unsound, has too little work, does not
\* connect or has its kernel on one side of a fork.  An orphan that is our own
\* has no peer to ask.  There are no checkpoints.
OrphansConnect ==
  \A b \in Blocks \ Own :
    (\A x \in Ancestors[b] \ {b, Genesis} : Sound(x) /\ x \notin TooLittle)
      => (b \in mapOrphanBlocks ~> b \notin mapOrphanBlocks)

\* A pending checkpoint is settled once its chain can be had, even where a
\* block of it has too little work, or a stake seen before, and would not be
\* taken otherwise.
PendingSettled ==
  \A c \in Checkpoints :
    (\A x \in Ancestors[c] \ {Genesis} : Sound(x)) /\ (\A d \in Checkpoints : Related(c, d))
      => (hashPendingCheckpoint = c ~> hashPendingCheckpoint # c)
=============================================================================
