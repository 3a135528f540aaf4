-------------------------- MODULE BlockArrivalProofs --------------------------
(***************************************************************************)
(* The holding area and the synchronized checkpoint, for every block tree, *)
(* every stake and kernel and every set of refused blocks, blocks of our   *)
(* own and checkpoints.                                                    *)
(***************************************************************************)
EXTENDS BlockArrival, TxIndexProofs

\* The block in front of a chain of orphans exists: going down from b, some
\* ancestor, the genesis block at the latest, is not in S.
LEMMA WantedExists ==
  ASSUME NEW S, Genesis \notin S, NEW b \in Blocks, b # Genesis
  PROVE  WantedByOrphan(S, b) \in Blocks
<1> DEFINE A == Ancestors[b] \ {b}
           W(x) == x \notin S /\ \A y \in A : Height[y] > Height[x] => y \in S
           T == {z \in Ancestors[b] : z = b \/ \A y \in A : Height[y] >= Height[z] => y \in S}
<1>1. Ancestors[b] \subseteq Blocks /\ b \in Ancestors[b] /\ Genesis \in Ancestors[b]
  BY AncestorsSelf, TreeAssumption
<1>2. \E x \in A : W(x)
  <2> SUFFICES ASSUME \A x \in A : ~W(x) PROVE FALSE
    OBVIOUS
  <2>1. ASSUME NEW z \in T, z # Genesis PROVE Prev[z] \in T
    <3>1. /\ z \in Ancestors[b] /\ z \in Blocks /\ Prev[z] \in Ancestors[b]
          /\ Prev[z] \in Blocks
      BY <1>1, <2>1, AncestorsPrev
    <3>2. /\ Height[z] = Height[Prev[z]] + 1 /\ Height[Prev[z]] \in Nat
          /\ \A y \in Ancestors[b] : Height[y] \in Nat
      BY <1>1, <2>1, <3>1, TreeAssumption
    <3>3. \A y \in A : Height[y] < Height[b]
      BY AncestorsBelow
    <3>4. \A y \in A : Height[y] > Height[Prev[z]] => y \in S
      <4>1. CASE z = b
        BY <1>1, <3>2, <3>3, <4>1
      <4>2. CASE z # b
        BY <2>1, <3>2, <4>2
      <4> QED BY <4>1, <4>2
    <3>5. Prev[z] # b
      <4>1. Height[z] <= Height[b]
        BY <1>1, <3>1, <3>2, <3>3
      <4> QED BY <1>1, <3>2, <4>1
    <3>6. Prev[z] \in A /\ Prev[z] \in S
      BY <3>1, <3>4, <3>5
    <3>7. ASSUME NEW y \in A, Height[y] = Height[Prev[z]] PROVE y = Prev[z]
      <4>1. y \in Ancestors[Prev[z]] \/ Prev[z] \in Ancestors[y]
        BY <3>1, AncestorsLinear
      <4>2. y \in Blocks
        BY <1>1
      <4> QED BY <3>1, <3>2, <3>7, <4>1, <4>2, AncestorsBelow
    <3>8. \A y \in A : Height[y] >= Height[Prev[z]] => y \in S
      BY <3>2, <3>4, <3>6, <3>7
    <3> QED BY <3>1, <3>8
  <2>2. T \in SUBSET Blocks /\ b \in T
    BY <1>1
  <2>3. Ancestors[b] \subseteq T
    <3> HIDE DEF T
    <3> QED BY <2>1, <2>2, AncestorsInduction
  <2>4. Genesis \in T
    BY <1>1, <2>3
  <2>5. Genesis \in S
    BY <1>1, <2>4, TreeAssumption
  <2> QED BY <2>5
<1>3. WantedByOrphan(S, b) = CHOOSE x \in A : W(x)
  BY DEF WantedByOrphan
<1> HIDE DEF W
<1>4. (CHOOSE x \in A : W(x)) \in A
  BY <1>2
<1> QED BY <1>1, <1>3, <1>4

-----------------------------------------------------------------------------
(***************************************************************************)
(* The inductive invariant.                                                *)
(***************************************************************************)
Queued(q) == {q[i] : i \in 1 .. Len(q)}

\* What the call of AcceptBlock under way has found out about its block; in
\* the loop the block is still held, and waits for the head of the queue.
CallInv ==
  /\ stage # "none" => pblock # Genesis /\ Prev[pblock] \in mapBlockIndex
  /\ stage \in {"sync", "index"} => pblock \notin mapBlockIndex
  /\ stage = "pending" => pblock \in mapBlockIndex
  /\ stage # "none" /\ vWorkQueue # <<>> =>
       pblock \in mapOrphanBlocks /\ Prev[pblock] = Head(vWorkQueue)

\* The current checkpoint is indexed: CheckSync refuses a block at its height
\* or below only because of that.  A block that has passed CheckSync descends
\* from it, unless it was overtaken.
CheckInv ==
  /\ hashSyncCheckpoint \in mapBlockIndex
  /\ CheckpointOnBestChain
  /\ stage = "index" /\ ~overtaken => hashSyncCheckpoint \in Ancestors[pblock]

\* In the middle of the loop, the map by parent is ahead by children of the
\* head of the queue only.
MapsInv ==
  /\ Genesis \notin mapOrphanBlocks
  /\ mapOrphanBlocks \subseteq mapOrphanBlocksByPrev
  /\ \A b \in mapOrphanBlocksByPrev \ mapOrphanBlocks :
       vWorkQueue # <<>> /\ Prev[b] = Head(vWorkQueue)

\* An orphan whose parent is indexed and connects will be found by the loop:
\* the parent is in the queue, or AcceptBlock is about to return it.
WaitInv ==
  \A b \in mapOrphanBlocks :
    \/ Prev[b] \notin mapBlockIndex
    \/ ~Connectable(Prev[b])
    \/ Prev[b] \in Queued(vWorkQueue)
    \/ stage = "pending" /\ Prev[b] = pblock

IInv == TypeOK /\ CallInv /\ CheckInv /\ MapsInv /\ WaitInv

LEMMA QueuedFacts ==
  ASSUME NEW q \in Seq(Blocks), NEW b \in Blocks
  PROVE  /\ Queued(<<>>) = {}
         /\ Append(q, b) \in Seq(Blocks) /\ Append(q, b) # <<>>
         /\ Queued(Append(q, b)) = Queued(q) \cup {b}
         /\ q # <<>> => /\ Head(Append(q, b)) = Head(q)
                        /\ Tail(q) \in Seq(Blocks)
                        /\ Queued(q) = {Head(q)} \cup Queued(Tail(q))
<1>1. Queued(<<>>) = {}
  BY DEF Queued
<1>2. /\ Append(q, b) \in Seq(Blocks) /\ Append(q, b) # <<>> /\ Len(q) \in Nat
      /\ Len(Append(q, b)) = Len(q) + 1
      /\ \A i \in 1 .. Len(q) : Append(q, b)[i] = q[i]
      /\ Append(q, b)[Len(q) + 1] = b
  OBVIOUS
<1>3. Queued(Append(q, b)) = Queued(q) \cup {b}
  <2>1. 1 .. (Len(q) + 1) = (1 .. Len(q)) \cup {Len(q) + 1}
    BY <1>2
  <2> QED BY <1>2, <2>1 DEF Queued
<1>4. ASSUME q # <<>>
      PROVE  /\ Head(Append(q, b)) = Head(q) /\ Tail(q) \in Seq(Blocks)
             /\ Queued(q) = {Head(q)} \cup Queued(Tail(q))
  <2>1. /\ Head(q) = q[1] /\ Len(Tail(q)) = Len(q) - 1 /\ Len(q) >= 1
        /\ \A i \in 1 .. (Len(q) - 1) : Tail(q)[i] = q[i + 1]
        /\ Head(Append(q, b)) = Append(q, b)[1] /\ Tail(q) \in Seq(Blocks)
    BY <1>4
  <2>2. Queued(q) \subseteq {Head(q)} \cup Queued(Tail(q))
    <3> SUFFICES ASSUME NEW i \in 1 .. Len(q), i # 1
                 PROVE  \E j \in 1 .. Len(Tail(q)) : Tail(q)[j] = q[i]
      BY <2>1 DEF Queued
    <3>1. i - 1 \in 1 .. Len(Tail(q)) /\ Tail(q)[i - 1] = q[i]
      BY <1>2, <2>1
    <3> QED BY <3>1
  <2>3. Queued(Tail(q)) \subseteq Queued(q)
    <3> SUFFICES ASSUME NEW i \in 1 .. Len(Tail(q))
                 PROVE  \E j \in 1 .. Len(q) : q[j] = Tail(q)[i]
      BY DEF Queued
    <3>1. i + 1 \in 1 .. Len(q) /\ q[i + 1] = Tail(q)[i]
      BY <1>2, <2>1
    <3> QED BY <3>1
  <2>4. Head(q) \in Queued(q)
    BY <1>2, <2>1 DEF Queued
  <2>5. Head(Append(q, b)) = Head(q)
    BY <1>2, <2>1
  <2> QED BY <2>1, <2>2, <2>3, <2>4, <2>5
<1> QED BY <1>1, <1>2, <1>3, <1>4

\* What SetCheckpoint does to tip and checkpoint.
LEMMA SetCheckpointStep ==
  ASSUME TypeOK, NEW c \in Blocks, hashSyncCheckpoint \in Ancestors[c], SetCheckpoint(c)
  PROVE  /\ hashBestChain' \in Blocks
         /\ hashSyncCheckpoint' \in {hashSyncCheckpoint, c}
         /\ hashPendingCheckpoint' \in {hashPendingCheckpoint, Nil}
         /\ \/ hashSyncCheckpoint' \in Ancestors[hashBestChain']
            \/ hashSyncCheckpoint' = hashSyncCheckpoint /\ hashBestChain' = hashBestChain
         /\ hashSyncCheckpoint \in Ancestors[hashSyncCheckpoint']
<1>1. c \in Ancestors[c] /\ hashSyncCheckpoint \in Ancestors[hashSyncCheckpoint]
  BY AncestorsSelf DEF TypeOK
<1>2. CASE c \in Ancestors[hashBestChain] \/ Connectable(c)
  BY <1>1, <1>2 DEF SetCheckpoint, TypeOK
<1>3. CASE ~(c \in Ancestors[hashBestChain] \/ Connectable(c))
  BY <1>1, <1>3 DEF SetCheckpoint, syncVars, TypeOK
<1> QED BY <1>2, <1>3

\* The end of AcceptBlock: the maps stay together, and a block that was taken
\* is in the queue.
LEMMA ReturnsStep ==
  ASSUME TypeOK, MapsInv, NEW b \in Blocks, NEW ok \in BOOLEAN, NEW me \in BOOLEAN,
         vWorkQueue # <<>> => b \in mapOrphanBlocks /\ Prev[b] = Head(vWorkQueue),
         AcceptReturns(b, ok, me)
  PROVE  /\ pblock' = Nil /\ stage' = "none" /\ own' \in BOOLEAN
         /\ vWorkQueue' \in Seq(Blocks)
         /\ ok => Queued(vWorkQueue') = Queued(vWorkQueue) \cup {b}
         /\ ~ok => Queued(vWorkQueue') = Queued(vWorkQueue)
         /\ mapOrphanBlocks' \subseteq mapOrphanBlocks
         /\ mapOrphanBlocks \subseteq mapOrphanBlocks' \cup {b}
         /\ vWorkQueue = <<>> => mapOrphanBlocks' = mapOrphanBlocks
         /\ mapOrphanBlocksByPrev' = mapOrphanBlocksByPrev
         /\ setStakeSeenOrphan' \subseteq setStakeSeenOrphan
         /\ mapOrphanBlocks' # mapOrphanBlocks => Stake[b] \notin setStakeSeenOrphan'
         /\ MapsInv'
<1>1. /\ vWorkQueue \in Seq(Blocks)
      /\ vWorkQueue' = IF ok THEN Append(vWorkQueue, b) ELSE vWorkQueue
      /\ pblock' = Nil /\ stage' = "none" /\ own' \in BOOLEAN
  BY DEF AcceptReturns, TypeOK
<1>2. /\ vWorkQueue' \in Seq(Blocks)
      /\ ok => Queued(vWorkQueue') = Queued(vWorkQueue) \cup {b}
      /\ ~ok => Queued(vWorkQueue') = Queued(vWorkQueue)
      /\ vWorkQueue # <<>> => vWorkQueue' # <<>> /\ Head(vWorkQueue') = Head(vWorkQueue)
  <2>1. CASE ok
    BY <1>1, <2>1, QueuedFacts
  <2>2. CASE ~ok
    BY <1>1, <2>2
  <2> QED BY <2>1, <2>2
<1>3. CASE vWorkQueue = <<>>
  <2>1. UNCHANGED <<mapOrphanBlocks, mapOrphanBlocksByPrev, setStakeSeenOrphan>>
    BY <1>3 DEF AcceptReturns, orphanVars
  <2> QED BY <1>1, <1>2, <1>3, <2>1 DEF MapsInv
<1>4. CASE vWorkQueue # <<>>
  <2>1. /\ mapOrphanBlocks' = mapOrphanBlocks \ {b}
        /\ setStakeSeenOrphan' = setStakeSeenOrphan \ {Stake[b]}
        /\ mapOrphanBlocksByPrev' = mapOrphanBlocksByPrev
    BY <1>4 DEF AcceptReturns
  <2> QED BY <1>1, <1>2, <1>4, <2>1 DEF MapsInv
<1> QED BY <1>3, <1>4

-----------------------------------------------------------------------------
LEMMA ArrivalInit == Init => IInv
<1> SUFFICES ASSUME Init PROVE IInv
  OBVIOUS
<1>1. Genesis \in Blocks /\ Genesis \in Ancestors[Genesis]
  BY AncestorsSelf, TreeAssumption
<1>2. TypeOK
  <2>1. own \in BOOLEAN /\ overtaken \in BOOLEAN
    BY DEF Init
  <2> QED BY <1>1, <2>1 DEF Init, TypeOK
<1> QED BY <1>1, <1>2
        DEF Init, IInv, CallInv, CheckInv, CheckpointOnBestChain, MapsInv, WaitInv

\* Between calls the two maps agree.
LEMMA IdleMaps == ASSUME IInv, Idle PROVE mapOrphanBlocks = mapOrphanBlocksByPrev
BY DEF IInv, MapsInv, Idle

LEMMA PendingAskType == ASSUME TypeOK PROVE PendingAsk \subseteq Blocks
BY DEF TypeOK, PendingAsk

LEMMA RejectInv ==
  ASSUME IInv, NEW b \in Blocks \ {Genesis}, NEW me \in BOOLEAN, ProcessBlockReject(b, me)
  PROVE  IInv' /\ hashSyncCheckpoint' = hashSyncCheckpoint
<1>1. /\ UNCHANGED <<mapBlockIndex, hashBestChain, setStakeSeen, mapOrphanBlocks,
                     mapOrphanBlocksByPrev, setStakeSeenOrphan, hashSyncCheckpoint,
                     hashPendingCheckpoint, pblock, stage, own, vWorkQueue, overtaken>>
      /\ asked' \subseteq asked /\ received' = received \cup {b}
  BY DEF ProcessBlockReject, Arrives, AskFor, indexVars, orphanVars, syncVars, callVars
<1>2. TypeOK'
  BY <1>1 DEF IInv, TypeOK
<1> QED BY <1>1, <1>2
        DEF IInv, CallInv, CheckInv, CheckpointOnBestChain, MapsInv, WaitInv

LEMMA OrphanInv ==
  ASSUME IInv, NEW b \in Blocks \ {Genesis}, NEW me \in BOOLEAN, ProcessBlockOrphan(b, me)
  PROVE  IInv' /\ hashSyncCheckpoint' = hashSyncCheckpoint
<1>1. /\ UNCHANGED <<mapBlockIndex, hashBestChain, setStakeSeen, hashSyncCheckpoint,
                     hashPendingCheckpoint, pblock, stage, own, vWorkQueue, overtaken>>
      /\ received' = received \cup {b} /\ Prev[b] \notin mapBlockIndex /\ Idle
  BY DEF ProcessBlockOrphan, Arrives, indexVars, syncVars, callVars
<1>2. mapOrphanBlocks = mapOrphanBlocksByPrev /\ stage = "none"
  BY <1>1, IdleMaps DEF Idle
<1>3. TypeOK /\ CallInv /\ CheckInv /\ MapsInv /\ WaitInv /\ PendingAsk \subseteq Blocks
  BY PendingAskType DEF IInv
<1>4. CallInv' /\ CheckInv'
  BY <1>1, <1>2, <1>3 DEF CallInv, CheckInv, CheckpointOnBestChain
<1>5. CASE AskFor(b, me, PendingAsk) /\ UNCHANGED orphanVars
  <2>1. UNCHANGED <<mapOrphanBlocks, mapOrphanBlocksByPrev, setStakeSeenOrphan>>
    BY <1>5 DEF orphanVars
  <2>2. TypeOK'
    BY <1>1, <1>3, <1>5, <2>1 DEF TypeOK, AskFor
  <2> QED BY <1>1, <1>3, <1>4, <2>1, <2>2 DEF IInv, MapsInv, WaitInv
<1>6. CASE /\ setStakeSeenOrphan' = StakesWith(setStakeSeenOrphan, b)
           /\ mapOrphanBlocks' = mapOrphanBlocks \cup {b}
           /\ mapOrphanBlocksByPrev' = mapOrphanBlocksByPrev \cup {b}
           /\ AskFor(b, me, PendingAsk \cup {WantedByOrphan(mapOrphanBlocks', b)})
  <2>1. Genesis \notin mapOrphanBlocks'
    BY <1>3, <1>6 DEF MapsInv
  <2>2. WantedByOrphan(mapOrphanBlocks', b) \in Blocks
    BY <2>1, WantedExists
  <2>3. setStakeSeenOrphan' \in SUBSET Stakes
    BY <1>3, <1>6 DEF StakesWith, Stakes, TypeOK
  <2>4. asked' \in SUBSET Blocks
    BY <1>3, <1>6, <2>2 DEF AskFor, TypeOK
  <2>5. TypeOK'
    BY <1>1, <1>3, <1>6, <2>3, <2>4 DEF TypeOK
  <2>6. MapsInv'
    BY <1>2, <1>6, <2>1 DEF MapsInv
  <2>7. WaitInv'
    BY <1>1, <1>3, <1>6 DEF WaitInv
  <2> QED BY <1>1, <1>4, <2>5, <2>6, <2>7 DEF IInv
<1> QED BY <1>1, <1>5, <1>6 DEF ProcessBlockOrphan

\* AcceptBlock of a block that arrives or that the loop has found.
LEMMA StartInv ==
  ASSUME IInv, NEW b \in Blocks, b # Genesis, NEW me \in BOOLEAN, stage = "none",
         vWorkQueue # <<>> => b \in mapOrphanBlocks /\ Prev[b] = Head(vWorkQueue),
         AcceptBlock(b, me), UNCHANGED <<indexVars, syncVars, overtaken>>,
         asked' \in SUBSET Blocks, received' \in SUBSET Blocks
  PROVE  IInv' /\ hashSyncCheckpoint' = hashSyncCheckpoint
<1>1. UNCHANGED <<mapBlockIndex, hashBestChain, setStakeSeen, hashSyncCheckpoint,
                  hashPendingCheckpoint, overtaken>>
  BY DEF indexVars, syncVars
<1>2. TypeOK /\ CallInv /\ CheckInv /\ MapsInv /\ WaitInv
  BY DEF IInv
<1>3. CASE RefusesBlock(b)
  <2>1. AcceptReturns(b, FALSE, me)
    BY <1>3 DEF AcceptBlock
  <2>2. /\ pblock' = Nil /\ stage' = "none" /\ own' \in BOOLEAN
        /\ vWorkQueue' \in Seq(Blocks) /\ Queued(vWorkQueue') = Queued(vWorkQueue)
        /\ mapOrphanBlocks' \subseteq mapOrphanBlocks
        /\ mapOrphanBlocksByPrev' = mapOrphanBlocksByPrev
        /\ setStakeSeenOrphan' \subseteq setStakeSeenOrphan
        /\ MapsInv'
    BY <1>2, <2>1, ReturnsStep
  <2>3. TypeOK'
    BY <1>1, <1>2, <2>2 DEF TypeOK
  <2>4. CallInv' /\ CheckInv'
    BY <1>1, <1>2, <2>2 DEF CallInv, CheckInv, CheckpointOnBestChain
  <2>5. WaitInv'
    BY <1>1, <1>2, <2>2 DEF WaitInv
  <2> QED BY <1>1, <2>2, <2>3, <2>4, <2>5 DEF IInv
<1>4. CASE ~RefusesBlock(b)
  <2>1. /\ pblock' = b /\ stage' = "sync" /\ own' = me
        /\ UNCHANGED <<mapOrphanBlocks, mapOrphanBlocksByPrev, setStakeSeenOrphan, vWorkQueue>>
        /\ b \notin mapBlockIndex /\ Prev[b] \in mapBlockIndex
    BY <1>4 DEF AcceptBlock, orphanVars, RefusesBlock
  <2>2. TypeOK'
    BY <1>1, <1>2, <2>1 DEF TypeOK
  <2>3. CallInv' /\ CheckInv'
    BY <1>1, <1>2, <2>1 DEF CallInv, CheckInv, CheckpointOnBestChain
  <2>4. MapsInv' /\ WaitInv'
    BY <1>1, <1>2, <2>1 DEF MapsInv, WaitInv
  <2> QED BY <1>1, <2>2, <2>3, <2>4 DEF IInv
<1> QED BY <1>3, <1>4

LEMMA AcceptInv ==
  ASSUME IInv, NEW b \in Blocks \ {Genesis}, NEW me \in BOOLEAN, ProcessBlockAccept(b, me)
  PROVE  IInv' /\ hashSyncCheckpoint' = hashSyncCheckpoint
<1>1. /\ stage = "none" /\ vWorkQueue = <<>> /\ AcceptBlock(b, me)
      /\ UNCHANGED <<indexVars, syncVars, overtaken>>
      /\ received' = received \cup {b} /\ AskFor(b, me, PendingAsk)
  BY DEF ProcessBlockAccept, Arrives, Idle
<1>2. asked' \in SUBSET Blocks /\ received' \in SUBSET Blocks
  BY <1>1, PendingAskType DEF IInv, TypeOK, AskFor
<1> QED BY <1>1, <1>2, StartInv

LEMMA WaitingInv ==
  ASSUME IInv, NEW b \in Blocks, ProcessWaiting(b)
  PROVE  IInv' /\ hashSyncCheckpoint' = hashSyncCheckpoint
<1>1. /\ stage = "none" /\ b \in mapOrphanBlocks /\ Prev[b] = Head(vWorkQueue)
      /\ AcceptBlock(b, own) /\ UNCHANGED <<indexVars, syncVars, overtaken>>
      /\ asked' = asked /\ received' = received
  BY DEF ProcessWaiting, InLoop
<1>2. /\ b # Genesis /\ own \in BOOLEAN
      /\ asked' \in SUBSET Blocks /\ received' \in SUBSET Blocks
  BY <1>1 DEF IInv, TypeOK, MapsInv
<1> QED BY <1>1, <1>2, StartInv

LEMMA SyncInv ==
  ASSUME IInv, AcceptBlockSync
  PROVE  IInv' /\ hashSyncCheckpoint' = hashSyncCheckpoint
<1>1. /\ UNCHANGED <<mapBlockIndex, hashBestChain, setStakeSeen, hashSyncCheckpoint,
                     hashPendingCheckpoint, asked, received, overtaken>>
      /\ stage = "sync"
  BY DEF AcceptBlockSync, indexVars, syncVars
<1>2. TypeOK /\ CallInv /\ CheckInv /\ MapsInv /\ WaitInv
  BY DEF IInv
<1>3. /\ pblock \in Blocks /\ pblock # Genesis /\ pblock \notin mapBlockIndex
      /\ vWorkQueue # <<>> => pblock \in mapOrphanBlocks /\ Prev[pblock] = Head(vWorkQueue)
  BY <1>1, <1>2 DEF TypeOK, CallInv
<1>4. CASE CheckSync(pblock)
  <2>1. /\ stage' = "index"
        /\ UNCHANGED <<pblock, own, vWorkQueue, mapOrphanBlocks, mapOrphanBlocksByPrev,
                       setStakeSeenOrphan>>
    BY <1>4 DEF AcceptBlockSync, orphanVars
  <2>2. hashSyncCheckpoint \in Ancestors[pblock]
    <3>1. Height[pblock] \in Nat /\ Height[hashSyncCheckpoint] \in Nat
      BY <1>2, <1>3, TreeAssumption DEF TypeOK
    <3>2. hashSyncCheckpoint \in mapBlockIndex
      BY <1>2 DEF CheckInv
    <3>3. Height[pblock] > Height[hashSyncCheckpoint]
      BY <1>3, <1>4, <3>1, <3>2 DEF CheckSync
    <3>4. hashSyncCheckpoint \in Ancestors[Prev[pblock]]
      BY <1>4, <3>3 DEF CheckSync
    <3> QED BY <1>3, <3>4, AncestorsStep
  <2>3. TypeOK'
    BY <1>1, <1>2, <2>1 DEF TypeOK
  <2>4. CallInv' /\ CheckInv'
    BY <1>1, <1>2, <2>1, <2>2 DEF CallInv, CheckInv, CheckpointOnBestChain
  <2>5. MapsInv' /\ WaitInv'
    BY <1>1, <1>2, <2>1 DEF MapsInv, WaitInv
  <2> QED BY <1>1, <2>3, <2>4, <2>5 DEF IInv
<1>5. CASE ~CheckSync(pblock)
  <2>1. AcceptReturns(pblock, FALSE, own) /\ own \in BOOLEAN
    BY <1>2, <1>5 DEF AcceptBlockSync, TypeOK
  <2>2. /\ pblock' = Nil /\ stage' = "none" /\ own' \in BOOLEAN
        /\ vWorkQueue' \in Seq(Blocks) /\ Queued(vWorkQueue') = Queued(vWorkQueue)
        /\ mapOrphanBlocks' \subseteq mapOrphanBlocks
        /\ mapOrphanBlocksByPrev' = mapOrphanBlocksByPrev
        /\ setStakeSeenOrphan' \subseteq setStakeSeenOrphan
        /\ MapsInv'
    BY <1>2, <1>3, <2>1, ReturnsStep
  <2>3. TypeOK'
    BY <1>1, <1>2, <2>2 DEF TypeOK
  <2>4. CallInv' /\ CheckInv'
    BY <1>1, <1>2, <2>2 DEF CallInv, CheckInv, CheckpointOnBestChain
  <2>5. WaitInv'
    BY <1>1, <1>2, <2>2 DEF WaitInv
  <2> QED BY <1>1, <2>2, <2>3, <2>4, <2>5 DEF IInv
<1> QED BY <1>4, <1>5

LEMMA IndexInv ==
  ASSUME IInv, AddToBlockIndex
  PROVE  IInv' /\ hashSyncCheckpoint' = hashSyncCheckpoint
<1>1. /\ UNCHANGED <<hashSyncCheckpoint, hashPendingCheckpoint, asked, received, overtaken>>
      /\ stage = "index" /\ mapBlockIndex' = mapBlockIndex \cup {pblock}
      /\ setStakeSeen' = StakesWith(setStakeSeen, pblock)
  BY DEF AddToBlockIndex, syncVars
<1>2. TypeOK /\ CallInv /\ CheckInv /\ MapsInv /\ WaitInv
  BY DEF IInv
<1>3. /\ pblock \in Blocks /\ pblock # Genesis /\ Prev[pblock] \in mapBlockIndex
      /\ vWorkQueue # <<>> => pblock \in mapOrphanBlocks /\ Prev[pblock] = Head(vWorkQueue)
  BY <1>1, <1>2 DEF TypeOK, CallInv
<1>4. setStakeSeen' \in SUBSET Stakes /\ mapBlockIndex' \in SUBSET Blocks
  BY <1>1, <1>2, <1>3 DEF TypeOK, StakesWith, Stakes
<1>5. CASE NotConnected(pblock)
  <2>1. AcceptReturns(pblock, FALSE, own) /\ own \in BOOLEAN /\ hashBestChain' = hashBestChain
    BY <1>2, <1>5 DEF AddToBlockIndex, TypeOK
  <2>2. /\ pblock' = Nil /\ stage' = "none" /\ own' \in BOOLEAN
        /\ vWorkQueue' \in Seq(Blocks) /\ Queued(vWorkQueue') = Queued(vWorkQueue)
        /\ mapOrphanBlocks' \subseteq mapOrphanBlocks
        /\ mapOrphanBlocksByPrev' = mapOrphanBlocksByPrev
        /\ setStakeSeenOrphan' \subseteq setStakeSeenOrphan
        /\ MapsInv'
    BY <1>2, <1>3, <2>1, ReturnsStep
  <2>3. TypeOK'
    BY <1>1, <1>2, <1>4, <2>1, <2>2 DEF TypeOK
  <2>4. CallInv' /\ CheckInv'
    BY <1>1, <1>2, <2>1, <2>2 DEF CallInv, CheckInv, CheckpointOnBestChain
  <2>5. ~Connectable(pblock)
    BY <1>5 DEF NotConnected
  <2>6. WaitInv'
    <3> SUFFICES ASSUME NEW o \in mapOrphanBlocks', Prev[o] \in mapBlockIndex',
                        Connectable(Prev[o])
                 PROVE  Prev[o] \in Queued(vWorkQueue')
      BY DEF WaitInv, Connectable
    <3>1. Prev[o] \in mapBlockIndex
      BY <1>1, <2>5
    <3> QED BY <1>1, <1>2, <2>2, <3>1 DEF WaitInv
  <2> QED BY <1>1, <2>2, <2>3, <2>4, <2>6 DEF IInv
<1>6. CASE ~NotConnected(pblock)
  <2>1. /\ hashBestChain' = IF ChainTrust[pblock] > ChainTrust[hashBestChain]
                            THEN pblock ELSE hashBestChain
        /\ stage' = "pending"
        /\ UNCHANGED <<pblock, own, vWorkQueue, mapOrphanBlocks, mapOrphanBlocksByPrev,
                       setStakeSeenOrphan>>
    BY <1>6 DEF AddToBlockIndex, orphanVars
  <2>2. TypeOK'
    BY <1>1, <1>2, <1>3, <1>4, <2>1 DEF TypeOK
  <2>3. CallInv'
    BY <1>1, <1>2, <1>3, <2>1 DEF CallInv
  <2>4. CheckInv'
    BY <1>1, <1>2, <2>1 DEF CheckInv, CheckpointOnBestChain
  <2>5. MapsInv' /\ WaitInv'
    BY <1>1, <1>2, <2>1 DEF MapsInv, WaitInv
  <2> QED BY <1>1, <2>2, <2>3, <2>4, <2>5 DEF IInv
<1> QED BY <1>5, <1>6

LEMMA PendingInv ==
  ASSUME IInv, AcceptBlockPending
  PROVE  IInv' /\ hashSyncCheckpoint \in Ancestors[hashSyncCheckpoint']
<1>1. /\ UNCHANGED <<mapBlockIndex, setStakeSeen, asked, received, overtaken>>
      /\ stage = "pending" /\ AcceptPendingSyncCheckpoint /\ AcceptReturns(pblock, TRUE, own)
  BY DEF AcceptBlockPending
<1>2. TypeOK /\ CallInv /\ CheckInv /\ MapsInv /\ WaitInv /\ own \in BOOLEAN
  BY DEF IInv, TypeOK
<1>3. /\ pblock \in Blocks
      /\ vWorkQueue # <<>> => pblock \in mapOrphanBlocks /\ Prev[pblock] = Head(vWorkQueue)
  BY <1>1, <1>2 DEF TypeOK, CallInv
<1>4. /\ pblock' = Nil /\ stage' = "none" /\ own' \in BOOLEAN
      /\ vWorkQueue' \in Seq(Blocks) /\ Queued(vWorkQueue') = Queued(vWorkQueue) \cup {pblock}
      /\ mapOrphanBlocks' \subseteq mapOrphanBlocks
      /\ mapOrphanBlocksByPrev' = mapOrphanBlocksByPrev
      /\ setStakeSeenOrphan' \subseteq setStakeSeenOrphan
      /\ MapsInv'
  BY <1>1, <1>2, <1>3, ReturnsStep
<1>5. /\ hashBestChain' \in Blocks /\ hashSyncCheckpoint' \in mapBlockIndex
      /\ hashPendingCheckpoint' \in {hashPendingCheckpoint, Nil}
      /\ \/ hashSyncCheckpoint' \in Ancestors[hashBestChain']
         \/ hashSyncCheckpoint' = hashSyncCheckpoint /\ hashBestChain' = hashBestChain
      /\ hashSyncCheckpoint \in Ancestors[hashSyncCheckpoint']
  <2> DEFINE c == hashPendingCheckpoint
  <2>1. CASE c \in mapBlockIndex /\ ValidateSyncCheckpoint(c) /\ SetCheckpoint(c)
    <3>1. c \in Blocks /\ hashSyncCheckpoint \in Ancestors[c]
          /\ hashSyncCheckpoint \in mapBlockIndex
      BY <1>2, <2>1 DEF ValidateSyncCheckpoint, TypeOK
    <3> QED BY <1>2, <2>1, <3>1, SetCheckpointStep
  <2>2. CASE hashBestChain' = hashBestChain /\ hashSyncCheckpoint' = hashSyncCheckpoint
             /\ hashPendingCheckpoint' \in {c, Nil}
    BY <1>2, <2>2, AncestorsSelf DEF TypeOK, CheckInv
  <2> QED BY <1>1, <2>1, <2>2 DEF AcceptPendingSyncCheckpoint, syncVars
<1>6. TypeOK'
  BY <1>1, <1>2, <1>4, <1>5 DEF TypeOK
<1>7. CallInv' /\ CheckInv'
  BY <1>1, <1>2, <1>4, <1>5 DEF CallInv, CheckInv, CheckpointOnBestChain
<1>8. WaitInv'
  BY <1>1, <1>2, <1>4 DEF WaitInv
<1> QED BY <1>4, <1>5, <1>6, <1>7, <1>8 DEF IInv

LEMMA ProcessedInv ==
  ASSUME IInv, ProcessedAll
  PROVE  IInv' /\ hashSyncCheckpoint' = hashSyncCheckpoint
<1>1. /\ UNCHANGED <<mapBlockIndex, hashBestChain, setStakeSeen, mapOrphanBlocks,
                     setStakeSeenOrphan, hashSyncCheckpoint, hashPendingCheckpoint,
                     pblock, stage, asked, received, overtaken>>
      /\ stage = "none" /\ vWorkQueue # <<>> /\ vWorkQueue' = Tail(vWorkQueue)
      /\ own' \in BOOLEAN
      /\ \A b \in mapOrphanBlocks : Prev[b] # Head(vWorkQueue)
      /\ mapOrphanBlocksByPrev' = {b \in mapOrphanBlocksByPrev : Prev[b] # Head(vWorkQueue)}
  BY DEF ProcessedAll, InLoop, indexVars, syncVars
<1>2. TypeOK /\ CallInv /\ CheckInv /\ MapsInv /\ WaitInv
  BY DEF IInv
<1>3. /\ vWorkQueue' \in Seq(Blocks)
      /\ Queued(vWorkQueue) = {Head(vWorkQueue)} \cup Queued(vWorkQueue')
  BY <1>1, <1>2, QueuedFacts, TreeAssumption DEF TypeOK
<1>4. TypeOK'
  BY <1>1, <1>2, <1>3 DEF TypeOK
<1>5. MapsInv'
  BY <1>1, <1>2 DEF MapsInv
<1>6. WaitInv'
  BY <1>1, <1>2, <1>3 DEF WaitInv
<1>7. CallInv' /\ CheckInv'
  BY <1>1, <1>2 DEF CallInv, CheckInv, CheckpointOnBestChain
<1> QED BY <1>1, <1>4, <1>5, <1>6, <1>7 DEF IInv

LEMMA CheckpointMessageInv ==
  ASSUME IInv, NEW c \in Blocks, ProcessSyncCheckpoint(c)
  PROVE  IInv' /\ hashSyncCheckpoint \in Ancestors[hashSyncCheckpoint']
<1>1. /\ UNCHANGED <<mapBlockIndex, setStakeSeen, mapOrphanBlocks, mapOrphanBlocksByPrev,
                     setStakeSeenOrphan, pblock, stage, own, vWorkQueue, received>>
      /\ overtaken' \in BOOLEAN
  BY DEF ProcessSyncCheckpoint, orphanVars, callVars
<1>2. TypeOK /\ CallInv /\ CheckInv /\ MapsInv /\ WaitInv
      /\ hashSyncCheckpoint \in Ancestors[hashSyncCheckpoint]
  BY AncestorsSelf DEF IInv, TypeOK
<1>3. CallInv' /\ MapsInv' /\ WaitInv'
  BY <1>1, <1>2 DEF CallInv, MapsInv, WaitInv
<1>4. ~overtaken' => ~overtaken /\ (stage = "index" => hashSyncCheckpoint' \in Ancestors[pblock])
  BY DEF ProcessSyncCheckpoint
<1>5. /\ hashBestChain' \in Blocks /\ hashSyncCheckpoint' \in mapBlockIndex
      /\ hashPendingCheckpoint' \in Blocks \cup {Nil} /\ asked' \in SUBSET Blocks
      /\ \/ hashSyncCheckpoint' \in Ancestors[hashBestChain']
         \/ hashSyncCheckpoint' = hashSyncCheckpoint /\ hashBestChain' = hashBestChain
      /\ hashSyncCheckpoint \in Ancestors[hashSyncCheckpoint']
  <2>1. CASE c \notin mapBlockIndex
    <3>1. /\ hashPendingCheckpoint' = c
          /\ asked' = asked \cup
               {IF c \in mapOrphanBlocks THEN WantedByOrphan(mapOrphanBlocks, c) ELSE c}
          /\ UNCHANGED <<hashBestChain, hashSyncCheckpoint>>
      BY <2>1 DEF ProcessSyncCheckpoint
    <3>2. c \in mapOrphanBlocks => WantedByOrphan(mapOrphanBlocks, c) \in Blocks
      BY <1>2, WantedExists DEF MapsInv
    <3> QED BY <1>2, <3>1, <3>2 DEF TypeOK, CheckInv
  <2>2. CASE c \in mapBlockIndex /\ ValidateSyncCheckpoint(c)
    <3>1. SetCheckpoint(c) /\ asked' = asked
      BY <2>2 DEF ProcessSyncCheckpoint
    <3>2. hashSyncCheckpoint \in Ancestors[c] /\ hashSyncCheckpoint \in mapBlockIndex
      BY <2>2 DEF ValidateSyncCheckpoint
    <3>3. asked' \in SUBSET Blocks /\ hashPendingCheckpoint \in Blocks \cup {Nil}
      BY <1>2, <3>1 DEF TypeOK
    <3> QED BY <1>2, <2>2, <3>1, <3>2, <3>3, SetCheckpointStep
  <2>3. CASE c \in mapBlockIndex /\ ~ValidateSyncCheckpoint(c)
    <3>1. UNCHANGED <<hashBestChain, hashSyncCheckpoint, hashPendingCheckpoint, asked>>
      BY <2>3 DEF ProcessSyncCheckpoint, syncVars
    <3> QED BY <1>2, <3>1 DEF TypeOK, CheckInv
  <2> QED BY <2>1, <2>2, <2>3
<1>6. TypeOK'
  BY <1>1, <1>2, <1>5 DEF TypeOK
<1>7. CheckInv'
  BY <1>1, <1>2, <1>4, <1>5 DEF CheckInv, CheckpointOnBestChain
<1> QED BY <1>3, <1>5, <1>6, <1>7 DEF IInv

LEMMA RestartInv ==
  ASSUME IInv, Restart
  PROVE  IInv' /\ hashSyncCheckpoint' = hashSyncCheckpoint
<1>1. /\ UNCHANGED <<mapBlockIndex, hashBestChain, setStakeSeen, hashSyncCheckpoint, overtaken>>
      /\ mapOrphanBlocks' = {} /\ mapOrphanBlocksByPrev' = {} /\ setStakeSeenOrphan' = {}
      /\ hashPendingCheckpoint' = Nil /\ vWorkQueue' = <<>> /\ asked' = {}
      /\ received' = mapBlockIndex /\ pblock' = Nil /\ stage' = "none"
  BY DEF Restart, indexVars
<1>2. own' \in BOOLEAN
  BY DEF Restart
<1>3. TypeOK'
  BY <1>1, <1>2 DEF IInv, TypeOK
<1> QED BY <1>1, <1>3
        DEF IInv, CallInv, CheckInv, CheckpointOnBestChain, MapsInv, WaitInv

LEMMA ArrivalNext ==
  ASSUME IInv, [Next]_vars
  PROVE  IInv' /\ hashSyncCheckpoint \in Ancestors[hashSyncCheckpoint']
<1>1. hashSyncCheckpoint \in Ancestors[hashSyncCheckpoint]
  BY AncestorsSelf DEF IInv, TypeOK
<1>2. ASSUME NEW b \in Blocks \ {Genesis}, NEW me \in BOOLEAN, ProcessBlock(b, me)
      PROVE  IInv' /\ hashSyncCheckpoint \in Ancestors[hashSyncCheckpoint']
  BY <1>1, <1>2, RejectInv, OrphanInv, AcceptInv DEF ProcessBlock
<1>3. CASE Call
  BY <1>1, <1>3, SyncInv, IndexInv, PendingInv, WaitingInv, ProcessedInv DEF Call
<1>4. ASSUME NEW c \in Blocks, ProcessSyncCheckpoint(c)
      PROVE  IInv' /\ hashSyncCheckpoint \in Ancestors[hashSyncCheckpoint']
  BY <1>4, CheckpointMessageInv
<1>5. CASE Restart
  BY <1>1, <1>5, RestartInv
<1>6. CASE UNCHANGED vars
  <2>1. UNCHANGED <<mapBlockIndex, hashBestChain, setStakeSeen, mapOrphanBlocks,
                    mapOrphanBlocksByPrev, setStakeSeenOrphan, hashSyncCheckpoint,
                    hashPendingCheckpoint, pblock, stage, own, vWorkQueue, asked, received,
                    overtaken>>
    BY <1>6 DEF vars, indexVars, orphanVars, syncVars, callVars
  <2>2. TypeOK'
    BY <2>1 DEF IInv, TypeOK
  <2> QED BY <1>1, <2>1, <2>2
          DEF IInv, CallInv, CheckInv, CheckpointOnBestChain, MapsInv, WaitInv
<1> QED BY <1>2, <1>3, <1>4, <1>5, <1>6 DEF Next

\* The maps, sets and queue of block arrival keep their types; in particular
\* what WantedByOrphan looks for always exists, so its loop over the holding
\* area ends at a block.
THEOREM ArrivalTypes == Spec => []TypeOK
<1>1. IInv /\ [Next]_vars => IInv'
  BY ArrivalNext
<1>2. IInv => TypeOK
  BY DEF IInv
<1> QED BY <1>1, <1>2, ArrivalInit, PTL DEF Spec

\* Between calls of ProcessBlock the two maps of the holding area agree, and no
\* block waits in it for a parent that is indexed and connects, whatever blocks,
\* checkpoints and restarts come in whatever order.
THEOREM HoldingAreaSafe == Spec => [](OrphanMapsAgree /\ OrphansWait)
<1>1. IInv /\ [Next]_vars => IInv'
  BY ArrivalNext
<1>2. IInv => OrphanMapsAgree /\ OrphansWait
  <2> SUFFICES ASSUME IInv, Idle
               PROVE  /\ mapOrphanBlocks = mapOrphanBlocksByPrev
                      /\ \A b \in mapOrphanBlocks :
                           Prev[b] \notin mapBlockIndex \/ ~Connectable(Prev[b])
    BY DEF OrphanMapsAgree, OrphansWait
  <2>1. Queued(vWorkQueue) = {} /\ stage = "none"
    BY DEF Idle, Queued
  <2> QED BY <2>1, IdleMaps DEF IInv, WaitInv
<1> QED BY <1>1, <1>2, ArrivalInit, PTL DEF Spec

\* The synchronized checkpoint only ever moves to a descendant, and it is on
\* the best chain unless it was written between CheckSync and AddToBlockIndex
\* of a block of another branch.
THEOREM CheckpointSafe == Spec => []CheckpointOnBestChain /\ CheckpointAdvances
<1>1. IInv /\ [Next]_vars => IInv'
  BY ArrivalNext
<1>2. IInv => CheckpointOnBestChain
  BY DEF IInv, CheckInv
<1>3. IInv /\ [Next]_vars => [(hashSyncCheckpoint \in Ancestors[hashSyncCheckpoint'])]_vars
  BY ArrivalNext
<1> QED BY <1>1, <1>2, <1>3, ArrivalInit, PTL DEF Spec, CheckpointAdvances

\* A node that hands in no blocks of its own is never overtaken: its message
\* thread is the only one in ProcessBlock.
THEOREM CheckpointKept ==
  Own = {} => (Spec => [](hashSyncCheckpoint \in Ancestors[hashBestChain]))
<1> SUFFICES ASSUME Own = {}
             PROVE  Spec => [](hashSyncCheckpoint \in Ancestors[hashBestChain])
  OBVIOUS
<1> DEFINE Alone == ~own /\ ~overtaken
           Inv == IInv /\ Alone
<1>1. Init => Alone
  BY DEF Init
<1>2. Alone /\ [Next]_vars => Alone'
  <2> SUFFICES ASSUME Alone, [Next]_vars PROVE Alone'
    OBVIOUS
  <2>1. ASSUME NEW b, NEW me, ~me, AcceptBlock(b, me) PROVE ~own'
    BY <2>1 DEF AcceptBlock, AcceptReturns
  <2>2. ASSUME NEW b \in Blocks \ {Genesis}, NEW me \in BOOLEAN, ProcessBlock(b, me)
        PROVE  Alone'
    <3>1. ~me
      BY <2>2 DEF ProcessBlock, ProcessBlockReject, ProcessBlockOrphan, ProcessBlockAccept,
                  Arrives
    <3> QED BY <2>1, <2>2, <3>1
            DEF ProcessBlock, ProcessBlockReject, ProcessBlockOrphan, ProcessBlockAccept,
                callVars
  <2>3. ASSUME NEW b \in Blocks, ProcessWaiting(b) PROVE Alone'
    BY <2>1, <2>3 DEF ProcessWaiting
  <2>4. CASE AcceptBlockSync
    BY <2>4 DEF AcceptBlockSync, AcceptReturns
  <2>5. CASE AddToBlockIndex
    BY <2>5 DEF AddToBlockIndex, AcceptReturns
  <2>6. CASE AcceptBlockPending
    BY <2>6 DEF AcceptBlockPending, AcceptReturns
  <2>7. CASE ProcessedAll
    BY <2>7 DEF ProcessedAll
  <2>8. ASSUME NEW c \in Blocks, ProcessSyncCheckpoint(c) PROVE Alone'
    BY <2>8 DEF ProcessSyncCheckpoint, Idle, callVars
  <2>9. CASE Restart
    BY <2>9 DEF Restart
  <2>10. CASE UNCHANGED vars
    BY <2>10 DEF vars, callVars
  <2> QED BY <2>2, <2>3, <2>4, <2>5, <2>6, <2>7, <2>8, <2>9, <2>10 DEF Next, Call
<1>3. IInv /\ [Next]_vars => IInv'
  BY ArrivalNext
<1>4. Inv => hashSyncCheckpoint \in Ancestors[hashBestChain]
  BY DEF IInv, CheckInv, CheckpointOnBestChain
<1> QED BY <1>1, <1>2, <1>3, <1>4, ArrivalInit, PTL DEF Spec

-----------------------------------------------------------------------------
(***************************************************************************)
(* The order of arrival, where there are no checkpoints.                   *)
(***************************************************************************)

\* Every seen stake is that of a block we have, no indexed block that connects
\* has more trust than the tip, and a block with nothing against it is indexed,
\* held or in AcceptBlock.
OrderInv ==
  /\ hashSyncCheckpoint = Genesis /\ hashPendingCheckpoint = Nil
  /\ Genesis \in mapBlockIndex /\ hashBestChain \in mapBlockIndex
  /\ \A x \in mapBlockIndex \ {Genesis} : Prev[x] \in mapBlockIndex
  /\ \A x \in mapBlockIndex : Connectable(x) => ChainTrust[x] <= ChainTrust[hashBestChain]
  /\ mapBlockIndex \cup mapOrphanBlocks \subseteq received
  /\ stage # "none" => pblock \in received
  /\ Queued(vWorkQueue) \subseteq mapBlockIndex
  /\ \A s \in setStakeSeen : \E c \in mapBlockIndex : Stake[c] = s
  /\ \A s \in setStakeSeenOrphan : \E c \in mapOrphanBlocks : Stake[c] = s
  /\ \A b \in received \ {Genesis} :
       Fit(b) => b \in mapBlockIndex \cup mapOrphanBlocks \cup {pblock}

\* What more arrives only ever takes fitness from a block.
LEMMA FitShrinks ==
  ASSUME received \subseteq received', mapBlockIndex \subseteq mapBlockIndex'
  PROVE  \A x : Fit(x)' => Fit(x)
BY DEF Fit, OwnStake, KernelSettled, Connectable, Related

\* The ancestors of an indexed block are indexed.
LEMMA IndexClosed ==
  ASSUME TypeOK, OrderInv, NEW x \in mapBlockIndex
  PROVE  Ancestors[x] \subseteq mapBlockIndex
BY AncestorsInduction DEF TypeOK, OrderInv

\* The kernel of a fit block is on the best chain: it is indexed and connects,
\* so it has no more trust than the tip and cannot be above it.
LEMMA FitPasses ==
  ASSUME TypeOK, OrderInv, NEW b \in Blocks, b # Genesis, Fit(b),
         b \notin mapBlockIndex, Prev[b] \in mapBlockIndex
  PROVE  ~RefusesBlock(b)
<1>1. b \notin Refused
  BY DEF Fit
<1>2. ASSUME Kernel[b] # Nil PROVE Kernel[b] \in Ancestors[hashBestChain]
  <2> DEFINE k == Kernel[b]
  <2>1. k \in Ancestors[Prev[b]] /\ Related(k, hashBestChain) /\ Connectable(Prev[b])
    BY <1>2 DEF Fit, KernelSettled, OrderInv
  <2>2. Prev[b] \in Blocks /\ hashBestChain \in Blocks
    BY DEF TypeOK
  <2>3. k \in Blocks /\ Ancestors[k] \subseteq Ancestors[Prev[b]] /\ k \in mapBlockIndex
    BY <2>1, <2>2, AncestorsTransitive, IndexClosed
  <2>4. ChainTrust[k] <= ChainTrust[hashBestChain]
    BY <2>1, <2>3 DEF Connectable, OrderInv
  <2>5. CASE hashBestChain \in Ancestors[k] /\ hashBestChain # k
    <3>1. ChainTrust[hashBestChain] < ChainTrust[k]
      BY <2>3, <2>5, AncestorsBelow
    <3>2. ChainTrust[hashBestChain] \in Nat /\ ChainTrust[k] \in Nat
      BY <2>2, <2>3, TreeAssumption
    <3> QED BY <2>4, <3>1, <3>2
  <2> QED BY <2>1, <2>2, <2>5, AncestorsSelf DEF Related
<1> QED BY <1>1, <1>2 DEF RefusesBlock, CheckProofOfStake

\* A block with a stake we have seen is not the first of that stake.
LEMMA SeenStake ==
  ASSUME TypeOK, OrderInv, NEW b \in Blocks,
         b \notin mapBlockIndex \cup mapOrphanBlocks,
         Stake[b] \in setStakeSeen \cup setStakeSeenOrphan,
         received' = received \cup {b}
  PROVE  ~Fit(b)'
<1>1. PICK c \in mapBlockIndex \cup mapOrphanBlocks : Stake[c] = Stake[b]
  BY DEF OrderInv
<1>2. Stake[b] # Nil
  BY DEF TypeOK, Stakes
<1>3. c \in received' \ {b}
  BY <1>1 DEF OrderInv
<1> QED BY <1>1, <1>2, <1>3 DEF Fit, OwnStake

LEMMA OrderReject ==
  ASSUME IInv, OrderInv, NEW b \in Blocks \ {Genesis}, NEW me \in BOOLEAN,
         ProcessBlockReject(b, me)
  PROVE  OrderInv'
<1>1. /\ UNCHANGED <<mapBlockIndex, hashBestChain, setStakeSeen, mapOrphanBlocks,
                     setStakeSeenOrphan, hashSyncCheckpoint, hashPendingCheckpoint,
                     pblock, stage, vWorkQueue>>
      /\ received' = received \cup {b} /\ TurnsAway(b)
  BY DEF ProcessBlockReject, Arrives, indexVars, orphanVars, syncVars, callVars
<1>2. \A x : Fit(x)' => Fit(x)
  BY <1>1, FitShrinks
<1>3. Fit(b)' => b \in mapBlockIndex \cup mapOrphanBlocks
  <2> SUFFICES ASSUME Fit(b)', b \notin mapBlockIndex \cup mapOrphanBlocks PROVE FALSE
    OBVIOUS
  <2>1. b \notin Unsound \cup TooLittle
    BY DEF Fit
  <2>2. Stake[b] \in setStakeSeen
    BY <1>1, <2>1 DEF TurnsAway, CheckBlock, EnoughWork
  <2> QED BY <1>1, <2>2, SeenStake DEF IInv
<1>4. \A x \in received' \ {Genesis} :
        Fit(x)' => x \in mapBlockIndex' \cup mapOrphanBlocks' \cup {pblock'}
  BY <1>1, <1>2, <1>3 DEF OrderInv
<1> QED BY <1>1, <1>4 DEF OrderInv, Connectable

LEMMA OrderOrphan ==
  ASSUME IInv, OrderInv, NEW b \in Blocks \ {Genesis}, NEW me \in BOOLEAN,
         ProcessBlockOrphan(b, me)
  PROVE  OrderInv'
<1>1. /\ UNCHANGED <<mapBlockIndex, hashBestChain, setStakeSeen, hashSyncCheckpoint,
                     hashPendingCheckpoint, pblock, stage, vWorkQueue>>
      /\ received' = received \cup {b} /\ b \notin mapBlockIndex \cup mapOrphanBlocks
  BY DEF ProcessBlockOrphan, Arrives, TurnsAway, indexVars, syncVars, callVars
<1>2. \A x : Fit(x)' => Fit(x)
  BY <1>1, FitShrinks
<1>3. CASE UNCHANGED orphanVars /\ Stake[b] \in setStakeSeenOrphan
  <2>1. UNCHANGED <<mapOrphanBlocks, setStakeSeenOrphan>>
    BY <1>3 DEF orphanVars
  <2>2. ~Fit(b)'
    BY <1>1, <1>3, SeenStake DEF IInv
  <2>3. \A x \in received' \ {Genesis} :
          Fit(x)' => x \in mapBlockIndex' \cup mapOrphanBlocks' \cup {pblock'}
    BY <1>1, <1>2, <2>1, <2>2 DEF OrderInv
  <2> QED BY <1>1, <2>1, <2>3 DEF OrderInv, Connectable
<1>4. CASE /\ setStakeSeenOrphan' = StakesWith(setStakeSeenOrphan, b)
           /\ mapOrphanBlocks' = mapOrphanBlocks \cup {b}
  <2>1. \A s \in setStakeSeenOrphan' : \E c \in mapOrphanBlocks' : Stake[c] = s
    BY <1>4 DEF StakesWith, OrderInv
  <2>2. \A x \in received' \ {Genesis} :
          Fit(x)' => x \in mapBlockIndex' \cup mapOrphanBlocks' \cup {pblock'}
    BY <1>1, <1>2, <1>4 DEF OrderInv
  <2> QED BY <1>1, <1>4, <2>1, <2>2 DEF OrderInv, Connectable
<1> QED BY <1>3, <1>4 DEF ProcessBlockOrphan

\* What is left to show when AcceptBlock of b returns: b is indexed, or has
\* something against it.
LEMMA OrderReturns ==
  ASSUME IInv, OrderInv, NEW b \in Blocks, NEW ok \in BOOLEAN, NEW me \in BOOLEAN,
         vWorkQueue # <<>> => b \in mapOrphanBlocks /\ Prev[b] = Head(vWorkQueue),
         AcceptReturns(b, ok, me), UNCHANGED syncVars,
         stage = "none" \/ pblock = b,
         received' = received \cup {b}, ok => b \in mapBlockIndex',
         mapBlockIndex \subseteq mapBlockIndex', mapBlockIndex' \subseteq mapBlockIndex \cup {b},
         b \in mapBlockIndex' \/ ~Fit(b)',
         hashBestChain' \in mapBlockIndex',
         \A x \in mapBlockIndex' \ {Genesis} : Prev[x] \in mapBlockIndex',
         \A x \in mapBlockIndex' :
           Connectable(x) => ChainTrust[x] <= ChainTrust[hashBestChain'],
         \A s \in setStakeSeen' : \E c \in mapBlockIndex' : Stake[c] = s
  PROVE  OrderInv'
<1>1. /\ pblock' = Nil /\ stage' = "none"
      /\ ok => Queued(vWorkQueue') = Queued(vWorkQueue) \cup {b}
      /\ ~ok => Queued(vWorkQueue') = Queued(vWorkQueue)
      /\ mapOrphanBlocks' \subseteq mapOrphanBlocks
      /\ mapOrphanBlocks \subseteq mapOrphanBlocks' \cup {b}
      /\ setStakeSeenOrphan' \subseteq setStakeSeenOrphan
      /\ mapOrphanBlocks' # mapOrphanBlocks => Stake[b] \notin setStakeSeenOrphan'
  BY ReturnsStep DEF IInv
<1>2. \A x : Fit(x)' => Fit(x)
  BY FitShrinks
<1>3. Queued(vWorkQueue') \subseteq mapBlockIndex'
  BY <1>1 DEF OrderInv
<1>4. \A s \in setStakeSeenOrphan' : \E c \in mapOrphanBlocks' : Stake[c] = s
  BY <1>1 DEF OrderInv
<1>5. \A x \in received' \ {Genesis} :
        Fit(x)' => x \in mapBlockIndex' \cup mapOrphanBlocks' \cup {pblock'}
  <2> SUFFICES ASSUME NEW x \in received' \ {Genesis}, Fit(x)', x # b
               PROVE  x \in mapBlockIndex' \cup mapOrphanBlocks'
    OBVIOUS
  <2>1. x \in mapBlockIndex \cup mapOrphanBlocks \cup {pblock} /\ x \in received
    BY <1>2 DEF OrderInv
  <2>2. x \in Blocks /\ Nil \notin Blocks
    BY <2>1, TreeAssumption DEF IInv, TypeOK
  <2>3. x # pblock
    BY <2>2 DEF IInv, TypeOK
  <2> QED BY <1>1, <2>1, <2>3
<1> QED BY <1>1, <1>3, <1>4, <1>5 DEF OrderInv, Connectable, syncVars

LEMMA OrderStart ==
  ASSUME IInv, OrderInv, NEW b \in Blocks, b # Genesis, NEW me \in BOOLEAN, stage = "none",
         Prev[b] \in mapBlockIndex,
         vWorkQueue # <<>> => b \in mapOrphanBlocks /\ Prev[b] = Head(vWorkQueue),
         AcceptBlock(b, me), UNCHANGED <<indexVars, syncVars>>, received' = received \cup {b}
  PROVE  OrderInv'
<1>1. UNCHANGED <<mapBlockIndex, hashBestChain, setStakeSeen, hashSyncCheckpoint,
                  hashPendingCheckpoint>>
  BY DEF indexVars, syncVars
<1>2. \A x : Fit(x)' => Fit(x)
  BY <1>1, FitShrinks
<1>3. CASE RefusesBlock(b)
  <2>1. AcceptReturns(b, FALSE, me)
    BY <1>3 DEF AcceptBlock
  <2>2. b \in mapBlockIndex \/ ~Fit(b)'
    BY <1>2, <1>3, FitPasses DEF IInv
  <2>3. /\ hashBestChain' \in mapBlockIndex'
        /\ \A x \in mapBlockIndex' \ {Genesis} : Prev[x] \in mapBlockIndex'
        /\ \A x \in mapBlockIndex' :
             Connectable(x) => ChainTrust[x] <= ChainTrust[hashBestChain']
        /\ \A s \in setStakeSeen' : \E c \in mapBlockIndex' : Stake[c] = s
    BY <1>1 DEF OrderInv
  <2> QED BY <1>1, <2>1, <2>2, <2>3, OrderReturns DEF syncVars
<1>4. CASE ~RefusesBlock(b)
  <2>1. /\ pblock' = b /\ stage' = "sync"
        /\ UNCHANGED <<mapOrphanBlocks, setStakeSeenOrphan, vWorkQueue>>
    BY <1>4 DEF AcceptBlock, orphanVars
  <2>2. \A x \in received' \ {Genesis} :
          Fit(x)' => x \in mapBlockIndex' \cup mapOrphanBlocks' \cup {pblock'}
    <3> SUFFICES ASSUME NEW x \in received' \ {Genesis}, Fit(x)', x # b
                 PROVE  x \in mapBlockIndex' \cup mapOrphanBlocks'
      BY <2>1
    <3>1. x \in mapBlockIndex \cup mapOrphanBlocks \cup {pblock} /\ x \in received
      BY <1>2 DEF OrderInv
    <3>2. x # pblock
      BY <3>1, TreeAssumption DEF IInv, TypeOK
    <3> QED BY <1>1, <2>1, <3>1, <3>2
  <2> QED BY <1>1, <2>1, <2>2 DEF OrderInv, Connectable
<1> QED BY <1>3, <1>4

LEMMA OrderArrival ==
  ASSUME IInv, OrderInv, NEW b \in Blocks \ {Genesis}, NEW me \in BOOLEAN, ProcessBlock(b, me)
  PROVE  OrderInv'
<1>1. CASE ProcessBlockAccept(b, me)
  BY <1>1, OrderStart DEF ProcessBlockAccept, Arrives, Idle
<1> QED BY <1>1, OrderReject, OrderOrphan DEF ProcessBlock

LEMMA OrderWaiting ==
  ASSUME IInv, OrderInv, NEW b \in Blocks, ProcessWaiting(b)
  PROVE  OrderInv'
<1>1. /\ stage = "none" /\ vWorkQueue # <<>> /\ b \in mapOrphanBlocks
      /\ Prev[b] = Head(vWorkQueue) /\ AcceptBlock(b, own)
      /\ UNCHANGED <<indexVars, syncVars>> /\ received' = received
  BY DEF ProcessWaiting, InLoop
<1>2. b # Genesis /\ own \in BOOLEAN /\ vWorkQueue \in Seq(Blocks)
  BY <1>1 DEF IInv, TypeOK, MapsInv
<1>3. Prev[b] \in mapBlockIndex /\ received' = received \cup {b}
  BY <1>1, <1>2, QueuedFacts DEF OrderInv
<1> QED BY <1>1, <1>2, <1>3, OrderStart

\* Without checkpoints CheckSync refuses nothing.
LEMMA OrderSync ==
  ASSUME IInv, OrderInv, AcceptBlockSync
  PROVE  OrderInv'
<1>1. pblock \in Blocks /\ pblock # Genesis /\ stage = "sync"
  BY DEF AcceptBlockSync, IInv, TypeOK, CallInv
<1>2. CheckSync(pblock)
  <2>1. /\ Genesis \in Ancestors[pblock] /\ Prev[pblock] \in Blocks
        /\ Genesis \in Ancestors[Prev[pblock]]
        /\ Height[Genesis] < Height[pblock]
        /\ Height[Genesis] \in Nat /\ Height[pblock] \in Nat
    BY <1>1, TreeAssumption, AncestorsBelow
  <2> QED BY <2>1 DEF CheckSync, OrderInv
<1>3. /\ UNCHANGED <<mapBlockIndex, hashBestChain, setStakeSeen, mapOrphanBlocks,
                     setStakeSeenOrphan, hashSyncCheckpoint, hashPendingCheckpoint,
                     pblock, vWorkQueue, received>>
      /\ stage' = "index"
  BY <1>2 DEF AcceptBlockSync, indexVars, orphanVars, syncVars
<1>4. \A x : Fit(x)' => Fit(x)
  BY <1>3, FitShrinks
<1> QED BY <1>1, <1>3, <1>4 DEF OrderInv, Connectable

LEMMA OrderIndex ==
  ASSUME IInv, OrderInv, AddToBlockIndex
  PROVE  OrderInv'
<1>1. /\ stage = "index" /\ mapBlockIndex' = mapBlockIndex \cup {pblock}
      /\ setStakeSeen' = StakesWith(setStakeSeen, pblock)
      /\ UNCHANGED syncVars /\ received' = received
  BY DEF AddToBlockIndex
<1>2. /\ TypeOK /\ pblock \in Blocks /\ pblock # Genesis /\ Prev[pblock] \in mapBlockIndex
      /\ vWorkQueue # <<>> => pblock \in mapOrphanBlocks /\ Prev[pblock] = Head(vWorkQueue)
      /\ pblock \in received /\ own \in BOOLEAN
  BY <1>1 DEF IInv, TypeOK, CallInv, OrderInv
<1>3. \A x \in mapBlockIndex' \ {Genesis} : Prev[x] \in mapBlockIndex'
  BY <1>1, <1>2 DEF OrderInv
<1>4. \A s \in setStakeSeen' : \E c \in mapBlockIndex' : Stake[c] = s
  BY <1>1 DEF StakesWith, OrderInv
<1>5. /\ ChainTrust[pblock] \in Nat /\ ChainTrust[hashBestChain] \in Nat
      /\ \A x \in mapBlockIndex : ChainTrust[x] \in Nat
  BY <1>2, TreeAssumption DEF TypeOK
<1>6. CASE NotConnected(pblock)
  <2>1. AcceptReturns(pblock, FALSE, own) /\ hashBestChain' = hashBestChain
    BY <1>6 DEF AddToBlockIndex
  <2>2. /\ hashBestChain' \in mapBlockIndex'
        /\ \A x \in mapBlockIndex' :
             Connectable(x) => ChainTrust[x] <= ChainTrust[hashBestChain']
    BY <1>1, <1>6, <2>1 DEF NotConnected, OrderInv
  <2>3. /\ mapBlockIndex \subseteq mapBlockIndex' /\ pblock \in mapBlockIndex'
        /\ mapBlockIndex' \subseteq mapBlockIndex \cup {pblock}
        /\ received' = received \cup {pblock}
    BY <1>1, <1>2
  <2> QED BY <1>1, <1>2, <1>3, <1>4, <2>1, <2>2, <2>3, OrderReturns
<1>7. CASE ~NotConnected(pblock)
  <2>1. /\ hashBestChain' = IF ChainTrust[pblock] > ChainTrust[hashBestChain]
                            THEN pblock ELSE hashBestChain
        /\ stage' = "pending"
        /\ UNCHANGED <<pblock, vWorkQueue, mapOrphanBlocks, setStakeSeenOrphan,
                       hashSyncCheckpoint, hashPendingCheckpoint>>
    BY <1>1, <1>7 DEF AddToBlockIndex, orphanVars, syncVars
  <2>2. /\ hashBestChain' \in mapBlockIndex'
        /\ \A x \in mapBlockIndex' :
             Connectable(x) => ChainTrust[x] <= ChainTrust[hashBestChain']
    BY <1>1, <1>5, <2>1 DEF OrderInv
  <2>3. \A x : Fit(x)' => Fit(x)
    BY <1>1, FitShrinks
  <2>4. \A x \in received' \ {Genesis} :
          Fit(x)' => x \in mapBlockIndex' \cup mapOrphanBlocks' \cup {pblock'}
    BY <1>1, <2>1, <2>3 DEF OrderInv
  <2> QED BY <1>1, <1>2, <1>3, <1>4, <2>1, <2>2, <2>4 DEF OrderInv, Connectable
<1> QED BY <1>6, <1>7

LEMMA OrderPending ==
  ASSUME IInv, OrderInv, AcceptBlockPending
  PROVE  OrderInv'
<1>1. /\ stage = "pending" /\ AcceptReturns(pblock, TRUE, own)
      /\ UNCHANGED <<mapBlockIndex, setStakeSeen, received>> /\ AcceptPendingSyncCheckpoint
  BY DEF AcceptBlockPending
<1>2. UNCHANGED <<hashBestChain, syncVars>>
  BY <1>1 DEF AcceptPendingSyncCheckpoint, OrderInv
<1>3. /\ pblock \in Blocks /\ pblock \in mapBlockIndex /\ own \in BOOLEAN
      /\ vWorkQueue # <<>> => pblock \in mapOrphanBlocks /\ Prev[pblock] = Head(vWorkQueue)
      /\ pblock \in received
  BY <1>1 DEF IInv, TypeOK, CallInv, OrderInv
<1>4. /\ hashBestChain' \in mapBlockIndex'
      /\ \A x \in mapBlockIndex' \ {Genesis} : Prev[x] \in mapBlockIndex'
      /\ \A x \in mapBlockIndex' :
           Connectable(x) => ChainTrust[x] <= ChainTrust[hashBestChain']
      /\ \A s \in setStakeSeen' : \E c \in mapBlockIndex' : Stake[c] = s
      /\ received' = received \cup {pblock}
  BY <1>1, <1>2, <1>3 DEF OrderInv
<1> QED BY <1>1, <1>2, <1>3, <1>4, OrderReturns

LEMMA OrderNext ==
  ASSUME Checkpoints = {}, IInv, OrderInv, [Next]_vars
  PROVE  OrderInv'
<1>1. ASSUME ProcessedAll PROVE OrderInv'
  <2>1. /\ UNCHANGED <<mapBlockIndex, hashBestChain, setStakeSeen, mapOrphanBlocks,
                       setStakeSeenOrphan, hashSyncCheckpoint, hashPendingCheckpoint,
                       pblock, stage, received>>
        /\ vWorkQueue # <<>> /\ vWorkQueue' = Tail(vWorkQueue) /\ vWorkQueue \in Seq(Blocks)
    BY <1>1 DEF ProcessedAll, InLoop, indexVars, syncVars, IInv, TypeOK
  <2>2. Queued(vWorkQueue') \subseteq mapBlockIndex
    BY <2>1, QueuedFacts, TreeAssumption DEF OrderInv
  <2>3. \A x : Fit(x)' => Fit(x)
    BY <2>1, FitShrinks
  <2> QED BY <2>1, <2>2, <2>3 DEF OrderInv, Connectable
<1>2. \A c \in Blocks : ~ProcessSyncCheckpoint(c)
  BY DEF ProcessSyncCheckpoint
<1>3. ASSUME Restart PROVE OrderInv'
  <2>1. /\ UNCHANGED <<mapBlockIndex, hashBestChain, setStakeSeen, hashSyncCheckpoint>>
        /\ mapOrphanBlocks' = {} /\ setStakeSeenOrphan' = {} /\ hashPendingCheckpoint' = Nil
        /\ vWorkQueue' = <<>> /\ stage' = "none" /\ received' = mapBlockIndex
    BY <1>3 DEF Restart, indexVars
  <2>2. Queued(vWorkQueue') = {}
    BY <2>1 DEF Queued
  <2> QED BY <2>1, <2>2 DEF OrderInv, Connectable
<1>4. ASSUME UNCHANGED vars PROVE OrderInv'
  <2>1. UNCHANGED <<mapBlockIndex, hashBestChain, setStakeSeen, mapOrphanBlocks,
                    setStakeSeenOrphan, hashSyncCheckpoint, hashPendingCheckpoint,
                    pblock, stage, vWorkQueue, received>>
    BY <1>4 DEF vars, indexVars, orphanVars, syncVars, callVars
  <2>2. \A x : Fit(x)' => Fit(x)
    BY <2>1, FitShrinks
  <2> QED BY <2>1, <2>2 DEF OrderInv, Connectable
<1> QED BY <1>1, <1>2, <1>3, <1>4, OrderArrival, OrderWaiting, OrderSync, OrderIndex,
           OrderPending DEF Next, Call

\* Between calls, the lowest block of a chain that is not indexed would be an
\* orphan whose parent is indexed and connects; there is none.
LEMMA OrderFromInv ==
  ASSUME IInv, OrderInv, Idle, NEW b \in received \ {Genesis},
         Ancestors[b] \subseteq received, \A x \in Ancestors[b] \ {Genesis} : Fit(x)
  PROVE  b \in mapBlockIndex
<1> SUFFICES ASSUME b \notin mapBlockIndex PROVE FALSE
  OBVIOUS
<1> DEFINE S == {x \in Ancestors[b] : x \notin mapBlockIndex}
<1>1. b \in Blocks /\ b # Genesis
  BY DEF IInv, TypeOK
<1>2. S \in SUBSET Blocks /\ b \in S
  BY <1>1, AncestorsSelf
<1>3. stage = "none" /\ pblock = Nil /\ Queued(vWorkQueue) = {}
  BY DEF Idle, IInv, TypeOK, Queued
<1>4. ASSUME NEW x \in S, x # Genesis PROVE Prev[x] \in S
  <2>1. Prev[x] \in Ancestors[b]
    BY <1>1, <1>4, AncestorsPrev
  <2>2. x \in Blocks /\ x # pblock /\ Fit(x) /\ x \in received
    BY <1>2, <1>3, <1>4, TreeAssumption
  <2>3. x \in mapOrphanBlocks
    BY <1>4, <2>2 DEF OrderInv
  <2>4. Prev[x] \notin mapBlockIndex
    BY <1>3, <2>2, <2>3 DEF IInv, WaitInv, Fit
  <2> QED BY <2>1, <2>4
<1>5. Ancestors[b] \subseteq S
  <2> HIDE DEF S
  <2> QED BY <1>1, <1>2, <1>4, AncestorsInduction
<1>6. Genesis \in S
  BY <1>1, <1>5, TreeAssumption
<1> QED BY <1>6 DEF OrderInv

\* Blocks end up in the index in whatever order they arrive, for any block tree,
\* any stakes and kernels, any refused blocks and any restarts: ProcessBlock
\* gives a block up only for itself, a duplicate stake, a kernel on one side of
\* a fork or a block below it given up before, where there are no checkpoints.
THEOREM OrderSafe == Checkpoints = {} => (Spec => []OrderIndependent)
<1> SUFFICES ASSUME Checkpoints = {} PROVE Spec => []OrderIndependent
  OBVIOUS
<1> DEFINE Inv == IInv /\ OrderInv
<1>1. Init => Inv
  <2>1. Init => OrderInv
    <3> SUFFICES ASSUME Init PROVE OrderInv
      OBVIOUS
    <3>1. ChainTrust[Genesis] \in Nat /\ Queued(<<>>) = {}
      BY TreeAssumption DEF Queued
    <3> QED BY <3>1 DEF Init, OrderInv
  <2> QED BY <2>1, ArrivalInit
<1>2. Inv /\ [Next]_vars => Inv'
  BY ArrivalNext, OrderNext
<1>3. Inv => OrderIndependent
  BY OrderFromInv DEF OrderIndependent
<1> QED BY <1>1, <1>2, <1>3, PTL DEF Spec
=============================================================================
