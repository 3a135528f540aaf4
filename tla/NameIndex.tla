------------------------------ MODULE NameIndex ------------------------------
(***************************************************************************)
(* The name index (denariusnamesindex.dat), which the block chain code     *)
(* keeps in step through hooks: ConnectBlock records the name operations   *)
(* of a block, DisconnectInputs takes one back.  It is a database of its   *)
(* own: each operation is committed by itself, and what the chain's        *)
(* transaction drops (a reorganisation that fails, a crash) stays written  *)
(* here.                                                                   *)
(*                                                                         *)
(* The blocks of a chain connect (ChainState has their validation); which  *)
(* of their name operations count is decided here, and one that does not   *)
(* count leaves the block valid.  A block's operations are one step.       *)
(***************************************************************************)
EXTENDS TxIndex, SequencesExt

CONSTANTS
    Names,
    NameOf,        \* the name a transaction is about, Nil if it is no name tx
    OpOf,          \* "new", "update" or "delete"
    nOut,          \* the output of a name transaction with the name script
    Rental,        \* nRentalDays, in blocks
    Underpaid,     \* IsNameFeeEnough says no
    Submitted,     \* what the memory pool may see before it is in a block
    RELEASE_HEIGHT, NAMEINDEX_CHAIN_SIZE, INT_MAX

NameTxs == {t \in Txs : NameOf[t] # Nil}

ASSUME NamesAssumption ==
  /\ \A b \in Blocks : ChainOK(b)
  /\ Nil \notin Names /\ NameOf \in [Txs -> Names \cup {Nil}]
  /\ OpOf \in [NameTxs -> {"new", "update", "delete"}]
  /\ \A t \in NameTxs : nOut[t] \in 0 .. NumOut[t] - 1
  /\ Rental \in [NameTxs -> Nat] /\ Underpaid \in SUBSET NameTxs
  /\ Submitted \in SUBSET NameTxs
  /\ RELEASE_HEIGHT \in Nat /\ NAMEINDEX_CHAIN_SIZE \in Nat \ {0} /\ INT_MAX \in Nat

VARIABLES
    best,          \* the committed tip
    cur,           \* the tip of the batch of the SetBestChain call under way
    target,        \* its new tip, Nil between calls
    nameDB,        \* the record of each name, or Nil
    mapNamePending,
    accepting,     \* what accept has checked and not yet added
    aborted,       \* the block at which an assertion failed, or Nil
    \* history
    drifted,       \* a SetBestChain call ended halfway
    lost,          \* names whose registration was not properly taken back
    overtaken      \* pending operations added after they were connected

pool == <<mapNamePending, accepting, overtaken>>
vars == <<best, cur, target, nameDB, pool, aborted, drifted, lost>>

\* CNameIndex: CDiskTxPos (the block and the transaction), nHeight and op.
Entry == [pos : Blocks \X NameTxs, nHeight : Nat, op : {"new", "update", "delete"}]

\* CNameRecord.  vtxPos starts at 1 here, nLastActiveChainIndex at 0 as there.
Record == [vtxPos : Seq(Entry), nExpiresAt : Nat, nLastActiveChainIndex : Nat]

EmptyRecord == [vtxPos |-> <<>>, nExpiresAt |-> 0, nLastActiveChainIndex |-> 0]

ASSUME NilAssumption == Nil \notin Record

\* Records are records, trimming never moves nLastActiveChainIndex below 0
\* ("assert(nameRec.nLastActiveChainIndex >= 0)"), and what is pending for a
\* name is about that name.
TypeOK ==
  /\ best \in Blocks /\ cur \in Blocks /\ target \in Blocks \cup {Nil}
  /\ nameDB \in [Names -> Record \cup {Nil}]
  /\ mapNamePending \in [Names -> SUBSET NameTxs]
  /\ \A n \in Names : \A t \in mapNamePending[n] : NameOf[t] = n
  /\ accepting \in SUBSET NameTxs /\ overtaken \in SUBSET NameTxs
  /\ aborted \in Blocks \cup {Nil}
  /\ drifted \in BOOLEAN /\ lost \in SUBSET Names

-----------------------------------------------------------------------------
\* CNameRecord::deleted
deleted(rec) == rec.vtxPos = <<>> \/ Last(rec.vtxPos).op = "delete"

\* The entries from nLastActiveChainIndex on.
ActiveChain(rec) ==
  SubSeq(rec.vtxPos, rec.nLastActiveChainIndex + 1, Len(rec.vtxPos))

\* The height at which an active chain starts, with the rentals added up.
RentedUntil(chain) ==
  FoldLeft(LAMBDA sum, e : sum + Rental[e.pos[2]], chain[1].nHeight, chain)

\* The record with nExpiresAt set.
CalculateExpiresAt(rec) ==
  LET sum == RentedUntil(ActiveChain(rec))
  IN  [rec EXCEPT !.nExpiresAt = IF deleted(rec) THEN 0
                                 ELSE IF sum > INT_MAX THEN INT_MAX ELSE sum]

\* "assert(s > rec.nLastActiveChainIndex)" in CNameDB::ReadName.
Readable(rec) == rec.vtxPos # <<>> => Len(rec.vtxPos) > rec.nLastActiveChainIndex

NameActive(db, n, height) ==
  db[n] # Nil /\ ~deleted(db[n]) /\ height <= db[n].nExpiresAt

\* Mutant of CheckNameTxPos: any earlier operation of the name will do.
CheckNameTxPosAny(rec, txPos) == \E i \in DOMAIN rec.vtxPos : rec.vtxPos[i].pos = txPos

CheckNameTxPos(rec, txPos) == rec.vtxPos # <<>> /\ Last(rec.vtxPos).pos = txPos

\* CTxIndex::pos of a transaction of the chain that ends in b.
PosOf(b, t) == <<CHOOSE c \in Ancestors[b] : t \in BlockTxs(c), t>>

\* The name transactions whose name output t spends.
PrevNames(t) == {u \in NameTxs : <<u, nOut[u]>> \in vin[t]}

\* ConnectInputs up to the point where it reads the record of the name: the
\* fee, and the operation and the name of what t spends.
ReadsRecord(t) ==
  /\ Cardinality(PrevNames(t)) <= 1
  /\ OpOf[t] # "delete" => t \notin Underpaid
  /\ OpOf[t] # "new" =>
       \E u \in PrevNames(t) : OpOf[u] \in {"new", "update"} /\ NameOf[u] = NameOf[t]

\* ConnectInputs: t of block b counts, seen from the records before the block.
ConnectInputs(db, b, t) ==
  LET name == NameOf[t] IN
  /\ ReadsRecord(t)
  /\ OpOf[t] = "new" => ~NameActive(db, name, Height[b])
  /\ OpOf[t] # "new" =>
       /\ NameActive(db, name, Height[b])
       /\ \E u \in PrevNames(t) : CheckNameTxPos(db[name], PosOf(b, u))

\* The operations of b that count.
vName(db, b) == {t \in BlockTxs(b) \cap NameTxs : ConnectInputs(db, b, t)}

\* Mutant of Trimmed: cuts into the active chain.
TrimmedAlways(rec) ==
  LET size == Len(rec.vtxPos)
      d == size - NAMEINDEX_CHAIN_SIZE
  IN  IF d > 0
      THEN [rec EXCEPT !.vtxPos = SubSeq(@, d + 1, size),
                       !.nLastActiveChainIndex = @ - d]
      ELSE rec

\* A record keeps its last NAMEINDEX_CHAIN_SIZE entries, or its active chain
\* if that is longer.
Trimmed(rec) ==
  LET size == Len(rec.vtxPos)
      d == size - NAMEINDEX_CHAIN_SIZE
  IN  IF d > 0 /\ size - rec.nLastActiveChainIndex + 1 <= NAMEINDEX_CHAIN_SIZE
      THEN [rec EXCEPT !.vtxPos = SubSeq(@, d + 1, size),
                       !.nLastActiveChainIndex = @ - d]
      ELSE rec

\* The record with the operation of t, which is in block b, appended.
Extended(rec, b, t) ==
  [rec EXCEPT !.vtxPos = Append(@, [pos |-> <<b, t>>, nHeight |-> Height[b],
                                    op |-> OpOf[t]]),
              !.nLastActiveChainIndex = IF OpOf[t] = "new" THEN Len(rec.vtxPos)
                                        ELSE @]

\* The operations of b that are written: "only first name_new for same name in
\* same block will get written".
Written(db, b) ==
  {t \in vName(db, b) :
     OpOf[t] = "new" =>
       ~\E i, j \in DOMAIN vtx[b] :
          /\ i < j /\ vtx[b][j] = t
          /\ vtx[b][i] \in vName(db, b)
          /\ OpOf[vtx[b][i]] = "new" /\ NameOf[vtx[b][i]] = NameOf[t]}

WriteName(db, b, t) ==
  LET name == NameOf[t]
      rec == IF db[name] = Nil THEN EmptyRecord ELSE db[name]
  IN  [db EXCEPT ![name] = CalculateExpiresAt(Trimmed(Extended(rec, b, t)))]

\* The records CNamecoinHooks::ConnectBlock leaves: all operations are checked
\* against the records before the block, then written in its order.
ConnectNames(db, b) ==
  IF Height[b] < RELEASE_HEIGHT THEN db
  ELSE FoldLeft(LAMBDA d, t : IF t \in Written(db, b) THEN WriteName(d, b, t) ELSE d,
                db, vtx[b])

\* Mutant of Popped: the active chain is not looked for again.
PoppedOnly(rec) == [rec EXCEPT !.vtxPos = Front(@)]

\* The record without its last operation; with a registration goes the active
\* chain, and the one before it is active again.
Popped(rec) ==
  LET rest == Front(rec.vtxPos)
      news == {i \in DOMAIN rest : rest[i].op = "new"}
  IN  [rec EXCEPT !.vtxPos = rest,
                  !.nLastActiveChainIndex =
                     IF Last(rec.vtxPos).op = "new" /\ news # {}
                     THEN (CHOOSE i \in news : \A j \in news : j <= i) - 1
                     ELSE @]

\* The record DisconnectInputs writes.  Where no registration is left to start
\* the active chain from, CalculateExpiresAt reads past the end of vtxPos, where
\* the operation just popped still is.
Undone(rec) ==
  LET new == Popped(rec)
  IN  IF Readable(new) \/ deleted(new) THEN CalculateExpiresAt(new)
      ELSE [new EXCEPT !.nExpiresAt = Last(rec.vtxPos).nHeight]

\* Mutant of UndoName: nExpiresAt is not calculated again.
UndoNameKeepsExpiry(s, t) ==
  LET name == NameOf[t]
      rec == s.db[name]
  IN  IF ~s.ok \/ t \notin NameTxs \/ rec = Nil THEN s
      ELSE IF ~Readable(rec) \/ Last(rec.vtxPos).pos[2] # t
      THEN [s EXCEPT !.ok = FALSE]
      ELSE IF Len(rec.vtxPos) = 1 THEN s
      ELSE [s EXCEPT !.db[name] = Popped(rec)]

\* Mutant of UndoName: a deleted name is left alone.
UndoNameUnlessDeleted(s, t) ==
  LET name == NameOf[t]
      rec == s.db[name]
  IN  IF ~s.ok \/ t \notin NameTxs \/ rec = Nil \/ OpOf[t] = "delete" THEN s
      ELSE IF ~Readable(rec) \/ Last(rec.vtxPos).pos[2] # t
      THEN [s EXCEPT !.ok = FALSE]
      ELSE IF Len(rec.vtxPos) = 1 THEN s
      ELSE [s EXCEPT !.db[name] = Undone(rec)]

\* CNamecoinHooks::DisconnectInputs of t on s, the records and whether the
\* assertions have held.  An empty record is erased in a transaction that is
\* never committed, so it is not.
UndoName(s, t) ==
  LET name == NameOf[t]
      rec == s.db[name]
  IN  IF ~s.ok \/ t \notin NameTxs \/ rec = Nil THEN s
      ELSE IF ~Readable(rec) \/ Last(rec.vtxPos).pos[2] # t
      THEN [s EXCEPT !.ok = FALSE]
      ELSE IF Len(rec.vtxPos) = 1 THEN s
      ELSE [s EXCEPT !.db[name] = Undone(rec)]

\* DisconnectBlock undoes the name operations of b in reverse order.
DisconnectNames(db, b) ==
  FoldLeft(UndoName, [db |-> db, ok |-> TRUE], Reverse(vtx[b]))

\* Mutant of PendingAfter: what is confirmed stays pending.
PendingKept(pending, db, b) == pending

\* Operations that are written, and those that do not count, are no longer
\* pending; a repeated registration is skipped before it is taken out.
PendingAfter(pending, db, b) ==
  [n \in Names |->
     IF Height[b] < RELEASE_HEIGHT THEN pending[n]
     ELSE pending[n] \ (BlockTxs(b) \ (vName(db, b) \ Written(db, b)))]

\* The names whose registration goes with b and leaves a record behind that is
\* not the one before it: the empty one, or one without a registration.
NotTakenBack(db, b) ==
  {n \in Names : /\ db[n] # Nil /\ \E t \in BlockTxs(b) : NameOf[t] = n
                 /\ Len(db[n].vtxPos) = 1 \/ ~Readable(Popped(db[n]))}

-----------------------------------------------------------------------------
\* SetBestChain is called for a block with more trust, or for a checkpoint
\* off the main chain.  (The roll-back at start-up is left out.)
SetBestChain(b) ==
  /\ target = Nil /\ aborted = Nil
  /\ b \notin Ancestors[best]
  /\ target' = b
  /\ UNCHANGED <<best, cur, nameDB, pool, aborted, drifted, lost>>

\* CBlock::DisconnectBlock of the tip of the batch.
DisconnectTip ==
  /\ target # Nil /\ aborted = Nil
  /\ cur \notin Ancestors[target]
  /\ LET s == DisconnectNames(nameDB, cur) IN
       /\ nameDB' = s.db
       /\ cur' = IF s.ok THEN Prev[cur] ELSE cur
       /\ aborted' = IF s.ok THEN Nil ELSE cur
       /\ lost' = lost \cup NotTakenBack(nameDB, cur)
  /\ UNCHANGED <<best, target, pool, drifted>>

\* CBlock::ConnectBlock of the next block, unless ReadName's assertion fails.
ConnectNext ==
  /\ target # Nil /\ aborted = Nil
  /\ cur \in Ancestors[target] \ {target}
  /\ LET b == Toward(cur, target)
         readable == \A t \in BlockTxs(b) \cap NameTxs :
                       ReadsRecord(t) /\ nameDB[NameOf[t]] # Nil =>
                         Readable(nameDB[NameOf[t]])
     IN  IF Height[b] < RELEASE_HEIGHT \/ readable
         THEN /\ nameDB' = ConnectNames(nameDB, b)
              /\ mapNamePending' = PendingAfter(mapNamePending, nameDB, b)
              /\ overtaken' = {t \in overtaken : t \in mapNamePending'[NameOf[t]]}
              /\ cur' = b
              /\ UNCHANGED aborted
         ELSE aborted' = b /\ UNCHANGED <<nameDB, mapNamePending, overtaken, cur>>
  /\ UNCHANGED <<best, target, accepting, drifted, lost>>

\* The chain's transaction is committed.
Commit ==
  /\ target # Nil /\ aborted = Nil
  /\ cur = target
  /\ best' = target
  /\ target' = Nil
  /\ UNCHANGED <<cur, nameDB, pool, aborted, drifted, lost>>

\* A block further on does not connect, or the process dies, by an assertion
\* for one: the chain is back at the tip on disk, the name index is not.
Interrupted ==
  /\ target # Nil
  /\ cur # best \/ aborted # Nil
  /\ cur' = best
  /\ target' = Nil
  /\ aborted' = Nil
  /\ \/ /\ mapNamePending' = [n \in Names |-> {}]
        /\ accepting' = {} /\ overtaken' = {}
     \/ aborted = Nil /\ UNCHANGED pool
  /\ drifted' = TRUE
  /\ UNCHANGED <<best, nameDB, lost>>

\* CTxMemPool::accept of a name transaction looks for it in the pool and in
\* the committed chain.  In a tx message it does so without cs_main, so a call
\* of SetBestChain may be under way.
AcceptCheck(t) ==
  /\ aborted = Nil
  /\ t \notin accepting \cup mapNamePending[NameOf[t]]
  /\ \A c \in Ancestors[best] : t \notin BlockTxs(c)
  /\ accepting' = accepting \cup {t}
  /\ UNCHANGED <<best, cur, target, nameDB, mapNamePending, overtaken, aborted, drifted, lost>>

\* It adds what it has checked, whatever the chain is by now.  (The insertion
\* takes cs_main, which the call of a checkpoint message does not hold.)
AddToPendingNames(t) ==
  /\ aborted = Nil
  /\ t \in accepting
  /\ accepting' = accepting \ {t}
  /\ mapNamePending' = [mapNamePending EXCEPT ![NameOf[t]] = @ \cup {t}]
  /\ overtaken' = IF \E c \in Ancestors[cur] : t \in BlockTxs(c)
                  THEN overtaken \cup {t} ELSE overtaken
  /\ UNCHANGED <<best, cur, target, nameDB, aborted, drifted, lost>>

Init ==
  /\ best = Genesis /\ cur = Genesis
  /\ target = Nil
  /\ nameDB = [n \in Names |-> Nil]
  /\ mapNamePending = [n \in Names |-> {}]
  /\ accepting = {} /\ overtaken = {}
  /\ aborted = Nil
  /\ drifted = FALSE /\ lost = {}

Next ==
  \/ \E b \in Blocks : SetBestChain(b)
  \/ DisconnectTip
  \/ ConnectNext
  \/ Commit
  \/ Interrupted
  \/ \E t \in Submitted : AcceptCheck(t) \/ AddToPendingNames(t)

Spec == Init /\ [][Next]_vars

-----------------------------------------------------------------------------
\* What the name index says after a chain has been connected from its start.
Replay[b \in Blocks] ==
  IF b = Genesis THEN [n \in Names |-> Nil] ELSE ConnectNames(Replay[Prev[b]], b)

\* Two records say the same of a name: both that it is gone, or both the same
\* active chain and the same end.  (Older chains may be cut off differently.)
SameName(rec, ref) ==
  IF rec = Nil \/ ref = Nil THEN rec = ref
  ELSE IF deleted(rec) \/ deleted(ref) THEN deleted(rec) /\ deleted(ref)
  ELSE ActiveChain(rec) = ActiveChain(ref) /\ rec.nExpiresAt = ref.nExpiresAt

\* Who holds a name depends on the chain alone: whatever branches have been
\* connected and disconnected on the way, the index says what it says at a
\* node that saw only this chain (DisconnectInputs takes back exactly what
\* ConnectBlock wrote), unless it could not take back a registration.
NamesPathIndependent ==
  ~drifted /\ aborted = Nil =>
    \A n \in Names \ lost : SameName(nameDB[n], Replay[cur][n])

\* Only the holder of a name changes it: each operation of an active chain
\* spends the name output of the one before it, however often the name expired
\* and was registered anew, and also after calls that ended halfway.
OnlyHolderChanges ==
  \A n \in Names : nameDB[n] # Nil =>
    LET chain == ActiveChain(nameDB[n]) IN
    \A i \in 1 .. Len(chain) - 1 :
      LET u == chain[i].pos[2] IN <<u, nOut[u]>> \in vin[chain[i + 1].pos[2]]

\* nLastActiveChainIndex names the last registration left in a record, also
\* after trimming, disconnections and calls that ended halfway.  Only where
\* trimming has cut off all of them does it lie behind the end, where
\* ReadName's assertion fails.
ActiveChainStart ==
  \A n \in Names : nameDB[n] # Nil =>
    LET rec == nameDB[n]
        news == {i \in DOMAIN rec.vtxPos : rec.vtxPos[i].op = "new"}
    IN  IF Readable(rec)
        THEN /\ rec.nLastActiveChainIndex + 1 \in news
             /\ \A i \in news : i <= rec.nLastActiveChainIndex + 1
        ELSE news = {}

\* "check if tx matches last tx in denariusnamesindex.dat": unless a call has
\* ended halfway before, an assertion only fails at a block with an operation
\* that does not count or that is about a name not properly taken back.
AbortOnlyOnRefused ==
  aborted # Nil /\ ~drifted =>
    \E t \in BlockTxs(aborted) \cap NameTxs :
      NameOf[t] \in lost \/ t \notin Written(Replay[Prev[aborted]], aborted)

\* A confirmed operation is no longer pending (name_new, name_update and
\* name_delete refuse a name with pending operations), with two exceptions:
\* the repeated registrations of one block, and what was added only after its
\* block had been connected, because accept had looked at the chain before.
PendingUnconfirmed ==
  target = Nil /\ ~drifted =>
    \A n \in Names \ lost : \A c \in Ancestors[best] :
      Height[c] >= RELEASE_HEIGHT =>
        (mapNamePending[n] \ overtaken) \cap BlockTxs(c)
          \subseteq vName(Replay[Prev[c]], c) \ Written(Replay[Prev[c]], c)

\* "delete empty record": a name none of whose operations is in the chain has
\* no record.
NoEmptyRecord ==
  ~drifted /\ aborted = Nil =>
    \A n \in Names : nameDB[n] # Nil =>
      \E c \in Ancestors[cur] : \E t \in BlockTxs(c) : NameOf[t] = n
=============================================================================
