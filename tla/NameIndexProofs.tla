--------------------------- MODULE NameIndexProofs ---------------------------
(***************************************************************************)
(* Proofs about the name index, for every block tree, all names and any    *)
(* sequence of calls, complete or not.                                     *)
(*                                                                         *)
(* First what the folds of the model compute (ConnectNamesIs,              *)
(* DisconnectNamesIs), then what holds of every record by itself           *)
(* (RecordInv), then that the records follow the chain (NameInv): History  *)
(* is the uncut list of a name's operations along a chain, and a record    *)
(* represents it if it is an end of it.                                    *)
(***************************************************************************)
EXTENDS NameIndex, TxIndexProofs, FoldProofs

\* The rentals of a chain of operations add up to a height.
LEMMA RentedType ==
  ASSUME NEW chain \in Seq(Entry), chain # <<>>
  PROVE  RentedUntil(chain) \in Nat
<1> DEFINE n == Len(chain)
           base == chain[1].nHeight
           F == [p \in Nat \X (1 .. n) |-> p[1] + Rental[chain[p[2]].pos[2]]]
           it2 == CHOOSE iter :
                    iter = [s \in SUBSET (DOMAIN chain) |->
                              IF s = {} THEN chain[1].nHeight
                              ELSE iter[s \ {Max(s)}] + Rental[chain[Max(s)].pos[2]]]
<1>1. n \in Nat /\ DOMAIN chain = 1 .. n /\ 1 \in 1 .. n
  OBVIOUS
<1>2. \A i \in 1 .. n : chain[i] \in Entry
  OBVIOUS
<1>3. \A i \in 1 .. n : Rental[chain[i].pos[2]] \in Nat
  <2> SUFFICES ASSUME NEW i \in 1 .. n PROVE Rental[chain[i].pos[2]] \in Nat
    OBVIOUS
  <2>1. chain[i].pos \in Blocks \X NameTxs
    BY <1>2 DEF Entry
  <2> QED BY <2>1, NamesAssumption
<1>4. base \in Nat
  <2>1. chain[1] \in Entry
    BY <1>1, <1>2
  <2> QED BY <2>1 DEF Entry
<1>5. F \in [Nat \X (1 .. n) -> Nat]
  BY <1>3
<1>6. \A x \in Nat, i \in 1 .. n : F[<<x, i>>] = x + Rental[chain[i].pos[2]]
  OBVIOUS
<1>7. RentedUntil(chain) = it2[DOMAIN chain]
  BY DEF RentedUntil, FoldLeft, MapThenFoldSet
<1> DEFINE Folds(it) == it = [s \in SUBSET (DOMAIN chain) |->
                                IF s = {} THEN chain[1].nHeight
                                ELSE it[s \ {Max(s)}] + Rental[chain[Max(s)].pos[2]]]
<1>8. \E it : Folds(it)
  <2> HIDE DEF F, n
  <2>1. PICK it \in [SUBSET (1 .. n) -> Nat] : IsIter(it, n, base, F)
    BY <1>1, <1>4, <1>5, IterExists
  <2>2. ASSUME NEW s \in SUBSET (1 .. n), s # {}
        PROVE  F[<<it[s \ {Max(s)}], Max(s)>>]
                 = it[s \ {Max(s)}] + Rental[chain[Max(s)].pos[2]]
    <3>1. Max(s) \in 1 .. n /\ s \ {Max(s)} \in SUBSET (1 .. n)
      BY <2>2, <1>1, MaxExists
    <3>2. it[s \ {Max(s)}] \in Nat
      BY <3>1
    <3> QED BY <3>1, <3>2, <1>6
  <2>3. Folds(it)
    BY <1>1, <2>1, <2>2 DEF IsIter
  <2> QED BY <2>3
<1>9. Folds(it2)
  BY <1>8
<1> HIDE DEF it2, F, n
<1>10. it2[{}] = base
  BY <1>9
<1>11. ASSUME NEW i \in 1 .. n, it2[1 .. (i - 1)] \in Nat
       PROVE  it2[1 .. i] = F[<<it2[1 .. (i - 1)], i>>]
  <2>1. it2[1 .. i] = it2[(1 .. i) \ {Max(1 .. i)}] + Rental[chain[Max(1 .. i)].pos[2]]
    BY <1>1, <1>9, LastOfInterval
  <2>2. Max(1 .. i) = i /\ (1 .. i) \ {Max(1 .. i)} = 1 .. (i - 1)
    BY <1>1, LastOfInterval
  <2>3. it2[1 .. i] = it2[1 .. (i - 1)] + Rental[chain[i].pos[2]]
    BY <2>1, <2>2
  <2> QED BY <2>3, <1>6, <1>11
<1>12. LeadsTo(n, Nat, base, F, it2[1 .. n])
  <2>1. TakesSteps(it2, n, Nat, base, F)
    BY <1>10, <1>11 DEF TakesSteps
  <2>2. IsTable(F, n, Nat)
    BY <1>1, <1>5 DEF IsTable
  <2> QED BY <2>1, <2>2, <1>4, TableFold
<1>13. it2[1 .. n] \in Nat
  BY <1>1, <1>12 DEF LeadsTo
<1> QED BY <1>1, <1>7, <1>13
-----------------------------------------------------------------------------
(***************************************************************************)
(* One record.                                                             *)
(***************************************************************************)

\* The records the index holds, and the ones it works on.
Workable == {rec \in Record : rec.nLastActiveChainIndex <= Len(rec.vtxPos)}

Stored == {rec \in Workable : rec.vtxPos # <<>>}

DBs == [Names -> Stored \cup {Nil}]

\* The end of a record's active chain.
Expiry(rec) ==
  IF deleted(rec) THEN 0
  ELSE IF RentedUntil(ActiveChain(rec)) > INT_MAX THEN INT_MAX
       ELSE RentedUntil(ActiveChain(rec))

\* The fields of a record.
LEMMA RecordFields ==
  ASSUME NEW rec \in Record
  PROVE  /\ rec.vtxPos \in Seq(Entry) /\ rec.nExpiresAt \in Nat
         /\ rec.nLastActiveChainIndex \in Nat /\ Len(rec.vtxPos) \in Nat
         /\ DOMAIN rec.vtxPos = 1 .. Len(rec.vtxPos)
BY DEF Record

\* The active chain, entry by entry.
LEMMA ActiveChainIs ==
  ASSUME NEW rec \in Workable
  PROVE  /\ ActiveChain(rec) \in Seq(Entry)
         /\ Len(ActiveChain(rec)) = Len(rec.vtxPos) - rec.nLastActiveChainIndex
         /\ \A i \in 1 .. (Len(rec.vtxPos) - rec.nLastActiveChainIndex) :
               ActiveChain(rec)[i] = rec.vtxPos[rec.nLastActiveChainIndex + i]
<1>1. /\ rec.vtxPos \in Seq(Entry) /\ rec.nLastActiveChainIndex \in Nat
      /\ Len(rec.vtxPos) \in Nat /\ rec.nLastActiveChainIndex <= Len(rec.vtxPos)
  BY RecordFields DEF Workable
<1> QED BY <1>1 DEF ActiveChain

\* CalculateExpiresAt changes nExpiresAt alone, to a height.
LEMMA CalculateExpiresAtIs ==
  ASSUME NEW rec \in Workable,
         deleted(rec) \/ rec.nLastActiveChainIndex < Len(rec.vtxPos)
  PROVE  /\ CalculateExpiresAt(rec) \in Record
         /\ CalculateExpiresAt(rec).vtxPos = rec.vtxPos
         /\ CalculateExpiresAt(rec).nLastActiveChainIndex = rec.nLastActiveChainIndex
         /\ CalculateExpiresAt(rec).nExpiresAt = Expiry(rec)
<1>1. rec \in Record
  BY DEF Workable
<1>2. Expiry(rec) \in Nat
  <2>1. CASE deleted(rec)
    BY <2>1 DEF Expiry
  <2>2. CASE ~deleted(rec)
    <3>1. ActiveChain(rec) \in Seq(Entry) /\ Len(ActiveChain(rec)) > 0
      BY <2>2, <1>1, ActiveChainIs, RecordFields
    <3>2. ActiveChain(rec) # <<>>
      BY <3>1
    <3>3. RentedUntil(ActiveChain(rec)) \in Nat
      BY <3>1, <3>2, RentedType
    <3> QED BY <3>3, NamesAssumption DEF Expiry
  <2> QED BY <2>1, <2>2
<1>3. CalculateExpiresAt(rec) = [rec EXCEPT !.nExpiresAt = Expiry(rec)]
  BY DEF CalculateExpiresAt, Expiry
<1> HIDE DEF Expiry
<1> QED BY <1>1, <1>2, <1>3 DEF Record

\* The entry of t in block b.
EntryOf(b, t) == [pos |-> <<b, t>>, nHeight |-> Height[b], op |-> OpOf[t]]

\* What WriteName makes of a record.
NewRecord(rec, b, t) == CalculateExpiresAt(Trimmed(Extended(rec, b, t)))

\* rec is new with the entry e, less the first d entries of the old record; the
\* active chain starts behind the first k entries of what is left.
Extends(new, rec, e, d, k) ==
  /\ new \in Record /\ d \in Nat /\ k \in Nat
  /\ Len(new.vtxPos) = Len(rec.vtxPos) + 1 - d
  /\ new.nLastActiveChainIndex = k - d /\ d <= k /\ k <= Len(rec.vtxPos)
  /\ \A i \in 1 .. (Len(rec.vtxPos) - d) : new.vtxPos[i] = rec.vtxPos[i + d]
  /\ new.vtxPos[Len(new.vtxPos)] = e

\* The entry is one.
LEMMA EntryOfType ==
  ASSUME NEW b \in Blocks, NEW t \in NameTxs
  PROVE  EntryOf(b, t) \in Entry
BY TreeAssumption, NamesAssumption DEF EntryOf, Entry

\* A sequence with one more element.
LEMMA AppendIs ==
  ASSUME NEW S, NEW v \in Seq(S), NEW e \in S
  PROVE  /\ Append(v, e) \in Seq(S) /\ Len(Append(v, e)) = Len(v) + 1
         /\ Len(v) \in Nat
         /\ \A i \in 1 .. Len(v) : Append(v, e)[i] = v[i]
         /\ Append(v, e)[Len(v) + 1] = e
OBVIOUS

\* A sequence without its first d elements.
LEMMA SuffixIs ==
  ASSUME NEW S, NEW w \in Seq(S), NEW d \in Nat, d <= Len(w)
  PROVE  /\ SubSeq(w, d + 1, Len(w)) \in Seq(S)
         /\ Len(SubSeq(w, d + 1, Len(w))) = Len(w) - d
         /\ \A i \in 1 .. (Len(w) - d) : SubSeq(w, d + 1, Len(w))[i] = w[i + d]
OBVIOUS

\* Trimming leaves a record alone, or cuts it where it says.
LEMMA TrimmedCases ==
  ASSUME NEW rec
  PROVE  LET d == Len(rec.vtxPos) - NAMEINDEX_CHAIN_SIZE IN
         \/ Trimmed(rec) = rec
         \/ /\ d > 0
            /\ Len(rec.vtxPos) - rec.nLastActiveChainIndex + 1 <= NAMEINDEX_CHAIN_SIZE
            /\ Trimmed(rec) =
                 [rec EXCEPT !.vtxPos = SubSeq(rec.vtxPos, d + 1, Len(rec.vtxPos)),
                             !.nLastActiveChainIndex = rec.nLastActiveChainIndex - d]
BY Zenon DEF Trimmed

\* Extending and trimming keep the active chain whole.
LEMMA TrimmedIs ==
  ASSUME NEW rec \in Workable, NEW b \in Blocks, NEW t \in NameTxs
  PROVE  \E d \in Nat :
           Extends(Trimmed(Extended(rec, b, t)), rec, EntryOf(b, t), d,
                   IF OpOf[t] = "new" THEN Len(rec.vtxPos)
                   ELSE rec.nLastActiveChainIndex)
<1> DEFINE e == EntryOf(b, t)
           v == rec.vtxPos
           k == IF OpOf[t] = "new" THEN Len(v) ELSE rec.nLastActiveChainIndex
           ext == Extended(rec, b, t)
           w == Append(v, e)
           dd == Len(w) - NAMEINDEX_CHAIN_SIZE
<1>1. /\ rec \in Record /\ v \in Seq(Entry) /\ e \in Entry /\ k \in Nat
      /\ Len(v) \in Nat /\ k <= Len(v)
  BY RecordFields, EntryOfType DEF Workable
<1>2. ext = [rec EXCEPT !.vtxPos = w, !.nLastActiveChainIndex = k]
  BY DEF Extended, EntryOf
<1> HIDE DEF ext, e, k, v
<1>a. /\ w \in Seq(Entry) /\ Len(w) = Len(v) + 1
      /\ \A i \in 1 .. Len(v) : w[i] = v[i]
      /\ w[Len(v) + 1] = e
  BY <1>1, AppendIs
<1> HIDE DEF w
<1>3. ext \in Record /\ ext.vtxPos = w /\ ext.nLastActiveChainIndex = k
  BY <1>1, <1>2, <1>a DEF Record
<1>4. CASE Trimmed(ext) = ext
  <2>1. Extends(ext, rec, e, 0, k)
    BY <1>1, <1>a, <1>3 DEF Extends, v
  <2> QED BY <1>4, <2>1 DEF e, k, ext, v
<1>5. CASE Trimmed(ext) # ext
  <2> DEFINE x == SubSeq(w, dd + 1, Len(w))
  <2>1. /\ dd \in Nat /\ dd > 0 /\ dd < k
        /\ Trimmed(ext) = [ext EXCEPT !.vtxPos = x, !.nLastActiveChainIndex = k - dd]
    <3>1. /\ dd > 0 /\ Len(w) - k + 1 <= NAMEINDEX_CHAIN_SIZE
          /\ Trimmed(ext) = [ext EXCEPT !.vtxPos = x, !.nLastActiveChainIndex = k - dd]
      BY <1>3, <1>5, TrimmedCases
    <3>2. dd \in Nat /\ dd < k
      BY <1>1, <1>a, <3>1, NamesAssumption
    <3> QED BY <3>1, <3>2
  <2> HIDE DEF dd
  <2>2. /\ x \in Seq(Entry) /\ Len(x) = Len(v) + 1 - dd
        /\ \A i \in 1 .. (Len(v) + 1 - dd) : x[i] = w[i + dd]
    <3>1. dd <= Len(w)
      BY <1>1, <1>a, <2>1
    <3>2. w \in Seq(Entry) /\ dd \in Nat
      BY <1>a, <2>1
    <3>3. /\ x \in Seq(Entry) /\ Len(x) = Len(w) - dd
          /\ \A i \in 1 .. (Len(w) - dd) : x[i] = w[i + dd]
      BY <3>1, <3>2, SuffixIs
    <3> HIDE DEF x
    <3>4. Len(w) - dd = Len(v) + 1 - dd
      BY <1>1, <1>a, <3>2
    <3> QED BY <3>3, <3>4
  <2> HIDE DEF x
  <2>3. /\ Trimmed(ext) \in Record /\ Trimmed(ext).vtxPos = x
        /\ Trimmed(ext).nLastActiveChainIndex = k - dd
    <3>1. k - dd \in Nat
      BY <1>1, <2>1
    <3>2. x \in Seq(Entry)
      BY <2>2
    <3> QED BY <1>3, <2>1, <3>1, <3>2 DEF Record
  <2>4. x[Len(x)] = e
    BY <1>1, <1>a, <2>1, <2>2
  <2>5. \A i \in 1 .. (Len(v) - dd) : x[i] = v[i + dd]
    <3> SUFFICES ASSUME NEW i \in 1 .. (Len(v) - dd) PROVE x[i] = v[i + dd]
      OBVIOUS
    <3>1. i \in 1 .. (Len(v) + 1 - dd) /\ i + dd \in 1 .. Len(v)
      BY <1>1, <2>1
    <3> QED BY <1>a, <2>2, <3>1
  <2>6. Extends(Trimmed(ext), rec, e, dd, k)
    BY <1>1, <2>1, <2>2, <2>3, <2>4, <2>5 DEF Extends, v
  <2> QED BY <2>1, <2>6 DEF e, k, ext, v
<1> QED BY <1>4, <1>5

\* What WriteName makes of a record, with its expiry.
LEMMA NewRecordIs ==
  ASSUME NEW rec \in Workable, NEW b \in Blocks, NEW t \in NameTxs
  PROVE  /\ NewRecord(rec, b, t) \in Stored
         /\ NewRecord(rec, b, t).nExpiresAt = Expiry(NewRecord(rec, b, t))
         /\ \E d \in Nat :
              Extends(NewRecord(rec, b, t), rec, EntryOf(b, t), d,
                      IF OpOf[t] = "new" THEN Len(rec.vtxPos)
                      ELSE rec.nLastActiveChainIndex)
<1> DEFINE tr == Trimmed(Extended(rec, b, t))
           new == NewRecord(rec, b, t)
           e == EntryOf(b, t)
           k == IF OpOf[t] = "new" THEN Len(rec.vtxPos)
                ELSE rec.nLastActiveChainIndex
<1>1. PICK d \in Nat : Extends(tr, rec, e, d, k)
  BY TrimmedIs
<1> HIDE DEF tr, k, e
<1>2. Len(rec.vtxPos) \in Nat
  BY RecordFields DEF Workable
<1>3. /\ tr \in Workable /\ tr.nLastActiveChainIndex < Len(tr.vtxPos)
      /\ tr.vtxPos # <<>>
  <2>1. /\ tr \in Record /\ tr.nLastActiveChainIndex < Len(tr.vtxPos)
        /\ Len(tr.vtxPos) > 0
    BY <1>1, <1>2 DEF Extends
  <2>2. tr.vtxPos # <<>> /\ tr.nLastActiveChainIndex <= Len(tr.vtxPos)
    BY <2>1, RecordFields
  <2> QED BY <2>1, <2>2 DEF Workable
<1>4. /\ new \in Record /\ new.vtxPos = tr.vtxPos
      /\ new.nLastActiveChainIndex = tr.nLastActiveChainIndex
      /\ new.nExpiresAt = Expiry(tr)
  <2>1. new = CalculateExpiresAt(tr)
    BY DEF NewRecord, tr
  <2> HIDE DEF new
  <2> QED BY <2>1, <1>3, CalculateExpiresAtIs
<1> HIDE DEF new
<1>5. Expiry(new) = Expiry(tr)
  BY <1>4 DEF Expiry, deleted, ActiveChain
<1>6. new \in Stored
  BY <1>3, <1>4 DEF Stored, Workable
<1>7. Extends(new, rec, e, d, k)
  BY <1>1, <1>4 DEF Extends
<1> QED BY <1>4, <1>5, <1>6, <1>7 DEF new, e, k

-----------------------------------------------------------------------------
(***************************************************************************)
(* Connecting a block.                                                     *)
(***************************************************************************)

\* The record WriteName starts from.
OldRecord(rec) == IF rec = Nil THEN EmptyRecord ELSE rec

\* A name transaction is about a name.
LEMMA NameTxType ==
  ASSUME NEW t \in NameTxs
  PROVE  /\ t \in Txs /\ NameOf[t] \in Names /\ NameOf[t] # Nil
         /\ OpOf[t] \in {"new", "update", "delete"}
BY NamesAssumption DEF NameTxs

\* What is written is a name transaction of the block that counts.
LEMMA WrittenType ==
  ASSUME NEW db, NEW b \in Blocks, NEW t \in Written(db, b)
  PROVE  /\ t \in BlockTxs(b) /\ t \in NameTxs /\ ConnectInputs(db, b, t)
         /\ t \in vName(db, b)
BY DEF Written, vName

\* An empty or a stored record can be worked on.
LEMMA OldRecordType ==
  ASSUME NEW db \in DBs, NEW n \in Names
  PROVE  OldRecord(db[n]) \in Workable
<1>1. EmptyRecord \in Record /\ Len(EmptyRecord.vtxPos) = 0
  BY DEF EmptyRecord, Record
<1>2. EmptyRecord \in Workable
  BY <1>1 DEF Workable, EmptyRecord
<1>3. db[n] # Nil => db[n] \in Workable
  BY DEF DBs, Stored
<1> QED BY <1>2, <1>3 DEF OldRecord

\* A block writes at most one operation of a name: registrations after the first
\* are skipped, a registration wants the name free and an update does not, and
\* two updates would spend the same output.
LEMMA OneWritten ==
  ASSUME NEW db, NEW b \in Blocks, NEW t \in Written(db, b), NEW u \in Written(db, b),
         NameOf[t] = NameOf[u]
  PROVE  t = u
<1>1. /\ t \in BlockTxs(b) /\ t \in NameTxs /\ ConnectInputs(db, b, t)
      /\ u \in BlockTxs(b) /\ u \in NameTxs /\ ConnectInputs(db, b, u)
      /\ t \in vName(db, b) /\ u \in vName(db, b)
  BY WrittenType
<1>2. CASE OpOf[t] = "new" /\ OpOf[u] = "new"
  <2>1. PICK i \in DOMAIN vtx[b], j \in DOMAIN vtx[b] : vtx[b][i] = t /\ vtx[b][j] = u
    BY <1>1, BlockTxsType
  <2>2. i \in Nat /\ j \in Nat
    BY BlockTxsType
  <2>3. ~(i < j)
    BY <1>1, <1>2, <2>1 DEF Written
  <2>4. ~(j < i)
    BY <1>1, <1>2, <2>1 DEF Written
  <2> QED BY <2>1, <2>2, <2>3, <2>4
<1>3. CASE OpOf[t] # "new" /\ OpOf[u] # "new"
  <2>1. PICK v \in PrevNames(t) : CheckNameTxPos(db[NameOf[t]], PosOf(b, v))
    BY <1>1, <1>3 DEF ConnectInputs
  <2>2. PICK w \in PrevNames(u) : CheckNameTxPos(db[NameOf[t]], PosOf(b, w))
    BY <1>1, <1>3 DEF ConnectInputs
  <2>3. v = w
    BY <2>1, <2>2 DEF CheckNameTxPos, PosOf
  <2>4. vin[t] \cap vin[u] # {}
    BY <2>3 DEF PrevNames
  <2>5. SpendsOnce(b) /\ b \in Ancestors[b]
    BY NamesAssumption, AncestorsSelf DEF ChainOK
  <2> QED BY <1>1, <2>4, <2>5 DEF SpendsOnce
<1>4. CASE (OpOf[t] = "new") # (OpOf[u] = "new")
  BY <1>1, <1>4 DEF ConnectInputs
<1> QED BY <1>2, <1>3, <1>4

\* WriteName writes one record.
LEMMA WriteNameIs ==
  ASSUME NEW d \in DBs, NEW b \in Blocks, NEW t \in NameTxs
  PROVE  /\ WriteName(d, b, t) \in DBs
         /\ WriteName(d, b, t) =
              [d EXCEPT ![NameOf[t]] = NewRecord(OldRecord(d[NameOf[t]]), b, t)]
<1>1. NameOf[t] \in Names
  BY NameTxType
<1>2. WriteName(d, b, t) =
        [d EXCEPT ![NameOf[t]] = NewRecord(OldRecord(d[NameOf[t]]), b, t)]
  BY DEF WriteName, NewRecord, OldRecord
<1>3. NewRecord(OldRecord(d[NameOf[t]]), b, t) \in Stored
  BY <1>1, OldRecordType, NewRecordIs
<1> QED BY <1>1, <1>2, <1>3 DEF DBs

\* What the first i transactions of b leave of the records db.
WrittenUpTo(g, db, b, i) ==
  \A n \in Names :
    /\ \A j \in 1 .. i : vtx[b][j] \in Written(db, b) /\ NameOf[vtx[b][j]] = n =>
         g[n] = NewRecord(OldRecord(db[n]), b, vtx[b][j])
    /\ (\A j \in 1 .. i : vtx[b][j] \in Written(db, b) => NameOf[vtx[b][j]] # n) =>
         g[n] = db[n]

\* ConnectNames writes the records of the operations that are written, each from
\* the record before the block, and no other.
LEMMA ConnectNamesIs ==
  ASSUME NEW db \in DBs, NEW b \in Blocks, ~(Height[b] < RELEASE_HEIGHT)
  PROVE  /\ ConnectNames(db, b) \in DBs
         /\ \A t \in Written(db, b) :
              ConnectNames(db, b)[NameOf[t]] = NewRecord(OldRecord(db[NameOf[t]]), b, t)
         /\ \A n \in Names : (\A t \in Written(db, b) : NameOf[t] # n) =>
              ConnectNames(db, b)[n] = db[n]
<1> DEFINE s == vtx[b]
           m == Len(s)
           W == Written(db, b)
           F == [p \in DBs \X (1 .. m) |->
                   IF s[p[2]] \in W THEN WriteName(p[1], b, s[p[2]]) ELSE p[1]]
           it2 == CHOOSE iter :
                    iter = [q \in SUBSET (DOMAIN s) |->
                              IF q = {} THEN db
                              ELSE IF s[Max(q)] \in W
                                   THEN WriteName(iter[q \ {Max(q)}], b, s[Max(q)])
                                   ELSE iter[q \ {Max(q)}]]
<1>1. m \in Nat /\ DOMAIN s = 1 .. m
  <2>1. s \in Seq(Txs)
    BY TxAssumption
  <2> HIDE DEF s
  <2> QED BY <2>1
<1>2. \A x \in DBs, i \in 1 .. m : s[i] \in W =>
         s[i] \in NameTxs /\ WriteName(x, b, s[i]) \in DBs
  BY WrittenType, WriteNameIs
<1>3. IsTable(F, m, DBs)
  <2> HIDE DEF W, s, m
  <2> QED BY <1>1, <1>2 DEF IsTable
<1>4. \A x \in DBs, i \in 1 .. m :
         F[<<x, i>>] = IF s[i] \in W THEN WriteName(x, b, s[i]) ELSE x
  <2> HIDE DEF W, s, m
  <2> QED OBVIOUS
<1>5. ConnectNames(db, b) = it2[DOMAIN s]
  BY DEF ConnectNames, FoldLeft, MapThenFoldSet
<1> DEFINE Folds(it) == it = [q \in SUBSET (DOMAIN s) |->
                                IF q = {} THEN db
                                ELSE IF s[Max(q)] \in W
                                     THEN WriteName(it[q \ {Max(q)}], b, s[Max(q)])
                                     ELSE it[q \ {Max(q)}]]
<1> HIDE DEF F, W, s, m
<1>6. \E it : Folds(it)
  <2>1. PICK it \in [SUBSET (1 .. m) -> DBs] : IsIter(it, m, db, F)
    BY <1>1, <1>3, IterExists DEF IsTable
  <2>2. ASSUME NEW q \in SUBSET (1 .. m), q # {}
        PROVE  F[<<it[q \ {Max(q)}], Max(q)>>]
                 = IF s[Max(q)] \in W THEN WriteName(it[q \ {Max(q)}], b, s[Max(q)])
                   ELSE it[q \ {Max(q)}]
    <3>1. Max(q) \in 1 .. m /\ q \ {Max(q)} \in SUBSET (1 .. m)
      BY <2>2, <1>1, MaxExists
    <3>2. it[q \ {Max(q)}] \in DBs
      BY <3>1
    <3> QED BY <3>1, <3>2, <1>4
  <2>3. Folds(it)
    BY <1>1, <2>1, <2>2 DEF IsIter
  <2> QED BY <2>3
<1>7. Folds(it2)
  BY <1>6
<1> HIDE DEF it2
<1>8. TakesSteps(it2, m, DBs, db, F)
  <2>1. it2[{}] = db
    BY <1>7
  <2>2. ASSUME NEW i \in 1 .. m, it2[1 .. (i - 1)] \in DBs
        PROVE  it2[1 .. i] = F[<<it2[1 .. (i - 1)], i>>]
    <3>1. 1 .. i \in SUBSET (DOMAIN s) /\ 1 .. i # {}
      BY <1>1, LastOfInterval
    <3>2. Max(1 .. i) = i /\ (1 .. i) \ {Max(1 .. i)} = 1 .. (i - 1)
      BY <1>1, LastOfInterval
    <3>3. it2[1 .. i] = IF s[i] \in W THEN WriteName(it2[1 .. (i - 1)], b, s[i])
                        ELSE it2[1 .. (i - 1)]
      BY <1>7, <3>1, <3>2
    <3> QED BY <3>3, <1>4, <2>2
  <2> QED BY <2>1, <2>2 DEF TakesSteps
<1>9. PICK g \in [0 .. m -> DBs] : IsRun(g, m, db, F) /\ it2[1 .. m] = g[m]
  <2>1. LeadsTo(m, DBs, db, F, it2[1 .. m])
    BY <1>3, <1>8, TableFold
  <2> QED BY <2>1 DEF LeadsTo
<1>10. WrittenUpTo(g[m], db, b, m)
  <2> DEFINE S == {i \in 0 .. m : WrittenUpTo(g[i], db, b, i)}
  <2>1. 0 \in S
    <3>1. g[0] = db
      BY <1>9 DEF IsRun
    <3>2. \A j \in 1 .. 0 : FALSE
      OBVIOUS
    <3>3. WrittenUpTo(g[0], db, b, 0)
      BY <3>1, <3>2 DEF WrittenUpTo
    <3> QED BY <1>1, <3>3
  <2>2. ASSUME NEW i \in 1 .. m, i - 1 \in S PROVE i \in S
    <3>1. /\ i \in Nat /\ i - 1 \in 0 .. m /\ i \in 0 .. m
          /\ \A j \in 1 .. i : j = i \/ j \in 1 .. (i - 1)
          /\ \A j \in 1 .. (i - 1) : j \in 1 .. i /\ j # i
          /\ i \in 1 .. i
          /\ \A j \in 1 .. i : j \in DOMAIN s
      BY <1>1
    <3>2. WrittenUpTo(g[i - 1], db, b, i - 1) /\ g[i - 1] \in DBs
      BY <2>2, <3>1
    <3>3. g[i] = IF s[i] \in W THEN WriteName(g[i - 1], b, s[i]) ELSE g[i - 1]
      BY <1>4, <1>9, <3>1, <3>2 DEF IsRun
    <3>4. CASE s[i] \notin W
      BY <3>1, <3>2, <3>3, <3>4 DEF WrittenUpTo, W, s
    <3>5. CASE s[i] \in W
      <4> DEFINE nm == NameOf[s[i]]
      <4>1. s[i] \in NameTxs /\ nm \in Names
        BY <3>5, WrittenType, NameTxType DEF W
      <4>2. g[i] = [g[i - 1] EXCEPT ![nm] = NewRecord(OldRecord(g[i - 1][nm]), b, s[i])]
        BY <3>2, <3>3, <3>5, <4>1, WriteNameIs
      <4>3. \A j \in 1 .. i : s[j] \in W /\ NameOf[s[j]] = nm => j = i
        <5> SUFFICES ASSUME NEW j \in 1 .. i, s[j] \in W, NameOf[s[j]] = nm PROVE j = i
          OBVIOUS
        <5>1. s[j] = s[i]
          BY <3>5, OneWritten DEF W
        <5>2. j \in DOMAIN s /\ i \in DOMAIN s
          BY <3>1
        <5> QED BY <5>1, <5>2, TxAssumption DEF s
      <4>4. g[i - 1][nm] = db[nm]
        BY <3>1, <3>2, <4>1, <4>3 DEF WrittenUpTo, W, s
      <4>5. g[i][nm] = NewRecord(OldRecord(db[nm]), b, s[i])
        BY <3>2, <4>1, <4>2, <4>4 DEF DBs
      <4>6. \A n \in Names : n # nm => g[i][n] = g[i - 1][n]
        BY <3>2, <4>1, <4>2 DEF DBs
      <4>7. ASSUME NEW n \in Names
            PROVE  /\ \A j \in 1 .. i : s[j] \in W /\ NameOf[s[j]] = n =>
                        g[i][n] = NewRecord(OldRecord(db[n]), b, s[j])
                   /\ (\A j \in 1 .. i : s[j] \in W => NameOf[s[j]] # n) =>
                        g[i][n] = db[n]
        <5>1. CASE n = nm
          BY <5>1, <3>1, <3>5, <4>3, <4>5
        <5>2. CASE n # nm
          <6>1. /\ \A j \in 1 .. (i - 1) : s[j] \in W /\ NameOf[s[j]] = n =>
                     g[i - 1][n] = NewRecord(OldRecord(db[n]), b, s[j])
                /\ (\A j \in 1 .. (i - 1) : s[j] \in W => NameOf[s[j]] # n) =>
                     g[i - 1][n] = db[n]
            BY <3>2 DEF WrittenUpTo, W, s
          <6> QED BY <5>2, <6>1, <3>1, <4>6
        <5> QED BY <5>1, <5>2
      <4>8. WrittenUpTo(g[i], db, b, i)
        BY <4>7 DEF WrittenUpTo, W, s
      <4> QED BY <3>1, <4>8
    <3> QED BY <3>4, <3>5
  <2> HIDE DEF S
  <2>3. m \in S
    BY <1>1, <2>1, <2>2, IntervalInduction
  <2> QED BY <2>3 DEF S
<1>11. ConnectNames(db, b) = g[m] /\ g[m] \in DBs
  BY <1>1, <1>5, <1>9
<1>12. ASSUME NEW t \in W PROVE g[m][NameOf[t]] = NewRecord(OldRecord(db[NameOf[t]]), b, t)
  <2>1. t \in BlockTxs(b) /\ NameOf[t] \in Names
    BY WrittenType, NameTxType DEF W
  <2>2. PICK i \in 1 .. m : s[i] = t
    BY <2>1, <1>1, BlockTxsType DEF s
  <2> QED BY <2>1, <2>2, <1>10 DEF WrittenUpTo, W, s
<1>13. ASSUME NEW n \in Names, \A t \in W : NameOf[t] # n PROVE g[m][n] = db[n]
  BY <1>10, <1>13 DEF WrittenUpTo, W
<1> QED BY <1>11, <1>12, <1>13 DEF W

-----------------------------------------------------------------------------
(***************************************************************************)
(* What holds of every record, whatever calls have ended halfway: the      *)
(* active chain starts at the last registration, and an operation that is  *)
(* no registration spends the name output of the one before it.            *)
(***************************************************************************)

Linked(e, f) == <<e.pos[2], nOut[e.pos[2]]>> \in vin[f.pos[2]]

StartsAtLast(rec) ==
  IF rec.nLastActiveChainIndex < Len(rec.vtxPos)
  THEN /\ rec.vtxPos[rec.nLastActiveChainIndex + 1].op = "new"
       /\ \A i \in 1 .. Len(rec.vtxPos) :
             rec.vtxPos[i].op = "new" => i <= rec.nLastActiveChainIndex + 1
  ELSE \A i \in 1 .. Len(rec.vtxPos) : rec.vtxPos[i].op # "new"

AllLinked(rec) ==
  \A i \in 1 .. (Len(rec.vtxPos) - 1) :
     rec.vtxPos[i + 1].op # "new" => Linked(rec.vtxPos[i], rec.vtxPos[i + 1])

RecordOK(rec) == StartsAtLast(rec) /\ AllLinked(rec)

RecordsOK(db) == db \in DBs /\ \A n \in Names : db[n] # Nil => RecordOK(db[n])

\* The records a block needs can be read.
NeededReadable(db, b) ==
  \A t \in BlockTxs(b) \cap NameTxs :
     ReadsRecord(t) /\ db[NameOf[t]] # Nil => Readable(db[NameOf[t]])

\* A registration, or an operation that spends the last one, keeps a record good.
LEMMA NewRecordOK ==
  ASSUME NEW rec \in Workable, NEW b \in Blocks, NEW t \in NameTxs,
         rec.vtxPos = <<>> \/ RecordOK(rec),
         OpOf[t] # "new" => /\ rec.nLastActiveChainIndex < Len(rec.vtxPos)
                            /\ Linked(rec.vtxPos[Len(rec.vtxPos)], EntryOf(b, t))
  PROVE  /\ RecordOK(NewRecord(rec, b, t))
         /\ NewRecord(rec, b, t).nLastActiveChainIndex < Len(NewRecord(rec, b, t).vtxPos)
<1> DEFINE new == NewRecord(rec, b, t)
           e == EntryOf(b, t)
           k == IF OpOf[t] = "new" THEN Len(rec.vtxPos)
                ELSE rec.nLastActiveChainIndex
           v == rec.vtxPos
           w == new.vtxPos
           L == Len(rec.vtxPos)
<1>1. /\ v \in Seq(Entry) /\ L \in Nat /\ rec.nLastActiveChainIndex \in Nat
      /\ rec.nLastActiveChainIndex <= L
  BY RecordFields DEF Workable
<1>2. PICK d \in Nat : Extends(new, rec, e, d, k)
  BY NewRecordIs
<1>3. e.op = OpOf[t]
  BY DEF EntryOf
<1> HIDE DEF new, e
<1>4. /\ Len(w) = L + 1 - d /\ new.nLastActiveChainIndex = k - d /\ d <= k /\ k <= L
      /\ \A i \in 1 .. (L - d) : w[i] = v[i + d]
      /\ w[L + 1 - d] = e
      /\ k \in Nat
  BY <1>2 DEF Extends
<1>a. rec.vtxPos = <<>> => L = 0
  OBVIOUS
<1>b. OpOf[t] = "new" => k = L
  OBVIOUS
<1>c. OpOf[t] # "new" => k = rec.nLastActiveChainIndex
  OBVIOUS
<1> HIDE DEF w, v, L, k
<1>5. new.nLastActiveChainIndex < Len(w)
  BY <1>1, <1>4
<1>6. w[new.nLastActiveChainIndex + 1].op = "new"
  <2>1. CASE OpOf[t] = "new"
    BY <2>1, <1>1, <1>3, <1>4, <1>b
  <2>2. CASE OpOf[t] # "new"
    <3>1. k < L
      BY <2>2, <1>c DEF L
    <3>2. RecordOK(rec)
      BY <3>1, <1>1, <1>4, <1>a
    <3>3. v[k + 1].op = "new"
      BY <2>2, <3>1, <3>2, <1>c DEF RecordOK, StartsAtLast, v, L
    <3>4. k - d + 1 \in 1 .. (L - d) /\ k - d + 1 + d = k + 1
      BY <3>1, <1>1, <1>4
    <3> QED BY <3>3, <3>4, <1>4
  <2> QED BY <2>1, <2>2
<1>7. ASSUME NEW i \in 1 .. Len(w), w[i].op = "new"
      PROVE  i <= new.nLastActiveChainIndex + 1
  <2>1. CASE OpOf[t] = "new"
    BY <2>1, <1>1, <1>4, <1>b
  <2>2. CASE OpOf[t] # "new"
    <3>1. k < L
      BY <2>2, <1>c DEF L
    <3>2. RecordOK(rec)
      BY <3>1, <1>1, <1>4, <1>a
    <3>3. i # L + 1 - d
      BY <2>2, <1>3, <1>4, <1>7
    <3>4. i \in 1 .. (L - d) /\ i + d \in 1 .. L
      BY <3>3, <1>1, <1>4
    <3>5. v[i + d].op = "new"
      BY <3>4, <1>4, <1>7
    <3>6. i + d <= k + 1
      BY <2>2, <3>1, <3>2, <3>4, <3>5, <1>c DEF RecordOK, StartsAtLast, v, L
    <3> QED BY <3>4, <3>6, <1>1, <1>4
  <2> QED BY <2>1, <2>2
<1>8. ASSUME NEW i \in 1 .. (Len(w) - 1), w[i + 1].op # "new"
      PROVE  Linked(w[i], w[i + 1])
  <2>1. i \in 1 .. (L - d) /\ w[i] = v[i + d] /\ L # 0
    BY <1>1, <1>4
  <2>2. RecordOK(rec)
    BY <2>1, <1>a
  <2>3. CASE i = L - d
    <3>1. w[i + 1] = e /\ w[i] = v[L]
      BY <2>1, <2>3, <1>1, <1>4
    <3>2. OpOf[t] # "new"
      BY <3>1, <1>3, <1>8
    <3> QED BY <3>1, <3>2 DEF v, L, e
  <2>4. CASE i # L - d
    <3>1. i + 1 \in 1 .. (L - d) /\ i + d \in 1 .. (L - 1) /\ i + 1 + d = i + d + 1
      BY <2>1, <2>4, <1>1, <1>4
    <3>2. w[i + 1] = v[i + d + 1]
      BY <3>1, <1>4
    <3> QED BY <2>1, <2>2, <3>1, <3>2, <1>8 DEF RecordOK, AllLinked, v, L
  <2> QED BY <2>3, <2>4
<1>9. RecordOK(new)
  BY <1>5, <1>6, <1>7, <1>8 DEF RecordOK, StartsAtLast, AllLinked, w
<1> QED BY <1>5, <1>9 DEF new, w

\* An operation that is written and is no registration finds the record in use,
\* and spends the name output of its last operation.
LEMMA WrittenSpendsLast ==
  ASSUME NEW db \in DBs, NEW b \in Blocks, NEW t \in Written(db, b),
         OpOf[t] # "new", NeededReadable(db, b)
  PROVE  LET rec == db[NameOf[t]] IN
         /\ rec \in Stored /\ rec # Nil
         /\ rec.nLastActiveChainIndex < Len(rec.vtxPos)
         /\ Linked(rec.vtxPos[Len(rec.vtxPos)], EntryOf(b, t))
<1> DEFINE rec == db[NameOf[t]]
<1>1. /\ t \in BlockTxs(b) /\ t \in NameTxs /\ NameOf[t] \in Names
      /\ ReadsRecord(t) /\ NameActive(db, NameOf[t], Height[b])
  BY WrittenType, NameTxType DEF ConnectInputs
<1>2. PICK u \in PrevNames(t) : CheckNameTxPos(rec, PosOf(b, u))
  BY WrittenType DEF ConnectInputs
<1>3. rec # Nil /\ rec \in Stored
  BY <1>1 DEF NameActive, DBs
<1>4. rec.vtxPos # <<>> /\ Len(rec.vtxPos) \in Nat /\ rec.nLastActiveChainIndex \in Nat
  BY <1>3, RecordFields DEF Stored, Workable
<1>5. rec.nLastActiveChainIndex < Len(rec.vtxPos)
  <2>1. Readable(rec)
    BY <1>1, <1>3 DEF NeededReadable
  <2> QED BY <2>1, <1>4 DEF Readable
<1>6. rec.vtxPos[Len(rec.vtxPos)].pos[2] = u
  BY <1>2 DEF CheckNameTxPos, PosOf, Last
<1>7. EntryOf(b, t).pos[2] = t
  BY DEF EntryOf
<1>8. Linked(rec.vtxPos[Len(rec.vtxPos)], EntryOf(b, t))
  BY <1>2, <1>6, <1>7 DEF Linked, PrevNames
<1> QED BY <1>3, <1>5, <1>8

\* Connecting a block keeps the records good, and those it writes can be read.
LEMMA ConnectKeepsOK ==
  ASSUME NEW db, RecordsOK(db), NEW b \in Blocks, NeededReadable(db, b),
         ~(Height[b] < RELEASE_HEIGHT)
  PROVE  /\ RecordsOK(ConnectNames(db, b))
         /\ \A t \in Written(db, b) :
              LET new == ConnectNames(db, b)[NameOf[t]]
              IN  new \in Stored /\ new.nLastActiveChainIndex < Len(new.vtxPos)
<1>1. db \in DBs /\ \A n \in Names : db[n] # Nil => RecordOK(db[n])
  BY DEF RecordsOK
<1> DEFINE cdb == ConnectNames(db, b)
<1>2. /\ cdb \in DBs
      /\ \A t \in Written(db, b) :
           cdb[NameOf[t]] = NewRecord(OldRecord(db[NameOf[t]]), b, t)
      /\ \A n \in Names : (\A t \in Written(db, b) : NameOf[t] # n) => cdb[n] = db[n]
  BY <1>1, ConnectNamesIs
<1> HIDE DEF cdb
<1>3. ASSUME NEW t \in Written(db, b)
      PROVE  /\ RecordOK(cdb[NameOf[t]]) /\ cdb[NameOf[t]] \in Stored
             /\ cdb[NameOf[t]].nLastActiveChainIndex < Len(cdb[NameOf[t]].vtxPos)
  <2> DEFINE rec == OldRecord(db[NameOf[t]])
  <2>1. t \in NameTxs /\ NameOf[t] \in Names
    BY WrittenType, NameTxType
  <2>2. rec \in Workable
    BY <1>1, <2>1, OldRecordType
  <2>3. rec.vtxPos = <<>> \/ RecordOK(rec)
    BY <1>1, <2>1 DEF OldRecord, EmptyRecord
  <2>4. OpOf[t] # "new" => /\ rec.nLastActiveChainIndex < Len(rec.vtxPos)
                           /\ Linked(rec.vtxPos[Len(rec.vtxPos)], EntryOf(b, t))
    BY <1>1, WrittenSpendsLast DEF OldRecord
  <2> HIDE DEF rec
  <2>5. /\ RecordOK(NewRecord(rec, b, t)) /\ NewRecord(rec, b, t) \in Stored
        /\ NewRecord(rec, b, t).nLastActiveChainIndex < Len(NewRecord(rec, b, t).vtxPos)
    BY <2>1, <2>2, <2>3, <2>4, NewRecordOK, NewRecordIs
  <2>6. cdb[NameOf[t]] = NewRecord(rec, b, t)
    BY <1>2 DEF rec
  <2> QED BY <2>5, <2>6
<1>4. ASSUME NEW n \in Names, cdb[n] # Nil PROVE RecordOK(cdb[n])
  <2>1. CASE \E t \in Written(db, b) : NameOf[t] = n
    BY <2>1, <1>3
  <2>2. CASE \A t \in Written(db, b) : NameOf[t] # n
    BY <2>2, <1>1, <1>2, <1>4
  <2> QED BY <2>1, <2>2
<1>5. RecordsOK(cdb)
  BY <1>2, <1>4 DEF RecordsOK
<1> QED BY <1>3, <1>5 DEF cdb

-----------------------------------------------------------------------------
(***************************************************************************)
(* Disconnecting a block.                                                  *)
(***************************************************************************)

\* Where the active chain starts without the last operation.
LEMMA PoppedIs ==
  ASSUME NEW rec \in Stored, rec.nLastActiveChainIndex < Len(rec.vtxPos),
         StartsAtLast(rec), Len(rec.vtxPos) # 1
  PROVE  LET new == Popped(rec) IN
         /\ new \in Stored /\ StartsAtLast(new)
         /\ Len(new.vtxPos) = Len(rec.vtxPos) - 1
         /\ \A i \in 1 .. (Len(rec.vtxPos) - 1) : new.vtxPos[i] = rec.vtxPos[i]
<1> DEFINE v == rec.vtxPos
           L == Len(v)
           k == rec.nLastActiveChainIndex
           rest == Front(v)
           news == {i \in DOMAIN rest : rest[i].op = "new"}
           kk == IF Last(v).op = "new" /\ news # {}
                 THEN (CHOOSE i \in news : \A j \in news : j <= i) - 1 ELSE k
           new == Popped(rec)
<1>1. /\ rec \in Record /\ v \in Seq(Entry) /\ v # <<>> /\ L \in Nat /\ k \in Nat
      /\ k < L /\ L > 1
  <2>1. rec \in Record /\ v \in Seq(Entry) /\ v # <<>> /\ L \in Nat /\ k \in Nat
    BY RecordFields DEF Stored, Workable
  <2>2. L # 0 /\ L # 1 /\ k < L
    BY <2>1
  <2> HIDE DEF L, k
  <2>3. L > 1
    BY <2>1, <2>2
  <2> QED BY <2>1, <2>2, <2>3
<1>2. /\ rest \in Seq(Entry) /\ Len(rest) = L - 1 /\ DOMAIN rest = 1 .. (L - 1)
      /\ \A i \in 1 .. (L - 1) : rest[i] = v[i]
  <2> HIDE DEF v
  <2> QED BY <1>1 DEF Front
<1>3. new = [rec EXCEPT !.vtxPos = rest, !.nLastActiveChainIndex = kk]
  BY DEF Popped
<1>4. Last(v) = v[L]
  BY DEF Last
<1>5. /\ v[k + 1].op = "new"
      /\ \A i \in 1 .. L : v[i].op = "new" => i <= k + 1
  BY DEF StartsAtLast
<1> HIDE DEF rest, new
<1>6. news \in SUBSET (1 .. (L - 1)) /\ \A i \in news : v[i].op = "new"
  BY <1>2
<1>7. \A i \in 1 .. (L - 1) : v[i].op = "new" => i \in news
  BY <1>2
<1> HIDE DEF news
<1>8. CASE Last(v).op = "new" /\ news # {}
  <2> DEFINE c == CHOOSE i \in news : \A j \in news : j <= i
  <2>1. \E i \in news : \A j \in news : j <= i
    <3>1. L - 1 \in Nat
      BY <1>1
    <3> QED BY <3>1, <1>6, <1>8, LargestExists
  <2>2. c \in news /\ \A j \in news : j <= c
    BY <2>1
  <2>3. kk = c - 1
    BY <1>8
  <2> HIDE DEF c, kk
  <2>4. c \in 1 .. (L - 1) /\ kk \in Nat /\ kk < L - 1 /\ kk + 1 = c
    BY <2>2, <2>3, <1>1, <1>6
  <2>5. new \in Record /\ new.vtxPos = rest /\ new.nLastActiveChainIndex = kk
    BY <1>1, <1>2, <1>3, <2>4 DEF Record
  <2>6. rest # <<>>
    BY <1>1, <1>2
  <2>7. new \in Stored
    BY <1>1, <1>2, <2>4, <2>5, <2>6 DEF Stored, Workable
  <2>8. StartsAtLast(new)
    BY <1>1, <1>2, <1>6, <1>7, <2>2, <2>4, <2>5 DEF StartsAtLast
  <2> QED BY <1>2, <2>5, <2>7, <2>8 DEF new
<1>9. CASE ~(Last(v).op = "new" /\ news # {})
  <2>1. kk = k
    BY <1>9
  <2> HIDE DEF kk
  <2>5. new \in Record /\ new.vtxPos = rest /\ new.nLastActiveChainIndex = k
    BY <1>1, <1>2, <1>3, <2>1 DEF Record
  <2>6. rest # <<>>
    BY <1>1, <1>2
  <2>7. new \in Stored
    BY <1>1, <1>2, <2>5, <2>6 DEF Stored, Workable
  <2>8. CASE v[L].op = "new"
    <3>1. news = {} /\ k = L - 1
      BY <2>8, <1>1, <1>4, <1>5, <1>9
    <3>2. \A i \in 1 .. (L - 1) : rest[i].op # "new"
      BY <3>1, <1>2, <1>7
    <3>3. StartsAtLast(new)
      BY <3>1, <3>2, <1>1, <1>2, <2>5 DEF StartsAtLast
    <3> QED BY <3>3, <1>2, <2>5, <2>7 DEF new
  <2>9. CASE v[L].op # "new"
    <3>1. k < L - 1
      BY <2>9, <1>1, <1>5
    <3>a. /\ k < Len(rest) /\ rest[k + 1].op = "new"
          /\ \A i \in 1 .. Len(rest) : rest[i].op = "new" => i <= k + 1
      <4> HIDE DEF k, L, v
      <4>1. k + 1 \in 1 .. (L - 1)
        BY <3>1, <1>1
      <4> QED BY <4>1, <3>1, <1>1, <1>2, <1>5
    <3>2. StartsAtLast(new)
      BY <3>a, <2>5 DEF StartsAtLast
    <3> QED BY <3>2, <1>2, <2>5, <2>7 DEF new
  <2> QED BY <2>8, <2>9
<1> QED BY <1>8, <1>9

\* The record without its last operation is as good as before.  Where a
\* registration is left it can be read and ends when its active chain does.
LEMMA UndoneIs ==
  ASSUME NEW rec \in Stored, rec.nLastActiveChainIndex < Len(rec.vtxPos),
         RecordOK(rec), Len(rec.vtxPos) # 1
  PROVE  LET new == Undone(rec) IN
         /\ new \in Stored /\ RecordOK(new)
         /\ Len(new.vtxPos) = Len(rec.vtxPos) - 1
         /\ \A i \in 1 .. (Len(rec.vtxPos) - 1) : new.vtxPos[i] = rec.vtxPos[i]
         /\ Readable(Popped(rec)) => /\ new.nLastActiveChainIndex < Len(new.vtxPos)
                                     /\ new.nExpiresAt = Expiry(new)
<1> DEFINE pop == Popped(rec)
           new == Undone(rec)
           L == Len(rec.vtxPos)
<1>1. /\ pop \in Stored /\ StartsAtLast(pop) /\ Len(pop.vtxPos) = L - 1
      /\ \A i \in 1 .. (L - 1) : pop.vtxPos[i] = rec.vtxPos[i]
  BY PoppedIs DEF RecordOK
<1>2. /\ rec \in Record /\ rec.vtxPos \in Seq(Entry) /\ L \in Nat /\ L > 0
      /\ rec.vtxPos # <<>>
  <2>1. /\ rec \in Record /\ rec.vtxPos \in Seq(Entry) /\ L \in Nat
        /\ rec.vtxPos # <<>>
    BY RecordFields DEF Stored, Workable
  <2> QED BY <2>1
<1> HIDE DEF pop
<1>3. pop \in Workable /\ pop \in Record /\ pop.vtxPos # <<>>
  BY <1>1 DEF Stored, Workable
<1>4. /\ new \in Record /\ new.vtxPos = pop.vtxPos
      /\ new.nLastActiveChainIndex = pop.nLastActiveChainIndex
      /\ Readable(pop) => new.nExpiresAt = Expiry(pop)
  <2>1. CASE Readable(pop) \/ deleted(pop)
    <3>1. new = CalculateExpiresAt(pop)
      BY <2>1 DEF Undone, pop
    <3>2. deleted(pop) \/ pop.nLastActiveChainIndex < Len(pop.vtxPos)
      BY <2>1, <1>3, RecordFields DEF Readable
    <3> QED BY <3>1, <3>2, <1>3, CalculateExpiresAtIs
  <2>2. CASE ~(Readable(pop) \/ deleted(pop))
    <3>1. new = [pop EXCEPT !.nExpiresAt = Last(rec.vtxPos).nHeight]
      BY <2>2 DEF Undone, pop
    <3>2. Last(rec.vtxPos) \in Entry
      BY <1>2 DEF Last
    <3>3. Last(rec.vtxPos).nHeight \in Nat
      BY <3>2 DEF Entry
    <3> QED BY <2>2, <3>1, <3>3, <1>3 DEF Record
  <2> QED BY <2>1, <2>2
<1> HIDE DEF new
<1>5. new \in Stored
  BY <1>1, <1>4 DEF Stored, Workable
<1>6. AllLinked(new)
  <2> SUFFICES ASSUME NEW i \in 1 .. (Len(new.vtxPos) - 1), new.vtxPos[i + 1].op # "new"
               PROVE  Linked(new.vtxPos[i], new.vtxPos[i + 1])
    BY DEF AllLinked
  <2>1. Len(new.vtxPos) = L - 1
    BY <1>1, <1>4
  <2> HIDE DEF L
  <2>2. i \in 1 .. (L - 1) /\ i + 1 \in 1 .. (L - 1)
    BY <2>1, <1>2
  <2>3. new.vtxPos[i] = rec.vtxPos[i] /\ new.vtxPos[i + 1] = rec.vtxPos[i + 1]
    BY <2>2, <1>1, <1>4
  <2> QED BY <2>2, <2>3 DEF RecordOK, AllLinked, L
<1>7. RecordOK(new)
  BY <1>1, <1>4, <1>6 DEF RecordOK, StartsAtLast
<1>8. Expiry(new) = Expiry(pop)
  BY <1>4 DEF Expiry, deleted, ActiveChain
<1>9. Readable(pop) => pop.nLastActiveChainIndex < Len(pop.vtxPos)
  BY <1>3, RecordFields DEF Readable
<1> QED BY <1>1, <1>4, <1>5, <1>7, <1>8, <1>9 DEF new, pop

\* The states UndoName works on.
UndoStates == {s \in [db : DBs, ok : BOOLEAN] : RecordsOK(s.db)}

\* UndoName, case by case.
LEMMA UndoNameIs ==
  ASSUME NEW s \in UndoStates, NEW t \in Txs
  PROVE  LET new == UndoName(s, t)
             rec == s.db[NameOf[t]]
         IN
         /\ new \in UndoStates
         /\ ~s.ok \/ t \notin NameTxs \/ rec = Nil => new = s
         /\ s.ok /\ t \in NameTxs /\ rec # Nil =>
              /\ rec \in Stored /\ RecordOK(rec)
              /\ new.ok = (Readable(rec) /\ Last(rec.vtxPos).pos[2] = t)
              /\ new.ok /\ Len(rec.vtxPos) = 1 => new.db = s.db
              /\ new.ok /\ Len(rec.vtxPos) # 1 =>
                   new.db = [s.db EXCEPT ![NameOf[t]] = Undone(rec)]
<1> DEFINE nm == NameOf[t]
           rec == s.db[nm]
           new == UndoName(s, t)
<1>1. s.db \in DBs /\ s.ok \in BOOLEAN /\ RecordsOK(s.db) /\ s \in [db : DBs, ok : BOOLEAN]
  BY DEF UndoStates
<1>2. CASE ~s.ok \/ t \notin NameTxs \/ rec = Nil
  <2>1. new = s
    BY <1>2 DEF UndoName
  <2> QED BY <1>2, <2>1
<1>3. CASE s.ok /\ t \in NameTxs /\ rec # Nil
  <2>1. nm \in Names /\ rec \in Stored /\ RecordOK(rec)
    BY <1>1, <1>3, NameTxType DEF RecordsOK, DBs
  <2>2. CASE ~Readable(rec) \/ Last(rec.vtxPos).pos[2] # t
    <3>1. new = [s EXCEPT !.ok = FALSE]
      BY <1>3, <2>2 DEF UndoName
    <3>2. new \in [db : DBs, ok : BOOLEAN] /\ new.db = s.db /\ new.ok = FALSE
      BY <1>1, <3>1
    <3>3. new \in UndoStates
      BY <1>1, <3>2 DEF UndoStates
    <3> QED BY <1>3, <2>1, <2>2, <3>2, <3>3
  <2>3. CASE ~(~Readable(rec) \/ Last(rec.vtxPos).pos[2] # t) /\ Len(rec.vtxPos) = 1
    <3>1. new = s
      BY <1>3, <2>3 DEF UndoName
    <3> QED BY <1>3, <2>1, <2>3, <3>1
  <2>4. CASE ~(~Readable(rec) \/ Last(rec.vtxPos).pos[2] # t) /\ Len(rec.vtxPos) # 1
    <3>1. new = [s EXCEPT !.db = [s.db EXCEPT ![nm] = Undone(rec)]]
      BY <1>1, <1>3, <2>4 DEF UndoName
    <3>2. rec.nLastActiveChainIndex < Len(rec.vtxPos)
      BY <2>1, <2>4, RecordFields DEF Readable, Stored, Workable
    <3>3. Undone(rec) \in Stored /\ RecordOK(Undone(rec))
      BY <2>1, <2>4, <3>2, UndoneIs
    <3> DEFINE ndb == [s.db EXCEPT ![nm] = Undone(rec)]
    <3>4. RecordsOK(ndb) /\ ndb \in DBs
      BY <1>1, <2>1, <3>3 DEF RecordsOK, DBs
    <3> HIDE DEF ndb
    <3>5. new \in [db : DBs, ok : BOOLEAN] /\ new.db = ndb /\ new.ok = s.ok
      BY <1>1, <3>1, <3>4 DEF ndb
    <3>6. new \in UndoStates
      BY <3>4, <3>5 DEF UndoStates
    <3> QED BY <1>3, <2>1, <2>4, <3>5, <3>6 DEF ndb
  <2> QED BY <2>2, <2>3, <2>4
<1> QED BY <1>2, <1>3

\* The states of a disconnection of b, one after the other: the i-th undoes the
\* i-th transaction from the end.
UndoRun(g, db, b) ==
  /\ g \in [0 .. Len(vtx[b]) -> UndoStates]
  /\ g[0] = [db |-> db, ok |-> TRUE]
  /\ \A i \in 1 .. Len(vtx[b]) :
        g[i] = UndoName(g[i - 1], vtx[b][(Len(vtx[b]) - i) + 1])
  /\ DisconnectNames(db, b) = g[Len(vtx[b])]

\* DisconnectNames is such a run.
LEMMA DisconnectNamesIs ==
  ASSUME NEW db, RecordsOK(db), NEW b \in Blocks
  PROVE  \E g : UndoRun(g, db, b)
<1> DEFINE r == Reverse(vtx[b])
           m == Len(vtx[b])
           base == [db |-> db, ok |-> TRUE]
           F == [p \in UndoStates \X (1 .. m) |-> UndoName(p[1], r[p[2]])]
           it2 == CHOOSE iter :
                    iter = [q \in SUBSET (DOMAIN r) |->
                              IF q = {} THEN base
                              ELSE UndoName(iter[q \ {Max(q)}], r[Max(q)])]
<1>1. /\ m \in Nat /\ DOMAIN r = 1 .. m
      /\ \A i \in 1 .. m : r[i] = vtx[b][(m - i) + 1] /\ r[i] \in Txs
  <2>1. vtx[b] \in Seq(Txs)
    BY TxAssumption
  <2> QED BY <2>1 DEF Reverse
<1>2. base \in UndoStates
  BY DEF UndoStates, RecordsOK
<1>3. DisconnectNames(db, b) = it2[DOMAIN r]
  BY DEF DisconnectNames, FoldLeft, MapThenFoldSet
<1> DEFINE Folds(it) == it = [q \in SUBSET (DOMAIN r) |->
                                IF q = {} THEN base
                                ELSE UndoName(it[q \ {Max(q)}], r[Max(q)])]
<1> HIDE DEF r, base
<1>4. \A x \in UndoStates, i \in 1 .. m : UndoName(x, r[i]) \in UndoStates
  BY <1>1, UndoNameIs
<1>5. IsTable(F, m, UndoStates)
  <2> HIDE DEF m
  <2> QED BY <1>1, <1>4 DEF IsTable
<1>6. \A x \in UndoStates, i \in 1 .. m : F[<<x, i>>] = UndoName(x, r[i])
  <2> HIDE DEF m
  <2> QED OBVIOUS
<1> HIDE DEF F, m
<1>7. \E it : Folds(it)
  <2>1. PICK it \in [SUBSET (1 .. m) -> UndoStates] : IsIter(it, m, base, F)
    BY <1>1, <1>2, <1>5, IterExists DEF IsTable
  <2>2. ASSUME NEW q \in SUBSET (1 .. m), q # {}
        PROVE  F[<<it[q \ {Max(q)}], Max(q)>>] = UndoName(it[q \ {Max(q)}], r[Max(q)])
    <3>1. Max(q) \in 1 .. m /\ q \ {Max(q)} \in SUBSET (1 .. m)
      BY <2>2, <1>1, MaxExists
    <3>2. it[q \ {Max(q)}] \in UndoStates
      BY <3>1
    <3> QED BY <3>1, <3>2, <1>6
  <2>3. Folds(it)
    BY <1>1, <2>1, <2>2 DEF IsIter
  <2> QED BY <2>3
<1>8. Folds(it2)
  BY <1>7
<1> HIDE DEF it2
<1>9. TakesSteps(it2, m, UndoStates, base, F)
  <2>1. it2[{}] = base
    BY <1>8
  <2>2. ASSUME NEW i \in 1 .. m, it2[1 .. (i - 1)] \in UndoStates
        PROVE  it2[1 .. i] = F[<<it2[1 .. (i - 1)], i>>]
    <3>1. 1 .. i \in SUBSET (DOMAIN r) /\ 1 .. i # {}
      BY <1>1, LastOfInterval
    <3>2. Max(1 .. i) = i /\ (1 .. i) \ {Max(1 .. i)} = 1 .. (i - 1)
      BY <1>1, LastOfInterval
    <3>3. it2[1 .. i] = UndoName(it2[1 .. (i - 1)], r[i])
      BY <1>8, <3>1, <3>2
    <3> QED BY <3>3, <1>6, <2>2
  <2> QED BY <2>1, <2>2 DEF TakesSteps
<1>10. PICK g \in [0 .. m -> UndoStates] : IsRun(g, m, base, F) /\ it2[1 .. m] = g[m]
  <2>1. LeadsTo(m, UndoStates, base, F, it2[1 .. m])
    BY <1>2, <1>5, <1>9, TableFold
  <2> QED BY <2>1 DEF LeadsTo
<1>11. ASSUME NEW i \in 1 .. m PROVE g[i] = UndoName(g[i - 1], vtx[b][(m - i) + 1])
  <2>1. i - 1 \in 0 .. m
    BY <1>1
  <2>2. g[i - 1] \in UndoStates
    BY <2>1
  <2> QED BY <2>2, <1>1, <1>6, <1>10 DEF IsRun
<1>12. g[0] = base
  BY <1>10 DEF IsRun
<1> QED BY <1>1, <1>3, <1>10, <1>11, <1>12 DEF UndoRun, m, base

-----------------------------------------------------------------------------
(***************************************************************************)
(* The records stay good.                                                  *)
(***************************************************************************)
RecordInv ==
  /\ best \in Blocks /\ cur \in Blocks /\ target \in Blocks \cup {Nil}
  /\ aborted \in Blocks \cup {Nil}
  /\ drifted \in BOOLEAN /\ lost \in SUBSET Names
  /\ mapNamePending \in [Names -> SUBSET NameTxs]
  /\ \A n \in Names : \A t \in mapNamePending[n] : NameOf[t] = n
  /\ accepting \in SUBSET NameTxs /\ overtaken \in SUBSET NameTxs
  /\ RecordsOK(nameDB)

\* Initially there are no records.
LEMMA RecordInit == Init => RecordInv
<1> SUFFICES ASSUME Init PROVE RecordInv
  OBVIOUS
<1>1. RecordsOK(nameDB)
  BY DEF Init, RecordsOK, DBs
<1> QED BY <1>1, TreeAssumption DEF Init, RecordInv

\* Every step of every call keeps them good.
LEMMA RecordNext == RecordInv /\ [Next]_vars => RecordInv'
<1> SUFFICES ASSUME RecordInv, [Next]_vars PROVE RecordInv'
  OBVIOUS
<1>1. ASSUME NEW b \in Blocks, SetBestChain(b) PROVE RecordInv'
  BY <1>1 DEF RecordInv, SetBestChain, pool
<1>2. CASE DisconnectTip
  <2>1. cur \in Blocks /\ target \in Blocks /\ cur # Genesis /\ RecordsOK(nameDB)
    BY <1>2, TreeAssumption DEF DisconnectTip, RecordInv
  <2>2. Prev[cur] \in Blocks
    BY <2>1, TreeAssumption
  <2>3. PICK g : UndoRun(g, nameDB, cur)
    BY <2>1, DisconnectNamesIs
  <2>4. Len(vtx[cur]) \in Nat
    BY <2>1, TxAssumption
  <2>5. DisconnectNames(nameDB, cur) \in UndoStates
    BY <2>3, <2>4 DEF UndoRun
  <2>6. RecordsOK(DisconnectNames(nameDB, cur).db)
    BY <2>5 DEF UndoStates
  <2>7. nameDB' = DisconnectNames(nameDB, cur).db
    BY <1>2 DEF DisconnectTip
  <2>8. lost' \in SUBSET Names
    BY <1>2 DEF DisconnectTip, RecordInv, NotTakenBack
  <2>9. cur' \in Blocks /\ aborted' \in Blocks \cup {Nil}
    BY <1>2, <2>1, <2>2 DEF DisconnectTip
  <2> QED BY <1>2, <2>6, <2>7, <2>8, <2>9 DEF DisconnectTip, RecordInv, pool
<1>3. CASE ConnectNext
  <2> DEFINE b == Toward(cur, target)
  <2>1. target \in Blocks /\ cur \in Ancestors[target] /\ cur # target
    BY <1>3 DEF ConnectNext, RecordInv
  <2>2. b \in Blocks /\ RecordsOK(nameDB)
    BY <2>1, TowardChild DEF RecordInv
  <2> HIDE DEF b
  <2>3. CASE Height[b] < RELEASE_HEIGHT \/ NeededReadable(nameDB, b)
    <3>1. /\ nameDB' = ConnectNames(nameDB, b) /\ cur' = b /\ aborted' = aborted
          /\ mapNamePending' = PendingAfter(mapNamePending, nameDB, b)
      BY <1>3, <2>3 DEF ConnectNext, NeededReadable, b
    <3>2. RecordsOK(nameDB')
      <4>1. CASE Height[b] < RELEASE_HEIGHT
        BY <4>1, <3>1, <2>2 DEF ConnectNames
      <4>2. CASE ~(Height[b] < RELEASE_HEIGHT)
        BY <4>2, <3>1, <2>2, <2>3, ConnectKeepsOK
      <4> QED BY <4>1, <4>2
    <3>3. /\ mapNamePending' \in [Names -> SUBSET NameTxs]
          /\ \A n \in Names : mapNamePending'[n] \subseteq mapNamePending[n]
      BY <3>1 DEF PendingAfter, RecordInv
    <3>4. \A n \in Names : \A t \in mapNamePending'[n] : NameOf[t] = n
      BY <3>3 DEF RecordInv
    <3>5. overtaken' \in SUBSET NameTxs
      BY <1>3 DEF ConnectNext, RecordInv
    <3> QED BY <1>3, <2>2, <3>1, <3>2, <3>3, <3>4, <3>5 DEF ConnectNext, RecordInv
  <2>4. CASE ~(Height[b] < RELEASE_HEIGHT \/ NeededReadable(nameDB, b))
    <3>1. aborted' = b /\ UNCHANGED <<nameDB, mapNamePending, overtaken, cur>>
      BY <1>3, <2>4 DEF ConnectNext, NeededReadable, b
    <3> QED BY <1>3, <2>2, <3>1 DEF ConnectNext, RecordInv
  <2> QED BY <2>3, <2>4
<1>4. CASE Commit
  BY <1>4 DEF RecordInv, Commit, pool
<1>5. CASE Interrupted
  <2>1. /\ mapNamePending' \in [Names -> SUBSET NameTxs]
        /\ \A n \in Names : \A t \in mapNamePending'[n] : NameOf[t] = n
        /\ accepting' \in SUBSET NameTxs /\ overtaken' \in SUBSET NameTxs
    BY <1>5 DEF Interrupted, RecordInv, pool
  <2> QED BY <1>5, <2>1 DEF RecordInv, Interrupted
<1>6. ASSUME NEW t \in Submitted, AddToPendingNames(t) PROVE RecordInv'
  <2>1. t \in NameTxs /\ NameOf[t] \in Names
    BY NamesAssumption, NameTxType
  <2>2. /\ mapNamePending' \in [Names -> SUBSET NameTxs]
        /\ \A n \in Names : \A u \in mapNamePending'[n] : NameOf[u] = n
        /\ accepting' \in SUBSET NameTxs /\ overtaken' \in SUBSET NameTxs
    BY <1>6, <2>1 DEF AddToPendingNames, RecordInv
  <2> QED BY <1>6, <2>2 DEF RecordInv, AddToPendingNames
<1>7. CASE UNCHANGED vars
  BY <1>7 DEF vars, pool, RecordInv
<1>8. ASSUME NEW t \in Submitted, AcceptCheck(t) PROVE RecordInv'
  <2>1. accepting' \in SUBSET NameTxs
    BY <1>8, NamesAssumption DEF AcceptCheck, RecordInv
  <2> QED BY <1>8, <2>1 DEF AcceptCheck, RecordInv
<1> QED BY <1>1, <1>2, <1>3, <1>4, <1>5, <1>6, <1>7, <1>8 DEF Next

\* What RecordsOK means for the properties.
LEMMA RecordInvImplies ==
  RecordInv => TypeOK /\ OnlyHolderChanges /\ ActiveChainStart
<1> SUFFICES ASSUME RecordInv PROVE TypeOK /\ OnlyHolderChanges /\ ActiveChainStart
  OBVIOUS
<1>1. nameDB \in DBs /\ \A n \in Names : nameDB[n] # Nil => RecordOK(nameDB[n])
  BY DEF RecordInv, RecordsOK
<1>2. TypeOK
  <2>1. nameDB \in [Names -> Record \cup {Nil}]
    BY <1>1 DEF DBs, Stored, Workable
  <2> QED BY <2>1 DEF RecordInv, TypeOK
<1>3. ASSUME NEW n \in Names, nameDB[n] # Nil
      PROVE  /\ nameDB[n] \in Workable /\ nameDB[n].vtxPos # <<>>
             /\ nameDB[n].nLastActiveChainIndex \in Nat
             /\ nameDB[n].nLastActiveChainIndex <= Len(nameDB[n].vtxPos)
             /\ Len(nameDB[n].vtxPos) \in Nat
             /\ DOMAIN nameDB[n].vtxPos = 1 .. Len(nameDB[n].vtxPos)
             /\ RecordOK(nameDB[n])
  BY <1>1, <1>3, RecordFields DEF DBs, Stored, Workable
<1>4. OnlyHolderChanges
  <2> SUFFICES ASSUME NEW n \in Names, nameDB[n] # Nil,
                      NEW i \in 1 .. Len(ActiveChain(nameDB[n])) - 1
               PROVE  Linked(ActiveChain(nameDB[n])[i], ActiveChain(nameDB[n])[i + 1])
    BY DEF OnlyHolderChanges, Linked
  <2> DEFINE rec == nameDB[n]
             k == rec.nLastActiveChainIndex
             L == Len(rec.vtxPos)
             c == ActiveChain(rec)
  <2>1. /\ rec \in Workable /\ RecordOK(rec) /\ k \in Nat /\ L \in Nat /\ k <= L
    BY <1>3
  <2>2. Len(c) = L - k /\ \A j \in 1 .. (L - k) : c[j] = rec.vtxPos[k + j]
    BY <2>1, ActiveChainIs
  <2> HIDE DEF c, k, L, rec
  <2>a. i \in 1 .. (Len(c) - 1)
    BY DEF c, rec
  <2>3. /\ i \in 1 .. (L - k) /\ i + 1 \in 1 .. (L - k)
        /\ k + i \in 1 .. (L - 1) /\ k + (i + 1) = k + i + 1 /\ k < L
        /\ k + i + 1 \in 1 .. L /\ ~(k + i + 1 <= k + 1)
    BY <2>a, <2>1, <2>2
  <2>4. rec.vtxPos[k + i + 1].op # "new"
    BY <2>1, <2>3 DEF RecordOK, StartsAtLast, k, L
  <2>5. Linked(rec.vtxPos[k + i], rec.vtxPos[k + i + 1])
    BY <2>1, <2>3, <2>4 DEF RecordOK, AllLinked, L
  <2>6. c[i] = rec.vtxPos[k + i] /\ c[i + 1] = rec.vtxPos[k + i + 1]
    BY <2>2, <2>3
  <2> QED BY <2>5, <2>6 DEF c, rec
<1>5. ActiveChainStart
  BY <1>3 DEF ActiveChainStart, RecordOK, StartsAtLast, Readable
<1> QED BY <1>2, <1>4, <1>5

\* The type invariant, for every block tree and any number of names: also after
\* calls that ended halfway, trimming never moves nLastActiveChainIndex below 0.
THEOREM NamesTyped == Spec => []TypeOK
<1>1. Init => RecordInv
  BY RecordInit
<1>2. RecordInv /\ [Next]_vars => RecordInv'
  BY RecordNext
<1>3. RecordInv => TypeOK
  BY RecordInvImplies
<1> QED BY <1>1, <1>2, <1>3, PTL DEF Spec

\* Only the holder of a name changes it, whatever reorganisations, failed calls
\* and crashes the index has been through.
THEOREM HolderSafe == Spec => []OnlyHolderChanges
<1>1. Init => RecordInv
  BY RecordInit
<1>2. RecordInv /\ [Next]_vars => RecordInv'
  BY RecordNext
<1>3. RecordInv => OnlyHolderChanges
  BY RecordInvImplies
<1> QED BY <1>1, <1>2, <1>3, PTL DEF Spec

\* The active chain of every record starts at its last registration, and a record
\* that cannot be read has none left.
THEOREM ActiveChainSafe == Spec => []ActiveChainStart
<1>1. Init => RecordInv
  BY RecordInit
<1>2. RecordInv /\ [Next]_vars => RecordInv'
  BY RecordNext
<1>3. RecordInv => ActiveChainStart
  BY RecordInvImplies
<1> QED BY <1>1, <1>2, <1>3, PTL DEF Spec

-----------------------------------------------------------------------------
(***************************************************************************)
(* The index of a node that saw one chain only, and the whole history of   *)
(* each name on that chain, from which no record is cut off.               *)
(***************************************************************************)

\* Replay is what its definition says.
LEMMA ReplayIs ==
  /\ Replay \in [Blocks -> DBs]
  /\ Replay[Genesis] = [n \in Names |-> Nil]
  /\ \A b \in Blocks \ {Genesis} : Replay[b] = ConnectNames(Replay[Prev[b]], b)
<1> DEFINE F == [p \in DBs \X Blocks |-> ConnectNames(p[1], p[2])]
           base == [n \in Names |-> Nil]
           Is(f) == f = [b \in Blocks |-> IF b = Genesis THEN base
                                          ELSE ConnectNames(f[Prev[b]], b)]
<1>1. base \in DBs
  BY DEF DBs
<1>2. \A x \in DBs, b \in Blocks : ConnectNames(x, b) \in DBs
  <2> SUFFICES ASSUME NEW x \in DBs, NEW b \in Blocks PROVE ConnectNames(x, b) \in DBs
    OBVIOUS
  <2>1. CASE Height[b] < RELEASE_HEIGHT
    BY <2>1 DEF ConnectNames
  <2>2. CASE ~(Height[b] < RELEASE_HEIGHT)
    BY <2>2, ConnectNamesIs
  <2> QED BY <2>1, <2>2
<1>3. /\ BlockTable(F, DBs)
      /\ \A x \in DBs, b \in Blocks : F[<<x, b>>] = ConnectNames(x, b)
  BY <1>2 DEF BlockTable
<1> HIDE DEF F, base
<1>4. PICK f : Climbs(f, DBs, base, F)
  BY <1>1, <1>3, TreeRecursion
<1>5. \A b \in Blocks \ {Genesis} : f[b] = ConnectNames(f[Prev[b]], b)
  BY <1>3, <1>4, TreeAssumption DEF Climbs
<1>6. Is(f)
  BY <1>4, <1>5 DEF Climbs
<1>7. Replay = CHOOSE u : Is(u)
  BY DEF Replay, base
<1>8. Is(Replay)
  BY <1>6, <1>7
<1> HIDE DEF Is
<1>9. /\ DOMAIN Replay = Blocks /\ Replay[Genesis] = base
      /\ \A b \in Blocks \ {Genesis} : Replay[b] = ConnectNames(Replay[Prev[b]], b)
  BY <1>8, TreeAssumption DEF Is
<1> DEFINE S == {b \in Blocks : Replay[b] \in DBs}
<1>10. Genesis \in S
  BY <1>1, <1>9, TreeAssumption
<1>11. \A b \in Blocks \ {Genesis} : Prev[b] \in S => b \in S
  BY <1>2, <1>9
<1> HIDE DEF S
<1>12. \A b \in Blocks : b \in S
  BY <1>10, <1>11, TreeInduction
<1>13. Replay = [b \in Blocks |-> Replay[b]]
  BY <1>8 DEF Is
<1>14. Replay \in [Blocks -> DBs]
  BY <1>12, <1>13 DEF S
<1> QED BY <1>9, <1>14 DEF base

\* The operations b writes at a node that saw only its chain.
WrittenAt(b) ==
  {t \in Written(Replay[Prev[b]], b) : ~(Height[b] < RELEASE_HEIGHT)}

\* The history of n with what b writes.
Continued(h, b, n) ==
  IF \E t \in WrittenAt(b) : NameOf[t] = n
  THEN Append(h, EntryOf(b, CHOOSE t \in WrittenAt(b) : NameOf[t] = n)) ELSE h

IsHistory(f) ==
  /\ f \in [Blocks -> [Names -> Seq(Entry)]]
  /\ f[Genesis] = [n \in Names |-> <<>>]
  /\ \A b \in Blocks \ {Genesis} :
        f[b] = [n \in Names |-> Continued(f[Prev[b]][n], b, n)]

\* Every operation of a name along the chain that ends in b, none cut off.
History == CHOOSE f : IsHistory(f)

\* What is written is about a name, and is the only operation of it.
LEMMA WrittenAtType ==
  ASSUME NEW b \in Blocks, NEW t \in WrittenAt(b)
  PROVE  /\ t \in BlockTxs(b) /\ t \in NameTxs /\ NameOf[t] \in Names
         /\ EntryOf(b, t) \in Entry /\ ~(Height[b] < RELEASE_HEIGHT)
         /\ \A u \in WrittenAt(b) : NameOf[u] = NameOf[t] => u = t
BY WrittenType, NameTxType, EntryOfType, OneWritten DEF WrittenAt

\* History is what its definition says.
LEMMA HistoryIs == IsHistory(History)
<1> DEFINE X == [Names -> Seq(Entry)]
           F == [p \in X \X Blocks |-> [n \in Names |-> Continued(p[1][n], p[2], n)]]
           base == [n \in Names |-> <<>>]
<1>1. base \in X
  OBVIOUS
<1>2. ASSUME NEW x \in X, NEW b \in Blocks
      PROVE  [n \in Names |-> Continued(x[n], b, n)] \in X
  <2>1. ASSUME NEW n \in Names PROVE Continued(x[n], b, n) \in Seq(Entry)
    <3>1. CASE \E t \in WrittenAt(b) : NameOf[t] = n
      <4>1. (CHOOSE t \in WrittenAt(b) : NameOf[t] = n) \in WrittenAt(b)
        BY <3>1
      <4>2. EntryOf(b, CHOOSE t \in WrittenAt(b) : NameOf[t] = n) \in Entry
        BY <4>1, WrittenAtType
      <4>3. x[n] \in Seq(Entry)
        OBVIOUS
      <4> QED BY <3>1, <4>2, <4>3, AppendIs DEF Continued
    <3>2. CASE ~\E t \in WrittenAt(b) : NameOf[t] = n
      BY <3>2 DEF Continued
    <3> QED BY <3>1, <3>2
  <2> QED BY <2>1
<1> HIDE DEF X
<1>3. /\ BlockTable(F, X)
      /\ \A x \in X, b \in Blocks :
           F[<<x, b>>] = [n \in Names |-> Continued(x[n], b, n)]
  BY <1>2 DEF BlockTable
<1> HIDE DEF F, base
<1>4. PICK f : Climbs(f, X, base, F)
  BY <1>1, <1>3, TreeRecursion
<1>5. ASSUME NEW b \in Blocks \ {Genesis}
      PROVE  f[b] = [n \in Names |-> Continued(f[Prev[b]][n], b, n)]
  <2>1. Prev[b] \in Blocks
    BY TreeAssumption
  <2>2. f[Prev[b]] \in X
    BY <2>1, <1>4 DEF Climbs
  <2>3. f[b] = F[<<f[Prev[b]], b>>]
    BY <1>4 DEF Climbs
  <2> QED BY <2>2, <2>3, <1>3
<1>6. IsHistory(f)
  BY <1>4, <1>5 DEF IsHistory, X, base, Climbs
<1> QED BY <1>6 DEF History

\* The values of History.
LEMMA HistoryStep ==
  /\ \A b \in Blocks, n \in Names : History[b][n] \in Seq(Entry)
  /\ \A n \in Names : History[Genesis][n] = <<>>
  /\ \A b \in Blocks \ {Genesis}, n \in Names :
       /\ Prev[b] \in Blocks
       /\ \A t \in WrittenAt(b) : NameOf[t] = n =>
            History[b][n] = Append(History[Prev[b]][n], EntryOf(b, t))
       /\ (\A t \in WrittenAt(b) : NameOf[t] # n) =>
            History[b][n] = History[Prev[b]][n]
<1>1. IsHistory(History)
  BY HistoryIs
<1>2. /\ \A b \in Blocks, n \in Names : History[b][n] \in Seq(Entry)
      /\ \A n \in Names : History[Genesis][n] = <<>>
  BY <1>1 DEF IsHistory
<1>3. ASSUME NEW b \in Blocks \ {Genesis}, NEW n \in Names
      PROVE  /\ Prev[b] \in Blocks
             /\ \A t \in WrittenAt(b) : NameOf[t] = n =>
                  History[b][n] = Append(History[Prev[b]][n], EntryOf(b, t))
             /\ (\A t \in WrittenAt(b) : NameOf[t] # n) =>
                  History[b][n] = History[Prev[b]][n]
  <2>1. Prev[b] \in Blocks
    BY TreeAssumption
  <2>2. History[b][n] = Continued(History[Prev[b]][n], b, n)
    BY <1>1 DEF IsHistory
  <2>3. ASSUME NEW t \in WrittenAt(b), NameOf[t] = n
        PROVE  (CHOOSE u \in WrittenAt(b) : NameOf[u] = n) = t
    <3>1. \A u \in WrittenAt(b) : NameOf[u] = n => u = t
      BY <2>3, WrittenAtType
    <3> QED BY <3>1, <2>3
  <2> QED BY <2>1, <2>2, <2>3 DEF Continued
<1> QED BY <1>2, <1>3

\* The entries of a history are of the blocks of the chain that wrote them.
LEMMA HistoryEntries ==
  ASSUME NEW b \in Blocks, NEW n \in Names, NEW i \in 1 .. Len(History[b][n])
  PROVE  LET e == History[b][n][i] IN
         /\ e.pos[1] \in Ancestors[b] /\ e.pos[2] \in WrittenAt(e.pos[1])
         /\ NameOf[e.pos[2]] = n
<1> DEFINE From(c, e) == /\ e.pos[1] \in Ancestors[c] /\ e.pos[2] \in WrittenAt(e.pos[1])
                         /\ NameOf[e.pos[2]] = n
           S == {c \in Blocks : \A j \in 1 .. Len(History[c][n]) : From(c, History[c][n][j])}
<1>1. Genesis \in S
  <2>1. Len(History[Genesis][n]) = 0
    BY HistoryStep
  <2>2. \A j \in 1 .. 0 : FALSE
    OBVIOUS
  <2> QED BY <2>1, <2>2, TreeAssumption
<1>2. ASSUME NEW c \in Blocks \ {Genesis}, Prev[c] \in S PROVE c \in S
  <2> DEFINE h == History[Prev[c]][n]
             hh == History[c][n]
  <2>1. h \in Seq(Entry) /\ Prev[c] \in Blocks /\ Len(h) \in Nat
    BY HistoryStep
  <2>2. Ancestors[Prev[c]] \subseteq Ancestors[c] /\ c \in Ancestors[c]
    BY ParentFacts, AncestorsSelf
  <2>3. \A j \in 1 .. Len(h) : From(c, h[j])
    BY <1>2, <2>2
  <2>4. CASE \A t \in WrittenAt(c) : NameOf[t] # n
    <3>1. hh = h
      BY <2>4, HistoryStep
    <3> QED BY <3>1, <2>3
  <2>5. CASE \E t \in WrittenAt(c) : NameOf[t] = n
    <3>1. PICK t \in WrittenAt(c) : NameOf[t] = n
      BY <2>5
    <3>2. hh = Append(h, EntryOf(c, t))
      BY <3>1, HistoryStep
    <3>3. EntryOf(c, t) \in Entry
      BY WrittenAtType
    <3>4. From(c, EntryOf(c, t))
      BY <3>1, <2>2 DEF EntryOf
    <3> HIDE DEF h, hh, From
    <3>5. /\ Len(hh) = Len(h) + 1 /\ \A j \in 1 .. Len(h) : hh[j] = h[j]
          /\ hh[Len(h) + 1] = EntryOf(c, t)
      BY <2>1, <3>2, <3>3, AppendIs
    <3>6. \A j \in 1 .. Len(hh) : From(c, hh[j])
      BY <2>1, <2>3, <3>4, <3>5
    <3> QED BY <3>6 DEF hh
  <2> QED BY <2>4, <2>5
<1> HIDE DEF S
<1>3. b \in S
  BY <1>1, <1>2, TreeInduction
<1> QED BY <1>3 DEF S

\* Below RELEASE_HEIGHT nothing has been written.
LEMMA HistoryStart ==
  ASSUME NEW b \in Blocks, NEW n \in Names, Height[b] < RELEASE_HEIGHT
  PROVE  History[b][n] = <<>>
<1>1. ASSUME History[b][n] # <<>> PROVE FALSE
  <2> DEFINE h == History[b][n]
             c == h[1].pos[1]
  <2>1. h \in Seq(Entry)
    BY HistoryStep
  <2>2. 1 \in 1 .. Len(h)
    <3> HIDE DEF h
    <3> QED BY <1>1, <2>1 DEF h
  <2>3. c \in Ancestors[b] /\ h[1].pos[2] \in WrittenAt(c)
    BY <2>2, HistoryEntries
  <2>4. ~(Height[c] < RELEASE_HEIGHT) /\ c \in Blocks
    BY <2>3, AncestorsSelf DEF WrittenAt
  <2>5. c = b \/ Height[c] < Height[b]
    BY <2>3, AncestorsBelow
  <2>6. Height[c] \in Nat /\ Height[b] \in Nat /\ RELEASE_HEIGHT \in Nat
    BY <2>4, TreeAssumption, NamesAssumption
  <2> QED BY <2>4, <2>5, <2>6
<1> QED BY <1>1

-----------------------------------------------------------------------------
(***************************************************************************)
(* A record says what the history of its name says.                        *)
(***************************************************************************)

\* rec can be read and holds the last entries of h.
EndOf(rec, h) ==
  /\ rec \in Stored /\ RecordOK(rec)
  /\ rec.nLastActiveChainIndex < Len(rec.vtxPos)
  /\ rec.nExpiresAt = Expiry(rec)
  /\ Len(rec.vtxPos) <= Len(h)
  /\ \A i \in 1 .. Len(rec.vtxPos) :
        rec.vtxPos[i] = h[i + (Len(h) - Len(rec.vtxPos))]

Represents(rec, h) == IF h = <<>> THEN rec = Nil ELSE EndOf(rec, h)

\* Of two records of one history, neither knows a later registration.
LEMMA StartNotLater ==
  ASSUME NEW h \in Seq(Entry), NEW r, NEW q, EndOf(r, h), EndOf(q, h)
  PROVE  r.nLastActiveChainIndex - Len(r.vtxPos) <= q.nLastActiveChainIndex - Len(q.vtxPos)
<1> DEFINE k == r.nLastActiveChainIndex
           L == Len(r.vtxPos)
           kq == q.nLastActiveChainIndex
           Lq == Len(q.vtxPos)
           H == Len(h)
<1>1. k \in Nat /\ L \in Nat /\ kq \in Nat /\ Lq \in Nat /\ H \in Nat
  BY RecordFields DEF EndOf, Stored, Workable
<1>2. /\ k < L /\ kq < Lq /\ L <= H /\ Lq <= H
      /\ \A i \in 1 .. L : r.vtxPos[i] = h[i + (H - L)]
      /\ \A i \in 1 .. Lq : q.vtxPos[i] = h[i + (H - Lq)]
      /\ r.vtxPos[k + 1].op = "new"
      /\ \A i \in 1 .. Lq : q.vtxPos[i].op = "new" => i <= kq + 1
  BY DEF EndOf, RecordOK, StartsAtLast
<1> HIDE DEF k, L, kq, Lq, H
<1> DEFINE j == k + 1 - L + Lq
<1>3. CASE j \in 1 .. Lq
  <2>1. k + 1 \in 1 .. L /\ k + 1 + (H - L) = j + (H - Lq)
    BY <1>1, <1>2
  <2>2. r.vtxPos[k + 1] = h[k + 1 + (H - L)] /\ q.vtxPos[j] = h[j + (H - Lq)]
    BY <2>1, <1>2, <1>3
  <2>3. q.vtxPos[j].op = "new"
    BY <2>1, <2>2, <1>2
  <2>4. j <= kq + 1
    BY <2>3, <1>2, <1>3
  <2>5. k - L <= kq - Lq
    BY <2>4, <1>1
  <2> QED BY <2>5 DEF k, L, kq, Lq
<1>4. CASE j \notin 1 .. Lq
  <2>1. k - L <= kq - Lq
    BY <1>1, <1>2, <1>4
  <2> QED BY <2>1 DEF k, L, kq, Lq
<1> QED BY <1>3, <1>4

\* Sequences with the same elements are the same.
LEMMA SeqEqual ==
  ASSUME NEW S, NEW c \in Seq(S), NEW d \in Seq(S), Len(c) = Len(d),
         \A i \in 1 .. Len(c) : c[i] = d[i]
  PROVE  c = d
OBVIOUS

\* Two records of one history say the same of the name.
LEMMA SameEnd ==
  ASSUME NEW h \in Seq(Entry), NEW r, NEW q, EndOf(r, h), EndOf(q, h)
  PROVE  /\ ActiveChain(r) = ActiveChain(q)
         /\ Last(r.vtxPos) = Last(q.vtxPos)
         /\ deleted(r) <=> deleted(q)
         /\ r.nExpiresAt = q.nExpiresAt
         /\ r.vtxPos # <<>> /\ q.vtxPos # <<>>
         /\ r # Nil /\ q # Nil
<1> DEFINE k == r.nLastActiveChainIndex
           L == Len(r.vtxPos)
           kq == q.nLastActiveChainIndex
           Lq == Len(q.vtxPos)
           H == Len(h)
<1>1. /\ k \in Nat /\ L \in Nat /\ kq \in Nat /\ Lq \in Nat /\ H \in Nat
      /\ r \in Workable /\ q \in Workable /\ r \in Record /\ q \in Record
      /\ r.vtxPos # <<>> /\ q.vtxPos # <<>>
  BY RecordFields DEF EndOf, Stored, Workable
<1>2. /\ k < L /\ kq < Lq /\ L <= H /\ Lq <= H
      /\ \A i \in 1 .. L : r.vtxPos[i] = h[i + (H - L)]
      /\ \A i \in 1 .. Lq : q.vtxPos[i] = h[i + (H - Lq)]
      /\ r.nExpiresAt = Expiry(r) /\ q.nExpiresAt = Expiry(q)
  BY DEF EndOf
<1>3. k - L <= kq - Lq /\ kq - Lq <= k - L
  BY StartNotLater
<1>4. /\ ActiveChain(r) \in Seq(Entry) /\ Len(ActiveChain(r)) = L - k
      /\ \A i \in 1 .. (L - k) : ActiveChain(r)[i] = r.vtxPos[k + i]
      /\ ActiveChain(q) \in Seq(Entry) /\ Len(ActiveChain(q)) = Lq - kq
      /\ \A i \in 1 .. (Lq - kq) : ActiveChain(q)[i] = q.vtxPos[kq + i]
  BY <1>1, ActiveChainIs
<1>5. Last(r.vtxPos) = r.vtxPos[L] /\ Last(q.vtxPos) = q.vtxPos[Lq]
  BY DEF Last
<1> HIDE DEF k, L, kq, Lq, H
<1>6. L - k = Lq - kq
  BY <1>1, <1>3
<1>7. ASSUME NEW i \in 1 .. (L - k) PROVE ActiveChain(r)[i] = ActiveChain(q)[i]
  <2>1. /\ k + i \in 1 .. L /\ kq + i \in 1 .. Lq /\ i \in 1 .. (Lq - kq)
        /\ k + i + (H - L) = kq + i + (H - Lq)
    <3>1. /\ k \in Nat /\ L \in Nat /\ kq \in Nat /\ Lq \in Nat /\ H \in Nat
          /\ k < L /\ kq < Lq
      BY <1>1, <1>2
    <3> QED BY <3>1, <1>6
  <2>2. r.vtxPos[k + i] = h[k + i + (H - L)] /\ q.vtxPos[kq + i] = h[kq + i + (H - Lq)]
    BY <2>1, <1>2
  <2> QED BY <2>1, <2>2, <1>4
<1>8. ActiveChain(r) = ActiveChain(q)
  BY <1>4, <1>6, <1>7, SeqEqual
<1>9. Last(r.vtxPos) = Last(q.vtxPos)
  <2>1. L \in 1 .. L /\ Lq \in 1 .. Lq /\ L + (H - L) = H /\ Lq + (H - Lq) = H
    BY <1>1, <1>2
  <2> QED BY <2>1, <1>2, <1>5
<1>10. deleted(r) <=> deleted(q)
  BY <1>1, <1>9 DEF deleted
<1>11. Expiry(r) = Expiry(q)
  BY <1>8, <1>10 DEF Expiry
<1> QED BY <1>1, <1>2, <1>8, <1>9, <1>10, <1>11, NilAssumption

\* So they are the same to NamesPathIndependent.
LEMMA RepresentsSame ==
  ASSUME NEW h \in Seq(Entry), NEW r, NEW q, Represents(r, h), Represents(q, h)
  PROVE  SameName(r, q)
<1>1. CASE h = <<>>
  BY <1>1 DEF Represents, SameName
<1>2. CASE h # <<>>
  BY <1>2, SameEnd DEF Represents, SameName
<1> QED BY <1>1, <1>2

\* The operations of a name count or not alike under two such records.
LEMMA SameCounts ==
  ASSUME NEW db, NEW ref, NEW b \in Blocks, NEW n \in Names, NEW h \in Seq(Entry),
         Represents(db[n], h), Represents(ref[n], h), NEW t \in NameTxs, NameOf[t] = n
  PROVE  /\ t \in vName(db, b) <=> t \in vName(ref, b)
         /\ t \in Written(db, b) <=> t \in Written(ref, b)
<1>1. ASSUME NEW u \in NameTxs, NameOf[u] = n
      PROVE  ConnectInputs(db, b, u) <=> ConnectInputs(ref, b, u)
  <2>1. CASE h = <<>>
    <3>1. db[n] = Nil /\ ref[n] = Nil
      BY <2>1 DEF Represents
    <3> QED BY <1>1, <3>1 DEF ConnectInputs, NameActive
  <2>2. CASE h # <<>>
    <3>1. /\ Last(db[n].vtxPos) = Last(ref[n].vtxPos)
          /\ deleted(db[n]) <=> deleted(ref[n])
          /\ db[n].nExpiresAt = ref[n].nExpiresAt
          /\ db[n].vtxPos # <<>> /\ ref[n].vtxPos # <<>>
          /\ db[n] # Nil /\ ref[n] # Nil
      BY <2>2, SameEnd DEF Represents
    <3> QED BY <1>1, <3>1 DEF ConnectInputs, NameActive, CheckNameTxPos
  <2> QED BY <2>1, <2>2
<1>2. \A u \in NameTxs : NameOf[u] = n => (u \in vName(db, b) <=> u \in vName(ref, b))
  BY <1>1 DEF vName
<1>3. vName(db, b) \subseteq NameTxs /\ vName(ref, b) \subseteq NameTxs
  BY DEF vName
<1> HIDE DEF vName
<1> QED BY <1>2, <1>3 DEF Written

\* A block continues records as it continues histories.
LEMMA ConnectRepresents ==
  ASSUME NEW b \in Blocks \ {Genesis}, NEW db, RecordsOK(db),
         Height[b] < RELEASE_HEIGHT \/ NeededReadable(db, b),
         NEW n \in Names,
         Represents(db[n], History[Prev[b]][n]),
         Represents(Replay[Prev[b]][n], History[Prev[b]][n])
  PROVE  Represents(ConnectNames(db, b)[n], History[b][n])
<1> DEFINE h == History[Prev[b]][n]
           hh == History[b][n]
           ref == Replay[Prev[b]]
           cdb == ConnectNames(db, b)
<1>1. h \in Seq(Entry) /\ hh \in Seq(Entry) /\ db \in DBs /\ Prev[b] \in Blocks
  BY HistoryStep DEF RecordsOK
<1>2. CASE Height[b] < RELEASE_HEIGHT
  <2>1. hh = h
    BY <1>2, HistoryStep DEF WrittenAt
  <2>2. cdb = db
    BY <1>2 DEF ConnectNames
  <2> QED BY <2>1, <2>2
<1>3. CASE ~(Height[b] < RELEASE_HEIGHT) /\ \A t \in WrittenAt(b) : NameOf[t] # n
  <2>1. hh = h
    BY <1>3, HistoryStep
  <2>2. \A t \in Written(db, b) : NameOf[t] # n
    <3> SUFFICES ASSUME NEW t \in Written(db, b), NameOf[t] = n PROVE FALSE
      OBVIOUS
    <3>1. t \in NameTxs
      BY WrittenType
    <3>2. t \in Written(ref, b)
      BY <1>1, <3>1, SameCounts
    <3> QED BY <1>3, <3>2 DEF WrittenAt
  <2>3. cdb[n] = db[n]
    BY <1>1, <1>3, <2>2, ConnectNamesIs
  <2> QED BY <2>1, <2>3
<1>4. CASE ~(Height[b] < RELEASE_HEIGHT) /\ \E t \in WrittenAt(b) : NameOf[t] = n
  <2>1. PICK t \in WrittenAt(b) : NameOf[t] = n
    BY <1>4
  <2>2. t \in NameTxs /\ t \in Written(ref, b) /\ EntryOf(b, t) \in Entry
    BY WrittenAtType DEF WrittenAt
  <2>3. t \in Written(db, b)
    BY <1>1, <2>1, <2>2, SameCounts
  <2> DEFINE rec == OldRecord(db[n])
             e == EntryOf(b, t)
             new == cdb[n]
             k == IF OpOf[t] = "new" THEN Len(rec.vtxPos) ELSE rec.nLastActiveChainIndex
             L == Len(rec.vtxPos)
  <2>4. hh = Append(h, e)
    BY <2>1, HistoryStep
  <2>5. new = NewRecord(rec, b, t)
    BY <1>1, <1>4, <2>1, <2>3, ConnectNamesIs
  <2>6. rec \in Workable
    BY <1>1, OldRecordType
  <2>7. /\ new \in Stored /\ new.nLastActiveChainIndex < Len(new.vtxPos)
        /\ RecordOK(new)
    <3>1. RecordsOK(cdb) /\ new \in Stored
            /\ new.nLastActiveChainIndex < Len(new.vtxPos)
      BY <1>4, <2>1, <2>3, ConnectKeepsOK
    <3>2. new # Nil
      BY <3>1, NilAssumption DEF Stored, Workable
    <3> QED BY <3>1, <3>2 DEF RecordsOK
  <2>8. L \in Nat /\ L <= Len(h) /\ \A i \in 1 .. L : rec.vtxPos[i] = h[i + (Len(h) - L)]
    <3>1. CASE h = <<>>
      <4>1. rec = EmptyRecord
        BY <3>1 DEF Represents, OldRecord
      <4> QED BY <3>1, <4>1 DEF EmptyRecord
    <3>2. CASE h # <<>>
      <4>1. EndOf(db[n], h)
        BY <3>2 DEF Represents
      <4>2. rec = db[n]
        BY <4>1, NilAssumption DEF EndOf, OldRecord, Stored, Workable
      <4>3. L \in Nat
        BY <2>6, RecordFields DEF Workable
      <4> QED BY <4>1, <4>2, <4>3 DEF EndOf
    <3> QED BY <3>1, <3>2
  <2>9. /\ new.nExpiresAt = Expiry(new)
        /\ \E d \in Nat : Extends(new, rec, e, d, k)
    <3> HIDE DEF rec, new
    <3> QED BY <2>2, <2>5, <2>6, NewRecordIs
  <2>10. PICK d \in Nat : Extends(new, rec, e, d, k)
    BY <2>9
  <2>11. /\ Len(new.vtxPos) = L + 1 - d /\ d <= k /\ k <= L /\ k \in Nat
         /\ \A i \in 1 .. (L - d) : new.vtxPos[i] = rec.vtxPos[i + d]
         /\ new.vtxPos[L + 1 - d] = e
    BY <2>10 DEF Extends
  <2> HIDE DEF L, k, h, hh, e, new, rec
  <2>12. /\ Len(hh) = Len(h) + 1 /\ \A i \in 1 .. Len(h) : hh[i] = h[i]
         /\ hh[Len(h) + 1] = e /\ Len(h) \in Nat
    BY <1>1, <2>2, <2>4, AppendIs DEF e
  <2>13. Len(new.vtxPos) <= Len(hh)
    BY <2>8, <2>11, <2>12
  <2>14. ASSUME NEW i \in 1 .. Len(new.vtxPos)
         PROVE  new.vtxPos[i] = hh[i + (Len(hh) - Len(new.vtxPos))]
    <3>1. CASE i = L + 1 - d
      <4>1. i + (Len(hh) - Len(new.vtxPos)) = Len(h) + 1
        BY <3>1, <2>8, <2>11, <2>12
      <4> QED BY <3>1, <4>1, <2>11, <2>12
    <3>2. CASE i # L + 1 - d
      <4>1. /\ i \in 1 .. (L - d) /\ i + d \in 1 .. L
            /\ i + d + (Len(h) - L) \in 1 .. Len(h)
            /\ i + (Len(hh) - Len(new.vtxPos)) = i + d + (Len(h) - L)
        BY <3>2, <2>8, <2>11, <2>12
      <4>2. new.vtxPos[i] = h[i + d + (Len(h) - L)]
        BY <4>1, <2>8, <2>11
      <4>3. hh[i + d + (Len(h) - L)] = h[i + d + (Len(h) - L)]
        BY <4>1, <2>12
      <4> QED BY <4>1, <4>2, <4>3
    <3> QED BY <3>1, <3>2
  <2>15. EndOf(new, hh)
    BY <2>7, <2>9, <2>13, <2>14 DEF EndOf
  <2>16. hh # <<>>
    BY <1>1, <2>12
  <2> QED BY <2>15, <2>16 DEF Represents, new, hh
<1> QED BY <1>2, <1>3, <1>4

\* The record of a history can be read, if there is one.
LEMMA RepresentsReadable ==
  ASSUME NEW r, NEW h, Represents(r, h), r # Nil
  PROVE  Readable(r) /\ EndOf(r, h) /\ h # <<>>
<1>1. h # <<>> /\ EndOf(r, h)
  BY DEF Represents
<1>2. r.nLastActiveChainIndex \in Nat /\ Len(r.vtxPos) \in Nat
  BY <1>1, RecordFields DEF EndOf, Stored, Workable
<1> QED BY <1>1, <1>2 DEF EndOf, Readable

\* At a node that saw one chain only, every record is the end of its history.
LEMMA ReplayRepresents ==
  ASSUME NEW b \in Blocks
  PROVE  /\ RecordsOK(Replay[b])
         /\ \A n \in Names : Represents(Replay[b][n], History[b][n])
<1> DEFINE S == {c \in Blocks : /\ RecordsOK(Replay[c])
                                /\ \A n \in Names : Represents(Replay[c][n], History[c][n])}
<1>1. Genesis \in S
  <2>1. Replay[Genesis] = [n \in Names |-> Nil] /\ Genesis \in Blocks
    BY ReplayIs, TreeAssumption
  <2>2. RecordsOK(Replay[Genesis])
    BY <2>1 DEF RecordsOK, DBs
  <2>3. \A n \in Names : Represents(Replay[Genesis][n], History[Genesis][n])
    BY <2>1, HistoryStep DEF Represents
  <2> QED BY <2>1, <2>2, <2>3
<1>2. ASSUME NEW c \in Blocks \ {Genesis}, Prev[c] \in S PROVE c \in S
  <2> DEFINE db == Replay[Prev[c]]
  <2>1. RecordsOK(db) /\ \A n \in Names : Represents(db[n], History[Prev[c]][n])
    BY <1>2
  <2>2. NeededReadable(db, c)
    BY <2>1, RepresentsReadable, NameTxType DEF NeededReadable
  <2>3. Replay[c] = ConnectNames(db, c)
    BY ReplayIs
  <2>4. \A n \in Names : Represents(Replay[c][n], History[c][n])
    BY <2>1, <2>2, <2>3, ConnectRepresents
  <2>5. RecordsOK(Replay[c])
    <3>1. CASE Height[c] < RELEASE_HEIGHT
      BY <3>1, <2>1, <2>3 DEF ConnectNames
    <3>2. CASE ~(Height[c] < RELEASE_HEIGHT)
      BY <3>2, <2>1, <2>2, <2>3, ConnectKeepsOK
    <3> QED BY <3>1, <3>2
  <2> QED BY <2>4, <2>5
<1> HIDE DEF S
<1>3. b \in S
  BY <1>1, <1>2, TreeInduction
<1> QED BY <1>3 DEF S

\* An operation in the history of a name that is in the last block was written
\* by that block.
LEMMA EntryOfTip ==
  ASSUME NEW b \in Blocks, NEW n \in Names, NEW i \in 1 .. Len(History[b][n]),
         History[b][n][i].pos[2] \in BlockTxs(b)
  PROVE  History[b][n][i].pos[2] \in WrittenAt(b) /\ NameOf[History[b][n][i].pos[2]] = n
<1> DEFINE e == History[b][n][i]
           c == e.pos[1]
           t == e.pos[2]
<1>1. c \in Ancestors[b] /\ t \in WrittenAt(c) /\ NameOf[t] = n
  BY HistoryEntries
<1>2. c \in Blocks /\ b \in Ancestors[b]
  BY <1>1, AncestorsSelf
<1>3. t \in BlockTxs(c)
  BY <1>1, <1>2, WrittenAtType
<1>4. SpendsOnce(b)
  BY NamesAssumption DEF ChainOK
<1>5. c = b
  BY <1>1, <1>2, <1>3, <1>4 DEF SpendsOnce
<1> QED BY <1>1, <1>5

\* The transaction the i-th step of a disconnection undoes.
FromEnd(b, i) == vtx[b][(Len(vtx[b]) - i) + 1]

\* Every transaction of the block has its one place from the end.
LEMMA FromEndIs ==
  ASSUME NEW b \in Blocks
  PROVE  /\ Len(vtx[b]) \in Nat
         /\ \A i \in 1 .. Len(vtx[b]) : FromEnd(b, i) \in BlockTxs(b) /\ FromEnd(b, i) \in Txs
         /\ \A t \in BlockTxs(b) : \E i \in 1 .. Len(vtx[b]) : FromEnd(b, i) = t
         /\ \A i, j \in 1 .. Len(vtx[b]) : FromEnd(b, i) = FromEnd(b, j) => i = j
<1> DEFINE m == Len(vtx[b])
<1>1. /\ m \in Nat /\ DOMAIN vtx[b] = 1 .. m /\ \A i \in 1 .. m : vtx[b][i] \in Txs
      /\ \A i, j \in 1 .. m : vtx[b][i] = vtx[b][j] => i = j
  <2>1. vtx[b] \in Seq(Txs)
    BY TxAssumption
  <2> QED BY <2>1, TxAssumption
<1> HIDE DEF m
<1>2. /\ \A i \in 1 .. m : (m - i) + 1 \in 1 .. m
      /\ \A i \in 1 .. m : \E j \in 1 .. m : (m - j) + 1 = i
      /\ \A i, j \in 1 .. m : (m - i) + 1 = (m - j) + 1 => i = j
  <2>1. \A i \in 1 .. m : (m - i) + 1 \in 1 .. m /\ (m - ((m - i) + 1)) + 1 = i
    BY <1>1
  <2> QED BY <1>1, <2>1
<1>3. \A i \in 1 .. m : FromEnd(b, i) = vtx[b][(m - i) + 1]
  BY DEF FromEnd, m
<1>4. \A i \in 1 .. m : FromEnd(b, i) \in BlockTxs(b) /\ FromEnd(b, i) \in Txs
  BY <1>1, <1>2, <1>3 DEF BlockTxs
<1>5. ASSUME NEW t \in BlockTxs(b) PROVE \E i \in 1 .. m : FromEnd(b, i) = t
  <2>1. PICK i \in 1 .. m : vtx[b][i] = t
    BY <1>1 DEF BlockTxs
  <2>2. PICK j \in 1 .. m : (m - j) + 1 = i
    BY <1>2
  <2> QED BY <2>1, <2>2, <1>3
<1>6. ASSUME NEW i \in 1 .. m, NEW j \in 1 .. m, FromEnd(b, i) = FromEnd(b, j) PROVE i = j
  <2>1. (m - i) + 1 = (m - j) + 1
    BY <1>1, <1>2, <1>3, <1>6
  <2> QED BY <2>1, <1>2
<1> QED BY <1>1, <1>4, <1>5, <1>6 DEF m

\* What has become of the record of n after the first i steps.
UndoneUpTo(s, db, b, n, i) ==
  s.ok =>
    \/ s.db[n] = db[n] /\ \A j \in 1 .. i : NameOf[FromEnd(b, j)] # n
    \/ db[n] = Nil /\ s.db[n] = Nil
    \/ /\ db[n] # Nil /\ Len(db[n].vtxPos) # 1 /\ s.db[n] = Undone(db[n])
       /\ \E j \in 1 .. i : FromEnd(b, j) \in WrittenAt(b) /\ NameOf[FromEnd(b, j)] = n

\* One step of a disconnection, seen from one name.
LEMMA UndoStep ==
  ASSUME NEW b \in Blocks, NEW db, RecordsOK(db), NEW n \in Names,
         Represents(db[n], History[b][n]), n \notin NotTakenBack(db, b),
         NEW i \in 1 .. Len(vtx[b]), NEW s \in UndoStates,
         UndoneUpTo(s, db, b, n, i - 1)
  PROVE  UndoneUpTo(UndoName(s, FromEnd(b, i)), db, b, n, i)
<1> DEFINE t == FromEnd(b, i)
           new == UndoName(s, t)
           rec == s.db[NameOf[t]]
           h == History[b][n]
           L == Len(db[n].vtxPos)
<1> SUFFICES ASSUME new.ok
             PROVE  \/ new.db[n] = db[n] /\ \A j \in 1 .. i : NameOf[FromEnd(b, j)] # n
                    \/ db[n] = Nil /\ new.db[n] = Nil
                    \/ /\ db[n] # Nil /\ L # 1 /\ new.db[n] = Undone(db[n])
                       /\ \E j \in 1 .. i : /\ FromEnd(b, j) \in WrittenAt(b)
                                            /\ NameOf[FromEnd(b, j)] = n
  BY DEF UndoneUpTo
<1>1. /\ i \in Nat /\ i \in 1 .. i
      /\ \A j \in 1 .. i : j = i \/ j \in 1 .. (i - 1)
      /\ \A j \in 1 .. (i - 1) : j \in 1 .. i /\ j \in 1 .. Len(vtx[b]) /\ j # i
  BY FromEndIs
<1>2. t \in BlockTxs(b) /\ t \in Txs /\ h \in Seq(Entry)
  BY FromEndIs, HistoryStep
<1>3. /\ new \in UndoStates
      /\ ~s.ok \/ t \notin NameTxs \/ rec = Nil => new = s
      /\ s.ok /\ t \in NameTxs /\ rec # Nil =>
           /\ rec \in Stored /\ RecordOK(rec)
           /\ new.ok = (Readable(rec) /\ Last(rec.vtxPos).pos[2] = t)
           /\ new.ok /\ Len(rec.vtxPos) = 1 => new.db = s.db
           /\ new.ok /\ Len(rec.vtxPos) # 1 =>
                new.db = [s.db EXCEPT ![NameOf[t]] = Undone(rec)]
  BY <1>2, UndoNameIs
<1>4. s.ok /\ s.db \in DBs
  BY <1>3 DEF UndoStates
<1>5. \/ s.db[n] = db[n] /\ \A j \in 1 .. (i - 1) : NameOf[FromEnd(b, j)] # n
      \/ db[n] = Nil /\ s.db[n] = Nil
      \/ /\ db[n] # Nil /\ L # 1 /\ s.db[n] = Undone(db[n])
         /\ \E j \in 1 .. (i - 1) :
                  FromEnd(b, j) \in WrittenAt(b) /\ NameOf[FromEnd(b, j)] = n
  BY <1>4 DEF UndoneUpTo
<1> HIDE DEF new, t
<1>6. CASE NameOf[t] # n
  <2>1. new.db[n] = s.db[n]
    <3>1. CASE t \notin NameTxs \/ rec = Nil
      BY <3>1, <1>3
    <3>2. CASE t \in NameTxs /\ rec # Nil
      BY <3>2, <1>3, <1>4, <1>6, NameTxType DEF DBs
    <3> QED BY <3>1, <3>2
  <2> QED BY <2>1, <1>1, <1>5, <1>6 DEF t
<1>7. CASE NameOf[t] = n
  <2>1. t \in NameTxs
    BY <1>2, <1>7, NamesAssumption DEF NameTxs
  <2>2. CASE s.db[n] = Nil
    <3>1. new = s
      BY <2>2, <1>3, <1>7
    <3>2. ~(db[n] # Nil /\ L # 1 /\ s.db[n] = Undone(db[n]))
      <4> SUFFICES ASSUME db[n] # Nil, L # 1 PROVE Undone(db[n]) # Nil
        BY <2>2
      <4>1. EndOf(db[n], h)
        BY RepresentsReadable
      <4>2. Undone(db[n]) \in Stored
        BY <4>1, UndoneIs DEF EndOf
      <4> QED BY <4>2, NilAssumption DEF Stored, Workable
    <3> QED BY <2>2, <3>1, <3>2, <1>5
  <2>3. CASE s.db[n] = db[n] /\ db[n] # Nil /\ \A j \in 1 .. (i - 1) : NameOf[FromEnd(b, j)] # n
    <3>1. EndOf(db[n], h) /\ h # <<>>
      BY <2>3, RepresentsReadable
    <3>2. /\ L \in Nat /\ L > 0 /\ Len(h) \in Nat /\ L <= Len(h)
          /\ db[n].vtxPos[L] = h[L + (Len(h) - L)]
      <4>1. /\ L \in Nat /\ db[n].vtxPos \in Seq(Entry) /\ db[n].vtxPos # <<>>
            /\ L <= Len(h)
            /\ \A j \in 1 .. L : db[n].vtxPos[j] = h[j + (Len(h) - L)]
        BY <3>1, RecordFields DEF EndOf, Stored, Workable
      <4>2. L > 0
        BY <4>1
      <4>3. Len(h) \in Nat
        BY <1>2
      <4> HIDE DEF L, h
      <4>4. L \in 1 .. L
        BY <4>1, <4>2
      <4> QED BY <4>1, <4>2, <4>3, <4>4
    <3>3. Last(db[n].vtxPos) = h[Len(h)] /\ Len(h) \in 1 .. Len(h)
      <4> HIDE DEF L, h
      <4>1. L + (Len(h) - L) = Len(h) /\ Len(h) \in 1 .. Len(h)
        BY <3>2
      <4> QED BY <4>1, <3>2 DEF Last, L
    <3>4. Last(db[n].vtxPos).pos[2] = t
      BY <2>1, <2>3, <1>3, <1>4, <1>7
    <3>5. t \in WrittenAt(b)
      BY <3>3, <3>4, <1>2, EntryOfTip
    <3>6. L # 1
      BY <2>3, <1>2, <1>7 DEF NotTakenBack
    <3>7. new.db[n] = Undone(db[n])
      BY <2>1, <2>3, <3>6, <1>3, <1>4, <1>7 DEF DBs
    <3> QED BY <2>3, <3>5, <3>6, <3>7, <1>1, <1>7 DEF t
  <2>4. CASE /\ db[n] # Nil /\ L # 1 /\ s.db[n] = Undone(db[n]) /\ s.db[n] # Nil
             /\ \E j \in 1 .. (i - 1) :
                  FromEnd(b, j) \in WrittenAt(b) /\ NameOf[FromEnd(b, j)] = n
    <3>1. PICK j \in 1 .. (i - 1) : FromEnd(b, j) \in WrittenAt(b) /\ NameOf[FromEnd(b, j)] = n
      BY <2>4
    <3>2. EndOf(db[n], h)
      BY <2>4, RepresentsReadable
    <3> DEFINE u == Undone(db[n])
    <3>3. /\ u \in Stored /\ Len(u.vtxPos) = L - 1
          /\ \A x \in 1 .. (L - 1) : u.vtxPos[x] = db[n].vtxPos[x]
      BY <2>4, <3>2, UndoneIs DEF EndOf
    <3>4. /\ L \in Nat /\ L <= Len(h) /\ Len(h) \in Nat
          /\ \A x \in 1 .. L : db[n].vtxPos[x] = h[x + (Len(h) - L)]
      <4>1. Len(h) \in Nat
        BY <1>2
      <4>2. L \in Nat
        BY <3>2, RecordFields DEF EndOf, Stored, Workable
      <4> QED BY <4>1, <4>2, <3>2 DEF EndOf
    <3>5. L - 1 > 0
      <4>1. u.vtxPos # <<>> /\ u.vtxPos \in Seq(Entry)
        BY <3>3, RecordFields DEF Stored, Workable
      <4>2. Len(u.vtxPos) \in Nat /\ Len(u.vtxPos) # 0
        BY <4>1
      <4> HIDE DEF u, L
      <4> QED BY <4>2, <3>3, <3>4
    <3>6. Last(u.vtxPos).pos[2] = t
      BY <2>1, <2>4, <1>3, <1>4, <1>7
    <3>7. /\ Last(u.vtxPos) = h[L - 1 + (Len(h) - L)]
          /\ L - 1 + (Len(h) - L) \in 1 .. Len(h)
      <4>1. Last(u.vtxPos) = u.vtxPos[L - 1]
        BY <3>3 DEF Last
      <4> HIDE DEF u, L, h
      <4>2. L - 1 \in 1 .. (L - 1) /\ L - 1 \in 1 .. L /\ L - 1 + (Len(h) - L) \in 1 .. Len(h)
        BY <3>4, <3>5
      <4> QED BY <4>1, <4>2, <3>3, <3>4
    <3>8. t \in WrittenAt(b)
      BY <3>6, <3>7, <1>2, EntryOfTip
    <3>9. t = FromEnd(b, j)
      BY <3>1, <3>8, <1>7, WrittenAtType
    <3>10. i = j
      BY <3>9, <1>1, FromEndIs DEF t
    <3> QED BY <3>1, <3>10, <1>1
  <2> QED BY <2>2, <2>3, <2>4, <1>5
<1> QED BY <1>6, <1>7

\* A disconnection without a failed assertion takes back what the block wrote.
LEMMA DisconnectRepresents ==
  ASSUME NEW b \in Blocks \ {Genesis}, NEW db, RecordsOK(db), NEW n \in Names,
         Represents(db[n], History[b][n]), n \notin NotTakenBack(db, b),
         DisconnectNames(db, b).ok
  PROVE  Represents(DisconnectNames(db, b).db[n], History[Prev[b]][n])
<1> DEFINE m == Len(vtx[b])
           h == History[b][n]
           hh == History[Prev[b]][n]
           L == Len(db[n].vtxPos)
<1>1. PICK g : UndoRun(g, db, b)
  BY DisconnectNamesIs
<1>2. /\ m \in Nat /\ h \in Seq(Entry) /\ hh \in Seq(Entry) /\ Len(h) \in Nat
      /\ Len(hh) \in Nat
  BY FromEndIs, HistoryStep
<1>3. UndoneUpTo(g[m], db, b, n, m)
  <2> DEFINE S == {i \in 0 .. m : UndoneUpTo(g[i], db, b, n, i)}
  <2>1. 0 \in S
    <3>1. g[0].db = db
      BY <1>1 DEF UndoRun
    <3>2. \A j \in 1 .. 0 : FALSE
      OBVIOUS
    <3>3. UndoneUpTo(g[0], db, b, n, 0)
      BY <3>1, <3>2 DEF UndoneUpTo
    <3> QED BY <1>2, <3>3
  <2>2. ASSUME NEW i \in 1 .. m, i - 1 \in S PROVE i \in S
    <3>1. i - 1 \in 0 .. m /\ i \in 0 .. m
      BY <1>2
    <3>2. g[i - 1] \in UndoStates /\ g[i] = UndoName(g[i - 1], FromEnd(b, i))
      BY <3>1, <1>1 DEF UndoRun, FromEnd
    <3>3. UndoneUpTo(g[i], db, b, n, i)
      BY <2>2, <3>2, UndoStep
    <3> QED BY <3>1, <3>3
  <2>3. m \in Nat
    BY <1>2
  <2> HIDE DEF S, m
  <2>4. m \in S
    BY <2>1, <2>2, <2>3, IntervalInduction
  <2> QED BY <2>4 DEF S
<1> DEFINE new == DisconnectNames(db, b).db[n]
<1>4. \/ new = db[n] /\ \A j \in 1 .. m : NameOf[FromEnd(b, j)] # n
      \/ db[n] = Nil /\ new = Nil
      \/ /\ db[n] # Nil /\ L # 1 /\ new = Undone(db[n])
         /\ \E j \in 1 .. m : FromEnd(b, j) \in WrittenAt(b) /\ NameOf[FromEnd(b, j)] = n
  BY <1>1, <1>3 DEF UndoRun, UndoneUpTo
<1> HIDE DEF new
<1>5. ASSUME NEW t \in WrittenAt(b), NameOf[t] = n
      PROVE  /\ h = Append(hh, EntryOf(b, t)) /\ Len(h) = Len(hh) + 1 /\ h # <<>>
             /\ \A i \in 1 .. Len(hh) : h[i] = hh[i]
             /\ \E j \in 1 .. m : FromEnd(b, j) = t
  <2>1. h = Append(hh, EntryOf(b, t)) /\ EntryOf(b, t) \in Entry /\ t \in BlockTxs(b)
    BY <1>5, HistoryStep, WrittenAtType
  <2>2. \E j \in 1 .. m : FromEnd(b, j) = t
    BY <2>1, FromEndIs
  <2> HIDE DEF h, hh
  <2>3. Len(h) = Len(hh) + 1 /\ \A i \in 1 .. Len(hh) : h[i] = hh[i]
    BY <1>2, <2>1, AppendIs
  <2>4. h # <<>>
    BY <1>2, <2>3
  <2> QED BY <2>1, <2>2, <2>3, <2>4
<1>6. CASE new = db[n] /\ \A j \in 1 .. m : NameOf[FromEnd(b, j)] # n
  <2>1. \A t \in WrittenAt(b) : NameOf[t] # n
    BY <1>5, <1>6
  <2>2. hh = h
    BY <2>1, HistoryStep
  <2> QED BY <2>2, <1>6 DEF new
<1>7. CASE db[n] = Nil /\ new = Nil
  <2>1. h = <<>>
    <3> SUFFICES ASSUME h # <<>> PROVE FALSE
      OBVIOUS
    <3>1. db[n] \in Stored
      BY DEF Represents, EndOf
    <3> QED BY <3>1, <1>7, NilAssumption DEF Stored, Workable
  <2>2. \A t \in WrittenAt(b) : NameOf[t] # n
    BY <2>1, <1>5
  <2>3. hh = h
    BY <2>2, HistoryStep
  <2> QED BY <2>1, <2>3, <1>7 DEF new, Represents
<1>8. CASE /\ db[n] # Nil /\ L # 1 /\ new = Undone(db[n])
           /\ \E j \in 1 .. m : FromEnd(b, j) \in WrittenAt(b) /\ NameOf[FromEnd(b, j)] = n
  <2>1. PICK t \in WrittenAt(b) : NameOf[t] = n
    BY <1>8
  <2>2. EndOf(db[n], h)
    BY <1>8, RepresentsReadable
  <2>3. Readable(Popped(db[n]))
    BY <1>8, <2>1, WrittenAtType DEF NotTakenBack
  <2>4. /\ new \in Stored /\ RecordOK(new) /\ Len(new.vtxPos) = L - 1
        /\ \A i \in 1 .. (L - 1) : new.vtxPos[i] = db[n].vtxPos[i]
        /\ new.nLastActiveChainIndex < Len(new.vtxPos)
        /\ new.nExpiresAt = Expiry(new)
    BY <1>8, <2>2, <2>3, UndoneIs DEF EndOf
  <2>5. L \in Nat /\ L <= Len(h) /\ \A i \in 1 .. L : db[n].vtxPos[i] = h[i + (Len(h) - L)]
    <3>1. L \in Nat
      BY <2>2, RecordFields DEF EndOf, Stored, Workable
    <3> QED BY <3>1, <2>2 DEF EndOf
  <2>6. Len(h) = Len(hh) + 1 /\ \A i \in 1 .. Len(hh) : h[i] = hh[i]
    BY <2>1, <1>5
  <2>a. Len(new.vtxPos) \in Nat /\ Len(new.vtxPos) # 0
    <3>1. new.vtxPos # <<>> /\ new.vtxPos \in Seq(Entry)
      BY <2>4, RecordFields DEF Stored, Workable
    <3> QED BY <3>1
  <2> HIDE DEF L, h, hh
  <2>7. Len(new.vtxPos) <= Len(hh) /\ Len(hh) # 0
    BY <1>2, <2>4, <2>5, <2>6, <2>a
  <2>8. ASSUME NEW i \in 1 .. Len(new.vtxPos)
        PROVE  new.vtxPos[i] = hh[i + (Len(hh) - Len(new.vtxPos))]
    <3>1. /\ i \in 1 .. (L - 1) /\ i \in 1 .. L
          /\ i + (Len(h) - L) = i + (Len(hh) - Len(new.vtxPos))
          /\ i + (Len(h) - L) \in 1 .. Len(hh)
      BY <1>2, <2>4, <2>5, <2>6
    <3>2. new.vtxPos[i] = h[i + (Len(h) - L)]
      BY <3>1, <2>4, <2>5
    <3> QED BY <3>1, <3>2, <2>6
  <2>9. EndOf(new, hh)
    BY <2>4, <2>7, <2>8 DEF EndOf
  <2>10. hh # <<>>
    BY <2>7
  <2> QED BY <2>9, <2>10 DEF Represents, new, hh
<1> QED BY <1>4, <1>6, <1>7, <1>8

\* No assertion fails in a block all of whose operations were written.
LEMMA DisconnectHolds ==
  ASSUME NEW b \in Blocks \ {Genesis}, NEW db, RecordsOK(db), NEW N \in SUBSET Names,
         \A n \in N : Represents(db[n], History[b][n]),
         \A t \in BlockTxs(b) \cap NameTxs :
            NameOf[t] \in N /\ t \in Written(Replay[Prev[b]], b)
  PROVE  DisconnectNames(db, b).ok
<1> DEFINE m == Len(vtx[b])
<1>1. PICK g : UndoRun(g, db, b)
  BY DisconnectNamesIs
<1>2. m \in Nat
  BY FromEndIs
<1>3. /\ g[0].db = db /\ g[0].ok /\ DisconnectNames(db, b) = g[m]
      /\ \A i \in 1 .. m : /\ g[i - 1] \in UndoStates
                           /\ g[i] = UndoName(g[i - 1], FromEnd(b, i))
  <2>1. \A i \in 1 .. m : i - 1 \in 0 .. m
    BY <1>2
  <2>2. g[0] = [db |-> db, ok |-> TRUE] /\ DisconnectNames(db, b) = g[m]
    BY <1>1 DEF UndoRun
  <2>3. g[0].db = db /\ g[0].ok
    BY <2>2
  <2>4. \A i \in 1 .. m : /\ g[i - 1] \in UndoStates
                          /\ g[i] = UndoName(g[i - 1], FromEnd(b, i))
    BY <2>1, <1>1 DEF UndoRun, FromEnd
  <2> QED BY <2>2, <2>3, <2>4
<1> DEFINE Kept(i) ==
             /\ g[i].ok
             /\ \A n \in N : (\/ Height[b] < RELEASE_HEIGHT
                              \/ \A j \in 1 .. i : NameOf[FromEnd(b, j)] # n)
                               => g[i].db[n] = db[n]
           S == {i \in 0 .. m : Kept(i)}
<1>4. 0 \in S
  BY <1>2, <1>3
<1>5. ASSUME NEW i \in 1 .. m, i - 1 \in S PROVE i \in S
  <2> DEFINE t == FromEnd(b, i)
             s == g[i - 1]
             new == g[i]
             rec == s.db[NameOf[t]]
  <2>1. /\ i - 1 \in 0 .. m /\ i \in 0 .. m /\ i \in 1 .. i
        /\ \A j \in 1 .. (i - 1) : j \in 1 .. i /\ j \in 1 .. m /\ j # i
    BY <1>2
  <2>2. /\ s.ok
        /\ \A n \in N : (\/ Height[b] < RELEASE_HEIGHT
                         \/ \A j \in 1 .. (i - 1) : NameOf[FromEnd(b, j)] # n)
                          => s.db[n] = db[n]
    BY <1>5
  <2>3. t \in BlockTxs(b) /\ t \in Txs
    BY FromEndIs
  <2>4. /\ t \notin NameTxs \/ rec = Nil => new = s
        /\ t \in NameTxs /\ rec # Nil =>
             /\ rec \in Stored
             /\ new.ok = (Readable(rec) /\ Last(rec.vtxPos).pos[2] = t)
             /\ new.ok /\ Len(rec.vtxPos) = 1 => new.db = s.db
             /\ new.ok /\ Len(rec.vtxPos) # 1 =>
                  new.db = [s.db EXCEPT ![NameOf[t]] = Undone(rec)]
    <3>1. new = UndoName(s, t) /\ s \in UndoStates
      BY <1>3
    <3> HIDE DEF new, s, t
    <3> QED BY <2>2, <2>3, <3>1, UndoNameIs
  <2>5. s.db \in DBs
    BY <1>3 DEF UndoStates
  <2> HIDE DEF s, new, t
  <2>6. CASE t \notin NameTxs \/ rec = Nil
    <3>1. new = s
      BY <2>4, <2>6
    <3>2. Kept(i)
      BY <3>1, <2>1, <2>2 DEF new, s
    <3> QED BY <3>2, <2>1
  <2>7. CASE t \in NameTxs /\ rec # Nil
    <3> DEFINE nm == NameOf[t]
               h == History[b][nm]
    <3>1. nm \in N /\ nm \in Names /\ t \in Written(Replay[Prev[b]], b)
      BY <2>3, <2>7
    <3>2. h \in Seq(Entry) /\ Len(h) \in Nat
      BY <3>1, HistoryStep
    <3>3. ~(Height[b] < RELEASE_HEIGHT)
      <4> SUFFICES ASSUME Height[b] < RELEASE_HEIGHT PROVE FALSE
        OBVIOUS
      <4>1. h = <<>>
        BY <3>1, HistoryStart
      <4>2. db[nm] = Nil
        BY <4>1, <3>1 DEF Represents
      <4>3. s.db[nm] = db[nm]
        BY <2>2, <3>1
      <4> QED BY <2>7, <4>2, <4>3
    <3>4. t \in WrittenAt(b)
      BY <3>1, <3>3 DEF WrittenAt
    <3>5. ASSUME NEW j \in 1 .. (i - 1), NameOf[FromEnd(b, j)] = nm PROVE FALSE
      <4>1. FromEnd(b, j) \in BlockTxs(b) /\ FromEnd(b, j) \in Txs /\ j \in 1 .. m /\ j # i
        BY <2>1, FromEndIs
      <4>2. FromEnd(b, j) \in NameTxs
        BY <4>1, <3>1, <3>5, NamesAssumption DEF NameTxs
      <4>3. FromEnd(b, j) \in WrittenAt(b)
        BY <4>1, <4>2, <3>3 DEF WrittenAt
      <4>4. FromEnd(b, j) = t
        BY <4>3, <3>4, <3>5, WrittenAtType
      <4> QED BY <4>1, <4>4, FromEndIs DEF t
    <3>6. rec = db[nm]
      BY <2>2, <3>1, <3>5
    <3>7. Readable(rec) /\ EndOf(rec, h) /\ h # <<>>
      BY <2>7, <3>1, <3>6, RepresentsReadable
    <3>8. h = Append(History[Prev[b]][nm], EntryOf(b, t)) /\ EntryOf(b, t) \in Entry
            /\ History[Prev[b]][nm] \in Seq(Entry)
      BY <3>1, <3>4, HistoryStep, WrittenAtType
    <3>9. h[Len(h)] = EntryOf(b, t)
      BY <3>8, AppendIs
    <3>10. Last(rec.vtxPos) = h[Len(h)]
      <4> DEFINE L == Len(rec.vtxPos)
      <4>1. /\ L \in Nat /\ rec.vtxPos # <<>> /\ rec.vtxPos \in Seq(Entry)
            /\ L <= Len(h) /\ \A x \in 1 .. L : rec.vtxPos[x] = h[x + (Len(h) - L)]
        BY <3>7, RecordFields DEF EndOf, Stored, Workable
      <4>2. L # 0 /\ Last(rec.vtxPos) = rec.vtxPos[L]
        BY <4>1 DEF Last
      <4> HIDE DEF L, h
      <4>3. L \in 1 .. L /\ L + (Len(h) - L) = Len(h)
        BY <3>2, <4>1, <4>2
      <4> QED BY <4>1, <4>2, <4>3
    <3>11. new.ok
      <4>1. Last(rec.vtxPos).pos[2] = t
        BY <3>9, <3>10 DEF EntryOf
      <4> QED BY <2>4, <2>7, <3>7, <4>1
    <3>12. \A n \in N : n # nm => new.db[n] = s.db[n]
      BY <2>4, <2>5, <2>7, <3>1, <3>11 DEF DBs
    <3>13. Kept(i)
      BY <2>1, <2>2, <3>3, <3>11, <3>12 DEF new, t
    <3> QED BY <3>13, <2>1
  <2> QED BY <2>6, <2>7
<1> HIDE DEF S, m
<1>6. m \in S
  BY <1>2, <1>4, <1>5, IntervalInduction
<1> QED BY <1>3, <1>6 DEF S

-----------------------------------------------------------------------------
(***************************************************************************)
(* The index follows the chain.                                            *)
(***************************************************************************)

\* Until a call ends halfway or an assertion fails, the record of every name that
\* has been properly taken back is the end of its history on the chain.
FollowsChain ==
  ~drifted /\ aborted = Nil =>
    \A n \in Names \ lost : Represents(nameDB[n], History[cur][n])

\* PendingUnconfirmed, also while a call is under way.
PendingFollows ==
  ~drifted /\ aborted = Nil =>
    \A n \in Names \ lost : \A c \in Ancestors[cur] :
      ~(Height[c] < RELEASE_HEIGHT) =>
        (mapNamePending[n] \ overtaken) \cap BlockTxs(c)
          \subseteq vName(Replay[Prev[c]], c) \ Written(Replay[Prev[c]], c)

NameInv ==
  /\ RecordInv
  /\ target = Nil => cur = best /\ aborted = Nil
  /\ FollowsChain
  /\ PendingFollows
  /\ AbortOnlyOnRefused

\* Initially every history is empty.
LEMMA NameInit == Init => NameInv
<1> SUFFICES ASSUME Init PROVE NameInv
  OBVIOUS
<1>1. RecordInv
  BY RecordInit
<1>2. FollowsChain
  BY HistoryStep DEF Init, FollowsChain, Represents
<1>3. PendingFollows
  BY DEF Init, PendingFollows
<1> QED BY <1>1, <1>2, <1>3 DEF Init, NameInv, AbortOnlyOnRefused

\* Disconnecting the tip keeps the invariant.
LEMMA NameDisconnect ==
  ASSUME NameInv, RecordInv', DisconnectTip
  PROVE  NameInv'
<1> DEFINE s == DisconnectNames(nameDB, cur)
<1>1. /\ target # Nil /\ aborted = Nil /\ nameDB' = s.db
      /\ cur' = (IF s.ok THEN Prev[cur] ELSE cur)
      /\ aborted' = (IF s.ok THEN Nil ELSE cur)
      /\ lost' = lost \cup NotTakenBack(nameDB, cur)
      /\ target' = target /\ best' = best /\ drifted' = drifted
      /\ mapNamePending' = mapNamePending /\ overtaken' = overtaken
  BY DEF DisconnectTip, pool
<1>2. cur \in Blocks \ {Genesis} /\ RecordsOK(nameDB) /\ cur # Nil
  BY TreeAssumption DEF NameInv, RecordInv, DisconnectTip
<1>3. Prev[cur] \in Blocks /\ Ancestors[Prev[cur]] \subseteq Ancestors[cur]
  BY <1>2, ParentFacts
<1>4. ~drifted => \A n \in Names \ lost : Represents(nameDB[n], History[cur][n])
  BY <1>1 DEF NameInv, FollowsChain
<1> HIDE DEF s
<1>5. FollowsChain'
  <2> SUFFICES ASSUME ~drifted', aborted' = Nil, NEW n \in Names \ lost'
               PROVE  Represents(nameDB'[n], History[cur'][n])
    BY DEF FollowsChain
  <2>1. s.ok /\ cur' = Prev[cur] /\ n \notin lost /\ n \notin NotTakenBack(nameDB, cur)
    BY <1>1, <1>2
  <2>2. Represents(nameDB[n], History[cur][n])
    BY <1>1, <1>4, <2>1
  <2>3. Represents(s.db[n], History[Prev[cur]][n])
    BY <1>2, <2>1, <2>2, DisconnectRepresents DEF s
  <2> QED BY <1>1, <2>1, <2>3
<1>6. PendingFollows'
  <2> SUFFICES ASSUME ~drifted', aborted' = Nil, NEW n \in Names \ lost',
                      NEW c \in Ancestors[cur'], ~(Height[c] < RELEASE_HEIGHT)
               PROVE  (mapNamePending'[n] \ overtaken') \cap BlockTxs(c)
                        \subseteq vName(Replay[Prev[c]], c) \ Written(Replay[Prev[c]], c)
    BY DEF PendingFollows
  <2>1. n \in Names \ lost /\ c \in Ancestors[cur] /\ ~drifted
    BY <1>1, <1>2, <1>3
  <2> QED BY <1>1, <2>1 DEF NameInv, PendingFollows
<1>7. AbortOnlyOnRefused'
  <2> SUFFICES ASSUME aborted' # Nil, ~drifted',
                      \A t \in BlockTxs(aborted') \cap NameTxs :
                         NameOf[t] \notin lost' /\ t \in Written(Replay[Prev[aborted']], aborted')
               PROVE  FALSE
    BY DEF AbortOnlyOnRefused
  <2>1. ~s.ok /\ aborted' = cur /\ ~drifted
    BY <1>1
  <2> DEFINE N == Names \ lost
  <2>2. \A t \in BlockTxs(cur) \cap NameTxs :
          NameOf[t] \in N /\ t \in Written(Replay[Prev[cur]], cur)
    BY <1>1, <2>1, NameTxType
  <2>3. N \in SUBSET Names /\ \A n \in N : Represents(nameDB[n], History[cur][n])
    BY <1>4, <2>1
  <2> HIDE DEF N
  <2>4. DisconnectNames(nameDB, cur).ok
    BY <1>2, <2>2, <2>3, DisconnectHolds
  <2> QED BY <2>1, <2>4 DEF s
<1> QED BY <1>1, <1>5, <1>6, <1>7 DEF NameInv

\* Connecting the next block keeps the invariant.
LEMMA NameConnect ==
  ASSUME NameInv, RecordInv', ConnectNext
  PROVE  NameInv'
<1> DEFINE b == Toward(cur, target)
<1>1. /\ target \in Blocks /\ cur \in Ancestors[target] /\ cur # target /\ aborted = Nil
      /\ target # Nil /\ cur \in Blocks /\ RecordsOK(nameDB)
      /\ target' = target /\ best' = best /\ drifted' = drifted /\ lost' = lost
  BY DEF ConnectNext, NameInv, RecordInv
<1>2. b \in Blocks \ {Genesis} /\ Prev[b] = cur
  BY <1>1, TowardChild
<1>3. ~drifted => \A n \in Names \ lost : Represents(nameDB[n], History[cur][n])
  BY <1>1 DEF NameInv, FollowsChain
<1>4. \A n \in Names : Represents(Replay[cur][n], History[cur][n])
  BY <1>1, ReplayRepresents
<1>a. /\ Height[b] < RELEASE_HEIGHT \/ NeededReadable(nameDB, b) =>
           /\ nameDB' = ConnectNames(nameDB, b) /\ cur' = b /\ aborted' = aborted
           /\ mapNamePending' = PendingAfter(mapNamePending, nameDB, b)
           /\ overtaken' = {t \in overtaken : t \in mapNamePending'[NameOf[t]]}
      /\ ~(Height[b] < RELEASE_HEIGHT \/ NeededReadable(nameDB, b)) =>
           aborted' = b /\ UNCHANGED <<nameDB, mapNamePending, overtaken, cur>>
  BY DEF ConnectNext, NeededReadable
<1> HIDE DEF b
<1>5. CASE Height[b] < RELEASE_HEIGHT \/ NeededReadable(nameDB, b)
  <2>1. /\ nameDB' = ConnectNames(nameDB, b) /\ cur' = b /\ aborted' = Nil
        /\ mapNamePending' = PendingAfter(mapNamePending, nameDB, b)
        /\ overtaken' = {t \in overtaken : t \in mapNamePending'[NameOf[t]]}
    BY <1>1, <1>5, <1>a
  <2>2. FollowsChain'
    <3> SUFFICES ASSUME ~drifted', NEW n \in Names \ lost'
                 PROVE  Represents(nameDB'[n], History[cur'][n])
      BY DEF FollowsChain
    <3>1. /\ Represents(nameDB[n], History[Prev[b]][n])
          /\ Represents(Replay[Prev[b]][n], History[Prev[b]][n])
      BY <1>1, <1>2, <1>3, <1>4
    <3> QED BY <1>1, <1>2, <1>5, <2>1, <3>1, ConnectRepresents
  <2>3. PendingFollows'
    <3> SUFFICES ASSUME ~drifted', NEW n \in Names \ lost', NEW c \in Ancestors[cur'],
                        ~(Height[c] < RELEASE_HEIGHT),
                        NEW t \in mapNamePending'[n] \ overtaken', t \in BlockTxs(c)
                 PROVE  t \in vName(Replay[Prev[c]], c) \ Written(Replay[Prev[c]], c)
      BY DEF PendingFollows
    <3>1. /\ mapNamePending'[n] \subseteq mapNamePending[n]
          /\ ~(Height[b] < RELEASE_HEIGHT) =>
               mapNamePending'[n] =
                 mapNamePending[n] \ (BlockTxs(b) \ (vName(nameDB, b) \ Written(nameDB, b)))
      BY <2>1 DEF PendingAfter
    <3>2. t \in mapNamePending[n] \ overtaken /\ t \in NameTxs /\ NameOf[t] = n
      BY <2>1, <3>1 DEF NameInv, RecordInv
    <3>3. CASE c = b
      <4>1. t \in vName(nameDB, b) \ Written(nameDB, b)
        BY <3>1, <3>3
      <4>2. /\ Represents(nameDB[n], History[cur][n])
            /\ Represents(Replay[cur][n], History[cur][n])
            /\ History[cur][n] \in Seq(Entry)
        BY <1>1, <1>3, <1>4, HistoryStep
      <4>3. t \in vName(Replay[cur], b) /\ t \notin Written(Replay[cur], b)
        BY <4>1, <4>2, <1>2, <3>2, SameCounts
      <4> QED BY <4>3, <3>3, <1>2
    <3>4. CASE c # b
      <4>1. c \in Ancestors[cur]
        BY <1>2, <2>1, <3>4, AncestorsStep
      <4> QED BY <4>1, <1>1, <3>2 DEF NameInv, PendingFollows
    <3> QED BY <3>3, <3>4
  <2>4. AbortOnlyOnRefused'
    BY <2>1 DEF AbortOnlyOnRefused
  <2> QED BY <1>1, <2>2, <2>3, <2>4 DEF NameInv
<1>6. CASE ~(Height[b] < RELEASE_HEIGHT \/ NeededReadable(nameDB, b))
  <2>1. aborted' = b /\ aborted' # Nil
    BY <1>2, <1>6, <1>a, TreeAssumption
  <2>2. AbortOnlyOnRefused'
    <3> SUFFICES ASSUME ~drifted'
                 PROVE  \E t \in BlockTxs(b) \cap NameTxs : NameOf[t] \in lost'
      BY <2>1 DEF AbortOnlyOnRefused
    <3>1. PICK t \in BlockTxs(b) \cap NameTxs :
             nameDB[NameOf[t]] # Nil /\ ~Readable(nameDB[NameOf[t]])
      BY <1>6 DEF NeededReadable
    <3>2. NameOf[t] \in Names
      BY NameTxType
    <3>3. NameOf[t] \in lost
      BY <1>1, <1>3, <3>1, <3>2, RepresentsReadable
    <3> QED BY <1>1, <3>3
  <2> QED BY <1>1, <2>1, <2>2 DEF NameInv, FollowsChain, PendingFollows
<1> QED BY <1>5, <1>6

\* Every step keeps the invariant.
LEMMA NameNext == NameInv /\ [Next]_vars => NameInv'
<1> SUFFICES ASSUME NameInv, [Next]_vars PROVE NameInv'
  OBVIOUS
<1>1. RecordInv'
  BY RecordNext DEF NameInv
<1>2. ASSUME NEW b \in Blocks, SetBestChain(b) PROVE NameInv'
  <2>1. target' # Nil
    BY <1>2, TreeAssumption DEF SetBestChain
  <2> QED BY <1>1, <1>2, <2>1 DEF NameInv, SetBestChain, FollowsChain, PendingFollows,
                                  AbortOnlyOnRefused, pool
<1>3. CASE DisconnectTip
  BY <1>1, <1>3, NameDisconnect
<1>4. CASE ConnectNext
  BY <1>1, <1>4, NameConnect
<1>5. CASE Commit
  BY <1>1, <1>5 DEF NameInv, Commit, FollowsChain, PendingFollows, AbortOnlyOnRefused, pool
<1>6. CASE Interrupted
  BY <1>1, <1>6 DEF NameInv, Interrupted, FollowsChain, PendingFollows, AbortOnlyOnRefused
<1>7. ASSUME NEW t \in Submitted, AddToPendingNames(t) PROVE NameInv'
  <2>1. t \in NameTxs /\ NameOf[t] \in Names
    BY NamesAssumption, NameTxType
  <2>2. /\ mapNamePending' = [mapNamePending EXCEPT ![NameOf[t]] = @ \cup {t}]
        /\ overtaken \subseteq overtaken'
        /\ (\E c \in Ancestors[cur] : t \in BlockTxs(c)) => t \in overtaken'
        /\ UNCHANGED <<best, cur, target, nameDB, aborted, drifted, lost>>
    BY <1>7 DEF AddToPendingNames, NameInv
  <2>3. \A n \in Names : mapNamePending'[n] \subseteq mapNamePending[n] \cup {t}
    BY <2>1, <2>2 DEF NameInv, RecordInv
  <2>4. PendingFollows'
    <3> SUFFICES ASSUME ~drifted', aborted' = Nil, NEW n \in Names \ lost',
                        NEW c \in Ancestors[cur'], ~(Height[c] < RELEASE_HEIGHT),
                        NEW u \in mapNamePending'[n] \ overtaken', u \in BlockTxs(c)
                 PROVE  u \in vName(Replay[Prev[c]], c) \ Written(Replay[Prev[c]], c)
      BY DEF PendingFollows
    <3>1. c \in Ancestors[cur] /\ u \in mapNamePending[n] \ overtaken
      BY <2>2, <2>3
    <3> QED BY <2>2, <3>1 DEF NameInv, PendingFollows
  <2>5. FollowsChain' /\ AbortOnlyOnRefused'
    BY <2>2 DEF NameInv, FollowsChain, AbortOnlyOnRefused
  <2> QED BY <1>1, <2>2, <2>4, <2>5 DEF NameInv
<1>8. CASE UNCHANGED vars
  BY <1>1, <1>8 DEF vars, pool, NameInv, FollowsChain, PendingFollows, AbortOnlyOnRefused
<1>9. ASSUME NEW t \in Submitted, AcceptCheck(t) PROVE NameInv'
  BY <1>1, <1>9 DEF AcceptCheck, NameInv, FollowsChain, PendingFollows, AbortOnlyOnRefused
<1> QED BY <1>2, <1>3, <1>4, <1>5, <1>6, <1>7, <1>8, <1>9 DEF Next

\* What the invariant means for the properties.
LEMMA NameInvImplies ==
  NameInv => NamesPathIndependent /\ AbortOnlyOnRefused /\ PendingUnconfirmed
<1> SUFFICES ASSUME NameInv
             PROVE  NamesPathIndependent /\ AbortOnlyOnRefused /\ PendingUnconfirmed
  OBVIOUS
<1>1. NamesPathIndependent
  <2> SUFFICES ASSUME ~drifted, aborted = Nil, NEW n \in Names \ lost
               PROVE  SameName(nameDB[n], Replay[cur][n])
    BY DEF NamesPathIndependent
  <2>1. cur \in Blocks /\ Represents(nameDB[n], History[cur][n])
    BY DEF NameInv, RecordInv, FollowsChain
  <2>2. Represents(Replay[cur][n], History[cur][n]) /\ History[cur][n] \in Seq(Entry)
    BY <2>1, ReplayRepresents, HistoryStep
  <2> QED BY <2>1, <2>2, RepresentsSame
<1>2. PendingUnconfirmed
  <2> SUFFICES ASSUME target = Nil, ~drifted, NEW n \in Names \ lost,
                      NEW c \in Ancestors[best], Height[c] >= RELEASE_HEIGHT
               PROVE  (mapNamePending[n] \ overtaken) \cap BlockTxs(c)
                        \subseteq vName(Replay[Prev[c]], c) \ Written(Replay[Prev[c]], c)
    BY DEF PendingUnconfirmed
  <2>1. cur = best /\ aborted = Nil /\ best \in Blocks
    BY DEF NameInv, RecordInv
  <2>2. Height[c] \in Nat /\ RELEASE_HEIGHT \in Nat
    BY <2>1, AncestorsSelf, TreeAssumption, NamesAssumption
  <2>3. ~(Height[c] < RELEASE_HEIGHT)
    BY <2>2
  <2> QED BY <2>1, <2>3 DEF NameInv, PendingFollows
<1> QED BY <1>1, <1>2 DEF NameInv

\* Who holds a name depends on the chain alone, not on the branches connected and
\* disconnected on the way: DisconnectInputs takes back what ConnectBlock wrote.
THEOREM PathIndependent == Spec => []NamesPathIndependent
<1>1. Init => NameInv
  BY NameInit
<1>2. NameInv /\ [Next]_vars => NameInv'
  BY NameNext
<1>3. NameInv => NamesPathIndependent
  BY NameInvImplies
<1> QED BY <1>1, <1>2, <1>3, PTL DEF Spec

\* The assertions of the name index fail only where the block holds an operation
\* that does not count, or a name was not properly taken back before.
THEOREM AbortsOnRefused == Spec => []AbortOnlyOnRefused
<1>1. Init => NameInv
  BY NameInit
<1>2. NameInv /\ [Next]_vars => NameInv'
  BY NameNext
<1>3. NameInv => AbortOnlyOnRefused
  BY NameInvImplies
<1> QED BY <1>1, <1>2, <1>3, PTL DEF Spec

\* A confirmed operation is no longer pending, unless it was registered twice in
\* one block or added only after its block had been connected.
THEOREM ConfirmedNotPending == Spec => []PendingUnconfirmed
<1>1. Init => NameInv
  BY NameInit
<1>2. NameInv /\ [Next]_vars => NameInv'
  BY NameNext
<1>3. NameInv => PendingUnconfirmed
  BY NameInvImplies
<1> QED BY <1>1, <1>2, <1>3, PTL DEF Spec
=============================================================================
