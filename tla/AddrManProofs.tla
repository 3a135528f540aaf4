---------------------------- MODULE AddrManProofs ----------------------------
(***************************************************************************)
(* The consistency check of the address table, for any number of           *)
(* addresses, buckets and bucket sizes.                                    *)
(*                                                                         *)
(* The operations are built from small updates (create an entry, count a   *)
(* reference, insert into a bucket, take out of a bucket, erase), between  *)
(* which one entry is counted once more than buckets hold it.  Table says  *)
(* that a table is consistent with the entries of E counted once more; the *)
(* inductive invariant is Table of the state with E empty.  A restart      *)
(* renumbers the entries of such a table.                                  *)
(***************************************************************************)
EXTENDS AddrMan, FiniteSetTheorems, TLAPS

Holders(vn, i) == {b \in NewBuckets : i \in vn[b]}
TriedIds(infos) == {i \in DOMAIN infos : infos[i].fInTried}
NewIds(infos) == {i \in DOMAIN infos : ~infos[i].fInTried}

Typed(infos, addrs, rnd, nt, nn, vt, vn, idc) ==
  /\ idc \in Nat /\ nt \in Nat /\ nn \in Nat
  /\ DOMAIN infos \subseteq 0 .. idc - 1
  /\ infos \in [DOMAIN infos -> Info]
  /\ DOMAIN addrs \subseteq Ips
  /\ addrs \in [DOMAIN addrs -> DOMAIN infos]
  /\ rnd \in Seq(DOMAIN infos)
  /\ vt \in [TriedBuckets -> SUBSET DOMAIN infos]
  /\ vn \in [NewBuckets -> SUBSET DOMAIN infos]

Counted(infos, vn, E) ==
  \A i \in DOMAIN infos :
    /\ infos[i].nRefCount = Cardinality(Holders(vn, i)) + (IF i \in E THEN 1 ELSE 0)
    /\ infos[i].nRefCount <= ADDRMAN_NEW_BUCKETS_PER_ADDRESS
    /\ infos[i].fInTried <=> infos[i].nRefCount = 0

\* mapAddr and vRandom are inverse to the fields of the entries.
Mapped(infos, addrs, rnd) ==
  /\ \A i \in DOMAIN infos :
       /\ Ip[infos[i].addr] \in DOMAIN addrs
       /\ addrs[Ip[infos[i].addr]] = i
       /\ infos[i].nRandomPos \in 1 .. Len(rnd)
       /\ rnd[infos[i].nRandomPos] = i
  /\ \A a \in DOMAIN addrs : Ip[infos[addrs[a]].addr] = a
  /\ \A p \in 1 .. Len(rnd) : infos[rnd[p]].nRandomPos = p

Bucketed(infos, vt) ==
  \A i \in DOMAIN infos, k \in TriedBuckets :
    i \in vt[k] <=> infos[i].fInTried /\ TriedBucket[infos[i].addr] = k

Numbered(infos, rnd, nt, nn) ==
  /\ nt = Cardinality(TriedIds(infos))
  /\ nn = Cardinality(NewIds(infos))
  /\ Len(rnd) = nt + nn

Bounded(vt, vn) ==
  /\ \A b \in NewBuckets : Cardinality(vn[b]) <= ADDRMAN_NEW_BUCKET_SIZE
  /\ \A k \in TriedBuckets : Cardinality(vt[k]) <= ADDRMAN_TRIED_BUCKET_SIZE

Table(infos, addrs, rnd, nt, nn, vt, vn, idc, E) ==
  /\ Typed(infos, addrs, rnd, nt, nn, vt, vn, idc)
  /\ Counted(infos, vn, E)
  /\ Mapped(infos, addrs, rnd)
  /\ Bucketed(infos, vt)
  /\ Numbered(infos, rnd, nt, nn)
  /\ Bounded(vt, vn)

IInv == Table(mapInfo, mapAddr, vRandom, nTried, nNew, vvTried, vvNew, nIdCount, {})

LEMMA Sizes ==
  /\ ADDRMAN_NEW_BUCKET_SIZE \in Nat /\ ADDRMAN_NEW_BUCKET_SIZE >= 1
  /\ ADDRMAN_TRIED_BUCKET_SIZE \in Nat /\ ADDRMAN_TRIED_BUCKET_SIZE >= 1
  /\ ADDRMAN_NEW_BUCKETS_PER_ADDRESS \in Nat /\ ADDRMAN_NEW_BUCKETS_PER_ADDRESS >= 1
BY AddrManAssumption

\* Everything counted is finite.
LEMMA Finite ==
  ASSUME NEW infos, NEW vn, NEW vt, NEW idc \in Nat, DOMAIN infos \subseteq 0 .. idc - 1,
         vn \in [NewBuckets -> SUBSET DOMAIN infos],
         vt \in [TriedBuckets -> SUBSET DOMAIN infos]
  PROVE  /\ IsFiniteSet(DOMAIN infos)
         /\ IsFiniteSet(TriedIds(infos)) /\ IsFiniteSet(NewIds(infos))
         /\ \A b \in NewBuckets : IsFiniteSet(vn[b])
         /\ \A k \in TriedBuckets : IsFiniteSet(vt[k])
         /\ \A i : IsFiniteSet(Holders(vn, i))
<1>1. IsFiniteSet(0 .. idc - 1)
  BY FS_Interval, SMT
<1>2. IsFiniteSet(DOMAIN infos)
  BY <1>1, FS_Subset
<1>3. TriedIds(infos) \in SUBSET DOMAIN infos /\ NewIds(infos) \in SUBSET DOMAIN infos
  BY DEF TriedIds, NewIds
<1>4. \A i : Holders(vn, i) \in SUBSET NewBuckets
  BY DEF Holders
<1>5. IsFiniteSet(NewBuckets)
  BY AddrManAssumption
<1>6. /\ \A b \in NewBuckets : vn[b] \in SUBSET DOMAIN infos
      /\ \A k \in TriedBuckets : vt[k] \in SUBSET DOMAIN infos
  OBVIOUS
<1> QED BY <1>2, <1>3, <1>4, <1>5, <1>6, FS_Subset

\* The updates of the operations, as functions of the table they change.
WithEntry(infos, rnd, s, src, idc) ==
  [i \in DOMAIN infos \cup {idc} |->
     IF i = idc
     THEN [addr |-> s, source |-> src, nRefCount |-> 1, fInTried |-> FALSE,
           nRandomPos |-> Len(rnd) + 1]
     ELSE infos[i]]
WithAddr(addrs, s, idc) ==
  [a \in DOMAIN addrs \cup {Ip[s]} |-> IF a = Ip[s] THEN idc ELSE addrs[a]]
Tried(infos, id) == [infos EXCEPT ![id].nRefCount = 0, ![id].fInTried = TRUE]
Evicted(infos, id, old) ==
  [infos EXCEPT ![id].nRefCount = 0, ![id].fInTried = TRUE,
                ![old].nRefCount = 1, ![old].fInTried = FALSE]
InTried(vt, k, id) == [vt EXCEPT ![k] = @ \cup {id}]
Replaced(vt, k, old, id) == [vt EXCEPT ![k] = (@ \ {old}) \cup {id}]
Without(vn, id) == [b \in NewBuckets |-> vn[b] \ {id}]
BackIn(vn, id, bk, old) ==
  [[b \in NewBuckets |-> vn[b] \ {id}] EXCEPT ![bk] = @ \cup {old}]
Moved(infos, f) ==
  [i \in DOMAIN infos |-> [infos[i] EXCEPT !.nRandomPos = f[infos[i].nRandomPos]]]

\* Create: the new entry counts for a bucket that does not hold it yet.
LEMMA CreateTable ==
  ASSUME NEW infos, NEW addrs, NEW rnd, NEW nt, NEW nn, NEW vt, NEW vn, NEW idc,
         Table(infos, addrs, rnd, nt, nn, vt, vn, idc, {}),
         NEW s \in Services, NEW src \in Sources, Ip[s] \notin DOMAIN addrs,
         NEW infos2, NEW addrs2, NEW rnd2,
         infos2 = WithEntry(infos, rnd, s, src, idc), addrs2 = WithAddr(addrs, s, idc),
         rnd2 = Append(rnd, idc)
  PROVE  Table(infos2, addrs2, rnd2, nt, nn + 1, vt, vn, idc + 1, {idc})
<1> USE DEF WithEntry, WithAddr
<1> DEFINE D == DOMAIN infos
<1>1. /\ idc \in Nat /\ D \subseteq 0 .. idc - 1 /\ idc \notin D
      /\ infos \in [D -> Info] /\ nt \in Nat /\ nn \in Nat
      /\ DOMAIN addrs \subseteq Ips /\ addrs \in [DOMAIN addrs -> D]
      /\ rnd \in Seq(D)
      /\ vt \in [TriedBuckets -> SUBSET D] /\ vn \in [NewBuckets -> SUBSET D]
  BY DEF Table, Typed
<1>2. /\ DOMAIN infos2 = D \cup {idc}
      /\ \A i \in D : infos2[i] = infos[i]
      /\ infos2[idc].addr = s /\ infos2[idc].source = src
      /\ infos2[idc].nRefCount = 1 /\ infos2[idc].fInTried = FALSE
      /\ infos2[idc].nRandomPos = Len(rnd) + 1
      /\ infos2[idc] \in Info
  BY <1>1 DEF Info
<1>3. /\ Len(rnd2) = Len(rnd) + 1 /\ Len(rnd) \in Nat
      /\ \A p \in 1 .. Len(rnd) : rnd2[p] = rnd[p] /\ rnd[p] \in D
      /\ rnd2[Len(rnd) + 1] = idc
      /\ rnd2 \in Seq(D \cup {idc})
  BY <1>1
<1>4. /\ IsFiniteSet(D) /\ IsFiniteSet(TriedIds(infos)) /\ IsFiniteSet(NewIds(infos))
  BY <1>1, Finite
<1>5. Typed(infos2, addrs2, rnd2, nt, nn + 1, vt, vn, idc + 1)
  <2>1. D \cup {idc} \subseteq 0 .. (idc + 1) - 1
    BY <1>1
  <2>2. infos2 \in [D \cup {idc} -> Info]
    BY <1>1, <1>2
  <2>3. Ip[s] \in Ips
    BY AddrManAssumption
  <2>4. DOMAIN addrs2 \subseteq Ips /\ addrs2 \in [DOMAIN addrs2 -> D \cup {idc}]
    BY <1>1, <2>3
  <2>5. vt \in [TriedBuckets -> SUBSET (D \cup {idc})]
        /\ vn \in [NewBuckets -> SUBSET (D \cup {idc})]
    BY <1>1
  <2> QED BY <1>1, <1>2, <1>3, <2>1, <2>2, <2>4, <2>5 DEF Typed
<1>6. Counted(infos2, vn, {idc})
  <2>1. Holders(vn, idc) = {}
    BY <1>1 DEF Holders
  <2>2. Cardinality(Holders(vn, idc)) = 0
    BY <2>1, FS_EmptySet
  <2>3. 1 <= ADDRMAN_NEW_BUCKETS_PER_ADDRESS
    BY AddrManAssumption
  <2> QED BY <1>1, <1>2, <2>2, <2>3 DEF Counted, Table
<1>7. Mapped(infos2, addrs2, rnd2)
  <2>1. /\ \A i \in D : /\ Ip[infos[i].addr] \in DOMAIN addrs
                         /\ addrs[Ip[infos[i].addr]] = i
                         /\ infos[i].nRandomPos \in 1 .. Len(rnd)
                         /\ rnd[infos[i].nRandomPos] = i
        /\ \A a \in DOMAIN addrs : Ip[infos[addrs[a]].addr] = a /\ addrs[a] \in D
        /\ \A p \in 1 .. Len(rnd) : infos[rnd[p]].nRandomPos = p
    BY <1>1 DEF Mapped, Table
  <2>2. \A i \in D \cup {idc} : /\ Ip[infos2[i].addr] \in DOMAIN addrs2
                                 /\ addrs2[Ip[infos2[i].addr]] = i
    BY <1>2, <2>1
  <2>3. \A i \in D \cup {idc} : /\ infos2[i].nRandomPos \in 1 .. Len(rnd2)
                                 /\ rnd2[infos2[i].nRandomPos] = i
    BY <1>2, <1>3, <2>1
  <2>4. \A a \in DOMAIN addrs2 : Ip[infos2[addrs2[a]].addr] = a
    BY <1>2, <2>1
  <2>5. \A p \in 1 .. Len(rnd2) : infos2[rnd2[p]].nRandomPos = p
    <3> TAKE p \in 1 .. Len(rnd2)
    <3>1. p \in 1 .. Len(rnd) \/ p = Len(rnd) + 1
      BY <1>3
    <3> QED BY <1>2, <1>3, <2>1, <3>1
  <2> QED BY <1>2, <2>2, <2>3, <2>4, <2>5 DEF Mapped
<1>8. Bucketed(infos2, vt)
  BY <1>1, <1>2 DEF Bucketed, Table
<1>9. Numbered(infos2, rnd2, nt, nn + 1)
  <2>1. TriedIds(infos2) = TriedIds(infos) /\ NewIds(infos2) = NewIds(infos) \cup {idc}
    BY <1>1, <1>2 DEF TriedIds, NewIds
  <2>2. idc \notin NewIds(infos)
    BY <1>1 DEF NewIds
  <2>3. Cardinality(NewIds(infos2)) = Cardinality(NewIds(infos)) + 1
    BY <1>4, <2>1, <2>2, FS_AddElement
  <2> QED BY <1>1, <1>3, <2>1, <2>3 DEF Numbered, Table
<1> QED BY <1>5, <1>6, <1>7, <1>8, <1>9 DEF Table

\* Add_ counts one more reference to a known entry.
LEMMA CountTable ==
  ASSUME NEW infos, NEW addrs, NEW rnd, NEW nt, NEW nn, NEW vt, NEW vn, NEW idc,
         Table(infos, addrs, rnd, nt, nn, vt, vn, idc, {}),
         NEW id \in DOMAIN infos, ~infos[id].fInTried,
         infos[id].nRefCount # ADDRMAN_NEW_BUCKETS_PER_ADDRESS,
         NEW infos2, infos2 = [infos EXCEPT ![id].nRefCount = @ + 1]
  PROVE  Table(infos2, addrs, rnd, nt, nn, vt, vn, idc, {id})
<1>0. /\ infos \in [DOMAIN infos -> Info]
      /\ infos[id].nRefCount + 1 \in Nat
      /\ infos2 = [infos EXCEPT ![id] = [infos[id] EXCEPT !.nRefCount = infos[id].nRefCount + 1]]
  BY DEF Table, Typed, Info
<1>1. /\ DOMAIN infos2 = DOMAIN infos /\ infos \in [DOMAIN infos -> Info]
      /\ infos2 \in [DOMAIN infos -> Info]
      /\ \A i \in DOMAIN infos :
           /\ infos2[i].addr = infos[i].addr
           /\ infos2[i].fInTried <=> infos[i].fInTried
           /\ infos2[i].nRandomPos = infos[i].nRandomPos
           /\ infos[i].nRefCount \in Nat
           /\ infos2[i].nRefCount = infos[i].nRefCount + (IF i = id THEN 1 ELSE 0)
  BY <1>0 DEF Info
<1>2. Typed(infos2, addrs, rnd, nt, nn, vt, vn, idc)
  BY <1>1 DEF Table, Typed
<1>3. Counted(infos2, vn, {id})
  <2>1. \A i : Cardinality(Holders(vn, i)) \in Nat
    BY Finite, FS_CardinalityType DEF Table, Typed
  <2>2. \A i \in DOMAIN infos :
          /\ infos[i].nRefCount = Cardinality(Holders(vn, i))
          /\ infos[i].nRefCount <= ADDRMAN_NEW_BUCKETS_PER_ADDRESS
          /\ infos[i].fInTried <=> infos[i].nRefCount = 0
    BY <2>1 DEF Table, Counted
  <2>3. infos[id].nRefCount + 1 <= ADDRMAN_NEW_BUCKETS_PER_ADDRESS
    BY <1>1, <2>2, Sizes
  <2>4. ASSUME NEW i \in DOMAIN infos
        PROVE  /\ infos2[i].nRefCount
                    = Cardinality(Holders(vn, i)) + (IF i \in {id} THEN 1 ELSE 0)
               /\ infos2[i].nRefCount <= ADDRMAN_NEW_BUCKETS_PER_ADDRESS
               /\ infos2[i].fInTried <=> infos2[i].nRefCount = 0
    <3>1. CASE i = id
      <4>1. infos2[id].nRefCount = infos[id].nRefCount + 1 /\ infos[id].nRefCount \in Nat
        BY <1>1
      <4>2. ~infos2[id].fInTried
        BY <1>1
      <4>3. infos2[id].nRefCount # 0
        BY <4>1
      <4> QED BY <2>1, <2>2, <2>3, <3>1, <4>1, <4>2, <4>3
    <3>2. CASE i # id
      BY <1>1, <2>1, <2>2, <3>2
    <3> QED BY <3>1, <3>2
  <2> QED BY <1>1, <2>4 DEF Counted
<1>4. Mapped(infos2, addrs, rnd)
  <2>1. /\ \A a \in DOMAIN addrs : addrs[a] \in DOMAIN infos
        /\ \A p \in 1 .. Len(rnd) : rnd[p] \in DOMAIN infos
    BY DEF Table, Typed
  <2> QED BY <1>1, <2>1 DEF Table, Mapped
<1>5. Bucketed(infos2, vt)
  BY <1>1 DEF Table, Bucketed
<1>6. TriedIds(infos2) = TriedIds(infos) /\ NewIds(infos2) = NewIds(infos)
  BY <1>1 DEF TriedIds, NewIds
<1> QED BY <1>2, <1>3, <1>4, <1>5, <1>6 DEF Table, Numbered

\* The entry counted once more is inserted into a bucket that has room.
LEMMA InsertTable ==
  ASSUME NEW infos, NEW addrs, NEW rnd, NEW nt, NEW nn, NEW vt, NEW vn, NEW idc,
         NEW id \in DOMAIN infos, NEW b \in NewBuckets,
         Table(infos, addrs, rnd, nt, nn, vt, vn, idc, {id}),
         id \notin vn[b], Cardinality(vn[b]) < ADDRMAN_NEW_BUCKET_SIZE,
         NEW vn2, vn2 = [vn EXCEPT ![b] = @ \cup {id}]
  PROVE  Table(infos, addrs, rnd, nt, nn, vt, vn2, idc, {})
<1>1. vn \in [NewBuckets -> SUBSET DOMAIN infos]
  BY DEF Table, Typed
<1>2. /\ \A i : IsFiniteSet(Holders(vn, i))
      /\ \A c \in NewBuckets : IsFiniteSet(vn[c])
  BY Finite DEF Table, Typed
<1>3. /\ vn2 \in [NewBuckets -> SUBSET DOMAIN infos]
      /\ vn2[b] = vn[b] \cup {id}
      /\ \A c \in NewBuckets \ {b} : vn2[c] = vn[c]
  BY <1>1
<1>4. Typed(infos, addrs, rnd, nt, nn, vt, vn2, idc)
  BY <1>3 DEF Table, Typed
<1>5. Counted(infos, vn2, {})
  <2>1. \A i : i # id => Holders(vn2, i) = Holders(vn, i)
    BY <1>1, <1>3 DEF Holders
  <2>2. Holders(vn2, id) = Holders(vn, id) \cup {b} /\ b \notin Holders(vn, id)
    BY <1>1, <1>3 DEF Holders
  <2>3. Cardinality(Holders(vn2, id)) = Cardinality(Holders(vn, id)) + 1
    BY <1>2, <2>2, FS_AddElement
  <2>4. \A i : Cardinality(Holders(vn, i)) \in Nat
    BY <1>2, FS_CardinalityType
  <2>5. ASSUME NEW i \in DOMAIN infos
        PROVE  infos[i].nRefCount = Cardinality(Holders(vn2, i)) + 0
    <3>1. infos[i].nRefCount = Cardinality(Holders(vn, i)) + (IF i \in {id} THEN 1 ELSE 0)
      BY DEF Table, Counted
    <3>2. CASE i = id
      BY <2>3, <2>4, <3>1, <3>2
    <3>3. CASE i # id
      BY <2>1, <2>4, <3>1, <3>3
    <3> QED BY <3>2, <3>3
  <2> QED BY <2>5 DEF Table, Counted
<1>6. Bounded(vt, vn2)
  <2>1. Cardinality(vn2[b]) = Cardinality(vn[b]) + 1 /\ Cardinality(vn[b]) \in Nat
    BY <1>2, <1>3, FS_AddElement, FS_CardinalityType
  <2>2. Cardinality(vn2[b]) <= ADDRMAN_NEW_BUCKET_SIZE
    BY <2>1, Sizes
  <2> QED BY <1>3, <2>2 DEF Table, Bounded
<1> QED BY <1>4, <1>5, <1>6 DEF Table

\* ShrinkNew takes v, which other buckets hold as well, out of one.
LEMMA UncountTable ==
  ASSUME NEW infos, NEW addrs, NEW rnd, NEW nt, NEW nn, NEW vt, NEW vn, NEW idc, NEW E,
         Table(infos, addrs, rnd, nt, nn, vt, vn, idc, E),
         NEW b \in NewBuckets, NEW v \in vn[b], v \notin E, infos[v].nRefCount # 1,
         NEW infos2, infos2 = [infos EXCEPT ![v].nRefCount = @ - 1],
         NEW vn2, vn2 = [vn EXCEPT ![b] = @ \ {v}]
  PROVE  /\ Table(infos2, addrs, rnd, nt, nn, vt, vn2, idc, E)
         /\ Cardinality(vn2[b]) < ADDRMAN_NEW_BUCKET_SIZE
<1>1. vn \in [NewBuckets -> SUBSET DOMAIN infos] /\ v \in DOMAIN infos
  BY DEF Table, Typed
<1>2. /\ \A i : IsFiniteSet(Holders(vn, i)) /\ Cardinality(Holders(vn, i)) \in Nat
      /\ \A c \in NewBuckets : IsFiniteSet(vn[c])
  BY Finite, FS_CardinalityType DEF Table, Typed
<1>3. /\ vn2 \in [NewBuckets -> SUBSET DOMAIN infos]
      /\ vn2[b] = vn[b] \ {v}
      /\ \A c \in NewBuckets \ {b} : vn2[c] = vn[c]
  BY <1>1
<1>4. /\ \A i : i # v => Holders(vn2, i) = Holders(vn, i)
      /\ Holders(vn2, v) = Holders(vn, v) \ {b} /\ b \in Holders(vn, v)
  BY <1>1, <1>3 DEF Holders
<1>5. /\ Cardinality(Holders(vn2, v)) = Cardinality(Holders(vn, v)) - 1
  BY <1>2, <1>4, FS_RemoveElement
<1>6. infos[v].nRefCount = Cardinality(Holders(vn, v)) /\ infos[v].nRefCount >= 2
  <2>1. infos[v].nRefCount = Cardinality(Holders(vn, v))
    BY <1>1, <1>2 DEF Table, Counted
  <2>2. Holders(vn, v) # {}
    BY <1>4
  <2>3. Cardinality(Holders(vn, v)) # 0
    BY <1>2, <2>2, FS_EmptySet
  <2> QED BY <1>2, <2>1, <2>3
<1>7. /\ infos \in [DOMAIN infos -> Info]
      /\ infos[v].nRefCount - 1 \in Nat
      /\ infos2 = [infos EXCEPT ![v] = [infos[v] EXCEPT !.nRefCount = infos[v].nRefCount - 1]]
  BY <1>1, <1>2, <1>6 DEF Table, Typed
<1>8. /\ DOMAIN infos2 = DOMAIN infos
      /\ infos2 \in [DOMAIN infos -> Info]
      /\ \A i \in DOMAIN infos :
           /\ infos2[i].addr = infos[i].addr
           /\ infos2[i].fInTried <=> infos[i].fInTried
           /\ infos2[i].nRandomPos = infos[i].nRandomPos
           /\ infos[i].nRefCount \in Nat
      /\ \A i \in DOMAIN infos \ {v} : infos2[i].nRefCount = infos[i].nRefCount
      /\ infos2[v].nRefCount = infos[v].nRefCount - 1
  BY <1>1, <1>7 DEF Info
<1>9. Typed(infos2, addrs, rnd, nt, nn, vt, vn2, idc)
  BY <1>3, <1>8 DEF Table, Typed
<1>10. Counted(infos2, vn2, E)
  <2>1. \A i \in DOMAIN infos :
          /\ infos[i].nRefCount
               = Cardinality(Holders(vn, i)) + (IF i \in E THEN 1 ELSE 0)
          /\ infos[i].nRefCount <= ADDRMAN_NEW_BUCKETS_PER_ADDRESS
          /\ infos[i].fInTried <=> infos[i].nRefCount = 0
    BY DEF Table, Counted
  <2>2. ASSUME NEW i \in DOMAIN infos
        PROVE  /\ infos2[i].nRefCount
                    = Cardinality(Holders(vn2, i)) + (IF i \in E THEN 1 ELSE 0)
               /\ infos2[i].nRefCount <= ADDRMAN_NEW_BUCKETS_PER_ADDRESS
               /\ infos2[i].fInTried <=> infos2[i].nRefCount = 0
    <3>1. CASE i = v
      <4>1. ~infos2[v].fInTried /\ infos2[v].nRefCount # 0
        <5>1. infos[v].nRefCount \in Nat /\ infos[v].nRefCount # 0
          BY <1>1, <1>6, <1>8
        <5>2. ~infos[v].fInTried
          BY <1>1, <2>1, <5>1
        <5>3. ~infos2[v].fInTried
          BY <1>1, <1>8, <5>2
        <5>4. infos2[v].nRefCount = infos[v].nRefCount - 1
          BY <1>8
        <5>5. infos2[v].nRefCount # 0
          BY <1>6, <5>1, <5>4
        <5> QED BY <5>3, <5>5
      <4>2. infos2[v].nRefCount <= ADDRMAN_NEW_BUCKETS_PER_ADDRESS
        <5>1. /\ infos[v].nRefCount \in Nat
              /\ infos[v].nRefCount <= ADDRMAN_NEW_BUCKETS_PER_ADDRESS
          BY <1>1, <1>8, <2>1
        <5>2. infos2[v].nRefCount = infos[v].nRefCount - 1
          BY <1>8
        <5> QED BY <5>1, <5>2, Sizes
      <4> QED BY <1>2, <1>5, <1>6, <1>8, <3>1, <4>1, <4>2
    <3>2. CASE i # v
      BY <1>4, <1>8, <2>1, <3>2
    <3> QED BY <3>1, <3>2
  <2> QED BY <1>8, <2>2 DEF Counted
<1>11. Mapped(infos2, addrs, rnd)
  <2>1. /\ \A a \in DOMAIN addrs : addrs[a] \in DOMAIN infos
        /\ \A p \in 1 .. Len(rnd) : rnd[p] \in DOMAIN infos
    BY DEF Table, Typed
  <2> QED BY <1>8, <2>1 DEF Table, Mapped
<1>12. Bucketed(infos2, vt)
  BY <1>8 DEF Table, Bucketed
<1>13. Numbered(infos2, rnd, nt, nn)
  <2>1. TriedIds(infos2) = TriedIds(infos) /\ NewIds(infos2) = NewIds(infos)
    BY <1>8 DEF TriedIds, NewIds
  <2> QED BY <2>1 DEF Table, Numbered
<1>14. /\ Cardinality(vn2[b]) < ADDRMAN_NEW_BUCKET_SIZE
       /\ Cardinality(vn2[b]) <= ADDRMAN_NEW_BUCKET_SIZE
  <2>1. Cardinality(vn2[b]) = Cardinality(vn[b]) - 1 /\ Cardinality(vn[b]) \in Nat
    BY <1>2, <1>3, FS_RemoveElement, FS_CardinalityType
  <2>2. Cardinality(vn[b]) <= ADDRMAN_NEW_BUCKET_SIZE
    BY DEF Table, Bounded
  <2> QED BY <2>1, <2>2, Sizes
<1>15. Bounded(vt, vn2)
  BY <1>3, <1>14 DEF Table, Bounded
<1> QED BY <1>9, <1>10, <1>11, <1>12, <1>13, <1>14, <1>15 DEF Table

\* ShrinkNew erases v, which no other bucket holds.
LEMMA EraseTable ==
  ASSUME NEW infos, NEW addrs, NEW rnd, NEW nt, NEW nn, NEW vt, NEW vn, NEW idc, NEW E,
         Table(infos, addrs, rnd, nt, nn, vt, vn, idc, E),
         NEW b \in NewBuckets, NEW v \in vn[b], v \notin E, infos[v].nRefCount = 1,
         NEW infos2, infos2 = Erased(infos, rnd, v),
         NEW rnd2, rnd2 = SwapOut(rnd, infos[v].nRandomPos),
         NEW addrs2,
         addrs2 = [a \in DOMAIN addrs \ {Ip[infos[v].addr]} |-> addrs[a]],
         NEW vn2, vn2 = [vn EXCEPT ![b] = @ \ {v}]
  PROVE  /\ Table(infos2, addrs2, rnd2, nt, nn - 1, vt, vn2, idc, E)
         /\ Cardinality(vn2[b]) < ADDRMAN_NEW_BUCKET_SIZE
<1> DEFINE D == DOMAIN infos
           D2 == D \ {v}
           L == Len(rnd)
           pv == infos[v].nRandomPos
           w == rnd[L]
<1>1. /\ v \in D /\ infos \in [D -> Info] /\ D \subseteq 0 .. idc - 1
      /\ idc \in Nat /\ nt \in Nat /\ nn \in Nat
      /\ DOMAIN addrs \subseteq Ips /\ addrs \in [DOMAIN addrs -> D]
      /\ rnd \in Seq(D) /\ L \in Nat
      /\ \A p \in 1 .. L : rnd[p] \in D
      /\ vt \in [TriedBuckets -> SUBSET D] /\ vn \in [NewBuckets -> SUBSET D]
  BY DEF Table, Typed
<1>2. /\ \A i \in D : /\ Ip[infos[i].addr] \in DOMAIN addrs
                       /\ addrs[Ip[infos[i].addr]] = i
                       /\ infos[i].nRandomPos \in 1 .. L
                       /\ rnd[infos[i].nRandomPos] = i
      /\ \A a \in DOMAIN addrs : Ip[infos[addrs[a]].addr] = a /\ addrs[a] \in D
      /\ \A p \in 1 .. L : infos[rnd[p]].nRandomPos = p
  BY <1>1 DEF Mapped, Table
<1>3. /\ pv \in 1 .. L /\ rnd[pv] = v /\ L >= 1
      /\ w \in D /\ infos[w].nRandomPos = L
  <2>1. pv \in 1 .. L /\ rnd[pv] = v
    BY <1>1, <1>2
  <2>2. L >= 1 /\ L \in 1 .. L
    BY <1>1, <2>1
  <2> QED BY <1>1, <1>2, <2>1, <2>2
<1>4. /\ IsFiniteSet(D) /\ IsFiniteSet(TriedIds(infos)) /\ IsFiniteSet(NewIds(infos))
      /\ \A i : IsFiniteSet(Holders(vn, i)) /\ Cardinality(Holders(vn, i)) \in Nat
      /\ \A c \in NewBuckets : IsFiniteSet(vn[c])
  <2>1. /\ IsFiniteSet(D) /\ IsFiniteSet(TriedIds(infos)) /\ IsFiniteSet(NewIds(infos))
        /\ \A i : IsFiniteSet(Holders(vn, i))
        /\ \A c \in NewBuckets : IsFiniteSet(vn[c])
    BY Finite DEF Table, Typed
  <2> QED BY <2>1, FS_CardinalityType
<1>5. Holders(vn, v) = {b}
  <2>1. Cardinality(Holders(vn, v)) = 1
    <3>1. infos[v].nRefCount = Cardinality(Holders(vn, v)) + 0
      BY <1>1 DEF Table, Counted
    <3> QED BY <1>4, <3>1
  <2>2. \E x : Holders(vn, v) = {x}
    BY <1>4, <2>1, FS_Singleton
  <2>3. b \in Holders(vn, v)
    BY DEF Holders
  <2> QED BY <2>2, <2>3
<1>6. /\ vn2[b] = vn[b] \ {v}
      /\ \A c \in NewBuckets \ {b} : vn2[c] = vn[c] /\ v \notin vn[c]
      /\ vn2 \in [NewBuckets -> SUBSET D2]
  <2>1. \A c \in NewBuckets \ {b} : v \notin vn[c]
    BY <1>5 DEF Holders
  <2> QED BY <1>1, <2>1
<1>7. /\ DOMAIN infos2 = D2
      /\ \A i \in D2 : infos2[i] = IF i = w THEN [infos[i] EXCEPT !.nRandomPos = pv]
                                   ELSE infos[i]
  BY DEF Erased
<1>8. \A i \in D2 : /\ infos2[i] \in Info
                    /\ infos2[i].addr = infos[i].addr
                    /\ infos2[i].fInTried <=> infos[i].fInTried
                    /\ infos2[i].nRefCount = infos[i].nRefCount
                    /\ infos2[i].nRandomPos = IF i = w THEN pv ELSE infos[i].nRandomPos
  <2>1. pv \in Nat \ {0}
    BY <1>1, <1>3
  <2>2. ASSUME NEW r \in Info
        PROVE  LET r2 == [r EXCEPT !.nRandomPos = pv] IN
               /\ r2 \in Info /\ r2.addr = r.addr /\ r2.fInTried = r.fInTried
               /\ r2.nRefCount = r.nRefCount /\ r2.nRandomPos = pv
    BY <2>1 DEF Info
  <2>3. \A i \in D2 : infos[i] \in Info
    BY <1>1
  <2>4. ASSUME NEW i \in D2, i = w
        PROVE  /\ infos2[i] \in Info
               /\ infos2[i].addr = infos[i].addr
               /\ infos2[i].fInTried = infos[i].fInTried
               /\ infos2[i].nRefCount = infos[i].nRefCount
               /\ infos2[i].nRandomPos = pv
    <3>1. infos2[i] = [infos[i] EXCEPT !.nRandomPos = pv]
      BY <1>7, <2>4
    <3>2. infos[i] \in Info
      BY <2>3
    <3> HIDE DEF pv
    <3> QED BY <2>2, <3>1, <3>2
  <2>5. \A i \in D2 : i # w => infos2[i] = infos[i]
    BY <1>7
  <2> QED BY <2>3, <2>4, <2>5
<1>9. ~infos[v].fInTried
  BY <1>1 DEF Table, Counted
<1>10. /\ Len(rnd2) = L - 1 /\ L - 1 \in Nat
       /\ \A p \in 1 .. L - 1 : rnd2[p] = IF p = pv THEN w ELSE rnd[p]
       /\ rnd2 \in Seq(D2)
  <2>1. L - 1 \in Nat
    BY <1>1, <1>3
  <2>2. rnd2 = [j \in 1 .. L - 1 |-> rnd[IF j = pv THEN L ELSE j]]
    BY DEF SwapOut
  <2>3. \A p \in 1 .. L - 1 : rnd2[p] = IF p = pv THEN w ELSE rnd[p]
    BY <2>2
  <2>4. ASSUME NEW p \in 1 .. L - 1
        PROVE  rnd2[p] \in D2
    <3>1. CASE p = pv
      <4>1. w # v
        BY <1>1, <1>3, <3>1
      <4> QED BY <1>3, <2>3, <3>1, <4>1
    <3>2. CASE p # pv
      <4>1. p \in 1 .. L
        BY <1>1
      <4>2. infos[rnd[p]].nRandomPos = p
        BY <1>2, <4>1
      <4>3. rnd[p] # v
        BY <3>2, <4>2
      <4> QED BY <1>1, <2>3, <3>2, <4>1, <4>3
    <3> QED BY <3>1, <3>2
  <2>5. rnd2 \in [1 .. L - 1 -> D2]
    BY <2>2, <2>4
  <2> QED BY <2>1, <2>3, <2>5
<1>11. Typed(infos2, addrs2, rnd2, nt, nn - 1, vt, vn2, idc)
  <2>1. nn - 1 \in Nat
    <3>1. v \in NewIds(infos)
      BY <1>1, <1>9 DEF NewIds
    <3>2. Cardinality(NewIds(infos)) # 0
      BY <1>4, <3>1, FS_EmptySet
    <3>3. nn = Cardinality(NewIds(infos))
      BY DEF Table, Numbered
    <3> QED BY <1>1, <3>2, <3>3
  <2>2. infos2 \in [D2 -> Info]
    BY <1>7, <1>8 DEF Erased
  <2>3. DOMAIN addrs2 \subseteq Ips /\ addrs2 \in [DOMAIN addrs2 -> D2]
    BY <1>1, <1>2
  <2>4. vt \in [TriedBuckets -> SUBSET D2]
    <3>1. \A k \in TriedBuckets : v \notin vt[k]
      BY <1>1, <1>9 DEF Table, Bucketed
    <3> QED BY <1>1, <3>1
  <2> QED BY <1>1, <1>6, <1>7, <1>10, <2>1, <2>2, <2>3, <2>4 DEF Typed
<1>12. Counted(infos2, vn2, E)
  <2>1. \A i : i # v => Holders(vn2, i) = Holders(vn, i)
    BY <1>1, <1>6 DEF Holders
  <2>2. \A i \in D2 : Holders(vn2, i) = Holders(vn, i)
    BY <2>1
  <2>3. \A i \in D2 :
          /\ infos[i].nRefCount
               = Cardinality(Holders(vn, i)) + (IF i \in E THEN 1 ELSE 0)
          /\ infos[i].nRefCount <= ADDRMAN_NEW_BUCKETS_PER_ADDRESS
          /\ infos[i].fInTried <=> infos[i].nRefCount = 0
    BY DEF Table, Counted
  <2>4. ASSUME NEW i \in D2
        PROVE  /\ infos2[i].nRefCount
                    = Cardinality(Holders(vn2, i)) + (IF i \in E THEN 1 ELSE 0)
               /\ infos2[i].nRefCount <= ADDRMAN_NEW_BUCKETS_PER_ADDRESS
               /\ infos2[i].fInTried <=> infos2[i].nRefCount = 0
    <3>1. /\ infos2[i].nRefCount = infos[i].nRefCount
          /\ infos2[i].fInTried <=> infos[i].fInTried
      BY <1>8
    <3>2. /\ infos[i].nRefCount
               = Cardinality(Holders(vn2, i)) + (IF i \in E THEN 1 ELSE 0)
          /\ infos[i].nRefCount <= ADDRMAN_NEW_BUCKETS_PER_ADDRESS
          /\ infos[i].fInTried <=> infos[i].nRefCount = 0
      BY <2>2, <2>3
    <3> QED BY <3>1, <3>2
  <2> QED BY <1>7, <2>4 DEF Counted
<1>13. Mapped(infos2, addrs2, rnd2)
  <2>1. ASSUME NEW i \in D2
        PROVE  /\ Ip[infos2[i].addr] \in DOMAIN addrs2
               /\ addrs2[Ip[infos2[i].addr]] = i
    <3>1. addrs[Ip[infos[i].addr]] = i /\ addrs[Ip[infos[v].addr]] = v /\ i # v
      BY <1>1, <1>2
    <3>2. Ip[infos[i].addr] # Ip[infos[v].addr]
      BY <3>1
    <3>3. Ip[infos[i].addr] \in DOMAIN addrs2 /\ addrs2[Ip[infos[i].addr]] = i
      BY <1>2, <3>1, <3>2
    <3> QED BY <1>8, <3>3
  <2>2. ASSUME NEW i \in D2
        PROVE  /\ infos2[i].nRandomPos \in 1 .. Len(rnd2)
               /\ rnd2[infos2[i].nRandomPos] = i
    <3>1. CASE i = w
      <4>1. pv # L
        BY <1>3, <3>1
      <4>2. pv \in 1 .. L - 1
        BY <1>1, <1>3, <4>1
      <4> QED BY <1>8, <1>10, <3>1, <4>2
    <3>2. CASE i # w
      <4>1. infos[i].nRandomPos \in 1 .. L /\ rnd[infos[i].nRandomPos] = i
        BY <1>2
      <4>2. infos[i].nRandomPos # L /\ infos[i].nRandomPos # pv
        BY <1>3, <3>2, <4>1
      <4>3. infos[i].nRandomPos \in 1 .. L - 1
        BY <1>1, <4>1, <4>2
      <4> QED BY <1>8, <1>10, <3>2, <4>1, <4>2, <4>3
    <3> QED BY <3>1, <3>2
  <2>3. ASSUME NEW a \in DOMAIN addrs2
        PROVE  Ip[infos2[addrs2[a]].addr] = a
    <3>1. /\ a \in DOMAIN addrs /\ a # Ip[infos[v].addr] /\ addrs2[a] = addrs[a]
          /\ Ip[infos[addrs[a]].addr] = a /\ addrs[a] \in D2
      BY <1>2
    <3> QED BY <1>8, <3>1
  <2>4. ASSUME NEW p \in 1 .. Len(rnd2)
        PROVE  infos2[rnd2[p]].nRandomPos = p
    <3>1. /\ p \in 1 .. L /\ p \in 1 .. L - 1 /\ p # L
      BY <1>1, <1>10
    <3>2. infos[rnd[p]].nRandomPos = p /\ rnd[p] \in D
      BY <1>1, <1>2, <3>1
    <3>3. rnd2[p] \in D2
      BY <1>10, <3>1
    <3>4. CASE p = pv
      BY <1>8, <1>10, <3>1, <3>3, <3>4
    <3>5. CASE p # pv
      <4>1. rnd2[p] = rnd[p] /\ rnd[p] # w
        BY <1>3, <1>10, <3>1, <3>2, <3>5
      <4> QED BY <1>8, <3>2, <3>3, <4>1
    <3> QED BY <3>4, <3>5
  <2> QED BY <1>7, <2>1, <2>2, <2>3, <2>4 DEF Mapped
<1>14. Bucketed(infos2, vt)
  BY <1>7, <1>8 DEF Table, Bucketed
<1>15. Numbered(infos2, rnd2, nt, nn - 1)
  <2>1. /\ TriedIds(infos2) = TriedIds(infos) /\ NewIds(infos2) = NewIds(infos) \ {v}
        /\ v \in NewIds(infos)
    BY <1>1, <1>7, <1>8, <1>9 DEF TriedIds, NewIds
  <2>2. Cardinality(NewIds(infos2)) = Cardinality(NewIds(infos)) - 1
    BY <1>4, <2>1, FS_RemoveElement
  <2> QED BY <1>1, <1>10, <2>1, <2>2 DEF Table, Numbered
<1>16. /\ Cardinality(vn2[b]) < ADDRMAN_NEW_BUCKET_SIZE
       /\ Cardinality(vn2[b]) <= ADDRMAN_NEW_BUCKET_SIZE
  <2>1. Cardinality(vn2[b]) = Cardinality(vn[b]) - 1 /\ Cardinality(vn[b]) \in Nat
    BY <1>4, <1>6, FS_RemoveElement, FS_CardinalityType
  <2>2. Cardinality(vn[b]) <= ADDRMAN_NEW_BUCKET_SIZE
    BY DEF Table, Bounded
  <2> QED BY <2>1, <2>2, Sizes
<1>17. Bounded(vt, vn2)
  BY <1>6, <1>16 DEF Table, Bounded
<1> QED BY <1>11, <1>12, <1>13, <1>14, <1>15, <1>16, <1>17 DEF Table

\* Mapped only looks at the addresses and positions of the entries.
LEMMA SameMapped ==
  ASSUME NEW infos, NEW addrs, NEW rnd, NEW infos2,
         Mapped(infos, addrs, rnd), DOMAIN infos2 = DOMAIN infos,
         \A a \in DOMAIN addrs : addrs[a] \in DOMAIN infos,
         \A p \in 1 .. Len(rnd) : rnd[p] \in DOMAIN infos,
         \A i \in DOMAIN infos : /\ infos2[i].addr = infos[i].addr
                                 /\ infos2[i].nRandomPos = infos[i].nRandomPos
  PROVE  Mapped(infos2, addrs, rnd)
BY DEF Mapped

\* MakeTried of id into a bucket with room.
LEMMA TryTable ==
  ASSUME NEW infos, NEW addrs, NEW rnd, NEW nt, NEW nn, NEW vt, NEW vn, NEW idc,
         Table(infos, addrs, rnd, nt, nn, vt, vn, idc, {}),
         NEW id \in DOMAIN infos, ~infos[id].fInTried,
         NEW k, k = TriedBucket[infos[id].addr],
         Cardinality(vt[k]) < ADDRMAN_TRIED_BUCKET_SIZE,
         NEW infos2, infos2 = Tried(infos, id),
         NEW vt2, vt2 = InTried(vt, k, id), NEW vn2, vn2 = Without(vn, id)
  PROVE  Table(infos2, addrs, rnd, nt + 1, nn - 1, vt2, vn2, idc, {})
<1> USE DEF Tried, InTried, Without
<1> DEFINE D == DOMAIN infos
<1>1. /\ infos \in [D -> Info] /\ D \subseteq 0 .. idc - 1
      /\ idc \in Nat /\ nt \in Nat /\ nn \in Nat
      /\ DOMAIN addrs \subseteq Ips /\ addrs \in [DOMAIN addrs -> D]
      /\ rnd \in Seq(D) /\ Len(rnd) \in Nat
      /\ \A p \in 1 .. Len(rnd) : rnd[p] \in D
      /\ vt \in [TriedBuckets -> SUBSET D] /\ vn \in [NewBuckets -> SUBSET D]
  BY DEF Table, Typed
<1>2. k \in TriedBuckets
  <2>1. infos[id].addr \in Services
    BY <1>1 DEF Info
  <2> QED BY <2>1, AddrManAssumption
<1>3. /\ IsFiniteSet(TriedIds(infos)) /\ IsFiniteSet(NewIds(infos))
      /\ \A b \in NewBuckets : IsFiniteSet(vn[b])
      /\ \A c \in TriedBuckets : IsFiniteSet(vt[c])
  BY Finite DEF Table, Typed
<1>4. /\ DOMAIN infos2 = D /\ infos2 \in [D -> Info]
      /\ \A i \in D : /\ infos2[i].addr = infos[i].addr
                       /\ infos2[i].nRandomPos = infos[i].nRandomPos
      /\ \A i \in D : i # id => infos2[i] = infos[i]
      /\ infos2[id].nRefCount = 0 /\ infos2[id].fInTried = TRUE
  <2> DEFINE r == [infos[id] EXCEPT !.nRefCount = 0, !.fInTried = TRUE]
  <2>1. /\ r \in Info /\ r.addr = infos[id].addr
        /\ r.nRandomPos = infos[id].nRandomPos /\ r.nRefCount = 0 /\ r.fInTried = TRUE
    <3>1. infos[id] \in Info
      BY <1>1
    <3> QED BY <3>1 DEF Info
  <2>2. infos2 = [infos EXCEPT ![id] = r]
    OBVIOUS
  <2> HIDE DEF r
  <2>3. /\ DOMAIN infos2 = D /\ infos2[id] = r
        /\ \A i \in D : i # id => infos2[i] = infos[i]
        /\ infos2 \in [D -> Info]
    BY <1>1, <2>1, <2>2
  <2> QED BY <2>1, <2>3
<1>5. /\ vt2 \in [TriedBuckets -> SUBSET D] /\ vn2 \in [NewBuckets -> SUBSET D]
      /\ vt2[k] = vt[k] \cup {id}
      /\ \A c \in TriedBuckets \ {k} : vt2[c] = vt[c]
      /\ \A b \in NewBuckets : vn2[b] = vn[b] \ {id}
  BY <1>1, <1>2
<1>6. /\ NewIds(infos2) = NewIds(infos) \ {id} /\ id \in NewIds(infos)
      /\ TriedIds(infos2) = TriedIds(infos) \cup {id} /\ id \notin TriedIds(infos)
  BY <1>4 DEF NewIds, TriedIds
<1>7. Numbered(infos2, rnd, nt + 1, nn - 1) /\ nn - 1 \in Nat
  <2>1. Cardinality(NewIds(infos2)) = Cardinality(NewIds(infos)) - 1
    BY <1>3, <1>6, FS_RemoveElement
  <2>2. Cardinality(TriedIds(infos2)) = Cardinality(TriedIds(infos)) + 1
    BY <1>3, <1>6, FS_AddElement
  <2>3. Cardinality(NewIds(infos)) # 0
    BY <1>3, <1>6, FS_EmptySet
  <2>4. /\ nt = Cardinality(TriedIds(infos)) /\ nn = Cardinality(NewIds(infos))
        /\ Len(rnd) = nt + nn
    BY DEF Table, Numbered
  <2>5. nn - 1 \in Nat /\ nt + nn = (nt + 1) + (nn - 1)
    BY <1>1, <2>3, <2>4
  <2> QED BY <2>1, <2>2, <2>4, <2>5 DEF Numbered
<1>8. Typed(infos2, addrs, rnd, nt + 1, nn - 1, vt2, vn2, idc)
  BY <1>1, <1>4, <1>5, <1>7 DEF Typed
<1>9. Counted(infos2, vn2, {})
  <2>1. Holders(vn2, id) = {} /\ \A i : i # id => Holders(vn2, i) = Holders(vn, i)
    BY <1>5 DEF Holders
  <2>2. Cardinality(Holders(vn2, id)) = 0
    BY <2>1, FS_EmptySet
  <2>3. ASSUME NEW i \in D
        PROVE  /\ infos2[i].nRefCount = Cardinality(Holders(vn2, i)) + 0
               /\ infos2[i].nRefCount <= ADDRMAN_NEW_BUCKETS_PER_ADDRESS
               /\ infos2[i].fInTried <=> infos2[i].nRefCount = 0
    <3>1. CASE i = id
      BY <1>4, <2>2, <3>1, Sizes
    <3>2. CASE i # id
      <4>1. /\ infos[i].nRefCount = Cardinality(Holders(vn, i)) + 0
            /\ infos[i].nRefCount <= ADDRMAN_NEW_BUCKETS_PER_ADDRESS
            /\ infos[i].fInTried <=> infos[i].nRefCount = 0
        BY DEF Table, Counted
      <4> QED BY <1>4, <2>1, <3>2, <4>1
    <3> QED BY <3>1, <3>2
  <2> QED BY <1>4, <2>3 DEF Counted
<1>10. Mapped(infos2, addrs, rnd)
  BY <1>1, <1>4, SameMapped DEF Table
<1>11. Bucketed(infos2, vt2)
  <2>1. \A i \in D, c \in TriedBuckets :
          i \in vt[c] <=> infos[i].fInTried /\ TriedBucket[infos[i].addr] = c
    BY DEF Table, Bucketed
  <2> QED BY <1>2, <1>4, <1>5, <2>1 DEF Bucketed
<1>12. Bounded(vt2, vn2)
  <2>1. /\ \A b \in NewBuckets : Cardinality(vn[b]) <= ADDRMAN_NEW_BUCKET_SIZE
        /\ \A c \in TriedBuckets : Cardinality(vt[c]) <= ADDRMAN_TRIED_BUCKET_SIZE
    BY DEF Table, Bounded
  <2>2. ASSUME NEW b \in NewBuckets
        PROVE  Cardinality(vn2[b]) <= ADDRMAN_NEW_BUCKET_SIZE
    <3>1. /\ Cardinality(vn[b]) \in Nat /\ Cardinality(vn[b]) <= ADDRMAN_NEW_BUCKET_SIZE
          /\ Cardinality(vn[b] \ {id})
               = IF id \in vn[b] THEN Cardinality(vn[b]) - 1 ELSE Cardinality(vn[b])
      BY <1>3, <2>1, FS_RemoveElement, FS_CardinalityType
    <3>2. Cardinality(vn[b] \ {id}) <= ADDRMAN_NEW_BUCKET_SIZE
      BY <3>1, Sizes
    <3> QED BY <1>5, <3>2
  <2>3. Cardinality(vt2[k]) <= ADDRMAN_TRIED_BUCKET_SIZE
    <3>1. /\ Cardinality(vt[k]) \in Nat
          /\ Cardinality(vt[k] \cup {id})
               = IF id \in vt[k] THEN Cardinality(vt[k]) ELSE Cardinality(vt[k]) + 1
      BY <1>2, <1>3, FS_AddElement, FS_CardinalityType
    <3>2. Cardinality(vt[k] \cup {id}) <= ADDRMAN_TRIED_BUCKET_SIZE
      BY <3>1, Sizes
    <3> QED BY <1>5, <3>2
  <2> QED BY <1>5, <2>1, <2>2, <2>3 DEF Bounded
<1> QED BY <1>7, <1>8, <1>9, <1>10, <1>11, <1>12 DEF Table

\* MakeTried of id into a full bucket: old goes back to the new bucket bk, which
\* has room once id is out of it.
LEMMA EvictTable ==
  ASSUME NEW infos, NEW addrs, NEW rnd, NEW nt, NEW nn, NEW vt, NEW vn, NEW idc,
         Table(infos, addrs, rnd, nt, nn, vt, vn, idc, {}),
         NEW id \in DOMAIN infos, ~infos[id].fInTried,
         NEW k, k = TriedBucket[infos[id].addr],
         NEW old \in vt[k], NEW bk \in NewBuckets,
         Cardinality(vn[bk] \ {id}) < ADDRMAN_NEW_BUCKET_SIZE,
         NEW infos2, infos2 = Evicted(infos, id, old),
         NEW vt2, vt2 = Replaced(vt, k, old, id), NEW vn2, vn2 = BackIn(vn, id, bk, old)
  PROVE  Table(infos2, addrs, rnd, nt, nn, vt2, vn2, idc, {})
<1> USE DEF Evicted, Replaced, BackIn
<1> DEFINE D == DOMAIN infos
<1>1. /\ infos \in [D -> Info] /\ D \subseteq 0 .. idc - 1
      /\ idc \in Nat /\ nt \in Nat /\ nn \in Nat
      /\ DOMAIN addrs \subseteq Ips /\ addrs \in [DOMAIN addrs -> D]
      /\ rnd \in Seq(D) /\ Len(rnd) \in Nat
      /\ \A p \in 1 .. Len(rnd) : rnd[p] \in D
      /\ vt \in [TriedBuckets -> SUBSET D] /\ vn \in [NewBuckets -> SUBSET D]
  BY DEF Table, Typed
<1>2. k \in TriedBuckets
  <2>1. infos[id].addr \in Services
    BY <1>1 DEF Info
  <2> QED BY <2>1, AddrManAssumption
<1>3. /\ IsFiniteSet(TriedIds(infos)) /\ IsFiniteSet(NewIds(infos))
      /\ \A i : IsFiniteSet(Holders(vn, i))
      /\ \A b \in NewBuckets : IsFiniteSet(vn[b])
      /\ \A c \in TriedBuckets : IsFiniteSet(vt[c])
  BY Finite DEF Table, Typed
<1>4. \A i \in D, c \in TriedBuckets :
        i \in vt[c] <=> infos[i].fInTried /\ TriedBucket[infos[i].addr] = c
  BY DEF Table, Bucketed
<1>5. old \in D /\ infos[old].fInTried /\ TriedBucket[infos[old].addr] = k /\ old # id
  <2>1. old \in D
    BY <1>1, <1>2
  <2> QED BY <1>2, <1>4, <2>1
<1>6. /\ DOMAIN infos2 = D /\ infos2 \in [D -> Info]
      /\ \A i \in D : /\ infos2[i].addr = infos[i].addr
                       /\ infos2[i].nRandomPos = infos[i].nRandomPos
      /\ \A i \in D : i \notin {id, old} => infos2[i] = infos[i]
      /\ infos2[id].nRefCount = 0 /\ infos2[id].fInTried = TRUE
      /\ infos2[old].nRefCount = 1 /\ infos2[old].fInTried = FALSE
  <2> DEFINE r == [infos[id] EXCEPT !.nRefCount = 0, !.fInTried = TRUE]
             q == [infos[old] EXCEPT !.nRefCount = 1, !.fInTried = FALSE]
  <2>1. /\ r \in Info /\ r.addr = infos[id].addr
        /\ r.nRandomPos = infos[id].nRandomPos /\ r.nRefCount = 0 /\ r.fInTried = TRUE
    <3>1. infos[id] \in Info
      BY <1>1
    <3> QED BY <3>1 DEF Info
  <2>2. /\ q \in Info /\ q.addr = infos[old].addr
        /\ q.nRandomPos = infos[old].nRandomPos /\ q.nRefCount = 1 /\ q.fInTried = FALSE
    <3>1. infos[old] \in Info
      BY <1>1, <1>5
    <3> QED BY <3>1 DEF Info
  <2>3. infos2 = [infos EXCEPT ![id] = r, ![old] = q]
    BY <1>1, <1>5
  <2> HIDE DEF r, q
  <2>4. /\ DOMAIN infos2 = D /\ infos2[id] = r /\ infos2[old] = q
        /\ \A i \in D : i \notin {id, old} => infos2[i] = infos[i]
        /\ infos2 \in [D -> Info]
    <3>1. infos \in [D -> Info] /\ r \in Info /\ q \in Info
      BY <1>1, <2>1, <2>2
    <3>2. infos2 = [i \in D |-> IF i = old THEN q ELSE IF i = id THEN r ELSE infos[i]]
      BY <1>5, <2>3, <3>1
    <3> QED BY <1>5, <3>1, <3>2
  <2> QED BY <1>5, <2>1, <2>2, <2>4
<1>7. \A b \in NewBuckets : old \notin vn[b]
  <2>1. infos[old].nRefCount = Cardinality(Holders(vn, old)) + 0
        /\ infos[old].nRefCount = 0
    BY <1>5 DEF Table, Counted
  <2>2. Cardinality(Holders(vn, old)) \in Nat
    BY <1>3, FS_CardinalityType
  <2>3. Holders(vn, old) = {}
    BY <1>3, <2>1, <2>2, FS_EmptySet
  <2> QED BY <2>3 DEF Holders
<1>8. /\ vt2 \in [TriedBuckets -> SUBSET D] /\ vn2 \in [NewBuckets -> SUBSET D]
      /\ vt2[k] = (vt[k] \ {old}) \cup {id}
      /\ \A c \in TriedBuckets \ {k} : vt2[c] = vt[c]
      /\ vn2[bk] = (vn[bk] \ {id}) \cup {old}
      /\ \A b \in NewBuckets \ {bk} : vn2[b] = vn[b] \ {id}
  BY <1>1, <1>2, <1>5
<1> HIDE DEF Evicted, Replaced, BackIn
<1>9. Numbered(infos2, rnd, nt, nn)
  <2>1. /\ NewIds(infos2) = (NewIds(infos) \ {id}) \cup {old}
        /\ id \in NewIds(infos) /\ old \notin NewIds(infos)
        /\ TriedIds(infos2) = (TriedIds(infos) \ {old}) \cup {id}
        /\ id \notin TriedIds(infos) /\ old \in TriedIds(infos)
    BY <1>5, <1>6 DEF NewIds, TriedIds
  <2>2. /\ IsFiniteSet(NewIds(infos) \ {id})
        /\ Cardinality(NewIds(infos) \ {id}) = Cardinality(NewIds(infos)) - 1
        /\ old \notin NewIds(infos) \ {id}
    BY <1>3, <2>1, FS_RemoveElement
  <2>3. Cardinality(NewIds(infos2)) = Cardinality(NewIds(infos) \ {id}) + 1
    BY <2>1, <2>2, FS_AddElement
  <2>4. /\ IsFiniteSet(TriedIds(infos) \ {old})
        /\ Cardinality(TriedIds(infos) \ {old}) = Cardinality(TriedIds(infos)) - 1
        /\ id \notin TriedIds(infos) \ {old}
    BY <1>3, <2>1, FS_RemoveElement
  <2>5. Cardinality(TriedIds(infos2)) = Cardinality(TriedIds(infos) \ {old}) + 1
    BY <2>1, <2>4, FS_AddElement
  <2>6. /\ Cardinality(NewIds(infos)) \in Nat /\ Cardinality(TriedIds(infos)) \in Nat
    BY <1>3, FS_CardinalityType
  <2>7. /\ Cardinality(NewIds(infos2)) = Cardinality(NewIds(infos))
        /\ Cardinality(TriedIds(infos2)) = Cardinality(TriedIds(infos))
    BY <2>2, <2>3, <2>4, <2>5, <2>6
  <2> QED BY <2>7 DEF Table, Numbered
<1>10. Typed(infos2, addrs, rnd, nt, nn, vt2, vn2, idc)
  BY <1>1, <1>6, <1>8 DEF Typed
<1>11. Counted(infos2, vn2, {})
  <2>1. /\ Holders(vn2, id) = {}
        /\ Holders(vn2, old) = {bk}
        /\ \A i : i \notin {id, old} => Holders(vn2, i) = Holders(vn, i)
    BY <1>5, <1>7, <1>8 DEF Holders
  <2>2. Cardinality(Holders(vn2, id)) = 0 /\ Cardinality(Holders(vn2, old)) = 1
    BY <2>1, FS_EmptySet, FS_Singleton
  <2>3. ASSUME NEW i \in D
        PROVE  /\ infos2[i].nRefCount = Cardinality(Holders(vn2, i)) + 0
               /\ infos2[i].nRefCount <= ADDRMAN_NEW_BUCKETS_PER_ADDRESS
               /\ infos2[i].fInTried <=> infos2[i].nRefCount = 0
    <3>1. CASE i = id
      BY <1>6, <2>2, <3>1, Sizes
    <3>2. CASE i = old
      BY <1>6, <2>2, <3>2, Sizes
    <3>3. CASE i \notin {id, old}
      <4>1. /\ infos[i].nRefCount = Cardinality(Holders(vn, i)) + 0
            /\ infos[i].nRefCount <= ADDRMAN_NEW_BUCKETS_PER_ADDRESS
            /\ infos[i].fInTried <=> infos[i].nRefCount = 0
        BY DEF Table, Counted
      <4> QED BY <1>6, <2>1, <3>3, <4>1
    <3> QED BY <3>1, <3>2, <3>3
  <2> QED BY <1>6, <2>3 DEF Counted
<1>12. Mapped(infos2, addrs, rnd)
  BY <1>1, <1>6, SameMapped DEF Table
<1>13. Bucketed(infos2, vt2)
  <2>1. ASSUME NEW i \in D, NEW c \in TriedBuckets
        PROVE  i \in vt2[c] <=> infos2[i].fInTried /\ TriedBucket[infos2[i].addr] = c
    <3>1. CASE i = id
      BY <1>2, <1>4, <1>6, <1>8, <3>1
    <3>2. CASE i = old
      BY <1>2, <1>4, <1>5, <1>6, <1>8, <3>2
    <3>3. CASE i \notin {id, old}
      BY <1>2, <1>4, <1>6, <1>8, <3>3
    <3> QED BY <3>1, <3>2, <3>3
  <2> QED BY <1>6, <2>1 DEF Bucketed
<1>14. Bounded(vt2, vn2)
  <2>1. /\ \A b \in NewBuckets : Cardinality(vn[b]) <= ADDRMAN_NEW_BUCKET_SIZE
        /\ \A c \in TriedBuckets : Cardinality(vt[c]) <= ADDRMAN_TRIED_BUCKET_SIZE
    BY DEF Table, Bounded
  <2>2. ASSUME NEW b \in NewBuckets, b # bk
        PROVE  Cardinality(vn2[b]) <= ADDRMAN_NEW_BUCKET_SIZE
    <3>1. /\ Cardinality(vn[b]) \in Nat /\ Cardinality(vn[b]) <= ADDRMAN_NEW_BUCKET_SIZE
          /\ Cardinality(vn[b] \ {id})
               = IF id \in vn[b] THEN Cardinality(vn[b]) - 1 ELSE Cardinality(vn[b])
      BY <1>3, <2>1, FS_RemoveElement, FS_CardinalityType
    <3>2. Cardinality(vn[b] \ {id}) <= ADDRMAN_NEW_BUCKET_SIZE
      BY <3>1, Sizes
    <3> QED BY <1>8, <2>2, <3>2
  <2>3. Cardinality(vn2[bk]) <= ADDRMAN_NEW_BUCKET_SIZE
    <3>1. IsFiniteSet(vn[bk] \ {id}) /\ Cardinality(vn[bk] \ {id}) \in Nat
      BY <1>3, FS_RemoveElement, FS_CardinalityType
    <3>2. old \notin vn[bk] \ {id}
      BY <1>7
    <3>3. Cardinality((vn[bk] \ {id}) \cup {old}) = Cardinality(vn[bk] \ {id}) + 1
      BY <3>1, <3>2, FS_AddElement
    <3>4. Cardinality((vn[bk] \ {id}) \cup {old}) <= ADDRMAN_NEW_BUCKET_SIZE
      BY <3>1, <3>3, Sizes
    <3> QED BY <1>8, <3>4
  <2>4. Cardinality(vt2[k]) <= ADDRMAN_TRIED_BUCKET_SIZE
    <3>1. /\ Cardinality(vt[k]) \in Nat /\ Cardinality(vt[k]) <= ADDRMAN_TRIED_BUCKET_SIZE
          /\ IsFiniteSet(vt[k] \ {old})
          /\ Cardinality(vt[k] \ {old}) = Cardinality(vt[k]) - 1
      BY <1>2, <1>3, <2>1, FS_RemoveElement, FS_CardinalityType
    <3>2. id \notin vt[k] \ {old}
      BY <1>2, <1>4
    <3>3. Cardinality((vt[k] \ {old}) \cup {id}) = Cardinality(vt[k] \ {old}) + 1
      BY <3>1, <3>2, FS_AddElement
    <3>4. Cardinality((vt[k] \ {old}) \cup {id}) <= ADDRMAN_TRIED_BUCKET_SIZE
      BY <3>1, <3>3, Sizes
    <3> QED BY <1>8, <3>4
  <2> QED BY <1>8, <2>1, <2>2, <2>3, <2>4 DEF Bounded
<1> QED BY <1>9, <1>10, <1>11, <1>12, <1>13, <1>14 DEF Table

\* GetAddr_ moves the entries of vRandom about.
LEMMA ShuffleTable ==
  ASSUME NEW infos, NEW addrs, NEW rnd, NEW nt, NEW nn, NEW vt, NEW vn, NEW idc,
         Table(infos, addrs, rnd, nt, nn, vt, vn, idc, {}),
         NEW f \in [1 .. Len(rnd) -> 1 .. Len(rnd)],
         \A i, j \in 1 .. Len(rnd) : f[i] = f[j] => i = j,
         NEW infos2, infos2 = Moved(infos, f),
         NEW rnd2 \in [1 .. Len(rnd) -> DOMAIN infos],
         \A p \in 1 .. Len(rnd) : rnd2[f[p]] = rnd[p]
  PROVE  Table(infos2, addrs, rnd2, nt, nn, vt, vn, idc, {})
<1> USE DEF Moved
<1> DEFINE D == DOMAIN infos
           L == Len(rnd)
<1>1. /\ infos \in [D -> Info] /\ L \in Nat /\ rnd \in Seq(D)
      /\ \A p \in 1 .. L : rnd[p] \in D
      /\ \A a \in DOMAIN addrs : addrs[a] \in D
  BY DEF Table, Typed
<1>2. /\ \A i \in D : /\ Ip[infos[i].addr] \in DOMAIN addrs
                       /\ addrs[Ip[infos[i].addr]] = i
                       /\ infos[i].nRandomPos \in 1 .. L
                       /\ rnd[infos[i].nRandomPos] = i
      /\ \A a \in DOMAIN addrs : Ip[infos[addrs[a]].addr] = a
      /\ \A p \in 1 .. L : infos[rnd[p]].nRandomPos = p
  BY DEF Mapped, Table
<1>3. ASSUME NEW i \in D
      PROVE  /\ infos2[i] \in Info
             /\ infos2[i].addr = infos[i].addr
             /\ infos2[i].nRefCount = infos[i].nRefCount
             /\ infos2[i].fInTried = infos[i].fInTried
             /\ infos2[i].nRandomPos = f[infos[i].nRandomPos]
  <2>1. infos[i] \in Info
    BY <1>1
  <2> DEFINE q == f[infos[i].nRandomPos]
  <2>2. q \in 1 .. L
    BY <1>2
  <2>3. q \in Nat \ {0}
    BY <1>1, <2>2
  <2>4. infos2[i] = [infos[i] EXCEPT !.nRandomPos = q]
    OBVIOUS
  <2> HIDE DEF q
  <2>5. /\ infos2[i] \in Info
        /\ infos2[i].addr = infos[i].addr
        /\ infos2[i].nRefCount = infos[i].nRefCount
        /\ infos2[i].fInTried = infos[i].fInTried
        /\ infos2[i].nRandomPos = q
    BY <2>1, <2>3, <2>4 DEF Info
  <2> QED BY <2>5 DEF q
<1>4. DOMAIN infos2 = D /\ infos2 \in [D -> Info]
  <2>1. \A i \in D : infos2[i] \in Info
    BY <1>3
  <2> QED BY <2>1
<1>5. Len(rnd2) = L /\ rnd2 \in Seq(D) /\ \A p \in 1 .. L : rnd2[p] \in D
  BY <1>1
<1>6. \A p \in 1 .. L : \E j \in 1 .. L : f[j] = p
  <2>1. IsFiniteSet(1 .. L)
    <3>1. 1 \in Int /\ L \in Int
      BY <1>1
    <3> QED BY <3>1, FS_Interval
  <2>2. f \in Injection(1 .. L, 1 .. L)
    BY DEF Injection, IsInjective
  <2>3. f \in Surjection(1 .. L, 1 .. L)
    BY <2>1, <2>2, FS_Injection
  <2> QED BY <2>3 DEF Surjection
<1>7. Mapped(infos2, addrs, rnd2)
  <2>1. ASSUME NEW i \in D
        PROVE  /\ Ip[infos2[i].addr] \in DOMAIN addrs
               /\ addrs[Ip[infos2[i].addr]] = i
               /\ infos2[i].nRandomPos \in 1 .. L
               /\ rnd2[infos2[i].nRandomPos] = i
    <3>1. /\ infos[i].nRandomPos \in 1 .. L /\ rnd[infos[i].nRandomPos] = i
          /\ Ip[infos[i].addr] \in DOMAIN addrs /\ addrs[Ip[infos[i].addr]] = i
      BY <1>2
    <3>2. rnd2[f[infos[i].nRandomPos]] = i /\ f[infos[i].nRandomPos] \in 1 .. L
      BY <3>1
    <3> QED BY <1>3, <3>1, <3>2
  <2>2. ASSUME NEW p \in 1 .. L
        PROVE  infos2[rnd2[p]].nRandomPos = p
    <3>1. PICK j \in 1 .. L : f[j] = p
      BY <1>6
    <3>2. rnd2[p] = rnd[j] /\ rnd[j] \in D /\ infos[rnd[j]].nRandomPos = j
      BY <1>1, <1>2, <3>1
    <3> QED BY <1>3, <3>1, <3>2
  <2>3. \A a \in DOMAIN addrs : Ip[infos2[addrs[a]].addr] = a
    BY <1>1, <1>2, <1>3
  <2> QED BY <1>4, <1>5, <2>1, <2>2, <2>3 DEF Mapped
<1>8. Typed(infos2, addrs, rnd2, nt, nn, vt, vn, idc)
  BY <1>4, <1>5 DEF Table, Typed
<1>9. Counted(infos2, vn, {})
  <2>1. ASSUME NEW i \in D
        PROVE  /\ infos2[i].nRefCount = Cardinality(Holders(vn, i)) + 0
               /\ infos2[i].nRefCount <= ADDRMAN_NEW_BUCKETS_PER_ADDRESS
               /\ infos2[i].fInTried <=> infos2[i].nRefCount = 0
    <3>1. /\ infos[i].nRefCount = Cardinality(Holders(vn, i)) + 0
          /\ infos[i].nRefCount <= ADDRMAN_NEW_BUCKETS_PER_ADDRESS
          /\ infos[i].fInTried <=> infos[i].nRefCount = 0
      BY DEF Table, Counted
    <3>2. /\ infos2[i].nRefCount = infos[i].nRefCount
          /\ infos2[i].fInTried = infos[i].fInTried
      BY <1>3
    <3> QED BY <3>1, <3>2
  <2> QED BY <1>4, <2>1 DEF Counted
<1>10. Bucketed(infos2, vt)
  <2>1. \A i \in D, c \in TriedBuckets :
          i \in vt[c] <=> infos[i].fInTried /\ TriedBucket[infos[i].addr] = c
    BY DEF Table, Bucketed
  <2>2. \A i \in D : infos2[i].fInTried = infos[i].fInTried /\ infos2[i].addr = infos[i].addr
    BY <1>3
  <2> QED BY <1>4, <2>1, <2>2 DEF Bucketed
<1>11. Numbered(infos2, rnd2, nt, nn)
  <2>1. TriedIds(infos2) = TriedIds(infos) /\ NewIds(infos2) = NewIds(infos)
    BY <1>3, <1>4 DEF TriedIds, NewIds
  <2> QED BY <1>5, <2>1 DEF Table, Numbered
<1> QED BY <1>7, <1>8, <1>9, <1>10, <1>11 DEF Table

-----------------------------------------------------------------------------
\* The end of Add_, with or without ShrinkNew.
LEMMA InsertNewStep ==
  ASSUME NEW infos, NEW addrs, NEW rnd, NEW new, NEW idc,
         NEW id \in DOMAIN infos, NEW b \in NewBuckets,
         Table(infos, addrs, rnd, nTried, new, vvTried, vvNew, idc, {id}),
         id \notin vvNew[b],
         InsertNew(id, b, infos, addrs, rnd, new),
         nTried' = nTried, vvTried' = vvTried, nIdCount' = idc
  PROVE  IInv'
<1>1. /\ vvNew \in [NewBuckets -> SUBSET DOMAIN infos]
      /\ Cardinality(vvNew[b]) <= ADDRMAN_NEW_BUCKET_SIZE
      /\ Cardinality(vvNew[b]) \in Nat
  <2>1. IsFiniteSet(vvNew[b])
    BY Finite DEF Table, Typed
  <2> QED BY <2>1, FS_CardinalityType DEF Table, Typed, Bounded
<1>2. CASE Cardinality(vvNew[b]) # ADDRMAN_NEW_BUCKET_SIZE
  <2>1. /\ vvNew' = [vvNew EXCEPT ![b] = @ \cup {id}]
        /\ mapInfo' = infos /\ vRandom' = rnd /\ mapAddr' = addrs /\ nNew' = new
    BY <1>2 DEF InsertNew
  <2>2. Cardinality(vvNew[b]) < ADDRMAN_NEW_BUCKET_SIZE
    BY <1>1, <1>2, Sizes
  <2>3. Table(infos, addrs, rnd, nTried, new, vvTried, vvNew', idc, {})
    BY <2>1, <2>2, InsertTable
  <2> QED BY <2>1, <2>3 DEF IInv
<1>3. CASE Cardinality(vvNew[b]) = ADDRMAN_NEW_BUCKET_SIZE
  <2>1. PICK v \in vvNew[b] :
          /\ vvNew' = [vvNew EXCEPT ![b] = (@ \ {v}) \cup {id}]
          /\ IF infos[v].nRefCount = 1
             THEN /\ mapInfo' = Erased(infos, rnd, v)
                  /\ vRandom' = SwapOut(rnd, infos[v].nRandomPos)
                  /\ mapAddr' = [a \in DOMAIN addrs \ {Ip[infos[v].addr]} |-> addrs[a]]
                  /\ nNew' = new - 1
             ELSE /\ mapInfo' = [infos EXCEPT ![v].nRefCount = @ - 1]
                  /\ vRandom' = rnd /\ mapAddr' = addrs /\ nNew' = new
    BY <1>3 DEF InsertNew, ShrinkNew
  <2> DEFINE vn == [vvNew EXCEPT ![b] = @ \ {v}]
  <2>2. /\ v # id /\ v \notin {id} /\ v \in DOMAIN infos
        /\ vn[b] = vvNew[b] \ {v} /\ id \notin vn[b]
        /\ vvNew' = [vn EXCEPT ![b] = @ \cup {id}]
    BY <1>1, <2>1
  <2>3. /\ Table(mapInfo', mapAddr', vRandom', nTried, nNew', vvTried, vn, idc, {id})
        /\ Cardinality(vn[b]) < ADDRMAN_NEW_BUCKET_SIZE
        /\ id \in DOMAIN mapInfo'
    <3>1. CASE infos[v].nRefCount = 1
      <4>1. /\ mapInfo' = Erased(infos, rnd, v)
            /\ vRandom' = SwapOut(rnd, infos[v].nRandomPos)
            /\ mapAddr' = [a \in DOMAIN addrs \ {Ip[infos[v].addr]} |-> addrs[a]]
            /\ nNew' = new - 1
        BY <2>1, <3>1
      <4>2. id \in DOMAIN mapInfo'
        BY <2>2, <4>1 DEF Erased
      <4>3. /\ Table(Erased(infos, rnd, v),
                     [a \in DOMAIN addrs \ {Ip[infos[v].addr]} |-> addrs[a]],
                     SwapOut(rnd, infos[v].nRandomPos), nTried, new - 1, vvTried, vn,
                     idc, {id})
            /\ Cardinality(vn[b]) < ADDRMAN_NEW_BUCKET_SIZE
        <5> HIDE DEF vn
        <5>1. vn = [vvNew EXCEPT ![b] = @ \ {v}]
          BY DEF vn
        <5> QED BY <2>2, <3>1, <5>1, EraseTable
      <4> QED BY <4>1, <4>2, <4>3
    <3>2. CASE infos[v].nRefCount # 1
      <4>1. /\ mapInfo' = [infos EXCEPT ![v].nRefCount = @ - 1]
            /\ vRandom' = rnd /\ mapAddr' = addrs /\ nNew' = new
        BY <2>1, <3>2
      <4>2. /\ Table([infos EXCEPT ![v].nRefCount = @ - 1], addrs, rnd, nTried, new,
                     vvTried, vn, idc, {id})
            /\ Cardinality(vn[b]) < ADDRMAN_NEW_BUCKET_SIZE
        <5> HIDE DEF vn
        <5>1. vn = [vvNew EXCEPT ![b] = @ \ {v}]
          BY DEF vn
        <5> QED BY <2>2, <3>2, <5>1, UncountTable
      <4>3. id \in DOMAIN mapInfo'
        BY <4>1
      <4> QED BY <4>1, <4>2, <4>3
    <3> QED BY <3>1, <3>2
  <2>4. Table(mapInfo', mapAddr', vRandom', nTried, nNew', vvTried, vvNew', idc, {})
    <3> HIDE DEF vn
    <3> QED BY <2>2, <2>3, InsertTable
  <2> QED BY <2>4 DEF IInv
<1> QED BY <1>2, <1>3

LEMMA InitInv == Init => IInv
<1> SUFFICES ASSUME Init PROVE IInv
  OBVIOUS
<1>1. /\ DOMAIN mapInfo = {} /\ DOMAIN mapAddr = {} /\ vRandom = <<>> /\ Len(vRandom) = 0
      /\ nTried = 0 /\ nNew = 0 /\ nIdCount = 0
      /\ vvTried = [k \in TriedBuckets |-> {}] /\ vvNew = [b \in NewBuckets |-> {}]
  BY DEF Init
<1>2. Typed(mapInfo, mapAddr, vRandom, nTried, nNew, vvTried, vvNew, nIdCount)
  <2>1. mapInfo \in [{} -> Info] /\ mapAddr \in [{} -> {}] /\ vRandom \in Seq({})
    BY DEF Init
  <2> QED BY <1>1, <2>1 DEF Typed
<1>3. Counted(mapInfo, vvNew, {}) /\ Bucketed(mapInfo, vvTried)
      /\ Mapped(mapInfo, mapAddr, vRandom)
  BY <1>1 DEF Counted, Bucketed, Mapped
<1>4. Numbered(mapInfo, vRandom, nTried, nNew)
  <2>1. TriedIds(mapInfo) = {} /\ NewIds(mapInfo) = {}
    BY <1>1 DEF TriedIds, NewIds
  <2> QED BY <1>1, <2>1, FS_EmptySet DEF Numbered
<1>5. Bounded(vvTried, vvNew)
  BY <1>1, FS_EmptySet, Sizes DEF Bounded
<1> QED BY <1>2, <1>3, <1>4, <1>5 DEF IInv, Table

\* What Add_ of an unknown address hands to InsertNew.
LEMMA AddUnknownTable ==
  ASSUME IInv, NEW s \in Services, NEW src \in Sources, AddUnknown(s, src)
  PROVE  \E infos, addrs, rnd, b :
           /\ b \in NewBuckets
           /\ Table(infos, addrs, rnd, nTried, nNew + 1, vvTried, vvNew, nIdCount + 1,
                    {nIdCount})
           /\ nIdCount \in DOMAIN infos /\ nIdCount \notin vvNew[b]
           /\ InsertNew(nIdCount, b, infos, addrs, rnd, nNew + 1)
           /\ \A i \in Ids : i \in DOMAIN infos /\ infos[i] = mapInfo[i]
<1> DEFINE info == [addr |-> s, source |-> src, nRefCount |-> 1, fInTried |-> FALSE,
                    nRandomPos |-> Len(vRandom) + 1]
           infos == [i \in Ids \cup {nIdCount} |->
                       IF i = nIdCount THEN info ELSE mapInfo[i]]
           addrs == [a \in DOMAIN mapAddr \cup {Ip[s]} |->
                       IF a = Ip[s] THEN nIdCount ELSE mapAddr[a]]
           rnd == Append(vRandom, nIdCount)
           b == NewBucket[s, src]
<1>1. /\ Ip[s] \notin DOMAIN mapAddr
      /\ InsertNew(nIdCount, b, infos, addrs, rnd, nNew + 1)
  BY DEF AddUnknown
<1>2. Table(infos, addrs, rnd, nTried, nNew + 1, vvTried, vvNew, nIdCount + 1, {nIdCount})
  <2>1. Table(mapInfo, mapAddr, vRandom, nTried, nNew, vvTried, vvNew, nIdCount, {})
    BY DEF IInv
  <2>2. infos = WithEntry(mapInfo, vRandom, s, src, nIdCount)
    BY DEF Ids, WithEntry
  <2>3. addrs = WithAddr(mapAddr, s, nIdCount)
    BY DEF WithAddr
  <2>4. rnd = Append(vRandom, nIdCount)
    OBVIOUS
  <2>5. Ip[s] \notin DOMAIN mapAddr
    BY <1>1
  <2> HIDE DEF infos, addrs, rnd, b
  <2> QED BY <2>1, <2>2, <2>3, <2>4, <2>5, CreateTable
<1>3. b \in NewBuckets
  <2>1. <<s, src>> \in Services \X Sources
    OBVIOUS
  <2> QED BY <2>1, AddrManAssumption
<1>4. nIdCount \notin Ids
  <2>1. nIdCount \in Nat /\ DOMAIN mapInfo \subseteq 0 .. nIdCount - 1
    BY DEF IInv, Table, Typed
  <2> QED BY <2>1 DEF Ids
<1>5. nIdCount \notin vvNew[b]
  <2> HIDE DEF b
  <2>1. vvNew \in [NewBuckets -> SUBSET DOMAIN mapInfo]
    BY DEF IInv, Table, Typed
  <2>2. vvNew[b] \subseteq DOMAIN mapInfo
    BY <1>3, <2>1
  <2> QED BY <1>4, <2>2 DEF Ids
<1>6. nIdCount \in DOMAIN infos /\ \A i \in Ids : i \in DOMAIN infos /\ infos[i] = mapInfo[i]
  BY <1>4
<1> HIDE DEF infos, addrs, rnd, b
<1> QED BY <1>1, <1>2, <1>3, <1>5, <1>6

LEMMA AddUnknownInv ==
  ASSUME IInv, NEW s \in Services, NEW src \in Sources, AddUnknown(s, src)
  PROVE  IInv'
<1>1. PICK infos, addrs, rnd, b :
        /\ b \in NewBuckets
        /\ Table(infos, addrs, rnd, nTried, nNew + 1, vvTried, vvNew, nIdCount + 1,
                 {nIdCount})
        /\ nIdCount \in DOMAIN infos /\ nIdCount \notin vvNew[b]
        /\ InsertNew(nIdCount, b, infos, addrs, rnd, nNew + 1)
  BY AddUnknownTable
<1>2. nTried' = nTried /\ vvTried' = vvTried /\ nIdCount' = nIdCount + 1
  BY DEF AddUnknown
<1> QED BY <1>1, <1>2, InsertNewStep

\* What Add_ of a known address hands to InsertNew.
LEMMA AddKnownTable ==
  ASSUME IInv, NEW s \in Services, NEW src \in Sources, AddKnown(s, src)
  PROVE  \E infos, id, b :
           /\ b \in NewBuckets
           /\ Table(infos, mapAddr, vRandom, nTried, nNew, vvTried, vvNew, nIdCount, {id})
           /\ id \in DOMAIN infos /\ id \notin vvNew[b]
           /\ InsertNew(id, b, infos, mapAddr, vRandom, nNew)
           /\ \A i \in Ids : /\ i \in DOMAIN infos
                             /\ mapInfo[i].fInTried => infos[i] = mapInfo[i]
<1> DEFINE id == mapAddr[Ip[s]]
           b == NewBucket[mapInfo[id].addr, src]
           infos == [mapInfo EXCEPT ![id].nRefCount = @ + 1]
<1>1. /\ Ip[s] \in DOMAIN mapAddr /\ ~mapInfo[id].fInTried
      /\ mapInfo[id].nRefCount # ADDRMAN_NEW_BUCKETS_PER_ADDRESS
      /\ id \notin vvNew[b]
      /\ InsertNew(id, b, infos, mapAddr, vRandom, nNew)
  BY DEF AddKnown
<1>2. id \in DOMAIN mapInfo
  BY <1>1 DEF IInv, Table, Typed
<1>3. b \in NewBuckets
  <2>1. mapInfo[id].addr \in Services
    BY <1>2 DEF IInv, Table, Typed, Info
  <2>2. <<mapInfo[id].addr, src>> \in Services \X Sources
    BY <2>1
  <2> QED BY <2>2, AddrManAssumption
<1>4. Table(infos, mapAddr, vRandom, nTried, nNew, vvTried, vvNew, nIdCount, {id})
  <2> HIDE DEF id
  <2> QED BY <1>1, <1>2, CountTable DEF IInv
<1>5. /\ id \in DOMAIN infos
      /\ \A i \in Ids : i \in DOMAIN infos /\ (mapInfo[i].fInTried => infos[i] = mapInfo[i])
  <2> HIDE DEF id
  <2>1. DOMAIN infos = DOMAIN mapInfo
    OBVIOUS
  <2>2. ASSUME NEW i \in Ids, mapInfo[i].fInTried PROVE infos[i] = mapInfo[i]
    <3>1. i # id
      BY <1>1, <2>2
    <3> QED BY <3>1 DEF Ids
  <2> QED BY <1>2, <2>1, <2>2 DEF Ids
<1> HIDE DEF infos, id, b
<1> QED BY <1>1, <1>3, <1>4, <1>5

LEMMA AddKnownInv ==
  ASSUME IInv, NEW s \in Services, NEW src \in Sources, AddKnown(s, src)
  PROVE  IInv'
<1>1. PICK infos, id, b :
        /\ b \in NewBuckets
        /\ Table(infos, mapAddr, vRandom, nTried, nNew, vvTried, vvNew, nIdCount, {id})
        /\ id \in DOMAIN infos /\ id \notin vvNew[b]
        /\ InsertNew(id, b, infos, mapAddr, vRandom, nNew)
  BY AddKnownTable
<1>2. nTried' = nTried /\ vvTried' = vvTried /\ nIdCount' = nIdCount
  BY DEF AddKnown
<1> QED BY <1>1, <1>2, InsertNewStep

LEMMA GoodInv ==
  ASSUME IInv, NEW s \in Services, NEW origin \in NewBuckets, Good(s, origin)
  PROVE  IInv'
<1> DEFINE id == mapAddr[Ip[s]]
           k == TriedBucket[mapInfo[id].addr]
<1>1. /\ Ip[s] \in DOMAIN mapAddr /\ ~mapInfo[id].fInTried /\ id \in vvNew[origin]
      /\ MakeTriedRoom(id) \/ MakeTriedEvict(id, origin)
      /\ nIdCount' = nIdCount
  BY DEF Good, Find
<1>2. id \in DOMAIN mapInfo
  BY <1>1 DEF IInv, Table, Typed
<1>3. CASE MakeTriedRoom(id)
  <2>1. /\ Cardinality(vvTried[k]) < ADDRMAN_TRIED_BUCKET_SIZE
        /\ vvNew' = Without(vvNew, id) /\ vvTried' = InTried(vvTried, k, id)
        /\ mapInfo' = Tried(mapInfo, id)
        /\ nNew' = nNew - 1 /\ nTried' = nTried + 1
        /\ mapAddr' = mapAddr /\ vRandom' = vRandom
    BY <1>3 DEF MakeTriedRoom, OutOfNew, Without, InTried, Tried
  <2>2. k = TriedBucket[mapInfo[id].addr]
    OBVIOUS
  <2> HIDE DEF id, k
  <2>3. Table(mapInfo', mapAddr, vRandom, nTried + 1, nNew - 1, vvTried', vvNew', nIdCount, {})
    <3>1. Table(mapInfo, mapAddr, vRandom, nTried, nNew, vvTried, vvNew, nIdCount, {})
      BY DEF IInv
    <3>2. ~mapInfo[id].fInTried
      BY <1>1
    <3> QED BY <1>2, <2>1, <2>2, <3>1, <3>2, TryTable
  <2> QED BY <1>1, <2>1, <2>3 DEF IInv
<1>4. CASE MakeTriedEvict(id, origin)
  <2>1. PICK old \in vvTried[k] :
          /\ vvNew' = [OutOfNew(id) EXCEPT ![BackTo(old, id, origin)] = @ \cup {old}]
          /\ vvTried' = [vvTried EXCEPT ![k] = (@ \ {old}) \cup {id}]
          /\ mapInfo' = [mapInfo EXCEPT ![id].nRefCount = 0, ![id].fInTried = TRUE,
                                        ![old].nRefCount = 1, ![old].fInTried = FALSE]
    BY <1>4 DEF MakeTriedEvict
  <2>2. nNew' = nNew /\ nTried' = nTried /\ mapAddr' = mapAddr /\ vRandom' = vRandom
    BY <1>4 DEF MakeTriedEvict
  <2> DEFINE bk == BackTo(old, id, origin)
  <2>3. /\ old \in DOMAIN mapInfo
        /\ NewBucket[mapInfo[old].addr, mapInfo[old].source] \in NewBuckets
    <3>1. mapInfo[id].addr \in Services
      BY <1>2 DEF IInv, Table, Typed, Info
    <3>2. k \in TriedBuckets
      BY <3>1, AddrManAssumption
    <3>3. old \in DOMAIN mapInfo
      BY <2>1, <3>2 DEF IInv, Table, Typed
    <3>4. <<mapInfo[old].addr, mapInfo[old].source>> \in Services \X Sources
      BY <3>3 DEF IInv, Table, Typed, Info
    <3> QED BY <3>3, <3>4, AddrManAssumption
  <2>4. bk \in NewBuckets /\ Cardinality(vvNew[bk] \ {id}) < ADDRMAN_NEW_BUCKET_SIZE
    <3> DEFINE own == NewBucket[mapInfo[old].addr, mapInfo[old].source]
    <3>1. Cardinality(vvNew[origin] \ {id}) < ADDRMAN_NEW_BUCKET_SIZE
      <4>1. IsFiniteSet(vvNew[origin])
        BY Finite DEF IInv, Table, Typed
      <4>2. /\ Cardinality(vvNew[origin]) \in Nat
            /\ Cardinality(vvNew[origin] \ {id}) = Cardinality(vvNew[origin]) - 1
        BY <1>1, <4>1, FS_RemoveElement, FS_CardinalityType
      <4>3. Cardinality(vvNew[origin]) <= ADDRMAN_NEW_BUCKET_SIZE
        BY DEF IInv, Table, Bounded
      <4> QED BY <4>2, <4>3, Sizes
    <3>2. OutOfNew(id)[own] = vvNew[own] \ {id}
      BY <2>3 DEF OutOfNew
    <3>3. bk = IF Cardinality(vvNew[own] \ {id}) < ADDRMAN_NEW_BUCKET_SIZE THEN own ELSE origin
      BY <3>2 DEF BackTo
    <3> HIDE DEF id, bk, own
    <3>4. own \in NewBuckets
      BY <2>3 DEF own
    <3> QED BY <3>1, <3>3, <3>4
  <2>5. vvNew' = BackIn(vvNew, id, bk, old)
    BY <2>1 DEF OutOfNew, BackIn
  <2>6. k = TriedBucket[mapInfo[id].addr]
    OBVIOUS
  <2> HIDE DEF id, k, bk
  <2>7. Table(mapInfo', mapAddr, vRandom, nTried, nNew, vvTried', vvNew', nIdCount, {})
    <3>1. Table(mapInfo, mapAddr, vRandom, nTried, nNew, vvTried, vvNew, nIdCount, {})
      BY DEF IInv
    <3>2. ~mapInfo[id].fInTried
      BY <1>1
    <3>3. old \in vvTried[k]
      BY <2>1
    <3>4. vvTried' = Replaced(vvTried, k, old, id) /\ mapInfo' = Evicted(mapInfo, id, old)
      BY <2>1 DEF Replaced, Evicted
    <3> QED BY <1>2, <2>4, <2>5, <2>6, <3>1, <3>2, <3>3, <3>4, EvictTable
  <2> QED BY <1>1, <2>2, <2>7 DEF IInv
<1> QED BY <1>1, <1>3, <1>4

LEMMA GetAddrInv == IInv /\ GetAddr => IInv'
<1> SUFFICES ASSUME IInv, GetAddr PROVE IInv'
  OBVIOUS
<1>1. PICK f \in [1 .. Len(vRandom) -> 1 .. Len(vRandom)] :
        /\ \A i, j \in 1 .. Len(vRandom) : f[i] = f[j] => i = j
        /\ mapInfo' = [i \in Ids |-> [mapInfo[i] EXCEPT !.nRandomPos = f[@]]]
        /\ vRandom' \in [1 .. Len(vRandom) -> Ids]
        /\ \A p \in 1 .. Len(vRandom) : vRandom'[f[p]] = vRandom[p]
  BY DEF GetAddr
<1>2. UNCHANGED <<mapAddr, nTried, nNew, vvTried, vvNew, nIdCount>>
  BY DEF GetAddr
<1>3. Table(mapInfo', mapAddr, vRandom', nTried, nNew, vvTried, vvNew, nIdCount, {})
  <2>1. Table(mapInfo, mapAddr, vRandom, nTried, nNew, vvTried, vvNew, nIdCount, {})
    BY DEF IInv
  <2>2. mapInfo' = Moved(mapInfo, f)
    BY <1>1 DEF Ids, Moved
  <2>3. vRandom' \in [1 .. Len(vRandom) -> DOMAIN mapInfo]
    BY <1>1 DEF Ids
  <2>4. \A i, j \in 1 .. Len(vRandom) : f[i] = f[j] => i = j
    BY <1>1
  <2>5. \A p \in 1 .. Len(vRandom) : vRandom'[f[p]] = vRandom[p]
    BY <1>1
  <2> QED BY <2>1, <2>2, <2>3, <2>4, <2>5, ShuffleTable
<1> QED BY <1>2, <1>3 DEF IInv

LEMMA NextInv == IInv /\ [Operation]_vars => IInv'
<1> SUFFICES ASSUME IInv, [Operation]_vars PROVE IInv'
  OBVIOUS
<1>1. ASSUME NEW s \in Services, NEW src \in Sources, AddUnknown(s, src)
      PROVE  IInv'
  BY <1>1, AddUnknownInv
<1>2. ASSUME NEW s \in Services, NEW src \in Sources, AddKnown(s, src)
      PROVE  IInv'
  BY <1>2, AddKnownInv
<1>3. ASSUME NEW s \in Services, NEW origin \in NewBuckets, Good(s, origin)
      PROVE  IInv'
  BY <1>3, GoodInv
<1>4. CASE GetAddr
  BY <1>4, GetAddrInv
<1>5. CASE UNCHANGED vars
  <2>1. /\ mapInfo' = mapInfo /\ mapAddr' = mapAddr /\ vRandom' = vRandom
        /\ nTried' = nTried /\ nNew' = nNew /\ vvTried' = vvTried /\ vvNew' = vvNew
        /\ nIdCount' = nIdCount
    BY <1>5 DEF vars
  <2> QED BY <2>1 DEF IInv
<1> QED BY <1>1, <1>2, <1>3, <1>4, <1>5 DEF Operation

LEMMA InvConsistent ==
  IInv => TypeOK /\ CheckEntries /\ CheckTried /\ CheckCounts /\ BucketsBounded
<1> SUFFICES ASSUME IInv
             PROVE  TypeOK /\ CheckEntries /\ CheckTried /\ CheckCounts /\ BucketsBounded
  OBVIOUS
<1>1. /\ Typed(mapInfo, mapAddr, vRandom, nTried, nNew, vvTried, vvNew, nIdCount)
      /\ Counted(mapInfo, vvNew, {}) /\ Mapped(mapInfo, mapAddr, vRandom)
      /\ Bucketed(mapInfo, vvTried) /\ Numbered(mapInfo, vRandom, nTried, nNew)
      /\ Bounded(vvTried, vvNew)
  BY DEF IInv, Table
<1>2. TypeOK
  BY <1>1 DEF Typed, TypeOK, Ids
<1>3. CheckEntries
  <2> SUFFICES ASSUME NEW i \in Ids
               PROVE  /\ mapInfo[i].nRefCount = Cardinality(BucketsOf(i))
                      /\ mapInfo[i].nRefCount <= ADDRMAN_NEW_BUCKETS_PER_ADDRESS
                      /\ mapInfo[i].fInTried <=> mapInfo[i].nRefCount = 0
                      /\ Ip[mapInfo[i].addr] \in DOMAIN mapAddr
                      /\ mapAddr[Ip[mapInfo[i].addr]] = i
                      /\ mapInfo[i].nRandomPos \in DOMAIN vRandom
                      /\ vRandom[mapInfo[i].nRandomPos] = i
    BY DEF CheckEntries
  <2>1. BucketsOf(i) = Holders(vvNew, i)
    BY DEF BucketsOf, Holders
  <2>2. Cardinality(Holders(vvNew, i)) \in Nat
    <3>1. IsFiniteSet(NewBuckets) /\ Holders(vvNew, i) \subseteq NewBuckets
      BY AddrManAssumption DEF Holders
    <3> QED BY <3>1, FS_Subset, FS_CardinalityType
  <2>3. /\ mapInfo[i].nRefCount = Cardinality(Holders(vvNew, i))
        /\ mapInfo[i].nRefCount <= ADDRMAN_NEW_BUCKETS_PER_ADDRESS
        /\ mapInfo[i].fInTried <=> mapInfo[i].nRefCount = 0
    <3>1. /\ mapInfo[i].nRefCount = Cardinality(Holders(vvNew, i)) + 0
          /\ mapInfo[i].nRefCount <= ADDRMAN_NEW_BUCKETS_PER_ADDRESS
          /\ mapInfo[i].fInTried <=> mapInfo[i].nRefCount = 0
      BY <1>1 DEF Counted, Ids
    <3> QED BY <2>2, <3>1
  <2>4. /\ Ip[mapInfo[i].addr] \in DOMAIN mapAddr /\ mapAddr[Ip[mapInfo[i].addr]] = i
        /\ mapInfo[i].nRandomPos \in 1 .. Len(vRandom) /\ vRandom[mapInfo[i].nRandomPos] = i
    BY <1>1 DEF Mapped, Ids
  <2>5. DOMAIN vRandom = 1 .. Len(vRandom)
    BY <1>1 DEF Typed
  <2> QED BY <2>1, <2>3, <2>4, <2>5
<1>4. CheckTried
  BY <1>1 DEF Bucketed, CheckTried, Ids
<1>5. CheckCounts
  BY <1>1 DEF Numbered, CheckCounts, TriedIds, NewIds, Ids
<1>6. BucketsBounded
  BY <1>1 DEF Bounded, BucketsBounded
<1> QED BY <1>2, <1>3, <1>4, <1>5, <1>6

-----------------------------------------------------------------------------
\* A tried entry survives ShrinkNew: what that erases is not tried, and has
\* another network address.
LEMMA InsertKeeps ==
  ASSUME NEW infos, NEW addrs, NEW rnd, NEW new, NEW idc, NEW id, NEW b \in NewBuckets,
         Table(infos, addrs, rnd, nTried, new, vvTried, vvNew, idc, {id}),
         InsertNew(id, b, infos, addrs, rnd, new),
         NEW i \in DOMAIN infos, infos[i].fInTried
  PROVE  Ip[infos[i].addr] \in DOMAIN mapAddr'
<1>1. Ip[infos[i].addr] \in DOMAIN addrs /\ addrs[Ip[infos[i].addr]] = i
  BY DEF Table, Mapped
<1>2. CASE mapAddr' = addrs
  BY <1>1, <1>2
<1>3. ASSUME NEW v \in vvNew[b],
             mapAddr' = [a \in DOMAIN addrs \ {Ip[infos[v].addr]} |-> addrs[a]]
      PROVE  Ip[infos[i].addr] \in DOMAIN mapAddr'
  <2>1. v \in DOMAIN infos
    BY <1>3 DEF Table, Typed
  <2>2. addrs[Ip[infos[v].addr]] = v
    BY <2>1 DEF Table, Mapped
  <2>3. i \notin vvNew[b]
    <3>1. /\ infos[i].nRefCount = 0
          /\ infos[i].nRefCount = Cardinality(Holders(vvNew, i)) + (IF i \in {id} THEN 1 ELSE 0)
      BY DEF Table, Counted
    <3>2. IsFiniteSet(Holders(vvNew, i))
      <4>1. IsFiniteSet(NewBuckets) /\ Holders(vvNew, i) \subseteq NewBuckets
        BY AddrManAssumption DEF Holders
      <4> QED BY <4>1, FS_Subset
    <3>3. Cardinality(Holders(vvNew, i)) \in Nat
      BY <3>2, FS_CardinalityType
    <3>4. Cardinality(Holders(vvNew, i)) = 0
      BY <3>1, <3>3
    <3>5. Holders(vvNew, i) = {}
      BY <3>2, <3>4, FS_EmptySet
    <3> QED BY <3>5 DEF Holders
  <2>4. Ip[infos[i].addr] # Ip[infos[v].addr]
    BY <1>1, <1>3, <2>2, <2>3
  <2> QED BY <1>1, <1>3, <2>4
<1> QED BY <1>2, <1>3 DEF InsertNew, ShrinkNew

LEMMA TriedKeptStep ==
  ASSUME IInv, [Operation]_vars, NEW i \in Ids, mapInfo[i].fInTried
  PROVE  Ip[mapInfo[i].addr] \in DOMAIN mapAddr'
<1>1. Ip[mapInfo[i].addr] \in DOMAIN mapAddr
  BY DEF IInv, Table, Mapped, Ids
<1>2. ASSUME NEW s \in Services, NEW src \in Sources, AddUnknown(s, src)
      PROVE  Ip[mapInfo[i].addr] \in DOMAIN mapAddr'
  <2>1. PICK infos, addrs, rnd, b :
          /\ b \in NewBuckets
          /\ Table(infos, addrs, rnd, nTried, nNew + 1, vvTried, vvNew, nIdCount + 1,
                   {nIdCount})
          /\ InsertNew(nIdCount, b, infos, addrs, rnd, nNew + 1)
          /\ \A j \in Ids : j \in DOMAIN infos /\ infos[j] = mapInfo[j]
    BY <1>2, AddUnknownTable
  <2>2. i \in DOMAIN infos /\ infos[i].fInTried /\ infos[i].addr = mapInfo[i].addr
    BY <2>1
  <2>3. Ip[infos[i].addr] \in DOMAIN mapAddr'
    BY <2>1, <2>2, InsertKeeps
  <2> QED BY <2>2, <2>3
<1>3. ASSUME NEW s \in Services, NEW src \in Sources, AddKnown(s, src)
      PROVE  Ip[mapInfo[i].addr] \in DOMAIN mapAddr'
  <2>1. PICK infos, id, b :
          /\ b \in NewBuckets
          /\ Table(infos, mapAddr, vRandom, nTried, nNew, vvTried, vvNew, nIdCount, {id})
          /\ InsertNew(id, b, infos, mapAddr, vRandom, nNew)
          /\ \A j \in Ids : /\ j \in DOMAIN infos
                            /\ mapInfo[j].fInTried => infos[j] = mapInfo[j]
    BY <1>3, AddKnownTable
  <2>2. i \in DOMAIN infos /\ infos[i].fInTried /\ infos[i].addr = mapInfo[i].addr
    BY <2>1
  <2>3. Ip[infos[i].addr] \in DOMAIN mapAddr'
    BY <2>1, <2>2, InsertKeeps
  <2> QED BY <2>2, <2>3
<1>4. ASSUME NEW s \in Services, NEW origin \in NewBuckets, Good(s, origin)
      PROVE  mapAddr' = mapAddr
  BY <1>4 DEF Good, MakeTriedRoom, MakeTriedEvict
<1>5. CASE GetAddr
  BY <1>1, <1>5 DEF GetAddr
<1>6. CASE UNCHANGED vars
  BY <1>1, <1>6 DEF vars
<1> QED BY <1>1, <1>2, <1>3, <1>4, <1>5, <1>6 DEF Operation

-----------------------------------------------------------------------------
(***************************************************************************)
(* peers.dat.  No entry is lost on the way, because a tried bucket that is *)
(* read is the one that was written; so the numbers are a permutation of   *)
(* the entries, new ones first, and the table read is the table written    *)
(* with the entries renumbered.                                            *)
(***************************************************************************)

\* A function that tells the elements of a finite set apart keeps its size.
LEMMA ImageSize ==
  ASSUME NEW S, IsFiniteSet(S), NEW f, \A x, y \in S : f[x] = f[y] => x = y
  PROVE  /\ IsFiniteSet({f[x] : x \in S})
         /\ Cardinality({f[x] : x \in S}) = Cardinality(S)
<1> DEFINE T == {f[x] : x \in S}
           g == [x \in S |-> f[x]]
<1>1. g \in [S -> T] /\ \A x \in S : g[x] = f[x]
  OBVIOUS
<1>2. g \in Injection(S, T)
  BY <1>1 DEF Injection, IsInjective
<1>3. \A t \in T : \E x \in S : g[x] = t
  BY <1>1
<1>4. g \in Surjection(S, T)
  BY <1>1, <1>3 DEF Surjection
<1>5. ExistsBijection(S, T)
  BY <1>2, <1>4 DEF Bijection, ExistsBijection
<1> QED BY <1>5, FS_Bijection

\* A tried bucket has room for all the entries that were in it.
LEMMA NoneLost ==
  ASSUME IInv, NEW i \in Ids
  PROVE  ~Lost(i)
<1> SUFFICES ASSUME mapInfo[i].fInTried
             PROVE  ~Lost(i)
  BY DEF Lost
<1> DEFINE k == TriedBucket[mapInfo[i].addr]
           S == {j \in Ids : /\ j < i /\ mapInfo[j].fInTried
                             /\ TriedBucket[mapInfo[j].addr] = k}
<1>1. /\ nIdCount \in Nat /\ Ids \subseteq 0 .. nIdCount - 1 /\ mapInfo \in [Ids -> Info]
      /\ vvTried \in [TriedBuckets -> SUBSET Ids] /\ vvNew \in [NewBuckets -> SUBSET Ids]
  BY DEF IInv, Table, Typed, Ids
<1>2. k \in TriedBuckets
  BY <1>1, AddrManAssumption DEF Info
<1>3. \A j \in Ids :
        j \in vvTried[k] <=> mapInfo[j].fInTried /\ TriedBucket[mapInfo[j].addr] = k
  BY <1>2 DEF IInv, Table, Bucketed, Ids
<1>4. IsFiniteSet(vvTried[k]) /\ Cardinality(vvTried[k]) <= ADDRMAN_TRIED_BUCKET_SIZE
  BY <1>1, <1>2, Finite DEF IInv, Table, Bounded, Ids
<1>5. S \in SUBSET (vvTried[k] \ {i}) /\ i \in vvTried[k]
  <2>1. \A j \in Ids : j \in Int
    BY <1>1
  <2>2. \A j \in S : j \in Ids /\ j # i
    BY <2>1
  <2>3. \A j \in S : j \in vvTried[k]
    BY <1>3
  <2> QED BY <1>3, <2>2, <2>3
<1>6. /\ IsFiniteSet(vvTried[k] \ {i})
      /\ Cardinality(vvTried[k] \ {i}) = Cardinality(vvTried[k]) - 1
  BY <1>4, <1>5, FS_RemoveElement
<1>7. IsFiniteSet(S) /\ Cardinality(S) <= Cardinality(vvTried[k] \ {i})
  BY <1>5, <1>6, FS_Subset
<1>8. /\ Cardinality(S) \in Nat /\ Cardinality(vvTried[k]) \in Nat
      /\ ADDRMAN_TRIED_BUCKET_SIZE \in Nat
  BY <1>4, <1>7, FS_CardinalityType, Sizes
<1>9. ~(Cardinality(S) >= ADDRMAN_TRIED_BUCKET_SIZE)
  BY <1>4, <1>6, <1>7, <1>8
<1> QED BY <1>9 DEF Lost

\* The numbers are 0, 1, 2, ...: each entry has one and each is some entry's.
LEMMA Renumbering ==
  ASSUME IInv
  PROVE  /\ Kept = Ids /\ Cardinality(Ids) \in Nat
         /\ \A i \in Ids : NewId(i) \in 0 .. Cardinality(Ids) - 1
         /\ \A i, j \in Ids : NewId(i) = NewId(j) => i = j
         /\ \A n \in 0 .. Cardinality(Ids) - 1 : \E i \in Ids : NewId(i) = n
<1> DEFINE Before(j, i) == IF mapInfo[i].fInTried = mapInfo[j].fInTried
                           THEN j < i ELSE mapInfo[i].fInTried
           Below(i) == {j \in Ids : Before(j, i)}
           c == Cardinality(Ids)
<1>1. /\ nIdCount \in Nat /\ Ids \subseteq 0 .. nIdCount - 1 /\ mapInfo \in [Ids -> Info]
      /\ vvTried \in [TriedBuckets -> SUBSET Ids] /\ vvNew \in [NewBuckets -> SUBSET Ids]
  BY DEF IInv, Table, Typed, Ids
<1>2. \A i \in Ids : i \in Int /\ mapInfo[i].fInTried \in BOOLEAN
  BY <1>1 DEF Info
<1>3. IsFiniteSet(Ids) /\ c \in Nat
  BY <1>1, Finite, FS_CardinalityType DEF Ids
<1>4. Kept = Ids
  BY NoneLost DEF Kept
<1>5. \A i \in Ids : NewId(i) = Cardinality(Below(i))
  BY <1>4 DEF NewId
<1>6. \A i \in Ids : IsFiniteSet(Below(i)) /\ Cardinality(Below(i)) \in Nat
  BY <1>3, FS_Subset, FS_CardinalityType
<1>7. \A i \in Ids : i \notin Below(i)
  BY <1>2
<1>8. ASSUME NEW i \in Ids PROVE Cardinality(Below(i)) < c
  <2>1. Below(i) \in SUBSET (Ids \ {i})
    BY <1>7
  <2>2. IsFiniteSet(Ids \ {i}) /\ Cardinality(Ids \ {i}) = c - 1
    BY <1>3, FS_RemoveElement
  <2>3. Cardinality(Below(i)) <= Cardinality(Ids \ {i})
    BY <2>1, <2>2, FS_Subset
  <2> QED BY <1>3, <1>6, <2>2, <2>3
<1>9. ASSUME NEW i \in Ids, NEW j \in Ids, i \in Below(j)
      PROVE  Cardinality(Below(i)) < Cardinality(Below(j))
  <2>1. \A h \in Ids : Before(h, i) => Before(h, j)
    BY <1>2, <1>9
  <2>2. Below(i) \in SUBSET (Below(j) \ {i})
    BY <1>7, <2>1
  <2>3. /\ IsFiniteSet(Below(j) \ {i})
        /\ Cardinality(Below(j) \ {i}) = Cardinality(Below(j)) - 1
    BY <1>6, <1>9, FS_RemoveElement
  <2>4. Cardinality(Below(i)) <= Cardinality(Below(j) \ {i})
    BY <2>2, <2>3, FS_Subset
  <2>5. Cardinality(Below(i)) \in Nat /\ Cardinality(Below(j)) \in Nat
    BY <1>6
  <2> HIDE DEF Below
  <2> QED BY <2>3, <2>4, <2>5
<1>10. \A i, j \in Ids : i # j => i \in Below(j) \/ j \in Below(i)
  BY <1>2
<1>11. \A i, j \in Ids : NewId(i) = NewId(j) => i = j
  <2> SUFFICES ASSUME NEW i \in Ids, NEW j \in Ids, NewId(i) = NewId(j), i # j
               PROVE  FALSE
    OBVIOUS
  <2>1. Cardinality(Below(i)) < Cardinality(Below(j))
          \/ Cardinality(Below(j)) < Cardinality(Below(i))
    BY <1>9, <1>10
  <2>2. Cardinality(Below(i)) = Cardinality(Below(j))
    BY <1>5
  <2> QED BY <1>6, <2>1, <2>2
<1>12. \A i \in Ids : NewId(i) \in 0 .. c - 1
  <2>1. \A i \in Ids : Cardinality(Below(i)) \in Nat /\ Cardinality(Below(i)) < c
    BY <1>6, <1>8
  <2> HIDE DEF Below
  <2> QED BY <1>3, <1>5, <2>1
<1>13. \A n \in 0 .. c - 1 : \E i \in Ids : NewId(i) = n
  <2> DEFINE num == [i \in Ids |-> NewId(i)]
             R == {num[i] : i \in Ids}
  <2>1. \A i \in Ids : num[i] = NewId(i)
    OBVIOUS
  <2>2. \A i, j \in Ids : num[i] = num[j] => i = j
    BY <1>11, <2>1
  <2> HIDE DEF num
  <2>3. Cardinality(R) = c
    BY <1>3, <2>2, ImageSize
  <2>4. R \in SUBSET (0 .. c - 1)
    BY <1>12, <2>1
  <2>5. IsFiniteSet(0 .. c - 1) /\ Cardinality(0 .. c - 1) = c
    BY <1>3, FS_Interval
  <2>6. R = 0 .. c - 1
    BY <2>3, <2>4, <2>5, FS_Subset
  <2> QED BY <2>1, <2>6
<1> QED BY <1>3, <1>4, <1>11, <1>12, <1>13

\* The parts of a table with the entries renumbered by num, whose inverse is old.
InfosBy(infos, vn, N, old) ==
  [n \in N |-> [infos[old[n]] EXCEPT !.nRefCount = Cardinality(Holders(vn, old[n])),
                                     !.nRandomPos = n + 1]]
AddrsBy(addrs, num) == [a \in DOMAIN addrs |-> num[addrs[a]]]
BucketsBy(vv, num) == [b \in DOMAIN vv |-> {num[i] : i \in vv[b]}]

\* num and old number the entries from 0 and are inverse to each other.
Numbers(infos, N, num, old) ==
  /\ N = 0 .. Cardinality(DOMAIN infos) - 1
  /\ num \in [DOMAIN infos -> N] /\ old \in [N -> DOMAIN infos]
  /\ \A i \in DOMAIN infos : old[num[i]] = i
  /\ \A n \in N : num[old[n]] = n

\* Reading peers.dat renumbers the entries and does nothing else.
LEMMA ReloadRenumbers ==
  ASSUME IInv, Reload
  PROVE  \E N, num, old :
           /\ Numbers(mapInfo, N, num, old)
           /\ mapInfo' = InfosBy(mapInfo, vvNew, N, old)
           /\ mapAddr' = AddrsBy(mapAddr, num)
           /\ vRandom' = [p \in 1 .. Cardinality(Ids) |-> p - 1]
           /\ nTried' = nTried /\ nNew' = nNew
           /\ vvTried' = BucketsBy(vvTried, num)
           /\ vvNew' = BucketsBy(vvNew, num)
           /\ nIdCount' = Cardinality(Ids)
<1> DEFINE N == 0 .. Cardinality(Ids) - 1
           num == [i \in Ids |-> NewId(i)]
           old == [n \in N |-> CHOOSE i \in Kept : NewId(i) = n]
<1>1. /\ mapInfo \in [Ids -> Info]
      /\ DOMAIN mapAddr \subseteq Ips /\ mapAddr \in [DOMAIN mapAddr -> Ids]
      /\ vvTried \in [TriedBuckets -> SUBSET Ids] /\ vvNew \in [NewBuckets -> SUBSET Ids]
  BY DEF IInv, Table, Typed, Ids
<1>2. /\ Kept = Ids
      /\ \A i \in Ids : NewId(i) \in N
      /\ \A i, j \in Ids : NewId(i) = NewId(j) => i = j
      /\ \A n \in N : \E i \in Ids : NewId(i) = n
  BY Renumbering
<1>3. \A n \in N : old[n] \in Ids /\ NewId(old[n]) = n
  BY <1>2
<1>4. \A i \in Ids : num[i] = NewId(i) /\ num[i] \in N /\ old[num[i]] = i
  BY <1>2, <1>3
<1>5. num \in [Ids -> N] /\ old \in [N -> Ids]
  BY <1>2, <1>3
<1>6. Numbers(mapInfo, N, num, old)
  BY <1>3, <1>4, <1>5 DEF Numbers, Ids
<1>7. \A n \in N : (CHOOSE i \in Kept : NewId(i) = n) = old[n]
  OBVIOUS
<1>8. \A i \in Ids : BucketsOf(i) = Holders(vvNew, i)
  BY DEF BucketsOf, Holders
<1>9. mapInfo' = InfosBy(mapInfo, vvNew, N, old)
  <2>1. mapInfo' = [n \in N |->
                      [mapInfo[old[n]] EXCEPT !.nRefCount = Cardinality(BucketsOf(old[n])),
                                              !.nRandomPos = n + 1]]
    <3> DEFINE Entry(n) == CHOOSE i \in Kept : NewId(i) = n
               At(n) == [mapInfo[Entry(n)] EXCEPT
                           !.nRefCount = Cardinality(BucketsOf(Entry(n))),
                           !.nRandomPos = n + 1]
    <3>1. mapInfo' = [n \in 0 .. Cardinality(Kept) - 1 |-> At(n)]
      BY DEF Reload
    <3>2. 0 .. Cardinality(Kept) - 1 = N /\ \A n \in N : Entry(n) = old[n]
      BY <1>2, <1>7
    <3> HIDE DEF Entry, old, N
    <3> QED BY <3>1, <3>2
  <2>2. \A n \in N : BucketsOf(old[n]) = Holders(vvNew, old[n])
    BY <1>3, <1>8
  <2> HIDE DEF old
  <2> QED BY <2>1, <2>2 DEF InfosBy
<1>10. mapAddr' = AddrsBy(mapAddr, num)
  <2>1. /\ \A i \in Ids : /\ Ip[mapInfo[i].addr] \in DOMAIN mapAddr
                          /\ mapAddr[Ip[mapInfo[i].addr]] = i
        /\ \A a \in DOMAIN mapAddr : Ip[mapInfo[mapAddr[a]].addr] = a
    BY DEF IInv, Table, Mapped, Ids
  <2>2. {Ip[mapInfo[i].addr] : i \in Kept} = DOMAIN mapAddr
    <3>1. \A a \in DOMAIN mapAddr : \E i \in Ids : a = Ip[mapInfo[i].addr]
      BY <1>1, <2>1
    <3>2. \A i \in Ids : Ip[mapInfo[i].addr] \in DOMAIN mapAddr
      BY <2>1
    <3>3. {Ip[mapInfo[i].addr] : i \in Ids} = DOMAIN mapAddr
      BY ONLY <3>1, <3>2, Zenon
    <3> QED BY <1>2, <3>3
  <2> DEFINE Entry(n) == CHOOSE i \in Kept : NewId(i) = n
             Place(a) == CHOOSE n \in 0 .. Cardinality(Kept) - 1 :
                          Ip[mapInfo[Entry(n)].addr] = a
  <2>3. mapAddr' = [a \in DOMAIN mapAddr |-> Place(a)]
    <3>1. mapAddr' = [a \in {Ip[mapInfo[i].addr] : i \in Kept} |-> Place(a)]
      BY DEF Reload
    <3> HIDE DEF Place
    <3> QED BY <2>2, <3>1
  <2>4. ASSUME NEW a \in DOMAIN mapAddr
        PROVE  Place(a) = num[mapAddr[a]]
    <3>1. mapAddr[a] \in Ids /\ num[mapAddr[a]] \in N /\ old[num[mapAddr[a]]] = mapAddr[a]
      BY <1>1, <1>4
    <3>2. Ip[mapInfo[old[num[mapAddr[a]]]].addr] = a
      BY <2>1, <3>1
    <3>3. ASSUME NEW n \in N, Ip[mapInfo[old[n]].addr] = a
          PROVE  n = num[mapAddr[a]]
      <4>1. old[n] = mapAddr[a]
        BY <1>3, <2>1, <3>3
      <4> QED BY <1>3, <1>4, <4>1
    <3>4. 0 .. Cardinality(Kept) - 1 = N /\ \A n \in N : Entry(n) = old[n]
      BY <1>2, <1>7
    <3> HIDE DEF old, num, Entry
    <3> QED BY <3>1, <3>2, <3>3, <3>4
  <2> HIDE DEF num, Place
  <2> QED BY <2>3, <2>4 DEF AddrsBy
<1>11. nTried' = nTried
  BY <1>2 DEF Reload, IInv, Table, Numbered, TriedIds, Ids
<1>12. vvTried' = BucketsBy(vvTried, num)
  <2>1. vvTried' = [k \in TriedBuckets |->
                      {n \in N : mapInfo[old[n]].fInTried
                                 /\ TriedBucket[mapInfo[old[n]].addr] = k}]
    <3> DEFINE Entry(n) == CHOOSE i \in Kept : NewId(i) = n
               At(k) == {n \in 0 .. Cardinality(Kept) - 1 :
                           mapInfo[Entry(n)].fInTried
                           /\ TriedBucket[mapInfo[Entry(n)].addr] = k}
    <3>1. vvTried' = [k \in TriedBuckets |-> At(k)]
      BY DEF Reload
    <3>2. 0 .. Cardinality(Kept) - 1 = N /\ \A n \in N : Entry(n) = old[n]
      BY <1>2, <1>7
    <3> HIDE DEF Entry, old, N
    <3>3. \A k \in TriedBuckets :
            At(k) = {n \in N : mapInfo[old[n]].fInTried
                               /\ TriedBucket[mapInfo[old[n]].addr] = k}
      BY <3>2
    <3> HIDE DEF At
    <3> QED BY <3>1, <3>3
  <2>2. ASSUME NEW k \in TriedBuckets
        PROVE  {n \in N : mapInfo[old[n]].fInTried /\ TriedBucket[mapInfo[old[n]].addr] = k}
                 = {num[i] : i \in vvTried[k]}
    <3>1. \A i \in Ids :
            i \in vvTried[k] <=> mapInfo[i].fInTried /\ TriedBucket[mapInfo[i].addr] = k
      BY DEF IInv, Table, Bucketed, Ids
    <3>2. vvTried[k] \subseteq Ids
      BY <1>1
    <3>3. \A n \in N : num[old[n]] = n
      BY <1>3, <1>4
    <3> HIDE DEF num, old
    <3> QED BY <1>3, <1>4, <3>1, <3>2, <3>3
  <2>3. DOMAIN vvTried = TriedBuckets
    BY <1>1
  <2> HIDE DEF num, old
  <2> QED BY <2>1, <2>2, <2>3 DEF BucketsBy
<1>13. vvNew' = BucketsBy(vvNew, num)
  <2>1. DOMAIN vvNew = NewBuckets /\ \A b \in NewBuckets : vvNew[b] \subseteq Ids
    BY <1>1
  <2>2. vvNew' = [b \in NewBuckets |-> {NewId(i) : i \in vvNew[b]}]
    BY DEF Reload
  <2>3. \A b \in NewBuckets : {NewId(i) : i \in vvNew[b]} = {num[i] : i \in vvNew[b]}
    <3>1. \A b \in NewBuckets : \A i \in vvNew[b] : num[i] = NewId(i)
      BY <1>4, <2>1
    <3> HIDE DEF num
    <3> QED BY <3>1
  <2> QED BY <2>1, <2>2, <2>3 DEF BucketsBy
<1>14. /\ vRandom' = [p \in 1 .. Cardinality(Ids) |-> p - 1]
       /\ nNew' = nNew /\ nIdCount' = Cardinality(Ids)
  BY <1>2 DEF Reload
<1> HIDE DEF num, old, N
<1> QED BY <1>6, <1>9, <1>10, <1>11, <1>12, <1>13, <1>14

\* A consistent table with its entries renumbered is consistent.
LEMMA RenumberTable ==
  ASSUME NEW infos, NEW addrs, NEW rnd, NEW nt, NEW nn, NEW vt, NEW vn, NEW idc,
         Table(infos, addrs, rnd, nt, nn, vt, vn, idc, {}),
         NEW N, NEW num, NEW old, Numbers(infos, N, num, old),
         NEW infos2, NEW addrs2, NEW rnd2, NEW vt2, NEW vn2, NEW c,
         c = Cardinality(DOMAIN infos),
         infos2 = InfosBy(infos, vn, N, old), addrs2 = AddrsBy(addrs, num),
         rnd2 = [p \in 1 .. c |-> p - 1],
         vt2 = BucketsBy(vt, num), vn2 = BucketsBy(vn, num)
  PROVE  Table(infos2, addrs2, rnd2, nt, nn, vt2, vn2, c, {})
<1> DEFINE D == DOMAIN infos
<1>1. /\ idc \in Nat /\ D \subseteq 0 .. idc - 1 /\ nt \in Nat /\ nn \in Nat
      /\ infos \in [D -> Info]
      /\ DOMAIN addrs \subseteq Ips /\ addrs \in [DOMAIN addrs -> D]
      /\ rnd \in Seq(D)
      /\ vt \in [TriedBuckets -> SUBSET D] /\ vn \in [NewBuckets -> SUBSET D]
  BY DEF Table, Typed
<1>2. /\ N = 0 .. c - 1 /\ num \in [D -> N] /\ old \in [N -> D]
      /\ \A i \in D : old[num[i]] = i
      /\ \A n \in N : num[old[n]] = n
  BY DEF Numbers
<1>3. /\ IsFiniteSet(D) /\ c \in Nat
      /\ IsFiniteSet(TriedIds(infos)) /\ IsFiniteSet(NewIds(infos))
      /\ \A b \in NewBuckets : IsFiniteSet(vn[b])
      /\ \A k \in TriedBuckets : IsFiniteSet(vt[k])
      /\ \A i : IsFiniteSet(Holders(vn, i)) /\ Cardinality(Holders(vn, i)) \in Nat
  BY <1>1, Finite, FS_CardinalityType
<1>4. ASSUME NEW S \in SUBSET D, IsFiniteSet(S)
      PROVE  Cardinality({num[i] : i \in S}) = Cardinality(S)
  <2>1. \A i, j \in S : num[i] = num[j] => i = j
    BY <1>2
  <2> QED BY <1>4, <2>1, ImageSize
<1>5. /\ DOMAIN infos2 = N
      /\ \A n \in N : /\ infos2[n] \in Info
                      /\ infos2[n].addr = infos[old[n]].addr
                      /\ infos2[n].source = infos[old[n]].source
                      /\ infos2[n].fInTried = infos[old[n]].fInTried
                      /\ infos2[n].nRefCount = Cardinality(Holders(vn, old[n]))
                      /\ infos2[n].nRandomPos = n + 1
  <2>1. ASSUME NEW n \in N
        PROVE  /\ infos2[n] \in Info
               /\ infos2[n].addr = infos[old[n]].addr
               /\ infos2[n].source = infos[old[n]].source
               /\ infos2[n].fInTried = infos[old[n]].fInTried
               /\ infos2[n].nRefCount = Cardinality(Holders(vn, old[n]))
               /\ infos2[n].nRandomPos = n + 1
    <3>1. infos[old[n]] \in Info
      BY <1>1, <1>2
    <3>2. n \in Nat /\ n + 1 \in Nat \ {0} /\ Cardinality(Holders(vn, old[n])) \in Nat
      BY <1>2, <1>3
    <3>3. infos2[n] = [infos[old[n]] EXCEPT !.nRefCount = Cardinality(Holders(vn, old[n])),
                                            !.nRandomPos = n + 1]
      BY DEF InfosBy
    <3> HIDE DEF Holders
    <3> QED BY <3>1, <3>2, <3>3 DEF Info
  <2> QED BY <2>1 DEF InfosBy
<1>6. /\ DOMAIN vn2 = NewBuckets /\ \A b \in NewBuckets : vn2[b] = {num[i] : i \in vn[b]}
      /\ DOMAIN vt2 = TriedBuckets /\ \A k \in TriedBuckets : vt2[k] = {num[i] : i \in vt[k]}
  BY <1>1 DEF BucketsBy
<1>7. /\ \A b \in NewBuckets, i \in D : num[i] \in vn2[b] <=> i \in vn[b]
      /\ \A k \in TriedBuckets, i \in D : num[i] \in vt2[k] <=> i \in vt[k]
  BY <1>1, <1>2, <1>6
<1>8. /\ DOMAIN addrs2 = DOMAIN addrs
      /\ \A a \in DOMAIN addrs : addrs2[a] = num[addrs[a]] /\ addrs2[a] \in N
  BY <1>1, <1>2 DEF AddrsBy
<1>9. rnd2 \in Seq(N) /\ Len(rnd2) = c /\ \A p \in 1 .. c : rnd2[p] = p - 1
  BY <1>2, <1>3
<1>10. Typed(infos2, addrs2, rnd2, nt, nn, vt2, vn2, c)
  <2>1. infos2 \in [DOMAIN infos2 -> Info]
    BY <1>5 DEF InfosBy
  <2>2. addrs2 \in [DOMAIN addrs2 -> N]
    BY <1>8 DEF AddrsBy
  <2>3. vt2 \in [TriedBuckets -> SUBSET N] /\ vn2 \in [NewBuckets -> SUBSET N]
    <3>1. \A b \in NewBuckets : vn2[b] \in SUBSET N
      BY <1>1, <1>2, <1>6
    <3>2. \A k \in TriedBuckets : vt2[k] \in SUBSET N
      BY <1>1, <1>2, <1>6
    <3>3. vt2 = [k \in TriedBuckets |-> vt2[k]] /\ vn2 = [b \in NewBuckets |-> vn2[b]]
      BY <1>6 DEF BucketsBy
    <3> QED BY <3>1, <3>2, <3>3
  <2> QED BY <1>1, <1>2, <1>3, <1>5, <1>8, <1>9, <2>1, <2>2, <2>3 DEF Typed
<1>11. Counted(infos2, vn2, {})
  <2> SUFFICES ASSUME NEW n \in N
               PROVE  /\ infos2[n].nRefCount = Cardinality(Holders(vn2, n)) + 0
                      /\ infos2[n].nRefCount <= ADDRMAN_NEW_BUCKETS_PER_ADDRESS
                      /\ infos2[n].fInTried <=> infos2[n].nRefCount = 0
    BY <1>5 DEF Counted
  <2>1. old[n] \in D /\ num[old[n]] = n
    BY <1>2
  <2>2. Holders(vn2, n) = Holders(vn, old[n])
    BY <1>7, <2>1 DEF Holders
  <2>3. /\ infos[old[n]].nRefCount = Cardinality(Holders(vn, old[n])) + 0
        /\ infos[old[n]].nRefCount <= ADDRMAN_NEW_BUCKETS_PER_ADDRESS
        /\ infos[old[n]].fInTried <=> infos[old[n]].nRefCount = 0
    BY <2>1 DEF Table, Counted
  <2>4. Cardinality(Holders(vn, old[n])) \in Nat
    BY <1>3
  <2> QED BY <1>5, <2>2, <2>3, <2>4
<1>12. Mapped(infos2, addrs2, rnd2)
  <2>1. /\ \A i \in D : Ip[infos[i].addr] \in DOMAIN addrs /\ addrs[Ip[infos[i].addr]] = i
        /\ \A a \in DOMAIN addrs : Ip[infos[addrs[a]].addr] = a
    BY DEF Table, Mapped
  <2>2. ASSUME NEW n \in N
        PROVE  /\ Ip[infos2[n].addr] \in DOMAIN addrs2
               /\ addrs2[Ip[infos2[n].addr]] = n
               /\ infos2[n].nRandomPos \in 1 .. Len(rnd2)
               /\ rnd2[infos2[n].nRandomPos] = n
    <3>1. old[n] \in D /\ num[old[n]] = n
      BY <1>2
    <3>2. Ip[infos2[n].addr] \in DOMAIN addrs /\ addrs[Ip[infos2[n].addr]] = old[n]
      BY <1>5, <2>1, <3>1
    <3>3. n \in Int /\ n + 1 \in 1 .. c /\ n + 1 - 1 = n
      BY <1>2, <1>3
    <3>4. rnd2[n + 1] = n
      BY <1>9, <3>3
    <3> QED BY <1>5, <1>8, <1>9, <3>1, <3>2, <3>3, <3>4
  <2>3. ASSUME NEW a \in DOMAIN addrs
        PROVE  Ip[infos2[addrs2[a]].addr] = a
    <3>1. addrs[a] \in D /\ old[num[addrs[a]]] = addrs[a]
      BY <1>1, <1>2
    <3> QED BY <1>5, <1>8, <2>1, <3>1
  <2>4. ASSUME NEW p \in 1 .. c
        PROVE  infos2[rnd2[p]].nRandomPos = p
    <3>1. rnd2[p] = p - 1 /\ p - 1 \in N
      BY <1>2, <1>3, <1>9
    <3> QED BY <1>3, <1>5, <3>1
  <2> QED BY <1>5, <1>8, <1>9, <2>2, <2>3, <2>4 DEF Mapped
<1>13. Bucketed(infos2, vt2)
  <2> SUFFICES ASSUME NEW n \in N, NEW k \in TriedBuckets
               PROVE  n \in vt2[k] <=> infos2[n].fInTried /\ TriedBucket[infos2[n].addr] = k
    BY <1>5 DEF Bucketed
  <2>1. old[n] \in D /\ num[old[n]] = n
    BY <1>2
  <2>2. old[n] \in vt[k]
          <=> infos[old[n]].fInTried /\ TriedBucket[infos[old[n]].addr] = k
    BY <2>1 DEF Table, Bucketed
  <2> QED BY <1>5, <1>7, <2>1, <2>2
<1>14. Numbered(infos2, rnd2, nt, nn)
  <2>0. /\ \A i \in D : num[i] \in N /\ infos2[num[i]].fInTried = infos[i].fInTried
        /\ \A n \in N : old[n] \in D /\ infos2[n].fInTried = infos[old[n]].fInTried
    BY <1>2, <1>5
  <2>1. TriedIds(infos2) = {num[i] : i \in TriedIds(infos)}
    <3>1. \A n \in TriedIds(infos2) : old[n] \in TriedIds(infos) /\ n = num[old[n]]
      BY <1>2, <1>5, <2>0, Zenon DEF TriedIds
    <3>2. \A i \in TriedIds(infos) : num[i] \in TriedIds(infos2)
      BY <1>5, <2>0, Zenon DEF TriedIds
    <3> QED BY <3>1, <3>2
  <2>2. NewIds(infos2) = {num[i] : i \in NewIds(infos)}
    <3>1. \A n \in NewIds(infos2) : old[n] \in NewIds(infos) /\ n = num[old[n]]
      BY <1>2, <1>5, <2>0, Zenon DEF NewIds
    <3>2. \A i \in NewIds(infos) : num[i] \in NewIds(infos2)
      BY <1>5, <2>0, Zenon DEF NewIds
    <3> QED BY <3>1, <3>2
  <2>3. TriedIds(infos) \in SUBSET D /\ NewIds(infos) \in SUBSET D
    BY DEF TriedIds, NewIds
  <2>4. /\ Cardinality(TriedIds(infos2)) = Cardinality(TriedIds(infos))
        /\ Cardinality(NewIds(infos2)) = Cardinality(NewIds(infos))
    BY <1>3, <1>4, <2>1, <2>2, <2>3
  <2>5. /\ nt = Cardinality(TriedIds(infos)) /\ nn = Cardinality(NewIds(infos))
    BY DEF Table, Numbered
  <2>6. D = TriedIds(infos) \cup NewIds(infos) /\ TriedIds(infos) \cap NewIds(infos) = {}
    BY DEF TriedIds, NewIds
  <2>7. c = nt + nn
    <3>1. Cardinality(TriedIds(infos) \cup NewIds(infos))
            = Cardinality(TriedIds(infos)) + Cardinality(NewIds(infos))
                - Cardinality(TriedIds(infos) \cap NewIds(infos))
      BY <1>3, FS_Union
    <3>2. Cardinality(TriedIds(infos) \cap NewIds(infos)) = 0
      BY <2>6, FS_EmptySet
    <3>3. c = Cardinality(TriedIds(infos) \cup NewIds(infos))
      BY <2>6
    <3>4. Cardinality(TriedIds(infos) \cup NewIds(infos)) = nt + nn - 0
      BY <2>5, <3>1, <3>2
    <3> QED BY ONLY <1>1, <3>3, <3>4
  <2> QED BY <1>9, <2>4, <2>5, <2>7 DEF Numbered
<1>15. Bounded(vt2, vn2)
  <2>1. /\ \A b \in NewBuckets : Cardinality(vn2[b]) = Cardinality(vn[b])
        /\ \A k \in TriedBuckets : Cardinality(vt2[k]) = Cardinality(vt[k])
    BY <1>1, <1>3, <1>4, <1>6
  <2> QED BY <2>1 DEF Table, Bounded
<1> QED BY <1>10, <1>11, <1>12, <1>13, <1>14, <1>15 DEF Table

LEMMA ReloadInv ==
  ASSUME IInv, Reload
  PROVE  IInv'
<1>1. PICK N, num, old :
        /\ Numbers(mapInfo, N, num, old)
        /\ mapInfo' = InfosBy(mapInfo, vvNew, N, old)
        /\ mapAddr' = AddrsBy(mapAddr, num)
        /\ vRandom' = [p \in 1 .. Cardinality(Ids) |-> p - 1]
        /\ nTried' = nTried /\ nNew' = nNew
        /\ vvTried' = BucketsBy(vvTried, num)
        /\ vvNew' = BucketsBy(vvNew, num)
        /\ nIdCount' = Cardinality(Ids)
  BY ReloadRenumbers
<1>2. Table(mapInfo', mapAddr', vRandom', nTried, nNew, vvTried', vvNew', nIdCount', {})
  BY <1>1, RenumberTable DEF IInv, Ids
<1> QED BY <1>1, <1>2 DEF IInv

LEMMA StepInv == IInv /\ [Next]_vars => IInv'
BY NextInv, ReloadInv DEF Next

\* The table read is the table written: the same addresses, in the same buckets.
LEMMA ReloadKnown ==
  ASSUME IInv, Reload, NEW a \in Ips
  PROVE  Known(a)' = Known(a)
<1>1. PICK N, num, old :
        /\ Numbers(mapInfo, N, num, old)
        /\ mapInfo' = InfosBy(mapInfo, vvNew, N, old)
        /\ mapAddr' = AddrsBy(mapAddr, num)
        /\ vvTried' = BucketsBy(vvTried, num)
        /\ vvNew' = BucketsBy(vvNew, num)
  BY ReloadRenumbers
<1>2. DOMAIN mapAddr' = DOMAIN mapAddr
  BY <1>1 DEF AddrsBy
<1>3. CASE a \notin DOMAIN mapAddr
  BY <1>2, <1>3 DEF Known
<1>4. CASE a \in DOMAIN mapAddr
  <2> DEFINE i == mapAddr[a]
             n == num[i]
  <2>1. /\ mapInfo \in [Ids -> Info] /\ i \in Ids
        /\ vvTried \in [TriedBuckets -> SUBSET Ids] /\ vvNew \in [NewBuckets -> SUBSET Ids]
    BY <1>4 DEF IInv, Table, Typed, Ids
  <2>2. /\ num \in [Ids -> N] /\ old \in [N -> Ids]
        /\ \A j \in Ids : old[num[j]] = j
    BY <1>1 DEF Numbers, Ids
  <2>3. n \in N /\ old[n] = i
    BY <2>1, <2>2
  <2>4. mapAddr'[a] = n
    BY <1>1, <1>4 DEF AddrsBy
  <2>5. /\ mapInfo'[n].addr = mapInfo[i].addr /\ mapInfo'[n].source = mapInfo[i].source
        /\ mapInfo'[n].fInTried = mapInfo[i].fInTried
    <3>1. mapInfo'[n] = [mapInfo[i] EXCEPT !.nRefCount = Cardinality(Holders(vvNew, i)),
                                           !.nRandomPos = n + 1]
      BY <1>1, <2>3 DEF InfosBy
    <3>2. mapInfo[i] \in Info
      BY <2>1
    <3> QED BY <3>1, <3>2 DEF Info
  <2>6. ASSUME NEW vv, NEW B, vv \in [B -> SUBSET Ids], NEW b \in B
        PROVE  n \in BucketsBy(vv, num)[b] <=> i \in vv[b]
    <3>1. BucketsBy(vv, num)[b] = {num[j] : j \in vv[b]} /\ vv[b] \subseteq Ids
      BY <2>6 DEF BucketsBy
    <3> QED BY <2>1, <2>2, <3>1
  <2>7. \A b \in NewBuckets : n \in vvNew'[b] <=> i \in vvNew[b]
    BY <1>1, <2>1, <2>6
  <2>8. \A k \in TriedBuckets : n \in vvTried'[k] <=> i \in vvTried[k]
    BY <1>1, <2>1, <2>6
  <2>9. {b \in NewBuckets : n \in vvNew'[b]} = {b \in NewBuckets : i \in vvNew[b]}
    BY <2>7
  <2>10. {k \in TriedBuckets : n \in vvTried'[k]} = {k \in TriedBuckets : i \in vvTried[k]}
    BY <2>8
  <2> QED BY <1>2, <1>4, <2>4, <2>5, <2>9, <2>10 DEF Known, BucketsOf
<1> QED BY <1>3, <1>4

-----------------------------------------------------------------------------
\* The consistency check of the code, CAddrMan::Check_, finds nothing after any
\* sequence of Add_, Good_, GetAddr_ and restarts, no number is used without an
\* entry, and no bucket outgrows its size, for any number of addresses and
\* buckets and any bucket sizes.
THEOREM TableConsistent ==
  Spec => [](TypeOK /\ CheckEntries /\ CheckTried /\ CheckCounts /\ BucketsBounded)
<1> QED BY InitInv, StepInv, InvConsistent, PTL DEF Spec

\* An address in the tried table is never forgotten: making room in a new bucket
\* or in a tried one never erases it, and reading peers.dat finds room for it.
THEOREM TriedNeverForgotten == Spec => TriedKept
<1>1. IInv /\ [Next]_vars =>
        [\A i \in Ids : mapInfo[i].fInTried => Ip[mapInfo[i].addr] \in DOMAIN mapAddr']_vars
  <2> SUFFICES ASSUME IInv, [Next]_vars, NEW i \in Ids, mapInfo[i].fInTried
               PROVE  Ip[mapInfo[i].addr] \in DOMAIN mapAddr'
    OBVIOUS
  <2>1. CASE [Operation]_vars
    BY <2>1, TriedKeptStep
  <2>2. CASE Reload
    <3>1. DOMAIN mapAddr' = DOMAIN mapAddr
      BY <2>2, ReloadRenumbers DEF AddrsBy
    <3>2. Ip[mapInfo[i].addr] \in DOMAIN mapAddr
      BY DEF IInv, Table, Mapped, Ids
    <3> QED BY <3>1, <3>2
  <2> QED BY <2>1, <2>2 DEF Next
<1> QED BY <1>1, InitInv, StepInv, PTL DEF Spec, TriedKept

\* What is written to peers.dat and read back is the same table, whatever has
\* been added, tried, thrown out and shuffled before: every address is known by
\* the same port and source and is in the same buckets.
THEOREM ReloadFaithful == Spec => ReloadSame
<1>1. IInv /\ [Next]_vars => [Reload => \A a \in Ips : Known(a)' = Known(a)]_vars
  BY ReloadKnown
<1> QED BY <1>1, InitInv, StepInv, PTL DEF Spec, ReloadSame
=============================================================================
