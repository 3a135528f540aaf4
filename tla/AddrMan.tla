------------------------------- MODULE AddrMan -------------------------------
(***************************************************************************)
(* CAddrMan, the table of peer addresses: entries under a number (nId), a  *)
(* map from network address to number, a random order of the numbers, and  *)
(* the buckets: an address not tried yet is in one or more new buckets, a  *)
(* tried one in exactly one tried bucket.  Every operation holds cs and is *)
(* one step.                                                               *)
(*                                                                         *)
(* Times and attempt counts only choose which entry goes when a bucket is  *)
(* full (IsTerrible, the oldest of four) and whether Add_ has news; those  *)
(* choices are left open here, so Attempt_ and Connected_, which change    *)
(* nothing else, are not steps.  The order inside a tried bucket only      *)
(* feeds SelectTried's random choice: buckets are sets.                    *)
(***************************************************************************)
EXTENDS Integers, Sequences, FiniteSets

CONSTANTS
    Services,      \* CService: a network address with a port
    Ips,           \* CNetAddr
    Ip,            \* the network address of a service
    Sources,       \* the peers addresses come from
    NewBuckets, TriedBuckets,
    NewBucket,     \* GetNewBucket(nKey, src) of a service and a source
    TriedBucket,   \* GetTriedBucket(nKey) of a service
    ADDRMAN_NEW_BUCKET_SIZE, ADDRMAN_TRIED_BUCKET_SIZE,
    ADDRMAN_NEW_BUCKETS_PER_ADDRESS,
    ADDRMAN_GETADDR_MAX_PCT, ADDRMAN_GETADDR_MAX,
    MaxId          \* bound on nIdCount

ASSUME AddrManAssumption ==
  /\ Ip \in [Services -> Ips]
  /\ NewBucket \in [Services \X Sources -> NewBuckets]
  /\ TriedBucket \in [Services -> TriedBuckets]
  /\ IsFiniteSet(NewBuckets)
  /\ ADDRMAN_NEW_BUCKET_SIZE \in Nat \ {0}
  /\ ADDRMAN_TRIED_BUCKET_SIZE \in Nat \ {0}
  /\ ADDRMAN_NEW_BUCKETS_PER_ADDRESS \in Nat \ {0}
  /\ ADDRMAN_GETADDR_MAX_PCT \in Nat /\ ADDRMAN_GETADDR_MAX \in Nat
  /\ MaxId \in Nat

VARIABLES mapInfo, mapAddr, vRandom, nTried, nNew, vvTried, vvNew, nIdCount

vars == <<mapInfo, mapAddr, vRandom, nTried, nNew, vvTried, vvNew, nIdCount>>

\* CAddrInfo.  nRandomPos starts at 1 here.
Info == [addr : Services, source : Sources, nRefCount : Nat, fInTried : BOOLEAN,
         nRandomPos : Nat \ {0}]

Ids == DOMAIN mapInfo

\* The new buckets that hold entry i.
BucketsOf(i) == {b \in NewBuckets : i \in vvNew[b]}

\* Every number that is used anywhere has an entry.
TypeOK ==
  /\ nIdCount \in Nat /\ nTried \in Nat /\ nNew \in Nat
  /\ Ids \subseteq 0 .. nIdCount - 1
  /\ mapInfo \in [Ids -> Info]
  /\ DOMAIN mapAddr \subseteq Ips
  /\ mapAddr \in [DOMAIN mapAddr -> Ids]
  /\ vRandom \in Seq(Ids)
  /\ vvTried \in [TriedBuckets -> SUBSET Ids]
  /\ vvNew \in [NewBuckets -> SUBSET Ids]

-----------------------------------------------------------------------------
\* The entry of a service that has this very port.
Find(s) == Ip[s] \in DOMAIN mapAddr /\ mapInfo[mapAddr[Ip[s]]].addr = s

\* vRandom after SwapRandom(p, vRandom.size()-1) and pop_back().
SwapOut(rnd, p) == [j \in 1 .. Len(rnd) - 1 |-> rnd[IF j = p THEN Len(rnd) ELSE j]]

\* The entries after v is erased: the last of vRandom takes its place there.
Erased(infos, rnd, v) ==
  [i \in DOMAIN infos \ {v} |->
     IF i = rnd[Len(rnd)] THEN [infos[i] EXCEPT !.nRandomPos = infos[v].nRandomPos]
     ELSE infos[i]]

\* Mutant of ShrinkNew: the address is forgotten however many buckets hold it.
ShrinkNewForgets(id, b, infos, addrs, rnd, new) ==
  \E v \in vvNew[b] :
    /\ vvNew' = [vvNew EXCEPT ![b] = (@ \ {v}) \cup {id}]
    /\ mapInfo' = Erased(infos, rnd, v)
    /\ vRandom' = SwapOut(rnd, infos[v].nRandomPos)
    /\ mapAddr' = [a \in DOMAIN addrs \ {Ip[infos[v].addr]} |-> addrs[a]]
    /\ nNew' = new - 1

\* Mutant of ShrinkNew: nNew is not counted down.
ShrinkNewUncounted(id, b, infos, addrs, rnd, new) ==
  \E v \in vvNew[b] :
    /\ vvNew' = [vvNew EXCEPT ![b] = (@ \ {v}) \cup {id}]
    /\ IF infos[v].nRefCount = 1
       THEN /\ mapInfo' = Erased(infos, rnd, v)
            /\ vRandom' = SwapOut(rnd, infos[v].nRandomPos)
            /\ mapAddr' = [a \in DOMAIN addrs \ {Ip[infos[v].addr]} |-> addrs[a]]
       ELSE /\ mapInfo' = [infos EXCEPT ![v].nRefCount = @ - 1]
            /\ vRandom' = rnd /\ mapAddr' = addrs
    /\ nNew' = new

\* ShrinkNew makes room for id in the full bucket b: one entry leaves the
\* bucket and, if it is in no other, is erased.
ShrinkNew(id, b, infos, addrs, rnd, new) ==
  \E v \in vvNew[b] :
    /\ vvNew' = [vvNew EXCEPT ![b] = (@ \ {v}) \cup {id}]
    /\ IF infos[v].nRefCount = 1
       THEN /\ mapInfo' = Erased(infos, rnd, v)
            /\ vRandom' = SwapOut(rnd, infos[v].nRandomPos)
            /\ mapAddr' = [a \in DOMAIN addrs \ {Ip[infos[v].addr]} |-> addrs[a]]
            /\ nNew' = new - 1
       ELSE /\ mapInfo' = [infos EXCEPT ![v].nRefCount = @ - 1]
            /\ vRandom' = rnd /\ mapAddr' = addrs /\ nNew' = new

\* The end of Add_: id, counted already in infos, goes into bucket b.
InsertNew(id, b, infos, addrs, rnd, new) ==
  IF Cardinality(vvNew[b]) = ADDRMAN_NEW_BUCKET_SIZE
  THEN ShrinkNew(id, b, infos, addrs, rnd, new)
  ELSE /\ vvNew' = [vvNew EXCEPT ![b] = @ \cup {id}]
       /\ mapInfo' = infos /\ vRandom' = rnd /\ mapAddr' = addrs /\ nNew' = new

\* Add_ of an address that is not known: Create, and into its bucket.
AddUnknown(s, src) ==
  /\ Ip[s] \notin DOMAIN mapAddr
  /\ nIdCount < MaxId
  /\ nIdCount' = nIdCount + 1
  /\ LET info == [addr |-> s, source |-> src, nRefCount |-> 1, fInTried |-> FALSE,
                  nRandomPos |-> Len(vRandom) + 1]
     IN  InsertNew(nIdCount, NewBucket[s, src],
                   [i \in Ids \cup {nIdCount} |->
                      IF i = nIdCount THEN info ELSE mapInfo[i]],
                   [a \in DOMAIN mapAddr \cup {Ip[s]} |->
                      IF a = Ip[s] THEN nIdCount ELSE mapAddr[a]],
                   Append(vRandom, nIdCount), nNew + 1)
  /\ UNCHANGED <<nTried, vvTried>>

\* Mutant of AddKnown: no test for the tried table.
AddKnownTried(s, src) ==
  /\ Ip[s] \in DOMAIN mapAddr
  /\ LET id == mapAddr[Ip[s]]
         b == NewBucket[mapInfo[id].addr, src]
     IN  /\ mapInfo[id].nRefCount # ADDRMAN_NEW_BUCKETS_PER_ADDRESS
         /\ id \notin vvNew[b]
         /\ InsertNew(id, b, [mapInfo EXCEPT ![id].nRefCount = @ + 1],
                      mapAddr, vRandom, nNew)
  /\ UNCHANGED <<nTried, vvTried, nIdCount>>

\* Add_ of a known address that brings news and passes the stochastic test.
\* The entry keeps its own port and source.
AddKnown(s, src) ==
  /\ Ip[s] \in DOMAIN mapAddr
  /\ LET id == mapAddr[Ip[s]]
         b == NewBucket[mapInfo[id].addr, src]
     IN  /\ ~mapInfo[id].fInTried
         /\ mapInfo[id].nRefCount # ADDRMAN_NEW_BUCKETS_PER_ADDRESS
         /\ id \notin vvNew[b]
         /\ InsertNew(id, b, [mapInfo EXCEPT ![id].nRefCount = @ + 1],
                      mapAddr, vRandom, nNew)
  /\ UNCHANGED <<nTried, vvTried, nIdCount>>

\* "remove the entry from all new buckets"
OutOfNew(id) == [b \in NewBuckets |-> vvNew[b] \ {id}]

\* MakeTried when there is room in the tried bucket.
MakeTriedRoom(id) ==
  LET k == TriedBucket[mapInfo[id].addr] IN
  /\ Cardinality(vvTried[k]) < ADDRMAN_TRIED_BUCKET_SIZE
  /\ vvNew' = OutOfNew(id)
  /\ vvTried' = [vvTried EXCEPT ![k] = @ \cup {id}]
  /\ mapInfo' = [mapInfo EXCEPT ![id].nRefCount = 0, ![id].fInTried = TRUE]
  /\ nNew' = nNew - 1
  /\ nTried' = nTried + 1
  /\ UNCHANGED <<mapAddr, vRandom>>

\* Mutant of BackTo: always to the bucket the old entry belongs in.
BackToOwn(old, id, origin) == NewBucket[mapInfo[old].addr, mapInfo[old].source]

\* The new bucket for the entry old that id throws out: its own, or the one
\* that id was found in ("there is certainly place there").
BackTo(old, id, origin) ==
  LET b == NewBucket[mapInfo[old].addr, mapInfo[old].source]
  IN  IF Cardinality(OutOfNew(id)[b]) < ADDRMAN_NEW_BUCKET_SIZE THEN b ELSE origin

\* Mutant of MakeTriedEvict: the old entry goes nowhere.
MakeTriedForgets(id, origin) ==
  LET k == TriedBucket[mapInfo[id].addr] IN
  /\ Cardinality(vvTried[k]) >= ADDRMAN_TRIED_BUCKET_SIZE
  /\ \E old \in vvTried[k] :
       /\ vvNew' = OutOfNew(id)
       /\ vvTried' = [vvTried EXCEPT ![k] = (@ \ {old}) \cup {id}]
       /\ mapInfo' = [Erased(mapInfo, vRandom, old)
                        EXCEPT ![id].nRefCount = 0, ![id].fInTried = TRUE]
       /\ mapAddr' = [a \in DOMAIN mapAddr \ {Ip[mapInfo[old].addr]} |-> mapAddr[a]]
       /\ vRandom' = SwapOut(vRandom, mapInfo[old].nRandomPos)
  /\ nNew' = nNew - 1
  /\ UNCHANGED nTried

\* Mutant of MakeTriedEvict: the old entry still says that it is tried.
MakeTriedKeepsFlag(id, origin) ==
  LET k == TriedBucket[mapInfo[id].addr] IN
  /\ Cardinality(vvTried[k]) >= ADDRMAN_TRIED_BUCKET_SIZE
  /\ \E old \in vvTried[k] :
       /\ vvNew' = [OutOfNew(id) EXCEPT ![BackTo(old, id, origin)] = @ \cup {old}]
       /\ vvTried' = [vvTried EXCEPT ![k] = (@ \ {old}) \cup {id}]
       /\ mapInfo' = [mapInfo EXCEPT ![id].nRefCount = 0, ![id].fInTried = TRUE,
                                     ![old].nRefCount = 1]
  /\ UNCHANGED <<nNew, nTried, mapAddr, vRandom>>

\* MakeTried when the tried bucket is full: some entry of it goes back.
MakeTriedEvict(id, origin) ==
  LET k == TriedBucket[mapInfo[id].addr] IN
  /\ Cardinality(vvTried[k]) >= ADDRMAN_TRIED_BUCKET_SIZE
  /\ \E old \in vvTried[k] :
       /\ vvNew' = [OutOfNew(id) EXCEPT ![BackTo(old, id, origin)] = @ \cup {old}]
       /\ vvTried' = [vvTried EXCEPT ![k] = (@ \ {old}) \cup {id}]
       /\ mapInfo' = [mapInfo EXCEPT ![id].nRefCount = 0, ![id].fInTried = TRUE,
                                     ![old].nRefCount = 1, ![old].fInTried = FALSE]
  /\ UNCHANGED <<nNew, nTried, mapAddr, vRandom>>

\* Good_ of an address that is not tried, found in the bucket origin.
Good(s, origin) ==
  /\ Find(s)
  /\ LET id == mapAddr[Ip[s]] IN
       /\ ~mapInfo[id].fInTried
       /\ id \in vvNew[origin]
       /\ MakeTriedRoom(id) \/ MakeTriedEvict(id, origin)
  /\ UNCHANGED nIdCount

\* The number of entries GetAddr_ returns and moves to the front of vRandom.
nNodes ==
  LET n == (ADDRMAN_GETADDR_MAX_PCT * Len(vRandom)) \div 100
  IN  IF n > ADDRMAN_GETADDR_MAX THEN ADDRMAN_GETADDR_MAX ELSE n

\* GetAddr_ shuffles vRandom by SwapRandom; f says where each entry ends.  Any
\* order is allowed, also of the entries behind the first nNodes.
GetAddr ==
  /\ nNodes > 0
  /\ \E f \in [1 .. Len(vRandom) -> 1 .. Len(vRandom)] :
       /\ \A i, j \in 1 .. Len(vRandom) : f[i] = f[j] => i = j
       /\ mapInfo' = [i \in Ids |-> [mapInfo[i] EXCEPT !.nRandomPos = f[@]]]
       /\ vRandom' \in [1 .. Len(vRandom) -> Ids]
       /\ \A p \in 1 .. Len(vRandom) : vRandom'[f[p]] = vRandom[p]
  /\ UNCHANGED <<mapAddr, nTried, nNew, vvTried, vvNew, nIdCount>>

-----------------------------------------------------------------------------
(***************************************************************************)
(* Writing peers.dat and reading it back.  The file has the new entries,   *)
(* the tried entries and the new buckets; all else is made anew.           *)
(***************************************************************************)

\* A tried entry finds its bucket full: ids are read in ascending order.
Lost(i) ==
  /\ mapInfo[i].fInTried
  /\ Cardinality({j \in Ids : /\ j < i /\ mapInfo[j].fInTried
                              /\ TriedBucket[mapInfo[j].addr]
                                   = TriedBucket[mapInfo[i].addr]})
       >= ADDRMAN_TRIED_BUCKET_SIZE

Kept == {i \in Ids : ~Lost(i)}

\* The number an entry gets: new entries first, then the tried ones.
NewId(i) ==
  Cardinality({j \in Kept : IF mapInfo[i].fInTried = mapInfo[j].fInTried
                            THEN j < i ELSE mapInfo[i].fInTried})

\* Mutant of Reload: new buckets refer to positions in the map of all entries.
ReloadUnmapped ==
  LET Old(n) == CHOOSE i \in Kept : NewId(i) = n
      N == 0 .. Cardinality(Kept) - 1
  IN
  /\ mapInfo' = [n \in N |->
                   [mapInfo[Old(n)] EXCEPT
                      !.nRefCount = Cardinality(BucketsOf(Old(n))),
                      !.nRandomPos = n + 1]]
  /\ mapAddr' = [a \in {Ip[mapInfo[i].addr] : i \in Kept} |->
                   CHOOSE n \in N : Ip[mapInfo[Old(n)].addr] = a]
  /\ vRandom' = [p \in 1 .. Cardinality(Kept) |-> p - 1]
  /\ nTried' = Cardinality({i \in Kept : mapInfo[i].fInTried})
  /\ nNew' = nNew
  /\ vvTried' = [k \in TriedBuckets |->
                   {n \in N : mapInfo[Old(n)].fInTried
                              /\ TriedBucket[mapInfo[Old(n)].addr] = k}]
  /\ vvNew' = [b \in NewBuckets |->
                 {Cardinality({j \in Ids : j < i}) : i \in vvNew[b]}]
  /\ nIdCount' = Cardinality(Kept)

\* DumpAddresses, a restart, and the table read from peers.dat.
Reload ==
  LET Old(n) == CHOOSE i \in Kept : NewId(i) = n
      N == 0 .. Cardinality(Kept) - 1
  IN
  /\ mapInfo' = [n \in N |->
                   [mapInfo[Old(n)] EXCEPT
                      !.nRefCount = Cardinality(BucketsOf(Old(n))),
                      !.nRandomPos = n + 1]]
  /\ mapAddr' = [a \in {Ip[mapInfo[i].addr] : i \in Kept} |->
                   CHOOSE n \in N : Ip[mapInfo[Old(n)].addr] = a]
  /\ vRandom' = [p \in 1 .. Cardinality(Kept) |-> p - 1]
  /\ nTried' = Cardinality({i \in Kept : mapInfo[i].fInTried})
  /\ nNew' = nNew
  /\ vvTried' = [k \in TriedBuckets |->
                   {n \in N : mapInfo[Old(n)].fInTried
                              /\ TriedBucket[mapInfo[Old(n)].addr] = k}]
  /\ vvNew' = [b \in NewBuckets |-> {NewId(i) : i \in vvNew[b]}]
  /\ nIdCount' = Cardinality(Kept)

Init ==
  /\ mapInfo = [i \in {} |-> {}] /\ mapAddr = [a \in {} |-> {}]
  /\ vRandom = <<>>
  /\ nTried = 0 /\ nNew = 0
  /\ vvTried = [k \in TriedBuckets |-> {}]
  /\ vvNew = [b \in NewBuckets |-> {}]
  /\ nIdCount = 0

\* The operations of a running node.
Operation ==
  \/ \E s \in Services, src \in Sources : AddUnknown(s, src) \/ AddKnown(s, src)
  \/ \E s \in Services, origin \in NewBuckets : Good(s, origin)
  \/ GetAddr

Next == Operation \/ Reload

Spec == Init /\ [][Next]_vars

-----------------------------------------------------------------------------
\* Check_() returns 0, what it says of the entries: a tried entry is in no new
\* bucket, any other in as many as its count says and at least in one, and
\* mapAddr and vRandom lead back to it.
CheckEntries ==
  \A i \in Ids :
    /\ mapInfo[i].nRefCount = Cardinality(BucketsOf(i))
    /\ mapInfo[i].nRefCount <= ADDRMAN_NEW_BUCKETS_PER_ADDRESS
    /\ mapInfo[i].fInTried <=> mapInfo[i].nRefCount = 0
    /\ Ip[mapInfo[i].addr] \in DOMAIN mapAddr
    /\ mapAddr[Ip[mapInfo[i].addr]] = i
    /\ mapInfo[i].nRandomPos \in DOMAIN vRandom
    /\ vRandom[mapInfo[i].nRandomPos] = i

\* Check_(), what it says of the tried buckets: a tried entry is in exactly
\* one, which is the one it is put back into when peers.dat is read.
CheckTried ==
  \A i \in Ids, k \in TriedBuckets :
    i \in vvTried[k] <=> mapInfo[i].fInTried /\ TriedBucket[mapInfo[i].addr] = k

\* Check_(), the counts: they are what Select_ draws from, and with a wrong one
\* it looks for an address for ever.
CheckCounts ==
  /\ nTried = Cardinality({i \in Ids : mapInfo[i].fInTried})
  /\ nNew = Cardinality({i \in Ids : ~mapInfo[i].fInTried})
  /\ Len(vRandom) = nTried + nNew

\* "Only keep a limited number of addresses around": no bucket grows beyond its
\* size, also when a tried entry is thrown out into a new bucket.
BucketsBounded ==
  /\ \A b \in NewBuckets : Cardinality(vvNew[b]) <= ADDRMAN_NEW_BUCKET_SIZE
  /\ \A k \in TriedBuckets : Cardinality(vvTried[k]) <= ADDRMAN_TRIED_BUCKET_SIZE

\* What is known of a network address, its number aside.
Known(a) ==
  IF a \notin DOMAIN mapAddr THEN <<>>
  ELSE LET i == mapAddr[a] IN
       <<mapInfo[i].addr, mapInfo[i].source, mapInfo[i].fInTried, BucketsOf(i),
         {k \in TriedBuckets : i \in vvTried[k]}>>

\* A tried address is never forgotten: "They are never deleted while in the
\* tried table, only possibly evicted back to the new table."
TriedKept ==
  [][\A i \in Ids : mapInfo[i].fInTried => Ip[mapInfo[i].addr] \in DOMAIN mapAddr']_vars

\* What is written to peers.dat and read back is the same table: every address
\* is in the buckets it was in, although all numbers change.
ReloadSame == [][Reload => \A a \in Ips : Known(a)' = Known(a)]_vars
=============================================================================
