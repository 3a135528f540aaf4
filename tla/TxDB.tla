--------------------------------- MODULE TxDB ---------------------------------
(***************************************************************************)
(* CTxDB over LevelDB.  Every CTxDB object is a handle on the one global   *)
(* database with a WriteBatch of its own: a log of puts and deletes, which *)
(* Read scans from end to end before it asks the database.                 *)
(*                                                                         *)
(* Handles live on several threads: the block chain code's, under cs_main, *)
(* and those the wallet, the miner and the RPC calls open.                 *)
(***************************************************************************)
EXTENDS Integers, Sequences

CONSTANTS
    Keys, Values, Nil,
    Handles,       \* CTxDB objects
    Writers,       \* those not opened in mode "r"
    ExistsInTxn,   \* whether Exists is called on a handle in a transaction
    MaxBatch       \* bound on the changes of one transaction

ASSUME TxDBAssumption ==
  /\ Nil \notin Values /\ "untouched" \notin Values \cup {Nil}
  /\ Writers \in SUBSET Handles
  /\ ExistsInTxn \in BOOLEAN
  /\ MaxBatch \in Nat

VARIABLES
    db,            \* LevelDB
    inTxn,         \* handles whose activeBatch is not NULL
    activeBatch,   \* the batch of each handle
    answer         \* the last answer given

vars == <<db, inTxn, activeBatch, answer>>

\* WriteBatch::Put and Delete; a delete has the value Nil.
Op == [key : Keys, value : Values \cup {Nil}]

Answer == [handle : Handles, key : Keys, value : Values \cup {Nil}]
            \cup [handle : Handles, key : Keys, exists : BOOLEAN]

\* The database holds values, a batch puts and deletes, and an answer is a
\* value, a truth value or none yet.
TypeOK ==
  /\ db \in [Keys -> Values \cup {Nil}]
  /\ inTxn \in SUBSET Handles
  /\ activeBatch \in [Handles -> Seq(Op)]
  /\ answer \in Answer \cup {Nil}

-----------------------------------------------------------------------------
\* The entries of batch b for key k.
Hits(b, k) == {i \in DOMAIN b : b[i].key = k}

\* CBatchScanner goes over the whole batch and every entry for the key
\* overwrites what the ones before it said: the last one stays.
ScanBatch(b, k) == CHOOSE i \in Hits(b, k) : \A j \in Hits(b, k) : j <= i

\* pdb->Write: LevelDB applies a batch in order, all of it or nothing.
Written(d, b) ==
  [k \in Keys |->
     IF Hits(b, k) = {} THEN d[k]
     ELSE b[CHOOSE i \in Hits(b, k) : \A j \in Hits(b, k) : j <= i].value]

\* Mutant of Found: a delete in the batch falls through to the database.
FoundPastDelete(h, k) ==
  IF Hits(activeBatch[h], k) = {}
    \/ activeBatch[h][ScanBatch(activeBatch[h], k)].value = Nil
  THEN db[k]
  ELSE activeBatch[h][ScanBatch(activeBatch[h], k)].value

\* Read: the batch first, a delete in it ends the search, then the database.
Found(h, k) ==
  IF Hits(activeBatch[h], k) = {} THEN db[k]
  ELSE activeBatch[h][ScanBatch(activeBatch[h], k)].value

\* Exists: a put that is last in the batch answers yes; anything else,
\* a delete included, leaves the answer to the database.
FoundExists(h, k) ==
  \/ /\ Hits(activeBatch[h], k) # {}
     /\ activeBatch[h][ScanBatch(activeBatch[h], k)].value # Nil
  \/ db[k] # Nil

-----------------------------------------------------------------------------
\* TxnBegin asserts only that there is no batch; a handle in mode "r" may call
\* it, and only its writes are refused.
TxnBegin(h) ==
  /\ h \notin inTxn
  /\ inTxn' = inTxn \cup {h}
  /\ activeBatch' = [activeBatch EXCEPT ![h] = <<>>]
  /\ UNCHANGED <<db, answer>>

\* Write, and Erase with x = Nil.
Write(h, k, x) ==
  /\ h \in Writers
  /\ IF h \in inTxn
     THEN /\ Len(activeBatch[h]) < MaxBatch
          /\ activeBatch' = [activeBatch EXCEPT
               ![h] = Append(@, [key |-> k, value |-> x])]
          /\ UNCHANGED db
     ELSE /\ db' = [db EXCEPT ![k] = x]
          /\ UNCHANGED activeBatch
  /\ UNCHANGED <<inTxn, answer>>

Read(h, k) ==
  /\ answer' = [handle |-> h, key |-> k, value |-> Found(h, k)]
  /\ UNCHANGED <<db, inTxn, activeBatch>>

\* The callers (ContainsTx in accept, AcceptableInputs, the inventory and the
\* wallet, and the constructor) ask on handles outside a transaction.
Exists(h, k) ==
  /\ h \in inTxn => ExistsInTxn
  /\ answer' = [handle |-> h, key |-> k, exists |-> FoundExists(h, k)]
  /\ UNCHANGED <<db, inTxn, activeBatch>>

CloseBatch(h) ==
  /\ inTxn' = inTxn \ {h}
  /\ activeBatch' = [activeBatch EXCEPT ![h] = <<>>]

TxnCommit(h) ==
  /\ h \in inTxn
  /\ db' = Written(db, activeBatch[h])
  /\ CloseBatch(h)
  /\ UNCHANGED answer

\* LevelDB reports an error: TxnCommit drops the batch and returns false.
\* TxnAbort and the destructor do the same.
TxnAbort(h) ==
  /\ CloseBatch(h)
  /\ UNCHANGED <<db, answer>>

Crash ==
  /\ inTxn' = {}
  /\ activeBatch' = [h \in Handles |-> <<>>]
  /\ answer' = Nil
  /\ UNCHANGED db

Init ==
  /\ db = [k \in Keys |-> Nil]
  /\ inTxn = {}
  /\ activeBatch = [h \in Handles |-> <<>>]
  /\ answer = Nil

Next ==
  \/ \E h \in Handles :
       \/ TxnBegin(h) \/ TxnCommit(h) \/ TxnAbort(h)
       \/ \E k \in Keys :
            \/ Read(h, k) \/ Exists(h, k)
            \/ \E x \in Values \cup {Nil} : Write(h, k, x)
  \/ Crash

Spec == Init /\ [][Next]_vars

-----------------------------------------------------------------------------
\* What the log of a handle adds up to, key by key.
PendingOf(b) ==
  [k \in Keys |->
     IF Hits(b, k) = {} THEN "untouched" ELSE b[ScanBatch(b, k)].value]

Store == INSTANCE TxnStore
           WITH open <- inTxn,
                pending <- [h \in Handles |-> PendingOf(activeBatch[h])]

\* CTxDB is a transactional store: "once a database transaction begins reads
\* are consistent with it" (ScanBatch), no other handle sees it before the
\* commit, and the commit shows all of it at once.
Transactional == Store!Spec
=============================================================================
