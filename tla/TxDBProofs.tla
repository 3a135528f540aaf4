------------------------------ MODULE TxDBProofs ------------------------------
(***************************************************************************)
(* CTxDB implements a transactional store, for any records, handles and    *)
(* batch sizes.                                                            *)
(***************************************************************************)
EXTENDS TxDB, WellFoundedInduction, TLAPS

\* A handle outside a transaction has an empty batch.
TxDBInv ==
  /\ TypeOK
  /\ \A h \in Handles \ inTxn : activeBatch[h] = <<>>

\* A batch that has entries for a key has a last one.
LEMMA LastHit ==
  ASSUME NEW b \in Seq(Op), NEW k \in Keys, Hits(b, k) # {}
  PROVE  ScanBatch(b, k) \in Hits(b, k) /\ ScanBatch(b, k) \in 1 .. Len(b)
<1> DEFINE H == Hits(b, k)
           T == {n \in Nat : Len(b) - n \in H}
<1>1. Len(b) \in Nat /\ H \subseteq 1 .. Len(b)
  BY DEF Hits
<1> HIDE DEF H
<1>2. T \subseteq Nat /\ T # {}
  <2>1. PICK i \in H : TRUE
    BY DEF H
  <2>2. Len(b) - i \in Nat /\ Len(b) - (Len(b) - i) = i
    BY <1>1, <2>1
  <2> QED BY <2>1, <2>2
<1> HIDE DEF T
<1> DEFINE R == {ss \in Nat \X Nat : ss[1] < ss[2]}
<1>a. IsWellFoundedOn(R, Nat)
  BY NatLessThanWellFounded, Zenon DEF OpToRel
<1>b. \A m, n \in Nat : m < n => <<m, n>> \in R
  OBVIOUS
<1> HIDE DEF R
<1>3. PICK n \in T : \A m \in T : ~(<<m, n>> \in R)
  BY <1>2, <1>a, WFMin
<1>4. ASSUME NEW m \in T PROVE m >= n
  <2>1. m \in Nat /\ n \in Nat
    BY <1>2
  <2>2. ~(m < n)
    BY <1>3, <1>b, <2>1
  <2> QED BY <2>1, <2>2
<1>5. Len(b) - n \in H
  BY <1>3 DEF T
<1>6. ASSUME NEW j \in H PROVE j <= Len(b) - n
  <2>1. Len(b) - j \in T
    <3>1. Len(b) - j \in Nat /\ Len(b) - (Len(b) - j) = j
      BY <1>1
    <3> QED BY <3>1 DEF T
  <2> QED BY <2>1, <1>1, <1>2, <1>4
<1>7. \E i \in H : \A j \in H : j <= i
  BY <1>5, <1>6
<1>8. ScanBatch(b, k) \in H
  BY <1>7 DEF ScanBatch, H
<1> QED BY <1>1, <1>8 DEF H

\* An append decides the key it is for and leaves the others alone.
LEMMA AppendPending ==
  ASSUME NEW b \in Seq(Op), NEW k \in Keys, NEW x \in Values \cup {Nil}
  PROVE  PendingOf(Append(b, [key |-> k, value |-> x]))
           = [PendingOf(b) EXCEPT ![k] = x]
<1> DEFINE op == [key |-> k, value |-> x]
           c == Append(b, op)
<1>1. /\ Len(b) \in Nat /\ DOMAIN b = 1 .. Len(b)
      /\ DOMAIN c = 1 .. Len(b) + 1
      /\ c[Len(b) + 1] = op /\ \A i \in 1 .. Len(b) : c[i] = b[i]
  BY DEF Op
<1>2. op.key = k /\ op.value = x
  OBVIOUS
<1> HIDE DEF op, c
<1>3. Hits(c, k) = Hits(b, k) \cup {Len(b) + 1} /\ Hits(b, k) \subseteq 1 .. Len(b)
  BY <1>1, <1>2 DEF Hits
<1>4. Hits(c, k) # {} /\ c[ScanBatch(c, k)].value = x
  <2>1. Len(b) + 1 \in Hits(c, k) /\ \A j \in Hits(c, k) : j <= Len(b) + 1
    BY <1>1, <1>3
  <2>2. \A i \in Hits(c, k) :
           (\A j \in Hits(c, k) : j <= i) => i = Len(b) + 1
    BY <1>1, <1>3
  <2>3. ScanBatch(c, k) = Len(b) + 1
    BY <2>1, <2>2 DEF ScanBatch
  <2> QED BY <1>1, <1>2, <2>1, <2>3
<1>5. ASSUME NEW l \in Keys, l # k
      PROVE  /\ Hits(c, l) = Hits(b, l)
             /\ Hits(b, l) # {} => c[ScanBatch(c, l)] = b[ScanBatch(b, l)]
  <2>1. Hits(c, l) = Hits(b, l)
    BY <1>1, <1>2, <1>5 DEF Hits
  <2>2. ScanBatch(c, l) = ScanBatch(b, l)
    BY <2>1 DEF ScanBatch
  <2> QED BY <1>1, <2>1, <2>2, LastHit
<1>6. PendingOf(c) = [PendingOf(b) EXCEPT ![k] = x]
  BY <1>4, <1>5 DEF PendingOf
<1> QED BY <1>6 DEF c, op

LEMMA EmptyPending == PendingOf(<<>>) = [k \in Keys |-> "untouched"]
BY DEF PendingOf, Hits

\* The values of a batch are values.
LEMMA PendingType ==
  ASSUME NEW b \in Seq(Op), NEW k \in Keys
  PROVE  PendingOf(b)[k] = "untouched" <=> Hits(b, k) = {}
<1>1. CASE Hits(b, k) # {}
  <2>1. b[ScanBatch(b, k)] \in Op
    BY <1>1, LastHit
  <2> QED BY <1>1, <2>1, TxDBAssumption DEF PendingOf, Op
<1>2. CASE Hits(b, k) = {}
  BY <1>2 DEF PendingOf
<1> QED BY <1>1, <1>2
-----------------------------------------------------------------------------
LEMMA TxDBInit == Init => TxDBInv
BY DEF Init, TxDBInv, TypeOK

LEMMA WrittenType ==
  ASSUME NEW d \in [Keys -> Values \cup {Nil}], NEW b \in Seq(Op)
  PROVE  /\ Written(d, b) \in [Keys -> Values \cup {Nil}]
         /\ \A k \in Keys : Written(d, b)[k] = IF Hits(b, k) = {} THEN d[k]
                                               ELSE PendingOf(b)[k]
<1>1. ASSUME NEW k \in Keys, Hits(b, k) # {}
      PROVE  b[ScanBatch(b, k)].value \in Values \cup {Nil}
  <2>1. b[ScanBatch(b, k)] \in Op
    BY <1>1, LastHit
  <2> QED BY <2>1 DEF Op
<1>2. Written(d, b) = [k \in Keys |-> IF Hits(b, k) = {} THEN d[k]
                                      ELSE b[ScanBatch(b, k)].value]
  BY DEF Written, ScanBatch
<1> QED BY <1>1, <1>2 DEF PendingOf

\* Read answers with a value or with Nil.
LEMMA FoundType ==
  ASSUME TypeOK, NEW h \in Handles, NEW k \in Keys
  PROVE  /\ Found(h, k) \in Values \cup {Nil}
         /\ Found(h, k) = Written(db, activeBatch[h])[k]
<1>1. db \in [Keys -> Values \cup {Nil}] /\ activeBatch[h] \in Seq(Op)
  BY DEF TypeOK
<1>2. Written(db, activeBatch[h])[k] \in Values \cup {Nil}
  BY <1>1, WrittenType
<1>3. Found(h, k) = Written(db, activeBatch[h])[k]
  BY <1>1, WrittenType DEF Found, PendingOf
<1> QED BY <1>2, <1>3

LEMMA TxDBNext == TxDBInv /\ [Next]_vars => TxDBInv'
<1> SUFFICES ASSUME TxDBInv, [Next]_vars PROVE TxDBInv'
  OBVIOUS
<1> USE DEF TxDBInv
<1>1. ASSUME NEW h \in Handles, TxnBegin(h) PROVE TxDBInv'
  BY <1>1 DEF TxnBegin, TypeOK
<1>2. ASSUME NEW h \in Handles, TxnCommit(h) PROVE TxDBInv'
  <2>1. db' \in [Keys -> Values \cup {Nil}]
    BY <1>2, WrittenType DEF TxnCommit, TypeOK
  <2> QED BY <1>2, <2>1 DEF TxnCommit, CloseBatch, TypeOK
<1>3. ASSUME NEW h \in Handles, TxnAbort(h) PROVE TxDBInv'
  BY <1>3 DEF TxnAbort, CloseBatch, TypeOK
<1>4. ASSUME NEW h \in Handles, NEW k \in Keys, Read(h, k) PROVE TxDBInv'
  <2>1. answer' \in Answer
    BY <1>4, FoundType DEF Read, Answer
  <2> QED BY <1>4, <2>1 DEF Read, TypeOK
<1>5. ASSUME NEW h \in Handles, NEW k \in Keys, Exists(h, k) PROVE TxDBInv'
  <2>1. FoundExists(h, k) \in BOOLEAN
    BY DEF FoundExists
  <2>2. answer' \in Answer
    BY <1>5, <2>1 DEF Exists, Answer
  <2> QED BY <1>5, <2>2 DEF Exists, TypeOK
<1>6. ASSUME NEW h \in Handles, NEW k \in Keys, NEW x \in Values \cup {Nil},
             Write(h, k, x)
      PROVE  TxDBInv'
  <2>1. [key |-> k, value |-> x] \in Op
    BY DEF Op
  <2>2. CASE h \in inTxn
    <3>1. activeBatch' = [activeBatch EXCEPT ![h] = Append(@, [key |-> k, value |-> x])]
          /\ UNCHANGED <<db, inTxn, answer>>
      BY <1>6, <2>2 DEF Write
    <3>2. activeBatch' \in [Handles -> Seq(Op)]
      BY <2>1, <3>1 DEF TypeOK
    <3> QED BY <2>2, <3>1, <3>2 DEF TypeOK
  <2>3. CASE h \notin inTxn
    BY <1>6, <2>3 DEF Write, TypeOK
  <2> QED BY <2>2, <2>3
<1>7. ASSUME Crash PROVE TxDBInv'
  BY <1>7 DEF Crash, TypeOK
<1>8. ASSUME UNCHANGED vars PROVE TxDBInv'
  BY <1>8 DEF vars, TypeOK
<1> QED BY <1>1, <1>2, <1>3, <1>4, <1>5, <1>6, <1>7, <1>8 DEF Next

-----------------------------------------------------------------------------
\* What the store shows handle h is what Read finds.
LEMMA SeenIsFound ==
  ASSUME TypeOK, NEW h \in Handles, NEW k \in Keys
  PROVE  Store!Seen(h, k) = Found(h, k)
<1>1. activeBatch[h] \in Seq(Op)
  BY DEF TypeOK
<1>2. PendingOf(activeBatch[h])[k] = "untouched" <=> Hits(activeBatch[h], k) = {}
  BY <1>1, PendingType
<1> QED BY <1>2 DEF Store!Seen, Store!Untouched, Found, PendingOf

\* Outside a transaction Exists asks the database alone, as Read does.
LEMMA ExistsOutside ==
  ASSUME TxDBInv, NEW h \in Handles, h \notin inTxn, NEW k \in Keys
  PROVE  FoundExists(h, k) = (Found(h, k) # Nil)
<1>1. Hits(activeBatch[h], k) = {}
  BY DEF TxDBInv, Hits
<1> QED BY <1>1 DEF FoundExists, Found

LEMMA StepRefines ==
  ASSUME ~ExistsInTxn, TxDBInv, [Next]_vars
  PROVE  [Store!Next]_(Store!vars)
<1> DEFINE P == [h \in Handles |-> PendingOf(activeBatch[h])]
<1>0. TypeOK /\ activeBatch \in [Handles -> Seq(Op)]
  BY DEF TxDBInv, TypeOK
<1>n. Store!NoChange = [k \in Keys |-> "untouched"] /\ PendingOf(<<>>) = Store!NoChange
  BY EmptyPending DEF Store!NoChange, Store!Untouched
<1>c. ASSUME NEW h \in Handles, NEW c, activeBatch' = [activeBatch EXCEPT ![h] = c]
      PROVE  P' = [P EXCEPT ![h] = PendingOf(c)]
  BY <1>0, <1>c
<1>1. ASSUME NEW h \in Handles, TxnBegin(h) PROVE Store!Begin(h)
  <2>1. activeBatch' = activeBatch
    BY <1>0, <1>1 DEF TxnBegin, TxDBInv
  <2> QED BY <1>1, <2>1 DEF TxnBegin, Store!Begin
<1>2. ASSUME NEW h \in Handles, TxnCommit(h) PROVE Store!Commit(h)
  <2>1. P' = [P EXCEPT ![h] = Store!NoChange]
    BY <1>2, <1>c, <1>n DEF TxnCommit, CloseBatch
  <2>2. \A k \in Keys : Written(db, activeBatch[h])[k] = Store!Seen(h, k)
    BY <1>0, FoundType, SeenIsFound
  <2>3. Written(db, activeBatch[h]) = [k \in Keys |-> Store!Seen(h, k)]
    BY <2>2 DEF Written
  <2> QED BY <1>2, <2>1, <2>3 DEF TxnCommit, CloseBatch, Store!Commit
<1>3. ASSUME NEW h \in Handles, TxnAbort(h) PROVE Store!Abort(h)
  <2>1. P' = [P EXCEPT ![h] = Store!NoChange]
    BY <1>3, <1>c, <1>n DEF TxnAbort, CloseBatch
  <2> QED BY <1>3, <2>1 DEF TxnAbort, CloseBatch, Store!Abort
<1>4. ASSUME NEW h \in Handles, NEW k \in Keys, Read(h, k) PROVE Store!Ask(h, k)
  BY <1>0, <1>4, SeenIsFound DEF Read, Store!Ask
<1>5. ASSUME NEW h \in Handles, NEW k \in Keys, Exists(h, k) PROVE Store!AskExists(h, k)
  <2>1. FoundExists(h, k) = (Store!Seen(h, k) # Nil)
    BY <1>0, <1>5, SeenIsFound, ExistsOutside DEF Exists
  <2> QED BY <1>5, <2>1 DEF Exists, Store!AskExists
<1>6. ASSUME NEW h \in Handles, NEW k \in Keys, NEW x \in Values \cup {Nil},
             Write(h, k, x)
      PROVE  Store!Change(h, k, x)
  <2>1. CASE h \in inTxn
    <3> DEFINE c == Append(activeBatch[h], [key |-> k, value |-> x])
    <3>1. activeBatch' = [activeBatch EXCEPT ![h] = c] /\ UNCHANGED <<db, inTxn, answer>>
      BY <1>6, <2>1 DEF Write
    <3>2. PendingOf(c) = [P[h] EXCEPT ![k] = x]
      BY <1>0, AppendPending
    <3> HIDE DEF c
    <3>3. P' = [P EXCEPT ![h] = PendingOf(c)]
      BY <1>c, <3>1
    <3>4. P' = [P EXCEPT ![h] = [@ EXCEPT ![k] = x]]
      BY <3>2, <3>3
    <3> QED BY <2>1, <3>1, <3>4 DEF Store!Change
  <2>2. CASE h \notin inTxn
    BY <1>6, <2>2 DEF Write, Store!Change
  <2> QED BY <2>1, <2>2
<1>7. ASSUME Crash PROVE Store!Crash
  <2>1. P' = [h \in Handles |-> Store!NoChange]
    BY <1>7, <1>n DEF Crash
  <2> QED BY <1>7, <2>1 DEF Crash, Store!Crash
<1>8. ASSUME UNCHANGED vars PROVE UNCHANGED Store!vars
  BY <1>8 DEF vars, Store!vars
<1> QED BY <1>1, <1>2, <1>3, <1>4, <1>5, <1>6, <1>7, <1>8 DEF Next, Store!Next

\* CTxDB is a transactional store for any records, handles and batches, as
\* long as Exists is only called outside transactions: reads through a batch
\* are consistent with it, and commits are atomic and isolated.
THEOREM TxDBTransactional == ~ExistsInTxn => (Spec => Transactional)
<1> SUFFICES ASSUME ~ExistsInTxn PROVE Spec => Transactional
  OBVIOUS
<1>1. Init => Store!Init
  BY EmptyPending DEF Init, Store!Init, Store!NoChange, Store!Untouched
<1>2. TxDBInv /\ [Next]_vars => [Store!Next]_(Store!vars)
  BY StepRefines
<1> QED BY TxDBInit, TxDBNext, <1>1, <1>2, PTL DEF Spec, Transactional, Store!Spec
=============================================================================
