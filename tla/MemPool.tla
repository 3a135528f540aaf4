------------------------------- MODULE MemPool -------------------------------
(***************************************************************************)
(* CTxMemPool: the pool is a record of mapTx, the set of transactions in   *)
(* memory, and mapNextTx, which gives the pool transaction that spends an  *)
(* output.  The operators return the pool a call leaves behind.            *)
(***************************************************************************)
EXTENDS TxIndex

Pool == [mapTx : SUBSET Txs, mapNextTx : [Outpoints -> Txs \cup {Nil}]]

EmptyPool == [mapTx |-> {}, mapNextTx |-> [o \in Outpoints |-> Nil]]

\* FetchInputs and ConnectInputs outside a block: the input is unspent in the
\* index (and mature seen from best), or its transaction is in the pool.
InputAvailable(p, v, best, o) ==
  IF v.pos[o[1]] = Nil
  THEN o[1] \in p.mapTx
  ELSE /\ v.spent[o] = Nil
       /\ o[1] \in Minted /\ v.pos[o[1]] \in Ancestors[best]
            => Height[best] - Height[v.pos[o[1]]] >= Maturity

\* CTxMemPool::accept adds t.
Accepts(p, v, best, t) ==
  /\ t \notin Minted \cup NonStandard
  /\ t \notin p.mapTx
  /\ v.pos[t] = Nil
  /\ \A o \in vin[t] : p.mapNextTx[o] = Nil /\ InputAvailable(p, v, best, o)

addUnchecked(p, t) ==
  [mapTx |-> p.mapTx \cup {t},
   mapNextTx |-> [o \in Outpoints |-> IF o \in vin[t] THEN t ELSE p.mapNextTx[o]]]

\* Mutant of remove: mapNextTx keeps the inputs.
removeTxOnly(p, S) == [p EXCEPT !.mapTx = @ \ S]

\* remove(), without fRecursive, of each transaction of S that is in the pool.
remove(p, S) ==
  [mapTx |-> p.mapTx \ S,
   mapNextTx |-> [o \in Outpoints |->
                    IF \E t \in S \cap p.mapTx : o \in vin[t]
                    THEN Nil ELSE p.mapNextTx[o]]]

\* Mutant of removeConfirmed: the call is missing.
removeNothing(p, b) == p

\* SetBestChainInner drops the transactions of the block it connected.
removeConfirmed(p, b) == remove(p, BlockTxs(b))

\* The transactions remove() reaches from S with fRecursive: the pool
\* transactions of S, those that spend their outputs, and so on.
WithDescendants(p, S) ==
  {t \in p.mapTx :
     \A D \in SUBSET p.mapTx :
        /\ S \cap p.mapTx \subseteq D
        /\ \A u \in D : \A n \in 0 .. NumOut[u] - 1 :
              p.mapNextTx[<<u, n>>] \in p.mapTx => p.mapNextTx[<<u, n>>] \in D
        => t \in D}

\* Mutant of removeConflicts: the call is missing.
keepConflicts(p, t) == p

\* removeConflicts(): out go the pool transactions that spend an input of t.
removeConflicts(p, t) ==
  remove(p, WithDescendants(p, {p.mapNextTx[o] : o \in vin[t]} \ {t}))

\* mapNextTx is the inverse of vin over the pool; no two pool transactions
\* spend the same output.
PoolOK(p) ==
  \A o \in Outpoints, t \in Txs :
     p.mapNextTx[o] = t <=> t \in p.mapTx /\ o \in vin[t]
=============================================================================
