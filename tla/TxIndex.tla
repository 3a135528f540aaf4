------------------------------- MODULE TxIndex -------------------------------
(***************************************************************************)
(* The transaction index and the block links as one database view, and     *)
(* what ConnectBlock and DisconnectBlock do to it.                          *)
(*                                                                         *)
(*   next[b]   CDiskBlockIndex::hashNext of b                              *)
(*   pos[t]    CTxIndex::pos: the block that holds t, Nil with no entry    *)
(*   spent[o]  CTxIndex::vSpent: the transaction that spends o, or null    *)
(*                                                                         *)
(* The loop of ConnectBlock over vtx works on mapQueuedChanges and writes  *)
(* it at the end.  A failure anywhere throws the whole batch away, so only *)
(* its condition and its result are told: a transaction may spend what an  *)
(* earlier one of the block makes, or what the view holds unspent.         *)
(***************************************************************************)
EXTENDS BlockTree

View == [next : [Blocks -> Blocks \cup {Nil}],
         pos : [Txs -> Blocks \cup {Nil}],
         spent : [Outpoints -> Txs \cup {Nil}]]

EmptyView == [next |-> [b \in Blocks |-> Nil],
              pos |-> [t \in Txs |-> Nil],
              spent |-> [o \in Outpoints |-> Nil]]

\* BIP30: a transaction may only replace one whose outputs are all spent.
MayOverwrite(v, t) ==
  v.pos[t] # Nil => \A n \in 0 .. NumOut[t] - 1 : v.spent[<<t, n>>] # Nil

EarlierInBlock(b, i, t) == \E j \in DOMAIN vtx[b] : j < i /\ vtx[b][j] = t

LaterInBlock(b, i, t) == \E j \in DOMAIN vtx[b] : j > i /\ vtx[b][j] = t

\* Mutant of InputConnects: no test for an earlier spend.
InputFound(v, b, i, o) == EarlierInBlock(b, i, o[1]) \/ v.pos[o[1]] # Nil

\* FetchInputs and ConnectInputs for input o of the i-th transaction of b:
\* its transaction is found, mature if minted, and o is not spent.
InputConnects(v, b, i, o) ==
  /\ IF EarlierInBlock(b, i, o[1])
     THEN o[1] \in Minted => Maturity = 0
     ELSE /\ v.pos[o[1]] # Nil
          /\ v.spent[o] = Nil
          /\ o[1] \in Minted /\ v.pos[o[1]] \in Ancestors[b]
               => Height[b] - Height[v.pos[o[1]]] >= Maturity
  /\ \A j \in DOMAIN vtx[b] : j < i => o \notin vin[vtx[b][j]]

\* ConnectBlock succeeds on view v, the fortunastake payee aside.
Connects(v, b) ==
  /\ b \notin BadBlocks
  /\ \A t \in BlockTxs(b) : MayOverwrite(v, t)
  /\ \A i \in DOMAIN vtx[b] : \A o \in vin[vtx[b][i]] : InputConnects(v, b, i, o)

\* Mutant of ConnectBlock: the parent's hashNext is not written.
ConnectUnlinked(v, b, pnext) ==
  [next |-> [v.next EXCEPT ![b] = pnext[b]],
   pos |-> [t \in Txs |-> IF t \in BlockTxs(b) THEN b ELSE v.pos[t]],
   spent |-> [o \in Outpoints |->
                IF o \in BlockInputs(b)
                THEN CHOOSE t \in BlockTxs(b) : o \in vin[t]
                ELSE IF o[1] \in BlockTxs(b) THEN Nil ELSE v.spent[o]]]

\* The view ConnectBlock leaves; pnext is the memory link it copies for b.
ConnectBlock(v, b, pnext) ==
  [next |-> [v.next EXCEPT ![b] = pnext[b], ![Prev[b]] = b],
   pos |-> [t \in Txs |-> IF t \in BlockTxs(b) THEN b ELSE v.pos[t]],
   spent |-> [o \in Outpoints |->
                IF o \in BlockInputs(b)
                THEN CHOOSE t \in BlockTxs(b) : o \in vin[t]
                ELSE IF o[1] \in BlockTxs(b) THEN Nil ELSE v.spent[o]]]

\* DisconnectBlock walks vtx backwards and fails when the index entry of an
\* input is not there.
Disconnects(v, b) ==
  \A i \in DOMAIN vtx[b] : \A o \in vin[vtx[b][i]] :
     v.pos[o[1]] # Nil /\ ~LaterInBlock(b, i, o[1])

\* Mutant of DisconnectBlock: the parent keeps its hashNext.
DisconnectKeepsLink(v, b) ==
  [next |-> v.next,
   pos |-> [t \in Txs |-> IF t \in BlockTxs(b) THEN Nil ELSE v.pos[t]],
   spent |-> [o \in Outpoints |->
                IF o \in BlockInputs(b) \/ o[1] \in BlockTxs(b)
                THEN Nil ELSE v.spent[o]]]

\* The view DisconnectBlock leaves.
DisconnectBlock(v, b) ==
  [next |-> [v.next EXCEPT ![Prev[b]] = Nil],
   pos |-> [t \in Txs |-> IF t \in BlockTxs(b) THEN Nil ELSE v.pos[t]],
   spent |-> [o \in Outpoints |->
                IF o \in BlockInputs(b) \/ o[1] \in BlockTxs(b)
                THEN Nil ELSE v.spent[o]]]

-----------------------------------------------------------------------------
(***************************************************************************)
(* What the chain that ends in b says, with no reference to how it was     *)
(* reached.                                                                *)
(***************************************************************************)

\* Every transaction is in one block of the chain, every output is spent at
\* most once, and only after the transaction that makes it.
SpendsOnce(b) ==
  \A c, d \in Ancestors[b] : \A t \in BlockTxs(c), u \in BlockTxs(d) :
     /\ t = u => c = d
     /\ vin[t] \cap vin[u] # {} => t = u

SpendsExisting(b) ==
  \A c \in Ancestors[b] : \A i \in DOMAIN vtx[c] : \A o \in vin[vtx[c][i]] :
     \/ EarlierInBlock(c, i, o[1])
     \/ \E d \in Ancestors[c] \ {c} : o[1] \in BlockTxs(d)

\* Minted outputs of the chain are spent Maturity blocks later at the
\* earliest.
SpendsMature(b) ==
  \A c, d \in Ancestors[b] : \A t \in BlockTxs(c) : \A o \in vin[t] :
     o[1] \in Minted \cap BlockTxs(d) => Height[c] - Height[d] >= Maturity

ChainOK(b) ==
  SpendsOnce(b) /\ SpendsExisting(b) /\ SpendsMature(b)
    /\ Ancestors[b] \cap BadBlocks = {}

\* The view v is exactly the one of the chain that ends in b: links along
\* the chain and nowhere else, an entry for each of its transactions and no
\* other, a spent mark for each of its inputs and no other.
ViewOf(v, b) ==
  /\ \A x, y \in Blocks : v.next[x] = y <=> y \in Ancestors[b] /\ Prev[y] = x
  /\ \A t \in Txs, c \in Blocks :
        v.pos[t] = c <=> c \in Ancestors[b] /\ t \in BlockTxs(c)
  /\ \A o \in Outpoints, t \in Txs :
        v.spent[o] = t <=>
          o \in vin[t] /\ \E c \in Ancestors[b] : t \in BlockTxs(c)
=============================================================================
