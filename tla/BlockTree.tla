------------------------------ MODULE BlockTree ------------------------------
(***************************************************************************)
(* The data the chain state is a function of: every block that may ever    *)
(* arrive, its parent, its transactions, and every transaction with the    *)
(* outputs it spends.  A block or transaction stands for its hash, so two  *)
(* different ones never share a name and nothing refers to itself.         *)
(*                                                                         *)
(* What the node checks about one block or one transaction alone (scripts, *)
(* amounts, signatures, fees, output numbers in range) is given as the     *)
(* sets BadBlocks and NonStandard.  So is the outcome of the reward check  *)
(* of ConnectBlock, although the code takes the reward at the height of    *)
(* pindexBest, which in a reorganisation is not the height of the block.   *)
(* Ring-signature inputs, which have no entry in the transaction index,    *)
(* are left out.                                                           *)
(***************************************************************************)
EXTENDS Integers, Sequences, FiniteSets

CONSTANTS
    Blocks,        \* CBlock / CBlockIndex, by hash
    Genesis,       \* pindexGenesisBlock
    Nil,           \* NULL: hash 0, null CDiskTxPos, absent map entry
    Prev,          \* hashPrevBlock, Nil for Genesis
    Height,        \* CBlockIndex::nHeight
    ChainTrust,    \* CBlockIndex::nChainTrust
    Txs,           \* CTransaction, by hash
    vtx,           \* CBlock::vtx, a sequence of transactions
    NumOut,        \* CTransaction::vout.size()
    vin,           \* CTransaction::vin, the set of outputs it spends
    Minted,        \* IsCoinBase() or IsCoinStake()
    BadBlocks,     \* ConnectBlock fails for a reason of the block's own
    NonStandard,   \* CTxMemPool::accept refuses for a reason of its own
    Maturity       \* nCoinbaseMaturity

\* COutPoint: a transaction and the number of one of its outputs.
Outpoints == UNION {{t} \X (0 .. NumOut[t] - 1) : t \in Txs}

BlockTxs(b) == {vtx[b][i] : i \in DOMAIN vtx[b]}

BlockInputs(b) == UNION {vin[t] : t \in BlockTxs(b)}

\* The blocks reached from b through pprev, b included: the least set that
\* holds b and the parent of each of its members.
Ancestors ==
  [b \in Blocks |->
     {x \in Blocks :
        \A S \in SUBSET Blocks :
           (b \in S /\ \A y \in S : y # Genesis => Prev[y] \in S) => x \in S}]

(***************************************************************************)
(* A tree of blocks: every chain starts at Genesis, and trust and height   *)
(* grow along pprev (AddToBlockIndex adds GetBlockTrust(), which is        *)
(* positive).                                                              *)
(***************************************************************************)
ASSUME TreeAssumption ==
  /\ Genesis \in Blocks /\ Nil \notin Blocks /\ Nil \notin Txs
  /\ Prev \in [Blocks -> Blocks \cup {Nil}]
  /\ Prev[Genesis] = Nil
  /\ \A b \in Blocks \ {Genesis} : Prev[b] \in Blocks
  /\ Height \in [Blocks -> Nat] /\ ChainTrust \in [Blocks -> Nat]
  /\ \A b \in Blocks \ {Genesis} :
        /\ Height[b] = Height[Prev[b]] + 1
        /\ ChainTrust[b] > ChainTrust[Prev[b]]
  /\ \A b \in Blocks : Genesis \in Ancestors[b]
  /\ BadBlocks \in SUBSET (Blocks \ {Genesis})
  /\ Maturity \in Nat

(***************************************************************************)
(* Transactions: the genesis block is never connected, so its transactions *)
(* are not indexed and are left out; CheckBlock refuses a block that holds *)
(* a transaction twice, CheckTransaction one without outputs.              *)
(***************************************************************************)
ASSUME TxAssumption ==
  /\ vtx \in [Blocks -> Seq(Txs)] /\ vtx[Genesis] = <<>>
  /\ \A b \in Blocks : \A i, j \in DOMAIN vtx[b] :
        vtx[b][i] = vtx[b][j] => i = j
  /\ NumOut \in [Txs -> Nat \ {0}]
  /\ vin \in [Txs -> SUBSET Outpoints]
  /\ Minted \in SUBSET Txs /\ NonStandard \in SUBSET Txs

\* An input names its transaction by hash: among any transactions there is
\* one that spends none of the others.
ASSUME HashAssumption ==
  \A S \in SUBSET Txs :
     S # {} => \E t \in S : \A o \in vin[t] : o[1] \notin S

\* AcceptBlock wants the height at the start of the coinbase script, so no
\* coinbase (a transaction with no inputs) is in two blocks of one chain.
ASSUME CoinbaseAssumption ==
  \A b \in Blocks : \A c \in Ancestors[b] : \A t \in Txs :
     t \in BlockTxs(b) /\ t \in BlockTxs(c) /\ vin[t] = {} => b = c

\* The step of the path from x, an ancestor of b, towards b.
Toward(x, b) == CHOOSE y \in Ancestors[b] : Prev[y] = x
=============================================================================
