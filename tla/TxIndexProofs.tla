---------------------------- MODULE TxIndexProofs ----------------------------
(***************************************************************************)
(* Facts about the block tree and about connecting and disconnecting one   *)
(* block, for every block tree and every set of transactions.              *)
(***************************************************************************)
EXTENDS TxIndex, TLAPS

\* A block is its own ancestor, and ancestors are blocks.
LEMMA AncestorsSelf ==
  \A b \in Blocks : b \in Ancestors[b] /\ Ancestors[b] \subseteq Blocks
BY DEF Ancestors

\* The ancestors of a block are closed under pprev.
LEMMA AncestorsPrev ==
  ASSUME NEW b \in Blocks, NEW x \in Ancestors[b], x # Genesis
  PROVE  Prev[x] \in Ancestors[b]
<1>1. x \in Blocks
  BY AncestorsSelf
<1>2. Prev[x] \in Blocks
  BY <1>1, TreeAssumption
<1>3. ASSUME NEW S \in SUBSET Blocks,
             b \in S, \A y \in S : y # Genesis => Prev[y] \in S
      PROVE  Prev[x] \in S
  <2>1. x \in S
    BY <1>3 DEF Ancestors
  <2> QED BY <2>1, <1>3
<1> QED BY <1>2, <1>3 DEF Ancestors

\* Induction along pprev: a set of blocks that holds b and is closed under
\* pprev holds every ancestor of b.
LEMMA AncestorsInduction ==
  ASSUME NEW b \in Blocks, NEW S \in SUBSET Blocks,
         b \in S, \A y \in S : y # Genesis => Prev[y] \in S
  PROVE  Ancestors[b] \subseteq S
BY DEF Ancestors

\* The ancestors of a block are the block and the ancestors of its parent.
LEMMA AncestorsStep ==
  ASSUME NEW b \in Blocks, b # Genesis
  PROVE  Ancestors[b] = {b} \cup Ancestors[Prev[b]]
<1> DEFINE S == {b} \cup Ancestors[Prev[b]]
<1>1. Prev[b] \in Blocks
  BY TreeAssumption
<1>2. Ancestors[b] \subseteq S
  <2>1. S \in SUBSET Blocks /\ b \in S
    BY <1>1, AncestorsSelf
  <2>2. ASSUME NEW y \in S, y # Genesis PROVE Prev[y] \in S
    <3>1. CASE y = b
      BY <3>1, <1>1, AncestorsSelf
    <3>2. CASE y \in Ancestors[Prev[b]]
      BY <3>2, <2>2, <1>1, AncestorsPrev
    <3> QED BY <3>1, <3>2
  <2> HIDE DEF S
  <2> QED BY <2>1, <2>2, AncestorsInduction
<1>3. Ancestors[Prev[b]] \subseteq Ancestors[b]
  <2>1. Prev[b] \in Ancestors[b]
    BY AncestorsSelf, AncestorsPrev
  <2>2. \A y \in Ancestors[b] : y # Genesis => Prev[y] \in Ancestors[b]
    BY AncestorsPrev
  <2>3. Ancestors[b] \in SUBSET Blocks
    BY AncestorsSelf
  <2> QED BY <1>1, <2>1, <2>2, <2>3, AncestorsInduction
<1> QED BY <1>2, <1>3, AncestorsSelf

\* Genesis has no other ancestor.
LEMMA AncestorsGenesis == Ancestors[Genesis] = {Genesis}
<1>1. {Genesis} \in SUBSET Blocks /\ Genesis \in {Genesis}
  BY TreeAssumption
<1>2. Ancestors[Genesis] \subseteq {Genesis}
  BY <1>1, AncestorsInduction
<1> QED BY <1>1, <1>2, AncestorsSelf

\* Ancestors are transitive.
LEMMA AncestorsTransitive ==
  ASSUME NEW b \in Blocks, NEW c \in Ancestors[b]
  PROVE  c \in Blocks /\ Ancestors[c] \subseteq Ancestors[b]
<1>1. c \in Blocks /\ Ancestors[b] \in SUBSET Blocks
  BY AncestorsSelf
<1>2. \A y \in Ancestors[b] : y # Genesis => Prev[y] \in Ancestors[b]
  BY AncestorsPrev
<1> QED BY <1>1, <1>2, AncestorsInduction

\* Height and trust grow strictly towards the tip.
LEMMA AncestorsBelow ==
  ASSUME NEW b \in Blocks, NEW x \in Ancestors[b], x # b
  PROVE  Height[x] < Height[b] /\ ChainTrust[x] < ChainTrust[b]
<1> DEFINE S == {y \in Blocks : y = b \/ (Height[y] < Height[b]
                                         /\ ChainTrust[y] < ChainTrust[b])}
<1>1. S \in SUBSET Blocks /\ b \in S
  OBVIOUS
<1>2. ASSUME NEW y \in S, y # Genesis PROVE Prev[y] \in S
  <2>1. Prev[y] \in Blocks /\ Height[y] = Height[Prev[y]] + 1
          /\ ChainTrust[y] > ChainTrust[Prev[y]]
    BY <1>2, TreeAssumption
  <2>2. /\ Height[y] \in Nat /\ Height[Prev[y]] \in Nat /\ Height[b] \in Nat
        /\ ChainTrust[y] \in Nat /\ ChainTrust[Prev[y]] \in Nat
        /\ ChainTrust[b] \in Nat
    BY <2>1, TreeAssumption
  <2> QED BY <2>1, <2>2
<1>3. Ancestors[b] \subseteq S
  <2> HIDE DEF S
  <2> QED BY <1>1, <1>2, AncestorsInduction
<1> QED BY <1>3

\* Induction up the tree: a set that holds the genesis block, and every block
\* whose parent it holds, holds every block.
LEMMA TreeInduction ==
  ASSUME NEW S, Genesis \in S,
         \A b \in Blocks \ {Genesis} : Prev[b] \in S => b \in S
  PROVE  \A b \in Blocks : b \in S
<1> SUFFICES ASSUME NEW b \in Blocks, b \notin S PROVE FALSE
  OBVIOUS
<1> DEFINE C == {x \in Blocks : x \notin S}
<1>1. C \in SUBSET Blocks /\ b \in C
  OBVIOUS
<1>2. \A y \in C : y # Genesis => Prev[y] \in C
  BY TreeAssumption
<1>3. Ancestors[b] \subseteq C
  <2> HIDE DEF C
  <2> QED BY <1>1, <1>2, AncestorsInduction
<1> QED BY <1>3, TreeAssumption

\* The ancestors of a block form a path: of any two, one is the other's.
LEMMA AncestorsLinear ==
  ASSUME NEW b \in Blocks, NEW x \in Ancestors[b], NEW y \in Ancestors[b]
  PROVE  x \in Ancestors[y] \/ y \in Ancestors[x]
<1> DEFINE S == {z \in Ancestors[b] :
                   \A w \in Ancestors[b] : w \in Ancestors[z] \/ z \in Ancestors[w]}
<1>1. S \in SUBSET Blocks /\ b \in S
  BY AncestorsSelf
<1>2. ASSUME NEW z \in S, z # Genesis PROVE Prev[z] \in S
  <2>1. Prev[z] \in Ancestors[b] /\ z \in Blocks
    BY <1>2, AncestorsPrev, AncestorsSelf
  <2>2. ASSUME NEW w \in Ancestors[b]
        PROVE  w \in Ancestors[Prev[z]] \/ Prev[z] \in Ancestors[w]
    <3>1. w \in Blocks
      BY AncestorsSelf
    <3>2. CASE z \in Ancestors[w]
      BY <3>1, <3>2, <1>2, AncestorsPrev
    <3>3. CASE w \in Ancestors[z] /\ z \notin Ancestors[w]
      <4>1. w # z
        BY <3>3, <2>1, AncestorsSelf
      <4> QED BY <4>1, <3>3, <2>1, <1>2, AncestorsStep
    <3> QED BY <3>2, <3>3
  <2> QED BY <2>1, <2>2
<1>3. Ancestors[b] \subseteq S
  <2> HIDE DEF S
  <2> QED BY <1>1, <1>2, AncestorsInduction
<1> QED BY <1>3

\* A block has at most one child among the ancestors of another.
LEMMA OneChild ==
  ASSUME NEW b \in Blocks, NEW x \in Ancestors[b], NEW y \in Ancestors[b],
         x # Genesis, y # Genesis, Prev[x] = Prev[y]
  PROVE  x = y
<1>1. x \in Blocks /\ y \in Blocks
  BY AncestorsSelf
<1>2. Height[x] = Height[y] /\ Height[x] \in Nat
  BY <1>1, TreeAssumption
<1>3. ~(Height[x] < Height[y]) /\ ~(Height[y] < Height[x])
  BY <1>2
<1> QED BY <1>1, <1>3, AncestorsLinear, AncestorsBelow

\* Below its tip every ancestor has a child on the way up.
LEMMA ChildExists ==
  ASSUME NEW b \in Blocks, NEW x \in Ancestors[b], x # b
  PROVE  \E y \in Ancestors[b] : y # Genesis /\ Prev[y] = x
<1> DEFINE S == {z \in Ancestors[b] :
                   z = b \/ \E y \in Ancestors[b] : y # Genesis /\ Prev[y] = z}
<1>1. S \in SUBSET Blocks /\ b \in S
  BY AncestorsSelf
<1>2. \A z \in S : z # Genesis => Prev[z] \in S
  BY AncestorsPrev
<1>3. Ancestors[b] \subseteq S
  <2> HIDE DEF S
  <2> QED BY <1>1, <1>2, AncestorsInduction
<1> QED BY <1>3

\* Toward names that child: one block above x, still an ancestor of b.
LEMMA TowardChild ==
  ASSUME NEW b \in Blocks, NEW x \in Ancestors[b], x # b
  PROVE  /\ Toward(x, b) \in Ancestors[b] /\ Toward(x, b) \in Blocks
         /\ Toward(x, b) # Genesis
         /\ Prev[Toward(x, b)] = x
<1>1. PICK y \in Ancestors[b] : y # Genesis /\ Prev[y] = x
  BY ChildExists
<1>2. Toward(x, b) \in Ancestors[b] /\ Prev[Toward(x, b)] = x
  BY <1>1 DEF Toward
<1>3. x # Nil
  BY AncestorsSelf, TreeAssumption
<1> QED BY <1>2, <1>3, AncestorsSelf, TreeAssumption
-----------------------------------------------------------------------------
\* The transactions of a block are transactions, and each has its place in vtx.
LEMMA BlockTxsType ==
  ASSUME NEW b \in Blocks
  PROVE  /\ BlockTxs(b) \subseteq Txs
         /\ \A t \in BlockTxs(b) : \E i \in DOMAIN vtx[b] : vtx[b][i] = t
         /\ \A i \in DOMAIN vtx[b] : vtx[b][i] \in BlockTxs(b)
         /\ DOMAIN vtx[b] \subseteq Nat
<1>1. vtx[b] \in Seq(Txs)
  BY TxAssumption
<1> QED BY <1>1 DEF BlockTxs

\* Outputs are pairs of a transaction and a number; inputs are outputs.
LEMMA InputType ==
  ASSUME NEW t \in Txs, NEW o \in vin[t]
  PROVE  o \in Outpoints /\ o[1] \in Txs
<1>1. o \in Outpoints
  BY TxAssumption
<1>2. PICK u \in Txs : o \in {u} \X (0 .. NumOut[u] - 1)
  BY <1>1 DEF Outpoints
<1> QED BY <1>1, <1>2

\* Every input of a chain that spends only existing outputs belongs to a
\* transaction of that chain.
LEMMA InputsInChain ==
  ASSUME NEW b \in Blocks, SpendsExisting(b), NEW c \in Ancestors[b],
         NEW t \in BlockTxs(c), NEW o \in vin[t]
  PROVE  \E d \in Ancestors[b] : o[1] \in BlockTxs(d)
<1>1. c \in Blocks /\ Ancestors[c] \subseteq Ancestors[b]
  BY AncestorsTransitive
<1>2. PICK i \in DOMAIN vtx[c] : vtx[c][i] = t
  BY <1>1, BlockTxsType
<1>3. CASE EarlierInBlock(c, i, o[1])
  BY <1>3, <1>1, BlockTxsType DEF EarlierInBlock
<1>4. CASE \E d \in Ancestors[c] \ {c} : o[1] \in BlockTxs(d)
  BY <1>4, <1>1
<1> QED BY <1>2, <1>3, <1>4 DEF SpendsExisting

\* The parent of a block is not above it, and is itself a block.
LEMMA ParentFacts ==
  ASSUME NEW b \in Blocks, b # Genesis
  PROVE  /\ Prev[b] \in Blocks /\ Prev[b] # b
         /\ b \notin Ancestors[Prev[b]]
         /\ Ancestors[Prev[b]] \subseteq Ancestors[b]
         /\ Ancestors[b] = {b} \cup Ancestors[Prev[b]]
         /\ \A y \in Ancestors[b] : Prev[y] # b
<1>1. /\ Prev[b] \in Blocks /\ Height[b] = Height[Prev[b]] + 1
      /\ Height[b] \in Nat /\ Height[Prev[b]] \in Nat
  BY TreeAssumption
<1>2. Prev[b] # b
  BY <1>1
<1>3. b \notin Ancestors[Prev[b]]
  <2>1. ~(Height[b] < Height[Prev[b]])
    BY <1>1
  <2> QED BY <2>1, <1>1, <1>2, AncestorsBelow
<1>4. ASSUME NEW y \in Ancestors[b], Prev[y] = b PROVE FALSE
  <2>1. y \in Blocks /\ y # Genesis
    BY <1>4, AncestorsSelf, TreeAssumption
  <2>2. Height[y] = Height[b] + 1
    BY <2>1, <1>4, TreeAssumption
  <2>3. y # b /\ ~(Height[y] < Height[b])
    BY <2>2, <1>1
  <2> QED BY <2>3, AncestorsBelow
<1> QED BY <1>1, <1>2, <1>3, <1>4, AncestorsStep

\* f takes each block's value from that of its parent, through the table F.
Climbs(f, X, base, F) ==
  /\ f \in [Blocks -> X]
  /\ f[Genesis] = base
  /\ \A b \in Blocks \ {Genesis} : f[b] = F[<<f[Prev[b]], b>>]

BlockTable(F, X) == F \in [X \X Blocks -> X]

\* Recursion up the tree: there is such a function.
LEMMA TreeRecursion ==
  ASSUME NEW X, NEW F, BlockTable(F, X), NEW base \in X
  PROVE  \E f : Climbs(f, X, base, F)
<1> USE DEF BlockTable
<1> DEFINE Upto(b, f) ==
             /\ f \in [Ancestors[b] -> X]
             /\ f[Genesis] = base
             /\ \A c \in Ancestors[b] \ {Genesis} : f[c] = F[<<f[Prev[c]], c>>]
<1>1. \A b \in Blocks : \E f : Upto(b, f)
  <2> DEFINE S == {b \in Blocks : \E f : Upto(b, f)}
  <2>1. Genesis \in S
    <3> DEFINE f == [c \in Ancestors[Genesis] |-> base]
    <3>1. Ancestors[Genesis] = {Genesis} /\ Genesis \in Blocks
      BY AncestorsGenesis, TreeAssumption
    <3>2. Upto(Genesis, f)
      BY <3>1
    <3> QED BY <3>1, <3>2
  <2>2. ASSUME NEW b \in Blocks \ {Genesis}, Prev[b] \in S PROVE b \in S
    <3>1. PICK u : Upto(Prev[b], u)
      BY <2>2
    <3> DEFINE f == [c \in Ancestors[b] |-> IF c = b THEN F[<<u[Prev[b]], b>>] ELSE u[c]]
    <3>2. /\ Prev[b] \in Blocks /\ b \notin Ancestors[Prev[b]]
          /\ Ancestors[b] = {b} \cup Ancestors[Prev[b]]
          /\ Prev[b] \in Ancestors[Prev[b]]
          /\ Genesis \in Ancestors[b] /\ Genesis \in Ancestors[Prev[b]]
      BY ParentFacts, AncestorsSelf, TreeAssumption
    <3>3. u[Prev[b]] \in X
      BY <3>1, <3>2
    <3>4. F[<<u[Prev[b]], b>>] \in X
      BY <3>3
    <3>5. f \in [Ancestors[b] -> X] /\ f[Genesis] = base
      BY <3>1, <3>2, <3>4
    <3>6. ASSUME NEW c \in Ancestors[b] \ {Genesis} PROVE f[c] = F[<<f[Prev[c]], c>>]
      <4>1. CASE c = b
        BY <4>1, <3>2
      <4>2. CASE c # b
        <5>1. c \in Ancestors[Prev[b]] /\ Prev[c] \in Ancestors[Prev[b]]
          BY <4>2, <3>2, AncestorsPrev
        <5>2. f[c] = u[c] /\ f[Prev[c]] = u[Prev[c]]
          BY <5>1, <3>2
        <5> QED BY <5>1, <5>2, <3>1
      <4> QED BY <4>1, <4>2
    <3>7. Upto(b, f)
      <4> HIDE DEF f
      <4> QED BY <3>5, <3>6
    <3> HIDE DEF f, Upto
    <3> QED BY <3>7
  <2> HIDE DEF S
  <2>3. \A b \in Blocks : b \in S
    BY <2>1, <2>2, TreeInduction
  <2> QED BY <2>3 DEF S
<1>2. ASSUME NEW b \in Blocks, NEW f, NEW h, Upto(b, f), b # Genesis, Upto(Prev[b], h)
      PROVE  f[Prev[b]] = h[Prev[b]]
  <2> DEFINE S == {c \in Blocks : c \in Ancestors[Prev[b]] => f[c] = h[c]}
  <2>1. /\ Prev[b] \in Blocks /\ Ancestors[Prev[b]] \subseteq Ancestors[b]
        /\ Prev[b] \in Ancestors[Prev[b]]
    BY <1>2, ParentFacts, AncestorsSelf
  <2>2. Genesis \in S
    BY <1>2, TreeAssumption
  <2>3. ASSUME NEW c \in Blocks \ {Genesis}, Prev[c] \in S PROVE c \in S
    <3> SUFFICES ASSUME c \in Ancestors[Prev[b]] PROVE f[c] = h[c]
      OBVIOUS
    <3>1. Prev[c] \in Ancestors[Prev[b]]
      BY <2>1, AncestorsPrev
    <3>2. f[Prev[c]] = h[Prev[c]]
      BY <2>3, <3>1
    <3> QED BY <1>2, <2>1, <3>2
  <2> HIDE DEF S
  <2>4. Prev[b] \in S
    BY <2>1, <2>2, <2>3, TreeInduction
  <2> QED BY <2>1, <2>4 DEF S
<1> DEFINE G(b) == CHOOSE f : Upto(b, f)
           f == [b \in Blocks |-> G(b)[b]]
<1>3. \A b \in Blocks : Upto(b, G(b))
  BY <1>1
<1> HIDE DEF G
<1>4. f \in [Blocks -> X]
  BY <1>3, AncestorsSelf
<1>5. f[Genesis] = base
  BY <1>3, TreeAssumption
<1>6. ASSUME NEW b \in Blocks \ {Genesis} PROVE f[b] = F[<<f[Prev[b]], b>>]
  <2>1. Prev[b] \in Blocks /\ b \in Ancestors[b]
    BY ParentFacts, AncestorsSelf
  <2>2. f[b] = F[<<G(b)[Prev[b]], b>>]
    BY <1>3, <2>1
  <2>3. G(b)[Prev[b]] = G(Prev[b])[Prev[b]]
    BY <1>2, <1>3, <2>1
  <2> QED BY <2>1, <2>2, <2>3
<1> HIDE DEF f
<1> QED BY <1>4, <1>5, <1>6 DEF Climbs

-----------------------------------------------------------------------------
\* A prefix of a good chain is good.
LEMMA ChainOKPrev ==
  ASSUME NEW b \in Blocks, b # Genesis, ChainOK(b)
  PROVE  ChainOK(Prev[b])
BY ParentFacts DEF ChainOK, SpendsOnce, SpendsExisting, SpendsMature

\* DisconnectBlock never fails on the tip of a good chain, and leaves exactly
\* the state of the chain without it.
LEMMA DisconnectView ==
  ASSUME NEW v \in View, NEW b \in Blocks, b # Genesis, ViewOf(v, b), ChainOK(b)
  PROVE  /\ Disconnects(v, b)
         /\ ViewOf(DisconnectBlock(v, b), Prev[b])
<1> DEFINE w == DisconnectBlock(v, b)
           A == Ancestors[b]
           B == Ancestors[Prev[b]]
<1>1. /\ Prev[b] \in Blocks /\ b \notin B /\ B \subseteq A /\ A = {b} \cup B
      /\ A \subseteq Blocks /\ b \in A
  BY ParentFacts, AncestorsSelf
<1>2. Disconnects(v, b)
  <2> SUFFICES ASSUME NEW i \in DOMAIN vtx[b], NEW o \in vin[vtx[b][i]]
               PROVE  v.pos[o[1]] # Nil /\ ~LaterInBlock(b, i, o[1])
    BY DEF Disconnects
  <2>1. vtx[b][i] \in Txs /\ o[1] \in Txs /\ i \in Nat
    BY BlockTxsType, InputType
  <2>2. CASE EarlierInBlock(b, i, o[1])
    <3>1. PICK j \in DOMAIN vtx[b] : j < i /\ vtx[b][j] = o[1]
      BY <2>2 DEF EarlierInBlock
    <3>2. v.pos[o[1]] = b
      BY <3>1, <2>1, <1>1, BlockTxsType DEF ViewOf
    <3>3. ASSUME NEW k \in DOMAIN vtx[b], k > i, vtx[b][k] = o[1] PROVE FALSE
      <4>1. k = j
        BY <3>1, <3>3, TxAssumption
      <4> QED BY <4>1, <3>1, <3>3, <2>1, BlockTxsType
    <3> QED BY <3>2, <3>3, TreeAssumption DEF LaterInBlock
  <2>3. CASE \E d \in Ancestors[b] \ {b} : o[1] \in BlockTxs(d)
    <3>1. PICK d \in Ancestors[b] \ {b} : o[1] \in BlockTxs(d)
      BY <2>3
    <3>2. v.pos[o[1]] = d /\ d \in Blocks
      BY <3>1, <2>1, <1>1 DEF ViewOf
    <3>3. o[1] \notin BlockTxs(b)
      BY <3>1, <1>1 DEF ChainOK, SpendsOnce
    <3> QED BY <3>2, <3>3, BlockTxsType, TreeAssumption DEF LaterInBlock
  <2> QED BY <2>2, <2>3, <1>1 DEF ChainOK, SpendsExisting
<1>3. ASSUME NEW x \in Blocks, NEW y \in Blocks
      PROVE  w.next[x] = y <=> y \in B /\ Prev[y] = x
  <2>1. w.next = [v.next EXCEPT ![Prev[b]] = Nil]
    BY DEF DisconnectBlock
  <2>2. CASE x = Prev[b]
    <3>1. w.next[x] = Nil /\ y # Nil
      BY <2>1, <2>2, TreeAssumption DEF View
    <3>2. ASSUME y \in B, Prev[y] = x PROVE FALSE
      <4>1. y # Genesis
        BY <3>2, TreeAssumption
      <4>2. y = b
        BY <4>1, <3>2, <2>2, <1>1, OneChild
      <4> QED BY <4>2, <3>2, <1>1
    <3> QED BY <3>1, <3>2
  <2>3. CASE x # Prev[b]
    <3>1. w.next[x] = v.next[x]
      BY <2>1, <2>3, <1>1 DEF View
    <3> QED BY <3>1, <2>3, <1>1 DEF ViewOf
  <2> QED BY <2>2, <2>3
<1>4. ASSUME NEW t \in Txs, NEW c \in Blocks
      PROVE  w.pos[t] = c <=> c \in B /\ t \in BlockTxs(c)
  <2>1. w.pos[t] = IF t \in BlockTxs(b) THEN Nil ELSE v.pos[t]
    BY DEF DisconnectBlock
  <2>2. CASE t \in BlockTxs(b)
    <3>1. w.pos[t] # c
      BY <2>1, <2>2, TreeAssumption
    <3>2. ~(c \in B /\ t \in BlockTxs(c))
      BY <2>2, <1>1 DEF ChainOK, SpendsOnce
    <3> QED BY <3>1, <3>2
  <2>3. CASE t \notin BlockTxs(b)
    BY <2>1, <2>3, <1>1 DEF ViewOf
  <2> QED BY <2>2, <2>3
<1>5. ASSUME NEW o \in Outpoints, NEW t \in Txs
      PROVE  w.spent[o] = t <=>
               o \in vin[t] /\ \E c \in B : t \in BlockTxs(c)
  <2>1. w.spent[o] = IF o \in BlockInputs(b) \/ o[1] \in BlockTxs(b)
                     THEN Nil ELSE v.spent[o]
    BY DEF DisconnectBlock
  <2>2. ASSUME o \in BlockInputs(b), o \in vin[t],
               NEW c \in B, t \in BlockTxs(c)
        PROVE  FALSE
    <3>1. PICK u \in BlockTxs(b) : o \in vin[u]
      BY <2>2 DEF BlockInputs
    <3>2. t = u
      BY <3>1, <2>2, <1>1 DEF ChainOK, SpendsOnce
    <3> QED BY <3>1, <3>2, <2>2, <1>1 DEF ChainOK, SpendsOnce
  <2>3. ASSUME o[1] \in BlockTxs(b), o \in vin[t], NEW c \in B, t \in BlockTxs(c)
        PROVE  FALSE
    <3>1. ChainOK(Prev[b])
      BY ChainOKPrev
    <3>2. PICK d \in B : o[1] \in BlockTxs(d)
      BY <3>1, <2>3, <1>1, InputsInChain DEF ChainOK
    <3> QED BY <3>2, <2>3, <1>1 DEF ChainOK, SpendsOnce
  <2>4. CASE o \in BlockInputs(b) \/ o[1] \in BlockTxs(b)
    BY <2>1, <2>2, <2>3, <2>4, TreeAssumption
  <2>5. CASE ~(o \in BlockInputs(b) \/ o[1] \in BlockTxs(b))
    <3>1. ~(o \in vin[t] /\ t \in BlockTxs(b))
      BY <2>5 DEF BlockInputs
    <3>2. v.spent[o] = t <=> o \in vin[t] /\ \E c \in A : t \in BlockTxs(c)
      BY DEF ViewOf
    <3> QED BY <2>1, <2>5, <3>1, <3>2, <1>1
  <2> QED BY <2>4, <2>5
<1> QED BY <1>2, <1>3, <1>4, <1>5 DEF ViewOf

\* BIP30, the spent marks and the height in the coinbase together: a block
\* that connects holds no transaction the chain below it already has.
LEMMA ConnectFresh ==
  ASSUME NEW v \in View, NEW b \in Blocks, b # Genesis,
         ViewOf(v, Prev[b]), ChainOK(Prev[b]), Connects(v, b)
  PROVE  \A t \in BlockTxs(b) : \A c \in Ancestors[Prev[b]] : t \notin BlockTxs(c)
<1> DEFINE B == Ancestors[Prev[b]]
           S == {t \in BlockTxs(b) : \E c \in B : t \in BlockTxs(c)}
<1> SUFFICES ASSUME S # {} PROVE FALSE
  OBVIOUS
<1>1. /\ Prev[b] \in Blocks /\ b \notin B /\ B \subseteq Ancestors[b]
      /\ B \subseteq Blocks
  BY ParentFacts, AncestorsSelf
<1>2. S \in SUBSET Txs
  BY BlockTxsType
<1>3. PICK t \in S : \A o \in vin[t] : o[1] \notin S
  <2> HIDE DEF S
  <2> QED BY <1>2, HashAssumption
<1>4. PICK c \in B : t \in BlockTxs(c)
  OBVIOUS
<1>5. vin[t] # {}
  <2>1. t \in Txs /\ b # c
    BY <1>1, <1>2, <1>4
  <2> QED BY <2>1, <1>1, <1>4, CoinbaseAssumption
<1>6. PICK o \in vin[t] : TRUE
  BY <1>5
<1>7. o \in Outpoints /\ o[1] \in Txs /\ t \in Txs
  BY <1>2, <1>6, InputType
<1>8. v.spent[o] = t /\ t # Nil
  BY <1>4, <1>6, <1>7, TreeAssumption DEF ViewOf
<1>9. PICK i \in DOMAIN vtx[b] : vtx[b][i] = t
  BY BlockTxsType
<1>10. InputConnects(v, b, i, o)
  BY <1>6, <1>9 DEF Connects
<1>11. EarlierInBlock(b, i, o[1])
  BY <1>8, <1>10 DEF InputConnects
<1>12. o[1] \in BlockTxs(b)
  BY <1>11, BlockTxsType DEF EarlierInBlock
<1>13. \E d \in B : o[1] \in BlockTxs(d)
  BY <1>1, <1>4, <1>6, InputsInChain DEF ChainOK
<1> QED BY <1>3, <1>6, <1>12, <1>13

\* A block that connects on top of a good chain extends it to a good chain.
LEMMA ConnectChainOK ==
  ASSUME NEW v \in View, NEW b \in Blocks, b # Genesis,
         ViewOf(v, Prev[b]), ChainOK(Prev[b]), Connects(v, b)
  PROVE  ChainOK(b)
<1> DEFINE A == Ancestors[b]
           B == Ancestors[Prev[b]]
<1>1. /\ Prev[b] \in Blocks /\ b \notin B /\ A = {b} \cup B
      /\ A \subseteq Blocks /\ B \subseteq Blocks
  BY ParentFacts, AncestorsSelf
<1>2. \A t \in BlockTxs(b) : \A c \in B : t \notin BlockTxs(c)
  BY ConnectFresh
<1>3. ASSUME NEW c \in B, NEW t \in BlockTxs(c), NEW o \in vin[t]
      PROVE  o[1] \notin BlockTxs(b)
  BY <1>1, <1>2, <1>3, InputsInChain DEF ChainOK
<1>4. ASSUME NEW c \in B, NEW u \in BlockTxs(c), NEW t \in BlockTxs(b),
             NEW o \in vin[t] \cap vin[u]
      PROVE  FALSE
  <2>1. PICK i \in DOMAIN vtx[b] : vtx[b][i] = t
    BY BlockTxsType
  <2>2. InputConnects(v, b, i, o)
    BY <2>1 DEF Connects
  <2>3. u \in Txs /\ o \in Outpoints
    BY <1>1, BlockTxsType, InputType
  <2>4. v.spent[o] = u /\ u # Nil
    BY <2>3, <1>4, TreeAssumption DEF ViewOf
  <2>5. EarlierInBlock(b, i, o[1])
    BY <2>2, <2>4 DEF InputConnects
  <2>6. o[1] \in BlockTxs(b)
    BY <2>5, BlockTxsType DEF EarlierInBlock
  <2> QED BY <2>6, <1>3
<1>5. ASSUME NEW t \in BlockTxs(b), NEW u \in BlockTxs(b),
             vin[t] \cap vin[u] # {}
      PROVE  t = u
  <2>1. PICK i \in DOMAIN vtx[b] : vtx[b][i] = t
    BY BlockTxsType
  <2>2. PICK j \in DOMAIN vtx[b] : vtx[b][j] = u
    BY BlockTxsType
  <2>3. PICK o \in vin[t] \cap vin[u] : TRUE
    BY <1>5
  <2>4. InputConnects(v, b, i, o) /\ InputConnects(v, b, j, o)
    BY <2>1, <2>2, <2>3 DEF Connects
  <2>5. ~(i < j) /\ ~(j < i)
    BY <2>1, <2>2, <2>3, <2>4 DEF InputConnects
  <2>6. i \in Nat /\ j \in Nat
    BY BlockTxsType
  <2> QED BY <2>1, <2>2, <2>5, <2>6
<1>6. SpendsOnce(b)
  <2> SUFFICES ASSUME NEW c \in A, NEW d \in A,
                      NEW t \in BlockTxs(c), NEW u \in BlockTxs(d)
               PROVE  /\ t = u => c = d
                      /\ vin[t] \cap vin[u] # {} => t = u
    BY DEF SpendsOnce
  <2>1. CASE c \in B /\ d \in B
    BY <2>1 DEF ChainOK, SpendsOnce
  <2>2. CASE c = b /\ d = b
    BY <2>2, <1>5
  <2>3. CASE c = b /\ d \in B
    BY <2>3, <1>2, <1>4
  <2>4. CASE c \in B /\ d = b
    BY <2>4, <1>2, <1>4
  <2> QED BY <2>1, <2>2, <2>3, <2>4, <1>1
<1>7. ASSUME NEW i \in DOMAIN vtx[b], NEW o \in vin[vtx[b][i]],
             ~EarlierInBlock(b, i, o[1])
      PROVE  /\ v.pos[o[1]] \in B /\ o[1] \in BlockTxs(v.pos[o[1]])
             /\ o[1] \in Minted => Height[b] - Height[v.pos[o[1]]] >= Maturity
  <2>1. InputConnects(v, b, i, o)
    BY DEF Connects
  <2>2. o[1] \in Txs
    BY BlockTxsType, InputType
  <2>3. v.pos[o[1]] \in Blocks
    BY <2>1, <2>2, <1>7 DEF InputConnects, View
  <2>4. v.pos[o[1]] \in B /\ o[1] \in BlockTxs(v.pos[o[1]])
    BY <2>2, <2>3 DEF ViewOf
  <2> QED BY <2>1, <2>4, <1>1, <1>7 DEF InputConnects
<1>8. SpendsExisting(b)
  <2> SUFFICES ASSUME NEW c \in A, NEW i \in DOMAIN vtx[c], NEW o \in vin[vtx[c][i]]
               PROVE  \/ EarlierInBlock(c, i, o[1])
                      \/ \E d \in Ancestors[c] \ {c} : o[1] \in BlockTxs(d)
    BY DEF SpendsExisting
  <2>1. CASE c \in B
    BY <2>1 DEF ChainOK, SpendsExisting
  <2>2. CASE c = b
    BY <2>2, <1>1, <1>7
  <2> QED BY <2>1, <2>2, <1>1
<1>9. SpendsMature(b)
  <2> SUFFICES ASSUME NEW c \in A, NEW d \in A, NEW t \in BlockTxs(c),
                      NEW o \in vin[t], o[1] \in Minted \cap BlockTxs(d)
               PROVE  Height[c] - Height[d] >= Maturity
    BY DEF SpendsMature
  <2>1. CASE c \in B /\ d \in B
    BY <2>1 DEF ChainOK, SpendsMature
  <2>2. CASE c \in B /\ d = b
    BY <2>2, <1>3
  <2>3. CASE c = b
    <3>1. PICK i \in DOMAIN vtx[b] : vtx[b][i] = t
      BY <2>3, BlockTxsType
    <3>2. CASE EarlierInBlock(b, i, o[1])
      <4>1. o[1] \in BlockTxs(b)
        BY <3>2, BlockTxsType DEF EarlierInBlock
      <4>2. d = b
        BY <4>1, <1>1, <1>6 DEF SpendsOnce
      <4>3. InputConnects(v, b, i, o)
        BY <3>1 DEF Connects
      <4>4. Maturity = 0
        BY <4>3, <3>2 DEF InputConnects
      <4>5. Height[b] \in Nat
        BY TreeAssumption
      <4> QED BY <4>2, <4>4, <4>5, <2>3
    <3>3. CASE ~EarlierInBlock(b, i, o[1])
      <4>1. /\ v.pos[o[1]] \in B /\ o[1] \in BlockTxs(v.pos[o[1]])
            /\ Height[b] - Height[v.pos[o[1]]] >= Maturity
        BY <3>1, <3>3, <1>7
      <4>2. v.pos[o[1]] = d
        BY <4>1, <1>1, <1>6 DEF SpendsOnce
      <4> QED BY <4>1, <4>2, <2>3
    <3> QED BY <3>2, <3>3
  <2> QED BY <2>1, <2>2, <2>3, <1>1
<1>10. A \cap BadBlocks = {}
  BY <1>1 DEF ChainOK, Connects
<1> QED BY <1>6, <1>8, <1>9, <1>10 DEF ChainOK

\* ConnectBlock leaves exactly the state of the chain with the block on top.
LEMMA ConnectTip ==
  ASSUME NEW v \in View, NEW b \in Blocks, b # Genesis,
         ViewOf(v, Prev[b]), ChainOK(Prev[b]), Connects(v, b),
         NEW pnext \in [Blocks -> Blocks \cup {Nil}], pnext[b] = Nil
  PROVE  ViewOf(ConnectBlock(v, b, pnext), b)
<1> DEFINE w == ConnectBlock(v, b, pnext)
           A == Ancestors[b]
           B == Ancestors[Prev[b]]
<1>1. /\ Prev[b] \in Blocks /\ Prev[b] # b /\ b \notin B /\ A = {b} \cup B
      /\ A \subseteq Blocks /\ B \subseteq Blocks
      /\ \A y \in A : Prev[y] # b
  BY ParentFacts, AncestorsSelf
<1>2. \A t \in BlockTxs(b) : \A c \in B : t \notin BlockTxs(c)
  BY ConnectFresh
<1>3. ChainOK(b)
  BY ConnectChainOK
<1>4. ASSUME NEW x \in Blocks, NEW y \in Blocks
      PROVE  w.next[x] = y <=> y \in A /\ Prev[y] = x
  <2>1. w.next = [v.next EXCEPT ![b] = pnext[b], ![Prev[b]] = b]
    BY DEF ConnectBlock
  <2>2. CASE x = b
    <3>1. w.next[x] = Nil /\ y # Nil
      BY <2>1, <2>2, <1>1, TreeAssumption DEF View
    <3> QED BY <3>1, <2>2, <1>1
  <2>3. CASE x = Prev[b]
    <3>1. w.next[x] = b
      BY <2>1, <2>3, <1>1 DEF View
    <3>2. ASSUME y \in A, Prev[y] = x PROVE y = b
      <4>1. y # Genesis
        BY <3>2, TreeAssumption
      <4> QED BY <4>1, <3>2, <2>3, <1>1, OneChild
    <3> QED BY <3>1, <3>2, <2>3, <1>1
  <2>4. CASE x # b /\ x # Prev[b]
    <3>1. w.next[x] = v.next[x]
      BY <2>1, <2>4, <1>1 DEF View
    <3> QED BY <3>1, <2>4, <1>1 DEF ViewOf
  <2> QED BY <2>2, <2>3, <2>4
<1>5. ASSUME NEW t \in Txs, NEW c \in Blocks
      PROVE  w.pos[t] = c <=> c \in A /\ t \in BlockTxs(c)
  <2>1. w.pos[t] = IF t \in BlockTxs(b) THEN b ELSE v.pos[t]
    BY DEF ConnectBlock
  <2> QED BY <2>1, <1>1, <1>2 DEF ViewOf
<1>6. ASSUME NEW o \in Outpoints, NEW t \in Txs
      PROVE  w.spent[o] = t <=> o \in vin[t] /\ \E c \in A : t \in BlockTxs(c)
  <2>1. w.spent[o] = IF o \in BlockInputs(b)
                     THEN CHOOSE u \in BlockTxs(b) : o \in vin[u]
                     ELSE IF o[1] \in BlockTxs(b) THEN Nil ELSE v.spent[o]
    BY DEF ConnectBlock
  <2>2. CASE o \in BlockInputs(b)
    <3>1. \E u \in BlockTxs(b) : o \in vin[u]
      BY <2>2 DEF BlockInputs
    <3>2. w.spent[o] \in BlockTxs(b) /\ o \in vin[w.spent[o]]
      BY <3>1, <2>1, <2>2
    <3>3. ASSUME o \in vin[t], NEW c \in A, t \in BlockTxs(c)
          PROVE  t = w.spent[o]
      <4>1. o \in vin[t] \cap vin[w.spent[o]]
        BY <3>2, <3>3
      <4> HIDE DEF w
      <4> QED BY <4>1, <3>2, <3>3, <1>1, <1>3 DEF ChainOK, SpendsOnce
    <3> QED BY <3>2, <3>3, <1>1
  <2>3. CASE o \notin BlockInputs(b) /\ o[1] \in BlockTxs(b)
    <3>1. w.spent[o] # t
      BY <2>1, <2>3, TreeAssumption
    <3>2. ASSUME o \in vin[t], NEW c \in A, t \in BlockTxs(c) PROVE FALSE
      <4>1. c # b
        BY <2>3, <3>2 DEF BlockInputs
      <4>2. \E d \in B : o[1] \in BlockTxs(d)
        BY <4>1, <3>2, <1>1, InputsInChain DEF ChainOK
      <4> QED BY <4>2, <2>3, <1>2
    <3> QED BY <3>1, <3>2
  <2>4. CASE o \notin BlockInputs(b) /\ o[1] \notin BlockTxs(b)
    <3>1. ~(o \in vin[t] /\ t \in BlockTxs(b))
      BY <2>4 DEF BlockInputs
    <3>2. v.spent[o] = t <=> o \in vin[t] /\ \E c \in B : t \in BlockTxs(c)
      BY DEF ViewOf
    <3> QED BY <2>1, <2>4, <3>1, <3>2, <1>1
  <2> QED BY <2>2, <2>3, <2>4
<1> QED BY <1>4, <1>5, <1>6 DEF ViewOf

\* Both operations leave a view.
LEMMA ViewType ==
  ASSUME NEW v \in View, NEW b \in Blocks, b # Genesis,
         NEW pnext \in [Blocks -> Blocks \cup {Nil}]
  PROVE  ConnectBlock(v, b, pnext) \in View /\ DisconnectBlock(v, b) \in View
<1>1. /\ v.next \in [Blocks -> Blocks \cup {Nil}]
      /\ v.pos \in [Txs -> Blocks \cup {Nil}]
      /\ v.spent \in [Outpoints -> Txs \cup {Nil}]
      /\ Prev[b] \in Blocks
  BY TreeAssumption DEF View
<1>2. ASSUME NEW o \in BlockInputs(b)
      PROVE  (CHOOSE t \in BlockTxs(b) : o \in vin[t]) \in Txs
  BY BlockTxsType DEF BlockInputs
<1>3. ConnectBlock(v, b, pnext) \in View
  <2>1. ConnectBlock(v, b, pnext).next \in [Blocks -> Blocks \cup {Nil}]
    BY <1>1 DEF ConnectBlock
  <2>2. ConnectBlock(v, b, pnext).pos \in [Txs -> Blocks \cup {Nil}]
    BY <1>1 DEF ConnectBlock
  <2>3. ConnectBlock(v, b, pnext).spent \in [Outpoints -> Txs \cup {Nil}]
    BY <1>1, <1>2 DEF ConnectBlock
  <2> QED BY <2>1, <2>2, <2>3 DEF ConnectBlock, View
<1>4. DisconnectBlock(v, b) \in View
  BY <1>1 DEF DisconnectBlock, View
<1> QED BY <1>3, <1>4

\* The empty database is the state of the chain that is only Genesis.
LEMMA EmptyViewOf == EmptyView \in View /\ ViewOf(EmptyView, Genesis)
                       /\ ChainOK(Genesis)
<1>1. BlockTxs(Genesis) = {}
  BY TxAssumption DEF BlockTxs
<1>2. Ancestors[Genesis] = {Genesis} /\ Genesis \in Blocks /\ Nil \notin Blocks
        /\ Prev[Genesis] = Nil /\ Nil \notin Txs /\ Genesis \notin BadBlocks
  BY AncestorsGenesis, TreeAssumption
<1>3. ViewOf(EmptyView, Genesis)
  BY <1>1, <1>2 DEF ViewOf, EmptyView
<1>4. ChainOK(Genesis)
  <2>1. DOMAIN vtx[Genesis] = {}
    BY TxAssumption
  <2> QED BY <2>1, <1>1, <1>2 DEF ChainOK, SpendsOnce, SpendsExisting, SpendsMature
<1> QED BY <1>3, <1>4 DEF EmptyView, View

\* A good chain is good up to any of its blocks.
LEMMA ChainOKAncestor ==
  ASSUME NEW b \in Blocks, ChainOK(b), NEW c \in Ancestors[b]
  PROVE  ChainOK(c)
BY AncestorsTransitive DEF ChainOK, SpendsOnce, SpendsExisting, SpendsMature

\* ConnectBlock refuses no block of a good chain: what it checks against the
\* index holds in the state of the chain below.
LEMMA ValidConnects ==
  ASSUME NEW v \in View, NEW b \in Blocks, b # Genesis,
         ViewOf(v, Prev[b]), ChainOK(b)
  PROVE  Connects(v, b)
<1> DEFINE A == Ancestors[b]
           B == Ancestors[Prev[b]]
<1>1. /\ Prev[b] \in Blocks /\ b \notin B /\ A = {b} \cup B
      /\ A \subseteq Blocks /\ b \in A
  BY ParentFacts, AncestorsSelf
<1>2. b \notin BadBlocks
  BY <1>1 DEF ChainOK
<1>3. ASSUME NEW t \in BlockTxs(b) PROVE MayOverwrite(v, t)
  <2>1. t \in Txs
    BY BlockTxsType
  <2>2. ASSUME v.pos[t] # Nil PROVE FALSE
    <3>1. v.pos[t] \in Blocks
      BY <2>1, <2>2 DEF View
    <3>2. v.pos[t] \in B /\ t \in BlockTxs(v.pos[t])
      BY <2>1, <3>1 DEF ViewOf
    <3> QED BY <1>1, <3>2 DEF ChainOK, SpendsOnce
  <2> QED BY <2>2 DEF MayOverwrite
<1>4. ASSUME NEW i \in DOMAIN vtx[b], NEW o \in vin[vtx[b][i]]
      PROVE  InputConnects(v, b, i, o)
  <2> DEFINE t == vtx[b][i]
  <2>1. t \in BlockTxs(b) /\ t \in Txs /\ o \in Outpoints /\ o[1] \in Txs
    BY BlockTxsType, InputType
  <2>2. ASSUME NEW j \in DOMAIN vtx[b], j < i, o \in vin[vtx[b][j]] PROVE FALSE
    <3>1. vtx[b][j] = t
      BY <1>1, <2>1, <2>2, BlockTxsType DEF ChainOK, SpendsOnce
    <3>2. j = i /\ i \in Nat
      BY <3>1, TxAssumption, BlockTxsType
    <3> QED BY <2>2, <3>2
  <2>3. CASE EarlierInBlock(b, i, o[1])
    <3>1. o[1] \in BlockTxs(b)
      BY <2>3, BlockTxsType DEF EarlierInBlock
    <3>2. o[1] \in Minted => Height[b] - Height[b] >= Maturity
      BY <1>1, <2>1, <3>1 DEF ChainOK, SpendsMature
    <3>3. Height[b] \in Nat /\ Maturity \in Nat
      BY TreeAssumption
    <3>4. o[1] \in Minted => Maturity = 0
      BY <3>2, <3>3
    <3> QED BY <2>2, <2>3, <3>4 DEF InputConnects
  <2>4. CASE ~EarlierInBlock(b, i, o[1])
    <3>1. PICK d \in A \ {b} : o[1] \in BlockTxs(d)
      BY <1>1, <2>4 DEF ChainOK, SpendsExisting
    <3>2. d \in B /\ d \in Blocks
      BY <1>1
    <3>3. v.pos[o[1]] = d /\ d # Nil
      BY <2>1, <3>1, <3>2, TreeAssumption DEF ViewOf
    <3>4. ASSUME v.spent[o] # Nil PROVE FALSE
      <4>1. v.spent[o] \in Txs
        BY <2>1, <3>4 DEF View
      <4>2. PICK c \in B : v.spent[o] \in BlockTxs(c)
        BY <2>1, <4>1 DEF ViewOf
      <4>3. o \in vin[v.spent[o]]
        BY <2>1, <4>1 DEF ViewOf
      <4>4. v.spent[o] = t
        BY <1>1, <2>1, <4>2, <4>3 DEF ChainOK, SpendsOnce
      <4> QED BY <1>1, <2>1, <4>2, <4>4 DEF ChainOK, SpendsOnce
    <3>5. o[1] \in Minted => Height[b] - Height[d] >= Maturity
      BY <1>1, <2>1, <3>1 DEF ChainOK, SpendsMature
    <3> QED BY <2>2, <2>4, <3>3, <3>4, <3>5 DEF InputConnects
  <2> QED BY <2>3, <2>4
<1> QED BY <1>2, <1>3, <1>4 DEF Connects
=============================================================================
