----------------------------- MODULE MCChainState -----------------------------
(***************************************************************************)
(* Two branches from p, which follows r, the block that mints c0. The      *)
(* branches hold conflicting transactions (t1 and t2 spend one output), a  *)
(* common one (t4), children of transactions (t3 in its parent's block, t5 *)
(* later) and a coinstake (s).  t6, in no block, spends what s spends, t7  *)
(* spends t6 and t8 spends t3.  b3 repeats a spend made in b1; a3 is bad   *)
(* in itself where the configuration says so, and x4 builds on it.         *)
(***************************************************************************)
EXTENDS ChainState, TLC

CONSTANTS g, r, p, a1, a2, a3, x4, b1, b2, b3, b3ok,
          c0, s, t1, t2, t3, t4, t5, t6, t7, t8

AllPrev == g :> Nil @@ r :> g @@ p :> r
             @@ a1 :> p @@ a2 :> a1 @@ a3 :> a2 @@ x4 :> a3
             @@ b1 :> p @@ b2 :> b1 @@ b3 :> b2 @@ b3ok :> b2
AllHeight == g :> 0 @@ r :> 1 @@ p :> 2 @@ a1 :> 3 @@ a2 :> 4 @@ a3 :> 5
               @@ x4 :> 6 @@ b1 :> 3 @@ b2 :> 4 @@ b3 :> 5 @@ b3ok :> 5
\* b2 has as much trust as a2: the first of the two to arrive stays.
AllTrust == g :> 1 @@ r :> 2 @@ p :> 3 @@ a1 :> 4 @@ a2 :> 6 @@ a3 :> 8
              @@ x4 :> 10 @@ b1 :> 5 @@ b2 :> 6 @@ b3 :> 7 @@ b3ok :> 7
Allvtx == g :> <<>> @@ r :> <<c0>> @@ p :> <<>>
            @@ a1 :> <<t1, t3, t4>> @@ a2 :> <<>> @@ a3 :> <<>> @@ x4 :> <<t5>>
            @@ b1 :> <<t2>> @@ b2 :> <<s, t4>> @@ b3 :> <<t1>> @@ b3ok :> <<t5>>
Allvin == c0 :> {} @@ s :> {<<c0, 2>>} @@ t1 :> {<<c0, 0>>} @@ t2 :> {<<c0, 0>>}
            @@ t3 :> {<<t1, 0>>} @@ t4 :> {<<c0, 1>>} @@ t5 :> {<<t4, 0>>}
            @@ t6 :> {<<c0, 2>>} @@ t7 :> {<<t6, 0>>} @@ t8 :> {<<t3, 0>>}

MCPrev == [b \in Blocks |-> AllPrev[b]]
MCHeight == [b \in Blocks |-> AllHeight[b]]
MCChainTrust == [b \in Blocks |-> AllTrust[b]]
MCvin == [t \in Txs |-> Allvin[t]]
MCNumOut == [t \in Txs |-> IF t = c0 THEN 3 ELSE 1]
MCvtx == [b \in Blocks |-> Allvtx[b]]
=============================================================================
