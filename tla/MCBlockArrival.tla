--------------------------- MODULE MCBlockArrival ---------------------------
(***************************************************************************)
(* Two branches, a1, a2, a3 and b1, b2, b3, and a side branch of each, d2  *)
(* after a1 and c2, c3 after b1; g stands for the chain below the fork.    *)
(* a2 and b2 are made from one stake, with its kernel below the fork; the  *)
(* kernel of c2 is b1.                                                     *)
(***************************************************************************)
EXTENDS BlockArrival, TLC

CONSTANTS g, a1, a2, a3, b1, b2, b3, c2, c3, d2

Of(f) == [b \in Blocks |-> f[b]]

MCPrev == Of(g :> Nil @@ a1 :> g @@ a2 :> a1 @@ a3 :> a2 @@ d2 :> a1
             @@ b1 :> g @@ b2 :> b1 @@ b3 :> b2 @@ c2 :> b1 @@ c3 :> c2)
MCHeight == Of(g :> 0 @@ a1 :> 1 @@ a2 :> 2 @@ a3 :> 3 @@ d2 :> 2
               @@ b1 :> 1 @@ b2 :> 2 @@ b3 :> 3 @@ c2 :> 2 @@ c3 :> 3)
MCChainTrust == Of(g :> 1 @@ a1 :> 2 @@ a2 :> 4 @@ a3 :> 6 @@ d2 :> 3
                   @@ b1 :> 3 @@ b2 :> 7 @@ b3 :> 9 @@ c2 :> 5 @@ c3 :> 8)
MCvtx == [b \in Blocks |-> <<>>]
NoTx == [t \in {} |-> {}]
MCStake == [b \in Blocks |-> IF b \in {a2, b2} THEN 1 ELSE IF b = c2 THEN 2 ELSE Nil]
MCKernel == [b \in Blocks |-> IF b \in {a2, b2} THEN g ELSE IF b = c2 THEN b1 ELSE Nil]
=============================================================================
