------------------------------ MODULE BestChain ------------------------------
(***************************************************************************)
(* What the rest of the node expects of the best chain: a set of indexed   *)
(* blocks and the tip of the best chain, which a call of SetBestChain      *)
(* moves in one step to the block it was called for, or not at all.        *)
(***************************************************************************)
EXTENDS Integers

CONSTANTS Blocks, Genesis, Nil, Prev, ChainTrust, Ancestors,
    Valid,    \* the blocks whose chain every node would connect
    Payees    \* the blocks a node may refuse for a payee it does not know

VARIABLES
    index,    \* the indexed blocks
    best,     \* the tip of the best chain
    job       \* the block SetBestChain is called for, Nil between calls

vars == <<index, best, job>>

Init == index = {Genesis} /\ best = Genesis /\ job = Nil

\* A block arrives; SetBestChain is called for it if its chain has more trust.
Arrive(b) ==
  /\ job = Nil
  /\ b \notin index /\ Prev[b] \in index
  /\ index' = index \cup {b}
  /\ job' = IF ChainTrust[b] > ChainTrust[best] THEN b ELSE Nil
  /\ UNCHANGED best

\* A checkpoint asks for a block off the best chain, whatever its trust.
Switch(c) ==
  /\ job = Nil
  /\ c \in index \ Ancestors[best]
  /\ job' = c
  /\ UNCHANGED <<index, best>>

\* Start-up finds a bad block and asks for an ancestor of the tip.
GoBack(f) ==
  /\ job = Nil
  /\ f \in Ancestors[best] \ {best}
  /\ job' = f
  /\ UNCHANGED <<index, best>>

\* The call ends on the block it was called for, whose chain is valid.
Succeed ==
  /\ job \in Valid
  /\ best' = job
  /\ job' = Nil
  /\ UNCHANGED index

\* The call ends where it began: the chain is not valid, or the block that
\* would follow the tip is one the node refuses for now.
Fail ==
  /\ job # Nil
  /\ job \notin Valid \/ \E c \in Payees \cap Ancestors[job] : Prev[c] = best
  /\ job' = Nil
  /\ UNCHANGED <<index, best>>

\* The process dies inside the call.  The tip at the next start is the old one,
\* the block asked for, or one on the way to it with more trust than the old;
\* its chain is valid.
Reached == {best, job} \cup {x \in Ancestors[job] : ChainTrust[x] > ChainTrust[best]}

Interrupt ==
  /\ job # Nil
  /\ best' \in Reached \cap Valid
  /\ job' = Nil
  /\ UNCHANGED index

Next ==
  \/ \E b \in Blocks : Arrive(b) \/ Switch(b) \/ GoBack(b)
  \/ Succeed \/ Fail \/ Interrupt

Spec == Init /\ [][Next]_vars
=============================================================================
