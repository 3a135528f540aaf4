------------------------- MODULE MCCheckpointLocks -------------------------
(***************************************************************************)
(* The message handler thread and two miners (stake and work).             *)
(***************************************************************************)
EXTENDS CheckpointLocks

CONSTANTS net, stake, work
=============================================================================
