-------------------------------- MODULE MCTxDB --------------------------------
(***************************************************************************)
(* Two writers on two records, and a reader; two changes in a transaction, *)
(* enough for a put and a delete of one key in either order.               *)
(***************************************************************************)
EXTENDS TxDB
=============================================================================
