--------------------------- MODULE MCTxSubmitter ---------------------------
(***************************************************************************)
(* TxSubmitter with two calls of three attempts, two failing RPC calls and *)
(* one transaction of the signer's other client: enough for a transaction  *)
(* whose answer is lost, one that is replaced, and a resync whose count is *)
(* old when it is stored, while the other call races with each.            *)
(***************************************************************************)
EXTENDS TxSubmitter
=============================================================================
