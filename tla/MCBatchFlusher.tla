--------------------------- MODULE MCBatchFlusher ---------------------------
(***************************************************************************)
(* BatchFlusher with three fills and a capacity of two, so that a flush is *)
(* started by the timer, by a full buffer and by the closed channel, with  *)
(* retries and first tries in one batch.                                   *)
(***************************************************************************)
EXTENDS BatchFlusher
=============================================================================
