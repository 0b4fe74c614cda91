--------------------------- MODULE MCBatchBuffer ---------------------------
(* BatchBuffer for TLC.  Five records fill the channel of four and leave one *)
(* sender blocked; the last batch is below the batch size.                   *)
EXTENDS BatchBuffer

CONSTANTS p1, p2

MCPerProducer == [p \in Producers |-> IF p = p1 THEN 3 ELSE 2]
=============================================================================
