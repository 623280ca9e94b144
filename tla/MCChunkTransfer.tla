--------------------------- MODULE MCChunkTransfer ---------------------------
(* Instances of ChunkTransfer for TLC: one or two draws of a drawing of a  *)
(* few chunks, one loss of the stream.                                     *)
EXTENDS ChunkTransfer

=============================================================================
