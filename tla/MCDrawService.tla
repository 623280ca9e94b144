--------------------------- MODULE MCDrawService ---------------------------
(* TLC instances of DrawService. *)
EXTENDS DrawService

CONSTANTS a, b, c, f1, v1, v2

Transform(v) == [kind |-> "transform", chunks |-> FALSE, frame |-> f1, val |-> v, rels |-> {}]
Drawing(v)   == [kind |-> "drawing", chunks |-> FALSE, frame |-> f1, val |-> v, rels |-> {}]
Chunked(v)   == [kind |-> "drawing", chunks |-> TRUE, frame |-> f1, val |-> v, rels |-> {}]

TransformOrChunked == {Transform(v1), Chunked(v1)}
ChunkedPayloads == {Drawing(v1), Chunked(v1)}
ContentPayloads == {Transform(v1), Drawing(v1), Chunked(v1), Chunked(v2)}

=============================================================================
