---------------------------- MODULE MCDrawClient ----------------------------
(* TLC instances of DrawClient. *)
EXTENDS DrawClient

CONSTANTS a, b, f1, f2, v1, v2

Entity(kind, chunks, frame, val, rels) ==
    [kind |-> kind, chunks |-> chunks, frame |-> frame, val |-> val, rels |-> rels]

\* The content v2 is placed in the frame f1.
Placed == [v \in Vals |-> IF v = v2 THEN f1 ELSE World]

\* a is the frame f1 and switches kind; b stays a drawing, is at the root and
\* links to a, or is in the frame of a, chunked or not.
MixedOffers ==
    [id \in Ids |->
        IF id = a THEN {Entity("transform", FALSE, f1, v1, {}), Entity("drawing", FALSE, f1, v1, {})}
        ELSE {Entity("drawing", FALSE, f2, v1, {a}), Entity("drawing", FALSE, f2, v2, {}),
              Entity("drawing", TRUE, f2, v2, {})}]

\* Each UUID keeps its kind.
LinkOffers ==
    [id \in Ids |->
        {IF id = a THEN Entity("drawing", FALSE, f1, v1, {})
         ELSE Entity("drawing", TRUE, f2, v1, {a})}]

=============================================================================
