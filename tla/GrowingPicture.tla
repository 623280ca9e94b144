--------------------------- MODULE GrowingPicture ---------------------------
(***************************************************************************)
(* What a viewer is promised of a drawing sent in chunks: it begins with   *)
(* the first chunk, grows by one chunk at a time and in order, gives way   *)
(* to a newer draw only, and may be taken away. ChunkTransfer implements   *)
(* it, with everything between the producer and the screen.                *)
(***************************************************************************)
EXTENDS Naturals

CONSTANTS Total, Draws

VARIABLES draw,     \* the draw on the screen, 0 for none
          filled    \* its chunks on the screen

vars == <<draw, filled>>

Init == draw = 0 /\ filled = {}

Begin(d) ==
    /\ d > draw
    /\ draw' = d /\ filled' = {1}

Grow ==
    /\ draw # 0
    /\ \E n \in 1 .. Total - 1 :
          /\ filled = 1 .. n
          /\ filled' = 1 .. n + 1
    /\ UNCHANGED draw

TakeAway == draw' = 0 /\ filled' = {}

Next == (\E d \in Draws : Begin(d)) \/ Grow \/ TakeAway

Spec == Init /\ [][Next]_vars

=============================================================================
