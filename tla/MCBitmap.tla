------------------------------- MODULE MCBitmap -------------------------------
(* Bitmap with the exclusive or of ids, and two blocks.  A run with two threads *)
(* executes only the first of them, and not as often: with one block two        *)
(* threads already race for a byte and join edges.                              *)
EXTENDS Bitmap, Bitwise

CONSTANTS b1, b2

MCXor(a, b) == a ^^ b

MCBound ==
  (\E t \in Threads \ {Main} : pc[t] # "none") =>
    /\ program.id[b2] = 0
    /\ \A t \in Threads : path[t] \in Seq({b1}) /\ Len(path[t]) < MaxBlocks
===============================================================================
