----------------------------- MODULE MCSession -----------------------------
(* Two goroutines on an image with two node blocks, so that every block    *)
(* that is given back is soon used again.                                  *)
EXTENDS Session

CONSTANTS a, b, x, y

MCThreads == {x, y}
MCBlocks == {a, b}
=============================================================================
