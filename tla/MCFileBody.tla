----------------------------- MODULE MCFileBody -----------------------------
(* An instance of FileBody: three sectors of two units, and bodies that    *)
(* fit into an item, into one sector and into two.                         *)
EXTENDS FileBody

MCBodies == {<<1, 1>>, <<1, 2>>, <<1, 3>>, <<0, 3>>}
=============================================================================
