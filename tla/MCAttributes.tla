---------------------------- MODULE MCAttributes ----------------------------
(* An instance of Attributes: "user.a" and "user.b" have one hash.          *)
EXTENDS Attributes

MCHash == [n \in Names |-> IF n = "user.b" THEN "user.a" ELSE n]
=============================================================================
