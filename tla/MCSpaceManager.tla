--------------------------- MODULE MCSpaceManager ---------------------------
(* A small image for SpaceManager: sectors of two units, nodes of two      *)
(* sectors, a SYSTEM chunk and two chunks that are listed out of order,    *)
(* the second of them around a superblock copy.                            *)
EXTENDS SpaceManager

Chunk(start, size, profile) ==
  [physStart |-> start, size |-> size, profile |-> profile]

MCChunks == << Chunk(4, 4, {"system"}),
               Chunk(22, 6, {"data", "metadata"}),
               Chunk(8, 10, {"metadata"}) >>
MCFixed == {Extent(0, 4), Extent(14, 2)}
MCFormatted == {Extent(8, 4)}
=============================================================================
