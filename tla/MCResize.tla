------------------------------ MODULE MCResize ------------------------------
(* Instances of Resize: small images as a mount finds them. *)
EXTENDS Resize, TLC

File(f, start, len) == [file |-> f, start |-> start, len |-> len]
Image(a, b, root, fs, ext, d, files) ==
  [size |-> 1 + a + b, chunk |-> (1 :> a) @@ (11 :> b), listed |-> FALSE,
   root |-> root, fs |-> fs, ext |-> ext, dev |-> d, files |-> files]

MCLayouts == {
  \* one chunk, the files at its end
  Image(12, 0, 1, 2, 3, <<4>>, {File(1, 10, 2), File(2, 12, 1)}),
  \* the trees at its end, the dev tree in two levels
  Image(12, 0, 12, 1, 2, <<3, 11>>, {File(1, 5, 2)}),
  \* the extent tree and a file at its end, and the chunk in the sys_chunk_array
  [Image(12, 0, 1, 2, 12, <<3>>, {File(1, 11, 1)}) EXCEPT !.listed = TRUE],
  \* only the FS leaf at its end
  Image(12, 0, 1, 12, 2, <<3>>, {File(1, 5, 2)}),
  \* two chunks, the second one with a tree and a file
  Image(10, 2, 1, 2, 3, <<11>>, {File(1, 12, 1)})
}

\* The units below the tail hold one file, and leave one unit for what is moved.
FullLayouts == {Image(12, 0, 12, 1, 2, <<3>>, {File(1, 11, 1), File(2, 4, 5)})}
=============================================================================
