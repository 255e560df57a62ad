------------------------------ MODULE MCCommit ------------------------------
(* Instances of Commit. *)
EXTENDS Commit

\* Everything but failed writes to the ROOT_TREE and the EXTENT_TREE, and mounts
\* of images whose last operation failed.
FsFaultNext ==
  \/ FsChange \/ CowFails \/ Refuse
  \/ updateRootItem
  \/ rebuildInPlace \/ buildMultiLevelExtentTree \/ noRoomForExtents
  \/ writeSuperblock \/ writeSuperblockFails
  \/ result = "ok" /\ OpenFromDevices

FsFaultSpec == Init /\ [][FsFaultNext]_vars
=============================================================================
