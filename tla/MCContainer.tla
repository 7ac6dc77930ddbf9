---------------------------- MODULE MCContainer ----------------------------
(* Container with two accessible paths, of which one exists, and one that  *)
(* is blocked.  A path is a sequence of characters, here numbers: dirs     *)
(* holds <<1>>.                                                            *)
EXTENDS Container

MCPaths == {<<1, 2>>, <<1>>, <<2, 1>>}
MCDirs == {<<1>>}
MCExisting == {<<1, 2>>, <<2, 1>>}
=============================================================================
