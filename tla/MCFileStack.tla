---------------------------- MODULE MCFileStack ----------------------------
(* FileStack with one accessible path and one that is blocked.  The file   *)
(* is not there before user code creates it.                               *)
EXTENDS FileStack

MCPaths == {<<1, 2>>, <<2, 1>>}
MCDirs == {<<1>>}
MCExisting == {}
PlainOrCreat == {{}, {"O_CREAT", "O_TRUNC"}}
OpenedFds == {3, 4}
=============================================================================
