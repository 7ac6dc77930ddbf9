------------------------------- MODULE MCBrk -------------------------------
(* Brk for TLC: pages of two bytes, a stack page at 2, a heap that may grow *)
(* by three pages, an mmap area of three pages above it, of which the last  *)
(* is never handed out, and every argument: inside, at the edge of and      *)
(* above a page, in each of the regions and beyond user space.              *)
EXTENDS Brk

MCOther == {2}
MCAddrs == 0 .. USER_END
=============================================================================
