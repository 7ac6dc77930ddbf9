---------------------------- MODULE MCAddrSpace ----------------------------
(* AddrSpace for TLC.  The area has four or five pages, of which the last  *)
(* is never handed out (the bounds test of map_vma); Addrs holds 0 (no     *)
(* hint), an address below the area, and addresses in it, one of them      *)
(* unaligned.                                                              *)
EXTENDS AddrSpace

MCAddrs == {0, 4, 8, 10, 13, 14, 16}
MCLengths == {1, 3, 6}
=============================================================================
