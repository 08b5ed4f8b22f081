---------------------------- MODULE MCPanicState ----------------------------
(* Instances of PanicState for TLC.  Two processes hold at most four inodes *)
(* at a time, so five always leave one free.                                *)
EXTENDS PanicState

CONSTANTS i1, i2, i3, i4, i5
=============================================================================
