--------------------------- MODULE MCSystemProxy ----------------------------
(* Instances of SystemProxy for TLC: two user settings and up to two       *)
(* configured inbound ports.                                               *)
EXTENDS SystemProxy

CONSTANTS off, direct, port1, port2
=============================================================================
