----------------------------- MODULE MCGAttrib -----------------------------
(* Instances of GAttrib, with the transport under it, for TLC. *)
EXTENDS GAttrib, TLC

CONSTANTS r1, r2, i1, p1
=============================================================================
