------------------------- MODULE MCSidebandInvariant -------------------------
(* The parser of MCSideband, where the header's fields reach to its end. *)
EXTENDS SidebandInvariant, MCSideband
==============================================================================
