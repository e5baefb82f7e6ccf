------------------------- MODULE MCExpansionModule -------------------------
(* ExpansionModule for TLC: the constants are numbers of the configuration. *)
EXTENDS ExpansionModule
=============================================================================
