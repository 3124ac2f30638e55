------------------------- MODULE MCGeneralAllocator -------------------------
(* Over malloc three pools fit, each of which can be split in two and      *)
(* merged again; with pages of four, three pools lie side by side and two  *)
(* halves of neighbours are as long as a pool.                             *)
EXTENDS GeneralAllocator
=============================================================================
