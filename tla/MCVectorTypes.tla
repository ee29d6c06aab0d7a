--------------------------- MODULE MCVectorTypes ----------------------------
(***************************************************************************)
(* VectorTypes started from every vector type of up to 32 lanes that fits.*)
(***************************************************************************)
EXTENDS VectorTypes

MCLaneCounts == 1..32
=============================================================================
