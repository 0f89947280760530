--------------------------- MODULE MCInfantryLink ---------------------------
(* A limit of three uses instead of ten: a first, a middle and a last one.  *)
EXTENDS InfantryLink
==============================================================================
