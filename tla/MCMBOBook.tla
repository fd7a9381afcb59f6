----------------------------- MODULE MCMBOBook -----------------------------
(* One book of either kind for TLC: three prices and one past the array,     *)
(* quantities that fit their level.                                          *)
EXTENDS MBOBook

MCPriceInputs == 0 .. MAX_PRICE_LEVELS
=============================================================================
