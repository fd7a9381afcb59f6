-------------------------- MODULE MCMBOBookWithBIT --------------------------
(* The order books for TLC: two books over one small pool, two prices and    *)
(* one past the array, quantities that wrap a level and the quantity zero.   *)
EXTENDS MBOBookWithBIT, TLC

MCPriceInputs == 0 .. MAX_PRICE_LEVELS

BookSymmetry == Permutations(Books)
=============================================================================
