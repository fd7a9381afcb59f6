-------------------------- MODULE MCPriceLevelBook --------------------------
(* The levels for TLC: four prices and one past them.                        *)
EXTENDS PriceLevelBook

MCPriceInputs == 0 .. MAX_PRICE_LEVELS
=============================================================================
