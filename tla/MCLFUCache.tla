----------------------------- MODULE MCLFUCache -----------------------------
(* The LFU cache on an instance for TLC: four cacheable books and one id    *)
(* past the array for a cache of three, so that every full cache has a book *)
(* outside, and frequencies that saturate at 3.                             *)
EXTENDS LFUCache

MCBookIds == 0 .. MAX_SYMBOLS
=============================================================================
