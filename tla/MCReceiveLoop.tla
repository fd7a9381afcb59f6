--------------------------- MODULE MCReceiveLoop ----------------------------
(***************************************************************************)
(* The receive loop for TLC.  Six frames, of which three circulate: rx and *)
(* fill ring are as large as the code makes them for that many frames.  A  *)
(* batch is two packets, so that packets stay on the rx ring behind it.    *)
(***************************************************************************)
EXTENDS ReceiveLoop
=============================================================================
