---------------------------- MODULE MCRunMarker ----------------------------
(* RunMarker on a small instance.                                          *)
EXTENDS RunMarker
=============================================================================
