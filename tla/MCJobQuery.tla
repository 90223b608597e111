----------------------------- MODULE MCJobQuery -----------------------------
(* Instances of JobQuery for TLC.                                          *)
EXTENDS JobQuery, MCAsyncQueue
=============================================================================
