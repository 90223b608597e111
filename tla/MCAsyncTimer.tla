---------------------------- MODULE MCAsyncTimer ----------------------------
(* Instances of AsyncTimer for TLC.                                        *)
EXTENDS AsyncTimer, MCAsyncQueue
=============================================================================
