---------------------------- MODULE MCAsyncToken ----------------------------
(* Instances of AsyncToken for TLC.                                        *)
EXTENDS AsyncToken, MCAsyncQueue
=============================================================================
