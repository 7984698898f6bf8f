----------------------------- MODULE MCTeardown -----------------------------
(* Small instance of Teardown for TLC.                                     *)
EXTENDS Teardown
=============================================================================
