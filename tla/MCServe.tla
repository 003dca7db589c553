------------------------------ MODULE MCServe ------------------------------
(* A client that sends up to three lines of every kind.                     *)
EXTENDS Serve, TLC
=============================================================================
