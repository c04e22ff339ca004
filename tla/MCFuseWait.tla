----------------------------- MODULE MCFuseWait -----------------------------
(***************************************************************************)
(* A small instance of FuseWait for TLC; the .cfg gives the numbers.       *)
(***************************************************************************)
EXTENDS FuseWait
=============================================================================
