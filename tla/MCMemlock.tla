----------------------------- MODULE MCMemlock -----------------------------
(***************************************************************************)
(* A small instance of Memlock.                                            *)
(***************************************************************************)
EXTENDS Memlock
=============================================================================
