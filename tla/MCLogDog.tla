------------------------------ MODULE MCLogDog ------------------------------
(***************************************************************************)
(* A small instance of LogDog.                                             *)
(***************************************************************************)
EXTENDS LogDog

\* Entry 0 in one bundle, entry 1 and the terminal index in the other.
OneEntryEach == [b1 |-> {0}, b2 |-> {1}]
LastIsTerminal == [b1 |-> NoIndex, b2 |-> 1]
=============================================================================
