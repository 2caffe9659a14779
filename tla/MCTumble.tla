------------------------------ MODULE MCTumble ------------------------------
(***************************************************************************)
(* Small instances of Tumble and TumbleShards.                             *)
(***************************************************************************)
EXTENDS TumbleShards, TLC

\* "a" rolls root 1 forward and returns "b" for root 2 and "c" for its own.
ChainTarget == [a |-> 1, b |-> 2, c |-> 1]
ChainEmits == [a |-> <<"b", "c">>, b |-> <<>>, c |-> <<>>]
ChainStarts == {<<2, "a">>}
NoStarts == {}

\* "b" is delayed, and is also put under a name of the group it is for.
NamedDelay == [a |-> 0, b |-> 1, c |-> 0]
Names1 == {<<2, "b">>}

\* A chain over two roots, with "x", which always fails, between two mutations for
\* the second of them: in batches of one it starves the one that comes after it.
StuckTarget == [a |-> 1, b |-> 2, x |-> 2]
StuckEmits == [a |-> <<"b", "x", "b">>, b |-> <<>>, x |-> <<>>]
StuckDelay == [a |-> 0, b |-> 1, x |-> 0]
StuckStarts == {<<2, "a">>}

WorkerSymmetry == Permutations(Workers)
=============================================================================
