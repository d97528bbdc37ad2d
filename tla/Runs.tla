-------------------------------- MODULE Runs --------------------------------
(* The data that go through a queue are numbered in the order they go in.    *)
EXTENDS Integers, SequencesExt

\* The n data that follow the first `before'.
Numbers(before, n) == [i \in 1 .. n |-> before + i]

\* What is left of them when the first n are gone.
Rest(data, n) == SubSeq(data, n + 1, Len(data))

=============================================================================
