------------------------------- MODULE Orders -------------------------------
(***************************************************************************)
(* What the programs take from Python's sorting: the order of tuples and   *)
(* the sorted list of a set of numbers.                                    *)
(***************************************************************************)
EXTENDS Integers, FiniteSets

\* k < l for tuples of one length: the first place where they differ decides.
Before(k, l) == \E i \in DOMAIN k : k[i] < l[i] /\ \A j \in 1..(i - 1) : k[j] = l[j]

\* sorted(numbers), of a set: the k-th is the one with k of them up to it.
Sorted(numbers) ==
    [k \in 1..Cardinality(numbers) |->
        CHOOSE x \in numbers : Cardinality({y \in numbers : y <= x}) = k]

=============================================================================
