---------------------------- MODULE Subsequences ----------------------------
(***************************************************************************)
(* The subsequence of a sequence at some of its indices, without recursion *)
(* (so that facts about it can be proved): what filter and sort of         *)
(* Rust's iterators do to the components of a path, the names of headers   *)
(* and the parts of an upload.                                             *)
(***************************************************************************)
EXTENDS Integers, FiniteSets

\* The position that the index i takes among the indices T, counted from 1.
Rank(T, i) == Cardinality({j \in T : j <= i})

\* The k-th of the indices T in increasing order.
Nth(T, k) == CHOOSE i \in T : Rank(T, i) = k

\* The values of f at the indices T in increasing order of the indices.
Subsequence(f, T) == [k \in 1..Cardinality(T) |-> f[Nth(T, k)]]

=============================================================================
