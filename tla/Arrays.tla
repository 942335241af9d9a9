------------------------------- MODULE Arrays -------------------------------
(***************************************************************************)
(* Array.prototype.filter as the reducers of the client use it, without    *)
(* the recursion of SelectSeq, which no prover takes.                      *)
(***************************************************************************)
EXTENDS Naturals, FiniteSets

(* The k-th number of a set.                                               *)
Nth(S, k) == CHOOSE i \in S : Cardinality({j \in S : j < i}) = k - 1

(* The elements of a sequence at these indexes, in their order.            *)
Filtered(s, kept) == [k \in 1 .. Cardinality(kept) |-> s[Nth(kept, k)]]
=============================================================================
