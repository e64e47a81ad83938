------------------------------- MODULE Sorted -------------------------------
(* Finite sets listed in an order, as a database answers a query.           *)
EXTENDS Naturals, FiniteSets

\* The members of S as a sequence that follows the relation R, a set of pairs:
\* at place k is the member that k - 1 others precede.
SortedBy(S, R) ==
  [k \in 1..Cardinality(S) |->
     CHOOSE x \in S : Cardinality({y \in S : <<y, x>> \in R}) = k - 1]

=============================================================================
