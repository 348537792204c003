------------------------------ MODULE Selection ------------------------------
(***************************************************************************)
(* Array.prototype.filter by the places it keeps: W is the set of the      *)
(* indexes whose element passes; with it indexOf, sort, and reduce, of a   *)
(* sum.  (The standard module's SelectSeq has no definition that a proof   *)
(* could expand, and what a fold computes is a fact about an operator, not *)
(* about a value.)                                                         *)
(***************************************************************************)
EXTENDS Integers, FiniteSets, Sequences

(* The numbers of W in their order: the k-th is the one with k-1 below it. *)
Ascending(W) ==
  [k \in 1..Cardinality(W) |-> CHOOSE i \in W : Cardinality({j \in W : j < i}) = k - 1]

(* The elements of s at the places W. *)
Select(s, W) ==
  LET places == Ascending(W) IN [k \in DOMAIN places |-> s[places[k]]]

Filter(s, Test(_)) == Select(s, {i \in DOMAIN s : Test(s[i])})
Count(s, Test(_)) == Cardinality({i \in DOMAIN s : Test(s[i])})

(* indexOf *)
PlaceOf(s, x) == CHOOSE i \in DOMAIN s : s[i] = x /\ \A j \in DOMAIN s : s[j] = x => i <= j

(* sort: the members of W, each after those that are before it.             *)
Ranked(W, before) ==
  [k \in 1..Cardinality(W) |->
     CHOOSE i \in W : Cardinality({j \in W : <<j, i>> \in before}) = k - 1]

(* reduce((sum, x) => sum + x, 0): the sum after each element, and at last. *)
PartialSums(s) ==
  LET upto[n \in 0..Len(s)] == IF n = 0 THEN 0 ELSE upto[n - 1] + s[n] IN upto
SumOf(s) == PartialSums(s)[Len(s)]
=============================================================================
