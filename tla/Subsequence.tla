----------------------------- MODULE Subsequence -----------------------------
(***************************************************************************)
(* The subsequence of a sequence at a given set of positions.  The loops   *)
(* of the client that walk a vector and keep some of its elements are      *)
(* written with Select: unlike SelectSeq it has a definition that the      *)
(* provers can expand (see SubsequenceProofs).                             *)
(***************************************************************************)
EXTENDS Integers, Sequences, FiniteSets

\* pos lists the elements of the finite set of numbers S in increasing order.
Enumerates(pos, S) ==
  /\ pos \in [1 .. Cardinality(S) -> S]
  /\ \A i, j \in 1 .. Cardinality(S) : i < j => pos[i] < pos[j]
  /\ \A p \in S : \E i \in 1 .. Cardinality(S) : pos[i] = p

InOrder(S) == CHOOSE pos \in [1 .. Cardinality(S) -> S] : Enumerates(pos, S)

\* The elements of s at the positions in S, in the order of s.
Select(s, S) == [k \in 1 .. Cardinality(S) |-> s[InOrder(S)[k]]]

=============================================================================
