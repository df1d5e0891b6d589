---------------------------- MODULE SortedLists ----------------------------
(***************************************************************************)
(* sorted(...) and ORDER BY: the members of a finite set of numbers as a   *)
(* list in ascending order.  It is a CHOOSE and not the SetToSortSeq of    *)
(* SequencesExt so that proofs can look into it.                           *)
(***************************************************************************)
EXTENDS Integers, FiniteSets, Sequences

Ascending(S) ==
    CHOOSE s \in [1..Cardinality(S) -> S] :
        \A i, j \in 1..Cardinality(S) : i < j => s[i] < s[j]
=============================================================================
