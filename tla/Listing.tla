------------------------------ MODULE Listing ------------------------------
(***************************************************************************)
(* The two ways the analysis makes one list from another: an iterator's    *)
(* filter, and the walk over a BTreeMap, which goes by key and not by the  *)
(* order in which the entries were put in.                                 *)
(***************************************************************************)
EXTENDS Naturals, SequencesExt

\* A list of anything.
IsList(s) == s \in Seq(Range(s))

\* 1, 2, ... in the place of the elements.
Places(s) == [i \in DOMAIN s |-> i]

\* The elements of s that are in a set, where they stand in s.
Only(s, set) ==
  LET kept[i \in 0..Len(s)] ==
        IF i = 0 THEN <<>>
        ELSE IF s[i] \in set THEN Append(kept[i - 1], s[i])
        ELSE kept[i - 1]
  IN  kept[Len(s)]

\* The elements of a set by their rank, a function with one value for each.
ByRank(set, rank) ==
  [n \in 1..Cardinality(set) |->
     CHOOSE x \in set : Cardinality({y \in set : rank[y] < rank[x]}) = n - 1]

=============================================================================
