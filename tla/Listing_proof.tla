--------------------------- MODULE Listing_proof ---------------------------
(***************************************************************************)
(* What the operators of Listing return, for every sequence, set and rank, *)
(* and the two facts about numbers those proofs rest on: a nonempty set of *)
(* numbers has a least one, and a set closed under successor has them all. *)
(***************************************************************************)
EXTENDS Listing, TLAPS, SequenceTheorems, FiniteSetTheorems, WellFoundedInduction

(* A nonempty set of numbers has a least one.                              *)
LEMMA Least ==
  ASSUME NEW T, T \subseteq Nat, T # {}
  PROVE  \E n \in T : \A m \in T : n <= m
<1>1. IsWellFoundedOn(OpToRel(<,Nat), Nat)
  BY NatLessThanWellFounded
<1>2. PICK x \in T : \A y \in T : <<y,x>> \notin OpToRel(<,Nat)
  BY <1>1, WFMin
<1>3. \A y \in T : ~(y < x)
  BY <1>2 DEF OpToRel
<1> QED BY <1>3, SMT

(* If a set of numbers holds 0 and with n - 1 also n, it holds all.        *)
LEMMA Inductive ==
  ASSUME NEW T, 0 \in T, \A n \in Nat : n \in T => n + 1 \in T
  PROVE  Nat \subseteq T
<1> SUFFICES ASSUME Nat \ T # {} PROVE FALSE
  OBVIOUS
<1>1. PICK n \in Nat \ T : \A m \in Nat \ T : n <= m
  BY Least
<1>2. n # 0
  OBVIOUS
<1>3. n - 1 \in Nat /\ n - 1 \in T
  BY <1>1, <1>2, SMT
<1> QED BY <1>3, <1>2, SMT

LEMMA ListOf ==
  ASSUME NEW S, NEW s \in Seq(S)
  PROVE  IsList(s) /\ Range(s) \subseteq S
BY RangeOfSeq, SeqOfRange DEF IsList

LEMMA ListIs ==
  ASSUME NEW n \in Nat, NEW s, s = [i \in 1..n |-> s[i]]
  PROVE  IsList(s) /\ Len(s) = n
<1>1. s \in Seq(Range(s)) /\ Len(s) = n
  BY SMT DEF Range
<1> QED BY <1>1 DEF IsList

-----------------------------------------------------------------------------
(* Only. *)

Kept(s, set, n, kept) ==
  kept = [i \in 0..n |->
            IF i = 0 THEN <<>>
            ELSE IF s[i] \in set THEN Append(kept[i - 1], s[i])
            ELSE kept[i - 1]]

KeptNext(s, set, kept, i) ==
  IF s[i] \in set THEN Append(kept[i - 1], s[i]) ELSE kept[i - 1]

LEMMA KeptIs ==
  ASSUME NEW s, NEW set, NEW n \in Nat, NEW kept
  PROVE  Kept(s, set, n, kept) <=>
           /\ kept = [i \in 0..n |-> kept[i]]
           /\ kept[0] = <<>>
           /\ \A i \in 1..n : kept[i] = KeptNext(s, set, kept, i)
<1> DEFINE Body(i) == IF i = 0 THEN <<>> ELSE KeptNext(s, set, kept, i)
<1>1. Kept(s, set, n, kept) <=> kept = [i \in 0..n |-> Body(i)]
  BY DEF Kept, KeptNext
<1>2. kept = [i \in 0..n |-> Body(i)] <=>
        kept = [i \in 0..n |-> kept[i]] /\ \A i \in 0..n : kept[i] = Body(i)
  <2> HIDE DEF Body
  <2> QED BY Zenon
<1>3. (\A i \in 0..n : kept[i] = Body(i)) <=>
        kept[0] = <<>> /\ \A i \in 1..n : kept[i] = KeptNext(s, set, kept, i)
  BY SMT
<1> QED BY <1>1, <1>2, <1>3

LEMMA KeptExists ==
  ASSUME NEW s, NEW set, NEW n \in Nat
  PROVE  \E kept : Kept(s, set, n, kept)
<1> DEFINE T == {m \in Nat : \E kept : Kept(s, set, m, kept)}
<1>1. 0 \in T
  <2> DEFINE none == [i \in 0..0 |-> <<>>]
  <2>1. 0 \in 0..0 /\ 1..0 = {}
    BY SMT
  <2>2. none = [i \in 0..0 |-> none[i]] /\ none[0] = <<>>
    BY <2>1
  <2>3. Kept(s, set, 0, none)
    BY <2>1, <2>2, KeptIs, 0 \in Nat
  <2> QED BY <2>3
<1>2. ASSUME NEW m \in Nat, m \in T PROVE m + 1 \in T
  <2>1. PICK kept : Kept(s, set, m, kept)
    BY <1>2
  <2>2. /\ kept[0] = <<>>
        /\ \A i \in 1..m : kept[i] = KeptNext(s, set, kept, i)
    BY <2>1, KeptIs
  <2> DEFINE more == [i \in 0..(m + 1) |->
                        IF i <= m THEN kept[i] ELSE KeptNext(s, set, kept, i)]
  <2>3. /\ more = [i \in 0..(m + 1) |-> more[i]]
        /\ \A i \in 0..m : more[i] = kept[i]
        /\ more[m + 1] = KeptNext(s, set, kept, m + 1)
    <3> HIDE DEF KeptNext
    <3> QED BY SMT
  <2> HIDE DEF more
  <2>4. \A i \in 1..(m + 1) : KeptNext(s, set, more, i) = KeptNext(s, set, kept, i)
    <3>1. \A i \in 1..(m + 1) : i - 1 \in 0..m
      BY SMT
    <3> QED BY <3>1, <2>3 DEF KeptNext
  <2>5. \A i \in 1..(m + 1) : more[i] = KeptNext(s, set, more, i)
    BY <2>2, <2>3, <2>4, SMT
  <2>6. Kept(s, set, m + 1, more)
    BY <2>2, <2>3, <2>5, KeptIs, m + 1 \in Nat
  <2> QED BY <2>6
<1>3. Nat \subseteq T
  <2> HIDE DEF T
  <2> QED BY <1>1, <1>2, Inductive
<1> QED BY <1>3

(* Filtering keeps exactly the elements that are in the set.               *)
LEMMA OnlyFilters ==
  ASSUME NEW s, IsList(s), NEW set
  PROVE  /\ Only(s, set) \in Seq(Range(s) \cap set)
         /\ \A x \in Range(s) \cap set : x \in Range(Only(s, set))
         /\ Range(s) \subseteq set => Only(s, set) = s
<1> DEFINE S == Range(s)
           n == Len(s)
<1>0. n \in Nat /\ s \in [1..n -> S] /\ DOMAIN s = 1..n
  BY LenProperties DEF IsList
<1>1. PICK kept : Kept(s, set, n, kept)
  BY KeptExists, <1>0
<1> DEFINE k == CHOOSE f : Kept(s, set, n, f)
<1>2. Kept(s, set, n, k)
  BY <1>1
<1>3. Only(s, set) = k[n]
  BY DEF Only, Kept
<1> HIDE DEF k
<1>4. k[0] = <<>> /\ \A i \in 1..n : k[i] = KeptNext(s, set, k, i)
  BY <1>0, <1>2, KeptIs
<1> DEFINE T == {i \in Nat : i <= n =>
                   /\ k[i] \in Seq(S \cap set)
                   /\ \A j \in 1..i : s[j] \in set => \E l \in 1..Len(k[i]) : k[i][l] = s[j]
                   /\ S \subseteq set => Len(k[i]) = i /\ \A j \in 1..i : k[i][j] = s[j]}
<1>5. 0 \in T
  <2>1. k[0] \in Seq(S \cap set) /\ Len(k[0]) = 0 /\ 1..0 = {}
    BY <1>4, EmptySeq, SMT
  <2> QED BY <2>1
<1>6. ASSUME NEW i \in Nat, i \in T PROVE i + 1 \in T
  <2> SUFFICES ASSUME i + 1 <= n
               PROVE  /\ k[i + 1] \in Seq(S \cap set)
                      /\ \A j \in 1..(i + 1) : s[j] \in set => \E l \in 1..Len(k[i + 1]) : k[i + 1][l] = s[j]
                      /\ S \subseteq set => Len(k[i + 1]) = i + 1 /\ \A j \in 1..(i + 1) : k[i + 1][j] = s[j]
    BY <1>0, SMT
  <2>1. /\ k[i] \in Seq(S \cap set)
        /\ \A j \in 1..i : s[j] \in set => \E l \in 1..Len(k[i]) : k[i][l] = s[j]
        /\ S \subseteq set => Len(k[i]) = i /\ \A j \in 1..i : k[i][j] = s[j]
    BY <1>6, <1>0, SMT
  <2>2. k[i + 1] = IF s[i + 1] \in set THEN Append(k[i], s[i + 1]) ELSE k[i]
    BY <1>4, <1>0, SMT DEF KeptNext
  <2>3. s[i + 1] \in S
    BY <1>0, SMT
  <2>4. CASE s[i + 1] \in set
    <3>1. k[i + 1] = Append(k[i], s[i + 1]) /\ s[i + 1] \in S \cap set
      BY <2>2, <2>3, <2>4
    <3>2. /\ k[i + 1] \in Seq(S \cap set)
          /\ Len(k[i + 1]) = Len(k[i]) + 1
          /\ \A l \in 1..Len(k[i]) : k[i + 1][l] = k[i][l]
          /\ k[i + 1][Len(k[i]) + 1] = s[i + 1]
          /\ Len(k[i]) \in Nat
      BY <3>1, <2>1, AppendProperties, LenProperties
    <3> HIDE DEF S
    <3>3. \A j \in 1..(i + 1) : s[j] \in set => \E l \in 1..Len(k[i + 1]) : k[i + 1][l] = s[j]
      <4> SUFFICES ASSUME NEW j \in 1..(i + 1), s[j] \in set
                   PROVE  \E l \in 1..Len(k[i + 1]) : k[i + 1][l] = s[j]
        OBVIOUS
      <4>1. CASE j \in 1..i
        BY <4>1, <3>2, <2>1, SMT
      <4>2. CASE j = i + 1
        BY <4>2, <3>2, SMT
      <4> QED BY <4>1, <4>2, SMT
    <3>4. S \subseteq set => Len(k[i + 1]) = i + 1 /\ \A j \in 1..(i + 1) : k[i + 1][j] = s[j]
      BY <3>2, <2>1, SMT
    <3> QED BY <3>2, <3>3, <3>4
  <2>5. CASE s[i + 1] \notin set
    <3>1. k[i + 1] = k[i] /\ ~(S \subseteq set)
      BY <2>2, <2>3, <2>5
    <3> HIDE DEF S
    <3> QED BY <3>1, <2>1, <2>5, SMT
  <2> QED BY <2>4, <2>5
<1>7. Nat \subseteq T
  <2> HIDE DEF T
  <2> QED BY <1>5, <1>6, Inductive
<1>8. n \in T
  BY <1>0, <1>7
<1>9. /\ k[n] \in Seq(S \cap set)
      /\ \A j \in 1..n : s[j] \in set => \E l \in 1..Len(k[n]) : k[n][l] = s[j]
      /\ S \subseteq set => Len(k[n]) = n /\ \A j \in 1..n : k[n][j] = s[j]
  BY <1>0, <1>8
<1>10. \A x \in S \cap set : x \in Range(k[n])
  <2> TAKE x \in S \cap set
  <2>1. PICK j \in 1..n : s[j] = x
    BY <1>0 DEF Range
  <2>2. PICK l \in 1..Len(k[n]) : k[n][l] = x
    BY <1>9, <2>1
  <2>3. DOMAIN k[n] = 1..Len(k[n])
    BY <1>9, LenProperties
  <2> QED BY <2>2, <2>3 DEF Range
<1>11. S \subseteq set => k[n] = s
  <2> SUFFICES ASSUME S \subseteq set PROVE k[n] = s
    OBVIOUS
  <2>1. k[n] \in Seq(S) /\ s \in Seq(S)
    BY <1>9, S \cap set = S DEF IsList
  <2> HIDE DEF S
  <2> QED BY <1>9, <2>1, SeqEqual
<1> QED BY <1>3, <1>9, <1>10, <1>11

-----------------------------------------------------------------------------
(* FlattenSeq. *)

Flat(ss, n, flat) ==
  flat = [i \in 1..n |-> IF i = 1 THEN ss[i] ELSE flat[i - 1] \o ss[i]]

LEMMA FlatIs ==
  ASSUME NEW ss, NEW n \in Nat \ {0}, NEW flat
  PROVE  Flat(ss, n, flat) <=>
           /\ flat = [i \in 1..n |-> flat[i]]
           /\ flat[1] = ss[1]
           /\ \A i \in 2..n : flat[i] = flat[i - 1] \o ss[i]
<1> DEFINE Body(i) == IF i = 1 THEN ss[i] ELSE flat[i - 1] \o ss[i]
<1>1. flat = [i \in 1..n |-> Body(i)] <=>
        flat = [i \in 1..n |-> flat[i]] /\ \A i \in 1..n : flat[i] = Body(i)
  <2> HIDE DEF Body
  <2> QED BY Zenon
<1>2. (\A i \in 1..n : flat[i] = Body(i)) <=>
        flat[1] = ss[1] /\ \A i \in 2..n : flat[i] = flat[i - 1] \o ss[i]
  <2>1. 1..n = {1} \cup 2..n /\ 1 \notin 2..n
    BY SMT
  <2> QED BY <2>1, Zenon
<1> QED BY <1>1, <1>2 DEF Flat

LEMMA FlatExists ==
  ASSUME NEW ss, NEW n \in Nat
  PROVE  \E flat : Flat(ss, n + 1, flat)
<1> DEFINE T == {m \in Nat : \E flat : Flat(ss, m + 1, flat)}
<1>1. 0 \in T
  <2> DEFINE one == [i \in 1..1 |-> ss[i]]
  <2>1. 1 \in 1..1 /\ 2..1 = {} /\ 0 + 1 = 1
    BY SMT
  <2>2. one = [i \in 1..1 |-> one[i]] /\ one[1] = ss[1]
    BY <2>1
  <2>3. Flat(ss, 0 + 1, one)
    BY <2>1, <2>2, FlatIs, 1 \in Nat \ {0}
  <2> QED BY <2>3
<1>2. ASSUME NEW m \in Nat, m \in T PROVE m + 1 \in T
  <2>1. PICK flat : Flat(ss, m + 1, flat)
    BY <1>2
  <2>2. /\ flat[1] = ss[1]
        /\ \A i \in 2..(m + 1) : flat[i] = flat[i - 1] \o ss[i]
    BY <2>1, FlatIs, m + 1 \in Nat \ {0}
  <2> DEFINE Next2 == flat[m + 1] \o ss[m + 2]
             more == [i \in 1..(m + 2) |-> IF i <= m + 1 THEN flat[i] ELSE Next2]
  <2>3. /\ more = [i \in 1..(m + 2) |-> more[i]]
        /\ \A i \in 1..(m + 1) : more[i] = flat[i]
        /\ more[m + 2] = Next2
    <3> HIDE DEF Next2
    <3> QED BY SMT
  <2> HIDE DEF more
  <2>4. \A i \in 2..(m + 2) : more[i] = more[i - 1] \o ss[i]
    <3> SUFFICES ASSUME NEW i \in 2..(m + 2) PROVE more[i] = more[i - 1] \o ss[i]
      OBVIOUS
    <3>1. i - 1 \in 1..(m + 1) /\ (i \in 2..(m + 1) => i \in 1..(m + 1))
      BY SMT
    <3>2. CASE i \in 2..(m + 1)
      BY <2>2, <2>3, <3>1, <3>2
    <3>3. CASE i = m + 2
      <4>1. i - 1 = m + 1
        BY <3>3, SMT
      <4> QED BY <2>3, <3>1, <3>3, <4>1
    <3>4. i \in 2..(m + 1) \/ i = m + 2
      BY SMT
    <3> QED BY <3>2, <3>3, <3>4
  <2>5. more[1] = ss[1]
    <3>1. 1 \in 1..(m + 1)
      BY SMT
    <3> QED BY <2>2, <2>3, <3>1
  <2>6. Flat(ss, m + 2, more)
    BY <2>3, <2>4, <2>5, FlatIs, m + 2 \in Nat \ {0}
  <2>7. m + 2 = (m + 1) + 1
    BY SMT
  <2> QED BY <2>6, <2>7
<1>3. Nat \subseteq T
  <2> HIDE DEF T
  <2> QED BY <1>1, <1>2, Inductive
<1> QED BY <1>3

(* Flattening a list of lists gives the list of all their elements.        *)
LEMMA Flattens ==
  ASSUME NEW S, NEW ss \in Seq(Seq(S))
  PROVE  /\ FlattenSeq(ss) \in Seq(S)
         /\ \A x : x \in Range(FlattenSeq(ss)) <=> \E i \in DOMAIN ss : x \in Range(ss[i])
<1> DEFINE n == Len(ss)
<1>1. n \in Nat /\ ss \in [1..n -> Seq(S)] /\ DOMAIN ss = 1..n
  BY LenProperties
<1>2. CASE n = 0
  <2>1. FlattenSeq(ss) = ss /\ DOMAIN ss = {} /\ ss = <<>>
    BY <1>1, <1>2, EmptySeq DEF FlattenSeq
  <2>2. Range(ss) = {}
    BY <2>1 DEF Range
  <2> QED BY <2>1, <2>2, EmptySeq
<1>3. CASE n # 0
  <2>1. n - 1 \in Nat /\ (n - 1) + 1 = n /\ n \in Nat \ {0}
    BY <1>1, <1>3, SMT
  <2>2. PICK flat : Flat(ss, n, flat)
    BY FlatExists, <2>1
  <2> DEFINE k == CHOOSE f : Flat(ss, n, f)
  <2>3. Flat(ss, n, k)
    BY <2>2
  <2>4. FlattenSeq(ss) = k[n]
    BY <1>3 DEF FlattenSeq, Flat
  <2> HIDE DEF k
  <2>5. k[1] = ss[1] /\ \A i \in 2..n : k[i] = k[i - 1] \o ss[i]
    BY <2>1, <2>3, FlatIs
  <2> DEFINE Good(i) ==
        /\ k[i] \in Seq(S)
        /\ \A x : x \in Range(k[i]) <=> \E j \in 1..i : x \in Range(ss[j])
      T == {i \in Nat : i + 1 <= n => Good(i + 1)}
  <2>6. 0 \in T
    <3>1. 0 + 1 = 1 /\ 1..1 = {1} /\ ss[1] \in Seq(S)
      BY <1>1, <2>1, SMT
    <3> QED BY <2>5, <3>1
  <2>7. ASSUME NEW i \in Nat, i \in T PROVE i + 1 \in T
    <3> SUFFICES ASSUME (i + 1) + 1 <= n PROVE Good((i + 1) + 1)
      OBVIOUS
    <3>1. i + 1 <= n /\ (i + 1) + 1 \in 2..n /\ ((i + 1) + 1) - 1 = i + 1
          /\ 1..((i + 1) + 1) = 1..(i + 1) \cup {(i + 1) + 1}
      BY <1>1, SMT
    <3>2. Good(i + 1)
      BY <2>7, <3>1
    <3>3. k[(i + 1) + 1] = k[i + 1] \o ss[(i + 1) + 1]
      BY <2>5, <3>1
    <3>4. ss[(i + 1) + 1] \in Seq(S)
      BY <1>1, <3>1, SMT
    <3>5. /\ k[(i + 1) + 1] \in Seq(S)
          /\ Range(k[(i + 1) + 1]) = Range(k[i + 1]) \cup Range(ss[(i + 1) + 1])
      BY <3>2, <3>3, <3>4, ConcatProperties, RangeConcatenation
    <3>6. ASSUME NEW x
          PROVE  x \in Range(k[(i + 1) + 1]) <=> \E j \in 1..((i + 1) + 1) : x \in Range(ss[j])
      BY <3>1, <3>2, <3>5
    <3> QED BY <3>5, <3>6
  <2>8. Nat \subseteq T
    <3> HIDE DEF T
    <3> QED BY <2>6, <2>7, Inductive
  <2>9. Good(n)
    <3>1. n - 1 \in T
      BY <2>1, <2>8
    <3> QED BY <3>1, <2>1, SMT
  <2> QED BY <1>1, <2>4, <2>9
<1> QED BY <1>2, <1>3

(* One list after the other.                                               *)
LEMMA Joins ==
  ASSUME NEW s, IsList(s), NEW t, IsList(t)
  PROVE  /\ IsList(s \o t)
         /\ Range(s \o t) = Range(s) \cup Range(t)
<1> DEFINE S == Range(s) \cup Range(t)
<1>1. s \in Seq(S) /\ t \in Seq(S)
  BY SeqMonotonic, Range(s) \subseteq S, Range(t) \subseteq S DEF IsList
<1> HIDE DEF S
<1>2. s \o t \in Seq(S) /\ Range(s \o t) = Range(s) \cup Range(t)
  BY <1>1, ConcatProperties, RangeConcatenation
<1> QED BY <1>2, ListOf

LEMMA One ==
  ASSUME NEW x
  PROVE  IsList(<<x>>) /\ Range(<<x>>) = {x} /\ IsList(<<>>) /\ Range(<<>>) = {}
<1>1. <<x>> \in Seq({x}) /\ DOMAIN <<x>> = {1} /\ <<x>>[1] = x
  BY SMT
<1>2. <<>> \in Seq({x}) /\ DOMAIN <<>> = {}
  BY SMT
<1>3. IsList(<<x>>) /\ IsList(<<>>)
  BY <1>1, <1>2, ListOf
<1> QED BY <1>1, <1>2, <1>3 DEF Range

LEMMA Tuples ==
  ASSUME NEW x, NEW y, NEW z
  PROVE  IsList(<<x, y>>) /\ IsList(<<x, y, z>>)
<1>1. <<x, y>> \in Seq({x, y}) /\ <<x, y, z>> \in Seq({x, y, z})
  BY SMT
<1> QED BY <1>1, ListOf

-----------------------------------------------------------------------------
(* ByRank. *)

LEMMA ListOfSet ==
  ASSUME NEW set, IsFiniteSet(set), NEW rank
  PROVE  /\ Cardinality(set) \in Nat
         /\ DOMAIN ByRank(set, rank) = 1..Cardinality(set)
         /\ IsList(ByRank(set, rank)) /\ Len(ByRank(set, rank)) = Cardinality(set)
<1> DEFINE n == Cardinality(set)
           at == ByRank(set, rank)
<1>1. n \in Nat
  BY FS_CardinalityType
<1>2. DOMAIN at = 1..n /\ at = [i \in 1..n |-> at[i]]
  BY DEF ByRank
<1> HIDE DEF at, n
<1>3. IsList(at) /\ Len(at) = n
  BY <1>1, <1>2, ListIs
<1> QED BY <1>1, <1>2, <1>3 DEF at, n

(* If no two elements have one rank, every element is listed once, those   *)
(* of lower rank before those of higher rank.                              *)
LEMMA Orders ==
  ASSUME NEW set, IsFiniteSet(set), NEW rank,
         \A x \in set : rank[x] \in Nat,
         \A x, y \in set : rank[x] = rank[y] => x = y
  PROVE  /\ Range(ByRank(set, rank)) = set
         /\ \A i, j \in 1..Cardinality(set) :
              i < j => rank[ByRank(set, rank)[i]] < rank[ByRank(set, rank)[j]]
<1> DEFINE n        == Cardinality(set)
           Lower(x) == {y \in set : rank[y] < rank[x]}
           place    == [x \in set |-> Cardinality(Lower(x)) + 1]
<1>1. n \in Nat /\ IsFiniteSet(1..n) /\ Cardinality(1..n) = n
  BY FS_CardinalityType, FS_Interval, SMT
<1>2. ASSUME NEW x \in set
      PROVE  Cardinality(Lower(x)) \in 0..(n - 1) /\ IsFiniteSet(Lower(x))
  <2>1. Lower(x) \subseteq set /\ x \notin Lower(x)
    BY SMT
  <2> HIDE DEF Lower
  <2>2. IsFiniteSet(Lower(x)) /\ Cardinality(Lower(x)) <= n /\ Cardinality(Lower(x)) # n
    BY <2>1, FS_Subset
  <2>3. Cardinality(Lower(x)) \in Nat
    BY <2>2, FS_CardinalityType
  <2> QED BY <1>1, <2>2, <2>3, SMT
<1>3. ASSUME NEW x \in set, NEW y \in set, rank[x] < rank[y]
      PROVE  Cardinality(Lower(x)) < Cardinality(Lower(y))
  <2>1. Lower(x) \subseteq Lower(y) /\ x \in Lower(y) /\ x \notin Lower(x)
    BY <1>3, SMT
  <2> HIDE DEF Lower
  <2>2. /\ Cardinality(Lower(x)) <= Cardinality(Lower(y))
        /\ Cardinality(Lower(x)) # Cardinality(Lower(y))
    BY <2>1, <1>2, FS_Subset
  <2>3. Cardinality(Lower(x)) \in Nat /\ Cardinality(Lower(y)) \in Nat
    BY <1>1, <1>2, SMT
  <2> QED BY <2>2, <2>3, SMT
<1>4. place \in [set -> 1..n]
  <2> HIDE DEF Lower
  <2> QED BY <1>1, <1>2, SMT
<1>5. ASSUME NEW x \in set, NEW y \in set, place[x] = place[y] PROVE x = y
  <2> DEFINE a == Cardinality(Lower(x))
             b == Cardinality(Lower(y))
  <2>1. a \in Nat /\ b \in Nat /\ (rank[x] < rank[y] => a < b) /\ (rank[y] < rank[x] => b < a)
    <3> HIDE DEF Lower
    <3> QED BY <1>1, <1>2, <1>3, SMT
  <2>2. a + 1 = b + 1
    BY <1>5
  <2> HIDE DEF a, b
  <2>3. rank[x] = rank[y]
    BY <2>1, <2>2, SMT
  <2> QED BY <2>3
<1>6. place \in Surjection(set, 1..n)
  <2>1. place \in Injection(set, 1..n)
    <3> HIDE DEF place
    <3> QED BY <1>4, <1>5 DEF Injection, IsInjective
  <2> QED BY <2>1, <1>1, FS_Injection
<1> DEFINE at == ByRank(set, rank)
<1>7. ASSUME NEW i \in 1..n
      PROVE  at[i] \in set /\ Cardinality(Lower(at[i])) = i - 1
  <2>1. PICK x \in set : place[x] = i
    BY <1>6 DEF Surjection
  <2>2. Cardinality(Lower(x)) = i - 1
    <3>1. Cardinality(Lower(x)) + 1 = i /\ Cardinality(Lower(x)) \in 0..(n - 1)
      BY <1>2, <2>1
    <3> HIDE DEF Lower
    <3> QED BY <3>1, <1>1, SMT
  <2>3. at[i] = CHOOSE y \in set : Cardinality(Lower(y)) = i - 1
    BY DEF ByRank
  <2> HIDE DEF at, Lower
  <2> QED BY <2>2, <2>3
<1>8. ASSUME NEW x \in set PROVE \E i \in 1..n : at[i] = x
  <2>1. place[x] \in 1..n /\ Cardinality(Lower(x)) = place[x] - 1
    <3>1. place[x] = Cardinality(Lower(x)) + 1 /\ Cardinality(Lower(x)) \in 0..(n - 1)
      BY <1>2
    <3> HIDE DEF Lower, place
    <3> QED BY <1>1, <3>1, SMT
  <2>2. at[place[x]] \in set /\ Cardinality(Lower(at[place[x]])) = Cardinality(Lower(x))
    <3> HIDE DEF at, Lower, place
    <3> QED BY <2>1, <1>7
  <2>3. place[at[place[x]]] = place[x]
    <3> HIDE DEF at
    <3> QED BY <2>2
  <2> HIDE DEF at, Lower, place
  <2>4. at[place[x]] = x
    BY <2>2, <2>3, <1>5
  <2> QED BY <2>1, <2>4
<1>9. Range(at) = set
  <2>1. DOMAIN at = 1..n
    BY DEF ByRank
  <2> HIDE DEF at, Lower
  <2> QED BY <2>1, <1>7, <1>8 DEF Range
<1>10. ASSUME NEW i \in 1..n, NEW j \in 1..n, i < j PROVE rank[at[i]] < rank[at[j]]
  <2> DEFINE x == at[i]
             y == at[j]
             a == Cardinality(Lower(x))
             b == Cardinality(Lower(y))
  <2>1. x \in set /\ y \in set /\ a = i - 1 /\ b = j - 1
    BY <1>7
  <2>2. rank[y] < rank[x] => b < a
    BY <1>3, <2>1
  <2>3. rank[x] \in Nat /\ rank[y] \in Nat /\ (rank[x] = rank[y] => a = b)
    BY <2>1
  <2> HIDE DEF x, y, a, b
  <2>4. rank[x] < rank[y]
    BY <1>10, <2>1, <2>2, <2>3, SMT
  <2> QED BY <2>4 DEF x, y
<1> QED BY <1>9, <1>10

-----------------------------------------------------------------------------
(* Places, lists of lists and loops. *)

LEMMA SomeMax ==
  ASSUME NEW n \in Nat, NEW I \in SUBSET (1..n), I # {}
  PROVE  Max(I) \in I
<1> DEFINE T == {n - i : i \in I}
<1>1. T \subseteq Nat /\ T # {}
  <2>1. \A i \in I : n - i \in Nat
    BY SMT
  <2> QED BY <2>1
<1>2. PICK m \in T : \A k \in T : m <= k
  <2> HIDE DEF T
  <2> QED BY <1>1, Least
<1>3. PICK x \in I : m = n - x
  BY <1>2
<1>4. \A y \in I : x >= y
  <2> TAKE y \in I
  <2>1. n - x <= n - y
    BY <1>2, <1>3
  <2> QED BY <2>1, SMT
<1> QED BY <1>4 DEF Max

(* The first place of a value is one.                                      *)
LEMMA FirstPlace ==
  ASSUME NEW s, IsList(s), NEW x \in Range(s)
  PROVE  LET i == SelectInSeq(s, LAMBDA y : y = x) IN i \in 1..Len(s) /\ s[i] = x
<1> DEFINE n == Len(s)
           I == {i \in 1..n : s[i] = x}
<1>1. n \in Nat /\ DOMAIN s = 1..n
  BY LenProperties DEF IsList
<1>2. I # {} /\ I \subseteq Nat
  BY <1>1 DEF Range
<1>3. Min(I) \in I
  <2>1. \E i \in I : \A m \in I : i <= m
    <3> HIDE DEF I
    <3> QED BY <1>2, Least
  <2> QED BY <2>1 DEF Min
<1>4. SelectInSeq(s, LAMBDA y : y = x) = Min(I)
  BY <1>2 DEF SelectInSeq
<1> QED BY <1>3, <1>4

(* What is in a list has a place.                                          *)
LEMMA Listed ==
  ASSUME NEW s, IsList(s)
  PROVE  /\ Len(s) \in Nat /\ DOMAIN s = 1..Len(s)
         /\ \A i \in DOMAIN s : s[i] \in Range(s)
         /\ \A x \in Range(s) : \E i \in DOMAIN s : s[i] = x
         /\ s = <<>> <=> Range(s) = {}
         /\ s = <<>> <=> Len(s) = 0
<1>1. Len(s) \in Nat /\ DOMAIN s = 1..Len(s)
  BY LenProperties DEF IsList
<1>2. /\ \A i \in DOMAIN s : s[i] \in Range(s)
      /\ \A x \in Range(s) : \E i \in DOMAIN s : s[i] = x
  BY DEF Range
<1>3. s = <<>> <=> Len(s) = 0
  BY EmptySeq DEF IsList
<1>4. Len(s) # 0 => 1 \in DOMAIN s
  BY <1>1, SMT
<1>5. Range(<<>>) = {}
  BY One
<1> QED BY <1>1, <1>2, <1>3, <1>4, <1>5

(* The places of a list that are in a set.                                 *)
LEMMA PlacesAre ==
  ASSUME NEW s, IsList(s)
  PROVE  IsList(Places(s)) /\ Range(Places(s)) = DOMAIN s
<1> DEFINE ps == Places(s)
<1>1. Len(s) \in Nat /\ DOMAIN s = 1..Len(s)
  BY Listed
<1>2. ps = [i \in 1..Len(s) |-> ps[i]] /\ DOMAIN ps = DOMAIN s /\ \A i \in DOMAIN s : ps[i] = i
  BY <1>1 DEF Places
<1> HIDE DEF ps
<1>3. IsList(ps)
  BY <1>1, <1>2, ListIs
<1>4. Range(ps) = DOMAIN s
  BY <1>2 DEF Range
<1> QED BY <1>3, <1>4 DEF ps

LEMMA OnlyIs ==
  ASSUME NEW s, IsList(s), NEW set
  PROVE  IsList(Only(s, set)) /\ Range(Only(s, set)) = Range(s) \cap set
BY OnlyFilters, ListOf

(* The elements that are kept stand in the order they came in.             *)
LEMMA OnlyInOrder ==
  ASSUME NEW s, IsList(s), NEW set, NEW r, r = Only(s, set)
  PROVE  \A p, q \in DOMAIN r : p < q => \E i, j \in DOMAIN s : i < j /\ s[i] = r[p] /\ s[j] = r[q]
<1> DEFINE S == Range(s)
           n == Len(s)
<1>0. n \in Nat /\ s \in [1..n -> S] /\ DOMAIN s = 1..n
  BY LenProperties DEF IsList
<1>1. PICK kept : Kept(s, set, n, kept)
  BY KeptExists, <1>0
<1> DEFINE k == CHOOSE f : Kept(s, set, n, f)
<1>2. Kept(s, set, n, k)
  BY <1>1
<1>3. Only(s, set) = k[n]
  BY DEF Only, Kept
<1> HIDE DEF k
<1>4. k[0] = <<>> /\ \A i \in 1..n : k[i] = KeptNext(s, set, k, i)
  BY <1>0, <1>2, KeptIs
<1> DEFINE Come(i) ==
             /\ k[i] \in Seq(S)
             /\ \A p \in 1..Len(k[i]) : \E a \in 1..i : s[a] = k[i][p]
             /\ \A p, q \in 1..Len(k[i]) : p < q =>
                  \E a, b \in 1..i : a < b /\ s[a] = k[i][p] /\ s[b] = k[i][q]
           T == {i \in Nat : i <= n => Come(i)}
<1>5. 0 \in T
  <2>1. k[0] \in Seq(S) /\ 1..Len(k[0]) = {}
    BY <1>4, EmptySeq, SMT
  <2> QED BY <2>1
<1>6. ASSUME NEW i \in Nat, i \in T PROVE i + 1 \in T
  <2> SUFFICES ASSUME i + 1 <= n PROVE Come(i + 1)
    <3> HIDE DEF Come, n
    <3> QED BY <1>0, SMT
  <2>1. Come(i) /\ i + 1 \in 1..n
    <3> HIDE DEF Come, n
    <3> QED BY <1>6, <1>0, SMT
  <2>2. k[i + 1] = IF s[i + 1] \in set THEN Append(k[i], s[i + 1]) ELSE k[i]
    BY <1>4, <1>0, SMT DEF KeptNext
  <2>3. s[i + 1] \in S
    BY <1>0, SMT
  <2>4. CASE s[i + 1] \in set
    <3> DEFINE m == Len(k[i])
    <3>1. /\ k[i + 1] \in Seq(S) /\ m \in Nat
          /\ Len(k[i + 1]) = m + 1
          /\ \A l \in 1..m : k[i + 1][l] = k[i][l]
          /\ k[i + 1][m + 1] = s[i + 1]
      BY <2>1, <2>2, <2>3, <2>4, AppendProperties, LenProperties
    <3> HIDE DEF S
    <3>2. ASSUME NEW p \in 1..(m + 1) PROVE \E a \in 1..(i + 1) : s[a] = k[i + 1][p]
      <4>1. CASE p = m + 1
        BY <3>1, <4>1, i + 1 \in 1..(i + 1)
      <4>2. CASE p # m + 1
        <5>1. p \in 1..m
          BY <3>1, <4>2, SMT
        <5>2. PICK a \in 1..i : s[a] = k[i][p]
          BY <2>1, <5>1
        <5>3. a \in 1..(i + 1)
          BY SMT
        <5> QED BY <3>1, <5>1, <5>2, <5>3
      <4> QED BY <4>1, <4>2
    <3>3. ASSUME NEW p \in 1..(m + 1), NEW q \in 1..(m + 1), p < q
          PROVE  \E a, b \in 1..(i + 1) : a < b /\ s[a] = k[i + 1][p] /\ s[b] = k[i + 1][q]
      <4>1. CASE q = m + 1
        <5>1. p \in 1..m
          BY <3>1, <3>3, <4>1, SMT
        <5>2. PICK a \in 1..i : s[a] = k[i][p]
          BY <2>1, <5>1
        <5>3. a \in 1..(i + 1) /\ i + 1 \in 1..(i + 1) /\ a < i + 1
          BY SMT
        <5> QED BY <3>1, <4>1, <5>1, <5>2, <5>3
      <4>2. CASE q # m + 1
        <5>1. p \in 1..m /\ q \in 1..m
          BY <3>1, <3>3, <4>2, SMT
        <5>2. PICK a \in 1..i, b \in 1..i : a < b /\ s[a] = k[i][p] /\ s[b] = k[i][q]
          BY <2>1, <3>3, <5>1
        <5>3. a \in 1..(i + 1) /\ b \in 1..(i + 1)
          BY SMT
        <5> QED BY <3>1, <5>1, <5>2, <5>3
      <4> QED BY <4>1, <4>2
    <3> QED BY <3>1, <3>2, <3>3
  <2>5. CASE s[i + 1] \notin set
    <3>1. k[i + 1] = k[i] /\ 1..i \subseteq 1..(i + 1)
      BY <2>2, <2>5, SMT
    <3> HIDE DEF S
    <3> QED BY <2>1, <3>1
  <2> QED BY <2>4, <2>5
<1>7. Nat \subseteq T
  <2> HIDE DEF T
  <2> QED BY <1>5, <1>6, Inductive
<1>8. Come(n)
  <2> HIDE DEF Come
  <2> QED BY <1>0, <1>7, SMT
<1>9. DOMAIN k[n] = 1..Len(k[n]) /\ Len(k[n]) \in Nat
  BY <1>8, LenProperties
<1> HIDE DEF S
<1> DEFINE o == k[n]
<1>10. \A p, q \in DOMAIN o : p < q => \E i, j \in DOMAIN s : i < j /\ s[i] = o[p] /\ s[j] = o[q]
  <2> SUFFICES ASSUME NEW p \in DOMAIN o, NEW q \in DOMAIN o, p < q
               PROVE  \E i, j \in DOMAIN s : i < j /\ s[i] = o[p] /\ s[j] = o[q]
    OBVIOUS
  <2>1. p \in 1..Len(k[n]) /\ q \in 1..Len(k[n])
    BY <1>9, Zenon
  <2>2. PICK i \in 1..n, j \in 1..n : i < j /\ s[i] = o[p] /\ s[j] = o[q]
    BY <2>1, <1>8, Zenon
  <2>3. i \in DOMAIN s /\ j \in DOMAIN s
    BY <1>0, Zenon
  <2> QED BY <2>2, <2>3, Zenon
<1>11. r = o
  BY <1>3
<1> HIDE DEF o
<1> QED BY <1>10, <1>11

(* Two elements that are kept come from two places.                        *)
LEMMA OnlyPlaces ==
  ASSUME NEW s, IsList(s), NEW set
  PROVE  \A p, q \in DOMAIN Only(s, set) : p # q =>
           \E i, j \in DOMAIN s : i # j /\ s[i] = Only(s, set)[p] /\ s[j] = Only(s, set)[q]
<1> DEFINE o == Only(s, set)
<1> SUFFICES ASSUME NEW p \in DOMAIN o, NEW q \in DOMAIN o, p # q
             PROVE  \E i, j \in DOMAIN s : i # j /\ s[i] = o[p] /\ s[j] = o[q]
  BY Zenon
<1>1. IsList(o) /\ \A x, y \in DOMAIN o : x < y =>
        \E i, j \in DOMAIN s : i < j /\ s[i] = o[x] /\ s[j] = o[y]
  BY OnlyInOrder, OnlyIs
<1> HIDE DEF o
<1>2. DOMAIN o \subseteq Nat /\ DOMAIN s \subseteq Nat
  BY <1>1, Listed, SMT
<1>3. p < q \/ q < p
  BY <1>2, SMT
<1>4. \A i, j \in DOMAIN s : i < j => i # j
  BY <1>2, SMT
<1> QED BY <1>1, <1>3, <1>4

(* A list of lists.                                                        *)
LEMMA ListsAre ==
  ASSUME NEW s, IsList(s), NEW ss, ss = [i \in DOMAIN s |-> ss[i]],
         \A i \in DOMAIN s : IsList(ss[i])
  PROVE  \E S : ss \in Seq(Seq(S)) /\ DOMAIN ss = DOMAIN s
<1> DEFINE n == Len(s)
           S == UNION {Range(ss[i]) : i \in 1..n}
<1>1. n \in Nat /\ DOMAIN s = 1..n
  BY Listed
<1>2. \A i \in 1..n : ss[i] \in Seq(S)
  <2> TAKE i \in 1..n
  <2>1. Range(ss[i]) \subseteq S /\ ss[i] \in Seq(Range(ss[i]))
    BY <1>1 DEF IsList
  <2> HIDE DEF S
  <2> QED BY <2>1, SeqMonotonic
<1>3. ss \in Seq(Seq(S)) /\ DOMAIN ss = 1..n
  <2>1. IsList(ss) /\ Len(ss) = n
    BY <1>1, ListIs
  <2>2. Range(ss) \subseteq Seq(S)
    BY <1>1, <1>2 DEF Range
  <2>3. DOMAIN ss = 1..n
    BY <1>1, Zenon
  <2> HIDE DEF S
  <2> QED BY <2>1, <2>2, <2>3, SeqMonotonic DEF IsList
<1> HIDE DEF S
<1> QED BY <1>1, <1>3

(* Lists put one behind the other.                                         *)
LEMMA FlatList ==
  ASSUME NEW s, IsList(s), NEW ss, ss = [i \in DOMAIN s |-> ss[i]],
         \A i \in DOMAIN s : IsList(ss[i])
  PROVE  /\ IsList(FlattenSeq(ss))
         /\ \A x : x \in Range(FlattenSeq(ss)) <=> \E i \in DOMAIN s : x \in Range(ss[i])
<1>1. PICK S : ss \in Seq(Seq(S)) /\ DOMAIN ss = DOMAIN s
  BY ListsAre
<1>2. FlattenSeq(ss) \in Seq(S)
  BY <1>1, Flattens
<1> QED BY <1>1, <1>2, Flattens, ListOf

(* A loop of m turns from x, the n-th of which takes y to f[<<n, y>>].      *)
Looped(m, f, x, g) == g[0] = x /\ \A n \in 1..m : g[n] = f[<<n, g[n - 1]>>]

LEMMA Loops ==
  ASSUME NEW S, NEW m \in Nat, NEW f \in [(1..m) \X S -> S], NEW x \in S
  PROVE  \E g \in [0..m -> S] : Looped(m, f, x, g)
<1> DEFINE Upto(k, g) == g[0] = x /\ \A n \in 1..k : g[n] = f[<<n, g[n - 1]>>]
           T == {k \in Nat : k <= m => \E g \in [0..k -> S] : Upto(k, g)}
<1>1. 0 \in T
  <2> DEFINE g == [i \in 0..0 |-> x]
  <2>1. g \in [0..0 -> S] /\ Upto(0, g)
    BY SMT
  <2> QED BY <2>1
<1>2. ASSUME NEW k \in Nat, k \in T PROVE k + 1 \in T
  <2> SUFFICES ASSUME k + 1 <= m PROVE \E g \in [0..(k + 1) -> S] : Upto(k + 1, g)
    BY SMT
  <2>1. PICK g \in [0..k -> S] : Upto(k, g)
    BY <1>2, SMT
  <2> DEFINE y == f[<<k + 1, g[k]>>]
             h == [i \in 0..(k + 1) |-> IF i = k + 1 THEN y ELSE g[i]]
  <2>2. g[k] \in S /\ k + 1 \in 1..m /\ k \in 0..k
    BY SMT
  <2>3. y \in S
    BY <2>2
  <2> HIDE DEF y
  <2>4. h \in [0..(k + 1) -> S]
    BY <2>3, SMT
  <2>5. \A i \in 0..k : h[i] = g[i]
    BY SMT
  <2>6. h[k + 1] = y
    BY SMT
  <2> HIDE DEF h
  <2>7. h[0] = x
    BY <2>1, <2>5, SMT
  <2>8. \A n \in 1..k : h[n] = f[<<n, h[n - 1]>>]
    <3> TAKE n \in 1..k
    <3>1. n \in 0..k /\ n - 1 \in 0..k
      BY SMT
    <3> QED BY <2>1, <2>5, <3>1, Zenon
  <2>9. h[k + 1] = f[<<k + 1, h[k]>>]
    BY <2>2, <2>5, <2>6 DEF y
  <2>10. \A n \in 1..(k + 1) : n \in 1..k \/ n = k + 1
    BY SMT
  <2>11. (k + 1) - 1 = k
    BY SMT
  <2>12. Upto(k + 1, h)
    BY <2>7, <2>8, <2>9, <2>10, <2>11, Zenon
  <2> QED BY <2>4, <2>12
<1>3. m \in T
  <2> HIDE DEF T
  <2> QED BY <1>1, <1>2, Inductive
<1>4. m <= m
  BY SMT
<1> QED BY <1>3, <1>4 DEF Looped

-----------------------------------------------------------------------------
(* Lists that grow by one element at the end. *)

(* A set that holds the empty list and with a list each longer one, holds  *)
(* all lists.                                                              *)
LEMMA Grows ==
  ASSUME NEW S, NEW T, <<>> \in T,
         \A s \in Seq(S) : s \in T => \A x \in S : Append(s, x) \in T
  PROVE  Seq(S) \subseteq T
<1> DEFINE N == {n \in Nat : \A s \in Seq(S) : Len(s) = n => s \in T}
<1>1. 0 \in N
  <2>1. \A s \in Seq(S) : Len(s) = 0 => s = <<>>
    BY EmptySeq
  <2> QED BY <2>1
<1>2. ASSUME NEW n \in Nat, n \in N PROVE n + 1 \in N
  <2> SUFFICES ASSUME NEW s \in Seq(S), Len(s) = n + 1 PROVE s \in T
    OBVIOUS
  <2>1. s # <<>>
    BY EmptySeq, SMT
  <2>2. PICK r \in Seq(S), x \in S : s = Append(r, x)
    BY <2>1, SequenceEmptyOrAppend
  <2>3. Len(r) = n
    <3>1. Len(s) = Len(r) + 1 /\ Len(r) \in Nat
      BY <2>2, AppendProperties, LenProperties
    <3> QED BY <3>1, SMT
  <2> QED BY <1>2, <2>2, <2>3
<1>3. Nat \subseteq N
  <2> HIDE DEF N
  <2> QED BY <1>1, <1>2, Inductive
<1> QED
  <2> SUFFICES ASSUME NEW s \in Seq(S) PROVE s \in T
    OBVIOUS
  <2>1. Len(s) \in Nat
    BY LenProperties
  <2> QED BY <1>3, <2>1

(* The last element is kept or not.                                        *)
LEMMA OnlyAppend ==
  ASSUME NEW S, NEW s \in Seq(S), NEW x \in S, NEW set
  PROVE  /\ Only(<<>>, set) = <<>>
         /\ Only(Append(s, x), set) =
              IF x \in set THEN Append(Only(s, set), x) ELSE Only(s, set)
<1> DEFINE n == Len(s)
           t == Append(s, x)
<1>0. /\ n \in Nat /\ n + 1 \in Nat
      /\ Len(t) = n + 1 /\ (\A i \in 1..n : t[i] = s[i]) /\ t[n + 1] = x
  BY LenProperties, AppendProperties, SMT
<1>1. Only(<<>>, set) = <<>>
  <2>1. IsList(<<>>) /\ Range(<<>>) \subseteq set
    BY One
  <2> QED BY <2>1, OnlyFilters
<1> DEFINE k == CHOOSE f : Kept(s, set, n, f)
           l == CHOOSE f : Kept(t, set, n + 1, f)
<1>2. Kept(s, set, n, k) /\ Kept(t, set, n + 1, l)
  BY <1>0, KeptExists
<1>3. Only(s, set) = k[n]
  BY DEF Only, Kept
<1>4. Only(t, set) = l[n + 1]
  BY <1>0 DEF Only, Kept
<1> HIDE DEF k, l
<1>m. n \in Nat /\ n + 1 \in Nat
  BY <1>0
<1> HIDE DEF n, t
<1>5. k[0] = <<>> /\ \A i \in 1..n : k[i] = KeptNext(s, set, k, i)
  BY <1>m, <1>2, KeptIs
<1>6. l[0] = <<>> /\ \A i \in 1..(n + 1) : l[i] = KeptNext(t, set, l, i)
  BY <1>m, <1>2, KeptIs
<1> DEFINE T == {i \in Nat : i <= n => l[i] = k[i]}
<1>7. 0 \in T
  BY <1>5, <1>6
<1>8. ASSUME NEW i \in Nat, i \in T PROVE i + 1 \in T
  <2> SUFFICES ASSUME i + 1 <= n PROVE l[i + 1] = k[i + 1]
    OBVIOUS
  <2>1. i + 1 \in 1..n /\ i + 1 \in 1..(n + 1) /\ (i + 1) - 1 = i /\ i <= n
    BY <1>0, SMT
  <2>2. l[i] = k[i] /\ t[i + 1] = s[i + 1]
    BY <1>0, <1>8, <2>1
  <2> QED BY <1>5, <1>6, <2>1, <2>2 DEF KeptNext
<1>9. Nat \subseteq T
  <2> HIDE DEF T
  <2> QED BY <1>7, <1>8, Inductive
<1>10. l[n] = k[n]
  BY <1>0, <1>9, SMT
<1>11. l[n + 1] = IF x \in set THEN Append(l[n], x) ELSE l[n]
  <2>1. n + 1 \in 1..(n + 1) /\ (n + 1) - 1 = n
    BY <1>0, SMT
  <2> QED BY <1>0, <1>6, <2>1 DEF KeptNext
<1> QED BY <1>1, <1>3, <1>4, <1>10, <1>11 DEF t

(* Two filters keep what both keep.                                        *)
LEMMA OnlyTwice ==
  ASSUME NEW s, IsList(s), NEW A, NEW B
  PROVE  Only(Only(s, A), B) = Only(s, A \cap B)
<1> DEFINE S == Range(s)
           T == {t \in Seq(S) : Only(Only(t, A), B) = Only(t, A \cap B)}
<1>1. <<>> \in T
  <2>1. \A set : Only(<<>>, set) = <<>>
    BY One, OnlyFilters
  <2> QED BY <2>1, EmptySeq
<1>2. ASSUME NEW t \in Seq(S), t \in T, NEW x \in S PROVE Append(t, x) \in T
  <2>1. Append(t, x) \in Seq(S)
    BY AppendProperties
  <2>2. \A set : Only(Append(t, x), set) =
                   IF x \in set THEN Append(Only(t, set), x) ELSE Only(t, set)
    BY OnlyAppend
  <2>3. Only(t, A) \in Seq(S)
    <3>1. IsList(t) /\ Range(t) \subseteq S
      BY ListOf
    <3>2. Only(t, A) \in Seq(Range(t) \cap A) /\ Range(t) \cap A \subseteq S
      BY <3>1, OnlyFilters
    <3> HIDE DEF S
    <3> QED BY <3>2, SeqMonotonic
  <2>4. Only(Append(Only(t, A), x), B) =
          IF x \in B THEN Append(Only(Only(t, A), B), x) ELSE Only(Only(t, A), B)
    BY <2>3, OnlyAppend
  <2>5. Only(Only(t, A), B) = Only(t, A \cap B)
    BY <1>2
  <2>6. Only(Only(Append(t, x), A), B) = Only(Append(t, x), A \cap B)
    <3>1. CASE x \in A
      BY <2>2, <2>4, <2>5, <3>1
    <3>2. CASE x \notin A
      BY <2>2, <2>5, <3>2
    <3> QED BY <3>1, <3>2
  <2> QED BY <2>1, <2>6
<1>3. Seq(S) \subseteq T
  <2> HIDE DEF S, T
  <2> QED BY <1>1, <1>2, Grows
<1>4. s \in Seq(S)
  BY DEF IsList
<1> QED BY <1>3, <1>4

LEMMA FlatNone == FlattenSeq(<<>>) = <<>>
BY DEF FlattenSeq

(* The last list goes behind the others.                                   *)
LEMMA FlatAppend ==
  ASSUME NEW S, NEW ss \in Seq(Seq(S)), NEW x \in Seq(S)
  PROVE  FlattenSeq(Append(ss, x)) = FlattenSeq(ss) \o x
<1> DEFINE n == Len(ss)
           tt == Append(ss, x)
<1>0. /\ n \in Nat /\ n + 1 \in Nat \ {0}
      /\ Len(tt) = n + 1 /\ (\A i \in 1..n : tt[i] = ss[i]) /\ tt[n + 1] = x
  BY LenProperties, AppendProperties, SMT
<1>1. FlattenSeq(<<>>) = <<>>
  BY FlatNone
<1> DEFINE l == CHOOSE f : Flat(tt, n + 1, f)
<1>2. Flat(tt, n + 1, l)
  BY <1>0, FlatExists
<1>3. FlattenSeq(tt) = l[n + 1]
  <2>1. Len(tt) # 0
    BY <1>0
  <2> QED BY <1>0, <2>1 DEF FlattenSeq, Flat
<1> HIDE DEF l
<1>4. l[1] = tt[1] /\ \A i \in 2..(n + 1) : l[i] = l[i - 1] \o tt[i]
  BY <1>0, <1>2, FlatIs
<1>5. CASE n = 0
  <2>1. ss = <<>> /\ FlattenSeq(ss) = <<>>
    BY <1>1, <1>5, EmptySeq
  <2>2. l[n + 1] = x
    BY <1>0, <1>4, <1>5
  <2> QED BY <1>1, <1>3, <2>1, <2>2, ConcatEmptySeq
<1>6. CASE n # 0
  <2>0. n \in Nat \ {0} /\ (n - 1) + 1 = n /\ n - 1 \in Nat /\ 1 \in 1..n
    BY <1>0, <1>6, SMT
  <2> DEFINE k == CHOOSE f : Flat(ss, n, f)
  <2>1. Flat(ss, n, k)
    BY <2>0, FlatExists
  <2>2. FlattenSeq(ss) = k[n]
    BY <1>6 DEF FlattenSeq, Flat
  <2> HIDE DEF k
  <2>3. k[1] = ss[1] /\ \A i \in 2..n : k[i] = k[i - 1] \o ss[i]
    BY <2>0, <2>1, FlatIs
  <2> DEFINE T == {i \in Nat : i + 1 <= n => l[i + 1] = k[i + 1]}
  <2>4. 0 \in T
    <3>1. 0 + 1 = 1
      BY SMT
    <3> QED BY <1>0, <1>4, <2>0, <2>3, <3>1
  <2>5. ASSUME NEW i \in Nat, i \in T PROVE i + 1 \in T
    <3> SUFFICES ASSUME (i + 1) + 1 <= n PROVE l[(i + 1) + 1] = k[(i + 1) + 1]
      OBVIOUS
    <3>1. /\ (i + 1) + 1 \in 2..n /\ (i + 1) + 1 \in 2..(n + 1) /\ (i + 1) + 1 \in 1..n
          /\ ((i + 1) + 1) - 1 = i + 1 /\ i + 1 <= n
      BY <1>0, SMT
    <3>2. l[i + 1] = k[i + 1] /\ tt[(i + 1) + 1] = ss[(i + 1) + 1]
      BY <1>0, <2>5, <3>1
    <3> QED BY <1>4, <2>3, <3>1, <3>2
  <2>6. Nat \subseteq T
    <3> HIDE DEF T
    <3> QED BY <2>4, <2>5, Inductive
  <2>7. l[n] = k[n]
    <3>1. n - 1 \in T
      BY <2>0, <2>6
    <3>2. (n - 1) + 1 <= n
      BY <2>0, SMT
    <3> QED BY <2>0, <3>1, <3>2
  <2>8. l[n + 1] = l[n] \o x
    <3>1. n + 1 \in 2..(n + 1) /\ (n + 1) - 1 = n
      BY <2>0, SMT
    <3> QED BY <1>0, <1>4, <3>1
  <2> QED BY <1>1, <1>3, <2>2, <2>7, <2>8
<1> QED BY <1>5, <1>6

LEMMA FlatConcat ==
  ASSUME NEW S, NEW ss \in Seq(Seq(S)), NEW tt \in Seq(Seq(S))
  PROVE  FlattenSeq(ss \o tt) = FlattenSeq(ss) \o FlattenSeq(tt)
<1> DEFINE R == Seq(S)
           T == {t \in Seq(R) : FlattenSeq(ss \o t) = FlattenSeq(ss) \o FlattenSeq(t)}
<1>0. \A t \in Seq(R) : FlattenSeq(t) \in Seq(S)
  BY Flattens
<1>1. <<>> \in T
  <2>1. ss \o <<>> = ss /\ FlattenSeq(ss) \o <<>> = FlattenSeq(ss)
    BY <1>0, ConcatEmptySeq
  <2>2. FlattenSeq(<<>>) = <<>> /\ <<>> \in Seq(R)
    BY FlatNone, EmptySeq
  <2> QED BY <2>1, <2>2
<1>2. ASSUME NEW t \in Seq(R), t \in T, NEW x \in R PROVE Append(t, x) \in T
  <2>1. /\ Append(t, x) \in Seq(R) /\ ss \o t \in Seq(R)
        /\ Append(t, x) = t \o <<x>> /\ <<x>> \in Seq(R)
    BY AppendProperties, AppendIsConcat, ConcatProperties
  <2>2. ss \o Append(t, x) = Append(ss \o t, x)
    <3>1. (ss \o t) \o <<x>> = ss \o (t \o <<x>>)
      BY <2>1, ConcatAssociative
    <3>2. Append(ss \o t, x) = (ss \o t) \o <<x>>
      BY <2>1, AppendIsConcat
    <3> QED BY <2>1, <3>1, <3>2
  <2>3. FlattenSeq(ss \o Append(t, x)) = FlattenSeq(ss \o t) \o x
    BY <2>1, <2>2, FlatAppend
  <2>4. FlattenSeq(Append(t, x)) = FlattenSeq(t) \o x
    BY FlatAppend
  <2>5. (FlattenSeq(ss) \o FlattenSeq(t)) \o x = FlattenSeq(ss) \o (FlattenSeq(t) \o x)
    BY <1>0, ConcatAssociative
  <2> QED BY <1>2, <2>1, <2>3, <2>4, <2>5
<1>3. Seq(R) \subseteq T
  <2> HIDE DEF T, R
  <2> QED BY <1>1, <1>2, Grows
<1> QED BY <1>3

(* The first element of a flattened list is that of the first list that    *)
(* has one.                                                                *)
FirstFilled(ss, f) ==
  f \in DOMAIN ss /\ ss[f] # <<>> /\ \A i \in DOMAIN ss : i < f => ss[i] = <<>>

LEMMA FlatHead ==
  ASSUME NEW S, NEW ss \in Seq(Seq(S))
  PROVE  /\ (\A i \in DOMAIN ss : ss[i] = <<>>) => FlattenSeq(ss) = <<>>
         /\ \A f : FirstFilled(ss, f) =>
              FlattenSeq(ss) # <<>> /\ FlattenSeq(ss)[1] = ss[f][1]
<1> DEFINE R == Seq(S)
           Good(t) ==
             /\ (\A i \in DOMAIN t : t[i] = <<>>) => FlattenSeq(t) = <<>>
             /\ \A f : FirstFilled(t, f) => FlattenSeq(t) # <<>> /\ FlattenSeq(t)[1] = t[f][1]
           T == {t \in Seq(R) : Good(t)}
<1>1. <<>> \in T
  <2>1. FlattenSeq(<<>>) = <<>> /\ <<>> \in Seq(R) /\ DOMAIN <<>> = {}
    BY FlatNone, EmptySeq
  <2> QED BY <2>1 DEF FirstFilled
<1>2. ASSUME NEW t \in Seq(R), t \in T, NEW x \in R PROVE Append(t, x) \in T
  <2> DEFINE u == Append(t, x)
             n == Len(t)
  <2>1. /\ u \in Seq(R) /\ n \in Nat /\ DOMAIN t = 1..n /\ DOMAIN u = 1..(n + 1)
        /\ (\A i \in 1..n : u[i] = t[i]) /\ u[n + 1] = x
    BY AppendProperties, LenProperties
  <2>2. FlattenSeq(u) = FlattenSeq(t) \o x /\ FlattenSeq(t) \in Seq(S) /\ x \in Seq(S)
    BY FlatAppend, Flattens
  <2>3. Good(t)
    BY <1>2
  <2> HIDE DEF u, n, R
  <2>4. (\A i \in DOMAIN u : u[i] = <<>>) => FlattenSeq(u) = <<>>
    <3> SUFFICES ASSUME \A i \in DOMAIN u : u[i] = <<>> PROVE FlattenSeq(u) = <<>>
      OBVIOUS
    <3>1. \A i \in 1..n : i \in DOMAIN u
      BY <2>1, SMT
    <3>2. n + 1 \in DOMAIN u
      BY <2>1, SMT
    <3>3. x = <<>> /\ FlattenSeq(t) = <<>>
      BY <2>1, <2>3, <3>1, <3>2
    <3> QED BY <2>2, <3>3, ConcatEmptySeq
  <2>5. ASSUME NEW f, FirstFilled(u, f)
        PROVE  FlattenSeq(u) # <<>> /\ FlattenSeq(u)[1] = u[f][1]
    <3>1. f \in 1..(n + 1) /\ u[f] # <<>> /\ \A i \in 1..(n + 1) : i < f => u[i] = <<>>
      BY <2>1, <2>5 DEF FirstFilled
    <3>2. CASE f \in 1..n
      <4>1. FirstFilled(t, f)
        <5>1. \A i \in 1..n : i \in 1..(n + 1)
          BY <2>1, SMT
        <5> QED BY <2>1, <3>1, <3>2, <5>1 DEF FirstFilled
      <4>2. FlattenSeq(t) # <<>> /\ FlattenSeq(t)[1] = u[f][1]
        BY <2>1, <2>3, <3>2, <4>1
      <4>3. Len(FlattenSeq(t)) \in Nat /\ Len(FlattenSeq(t)) >= 1 /\ Len(x) \in Nat
        BY <2>2, <4>2, EmptySeq, LenProperties, SMT
      <4>4. /\ Len(FlattenSeq(t) \o x) = Len(FlattenSeq(t)) + Len(x)
            /\ \A i \in 1..(Len(FlattenSeq(t)) + Len(x)) :
                 (FlattenSeq(t) \o x)[i] = IF i <= Len(FlattenSeq(t)) THEN FlattenSeq(t)[i]
                                           ELSE x[i - Len(FlattenSeq(t))]
        BY <2>2, ConcatProperties
      <4>5. 1 \in 1..(Len(FlattenSeq(t)) + Len(x)) /\ 1 <= Len(FlattenSeq(t))
        BY <4>3, SMT
      <4>6. (FlattenSeq(t) \o x)[1] = FlattenSeq(t)[1]
        BY <4>4, <4>5
      <4>7. FlattenSeq(t) \o x # <<>>
        BY <2>2, <4>2, ConcatEqualIffEmpty
      <4> QED BY <2>2, <4>2, <4>6, <4>7
    <3>3. CASE f = n + 1
      <4>1. \A i \in 1..n : i \in 1..(n + 1) /\ i < n + 1
        BY <2>1, SMT
      <4>2. FlattenSeq(t) = <<>>
        BY <2>1, <2>3, <3>1, <3>3, <4>1
      <4>3. FlattenSeq(u) = x /\ x = u[f] /\ x # <<>>
        BY <2>1, <2>2, <3>1, <3>3, <4>2, ConcatEmptySeq
      <4> QED BY <4>3
    <3> QED BY <2>1, <3>1, <3>2, <3>3, SMT
  <2> QED BY <2>1, <2>4, <2>5 DEF u
<1>3. Seq(R) \subseteq T
  <2> HIDE DEF T, R
  <2> QED BY <1>1, <1>2, Grows
<1> QED BY <1>3

LEMMA FlatFirst ==
  ASSUME NEW s, IsList(s), NEW ss, ss = [i \in DOMAIN s |-> ss[i]],
         \A i \in DOMAIN s : IsList(ss[i]),
         NEW f, FirstFilled(ss, f)
  PROVE  FlattenSeq(ss) # <<>> /\ FlattenSeq(ss)[1] = ss[f][1]
<1>1. PICK S : ss \in Seq(Seq(S))
  BY ListsAre
<1> QED BY <1>1, FlatHead

-----------------------------------------------------------------------------
(* What a function makes of each element, one after the other. *)

Spread(g, s) == FlattenSeq([i \in DOMAIN s |-> g[s[i]]])

LEMMA SpreadNone ==
  ASSUME NEW g
  PROVE  Spread(g, <<>>) = <<>>
<1>1. DOMAIN <<>> = {}
  BY EmptySeq
<1>2. [i \in DOMAIN <<>> |-> g[<<>>[i]]] = <<>>
  BY <1>1, SMT
<1> QED BY <1>2, FlatNone DEF Spread

LEMMA SpreadIs ==
  ASSUME NEW R, NEW S, NEW g \in [R -> Seq(S)], NEW s \in Seq(R)
  PROVE  /\ [i \in DOMAIN s |-> g[s[i]]] \in Seq(Seq(S))
         /\ Spread(g, s) \in Seq(S)
<1> DEFINE ss == [i \in DOMAIN s |-> g[s[i]]]
<1>1. Len(s) \in Nat /\ DOMAIN s = 1..Len(s) /\ \A i \in 1..Len(s) : s[i] \in R
  BY LenProperties, ElementOfSeq
<1>2. ss \in [1..Len(s) -> Seq(S)]
  BY <1>1
<1>3. ss \in Seq(Seq(S))
  <2> DEFINE Q == Seq(S)
  <2>1. ss \in [1..Len(s) -> Q]
    BY <1>2
  <2> HIDE DEF ss, Q
  <2>2. ss \in Seq(Q)
    <3>1. \A n \in Nat : [1..n -> Q] \subseteq Seq(Q)
      BY SMT
    <3> QED BY <1>1, <2>1, <3>1, Zenon
  <2> QED BY <2>2 DEF Q
<1> QED BY <1>3, Flattens DEF Spread

LEMMA SpreadAppend ==
  ASSUME NEW R, NEW S, NEW g \in [R -> Seq(S)], NEW s \in Seq(R), NEW x \in R
  PROVE  Spread(g, Append(s, x)) = Spread(g, s) \o g[x]
<1> DEFINE ss == [i \in DOMAIN s |-> g[s[i]]]
           t  == Append(s, x)
           tt == [i \in DOMAIN t |-> g[t[i]]]
           n  == Len(s)
<1>2. /\ t \in Seq(R) /\ n \in Nat /\ DOMAIN s = 1..n /\ DOMAIN t = 1..(n + 1)
      /\ (\A i \in 1..n : t[i] = s[i]) /\ t[n + 1] = x
  BY AppendProperties, LenProperties
<1>3. ss \in Seq(Seq(S)) /\ tt \in Seq(Seq(S)) /\ g[x] \in Seq(S)
  BY <1>2, SpreadIs
<1>4. tt = Append(ss, g[x])
  <2> DEFINE aa == Append(ss, g[x])
  <2>0. DOMAIN ss = 1..n /\ Len(ss) = n
    BY <1>2, <1>3, LenProperties, SMT
  <2>1. /\ aa \in Seq(Seq(S)) /\ Len(aa) = n + 1
        /\ (\A i \in 1..n : aa[i] = ss[i]) /\ aa[n + 1] = g[x]
    BY <1>3, <2>0, AppendProperties
  <2>2. DOMAIN tt = 1..(n + 1) /\ \A i \in 1..(n + 1) : tt[i] = g[t[i]]
    BY <1>2
  <2>3. \A i \in 1..n : ss[i] = g[s[i]]
    BY <1>2
  <2>4. Len(tt) = n + 1
    BY <1>2, <1>3, <2>2, LenProperties, SMT
  <2> HIDE DEF aa, tt, ss, t, n
  <2>5. \A i \in 1..(n + 1) : i \in 1..n \/ i = n + 1
    BY <1>2, SMT
  <2>6. \A i \in 1..(n + 1) : tt[i] = aa[i]
    BY <1>2, <2>1, <2>2, <2>3, <2>5
  <2>7. tt = aa
    BY <1>3, <2>1, <2>4, <2>6, SeqEqual
  <2> QED BY <2>7 DEF aa
<1>5. Spread(g, s) = FlattenSeq(ss) /\ Spread(g, t) = FlattenSeq(tt)
  BY DEF Spread
<1> HIDE DEF ss, tt
<1> QED BY <1>3, <1>4, <1>5, FlatAppend

LEMMA SpreadConcat ==
  ASSUME NEW R, NEW S, NEW g \in [R -> Seq(S)], NEW s \in Seq(R), NEW t \in Seq(R)
  PROVE  Spread(g, s \o t) = Spread(g, s) \o Spread(g, t)
<1> DEFINE T == {u \in Seq(R) : Spread(g, s \o u) = Spread(g, s) \o Spread(g, u)}
<1>0. \A u \in Seq(R) : Spread(g, u) \in Seq(S)
  BY SpreadIs
<1>1. <<>> \in T
  <2>1. s \o <<>> = s /\ Spread(g, s) \o <<>> = Spread(g, s) /\ <<>> \in Seq(R)
    BY <1>0, ConcatEmptySeq, EmptySeq
  <2>2. Spread(g, <<>>) = <<>>
    BY SpreadNone
  <2> QED BY <2>1, <2>2
<1>2. ASSUME NEW u \in Seq(R), u \in T, NEW x \in R PROVE Append(u, x) \in T
  <2>1. /\ Append(u, x) \in Seq(R) /\ s \o u \in Seq(R)
        /\ Append(u, x) = u \o <<x>> /\ <<x>> \in Seq(R)
    BY AppendProperties, AppendIsConcat, ConcatProperties
  <2>2. s \o Append(u, x) = Append(s \o u, x)
    <3>1. (s \o u) \o <<x>> = s \o (u \o <<x>>)
      BY <2>1, ConcatAssociative
    <3>2. Append(s \o u, x) = (s \o u) \o <<x>>
      BY <2>1, AppendIsConcat
    <3> QED BY <2>1, <3>1, <3>2
  <2>3. Spread(g, s \o Append(u, x)) = Spread(g, s \o u) \o g[x]
    BY <2>1, <2>2, SpreadAppend
  <2>4. Spread(g, Append(u, x)) = Spread(g, u) \o g[x]
    BY SpreadAppend
  <2>5. g[x] \in Seq(S)
    OBVIOUS
  <2>6. (Spread(g, s) \o Spread(g, u)) \o g[x] = Spread(g, s) \o (Spread(g, u) \o g[x])
    BY <1>0, <2>5, ConcatAssociative
  <2> QED BY <1>2, <2>1, <2>3, <2>4, <2>6
<1>3. Seq(R) \subseteq T
  <2> HIDE DEF T
  <2> QED BY <1>1, <1>2, Grows
<1> QED BY <1>3

(* To map a flattened list is to map each of its lists.                    *)
LEMMA SpreadFlat ==
  ASSUME NEW R, NEW S, NEW g \in [R -> Seq(S)], NEW ss \in Seq(Seq(R))
  PROVE  Spread(g, FlattenSeq(ss)) = FlattenSeq([i \in DOMAIN ss |-> Spread(g, ss[i])])
<1> DEFINE Q == Seq(R)
           m == [s \in Q |-> Spread(g, s)]
           T == {t \in Seq(Q) : Spread(g, FlattenSeq(t)) = Spread(m, t)}
<1>0. m \in [Q -> Seq(S)]
  BY SpreadIs
<1>c. \A u, v \in Seq(R) : Spread(g, u \o v) = Spread(g, u) \o Spread(g, v)
  BY SpreadConcat
<1>1. <<>> \in T
  <2>1. Spread(g, <<>>) = <<>> /\ Spread(m, <<>>) = <<>>
    <3> HIDE DEF m
    <3> QED BY SpreadNone
  <2>2. FlattenSeq(<<>>) = <<>> /\ <<>> \in Seq(Q)
    BY FlatNone, EmptySeq
  <2> HIDE DEF m
  <2> QED BY <2>1, <2>2
<1>2. ASSUME NEW t \in Seq(Q), t \in T, NEW x \in Q PROVE Append(t, x) \in T
  <2>1. Append(t, x) \in Seq(Q) /\ FlattenSeq(t) \in Seq(R) /\ x \in Seq(R)
    BY AppendProperties, Flattens
  <2>2. FlattenSeq(Append(t, x)) = FlattenSeq(t) \o x
    BY FlatAppend
  <2>3. Spread(g, FlattenSeq(t) \o x) = Spread(g, FlattenSeq(t)) \o Spread(g, x)
    BY <1>c, <2>1
  <2>4. m[x] = Spread(g, x) /\ Spread(g, FlattenSeq(t)) = Spread(m, t)
    BY <1>2
  <2> HIDE DEF m, Q
  <2>5. Spread(m, Append(t, x)) = Spread(m, t) \o m[x]
    BY <1>0, SpreadAppend
  <2> QED BY <2>1, <2>2, <2>3, <2>4, <2>5
<1>3. Seq(Q) \subseteq T
  <2> HIDE DEF T, Q
  <2> QED BY <1>1, <1>2, Grows
<1>4. Spread(g, FlattenSeq(ss)) = Spread(m, ss)
  BY <1>3
<1>5. [i \in DOMAIN ss |-> m[ss[i]]] = [i \in DOMAIN ss |-> Spread(g, ss[i])]
  <2>1. \A i \in DOMAIN ss : ss[i] \in Q
    BY LenProperties, ElementOfSeq
  <2> HIDE DEF Q
  <2>2. \A i \in DOMAIN ss : m[ss[i]] = Spread(g, ss[i])
    BY <2>1
  <2> HIDE DEF m
  <2> QED BY <2>2
<1> HIDE DEF m
<1> QED BY <1>4, <1>5 DEF Spread

LEMMA SpreadOne ==
  ASSUME NEW R, NEW S, NEW g \in [R -> Seq(S)], NEW x \in R
  PROVE  Spread(g, <<x>>) = g[x]
<1>1. <<>> \in Seq(R) /\ Append(<<>>, x) = <<x>>
  BY EmptySeq, SMT
<1>2. Spread(g, <<x>>) = Spread(g, <<>>) \o g[x]
  BY <1>1, SpreadAppend
<1>3. <<>> \o g[x] = g[x]
  BY ConcatEmptySeq
<1> QED BY <1>2, <1>3, SpreadNone

\* A function from R to lists over S; and lists over R, one for each place of s.
Lists(g, R, S) == g \in [R -> Seq(S)]
ListFor(s, ss, R) == ss \in [DOMAIN s -> Seq(R)]

LEMMA SpreadList ==
  ASSUME NEW R, NEW S, NEW g, Lists(g, R, S), NEW s, IsList(s),
         NEW ss, ListFor(s, ss, R), NEW r, ListFor(s, r, S),
         \A n \in DOMAIN s : r[n] = Spread(g, ss[n])
  PROVE  Spread(g, FlattenSeq(ss)) = FlattenSeq(r)
<1>1. DOMAIN s = 1..Len(s) /\ Len(s) \in Nat
  BY Listed
<1> DEFINE Q == Seq(R)
           m == Len(s)
<1>2. ss \in [1..m -> Q] /\ DOMAIN ss = DOMAIN s /\ r = [n \in DOMAIN s |-> r[n]]
  BY <1>1 DEF ListFor
<1>3. ss \in Seq(Q)
  <2> HIDE DEF Q
  <2> QED BY <1>1, <1>2, IsASeq
<1>g. g \in [R -> Seq(S)]
  BY DEF Lists
<1>4. Spread(g, FlattenSeq(ss)) = FlattenSeq([n \in DOMAIN ss |-> Spread(g, ss[n])])
  BY <1>3, <1>g, SpreadFlat
<1>5. r = [n \in DOMAIN ss |-> Spread(g, ss[n])]
  BY <1>2
<1> QED BY <1>4, <1>5

(* ... of lists of one element each.                                       *)
LEMMA SpreadOnes ==
  ASSUME NEW R, NEW S, NEW g, Lists(g, R, S), NEW s, IsList(s),
         NEW ss, ListFor(s, ss, R), NEW r, ListFor(s, r, S),
         NEW x, \A n \in DOMAIN s : x[n] \in R /\ ss[n] = <<x[n]>> /\ r[n] = g[x[n]]
  PROVE  Spread(g, FlattenSeq(ss)) = FlattenSeq(r)
<1>1. \A n \in DOMAIN s : Spread(g, <<x[n]>>) = g[x[n]]
  BY SpreadOne DEF Lists
<1>2. \A n \in DOMAIN s : r[n] = Spread(g, ss[n])
  BY <1>1
<1> QED BY <1>2, SpreadList

LEMMA SpreadOver ==
  ASSUME NEW R, NEW S, NEW g, Lists(g, R, S)
  PROVE  /\ \A s, t \in Seq(R) : Spread(g, s \o t) = Spread(g, s) \o Spread(g, t)
         /\ \A x \in R : Spread(g, <<x>>) = g[x]
         /\ \A s \in Seq(R) : Spread(g, s) \in Seq(S)
<1>1. g \in [R -> Seq(S)]
  BY DEF Lists
<1>2. \A G \in [R -> Seq(S)] : \A s, t \in Seq(R) : Spread(G, s \o t) = Spread(G, s) \o Spread(G, t)
  BY SpreadConcat
<1>3. \A G \in [R -> Seq(S)] : \A x \in R : Spread(G, <<x>>) = G[x]
  BY SpreadOne
<1>4. \A G \in [R -> Seq(S)] : \A s \in Seq(R) : Spread(G, s) \in Seq(S)
  BY SpreadIs
<1> QED BY <1>1, <1>2, <1>3, <1>4, Zenon

=============================================================================
