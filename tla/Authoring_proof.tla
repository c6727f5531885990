-------------------------- MODULE Authoring_proof --------------------------
(***************************************************************************)
(* What suggest and query promise of a slice, for every slice: its passes  *)
(* go by places, tables and indices (SliceAnalysis_proof), the properties  *)
(* by blocks and ids.                                                      *)
(***************************************************************************)
EXTENDS Authoring, SliceAnalysis_proof

-----------------------------------------------------------------------------
(* Searching a slice. *)

LEMMA RowIs ==
  ASSUME NEW s, IsList(s), NEW event, NEW step, NEW row, row = Row(s, event, step)
  PROVE  LET Fits(i) == /\ s[i].kind = "post_failure"
                        /\ IdentOf(s[i], "event") = event /\ IdentOf(s[i], "step") = step
         IN  /\ row = 0 => \A i \in DOMAIN s : ~Fits(i)
             /\ row # 0 => row \in DOMAIN s /\ Fits(row)
<1> DEFINE Fits(i) == /\ s[i].kind = "post_failure"
                      /\ IdentOf(s[i], "event") = event /\ IdentOf(s[i], "step") = step
           I == {i \in 1..Len(s) : Fits(i)}
<1>1. Len(s) \in Nat /\ DOMAIN s = 1..Len(s)
  BY Listed
<1>2. row = IF I # {} THEN Max(I) ELSE 0
  BY DEF Row, SelectLastInSeq
<1>3. I # {} => Max(I) \in I
  BY <1>1, SomeMax
<1>4. \A i \in DOMAIN s : Fits(i) <=> i \in I
  BY <1>1
<1>5. I \subseteq DOMAIN s /\ 0 \notin I
  <2>1. 0 \notin 1..Len(s)
    BY <1>1, SMT
  <2> QED BY <1>1, <2>1
<1> HIDE DEF I, Fits
<1>6. /\ row = 0 => \A i \in DOMAIN s : ~Fits(i)
      /\ row # 0 => row \in DOMAIN s /\ Fits(row)
  BY <1>2, <1>3, <1>4, <1>5
<1> QED BY <1>6 DEF Fits

LEMMA DeclaredIs ==
  ASSUME NEW s, IsList(s), NEW id, NEW k, k = DeclaredKillTest(s, id),
         \E i \in DOMAIN s : s[i].kind = "kill_test" /\ s[i].id = id
  PROVE  k \in DOMAIN s /\ s[k].kind = "kill_test" /\ s[k].id = id
<1> DEFINE I == {i \in 1..Len(s) : s[i].kind = "kill_test" /\ s[i].id = id}
<1>1. Len(s) \in Nat /\ DOMAIN s = 1..Len(s)
  BY Listed
<1>2. k = IF I # {} THEN Max(I) ELSE 0
  BY DEF DeclaredKillTest, SelectLastInSeq
<1>3. I # {} => Max(I) \in I
  BY <1>1, SomeMax
<1>4. I # {}
  BY <1>1
<1>5. k \in I
  <2> HIDE DEF I
  <2> QED BY <1>2, <1>3, <1>4
<1> QED BY <1>1, <1>5

\* The block that HasBlock speaks of.
LEMMA BlockIs ==
  ASSUME NEW b, IsList(b.blocks), NEW kind, HasBlock(b, kind), NEW k,
         k = SelectInSeq(b.blocks, LAMBDA x : x.kind = kind)
  PROVE  k \in DOMAIN b.blocks /\ b.blocks[k].kind = kind
<1> DEFINE I == {i \in 1..Len(b.blocks) : b.blocks[i].kind = kind}
<1>1. Len(b.blocks) \in Nat /\ DOMAIN b.blocks = 1..Len(b.blocks)
  BY Listed
<1>2. I # {} /\ I \subseteq Nat
  <2>1. 1..Len(b.blocks) \subseteq Nat
    BY <1>1, SMT
  <2> QED BY <1>1, <2>1 DEF HasBlock
<1>3. Min(I) \in I
  <2>1. \E i \in I : \A m \in I : i <= m
    <3> HIDE DEF I
    <3> QED BY <1>2, Least
  <2> QED BY <2>1 DEF Min
<1>4. k = IF I # {} THEN Min(I) ELSE 0
  BY DEF SelectInSeq
<1>5. k \in I
  <2> HIDE DEF I
  <2> QED BY <1>2, <1>3, <1>4
<1> QED BY <1>1, <1>5

-----------------------------------------------------------------------------
(* The tables of a slice in which every id is given once are its blocks.   *)

Tidy(s) == IsSlice(s) /\ \A i, j \in NamedAt(s) : s[i].id = s[j].id => i = j

TidySteps(e) == \A j, k \in NamedStepAt(e) : e.blocks[j].id = e.blocks[k].id => j = k

LEMMA TidyTables ==
  ASSUME NEW s, Tidy(s)
  PROVE  /\ \A i \in NamedAt(s) : ~Prior(s, i)
         /\ \A kind : FirstsAt(s, kind) = {i \in NamedAt(s) : s[i].kind = kind}
         /\ \A kind, x : x \in Ids(s, kind) <=> \E i \in NamedAt(s) : s[i].kind = kind /\ s[i].id = x
         /\ \A i \in NamedAt(s) : Lookup(s, s[i].id) = i
<1>1. IsSlice(s) /\ IsList(s) /\ Range(Named(s)) = NamedAt(s)
  BY SlotsAre DEF Tidy, IsSlice
<1>2. NamedAt(s) \subseteq Nat
  <2>1. DOMAIN s \subseteq Nat
    BY <1>1, Listed, SMT
  <2> QED BY <2>1 DEF NamedAt, SlotAt
<1>3. \A i \in NamedAt(s) : ~Prior(s, i)
  <2> SUFFICES ASSUME NEW i \in NamedAt(s), NEW j \in NamedAt(s), j < i, s[j].id = s[i].id
               PROVE  FALSE
    BY <1>1 DEF Prior
  <2>1. j = i
    BY DEF Tidy
  <2> QED BY <1>2, <2>1, SMT
<1>4. \A kind : FirstsAt(s, kind) = {i \in NamedAt(s) : s[i].kind = kind}
  BY <1>3 DEF FirstsAt
<1>5. \A kind : Range(Table(s, kind)) = {i \in NamedAt(s) : s[i].kind = kind}
  BY <1>1, <1>4, TableIs
<1>6. \A kind, x : x \in Ids(s, kind) <=> \E i \in NamedAt(s) : s[i].kind = kind /\ s[i].id = x
  BY <1>5 DEF Ids
<1>7. ASSUME NEW i \in NamedAt(s) PROVE Lookup(s, s[i].id) = i
  <2>1. \A k \in NamedAt(s) : s[k].id = s[i].id => k = i
    BY DEF Tidy
  <2>2. \A k : (k \in Range(Named(s)) /\ s[k].id = s[i].id /\ ~Prior(s, k)) <=> k = i
    BY <1>1, <1>3, <2>1
  <2> QED BY <2>2 DEF Lookup
<1> QED BY <1>3, <1>4, <1>6, <1>7

LEMMA TidyStepTables ==
  ASSUME NEW e, IsList(e.blocks), \A j \in DOMAIN e.blocks : IsBlock(e.blocks[j]), TidySteps(e)
  PROVE  /\ FirstStepsAt(e) = NamedStepAt(e)
         /\ \A j \in NamedStepAt(e) : ~PriorStep(e, j)
         /\ \A x : x \in StepIds(e) <=> \E j \in NamedStepAt(e) : e.blocks[j].id = x
         /\ \A j \in NamedStepAt(e) : StepOf(e, e.blocks[j].id) = e.blocks[j]
<1>1. Range(NamedSteps(e)) = NamedStepAt(e)
  BY StepsAre
<1>2. NamedStepAt(e) \subseteq Nat
  BY StepsInOrder
<1>3. \A j \in NamedStepAt(e) : ~PriorStep(e, j)
  <2> SUFFICES ASSUME NEW j \in NamedStepAt(e), NEW k \in NamedStepAt(e),
                      k < j, e.blocks[k].id = e.blocks[j].id
               PROVE  FALSE
    BY <1>1 DEF PriorStep
  <2>1. j = k
    BY DEF TidySteps
  <2> QED BY <1>2, <2>1, SMT
<1>4. FirstStepsAt(e) = NamedStepAt(e)
  BY <1>3 DEF FirstStepsAt
<1>5. Range(StepTable(e)) = NamedStepAt(e)
  BY <1>4, StepTableIs
<1>6. \A x : x \in StepIds(e) <=> \E j \in NamedStepAt(e) : e.blocks[j].id = x
  BY <1>1 DEF StepIds
<1>7. ASSUME NEW j \in NamedStepAt(e) PROVE StepOf(e, e.blocks[j].id) = e.blocks[j]
  <2>1. \A k : (k \in Range(StepTable(e)) /\ e.blocks[k].id = e.blocks[j].id) <=> k = j
    BY <1>5 DEF TidySteps
  <2> QED BY <2>1 DEF StepOf
<1> QED BY <1>3, <1>4, <1>6, <1>7

-----------------------------------------------------------------------------
(* The steps that must have a row.                                         *)

LEMMA ExposedIs ==
  ASSUME NEW e, IsList(e.blocks), NEW x
  PROVE  x \in Exposed(e) <=> \E k \in NeedsRow(e) : x = Steps(e)[k].id
<1> DEFINE q == NamedSteps(e)
           st == Steps(e)
           fallible == {j \in NamedStepAt(e) : IsTrue(e.blocks[j], "fallible")}
           Seen(l) == \E j \in NamedStepAt(e) :
                        j < l /\ (j \in fallible \/ IsFullList(e.blocks[j], "mutates"))
<1>1. x \in Exposed(e) <=> \E l \in fallible : fallible # {l} /\ Seen(l) /\ x = e.blocks[l].id
  BY DEF Exposed, NamedStepAt, StepAt
<1>3. /\ DOMAIN st = DOMAIN q /\ DOMAIN q \subseteq Nat /\ NamedStepAt(e) \subseteq Nat
      /\ \A k \in DOMAIN q : st[k] = e.blocks[q[k]] /\ q[k] \in NamedStepAt(e)
      /\ \A j \in NamedStepAt(e) : \E k \in DOMAIN q : q[k] = j
      /\ \A j, k \in DOMAIN q : j < k <=> q[j] < q[k]
      /\ \A j, k \in DOMAIN q : q[j] = q[k] => j = k
  BY StepsInOrder
<1>4. IsList(st)
  BY NamedStepsAre
<1> HIDE DEF q
<1>5. ASSUME NEW k \in DOMAIN q PROVE k \in FallibleAt(st) <=> q[k] \in fallible
  BY <1>3 DEF FallibleAt
<1>6. ASSUME NEW k \in FallibleAt(st)
      PROVE  fallible # {q[k]} <=> \E j \in FallibleAt(st) : j # k
  <2>1. k \in DOMAIN q /\ q[k] \in fallible
    BY <1>3, <1>5 DEF FallibleAt
  <2>2. fallible # {q[k]} <=> \E j \in fallible : j # q[k]
    BY <2>1
  <2>3. ASSUME NEW j \in fallible, j # q[k] PROVE \E i \in FallibleAt(st) : i # k
    <3>1. PICK i \in DOMAIN q : q[i] = j
      BY <1>3
    <3> QED BY <1>5, <2>3, <3>1
  <2>4. ASSUME NEW i \in FallibleAt(st), i # k PROVE \E j \in fallible : j # q[k]
    <3>1. i \in DOMAIN q /\ q[i] \in fallible
      BY <1>3, <1>5 DEF FallibleAt
    <3> QED BY <1>3, <2>1, <2>4, <3>1
  <2> QED BY <2>2, <2>3, <2>4
<1>7. ASSUME NEW k \in DOMAIN q PROVE Observable(st, k) <=> Seen(q[k])
  <2> DEFINE Leaves(i) == IsTrue(st[i], "fallible") \/ IsFullList(st[i], "mutates")
  <2>1. \A i : i \in 1..(k - 1) <=> i \in DOMAIN q /\ i < k
    <3>1. DOMAIN q = 1..Len(st) /\ Len(st) \in Nat
      BY <1>3, <1>4, Listed
    <3> QED BY <3>1, SMT
  <2>2. Observable(st, k) <=> \E i \in 1..(k - 1) : Leaves(i)
    BY DEF Observable
  <2>3. \A i \in DOMAIN q :
          Leaves(i) <=> q[i] \in fallible \/ IsFullList(e.blocks[q[i]], "mutates")
    BY <1>3
  <2> HIDE DEF Leaves, fallible
  <2>4. Observable(st, k) <=> \E i \in DOMAIN q : q[i] < q[k] /\ Leaves(i)
    BY <1>3, <2>1, <2>2
  <2> QED BY <1>3, <2>3, <2>4
<1> HIDE DEF fallible, Seen
<1>8. NeedsRow(e) = {k \in FallibleAt(st) : Observable(st, k) /\ \E j \in FallibleAt(st) : j # k}
  BY DEF NeedsRow
<1>9. \A k : k \in NeedsRow(e) <=> k \in DOMAIN q /\ q[k] \in fallible /\ fallible # {q[k]} /\ Seen(q[k])
  <2>1. FallibleAt(st) \subseteq DOMAIN q
    BY <1>3 DEF FallibleAt
  <2> QED BY <1>5, <1>6, <1>7, <1>8, <2>1
<1>10. \A l \in fallible : \E k \in DOMAIN q : q[k] = l
  BY <1>3 DEF fallible
<1> QED BY <1>1, <1>3, <1>9, <1>10


-----------------------------------------------------------------------------
(* The gaps of query.                                                      *)

LEMMA GapIs ==
  ASSUME NEW e, IsList(e.blocks)
  PROVE  GapNeedsRow(e) = NeedsRow(e)
<1> DEFINE st == Steps(e)
<1>1. Len(st) \in Nat /\ DOMAIN st = 1..Len(st)
  BY NamedStepsAre, Listed
<1>2. \A k : k \in GapNeedsRow(e) <=>
        /\ k \in 2..Len(st) /\ IsTrue(st[k], "fallible") /\ Observable(st, k)
        /\ \E j, l \in DOMAIN st : j # l /\ IsTrue(st[j], "fallible") /\ IsTrue(st[l], "fallible")
  BY DEF GapNeedsRow
<1>3. \A k : k \in NeedsRow(e) <=>
        /\ k \in DOMAIN st /\ IsTrue(st[k], "fallible") /\ Observable(st, k)
        /\ \E j \in DOMAIN st : IsTrue(st[j], "fallible") /\ j # k
  BY DEF NeedsRow, FallibleAt
<1>4. ASSUME NEW k \in DOMAIN st, Observable(st, k) PROVE k \in 2..Len(st)
  <2>1. \E j \in 1..(k - 1) : TRUE
    BY <1>4 DEF Observable
  <2> HIDE DEF st
  <2> QED BY <1>1, <2>1, SMT
<1>5. 2..Len(st) \subseteq DOMAIN st
  <2> HIDE DEF st
  <2> QED BY <1>1, SMT
<1> HIDE DEF st
<1> QED BY <1>2, <1>3, <1>4, <1>5

LEMMA RowsMirrored ==
  ASSUME NEW s, IsSlice(s)
  PROVE  MissingPostFailures(s) = {d.arg : d \in {x \in Range(Analyze(s)) : x.code = "E0300"}}
<1> DEFINE Pair(i, k) == <<s[i].id, Steps(s[i])[k].id>>
           rows == {<<IdentOf(s[i], "event"), IdentOf(s[i], "step")>> :
                      i \in {j \in DOMAIN s : s[j].kind = "post_failure"}}
<1>1. IsList(s) /\ Range(EventsAt(s)) = EventAt(s)
  BY EventsAre DEF IsSlice
<1>2. \A i \in EventAt(s) : GapNeedsRow(s[i]) = NeedsRow(s[i])
  BY IdOfPlace, GapIs DEF EventAt, IsBlock
<1>3. \A x : x \in MissingPostFailures(s) <=>
        (\E i \in EventAt(s) : \E k \in NeedsRow(s[i]) : x = Pair(i, k)) /\ x \notin rows
  <2> DEFINE all == UNION {{Pair(i, k) : k \in GapNeedsRow(s[i])} : i \in Range(EventsAt(s))}
  <2>1. MissingPostFailures(s) = all \ rows
    BY Zenon DEF MissingPostFailures
  <2> HIDE DEF Pair, rows
  <2>2. \A x : x \in all <=> \E i \in EventAt(s) : \E k \in NeedsRow(s[i]) : x = Pair(i, k)
    BY <1>1, <1>2
  <2> HIDE DEF all
  <2> QED BY <2>1, <2>2
<1>4. ASSUME NEW i, NEW k
      PROVE  Pair(i, k) \notin rows <=> Row(s, s[i].id, Steps(s[i])[k].id) = 0
  <2> DEFINE event == s[i].id
             step  == Steps(s[i])[k].id
             row   == Row(s, event, step)
             Fits(j) == /\ s[j].kind = "post_failure"
                        /\ IdentOf(s[j], "event") = event /\ IdentOf(s[j], "step") = step
  <2>1. Pair(i, k) \in rows <=> \E j \in DOMAIN s : Fits(j)
    OBVIOUS
  <2> HIDE DEF row
  <2>2. row = Row(s, event, step)
    BY DEF row
  <2> HIDE DEF event, step
  <2>3. (row = 0 => \A j \in DOMAIN s : ~Fits(j)) /\ (row # 0 => row \in DOMAIN s /\ Fits(row))
    BY <1>1, <2>2, RowIs
  <2>4. row = 0 <=> ~ \E j \in DOMAIN s : Fits(j)
    BY <2>3
  <2> QED BY <2>1, <2>4 DEF row, event, step
<1> HIDE DEF rows
<1>5. \A x : x \in MissingPostFailures(s) <=>
        \E i \in EventAt(s) : \E k \in NeedsRow(s[i]) :
          Row(s, s[i].id, Steps(s[i])[k].id) = 0 /\ x = Pair(i, k)
  <2> HIDE DEF Pair
  <2> QED BY <1>3, <1>4
<1>6. \A x : x \in MissingPostFailures(s) <=> \E d \in Range(Analyze(s)) : d.code = "E0300" /\ d.arg = x
  <2> TAKE x
  <2>1. (\E d \in Range(Analyze(s)) : d.code = "E0300" /\ d.arg = x) <=>
          \E i \in EventAt(s) : \E k \in NeedsRow(s[i]) : RowIsMissing(s, i, k) /\ x = StepName(s, i, k)
    BY MissingRows
  <2> QED BY <1>5, <2>1 DEF RowIsMissing, StepName
<1> QED BY <1>6

\* What the walk takes for a reference to a cell, query does.
LEMMA RefersAnywhere ==
  ASSUME NEW s, IsSlice(s), NEW kind, NEW key
  PROVE  Refers(s, kind, key) \subseteq ReferencedAnywhere(s)
<1> DEFINE InFields(b) == UNION {Range(Of(b, k, {"ident", "list", "map"})) : k \in DOMAIN b.fields}
           InBlock(b) ==
             InFields(b) \cup (UNION {InFields(x) : x \in Range(b.blocks)})
               \cup (UNION {DOMAIN x.fields : x \in {y \in Range(b.blocks) : y.kind \in CellBlocks}})
<1>1. ReferencedAnywhere(s) = UNION {InBlock(b) : b \in Range(s)}
  BY DEF ReferencedAnywhere
<1>2. Range(Table(s, kind)) = FirstsAt(s, kind)
  BY TableIs
<1> SUFFICES ASSUME NEW i \in FirstsAt(s, kind), NEW x,
                    x \in Mentions(s[i], key)
             PROVE  x \in InBlock(s[i])
  <2>1. \A i \in FirstsAt(s, kind) : s[i] \in Range(s)
    BY <1>2, FirstsPlaces DEF Range
  <2> HIDE DEF InBlock
  <2> QED BY <1>1, <1>2, <2>1 DEF Refers
<1> DEFINE b == s[i]
<1>3. IsBlock(b) /\ IsList(b.blocks) /\ \A j \in DOMAIN b.blocks : IsBlock(b.blocks[j])
  BY <1>2, FirstsPlaces DEF IsBlock
<1>4. \/ x \in Range(Of(b, key, {"ident", "list", "map"}))
      \/ key \in CellBlocks /\ x \in Range(CellKeys(b, key))
  BY DEF Mentions
<1>5. ASSUME x \in Range(Of(b, key, {"ident", "list", "map"})) \/ x \in Range(Of(b, key, {"map"}))
      PROVE  x \in InFields(b)
  <2>1. Range(<<>>) = {}
    BY One
  <2>2. key \in DOMAIN b.fields /\ x \in Range(Of(b, key, {"ident", "list", "map"}))
    BY <1>5, <2>1 DEF Of, HasField
  <2> QED BY <2>2
<1>6. CASE x \in Range(Of(b, key, {"ident", "list", "map"}))
  <2> HIDE DEF InFields
  <2> QED BY <1>5, <1>6
<1>7. CASE key \in CellBlocks /\ x \in Range(CellKeys(b, key))
  <2> DEFINE k == SelectInSeq(b.blocks, LAMBDA y : y.kind = key)
             own == Of(b, key, {"map"})
             nested == IF HasBlock(b, key) THEN Only(Order, DOMAIN b.blocks[k].fields) ELSE <<>>
  <2>1. CellKeys(b, key) = own \o nested
    BY DEF CellKeys
  <2>2. IsList(own)
    BY <1>3, One DEF Of, HasField, IsBlock
  <2>3. /\ IsList(nested)
        /\ Range(nested) # {} => HasBlock(b, key)
        /\ HasBlock(b, key) => Range(nested) \subseteq DOMAIN b.blocks[k].fields
    <3> HIDE DEF k
    <3> DEFINE keys == DOMAIN b.blocks[k].fields
               some == Only(Order, keys)
    <3>1. IsList(some) /\ Range(some) \subseteq keys
      BY SliceAssumption, OnlyIs
    <3>2. nested = IF HasBlock(b, key) THEN some ELSE <<>>
      OBVIOUS
    <3> HIDE DEF some, nested
    <3> QED BY <3>1, <3>2, One
  <2>4. HasBlock(b, key) => k \in DOMAIN b.blocks /\ b.blocks[k].kind = key
    BY <1>3, BlockIs
  <2> HIDE DEF k, own, nested, b
  <2>5. x \in Range(own) \/ x \in Range(nested)
    BY <1>7, <2>1, <2>2, <2>3, Joins
  <2>6. ASSUME x \in Range(nested) PROVE x \in InBlock(b)
    <3>1. HasBlock(b, key) /\ x \in DOMAIN b.blocks[k].fields
      BY <2>3, <2>6
    <3>2. b.blocks[k] \in Range(b.blocks) /\ b.blocks[k].kind \in CellBlocks
      BY <1>7, <2>4, <3>1 DEF Range
    <3> DEFINE y == b.blocks[k]
    <3>3. y \in {z \in Range(b.blocks) : z.kind \in CellBlocks} /\ x \in DOMAIN y.fields
      BY <3>1, <3>2
    <3> DEFINE after == {z \in Range(b.blocks) : z.kind \in CellBlocks}
    <3>4. x \in UNION {DOMAIN z.fields : z \in after}
      <4> HIDE DEF y, after, InFields
      <4> QED BY <3>3, Zenon DEF after
    <3> HIDE DEF after, InFields
    <3> QED BY <3>4, Zenon DEF after
  <2>7. x \in Range(own) => x \in InFields(b)
    <3> HIDE DEF InFields
    <3> QED BY <1>5 DEF own, b
  <2> QED BY <2>5, <2>6, <2>7 DEF b
<1> QED BY <1>4, <1>6, <1>7

LEMMA MutatesIsNoBlock == "mutates" \notin CellBlocks
<1>1. Range(CellsAfter) = {CellsAfter[k] : k \in DOMAIN CellsAfter}
  BY DEF Range
<1>2. \A k \in DOMAIN CellsAfter : CellsAfter[k] # "mutates"
  BY SMT DEF CellsAfter
<1>3. "mutates" # "cells"
  OBVIOUS
<1> QED BY <1>1, <1>2, <1>3 DEF CellBlocks

LEMMA UnusedMirrored ==
  ASSUME NEW s, Tidy(s)
  PROVE  UnusedCellGaps(s) \subseteq UnusedCells(s)
<1>1. IsSlice(s) /\ IsList(s)
  BY DEF Tidy, IsSlice
<1> SUFFICES ASSUME NEW x \in UnusedCellGaps(s) PROVE x \in Ids(s, "cell") /\ x \notin ReferencedCells(s)
  BY DEF UnusedCells
<1>2. x \notin ReferencedAnywhere(s)
  BY DEF UnusedCellGaps
<1>3. x \in Ids(s, "cell")
  <2>1. PICK i \in DOMAIN s : s[i].kind = "cell" /\ s[i].id # NoName /\ x = s[i].id
    BY DEF UnusedCellGaps
  <2>2. i \in NamedAt(s)
    BY <2>1 DEF NamedAt, SlotAt, SlotKinds
  <2>3. ~Prior(s, i)
    BY <2>2, TidyTables
  <2>4. i \in Range(Table(s, "cell"))
    BY <1>1, <2>1, <2>2, <2>3, TableIs DEF FirstsAt
  <2> QED BY <2>1, <2>4 DEF Ids
<1>5. \A kind, key : x \notin Refers(s, kind, key)
  BY <1>1, <1>2, RefersAnywhere
<1>6. ASSUME NEW i \in FirstsAt(s, "event"), NEW j \in Range(StepTable(s[i]))
      PROVE  x \notin Mentions(s[i].blocks[j], "mutates")
  <2> DEFINE b == s[i]
             y == b.blocks[j]
  <2>1. b \in Range(s) /\ IsBlock(b) /\ \A k \in DOMAIN b.blocks : IsBlock(b.blocks[k])
    BY <1>1, FirstsPlaces DEF Range
  <2>2. j \in DOMAIN b.blocks
    BY <2>1, StepTableIs DEF FirstStepsAt, NamedStepAt, StepAt, IsBlock
  <2>3. y \in Range(b.blocks)
    BY <2>2 DEF Range
  <2>4. UNION {Range(Of(y, key, {"ident", "list", "map"})) : key \in DOMAIN y.fields}
          \subseteq ReferencedAnywhere(s)
    <3> DEFINE InFields(z) == UNION {Range(Of(z, key, {"ident", "list", "map"})) : key \in DOMAIN z.fields}
               InBlock(z) ==
                 InFields(z) \cup (UNION {InFields(w) : w \in Range(z.blocks)})
                   \cup (UNION {DOMAIN w.fields : w \in {v \in Range(z.blocks) :
                                                    v.kind \in CellBlocks}})
    <3>1. ReferencedAnywhere(s) = UNION {InBlock(z) : z \in Range(s)}
      BY DEF ReferencedAnywhere
    <3> HIDE DEF y, b, InFields
    <3>2. InFields(y) \subseteq InBlock(b)
      BY <2>3
    <3> HIDE DEF InBlock
    <3>3. InFields(y) \subseteq ReferencedAnywhere(s)
      BY <2>1, <3>1, <3>2
    <3> QED BY <3>3 DEF InFields
  <2>5. Range(<<>>) = {}
    BY One
  <2> HIDE DEF y, b
  <2>6. Range(Of(y, "mutates", {"ident", "list", "map"}))
          \subseteq UNION {Range(Of(y, key, {"ident", "list", "map"})) : key \in DOMAIN y.fields}
    BY <2>5 DEF Of, HasField
  <2>7. "mutates" \notin CellBlocks
    BY MutatesIsNoBlock
  <2> QED BY <1>2, <2>4, <2>6, <2>7 DEF y, b, Mentions
<1>7. Range(Table(s, "event")) = FirstsAt(s, "event")
  BY <1>1, TableIs
<1>8. x \notin ReferencedCells(s)
  <2> DEFINE after == UNION {Refers(s, "post_failure", CellsAfter[k]) : k \in 1..3}
             steps == UNION {UNION {Mentions(s[i].blocks[j], "mutates") :
                                      j \in Range(StepTable(s[i]))} : i \in Range(Table(s, "event"))}
  <2>1. x \notin after
    BY <1>5
  <2>2. x \notin steps
    BY <1>6, <1>7
  <2>3. /\ x \notin Refers(s, "derived", "derives_from") /\ x \notin Refers(s, "association", "over")
        /\ x \notin Refers(s, "event", "mutates") /\ x \notin Refers(s, "forbidden_state", "cells")
    BY <1>5
  <2>4. ReferencedCells(s) =
          Refers(s, "derived", "derives_from") \cup Refers(s, "association", "over")
            \cup Refers(s, "event", "mutates") \cup Refers(s, "forbidden_state", "cells")
            \cup after \cup steps
    BY Zenon DEF ReferencedCells
  <2> HIDE DEF after, steps
  <2> QED BY <2>1, <2>2, <2>3, <2>4
<1> QED BY <1>3, <1>8

(* The rows that query --gaps misses are those that E0300 misses, whatever *)
(* the slice; and in a slice that gives each id once, a cell that query    *)
(* calls unused is one that W0270 calls unused: the tables the two go by   *)
(* differ only where an id is given twice.                                 *)
THEOREM GapsAreTheWalks == Spec => [](IsSlice(slice) => GapsMirrorTheWalk)
<1>1. ASSUME IsSlice(slice), IdsUnique PROVE Tidy(slice)
  <2>1. NamedAt(slice) = {k \in DOMAIN slice : slice[k].kind \in SlotKinds /\ slice[k].id # NoName}
    BY DEF NamedAt, SlotAt
  <2>2. IsUnique(slice, LAMBDA b : b.kind \in SlotKinds)
    BY <1>1 DEF IdsUnique
  <2> QED BY <1>1, <2>1, <2>2 DEF IsUnique, Tidy
<1>2. IsSlice(slice) => GapsMirrorTheWalk
  BY <1>1, RowsMirrored, UnusedMirrored DEF GapsMirrorTheWalk
<1> QED BY <1>2, PTL


-----------------------------------------------------------------------------
(* What the passes ask of a slice, said of its blocks.                     *)

LEMMA BlocksAre ==
  ASSUME NEW kind \in SlotKinds
  PROVE  /\ \A b : b \in Blocks(kind) <=> \E i \in NamedAt(slice) : slice[i].kind = kind /\ b = slice[i]
         /\ \A x : x \in IdsOf(kind) <=> \E i \in NamedAt(slice) : slice[i].kind = kind /\ slice[i].id = x
<1>1. \A b : b \in Blocks(kind) <=> \E i \in NamedAt(slice) : slice[i].kind = kind /\ b = slice[i]
  BY DEF Blocks, Range, NamedAt, SlotAt
<1> QED BY <1>1 DEF IdsOf

LEMMA StepsOfAre ==
  ASSUME NEW e
  PROVE  \A x : x \in StepsOf(e) <=> \E j \in NamedStepAt(e) : x = e.blocks[j]
BY DEF StepsOf, Range, NamedStepAt, StepAt

LEMMA KindsAre ==
  /\ "cell" \in SlotKinds /\ "derived" \in SlotKinds /\ "association" \in SlotKinds
  /\ "event" \in SlotKinds /\ "post_failure" \in SlotKinds
  /\ "forbidden_state" \in SlotKinds /\ "kill_test" \in SlotKinds
BY DEF SlotKinds

LEMMA FieldsAre == FieldsPresent <=> \A i \in SlotAt(slice) : IsComplete(slice[i])
<1>1. ASSUME NEW b
      PROVE  IsComplete(b) <=>
               /\ Complete(b)
               /\ b.kind = "event" =>
                    /\ HasBlock(b, "step")
                    /\ \A x \in Range(b.blocks) : x.kind = "step" => Complete(x)
               /\ b.kind = "forbidden_state" =>
                    HasField(b, "predicate") \/ HasField(b, "cells") \/ HasBlock(b, "cells")
               /\ b.kind = "post_failure" =>
                    HasField(b, "cells_after") \/ \E k \in 1..3 : HasBlock(b, CellsAfter[k])
  <2>1. \A x : Complete(x) <=> IsFilled(x)
    BY DEF Complete, IsFilled
  <2>2. (\A j \in StepAt(b) : IsFilled(b.blocks[j])) <=>
          \A x \in Range(b.blocks) : x.kind = "step" => Complete(x)
    BY <2>1 DEF StepAt, Range
  <2> QED BY <2>1, <2>2 DEF IsComplete, HasBody, HasCellsAfter
<1>2. FieldsPresent <=> \A b \in Range(slice) : b.kind \in SlotKinds => IsComplete(b)
  BY <1>1 DEF FieldsPresent
<1>3. (\A b \in Range(slice) : b.kind \in SlotKinds => IsComplete(b)) <=>
        \A i \in SlotAt(slice) : IsComplete(slice[i])
  BY DEF Range, SlotAt
<1> QED BY <1>2, <1>3

\* Every id is given once.
LEMMA IdsAreTidy ==
  ASSUME IsSlice(slice)
  PROVE  IdsUnique <=>
           Tidy(slice) /\ \A i \in NamedAt(slice) : slice[i].kind = "event" => TidySteps(slice[i])
<1>1. NamedAt(slice) = {k \in DOMAIN slice : slice[k].kind \in SlotKinds /\ slice[k].id # NoName}
  BY DEF NamedAt, SlotAt
<1>2. IsUnique(slice, LAMBDA b : b.kind \in SlotKinds) <=> Tidy(slice)
  BY <1>1 DEF IsUnique, Tidy
<1>3. ASSUME NEW e PROVE IsUnique(e.blocks, LAMBDA x : x.kind = "step") <=> TidySteps(e)
  <2>1. NamedStepAt(e) = {k \in DOMAIN e.blocks : e.blocks[k].kind = "step" /\ e.blocks[k].id # NoName}
    BY DEF NamedStepAt, StepAt
  <2> QED BY <2>1 DEF IsUnique, TidySteps
<1>4. (\A e \in Blocks("event") : IsUnique(e.blocks, LAMBDA x : x.kind = "step")) <=>
        \A i \in NamedAt(slice) : slice[i].kind = "event" => TidySteps(slice[i])
  <2>1. (\A e \in Blocks("event") : IsUnique(e.blocks, LAMBDA x : x.kind = "step")) <=>
          \A e \in Blocks("event") : TidySteps(e)
    BY <1>3, Zenon
  <2>2. (\A e \in Blocks("event") : TidySteps(e)) <=>
          \A i \in NamedAt(slice) : slice[i].kind = "event" => TidySteps(slice[i])
    BY BlocksAre, KindsAre
  <2> QED BY <2>1, <2>2, Zenon
<1> QED BY <1>2, <1>4 DEF IdsUnique

LEMMA IdsAre ==
  ASSUME IsSlice(slice)
  PROVE  IdsUnique <=> OneOfEach(slice)
<1>1. IsList(slice) /\ NamedAt(slice) \subseteq Nat /\ Range(Named(slice)) = NamedAt(slice)
  <2>1. IsList(slice)
    BY DEF IsSlice
  <2>2. DOMAIN slice \subseteq Nat
    BY <2>1, Listed, SMT
  <2> QED BY <2>1, <2>2, SlotsAre DEF NamedAt, SlotAt
<1>2. ASSUME NEW i \in NamedAt(slice)
      PROVE  IsList(slice[i].blocks) /\ \A j \in DOMAIN slice[i].blocks : IsBlock(slice[i].blocks[j])
  BY IdOfPlace DEF IsBlock, NamedAt, SlotAt
<1>3. ASSUME IdsUnique PROVE OneOfEach(slice)
  <2>1. Tidy(slice) /\ \A i \in NamedAt(slice) : slice[i].kind = "event" => TidySteps(slice[i])
    BY <1>3, IdsAreTidy
  <2>2. \A i \in NamedAt(slice) : ~Prior(slice, i)
    BY <2>1, TidyTables
  <2>3. ASSUME NEW i \in NamedAt(slice), slice[i].kind = "event"
        PROVE  \A j \in NamedStepAt(slice[i]) : ~PriorStep(slice[i], j)
    BY <1>2, <2>1, <2>3, TidyStepTables
  <2> QED BY <2>2, <2>3 DEF OneOfEach
<1>4. ASSUME OneOfEach(slice) PROVE IdsUnique
  <2>1. ASSUME NEW i \in NamedAt(slice), NEW j \in NamedAt(slice), slice[i].id = slice[j].id PROVE i = j
    <3>1. i < j \/ j < i \/ i = j
      BY <1>1, SMT
    <3>2. ~(i < j) /\ ~(j < i)
      BY <1>1, <1>4, <2>1 DEF OneOfEach, Prior
    <3> QED BY <3>1, <3>2
  <2>2. ASSUME NEW i \in NamedAt(slice), slice[i].kind = "event" PROVE TidySteps(slice[i])
    <3> DEFINE e == slice[i]
    <3>1. IsList(e.blocks)
      BY <1>2
    <3>2. \A j \in NamedStepAt(e) : ~PriorStep(e, j)
      BY <1>4, <2>2 DEF OneOfEach
    <3> HIDE DEF e
    <3>3. Range(NamedSteps(e)) = NamedStepAt(e) /\ NamedStepAt(e) \subseteq Nat
      BY <3>1, StepsAre, StepsInOrder
    <3>4. ASSUME NEW j \in NamedStepAt(e), NEW k \in NamedStepAt(e), e.blocks[j].id = e.blocks[k].id PROVE j = k
      <4>1. j < k \/ k < j \/ j = k
        BY <3>3, SMT
      <4>2. ~(j < k) /\ ~(k < j)
        BY <3>2, <3>3, <3>4 DEF PriorStep
      <4> QED BY <4>1, <4>2
    <3>5. TidySteps(e)
      BY <3>4 DEF TidySteps
    <3> QED BY <3>5 DEF e
  <2>3. Tidy(slice)
    BY <2>1 DEF Tidy
  <2> QED BY <2>2, <2>3, IdsAreTidy
<1> QED BY <1>3, <1>4


\* A slice in which every id is given once.
InOrder == IsSlice(slice) /\ IdsUnique

LEMMA TablesAre ==
  ASSUME InOrder
  PROVE  /\ Tidy(slice) /\ IsSlice(slice)
         /\ \A i \in NamedAt(slice) : slice[i].kind = "event" => TidySteps(slice[i])
         /\ \A kind \in SlotKinds : Ids(slice, kind) = IdsOf(kind)
         /\ \A kind : FirstsAt(slice, kind) = {i \in NamedAt(slice) : slice[i].kind = kind}
         /\ \A i \in NamedAt(slice) : Lookup(slice, slice[i].id) = i
         /\ \A i \in NamedAt(slice) : /\ IsList(slice[i].blocks)
                                      /\ \A j \in DOMAIN slice[i].blocks : IsBlock(slice[i].blocks[j])
<1>1. /\ Tidy(slice) /\ IsSlice(slice)
      /\ \A i \in NamedAt(slice) : slice[i].kind = "event" => TidySteps(slice[i])
  BY IdsAreTidy DEF InOrder
<1>2. \A kind, x : x \in Ids(slice, kind) <=> \E i \in NamedAt(slice) : slice[i].kind = kind /\ slice[i].id = x
  BY <1>1, TidyTables
<1>3. \A kind \in SlotKinds : \A x : x \in Ids(slice, kind) <=> x \in IdsOf(kind)
  BY <1>2, BlocksAre
<1>4. \A kind \in SlotKinds : Ids(slice, kind) = IdsOf(kind)
  BY <1>3
<1>5. /\ \A kind : FirstsAt(slice, kind) = {i \in NamedAt(slice) : slice[i].kind = kind}
      /\ \A i \in NamedAt(slice) : Lookup(slice, slice[i].id) = i
  BY <1>1, TidyTables
<1>6. \A i \in NamedAt(slice) : /\ IsList(slice[i].blocks)
                                /\ \A j \in DOMAIN slice[i].blocks : IsBlock(slice[i].blocks[j])
  BY <1>1, IdOfPlace DEF IsBlock, NamedAt, SlotAt
<1> QED BY <1>1, <1>4, <1>5, <1>6

\* A complete forbidden state has its kill_test field.
LEMMA KillTestIsRequired ==
  ASSUME FieldsPresent, NEW i \in DOMAIN slice, slice[i].kind = "forbidden_state"
  PROVE  HasField(slice[i], "kill_test")
<1>1. \A k \in DOMAIN Required["forbidden_state"] : HasField(slice[i], Required["forbidden_state"][k])
  BY KindsAre DEF FieldsPresent, Complete, Range
<1>2. Required["forbidden_state"] = <<"description", "reachability", "kill_test">>
  BY DEF Required
<1>3. \A x, y, z : 3 \in DOMAIN <<x, y, z>> /\ <<x, y, z>>[3] = z
  BY SMT
<1> QED BY <1>1, <1>2, <1>3

\* What RowsResolve asks of a row.
Resolves(b) ==
  IdentOf(b, "event") # NoName =>
    \E e \in Blocks("event") :
      /\ e.id = IdentOf(b, "event")
      /\ IdentOf(b, "step") # NoName =>
           \E x \in StepsOf(e) : x.id = IdentOf(b, "step") /\ IsTrue(x, "fallible")

LEMMA RowResolves ==
  ASSUME InOrder, NEW b
  PROVE  IsRow(slice, b) <=>
           /\ \A k \in 1..3 : Range(CellKeys(b, CellsAfter[k])) \subseteq IdsOf("cell")
           /\ Resolves(b)
<1> DEFINE event == IdentOf(b, "event")
           step  == IdentOf(b, "step")
           e     == slice[Lookup(slice, event)]
           Holds(f) == step # NoName => \E j \in NamedStepAt(f) : /\ f.blocks[j].id = step
                                                                  /\ IsTrue(f.blocks[j], "fallible")
           Named3 == \A k \in 1..3 : Range(CellKeys(b, CellsAfter[k])) \subseteq IdsOf("cell")
<1>1. IsRow(slice, b) <=>
        /\ Named3
        /\ event # NoName =>
             /\ event \in IdsOf("event")
             /\ step # NoName => step \in StepIds(e) /\ IsTrue(StepOf(e, step), "fallible")
  BY TablesAre, KindsAre DEF IsRow
<1>2. Resolves(b) <=>
        (event # NoName =>
           \E m \in NamedAt(slice) : /\ slice[m].kind = "event" /\ slice[m].id = event
                                     /\ Holds(slice[m]))
  <2>1. \A f : (\E x \in StepsOf(f) : x.id = step /\ IsTrue(x, "fallible")) <=>
                 \E j \in NamedStepAt(f) : f.blocks[j].id = step /\ IsTrue(f.blocks[j], "fallible")
    BY StepsOfAre
  <2>2. Resolves(b) <=>
          (event # NoName => \E f \in Blocks("event") : f.id = event /\ Holds(f))
    BY <2>1 DEF Resolves
  <2> HIDE DEF event, Holds
  <2> QED BY <2>2, BlocksAre, KindsAre
<1> HIDE DEF event, step, Named3
<1>3. \A m \in NamedAt(slice) : slice[m].id = event => e = slice[m]
  BY TablesAre
<1>4. event \in IdsOf("event") <=> \E m \in NamedAt(slice) : slice[m].kind = "event" /\ slice[m].id = event
  BY BlocksAre, KindsAre
<1>5. ASSUME NEW m \in NamedAt(slice), slice[m].kind = "event"
      PROVE  (step # NoName => step \in StepIds(slice[m]) /\ IsTrue(StepOf(slice[m], step), "fallible"))
               <=> Holds(slice[m])
  <2> DEFINE f == slice[m]
  <2>1. IsList(f.blocks) /\ (\A j \in DOMAIN f.blocks : IsBlock(f.blocks[j])) /\ TidySteps(f)
    BY <1>5, TablesAre
  <2> HIDE DEF f
  <2>2. /\ step \in StepIds(f) <=> \E j \in NamedStepAt(f) : f.blocks[j].id = step
        /\ \A j \in NamedStepAt(f) : StepOf(f, f.blocks[j].id) = f.blocks[j]
    BY <2>1, TidyStepTables
  <2>3. (step \in StepIds(f) /\ IsTrue(StepOf(f, step), "fallible")) <=>
          \E j \in NamedStepAt(f) : f.blocks[j].id = step /\ IsTrue(f.blocks[j], "fallible")
    BY <2>2
  <2> QED BY <2>3 DEF f
<1> HIDE DEF e, Holds
<1> QED BY <1>1, <1>2, <1>3, <1>4, <1>5 DEF Named3

LEMMA ReferencesAre ==
  ASSUME InOrder
  PROVE  RefsResolve(slice) <=> CellsResolve /\ RowsResolve
<1>1. /\ \A kind : FirstsAt(slice, kind) = {i \in NamedAt(slice) : slice[i].kind = kind}
      /\ Ids(slice, "cell") = IdsOf("cell") /\ Ids(slice, "derived") = IdsOf("derived")
  BY TablesAre, KindsAre
<1>2. (\A i \in FirstsAt(slice, "derived") : Range(Idents(slice[i], "derives_from")) \subseteq Known(slice))
        <=> \A b \in Blocks("derived") :
              Range(Idents(b, "derives_from")) \subseteq IdsOf("cell") \cup IdsOf("derived")
  BY <1>1, BlocksAre, KindsAre DEF Known
<1>3. (\A i \in FirstsAt(slice, "association") : Range(Idents(slice[i], "over")) \subseteq Known(slice))
        <=> \A b \in Blocks("association") :
              Range(Idents(b, "over")) \subseteq IdsOf("cell") \cup IdsOf("derived")
  BY <1>1, BlocksAre, KindsAre DEF Known
<1>4. ASSUME NEW i \in NamedAt(slice), slice[i].kind = "event"
      PROVE  EventResolves(slice, slice[i]) <=>
               \A x \in {slice[i]} \cup StepsOf(slice[i]) : Range(Idents(x, "mutates")) \subseteq IdsOf("cell")
  <2> DEFINE e == slice[i]
  <2>1. IsList(e.blocks) /\ (\A j \in DOMAIN e.blocks : IsBlock(e.blocks[j])) /\ TidySteps(e)
    BY <1>4, TablesAre
  <2> HIDE DEF e
  <2>2. FirstStepsAt(e) = NamedStepAt(e)
    BY <2>1, TidyStepTables
  <2>3. EventResolves(slice, e) <=>
          /\ Range(Idents(e, "mutates")) \subseteq IdsOf("cell")
          /\ \A j \in NamedStepAt(e) : Range(Idents(e.blocks[j], "mutates")) \subseteq IdsOf("cell")
    BY <1>1, <2>2 DEF EventResolves
  <2>4. (\A j \in NamedStepAt(e) : Range(Idents(e.blocks[j], "mutates")) \subseteq IdsOf("cell")) <=>
          \A y \in StepsOf(e) : Range(Idents(y, "mutates")) \subseteq IdsOf("cell")
    BY StepsOfAre
  <2> QED BY <2>3, <2>4 DEF e
<1>5. (\A i \in FirstsAt(slice, "event") : EventResolves(slice, slice[i])) <=>
        \A b \in Blocks("event") : \A x \in {b} \cup StepsOf(b) :
          Range(Idents(x, "mutates")) \subseteq IdsOf("cell")
  BY <1>1, <1>4, BlocksAre, KindsAre
<1>6. (\A i \in FirstsAt(slice, "forbidden_state") :
         Range(CellKeys(slice[i], "cells")) \subseteq Ids(slice, "cell"))
        <=> \A b \in Blocks("forbidden_state") : Range(CellKeys(b, "cells")) \subseteq IdsOf("cell")
  BY <1>1, BlocksAre, KindsAre
<1>7. (\A i \in FirstsAt(slice, "post_failure") : IsRow(slice, slice[i])) <=>
        \A b \in Blocks("post_failure") :
          /\ \A k \in 1..3 : Range(CellKeys(b, CellsAfter[k])) \subseteq IdsOf("cell")
          /\ Resolves(b)
  BY <1>1, BlocksAre, KindsAre, RowResolves
<1>8. RowsResolve <=> \A b \in Blocks("post_failure") : Resolves(b)
  BY DEF RowsResolve, Resolves
<1> QED BY <1>2, <1>3, <1>5, <1>6, <1>7, <1>8 DEF RefsResolve, CellsResolve

LEMMA PairsAreMutual ==
  ASSUME InOrder
  PROVE  PairsMatch(slice) <=> Mutual
<1>1. /\ \A kind : FirstsAt(slice, kind) = {i \in NamedAt(slice) : slice[i].kind = kind}
      /\ Ids(slice, "kill_test") = IdsOf("kill_test")
      /\ Ids(slice, "forbidden_state") = IdsOf("forbidden_state")
      /\ \A i \in NamedAt(slice) : Lookup(slice, slice[i].id) = i
  BY TablesAre, KindsAre
<1>2. ASSUME NEW f
      PROVE  IsKilled(slice, f) <=>
               \/ IdentOf(f, "kill_test") \in {NoName, "TODO"}
               \/ \E k \in Blocks("kill_test") : Kills(k, f)
  <2> DEFINE ref == IdentOf(f, "kill_test")
             k   == Lookup(slice, ref)
  <2>1. IsKilled(slice, f) <=>
          (ref \notin {NoName, "TODO"} => /\ ref \in IdsOf("kill_test")
                                          /\ IdentOf(slice[k], "forbidden") \in {NoName, f.id})
    BY <1>1 DEF IsKilled
  <2>2. ref \in IdsOf("kill_test") <=>
          \E m \in NamedAt(slice) : slice[m].kind = "kill_test" /\ slice[m].id = ref
    BY BlocksAre, KindsAre
  <2>3. (\E b \in Blocks("kill_test") : Kills(b, f)) <=>
          \E m \in NamedAt(slice) : /\ slice[m].kind = "kill_test" /\ slice[m].id = ref
                                    /\ IdentOf(slice[m], "forbidden") \in {NoName, f.id}
    BY BlocksAre, KindsAre DEF Kills
  <2>4. \A m \in NamedAt(slice) : slice[m].id = ref => k = m
    BY <1>1
  <2> HIDE DEF ref, k
  <2> QED BY <2>1, <2>2, <2>3, <2>4 DEF ref
<1>3. (\A i \in FirstsAt(slice, "kill_test") : IsKilling(slice, slice[i])) <=>
        \A b \in Blocks("kill_test") : IdentOf(b, "forbidden") \in IdsOf("forbidden_state") \cup {NoName}
  BY <1>1, BlocksAre, KindsAre DEF IsKilling
<1>4. (\A i \in FirstsAt(slice, "forbidden_state") : IsKilled(slice, slice[i])) <=>
        \A f \in Blocks("forbidden_state") :
          \/ IdentOf(f, "kill_test") \in {NoName, "TODO"}
          \/ \E k \in Blocks("kill_test") : Kills(k, f)
  BY <1>1, <1>2, BlocksAre, KindsAre
<1> QED BY <1>3, <1>4 DEF PairsMatch, Mutual


\* The derived blocks and their ids: a set of the ones is a set of the others.
LEMMA CyclesAre ==
  ASSUME InOrder
  PROVE  NoCycle(slice) <=> Acyclic
<1> DEFINE adj == Adjacency(slice)
           D   == Ids(slice, "derived")
<1>1. D = IdsOf("derived")
  BY TablesAre, KindsAre
<1>2. ASSUME NEW b \in Blocks("derived")
      PROVE  b.id \in D /\ Feeders(adj, b.id) = Range(Idents(b, "derives_from"))
  <2>1. PICK i \in NamedAt(slice) : slice[i].kind = "derived" /\ b = slice[i]
    BY <1>2, BlocksAre, KindsAre
  <2>2. b.id \in D
    BY <1>1 DEF IdsOf
  <2>3. Lookup(slice, b.id) = i
    BY <2>1, TablesAre
  <2> QED BY <2>1, <2>2, <2>3 DEF Feeders, Adjacency
<1>3. \A x \in D : \E b \in Blocks("derived") : b.id = x
  BY <1>1 DEF IdsOf
<1> HIDE DEF adj, D
<1>4. ASSUME CycleFree(adj, D), NEW S \in SUBSET Blocks("derived"), S # {}
      PROVE  \E b \in S : \A x \in S : x.id \notin Range(Idents(b, "derives_from"))
  <2> DEFINE P == {b.id : b \in S}
  <2>1. P \in (SUBSET D) \ {{}}
    BY <1>2, <1>4
  <2>2. PICK d \in P : Feeders(adj, d) \cap P = {}
    BY <1>4, <2>1 DEF CycleFree
  <2>3. PICK b \in S : b.id = d
    BY <2>2
  <2>4. \A x \in S : x.id \notin Feeders(adj, b.id)
    BY <2>2, <2>3
  <2> QED BY <1>2, <2>3, <2>4
<1>5. ASSUME Acyclic, NEW P \in SUBSET D, P # {}
      PROVE  \E d \in P : Feeders(adj, d) \cap P = {}
  <2> DEFINE S == {b \in Blocks("derived") : b.id \in P}
  <2>1. S \in (SUBSET Blocks("derived")) \ {{}}
    BY <1>3, <1>5
  <2>2. PICK b \in S : \A x \in S : x.id \notin Range(Idents(b, "derives_from"))
    BY <1>5, <2>1 DEF Acyclic
  <2>3. b.id \in P /\ Feeders(adj, b.id) = Range(Idents(b, "derives_from"))
    BY <1>2, <2>2
  <2>4. ASSUME NEW y \in P PROVE y \notin Feeders(adj, b.id)
    <3>1. PICK x \in Blocks("derived") : x.id = y
      BY <1>3
    <3>2. x \in S
      BY <3>1
    <3> QED BY <2>2, <2>3, <3>1, <3>2
  <2> QED BY <2>3, <2>4
<1>6. NoCycle(slice) <=> CycleFree(adj, D)
  BY DEF NoCycle, adj, D
<1> QED BY <1>4, <1>5, <1>6 DEF CycleFree, Acyclic

\* The row the pass looks at is one of the rows of its step.
LEMMA RowOf ==
  ASSUME IsSlice(slice), NEW e, NEW step, NEW row, row = Row(slice, e.id, step)
  PROVE  /\ row = 0 => RowsOf(e, step) = {}
         /\ row # 0 => slice[row] \in RowsOf(e, step)
<1>1. IsList(slice)
  BY DEF IsSlice
<1>2. \A b : b \in RowsOf(e, step) <=>
        \E i \in DOMAIN slice : /\ b = slice[i] /\ slice[i].kind = "post_failure"
                                /\ IdentOf(slice[i], "event") = e.id /\ IdentOf(slice[i], "step") = step
  BY DEF RowsOf, Range
<1>3. row = 0 => \A i \in DOMAIN slice :
        ~(/\ slice[i].kind = "post_failure"
          /\ IdentOf(slice[i], "event") = e.id /\ IdentOf(slice[i], "step") = step)
  BY <1>1, RowIs
<1>4. row # 0 => /\ row \in DOMAIN slice /\ slice[row].kind = "post_failure"
                 /\ IdentOf(slice[row], "event") = e.id /\ IdentOf(slice[row], "step") = step
  BY <1>1, RowIs
<1> QED BY <1>2, <1>3, <1>4

\* The rows of the third pass, event by event and step by step.
LEMMA RowsAre ==
  ASSUME IsSlice(slice)
  PROVE  RowsThere(slice) <=> \A e \in Blocks("event") : \A step \in Exposed(e) : HasRow(slice, e, step)
<1>1. EventAt(slice) = {i \in NamedAt(slice) : slice[i].kind = "event"}
  BY KindsAre DEF EventAt, NamedAt, SlotAt
<1>2. ASSUME NEW i \in EventAt(slice)
      PROVE  (\A k \in NeedsRow(slice[i]) : HasRow(slice, slice[i], Steps(slice[i])[k].id)) <=>
               \A step \in Exposed(slice[i]) : HasRow(slice, slice[i], step)
  <2> DEFINE e == slice[i]
  <2>1. IsList(e.blocks)
    BY IdOfPlace DEF EventAt, IsBlock
  <2> HIDE DEF e
  <2>2. \A x : x \in Exposed(e) <=> \E k \in NeedsRow(e) : x = Steps(e)[k].id
    BY <2>1, ExposedIs
  <2>3. (\A k \in NeedsRow(e) : HasRow(slice, e, Steps(e)[k].id)) <=>
          \A step \in Exposed(e) : HasRow(slice, e, step)
    BY <2>2
  <2> QED BY <2>3 DEF e
<1>3. RowsThere(slice) <=> \A i \in EventAt(slice) : \A step \in Exposed(slice[i]) : HasRow(slice, slice[i], step)
  BY <1>2 DEF RowsThere
<1> QED BY <1>1, <1>3, BlocksAre, KindsAre


\* What a slice without errors is, but for the rows.
CleanButRows ==
  slice # <<>> /\ FieldsPresent /\ IdsUnique /\ CellsResolve /\ RowsResolve /\ Mutual /\ Acyclic

LEMMA CleanIs ==
  ASSUME IsSlice(slice)
  PROVE  Analyze(slice) = <<>> <=> CleanButRows /\ RowsThere(slice)
<1>1. Analyze(slice) = <<>> <=>
        slice # <<>> /\ FieldsPresent /\ IsCoherent(slice) /\ RowsThere(slice)
  BY AnalyzeFinds, FieldsAre
<1>2. IdsUnique <=> OneOfEach(slice)
  BY IdsAre
<1>3. ASSUME IdsUnique
      PROVE  /\ RefsResolve(slice) <=> CellsResolve /\ RowsResolve
             /\ PairsMatch(slice) <=> Mutual
             /\ NoCycle(slice) <=> Acyclic
  <2>1. InOrder
    BY <1>3 DEF InOrder
  <2> QED BY <2>1, ReferencesAre, PairsAreMutual, CyclesAre
<1> QED BY <1>1, <1>2, <1>3 DEF IsCoherent, CleanButRows

LEMMA RowsSuffice ==
  ASSUME IsSlice(slice)
  PROVE  /\ RowsThere(slice) => RowsPresent(LAMBDA rows : \E b \in rows : Distinguishes(b))
         /\ RowsPresent(LAMBDA rows : \A b \in rows : Distinguishes(b)) => RowsThere(slice)
<1>1. ASSUME NEW e, NEW step, HasRow(slice, e, step)
      PROVE  /\ RowsOf(e, step) # {}
             /\ Transactional(e) => \E b \in RowsOf(e, step) : Distinguishes(b)
  <2> DEFINE row == Row(slice, e.id, step)
  <2>1. row # 0 /\ (Transactional(e) => Distinguishes(slice[row]))
    BY <1>1 DEF HasRow
  <2>2. slice[row] \in RowsOf(e, step)
    BY <2>1, RowOf
  <2> QED BY <2>1, <2>2
<1>2. ASSUME NEW e, NEW step, RowsOf(e, step) # {},
             Transactional(e) => \A b \in RowsOf(e, step) : Distinguishes(b)
      PROVE  HasRow(slice, e, step)
  <2> DEFINE row == Row(slice, e.id, step)
  <2>1. row # 0
    BY <1>2, RowOf
  <2>2. slice[row] \in RowsOf(e, step)
    BY <2>1, RowOf
  <2> QED BY <1>2, <2>1, <2>2 DEF HasRow
<1>3. RowsThere(slice) <=> \A e \in Blocks("event") : \A step \in Exposed(e) : HasRow(slice, e, step)
  BY RowsAre
<1>4. RowsThere(slice) => RowsPresent(LAMBDA rows : \E b \in rows : Distinguishes(b))
  BY <1>1, <1>3 DEF RowsPresent
<1>5. RowsPresent(LAMBDA rows : \A b \in rows : Distinguishes(b)) => RowsThere(slice)
  BY <1>2, <1>3 DEF RowsPresent
<1> QED BY <1>4, <1>5

-----------------------------------------------------------------------------
(* What suggest says. *)

\* A report is about the slice as it is: an edit throws it away.
ReportIsFresh == report # NoReport => report = Suggestion(slice)

LEMMA Fresh == Spec => []ReportIsFresh
<1>1. Init => ReportIsFresh
  BY DEF Init, ReportIsFresh
<1>2. ReportIsFresh /\ [Next]_vars => ReportIsFresh'
  <2> SUFFICES ASSUME ReportIsFresh, [Next]_vars PROVE ReportIsFresh'
    OBVIOUS
  <2>1. CASE Ask
    BY <2>1 DEF Ask, ReportIsFresh
  <2>2. CASE Paste
    <3>1. report' = NoReport
      BY <2>2 DEF Paste, AddCell, PasteField, FillBody, AddKillTest, AddForbiddenState,
                  AddPostFailure, Answering
    <3> QED BY <3>1 DEF ReportIsFresh
  <2>3. CASE ByMessage \/ FreeId
    <3>1. report' = NoReport
      BY <2>3 DEF ByMessage, FillField, FillByMessage, FreeId, Answering
    <3> QED BY <3>1 DEF ReportIsFresh
  <2>4. CASE Mend
    BY <2>4 DEF Mend, ReportIsFresh
  <2>5. CASE Finished \/ UNCHANGED vars
    BY <2>5 DEF Finished, vars, ReportIsFresh
  <2> QED BY <2>1, <2>2, <2>3, <2>4, <2>5 DEF Next, Work
<1> QED BY <1>1, <1>2, PTL DEF Spec

LEMMA CompleteMeansClean ==
  ASSUME ReportIsFresh, WalkComplete
  PROVE  Analyze(slice) = <<>>
<1>1. report = Suggestion(slice) /\ report.status = "walk_complete"
  BY DEF ReportIsFresh, WalkComplete
<1>2. \A template, found : Report("gap", template, found).status # "walk_complete"
  BY DEF Report
<1> QED BY <1>1, <1>2 DEF Suggestion

(* What suggest calls walk-complete is sound, whatever the slice: every    *)
(* field is there, every id given once, every reference that is an         *)
(* identifier leads where it should, forbidden states and kill tests name  *)
(* each other, no value derives from itself, and each step whose failure   *)
(* can be seen has its row; of what has a number for a name, or a          *)
(* reference of another form, it says just that the passes look past it.   *)
THEOREM CompleteIsSound == Spec => [](IsSlice(slice) => CompleteMeansSound)
<1>1. ReportIsFresh => (IsSlice(slice) => CompleteMeansSound)
  <2> SUFFICES ASSUME ReportIsFresh, IsSlice(slice), WalkComplete
               PROVE  Sound(LAMBDA rows : \E b \in rows : Distinguishes(b))
    BY DEF CompleteMeansSound
  <2>1. CleanButRows /\ RowsThere(slice)
    BY CompleteMeansClean, CleanIs
  <2>2. RowsPresent(LAMBDA rows : \E b \in rows : Distinguishes(b))
    BY <2>1, RowsSuffice
  <2> QED BY <2>1, <2>2 DEF Sound, CleanButRows
<1> QED BY <1>1, Fresh, PTL

(* The passes raise no false alarm: of a slice that is as it should be     *)
(* they say nothing, so the author is never sent to fill a gap that is not *)
(* there.                                                                  *)
THEOREM NoFalseAlarm == Spec => [](IsSlice(slice) => AlarmsAreReal)
<1>1. IsSlice(slice) => AlarmsAreReal
  <2> SUFFICES ASSUME IsSlice(slice), Sound(LAMBDA rows : \A b \in rows : Distinguishes(b))
               PROVE  Analyze(slice) = <<>>
    BY DEF AlarmsAreReal
  <2>1. CleanButRows /\ RowsPresent(LAMBDA rows : \A b \in rows : Distinguishes(b))
    BY DEF Sound, CleanButRows
  <2>2. RowsThere(slice)
    BY <2>1, RowsSuffice
  <2> QED BY <2>1, <2>2, CleanIs
<1> QED BY <1>1, PTL

(* In a complete slice query --gaps reports just the forbidden states that *)
(* have no kill test of their own that was executed and passed: query      *)
(* looks only at the last kill test of an id, the walk only at the first.  *)
(* Both look past forbidden states and kill tests with a number for a      *)
(* name, and the theorem says so: Blocks holds none of them.               *)
THEOREM KilledIsExecuted == Spec => [](IsSlice(slice) => KilledMeansExecuted)
<1>1. ReportIsFresh => (IsSlice(slice) => KilledMeansExecuted)
  <2> SUFFICES ASSUME ReportIsFresh, IsSlice(slice), WalkComplete PROVE KilledMeansExecuted
    BY DEF KilledMeansExecuted
  <2>1. CleanButRows /\ InOrder
    BY CompleteMeansClean, CleanIs DEF CleanButRows, InOrder
  <2>2. ASSUME NEW i \in DOMAIN slice
        PROVE  i \in UnkilledForbiddenStates(slice) <=>
                 /\ slice[i] \in Blocks("forbidden_state") /\ IdentOf(slice[i], "kill_test") # NoName
                 /\ \/ IdentOf(slice[i], "kill_test") = "TODO"
                    \/ ~ \E k \in Blocks("kill_test") : Kills(k, slice[i]) /\ Passing(k)
    <3> DEFINE f   == slice[i]
               ref == IdentOf(f, "kill_test")
               k   == DeclaredKillTest(slice, ref)
    <3>1. f \in Blocks("forbidden_state") <=> f.kind = "forbidden_state" /\ f.id # NoName
      BY DEF Blocks, Range
    <3>2. f.kind = "forbidden_state" => HasField(f, "kill_test")
      BY <2>1, KillTestIsRequired DEF CleanButRows
    <3>3. i \in UnkilledForbiddenStates(slice) <=>
            /\ f \in Blocks("forbidden_state") /\ ref # NoName
            /\ ref = "TODO" \/ k = 0 \/ ~Passing(slice[k])
      BY <3>1, <3>2 DEF UnkilledForbiddenStates
    <3>4. ASSUME f \in Blocks("forbidden_state"), ref # NoName, ref # "TODO"
          PROVE  (k = 0 \/ ~Passing(slice[k])) <=> ~ \E b \in Blocks("kill_test") : Kills(b, f) /\ Passing(b)
      <4>1. PICK b \in Blocks("kill_test") : Kills(b, f)
        BY <2>1, <3>4 DEF CleanButRows, Mutual
      <4>2. b.id = ref /\ ref # NoName
        BY <3>4, <4>1 DEF Kills
      <4>3. k \in DOMAIN slice /\ slice[k].kind = "kill_test" /\ slice[k].id = ref
        <5>1. \E j \in DOMAIN slice : slice[j].kind = "kill_test" /\ slice[j].id = ref
          BY <4>2 DEF Blocks, Range
        <5> QED BY <5>1, DeclaredIs DEF IsSlice
      <4>4. k \in NamedAt(slice)
        BY <3>4, <4>3, KindsAre DEF NamedAt, SlotAt
      <4>5. ASSUME NEW c \in Blocks("kill_test"), c.id = ref PROVE c = slice[k]
        <5>1. PICK j \in NamedAt(slice) : c = slice[j]
          BY BlocksAre, KindsAre
        <5>2. j = k
          BY <2>1, <4>3, <4>4, <4>5, <5>1, TablesAre DEF Tidy
        <5> QED BY <5>1, <5>2
      <4>6. b = slice[k] /\ k # 0
        <5>1. k # 0
          <6>1. IsList(slice)
            BY DEF IsSlice
          <6>2. DOMAIN slice = 1..Len(slice) /\ Len(slice) \in Nat
            BY <6>1, Listed
          <6> HIDE DEF k
          <6> QED BY <4>3, <6>2, SMT
        <5> QED BY <4>2, <4>5, <5>1
      <4>7. \A c \in Blocks("kill_test") : Kills(c, f) => c = slice[k]
        BY <4>5 DEF Kills
      <4> HIDE DEF k
      <4> QED BY <4>1, <4>6, <4>7
    <3> QED BY <3>3, <3>4
  <2>3. \A i \in UnkilledForbiddenStates(slice) : i \in DOMAIN slice
    BY DEF UnkilledForbiddenStates
  <2> QED BY <2>2, <2>3 DEF KilledMeansExecuted
<1> QED BY <1>1, Fresh, PTL

=============================================================================
