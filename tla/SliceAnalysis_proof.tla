------------------------ MODULE SliceAnalysis_proof ------------------------
(***************************************************************************)
(* What the passes of SliceAnalysis answer, for every slice: each gives a  *)
(* list of diagnostics with codes of its own, and when that list is empty. *)
(***************************************************************************)
EXTENDS SliceAnalysis, Listing_proof

\* The codes of the first two passes, and those of all three.
ShapeCodes ==
  {"E0200", "E0201", "E0202", "E0203", "E0250", "E0251", "E0252", "E0253", "E0254",
   "E0255", "E0256", "E0257", "E0258", "E0259"}
PassCodes == ShapeCodes \cup {"E0300", "E0301"}

IsFound(found) == IsList(found) /\ \A d \in Range(found) : d.code \in ShapeCodes

-----------------------------------------------------------------------------
(* Lists of diagnostics. *)

LEMMA NoneFound == IsFound(<<>>)
BY One DEF IsFound

LEMMA OneFound ==
  ASSUME NEW code \in ShapeCodes, NEW at, NEW arg
  PROVE  IsFound(<<Diag(code, at, arg)>>) /\ <<Diag(code, at, arg)>> # <<>>
<1>1. Diag(code, at, arg).code = code
  BY DEF Diag
<1> DEFINE d == Diag(code, at, arg)
<1> HIDE DEF d
<1>2. IsList(<<d>>) /\ Range(<<d>>) = {d} /\ Range(<<>>) = {}
  BY One
<1> QED BY <1>1, <1>2 DEF IsFound, d

LEMMA BothFound ==
  ASSUME NEW a, IsFound(a), NEW b, IsFound(b)
  PROVE  IsFound(a \o b) /\ (a \o b = <<>> <=> a = <<>> /\ b = <<>>)
<1>1. IsList(a \o b) /\ Range(a \o b) = Range(a) \cup Range(b)
  BY Joins DEF IsFound
<1> QED BY <1>1, Listed DEF IsFound

LEMMA EachFound ==
  ASSUME NEW s, IsList(s), NEW ss, ss = [i \in DOMAIN s |-> ss[i]],
         \A i \in DOMAIN s : IsFound(ss[i])
  PROVE  /\ IsFound(FlattenSeq(ss))
         /\ FlattenSeq(ss) = <<>> <=> \A i \in DOMAIN s : ss[i] = <<>>
<1>1. /\ IsList(FlattenSeq(ss))
      /\ \A x : x \in Range(FlattenSeq(ss)) <=> \E i \in DOMAIN s : x \in Range(ss[i])
  BY FlatList DEF IsFound
<1>2. \A i \in DOMAIN s : ss[i] = <<>> <=> Range(ss[i]) = {}
  BY Listed DEF IsFound
<1>3. FlattenSeq(ss) = <<>> <=> Range(FlattenSeq(ss)) = {}
  BY <1>1, Listed
<1> QED BY <1>1, <1>2, <1>3 DEF IsFound

-----------------------------------------------------------------------------
(* The tables. *)

\* The places of the blocks the passes look at.
SlotAt(slice)     == {i \in DOMAIN slice : slice[i].kind \in SlotKinds}
NamedAt(slice)    == {i \in SlotAt(slice) : slice[i].id # NoName}
StepAt(e)         == {j \in DOMAIN e.blocks : e.blocks[j].kind = "step"}
NamedStepAt(e)    == {j \in StepAt(e) : e.blocks[j].id # NoName}

LEMMA SlotsAre ==
  ASSUME NEW slice, IsList(slice)
  PROVE  /\ IsList(Slots(slice)) /\ Range(Slots(slice)) = SlotAt(slice)
         /\ IsList(Named(slice)) /\ Range(Named(slice)) = NamedAt(slice)
<1>1. IsList(Places(slice)) /\ Range(Places(slice)) = DOMAIN slice
  BY PlacesAre
<1>2. IsList(Slots(slice)) /\ Range(Slots(slice)) = SlotAt(slice)
  BY <1>1, OnlyIs DEF Slots, SlotAt
<1>3. IsList(Named(slice)) /\ Range(Named(slice)) = NamedAt(slice)
  BY <1>2, OnlyIs DEF Named, NamedAt, SlotAt
<1> QED BY <1>2, <1>3

LEMMA StepsAre ==
  ASSUME NEW e, IsList(e.blocks)
  PROVE  /\ IsList(StepsAt(e)) /\ Range(StepsAt(e)) = StepAt(e)
         /\ IsList(NamedSteps(e)) /\ Range(NamedSteps(e)) = NamedStepAt(e)
<1>1. IsList(Places(e.blocks)) /\ Range(Places(e.blocks)) = DOMAIN e.blocks
  BY PlacesAre
<1>2. IsList(StepsAt(e)) /\ Range(StepsAt(e)) = StepAt(e)
  BY <1>1, OnlyIs DEF StepsAt, StepAt
<1>3. IsList(NamedSteps(e)) /\ Range(NamedSteps(e)) = NamedStepAt(e)
  BY <1>2, OnlyIs DEF NamedSteps, NamedStepAt, StepAt
<1> QED BY <1>2, <1>3

(* The named steps of an event are its blocks, in their order.              *)
LEMMA StepsInOrder ==
  ASSUME NEW e, IsList(e.blocks), NEW q, q = NamedSteps(e)
  PROVE  /\ DOMAIN Steps(e) = DOMAIN q /\ DOMAIN q \subseteq Nat
         /\ \A k \in DOMAIN q : Steps(e)[k] = e.blocks[q[k]] /\ q[k] \in NamedStepAt(e)
         /\ NamedStepAt(e) \subseteq Nat
         /\ \A j \in NamedStepAt(e) : \E k \in DOMAIN q : q[k] = j
         /\ \A j, k \in DOMAIN q : j < k <=> q[j] < q[k]
         /\ \A j, k \in DOMAIN q : q[j] = q[k] => j = k
<1>1. /\ IsList(q) /\ Range(q) = NamedStepAt(e)
      /\ IsList(StepsAt(e)) /\ Range(StepsAt(e)) = StepAt(e)
  BY StepsAre
<1>2. DOMAIN q \subseteq Nat /\ DOMAIN StepsAt(e) \subseteq Nat /\ NamedStepAt(e) \subseteq Nat
  <2>1. NamedStepAt(e) \subseteq DOMAIN e.blocks
    BY DEF NamedStepAt, StepAt
  <2> QED BY <1>1, <2>1, Listed, SMT
<1>3. /\ DOMAIN Steps(e) = DOMAIN q
      /\ \A k \in DOMAIN q : Steps(e)[k] = e.blocks[q[k]]
  BY DEF Steps
<1>4. /\ \A k \in DOMAIN q : q[k] \in NamedStepAt(e)
      /\ \A j \in NamedStepAt(e) : \E k \in DOMAIN q : q[k] = j
  BY <1>1, Listed
<1>5. \A x, y \in DOMAIN StepsAt(e) : x < y => StepsAt(e)[x] < StepsAt(e)[y]
  <2> DEFINE at == StepsAt(e)
             ps == Places(e.blocks)
             set == {j \in DOMAIN e.blocks : e.blocks[j].kind = "step"}
  <2>1. IsList(ps) /\ DOMAIN ps = DOMAIN e.blocks /\ \A i \in DOMAIN e.blocks : ps[i] = i
    BY PlacesAre DEF Places
  <2>2. at = Only(ps, set)
    BY DEF StepsAt
  <2> HIDE DEF at, ps, set
  <2>3. \A x, y \in DOMAIN at : x < y => \E i, j \in DOMAIN ps : i < j /\ ps[i] = at[x] /\ ps[j] = at[y]
    BY <2>1, <2>2, OnlyInOrder
  <2>4. \A x, y \in DOMAIN at : x < y => at[x] < at[y]
    BY <2>1, <2>3
  <2> QED BY <2>4 DEF at
<1>6. \A x, y \in DOMAIN q : x < y => q[x] < q[y]
  <2> DEFINE at == StepsAt(e)
             set == {j \in DOMAIN e.blocks : e.blocks[j].id # NoName}
  <2>1. q = Only(at, set)
    BY DEF NamedSteps
  <2>2. IsList(at) /\ \A i, j \in DOMAIN at : i < j => at[i] < at[j]
    BY <1>1, <1>5
  <2> HIDE DEF at, set
  <2>3. \A x, y \in DOMAIN q : x < y => \E i, j \in DOMAIN at : i < j /\ at[i] = q[x] /\ at[j] = q[y]
    BY <2>1, <2>2, OnlyInOrder
  <2> QED BY <2>2, <2>3
<1>7. \A j, k \in DOMAIN q : (j < k <=> q[j] < q[k]) /\ (q[j] = q[k] => j = k)
  <2> TAKE j, k \in DOMAIN q
  <2>1. j \in Nat /\ k \in Nat /\ q[j] \in Nat /\ q[k] \in Nat
    BY <1>2, <1>4
  <2>2. (j < k => q[j] < q[k]) /\ (k < j => q[k] < q[j])
    BY <1>6
  <2> QED BY <2>1, <2>2, SMT
<1> QED BY <1>2, <1>3, <1>4, <1>7

\* The blocks the symbol table holds.
FirstsAt(slice, kind) == {i \in NamedAt(slice) : slice[i].kind = kind /\ ~Prior(slice, i)}
FirstStepsAt(e)       == {j \in NamedStepAt(e) : ~PriorStep(e, j)}

LEMMA IdOfPlace ==
  ASSUME NEW slice, IsSlice(slice), NEW i \in DOMAIN slice
  PROVE  /\ IsBlock(slice[i])
         /\ \A j \in DOMAIN slice[i].blocks : IsBlock(slice[i].blocks[j])
BY DEF IsSlice, Range

LEMMA RankIs ==
  ASSUME NEW id \in Range(Order)
  PROVE  Rank(id) \in Nat /\ Order[Rank(id)] = id
<1>1. IsList(Order) /\ Len(Order) \in Nat
  BY SliceAssumption, Listed
<1>2. /\ SelectInSeq(Order, LAMBDA y : y = id) \in 1..Len(Order)
      /\ Order[SelectInSeq(Order, LAMBDA y : y = id)] = id
  BY <1>1, FirstPlace
<1>3. Rank(id) = SelectInSeq(Order, LAMBDA y : y = id)
  BY DEF Rank
<1> QED BY <1>1, <1>2, <1>3, SMT

LEMMA TableIs ==
  ASSUME NEW slice, IsSlice(slice), NEW kind
  PROVE  IsList(Table(slice, kind)) /\ Range(Table(slice, kind)) = FirstsAt(slice, kind)
<1> DEFINE firsts == FirstsAt(slice, kind)
           rank   == [i \in firsts |-> Rank(slice[i].id)]
<1>1. IsList(slice) /\ DOMAIN slice = 1..Len(slice) /\ Len(slice) \in Nat
  BY Listed DEF IsSlice
<1>2. IsFiniteSet(firsts)
  <2>2. IsFiniteSet(1..Len(slice))
    BY <1>1, FS_Interval, SMT
  <2>1. firsts \subseteq 1..Len(slice)
    BY <1>1 DEF FirstsAt, NamedAt, SlotAt
  <2> QED BY <2>1, <2>2, FS_Subset
<1>3. Table(slice, kind) = ByRank(firsts, rank)
  BY <1>1, SlotsAre DEF Table, FirstsAt
<1>4. \A i \in firsts : slice[i].id \in Range(Order)
  BY IdOfPlace DEF FirstsAt, NamedAt, SlotAt, IsBlock
<1>5. \A i \in firsts : rank[i] \in Nat /\ Order[rank[i]] = slice[i].id
  BY <1>4, RankIs
<1>6. \A i, j \in firsts : slice[i].id = slice[j].id => i = j
  <2> SUFFICES ASSUME NEW i \in firsts, NEW j \in firsts, slice[i].id = slice[j].id, i # j
               PROVE  FALSE
    OBVIOUS
  <2>1. i \in NamedAt(slice) /\ j \in NamedAt(slice) /\ ~Prior(slice, i) /\ ~Prior(slice, j)
    BY DEF FirstsAt
  <2>2. i \in Nat /\ j \in Nat
    BY <1>1, <2>1, SMT DEF NamedAt, SlotAt
  <2>3. i < j \/ j < i
    BY <2>2, SMT
  <2> QED BY <1>1, <2>1, <2>3, SlotsAre DEF Prior
<1> HIDE DEF firsts
<1>7. \A i, j \in firsts : rank[i] = rank[j] => i = j
  BY <1>5, <1>6
<1> HIDE DEF rank
<1> QED BY <1>2, <1>3, <1>5, <1>7, ListOfSet, Orders DEF firsts

LEMMA StepTableIs ==
  ASSUME NEW e, IsList(e.blocks), \A j \in DOMAIN e.blocks : IsBlock(e.blocks[j])
  PROVE  IsList(StepTable(e)) /\ Range(StepTable(e)) = FirstStepsAt(e)
<1> DEFINE firsts == FirstStepsAt(e)
           rank   == [j \in firsts |-> Rank(e.blocks[j].id)]
<1>1. DOMAIN e.blocks = 1..Len(e.blocks) /\ Len(e.blocks) \in Nat
  BY Listed
<1>2. IsFiniteSet(firsts)
  <2>2. IsFiniteSet(1..Len(e.blocks))
    BY <1>1, FS_Interval, SMT
  <2>1. firsts \subseteq 1..Len(e.blocks)
    BY <1>1 DEF FirstStepsAt, NamedStepAt, StepAt
  <2> QED BY <2>1, <2>2, FS_Subset
<1>3. StepTable(e) = ByRank(firsts, rank)
  BY StepsAre DEF StepTable, FirstStepsAt
<1>4. \A j \in firsts : e.blocks[j].id \in Range(Order)
  BY DEF FirstStepsAt, NamedStepAt, StepAt, IsBlock
<1>5. \A j \in firsts : rank[j] \in Nat /\ Order[rank[j]] = e.blocks[j].id
  BY <1>4, RankIs
<1>6. \A i, j \in firsts : e.blocks[i].id = e.blocks[j].id => i = j
  <2> SUFFICES ASSUME NEW i \in firsts, NEW j \in firsts, e.blocks[i].id = e.blocks[j].id, i # j
               PROVE  FALSE
    OBVIOUS
  <2>1. i \in NamedStepAt(e) /\ j \in NamedStepAt(e) /\ ~PriorStep(e, i) /\ ~PriorStep(e, j)
    BY DEF FirstStepsAt
  <2>2. i \in Nat /\ j \in Nat
    BY <1>1, <2>1, SMT DEF NamedStepAt, StepAt
  <2>3. i < j \/ j < i
    BY <2>2, SMT
  <2> QED BY <2>1, <2>3, StepsAre DEF PriorStep
<1> HIDE DEF firsts
<1>7. \A i, j \in firsts : rank[i] = rank[j] => i = j
  BY <1>5, <1>6
<1> HIDE DEF rank
<1> QED BY <1>2, <1>3, <1>5, <1>7, ListOfSet, Orders DEF firsts

-----------------------------------------------------------------------------
(* Structural completeness. *)

LEMMA RequiredIs ==
  ASSUME NEW kind \in SlotKinds \cup {"step"}
  PROVE  IsList(Required[kind])
<1>1. Required[kind] \in
        {<<"type", "mutable">>, <<"derives_from", "derivation">>,
         <<"invariant", "over", "enforced_by">>, <<"mutates">>, <<"op", "fallible">>,
         <<"event", "step", "outcome">>, <<"description", "reachability", "kill_test">>,
         <<"forbidden", "kind", "assertion">>}
  BY DEF Required, SlotKinds
<1>2. \A x, y, z : IsList(<<x>>) /\ IsList(<<x, y>>) /\ IsList(<<x, y, z>>)
  BY One, Tuples
<1> QED BY <1>1, <1>2

\* A block has its name, be it a number, and its required fields.
IsFilled(b) ==
  /\ b.id # NoName \/ b.numbered
  /\ \A k \in DOMAIN Required[b.kind] : HasField(b, Required[b.kind][k])

LEMMA CheckFieldsFinds ==
  ASSUME NEW b, b.kind \in SlotKinds \cup {"step"}, NEW at
  PROVE  IsFound(CheckFields(b, at)) /\ (CheckFields(b, at) = <<>> <=> IsFilled(b))
<1> DEFINE keys == Required[b.kind]
           gone == Only(keys, Range(keys) \ DOMAIN b.fields)
           F(key) == <<Diag("E0200", at, key)>>
           ss   == [i \in DOMAIN gone |-> F(gone[i])]
           name == If(b.id = NoName /\ ~b.numbered, Diag("E0200", at, "name"))
<1>1. IsList(keys)
  BY RequiredIs
<1>2. CheckFields(b, at) = name \o FlattenSeq(ss)
  BY DEF CheckFields, ForEach
<1>3. IsFound(name) /\ (name = <<>> <=> (b.id # NoName \/ b.numbered))
  BY OneFound, NoneFound DEF If, ShapeCodes
<1>4. \A key : IsFound(F(key)) /\ F(key) # <<>>
  BY OneFound DEF ShapeCodes
<1> HIDE DEF keys, F, name
<1>5. IsList(gone) /\ Range(gone) = Range(keys) \ DOMAIN b.fields
  BY <1>1, OnlyIs
<1> HIDE DEF gone
<1>6. /\ IsFound(FlattenSeq(ss))
      /\ FlattenSeq(ss) = <<>> <=> \A i \in DOMAIN gone : ss[i] = <<>>
  BY <1>4, <1>5, EachFound
<1>7. FlattenSeq(ss) = <<>> <=> gone = <<>>
  BY <1>4, <1>5, <1>6, Listed
<1>8. gone = <<>> <=> \A k \in DOMAIN keys : HasField(b, keys[k])
  BY <1>1, <1>5, Listed DEF HasField
<1> QED BY <1>2, <1>3, <1>6, <1>7, <1>8, BothFound DEF IsFilled, keys

LEMMA CheckEventFinds ==
  ASSUME NEW b, IsList(b.blocks), NEW i
  PROVE  /\ IsFound(CheckEvent(b, i))
         /\ CheckEvent(b, i) = <<>> <=>
              HasBlock(b, "step") /\ \A j \in StepAt(b) : IsFilled(b.blocks[j])
<1> DEFINE steps == StepsAt(b)
           F(j) == CheckFields(b.blocks[j], <<i, j>>)
           ss   == [n \in DOMAIN steps |-> F(steps[n])]
           none == If(~HasBlock(b, "step"), Diag("E0202", <<i>>, b.id))
<1>1. IsList(steps) /\ Range(steps) = StepAt(b)
  BY StepsAre
<1>2. CheckEvent(b, i) = none \o FlattenSeq(ss)
  BY DEF CheckEvent, ForEach
<1>3. IsFound(none) /\ (none = <<>> <=> HasBlock(b, "step"))
  BY OneFound, NoneFound DEF If, ShapeCodes
<1>4. \A j \in StepAt(b) : IsFound(F(j)) /\ (F(j) = <<>> <=> IsFilled(b.blocks[j]))
  BY CheckFieldsFinds DEF StepAt
<1> HIDE DEF F, none, steps
<1>5. \A n \in DOMAIN steps : steps[n] \in StepAt(b)
  BY <1>1, Listed
<1>6. /\ IsFound(FlattenSeq(ss))
      /\ FlattenSeq(ss) = <<>> <=> \A n \in DOMAIN steps : ss[n] = <<>>
  BY <1>1, <1>4, <1>5, EachFound
<1>7. FlattenSeq(ss) = <<>> <=> \A j \in StepAt(b) : IsFilled(b.blocks[j])
  BY <1>1, <1>4, <1>5, <1>6, Listed
<1> QED BY <1>2, <1>3, <1>6, <1>7, BothFound

HasCellsAfter(b) == HasField(b, "cells_after") \/ \E k \in 1..3 : HasBlock(b, CellsAfter[k])
HasBody(b) == HasField(b, "predicate") \/ HasField(b, "cells") \/ HasBlock(b, "cells")

\* What the structural pass asks of a block.
IsComplete(b) ==
  /\ IsFilled(b)
  /\ b.kind = "event" => HasBlock(b, "step") /\ \A j \in StepAt(b) : IsFilled(b.blocks[j])
  /\ b.kind = "post_failure" => HasCellsAfter(b)
  /\ b.kind = "forbidden_state" => HasBody(b)

LEMMA CheckSlotFinds ==
  ASSUME NEW b, b.kind \in SlotKinds, IsList(b.blocks), NEW i
  PROVE  IsFound(CheckSlot(b, i)) /\ (CheckSlot(b, i) = <<>> <=> IsComplete(b))
<1>1. /\ IsFound(CheckFields(b, <<i>>))
      /\ CheckFields(b, <<i>>) = <<>> <=> IsFilled(b)
  BY CheckFieldsFinds
<1>2. CASE b.kind = "event"
  <2>1. CheckSlot(b, i) = CheckFields(b, <<i>>) \o CheckEvent(b, i)
    BY <1>2 DEF CheckSlot
  <2> QED BY <1>1, <1>2, <2>1, CheckEventFinds, BothFound DEF IsComplete
<1>3. CASE b.kind = "post_failure"
  <2>1. CheckSlot(b, i) = CheckFields(b, <<i>>) \o CheckPostFailure(b, i)
    BY <1>3 DEF CheckSlot
  <2>2. /\ IsFound(CheckPostFailure(b, i))
        /\ CheckPostFailure(b, i) = <<>> <=> HasCellsAfter(b)
    BY OneFound, NoneFound DEF CheckPostFailure, If, ShapeCodes, HasCellsAfter
  <2> QED BY <1>1, <1>3, <2>1, <2>2, BothFound DEF IsComplete
<1>4. CASE b.kind = "forbidden_state"
  <2>1. CheckSlot(b, i) = CheckFields(b, <<i>>) \o CheckForbiddenState(b, i)
    BY <1>4 DEF CheckSlot
  <2>2. /\ IsFound(CheckForbiddenState(b, i))
        /\ CheckForbiddenState(b, i) = <<>> <=> HasBody(b)
    BY OneFound, NoneFound DEF CheckForbiddenState, If, ShapeCodes, HasBody
  <2> QED BY <1>1, <1>4, <2>1, <2>2, BothFound DEF IsComplete
<1>5. CASE b.kind \notin {"event", "post_failure", "forbidden_state"}
  <2>1. CheckSlot(b, i) = CheckFields(b, <<i>>) \o <<>>
    BY <1>5 DEF CheckSlot
  <2> QED BY <1>1, <1>5, <2>1, NoneFound, BothFound DEF IsComplete
<1> QED BY <1>2, <1>3, <1>4, <1>5

LEMMA StructuralFinds ==
  ASSUME NEW slice, IsSlice(slice)
  PROVE  /\ IsFound(Structural(slice))
         /\ Structural(slice) = <<>> <=>
              slice # <<>> /\ \A i \in SlotAt(slice) : IsComplete(slice[i])
<1> DEFINE slots == Slots(slice)
           F(i) == CheckSlot(slice[i], i)
           ss   == [n \in DOMAIN slots |-> F(slots[n])]
<1>1. IsList(slots) /\ Range(slots) = SlotAt(slice)
  BY SlotsAre DEF IsSlice
<1>2. \A i \in SlotAt(slice) : IsFound(F(i)) /\ (F(i) = <<>> <=> IsComplete(slice[i]))
  BY CheckSlotFinds, IdOfPlace DEF SlotAt, IsBlock
<1>3. slice # <<>> => Structural(slice) = FlattenSeq(ss)
  BY DEF Structural, ForEach
<1>4. slice = <<>> => IsFound(Structural(slice)) /\ Structural(slice) # <<>>
  BY OneFound DEF Structural, ShapeCodes
<1> HIDE DEF F, slots
<1>5. \A n \in DOMAIN slots : slots[n] \in SlotAt(slice)
  BY <1>1, Listed
<1>6. /\ IsFound(FlattenSeq(ss))
      /\ FlattenSeq(ss) = <<>> <=> \A n \in DOMAIN slots : ss[n] = <<>>
  BY <1>1, <1>2, <1>5, EachFound
<1>7. FlattenSeq(ss) = <<>> <=> \A i \in SlotAt(slice) : IsComplete(slice[i])
  BY <1>1, <1>2, <1>5, <1>6, Listed
<1> QED BY <1>3, <1>4, <1>6, <1>7

-----------------------------------------------------------------------------
(* Coherence. *)

\* No two blocks have one id, no two steps of an event.
OneOfEach(slice) ==
  \A i \in NamedAt(slice) :
    /\ ~Prior(slice, i)
    /\ slice[i].kind = "event" => \A j \in NamedStepAt(slice[i]) : ~PriorStep(slice[i], j)

LEMMA DuplicatesFinds ==
  ASSUME NEW slice, IsSlice(slice)
  PROVE  IsFound(Duplicates(slice)) /\ (Duplicates(slice) = <<>> <=> OneOfEach(slice))
<1> DEFINE G(i, j) == If(PriorStep(slice[i], j), Diag("E0251", <<i, j>>, slice[i].blocks[j].id))
           steps(i) == NamedSteps(slice[i])
           gs(i) == [n \in DOMAIN steps(i) |-> G(i, steps(i)[n])]
           F(i) == IF Prior(slice, i) THEN <<Diag("E0250", <<i>>, slice[i].id)>>
                   ELSE IF slice[i].kind # "event" THEN <<>>
                   ELSE FlattenSeq(gs(i))
           named == Named(slice)
           ss == [n \in DOMAIN named |-> F(named[n])]
           Single(i) == /\ ~Prior(slice, i)
                        /\ slice[i].kind = "event" =>
                             \A j \in NamedStepAt(slice[i]) : ~PriorStep(slice[i], j)
<1>1. IsList(named) /\ Range(named) = NamedAt(slice)
  BY SlotsAre DEF IsSlice
<1>2. Duplicates(slice) = FlattenSeq(ss)
  BY DEF Duplicates, ForEach
<1>3. \A i, j : IsFound(G(i, j)) /\ (G(i, j) = <<>> <=> ~PriorStep(slice[i], j))
  BY OneFound, NoneFound DEF If, ShapeCodes
<1> HIDE DEF G
<1>4. ASSUME NEW i \in NamedAt(slice) PROVE IsFound(F(i)) /\ (F(i) = <<>> <=> Single(i))
  <2>1. IsList(steps(i)) /\ Range(steps(i)) = NamedStepAt(slice[i])
    BY IdOfPlace, StepsAre DEF NamedAt, SlotAt, IsBlock
  <2> DEFINE st == steps(i)
             g  == gs(i)
  <2>2. g = [n \in DOMAIN st |-> g[n]] /\ \A n \in DOMAIN st : g[n] = G(i, st[n])
    OBVIOUS
  <2> HIDE DEF st, g
  <2>3. IsFound(FlattenSeq(g)) /\ (FlattenSeq(g) = <<>> <=> \A n \in DOMAIN st : g[n] = <<>>)
    BY <1>3, <2>1, <2>2, EachFound DEF st
  <2>4. FlattenSeq(g) = <<>> <=> \A j \in NamedStepAt(slice[i]) : ~PriorStep(slice[i], j)
    BY <1>3, <2>1, <2>2, <2>3, Listed DEF st
  <2>5. IsFound(<<Diag("E0250", <<i>>, slice[i].id)>>) /\ <<Diag("E0250", <<i>>, slice[i].id)>> # <<>>
    BY OneFound DEF ShapeCodes
  <2> QED BY <2>3, <2>4, <2>5, NoneFound DEF g
<1> HIDE DEF F, named, Single
<1>5. \A n \in DOMAIN named : named[n] \in NamedAt(slice)
  BY <1>1, Listed
<1>6. /\ IsFound(FlattenSeq(ss))
      /\ FlattenSeq(ss) = <<>> <=> \A n \in DOMAIN named : ss[n] = <<>>
  BY <1>1, <1>4, <1>5, EachFound
<1>7. FlattenSeq(ss) = <<>> <=> \A i \in NamedAt(slice) : Single(i)
  BY <1>1, <1>4, <1>5, <1>6, Listed
<1> QED BY <1>2, <1>6, <1>7 DEF Single, OneOfEach

LEMMA UnresolvedFinds ==
  ASSUME NEW ids, IsList(ids), NEW known, NEW at
  PROVE  /\ IsFound(Unresolved(ids, known, at))
         /\ Unresolved(ids, known, at) = <<>> <=> Range(ids) \subseteq known
<1> DEFINE gone == Only(ids, Range(ids) \ known)
           F(x) == <<Diag("E0252", at, x)>>
           ss   == [n \in DOMAIN gone |-> F(gone[n])]
<1>1. Unresolved(ids, known, at) = FlattenSeq(ss)
  BY DEF Unresolved, ForEach
<1>2. \A x : IsFound(F(x)) /\ F(x) # <<>>
  BY OneFound DEF ShapeCodes
<1>3. IsList(gone) /\ Range(gone) = Range(ids) \ known
  BY OnlyIs
<1> HIDE DEF F, gone
<1>4. /\ IsFound(FlattenSeq(ss))
      /\ FlattenSeq(ss) = <<>> <=> \A n \in DOMAIN gone : ss[n] = <<>>
  BY <1>2, <1>3, EachFound
<1>5. FlattenSeq(ss) = <<>> <=> gone = <<>>
  BY <1>2, <1>3, <1>4, Listed
<1> QED BY <1>1, <1>3, <1>4, <1>5, Listed

LEMMA FieldLists ==
  ASSUME NEW b, IsBlock(b), \A j \in DOMAIN b.blocks : IsBlock(b.blocks[j]), NEW key
  PROVE  IsList(Idents(b, key)) /\ IsList(CellKeys(b, key))
<1>1. \A forms : IsList(Of(b, key, forms))
  BY One DEF Of, HasField, IsBlock
<1>2. \A set : IsList(Only(Order, set))
  BY SliceAssumption, OnlyIs
<1>3. IsList(Idents(b, key))
  BY <1>1 DEF Idents
<1>4. IsList(CellKeys(b, key))
  BY <1>1, <1>2, One, Joins DEF CellKeys
<1> QED BY <1>3, <1>4

\* The step a row names can fail, the event it names exists.
IsRow(slice, b) ==
  LET event == IdentOf(b, "event")
      step  == IdentOf(b, "step")
  IN  /\ \A k \in 1..3 : Range(CellKeys(b, CellsAfter[k])) \subseteq Ids(slice, "cell")
      /\ event # NoName =>
           /\ event \in Ids(slice, "event")
           /\ step # NoName =>
                /\ step \in StepIds(slice[Lookup(slice, event)])
                /\ IsTrue(StepOf(slice[Lookup(slice, event)], step), "fallible")

LEMMA CheckPostFailureRefsFinds ==
  ASSUME NEW slice, IsSlice(slice), NEW i \in DOMAIN slice
  PROVE  /\ IsFound(CheckPostFailureRefs(slice, i))
         /\ CheckPostFailureRefs(slice, i) = <<>> <=> IsRow(slice, slice[i])
<1> DEFINE b     == slice[i]
           event == IdentOf(b, "event")
           step  == IdentOf(b, "step")
           cells == Ids(slice, "cell")
           e     == slice[Lookup(slice, event)]
           F(key) == Unresolved(CellKeys(b, key), cells, <<i>>)
           ss    == [k \in DOMAIN CellsAfter |-> F(CellsAfter[k])]
           fallible == If(~IsTrue(StepOf(e, step), "fallible"), Diag("E0259", <<i>>, step))
           found == IF event = NoName THEN <<>>
                    ELSE IF event \notin Ids(slice, "event") THEN <<Diag("E0253", <<i>>, event)>>
                    ELSE IF step = NoName THEN <<>>
                    ELSE IF step \notin StepIds(e) THEN <<Diag("E0254", <<i>>, step)>>
                    ELSE fallible
<1>1. CheckPostFailureRefs(slice, i) = FlattenSeq(ss) \o found
  BY DEF CheckPostFailureRefs, ForEach
<1>2. \A key : /\ IsFound(F(key))
               /\ F(key) = <<>> <=> Range(CellKeys(b, key)) \subseteq cells
  BY IdOfPlace, FieldLists, UnresolvedFinds
<1>3. IsList(CellsAfter) /\ DOMAIN CellsAfter = 1..3
  <2>1. DOMAIN CellsAfter = 1..3
    BY SMT DEF CellsAfter
  <2> QED BY <2>1, Tuples DEF CellsAfter
<1>4. IsFound(fallible) /\ (fallible = <<>> <=> IsTrue(StepOf(e, step), "fallible"))
  BY OneFound, NoneFound DEF If, ShapeCodes
<1>5. /\ IsFound(<<Diag("E0253", <<i>>, event)>>) /\ <<Diag("E0253", <<i>>, event)>> # <<>>
      /\ IsFound(<<Diag("E0254", <<i>>, step)>>) /\ <<Diag("E0254", <<i>>, step)>> # <<>>
  BY OneFound DEF ShapeCodes
<1> HIDE DEF F, fallible
<1>6. /\ IsFound(FlattenSeq(ss))
      /\ FlattenSeq(ss) = <<>> <=> \A k \in DOMAIN CellsAfter : ss[k] = <<>>
  BY <1>2, <1>3, EachFound
<1>7. FlattenSeq(ss) = <<>> <=>
        \A k \in 1..3 : Range(CellKeys(b, CellsAfter[k])) \subseteq cells
  BY <1>2, <1>3, <1>6
<1>8. /\ IsFound(found)
      /\ found = <<>> <=>
           (event # NoName =>
              /\ event \in Ids(slice, "event")
              /\ step # NoName => step \in StepIds(e) /\ IsTrue(StepOf(e, step), "fallible"))
  BY <1>4, <1>5, NoneFound
<1> HIDE DEF found, ss
<1> QED BY <1>1, <1>6, <1>7, <1>8, BothFound DEF IsRow

\* ss has what g says of each place of a table.
LEMMA TableFinds ==
  ASSUME NEW slice, IsSlice(slice), NEW kind, NEW g, NEW ss,
         ss = [n \in DOMAIN Table(slice, kind) |-> g[Table(slice, kind)[n]]],
         \A i \in FirstsAt(slice, kind) : IsFound(g[i])
  PROVE  /\ IsFound(FlattenSeq(ss))
         /\ FlattenSeq(ss) = <<>> <=> \A i \in FirstsAt(slice, kind) : g[i] = <<>>
<1> DEFINE t == Table(slice, kind)
<1>1. IsList(t) /\ Range(t) = FirstsAt(slice, kind)
  BY TableIs
<1>2. DOMAIN ss = DOMAIN t /\ \A n \in DOMAIN t : ss[n] = g[t[n]]
  OBVIOUS
<1>3. ss = [n \in DOMAIN t |-> ss[n]]
  OBVIOUS
<1> HIDE DEF t
<1>4. \A n \in DOMAIN t : t[n] \in FirstsAt(slice, kind)
  BY <1>1, Listed
<1>5. /\ IsFound(FlattenSeq(ss))
      /\ FlattenSeq(ss) = <<>> <=> \A n \in DOMAIN t : ss[n] = <<>>
  BY <1>1, <1>2, <1>3, <1>4, EachFound
<1>6. \A i \in FirstsAt(slice, kind) : \E n \in DOMAIN t : t[n] = i
  BY <1>1, Listed
<1>7. (\A n \in DOMAIN t : ss[n] = <<>>) <=> \A i \in FirstsAt(slice, kind) : g[i] = <<>>
  BY <1>2, <1>4, <1>6, Zenon
<1> QED BY <1>5, <1>7

LEMMA FirstsPlaces ==
  ASSUME NEW slice, IsSlice(slice), NEW kind, NEW i \in FirstsAt(slice, kind)
  PROVE  /\ i \in DOMAIN slice /\ IsBlock(slice[i]) /\ slice[i].kind = kind
         /\ slice[i].id # NoName /\ slice[i].id \in Range(Order)
         /\ \A j \in DOMAIN slice[i].blocks : IsBlock(slice[i].blocks[j])
BY IdOfPlace DEF FirstsAt, NamedAt, SlotAt, IsBlock

\* The cells, and the cells and derived values, of the table.
Known(slice) == Ids(slice, "cell") \cup Ids(slice, "derived")

\* The references of an event and of its steps lead to cells.
EventResolves(slice, e) ==
  /\ Range(Idents(e, "mutates")) \subseteq Ids(slice, "cell")
  /\ \A j \in FirstStepsAt(e) : Range(Idents(e.blocks[j], "mutates")) \subseteq Ids(slice, "cell")

LEMMA EventFinds ==
  ASSUME NEW slice, IsSlice(slice), NEW i \in FirstsAt(slice, "event"), NEW ss,
         ss = [n \in DOMAIN StepTable(slice[i]) |->
                 Unresolved(Idents(slice[i].blocks[StepTable(slice[i])[n]], "mutates"),
                            Ids(slice, "cell"), <<i, StepTable(slice[i])[n]>>)],
         NEW found,
         found = Unresolved(Idents(slice[i], "mutates"), Ids(slice, "cell"), <<i>>) \o FlattenSeq(ss)
  PROVE  IsFound(found) /\ (found = <<>> <=> EventResolves(slice, slice[i]))
<1> DEFINE e == slice[i]
           steps == StepTable(e)
           cells == Ids(slice, "cell")
           F(j) == Unresolved(Idents(e.blocks[j], "mutates"), cells, <<i, j>>)
           own  == Unresolved(Idents(e, "mutates"), cells, <<i>>)
<1>1. IsBlock(e) /\ \A j \in DOMAIN e.blocks : IsBlock(e.blocks[j])
  BY FirstsPlaces
<1>2. IsList(steps) /\ Range(steps) = FirstStepsAt(e)
  BY <1>1, StepTableIs DEF IsBlock
<1>3. FirstStepsAt(e) \subseteq DOMAIN e.blocks
  BY DEF FirstStepsAt, NamedStepAt, StepAt
<1>4. IsFound(own) /\ (own = <<>> <=> Range(Idents(e, "mutates")) \subseteq cells)
  BY <1>1, FieldLists, UnresolvedFinds
<1>5. ASSUME NEW j \in FirstStepsAt(e)
      PROVE  /\ IsFound(F(j))
             /\ F(j) = <<>> <=> Range(Idents(e.blocks[j], "mutates")) \subseteq cells
  <2>1. IsList(Idents(e.blocks[j], "mutates"))
    BY <1>1, <1>3, One DEF Idents, Of, HasField, IsBlock
  <2> QED BY <2>1, UnresolvedFinds
<1>6. found = own \o FlattenSeq(ss) /\ ss = [n \in DOMAIN steps |-> F(steps[n])]
  OBVIOUS
<1> HIDE DEF F, own, steps, e
<1>7. ss = [n \in DOMAIN steps |-> ss[n]] /\ \A n \in DOMAIN steps : ss[n] = F(steps[n])
  BY <1>6
<1>8. \A n \in DOMAIN steps : steps[n] \in FirstStepsAt(e)
  BY <1>2, Listed
<1>9. /\ IsFound(FlattenSeq(ss))
      /\ FlattenSeq(ss) = <<>> <=> \A n \in DOMAIN steps : ss[n] = <<>>
  <2>1. \A n \in DOMAIN steps : IsFound(ss[n])
    BY <1>5, <1>7, <1>8, Zenon
  <2> QED BY <1>2, <1>7, <2>1, EachFound
<1>10. FlattenSeq(ss) = <<>> <=> \A j \in FirstStepsAt(e) : F(j) = <<>>
  <2>1. \A j \in FirstStepsAt(e) : \E n \in DOMAIN steps : steps[n] = j
    BY <1>2, Listed
  <2> QED BY <1>7, <1>8, <1>9, <2>1, Zenon
<1>11. FlattenSeq(ss) = <<>> <=>
         \A j \in FirstStepsAt(e) : Range(Idents(e.blocks[j], "mutates")) \subseteq cells
  BY <1>5, <1>10
<1> QED BY <1>4, <1>6, <1>9, <1>11, BothFound DEF EventResolves, e

\* Every reference leads to a block of the kind it must be.
RefsResolve(slice) ==
  /\ \A i \in FirstsAt(slice, "derived") :
       Range(Idents(slice[i], "derives_from")) \subseteq Known(slice)
  /\ \A i \in FirstsAt(slice, "association") :
       Range(Idents(slice[i], "over")) \subseteq Known(slice)
  /\ \A i \in FirstsAt(slice, "event") : EventResolves(slice, slice[i])
  /\ \A i \in FirstsAt(slice, "forbidden_state") :
       Range(CellKeys(slice[i], "cells")) \subseteq Ids(slice, "cell")
  /\ \A i \in FirstsAt(slice, "post_failure") : IsRow(slice, slice[i])

LEMMA CheckRefsFinds ==
  ASSUME NEW slice, IsSlice(slice)
  PROVE  IsFound(CheckRefs(slice)) /\ (CheckRefs(slice) = <<>> <=> RefsResolve(slice))
<1> DEFINE cells == Ids(slice, "cell")
           both  == cells \cup Ids(slice, "derived")
           T(kind) == Table(slice, kind)
           D(i) == Unresolved(Idents(slice[i], "derives_from"), both, <<i>>)
           A(i) == Unresolved(Idents(slice[i], "over"), both, <<i>>)
           S(i) == [n \in DOMAIN StepTable(slice[i]) |->
                      Unresolved(Idents(slice[i].blocks[StepTable(slice[i])[n]], "mutates"),
                                 cells, <<i, StepTable(slice[i])[n]>>)]
           E(i) == Unresolved(Idents(slice[i], "mutates"), cells, <<i>>) \o FlattenSeq(S(i))
           F(i) == Unresolved(CellKeys(slice[i], "cells"), cells, <<i>>)
           P(i) == CheckPostFailureRefs(slice, i)
           ds == [n \in DOMAIN T("derived") |-> D(T("derived")[n])]
           as == [n \in DOMAIN T("association") |-> A(T("association")[n])]
           es == [n \in DOMAIN T("event") |-> E(T("event")[n])]
           fs == [n \in DOMAIN T("forbidden_state") |-> F(T("forbidden_state")[n])]
           ps == [n \in DOMAIN T("post_failure") |-> P(T("post_failure")[n])]
<1>1. CheckRefs(slice) =
        FlattenSeq(ds) \o FlattenSeq(as) \o FlattenSeq(es) \o FlattenSeq(fs) \o FlattenSeq(ps)
  BY DEF CheckRefs, ForEach
<1>2. \A i \in FirstsAt(slice, "derived") :
        /\ IsFound(D(i))
        /\ D(i) = <<>> <=> Range(Idents(slice[i], "derives_from")) \subseteq Known(slice)
  BY FirstsPlaces, FieldLists, UnresolvedFinds DEF Known
<1>3. \A i \in FirstsAt(slice, "association") :
        /\ IsFound(A(i))
        /\ A(i) = <<>> <=> Range(Idents(slice[i], "over")) \subseteq Known(slice)
  BY FirstsPlaces, FieldLists, UnresolvedFinds DEF Known
<1>4. \A i \in FirstsAt(slice, "event") :
        IsFound(E(i)) /\ (E(i) = <<>> <=> EventResolves(slice, slice[i]))
  <2> TAKE i \in FirstsAt(slice, "event")
  <2> DEFINE st == S(i)
             found == E(i)
  <2>1. st = [n \in DOMAIN StepTable(slice[i]) |->
                Unresolved(Idents(slice[i].blocks[StepTable(slice[i])[n]], "mutates"),
                           cells, <<i, StepTable(slice[i])[n]>>)]
    OBVIOUS
  <2>2. found = Unresolved(Idents(slice[i], "mutates"), cells, <<i>>) \o FlattenSeq(st)
    OBVIOUS
  <2> HIDE DEF st
  <2> HIDE DEF found
  <2>3. IsFound(found) /\ (found = <<>> <=> EventResolves(slice, slice[i]))
    BY <2>1, <2>2, EventFinds
  <2> QED BY <2>3 DEF found
<1>5. \A i \in FirstsAt(slice, "forbidden_state") :
        /\ IsFound(F(i))
        /\ F(i) = <<>> <=> Range(CellKeys(slice[i], "cells")) \subseteq cells
  BY FirstsPlaces, FieldLists, UnresolvedFinds
<1>6. \A i \in FirstsAt(slice, "post_failure") :
        IsFound(P(i)) /\ (P(i) = <<>> <=> IsRow(slice, slice[i]))
  BY FirstsPlaces, CheckPostFailureRefsFinds
<1> HIDE DEF D, A, E, F, P
<1>7. ASSUME NEW kind, NEW g, NEW ss, ss = [n \in DOMAIN T(kind) |-> g[T(kind)[n]]],
             \A i \in FirstsAt(slice, kind) : IsFound(g[i])
      PROVE  /\ IsFound(FlattenSeq(ss))
             /\ FlattenSeq(ss) = <<>> <=> \A i \in FirstsAt(slice, kind) : g[i] = <<>>
  BY <1>7, TableFinds
<1>8. ASSUME NEW kind, NEW n \in DOMAIN T(kind) PROVE T(kind)[n] \in FirstsAt(slice, kind)
  BY TableIs, Listed
<1>9. /\ IsFound(FlattenSeq(ds))
      /\ FlattenSeq(ds) = <<>> <=> \A i \in FirstsAt(slice, "derived") : D(i) = <<>>
  <2> DEFINE g == [i \in FirstsAt(slice, "derived") |-> D(i)]
  <2>1. ds = [n \in DOMAIN T("derived") |-> g[T("derived")[n]]]
    BY <1>8
  <2>2. \A i \in FirstsAt(slice, "derived") : g[i] = D(i)
    OBVIOUS
  <2> HIDE DEF g, ds
  <2> QED BY <1>2, <1>7, <2>1, <2>2
<1>10. /\ IsFound(FlattenSeq(as))
       /\ FlattenSeq(as) = <<>> <=> \A i \in FirstsAt(slice, "association") : A(i) = <<>>
  <2> DEFINE g == [i \in FirstsAt(slice, "association") |-> A(i)]
  <2>1. as = [n \in DOMAIN T("association") |-> g[T("association")[n]]]
    BY <1>8
  <2>2. \A i \in FirstsAt(slice, "association") : g[i] = A(i)
    OBVIOUS
  <2> HIDE DEF g, as
  <2> QED BY <1>3, <1>7, <2>1, <2>2
<1>11. /\ IsFound(FlattenSeq(es))
       /\ FlattenSeq(es) = <<>> <=> \A i \in FirstsAt(slice, "event") : E(i) = <<>>
  <2> DEFINE g == [i \in FirstsAt(slice, "event") |-> E(i)]
  <2>1. es = [n \in DOMAIN T("event") |-> g[T("event")[n]]]
    BY <1>8
  <2>2. \A i \in FirstsAt(slice, "event") : g[i] = E(i)
    OBVIOUS
  <2> HIDE DEF g, es
  <2> QED BY <1>4, <1>7, <2>1, <2>2
<1>12. /\ IsFound(FlattenSeq(fs))
       /\ FlattenSeq(fs) = <<>> <=> \A i \in FirstsAt(slice, "forbidden_state") : F(i) = <<>>
  <2> DEFINE g == [i \in FirstsAt(slice, "forbidden_state") |-> F(i)]
  <2>1. fs = [n \in DOMAIN T("forbidden_state") |-> g[T("forbidden_state")[n]]]
    BY <1>8
  <2>2. \A i \in FirstsAt(slice, "forbidden_state") : g[i] = F(i)
    OBVIOUS
  <2> HIDE DEF g, fs
  <2> QED BY <1>5, <1>7, <2>1, <2>2
<1>13. /\ IsFound(FlattenSeq(ps))
       /\ FlattenSeq(ps) = <<>> <=> \A i \in FirstsAt(slice, "post_failure") : P(i) = <<>>
  <2> DEFINE g == [i \in FirstsAt(slice, "post_failure") |-> P(i)]
  <2>1. ps = [n \in DOMAIN T("post_failure") |-> g[T("post_failure")[n]]]
    BY <1>8
  <2>2. \A i \in FirstsAt(slice, "post_failure") : g[i] = P(i)
    OBVIOUS
  <2> HIDE DEF g, ps
  <2> QED BY <1>6, <1>7, <2>1, <2>2
<1> HIDE DEF ds, as, es, fs, ps
<1>14. /\ IsFound(CheckRefs(slice))
       /\ CheckRefs(slice) = <<>> <=>
            /\ FlattenSeq(ds) = <<>> /\ FlattenSeq(as) = <<>> /\ FlattenSeq(es) = <<>>
            /\ FlattenSeq(fs) = <<>> /\ FlattenSeq(ps) = <<>>
  <2> DEFINE two   == FlattenSeq(ds) \o FlattenSeq(as)
             three == two \o FlattenSeq(es)
             four  == three \o FlattenSeq(fs)
  <2>1. IsFound(two) /\ (two = <<>> <=> FlattenSeq(ds) = <<>> /\ FlattenSeq(as) = <<>>)
    BY <1>9, <1>10, BothFound
  <2> HIDE DEF two
  <2>2. IsFound(three) /\ (three = <<>> <=> two = <<>> /\ FlattenSeq(es) = <<>>)
    BY <1>11, <2>1, BothFound
  <2> HIDE DEF three
  <2>3. IsFound(four) /\ (four = <<>> <=> three = <<>> /\ FlattenSeq(fs) = <<>>)
    BY <1>12, <2>2, BothFound
  <2>4. CheckRefs(slice) = four \o FlattenSeq(ps)
    BY <1>1 DEF two, three
  <2> HIDE DEF four
  <2>5. /\ IsFound(CheckRefs(slice))
        /\ CheckRefs(slice) = <<>> <=> four = <<>> /\ FlattenSeq(ps) = <<>>
    BY <1>13, <2>3, <2>4, BothFound
  <2> QED BY <2>1, <2>2, <2>3, <2>5
<1> QED BY <1>2, <1>3, <1>4, <1>5, <1>6, <1>9, <1>10, <1>11, <1>12, <1>13, <1>14 DEF RefsResolve

\* The kill test a forbidden state names exists, and names it back if any.
IsKilled(slice, b) ==
  LET ref == IdentOf(b, "kill_test")
  IN  ref \notin {NoName, "TODO"} =>
        /\ ref \in Ids(slice, "kill_test")
        /\ IdentOf(slice[Lookup(slice, ref)], "forbidden") \in {NoName, b.id}

\* The forbidden state a kill test names exists.
IsKilling(slice, b) == IdentOf(b, "forbidden") \in Ids(slice, "forbidden_state") \cup {NoName}

PairsMatch(slice) ==
  /\ \A i \in FirstsAt(slice, "forbidden_state") : IsKilled(slice, slice[i])
  /\ \A i \in FirstsAt(slice, "kill_test") : IsKilling(slice, slice[i])

LEMMA CheckForwardFinds ==
  ASSUME NEW slice, NEW i
  PROVE  /\ IsFound(CheckForward(slice, i))
         /\ CheckForward(slice, i) = <<>> <=> IsKilled(slice, slice[i])
<1> DEFINE ref == IdentOf(slice[i], "kill_test")
           k   == Lookup(slice, ref)
           back == If(IdentOf(slice[k], "forbidden") \notin {NoName, slice[i].id},
                      Diag("E0257", <<k>>, slice[i].id))
           gone == <<Diag("E0256", <<i>>, ref)>>
<1>1. IsFound(back) /\ (back = <<>> <=> IdentOf(slice[k], "forbidden") \in {NoName, slice[i].id})
  BY OneFound, NoneFound DEF If, ShapeCodes
<1>2. IsFound(gone) /\ gone # <<>>
  BY OneFound DEF ShapeCodes
<1>3. CheckForward(slice, i) =
        IF ref \in {NoName, "TODO"} THEN <<>>
        ELSE IF ref \notin Ids(slice, "kill_test") THEN gone ELSE back
  BY DEF CheckForward
<1>4. IsKilled(slice, slice[i]) <=>
        (ref \notin {NoName, "TODO"} =>
           /\ ref \in Ids(slice, "kill_test")
           /\ IdentOf(slice[k], "forbidden") \in {NoName, slice[i].id})
  BY DEF IsKilled
<1> HIDE DEF back, gone, ref, k
<1> QED BY <1>1, <1>2, <1>3, <1>4, NoneFound

LEMMA CheckReverseFinds ==
  ASSUME NEW slice, NEW i
  PROVE  /\ IsFound(CheckReverse(slice, i))
         /\ CheckReverse(slice, i) = <<>> <=> IsKilling(slice, slice[i])
BY OneFound, NoneFound DEF CheckReverse, IsKilling, If, ShapeCodes

LEMMA CheckBipartiteFinds ==
  ASSUME NEW slice, IsSlice(slice)
  PROVE  IsFound(CheckBipartite(slice)) /\ (CheckBipartite(slice) = <<>> <=> PairsMatch(slice))
<1> DEFINE T(kind) == Table(slice, kind)
           g  == [i \in FirstsAt(slice, "forbidden_state") |-> CheckForward(slice, i)]
           h  == [i \in FirstsAt(slice, "kill_test") |-> CheckReverse(slice, i)]
           gs == [n \in DOMAIN T("forbidden_state") |-> CheckForward(slice, T("forbidden_state")[n])]
           hs == [n \in DOMAIN T("kill_test") |-> CheckReverse(slice, T("kill_test")[n])]
<1>1. CheckBipartite(slice) = FlattenSeq(gs) \o FlattenSeq(hs)
  BY DEF CheckBipartite, ForEach
<1>2. ASSUME NEW kind, NEW n \in DOMAIN T(kind) PROVE T(kind)[n] \in FirstsAt(slice, kind)
  BY TableIs, Listed
<1>3. gs = [n \in DOMAIN T("forbidden_state") |-> g[T("forbidden_state")[n]]]
  BY <1>2
<1>4. hs = [n \in DOMAIN T("kill_test") |-> h[T("kill_test")[n]]]
  BY <1>2
<1>5. \A i \in FirstsAt(slice, "forbidden_state") :
        IsFound(g[i]) /\ (g[i] = <<>> <=> IsKilled(slice, slice[i]))
  BY CheckForwardFinds
<1>6. \A i \in FirstsAt(slice, "kill_test") :
        IsFound(h[i]) /\ (h[i] = <<>> <=> IsKilling(slice, slice[i]))
  BY CheckReverseFinds
<1> HIDE DEF g, h, gs, hs
<1>7. /\ IsFound(FlattenSeq(gs))
      /\ FlattenSeq(gs) = <<>> <=> \A i \in FirstsAt(slice, "forbidden_state") : g[i] = <<>>
  BY <1>3, <1>5, TableFinds
<1>8. /\ IsFound(FlattenSeq(hs))
      /\ FlattenSeq(hs) = <<>> <=> \A i \in FirstsAt(slice, "kill_test") : h[i] = <<>>
  BY <1>4, <1>6, TableFinds
<1> QED BY <1>1, <1>5, <1>6, <1>7, <1>8, BothFound DEF PairsMatch

-----------------------------------------------------------------------------
(* Symmetric failure. *)

EventAt(slice) == {i \in DOMAIN slice : slice[i].kind = "event" /\ slice[i].id # NoName}

LEMMA EventsAre ==
  ASSUME NEW slice, IsList(slice)
  PROVE  IsList(EventsAt(slice)) /\ Range(EventsAt(slice)) = EventAt(slice)
<1>1. IsList(Places(slice)) /\ Range(Places(slice)) = DOMAIN slice
  BY PlacesAre
<1> QED BY <1>1, OnlyIs DEF EventsAt, EventAt

LEMMA NamedStepsAre ==
  ASSUME NEW e, IsList(e.blocks)
  PROVE  IsList(Steps(e)) /\ DOMAIN Steps(e) = DOMAIN NamedSteps(e)
<1>1. IsList(NamedSteps(e)) /\ Len(NamedSteps(e)) \in Nat
      /\ DOMAIN NamedSteps(e) = 1..Len(NamedSteps(e))
  BY StepsAre, Listed
<1> DEFINE steps == Steps(e)
<1>2. steps = [n \in 1..Len(NamedSteps(e)) |-> steps[n]] /\ DOMAIN steps = DOMAIN NamedSteps(e)
  BY <1>1 DEF Steps
<1> HIDE DEF steps
<1>3. IsList(steps) /\ DOMAIN steps = DOMAIN NamedSteps(e)
  BY <1>1, <1>2, ListIs
<1> QED BY <1>3 DEF steps

\* The steps of an event whose failure needs a row.
FallibleAt(steps) == {k \in DOMAIN steps : IsTrue(steps[k], "fallible")}
NeedsRow(e) ==
  {k \in FallibleAt(Steps(e)) :
     Observable(Steps(e), k) /\ \E j \in FallibleAt(Steps(e)) : j # k}

LEMMA NeedRowIs ==
  ASSUME NEW e, IsList(e.blocks)
  PROVE  IsList(NeedRow(e)) /\ Range(NeedRow(e)) = NeedsRow(e)
<1> DEFINE steps == Steps(e)
           fallible == FallibleAt(steps)
           seen == {k \in fallible : Observable(steps, k)}
<1>1. IsList(Places(steps)) /\ Range(Places(steps)) = DOMAIN steps
  BY NamedStepsAre, PlacesAre
<1>2. NeedRow(e) = IF \A j, k \in fallible : j = k THEN <<>> ELSE Only(Places(steps), seen)
  BY DEF NeedRow, FallibleAt
<1>3. IsList(Only(Places(steps), seen)) /\ Range(Only(Places(steps), seen)) = seen
  BY <1>1, OnlyIs DEF FallibleAt
<1>4. IsList(<<>>) /\ Range(<<>>) = {}
  BY One
<1>5. CASE \A j, k \in fallible : j = k
  BY <1>2, <1>4, <1>5 DEF NeedsRow
<1>6. CASE ~ \A j, k \in fallible : j = k
  <2>1. seen = NeedsRow(e)
    BY <1>6 DEF NeedsRow
  <2> QED BY <1>2, <1>3, <1>6, <2>1
<1> QED BY <1>5, <1>6

\* The row of a step is there, and shows both states if it must.
HasRow(slice, e, step) ==
  /\ Row(slice, e.id, step) # 0
  /\ Transactional(e) => Distinguishes(slice[Row(slice, e.id, step)])

LEMMA CheckStepFinds ==
  ASSUME NEW slice, NEW e, NEW i, NEW step, NEW found, found = CheckStep(slice, e, i, step)
  PROVE  /\ IsList(found) /\ (found = <<>> <=> HasRow(slice, e, step))
         /\ \A d \in Range(found) : d.code \in {"E0300", "E0301"}
         /\ Row(slice, e.id, step) = 0 =>
              \E d \in Range(found) : d.code = "E0300" /\ d.arg = <<e.id, step>>
         /\ \A d \in Range(found) : d.code = "E0300" =>
              Row(slice, e.id, step) = 0 /\ d.arg = <<e.id, step>>
<1> DEFINE row  == Row(slice, e.id, step)
           gone == Diag("E0300", <<i>>, <<e.id, step>>)
           one  == Diag("E0301", <<row>>, <<e.id, step>>)
           bad  == Transactional(e) /\ ~Distinguishes(slice[row])
<1>1. found = IF row = 0 THEN <<gone>> ELSE IF bad THEN <<one>> ELSE <<>>
  BY DEF CheckStep, If
<1>2. gone.code = "E0300" /\ one.code = "E0301" /\ gone.arg = <<e.id, step>>
  BY DEF Diag
<1>3. HasRow(slice, e, step) <=> row # 0 /\ ~bad
  BY DEF HasRow
<1> HIDE DEF row, gone, one, bad
<1>4. /\ IsList(<<gone>>) /\ Range(<<gone>>) = {gone} /\ IsList(<<one>>) /\ Range(<<one>>) = {one}
      /\ IsList(<<>>) /\ Range(<<>>) = {}
  BY One
<1>5. <<gone>> # <<>> /\ <<one>> # <<>>
  BY <1>4, Listed
<1>6. /\ row = 0 => found = <<gone>>
      /\ row # 0 /\ bad => found = <<one>>
      /\ row # 0 /\ ~bad => found = <<>>
  BY <1>1
<1>7. (row = 0 \/ row # 0) /\ (bad \/ ~bad)
  OBVIOUS
<1>8. CASE row = 0
  <2>1. found = <<gone>> /\ Range(found) = {gone}
    BY <1>4, <1>6, <1>8
  <2> QED BY <1>2, <1>3, <1>4, <1>5, <1>8, <2>1 DEF row
<1>9. CASE row # 0 /\ bad
  <2>1. found = <<one>> /\ Range(found) = {one}
    BY <1>4, <1>6, <1>9
  <2> QED BY <1>2, <1>3, <1>4, <1>5, <1>9, <2>1 DEF row
<1>10. CASE row # 0 /\ ~bad
  <2>1. found = <<>> /\ Range(found) = {}
    BY <1>4, <1>6, <1>10
  <2> QED BY <1>3, <1>4, <1>10, <2>1 DEF row
<1> QED BY <1>7, <1>8, <1>9, <1>10

RowsThere(slice) ==
  \A i \in EventAt(slice) : \A k \in NeedsRow(slice[i]) :
    HasRow(slice, slice[i], Steps(slice[i])[k].id)

\* What the third pass says of step k of the event at i.
StepSaid(slice, i, k) == CheckStep(slice, slice[i], i, Steps(slice[i])[k].id)

LEMMA SymmetricFailureIs ==
  ASSUME NEW slice, IsSlice(slice)
  PROVE  /\ IsList(SymmetricFailure(slice))
         /\ \A d : d \in Range(SymmetricFailure(slice)) <=>
              \E i \in EventAt(slice) : \E k \in NeedsRow(slice[i]) : d \in Range(StepSaid(slice, i, k))
<1> DEFINE events == EventsAt(slice)
           rows(i) == NeedRow(slice[i])
           gs(i) == [n \in DOMAIN rows(i) |-> StepSaid(slice, i, rows(i)[n])]
           F(i) == FlattenSeq(gs(i))
           ss == [n \in DOMAIN events |-> F(events[n])]
<1>1. IsList(events) /\ Range(events) = EventAt(slice)
  BY EventsAre DEF IsSlice
<1>2. SymmetricFailure(slice) = FlattenSeq(ss)
  BY DEF SymmetricFailure, ForEach, StepSaid
<1>3. ASSUME NEW i, NEW k PROVE IsList(StepSaid(slice, i, k))
  BY CheckStepFinds DEF StepSaid
<1>4. ASSUME NEW i \in EventAt(slice)
      PROVE  /\ IsList(F(i))
             /\ \A d : d \in Range(F(i)) <=> \E k \in NeedsRow(slice[i]) : d \in Range(StepSaid(slice, i, k))
  <2> DEFINE st == rows(i)
             g  == gs(i)
  <2>1. IsList(st) /\ Range(st) = NeedsRow(slice[i])
    BY IdOfPlace, NeedRowIs DEF EventAt, IsBlock
  <2>2. g = [n \in DOMAIN st |-> g[n]] /\ \A n \in DOMAIN st : g[n] = StepSaid(slice, i, st[n])
    OBVIOUS
  <2> HIDE DEF st, g
  <2>3. \A n \in DOMAIN st : IsList(g[n])
    BY <1>3, <2>2
  <2>4. /\ IsList(FlattenSeq(g))
        /\ \A d : d \in Range(FlattenSeq(g)) <=> \E n \in DOMAIN st : d \in Range(g[n])
    BY <2>1, <2>2, <2>3, FlatList
  <2>5. \A d : (\E n \in DOMAIN st : d \in Range(g[n])) <=>
                 \E k \in NeedsRow(slice[i]) : d \in Range(StepSaid(slice, i, k))
    BY <2>1, <2>2, Listed
  <2> QED BY <2>4, <2>5 DEF g
<1> HIDE DEF F, events
<1>5. \A n \in DOMAIN events : events[n] \in EventAt(slice)
  BY <1>1, Listed
<1>6. ss = [n \in DOMAIN events |-> ss[n]] /\ \A n \in DOMAIN events : ss[n] = F(events[n])
  OBVIOUS
<1> HIDE DEF ss
<1>7. \A n \in DOMAIN events : IsList(ss[n])
  BY <1>4, <1>5, <1>6
<1>8. /\ IsList(FlattenSeq(ss))
      /\ \A d : d \in Range(FlattenSeq(ss)) <=> \E n \in DOMAIN events : d \in Range(ss[n])
  BY <1>1, <1>6, <1>7, FlatList
<1>9. \A d : (\E n \in DOMAIN events : d \in Range(ss[n])) <=>
               \E i \in EventAt(slice) : d \in Range(F(i))
  BY <1>1, <1>6, Listed
<1> QED BY <1>2, <1>4, <1>8, <1>9

LEMMA SymmetricFailureFinds ==
  ASSUME NEW slice, IsSlice(slice)
  PROVE  /\ SymmetricFailure(slice) = <<>> <=> RowsThere(slice)
         /\ \A d \in Range(SymmetricFailure(slice)) : d.code \in {"E0300", "E0301"}
<1>1. ASSUME NEW i, NEW k
      PROVE  /\ IsList(StepSaid(slice, i, k))
             /\ StepSaid(slice, i, k) = <<>> <=> HasRow(slice, slice[i], Steps(slice[i])[k].id)
             /\ \A d \in Range(StepSaid(slice, i, k)) : d.code \in {"E0300", "E0301"}
  <2> DEFINE found == StepSaid(slice, i, k)
  <2>1. found = CheckStep(slice, slice[i], i, Steps(slice[i])[k].id)
    BY DEF StepSaid
  <2> HIDE DEF found
  <2>2. /\ IsList(found) /\ (found = <<>> <=> HasRow(slice, slice[i], Steps(slice[i])[k].id))
        /\ \A d \in Range(found) : d.code \in {"E0300", "E0301"}
    BY <2>1, CheckStepFinds
  <2> QED BY <2>2 DEF found
<1>2. \A i, k : StepSaid(slice, i, k) = <<>> <=> Range(StepSaid(slice, i, k)) = {}
  BY <1>1, Listed
<1>3. SymmetricFailure(slice) = <<>> <=> Range(SymmetricFailure(slice)) = {}
  BY SymmetricFailureIs, Listed
<1>4. RowsThere(slice) <=>
        \A i \in EventAt(slice) : \A k \in NeedsRow(slice[i]) : Range(StepSaid(slice, i, k)) = {}
  BY <1>1, <1>2 DEF RowsThere
<1>5. Range(SymmetricFailure(slice)) = {} <=>
        \A i \in EventAt(slice) : \A k \in NeedsRow(slice[i]) : Range(StepSaid(slice, i, k)) = {}
  BY SymmetricFailureIs
<1>6. \A d \in Range(SymmetricFailure(slice)) : d.code \in {"E0300", "E0301"}
  BY <1>1, SymmetricFailureIs
<1> QED BY <1>3, <1>4, <1>5, <1>6

-----------------------------------------------------------------------------
(* The depth-first search for a cycle. *)

Colors == {"white", "gray", "black"}
States(D) == [color: [D -> Colors], stack: Seq(D \X Nat), found: Seq(D)]

Feeders(adj, d) == Range(adj[d])

\* Every nonempty part of S has a value none of whose sources is in the part.
CycleFree(adj, S) == \A P \in (SUBSET S) \ {{}} : \E d \in P : Feeders(adj, d) \cap P = {}

Black(s) == {d \in DOMAIN s.color : s.color[d] = "black"}

\* The stack holds the gray values, each once, and is a path of the graph; the
\* sources gone through are finished, but for the one above on the stack.
OnThePath(adj, s) ==
  /\ \A p \in DOMAIN s.stack :
       /\ s.color[s.stack[p][1]] = "gray"
       /\ s.stack[p][2] \in 1..(Len(adj[s.stack[p][1]]) + 1)
  /\ \A p, q \in DOMAIN s.stack : s.stack[p][1] = s.stack[q][1] => p = q
  /\ \A d \in DOMAIN adj : s.color[d] = "gray" => \E p \in DOMAIN s.stack : s.stack[p][1] = d
  /\ \A p \in DOMAIN s.stack : p + 1 \in DOMAIN s.stack =>
       /\ s.stack[p][2] - 1 \in DOMAIN adj[s.stack[p][1]]
       /\ adj[s.stack[p][1]][s.stack[p][2] - 1] = s.stack[p + 1][1]

PassedAreBlack(adj, s) ==
  /\ \A p \in DOMAIN s.stack : \A k \in 1..(s.stack[p][2] - 1) :
       \/ adj[s.stack[p][1]][k] \notin DOMAIN adj \ Black(s)
       \/ p + 1 \in DOMAIN s.stack /\ k = s.stack[p][2] - 1
  /\ \A d \in Black(s) : Feeders(adj, d) \cap DOMAIN adj \subseteq Black(s)

SearchInv(adj, s) ==
  /\ s \in States(DOMAIN adj)
  /\ OnThePath(adj, s)
  /\ s.found = <<>> => PassedAreBlack(adj, s) /\ CycleFree(adj, Black(s))
  /\ s.found # <<>> => ~CycleFree(adj, DOMAIN adj)

LEMMA StateIs ==
  ASSUME NEW D, NEW s \in States(D)
  PROVE  /\ s.color \in [D -> Colors] /\ s.stack \in Seq(D \X Nat) /\ s.found \in Seq(D)
         /\ s = [color |-> s.color, stack |-> s.stack, found |-> s.found]
BY DEF States

LEMMA PairIs ==
  ASSUME NEW A, NEW B, NEW x \in A \X B
  PROVE  x[1] \in A /\ x[2] \in B /\ x = <<x[1], x[2]>>
OBVIOUS

\* What a turn makes of the state, by where the search is.
LEMMA TurnIs ==
  ASSUME NEW adj, \A d \in DOMAIN adj : IsList(adj[d]),
         NEW s \in States(DOMAIN adj), s.stack # <<>>, OnThePath(adj, s)
  PROVE  LET N == Len(s.stack)
             node == s.stack[N][1]
             k == s.stack[N][2]
             next == adj[node][k]
             on == [s EXCEPT !.stack[N] = <<node, k + 1>>]
         IN  /\ N \in Nat \ {0} /\ DOMAIN s.stack = 1..N
             /\ node \in DOMAIN adj /\ k \in 1..(Len(adj[node]) + 1) /\ Len(adj[node]) \in Nat
             /\ k > Len(adj[node]) =>
                  Turn(adj, s) = [s EXCEPT !.color[node] = "black", !.stack = SubSeq(@, 1, N - 1)]
             /\ k <= Len(adj[node]) => next \in Feeders(adj, node)
             /\ k <= Len(adj[node]) /\ next \notin DOMAIN adj => Turn(adj, s) = on
             /\ k <= Len(adj[node]) /\ next \in DOMAIN adj =>
                  /\ s.color[next] = "white" =>
                       Turn(adj, s) = [on EXCEPT !.color[next] = "gray", !.stack = Append(@, <<next, 1>>)]
                  /\ s.color[next] = "gray" => Turn(adj, s) = [on EXCEPT !.found = Append(@, next)]
                  /\ s.color[next] = "black" => Turn(adj, s) = on
<1> DEFINE N == Len(s.stack)
           node == s.stack[N][1]
           k == s.stack[N][2]
           next == adj[node][k]
           on == [s EXCEPT !.stack[N] = <<node, k + 1>>]
<1>1. s.stack \in Seq((DOMAIN adj) \X Nat)
  BY StateIs
<1>2. N \in Nat \ {0} /\ DOMAIN s.stack = 1..N
  BY <1>1, EmptySeq, LenProperties, SMT
<1>3. s.stack[N] \in (DOMAIN adj) \X Nat /\ N \in DOMAIN s.stack
  BY <1>1, <1>2, ElementOfSeq, SMT
<1>4. node \in DOMAIN adj /\ k \in Nat
  BY <1>3, PairIs
<1>5. k \in 1..(Len(adj[node]) + 1) /\ Len(adj[node]) \in Nat /\ DOMAIN adj[node] = 1..Len(adj[node])
  BY <1>3, <1>4, Listed DEF OnThePath
<1>6. k <= Len(adj[node]) => next \in Feeders(adj, node)
  <2>1. k <= Len(adj[node]) => k \in DOMAIN adj[node]
    BY <1>5, SMT
  <2> QED BY <1>4, <2>1, Listed DEF Feeders
<1>7. Last(s.stack) = s.stack[N] /\ Front(s.stack) = SubSeq(s.stack, 1, N - 1)
  BY DEF Last, Front
<1>8. Turn(adj, s) =
        IF k > Len(adj[node]) THEN [s EXCEPT !.color[node] = "black", !.stack = SubSeq(s.stack, 1, N - 1)]
        ELSE IF next \notin DOMAIN adj THEN on
        ELSE IF s.color[next] = "white"
        THEN [on EXCEPT !.color[next] = "gray", !.stack = Append(@, <<next, 1>>)]
        ELSE IF s.color[next] = "gray" THEN [on EXCEPT !.found = Append(@, next)]
        ELSE on
  BY <1>7 DEF Turn
<1>9. (k > Len(adj[node])) <=> ~(k <= Len(adj[node]))
  BY <1>4, <1>5, SMT
<1> HIDE DEF on, next, k, node, N
<1>10. k > Len(adj[node]) =>
         Turn(adj, s) = [s EXCEPT !.color[node] = "black", !.stack = SubSeq(@, 1, N - 1)]
  BY <1>8
<1>11. k <= Len(adj[node]) =>
        /\ next \notin DOMAIN adj => Turn(adj, s) = on
        /\ next \in DOMAIN adj =>
             /\ s.color[next] = "white" =>
                  Turn(adj, s) = [on EXCEPT !.color[next] = "gray", !.stack = Append(@, <<next, 1>>)]
             /\ s.color[next] = "gray" => Turn(adj, s) = [on EXCEPT !.found = Append(@, next)]
             /\ s.color[next] = "black" => Turn(adj, s) = on
  BY <1>8, <1>9
<1> QED BY <1>2, <1>4, <1>5, <1>6, <1>10, <1>11 DEF on, next, k, node, N

\* The pairs of a value and the number of a source, or of the end; and those
\* the search is past.
Pairs(adj) == UNION {{d} \X (1..(Len(adj[d]) + 1)) : d \in DOMAIN adj}
Passed(adj, s) ==
  {x \in Pairs(adj) :
     \/ x[1] \in Black(s)
     \/ \E p \in DOMAIN s.stack : s.stack[p][1] = x[1] /\ x[2] < s.stack[p][2]}

LEMMA PairsAre ==
  ASSUME NEW adj, NEW x
  PROVE  x \in Pairs(adj) <=>
           /\ x = <<x[1], x[2]>> /\ x[1] \in DOMAIN adj
           /\ x[2] \in 1..(Len(adj[x[1]]) + 1)
BY DEF Pairs

\* From s to t the search gets past x, and no value becomes white.
Progress(adj, s, t, x) ==
  /\ x \in Pairs(adj) \ Passed(adj, s)
  /\ Passed(adj, s) \cup {x} \subseteq Passed(adj, t)
  /\ \A d \in DOMAIN adj : s.color[d] # "white" => t.color[d] # "white"

\* A value whose sources are all gone through.
LEMMA FinishKeeps ==
  ASSUME NEW adj, \A d \in DOMAIN adj : IsList(adj[d]),
         NEW s, SearchInv(adj, s), NEW N \in Nat \ {0}, DOMAIN s.stack = 1..N,
         NEW node \in DOMAIN adj, NEW k \in Nat, s.stack[N][1] = node, s.stack[N][2] = k,
         k = Len(adj[node]) + 1,
         NEW t \in States(DOMAIN adj), t.color = [s.color EXCEPT ![node] = "black"],
         DOMAIN t.stack = 1..(N - 1), \A p \in 1..(N - 1) : t.stack[p] = s.stack[p],
         t.found = s.found
  PROVE  SearchInv(adj, t) /\ Progress(adj, s, t, <<node, k>>)
<1> DEFINE D == DOMAIN adj
<1>1. s.color \in [D -> Colors] /\ N \in DOMAIN s.stack
  <2>1. s.color \in [D -> Colors]
    BY StateIs DEF SearchInv
  <2> QED BY <2>1, SMT
<1>2. /\ t.color[node] = "black"
      /\ \A d \in D : d # node => t.color[d] = s.color[d]
      /\ DOMAIN t.color = D
  BY <1>1
<1>3. s.color[node] = "gray"
  BY <1>1 DEF SearchInv, OnThePath
<1>4. Black(t) = Black(s) \cup {node} /\ node \notin Black(s) /\ Black(t) \subseteq D
  BY <1>1, <1>2, <1>3 DEF Black
<1>5. \A p \in 1..(N - 1) : p \in 1..N /\ p # N /\ s.stack[p][1] # node
  <2>1. \A p \in 1..(N - 1) : p \in 1..N /\ p # N
    BY SMT
  <2> QED BY <1>1, <2>1 DEF SearchInv, OnThePath
<1>6. OnThePath(adj, t)
  <2>1. ASSUME NEW p \in DOMAIN t.stack
        PROVE  t.color[t.stack[p][1]] = "gray" /\ t.stack[p][2] \in 1..(Len(adj[t.stack[p][1]]) + 1)
    <3>1. s.color[s.stack[p][1]] = "gray" /\ s.stack[p][2] \in 1..(Len(adj[s.stack[p][1]]) + 1)
      BY <1>5 DEF SearchInv, OnThePath
    <3>2. s.stack[p][1] \in D
      <4>1. s.stack \in Seq((DOMAIN adj) \X Nat)
        BY StateIs DEF SearchInv
      <4>2. s.stack[p] \in (DOMAIN adj) \X Nat
        BY <1>5, <4>1, ElementOfSeq, LenProperties
      <4> QED BY <4>2, PairIs
    <3> QED BY <1>2, <1>5, <3>1, <3>2
  <2>2. ASSUME NEW p \in DOMAIN t.stack, NEW q \in DOMAIN t.stack, t.stack[p][1] = t.stack[q][1]
        PROVE  p = q
    BY <1>5, <2>2 DEF SearchInv, OnThePath
  <2>3. ASSUME NEW d \in D, t.color[d] = "gray" PROVE \E p \in DOMAIN t.stack : t.stack[p][1] = d
    <3>1. d # node /\ s.color[d] = "gray"
      BY <1>2, <2>3
    <3>2. PICK p \in 1..N : s.stack[p][1] = d
      BY <3>1 DEF SearchInv, OnThePath
    <3>3. p \in 1..(N - 1)
      BY <3>1, <3>2, SMT
    <3> QED BY <3>2, <3>3
  <2>4. ASSUME NEW p \in DOMAIN t.stack, p + 1 \in DOMAIN t.stack
        PROVE  /\ t.stack[p][2] - 1 \in DOMAIN adj[t.stack[p][1]]
               /\ adj[t.stack[p][1]][t.stack[p][2] - 1] = t.stack[p + 1][1]
    <3>1. p \in 1..N /\ p + 1 \in 1..N
      BY <1>5, <2>4
    <3>2. /\ s.stack[p][2] - 1 \in DOMAIN adj[s.stack[p][1]]
          /\ adj[s.stack[p][1]][s.stack[p][2] - 1] = s.stack[p + 1][1]
      BY <3>1 DEF SearchInv, OnThePath
    <3>3. t.stack[p] = s.stack[p] /\ t.stack[p + 1] = s.stack[p + 1]
      BY <2>4
    <3> QED BY <3>2, <3>3
  <2> QED BY <2>1, <2>2, <2>3, <2>4 DEF OnThePath
<1>7. ASSUME t.found = <<>> PROVE PassedAreBlack(adj, t) /\ CycleFree(adj, Black(t))
  <2>1. PassedAreBlack(adj, s) /\ CycleFree(adj, Black(s))
    BY <1>7 DEF SearchInv
  <2>2. Feeders(adj, node) \cap D \subseteq Black(s)
    <3>1. N + 1 \notin 1..N /\ DOMAIN adj[node] = 1..(k - 1)
      BY Listed, SMT
    <3>2. \A j \in 1..(k - 1) : adj[node][j] \notin D \ Black(s)
      BY <1>1, <2>1, <3>1 DEF PassedAreBlack
    <3>3. \A x \in Feeders(adj, node) : \E j \in 1..(k - 1) : adj[node][j] = x
      <4>1. IsList(adj[node])
        OBVIOUS
      <4>2. \A x \in Range(adj[node]) : \E j \in DOMAIN adj[node] : adj[node][j] = x
        BY <4>1, Listed
      <4> QED BY <3>1, <4>2 DEF Feeders
    <3> QED BY <3>2, <3>3
  <2>3. \A d \in Black(t) : Feeders(adj, d) \cap D \subseteq Black(t)
    BY <1>4, <2>1, <2>2 DEF PassedAreBlack
  <2>4. ASSUME NEW p \in DOMAIN t.stack, NEW j \in 1..(t.stack[p][2] - 1)
        PROVE  \/ adj[t.stack[p][1]][j] \notin D \ Black(t)
               \/ p + 1 \in DOMAIN t.stack /\ j = t.stack[p][2] - 1
    <3>1. \/ adj[s.stack[p][1]][j] \notin D \ Black(s)
          \/ p + 1 \in 1..N /\ j = s.stack[p][2] - 1
      BY <1>5, <2>1, <2>4 DEF PassedAreBlack
    <3>2. CASE p + 1 = N /\ j = s.stack[p][2] - 1
      <4>1. adj[s.stack[p][1]][j] = node
        BY <1>1, <1>5, <3>2 DEF SearchInv, OnThePath
      <4> QED BY <1>4, <4>1
    <3>3. p + 1 \in 1..N => p + 1 = N \/ p + 1 \in 1..(N - 1)
      BY SMT
    <3> QED BY <1>4, <3>1, <3>2, <3>3
  <2>5. ASSUME NEW P \in (SUBSET Black(t)) \ {{}}
        PROVE  \E d \in P : Feeders(adj, d) \cap P = {}
    <3>1. CASE Feeders(adj, node) \cap P = {} /\ node \in P
      BY <3>1
    <3>2. CASE node \notin P
      BY <1>4, <2>1, <3>2 DEF CycleFree
    <3>3. CASE node \in P /\ Feeders(adj, node) \cap P # {}
      <4> DEFINE Q == P \ {node}
      <4>1. Q # {} /\ Q \subseteq Black(s)
        BY <1>4, <2>2, <3>3
      <4>2. PICK d \in Q : Feeders(adj, d) \cap Q = {}
        BY <2>1, <4>1 DEF CycleFree
      <4>3. node \notin Feeders(adj, d)
        BY <1>4, <2>1, <4>1 DEF PassedAreBlack
      <4> QED BY <4>2, <4>3
    <3> QED BY <3>1, <3>2, <3>3
  <2> QED BY <2>3, <2>4, <2>5 DEF PassedAreBlack, CycleFree
<1>8. SearchInv(adj, t)
  BY <1>6, <1>7 DEF SearchInv
<1>9. Progress(adj, s, t, <<node, k>>)
  <2>1. <<node, k>> \in Pairs(adj)
    <3>1. k \in 1..(Len(adj[node]) + 1)
      BY Listed, SMT
    <3> QED BY <3>1, PairsAre
  <2>2. <<node, k>> \notin Passed(adj, s)
    <3>1. ASSUME NEW p \in 1..N, s.stack[p][1] = node PROVE ~(k < s.stack[p][2])
      <4>1. p = N
        BY <1>1, <3>1 DEF SearchInv, OnThePath
      <4> QED BY <4>1, SMT
    <3> QED BY <1>4, <3>1 DEF Passed
  <2>3. <<node, k>> \in Passed(adj, t)
    BY <1>4, <2>1 DEF Passed
  <2>4. ASSUME NEW x \in Passed(adj, s) PROVE x \in Passed(adj, t)
    <3>1. CASE x[1] \in Black(s)
      BY <1>4, <3>1 DEF Passed
    <3>2. CASE \E p \in 1..N : s.stack[p][1] = x[1] /\ x[2] < s.stack[p][2]
      <4>1. PICK p \in 1..N : s.stack[p][1] = x[1] /\ x[2] < s.stack[p][2]
        BY <3>2
      <4>2. p = N \/ p \in 1..(N - 1)
        BY SMT
      <4> QED BY <1>4, <4>1, <4>2 DEF Passed
    <3> QED BY <3>1, <3>2 DEF Passed
  <2>5. \A d \in D : s.color[d] # "white" => t.color[d] # "white"
    BY <1>2
  <2> QED BY <2>1, <2>2, <2>3, <2>4, <2>5 DEF Progress
<1> QED BY <1>8, <1>9

\* A source that is done with, or that closes a cycle.
LEMMA PassKeeps ==
  ASSUME NEW adj, \A d \in DOMAIN adj : IsList(adj[d]),
         NEW s, SearchInv(adj, s), NEW N \in Nat \ {0}, DOMAIN s.stack = 1..N,
         NEW node \in DOMAIN adj, NEW k \in Nat, s.stack[N][1] = node, s.stack[N][2] = k,
         k \in 1..Len(adj[node]),
         NEW t \in States(DOMAIN adj), t.color = s.color,
         DOMAIN t.stack = 1..N, \A p \in 1..(N - 1) : t.stack[p] = s.stack[p],
         t.stack[N][1] = node, t.stack[N][2] = k + 1,
         \/ t.found = s.found /\ adj[node][k] \notin DOMAIN adj \ Black(s)
         \/ t.found # <<>> /\ adj[node][k] \in DOMAIN adj /\ s.color[adj[node][k]] = "gray"
  PROVE  SearchInv(adj, t) /\ Progress(adj, s, t, <<node, k>>)
<1> DEFINE D == DOMAIN adj
<1>1. s.color \in [D -> Colors] /\ N \in DOMAIN s.stack
  <2>1. s.color \in [D -> Colors]
    BY StateIs DEF SearchInv
  <2> QED BY <2>1, SMT
<1>2. Black(t) = Black(s) /\ Black(s) \subseteq D
  BY <1>1 DEF Black
<1>3. /\ \A p \in 1..N : s.color[s.stack[p][1]] = "gray"
      /\ \A p, q \in 1..N : s.stack[p][1] = s.stack[q][1] => p = q
      /\ s.color[node] = "gray"
  <2>1. /\ \A p \in 1..N : s.color[s.stack[p][1]] = "gray"
        /\ \A p, q \in 1..N : s.stack[p][1] = s.stack[q][1] => p = q
    BY DEF SearchInv, OnThePath
  <2>2. s.color[s.stack[N][1]] = "gray"
    BY <1>1, <2>1
  <2> QED BY <2>1, <2>2
<1>4. \A p \in 1..N : p = N \/ p \in 1..(N - 1)
  BY SMT
<1>5. \A p \in 1..N : t.stack[p][1] = s.stack[p][1]
  BY <1>4
<1>6. \A p \in 1..N : p + 1 \in 1..N => p \in 1..(N - 1) /\ t.stack[p] = s.stack[p]
  <2>1. \A p \in 1..N : p + 1 \in 1..N => p \in 1..(N - 1)
    BY SMT
  <2> QED BY <2>1
<1>7. OnThePath(adj, t)
  <2>1. ASSUME NEW p \in DOMAIN t.stack
        PROVE  t.color[t.stack[p][1]] = "gray" /\ t.stack[p][2] \in 1..(Len(adj[t.stack[p][1]]) + 1)
    <3>1. CASE p = N
      <4>1. k + 1 \in 1..(Len(adj[node]) + 1)
        BY Listed, SMT
      <4> QED BY <1>3, <3>1, <4>1
    <3>2. CASE p \in 1..(N - 1)
      BY <1>5, <3>2 DEF SearchInv, OnThePath
    <3> QED BY <1>4, <3>1, <3>2
  <2>2. ASSUME NEW p \in DOMAIN t.stack, NEW q \in DOMAIN t.stack, t.stack[p][1] = t.stack[q][1]
        PROVE  p = q
    BY <1>5, <2>2 DEF SearchInv, OnThePath
  <2>3. ASSUME NEW d \in D, t.color[d] = "gray" PROVE \E p \in DOMAIN t.stack : t.stack[p][1] = d
    BY <1>5, <2>3 DEF SearchInv, OnThePath
  <2>4. ASSUME NEW p \in DOMAIN t.stack, p + 1 \in DOMAIN t.stack
        PROVE  /\ t.stack[p][2] - 1 \in DOMAIN adj[t.stack[p][1]]
               /\ adj[t.stack[p][1]][t.stack[p][2] - 1] = t.stack[p + 1][1]
    <3>1. /\ s.stack[p][2] - 1 \in DOMAIN adj[s.stack[p][1]]
          /\ adj[s.stack[p][1]][s.stack[p][2] - 1] = s.stack[p + 1][1]
      BY <2>4 DEF SearchInv, OnThePath
    <3> QED BY <1>5, <1>6, <2>4, <3>1
  <2> QED BY <2>1, <2>2, <2>3, <2>4 DEF OnThePath
<1>8. ASSUME t.found = <<>> PROVE PassedAreBlack(adj, t) /\ CycleFree(adj, Black(t))
  <2>1. PassedAreBlack(adj, s) /\ CycleFree(adj, Black(s)) /\ adj[node][k] \notin D \ Black(s)
    BY <1>8 DEF SearchInv
  <2>2. ASSUME NEW p \in DOMAIN t.stack, NEW j \in 1..(t.stack[p][2] - 1)
        PROVE  \/ adj[t.stack[p][1]][j] \notin D \ Black(t)
               \/ p + 1 \in DOMAIN t.stack /\ j = t.stack[p][2] - 1
    <3>1. CASE p = N
      <4>1. j = k \/ j \in 1..(k - 1)
        BY <2>2, <3>1, SMT
      <4>2. N + 1 \notin 1..N
        BY SMT
      <4>3. \A m \in 1..(k - 1) : adj[node][m] \notin D \ Black(s)
        BY <1>1, <2>1, <4>2 DEF PassedAreBlack
      <4> QED BY <1>2, <2>1, <3>1, <4>1, <4>3
    <3>2. CASE p \in 1..(N - 1)
      BY <1>2, <2>1, <2>2, <3>2 DEF PassedAreBlack
    <3> QED BY <1>4, <3>1, <3>2
  <2> QED BY <1>2, <2>1, <2>2 DEF PassedAreBlack, CycleFree
<1>9. ASSUME t.found # <<>> PROVE ~CycleFree(adj, D)
  <2>1. CASE s.found # <<>>
    BY <2>1 DEF SearchInv
  <2>2. CASE s.found = <<>>
    <3>1. adj[node][k] \in D /\ s.color[adj[node][k]] = "gray"
      BY <1>9, <2>2
    <3>2. PICK q \in 1..N : s.stack[q][1] = adj[node][k]
      BY <3>1 DEF SearchInv, OnThePath
    <3> DEFINE P == {s.stack[r][1] : r \in q..N}
    <3>3. q \in q..N /\ N \in q..N /\ \A r \in q..N : r \in 1..N
      BY SMT
    <3>4. \A r \in 1..N : s.stack[r][1] \in D
      <4>1. s.stack \in Seq((DOMAIN adj) \X Nat)
        BY StateIs DEF SearchInv
      <4>2. \A r \in 1..N : s.stack[r] \in (DOMAIN adj) \X Nat
        BY <4>1, ElementOfSeq, LenProperties
      <4> QED BY <4>2, PairIs
    <3>5. P \in (SUBSET D) \ {{}}
      BY <3>3, <3>4
    <3>8. \A r \in q..N : s.stack[r][1] \in P
      OBVIOUS
    <3> HIDE DEF P
    <3>6. ASSUME NEW r \in q..N PROVE Feeders(adj, s.stack[r][1]) \cap P # {}
      <4>1. CASE r = N
        <5>1. IsList(adj[node]) /\ k \in DOMAIN adj[node]
          BY Listed
        <5>2. adj[node][k] \in Feeders(adj, node)
          BY <5>1, Listed DEF Feeders
        <5>3. adj[node][k] \in P
          BY <3>2, <3>3, <3>8
        <5> QED BY <4>1, <5>2, <5>3
      <4>2. CASE r # N
        <5>1. r \in 1..N /\ r + 1 \in 1..N /\ r + 1 \in q..N
          BY <4>2, SMT
        <5>2. /\ s.stack[r][2] - 1 \in DOMAIN adj[s.stack[r][1]]
              /\ adj[s.stack[r][1]][s.stack[r][2] - 1] = s.stack[r + 1][1]
          BY <5>1 DEF SearchInv, OnThePath
        <5>3. s.stack[r + 1][1] \in Feeders(adj, s.stack[r][1])
          BY <3>4, <5>1, <5>2, Listed DEF Feeders
        <5>4. s.stack[r + 1][1] \in P
          BY <3>8, <5>1
        <5> QED BY <5>3, <5>4
      <4> QED BY <4>1, <4>2
    <3>7. \A d \in P : Feeders(adj, d) \cap P # {}
      BY <3>6 DEF P
    <3> QED BY <3>5, <3>7 DEF CycleFree
  <2> QED BY <2>1, <2>2
<1>10. SearchInv(adj, t)
  BY <1>7, <1>8, <1>9 DEF SearchInv
<1>11. Progress(adj, s, t, <<node, k>>)
  <2>1. <<node, k>> \in Pairs(adj)
    <3>1. k \in 1..(Len(adj[node]) + 1)
      BY Listed, SMT
    <3> QED BY <3>1, PairsAre
  <2>2. <<node, k>> \notin Passed(adj, s)
    <3>1. ASSUME NEW p \in 1..N, s.stack[p][1] = node PROVE ~(k < s.stack[p][2])
      <4>1. p = N
        BY <1>1, <1>3, <3>1, Zenon
      <4> QED BY <4>1, SMT
    <3> QED BY <1>3, <3>1 DEF Passed, Black
  <2>3. <<node, k>> \in Passed(adj, t)
    <3>1. N \in 1..N /\ k < k + 1
      BY SMT
    <3> QED BY <2>1, <3>1 DEF Passed
  <2>4. ASSUME NEW x \in Passed(adj, s) PROVE x \in Passed(adj, t)
    <3>1. CASE x[1] \in Black(s)
      BY <1>2, <3>1 DEF Passed
    <3>2. CASE \E p \in 1..N : s.stack[p][1] = x[1] /\ x[2] < s.stack[p][2]
      <4>1. PICK p \in 1..N : s.stack[p][1] = x[1] /\ x[2] < s.stack[p][2]
        BY <3>2
      <4>2. t.stack[p][1] = x[1] /\ x[2] < t.stack[p][2]
        <5>1. CASE p = N
          <6>1. x[2] \in Nat
            BY PairsAre, SMT DEF Passed
          <6> QED BY <4>1, <5>1, <6>1, SMT
        <5>2. CASE p \in 1..(N - 1)
          BY <4>1, <5>2
        <5> QED BY <1>4, <5>1, <5>2
      <4> QED BY <4>2 DEF Passed
    <3> QED BY <3>1, <3>2 DEF Passed
  <2>5. \A d \in D : s.color[d] # "white" => t.color[d] # "white"
    OBVIOUS
  <2> QED BY <2>1, <2>2, <2>3, <2>4, <2>5 DEF Progress
<1> QED BY <1>10, <1>11

\* A source that is entered.
LEMMA EnterKeeps ==
  ASSUME NEW adj, \A d \in DOMAIN adj : IsList(adj[d]),
         NEW s, SearchInv(adj, s), NEW N \in Nat \ {0}, DOMAIN s.stack = 1..N,
         NEW node \in DOMAIN adj, NEW k \in Nat, s.stack[N][1] = node, s.stack[N][2] = k,
         k \in 1..Len(adj[node]),
         NEW next \in DOMAIN adj, next = adj[node][k], s.color[next] = "white",
         NEW t \in States(DOMAIN adj), t.color = [s.color EXCEPT ![next] = "gray"],
         DOMAIN t.stack = 1..(N + 1), \A p \in 1..(N - 1) : t.stack[p] = s.stack[p],
         t.stack[N][1] = node, t.stack[N][2] = k + 1,
         t.stack[N + 1][1] = next, t.stack[N + 1][2] = 1,
         t.found = s.found
  PROVE  SearchInv(adj, t) /\ Progress(adj, s, t, <<node, k>>)
<1> DEFINE D == DOMAIN adj
<1>1. s.color \in [D -> Colors] /\ N \in DOMAIN s.stack
  <2>1. s.color \in [D -> Colors]
    BY StateIs DEF SearchInv
  <2> QED BY <2>1, SMT
<1>2. /\ t.color[next] = "gray"
      /\ \A d \in D : d # next => t.color[d] = s.color[d]
      /\ DOMAIN t.color = D
  BY <1>1
<1>3. /\ \A p \in 1..N : s.color[s.stack[p][1]] = "gray"
      /\ \A p, q \in 1..N : s.stack[p][1] = s.stack[q][1] => p = q
      /\ s.color[node] = "gray"
  <2>1. /\ \A p \in 1..N : s.color[s.stack[p][1]] = "gray"
        /\ \A p, q \in 1..N : s.stack[p][1] = s.stack[q][1] => p = q
    BY DEF SearchInv, OnThePath
  <2>2. s.color[s.stack[N][1]] = "gray"
    BY <1>1, <2>1
  <2> QED BY <2>1, <2>2
<1>4. Black(t) = Black(s) /\ Black(s) \subseteq D /\ next \notin Black(s)
  BY <1>1, <1>2 DEF Black
<1>5. /\ \A p \in 1..(N + 1) : p = N + 1 \/ p = N \/ p \in 1..(N - 1)
      /\ \A p \in 1..N : p = N \/ p \in 1..(N - 1)
      /\ \A p \in 1..(N - 1) : p \in 1..N
      /\ N \in 1..(N + 1) /\ N + 1 \in 1..(N + 1)
      /\ \A p \in 1..N : p + 1 \in 1..(N + 1) /\ p \in 1..(N + 1)
      /\ \A p \in 1..(N - 1) : p + 1 \in 1..N
      /\ N + 2 \notin 1..(N + 1)
  BY SMT
<1>6. \A p \in 1..N : t.stack[p][1] = s.stack[p][1] /\ s.color[s.stack[p][1]] = "gray"
  BY <1>5 DEF SearchInv, OnThePath
<1>7. \A r \in 1..N : s.stack[r][1] \in D
  <2>1. s.stack \in Seq((DOMAIN adj) \X Nat)
    BY StateIs DEF SearchInv
  <2>2. \A r \in 1..N : s.stack[r] \in (DOMAIN adj) \X Nat
    BY <2>1, ElementOfSeq, LenProperties
  <2> QED BY <2>2, PairIs
<1>8. \A p \in 1..N : t.stack[p][1] # next
  BY <1>6
<1>9. OnThePath(adj, t)
  <2>1. ASSUME NEW p \in DOMAIN t.stack
        PROVE  t.color[t.stack[p][1]] = "gray" /\ t.stack[p][2] \in 1..(Len(adj[t.stack[p][1]]) + 1)
    <3>1. CASE p = N
      <4>1. k + 1 \in 1..(Len(adj[node]) + 1)
        BY Listed, SMT
      <4>2. node # next
        BY <1>3
      <4> QED BY <1>2, <1>3, <3>1, <4>1, <4>2
    <3>2. CASE p \in 1..(N - 1)
      <4>1. s.stack[p][2] \in 1..(Len(adj[s.stack[p][1]]) + 1)
        BY <1>5, <3>2 DEF SearchInv, OnThePath
      <4> QED BY <1>2, <1>5, <1>6, <1>7, <1>8, <3>2, <4>1
    <3>3. CASE p = N + 1
      <4>1. IsList(adj[next])
        OBVIOUS
      <4>2. 1 \in 1..(Len(adj[next]) + 1)
        BY <4>1, Listed, SMT
      <4> QED BY <1>2, <3>3, <4>2
    <3> QED BY <1>5, <3>1, <3>2, <3>3
  <2>2. ASSUME NEW p \in DOMAIN t.stack, NEW q \in DOMAIN t.stack, t.stack[p][1] = t.stack[q][1]
        PROVE  p = q
    <3>1. CASE p \in 1..N /\ q \in 1..N
      BY <1>6, <2>2, <3>1 DEF SearchInv, OnThePath
    <3>2. \A r \in 1..(N + 1) : r = N + 1 \/ r \in 1..N
      BY SMT
    <3> QED BY <1>8, <2>2, <3>1, <3>2
  <2>3. ASSUME NEW d \in D, t.color[d] = "gray" PROVE \E p \in DOMAIN t.stack : t.stack[p][1] = d
    <3>1. CASE d = next
      BY <1>5, <3>1
    <3>2. CASE d # next
      <4>1. PICK p \in 1..N : s.stack[p][1] = d
        BY <1>2, <2>3, <3>2 DEF SearchInv, OnThePath
      <4> QED BY <1>5, <1>6, <4>1
    <3> QED BY <3>1, <3>2
  <2>4. ASSUME NEW p \in DOMAIN t.stack, p + 1 \in DOMAIN t.stack
        PROVE  /\ t.stack[p][2] - 1 \in DOMAIN adj[t.stack[p][1]]
               /\ adj[t.stack[p][1]][t.stack[p][2] - 1] = t.stack[p + 1][1]
    <3>1. CASE p = N
      <4>1. (k + 1) - 1 = k /\ k \in DOMAIN adj[node]
        BY Listed, SMT
      <4> QED BY <3>1, <4>1
    <3>2. CASE p \in 1..(N - 1)
      <4>1. /\ s.stack[p][2] - 1 \in DOMAIN adj[s.stack[p][1]]
            /\ adj[s.stack[p][1]][s.stack[p][2] - 1] = s.stack[p + 1][1]
        BY <1>5, <3>2 DEF SearchInv, OnThePath
      <4>2. t.stack[p + 1][1] = s.stack[p + 1][1]
        BY <1>5, <1>6, <3>2
      <4> QED BY <3>2, <4>1, <4>2
    <3>3. p # N + 1
      BY <2>4, SMT
    <3> QED BY <1>5, <3>1, <3>2, <3>3
  <2> QED BY <2>1, <2>2, <2>3, <2>4 DEF OnThePath
<1>10. ASSUME t.found = <<>> PROVE PassedAreBlack(adj, t) /\ CycleFree(adj, Black(t))
  <2>1. PassedAreBlack(adj, s) /\ CycleFree(adj, Black(s))
    BY <1>10 DEF SearchInv
  <2>2. ASSUME NEW p \in DOMAIN t.stack, NEW j \in 1..(t.stack[p][2] - 1)
        PROVE  \/ adj[t.stack[p][1]][j] \notin D \ Black(t)
               \/ p + 1 \in DOMAIN t.stack /\ j = t.stack[p][2] - 1
    <3>1. CASE p = N
      <4>1. j = k \/ j \in 1..(k - 1)
        BY <2>2, <3>1, SMT
      <4>2. (k + 1) - 1 = k /\ N + 1 \notin 1..N
        BY SMT
      <4>3. \A m \in 1..(k - 1) : adj[node][m] \notin D \ Black(s)
        BY <1>1, <2>1, <4>2 DEF PassedAreBlack
      <4> QED BY <1>4, <1>5, <3>1, <4>1, <4>2, <4>3
    <3>2. CASE p \in 1..(N - 1)
      BY <1>4, <1>5, <2>1, <2>2, <3>2 DEF PassedAreBlack
    <3>3. CASE p = N + 1
      BY <2>2, <3>3, SMT
    <3> QED BY <1>5, <3>1, <3>2, <3>3
  <2> QED BY <1>4, <2>1, <2>2 DEF PassedAreBlack, CycleFree
<1>11. SearchInv(adj, t)
  BY <1>9, <1>10 DEF SearchInv
<1>12. Progress(adj, s, t, <<node, k>>)
  <2>1. <<node, k>> \in Pairs(adj)
    <3>1. k \in 1..(Len(adj[node]) + 1)
      BY Listed, SMT
    <3> QED BY <3>1, PairsAre
  <2>2. <<node, k>> \notin Passed(adj, s)
    <3>1. ASSUME NEW p \in 1..N, s.stack[p][1] = node PROVE ~(k < s.stack[p][2])
      <4>1. N \in 1..N /\ s.stack[p][1] = s.stack[N][1]
        BY <1>1, <3>1
      <4>2. \A q \in 1..N : s.stack[p][1] = s.stack[q][1] => p = q
        BY <1>3
      <4>3. p = N
        BY <4>1, <4>2
      <4> QED BY <4>3, SMT
    <3> QED BY <1>3, <3>1 DEF Passed, Black
  <2>3. <<node, k>> \in Passed(adj, t)
    <3>1. k < k + 1
      BY SMT
    <3> QED BY <1>5, <2>1, <3>1 DEF Passed
  <2>4. ASSUME NEW x \in Passed(adj, s) PROVE x \in Passed(adj, t)
    <3>1. CASE x[1] \in Black(s)
      BY <1>4, <3>1 DEF Passed
    <3>2. CASE \E p \in 1..N : s.stack[p][1] = x[1] /\ x[2] < s.stack[p][2]
      <4>1. PICK p \in 1..N : s.stack[p][1] = x[1] /\ x[2] < s.stack[p][2]
        BY <3>2
      <4>2. t.stack[p][1] = x[1] /\ x[2] < t.stack[p][2]
        <5>1. CASE p = N
          <6>1. x[2] \in Nat
            BY PairsAre, SMT DEF Passed
          <6> QED BY <4>1, <5>1, <6>1, SMT
        <5>2. CASE p \in 1..(N - 1)
          BY <4>1, <5>2
        <5> QED BY <1>5, <5>1, <5>2
      <4> QED BY <1>5, <4>2 DEF Passed
    <3> QED BY <3>1, <3>2 DEF Passed
  <2>5. \A d \in D : s.color[d] # "white" => t.color[d] # "white"
    BY <1>2
  <2> QED BY <2>1, <2>2, <2>3, <2>4, <2>5 DEF Progress
<1> QED BY <1>11, <1>12

LEMMA StackIs ==
  ASSUME NEW s, s = [color |-> s.color, stack |-> s.stack, found |-> s.found], NEW n, NEW x
  PROVE  [s EXCEPT !.stack[n] = x] =
           [color |-> s.color, stack |-> [s.stack EXCEPT ![n] = x], found |-> s.found]
<1>1. \A a, b, c : s = [color |-> a, stack |-> b, found |-> c] =>
        [s EXCEPT !.stack[n] = x] = [color |-> a, stack |-> [b EXCEPT ![n] = x], found |-> c]
  OBVIOUS
<1>2. s = [color |-> s.color, stack |-> s.stack, found |-> s.found] =>
        [s EXCEPT !.stack[n] = x] =
          [color |-> s.color, stack |-> [s.stack EXCEPT ![n] = x], found |-> s.found]
  BY <1>1, Zenon
<1> QED BY <1>2

LEMMA TurnKeeps ==
  ASSUME NEW adj, \A d \in DOMAIN adj : IsList(adj[d]), NEW s, SearchInv(adj, s),
         s.stack # <<>>
  PROVE  SearchInv(adj, Turn(adj, s)) /\ \E x : Progress(adj, s, Turn(adj, s), x)
<1> DEFINE D == DOMAIN adj
           N == Len(s.stack)
           node == s.stack[N][1]
           k == s.stack[N][2]
           next == adj[node][k]
           on == [s EXCEPT !.stack[N] = <<node, k + 1>>]
           t == Turn(adj, s)
<1>1. s \in States(D) /\ OnThePath(adj, s)
  BY DEF SearchInv
<1>2. /\ s.color \in [D -> Colors] /\ s.stack \in Seq((DOMAIN adj) \X Nat) /\ s.found \in Seq(D)
      /\ s = [color |-> s.color, stack |-> s.stack, found |-> s.found]
  BY <1>1, StateIs
<1>3. /\ N \in Nat \ {0} /\ DOMAIN s.stack = 1..N
      /\ node \in D /\ k \in 1..(Len(adj[node]) + 1) /\ Len(adj[node]) \in Nat
      /\ k > Len(adj[node]) =>
           t = [s EXCEPT !.color[node] = "black", !.stack = SubSeq(@, 1, N - 1)]
      /\ k <= Len(adj[node]) /\ next \notin D => t = on
      /\ k <= Len(adj[node]) /\ next \in D =>
           /\ s.color[next] = "white" =>
                t = [on EXCEPT !.color[next] = "gray", !.stack = Append(@, <<next, 1>>)]
           /\ s.color[next] = "gray" => t = [on EXCEPT !.found = Append(@, next)]
           /\ s.color[next] = "black" => t = on
  BY <1>1, TurnIs
<1> HIDE DEF t, next, k, node, N
<1>3a. N \in Nat \ {0} /\ DOMAIN s.stack = 1..N /\ node \in DOMAIN adj
  BY <1>3
<1>4. N \in 1..N /\ k \in Nat /\ k + 1 \in Nat /\ 1 \in Nat
  BY <1>3, SMT
<1>5. s.stack[N][1] = node /\ s.stack[N][2] = k
  BY DEF node, k
<1> DEFINE up == [s.stack EXCEPT ![N] = <<node, k + 1>>]
<1>6. /\ up \in Seq((DOMAIN adj) \X Nat) /\ DOMAIN up = 1..N /\ Len(up) = N
      /\ up[N] = <<node, k + 1>>
      /\ \A p \in 1..(N - 1) : up[p] = s.stack[p]
  <2>1. up \in Seq((DOMAIN adj) \X Nat) /\ Len(up) = Len(s.stack)
    BY <1>2, <1>3, <1>4, ExceptSeq
  <2>2. DOMAIN up = 1..N /\ up[N] = <<node, k + 1>>
    BY <1>3, <1>4
  <2>3. \A p \in 1..(N - 1) : p \in 1..N /\ p # N
    BY <1>3, SMT
  <2> QED BY <1>3, <2>1, <2>2, <2>3 DEF N
<1> HIDE DEF up
<1>7. on = [color |-> s.color, stack |-> up, found |-> s.found]
  <2>1. [s EXCEPT !.stack[N] = <<node, k + 1>>] =
          [color |-> s.color, stack |-> [s.stack EXCEPT ![N] = <<node, k + 1>>], found |-> s.found]
    <3>1. s = [color |-> s.color, stack |-> s.stack, found |-> s.found]
      BY <1>2
    <3>2. \A n, x : [s EXCEPT !.stack[n] = x] =
                      [color |-> s.color, stack |-> [s.stack EXCEPT ![n] = x], found |-> s.found]
      BY <3>1, StackIs, Zenon
    <3> QED BY <3>2
  <2> QED BY <2>1 DEF on, up
<1> HIDE DEF on
<1>8. CASE k > Len(adj[node])
  <2> DEFINE front == SubSeq(s.stack, 1, N - 1)
  <2>1. /\ front \in Seq((DOMAIN adj) \X Nat) /\ DOMAIN front = 1..(N - 1)
        /\ \A p \in 1..(N - 1) : front[p] = s.stack[p]
    <3>1. 1 \in Int /\ N - 1 \in Int /\ \A i \in 1..(N - 1) : i \in 1..N
      BY <1>3, SMT
    <3>2. \A i \in 1..(N - 1) : s.stack[i] \in (DOMAIN adj) \X Nat
      BY <1>2, <1>3, <3>1, ElementOfSeq DEF N
    <3>3. /\ front \in Seq((DOMAIN adj) \X Nat)
          /\ Len(front) = IF 1 <= N - 1 THEN (N - 1) - 1 + 1 ELSE 0
          /\ \A i \in 1..((N - 1) - 1 + 1) : front[i] = s.stack[1 + i - 1]
      BY <3>1, <3>2, SubSeqProperties
    <3> HIDE DEF front
    <3>4. Len(front) = N - 1 /\ (N - 1) - 1 + 1 = N - 1 /\ \A i \in 1..(N - 1) : 1 + i - 1 = i
      BY <1>3, <3>3, SMT
    <3> QED BY <3>3, <3>4, LenProperties
  <2> HIDE DEF front
  <2>2. t = [color |-> [s.color EXCEPT ![node] = "black"], stack |-> front, found |-> s.found]
    BY <1>2, <1>3, <1>8 DEF front
  <2>3. [s.color EXCEPT ![node] = "black"] \in [D -> Colors]
    BY <1>2 DEF Colors
  <2>4. /\ t \in States(D) /\ t.color = [s.color EXCEPT ![node] = "black"]
        /\ t.stack = front /\ t.found = s.found
    BY <1>2, <2>1, <2>2, <2>3 DEF States
  <2>5. k = Len(adj[node]) + 1
    BY <1>3, <1>8, SMT
  <2>9. SearchInv(adj, t) /\ Progress(adj, s, t, <<node, k>>)
    <3>1. DOMAIN t.stack = 1..(N - 1) /\ \A p \in 1..(N - 1) : t.stack[p] = s.stack[p]
      BY <2>1, <2>4
    <3> QED BY <1>3a, <1>4, <1>5, <2>4, <2>5, <3>1, FinishKeeps, Zenon
  <2> QED BY <2>9 DEF t
<1>9. CASE k <= Len(adj[node]) /\ (next \notin D \/ s.color[next] = "black")
  <2>1. t = [color |-> s.color, stack |-> up, found |-> s.found]
    BY <1>3, <1>7, <1>9
  <2>2. t \in States(D) /\ t.color = s.color /\ t.stack = up /\ t.found = s.found
    BY <1>2, <1>6, <2>1 DEF States
  <2>3. k \in 1..Len(adj[node])
    BY <1>3, <1>9, SMT
  <2>4. adj[node][k] \notin D \ Black(s)
    BY <1>2, <1>9 DEF Black, next
  <2>5. t.stack[N][1] = node /\ t.stack[N][2] = k + 1
    BY <1>6, <2>2
  <2>9. SearchInv(adj, t) /\ Progress(adj, s, t, <<node, k>>)
    <3>1. DOMAIN t.stack = 1..N /\ \A p \in 1..(N - 1) : t.stack[p] = s.stack[p]
      BY <1>6, <2>2
    <3> QED BY <1>3a, <1>4, <1>5, <2>2, <2>3, <2>4, <2>5, <3>1, PassKeeps, Zenon
  <2> QED BY <2>9 DEF t
<1>10. CASE k <= Len(adj[node]) /\ next \in D /\ s.color[next] = "gray"
  <2> DEFINE more == Append(s.found, next)
  <2>1. more \in Seq(D) /\ more # <<>>
    BY <1>2, <1>10, AppendProperties
  <2>2. t = [color |-> s.color, stack |-> up, found |-> more]
    BY <1>3, <1>7, <1>10
  <2> HIDE DEF more
  <2>3. t \in States(D) /\ t.color = s.color /\ t.stack = up /\ t.found # <<>>
    BY <1>2, <1>6, <2>1, <2>2 DEF States
  <2>4. k \in 1..Len(adj[node])
    BY <1>3, <1>10, SMT
  <2>5. t.stack[N][1] = node /\ t.stack[N][2] = k + 1
    BY <1>6, <2>3
  <2>6. adj[node][k] \in D /\ s.color[adj[node][k]] = "gray"
    BY <1>10 DEF next
  <2>9. SearchInv(adj, t) /\ Progress(adj, s, t, <<node, k>>)
    <3>1. DOMAIN t.stack = 1..N /\ \A p \in 1..(N - 1) : t.stack[p] = s.stack[p]
      BY <1>6, <2>3
    <3> QED BY <1>3a, <1>4, <1>5, <2>3, <2>4, <2>5, <2>6, <3>1, PassKeeps, Zenon
  <2> QED BY <2>9 DEF t
<1>11. CASE k <= Len(adj[node]) /\ next \in D /\ s.color[next] = "white"
  <2> DEFINE push == Append(up, <<next, 1>>)
  <2>1. /\ push \in Seq((DOMAIN adj) \X Nat) /\ DOMAIN push = 1..(N + 1)
        /\ push[N + 1] = <<next, 1>> /\ \A p \in 1..N : push[p] = up[p]
    <3>1. <<next, 1>> \in (DOMAIN adj) \X Nat
      BY <1>4, <1>11
    <3>2. /\ push \in Seq((DOMAIN adj) \X Nat) /\ Len(push) = Len(up) + 1
          /\ push[Len(up) + 1] = <<next, 1>>
          /\ \A p \in 1..Len(up) : push[p] = up[p]
      BY <1>6, <3>1, AppendProperties
    <3> HIDE DEF push
    <3> QED BY <1>6, <3>2, LenProperties
  <2>2. t = [color |-> [s.color EXCEPT ![next] = "gray"], stack |-> push, found |-> s.found]
    BY <1>3, <1>7, <1>11
  <2> HIDE DEF push
  <2>3. [s.color EXCEPT ![next] = "gray"] \in [D -> Colors]
    BY <1>2 DEF Colors
  <2>4. /\ t \in States(D) /\ t.color = [s.color EXCEPT ![next] = "gray"]
        /\ t.stack = push /\ t.found = s.found
    BY <1>2, <2>1, <2>2, <2>3 DEF States
  <2>5. k \in 1..Len(adj[node])
    BY <1>3, <1>11, SMT
  <2>6. \A p \in 1..(N - 1) : p \in 1..N
    BY <1>3, SMT
  <2>7. /\ t.stack[N][1] = node /\ t.stack[N][2] = k + 1
        /\ t.stack[N + 1][1] = next /\ t.stack[N + 1][2] = 1
        /\ \A p \in 1..(N - 1) : t.stack[p] = s.stack[p]
    BY <1>4, <1>6, <2>1, <2>4, <2>6
  <2>8. next = adj[node][k]
    BY DEF next
  <2>9. SearchInv(adj, t) /\ Progress(adj, s, t, <<node, k>>)
    <3>1. DOMAIN t.stack = 1..(N + 1)
      BY <2>1, <2>4
    <3>2. next \in DOMAIN adj /\ s.color[next] = "white"
      BY <1>11
    <3> QED BY <1>3a, <1>4, <1>5, <2>4, <2>5, <2>7, <2>8, <3>1, <3>2, EnterKeeps, SMTT(60)
  <2> QED BY <2>9 DEF t
<1>12. next \in D => s.color[next] \in {"white", "gray", "black"}
  BY <1>2 DEF Colors
<1>13. k > Len(adj[node]) \/ k <= Len(adj[node])
  BY <1>3, SMT
<1> QED BY <1>8, <1>9, <1>10, <1>11, <1>12, <1>13

LEMMA PairsAreFinite ==
  ASSUME NEW adj, \A d \in DOMAIN adj : IsList(adj[d]), IsFiniteSet(DOMAIN adj)
  PROVE  IsFiniteSet(Pairs(adj))
<1> DEFINE D == DOMAIN adj
           of == [d \in D |-> {d} \X (1..(Len(adj[d]) + 1))]
           parts == {of[d] : d \in D}
<1>1. \A d \in D : IsFiniteSet(of[d])
  <2> TAKE d \in D
  <2>1. Len(adj[d]) + 1 \in Int /\ 1 \in Int
    BY Listed, SMT
  <2>2. IsFiniteSet(1..(Len(adj[d]) + 1)) /\ IsFiniteSet({d})
    BY <2>1, FS_Interval, FS_Singleton
  <2>3. IsFiniteSet({d} \X (1..(Len(adj[d]) + 1)))
    BY <2>2, FS_Product
  <2> QED BY <2>3
<1>2. IsFiniteSet(parts)
  <2>1. of \in Surjection(D, parts)
    BY DEF Surjection
  <2> QED BY <2>1, FS_Surjection
<1>3. IsFiniteSet(UNION parts)
  BY <1>1, <1>2, FS_UNION
<1>4. Pairs(adj) = UNION parts
  BY DEF Pairs
<1> QED BY <1>3, <1>4

\* The search from a state with a value on the stack empties the stack.
LEMMA SearchIs ==
  ASSUME NEW adj, \A d \in DOMAIN adj : IsList(adj[d]), IsFiniteSet(DOMAIN adj),
         NEW s, SearchInv(adj, s)
  PROVE  /\ SearchInv(adj, Search(adj, s)) /\ Search(adj, s).stack = <<>>
         /\ \A d \in DOMAIN adj : s.color[d] # "white" => Search(adj, s).color[d] # "white"
<1> DEFINE most == Cardinality(Pairs(adj))
           Turned(turn) == turn = [n \in 0..most |-> IF n = 0 THEN s ELSE Turn(adj, turn[n - 1])]
           turns == CHOOSE turn : Turned(turn)
           S == {x \in States(DOMAIN adj) : SearchInv(adj, x)}
<1>1. most \in Nat /\ IsFiniteSet(Pairs(adj))
  BY PairsAreFinite, FS_CardinalityType
<1>2. Search(adj, s) = turns[most]
  BY DEF Search, Pairs
<1>3. \A x \in S : Turn(adj, x) \in S
  <2> TAKE x \in S
  <2>1. CASE x.stack = <<>>
    BY <2>1 DEF Turn
  <2>2. CASE x.stack # <<>>
    <3>1. SearchInv(adj, Turn(adj, x))
      BY <2>2, TurnKeeps
    <3> QED BY <3>1 DEF SearchInv
  <2> QED BY <2>1, <2>2
<1>4. s \in S
  BY DEF SearchInv
<1> HIDE DEF most, S
<1>5. \E turn : Turned(turn)
  <2> DEFINE f == [y \in (1..most) \X S |-> Turn(adj, y[2])]
  <2>1. f \in [(1..most) \X S -> S]
    BY <1>3, PairIs
  <2>2. \A n \in 1..most : \A x \in S : f[<<n, x>>] = Turn(adj, x)
    OBVIOUS
  <2> HIDE DEF f
  <2>3. PICK g \in [0..most -> S] : g[0] = s /\ \A n \in 1..most : g[n] = f[<<n, g[n - 1]>>]
    <3>1. PICK g \in [0..most -> S] : Looped(most, f, s, g)
      BY <1>1, <1>4, <2>1, Loops
    <3> QED BY <3>1 DEF Looped
  <2>4. \A n \in 0..most : n = 0 \/ (n # 0 /\ n \in 1..most /\ n - 1 \in 0..most)
    BY <1>1, SMT
  <2>5. \A n \in 0..most : g[n] = IF n = 0 THEN s ELSE Turn(adj, g[n - 1])
    BY <2>2, <2>3, <2>4, Zenon
  <2>6. g = [n \in 0..most |-> IF n = 0 THEN s ELSE Turn(adj, g[n - 1])]
    BY <2>3, <2>5
  <2> QED BY <2>6
<1>6. Turned(turns)
  BY <1>5, Zenon
<1>7. turns[0] = s /\ \A n \in 1..most : turns[n] = Turn(adj, turns[n - 1])
  <2>1. \A n \in 0..most : turns[n] = IF n = 0 THEN s ELSE Turn(adj, turns[n - 1])
    BY <1>6, Zenon
  <2>2. 0 \in 0..most /\ \A n \in 1..most : n \in 0..most /\ n # 0
    BY <1>1, SMT
  <2> QED BY <2>1, <2>2, Zenon
<1> HIDE DEF turns, Turned
<1> DEFINE NonWhite(x) == \A d \in DOMAIN adj : s.color[d] # "white" => x.color[d] # "white"
           Past(x) == Cardinality(Passed(adj, x))
           T == {n \in Nat : n <= most =>
                   /\ SearchInv(adj, turns[n]) /\ NonWhite(turns[n])
                   /\ turns[n].stack = <<>> \/ n <= Past(turns[n])}
<1>8. \A x : /\ IsFiniteSet(Passed(adj, x)) /\ Past(x) \in Nat /\ Past(x) <= most
             /\ Past(x) = most => Passed(adj, x) = Pairs(adj)
  <2> TAKE x
  <2>1. Passed(adj, x) \in SUBSET Pairs(adj)
    BY DEF Passed
  <2>2. /\ IsFiniteSet(Passed(adj, x)) /\ Cardinality(Passed(adj, x)) <= Cardinality(Pairs(adj))
        /\ Cardinality(Pairs(adj)) = Cardinality(Passed(adj, x)) => Pairs(adj) = Passed(adj, x)
    BY <1>1, <2>1, FS_Subset
  <2> QED BY <2>2, FS_CardinalityType DEF most
<1>9. \A n \in Nat : n \in T
  <2>1. 0 \in T
    <3>1. 0 <= Past(s)
      BY <1>8, SMT
    <3> QED BY <1>7, <3>1
  <2>2. ASSUME NEW n \in Nat, n \in T PROVE n + 1 \in T
    <3> SUFFICES ASSUME n + 1 <= most
                 PROVE  /\ SearchInv(adj, turns[n + 1]) /\ NonWhite(turns[n + 1])
                        /\ turns[n + 1].stack = <<>> \/ n + 1 <= Past(turns[n + 1])
      BY SMT
    <3> DEFINE x == turns[n]
               y == turns[n + 1]
    <3>1. SearchInv(adj, x) /\ NonWhite(x) /\ (x.stack = <<>> \/ n <= Past(x))
      BY <1>1, <2>2, SMT
    <3>2. y = Turn(adj, x)
      <4>1. n + 1 \in 1..most /\ (n + 1) - 1 = n
        BY <1>1, SMT
      <4> QED BY <1>7, <4>1, Zenon
    <3> HIDE DEF x, y, Past
    <3>3. CASE x.stack = <<>>
      <4>1. y = x
        BY <3>2, <3>3 DEF Turn
      <4> QED BY <3>1, <3>3, <4>1 DEF x, y
    <3>4. CASE x.stack # <<>>
      <4>1. SearchInv(adj, y) /\ \E p : Progress(adj, x, y, p)
        BY <3>1, <3>2, <3>4, TurnKeeps
      <4>2. PICK p : Progress(adj, x, y, p)
        BY <4>1
      <4>3. p \notin Passed(adj, x) /\ Passed(adj, x) \cup {p} \in SUBSET Passed(adj, y)
        BY <4>2 DEF Progress
      <4>4. Cardinality(Passed(adj, x) \cup {p}) = Past(x) + 1
        BY <1>8, <4>3, FS_AddElement DEF Past
      <4>5. Past(x) + 1 <= Past(y)
        BY <1>8, <4>3, <4>4, FS_Subset DEF Past
      <4>6. n + 1 <= Past(y)
        <5>1. Past(x) \in Nat /\ Past(y) \in Nat
          BY <1>8 DEF Past
        <5> QED BY <3>1, <3>4, <4>5, <5>1, SMT
      <4>7. NonWhite(y)
        BY <3>1, <4>2 DEF Progress
      <4> QED BY <4>1, <4>6, <4>7 DEF x, y
    <3> QED BY <3>3, <3>4
  <2> HIDE DEF T
  <2> QED BY <2>1, <2>2, Inductive
<1>10. /\ SearchInv(adj, turns[most]) /\ NonWhite(turns[most])
       /\ turns[most].stack = <<>> \/ most <= Past(turns[most])
  BY <1>1, <1>9, SMT
<1>11. turns[most].stack = <<>>
  <2> SUFFICES ASSUME turns[most].stack # <<>> PROVE FALSE
    OBVIOUS
  <2>1. Past(turns[most]) = most
    BY <1>1, <1>8, <1>10, SMT
  <2>2. \E p : Progress(adj, turns[most], Turn(adj, turns[most]), p)
    BY <1>10, TurnKeeps
  <2> QED BY <1>8, <2>1, <2>2 DEF Progress
<1> QED BY <1>2, <1>10, <1>11

\* What the search from d makes of a state between two searches.
SearchedFrom(adj, s, d) ==
  IF s.color[d] # "white" THEN s
  ELSE Search(adj, [s EXCEPT !.color[d] = "gray", !.stack = <<<<d, 1>>>>])

Between(adj) == {s \in States(DOMAIN adj) : SearchInv(adj, s) /\ s.stack = <<>>}

LEMMA EnteredIs ==
  ASSUME NEW D, NEW s \in States(D), NEW d, NEW x, NEW t,
         t = [s EXCEPT !.color[d] = "gray", !.stack = x]
  PROVE  t = [color |-> [s.color EXCEPT ![d] = "gray"], stack |-> x, found |-> s.found]
<1>1. s = [color |-> s.color, stack |-> s.stack, found |-> s.found]
  BY StateIs
<1> QED BY <1>1

LEMMA SearchedFromIs ==
  ASSUME NEW adj, \A d \in DOMAIN adj : IsList(adj[d]), IsFiniteSet(DOMAIN adj),
         NEW s \in Between(adj), NEW d \in DOMAIN adj
  PROVE  /\ SearchedFrom(adj, s, d) \in Between(adj)
         /\ SearchedFrom(adj, s, d).color[d] # "white"
         /\ \A x \in DOMAIN adj : s.color[x] # "white" => SearchedFrom(adj, s, d).color[x] # "white"
<1> DEFINE D == DOMAIN adj
           from == [s EXCEPT !.color[d] = "gray", !.stack = <<<<d, 1>>>>]
<1>1. /\ s.color \in [D -> Colors] /\ s.found \in Seq(D)
      /\ s = [color |-> s.color, stack |-> s.stack, found |-> s.found]
  BY StateIs DEF Between
<1>2. SearchInv(adj, s) /\ s.stack = <<>>
  BY DEF Between
<1>3. \A x \in D : s.color[x] # "gray"
  <2>1. DOMAIN s.stack = {}
    BY <1>2
  <2> QED BY <1>2, <2>1 DEF SearchInv, OnThePath
<1>4. CASE s.color[d] # "white"
  <2>1. SearchedFrom(adj, s, d) = s
    BY <1>4 DEF SearchedFrom
  <2> QED BY <1>4, <2>1
<1>5. CASE s.color[d] = "white"
  <2>1. /\ from.color = [s.color EXCEPT ![d] = "gray"] /\ from.stack = <<<<d, 1>>>>
        /\ from.found = s.found
        /\ from = [color |-> from.color, stack |-> from.stack, found |-> from.found]
    <3>1. s \in States(D)
      BY DEF Between
    <3>3. from = [color |-> [s.color EXCEPT ![d] = "gray"], stack |-> <<<<d, 1>>>>, found |-> s.found]
      BY <3>1, EnteredIs
    <3> HIDE DEF from
    <3> QED BY <3>3
  <2>2. /\ from.color \in [D -> Colors] /\ from.color[d] = "gray"
        /\ \A x \in D : x # d => from.color[x] = s.color[x]
    BY <1>1, <2>1 DEF Colors
  <2>3. /\ from.stack \in Seq((DOMAIN adj) \X Nat) /\ DOMAIN from.stack = {1}
        /\ from.stack[1][1] = d /\ from.stack[1][2] = 1
    <3>1. <<d, 1>> \in (DOMAIN adj) \X Nat
      OBVIOUS
    <3> DEFINE p == <<d, 1>>
    <3>2. p[1] = d /\ p[2] = 1
      OBVIOUS
    <3> HIDE DEF p
    <3>3. <<p>> \in Seq((DOMAIN adj) \X Nat) /\ DOMAIN <<p>> = {1} /\ <<p>>[1] = p
      BY <3>1, SMT DEF p
    <3> QED BY <2>1, <3>2, <3>3 DEF p
  <2> HIDE DEF from
  <2>4. from \in States(D)
    BY <1>1, <2>1, <2>2, <2>3 DEF States
  <2>5. Black(from) = Black(s)
    BY <1>1, <1>5, <2>2 DEF Black
  <2>6. OnThePath(adj, from)
    <3>1. 1 \in 1..(Len(adj[d]) + 1)
      <4>1. IsList(adj[d])
        OBVIOUS
      <4> QED BY <4>1, Listed, SMT
    <3>2. \A x \in D : from.color[x] = "gray" => x = d
      BY <1>3, <2>2
    <3>3. 1 + 1 \notin {1}
      BY SMT
    <3> QED BY <2>2, <2>3, <3>1, <3>2, <3>3, Zenon DEF OnThePath
  <2>7. PassedAreBlack(adj, s) => PassedAreBlack(adj, from)
    <3>1. 1..(1 - 1) = {}
      BY SMT
    <3> QED BY <2>3, <2>5, <3>1 DEF PassedAreBlack
  <2>8. SearchInv(adj, from)
    BY <1>2, <2>1, <2>4, <2>5, <2>6, <2>7 DEF SearchInv
  <2>9. SearchedFrom(adj, s, d) = Search(adj, from)
    BY <1>5 DEF SearchedFrom, from
  <2>10. /\ SearchInv(adj, Search(adj, from)) /\ Search(adj, from).stack = <<>>
         /\ \A x \in D : from.color[x] # "white" => Search(adj, from).color[x] # "white"
    BY <2>8, SearchIs
  <2>11. \A x \in D : s.color[x] # "white" => from.color[x] # "white"
    BY <2>2
  <2> QED BY <2>2, <2>9, <2>10, <2>11 DEF Between, SearchInv
<1> QED BY <1>4, <1>5

\* The search from each value finds something if and only if there is a cycle.
LEMMA SearchedIs ==
  ASSUME NEW adj, \A d \in DOMAIN adj : IsList(adj[d]), IsFiniteSet(DOMAIN adj),
         NEW ids, IsList(ids), Range(ids) = DOMAIN adj
  PROVE  /\ Searched(adj, ids).found \in Seq(DOMAIN adj)
         /\ Searched(adj, ids).found = <<>> <=> CycleFree(adj, DOMAIN adj)
<1> DEFINE D == DOMAIN adj
           n == Len(ids)
           start == [color |-> [d \in D |-> "white"], stack |-> <<>>, found |-> <<>>]
           From(s, d) == SearchedFrom(adj, s, d)
           Run(past) == past = [i \in 0..n |-> IF i = 0 THEN start ELSE From(past[i - 1], ids[i])]
           run == CHOOSE past : Run(past)
           S == Between(adj)
<1>1. n \in Nat /\ DOMAIN ids = 1..n /\ (\A i \in 1..n : ids[i] \in D)
      /\ \A d \in D : \E i \in 1..n : ids[i] = d
  BY Listed
<1>2. Searched(adj, ids) = run[n]
  BY DEF Searched, SearchedFrom
<1>3. start \in S
  <2>1. /\ start.color = [d \in D |-> "white"] /\ start.stack = <<>> /\ start.found = <<>>
        /\ DOMAIN start.color = D /\ (\A d \in D : start.color[d] = "white")
        /\ DOMAIN start.stack = {}
    OBVIOUS
  <2>2. start \in States(D)
    BY DEF States, Colors
  <2> HIDE DEF start
  <2>3. Black(start) = {}
    BY <2>1 DEF Black
  <2>4. OnThePath(adj, start) /\ PassedAreBlack(adj, start)
    BY <2>1, <2>3 DEF OnThePath, PassedAreBlack
  <2>5. CycleFree(adj, {})
    BY DEF CycleFree
  <2> QED BY <2>1, <2>2, <2>3, <2>4, <2>5 DEF Between, SearchInv
<1>4. \A s \in S, d \in D :
        /\ From(s, d) \in S /\ From(s, d).color[d] # "white"
        /\ \A x \in D : s.color[x] # "white" => From(s, d).color[x] # "white"
  BY SearchedFromIs
<1> HIDE DEF n, start, S, From
<1>5. \E past : Run(past)
  <2> DEFINE f == [y \in (1..n) \X S |-> From(y[2], ids[y[1]])]
  <2>1. f \in [(1..n) \X S -> S]
    BY <1>1, <1>4, PairIs
  <2>2. \A i \in 1..n : \A x \in S : f[<<i, x>>] = From(x, ids[i])
    OBVIOUS
  <2> HIDE DEF f
  <2>3. PICK g \in [0..n -> S] : g[0] = start /\ \A i \in 1..n : g[i] = f[<<i, g[i - 1]>>]
    <3>1. PICK g \in [0..n -> S] : Looped(n, f, start, g)
      BY <1>1, <1>3, <2>1, Loops
    <3> QED BY <3>1 DEF Looped
  <2>4. \A i \in 0..n : i = 0 \/ (i # 0 /\ i \in 1..n /\ i - 1 \in 0..n)
    BY <1>1, SMT
  <2>5. \A i \in 0..n : g[i] = IF i = 0 THEN start ELSE From(g[i - 1], ids[i])
    BY <2>2, <2>3, <2>4, Zenon
  <2>6. g = [i \in 0..n |-> IF i = 0 THEN start ELSE From(g[i - 1], ids[i])]
    BY <2>3, <2>5
  <2> QED BY <2>6
<1>6. Run(run)
  BY <1>5, Zenon
<1>7. run[0] = start /\ \A i \in 1..n : run[i] = From(run[i - 1], ids[i])
  <2>1. \A i \in 0..n : run[i] = IF i = 0 THEN start ELSE From(run[i - 1], ids[i])
    BY <1>6, Zenon
  <2>2. 0 \in 0..n /\ \A i \in 1..n : i \in 0..n /\ i # 0
    BY <1>1, SMT
  <2> QED BY <2>1, <2>2, Zenon
<1> HIDE DEF run, Run
<1> DEFINE T == {i \in Nat : i <= n =>
                   run[i] \in S /\ \A m \in 1..i : run[i].color[ids[m]] # "white"}
<1>8. \A i \in Nat : i \in T
  <2>1. 0 \in T
    <3>1. \A m \in 1..0 : FALSE
      BY SMT
    <3> QED BY <1>3, <1>7, <3>1
  <2>2. ASSUME NEW i \in Nat, i \in T PROVE i + 1 \in T
    <3> SUFFICES ASSUME i + 1 <= n
                 PROVE  run[i + 1] \in S /\ \A m \in 1..(i + 1) : run[i + 1].color[ids[m]] # "white"
      BY SMT
    <3>1. /\ i + 1 \in 1..n /\ (i + 1) - 1 = i /\ i <= n
          /\ \A m \in 1..(i + 1) : m = i + 1 \/ (m \in 1..i /\ m \in 1..n)
      BY <1>1, SMT
    <3>2. run[i] \in S /\ \A m \in 1..i : run[i].color[ids[m]] # "white"
      BY <2>2, <3>1
    <3>3. run[i + 1] = From(run[i], ids[i + 1])
      BY <1>7, <3>1, Zenon
    <3>4. ids[i + 1] \in D
      BY <1>1, <3>1
    <3>5. /\ run[i + 1] \in S /\ run[i + 1].color[ids[i + 1]] # "white"
          /\ \A x \in D : run[i].color[x] # "white" => run[i + 1].color[x] # "white"
      BY <1>4, <3>2, <3>3, <3>4
    <3>6. \A m \in 1..i : ids[m] \in D
      BY <1>1, <3>1
    <3> QED BY <3>1, <3>2, <3>5, <3>6
  <2> HIDE DEF T
  <2> QED BY <2>1, <2>2, Inductive
<1>9. run[n] \in S /\ \A m \in 1..n : run[n].color[ids[m]] # "white"
  <2>1. n <= n
    BY <1>1, SMT
  <2> QED BY <1>1, <1>8, <2>1
<1> DEFINE r == run[n]
<1> HIDE DEF r
<1>10. r \in States(D) /\ SearchInv(adj, r) /\ r.stack = <<>> /\ \A d \in D : r.color[d] # "white"
  <2>1. \A d \in D : r.color[d] # "white"
    BY <1>1, <1>9 DEF r
  <2> QED BY <1>9, <2>1 DEF Between, S, r
<1>11. Black(r) = D
  <2>1. r.color \in [D -> Colors]
    BY <1>10, StateIs
  <2>2. DOMAIN r.stack = {}
    BY <1>10
  <2>3. \A d \in D : r.color[d] # "gray"
    BY <1>10, <2>2 DEF SearchInv, OnThePath
  <2> QED BY <1>10, <2>1, <2>3 DEF Black, Colors
<1>12. r.found \in Seq(D)
  BY <1>10, StateIs
<1>13. r.found = <<>> <=> CycleFree(adj, D)
  BY <1>10, <1>11 DEF SearchInv
<1> QED BY <1>2, <1>12, <1>13 DEF r

LEMMA RangeIsFinite ==
  ASSUME NEW s, IsList(s)
  PROVE  IsFiniteSet(Range(s))
<1>1. DOMAIN s = 1..Len(s) /\ Len(s) \in Nat
  BY Listed
<1>2. s = [i \in 1..Len(s) |-> s[i]]
  BY <1>1 DEF IsList
<1>3. s \in Surjection(1..Len(s), Range(s))
  <2>1. s \in [1..Len(s) -> Range(s)] /\ \A x \in Range(s) : \E i \in 1..Len(s) : s[i] = x
    BY <1>1, <1>2, Listed
  <2> QED BY <2>1 DEF Surjection
<1>4. IsFiniteSet(1..Len(s))
  BY <1>1, FS_Interval, SMT
<1> QED BY <1>3, <1>4, FS_Surjection

\* The values the derived values come from form no cycle.
NoCycle(slice) == CycleFree(Adjacency(slice), Ids(slice, "derived"))

LEMMA LookupIs ==
  ASSUME NEW slice, IsSlice(slice), NEW kind, NEW id \in Ids(slice, kind)
  PROVE  /\ Lookup(slice, id) \in NamedAt(slice) /\ slice[Lookup(slice, id)].id = id
         /\ ~Prior(slice, Lookup(slice, id))
<1>1. PICK i \in FirstsAt(slice, kind) : slice[i].id = id
  BY TableIs DEF Ids
<1>2. Range(Named(slice)) = NamedAt(slice)
  BY SlotsAre DEF IsSlice
<1>3. i \in NamedAt(slice) /\ ~Prior(slice, i)
  BY DEF FirstsAt
<1>4. \E j \in Range(Named(slice)) : slice[j].id = id /\ ~Prior(slice, j)
  BY <1>1, <1>2, <1>3
<1> QED BY <1>2, <1>4 DEF Lookup

LEMMA CheckDerivationCyclesFinds ==
  ASSUME NEW slice, IsSlice(slice)
  PROVE  /\ IsFound(CheckDerivationCycles(slice))
         /\ CheckDerivationCycles(slice) = <<>> <=> NoCycle(slice)
<1> DEFINE table == Table(slice, "derived")
           D     == Ids(slice, "derived")
           adj   == Adjacency(slice)
           ids   == [n \in DOMAIN table |-> slice[table[n]].id]
           found == Searched(adj, ids).found
           F(d)  == <<Diag("E0258", <<Lookup(slice, d)>>, d)>>
           ss    == [n \in DOMAIN found |-> F(found[n])]
<1>1. IsList(table) /\ Range(table) = FirstsAt(slice, "derived")
  BY TableIs
<1>2. DOMAIN adj = D /\ \A d \in D : IsList(adj[d])
  <2>1. DOMAIN adj = D /\ \A d \in D : adj[d] = Idents(slice[Lookup(slice, d)], "derives_from")
    BY DEF Adjacency
  <2>2. \A d \in D : IsList(Idents(slice[Lookup(slice, d)], "derives_from"))
    <3> TAKE d \in D
    <3>1. Lookup(slice, d) \in DOMAIN slice
      BY LookupIs DEF NamedAt, SlotAt
    <3> QED BY <3>1, IdOfPlace, FieldLists
  <2> QED BY <2>1, <2>2
<1>3. IsList(ids) /\ Range(ids) = D
  <2>1. Len(table) \in Nat /\ DOMAIN table = 1..Len(table)
    BY <1>1, Listed
  <2>2. ids = [n \in 1..Len(table) |-> ids[n]]
    BY <2>1
  <2>3. IsList(ids)
    <3> HIDE DEF ids
    <3> QED BY <2>1, <2>2, ListIs
  <2>4. Range(ids) = {slice[table[n]].id : n \in DOMAIN table}
    BY DEF Range
  <2>5. D = {slice[table[n]].id : n \in DOMAIN table}
    BY <1>1, Listed DEF Ids
  <2> QED BY <2>3, <2>4, <2>5
<1>4. IsFiniteSet(D)
  BY <1>3, RangeIsFinite
<1>5. CheckDerivationCycles(slice) = FlattenSeq(ss)
  BY DEF CheckDerivationCycles, ForEach
<1>6. \A d : IsFound(F(d)) /\ F(d) # <<>>
  BY OneFound DEF ShapeCodes
<1> HIDE DEF F, ids, adj, D
<1>7. found \in Seq(D) /\ (found = <<>> <=> CycleFree(adj, D))
  BY <1>2, <1>3, <1>4, SearchedIs
<1> HIDE DEF found
<1>8. IsList(found)
  BY <1>7, ListOf
<1>9. /\ IsFound(FlattenSeq(ss))
      /\ FlattenSeq(ss) = <<>> <=> \A n \in DOMAIN found : ss[n] = <<>>
  BY <1>6, <1>8, EachFound
<1>10. FlattenSeq(ss) = <<>> <=> found = <<>>
  BY <1>6, <1>8, <1>9, Listed
<1> QED BY <1>5, <1>7, <1>9, <1>10 DEF NoCycle, adj, D

IsCoherent(slice) ==
  OneOfEach(slice) /\ RefsResolve(slice) /\ PairsMatch(slice) /\ NoCycle(slice)

LEMMA CoherenceFinds ==
  ASSUME NEW slice, IsSlice(slice)
  PROVE  IsFound(Coherence(slice)) /\ (Coherence(slice) = <<>> <=> IsCoherent(slice))
<1> DEFINE two   == Duplicates(slice) \o CheckRefs(slice)
           three == two \o CheckBipartite(slice)
           four  == three \o CheckDerivationCycles(slice)
<1>1. IsFound(two) /\ (two = <<>> <=> OneOfEach(slice) /\ RefsResolve(slice))
  BY DuplicatesFinds, CheckRefsFinds, BothFound
<1>2. Coherence(slice) = four
  BY DEF Coherence
<1> HIDE DEF two
<1>3. IsFound(three) /\ (three = <<>> <=> two = <<>> /\ PairsMatch(slice))
  BY <1>1, CheckBipartiteFinds, BothFound
<1> HIDE DEF three
<1>4. IsFound(four) /\ (four = <<>> <=> three = <<>> /\ NoCycle(slice))
  BY <1>3, CheckDerivationCyclesFinds, BothFound
<1> QED BY <1>1, <1>2, <1>3, <1>4 DEF IsCoherent

(* What the passes say, one behind the other: the codes of the first two   *)
(* tell their diagnostics from those of the third.                         *)
LEMMA AnalyzeIs ==
  ASSUME NEW slice, IsSlice(slice)
  PROVE  /\ IsList(Analyze(slice))
         /\ Analyze(slice) = <<>> <=>
              Structural(slice) = <<>> /\ Coherence(slice) = <<>> /\ SymmetricFailure(slice) = <<>>
         /\ \A d : d \in Range(SymmetricFailure(slice)) => d \in Range(Analyze(slice))
         /\ \A d \in Range(Analyze(slice)) :
              d.code \in ShapeCodes \/ d \in Range(SymmetricFailure(slice))
<1> DEFINE two == Structural(slice) \o Coherence(slice)
<1>1. IsFound(two) /\ (two = <<>> <=> Structural(slice) = <<>> /\ Coherence(slice) = <<>>)
  BY StructuralFinds, CoherenceFinds, BothFound
<1>2. Analyze(slice) = two \o SymmetricFailure(slice)
  BY DEF Analyze
<1> HIDE DEF two
<1>3. IsList(SymmetricFailure(slice)) /\ IsList(two) /\ \A d \in Range(two) : d.code \in ShapeCodes
  BY <1>1, SymmetricFailureIs DEF IsFound
<1>4. /\ IsList(Analyze(slice))
      /\ Range(Analyze(slice)) = Range(two) \cup Range(SymmetricFailure(slice))
  BY <1>2, <1>3, Joins
<1>5. Analyze(slice) = <<>> <=> two = <<>> /\ SymmetricFailure(slice) = <<>>
  BY <1>3, <1>4, Listed
<1> QED BY <1>1, <1>3, <1>4, <1>5

\* The third pass misses the row of step k of the event at i.
StepName(slice, i, k)    == <<slice[i].id, Steps(slice[i])[k].id>>
RowIsMissing(slice, i, k) == Row(slice, slice[i].id, Steps(slice[i])[k].id) = 0

(* The rows that E0300 misses, step by step.                               *)
LEMMA MissingRows ==
  ASSUME NEW slice, IsSlice(slice), NEW x
  PROVE  (\E d \in Range(Analyze(slice)) : d.code = "E0300" /\ d.arg = x) <=>
           \E i \in EventAt(slice) : \E k \in NeedsRow(slice[i]) :
             RowIsMissing(slice, i, k) /\ x = StepName(slice, i, k)
<1> DEFINE Missing(i, k) == RowIsMissing(slice, i, k)
           Pair(i, k)    == StepName(slice, i, k)
<1>1. ASSUME NEW i, NEW k
      PROVE  /\ Missing(i, k) => \E d \in Range(StepSaid(slice, i, k)) : d.code = "E0300" /\ d.arg = Pair(i, k)
             /\ \A d \in Range(StepSaid(slice, i, k)) :
                  d.code = "E0300" => Missing(i, k) /\ d.arg = Pair(i, k)
  <2> DEFINE found == StepSaid(slice, i, k)
  <2>1. found = CheckStep(slice, slice[i], i, Steps(slice[i])[k].id)
    BY DEF StepSaid
  <2> HIDE DEF found
  <2>2. /\ Missing(i, k) => \E d \in Range(found) : d.code = "E0300" /\ d.arg = Pair(i, k)
        /\ \A d \in Range(found) : d.code = "E0300" => Missing(i, k) /\ d.arg = Pair(i, k)
    BY <2>1, CheckStepFinds DEF RowIsMissing, StepName
  <2> QED BY <2>2 DEF found
<1> HIDE DEF Missing, Pair
<1>2. "E0300" \notin ShapeCodes
  BY DEF ShapeCodes
<1>3. \A d : d.code = "E0300" => (d \in Range(Analyze(slice)) <=> d \in Range(SymmetricFailure(slice)))
  BY <1>2, AnalyzeIs
<1>4. ASSUME NEW d \in Range(Analyze(slice)), d.code = "E0300", d.arg = x
      PROVE  \E i \in EventAt(slice) : \E k \in NeedsRow(slice[i]) : Missing(i, k) /\ x = Pair(i, k)
  <2>1. PICK i \in EventAt(slice) : \E k \in NeedsRow(slice[i]) : d \in Range(StepSaid(slice, i, k))
    BY <1>3, <1>4, SymmetricFailureIs
  <2>2. PICK k \in NeedsRow(slice[i]) : d \in Range(StepSaid(slice, i, k))
    BY <2>1
  <2>3. Missing(i, k) /\ x = Pair(i, k)
    BY <1>1, <1>4, <2>2
  <2> QED BY <2>3
<1>5. ASSUME NEW i \in EventAt(slice), NEW k \in NeedsRow(slice[i]), Missing(i, k), x = Pair(i, k)
      PROVE  \E d \in Range(Analyze(slice)) : d.code = "E0300" /\ d.arg = x
  <2>1. PICK d \in Range(StepSaid(slice, i, k)) : d.code = "E0300" /\ d.arg = Pair(i, k)
    BY <1>1, <1>5
  <2>2. d \in Range(SymmetricFailure(slice))
    BY <2>1, SymmetricFailureIs
  <2> QED BY <1>3, <1>5, <2>1, <2>2
<1> QED BY <1>4, <1>5 DEF Missing, Pair

(* The depth-first search over derives_from reports E0258 exactly if some  *)
(* derived values come from one another in a circle: what its colours, its *)
(* explicit stack and its starting over from each white value add up to,   *)
(* for a graph of any size, with sources that are no derived values.       *)
THEOREM CyclesAreFound ==
  ASSUME NEW slice, IsSlice(slice)
  PROVE  CheckDerivationCycles(slice) # <<>> <=>
           \E P \in (SUBSET Ids(slice, "derived")) \ {{}} :
             \A d \in P : Range(Adjacency(slice)[d]) \cap P # {}
<1>1. CheckDerivationCycles(slice) = <<>> <=> NoCycle(slice)
  BY CheckDerivationCyclesFinds
<1> QED BY <1>1 DEF NoCycle, CycleFree, Feeders

(* The three passes say nothing of a slice exactly if it is complete, each *)
(* id is given once, every reference leads where it must, the pairs of     *)
(* forbidden states and kill tests match, nothing derives from itself and  *)
(* each step whose failure can be seen has its row; and whatever they say  *)
(* has an analysis code, never one of a parse error.                       *)
THEOREM AnalyzeFinds ==
  ASSUME NEW slice, IsSlice(slice)
  PROVE  /\ IsList(Analyze(slice)) /\ \A d \in Range(Analyze(slice)) : d.code \in PassCodes
         /\ Analyze(slice) = <<>> <=>
              /\ slice # <<>> /\ \A i \in SlotAt(slice) : IsComplete(slice[i])
              /\ IsCoherent(slice)
              /\ RowsThere(slice)
<1>1. /\ IsList(Analyze(slice))
      /\ Analyze(slice) = <<>> <=>
           Structural(slice) = <<>> /\ Coherence(slice) = <<>> /\ SymmetricFailure(slice) = <<>>
  BY AnalyzeIs
<1>2. \A d \in Range(Analyze(slice)) : d.code \in PassCodes
  BY AnalyzeIs, SymmetricFailureFinds DEF PassCodes
<1> QED BY <1>1, <1>2, StructuralFinds, CoherenceFinds, SymmetricFailureFinds

=============================================================================
