------------------------ MODULE RevisionChain_proof ------------------------
(***************************************************************************)
(* RevisionChain for every set of projections, every alphabet and every    *)
(* bound: its invariants, and that synthesis only appends.                 *)
(*                                                                         *)
(* ChainInv is inductive.  Besides the types it says that a chain nobody   *)
(* wrote in by hand has no errors under the name it started with, and that *)
(* an answer "appended" or "no_op" stands over a clean chain.  Three facts *)
(* about the ops carry it: an op that does not apply ends the replay for   *)
(* good (HoleStays), no op changes the name of the slice (ApplyKeeps), and *)
(* the diff writes only ops the parser knows (DiffKnown).  From the first  *)
(* two follows ReplaySteps: a replay that gets through has gone through    *)
(* the declared result of every entry.                                     *)
(***************************************************************************)
EXTENDS RevisionChain, Listing_proof

-----------------------------------------------------------------------------
(* Replay. *)

States(p, ops, n, state) ==
  state = [k \in 0..n |-> IF k = 0 THEN p ELSE Apply(state[k - 1], ops[k])]

LEMMA StatesAre ==
  ASSUME NEW p, NEW ops, NEW n \in Nat, NEW state,
         state = [k \in 0..n |-> state[k]],
         state[0] = p,
         \A k \in 1..n : state[k] = Apply(state[k - 1], ops[k])
  PROVE  States(p, ops, n, state)
<1>1. \A k \in 0..n : k = 0 \/ k \in 1..n
  BY SMT
<1>2. \A k \in 0..n : state[k] = IF k = 0 THEN p ELSE Apply(state[k - 1], ops[k])
  BY <1>1, Zenon
<1> QED BY <1>2, Zenon DEF States

LEMMA StatesStep ==
  ASSUME NEW p, NEW ops, NEW n \in Nat, NEW state, States(p, ops, n, state)
  PROVE  state[0] = p /\ \A k \in 1..n : state[k] = Apply(state[k - 1], ops[k])
<1>1. \A k \in 0..n : state[k] = IF k = 0 THEN p ELSE Apply(state[k - 1], ops[k])
  BY Zenon DEF States
<1>2. 0 \in 0..n /\ \A k \in 1..n : k \in 0..n /\ k # 0
  BY SMT
<1> QED BY <1>1, <1>2, Zenon

LEMMA StatesExist ==
  ASSUME NEW p, NEW ops, NEW n \in Nat
  PROVE  \E state : States(p, ops, n, state)
<1> DEFINE T == {m \in Nat : \E state : States(p, ops, m, state)}
<1>1. 0 \in T
  <2> DEFINE one == [k \in 0..0 |-> p]
  <2>1. 0 \in 0..0 /\ 1..0 = {}
    BY SMT
  <2>2. one = [k \in 0..0 |-> one[k]] /\ one[0] = p
    BY <2>1
  <2>3. States(p, ops, 0, one)
    BY <2>1, <2>2, StatesAre, 0 \in Nat
  <2> QED BY <2>3
<1>2. ASSUME NEW m \in Nat, m \in T PROVE m + 1 \in T
  <2>1. PICK state : States(p, ops, m, state)
    BY <1>2
  <2>2. /\ state[0] = p
        /\ \A k \in 1..m : state[k] = Apply(state[k - 1], ops[k])
    BY <2>1, StatesStep, Z3
  <2> DEFINE last == Apply(state[m], ops[m + 1])
             more == [k \in 0..(m + 1) |-> IF k <= m THEN state[k] ELSE last]
  <2>3. /\ more = [k \in 0..(m + 1) |-> more[k]]
        /\ \A k \in 0..m : more[k] = state[k]
        /\ more[m + 1] = last
    <3> HIDE DEF last
    <3> QED BY SMT
  <2> HIDE DEF more
  <2>4. /\ \A k \in 1..m : k \in 0..m /\ k - 1 \in 0..m
        /\ 0 \in 0..m /\ m \in 0..m /\ (m + 1) - 1 = m /\ 1..(m + 1) = 1..m \cup {m + 1}
    BY SMT
  <2>5. \A k \in 1..(m + 1) : more[k] = Apply(more[k - 1], ops[k])
    BY <2>2, <2>3, <2>4
  <2>6. States(p, ops, m + 1, more)
    BY <2>2, <2>3, <2>4, <2>5, StatesAre, m + 1 \in Nat
  <2> QED BY <2>6
<1>3. Nat \subseteq T
  <2> HIDE DEF T
  <2> QED BY <1>1, <1>2, Inductive
<1> QED BY <1>3

(* Ops are applied one by one.                                             *)
LEMMA AppliedStates ==
  ASSUME NEW p, NEW ops, IsList(ops)
  PROVE  \E state : /\ state[0] = p
                    /\ \A k \in 1..Len(ops) : state[k] = Apply(state[k - 1], ops[k])
                    /\ Applied(p, ops) = state[Len(ops)]
<1>1. Len(ops) \in Nat
  BY LenProperties DEF IsList
<1> DEFINE st == CHOOSE f : States(p, ops, Len(ops), f)
<1>2. States(p, ops, Len(ops), st)
  BY <1>1, StatesExist
<1>3. Applied(p, ops) = st[Len(ops)]
  BY DEF Applied, States
<1> HIDE DEF st
<1> QED BY <1>1, <1>2, <1>3, StatesStep

(* An op that does not apply ends the replay.                              *)
LEMMA HoleStays ==
  ASSUME NEW ops, IsList(ops)
  PROVE  Applied(Hole, ops) = Hole
<1> DEFINE n == Len(ops)
<1>1. n \in Nat
  BY LenProperties DEF IsList
<1>2. PICK state : /\ state[0] = Hole
                   /\ \A k \in 1..n : state[k] = Apply(state[k - 1], ops[k])
                   /\ Applied(Hole, ops) = state[n]
  BY AppliedStates
<1> DEFINE T == {k \in Nat : k <= n => state[k] = Hole}
<1>3. 0 \in T
  BY <1>2
<1>4. ASSUME NEW k \in Nat, k \in T PROVE k + 1 \in T
  <2> SUFFICES ASSUME k + 1 <= n PROVE state[k + 1] = Hole
    OBVIOUS
  <2>1. k <= n /\ k + 1 \in 1..n /\ (k + 1) - 1 = k
    BY <1>1, SMT
  <2>2. state[k + 1] = Apply(Hole, ops[k + 1])
    BY <1>2, <1>4, <2>1
  <2> QED BY <2>2 DEF Apply
<1>5. Nat \subseteq T
  <2> HIDE DEF T
  <2> QED BY <1>3, <1>4, Inductive
<1> QED BY <1>1, <1>2, <1>5, SMT

IsShape(p) == DOMAIN p = {"name", "imports", "items"}

Keeps(p, q) == q = Hole \/ (IsShape(q) /\ q.name = p.name)

LEMMA ApplyKeeps ==
  ASSUME NEW p, p # Hole, IsShape(p), NEW op
  PROVE  Keeps(p, Apply(p, op))
<1>1. CASE op.op = "genesis"
  BY <1>1 DEF Apply, Keeps
<1>2. CASE op.op = "add_import"
  <2>1. Apply(p, op) = ApplyImport(p, op.arg)
    BY <1>2 DEF Apply
  <2>2. \/ ApplyImport(p, op.arg) \in {p, Hole}
        \/ ApplyImport(p, op.arg) = [p EXCEPT !.imports = Append(@, op.arg)]
    BY DEF ApplyImport, SelectInSeq
  <2> QED BY <2>1, <2>2 DEF Keeps, IsShape
<1>3. CASE op.op \notin {"genesis", "add_import"}
  <2>1. Apply(p, op) = ApplyToItems(p, op)
    BY <1>3 DEF Apply
  <2>2. ApplyToItems(p, op) = Hole \/ \E items : ApplyToItems(p, op) = [p EXCEPT !.items = items]
    BY DEF ApplyToItems
  <2> QED BY <2>1, <2>2 DEF Keeps, IsShape
<1> QED BY <1>1, <1>2, <1>3

LEMMA AppliedKeeps ==
  ASSUME NEW p, p # Hole, IsShape(p), NEW ops, IsList(ops)
  PROVE  Keeps(p, Applied(p, ops))
<1> DEFINE n == Len(ops)
<1>1. n \in Nat
  BY LenProperties DEF IsList
<1>2. PICK state : /\ state[0] = p
                   /\ \A k \in 1..n : state[k] = Apply(state[k - 1], ops[k])
                   /\ Applied(p, ops) = state[n]
  BY AppliedStates
<1> DEFINE T == {k \in Nat : k <= n => Keeps(p, state[k])}
<1>3. 0 \in T
  BY <1>2 DEF Keeps
<1>4. ASSUME NEW k \in Nat, k \in T PROVE k + 1 \in T
  <2> SUFFICES ASSUME k + 1 <= n PROVE Keeps(p, state[k + 1])
    OBVIOUS
  <2>1. k <= n /\ k + 1 \in 1..n /\ (k + 1) - 1 = k
    BY <1>1, SMT
  <2>2. state[k + 1] = Apply(state[k], ops[k + 1]) /\ Keeps(p, state[k])
    BY <1>2, <1>4, <2>1
  <2>3. CASE state[k] = Hole
    BY <2>2, <2>3 DEF Apply, Keeps
  <2>4. CASE state[k] # Hole
    BY <2>2, <2>4, ApplyKeeps DEF Keeps
  <2> QED BY <2>3, <2>4
<1>5. Nat \subseteq T
  <2> HIDE DEF T
  <2> QED BY <1>3, <1>4, Inductive
<1> QED BY <1>1, <1>2, <1>5, SMT

RStates(name, c, n, state) ==
  state = [i \in 0..n |-> IF i = 0 THEN Empty(name) ELSE ReplayRevision(state[i - 1], c[i])]

LEMMA RStatesAre ==
  ASSUME NEW name, NEW c, NEW n \in Nat, NEW state,
         state = [k \in 0..n |-> state[k]],
         state[0] = Empty(name),
         \A k \in 1..n : state[k] = ReplayRevision(state[k - 1], c[k])
  PROVE  RStates(name, c, n, state)
<1>1. \A k \in 0..n : k = 0 \/ k \in 1..n
  BY SMT
<1>2. \A k \in 0..n : state[k] = IF k = 0 THEN Empty(name) ELSE ReplayRevision(state[k - 1], c[k])
  BY <1>1, Zenon
<1> QED BY <1>2, Zenon DEF RStates

LEMMA RStatesStep ==
  ASSUME NEW name, NEW c, NEW n \in Nat, NEW state, RStates(name, c, n, state)
  PROVE  state[0] = Empty(name) /\ \A i \in 1..n : state[i] = ReplayRevision(state[i - 1], c[i])
<1>1. \A k \in 0..n : state[k] = IF k = 0 THEN Empty(name) ELSE ReplayRevision(state[k - 1], c[k])
  BY Zenon DEF RStates
<1>2. 0 \in 0..n /\ \A k \in 1..n : k \in 0..n /\ k # 0
  BY SMT
<1> QED BY <1>1, <1>2, Zenon

LEMMA RStatesExist ==
  ASSUME NEW name, NEW c, NEW n \in Nat
  PROVE  \E state : RStates(name, c, n, state)
<1> DEFINE T == {m \in Nat : \E state : RStates(name, c, m, state)}
<1>1. 0 \in T
  <2> DEFINE one == [i \in 0..0 |-> Empty(name)]
  <2>1. 0 \in 0..0 /\ 1..0 = {}
    BY SMT
  <2>2. one = [i \in 0..0 |-> one[i]] /\ one[0] = Empty(name)
    BY <2>1
  <2>3. RStates(name, c, 0, one)
    BY <2>1, <2>2, RStatesAre, 0 \in Nat
  <2> QED BY <2>3
<1>2. ASSUME NEW m \in Nat, m \in T PROVE m + 1 \in T
  <2>1. PICK state : RStates(name, c, m, state)
    BY <1>2
  <2>2. /\ state[0] = Empty(name)
        /\ \A i \in 1..m : state[i] = ReplayRevision(state[i - 1], c[i])
    BY <2>1, RStatesStep
  <2> DEFINE last == ReplayRevision(state[m], c[m + 1])
             more == [i \in 0..(m + 1) |-> IF i <= m THEN state[i] ELSE last]
  <2>3. /\ more = [i \in 0..(m + 1) |-> more[i]]
        /\ \A i \in 0..m : more[i] = state[i]
        /\ more[m + 1] = last
    <3> HIDE DEF last
    <3> QED BY SMT
  <2> HIDE DEF more
  <2>4. /\ \A i \in 1..m : i \in 0..m /\ i - 1 \in 0..m
        /\ 0 \in 0..m /\ m \in 0..m /\ (m + 1) - 1 = m /\ 1..(m + 1) = 1..m \cup {m + 1}
    BY SMT
  <2>5. \A i \in 1..(m + 1) : more[i] = ReplayRevision(more[i - 1], c[i])
    BY <2>2, <2>3, <2>4
  <2>6. RStates(name, c, m + 1, more)
    BY <2>2, <2>3, <2>4, <2>5, RStatesAre, m + 1 \in Nat
  <2> QED BY <2>6
<1>3. Nat \subseteq T
  <2> HIDE DEF T
  <2> QED BY <1>1, <1>2, Inductive
<1> QED BY <1>3

(* Revisions are replayed one by one.                                      *)
LEMMA ReplayStates ==
  ASSUME NEW name, NEW c, IsList(c)
  PROVE  \E state : /\ state[0] = Empty(name)
                    /\ \A i \in 1..Len(c) : state[i] = ReplayRevision(state[i - 1], c[i])
                    /\ Replay(name, c) = state[Len(c)]
<1>1. Len(c) \in Nat
  BY LenProperties DEF IsList
<1> DEFINE st == CHOOSE f : RStates(name, c, Len(c), f)
<1>2. RStates(name, c, Len(c), st)
  BY <1>1, RStatesExist
<1>3. Replay(name, c) = st[Len(c)]
  BY DEF Replay, RStates
<1> HIDE DEF st
<1> QED BY <1>1, <1>2, <1>3, RStatesStep

\* An entry as the tool and the parser make them.
IsEntry(e) ==
  /\ e = Revision(e.number, e.base, e.result, e.ops)
  /\ e.number \in Nat
  /\ \E p \in Projections : e.result = p \/ e.result = Empty(p.name)
  /\ IsList(e.ops) /\ e.ops # <<>>

IsChain(c) == IsList(c) /\ \A e \in Range(c) : IsEntry(e)

LEMMA Entries ==
  ASSUME NEW c, IsChain(c)
  PROVE  /\ Len(c) \in Nat /\ DOMAIN c = 1..Len(c) /\ c = [i \in 1..Len(c) |-> c[i]]
         /\ \A i \in 1..Len(c) : c[i] \in Range(c) /\ IsEntry(c[i])
         /\ c # <<>> => Len(c) >= 1
<1>1. Len(c) \in Nat /\ c \in [1..Len(c) -> Range(c)] /\ DOMAIN c = 1..Len(c)
  BY LenProperties DEF IsChain, IsList
<1>2. c # <<>> => Len(c) \in Nat \ {0}
  BY EmptySeq DEF IsChain, IsList
<1> QED BY <1>1, <1>2, SMT DEF IsChain

LEMMA Shapes ==
  ASSUME NEW e, IsEntry(e)
  PROVE  e.result # Hole /\ IsShape(e.result) /\ IsItems(e.result.items) /\ IsList(e.result.imports)
<1>1. PICK p \in Projections : e.result = p \/ e.result = Empty(p.name)
  BY DEF IsEntry
<1>2. CASE e.result = p
  BY <1>2, ChainAssumption DEF IsShape
<1>3. CASE e.result = Empty(p.name)
  <2>1. IsEntries(<<>>) /\ Range(<<>>) = {} /\ IsList(<<>>)
    BY One DEF IsEntries
  <2>2. IsItems(<<>>)
    BY <2>1 DEF IsItems
  <2> QED BY <1>3, <2>1, <2>2, ChainAssumption DEF IsShape, Empty
<1> QED BY <1>1, <1>2, <1>3

(* If the replay gets through, every entry leads from what the entry       *)
(* before it declares to what it declares itself, and the slice keeps the  *)
(* name the replay started from.                                           *)
LEMMA ReplaySteps ==
  ASSUME NEW name, Empty(name) # Hole, NEW c, IsChain(c), c # <<>>, Replay(name, c) # Hole
  PROVE  /\ Replay(name, c) = c[Len(c)].result
         /\ c[1].result.name = name
         /\ \A i \in 1..Len(c) : Replays(c, i)
<1> DEFINE n == Len(c)
<1>1. n \in Nat \ {0} /\ IsList(c)
  BY Entries DEF IsChain
<1>2. PICK state : /\ state[0] = Empty(name)
                   /\ \A i \in 1..n : state[i] = ReplayRevision(state[i - 1], c[i])
                   /\ Replay(name, c) = state[n]
  BY ReplayStates DEF IsChain
<1>3. ASSUME NEW i \in 1..n, state[i] # Hole
      PROVE  /\ state[i - 1] # Hole
             /\ Applied(state[i - 1], c[i].ops) = c[i].result
             /\ state[i] = c[i].result
  <2>1. IsEntry(c[i]) /\ c[i].result # Hole /\ IsList(c[i].ops)
    BY Entries, Shapes DEF IsEntry
  <2>2. state[i] = ReplayRevision(state[i - 1], c[i])
    BY <1>2
  <2>3. Applied(state[i - 1], c[i].ops) = c[i].result /\ state[i] = c[i].result
    BY <1>3, <2>2 DEF ReplayRevision
  <2> QED BY <2>1, <2>3, HoleStays
<1> DEFINE T == {m \in Nat : m < n => state[n - m] # Hole}
<1>4. Nat \subseteq T
  <2>1. 0 \in T
    <3>1. n - 0 = n
      BY <1>1, SMT
    <3> QED BY <1>2, <3>1
  <2>2. ASSUME NEW m \in Nat, m \in T PROVE m + 1 \in T
    <3> SUFFICES ASSUME m + 1 < n PROVE state[n - (m + 1)] # Hole
      OBVIOUS
    <3>1. m < n /\ n - m \in 1..n /\ (n - m) - 1 = n - (m + 1)
      BY <1>1, SMT
    <3> QED BY <2>2, <3>1, <1>3
  <2> HIDE DEF T
  <2> QED BY <2>1, <2>2, Inductive
<1>5. \A i \in 1..n : state[i] # Hole
  <2> TAKE i \in 1..n
  <2>1. n - i \in Nat /\ n - i < n /\ n - (n - i) = i
    BY <1>1, SMT
  <2>2. n - i \in T
    BY <1>4, <2>1
  <2> QED BY <2>1, <2>2
<1>6. \A i \in 1..n : Applied(state[i - 1], c[i].ops) = c[i].result /\ state[i] = c[i].result
  BY <1>3, <1>5
<1>7. c[1].result.name = name
  <2>1. 1 \in 1..n /\ 1 - 1 = 0
    BY <1>1, SMT
  <2>2. IsShape(Empty(name)) /\ Empty(name).name = name
    BY DEF IsShape, Empty
  <2>3. c[1].result = Applied(Empty(name), c[1].ops) /\ IsEntry(c[1]) /\ IsList(c[1].ops)
    BY <1>2, <1>6, <2>1, Entries DEF IsEntry
  <2>4. c[1].result # Hole
    BY <2>3, Shapes
  <2> QED BY <2>2, <2>3, <2>4, AppliedKeeps DEF Keeps
<1>8. ASSUME NEW i \in 1..n PROVE Replays(c, i)
  <2>1. CASE i = 1
    <3>1. 1 - 1 = 0
      BY SMT
    <3> QED BY <2>1, <3>1, <1>2, <1>6, <1>7 DEF Replays
  <2>2. CASE i # 1
    <3>1. i - 1 \in 1..n
      BY <1>1, <2>2, SMT
    <3> QED BY <2>2, <3>1, <1>6 DEF Replays
  <2> QED BY <2>1, <2>2
<1> QED BY <1>1, <1>2, <1>6, <1>7, <1>8

-----------------------------------------------------------------------------
(* What the diff writes. *)

\* A list of ops with tags the parser knows.
IsOps(ops) == IsList(ops) /\ \A op \in Range(ops) : Understood(op)

LEMMA NoOps == IsOps(<<>>)
BY One DEF IsOps

LEMMA OneOp ==
  ASSUME NEW op, Understood(op)
  PROVE  IsOps(<<op>>)
BY One DEF IsOps

LEMMA MoreOps ==
  ASSUME NEW a, NEW b, IsOps(a), IsOps(b)
  PROVE  IsOps(a \o b)
BY Joins DEF IsOps

LEMMA Tagged ==
  ASSUME NEW tag, tag # "unknown", NEW path, NEW key, NEW arg
  PROVE  Understood(Op(tag, path, key, arg))
BY DEF Understood, Op

LEMMA FlatOps ==
  ASSUME NEW n \in Nat, NEW ss, ss = [i \in 1..n |-> ss[i]], \A i \in 1..n : IsOps(ss[i])
  PROVE  IsOps(FlattenSeq(ss))
<1> DEFINE S == UNION {Range(ss[i]) : i \in 1..n}
<1>1. \A i \in 1..n : ss[i] \in Seq(S)
  <2> TAKE i \in 1..n
  <2>1. Range(ss[i]) \subseteq S /\ ss[i] \in Seq(Range(ss[i]))
    BY DEF IsOps, IsList
  <2> HIDE DEF S
  <2> QED BY <2>1, SeqMonotonic
<1>2. ss \in Seq(Seq(S)) /\ DOMAIN ss = 1..n
  <2>1. IsList(ss) /\ Len(ss) = n
    BY ListIs
  <2>2. Range(ss) \subseteq Seq(S)
    BY <1>1 DEF Range
  <2>3. DOMAIN ss = 1..n
    BY Zenon
  <2> HIDE DEF S
  <2> QED BY <2>1, <2>2, <2>3, SeqMonotonic DEF IsList
<1> HIDE DEF S
<1>3. FlattenSeq(ss) \in Seq(S)
  BY <1>2, Flattens
<1>4. ASSUME NEW op \in Range(FlattenSeq(ss)) PROVE Understood(op)
  BY <1>2, Flattens DEF IsOps
<1> QED BY <1>3, <1>4, ListOf DEF IsOps

-----------------------------------------------------------------------------
(* Keys. *)

LEMMA KeysFinite ==
  ASSUME NEW items, IsList(items)
  PROVE  IsFiniteSet(Keys(items))
<1> DEFINE n == Len(items)
           f == [i \in 1..n |-> KeyOf(items[i])]
<1>1. n \in Nat /\ DOMAIN items = 1..n
  BY LenProperties DEF IsList
<1>2. IsFiniteSet(1..n)
  BY <1>1, FS_Interval, SMT
<1>3. f \in Surjection(1..n, Keys(items))
  BY <1>1 DEF Keys, Surjection
<1> QED BY <1>2, <1>3, FS_Surjection

(* The map built for a diff finds an entry with the key.                   *)
LEMMA MappedIs ==
  ASSUME NEW items, IsList(items), NEW key \in Keys(items)
  PROVE  \E e \in Range(items) : KeyOf(e) = key /\ Mapped(items, key) = e.body
<1> DEFINE n == Len(items)
           I == {i \in 1..n : KeyOf(items[i]) = key}
<1>1. n \in Nat /\ DOMAIN items = 1..n
  BY LenProperties DEF IsList
<1>2. I # {}
  BY <1>1 DEF Keys
<1>3. Max(I) \in I
  BY <1>1, <1>2, SomeMax
<1>4. Mapped(items, key) = items[Max(I)].body
  BY <1>2 DEF Mapped, SelectLastInSeq
<1> QED BY <1>1, <1>3, <1>4 DEF Range

LEMMA RankIs ==
  ASSUME NEW word \in Range(Alphabet)
  PROVE  Rank(word) \in 1..Len(Alphabet) /\ Alphabet[Rank(word)] = word
<1> DEFINE n == Len(Alphabet)
           I == {i \in 1..n : Alphabet[i] = word}
<1>1. n \in Nat /\ DOMAIN Alphabet = 1..n
  BY ChainAssumption, LenProperties DEF IsList
<1>2. I # {} /\ I \subseteq Nat
  BY <1>1 DEF Range
<1>3. Min(I) \in I
  <2>1. \E i \in I : \A m \in I : i <= m
    <3> HIDE DEF I
    <3> QED BY <1>2, Least
  <2> QED BY <2>1 DEF Min
<1>4. Rank(word) = Min(I)
  BY <1>2 DEF Rank, SelectInSeq
<1> QED BY <1>3, <1>4

IsKey(k) == \E kind, name \in Range(Alphabet) : k = <<kind, name>>

LEMMA Product ==
  ASSUME NEW n \in Nat, NEW a \in Nat, NEW b \in Nat, NEW c \in 1..n, NEW d \in 1..n, a < b
  PROVE  a * (n + 1) + c < b * (n + 1) + d
<1>1. PICK e \in Nat : b = a + 1 + e
  <2>1. b - (a + 1) \in Nat /\ b = a + 1 + (b - (a + 1))
    BY SMT
  <2> QED BY <2>1
<1>2. b * (n + 1) = a * (n + 1) + (n + 1) + e * (n + 1)
  BY <1>1, SMT
<1>3. e * (n + 1) \in Nat /\ a * (n + 1) \in Nat
  BY SMT
<1> QED BY <1>2, <1>3, SMT

LEMMA KeyRanks ==
  ASSUME NEW k, IsKey(k), NEW l, IsKey(l)
  PROVE  KeyRank(k) \in Nat /\ (KeyRank(k) = KeyRank(l) => k = l)
<1> DEFINE n == Len(Alphabet)
           a == Rank(k[1])
           c == Rank(k[2])
           b == Rank(l[1])
           d == Rank(l[2])
<1>1. /\ n \in Nat /\ a \in 1..n /\ b \in 1..n /\ c \in 1..n /\ d \in 1..n
      /\ k = <<Alphabet[a], Alphabet[c]>> /\ l = <<Alphabet[b], Alphabet[d]>>
  <2>1. n \in Nat
    BY ChainAssumption, LenProperties DEF IsList
  <2>2. PICK kk, kn \in Range(Alphabet) : k = <<kk, kn>>
    BY DEF IsKey
  <2>3. PICK lk, ln \in Range(Alphabet) : l = <<lk, ln>>
    BY DEF IsKey
  <2>4. k[1] = kk /\ k[2] = kn /\ l[1] = lk /\ l[2] = ln
    BY <2>2, <2>3
  <2> QED BY <2>1, <2>2, <2>3, <2>4, RankIs
<1>2. KeyRank(k) = a * (n + 1) + c /\ KeyRank(l) = b * (n + 1) + d
  BY DEF KeyRank
<1> HIDE DEF n, a, b, c, d
<1>3. KeyRank(k) \in Nat /\ KeyRank(l) \in Nat
  BY <1>1, <1>2, SMT
<1>4. ~(a < b) /\ ~(b < a) /\ KeyRank(k) = KeyRank(l) => k = l
  <2> SUFFICES ASSUME ~(a < b), ~(b < a), KeyRank(k) = KeyRank(l) PROVE k = l
    OBVIOUS
  <2>1. a = b
    BY <1>1, SMT
  <2>2. a * (n + 1) \in Nat
    BY <1>1, SMT
  <2>3. c = d
    <3>1. a * (n + 1) + c = a * (n + 1) + d
      BY <1>2, <2>1
    <3> DEFINE x == a * (n + 1)
    <3> HIDE DEF x
    <3>2. x \in Nat /\ x + c = x + d
      BY <2>2, <3>1 DEF x
    <3> QED BY <1>1, <3>2, SMT
  <2> QED BY <1>1, <2>1, <2>3
<1>5. (a < b \/ b < a) => KeyRank(k) # KeyRank(l)
  <2>1. a \in Nat /\ b \in Nat
    BY <1>1, SMT
  <2>2. a < b => KeyRank(k) < KeyRank(l)
    BY <1>1, <1>2, <2>1, Product
  <2>3. b < a => KeyRank(l) < KeyRank(k)
    BY <1>1, <1>2, <2>1, Product
  <2> QED BY <1>3, <2>2, <2>3, SMT
<1> QED BY <1>3, <1>4, <1>5

(* In key order, each key of a set is listed.                              *)
LEMMA Ordered ==
  ASSUME NEW keys, IsFiniteSet(keys)
  PROVE  /\ IsList(InKeyOrder(keys))
         /\ (\A k \in keys : IsKey(k)) => Range(InKeyOrder(keys)) = keys
<1> DEFINE rank == [k \in keys |-> KeyRank(k)]
<1>1. IsList(InKeyOrder(keys))
  BY ListOfSet DEF InKeyOrder
<1>2. ASSUME \A k \in keys : IsKey(k) PROVE Range(InKeyOrder(keys)) = keys
  <2>1. /\ \A k \in keys : rank[k] \in Nat
        /\ \A k, l \in keys : rank[k] = rank[l] => k = l
    BY <1>2, KeyRanks
  <2>2. InKeyOrder(keys) = ByRank(keys, rank)
    BY DEF InKeyOrder
  <2> HIDE DEF rank
  <2> QED BY <2>1, <2>2, Orders
<1> QED BY <1>1, <1>2

-----------------------------------------------------------------------------
(* The diff is a list of ops the parser knows.                             *)

LEMMA ImportOpsKnown ==
  ASSUME NEW prev, NEW cur, IsList(cur.imports)
  PROVE  IsOps(ImportOps(prev, cur))
<1> DEFINE known == {prev.imports[i].alias : i \in DOMAIN prev.imports}
           fresh == {use \in Range(cur.imports) : use.alias \notin known}
           new   == Only(cur.imports, fresh)
           F(i)  == Op("add_import", <<>>, NoKey, new[i])
           ops   == [i \in DOMAIN new |-> F(i)]
<1>1. IsList(new)
  <2> HIDE DEF fresh
  <2>1. new \in Seq(Range(cur.imports) \cap fresh)
    BY OnlyFilters
  <2> QED BY <2>1, ListOf
<1>2. ImportOps(prev, cur) = ops
  BY DEF ImportOps
<1> HIDE DEF new
<1>3. Len(new) \in Nat /\ DOMAIN new = 1..Len(new)
  BY <1>1, LenProperties DEF IsList
<1>4. IsList(ops) /\ DOMAIN ops = DOMAIN new
  BY <1>3, ListIs
<1>5. \A op \in Range(ops) : Understood(op)
  BY <1>4, Tagged DEF Range
<1> HIDE DEF ops
<1> QED BY <1>2, <1>4, <1>5 DEF IsOps

\* What F makes of the n-th key.
LEMMA EachOps ==
  ASSUME NEW keys, IsFiniteSet(keys), NEW ss,
         ss = [i \in DOMAIN InKeyOrder(keys) |-> ss[i]],
         \A i \in DOMAIN InKeyOrder(keys) : IsOps(ss[i])
  PROVE  IsOps(FlattenSeq(ss))
<1>1. DOMAIN InKeyOrder(keys) = 1..Len(InKeyOrder(keys)) /\ Len(InKeyOrder(keys)) \in Nat
  BY Ordered, LenProperties DEF IsList
<1> QED BY <1>1, FlatOps

LEMMA FieldOpsKnown ==
  ASSUME NEW path, NEW before, IsList(before), NEW after, IsList(after)
  PROVE  IsOps(FieldOps(path, before, after))
<1> DEFINE Modify(k) == <<Op("modify_field", path, k, Mapped(after, k))>>
           Known(k)  == IF k \notin Keys(after) THEN <<Op("remove_field", path, k, <<>>)>>
                        ELSE IF Mapped(before, k) # Mapped(after, k) THEN Modify(k)
                        ELSE <<>>
           olds == FieldKeys(before)
           news == FieldKeys(after) \ FieldKeys(before)
           old  == InKeyOrder(olds)
           new  == InKeyOrder(news)
           os   == [i \in DOMAIN old |-> Known(old[i])]
           ns   == [i \in DOMAIN new |-> Modify(new[i])]
<1>1. IsFiniteSet(olds) /\ IsFiniteSet(news)
  BY KeysFinite, FS_Subset DEF FieldKeys
<1>2. \A k : IsOps(Modify(k))
  BY OneOp, Tagged
<1>3. \A k : IsOps(Known(k))
  BY <1>2, OneOp, Tagged, NoOps
<1>4. FieldOps(path, before, after) = FlattenSeq(os) \o FlattenSeq(ns)
  BY DEF FieldOps, ForEach
<1> HIDE DEF Modify, Known, olds, news
<1>5. IsOps(FlattenSeq(os)) /\ IsOps(FlattenSeq(ns))
  BY <1>1, <1>2, <1>3, EachOps
<1> QED BY <1>4, <1>5, MoreOps

LEMMA StepOrderOpsKnown ==
  ASSUME NEW key, NEW before, NEW after
  PROVE  IsOps(StepOrderOps(key, before, after))
<1> DEFINE was == StepNames(before)
           is  == StepNames(after)
<1> HIDE DEF was, is
<1>1. \/ StepOrderOps(key, before, after) = <<>>
      \/ StepOrderOps(key, before, after) = <<Op("reorder_items", <<key>>, NoKey, is)>>
  BY DEF StepOrderOps, was, is
<1> QED BY <1>1, NoOps, OneOp, Tagged

LEMMA KeysAreKeys ==
  ASSUME NEW items, IsEntries(items), NEW k \in Keys(items)
  PROVE  IsKey(k)
BY DEF IsEntries, Keys, KeyOf, IsKey, Range

LEMMA Bodies ==
  ASSUME NEW items, IsEntries(items), NEW k \in Keys(items), k[1] # "field",
         \A b \in {e \in Range(items) : e.kind # "field"} : IsEntries(b.body)
  PROVE  IsEntries(Mapped(items, k))
<1>1. PICK e \in Range(items) : KeyOf(e) = k /\ Mapped(items, k) = e.body
  BY MappedIs DEF IsEntries
<1>2. e.kind # "field"
  BY <1>1 DEF KeyOf
<1> QED BY <1>1, <1>2

\* The items of a block, with the steps among them.
IsBody(body) ==
  IsEntries(body) /\ \A s \in {e \in Range(body) : e.kind # "field"} : IsEntries(s.body)

LEMMA StepFieldOpsKnown ==
  ASSUME NEW key, NEW before, IsBody(before), NEW after, IsBody(after)
  PROVE  IsOps(StepFieldOps(key, before, after))
<1> DEFINE shared == {k \in Keys(before) \cap Keys(after) : k[1] = "step"}
           OfStep(k) == FieldOps(<<key, k>>, Mapped(before, k), Mapped(after, k))
           steps == InKeyOrder(shared)
           ss == [i \in DOMAIN steps |-> OfStep(steps[i])]
<1>1. IsFiniteSet(shared) /\ \A k \in shared : IsKey(k)
  BY KeysFinite, FS_Subset, KeysAreKeys DEF IsBody, IsEntries
<1>2. \A k \in shared : IsOps(OfStep(k))
  BY Bodies, FieldOpsKnown DEF IsBody, IsEntries
<1>3. StepFieldOps(key, before, after) \in {<<>>, FlattenSeq(ss)}
  BY DEF StepFieldOps, ForEach
<1> HIDE DEF OfStep, shared
<1>4. \A i \in DOMAIN steps : steps[i] \in shared
  BY <1>1, Ordered DEF Range
<1>5. IsOps(FlattenSeq(ss))
  BY <1>1, <1>2, <1>4, EachOps
<1> QED BY <1>3, <1>5, NoOps

LEMMA ChangeOpsKnown ==
  ASSUME NEW prev, IsItems(prev.items), NEW cur, IsItems(cur.items)
  PROVE  IsOps(ChangeOps(prev, cur))
<1> DEFINE shared == BlockKeys(prev.items) \cap BlockKeys(cur.items)
           Change(k) ==
             FieldOps(<<k>>, Mapped(prev.items, k), Mapped(cur.items, k))
               \o StepOrderOps(k, Mapped(prev.items, k), Mapped(cur.items, k))
               \o StepFieldOps(k, Mapped(prev.items, k), Mapped(cur.items, k))
           blocks == InKeyOrder(shared)
           ss == [i \in DOMAIN blocks |-> Change(blocks[i])]
<1>1. IsFiniteSet(shared) /\ \A k \in shared : IsKey(k)
  BY KeysFinite, FS_Subset, KeysAreKeys DEF IsItems, IsEntries, BlockKeys
<1>2. ASSUME NEW items, IsItems(items), NEW k \in BlockKeys(items)
      PROVE  IsBody(Mapped(items, k))
  <2>1. PICK e \in Range(items) : KeyOf(e) = k /\ Mapped(items, k) = e.body
    BY <1>2, MappedIs DEF IsItems, IsEntries, BlockKeys
  <2>2. e.kind # "field"
    BY <1>2, <2>1 DEF KeyOf, BlockKeys
  <2> QED BY <1>2, <2>1, <2>2 DEF IsItems, IsBody
<1>3. ASSUME NEW k \in shared PROVE IsOps(Change(k))
  <2>1. IsBody(Mapped(prev.items, k)) /\ IsBody(Mapped(cur.items, k))
    BY <1>2
  <2>2. IsList(Mapped(prev.items, k)) /\ IsList(Mapped(cur.items, k))
    BY <2>1 DEF IsBody, IsEntries
  <2> QED BY <2>1, <2>2, FieldOpsKnown, StepOrderOpsKnown, StepFieldOpsKnown, MoreOps
<1>4. ChangeOps(prev, cur) = FlattenSeq(ss)
  BY DEF ChangeOps, ForEach
<1> HIDE DEF Change, shared
<1>5. \A i \in DOMAIN blocks : blocks[i] \in shared
  BY <1>1, Ordered DEF Range
<1>6. IsOps(FlattenSeq(ss))
  BY <1>1, <1>3, <1>5, EachOps
<1> QED BY <1>4, <1>6

LEMMA DiffKnown ==
  ASSUME NEW prev, IsItems(prev.items), NEW cur, IsItems(cur.items), IsList(cur.imports)
  PROVE  IsOps(Diff(prev, cur))
<1> DEFINE new == BlockKeys(cur.items) \ BlockKeys(prev.items)
           old == BlockKeys(prev.items) \ BlockKeys(cur.items)
           New(k)  == <<Op("add_block", <<>>, k, Mapped(cur.items, k))>>
           Gone(k) == <<Op("remove_block", <<>>, k, <<>>)>>
           ns == [i \in DOMAIN InKeyOrder(new) |-> New(InKeyOrder(new)[i])]
           gs == [i \in DOMAIN InKeyOrder(old) |-> Gone(InKeyOrder(old)[i])]
<1>1. IsFiniteSet(new) /\ IsFiniteSet(old)
  BY KeysFinite, FS_Subset DEF IsItems, IsEntries, BlockKeys
<1>2. \A k : IsOps(New(k)) /\ IsOps(Gone(k))
  BY OneOp, Tagged
<1>3. AddOps(prev, cur) = FlattenSeq(ns) /\ RemoveOps(prev, cur) = FlattenSeq(gs)
  BY DEF AddOps, RemoveOps, ForEach
<1> HIDE DEF New, Gone, new, old
<1>4. IsOps(FlattenSeq(ns)) /\ IsOps(FlattenSeq(gs))
  BY <1>1, <1>2, EachOps
<1>5. IsOps(ImportOps(prev, cur)) /\ IsOps(ChangeOps(prev, cur))
  BY ImportOpsKnown, ChangeOpsKnown
<1> QED BY <1>3, <1>4, <1>5, MoreOps DEF Diff

-----------------------------------------------------------------------------
(* Valid chains. *)

LEMMA ValidFacts ==
  ASSUME NEW p, NEW c, ChainErrors(p, c) = {}
  PROVE  /\ \A i \in DOMAIN c : c[i].number = i
         /\ ~BaseBreaks(c)
         /\ Replay(p.name, c) # Hole
BY DEF ChainErrors, Code

(* A chain without errors is a history.                                    *)
LEMMA ValidHistory ==
  ASSUME NEW p, Empty(p.name) # Hole, NEW c, IsChain(c), c # <<>>, ChainErrors(p, c) = {}
  PROVE  /\ \A i \in DOMAIN c : Linked(c, i) /\ Replays(c, i)
         /\ Replay(p.name, c) = c[Len(c)].result
         /\ c[1].result.name = p.name
<1>1. DOMAIN c = 1..Len(c) /\ Len(c) \in Nat
  BY Entries
<1>2. /\ \A i \in DOMAIN c : c[i].number = i
      /\ ~BaseBreaks(c)
      /\ Replay(p.name, c) # Hole
  BY ValidFacts
<1>3. \A i \in DOMAIN c : Linked(c, i)
  <2> TAKE i \in DOMAIN c
  <2>1. i = 1 \/ i \in 2..Len(c)
    BY <1>1, SMT
  <2>2. i \in 2..Len(c) => i # 1
    BY SMT
  <2> QED BY <1>2, <2>1, <2>2 DEF Linked, BaseBreaks
<1>4. /\ Replay(p.name, c) = c[Len(c)].result
      /\ c[1].result.name = p.name
      /\ \A i \in 1..Len(c) : Replays(c, i)
  BY <1>2, ReplaySteps
<1> QED BY <1>1, <1>3, <1>4

(* Validation looks at the name of the slice and at nothing else of it.    *)
LEMMA ByName ==
  ASSUME NEW p, NEW q, p.name = q.name, NEW c
  PROVE  ChainErrors(p, c) = ChainErrors(q, c)
BY DEF ChainErrors

AllKnown(c) == \A i \in DOMAIN c : IsOps(c[i].ops)

(* A chain whose ops are all known is read as it stands.                   *)
LEMMA NothingDropped ==
  ASSUME NEW c, IsChain(c), AllKnown(c)
  PROVE  Collect(c) = c
<1>1. ASSUME NEW i \in DOMAIN c
      PROVE  [c[i] EXCEPT !.ops = Only(@, {op \in Range(@) : Understood(op)})] = c[i]
  <2> DEFINE known == {op \in Range(c[i].ops) : Understood(op)}
  <2>1. IsEntry(c[i]) /\ IsOps(c[i].ops)
    BY Entries DEF AllKnown
  <2>2. Range(c[i].ops) \subseteq known
    BY <2>1 DEF IsOps
  <2> HIDE DEF known
  <2>3. Only(c[i].ops, known) = c[i].ops
    BY <2>1, <2>2, OnlyFilters DEF IsOps
  <2>4. [c[i] EXCEPT !.ops = c[i].ops] = c[i]
    BY <2>1 DEF IsEntry, Revision
  <2> QED BY <2>3, <2>4 DEF known
<1>2. c = [i \in DOMAIN c |-> c[i]]
  BY Entries
<1> QED BY <1>1, <1>2 DEF Collect

LEMMA KnownIfClean ==
  ASSUME NEW c, IsChain(c), NEW twice, CollectErrors(c, twice) = {}
  PROVE  AllKnown(c) /\ ~twice /\ Collect(c) = c
<1>1. ~twice /\ \A i \in DOMAIN c : \A k \in DOMAIN c[i].ops : Understood(c[i].ops[k])
  BY DEF CollectErrors, Code
<1>2. AllKnown(c)
  BY <1>1, Entries DEF AllKnown, IsOps, Range, IsEntry
<1> QED BY <1>1, <1>2, NothingDropped

LEMMA CleanIfKnown ==
  ASSUME NEW c, AllKnown(c)
  PROVE  CollectErrors(c, FALSE) = {}
<1>1. \A i \in DOMAIN c : \A k \in DOMAIN c[i].ops : Understood(c[i].ops[k])
  BY DEF AllKnown, IsOps, Range
<1> QED BY <1>1 DEF CollectErrors, Code

LEMMA Names ==
  ASSUME NEW p \in Projections
  PROVE  /\ p # Hole /\ Empty(p.name) # Hole /\ IsItems(p.items) /\ IsList(p.imports)
         /\ \A e : IsEntry(e) => Empty(e.result.name) # Hole
<1>1. ASSUME NEW e, IsEntry(e) PROVE Empty(e.result.name) # Hole
  <2>1. PICK q \in Projections : e.result = q \/ e.result = Empty(q.name)
    BY <1>1 DEF IsEntry
  <2>2. e.result.name = q.name
    BY <2>1 DEF Empty
  <2> QED BY <2>2, ChainAssumption
<1> QED BY <1>1, ChainAssumption

-----------------------------------------------------------------------------
(* What synthesis answers. *)

LEMMA GrownChain ==
  ASSUME NEW p \in Projections, NEW c, IsChain(c), AllKnown(c), NEW ops, IsOps(ops), ops # <<>>
  PROVE  /\ IsChain(Grown(p, c, ops)) /\ AllKnown(Grown(p, c, ops)) /\ Grown(p, c, ops) # <<>>
         /\ IsPrefix(c, Grown(p, c, ops))
         /\ Len(Grown(p, c, ops)) = Len(c) + (IF c = <<>> THEN 2 ELSE 1)
<1> DEFINE old == IF c = <<>> THEN <<Genesis(p)>> ELSE c
           new == Revision(NextNumber(old), old[Len(old)].result, p, ops)
           g   == Grown(p, c, ops)
<1>1. g = Append(old, new)
  BY DEF Grown
<1>2. IsEntry(Genesis(p)) /\ IsOps(Genesis(p).ops)
  <2> DEFINE op == Op("genesis", <<>>, NoKey, Empty(p.name))
  <2>1. IsOps(<<op>>)
    BY OneOp, Tagged
  <2>2. Genesis(p) = Revision(1, NoHash, Empty(p.name), <<op>>)
    BY DEF Genesis
  <2> HIDE DEF op
  <2> QED BY <2>1, <2>2 DEF IsEntry, IsOps, Revision
<1>3. IsChain(old) /\ AllKnown(old) /\ Len(old) >= 1 /\ Len(old) \in Nat
      /\ Len(old) = (IF c = <<>> THEN 1 ELSE Len(c))
  <2>1. CASE c = <<>>
    <3>1. old = <<Genesis(p)>> /\ DOMAIN old = {1} /\ Len(old) = 1 /\ old[1] = Genesis(p)
      BY <2>1, SMT
    <3> QED BY <2>1, <3>1, <1>2, One DEF IsChain, AllKnown
  <2>2. CASE c # <<>>
    BY <2>2, Entries
  <2> QED BY <2>1, <2>2
<1>4. IsEntry(new) /\ new.ops = ops
  <2>1. old[Len(old)].number \in Nat
    <3>1. Len(old) \in 1..Len(old)
      BY <1>3, SMT
    <3> HIDE DEF old
    <3> QED BY <1>3, <3>1, Entries DEF IsEntry
  <2> DEFINE number == NextNumber(old)
             base == old[Len(old)].result
  <2>2. number \in Nat
    BY <2>1 DEF NextNumber
  <2> HIDE DEF number, base, old
  <2>3. new = Revision(number, base, p, ops)
    BY DEF number, base
  <2> QED BY <2>2, <2>3 DEF IsEntry, IsOps, Revision
<1> HIDE DEF old, new, g
<1>5. /\ g \in Seq(Range(old) \cup {new}) /\ g # <<>> /\ Len(g) = Len(old) + 1
      /\ \A i \in 1..Len(old) : g[i] = old[i]
      /\ g[Len(old) + 1] = new
  <2> DEFINE S == Range(old) \cup {new}
  <2>1. old \in Seq(S) /\ new \in S
    BY <1>3, SeqMonotonic, Range(old) \subseteq S DEF IsChain, IsList
  <2> HIDE DEF S
  <2>2. /\ g \in Seq(S) /\ g # <<>> /\ Len(g) = Len(old) + 1
        /\ \A i \in 1..Len(old) : g[i] = old[i]
        /\ g[Len(old) + 1] = new
    BY <1>1, <2>1, AppendProperties
  <2> QED BY <2>2 DEF S
<1>6. IsChain(g)
  <2>1. IsList(g) /\ Range(g) \subseteq Range(old) \cup {new}
    BY <1>5, ListOf
  <2> QED BY <2>1, <1>3, <1>4 DEF IsChain
<1>7. AllKnown(g)
  <2>1. DOMAIN g = 1..(Len(old) + 1) /\ DOMAIN old = 1..Len(old)
    BY <1>3, <1>5, <1>6, Entries
  <2>2. ASSUME NEW i \in DOMAIN g PROVE IsOps(g[i].ops)
    <3>1. i \in 1..Len(old) \/ i = Len(old) + 1
      BY <1>3, <2>1, SMT
    <3> QED BY <1>3, <1>4, <1>5, <2>1, <3>1 DEF AllKnown
  <2> QED BY <2>2 DEF AllKnown
<1>8. IsPrefix(c, g)
  <2>1. CASE c = <<>>
    <3>1. Len(c) = 0 /\ Len(g) \in Nat
      BY <2>1, <1>6, Entries
    <3>2. SubSeq(c, 1, 0) = <<>> /\ SubSeq(g, 1, 0) = <<>>
      BY <2>1, <1>6, SubSeqEmpty DEF IsChain, IsList
    <3> QED BY <3>1, <3>2, SMT DEF IsPrefix
  <2>2. CASE c # <<>>
    <3>1. old = c
      BY <2>2 DEF old
    <3>2. Len(c) \in Nat /\ Len(c) <= Len(g) /\ \A i \in 1..Len(c) : c[i] = g[i]
      BY <3>1, <1>3, <1>5, SMT
    <3> DEFINE n == Len(c)
               a == SubSeq(c, 1, n)
               b == SubSeq(g, 1, n)
    <3>3. a = b
      <4>1. \A i \in 1..n : c[i] \in Range(c) /\ g[i] \in Range(c)
        BY <3>2, Entries
      <4>2. n \in Int /\ 1 \in Int /\ (n - 1) + 1 = n /\ (\A i \in 1..n : (1 + i) - 1 = i)
            /\ (IF 1 <= n THEN n ELSE 0) = n
        BY <3>2, SMT
      <4> HIDE DEF n
      <4>3. /\ a \in Seq(Range(c)) /\ b \in Seq(Range(c)) /\ Len(a) = n /\ Len(b) = n
            /\ \A i \in 1..n : a[i] = c[i] /\ b[i] = g[i]
        BY <4>1, <4>2, SubSeqProperties
      <4> HIDE DEF a, b
      <4> QED BY <3>2, <4>3, SeqEqual DEF n
    <3> QED BY <3>2, <3>3 DEF IsPrefix
  <2> QED BY <2>1, <2>2
<1>9. Len(g) = Len(c) + (IF c = <<>> THEN 2 ELSE 1)
  <2>1. Len(<<>>) = 0
    BY SMT
  <2> QED BY <1>3, <1>5, <2>1
<1> QED BY <1>5, <1>6, <1>7, <1>8, <1>9 DEF g

Before == CollectErrors(chain, second) \cup AllowMismatch(now, Collect(chain))
Ops    == Diff(Previous(now, chain), now)

(* The three ways synthesis can end: it reports and leaves the text alone, *)
(* finds nothing to do, or appends what validates.                         *)
LEMMA Answers ==
  ASSUME now \in Projections, IsChain(chain)
  PROVE  LET ans == SynthesizeRevisionSource
         IN  \/ /\ ans.outcome \in SUBSET Codes
                /\ ans.chain = chain
                /\ ~parses \/ Before # {} \/ ~Unchanged(now, chain)
             \/ /\ ans.outcome = {"no_op"} /\ ans.chain = chain
                /\ parses /\ Before = {} /\ Unchanged(now, chain)
             \/ /\ ans.outcome = {"appended"} /\ ans.chain = Grown(now, chain, Ops)
                /\ parses /\ Before = {} /\ ~Unchanged(now, chain) /\ Ops # <<>>
                /\ RequireCurrent(now, Grown(now, chain, Ops)) = {}
<1> DEFINE c      == Collect(chain)
           before == CollectErrors(chain, second) \cup AllowMismatch(now, c)
           ops    == Diff(Previous(now, c), now)
           grown  == Grown(now, c, ops)
           after  == Rejected(now, grown)
           ans    == SynthesizeRevisionSource
<1>1. Before = before
  BY DEF Before
<1>2. ans = CASE ~parses                -> Answer({"syntax"}, chain)
              [] parses /\ before # {} -> Answer(before, chain)
              [] OTHER ->
                   IF Unchanged(now, c) THEN Answer({"no_op"}, chain)
                   ELSE IF ops = <<>> THEN Answer({NoOpsCode(now, c)}, chain)
                   ELSE IF after # {} THEN Answer(after, chain)
                   ELSE Answer({"appended"}, grown)
  BY DEF SynthesizeRevisionSource
<1>3. \A o, r : Answer(o, r).outcome = o /\ Answer(o, r).chain = r
  BY DEF Answer
<1>4. before \subseteq Codes /\ after \subseteq Codes /\ "syntax" \in Codes /\ NoOpsCode(now, c) \in Codes
  BY DEF CollectErrors, AllowMismatch, ChainErrors, CurrentErrors, Code, Codes, Rejected,
         RequireCurrent, NoOpsCode
<1>5. before = {} => c = chain
  BY KnownIfClean
<1>6. after = RequireCurrent(now, grown)
  BY DEF Rejected
<1>7. c = chain => ops = Ops
  BY DEF Ops
<1> HIDE DEF before, ops, after, grown, c, ans
<1>8. CASE ~parses
  BY <1>2, <1>3, <1>4, <1>8 DEF ans
<1>9. CASE parses /\ before # {}
  BY <1>1, <1>2, <1>3, <1>4, <1>9 DEF ans
<1>10. CASE parses /\ before = {}
  <2>1. c = chain /\ ops = Ops /\ grown = Grown(now, chain, Ops)
    BY <1>5, <1>7, <1>10 DEF grown
  <2>2. CASE Unchanged(now, chain)
    BY <1>1, <1>2, <1>3, <1>10, <2>1, <2>2 DEF ans
  <2>3. CASE ~Unchanged(now, chain) /\ ops = <<>>
    <3>1. ans = Answer({NoOpsCode(now, c)}, chain)
      BY <1>2, <1>10, <2>1, <2>3
    <3>2. {NoOpsCode(now, c)} \in SUBSET Codes
      BY <1>4
    <3>3. ans.outcome = {NoOpsCode(now, c)} /\ ans.chain = chain
      BY <3>1, <1>3
    <3> QED BY <3>2, <3>3, <2>3 DEF ans
  <2>4. CASE ~Unchanged(now, chain) /\ ops # <<>> /\ after # {}
    <3>1. ans = Answer(after, chain)
      BY <1>2, <1>10, <2>1, <2>4
    <3> QED BY <3>1, <1>3, <1>4, <2>4 DEF ans
  <2>5. CASE ~Unchanged(now, chain) /\ ops # <<>> /\ after = {}
    <3>1. ans = Answer({"appended"}, grown)
      BY <1>2, <1>10, <2>1, <2>5
    <3> QED BY <3>1, <1>1, <1>3, <1>6, <1>10, <2>1, <2>5 DEF ans
  <2> QED BY <2>2, <2>3, <2>4, <2>5
<1> QED BY <1>8, <1>9, <1>10

-----------------------------------------------------------------------------
(* The invariant. *)

Typed ==
  /\ now \in Projections
  /\ parses \in BOOLEAN /\ second \in BOOLEAN
  /\ edits \in 0..MaxEdits /\ tampers \in 0..MaxTampers
  /\ outcome \in {{}, {"appended"}, {"no_op"}} \cup SUBSET Codes

\* As long as nobody else wrote in it, the chain has no errors of its own.
Untouched ==
  tampers = 0 =>
    /\ second = FALSE /\ AllKnown(chain)
    /\ chain # <<>> => ChainErrors(chain[1].result, chain) = {}

Clean == CollectErrors(chain, second) \cup RequireCurrent(now, Collect(chain)) = {}

Answered == outcome \in {{"appended"}, {"no_op"}} => parses /\ chain # <<>> /\ Clean

ChainInv == Typed /\ IsChain(chain) /\ Untouched /\ Answered

LEMMA InitInv ==
  Init => ChainInv
<1> SUFFICES ASSUME Init PROVE ChainInv
  OBVIOUS
<1>1. IsChain(<<>>) /\ AllKnown(<<>>)
  <2>1. DOMAIN <<>> = {}
    BY SMT
  <2> QED BY <2>1, One DEF IsChain, AllKnown
<1>2. {} # {"appended"} /\ {} # {"no_op"} /\ 0 \in 0..MaxEdits /\ 0 \in 0..MaxTampers
  BY ChainAssumption, SMT
<1> QED BY <1>1, <1>2 DEF Init, ChainInv, Typed, Untouched, Answered

LEMMA EditInv ==
  ChainInv /\ Edit => ChainInv'
<1> SUFFICES ASSUME ChainInv, Edit PROVE ChainInv'
  OBVIOUS
<1>1. chain' = chain /\ second' = second /\ tampers' = tampers /\ outcome' = {}
  BY DEF Edit
<1>2. Typed'
  <2>1. edits' \in 0..MaxEdits
    BY ChainAssumption, SMT DEF ChainInv, Typed, Edit
  <2> QED BY <1>1, <2>1 DEF ChainInv, Typed, Edit
<1>3. Untouched' /\ IsChain(chain)'
  BY <1>1 DEF ChainInv, Untouched
<1>4. Answered'
  BY <1>1 DEF Answered
<1> QED BY <1>2, <1>3, <1>4 DEF ChainInv

LEMMA TamperedChain ==
  ASSUME NEW c, IsChain(c), NEW d \in Tampered(c)
  PROVE  IsChain(d)
<1> DEFINE S == Range(c)
           n == Len(c)
<1>1. n \in Nat /\ DOMAIN c = 1..n /\ c \in Seq(S) /\ \A e \in S : IsEntry(e)
  BY Entries DEF IsChain, IsList
<1>2. \A i \in 1..n : c[i] \in S /\ IsEntry(c[i])
  BY Entries
<1>3. ASSUME NEW a \in Int, NEW b \in Int, 1 <= a, b <= n PROVE SubSeq(c, a, b) \in Seq(S)
  <2>1. \A i \in a..b : c[i] \in S
    BY <1>1, <1>2, <1>3, SMT
  <2> HIDE DEF S
  <2> QED BY <2>1, SubSeqProperties
<1>4. \A s \in Seq(S) : IsChain(s)
  BY <1>1, ListOf DEF IsChain
<1>5. ASSUME NEW i \in 1..n PROVE IsChain(RemoveAt(c, i)) /\ IsChain(InsertAt(c, i, c[i]))
  <2>1. /\ i \in Int /\ i - 1 \in Int /\ i + 1 \in Int /\ n \in Int /\ 1 \in Int
        /\ 1 <= 1 /\ i - 1 <= n /\ 1 <= i + 1 /\ n <= n /\ 1 <= i
    BY <1>1, SMT
  <2> HIDE DEF S
  <2>2. SubSeq(c, 1, i - 1) \in Seq(S) /\ SubSeq(c, i + 1, n) \in Seq(S) /\ SubSeq(c, i, n) \in Seq(S)
    BY <2>1, <1>3
  <2>3. <<c[i]>> \in Seq(S)
    BY <1>2, SMT
  <2>4. RemoveAt(c, i) \in Seq(S)
    BY <2>2, ConcatProperties DEF RemoveAt
  <2>5. InsertAt(c, i, c[i]) \in Seq(S)
    BY <2>2, <2>3, ConcatProperties DEF InsertAt
  <2> QED BY <2>4, <2>5, <1>4
<1>6. ASSUME NEW i \in 1..n, NEW e, IsEntry(e) PROVE IsChain([c EXCEPT ![i] = e])
  <2> DEFINE U == S \cup {e}
  <2>1. c \in Seq(U) /\ e \in U /\ \A x \in U : IsEntry(x)
    BY <1>1, <1>6, SeqMonotonic, S \subseteq U
  <2> HIDE DEF U
  <2>2. [c EXCEPT ![i] = e] \in Seq(U)
    BY <2>1, ExceptSeq
  <2> QED BY <2>1, <2>2, ListOf DEF IsChain
<1>7. ASSUME NEW i \in 1..n
      PROVE  /\ IsChain([c EXCEPT ![i].base = NoHash])
             /\ IsChain([c EXCEPT ![i].ops = Append(@, Op("unknown", <<>>, NoKey, <<>>))])
  <2> DEFINE op == Op("unknown", <<>>, NoKey, <<>>)
             a == [c[i] EXCEPT !.base = NoHash]
             b == [c[i] EXCEPT !.ops = Append(c[i].ops, op)]
  <2>1. IsEntry(c[i])
    BY <1>2
  <2>2. IsEntry(a)
    <3>1. a = Revision(c[i].number, NoHash, c[i].result, c[i].ops)
      BY <2>1 DEF IsEntry, Revision
    <3> HIDE DEF a
    <3> QED BY <2>1, <3>1 DEF IsEntry, Revision
  <2>3. IsEntry(b)
    <3> DEFINE ops == Append(c[i].ops, op)
    <3>1. IsList(ops) /\ ops # <<>>
      <4> DEFINE V == Range(c[i].ops) \cup {op}
      <4>1. c[i].ops \in Seq(V) /\ op \in V
        BY <2>1, SeqMonotonic, Range(c[i].ops) \subseteq V DEF IsEntry, IsList
      <4> HIDE DEF V, op
      <4>2. Append(c[i].ops, op) \in Seq(V) /\ Append(c[i].ops, op) # <<>>
        BY <4>1, AppendProperties
      <4> QED BY <4>2, ListOf
    <3> HIDE DEF ops
    <3>2. b = Revision(c[i].number, c[i].base, c[i].result, ops)
      BY <2>1 DEF IsEntry, Revision, ops
    <3> HIDE DEF b
    <3> QED BY <2>1, <3>1, <3>2 DEF IsEntry, Revision
  <2>4. IsChain([c EXCEPT ![i] = a]) /\ IsChain([c EXCEPT ![i] = b])
    <3> HIDE DEF a, b
    <3> QED BY <2>2, <2>3, <1>6
  <2> QED BY <2>4
<1>8. 2..n \subseteq 1..n
  BY SMT
<1> HIDE DEF S
<1> QED BY <1>1, <1>5, <1>7, <1>8 DEF Tampered

LEMMA TamperInv ==
  ChainInv /\ Tamper => ChainInv'
<1> SUFFICES ASSUME ChainInv, Tamper PROVE ChainInv'
  OBVIOUS
<1>1. tampers' = tampers + 1 /\ outcome' = {} /\ tampers \in 0..MaxTampers /\ tampers < MaxTampers
  BY DEF Tamper, ChainInv, Typed
<1>2. tampers' \in 0..MaxTampers /\ tampers' # 0
  BY <1>1, ChainAssumption, SMT
<1>3. IsChain(chain)'
  <2>1. CASE chain' \in Tampered(chain)
    BY <2>1, TamperedChain DEF ChainInv
  <2>2. CASE chain' = chain
    BY <2>2 DEF ChainInv
  <2> QED BY <2>1, <2>2 DEF Tamper
<1>4. Typed'
  BY <1>1, <1>2 DEF Tamper, ChainInv, Typed
<1>5. Untouched' /\ Answered'
  BY <1>1, <1>2 DEF Untouched, Answered
<1> QED BY <1>3, <1>4, <1>5 DEF ChainInv

(* What the diff finds out of what the replay of a readable chain left.    *)
LEMMA OpsKnown ==
  ASSUME now \in Projections, IsChain(chain), Before = {}
  PROVE  IsOps(Ops) /\ AllKnown(chain) /\ second # TRUE /\ Collect(chain) = chain
         /\ AllowMismatch(now, chain) = {}
<1>1. AllKnown(chain) /\ ~second /\ Collect(chain) = chain /\ AllowMismatch(now, chain) = {}
  BY KnownIfClean DEF Before
<1>2. IsItems(now.items) /\ IsList(now.imports) /\ Empty(now.name) # Hole
  BY Names
<1>3. IsItems(Previous(now, chain).items)
  <2>1. CASE chain = <<>>
    <3>1. IsEntries(<<>>) /\ Range(<<>>) = {}
      BY One DEF IsEntries
    <3> QED BY <2>1, <3>1 DEF Previous, Empty, IsItems
  <2>2. CASE chain # <<>>
    <3>1. ChainErrors(now, chain) = {}
      BY <1>1, <2>2 DEF AllowMismatch
    <3>2. Previous(now, chain) = chain[Len(chain)].result
      BY <1>2, <2>2, <3>1, ValidHistory DEF Previous
    <3>3. IsEntry(chain[Len(chain)])
      BY <2>2, Entries, SMT
    <3> QED BY <3>2, <3>3, Shapes
  <2> QED BY <2>1, <2>2
<1>4. IsOps(Ops)
  BY <1>2, <1>3, DiffKnown DEF Ops
<1> QED BY <1>1, <1>4

LEMMA SynthesizeInv ==
  ChainInv /\ Synthesize => ChainInv'
<1> SUFFICES ASSUME ChainInv, Synthesize PROVE ChainInv'
  OBVIOUS
<1> DEFINE ans == SynthesizeRevisionSource
           grown == Grown(now, chain, Ops)
<1>1. /\ outcome' = ans.outcome /\ chain' = ans.chain
      /\ now' = now /\ parses' = parses /\ second' = second /\ edits' = edits /\ tampers' = tampers
  BY DEF Synthesize
<1>2. now \in Projections /\ IsChain(chain) /\ second \in BOOLEAN /\ Empty(now.name) # Hole
  BY Names DEF ChainInv, Typed
<1>3. CASE ans.outcome \in SUBSET Codes /\ ans.chain = chain
  <2>1. outcome' \in SUBSET Codes /\ chain' = chain
    BY <1>1, <1>3
  <2>2. Typed' /\ IsChain(chain)' /\ Untouched'
    BY <1>1, <2>1 DEF ChainInv, Typed, Untouched
  <2>3. Answered'
    BY <2>1 DEF Answered, Codes
  <2> QED BY <2>2, <2>3 DEF ChainInv
<1>4. CASE /\ ans.outcome = {"no_op"} /\ ans.chain = chain
           /\ parses /\ Before = {} /\ Unchanged(now, chain)
  <2>1. outcome' = {"no_op"} /\ chain' = chain
    BY <1>1, <1>4
  <2>2. Typed' /\ IsChain(chain)' /\ Untouched'
    BY <1>1, <2>1 DEF ChainInv, Typed, Untouched
  <2>3. Answered'
    <3>1. chain # <<>> /\ chain[Len(chain)].result = now
      BY <1>4 DEF Unchanged
    <3>2. Collect(chain) = chain /\ ChainErrors(now, chain) = {}
      BY <1>2, <1>4, <3>1, OpsKnown DEF AllowMismatch
    <3>3. Replay(now.name, chain) = now
      BY <1>2, <3>1, <3>2, ValidHistory
    <3>4. CollectErrors(chain, second) = {}
      BY <1>4 DEF Before
    <3>5. Clean
      BY <3>1, <3>2, <3>3, <3>4 DEF Clean, RequireCurrent, CurrentErrors, Code
    <3>6. Clean'
      BY <1>1, <2>1, <3>5 DEF Clean
    <3> QED BY <1>1, <1>4, <2>1, <3>1, <3>6 DEF Answered
  <2> QED BY <2>2, <2>3 DEF ChainInv
<1>5. CASE /\ ans.outcome = {"appended"} /\ ans.chain = grown
           /\ parses /\ Before = {} /\ Ops # <<>>
           /\ RequireCurrent(now, grown) = {}
  <2>1. outcome' = {"appended"} /\ chain' = grown
    BY <1>1, <1>5
  <2>2. IsOps(Ops) /\ AllKnown(chain) /\ second = FALSE
    BY <1>2, <1>5, OpsKnown
  <2>3. IsChain(grown) /\ AllKnown(grown) /\ grown # <<>>
    BY <1>2, <1>5, <2>2, GrownChain
  <2>4. Collect(grown) = grown /\ CollectErrors(grown, FALSE) = {}
    BY <2>3, NothingDropped, CleanIfKnown
  <2>5. ChainErrors(now, grown) = {}
    BY <1>5, <2>3 DEF RequireCurrent
  <2>6. ChainErrors(grown[1].result, grown) = {}
    <3>1. grown[1].result.name = now.name
      BY <1>2, <2>3, <2>5, ValidHistory
    <3> HIDE DEF grown
    <3> QED BY <2>5, <3>1, ByName
  <2>7. CollectErrors(grown, second) \cup RequireCurrent(now, Collect(grown)) = {}
    BY <1>5, <2>2, <2>4
  <2> HIDE DEF grown
  <2>8. Typed' /\ IsChain(chain)'
    BY <1>1, <2>1, <2>3 DEF ChainInv, Typed
  <2>9. Untouched'
    BY <1>1, <2>1, <2>2, <2>3, <2>6 DEF Untouched
  <2>10. Answered'
    BY <1>1, <1>5, <2>1, <2>3, <2>7 DEF Answered, Clean
  <2> QED BY <2>8, <2>9, <2>10 DEF ChainInv
<1> QED BY <1>2, <1>3, <1>4, <1>5, Answers

LEMMA StepInv ==
  ChainInv /\ [Next]_vars => ChainInv'
<1> SUFFICES ASSUME ChainInv, [Next]_vars PROVE ChainInv'
  OBVIOUS
<1>1. CASE UNCHANGED vars
  BY <1>1 DEF ChainInv, Typed, Untouched, Answered, Clean, vars
<1> QED BY <1>1, EditInv, TamperInv, SynthesizeInv DEF Next

(* In every reachable state the chain is a chain, one nobody tampered with *)
(* is a clean history, and a finished answer is about what is on disk:     *)
(* the invariant from which the six theorems below follow.                 *)
THEOREM ChainInvariant == Spec => []ChainInv
<1> QED BY InitInv, StepInv, PTL DEF Spec

-----------------------------------------------------------------------------
(* The theorems. *)

LEMMA CleanHistory ==
  ASSUME now \in Projections, IsChain(chain), chain # <<>>, Clean
  PROVE  /\ \A i \in DOMAIN chain : Linked(chain, i) /\ Replays(chain, i)
         /\ chain[Len(chain)].result = now
         /\ Before = {}
<1>1. Collect(chain) = chain /\ CollectErrors(chain, second) = {}
  BY KnownIfClean DEF Clean
<1>2. ChainErrors(now, chain) = {} /\ CurrentErrors(now, chain) = {}
  BY <1>1 DEF Clean, RequireCurrent
<1>3. chain[Len(chain)].result = now
  BY <1>2 DEF CurrentErrors, Code
<1>4. \A i \in DOMAIN chain : Linked(chain, i) /\ Replays(chain, i)
  BY <1>2, Names, ValidHistory
<1> QED BY <1>1, <1>2, <1>3, <1>4 DEF Before, AllowMismatch

(* The slice, the chain, the answer and the budgets have their types.      *)
THEOREM SpecTypeOK == Spec => []TypeOK
<1>1. ChainInv => TypeOK
  <2> SUFFICES ASSUME ChainInv PROVE TypeOK
    OBVIOUS
  <2>1. ASSUME NEW i \in DOMAIN chain
        PROVE  /\ DOMAIN chain[i] = {"number", "base", "result", "ops"}
               /\ chain[i].number \in Nat
               /\ chain[i].ops # <<>>
    <3>1. IsEntry(chain[i])
      BY Entries DEF ChainInv
    <3>2. \A number, base, result, ops :
            DOMAIN Revision(number, base, result, ops) = {"number", "base", "result", "ops"}
      BY DEF Revision
    <3> QED BY <3>1, <3>2 DEF IsEntry
  <2> QED BY <2>1 DEF ChainInv, Typed, TypeOK
<1> QED BY <1>1, ChainInvariant, PTL

(* A chain only synthesis has written is numbered from one without gaps,   *)
(* names at every entry the state before it and replays to the state the   *)
(* entry declares: whatever slices the author went through in between.     *)
THEOREM SpecWrittenChainIsHistory == Spec => []WrittenChainIsHistory
<1>1. ChainInv => WrittenChainIsHistory
  <2> SUFFICES ASSUME ChainInv, tampers = 0, NEW i \in DOMAIN chain
               PROVE  Linked(chain, i) /\ Replays(chain, i)
    BY DEF WrittenChainIsHistory
  <2>1. chain # <<>>
    BY SMT
  <2>2. IsEntry(chain[1]) /\ IsChain(chain)
    BY <2>1, Entries, SMT DEF ChainInv
  <2>3. Empty(chain[1].result.name) # Hole
    BY <2>2, Names DEF ChainInv, Typed
  <2>4. ChainErrors(chain[1].result, chain) = {}
    BY <2>1 DEF ChainInv, Untouched
  <2> QED BY <2>1, <2>2, <2>3, <2>4, ValidHistory
<1> QED BY <1>1, ChainInvariant, PTL

(* Edits of the slice alone never make a written chain invalid, unless one *)
(* renames the slice, from whose current name replay starts.               *)
THEOREM SpecEditsKeepTheChainReadable == Spec => []EditsKeepTheChainReadable
<1>1. ChainInv => EditsKeepTheChainReadable
  BY ByName DEF ChainInv, Untouched, EditsKeepTheChainReadable, AllowMismatch
<1> QED BY <1>1, ChainInvariant, PTL

(* After synthesis answered that it appended, or that nothing changed, a   *)
(* walk finds no fault with the revisions, hand-edited or not.             *)
THEOREM SpecAnswerIsClean == Spec => []AnswerIsClean
<1>1. ChainInv => AnswerIsClean
  BY DEF ChainInv, Answered, Clean, AnswerIsClean
<1> QED BY <1>1, ChainInvariant, PTL

(* A file the walk accepts has a history that replays to what it says,     *)
(* even after somebody edited the revisions block by hand.                 *)
THEOREM SpecCleanMeansHistory == Spec => []CleanMeansHistory
<1>1. ChainInv => CleanMeansHistory
  BY CleanHistory DEF ChainInv, Typed, CleanMeansHistory, Clean
<1> QED BY <1>1, ChainInvariant, PTL

(* Synthesis never rewrites an entry: it adds none or one at the end, two  *)
(* when it starts the chain, and none after an answer that all is recorded.*)
THEOREM SpecOnlyAppends == Spec => OnlyAppends
<1> DEFINE A == Synthesize =>
                  /\ IsPrefix(chain, chain')
                  /\ Len(chain') - Len(chain) \in {0, IF chain = <<>> THEN 2 ELSE 1}
                  /\ outcome \in {{"appended"}, {"no_op"}} => outcome' = {"no_op"}
<1>1. ChainInv /\ [Next]_vars => [A]_vars
  <2> SUFFICES ASSUME ChainInv, Synthesize
               PROVE  /\ IsPrefix(chain, chain')
                      /\ Len(chain') - Len(chain) \in {0, IF chain = <<>> THEN 2 ELSE 1}
                      /\ outcome \in {{"appended"}, {"no_op"}} => outcome' = {"no_op"}
    OBVIOUS
  <2> DEFINE ans == SynthesizeRevisionSource
             grown == Grown(now, chain, Ops)
  <2>1. outcome' = ans.outcome /\ chain' = ans.chain
    BY DEF Synthesize
  <2>2. now \in Projections /\ IsChain(chain) /\ Len(chain) \in Nat
    BY Entries DEF ChainInv, Typed
  <2>3. outcome \in {{"appended"}, {"no_op"}} => parses /\ Before = {} /\ Unchanged(now, chain)
    BY <2>2, CleanHistory DEF ChainInv, Answered, Unchanged
  <2>4. CASE ans.chain = chain
    <3>1. IsPrefix(chain, chain) /\ Len(chain) - Len(chain) = 0
      BY <2>2, SMT DEF IsPrefix
    <3>2. outcome \in {{"appended"}, {"no_op"}} => outcome' = {"no_op"}
      BY <2>1, <2>2, <2>3, Answers
    <3> QED BY <2>1, <2>4, <3>1, <3>2
  <2>5. CASE ans.chain # chain
    <3>1. /\ ans.chain = grown /\ Before = {} /\ Ops # <<>> /\ ~Unchanged(now, chain)
      BY <2>2, <2>5, Answers
    <3>2. /\ IsPrefix(chain, grown)
          /\ Len(grown) = Len(chain) + (IF chain = <<>> THEN 2 ELSE 1)
      BY <2>2, <3>1, OpsKnown, GrownChain
    <3>3. (Len(chain) + (IF chain = <<>> THEN 2 ELSE 1)) - Len(chain) = IF chain = <<>> THEN 2 ELSE 1
      BY <2>2, SMT
    <3> HIDE DEF grown, ans
    <3> QED BY <2>1, <2>3, <3>1, <3>2, <3>3
  <2> QED BY <2>4, <2>5
<1>2. Spec => [][A]_vars
  BY <1>1, ChainInvariant, PTL DEF Spec
<1> QED BY <1>2 DEF OnlyAppends

=============================================================================
