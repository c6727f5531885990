-------------------------- MODULE SliceViewer_proof --------------------------
(***************************************************************************)
(* The cursors of the viewer fit and its screen is that of the disk, for   *)
(* all files, texts and analyses; and its panes and `memspec query` say    *)
(* the same of a slice, for all slices.                                    *)
(***************************************************************************)
EXTENDS SlicePanes, SliceAnalysis_proof

Content == Texts \cup {Absent}

ViewType ==
  /\ disk \in [Path -> Content]
  /\ phase \in {"loading", "loaded", "idle", "quit"}
  /\ discovered \in Seq(Path)
  /\ activeRoot \in Path
  /\ phase = "loaded" => ws \in WorkingSets /\ activeRoot \in DOMAIN ws
  /\ focused \in Pane
  /\ selected \in [Pane -> Nat]
  /\ slotRows \in Seq(SlotRow)
  /\ \E S : diagRows \in Seq(S)

ViewInv == ViewType /\ CursorsFit

-----------------------------------------------------------------------------
(* The start.                                                              *)

(* A selected item of a list is where it says, if it is anywhere.          *)
LEMMA PositionIs ==
  ASSUME NEW S, NEW s \in Seq(S), NEW x
  PROVE  /\ PositionOf(s, x) \in 0..Len(s)
         /\ PositionOf(s, x) = 0 <=> Len(s) = 0
         /\ Has(s, x) => s[PositionOf(s, x)] = x
<1>1. DOMAIN s = 1..Len(s) /\ Len(s) \in Nat /\ (s = <<>> <=> Len(s) = 0)
  BY EmptySeq, LenProperties
<1>2. CASE s = <<>>
  BY <1>1, <1>2 DEF PositionOf, Has
<1>3. CASE s # <<>> /\ Has(s, x)
  <2>1. PositionOf(s, x) \in DOMAIN s /\ s[PositionOf(s, x)] = x
    BY <1>3 DEF PositionOf, Has
  <2> QED
    BY <1>1, <1>3, <2>1
<1>4. CASE s # <<>> /\ ~Has(s, x)
  BY <1>1, <1>4 DEF PositionOf
<1> QED
  BY <1>2, <1>3, <1>4

(* The slice that is shown first is one of the list.                       *)
LEMMA FirstRootListed ==
  ASSUME NEW inv \in Invocations, NEW d \in [Path -> Content]
  PROVE  /\ Discovered(inv, d) \in Seq(Path) /\ FirstRoot(inv, d) \in Path
         /\ Discovered(inv, d) # <<>> => Has(Discovered(inv, d), FirstRoot(inv, d))
<1> DEFINE f == Found(inv, d)
<1>1. inv.path \in Path
  BY ViewerAssumption DEF Invocation
<1>2. f \in Seq(Path)
  <2>1. \A S \in SUBSET Siblings : InOrder(S) \in Seq(S) /\ S \subseteq Path
    BY ViewerAssumption
  <2>2. \E S \in SUBSET Siblings : f = InOrder(S)
    BY DEF Found
  <2>3. PICK S \in SUBSET Siblings : f \in Seq(S) /\ S \subseteq Path
    BY <2>1, <2>2
  <2> QED
    BY <2>3, SeqMonotonic
<1> HIDE DEF f
<1>3. DOMAIN f = 1..Len(f) /\ Len(f) \in Nat /\ (f # <<>> => 1 \in DOMAIN f)
  BY <1>2, EmptySeq, LenProperties
<1>4. CASE inv.isDir \/ Has(f, inv.path)
  <2>1. Discovered(inv, d) = f
    BY <1>4 DEF Discovered, f
  <2>2. FirstRoot(inv, d) = IF inv.isDir /\ f # <<>> THEN f[1] ELSE inv.path
    BY DEF FirstRoot, f
  <2> QED
    BY <1>1, <1>2, <1>3, <1>4, <2>1, <2>2 DEF Has
<1>5. CASE ~(inv.isDir \/ Has(f, inv.path))
  <2>1. Discovered(inv, d) = <<inv.path>> \o f /\ FirstRoot(inv, d) = inv.path
    BY <1>5 DEF Discovered, FirstRoot, f
  <2>2. <<inv.path>> \in Seq(Path) /\ Len(<<inv.path>>) = 1 /\ <<inv.path>>[1] = inv.path
    BY <1>1
  <2>3. /\ <<inv.path>> \o f \in Seq(Path)
        /\ Len(<<inv.path>> \o f) = 1 + Len(f)
        /\ (<<inv.path>> \o f)[1] = inv.path
    BY <1>2, <1>3, <2>2, ConcatProperties
  <2>4. 1 \in DOMAIN (<<inv.path>> \o f)
    BY <1>3, <2>3, LenProperties
  <2> QED
    BY <1>1, <2>1, <2>3, <2>4 DEF Has
<1> QED
  BY <1>4, <1>5

LEMMA ViewInit == Init => ViewInv
<1> SUFFICES ASSUME Init PROVE ViewInv
  OBVIOUS
<1>1. disk \in [Path -> Content]
  BY DEF Init, Content
<1>2. PICK inv \in Invocations :
        discovered = Discovered(inv, disk) /\ activeRoot = FirstRoot(inv, disk)
  BY DEF Init
<1>3. discovered \in Seq(Path) /\ activeRoot \in Path
        /\ (discovered # <<>> => Has(discovered, activeRoot))
  BY <1>1, <1>2, FirstRootListed
<1>4. /\ PositionOf(discovered, activeRoot) \in 0..Len(discovered)
      /\ PositionOf(discovered, activeRoot) = 0 <=> Len(discovered) = 0
      /\ Has(discovered, activeRoot) => discovered[PositionOf(discovered, activeRoot)] = activeRoot
  BY <1>3, PositionIs
<1>5. /\ focused = "slices" /\ slotRows = <<>> /\ diagRows = <<>> /\ phase = "loading"
      /\ selected = [p \in Pane |-> IF p = "slices" THEN PositionOf(discovered, activeRoot) ELSE 0]
  BY DEF Init
<1>6. /\ selected \in [Pane -> Nat] /\ selected["slices"] = PositionOf(discovered, activeRoot)
      /\ selected["slots"] = 0 /\ selected["diagnostics"] = 0
  BY <1>3, <1>4, <1>5, LenProperties DEF Pane
<1>7. slotRows \in Seq(SlotRow) /\ diagRows \in Seq({}) /\ Len(slotRows) = 0 /\ Len(diagRows) = 0
  BY <1>5
<1>8. ViewType
  BY <1>1, <1>3, <1>5, <1>6, <1>7 DEF ViewType, Pane
<1>9. CursorsFit
  BY <1>3, <1>4, <1>6, <1>7 DEF CursorsFit, Pane, Rows
<1> QED
  BY <1>8, <1>9 DEF ViewInv

-----------------------------------------------------------------------------
(* A reload.                                                               *)

LEMMA LoadInv ==
  ASSUME ViewInv, Load
  PROVE  ViewInv'
<1>1. activeRoot \in Reached(activeRoot, disk) /\ Reached(activeRoot, disk) \subseteq Path
  BY DEF ViewInv, ViewType, Reached
<1>2. ws' \in [Reached(activeRoot, disk) -> Texts \cup {Absent}]
  BY <1>1 DEF Load, ViewInv, ViewType, Content
<1>3. ws' \in WorkingSets /\ activeRoot \in DOMAIN ws'
  BY <1>1, <1>2 DEF WorkingSets
<1>4. UNCHANGED <<disk, discovered, activeRoot, focused, selected, slotRows, diagRows>>
        /\ phase' = "loaded"
  BY DEF Load
<1>5. ViewType'
  BY <1>3, <1>4 DEF ViewInv, ViewType
<1>6. CursorsFit'
  BY <1>4 DEF ViewInv, CursorsFit, Rows
<1> QED
  BY <1>5, <1>6 DEF ViewInv

LEMMA RebuildInv ==
  ASSUME ViewInv, Rebuild
  PROVE  ViewInv'
<1>1. ws \in WorkingSets /\ activeRoot \in DOMAIN ws
  BY DEF ViewInv, ViewType, Rebuild
<1>2. slotRows' \in Seq(SlotRow)
  <2>1. ws[activeRoot] \in Texts \cup {Absent}
    BY <1>1 DEF WorkingSets
  <2> QED
    BY <2>1, ViewerAssumption DEF Rebuild, CurrentRows
<1>3. \E S : diagRows' \in Seq(S)
  <2> DEFINE found == Analysis(ws)
             rows  == [i \in DOMAIN found |-> DiagRow(found[i])]
  <2>1. found \in Seq(Diagnostic)
    BY <1>1, ViewerAssumption
  <2>2. DOMAIN rows = 1..Len(found) /\ Len(found) \in Nat
    BY <2>1, LenProperties
  <2>3. diagRows' = Sorted(rows)
    BY DEF Rebuild, CurrentDiags
  <2> HIDE DEF rows, found
  <2>4. PICK n \in Nat : DOMAIN rows = 1..n
    BY <2>2
  <2>5. DOMAIN Sorted(rows) = 1..n /\ Sorted(rows) = [i \in 1..n |-> Sorted(rows)[i]]
    BY <2>4 DEF Sorted
  <2>6. Sorted(rows) \in [1..n -> {Sorted(rows)[i] : i \in 1..n}]
    BY <2>5
  <2>7. Sorted(rows) \in Seq({Sorted(rows)[i] : i \in 1..n})
    BY <2>6, IsASeq
  <2> QED
    BY <2>3, <2>7
<1>4. /\ UNCHANGED <<disk, discovered, activeRoot, ws, focused>> /\ phase' = "idle"
      /\ selected' = [selected EXCEPT !["slots"] = Reselected(@, slotRows'),
                                      !["diagnostics"] = Reselected(@, diagRows')]
  BY DEF Rebuild
<1>5. /\ selected' \in [Pane -> Nat] /\ selected'["slices"] = selected["slices"]
      /\ selected'["slots"] = IF slotRows' = <<>> THEN 0 ELSE 1
      /\ selected'["diagnostics"] = IF diagRows' = <<>> THEN 0 ELSE 1
  BY <1>4 DEF ViewInv, ViewType, Pane, Reselected
<1>6. /\ Len(slotRows') \in Nat /\ (Len(slotRows') = 0 <=> slotRows' = <<>>)
      /\ Len(diagRows') \in Nat /\ (Len(diagRows') = 0 <=> diagRows' = <<>>)
  BY <1>2, <1>3, EmptySeq, LenProperties
<1>7. ViewType'
  BY <1>2, <1>3, <1>4, <1>5 DEF ViewInv, ViewType
<1>8. CursorsFit'
  BY <1>4, <1>5, <1>6 DEF ViewInv, CursorsFit, Pane, Rows
<1> QED
  BY <1>7, <1>8 DEF ViewInv

-----------------------------------------------------------------------------
(* The keys, and the editor.                                               *)

(* What neither pane nor selection depends on.                             *)
LEMMA KeptInv ==
  ASSUME ViewInv,
         UNCHANGED <<discovered, activeRoot, ws, selected, slotRows, diagRows>>,
         disk' \in [Path -> Content], focused' \in Pane,
         phase' = phase \/ phase' \in {"loading", "idle", "quit"}
  PROVE  ViewInv'
<1>1. ViewType'
  BY DEF ViewInv, ViewType
<1>2. CursorsFit'
  BY DEF ViewInv, CursorsFit, Rows
<1> QED
  BY <1>1, <1>2 DEF ViewInv

(* The selection moves to a row.                                           *)
LEMMA SelectInv ==
  ASSUME ViewInv, HasRows, NEW n \in 1..Rows(focused), Select(n)
  PROVE  ViewInv'
<1>1. /\ UNCHANGED <<disk, discovered, ws, focused, slotRows, diagRows>>
      /\ selected' = [selected EXCEPT ![focused] = n]
  BY DEF Select
<1>2. /\ focused \in Pane /\ Len(discovered) \in Nat /\ Len(slotRows) \in Nat
      /\ Len(diagRows) \in Nat /\ discovered \in Seq(Path)
  BY LenProperties DEF ViewInv, ViewType
<1>3. \A pane \in Pane : Rows(pane) \in Nat /\ (Rows(pane))' = Rows(pane)
  BY <1>1, <1>2 DEF Rows, Pane
<1>4. /\ selected' \in [Pane -> Nat]
      /\ \A pane \in Pane : selected'[pane] = IF pane = focused THEN n ELSE selected[pane]
  BY <1>1, <1>2, <1>3 DEF ViewInv, ViewType
<1>5. CASE focused = "slices"
  <2>1. n \in 1..Len(discovered) /\ activeRoot' = discovered[n] /\ phase' = "loading"
    BY <1>5 DEF Rows, Select, Shown
  <2>2. activeRoot' \in Path
    BY <1>2, <2>1
  <2>3. ViewType'
    BY <1>1, <1>4, <2>1, <2>2 DEF ViewInv, ViewType
  <2>4. CursorsFit'
    BY <1>1, <1>2, <1>3, <1>4, <1>5, <2>1 DEF ViewInv, CursorsFit, Pane, Rows
  <2> QED
    BY <2>3, <2>4 DEF ViewInv
<1>6. CASE focused # "slices"
  <2>1. UNCHANGED <<activeRoot, phase>>
    BY <1>6 DEF Select
  <2>2. ViewType'
    BY <1>1, <1>4, <2>1 DEF ViewInv, ViewType
  <2>3. \A pane \in Pane : /\ selected'[pane] \in 0..Rows(pane)
                           /\ selected'[pane] = 0 <=> Rows(pane) = 0
    BY <1>3, <1>4 DEF ViewInv, CursorsFit
  <2>4. selected'["slices"] = selected["slices"]
    BY <1>4, <1>6 DEF Pane
  <2>5. CursorsFit'
    BY <1>1, <2>1, <2>3, <2>4 DEF ViewInv, CursorsFit, Rows
  <2> QED
    BY <2>2, <2>5 DEF ViewInv
<1> QED
  BY <1>5, <1>6

LEMMA MoveInv ==
  ASSUME ViewInv, Down \/ Up \/ First \/ End
  PROVE  ViewInv'
<1>1. HasRows /\ focused \in Pane /\ selected[focused] \in 0..Rows(focused)
  BY DEF Down, Up, First, End, ViewInv, ViewType, CursorsFit
<1>2. Rows(focused) \in Nat /\ Rows(focused) > 0
  BY <1>1, LenProperties DEF HasRows, Rows, Pane, ViewInv, ViewType
<1>3. /\ Below(selected[focused], Rows(focused)) \in 1..Rows(focused)
      /\ Above(selected[focused]) \in 1..Rows(focused)
  BY <1>1, <1>2 DEF Below, Above
<1>4. 1 \in 1..Rows(focused) /\ Rows(focused) \in 1..Rows(focused)
  BY <1>2
<1> QED
  BY <1>1, <1>3, <1>4, SelectInv DEF Down, Up, First, End

LEMMA ViewStep == ViewInv /\ [Next]_vars => ViewInv'
<1> SUFFICES ASSUME ViewInv, [Next]_vars PROVE ViewInv'
  OBVIOUS
<1>t. disk \in [Path -> Content] /\ focused \in Pane
  BY DEF ViewInv, ViewType
<1>1. CASE Quit \/ Reload
  BY <1>1, <1>t, KeptInv DEF Quit, Reload
<1>2. CASE Digit \/ Tab \/ BackTab
  <2>1. PICK pane \in Pane : FocusOn(pane)
    BY <1>2, <1>t DEF Digit, Tab, BackTab, Pane
  <2> QED
    BY <1>t, <2>1, KeptInv DEF FocusOn
<1>3. CASE \E p \in File : Save(p)
  <2>1. PICK p \in File : Save(p)
    BY <1>3
  <2>2. disk' \in [Path -> Content]
    BY <1>t, <2>1 DEF Save, Content
  <2> QED
    BY <1>t, <2>1, <2>2, KeptInv DEF Save
<1>4. CASE UNCHANGED vars
  BY <1>4, <1>t, KeptInv DEF vars
<1> QED
  BY <1>1, <1>2, <1>3, <1>4, LoadInv, RebuildInv, MoveInv DEF Next, Viewer

-----------------------------------------------------------------------------
(* However the files, their number and what the analysis says of them      *)
(* change between two keys, tui.rs never indexes a list behind its end,    *)
(* and the slice it shows is the one under the cursor.                     *)
THEOREM CursorsAlwaysFit == Spec => []CursorsFit
<1>1. ViewInv => CursorsFit
  BY DEF ViewInv
<1> QED
  BY <1>1, ViewInit, ViewStep, PTL DEF Spec
-----------------------------------------------------------------------------
(* Sorting.  Before is a strict total order of the places, so the number   *)
(* of places before one is its own: the CHOOSE of Sorted finds each once.  *)

IsDiagRow(r) == r.severity \in Nat /\ r.file \in Path /\ r.line \in Nat

Lower(rows, i) == {j \in DOMAIN rows : Before(rows, j, i)}
RankIn(rows, i) == Cardinality(Lower(rows, i))

LEMMA WeakOrder ==
  ASSUME NEW r, NEW s, NEW t, IsDiagRow(r), IsDiagRow(s), IsDiagRow(t)
  PROVE  /\ ~Precedes(r, r)
         /\ ~(Precedes(r, s) /\ Precedes(s, r))
         /\ Precedes(r, s) /\ Precedes(s, t) => Precedes(r, t)
         /\ ~Precedes(s, r) /\ ~Precedes(t, s) => ~Precedes(t, r)
         /\ ~Precedes(s, r) => r.severity <= s.severity
<1>1. /\ PathRank(r.file) \in Nat /\ PathRank(s.file) \in Nat /\ PathRank(t.file) \in Nat
      /\ r.file = s.file <=> PathRank(r.file) = PathRank(s.file)
      /\ s.file = t.file <=> PathRank(s.file) = PathRank(t.file)
      /\ r.file = t.file <=> PathRank(r.file) = PathRank(t.file)
  BY ViewerAssumption DEF IsDiagRow
<1> QED
  BY <1>1 DEF IsDiagRow, Precedes

LEMMA TotalOrder ==
  ASSUME NEW n \in Nat, NEW rows, \A i \in 1..n : IsDiagRow(rows[i]),
         NEW i \in 1..n, NEW j \in 1..n, NEW k \in 1..n
  PROVE  /\ ~Before(rows, i, i)
         /\ Before(rows, i, j) /\ Before(rows, j, k) => Before(rows, i, k)
         /\ i = j \/ Before(rows, i, j) \/ Before(rows, j, i)
         /\ Before(rows, i, j) => rows[i].severity <= rows[j].severity
<1> DEFINE P(x, y) == Precedes(rows[x], rows[y])
<1>1. /\ ~P(i, i) /\ ~(P(i, j) /\ P(j, i))
      /\ P(i, j) /\ P(j, k) => P(i, k)
      /\ ~P(i, k) /\ ~P(k, j) => ~P(i, j)
      /\ ~P(j, i) /\ ~P(i, k) => ~P(j, k)
      /\ ~P(j, i) /\ ~P(k, j) => ~P(k, i)
      /\ ~P(j, i) => rows[i].severity <= rows[j].severity
  BY WeakOrder
<1>2. /\ Before(rows, i, i) <=> P(i, i)
      /\ Before(rows, i, j) <=> P(i, j) \/ (~P(j, i) /\ i < j)
      /\ Before(rows, j, i) <=> P(j, i) \/ (~P(i, j) /\ j < i)
      /\ Before(rows, j, k) <=> P(j, k) \/ (~P(k, j) /\ j < k)
      /\ Before(rows, i, k) <=> P(i, k) \/ (~P(k, i) /\ i < k)
  BY DEF Before
<1> HIDE DEF P
<1>3. ~Before(rows, i, i)
  BY <1>1, <1>2
<1>4. Before(rows, i, j) /\ Before(rows, j, k) => Before(rows, i, k)
  <2>1. i < j /\ j < k => i < k
    OBVIOUS
  <2>2. CASE P(i, j) /\ P(j, k)
    BY <1>1, <1>2, <2>2
  <2>3. CASE ~P(j, i) /\ i < j
    BY <1>1, <1>2, <2>1, <2>3
  <2>4. CASE ~P(k, j) /\ j < k
    BY <1>1, <1>2, <2>1, <2>4
  <2> QED
    BY <1>2, <2>2, <2>3, <2>4
<1>5. i = j \/ Before(rows, i, j) \/ Before(rows, j, i)
  <2>1. i = j \/ i < j \/ j < i
    OBVIOUS
  <2> QED
    BY <1>2, <2>1, Zenon
<1>6. Before(rows, i, j) => rows[i].severity <= rows[j].severity
  BY <1>1, <1>2, Zenon
<1> QED
  BY <1>3, <1>4, <1>5, <1>6, Zenon

LEMMA Ranks ==
  ASSUME NEW n \in Nat, NEW rows, DOMAIN rows = 1..n, \A i \in 1..n : IsDiagRow(rows[i])
  PROVE  /\ \A i \in 1..n : RankIn(rows, i) \in 0..(n - 1)
         /\ \A i, j \in 1..n : Before(rows, i, j) => RankIn(rows, i) < RankIn(rows, j)
         /\ \A i, j \in 1..n : RankIn(rows, i) = RankIn(rows, j) => i = j
<1>1. IsFiniteSet(1..n) /\ Cardinality(1..n) = n
  BY FS_Interval
<1>2. ASSUME NEW i \in 1..n
      PROVE  /\ Lower(rows, i) \subseteq 1..n /\ i \notin Lower(rows, i)
             /\ IsFiniteSet(Lower(rows, i)) /\ RankIn(rows, i) \in Nat /\ RankIn(rows, i) <= n
             /\ RankIn(rows, i) # n
  <2>1. Lower(rows, i) \subseteq 1..n /\ i \notin Lower(rows, i)
    BY TotalOrder DEF Lower
  <2>2. IsFiniteSet(Lower(rows, i)) /\ RankIn(rows, i) <= n /\ RankIn(rows, i) # n
    BY <1>1, <2>1, FS_Subset DEF RankIn
  <2>3. \A S : IsFiniteSet(S) => Cardinality(S) \in Nat
    BY FS_CardinalityType
  <2>4. RankIn(rows, i) \in Nat
    BY <2>2, <2>3, Zenon DEF RankIn
  <2> QED
    BY <2>1, <2>2, <2>4
<1>3. ASSUME NEW i \in 1..n, NEW j \in 1..n, Before(rows, i, j)
      PROVE  RankIn(rows, i) < RankIn(rows, j)
  <2>1. Lower(rows, i) \subseteq Lower(rows, j)
    BY <1>3, TotalOrder DEF Lower
  <2>2. i \in Lower(rows, j) /\ i \notin Lower(rows, i)
    BY <1>2, <1>3 DEF Lower
  <2>3. RankIn(rows, i) <= RankIn(rows, j) /\ RankIn(rows, i) # RankIn(rows, j)
    BY <1>2, <2>1, <2>2, FS_Subset DEF RankIn
  <2> QED
    BY <1>2, <2>3
<1>4. ASSUME NEW i \in 1..n, NEW j \in 1..n, RankIn(rows, i) = RankIn(rows, j) PROVE i = j
  <2>1. i = j \/ Before(rows, i, j) \/ Before(rows, j, i)
    BY TotalOrder, Zenon
  <2>2. RankIn(rows, i) \in Nat /\ ~(RankIn(rows, i) < RankIn(rows, i))
    BY <1>2
  <2>3. Before(rows, i, j) => RankIn(rows, i) < RankIn(rows, j)
    BY <1>3
  <2>4. Before(rows, j, i) => RankIn(rows, j) < RankIn(rows, i)
    BY <1>3
  <2> QED
    BY <1>4, <2>1, <2>2, <2>3, <2>4
<1>5. \A i \in 1..n : RankIn(rows, i) \in 0..(n - 1)
  BY <1>2
<1> QED
  BY <1>3, <1>4, <1>5

LEMMA SortedFacts ==
  ASSUME NEW n \in Nat, NEW rows, DOMAIN rows = 1..n, \A i \in 1..n : IsDiagRow(rows[i])
  PROVE  /\ DOMAIN Sorted(rows) = 1..n /\ Len(Sorted(rows)) = n
         /\ \A i \in 1..n : Has(Sorted(rows), rows[i])
         /\ \A k, l \in 1..n : k < l => Sorted(rows)[k].severity <= Sorted(rows)[l].severity
<1> DEFINE f == [i \in 1..n |-> RankIn(rows, i) + 1]
<1>1. /\ \A i \in 1..n : RankIn(rows, i) \in 0..(n - 1)
      /\ \A i, j \in 1..n : Before(rows, i, j) => RankIn(rows, i) < RankIn(rows, j)
      /\ \A i, j \in 1..n : RankIn(rows, i) = RankIn(rows, j) => i = j
  BY Ranks
<1>2. f \in Injection(1..n, 1..n)
  <2>1. f \in [1..n -> 1..n]
    BY <1>1
  <2>2. ASSUME NEW i \in 1..n, NEW j \in 1..n, f[i] = f[j] PROVE i = j
    BY <1>1, <2>2
  <2> QED
    BY <2>1, <2>2 DEF Injection, IsInjective
<1>3. f \in Surjection(1..n, 1..n)
  BY <1>2, FS_Interval, FS_Injection
<1>4. \A k \in 1..n : \E i \in 1..n : RankIn(rows, i) = k - 1
  <2> SUFFICES ASSUME NEW k \in 1..n PROVE \E i \in 1..n : RankIn(rows, i) = k - 1
    OBVIOUS
  <2>1. PICK i \in 1..n : f[i] = k
    BY <1>3 DEF Surjection
  <2> QED
    BY <1>1, <2>1
<1> DEFINE at(k) == CHOOSE i \in 1..n : RankIn(rows, i) = k - 1
<1>5. /\ DOMAIN Sorted(rows) = 1..n
      /\ \A k \in 1..n : Sorted(rows)[k] = rows[at(k)]
  BY DEF Sorted, RankIn, Lower
<1>6. \A k \in 1..n : at(k) \in 1..n /\ RankIn(rows, at(k)) = k - 1
  BY <1>4
<1> HIDE DEF at, f
<1>7. Len(Sorted(rows)) = n
  <2>1. Sorted(rows) \in [1..n -> {Sorted(rows)[i] : i \in 1..n}]
    BY <1>5 DEF Sorted
  <2>2. Sorted(rows) \in Seq({Sorted(rows)[i] : i \in 1..n})
    BY <2>1, IsASeq
  <2> QED
    BY <1>5, <2>2, LenProperties
<1>8. ASSUME NEW i \in 1..n PROVE Has(Sorted(rows), rows[i])
  <2>1. PICK k \in 1..n : k = RankIn(rows, i) + 1
    BY <1>1
  <2>2. RankIn(rows, at(k)) = RankIn(rows, i) /\ at(k) \in 1..n
    BY <1>1, <1>6, <2>1
  <2>3. at(k) = i
    BY <1>1, <2>2
  <2> QED
    BY <1>5, <2>3 DEF Has
<1>9. ASSUME NEW k \in 1..n, NEW l \in 1..n, k < l
      PROVE  Sorted(rows)[k].severity <= Sorted(rows)[l].severity
  <2>1. PICK i \in 1..n : i = at(k) /\ RankIn(rows, i) = k - 1
    BY <1>6
  <2>2. PICK j \in 1..n : j = at(l) /\ RankIn(rows, j) = l - 1
    BY <1>6
  <2>3. i # j /\ ~Before(rows, j, i)
    <3>1. RankIn(rows, i) < RankIn(rows, j) /\ ~(RankIn(rows, j) < RankIn(rows, i))
      BY <1>9, <2>1, <2>2
    <3>2. i # j
      BY <1>9, <2>1, <2>2
    <3> QED
      BY <1>1, <3>1, <3>2
  <2>4. rows[i].severity <= rows[j].severity
    BY <2>3, TotalOrder
  <2> QED
    BY <1>5, <2>1, <2>2, <2>4
<1> QED
  BY <1>5, <1>7, <1>8, <1>9

-----------------------------------------------------------------------------
(* The screen is the disk.  While nobody saves, what is shown is what the  *)
(* two passes of a reload make of the disk, for the root they ran for.     *)

FreshInv ==
  /\ ViewInv
  /\ (fresh /\ phase \in {"loaded", "idle"}) =>
       ws = [q \in Reached(activeRoot, disk) |-> disk[q]]
  /\ (fresh /\ phase = "idle") => slotRows = CurrentRows /\ diagRows = CurrentDiags

LEMMA FreshInit == Init => FreshInv
BY ViewInit DEF Init, FreshInv

LEMMA FreshStep == FreshInv /\ [Next]_vars => FreshInv'
<1> SUFFICES ASSUME FreshInv, [Next]_vars PROVE FreshInv'
  OBVIOUS
<1>0. ViewInv /\ ViewInv'
  BY ViewStep DEF FreshInv
<1>1. CASE Load
  <2>1. disk' = disk /\ activeRoot' = activeRoot /\ phase' = "loaded"
          /\ ws' = [q \in Reached(activeRoot, disk) |-> disk[q]]
    BY <1>1 DEF Load
  <2>2. Reached(activeRoot', disk') = Reached(activeRoot, disk)
    BY <2>1
  <2> QED
    BY <1>0, <2>1, <2>2 DEF FreshInv
<1>2. ASSUME phase' \notin {"loaded", "idle"} \/ ~fresh' PROVE FreshInv'
  BY <1>0, <1>2 DEF FreshInv
\* What the rows are made of stays.
<1>3. ASSUME UNCHANGED <<disk, activeRoot, ws>>
      PROVE  CurrentRows' = CurrentRows /\ CurrentDiags' = CurrentDiags
  <2>1. CurrentRows' = CurrentRows
    BY <1>3 DEF CurrentRows
  <2>2. \A d : DiagRow(d)' = DiagRow(d)
    BY <1>3 DEF DiagRow, LineNow
  <2> QED
    BY <1>3, <2>1, <2>2 DEF CurrentDiags
<1>4. CASE Rebuild
  <2>1. /\ UNCHANGED <<disk, fresh, activeRoot, ws>> /\ phase = "loaded"
        /\ slotRows' = CurrentRows /\ diagRows' = CurrentDiags
    BY <1>4 DEF Rebuild
  <2> QED
    BY <1>0, <1>3, <2>1 DEF FreshInv
<1>5. ASSUME UNCHANGED <<disk, fresh, phase, activeRoot, ws, slotRows, diagRows>>
      PROVE  FreshInv'
  BY <1>0, <1>3, <1>5 DEF FreshInv
<1>6. CASE Quit \/ Reload
  BY <1>2, <1>6 DEF Quit, Reload
<1>7. CASE Digit \/ Tab \/ BackTab
  BY <1>5, <1>7 DEF Digit, Tab, BackTab, FocusOn
<1>8. ASSUME NEW n, Select(n) PROVE FreshInv'
  BY <1>2, <1>5, <1>8 DEF Select, Shown
<1>9. CASE \E p \in File : Save(p)
  BY <1>2, <1>9 DEF Save
<1>10. CASE UNCHANGED vars
  BY <1>5, <1>10 DEF vars
<1> QED
  BY <1>1, <1>4, <1>6, <1>7, <1>8, <1>9, <1>10 DEF Next, Viewer, Down, Up, First, End

(* A screen that was made since the last save shows the disk: the slots of *)
(* the slice under the cursor and every diagnostic of its working set, on  *)
(* the line it has now, errors first; whatever keys led there and although *)
(* each reload of tui.rs reads the files twice.                            *)
THEOREM ScreenShowsTheDisk == Spec => []ScreenIsTheDisk
<1>1. FreshInv => ScreenIsTheDisk
  <2> SUFFICES ASSUME FreshInv, phase = "idle", fresh PROVE ScreenIsTheDisk
    BY DEF ScreenIsTheDisk
  <2> DEFINE loaded == [q \in Reached(activeRoot, disk) |-> disk[q]]
             there  == Analysis(loaded)
             rows   == [i \in DOMAIN there |-> DiagRow(there[i])]
  <2>1. /\ ws = loaded /\ slotRows = CurrentRows /\ diagRows = Sorted(rows)
        /\ disk \in [Path -> Content] /\ activeRoot \in Path
    BY DEF FreshInv, CurrentDiags, ViewInv, ViewType
  <2>2. activeRoot \in Reached(activeRoot, disk) /\ Reached(activeRoot, disk) \subseteq Path
    BY <2>1 DEF Reached
  <2>3. slotRows = IF disk[activeRoot] = Absent THEN <<>> ELSE RowsOf(disk[activeRoot])
    BY <2>1, <2>2 DEF CurrentRows
  <2>4. loaded \in WorkingSets
    <3>1. loaded \in [Reached(activeRoot, disk) -> Texts \cup {Absent}]
      BY <2>1, <2>2 DEF Content
    <3> QED
      BY <2>2, <3>1 DEF WorkingSets
  <2> HIDE DEF loaded
  <2>5. /\ there \in Seq(Diagnostic)
        /\ \A i \in DOMAIN there : /\ there[i].severity \in Nat /\ there[i].file \in Path
                                   /\ \A t \in Texts : LineOf(t, there[i].offset) \in Nat
    BY <2>4, ViewerAssumption
  <2> HIDE DEF there
  <2>6. PICK n \in Nat : DOMAIN there = 1..n /\ Len(there) = n
    BY <2>5, LenProperties
  <2>7. DOMAIN rows = 1..n /\ \A i \in 1..n : rows[i] = DiagRow(there[i])
    BY <2>6
  <2>8. \A i \in 1..n : rows[i] = Said(there[i])
    BY <2>7 DEF DiagRow, LineNow, Said
  <2>9. \A i \in 1..n : IsDiagRow(rows[i])
    <3> SUFFICES ASSUME NEW i \in 1..n PROVE IsDiagRow(rows[i])
      OBVIOUS
    <3>1. there[i].file \in Path /\ disk[there[i].file] \in Texts \cup {Absent}
      BY <2>1, <2>5, <2>6 DEF Content
    <3>2. LineNow(there[i].file, there[i].offset) \in Nat
      BY <2>5, <2>6, <3>1 DEF LineNow
    <3>3. rows[i] = DiagRow(there[i])
      BY <2>7
    <3> QED
      BY <2>5, <2>6, <3>1, <3>2, <3>3 DEF DiagRow, IsDiagRow
  <2> HIDE DEF rows
  <2>10. /\ DOMAIN diagRows = 1..n /\ Len(diagRows) = n
         /\ \A i \in 1..n : Has(diagRows, rows[i])
         /\ \A k, l \in 1..n : k < l => diagRows[k].severity <= diagRows[l].severity
    BY <2>1, <2>7, <2>9, SortedFacts
  <2>11. /\ Len(diagRows) = Len(there)
         /\ \A i \in DOMAIN there : Has(diagRows, Said(there[i]))
         /\ \A i, j \in DOMAIN diagRows : i < j => diagRows[i].severity <= diagRows[j].severity
    BY <2>6, <2>8, <2>10
  <2> QED
    BY <2>3, <2>11 DEF ScreenIsTheDisk, there, loaded
<1> QED
  BY FreshInit, FreshStep, <1>1, PTL DEF Spec

-----------------------------------------------------------------------------
(* The rows of the Slots pane. *)

LEMMA KindsAre ==
  IsList(KindOrder) /\ \A kind \in Range(KindOrder) : kind \in SlotKinds
<1>1. KindOrder \in Seq(SlotKinds)
  BY SMT DEF KindOrder, SlotKinds
<1> QED BY <1>1, ListOf

\* The blocks of a kind that have a name.
KindAt(slice, kind) == {i \in DOMAIN slice : slice[i].kind = kind /\ slice[i].id # NoName}

LEMMA KindListIs ==
  ASSUME NEW slice, IsList(slice), NEW kind
  PROVE  /\ IsList(Only(Places(slice), KindAt(slice, kind)))
         /\ Range(Only(Places(slice), KindAt(slice, kind))) = KindAt(slice, kind)
<1>1. IsList(Places(slice)) /\ Range(Places(slice)) = DOMAIN slice
  BY PlacesAre
<1> QED BY <1>1, OnlyIs DEF KindAt

\* The row of a block and that of a step.
RowOf(slice, i)     == Place("block", slice[i].id, NoName, <<i>>)
RowOfStep(slice, i, j) == Place("step", slice[i].id, slice[i].blocks[j].id, <<i, j>>)

\* The rows of a kind, without its header.
NamedRows(slice, kind) ==
  LET at == Only(Places(slice), KindAt(slice, kind))
  IN  FlattenSeq([n \in DOMAIN at |-> BlockRows(slice, at[n])])

LEMMA KindRowsAre ==
  ASSUME NEW slice, IsList(slice), NEW kind
  PROVE  \/ KindRows(slice, kind) = NamedRows(slice, kind)
         \/ KindRows(slice, kind) = <<Header>> \o NamedRows(slice, kind)
<1> DEFINE A  == {i \in DOMAIN slice : slice[i].kind = kind}
           B  == {i \in DOMAIN slice : slice[i].id # NoName}
           ps == Places(slice)
           at == Only(ps, A)
           named == Only(at, B)
<1>1. IsList(ps)
  BY PlacesAre
<1>2. named = Only(ps, KindAt(slice, kind))
  <2>1. A \cap B = KindAt(slice, kind)
    BY DEF KindAt
  <2> HIDE DEF A, B, ps
  <2> QED BY <1>1, <2>1, OnlyTwice
<1>3. KindRows(slice, kind) =
        IF at = <<>> THEN <<>> ELSE <<Header>> \o FlattenSeq([n \in DOMAIN named |-> BlockRows(slice, named[n])])
  BY DEF KindRows, ForEach
<1> HIDE DEF A, B, ps
<1>4. at = <<>> => named = <<>>
  <2>1. IsList(at) /\ IsList(named) /\ Range(named) = Range(at) \cap B
    BY <1>1, OnlyIs
  <2> HIDE DEF at, named
  <2> QED BY <2>1, Listed
<1> HIDE DEF named, at
<1>5. named = <<>> => FlattenSeq([n \in DOMAIN named |-> BlockRows(slice, named[n])]) = <<>>
  <2> SUFFICES ASSUME named = <<>> PROVE FlattenSeq([n \in DOMAIN named |-> BlockRows(slice, named[n])]) = <<>>
    OBVIOUS
  <2>1. DOMAIN named = {}
    BY EmptySeq
  <2>2. [n \in DOMAIN named |-> BlockRows(slice, named[n])] = <<>>
    <3> HIDE DEF BlockRows
    <3> QED BY <2>1, SMT
  <2> QED BY <2>2, FlatNone
<1>6. NamedRows(slice, kind) = FlattenSeq([n \in DOMAIN named |-> BlockRows(slice, named[n])])
  BY <1>2 DEF NamedRows, ps
<1> QED BY <1>3, <1>4, <1>5, <1>6

LEMMA BlockRowsAre ==
  ASSUME NEW slice, IsSlice(slice), NEW i \in DOMAIN slice
  PROVE  /\ IsList(BlockRows(slice, i)) /\ IsList(StepRows(slice, i))
         /\ \A r \in Range(BlockRows(slice, i)) :
              \/ r = RowOf(slice, i)
              \/ /\ slice[i].kind = "event"
                 /\ \E j \in NamedStepAt(slice[i]) : r = RowOfStep(slice, i, j)
<1> DEFINE q  == NamedSteps(slice[i])
           ss == [n \in DOMAIN q |-> <<RowOfStep(slice, i, q[n])>>]
<1>1. IsList(q) /\ Range(q) = NamedStepAt(slice[i])
  BY IdOfPlace, StepsAre DEF IsBlock
<1>2. StepRows(slice, i) = IF slice[i].kind # "event" THEN <<>> ELSE FlattenSeq(ss)
  BY DEF StepRows, ForEach, RowOfStep
<1>3. ss = [n \in DOMAIN q |-> ss[n]] /\ \A n \in DOMAIN q : ss[n] = <<RowOfStep(slice, i, q[n])>>
  OBVIOUS
<1> HIDE DEF q, ss
<1>4. \A n \in DOMAIN q : IsList(ss[n]) /\ Range(ss[n]) = {RowOfStep(slice, i, q[n])}
  BY <1>3, One
<1>5. /\ IsList(FlattenSeq(ss))
      /\ \A r : r \in Range(FlattenSeq(ss)) <=> \E n \in DOMAIN q : r \in Range(ss[n])
  BY <1>1, <1>3, <1>4, FlatList
<1>6. /\ IsList(StepRows(slice, i))
      /\ \A r \in Range(StepRows(slice, i)) :
           /\ slice[i].kind = "event"
           /\ \E j \in NamedStepAt(slice[i]) : r = RowOfStep(slice, i, j)
  <2>1. CASE slice[i].kind # "event"
    <3>1. StepRows(slice, i) = <<>>
      BY <1>2, <2>1
    <3> QED BY <3>1, One
  <2>2. CASE slice[i].kind = "event"
    <3>1. StepRows(slice, i) = FlattenSeq(ss)
      BY <1>2, <2>2
    <3>2. \A n \in DOMAIN q : q[n] \in NamedStepAt(slice[i])
      BY <1>1, Listed
    <3> QED BY <1>4, <1>5, <2>2, <3>1, <3>2
  <2> QED BY <2>1, <2>2
<1>7. BlockRows(slice, i) = <<RowOf(slice, i)>> \o StepRows(slice, i)
  BY DEF BlockRows, RowOf
<1>8. IsList(<<RowOf(slice, i)>>) /\ Range(<<RowOf(slice, i)>>) = {RowOf(slice, i)}
  BY One
<1>9. /\ IsList(BlockRows(slice, i))
      /\ Range(BlockRows(slice, i)) = {RowOf(slice, i)} \cup Range(StepRows(slice, i))
  BY <1>6, <1>7, <1>8, Joins
<1> QED BY <1>6, <1>9

\* What a row was made from.
IsBlockRow(slice, r) == \E i \in NamedAt(slice) : r = RowOf(slice, i)
IsStepRow(slice, r) ==
  \E i \in NamedAt(slice) :
    slice[i].kind = "event" /\ \E j \in NamedStepAt(slice[i]) : r = RowOfStep(slice, i, j)

LEMMA NamedRowsAre ==
  ASSUME NEW slice, IsSlice(slice), NEW kind \in SlotKinds
  PROVE  /\ IsList(NamedRows(slice, kind))
         /\ \A r \in Range(NamedRows(slice, kind)) : IsBlockRow(slice, r) \/ IsStepRow(slice, r)
<1> DEFINE at == Only(Places(slice), KindAt(slice, kind))
           ss == [n \in DOMAIN at |-> BlockRows(slice, at[n])]
<1>1. IsList(at) /\ Range(at) = KindAt(slice, kind)
  BY KindListIs DEF IsSlice
<1>2. NamedRows(slice, kind) = FlattenSeq(ss)
  BY DEF NamedRows
<1>3. ss = [n \in DOMAIN at |-> ss[n]] /\ \A n \in DOMAIN at : ss[n] = BlockRows(slice, at[n])
  <2> HIDE DEF at
  <2> QED OBVIOUS
<1> HIDE DEF at, ss
<1>4. \A n \in DOMAIN at : at[n] \in NamedAt(slice) /\ at[n] \in DOMAIN slice
  <2>1. \A n \in DOMAIN at : at[n] \in KindAt(slice, kind)
    BY <1>1, Listed
  <2> QED BY <2>1 DEF KindAt, NamedAt, SlotAt
<1>5. \A n \in DOMAIN at : IsList(ss[n])
  BY <1>3, <1>4, BlockRowsAre
<1>6. /\ IsList(FlattenSeq(ss))
      /\ \A r : r \in Range(FlattenSeq(ss)) <=> \E n \in DOMAIN at : r \in Range(ss[n])
  BY <1>1, <1>3, <1>5, FlatList
<1>7. ASSUME NEW r \in Range(FlattenSeq(ss)) PROVE IsBlockRow(slice, r) \/ IsStepRow(slice, r)
  <2>1. PICK n \in DOMAIN at : r \in Range(BlockRows(slice, at[n]))
    BY <1>3, <1>6
  <2>2. \/ r = RowOf(slice, at[n])
        \/ /\ slice[at[n]].kind = "event"
           /\ \E j \in NamedStepAt(slice[at[n]]) : r = RowOfStep(slice, at[n], j)
    BY <1>4, <2>1, BlockRowsAre
  <2> QED BY <1>4, <2>2 DEF IsBlockRow, IsStepRow
<1> QED BY <1>2, <1>6, <1>7

(* Every row is a header, or made from a named block of a slot kind, or    *)
(* from a named step of such an event.                                     *)
LEMMA SlotRowsAre ==
  ASSUME NEW slice, IsSlice(slice)
  PROVE  /\ IsList(SlotRows(slice))
         /\ \A r \in Range(SlotRows(slice)) :
              r = Header \/ IsBlockRow(slice, r) \/ IsStepRow(slice, r)
<1> DEFINE ks == KindOrder
           ss == [k \in DOMAIN ks |-> KindRows(slice, ks[k])]
<1>1. IsList(ks) /\ \A k \in DOMAIN ks : ks[k] \in SlotKinds
  BY KindsAre, Listed
<1>2. SlotRows(slice) = FlattenSeq(ss)
  BY DEF SlotRows, ForEach
<1> HIDE DEF ks
<1>3. ss = [k \in DOMAIN ks |-> ss[k]] /\ \A k \in DOMAIN ks : ss[k] = KindRows(slice, ks[k])
  OBVIOUS
<1> HIDE DEF ss
<1>4. ASSUME NEW k \in DOMAIN ks
      PROVE  /\ IsList(ss[k])
             /\ \A r \in Range(ss[k]) : r = Header \/ IsBlockRow(slice, r) \/ IsStepRow(slice, r)
  <2> DEFINE named == NamedRows(slice, ks[k])
  <2>1. IsList(named) /\ \A r \in Range(named) : IsBlockRow(slice, r) \/ IsStepRow(slice, r)
    BY <1>1, NamedRowsAre
  <2>2. ss[k] = named \/ ss[k] = <<Header>> \o named
    BY <1>3, KindRowsAre DEF IsSlice
  <2> HIDE DEF named
  <2>3. IsList(<<Header>> \o named) /\ Range(<<Header>> \o named) = {Header} \cup Range(named)
    BY <2>1, One, Joins
  <2> QED BY <2>1, <2>2, <2>3
<1>5. /\ IsList(FlattenSeq(ss))
      /\ \A r : r \in Range(FlattenSeq(ss)) <=> \E k \in DOMAIN ks : r \in Range(ss[k])
  BY <1>1, <1>3, <1>4, FlatList
<1> QED BY <1>2, <1>4, <1>5

-----------------------------------------------------------------------------
(* The look-ups. *)

\* The first block with an id.
IsFirst(slice, id, f) ==
  f \in DOMAIN slice /\ slice[f].id = id /\ \A k \in DOMAIN slice : k < f => slice[k].id # id

LEMMA FirstIs ==
  ASSUME NEW slice, IsList(slice), NEW i \in DOMAIN slice
  PROVE  \E f \in DOMAIN slice : f <= i /\ IsFirst(slice, slice[i].id, f)
<1> DEFINE T == {k \in DOMAIN slice : slice[k].id = slice[i].id}
<1>1. DOMAIN slice \subseteq Nat
  BY Listed, SMT
<1>2. T \subseteq Nat /\ i \in T
  BY <1>1
<1>3. PICK f \in T : \A m \in T : f <= m
  <2> HIDE DEF T
  <2> QED BY <1>2, Least
<1>4. f <= i /\ f \in DOMAIN slice /\ slice[f].id = slice[i].id
  BY <1>2, <1>3
<1>5. \A k \in DOMAIN slice : k < f => slice[k].id # slice[i].id
  <2> SUFFICES ASSUME NEW k \in DOMAIN slice, k < f, slice[k].id = slice[i].id PROVE FALSE
    OBVIOUS
  <2>1. k \in Nat /\ f \in Nat /\ f <= k
    BY <1>1, <1>3, <1>4
  <2> QED BY <2>1, SMT
<1> QED BY <1>4, <1>5 DEF IsFirst

LEMMA TopBlockIs ==
  ASSUME NEW slice, IsList(slice), NEW id, id # NoName, NEW f, IsFirst(slice, id, f)
  PROVE  TopBlock(slice, id) = <<f>>
<1> DEFINE ps == Places(slice)
           F(k) == If(slice[k].id = id /\ id # NoName, <<k>>)
           ss == [n \in DOMAIN ps |-> F(ps[n])]
<1>1. IsList(ps) /\ DOMAIN ps = DOMAIN slice /\ \A n \in DOMAIN ps : ps[n] = n
  BY PlacesAre DEF Places
<1>2. TopBlock(slice, id) = FirstOf(FlattenSeq(ss))
  BY DEF TopBlock, ForEach
<1>3. \A k : F(k) = IF slice[k].id = id THEN <<<<k>>>> ELSE <<>>
  BY DEF If
<1> HIDE DEF ps, F
<1>4. ss = [n \in DOMAIN ps |-> ss[n]] /\ \A n \in DOMAIN ps : ss[n] = F(n)
  BY <1>1
<1> HIDE DEF ss
<1>5. \A n \in DOMAIN ps : IsList(ss[n])
  BY <1>3, <1>4, One
<1>6. FirstFilled(ss, f) /\ ss[f] = <<<<f>>>>
  <2>1. DOMAIN ss = DOMAIN slice /\ f \in DOMAIN slice
    BY <1>1, <1>4 DEF IsFirst
  <2>2. ss[f] = <<<<f>>>> /\ <<<<f>>>> # <<>>
    BY <1>1, <1>3, <1>4, <2>1 DEF IsFirst
  <2>3. \A k \in DOMAIN ss : k < f => ss[k] = <<>>
    BY <1>1, <1>3, <1>4, <2>1 DEF IsFirst
  <2> QED BY <2>1, <2>2, <2>3 DEF FirstFilled
<1>7. FlattenSeq(ss) # <<>> /\ FlattenSeq(ss)[1] = ss[f][1]
  BY <1>1, <1>4, <1>5, <1>6, FlatFirst
<1> QED BY <1>2, <1>6, <1>7 DEF FirstOf

LEMMA StepNamedIs ==
  ASSUME NEW slice, IsSlice(slice), NEW i \in DOMAIN slice, NEW step
  PROVE  /\ IsList(StepNamed(slice, i, step))
         /\ \A at \in Range(StepNamed(slice, i, step)) : \E j \in NamedStepAt(slice[i]) : at = <<i, j>>
         /\ \A j \in NamedStepAt(slice[i]) :
              slice[i].blocks[j].id = step /\ ~PriorStep(slice[i], j) =>
                StepNamed(slice, i, step) # <<>> /\ StepNamed(slice, i, step)[1] = <<i, j>>
<1> DEFINE e == slice[i]
           q == NamedSteps(e)
           F(j) == If(e.blocks[j].id = step, <<i, j>>)
           ss == [n \in DOMAIN q |-> F(q[n])]
<1>0. IsList(e.blocks)
  BY IdOfPlace DEF IsBlock
<1>1. IsList(q) /\ Range(q) = NamedStepAt(e)
  BY <1>0, StepsAre
<1>2. StepNamed(slice, i, step) = FlattenSeq(ss)
  BY DEF StepNamed, ForEach
<1>3. \A j : F(j) = IF e.blocks[j].id = step THEN <<<<i, j>>>> ELSE <<>>
  BY DEF If
<1> HIDE DEF e, F
<1>4. /\ DOMAIN q \subseteq Nat
      /\ \A k \in DOMAIN q : q[k] \in NamedStepAt(e)
      /\ \A j \in NamedStepAt(e) : \E k \in DOMAIN q : q[k] = j
      /\ \A j, k \in DOMAIN q : j < k <=> q[j] < q[k]
  BY <1>0, StepsInOrder
<1> HIDE DEF q
<1>5. ss = [n \in DOMAIN q |-> ss[n]] /\ \A n \in DOMAIN q : ss[n] = F(q[n])
  OBVIOUS
<1> HIDE DEF ss
<1>6. \A n \in DOMAIN q : IsList(ss[n]) /\ \A at \in Range(ss[n]) : at = <<i, q[n]>>
  BY <1>3, <1>5, One
<1>7. /\ IsList(FlattenSeq(ss))
      /\ \A x : x \in Range(FlattenSeq(ss)) <=> \E n \in DOMAIN q : x \in Range(ss[n])
  BY <1>1, <1>5, <1>6, FlatList
<1>8. \A at \in Range(FlattenSeq(ss)) : \E j \in NamedStepAt(e) : at = <<i, j>>
  BY <1>4, <1>6, <1>7
<1>9. ASSUME NEW j \in NamedStepAt(e), e.blocks[j].id = step, ~PriorStep(e, j)
      PROVE  FlattenSeq(ss) # <<>> /\ FlattenSeq(ss)[1] = <<i, j>>
  <2>1. PICK m \in DOMAIN q : q[m] = j
    BY <1>4
  <2>2. ss[m] = <<<<i, j>>>> /\ <<<<i, j>>>> # <<>>
    BY <1>3, <1>5, <1>9, <2>1
  <2>3. ASSUME NEW n \in DOMAIN q, n < m PROVE ss[n] = <<>>
    <3>1. q[n] < j /\ q[n] \in Range(q)
      BY <1>1, <1>4, <2>1, <2>3
    <3>2. e.blocks[q[n]].id # step
      BY <1>9, <3>1 DEF PriorStep, q
    <3> QED BY <1>3, <1>5, <3>2
  <2>4. FirstFilled(ss, m)
    BY <1>5, <2>2, <2>3 DEF FirstFilled
  <2>5. FlattenSeq(ss) # <<>> /\ FlattenSeq(ss)[1] = ss[m][1]
    BY <1>1, <1>5, <1>6, <2>4, FlatFirst
  <2> QED BY <2>2, <2>5
<1> QED BY <1>2, <1>7, <1>8, <1>9 DEF e

(* query --by-id ends at the first block with the id, or at a step of an   *)
(* event in front of it.                                                   *)
LEMMA ByIdIs ==
  ASSUME NEW slice, IsSlice(slice), NEW id, id # NoName, NEW f, IsFirst(slice, id, f)
  PROVE  ById(slice, id) = <<f>> \/ Len(ById(slice, id)) = 2
<1> DEFINE ps == Places(slice)
           Own(k) == If(slice[k].id = id /\ id # NoName, <<k>>)
           Inner(k) == IF slice[k].kind = "event" /\ slice[k].id # NoName
                       THEN StepNamed(slice, k, id) ELSE <<>>
           F(k) == Own(k) \o Inner(k)
           ss == [n \in DOMAIN ps |-> F(ps[n])]
<1>0. IsList(slice)
  BY DEF IsSlice
<1>1. IsList(ps) /\ DOMAIN ps = DOMAIN slice /\ \A n \in DOMAIN ps : ps[n] = n
  BY <1>0, PlacesAre DEF Places
<1>2. ById(slice, id) = FirstOf(FlattenSeq(ss))
  BY DEF ById, ForEach
<1>3. \A k : Own(k) = IF slice[k].id = id THEN <<<<k>>>> ELSE <<>>
  BY DEF If
<1>4. \A k \in DOMAIN slice : /\ IsList(Inner(k))
                              /\ \A at \in Range(Inner(k)) : Len(at) = 2
  <2> SUFFICES ASSUME NEW k \in DOMAIN slice
               PROVE  IsList(Inner(k)) /\ \A at \in Range(Inner(k)) : Len(at) = 2
    OBVIOUS
  <2>1. \A j : Len(<<k, j>>) = 2
    OBVIOUS
  <2>2. IsList(StepNamed(slice, k, id)) /\ \A at \in Range(StepNamed(slice, k, id)) : Len(at) = 2
    BY <2>1, StepNamedIs
  <2> QED BY <2>2, One
<1> HIDE DEF ps, Own, Inner
<1>5. ss = [n \in DOMAIN ps |-> ss[n]] /\ \A n \in DOMAIN ps : ss[n] = Own(n) \o Inner(n)
  BY <1>1
<1> HIDE DEF ss
<1>6. \A n \in DOMAIN ps : IsList(Own(n)) /\ IsList(Inner(n)) /\ IsList(ss[n])
  <2> SUFFICES ASSUME NEW n \in DOMAIN ps PROVE IsList(Own(n)) /\ IsList(Inner(n)) /\ IsList(ss[n])
    OBVIOUS
  <2>1. IsList(Own(n))
    BY <1>3, One
  <2>2. IsList(Inner(n))
    BY <1>1, <1>4
  <2> QED BY <1>5, <2>1, <2>2, Joins
<1> DEFINE T == {k \in DOMAIN ss : ss[k] # <<>>}
<1>7. f \in T
  <2>1. f \in DOMAIN slice /\ Own(f) = <<<<f>>>>
    BY <1>3 DEF IsFirst
  <2>2. Range(ss[f]) = Range(Own(f)) \cup Range(Inner(f)) /\ Range(Own(f)) = {<<f>>}
    BY <1>1, <1>5, <1>6, <2>1, Joins, One
  <2>3. ss[f] # <<>>
    BY <2>2, One
  <2> QED BY <1>1, <1>5, <2>1, <2>3
<1>8. DOMAIN ss = DOMAIN slice /\ DOMAIN slice \subseteq Nat
  BY <1>0, <1>1, <1>5, Listed, SMT
<1>9. PICK g \in T : \A m \in T : g <= m
  <2>1. T \subseteq Nat
    BY <1>8
  <2> HIDE DEF T
  <2> QED BY <1>7, <2>1, Least
<1>10. FirstFilled(ss, g)
  <2>1. \A k \in DOMAIN ss : k < g => ~(g <= k)
    BY <1>8, <1>9, SMT
  <2> QED BY <1>9, <2>1 DEF FirstFilled
<1>11. FlattenSeq(ss) # <<>> /\ FlattenSeq(ss)[1] = ss[g][1]
  BY <1>1, <1>5, <1>6, <1>10, FlatFirst
<1>12. CASE slice[g].id = id
  <2>1. g = f
    <3>1. g \in Nat /\ f \in Nat /\ g <= f
      BY <1>7, <1>8, <1>9
    <3>2. ~(g < f)
      BY <1>8, <1>9, <1>12 DEF IsFirst
    <3> QED BY <3>1, <3>2, SMT
  <2>2. Own(g) = <<<<g>>>>
    BY <1>3, <1>12
  <2>3. (Own(g) \o Inner(g))[1] = <<g>>
    <3>1. IsList(Inner(g)) /\ Len(Inner(g)) \in Nat
      BY <1>4, <1>8, <1>9, Listed
    <3> DEFINE S == Range(Inner(g)) \cup {<<g>>}
    <3>2. Inner(g) \in Seq(S) /\ Own(g) \in Seq(S)
      BY <2>2, <3>1, SeqMonotonic, Range(Inner(g)) \subseteq S DEF IsList
    <3> HIDE DEF S
    <3>3. Len(Own(g)) = 1 /\ Own(g)[1] = <<g>>
      BY <2>2
    <3>4. 1 \in 1..(Len(Own(g)) + Len(Inner(g)))
      BY <3>1, <3>3, SMT
    <3>5. \A k \in 1..(Len(Own(g)) + Len(Inner(g))) :
            (Own(g) \o Inner(g))[k] = IF k <= Len(Own(g)) THEN Own(g)[k] ELSE Inner(g)[k - Len(Own(g))]
      BY <3>2, ConcatProperties
    <3>6. (Own(g) \o Inner(g))[1] = IF 1 <= Len(Own(g)) THEN Own(g)[1] ELSE Inner(g)[1 - Len(Own(g))]
      BY <3>4, <3>5, Zenon
    <3>7. 1 <= Len(Own(g))
      BY <3>3, SMT
    <3> QED BY <3>3, <3>6, <3>7, Zenon
  <2>4. ss[g][1] = <<f>>
    BY <1>1, <1>5, <1>8, <1>9, <2>1, <2>3
  <2> QED BY <1>2, <1>11, <2>4 DEF FirstOf
<1>13. CASE slice[g].id # id
  <2>1. g \in DOMAIN slice /\ ss[g] # <<>>
    BY <1>8, <1>9
  <2>2. Own(g) = <<>>
    BY <1>3, <1>13
  <2>3. ss[g] = Inner(g)
    <3>1. Inner(g) \in Seq(Range(Inner(g)))
      BY <1>4, <2>1 DEF IsList
    <3>2. <<>> \o Inner(g) = Inner(g)
      BY <3>1, ConcatEmptySeq
    <3> QED BY <1>1, <1>5, <2>1, <2>2, <3>2
  <2>4. ss[g][1] \in Range(Inner(g))
    <3>1. 1 \in DOMAIN Inner(g)
      BY <1>4, <2>1, <2>3, Listed, SMT
    <3> QED BY <1>4, <2>1, <2>3, <3>1, Listed
  <2>5. Len(ss[g][1]) = 2
    BY <1>4, <2>1, <2>4
  <2> QED BY <1>2, <1>11, <2>5 DEF FirstOf
<1> QED BY <1>12, <1>13

(* The event of a step is looked up first, then the step in it.            *)
LEMMA StepLookedUp ==
  ASSUME NEW slice, IsSlice(slice), NEW i, IsFirst(slice, slice[i].id, i),
         slice[i].id # NoName, slice[i].kind = "event",
         NEW j \in NamedStepAt(slice[i]), ~PriorStep(slice[i], j),
         NEW r, r = RowOfStep(slice, i, j)
  PROVE  DetailAt(slice, r) = <<i, j>> /\ NodeAt(slice, r) = <<i, j>>
<1> DEFINE step == slice[i].blocks[j].id
           id == slice[i].id
           ps == Places(slice)
           F(k) == IF slice[k].kind = "event" /\ slice[k].id = id
                   THEN StepNamed(slice, k, step) ELSE <<>>
           ss == [n \in DOMAIN ps |-> F(ps[n])]
<1>0. IsList(slice) /\ i \in DOMAIN slice
  BY DEF IsSlice, IsFirst
<1>1. IsList(ps) /\ DOMAIN ps = DOMAIN slice /\ \A n \in DOMAIN ps : ps[n] = n
  BY <1>0, PlacesAre DEF Places
<1>2. r.is = "step" /\ r.id = id /\ r.step = step
  BY DEF RowOfStep, Place
<1>3. DetailAt(slice, r) = FirstOf(FlattenSeq(ss))
  BY <1>2 DEF DetailAt, ForEach
<1>4. StepNamed(slice, i, step) # <<>> /\ StepNamed(slice, i, step)[1] = <<i, j>>
  BY <1>0, StepNamedIs
<1>5. \A k \in DOMAIN slice : IsList(F(k))
  BY One, StepNamedIs
<1>6. F(i) = StepNamed(slice, i, step)
  OBVIOUS
<1>7. \A k \in DOMAIN slice : k < i => F(k) = <<>>
  BY DEF IsFirst
<1> HIDE DEF F, ps
<1>8. ss = [n \in DOMAIN ps |-> ss[n]] /\ \A n \in DOMAIN ps : ss[n] = F(n)
  BY <1>1
<1> HIDE DEF ss, step, id
<1>9. FirstFilled(ss, i)
  BY <1>0, <1>1, <1>4, <1>6, <1>7, <1>8 DEF FirstFilled
<1>10. FlattenSeq(ss) # <<>> /\ FlattenSeq(ss)[1] = ss[i][1]
  BY <1>1, <1>5, <1>8, <1>9, FlatFirst
<1>11. DetailAt(slice, r) = <<i, j>>
  BY <1>0, <1>1, <1>3, <1>4, <1>6, <1>8, <1>10 DEF FirstOf
<1>12. TopBlock(slice, id) = <<i>>
  BY <1>0, TopBlockIs DEF id
<1>13. NodeAt(slice, r) = FirstOf(StepNamed(slice, i, step))
  <2>1. <<i>> # <<>> /\ <<i>>[1] = i
    OBVIOUS
  <2>2. NodeAt(slice, r) =
          LET event == TopBlock(slice, r.id)
          IN  IF event = <<>> THEN <<>> ELSE FirstOf(StepNamed(slice, event[1], r.step))
    BY <1>2 DEF NodeAt
  <2> QED BY <1>2, <1>12, <2>1, <2>2
<1>14. NodeAt(slice, r) = <<i, j>>
  BY <1>4, <1>13 DEF FirstOf
<1> QED BY <1>11, <1>14

-----------------------------------------------------------------------------
(* What is said of twins. *)

Twin(slice, i) == Diag("E0250", <<i>>, slice[i].id)
StepTwin(slice, i, j) == Diag("E0251", <<i, j>>, slice[i].blocks[j].id)

LEMMA TwinsAreSaid ==
  ASSUME NEW slice, IsSlice(slice), NEW i \in NamedAt(slice)
  PROVE  /\ Prior(slice, i) => Twin(slice, i) \in Range(Duplicates(slice))
         /\ ~Prior(slice, i) /\ slice[i].kind = "event" =>
              \A j \in NamedStepAt(slice[i]) :
                PriorStep(slice[i], j) => StepTwin(slice, i, j) \in Range(Duplicates(slice))
<1> DEFINE G(k, j) == If(PriorStep(slice[k], j), StepTwin(slice, k, j))
           steps(k) == NamedSteps(slice[k])
           gs(k) == [n \in DOMAIN steps(k) |-> G(k, steps(k)[n])]
           F(k) == IF Prior(slice, k) THEN <<Twin(slice, k)>>
                   ELSE IF slice[k].kind # "event" THEN <<>>
                   ELSE FlattenSeq(gs(k))
           named == Named(slice)
           ss == [n \in DOMAIN named |-> F(named[n])]
<1>1. IsList(named) /\ Range(named) = NamedAt(slice)
  BY SlotsAre DEF IsSlice
<1>2. Duplicates(slice) = FlattenSeq(ss)
  BY DEF Duplicates, ForEach, Twin, StepTwin
<1>3. \A k, j : G(k, j) = IF PriorStep(slice[k], j) THEN <<StepTwin(slice, k, j)>> ELSE <<>>
  BY DEF If
<1> HIDE DEF G
<1>4. ASSUME NEW k \in NamedAt(slice)
      PROVE  /\ IsList(F(k))
             /\ Prior(slice, k) => Twin(slice, k) \in Range(F(k))
             /\ ~Prior(slice, k) /\ slice[k].kind = "event" =>
                  \A j \in NamedStepAt(slice[k]) :
                    PriorStep(slice[k], j) => StepTwin(slice, k, j) \in Range(F(k))
  <2>1. IsList(steps(k)) /\ Range(steps(k)) = NamedStepAt(slice[k])
    BY IdOfPlace, StepsAre DEF NamedAt, SlotAt, IsBlock
  <2> DEFINE st == steps(k)
             g  == gs(k)
  <2>2. g = [n \in DOMAIN st |-> g[n]] /\ \A n \in DOMAIN st : g[n] = G(k, st[n])
    OBVIOUS
  <2> HIDE DEF st, g
  <2>3. \A n \in DOMAIN st : IsList(g[n])
    BY <1>3, <2>2, One
  <2>4. IsList(FlattenSeq(g)) /\ \A x : x \in Range(FlattenSeq(g)) <=> \E n \in DOMAIN st : x \in Range(g[n])
    BY <2>1, <2>2, <2>3, FlatList DEF st
  <2>5. ASSUME NEW j \in NamedStepAt(slice[k]), PriorStep(slice[k], j)
        PROVE  StepTwin(slice, k, j) \in Range(FlattenSeq(g))
    <3>1. PICK n \in DOMAIN st : st[n] = j
      BY <2>1, Listed DEF st
    <3>2. g[n] = <<StepTwin(slice, k, j)>>
      BY <1>3, <2>2, <2>5, <3>1
    <3>3. StepTwin(slice, k, j) \in Range(g[n])
      BY <3>2, One
    <3> QED BY <2>4, <3>3
  <2>6. IsList(<<Twin(slice, k)>>) /\ Twin(slice, k) \in Range(<<Twin(slice, k)>>) /\ IsList(<<>>)
    BY One
  <2> QED BY <2>4, <2>5, <2>6 DEF g
<1> HIDE DEF F, named
<1>5. \A n \in DOMAIN named : named[n] \in NamedAt(slice)
  BY <1>1, Listed
<1>6. ss = [n \in DOMAIN named |-> ss[n]] /\ \A n \in DOMAIN named : ss[n] = F(named[n])
  OBVIOUS
<1> HIDE DEF ss
<1>7. \A n \in DOMAIN named : IsList(ss[n])
  BY <1>4, <1>5, <1>6
<1>8. \A x : x \in Range(FlattenSeq(ss)) <=> \E n \in DOMAIN named : x \in Range(ss[n])
  BY <1>1, <1>6, <1>7, FlatList
<1>9. PICK n \in DOMAIN named : named[n] = i
  BY <1>1, Listed
<1>10. \A x \in Range(F(i)) : x \in Range(FlattenSeq(ss))
  BY <1>6, <1>8, <1>9
<1> QED BY <1>2, <1>4, <1>10

(* The second pass says it, so the analysis does.                          *)
LEMMA DuplicatesAreSaid ==
  ASSUME NEW slice, IsSlice(slice)
  PROVE  Range(Duplicates(slice)) \subseteq Range(Analyze(slice))
<1> DEFINE two   == Duplicates(slice) \o CheckRefs(slice)
           three == two \o CheckBipartite(slice)
           four  == three \o CheckDerivationCycles(slice)
           five  == Structural(slice) \o four
<1>1. /\ IsList(Duplicates(slice)) /\ IsList(CheckRefs(slice)) /\ IsList(CheckBipartite(slice))
      /\ IsList(CheckDerivationCycles(slice)) /\ IsList(Structural(slice))
      /\ IsList(SymmetricFailure(slice))
  BY DuplicatesFinds, CheckRefsFinds, CheckBipartiteFinds, CheckDerivationCyclesFinds,
     StructuralFinds, SymmetricFailureIs DEF IsFound
<1>2. Analyze(slice) = five \o SymmetricFailure(slice)
  BY DEF Analyze, Coherence
<1>3. IsList(two) /\ Range(Duplicates(slice)) \subseteq Range(two)
  BY <1>1, Joins
<1> HIDE DEF two
<1>4. IsList(three) /\ Range(two) \subseteq Range(three)
  BY <1>1, <1>3, Joins
<1> HIDE DEF three
<1>5. IsList(four) /\ Range(three) \subseteq Range(four)
  BY <1>1, <1>4, Joins
<1> HIDE DEF four
<1>6. IsList(five) /\ Range(four) \subseteq Range(five)
  BY <1>1, <1>5, Joins
<1> HIDE DEF five
<1>7. Range(five) \subseteq Range(Analyze(slice))
  BY <1>1, <1>2, <1>6, Joins
<1> QED BY <1>3, <1>4, <1>5, <1>6, <1>7

\* What the panes make of a row, on the slice alone.
IsShadowed(slice, id) ==
  LET shown == TopBlock(slice, id) IN shown # <<>> /\ slice[shown[1]].kind \notin SlotKinds
TwinSaid(slice, at) ==
  \E d \in Range(Analyze(slice)) :
    d.code \in {"E0250", "E0251"} /\ d.at \in {at, SubSeq(at, 1, 1)}
LeadsBack(slice, r) ==
  /\ DetailAt(slice, r) = r.at /\ NodeAt(slice, r) = r.at
  /\ r.is = "block" => ById(slice, r.id) = r.at \/ Len(ById(slice, r.id)) = 2

(* The places of blocks and of steps begin with that of the block.         *)
LEMMA Heads ==
  ASSUME NEW i, NEW j
  PROVE  /\ SubSeq(<<i>>, 1, 1) = <<i>>
         /\ SubSeq(<<i, j>>, 1, 1) = <<i>>
         /\ SubSeq(<<i, j>>, 1, 2) = <<i, j>>
<1> DEFINE S == {i, j}
<1>1. /\ <<i>> \in Seq(S) /\ Len(<<i>>) = 1 /\ <<i>>[1] = i
      /\ <<i, j>> \in Seq(S) /\ Len(<<i, j>>) = 2 /\ <<i, j>>[1] = i
  BY SMT
<1> HIDE DEF S
<1>2. SubSeq(<<i>>, 1, 1) = <<i>> /\ SubSeq(<<i, j>>, 1, 2) = <<i, j>>
  <2>1. SubSeq(<<i>>, 1, Len(<<i>>)) = <<i>> /\ SubSeq(<<i, j>>, 1, Len(<<i, j>>)) = <<i, j>>
    BY <1>1, SubSeqFull
  <2> QED BY <1>1, <2>1
<1>3. SubSeq(<<i, j>>, 1, 1) = <<i>>
  <2> DEFINE s == <<i, j>>
  <2>1. s \in Seq(S) /\ Len(s) = 2 /\ s[1] = i
    BY <1>1
  <2> HIDE DEF s
  <2>2. 1 \in 1..Len(s) /\ 1 \in 1..Len(s) /\ 1 + 1 \in Int /\ 1 \in Int /\ 1 < 1 + 1
    BY <2>1
  <2>3. SubSeq(s, 1, 1) = <<s[1]>> \o SubSeq(s, 1 + 1, 1)
    BY <2>1, <2>2, SubSeqRecursiveFirst
  <2>4. SubSeq(s, 1 + 1, 1) = <<>>
    BY <2>2, SubSeqEmpty
  <2>5. <<s[1]>> \o <<>> = <<s[1]>>
    <3>1. <<s[1]>> \in Seq(S)
      BY <1>1, <2>1
    <3> QED BY <3>1, ConcatEmptySeq
  <2> QED BY <2>1, <2>3, <2>4, <2>5 DEF s
<1> QED BY <1>2, <1>3

(* A block whose name an earlier block has is shadowed or a twin.          *)
LEMMA LaterIsSaid ==
  ASSUME NEW slice, IsSlice(slice), NEW i \in NamedAt(slice),
         ~IsFirst(slice, slice[i].id, i)
  PROVE  IsShadowed(slice, slice[i].id)
           \/ (Prior(slice, i) /\ Twin(slice, i) \in Range(Analyze(slice)))
<1>1. /\ IsList(slice) /\ i \in DOMAIN slice /\ slice[i].id # NoName
      /\ Range(Named(slice)) = NamedAt(slice)
  BY SlotsAre DEF IsSlice, NamedAt, SlotAt
<1>2. PICK f \in DOMAIN slice : f <= i /\ IsFirst(slice, slice[i].id, f)
  BY <1>1, FirstIs
<1>3. TopBlock(slice, slice[i].id) = <<f>> /\ slice[f].id = slice[i].id
  BY <1>1, <1>2, TopBlockIs DEF IsFirst
<1>4. f < i
  <2>1. f # i
    BY <1>2
  <2>2. f \in Nat /\ i \in Nat
    BY <1>1, <1>2, Listed, SMT
  <2> QED BY <1>2, <2>1, <2>2, SMT
<1>5. CASE slice[f].kind \notin SlotKinds
  <2> DEFINE shown == TopBlock(slice, slice[i].id)
  <2>1. IsShadowed(slice, slice[i].id) <=> shown # <<>> /\ slice[shown[1]].kind \notin SlotKinds
    BY DEF IsShadowed
  <2>2. shown # <<>> /\ shown[1] = f
    BY <1>3
  <2> HIDE DEF shown
  <2> QED BY <1>5, <2>1, <2>2
<1>6. CASE slice[f].kind \in SlotKinds
  <2>1. f \in NamedAt(slice)
    BY <1>1, <1>3, <1>6 DEF NamedAt, SlotAt
  <2>2. Prior(slice, i)
    BY <1>1, <1>3, <1>4, <2>1 DEF Prior
  <2> QED BY <2>2, TwinsAreSaid, DuplicatesAreSaid
<1> QED BY <1>5, <1>6

LEMMA RowIsFound ==
  ASSUME NEW slice, IsSlice(slice), NEW r \in Range(SlotRows(slice)), r.is # "header"
  PROVE  IsShadowed(slice, r.id) \/ TwinSaid(slice, r.at) \/ LeadsBack(slice, r)
<1>1. IsBlockRow(slice, r) \/ IsStepRow(slice, r)
  <2>1. Header.is = "header"
    BY DEF Header, Place
  <2> QED BY <2>1, SlotRowsAre
<1>2. PICK i \in NamedAt(slice) :
        \/ r = RowOf(slice, i)
        \/ /\ slice[i].kind = "event"
           /\ \E j \in NamedStepAt(slice[i]) : r = RowOfStep(slice, i, j)
  BY <1>1 DEF IsBlockRow, IsStepRow
<1>3. IsList(slice) /\ i \in DOMAIN slice /\ slice[i].id # NoName /\ Range(Named(slice)) = NamedAt(slice)
  BY SlotsAre DEF IsSlice, NamedAt, SlotAt
<1>4. r.id = slice[i].id /\ (r.at = <<i>> \/ \E j \in NamedStepAt(slice[i]) : r.at = <<i, j>>)
  BY <1>2 DEF RowOf, RowOfStep, Place
<1>5. SubSeq(r.at, 1, 1) = <<i>>
  BY <1>4, Heads
<1>6. CASE ~IsFirst(slice, slice[i].id, i)
  <2>1. Twin(slice, i).code = "E0250" /\ Twin(slice, i).at = <<i>>
    BY DEF Twin, Diag
  <2>2. Twin(slice, i) \in Range(Analyze(slice)) => TwinSaid(slice, r.at)
    BY <1>5, <2>1 DEF TwinSaid
  <2> QED BY <1>4, <1>6, <2>2, LaterIsSaid
<1>7. CASE IsFirst(slice, slice[i].id, i)
  <2>1. CASE r = RowOf(slice, i)
    <3>1. r.is = "block" /\ r.at = <<i>>
      BY <2>1 DEF RowOf, Place
    <3>2. TopBlock(slice, r.id) = <<i>>
      BY <1>3, <1>4, <1>7, TopBlockIs
    <3>3. DetailAt(slice, r) = <<i>> /\ NodeAt(slice, r) = <<i>>
      BY <3>1, <3>2 DEF DetailAt, NodeAt
    <3>4. ById(slice, r.id) = <<i>> \/ Len(ById(slice, r.id)) = 2
      BY <1>3, <1>4, <1>7, ByIdIs
    <3> QED BY <3>1, <3>3, <3>4 DEF LeadsBack
  <2>2. ASSUME slice[i].kind = "event", NEW j \in NamedStepAt(slice[i]), r = RowOfStep(slice, i, j)
        PROVE  TwinSaid(slice, r.at) \/ LeadsBack(slice, r)
    <3>1. r.is = "step" /\ r.at = <<i, j>>
      BY <2>2 DEF RowOfStep, Place
    <3>2. ~Prior(slice, i)
      BY <1>3, <1>7 DEF Prior, IsFirst, NamedAt, SlotAt
    <3>3. CASE PriorStep(slice[i], j)
      <4>1. StepTwin(slice, i, j) \in Range(Analyze(slice))
        BY <2>2, <3>2, <3>3, TwinsAreSaid, DuplicatesAreSaid
      <4>2. StepTwin(slice, i, j).code = "E0251" /\ StepTwin(slice, i, j).at = <<i, j>>
        BY DEF StepTwin, Diag
      <4> QED BY <3>1, <4>1, <4>2 DEF TwinSaid
    <3>4. CASE ~PriorStep(slice[i], j)
      <4>1. DetailAt(slice, r) = <<i, j>> /\ NodeAt(slice, r) = <<i, j>>
        BY <1>3, <1>7, <2>2, <3>4, StepLookedUp
      <4> QED BY <3>1, <4>1 DEF LeadsBack
    <3> QED BY <3>3, <3>4
  <2> QED BY <1>2, <2>1, <2>2
<1> QED BY <1>6, <1>7

-----------------------------------------------------------------------------
(* What the panes show is of the texts that were loaded last.              *)

Told(d) == \E n \in DOMAIN diagRows : diagRows[n].file = d.file /\ diagRows[n].what = d.what

PanesInv ==
  /\ ViewInv
  /\ phase = "idle" =>
       /\ ws \in WorkingSets /\ activeRoot \in DOMAIN ws
       /\ slotRows = CurrentRows
       /\ \A i \in DOMAIN Analysis(ws) : Told(Analysis(ws)[i])

LEMMA PanesInit == Init => PanesInv
BY ViewInit DEF Init, PanesInv

LEMMA RebuildTells ==
  ASSUME ViewInv, Rebuild
  PROVE  \A i \in DOMAIN Analysis(ws) : Told(Analysis(ws)[i])'
<1> DEFINE found == Analysis(ws)
           rows  == [i \in DOMAIN found |-> DiagRow(found[i])]
<1>1. ws \in WorkingSets /\ disk \in [Path -> Content] /\ ws' = ws
  BY DEF ViewInv, ViewType, Rebuild
<1>2. diagRows' = Sorted(rows)
  BY DEF Rebuild, CurrentDiags
<1>3. /\ found \in Seq(Diagnostic)
      /\ \A i \in DOMAIN found : /\ found[i].severity \in Nat /\ found[i].file \in Path
                                 /\ \A t \in Texts : LineOf(t, found[i].offset) \in Nat
  BY <1>1, ViewerAssumption
<1> HIDE DEF found
<1>4. PICK n \in Nat : DOMAIN found = 1..n
  BY <1>3, LenProperties
<1>5. DOMAIN rows = 1..n /\ \A i \in 1..n : rows[i] = DiagRow(found[i])
  BY <1>4
<1> HIDE DEF rows
<1>6. \A i \in 1..n : IsDiagRow(rows[i])
  <2> SUFFICES ASSUME NEW i \in 1..n PROVE IsDiagRow(rows[i])
    OBVIOUS
  <2>1. found[i].file \in Path /\ disk[found[i].file] \in Texts \cup {Absent}
    BY <1>1, <1>3, <1>4 DEF Content
  <2>2. LineNow(found[i].file, found[i].offset) \in Nat
    BY <1>3, <1>4, <2>1 DEF LineNow
  <2> QED
    BY <1>3, <1>4, <1>5, <2>1, <2>2 DEF DiagRow, IsDiagRow
<1>7. \A i \in 1..n : Has(diagRows', rows[i])
  BY <1>2, <1>5, <1>6, SortedFacts
<1>8. ASSUME NEW i \in 1..n
      PROVE  \E k \in DOMAIN diagRows' : /\ diagRows'[k].file = found[i].file
                                         /\ diagRows'[k].what = found[i].what
  <2>1. rows[i].file = found[i].file /\ rows[i].what = found[i].what
    BY <1>5 DEF DiagRow
  <2> QED
    BY <1>7, <2>1 DEF Has
<1> QED
  BY <1>1, <1>4, <1>8 DEF Told, found

LEMMA PanesStep == PanesInv /\ [Next]_vars => PanesInv'
<1> SUFFICES ASSUME PanesInv, [Next]_vars PROVE PanesInv'
  OBVIOUS
<1>0. ViewInv /\ ViewInv'
  BY ViewStep DEF PanesInv
<1>1. ASSUME phase' # "idle" PROVE PanesInv'
  BY <1>0, <1>1 DEF PanesInv
<1>2. ASSUME UNCHANGED <<phase, activeRoot, ws, slotRows, diagRows>> PROVE PanesInv'
  BY <1>0, <1>2 DEF PanesInv, CurrentRows, Told
<1>3. CASE Rebuild
  <2>1. ws \in WorkingSets /\ activeRoot \in DOMAIN ws
    BY <1>0, <1>3 DEF ViewInv, ViewType, Rebuild
  <2>2. UNCHANGED <<activeRoot, ws>> /\ slotRows' = CurrentRows
    BY <1>3 DEF Rebuild
  <2>3. CurrentRows' = CurrentRows
    BY <2>2 DEF CurrentRows
  <2>4. \A i \in DOMAIN Analysis(ws) : Told(Analysis(ws)[i])'
    BY <1>0, <1>3, RebuildTells
  <2> QED
    BY <1>0, <2>1, <2>2, <2>3, <2>4 DEF PanesInv
<1>4. CASE Load \/ Quit \/ Reload
  BY <1>1, <1>4 DEF Load, Quit, Reload
<1>5. CASE Digit \/ Tab \/ BackTab
  BY <1>2, <1>5 DEF Digit, Tab, BackTab, FocusOn
<1>6. ASSUME NEW n, Select(n) PROVE PanesInv'
  BY <1>1, <1>2, <1>6 DEF Select, Shown
<1>7. CASE \E p \in File : Save(p)
  BY <1>2, <1>7 DEF Save
<1>8. CASE UNCHANGED vars
  BY <1>2, <1>8 DEF vars
<1> QED
  BY <1>3, <1>4, <1>5, <1>6, <1>7, <1>8 DEF Next, Viewer, Down, Up, First, End

(* While a row is selected the pane has the rows of the loaded slice.      *)
LEMMA ShownRows ==
  ASSUME PanesInv, Shows
  PROVE  /\ ws \in WorkingSets /\ activeRoot \in DOMAIN ws
         /\ ws[activeRoot] \in Texts /\ ws[activeRoot] # Absent
         /\ slotRows = SlotRows(Slice)
         /\ selected["slots"] \in DOMAIN slotRows /\ SelectedRow \in Range(slotRows)
<1>1. /\ ws \in WorkingSets /\ activeRoot \in DOMAIN ws /\ slotRows = CurrentRows
      /\ slotRows \in Seq(SlotRow) /\ selected["slots"] # 0
  BY DEF PanesInv, Shows, ViewInv, ViewType
<1>2. selected["slots"] \in 0..Len(slotRows)
  BY DEF PanesInv, ViewInv, CursorsFit, Pane, Rows
<1>3. Len(slotRows) \in Nat /\ DOMAIN slotRows = 1..Len(slotRows)
  BY <1>1, LenProperties
<1>4. selected["slots"] \in DOMAIN slotRows
  BY <1>1, <1>2, <1>3
<1>5. ws[activeRoot] \in Texts \cup {Absent}
  BY <1>1 DEF WorkingSets
<1>6. ws[activeRoot] # Absent
  <2>1. slotRows # <<>>
    BY <1>4
  <2> QED
    BY <1>1, <2>1 DEF CurrentRows
<1>7. slotRows = SlotRows(Slice)
  BY <1>1, <1>5, <1>6, PanesAssumption DEF CurrentRows, Slice
<1>8. SelectedRow \in Range(slotRows)
  BY <1>4 DEF SelectedRow, Range
<1> QED
  BY <1>1, <1>4, <1>5, <1>6, <1>7, <1>8

(* Detail, Graph and query --by-id look the names of a row up again, each  *)
(* in its own way.  Over all slices and all rows: where one of them leads  *)
(* to another block, the Diagnostics pane of tui.rs calls the row's block  *)
(* a duplicate, or a block of none of the seven kinds has the name in      *)
(* front of it, or it is query that found a step of an event in front.     *)
THEOREM WrongDetailsAreReported == Spec => []WrongDetailIsReported
<1>1. PanesInv => WrongDetailIsReported
  <2> SUFFICES ASSUME PanesInv, Shows, SelectedRow.is # "header" PROVE WrongDetailIsReported
    BY DEF WrongDetailIsReported
  <2> DEFINE r == SelectedRow
             s == Slice
  <2>1. /\ ws \in WorkingSets /\ activeRoot \in DOMAIN ws
        /\ ws[activeRoot] \in Texts /\ ws[activeRoot] # Absent
        /\ r \in Range(SlotRows(s)) /\ IsSlice(s)
    BY ShownRows, PanesAssumption DEF Slice
  <2>2. IsShadowed(s, r.id) \/ TwinSaid(s, r.at) \/ LeadsBack(s, r)
    BY <2>1, RowIsFound
  <2>3. IsShadowed(s, r.id) => Shadowed(r)
    BY DEF IsShadowed, Shadowed
  <2>4. ASSUME TwinSaid(s, r.at) PROVE ReportedTwin(r)
    <3>1. PICK d \in Range(Analyze(s)) : d.code \in {"E0250", "E0251"} /\ d.at \in {r.at, SubSeq(r.at, 1, 1)}
      BY <2>4 DEF TwinSaid
    <3>2. PICK i \in DOMAIN Analysis(ws) :
            /\ Analysis(ws)[i].file = activeRoot
            /\ Analysis(ws)[i].what.code = d.code /\ Analysis(ws)[i].what.at = d.at
      BY <2>1, PanesAssumption DEF Slice
    <3>3. Told(Analysis(ws)[i])
      BY DEF PanesInv, Shows
    <3> QED
      BY <3>1, <3>2, <3>3 DEF Told, ReportedTwin
  <2> QED
    BY <2>2, <2>3, <2>4 DEF LeadsBack, WrongDetailIsReported
<1> QED
  BY PanesInit, PanesStep, <1>1, PTL DEF Spec

-----------------------------------------------------------------------------
(* The rows are the ids that query lists.  Both are mapped lists.          *)

AllRows(slice)  == {Header} \cup (UNION {Range(BlockRows(slice, i)) : i \in DOMAIN slice})
IdAndStep(r)    == <<r.id, r.step>>
AllPairs(slice) == {IdAndStep(r) : r \in AllRows(slice)}
PairOf(slice)   == [r \in AllRows(slice) |-> If(r.is # "header", IdAndStep(r))]

EntryOf(slice, kind, i) ==
  [id |-> slice[i].id, steps |-> IF kind = "event" THEN StepIdsOf(slice[i]) ELSE <<>>]
StepsIn(id, steps) == ForEach(steps, LAMBDA x : <<<<id, x>>>>)
NamesIn(entry) == <<<<entry.id, NoName>>>> \o StepsIn(entry.id, entry.steps)

LEMMA RowPair ==
  ASSUME NEW slice
  PROVE  /\ Lists(PairOf(slice), AllRows(slice), AllPairs(slice))
         /\ Header \in AllRows(slice) /\ PairOf(slice)[Header] = <<>>
         /\ \A r \in AllRows(slice) : r.is # "header" => PairOf(slice)[r] = <<IdAndStep(r)>>
<1> DEFINE S == AllPairs(slice)
<1>1. ASSUME NEW r \in AllRows(slice) PROVE If(r.is # "header", IdAndStep(r)) \in Seq(S)
  <2>1. IdAndStep(r) \in S
    BY DEF AllPairs
  <2> HIDE DEF S
  <2>2. <<IdAndStep(r)>> \in Seq(S) /\ <<>> \in Seq(S)
    BY <2>1, EmptySeq
  <2> QED BY <2>2 DEF If
<1>2. Lists(PairOf(slice), AllRows(slice), S)
  BY <1>1 DEF Lists, PairOf
<1>3. Header \in AllRows(slice) /\ Header.is = "header"
  BY DEF AllRows, Header, Place
<1>4. \A r \in AllRows(slice) : PairOf(slice)[r] = IF r.is # "header" THEN <<IdAndStep(r)>> ELSE <<>>
  BY DEF PairOf, If
<1> QED BY <1>2, <1>3, <1>4

LEMMA BlockRowsIn ==
  ASSUME NEW slice, IsSlice(slice), NEW i \in DOMAIN slice
  PROVE  /\ BlockRows(slice, i) \in Seq(AllRows(slice))
         /\ Range(BlockRows(slice, i)) \subseteq AllRows(slice)
<1>1. Range(BlockRows(slice, i)) \subseteq AllRows(slice)
  BY DEF AllRows
<1>2. BlockRows(slice, i) \in Seq(Range(BlockRows(slice, i)))
  BY BlockRowsAre DEF IsList
<1> QED BY <1>1, <1>2, SeqMonotonic

(* The steps of an event.                                                  *)
LEMMA StepPairs ==
  ASSUME NEW slice, IsSlice(slice), NEW i \in DOMAIN slice, slice[i].kind = "event"
  PROVE  /\ StepRows(slice, i) \in Seq(AllRows(slice))
         /\ Spread(PairOf(slice), StepRows(slice, i)) =
              StepsIn(slice[i].id, StepIdsOf(slice[i]))
<1> DEFINE b  == slice[i]
           q  == NamedSteps(b)
           x  == [n \in DOMAIN q |-> RowOfStep(slice, i, q[n])]
           y  == [n \in DOMAIN q |-> b.blocks[q[n]].id]
           rs == [n \in DOMAIN q |-> <<x[n]>>]
           is == [n \in DOMAIN q |-> <<y[n]>>]
           ps == [n \in DOMAIN q |-> <<<<b.id, y[n]>>>>]
           Y  == {y[n] : n \in DOMAIN q}
           h  == [z \in Y |-> <<<<b.id, z>>>>]
           R  == AllRows(slice)
           S  == AllPairs(slice)
           g  == PairOf(slice)
<1>1. IsList(q) /\ Range(q) = NamedStepAt(b)
  BY IdOfPlace, StepsAre DEF IsBlock
<1>2. /\ StepRows(slice, i) = FlattenSeq(rs)
      /\ StepIdsOf(b) = FlattenSeq(is)
  BY DEF StepRows, StepIdsOf, ForEach, RowOfStep
<1>3. \A n \in DOMAIN q : x[n].is = "step" /\ IdAndStep(x[n]) = <<b.id, y[n]>>
  BY DEF RowOfStep, Place, IdAndStep
<1>r. StepRows(slice, i) \in Seq(R) /\ Range(StepRows(slice, i)) \subseteq R
  <2>1. IsList(<<RowOf(slice, i)>>) /\ IsList(StepRows(slice, i))
    BY One, BlockRowsAre
  <2>2. BlockRows(slice, i) = <<RowOf(slice, i)>> \o StepRows(slice, i)
    BY DEF BlockRows, RowOf
  <2>3. Range(StepRows(slice, i)) \subseteq Range(BlockRows(slice, i))
    BY <2>1, <2>2, Joins
  <2>4. Range(StepRows(slice, i)) \subseteq R
    BY <2>3, BlockRowsIn
  <2>5. StepRows(slice, i) \in Seq(Range(StepRows(slice, i)))
    BY <2>1 DEF IsList
  <2> HIDE DEF R
  <2> QED BY <2>4, <2>5, SeqMonotonic
<1>4. \A n \in DOMAIN q : x[n] \in R
  <2>1. \A n \in DOMAIN q : IsList(rs[n]) /\ Range(rs[n]) = {x[n]}
    BY One
  <2> HIDE DEF q, x
  <2>2. rs = [n \in DOMAIN q |-> rs[n]]
    OBVIOUS
  <2> HIDE DEF rs
  <2>3. \A r : r \in Range(FlattenSeq(rs)) <=> \E n \in DOMAIN q : r \in Range(rs[n])
    BY <1>1, <2>1, <2>2, FlatList
  <2> QED BY <1>2, <1>r, <2>1, <2>3
<1>5. Lists(g, R, S) /\ \A r \in R : r.is # "header" => g[r] = <<IdAndStep(r)>>
  BY RowPair
<1> DEFINE P == {<<b.id, z>> : z \in Y}
<1>6. /\ Lists(h, Y, P)
      /\ \A n \in DOMAIN q : y[n] \in Y /\ h[y[n]] = <<<<b.id, y[n]>>>>
      /\ \A z \in Y : h[z] = <<<<b.id, z>>>>
  <2>1. \A z \in Y : <<b.id, z>> \in P
    OBVIOUS
  <2>2. \A p \in P : <<p>> \in Seq(P)
    <3> HIDE DEF P
    <3> QED BY SMT
  <2> HIDE DEF P
  <2>3. h \in [Y -> Seq(P)]
    <3> HIDE DEF Y
    <3> QED BY <2>1, <2>2
  <2>4. \A n \in DOMAIN q : y[n] \in Y
    OBVIOUS
  <2> HIDE DEF Y, y
  <2>5. \A z \in Y : h[z] = <<<<b.id, z>>>>
    OBVIOUS
  <2> QED BY <2>3, <2>4, <2>5 DEF Lists
<1>7. \A n \in DOMAIN q : rs[n] = <<x[n]>> /\ is[n] = <<y[n]>> /\ ps[n] = <<<<b.id, y[n]>>>>
  <2> HIDE DEF q, x, y
  <2> QED OBVIOUS
<1>8. /\ rs = [n \in DOMAIN q |-> rs[n]] /\ is = [n \in DOMAIN q |-> is[n]]
      /\ ps = [n \in DOMAIN q |-> ps[n]]
  <2> HIDE DEF q, x, y
  <2> QED OBVIOUS
<1> HIDE DEF q, x, y, rs, is, ps, Y, P, h, R, S, g
<1>9. ListFor(q, rs, R) /\ ListFor(q, ps, S) /\ ListFor(q, is, Y) /\ ListFor(q, ps, P)
  <2>1. \A X, z : z \in X => <<z>> \in Seq(X)
    BY SMT
  <2>2. \A n \in DOMAIN q : ps[n] = g[x[n]]
    BY <1>3, <1>4, <1>5, <1>7
  <2>3. \A n \in DOMAIN q : ps[n] \in Seq(S)
    BY <1>4, <1>5, <2>2 DEF Lists
  <2>4. \A n \in DOMAIN q : ps[n] \in Seq(P)
    BY <1>6, <1>7 DEF Lists
  <2>5. \A n \in DOMAIN q : rs[n] \in Seq(R) /\ is[n] \in Seq(Y)
    BY <1>4, <1>6, <1>7, <2>1
  <2> QED BY <1>8, <2>3, <2>4, <2>5 DEF ListFor
<1>10. Spread(g, FlattenSeq(rs)) = FlattenSeq(ps)
  <2>1. \A n \in DOMAIN q : x[n] \in R /\ rs[n] = <<x[n]>> /\ ps[n] = g[x[n]]
    BY <1>3, <1>4, <1>5, <1>7
  <2> QED BY <1>1, <1>5, <1>9, <2>1, SpreadOnes
<1>11. Spread(h, FlattenSeq(is)) = FlattenSeq(ps)
  <2>1. \A n \in DOMAIN q : y[n] \in Y /\ is[n] = <<y[n]>> /\ ps[n] = h[y[n]]
    BY <1>6, <1>7
  <2> QED BY <1>1, <1>6, <1>9, <2>1, SpreadOnes
<1>12. StepsIn(b.id, StepIdsOf(b)) = Spread(h, StepIdsOf(b))
  <2> DEFINE ids == StepIdsOf(b)
  <2>1. \A k \in DOMAIN ids : ids[k] \in Y
    <3>1. \A n \in DOMAIN q : IsList(is[n]) /\ Range(is[n]) = {y[n]}
      BY <1>7, One
    <3>2. /\ IsList(FlattenSeq(is))
          /\ \A z : z \in Range(FlattenSeq(is)) <=> \E n \in DOMAIN q : z \in Range(is[n])
      BY <1>1, <1>8, <3>1, FlatList
    <3>3. \A k \in DOMAIN FlattenSeq(is) : FlattenSeq(is)[k] \in Range(FlattenSeq(is))
      BY <3>2, Listed
    <3> QED BY <1>2, <1>6, <3>1, <3>2, <3>3
  <2>2. StepsIn(b.id, ids) = FlattenSeq([k \in DOMAIN ids |-> <<<<b.id, ids[k]>>>>])
    BY DEF StepsIn, ForEach
  <2> HIDE DEF ids
  <2>3. [k \in DOMAIN ids |-> <<<<b.id, ids[k]>>>>] = [k \in DOMAIN ids |-> h[ids[k]]]
    BY <1>6, <2>1
  <2> QED BY <2>2, <2>3 DEF Spread, ids
<1> QED BY <1>2, <1>r, <1>10, <1>11, <1>12 DEF R, g

(* The rows of a block give the names of its entry.                        *)
LEMMA BlockPairs ==
  ASSUME NEW slice, IsSlice(slice), NEW i \in DOMAIN slice
  PROVE  Spread(PairOf(slice), BlockRows(slice, i)) = NamesIn(EntryOf(slice, slice[i].kind, i))
<1> DEFINE g == PairOf(slice)
           R == AllRows(slice)
           S == AllPairs(slice)
           r == RowOf(slice, i)
           t == StepRows(slice, i)
           e == EntryOf(slice, slice[i].kind, i)
           id == slice[i].id
<1>1. Lists(g, R, S) /\ \A x \in R : x.is # "header" => g[x] = <<IdAndStep(x)>>
  BY RowPair
<1>2. BlockRows(slice, i) = <<r>> \o t /\ r.is # "header" /\ IdAndStep(r) = <<id, NoName>>
  BY DEF BlockRows, RowOf, Place, IdAndStep
<1>3. r \in R
  <2>1. IsList(<<r>>) /\ Range(<<r>>) = {r} /\ IsList(t)
    BY One, BlockRowsAre
  <2>2. r \in Range(BlockRows(slice, i))
    BY <1>2, <2>1, Joins
  <2> QED BY <2>2, BlockRowsIn
<1>4. e.id = id /\ e.steps = IF slice[i].kind = "event" THEN StepIdsOf(slice[i]) ELSE <<>>
  BY DEF EntryOf
<1>5. t \in Seq(R) /\ Spread(g, t) = StepsIn(id, e.steps)
  <2>1. CASE slice[i].kind = "event"
    BY <1>4, <2>1, StepPairs
  <2>2. CASE slice[i].kind # "event"
    <3>1. t = <<>> /\ e.steps = <<>>
      BY <1>4, <2>2 DEF StepRows
    <3>2. StepsIn(id, <<>>) = <<>>
      <4> DEFINE m == [k \in DOMAIN <<>> |-> <<<<id, <<>>[k]>>>>]
      <4>1. StepsIn(id, <<>>) = FlattenSeq(m)
        BY DEF StepsIn, ForEach
      <4>2. m = <<>>
        BY SMT
      <4> QED BY <4>1, <4>2, FlatNone
    <3>3. <<>> \in Seq(R) /\ Spread(g, <<>>) = <<>>
      BY EmptySeq, SpreadNone
    <3> HIDE DEF t, e, g
    <3> QED BY <3>1, <3>2, <3>3
  <2> QED BY <2>1, <2>2
<1> HIDE DEF g, R, S, r, t, e
<1>6. <<r>> \in Seq(R)
  BY <1>3, SMT
<1>7. Spread(g, <<r>> \o t) = Spread(g, <<r>>) \o Spread(g, t)
  <2>1. \A u, v \in Seq(R) : Spread(g, u \o v) = Spread(g, u) \o Spread(g, v)
    BY <1>1, SpreadOver
  <2> QED BY <1>5, <1>6, <2>1, Zenon
<1>8. Spread(g, <<r>>) = <<<<id, NoName>>>>
  BY <1>1, <1>2, <1>3, SpreadOver
<1>9. NamesIn(e) = <<<<id, NoName>>>> \o StepsIn(id, e.steps)
  BY <1>4 DEF NamesIn
<1> QED BY <1>2, <1>5, <1>7, <1>8, <1>9 DEF g, e

(* ... the rows of a kind those of its entries, the header none.           *)
LEMMA KindPairs ==
  ASSUME NEW slice, IsSlice(slice), NEW kind \in Range(KindOrder)
  PROVE  /\ KindRows(slice, kind) \in Seq(AllRows(slice))
         /\ Spread(PairOf(slice), KindRows(slice, kind)) = ForEach(ListIds(slice)[kind], NamesIn)
<1> DEFINE at == Only(Places(slice), KindAt(slice, kind))
           g  == PairOf(slice)
           R  == AllRows(slice)
           S  == AllPairs(slice)
           bs == [n \in DOMAIN at |-> BlockRows(slice, at[n])]
           x  == [n \in DOMAIN at |-> EntryOf(slice, kind, at[n])]
           es == [n \in DOMAIN at |-> <<x[n]>>]
           ns == [n \in DOMAIN at |-> NamesIn(x[n])]
           E  == {x[n] : n \in DOMAIN at}
           h  == [e \in E |-> NamesIn(e)]
<1>1. IsList(at) /\ Range(at) = KindAt(slice, kind) /\ IsList(slice)
  BY KindListIs DEF IsSlice
<1>2. \A n \in DOMAIN at : at[n] \in DOMAIN slice /\ slice[at[n]].kind = kind
  BY <1>1, Listed DEF KindAt
<1>3. NamedRows(slice, kind) = FlattenSeq(bs)
  BY DEF NamedRows
<1>4. ListIds(slice)[kind] = FlattenSeq(es)
  BY DEF ListIds, ForEach, EntryOf, KindAt
<1>5. \A n \in DOMAIN at : bs[n] = BlockRows(slice, at[n]) /\ x[n] = EntryOf(slice, kind, at[n])
  <2> HIDE DEF at
  <2> QED OBVIOUS
<1>6. \A n \in DOMAIN at : es[n] = <<x[n]>> /\ ns[n] = NamesIn(x[n]) /\ x[n] \in E /\ h[x[n]] = NamesIn(x[n])
  <2> HIDE DEF at, x
  <2> QED OBVIOUS
<1>7. /\ bs = [n \in DOMAIN at |-> bs[n]] /\ es = [n \in DOMAIN at |-> es[n]]
      /\ ns = [n \in DOMAIN at |-> ns[n]]
  <2> HIDE DEF at, x
  <2> QED OBVIOUS
<1>e. h = [e \in E |-> h[e]] /\ \A e \in E : h[e] = NamesIn(e) /\ \E n \in DOMAIN at : e = x[n]
  <2> HIDE DEF at, x
  <2> QED OBVIOUS
<1> HIDE DEF at, bs, x, es, ns, E, h
<1>8. Lists(g, R, S) /\ Header \in R /\ g[Header] = <<>>
  BY RowPair
<1>9. \A n \in DOMAIN at : bs[n] \in Seq(R) /\ Range(bs[n]) \subseteq R
  BY <1>2, <1>5, BlockRowsIn
<1>10. \A n \in DOMAIN at : ns[n] = Spread(g, bs[n])
  BY <1>2, <1>5, <1>6, BlockPairs
<1> HIDE DEF g, R, S
<1>11. \A n \in DOMAIN at : ns[n] \in Seq(S)
  BY <1>8, <1>9, <1>10, SpreadOver
<1>12. Lists(h, E, S)
  BY <1>6, <1>11, <1>e DEF Lists
<1>13. ListFor(at, bs, R) /\ ListFor(at, ns, S) /\ ListFor(at, es, E)
  <2>1. \A X, z : z \in X => <<z>> \in Seq(X)
    BY SMT
  <2>2. \A n \in DOMAIN at : es[n] \in Seq(E)
    BY <1>6, <2>1
  <2> QED BY <1>7, <1>9, <1>11, <2>2 DEF ListFor
<1>14. Spread(g, FlattenSeq(bs)) = FlattenSeq(ns)
  BY <1>1, <1>8, <1>10, <1>13, SpreadList
<1>15. Spread(h, FlattenSeq(es)) = FlattenSeq(ns)
  <2>1. \A n \in DOMAIN at : x[n] \in E /\ es[n] = <<x[n]>> /\ ns[n] = h[x[n]]
    BY <1>6
  <2> QED BY <1>1, <1>12, <1>13, <2>1, SpreadOnes
<1>16. ForEach(FlattenSeq(es), NamesIn) = Spread(h, FlattenSeq(es))
  <2> DEFINE l == FlattenSeq(es)
  <2>1. \A k \in DOMAIN l : l[k] \in E
    <3>1. \A n \in DOMAIN at : IsList(es[n]) /\ Range(es[n]) = {x[n]}
      BY <1>6, One
    <3>2. IsList(l) /\ \A z : z \in Range(l) <=> \E n \in DOMAIN at : z \in Range(es[n])
      BY <1>1, <1>7, <3>1, FlatList
    <3> HIDE DEF l
    <3> QED BY <1>6, <3>1, <3>2, Listed
  <2>2. ForEach(l, NamesIn) = FlattenSeq([k \in DOMAIN l |-> NamesIn(l[k])])
    BY DEF ForEach
  <2> HIDE DEF l
  <2>3. [k \in DOMAIN l |-> NamesIn(l[k])] = [k \in DOMAIN l |-> h[l[k]]]
    BY <1>e, <2>1
  <2> QED BY <2>2, <2>3 DEF Spread, l
<1>17. FlattenSeq(bs) \in Seq(R)
  <2>1. \A n \in DOMAIN at : IsList(bs[n])
    BY <1>9, ListOf
  <2>2. /\ IsList(FlattenSeq(bs))
        /\ \A z : z \in Range(FlattenSeq(bs)) <=> \E n \in DOMAIN at : z \in Range(bs[n])
    BY <1>1, <1>7, <2>1, FlatList
  <2>3. Range(FlattenSeq(bs)) \subseteq R
    BY <1>9, <2>2
  <2> QED BY <2>2, <2>3, SeqMonotonic DEF IsList
<1>18. /\ KindRows(slice, kind) \in Seq(R)
       /\ Spread(g, KindRows(slice, kind)) = FlattenSeq(ns)
  <2> DEFINE t == FlattenSeq(bs)
  <2>1. CASE KindRows(slice, kind) = t
    BY <1>14, <1>17, <2>1
  <2>2. CASE KindRows(slice, kind) = <<Header>> \o t
    <3>1. <<Header>> \in Seq(R)
      BY <1>8, SMT
    <3> HIDE DEF t
    <3>2. t \in Seq(R) /\ Spread(g, t) = FlattenSeq(ns) /\ FlattenSeq(ns) \in Seq(S)
      <4>1. Spread(g, t) \in Seq(S)
        BY <1>8, <1>17, SpreadOver DEF t
      <4> QED BY <1>14, <1>17, <4>1 DEF t
    <3>3. Spread(g, <<Header>> \o t) = Spread(g, <<Header>>) \o Spread(g, t)
      <4>1. \A u, v \in Seq(R) : Spread(g, u \o v) = Spread(g, u) \o Spread(g, v)
        BY <1>8, SpreadOver
      <4> QED BY <3>1, <3>2, <4>1, Zenon
    <3>4. Spread(g, <<Header>>) = <<>>
      BY <1>8, SpreadOver
    <3>5. <<>> \o FlattenSeq(ns) = FlattenSeq(ns) /\ <<Header>> \o t \in Seq(R)
      BY <3>1, <3>2, ConcatEmptySeq, ConcatProperties
    <3> QED BY <2>2, <3>2, <3>3, <3>4, <3>5
  <2> QED BY <1>1, <1>3, <2>1, <2>2, KindRowsAre
<1> QED BY <1>4, <1>15, <1>16, <1>18 DEF g, R

(* Kind by kind, the rows are the ids.                                     *)
LEMMA RowsAreListed ==
  ASSUME NEW slice, IsSlice(slice)
  PROVE  ForEach(KindOrder, LAMBDA kind : ForEach(ListIds(slice)[kind], NamesIn)) =
           ForEach(SlotRows(slice), LAMBDA row : If(row.is # "header", <<row.id, row.step>>))
<1> DEFINE ks == KindOrder
           g  == PairOf(slice)
           R  == AllRows(slice)
           S  == AllPairs(slice)
           rs == [k \in DOMAIN ks |-> KindRows(slice, ks[k])]
           ns == [k \in DOMAIN ks |-> ForEach(ListIds(slice)[ks[k]], NamesIn)]
           rows == SlotRows(slice)
<1>1. IsList(ks) /\ \A k \in DOMAIN ks : ks[k] \in Range(KindOrder)
  BY KindsAre, Listed
<1>2. rows = FlattenSeq(rs)
  BY DEF SlotRows, ForEach
<1>3. ForEach(KindOrder, LAMBDA kind : ForEach(ListIds(slice)[kind], NamesIn)) = FlattenSeq(ns)
  BY DEF ForEach
<1>4. ForEach(rows, LAMBDA row : If(row.is # "header", <<row.id, row.step>>)) =
        FlattenSeq([n \in DOMAIN rows |-> If(rows[n].is # "header", IdAndStep(rows[n]))])
  BY DEF ForEach, IdAndStep
<1>5. Lists(g, R, S)
  BY RowPair
<1>6. \A r \in R : g[r] = If(r.is # "header", IdAndStep(r))
  BY DEF PairOf
<1> HIDE DEF ks, rows
<1>7. \A k \in DOMAIN ks : /\ rs[k] \in Seq(R) /\ rs[k] = KindRows(slice, ks[k])
                           /\ ns[k] = Spread(g, rs[k])
  BY <1>1, KindPairs
<1>8. rs = [k \in DOMAIN ks |-> rs[k]] /\ ns = [k \in DOMAIN ks |-> ns[k]]
  OBVIOUS
<1> HIDE DEF rs, ns, g, R, S
<1>9. \A k \in DOMAIN ks : ns[k] \in Seq(S)
  BY <1>5, <1>7, SpreadOver
<1>10. ListFor(ks, rs, R) /\ ListFor(ks, ns, S)
  BY <1>7, <1>8, <1>9 DEF ListFor
<1>11. Spread(g, rows) = FlattenSeq(ns)
  BY <1>1, <1>2, <1>5, <1>7, <1>10, SpreadList
<1>12. \A n \in DOMAIN rows : rows[n] \in R
  <2>1. \A k \in DOMAIN ks : IsList(rs[k]) /\ Range(rs[k]) \subseteq R
    BY <1>7, ListOf
  <2>2. /\ IsList(rows)
        /\ \A r : r \in Range(rows) <=> \E k \in DOMAIN ks : r \in Range(rs[k])
    BY <1>1, <1>2, <1>8, <2>1, FlatList
  <2> QED BY <2>1, <2>2, Listed
<1>13. [n \in DOMAIN rows |-> If(rows[n].is # "header", IdAndStep(rows[n]))] = [n \in DOMAIN rows |-> g[rows[n]]]
  BY <1>6, <1>12
<1> QED BY <1>3, <1>4, <1>11, <1>13 DEF Spread, rows

-----------------------------------------------------------------------------
(* The two ways along an edge. *)

\* The fields of a block that name x.
Naming(b, x) ==
  {<<key>> : key \in {k \in DOMAIN b.fields : x \in Range(Idents(b, k))}}
  \cup {<<key, "<key>">> : key \in {k \in DOMAIN b.fields : x \in Range(Of(b, k, {"map"}))}}

EdgesOf(b, key) ==
  CASE b.fields[key].is \in {"ident", "list"} -> {Edge(<<key>>, <<x>>) : x \in Range(b.fields[key].of)}
    [] b.fields[key].is = "map" -> {Edge(<<key, "<key>">>, <<x>>) : x \in Range(b.fields[key].of)}
    [] b.fields[key].is = "qualified" -> {Edge(<<key>>, b.fields[key].of)}
    [] OTHER -> {}

LEMMA EdgeIs ==
  ASSUME NEW v, NEW to
  PROVE  Edge(v, to).via = v /\ Edge(v, to).to = to
BY DEF Edge

LEMMA EdgesTo ==
  ASSUME NEW b, IsReferring(b), NEW key \in DOMAIN b.fields, NEW x, NEW v
  PROVE  (\E o \in EdgesOf(b, key) : o.to = <<x>> /\ o.via = v) <=>
           \/ v = <<key>> /\ x \in Range(Idents(b, key))
           \/ v = <<key, "<key>">> /\ x \in Range(Of(b, key, {"map"}))
<1> DEFINE f == b.fields[key]
           X == Range(f.of)
<1>0. \A y, z : (<<y>> = <<z>>) <=> y = z
  OBVIOUS
<1>1. /\ Idents(b, key) = IF f.is \in {"ident", "list"} THEN f.of ELSE <<>>
      /\ Of(b, key, {"map"}) = IF f.is = "map" THEN f.of ELSE <<>>
  BY DEF Idents, Of, HasField
<1>2. \A y : y \notin Range(<<>>)
  BY One
<1>3. CASE f.is \in {"ident", "list"}
  <2>1. EdgesOf(b, key) = {Edge(<<key>>, <<y>>) : y \in X} /\ f.is # "map"
    BY <1>3 DEF EdgesOf
  <2>2. (\E o \in EdgesOf(b, key) : o.to = <<x>> /\ o.via = v) <=> v = <<key>> /\ x \in X
    <3> HIDE DEF X, f
    <3>1. (\E o \in EdgesOf(b, key) : o.to = <<x>> /\ o.via = v) <=>
             \E y \in X : Edge(<<key>>, <<y>>).to = <<x>> /\ Edge(<<key>>, <<y>>).via = v
      BY <2>1
    <3>2. ASSUME NEW y
          PROVE  /\ Edge(<<key>>, <<y>>).to = <<x>> <=> y = x
                 /\ Edge(<<key>>, <<y>>).via = v <=> v = <<key>>
      <4>1. Edge(<<key>>, <<y>>).to = <<y>> /\ Edge(<<key>>, <<y>>).via = <<key>>
        BY EdgeIs
      <4> QED BY <1>0, <4>1
    <3> QED BY <3>1, <3>2, Zenon
  <2> QED BY <1>1, <1>2, <1>3, <2>1, <2>2
<1>4. CASE f.is = "map"
  <2>1. EdgesOf(b, key) = {Edge(<<key, "<key>">>, <<y>>) : y \in X} /\ f.is \notin {"ident", "list"}
    BY <1>4 DEF EdgesOf
  <2>2. (\E o \in EdgesOf(b, key) : o.to = <<x>> /\ o.via = v) <=> v = <<key, "<key>">> /\ x \in X
    <3> HIDE DEF X, f
    <3>1. (\E o \in EdgesOf(b, key) : o.to = <<x>> /\ o.via = v) <=>
             \E y \in X : Edge(<<key, "<key>">>, <<y>>).to = <<x>> /\ Edge(<<key, "<key>">>, <<y>>).via = v
      BY <2>1
    <3>2. ASSUME NEW y
          PROVE  /\ Edge(<<key, "<key>">>, <<y>>).to = <<x>> <=> y = x
                 /\ Edge(<<key, "<key>">>, <<y>>).via = v <=> v = <<key, "<key>">>
      <4>1. Edge(<<key, "<key>">>, <<y>>).to = <<y>> /\ Edge(<<key, "<key>">>, <<y>>).via = <<key, "<key>">>
        BY EdgeIs
      <4> QED BY <1>0, <4>1
    <3> QED BY <3>1, <3>2, Zenon
  <2> QED BY <1>1, <1>2, <1>4, <2>1, <2>2
<1>5. CASE f.is \notin {"ident", "list", "map"}
  <2>1. Idents(b, key) = <<>> /\ Of(b, key, {"map"}) = <<>>
    BY <1>1, <1>5
  <2>2. \A o \in EdgesOf(b, key) : o.to # <<x>>
    <3>1. CASE f.is = "qualified"
      <4>1. EdgesOf(b, key) = {Edge(<<key>>, f.of)} /\ Len(f.of) = 2
        BY <3>1 DEF EdgesOf, IsReferring
      <4>2. Len(<<x>>) = 1
        OBVIOUS
      <4>3. f.of # <<x>>
        BY <4>1, <4>2
      <4> HIDE DEF f
      <4> QED BY <4>1, <4>3, EdgeIs
    <3>2. CASE f.is # "qualified"
      BY <1>5, <3>2 DEF EdgesOf
    <3> QED BY <3>1, <3>2
  <2> QED BY <1>2, <2>1, <2>2
<1> QED BY <1>3, <1>4, <1>5

(* The fields lead to x by the fields that name it.                        *)
LEMMA FieldEdgesTo ==
  ASSUME NEW b, IsReferring(b), NEW x, NEW v
  PROVE  /\ (\E o \in FieldEdges(b) : o.to = <<x>> /\ o.via = v) <=> v \in Naming(b, x)
         /\ v \in Naming(b, x) => ~IsKeyVia(v)
<1>1. FieldEdges(b) = UNION {EdgesOf(b, key) : key \in DOMAIN b.fields}
  BY DEF FieldEdges, EdgesOf
<1>2. (\E o \in FieldEdges(b) : o.to = <<x>> /\ o.via = v) <=>
        \E key \in DOMAIN b.fields : \E o \in EdgesOf(b, key) : o.to = <<x>> /\ o.via = v
  BY <1>1
<1>3. v \in Naming(b, x) <=>
        \E key \in DOMAIN b.fields :
          \/ v = <<key>> /\ x \in Range(Idents(b, key))
          \/ v = <<key, "<key>">> /\ x \in Range(Of(b, key, {"map"}))
  BY DEF Naming
<1>4. \A key \in DOMAIN b.fields :
        (\E o \in EdgesOf(b, key) : o.to = <<x>> /\ o.via = v) <=>
          \/ v = <<key>> /\ x \in Range(Idents(b, key))
          \/ v = <<key, "<key>">> /\ x \in Range(Of(b, key, {"map"}))
  BY EdgesTo
<1>5. \A key : ~IsKeyVia(<<key>>) /\ ~IsKeyVia(<<key, "<key>">>)
  BY DEF IsKeyVia
<1> QED BY <1>2, <1>3, <1>4, <1>5

(* An edge is what it leads by and to: an id, or an alias and an id.       *)
LEMMA OutgoingAre ==
  ASSUME NEW b, IsReferring(b), \A y \in Range(b.blocks) : IsReferring(y), NEW o \in Outgoing(b)
  PROVE  /\ o = Edge(o.via, o.to)
         /\ Len(o.to) = 2 \/ \E x : o.to = <<x>>
<1>1. \A v, to : Edge(v, to) = Edge(Edge(v, to).via, Edge(v, to).to)
  BY EdgeIs
<1>2. \A v, y : Edge(v, <<y>>).to = <<y>>
  BY EdgeIs
<1>3. ASSUME NEW c, IsReferring(c), NEW e \in FieldEdges(c)
      PROVE  e = Edge(e.via, e.to) /\ (Len(e.to) = 2 \/ \E x : e.to = <<x>>)
  <2>1. PICK key \in DOMAIN c.fields : e \in EdgesOf(c, key)
    <3>1. FieldEdges(c) = UNION {EdgesOf(c, key) : key \in DOMAIN c.fields}
      BY DEF FieldEdges, EdgesOf
    <3> QED BY <1>3, <3>1
  <2> DEFINE f == c.fields[key]
  <2>2. CASE f.is \in {"ident", "list"}
    <3>1. PICK y : e = Edge(<<key>>, <<y>>)
      BY <2>1, <2>2 DEF EdgesOf
    <3> QED BY <1>1, <1>2, <3>1
  <2>3. CASE f.is = "map"
    <3>1. PICK y : e = Edge(<<key, "<key>">>, <<y>>)
      BY <2>1, <2>3 DEF EdgesOf
    <3> QED BY <1>1, <1>2, <3>1
  <2>4. CASE f.is = "qualified"
    <3>1. e = Edge(<<key>>, f.of) /\ Len(f.of) = 2
      BY <1>3, <2>1, <2>4 DEF EdgesOf, IsReferring
    <3>2. Edge(<<key>>, f.of).to = f.of
      BY EdgeIs
    <3> QED BY <1>1, <3>1, <3>2
  <2>5. CASE f.is \notin {"ident", "list", "map", "qualified"}
    BY <2>1, <2>5 DEF EdgesOf
  <2> QED BY <2>2, <2>3, <2>4, <2>5
<1>4. ASSUME NEW y, o \in KeyEdges(y)
      PROVE  o = Edge(o.via, o.to) /\ \E x : o.to = <<x>>
  <2>1. PICK key : o = Edge(<<y.kind, "<keys>">>, <<key>>)
    BY <1>4 DEF KeyEdges
  <2> QED BY <1>1, <1>2, <2>1
<1>5. \/ o \in FieldEdges(b)
      \/ \E y \in Range(b.blocks) : o \in KeyEdges(y) \/ o \in FieldEdges(y)
  BY DEF Outgoing
<1> QED BY <1>3, <1>4, <1>5

(* All that leads out of a block, but the keys of its nested ones.         *)
LEMMA OutgoingTo ==
  ASSUME NEW b, IsReferring(b), \A y \in Range(b.blocks) : IsReferring(y), NEW x
  PROVE  {o.via : o \in {e \in Outgoing(b) : e.to = <<x>> /\ ~IsKeyVia(e.via)}} =
           Naming(b, x) \cup (UNION {Naming(y, x) : y \in Range(b.blocks)})
<1> DEFINE L == {o.via : o \in {e \in Outgoing(b) : e.to = <<x>> /\ ~IsKeyVia(e.via)}}
           M == Naming(b, x) \cup (UNION {Naming(y, x) : y \in Range(b.blocks)})
<1>1. \A v : v \in L <=> \E o \in Outgoing(b) : o.to = <<x>> /\ ~IsKeyVia(o.via) /\ o.via = v
  OBVIOUS
<1>2. \A v : v \in M <=> v \in Naming(b, x) \/ \E y \in Range(b.blocks) : v \in Naming(y, x)
  OBVIOUS
<1>3. \A o : o \in Outgoing(b) <=>
        o \in FieldEdges(b) \/ \E y \in Range(b.blocks) : o \in KeyEdges(y) \/ o \in FieldEdges(y)
  BY DEF Outgoing
<1>4. \A y : \A o \in KeyEdges(y) : IsKeyVia(o.via)
  <2>1. \A y, key : IsKeyVia(Edge(<<y.kind, "<keys>">>, <<key>>).via)
    BY DEF Edge, IsKeyVia
  <2> QED BY <2>1 DEF KeyEdges
<1> HIDE DEF L, M
<1>5. ASSUME NEW v PROVE v \in L <=> v \in M
  <2>1. ASSUME v \in L PROVE v \in M
    <3>1. PICK o \in Outgoing(b) : o.to = <<x>> /\ ~IsKeyVia(o.via) /\ o.via = v
      BY <1>1, <2>1
    <3>2. o \in FieldEdges(b) \/ \E y \in Range(b.blocks) : o \in FieldEdges(y)
      BY <1>3, <1>4, <3>1
    <3> QED BY <1>2, <3>1, <3>2, FieldEdgesTo
  <2>2. ASSUME v \in M PROVE v \in L
    <3>1. \/ v \in Naming(b, x)
          \/ \E y \in Range(b.blocks) : v \in Naming(y, x)
      BY <1>2, <2>2
    <3>2. PICK y \in {b} \cup Range(b.blocks) : v \in Naming(y, x) /\ IsReferring(y)
      BY <3>1
    <3>3. (\E o \in FieldEdges(y) : o.to = <<x>> /\ o.via = v) /\ ~IsKeyVia(v)
      BY <3>2, FieldEdgesTo
    <3> QED BY <1>1, <1>3, <3>3
  <2> QED BY <2>1, <2>2
<1>6. L = M
  BY <1>5
<1> QED BY <1>6 DEF L, M

LEMMA SitesAre ==
  ASSUME NEW b, NEW at, NEW x
  PROVE  /\ \A s \in Sites(b, at, x) : s.from = at /\ s.via \in Naming(b, x)
         /\ \A v \in Naming(b, x) : \E s \in Sites(b, at, x) : s.from = at /\ s.via = v
<1> DEFINE K == {k \in DOMAIN b.fields : x \in Range(Idents(b, k))}
           M == {k \in DOMAIN b.fields : x \in Range(Of(b, k, {"map"}))}
<1>1. Sites(b, at, x) =
        {[from |-> at, via |-> <<key>>] : key \in K}
          \cup {[from |-> at, via |-> <<key, "<key>">>] : key \in M}
  BY DEF Sites
<1>2. Naming(b, x) = {<<key>> : key \in K} \cup {<<key, "<key>">> : key \in M}
  BY DEF Naming
<1> HIDE DEF K, M
<1>3. ASSUME NEW s \in Sites(b, at, x) PROVE s.from = at /\ s.via \in Naming(b, x)
  BY <1>1, <1>2
<1>4. ASSUME NEW v \in Naming(b, x)
      PROVE  \E s \in Sites(b, at, x) : s.from = at /\ s.via = v
  <2>1. [from |-> at, via |-> v] \in Sites(b, at, x)
    BY <1>1, <1>2
  <2> QED BY <2>1
<1> QED BY <1>3, <1>4

LEMMA PrefixIs ==
  ASSUME NEW i, NEW j, NEW k, NEW l
  PROVE  /\ IsPrefix(<<i>>, <<k>>) <=> i = k
         /\ IsPrefix(<<i>>, <<k, l>>) <=> i = k
         /\ ~IsPrefix(<<i, j>>, <<k>>)
         /\ IsPrefix(<<i, j>>, <<k, l>>) <=> i = k /\ j = l
<1>1. /\ Len(<<i>>) = 1 /\ Len(<<k>>) = 1 /\ Len(<<i, j>>) = 2 /\ Len(<<k, l>>) = 2
      /\ <<i>> = <<k>> <=> i = k
      /\ <<i, j>> = <<k, l>> <=> i = k /\ j = l
  OBVIOUS
<1>2. /\ SubSeq(<<i>>, 1, 1) = <<i>> /\ SubSeq(<<k>>, 1, 1) = <<k>> /\ SubSeq(<<k, l>>, 1, 1) = <<k>>
      /\ SubSeq(<<i, j>>, 1, 2) = <<i, j>> /\ SubSeq(<<k, l>>, 1, 2) = <<k, l>>
  BY Heads
<1>3. IsPrefix(<<i>>, <<k>>) <=> i = k
  BY <1>1, <1>2 DEF IsPrefix
<1>4. IsPrefix(<<i>>, <<k, l>>) <=> i = k
  BY <1>1, <1>2 DEF IsPrefix
<1>5. ~IsPrefix(<<i, j>>, <<k>>)
  BY <1>1 DEF IsPrefix
<1>6. IsPrefix(<<i, j>>, <<k, l>>) <=> i = k /\ j = l
  BY <1>1, <1>2 DEF IsPrefix
<1> QED BY <1>3, <1>4, <1>5, <1>6

\* What is found under a place.
Incoming(slice, at, x) == {r.via : r \in {s \in RefsTo(slice, x) : IsPrefix(at, s.from)}}

LEMMA IncomingIs ==
  ASSUME NEW slice, NEW at, NEW x, NEW v
  PROVE  v \in Incoming(slice, at, x) <=>
           \E k \in DOMAIN slice :
             \/ IsPrefix(at, <<k>>) /\ v \in Naming(slice[k], x)
             \/ \E l \in DOMAIN slice[k].blocks :
                  IsPrefix(at, <<k, l>>) /\ v \in Naming(slice[k].blocks[l], x)
<1>1. \A s : s \in RefsTo(slice, x) <=>
        \E k \in DOMAIN slice :
          \/ s \in Sites(slice[k], <<k>>, x)
          \/ \E l \in DOMAIN slice[k].blocks : s \in Sites(slice[k].blocks[l], <<k, l>>, x)
  <2> DEFINE own(k)    == Sites(slice[k], <<k>>, x)
             sub(k, l) == Sites(slice[k].blocks[l], <<k, l>>, x)
  <2>1. RefsTo(slice, x) =
          UNION {own(k) \cup (UNION {sub(k, l) : l \in DOMAIN slice[k].blocks}) : k \in DOMAIN slice}
    BY DEF RefsTo
  <2> HIDE DEF own, sub
  <2>2. \A s : s \in RefsTo(slice, x) <=>
          \E k \in DOMAIN slice :
            s \in own(k) \/ \E l \in DOMAIN slice[k].blocks : s \in sub(k, l)
    BY <2>1
  <2> QED BY <2>2 DEF own, sub
<1>2. v \in Incoming(slice, at, x) <=> \E s \in RefsTo(slice, x) : IsPrefix(at, s.from) /\ s.via = v
  BY DEF Incoming
<1>3. ASSUME v \in Incoming(slice, at, x)
      PROVE  \E k \in DOMAIN slice :
               \/ IsPrefix(at, <<k>>) /\ v \in Naming(slice[k], x)
               \/ \E l \in DOMAIN slice[k].blocks :
                    IsPrefix(at, <<k, l>>) /\ v \in Naming(slice[k].blocks[l], x)
  <2>1. PICK s \in RefsTo(slice, x) : IsPrefix(at, s.from) /\ s.via = v
    BY <1>2, <1>3
  <2>2. PICK k \in DOMAIN slice :
          \/ s \in Sites(slice[k], <<k>>, x)
          \/ \E l \in DOMAIN slice[k].blocks : s \in Sites(slice[k].blocks[l], <<k, l>>, x)
    BY <1>1
  <2>3. CASE s \in Sites(slice[k], <<k>>, x)
    <3>1. s.from = <<k>> /\ s.via \in Naming(slice[k], x)
      BY <2>3, SitesAre
    <3> QED BY <2>1, <3>1
  <2>4. ASSUME NEW l \in DOMAIN slice[k].blocks, s \in Sites(slice[k].blocks[l], <<k, l>>, x)
        PROVE  \E m \in DOMAIN slice[k].blocks :
                 IsPrefix(at, <<k, m>>) /\ v \in Naming(slice[k].blocks[m], x)
    <3>1. s.from = <<k, l>> /\ s.via \in Naming(slice[k].blocks[l], x)
      BY <2>4, SitesAre
    <3> QED BY <2>1, <3>1
  <2> QED BY <2>2, <2>3, <2>4
<1>4. ASSUME NEW k \in DOMAIN slice, IsPrefix(at, <<k>>), v \in Naming(slice[k], x)
      PROVE  v \in Incoming(slice, at, x)
  <2>1. PICK s \in Sites(slice[k], <<k>>, x) : s.from = <<k>> /\ s.via = v
    BY <1>4, SitesAre
  <2> QED BY <1>1, <1>2, <1>4, <2>1
<1>5. ASSUME NEW k \in DOMAIN slice, NEW l \in DOMAIN slice[k].blocks,
             IsPrefix(at, <<k, l>>), v \in Naming(slice[k].blocks[l], x)
      PROVE  v \in Incoming(slice, at, x)
  <2>1. PICK s \in Sites(slice[k].blocks[l], <<k, l>>, x) : s.from = <<k, l>> /\ s.via = v
    BY <1>5, SitesAre
  <2> QED BY <1>1, <1>2, <1>5, <2>1
<1> QED BY <1>3, <1>4, <1>5

(* A reference to x is found from the block it is in.                      *)
LEMMA IncomingTo ==
  ASSUME NEW slice, IsSlice(slice), NEW i \in DOMAIN slice, NEW x
  PROVE  Incoming(slice, <<i>>, x) =
           Naming(slice[i], x) \cup (UNION {Naming(y, x) : y \in Range(slice[i].blocks)})
<1>1. IsList(slice[i].blocks)
  BY IdOfPlace DEF IsBlock
<1>2. \A v : (\E y \in Range(slice[i].blocks) : v \in Naming(y, x)) <=>
               \E l \in DOMAIN slice[i].blocks : v \in Naming(slice[i].blocks[l], x)
  BY <1>1, Listed
<1>3. \A v : v \in Incoming(slice, <<i>>, x) <=>
               \/ v \in Naming(slice[i], x)
               \/ \E l \in DOMAIN slice[i].blocks : v \in Naming(slice[i].blocks[l], x)
  <2> TAKE v
  <2> DEFINE P(k) == IsPrefix(<<i>>, <<k>>)
             Q(k, l) == IsPrefix(<<i>>, <<k, l>>)
  <2>1. \A k, l : (P(k) <=> i = k) /\ (Q(k, l) <=> i = k)
    BY PrefixIs
  <2>2. v \in Incoming(slice, <<i>>, x) <=>
           \E k \in DOMAIN slice :
             \/ P(k) /\ v \in Naming(slice[k], x)
             \/ \E l \in DOMAIN slice[k].blocks : Q(k, l) /\ v \in Naming(slice[k].blocks[l], x)
    BY IncomingIs
  <2> HIDE DEF P, Q
  <2> QED BY <2>1, <2>2
<1>4. Incoming(slice, <<i>>, x) =
        Naming(slice[i], x) \cup (UNION {Naming(y, x) : y \in Range(slice[i].blocks)})
  <2> DEFINE M == Naming(slice[i], x) \cup (UNION {Naming(y, x) : y \in Range(slice[i].blocks)})
  <2>1. \A v : v \in M <=> v \in Naming(slice[i], x) \/ \E y \in Range(slice[i].blocks) : v \in Naming(y, x)
    OBVIOUS
  <2> HIDE DEF M
  <2>2. \A v : v \in Incoming(slice, <<i>>, x) <=> v \in M
    BY <1>2, <1>3, <2>1
  <2>3. Incoming(slice, <<i>>, x) = M
    BY <2>2
  <2> QED BY <2>3 DEF M
<1> QED BY <1>4

LEMMA IncomingToStep ==
  ASSUME NEW slice, NEW i \in DOMAIN slice, NEW j \in DOMAIN slice[i].blocks,
         NEW at, at = <<i, j>>, NEW x
  PROVE  Incoming(slice, at, x) = Naming(slice[i].blocks[j], x)
<1> DEFINE P(k) == IsPrefix(<<i, j>>, <<k>>)
           Q(k, l) == IsPrefix(<<i, j>>, <<k, l>>)
<1>1. \A k, l : ~P(k) /\ (Q(k, l) <=> i = k /\ j = l)
  BY PrefixIs
<1>2. \A v : v \in Incoming(slice, <<i, j>>, x) <=>
         \E k \in DOMAIN slice :
           \/ P(k) /\ v \in Naming(slice[k], x)
           \/ \E l \in DOMAIN slice[k].blocks : Q(k, l) /\ v \in Naming(slice[k].blocks[l], x)
  BY IncomingIs
<1> HIDE DEF P, Q
<1>3. \A v : v \in Incoming(slice, <<i, j>>, x) <=> v \in Naming(slice[i].blocks[j], x)
  BY <1>1, <1>2
<1> QED BY <1>3

(* Out and back by the same fields.                                        *)
LEMMA BothWays ==
  ASSUME NEW slice, IsSlice(slice),
         \A b \in Range(slice) : IsFlat(b) /\ IsReferring(b) /\ \A y \in Range(b.blocks) : IsReferring(y),
         NEW r \in Range(SlotRows(slice)), r.is # "header", NEW x
  PROVE  {o.via : o \in {e \in Outgoing(BlockAt(slice, r.at)) : e.to = <<x>> /\ ~IsKeyVia(e.via)}} =
           Incoming(slice, r.at, x)
<1> DEFINE out(b) == {o.via : o \in {e \in Outgoing(b) : e.to = <<x>> /\ ~IsKeyVia(e.via)}}
<1>1. IsBlockRow(slice, r) \/ IsStepRow(slice, r)
  <2>1. Header.is = "header"
    BY DEF Header, Place
  <2> QED BY <2>1, SlotRowsAre
<1>2. PICK i \in NamedAt(slice) :
        \/ r = RowOf(slice, i)
        \/ \E j \in NamedStepAt(slice[i]) : r = RowOfStep(slice, i, j)
  BY <1>1 DEF IsBlockRow, IsStepRow
<1>3. i \in DOMAIN slice /\ slice[i] \in Range(slice) /\ IsList(slice[i].blocks)
  <2>1. i \in DOMAIN slice
    BY DEF NamedAt, SlotAt
  <2> QED BY <2>1, Listed, IdOfPlace DEF IsSlice, IsBlock
<1>4. IsFlat(slice[i]) /\ IsReferring(slice[i]) /\ \A y \in Range(slice[i].blocks) : IsReferring(y)
  BY <1>3
<1>5. \A b : IsReferring(b) /\ (\A y \in Range(b.blocks) : IsReferring(y)) =>
        out(b) = Naming(b, x) \cup (UNION {Naming(y, x) : y \in Range(b.blocks)})
  BY OutgoingTo
<1> HIDE DEF out
<1>6. CASE r = RowOf(slice, i)
  <2>1. r.at = <<i>> /\ BlockAt(slice, <<i>>) = slice[i]
    BY <1>6 DEF RowOf, Place, BlockAt
  <2>2. out(slice[i]) = Incoming(slice, <<i>>, x)
    BY <1>3, <1>4, <1>5, IncomingTo
  <2> QED BY <2>1, <2>2 DEF out
<1>7. ASSUME NEW j \in NamedStepAt(slice[i]), r = RowOfStep(slice, i, j)
      PROVE  out(BlockAt(slice, r.at)) = Incoming(slice, r.at, x)
  <2> DEFINE y == slice[i].blocks[j]
  <2>1. r.at = <<i, j>> /\ BlockAt(slice, <<i, j>>) = y
    BY <1>7 DEF RowOfStep, Place, BlockAt
  <2>2. j \in DOMAIN slice[i].blocks /\ y \in Range(slice[i].blocks)
    <3>1. j \in DOMAIN slice[i].blocks
      BY DEF NamedStepAt, StepAt
    <3> QED BY <1>3, <3>1, Listed
  <2>3. y.blocks = <<>> /\ IsReferring(y)
    BY <1>4, <2>2 DEF IsFlat
  <2>4. Range(y.blocks) = {}
    BY <2>3, One
  <2>5. Incoming(slice, r.at, x) = Naming(y, x)
    BY <1>3, <2>1, <2>2, IncomingToStep
  <2> HIDE DEF y
  <2>6. out(y) = Naming(y, x)
    BY <1>5, <2>3, <2>4
  <2> QED BY <2>1, <2>5, <2>6
<1> QED BY <1>2, <1>6, <1>7 DEF out

(* The block of a row, and its nested ones, refer by one alias at most.    *)
LEMMA RowIsReferring ==
  ASSUME NEW slice, IsSlice(slice),
         \A b \in Range(slice) : IsFlat(b) /\ IsReferring(b) /\ \A y \in Range(b.blocks) : IsReferring(y),
         NEW r \in Range(SlotRows(slice)), r.is # "header"
  PROVE  LET b == BlockAt(slice, r.at)
         IN  IsReferring(b) /\ \A y \in Range(b.blocks) : IsReferring(y)
<1>1. PICK i \in NamedAt(slice) :
        \/ r = RowOf(slice, i)
        \/ \E j \in NamedStepAt(slice[i]) : r = RowOfStep(slice, i, j)
  <2>1. Header.is = "header"
    BY DEF Header, Place
  <2> QED BY <2>1, SlotRowsAre DEF IsBlockRow, IsStepRow
<1>2. slice[i] \in Range(slice) /\ IsList(slice[i].blocks)
  <2>1. i \in DOMAIN slice
    BY DEF NamedAt, SlotAt
  <2> QED BY <2>1, Listed, IdOfPlace DEF IsSlice, IsBlock
<1>3. IsFlat(slice[i]) /\ IsReferring(slice[i]) /\ \A y \in Range(slice[i].blocks) : IsReferring(y)
  BY <1>2
<1>4. CASE r = RowOf(slice, i)
  <2>1. BlockAt(slice, r.at) = slice[i]
    BY <1>4 DEF RowOf, Place, BlockAt
  <2> QED BY <1>3, <2>1
<1>5. ASSUME NEW j \in NamedStepAt(slice[i]), r = RowOfStep(slice, i, j)
      PROVE  LET b == BlockAt(slice, r.at)
             IN  IsReferring(b) /\ \A y \in Range(b.blocks) : IsReferring(y)
  <2> DEFINE z == slice[i].blocks[j]
  <2>1. BlockAt(slice, r.at) = z
    BY <1>5 DEF RowOfStep, Place, BlockAt
  <2>2. z \in Range(slice[i].blocks)
    <3>1. j \in DOMAIN slice[i].blocks
      BY DEF NamedStepAt, StepAt
    <3> QED BY <1>2, <3>1, Listed
  <2>3. IsReferring(z) /\ z.blocks = <<>>
    BY <1>3, <2>2 DEF IsFlat
  <2>4. Range(z.blocks) = {}
    BY <2>3, One
  <2> HIDE DEF z
  <2> QED BY <2>1, <2>3, <2>4
<1> QED BY <1>1, <1>4, <1>5

(* The panes of tui.rs and the look-ups of query.rs go over a slice each   *)
(* on its own.  Over all slices and rows they agree: list_ids gives the    *)
(* ids and steps that the Slots pane has rows for, kind by kind, and       *)
(* refs_to leads back on each edge that collect_outbound draws, but on     *)
(* those with an alias and those to keys of nested blocks, of which it     *)
(* finds none.                                                             *)
THEOREM QueryAgrees == Spec => []QueryAgreesWithThePanes
<1>1. PanesInv => QueryAgreesWithThePanes
  <2> SUFFICES ASSUME PanesInv, Shows PROVE RowsAreTheIds /\ GraphGoesBothWays
    BY DEF QueryAgreesWithThePanes
  <2>1. /\ IsSlice(Slice) /\ slotRows = SlotRows(Slice) /\ SelectedRow \in Range(SlotRows(Slice))
        /\ \A b \in Range(Slice) :
             IsFlat(b) /\ IsReferring(b) /\ \A y \in Range(b.blocks) : IsReferring(y)
    <3>1. ws[activeRoot] \in Texts
      BY ShownRows
    <3> QED BY <3>1, ShownRows, PanesAssumption DEF Slice
  <2>2. RowsAreTheIds
    BY <2>1, RowsAreListed DEF RowsAreTheIds, NamesIn, StepsIn
  <2>3. GraphGoesBothWays
    <3> DEFINE r == SelectedRow
               out == Outgoing(BlockAt(Slice, r.at))
               Refound(e) ==
                 /\ Len(e.to) = 1
                 /\ \E s \in RefsTo(Slice, e.to[1]) : IsPrefix(r.at, s.from) /\ s.via = e.via
    <3> SUFFICES ASSUME r.is # "header"
                 PROVE  /\ \A e \in out : Refound(e) <=> ~(Len(e.to) = 2 \/ IsKeyVia(e.via))
                        /\ \A x : \A s \in RefsTo(Slice, x) :
                             IsPrefix(r.at, s.from) => Edge(s.via, <<x>>) \in out
      BY DEF GraphGoesBothWays
    <3>1. \A e \in out : e = Edge(e.via, e.to) /\ (Len(e.to) = 2 \/ \E x : e.to = <<x>>)
      <4> HIDE DEF r
      <4> QED BY <2>1, RowIsReferring, OutgoingAre DEF r
    <3>2. \A x : {e.via : e \in {o \in out : o.to = <<x>> /\ ~IsKeyVia(o.via)}} =
                   Incoming(Slice, r.at, x)
      <4> HIDE DEF r
      <4> QED BY <2>1, BothWays DEF r
    <3>3. \A x, v : v \in Incoming(Slice, r.at, x) <=>
                      \E s \in RefsTo(Slice, x) : IsPrefix(r.at, s.from) /\ s.via = v
      BY DEF Incoming
    <3>4. \A x : Len(<<x>>) = 1 /\ <<x>>[1] = x
      OBVIOUS
    <3> HIDE DEF out, r
    <3>5. ASSUME NEW e \in out
          PROVE  Refound(e) <=> ~(Len(e.to) = 2 \/ IsKeyVia(e.via))
      <4>1. CASE Len(e.to) = 2
        BY <4>1
      <4>2. ASSUME NEW x, e.to = <<x>>
            PROVE  Refound(e) <=> ~IsKeyVia(e.via)
        <5>1. Refound(e) <=> e.via \in Incoming(Slice, r.at, x)
          BY <3>3, <3>4, <4>2
        <5>2. e.via \in Incoming(Slice, r.at, x) =>
                \E o \in out : ~IsKeyVia(o.via) /\ o.via = e.via
          BY <3>2
        <5>3. ~IsKeyVia(e.via) => e.via \in Incoming(Slice, r.at, x)
          BY <3>2, <4>2
        <5> QED BY <5>1, <5>2, <5>3
      <4>3. \A x : e.to = <<x>> => Len(e.to) # 2
        BY <3>4
      <4> HIDE DEF Refound
      <4> QED BY <3>1, <4>1, <4>2, <4>3
    <3>6. ASSUME NEW x, NEW s \in RefsTo(Slice, x), IsPrefix(r.at, s.from)
          PROVE  Edge(s.via, <<x>>) \in out
      <4>1. s.via \in Incoming(Slice, r.at, x)
        BY <3>3, <3>6
      <4>2. PICK o \in out : o.to = <<x>> /\ o.via = s.via
        BY <3>2, <4>1
      <4> QED BY <3>1, <4>2
    <3> HIDE DEF Refound
    <3> QED BY <3>5, <3>6
  <2> QED BY <2>2, <2>3
<1> QED
  BY PanesInit, PanesStep, <1>1, PTL DEF Spec

=============================================================================
