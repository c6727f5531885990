----------------------------- MODULE SlicePanes -----------------------------
(***************************************************************************)
(* The viewer over texts that hold slices: what its panes show of the row  *)
(* under the cursor, and what `memspec query` says of the same slice.      *)
(***************************************************************************)
EXTENDS SliceViewer, SliceGraph

CONSTANT SliceOf(_)  \* the slice a text holds

\* Bound: the blocks in a nested block are left out, as SliceGraph does.
IsFlat(b) == \A x \in Range(b.blocks) : x.blocks = <<>>

\* A reference is qualified by one alias.
IsReferring(b) ==
  \A key \in DOMAIN b.fields : b.fields[key].is = "qualified" => Len(b.fields[key].of) = 2

\* A text is shown by the rows of its slice, and analyze_working_set makes the
\* passes over each file that is there.
ASSUME PanesAssumption ==
  /\ \A t \in Texts :
       /\ IsSlice(SliceOf(t))
       /\ \A b \in Range(SliceOf(t)) :
            IsFlat(b) /\ IsReferring(b) /\ \A x \in Range(b.blocks) : IsReferring(x)
       /\ RowsOf(t) = SlotRows(SliceOf(t))
  /\ \A w \in WorkingSets : \A p \in {q \in DOMAIN w : w[q] # Absent} :
       \A d \in Range(Analyze(SliceOf(w[p]))) :
         \E i \in DOMAIN Analysis(w) :
           Analysis(w)[i].file = p /\ Analysis(w)[i].what.code = d.code /\ Analysis(w)[i].what.at = d.at

-----------------------------------------------------------------------------
Shows == phase = "idle" /\ focused = "slots" /\ selected["slots"] # 0
SelectedRow == slotRows[selected["slots"]]
Slice == SliceOf(ws[activeRoot])

\* The row's own block is said to be a duplicate.
ReportedTwin(row) ==
  \E i \in DOMAIN diagRows :
    /\ diagRows[i].file = activeRoot
    /\ diagRows[i].what.code \in {"E0250", "E0251"}
    /\ diagRows[i].what.at \in {row.at, SubSeq(row.at, 1, 1)}

\* A block of no slot kind has the name, in front of those that have one.
Shadowed(row) ==
  LET shown == TopBlock(Slice, row.id) IN shown # <<>> /\ Slice[shown[1]].kind \notin SlotKinds

(* A row keeps the names of its block, and Detail, Graph and query --by-id *)
(* each look the names up again.  Whenever one of them shows another block *)
(* than the row was made from, the Diagnostics pane calls that very block  *)
(* a duplicate; but for a block of another kind than the seven with the    *)
(* same name, which nothing reports, and for by_id a step of an event in   *)
(* front.                                                                  *)
WrongDetailIsReported ==
  (Shows /\ SelectedRow.is # "header") =>
    \/ Shadowed(SelectedRow)
    \/ ReportedTwin(SelectedRow)
    \/ /\ DetailAt(Slice, SelectedRow) = SelectedRow.at
       /\ NodeAt(Slice, SelectedRow) = SelectedRow.at
       /\ SelectedRow.is = "block" =>
            \/ ById(Slice, SelectedRow.id) = SelectedRow.at
            \/ Len(ById(Slice, SelectedRow.id)) = 2

\* The rows are what list_ids gives, kind by kind.
RowsAreTheIds ==
  LET listed == ListIds(Slice)
      Names(entry) == <<<<entry.id, NoName>>>> \o ForEach(entry.steps, LAMBDA x : <<<<entry.id, x>>>>)
  IN  ForEach(KindOrder, LAMBDA kind : ForEach(listed[kind], Names)) =
        ForEach(slotRows, LAMBDA row : If(row.is # "header", <<row.id, row.step>>))

\* The edge is to a key of a nested block, `cells` or `cells_after`.
IsKeyVia(via) == Len(via) = 2 /\ via[2] = "<keys>"

\* refs_to finds all that the block under the cursor points at, but for
\* references with an alias and keys of nested blocks, which it passes over
\* though README.md:63 and tui.rs:809 speak of every site; and it finds
\* nothing there that the block does not point at.
GraphGoesBothWays ==
  SelectedRow.is # "header" =>
    LET at == SelectedRow.at
        out == Outgoing(BlockAt(Slice, at))
        Refound(e) ==
          /\ Len(e.to) = 1
          /\ \E s \in RefsTo(Slice, e.to[1]) : IsPrefix(at, s.from) /\ s.via = e.via
    IN  /\ {e \in out : ~Refound(e)} = {e \in out : Len(e.to) = 2 \/ IsKeyVia(e.via)}
        /\ \A x \in Range(Order) \cup ReferencedAnywhere(Slice) :
             \A s \in RefsTo(Slice, x) : IsPrefix(at, s.from) => Edge(s.via, <<x>>) \in out

(* Panes and query walk the slice each on their own, and agree.  The ids   *)
(* and steps that query --list-ids gives are those the Slots pane has rows *)
(* for.  And of the edges that the Graph pane draws out of the block under *)
(* the cursor, query --refs-to leads back on all but two kinds, which it   *)
(* loses always: references with an alias, and keys of nested blocks.      *)
QueryAgreesWithThePanes == Shows => RowsAreTheIds /\ GraphGoesBothWays

=============================================================================
