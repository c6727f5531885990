--------------------------- MODULE MCSliceViewer ---------------------------
(* The viewer over three files that hold slices with twins, shadows and    *)
(* steps named like blocks; fa and fb are listed, fc has another           *)
(* extension, and dir is the directory.                                    *)
EXTENDS SlicePanes, TLC

CONSTANTS fa, fb, fc, dir

MCFile     == {fa, fb, fc}
MCPath     == MCFile \cup {dir}
MCPathRank == (dir :> 0) @@ (fa :> 1) @@ (fb :> 2) @@ (fc :> 3)
RankOf(p)  == MCPathRank[p]
MCInOrder(S) == SetToSortSeq(S, LAMBDA p, q : RankOf(p) < RankOf(q))
MCInvocations ==
  {[path |-> dir, isDir |-> TRUE, lists |-> TRUE], [path |-> fb, isDir |-> FALSE, lists |-> TRUE],
   [path |-> fc, isDir |-> FALSE, lists |-> TRUE], [path |-> fb, isDir |-> FALSE, lists |-> FALSE]}

MCOrder == <<"c", "d", "e", "g", "k", "p", "s">>

Block(kind, id, fields, blocks) ==
  [kind |-> kind, id |-> id, numbered |-> FALSE, fields |-> fields, blocks |-> blocks]
Cell(id) == Block("cell", id, [type |-> Other, mutable |-> True], <<>>)
Derived(id, from) == Block("derived", id, [derives_from |-> from, derivation |-> Other], <<>>)
Step(id) == Block("step", id, [op |-> Other, fallible |-> True, mutates |-> Ident("c")], <<>>)
Event(id, steps) == Block("event", id, [mutates |-> List(<<"c">>)], steps)

\* A text has its slice, what it uses, and its lines: the offset of each
\* block and those of the ends of lines.
Text(slice, uses, breaks) == [slice |-> slice, uses |-> uses, breaks |-> breaks]
Offset(at) == IF at = <<>> THEN 0 ELSE 10 * at[1] + (IF Len(at) = 1 THEN 0 ELSE at[2])

MCTexts ==
  {\* a derived value and two events of one id, an event with a step twice
   Text(<<Derived("e", List(<<"c">>)), Event("e", <<Step("s"), Step("s")>>),
          Event("e", <<Step("d")>>)>>, {}, {5, 15, 21, 25}),
   \* a block of no slot kind with the name of a cell, two events with one
   \* step name, which is also the id of a cell behind them
   Text(<<Block("meta", "c", [note |-> Other], <<>>), Cell("c"),
          Event("e", <<Step("s")>>), Event("g", <<Step("s")>>), Cell("s")>>, {fc}, {15, 25}),
   \* a row with a map and one with a block, and an import in use
   Text(<<Cell("c"),
          Block("post_failure", "p",
                [event |-> Ident("e"), step |-> Ident("s"), outcome |-> Other,
                 cells_after |-> Map(<<"c", "d">>)], <<>>),
          Block("forbidden_state", "k",
                [description |-> Other, reachability |-> Other, kill_test |-> Ident("TODO"),
                 predicate |-> Value("qualified", <<"ax", "c">>)],
                <<Block("cells", NoName, [c |-> Ident("d")], <<>>)>>)>>, {fc}, {5, 25})}

MCSliceOf(t)   == t.slice
MCRowsOf(t)    == SlotRows(t.slice)
MCImportsOf(t) == t.uses
MCLineOf(t, o) == 1 + Cardinality({b \in t.breaks : b < o})

Names == Range(MCOrder) \cup {NoName}
MCSlotRow ==
  [is : {"header", "block", "step"}, id : Names, step : Names, at : Seq(Nat)]

\* What the walk says, without the places of files and of ids.
Says(severity, code, at) == [severity |-> severity, code |-> code, at |-> at]
QualifiedAt(slice) ==
  SelectSeq(Places(slice),
            LAMBDA i : \E key \in DOMAIN slice[i].fields : slice[i].fields[key].is = "qualified")
DeclaresC(t) == \E b \in Range(t.slice) : b.kind \in SlotKinds /\ b.id = "c"

\* ... of a text by itself, and of its import.
Errors(found) == [i \in DOMAIN found |-> Says(1, found[i].code, found[i].at)]
Verdict ==
  [t \in MCTexts |->
     Errors(Analyze(t.slice))
         \o [i \in 1..Cardinality(UnusedCells(t.slice)) |-> Says(2, "W0270", <<>>)]
         \o If(t.uses # {} /\ QualifiedAt(t.slice) = <<>>, Says(2, "W0273", <<>>))]
OfImport(p, w) ==
  LET leads == fc # p /\ fc \in DOMAIN w /\ w[fc] # Absent
  IN  IF w[p].uses = {} THEN <<>>
      ELSE If(fc = p, Says(1, "E0401", <<>>)) \o If(fc \notin DOMAIN w, Says(1, "E0400", <<>>)) \o
           ForEach(QualifiedAt(w[p].slice), LAMBDA i :
             If(~leads, Says(1, "E0402", <<i>>))
             \o (IF leads THEN If(~DeclaresC(w[fc]), Says(1, "E0403", <<i>>)) ELSE <<>>))

Codes ==
  (UNION {{d.code : d \in Range(Verdict[t])} : t \in MCTexts})
    \cup {"E0400", "E0401", "E0402", "E0403"}

MCDiagnostic ==
  [severity : {1, 2}, what : [code : Codes, at : Seq(Nat)], file : MCPath, offset : 0..100]

In(p, found) ==
  [i \in DOMAIN found |->
     [severity |-> found[i].severity, what |-> [code |-> found[i].code, at |-> found[i].at],
      file |-> p, offset |-> Offset(found[i].at)]]
OfFile(p, w) ==
  In(p, IF w[p] = Absent THEN <<Says(1, "E0400", <<>>)>> ELSE OfImport(p, w) \o Verdict[w[p]])

MCAnalysis(w) == ForEach(MCInOrder(DOMAIN w), LAMBDA p : OfFile(p, w))

=============================================================================
