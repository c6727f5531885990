---------------------------- MODULE MCAuthoring ----------------------------
(* Slices to start from, in families that each bring one kind of reference *)
(* into all its states; names that are numbers, references that are lists  *)
(* and ids that another kind has among them.                               *)
EXTENDS Authoring, SliceGraph

MCOrder ==
  <<"c", "d", "e", "f", "g", "h", "k", "l", "p", "pf_e_s_fail", "pf_e_t_fail", "pf_e_u_fail", "q",
    "r", "rule_state", "s", "t", "u", "x", "y", "z">>

B(kind, id, fields) == Block(kind, id, fields, None)
Numbered(b) == [b EXCEPT !.id = NoName, !.numbered = TRUE]

Cell(id) == B("cell", id, [type |-> Other, mutable |-> True])

\* Forbidden states and kill tests: f and g, k and l, naming each other or not.
ForbiddenStates ==
  {B("forbidden_state", id,
     [description |-> Other, predicate |-> Other, reachability |-> Other, kill_test |-> Ident(kt)]) :
       id \in {"f", "g"}, kt \in {"k", "l", "TODO"}}
    \cup {B("forbidden_state", "f", [reachability |-> Other]),
          Block("forbidden_state", "f", [description |-> Other, reachability |-> Other, kill_test |-> Ident("k")],
                <<B("cells", NoName, [c |-> Other])>>)}
OddForbiddenStates ==
  {Numbered(B("forbidden_state", "f",
              [description |-> Other, predicate |-> Other, reachability |-> Other, kill_test |-> Ident("k")])),
   Numbered(B("forbidden_state", "f", [kill_test |-> Ident("k")])),
   B("forbidden_state", "f",
     [description |-> Other, predicate |-> Other, reachability |-> Other, kill_test |-> List(<<"k">>)])}
KillTests ==
  {B("kill_test", id, [forbidden |-> Ident(fs), kind |-> Other, assertion |-> Other, status |-> Ident(st)]) :
       id \in {"k", "l"}, fs \in {"f", "g"}, st \in {"declared", "executed_passing"}}
    \cup {B("kill_test", "k", [kind |-> Other, assertion |-> Other])}
OddKillTests ==
  {Numbered(B("kill_test", "k", [forbidden |-> Ident("f"), kind |-> Other, assertion |-> Other])),
   B("kill_test", "k", [forbidden |-> List(<<"f">>), kind |-> Other, assertion |-> Other])}

\* Derived values over each other and a cell.
Derived ==
  {B("derived", id, [derives_from |-> List(from), derivation |-> Other]) :
     id \in {"x", "y", "z"},
     from \in {<<"c">>, <<"x">>, <<"y", "z">>, <<"z", "y">>, <<"c", "z">>, <<"z", "x">>}}
    \cup {B("derived", "x", [derivation |-> Other]), B("derived", NoName, [derives_from |-> List(<<"x">>)]),
          Numbered(B("derived", "x", [derives_from |-> List(<<"z">>), derivation |-> Other]))}

\* An event with two or three steps, and rows for them.
MutatingStep(id, fallible, mutates) ==
  B("step", id, [op |-> Other, fallible |-> fallible, mutates |-> mutates])
Step(id, fallible, mutates) == MutatingStep(id, fallible, List(mutates))
Steps2 == {<<Step("s", a, m), Step(id, True, <<>>)>> : a \in {True, Other}, m \in {<<>>, <<"c">>}, id \in {"s", "t"}}
Steps3 == {<<Step("s", a, m), Step("t", True, <<>>), Step("u", b, <<>>)>> :
             a \in {True, Other}, b \in {True, Other}, m \in {<<>>, <<"c">>}}
Events ==
  {Block("event", "e", [mutates |-> List(<<"c">>), atomicity |-> Ident(a)], steps) :
     a \in {"none", "transactional"}, steps \in Steps2 \cup Steps3}
    \cup {B("event", "e", [mutates |-> List(<<"c">>)]),
          Block("event", "e", [atomicity |-> Other], <<B("step", "s", [op |-> Other])>>)}
OddEvents ==
  {Block("event", "e", [mutates |-> List(<<"c">>)], steps) : steps \in
     {<<MutatingStep("s", a, Others), Step("t", True, <<>>), Step("u", True, <<>>)>> : a \in {True, Other}}
       \cup {<<Numbered(Step("s", True, <<>>)), Step("t", True, <<>>), Step("u", True, m)>> : m \in {<<>>, <<"c">>}}}
    \cup {Numbered(Block("event", "e", [mutates |-> List(<<"d">>)],
                         <<Step("s", True, <<"c">>), Step("t", True, <<>>)>>)),
          Numbered(B("event", "e", [mutates |-> List(<<"c">>)]))}
MCRow(id, event, step, after) ==
  Block("post_failure", id, [event |-> Ident(event), step |-> Ident(step), outcome |-> Other],
        [k \in DOMAIN after |-> B(after[k], NoName, [c |-> Other])])
MCRows ==
  {B("post_failure", "p", [event |-> Ident("e"), outcome |-> Other])}
    \cup {MCRow(x[1], x[2], x[3], x[4]) :
     x \in {"p"} \X {"e"} \X {"s", "t", "u"} \X {<<"cells_after">>, SubSeq(CellsAfter, 2, 3)}
             \cup {<<"p", "x", "t", <<>> >>, <<"q", "e", "t", SubSeq(CellsAfter, 2, 2)>>}}
OddRows ==
  {Numbered(MCRow("p", "e", "t", <<"cells_after">>)), Numbered(MCRow("p", "x", "t", <<"cells_after">>)),
   Block("post_failure", "p", [event |-> Ident("e"), step |-> Other, outcome |-> Other],
         <<B("cells_after", NoName, [c |-> Other])>>)}

\* Cells, associations and what is left of the required fields.
Plain ==
  {Cell("c"), B("cell", "c", [type |-> Other]), B("cell", NoName, [mutable |-> True]),
   B("association", "r", [invariant |-> Other, over |-> List(<<"c">>), enforced_by |-> Other]),
   B("association", "r", [invariant |-> Other]),
   Numbered(Cell("c")), FieldOfSlice}

\* A block of another kind with the id of a kill test or a forbidden state.
Namesakes == {Cell("k"), Cell("f")}

OneOf(S) == {<<b>> : b \in S}
TwoOf(S, T) == {<<a, b>> : a \in S, b \in T}

MCSlices ==
  {<<>>} \cup OneOf(Plain) \cup TwoOf(Plain, Plain)
    \cup TwoOf(ForbiddenStates, KillTests) \cup TwoOf(KillTests, KillTests)
    \cup {<<a, b, x, Cell("c")>> : a \in ForbiddenStates, b \in ForbiddenStates, x \in KillTests}
    \cup {<<a, b, Cell("c")>> : a \in Derived, b \in Derived}
    \cup {<<a, b, x, Cell("c")>> : a \in Derived, b \in Derived, x \in Derived}
    \cup {<<Cell("c"), e>> : e \in Events}
    \cup {<<a, e, Cell("c")>> : a \in MCRows, e \in Events}
    \cup UNION {{<<a, b>>, <<a, b, Cell("d")>>} : a \in OddForbiddenStates, b \in KillTests \cup OddKillTests}
    \cup TwoOf(ForbiddenStates, OddKillTests)
    \cup {<<a, e, Cell("c")>> : a \in OddRows, e \in Events \cup OddEvents}
    \cup {<<a, e, Cell("c")>> : a \in MCRows, e \in OddEvents}
    \cup UNION {{<<a, b, x>>, <<b, a, x>>, <<b, x, a>>} :
                  a \in Namesakes, b \in ForbiddenStates \cup KillTests,
                  x \in {y \in ForbiddenStates \cup KillTests : y.id \in {"g", "l"}}}

\* A forbidden state whose kill test is nowhere, and two rows for one step, in
\* both orders.
MCLetter ==
  {<<f, Cell("c"), e, a, b>> : f \in ForbiddenStates \cup OddForbiddenStates,
                               e \in Events, a \in MCRows, b \in MCRows}

-----------------------------------------------------------------------------
(* README.md:63, --refs-to lists "Every site that references an ID": at    *)
(* least every block that --gaps takes for one that references it.         *)
EverySiteIsListed ==
  \A i \in DOMAIN slice : \A x \in ReferencedAnywhere(<<slice[i]>>) :
    \E site \in RefsTo(slice, x) : site.from[1] = i

(* Of every slice one of these three sentences of README.md is true: one   *)
(* slice that breaks all three refutes them at once.                       *)
OneSentenceIsTrue == EveryReferenceResolves \/ EveryRowHasItsPair \/ EverySiteIsListed

=============================================================================
