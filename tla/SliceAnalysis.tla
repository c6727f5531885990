--------------------------- MODULE SliceAnalysis ---------------------------
(***************************************************************************)
(* The passes over the tree of one slice: structural.rs, coherence.rs and  *)
(* symmetric_failure.rs of analysis/, and gaps of analysis/query.rs, which *)
(* goes over the same tree on its own.                                     *)
(*                                                                         *)
(* A slice is the sequence of its items.  A block has a kind, an id (or    *)
(* NoName, if it has no name or a number for one), its fields by key and   *)
(* its nested blocks; the keys of a nested `cells` or `cells_after` block  *)
(* are fields too.  Of two fields with one key every pass sees the first   *)
(* only, so a block has one field per key.  A field of the slice itself is *)
(* an item of kind "field", which nothing looks into.                      *)
(*                                                                         *)
(* A value is an identifier, a list with its identifiers, a list of other  *)
(* things, a map with its keys, true, or anything else.                    *)
(*                                                                         *)
(* Each pass gives its errors as a sequence, in the order of the code;     *)
(* infos are left out, and of the warnings all but W0270.                  *)
(***************************************************************************)
EXTENDS Listing

CONSTANTS
  Order,   \* the ids in the order of their names, that of a BTreeMap
  NoName   \* the id of a block without one; no identifier

ASSUME SliceAssumption == IsList(Order) /\ NoName \notin Range(Order)

Value(is, of) == [is |-> is, of |-> of]
Ident(x)  == Value("ident", <<x>>)
List(xs)  == Value("list", xs)
Others    == Value("others", <<>>)
Map(keys) == Value("map", keys)
True      == Value("true", <<>>)
Other     == Value("other", <<>>)

HasField(b, key)  == key \in DOMAIN b.fields
HasBlock(b, kind) == \E i \in DOMAIN b.blocks : b.blocks[i].kind = kind
IsTrue(b, key)    == HasField(b, key) /\ b.fields[key] = True

\* What a field of the given form holds; nothing if it has another form.
Of(b, key, forms) ==
  IF HasField(b, key) /\ b.fields[key].is \in forms THEN b.fields[key].of ELSE <<>>

IdentOf(b, key) ==
  LET x == Of(b, key, {"ident"}) IN IF x = <<>> THEN NoName ELSE x[1]
Idents(b, key)  == Of(b, key, {"ident", "list"})

\* The cells named by a field `key: { ... }` and by a block `key { ... }`; those
\* of the block in the order of their names.
CellKeys(b, key) ==
  Of(b, key, {"map"}) \o
  (IF HasBlock(b, key)
   THEN Only(Order, DOMAIN b.blocks[SelectInSeq(b.blocks, LAMBDA x : x.kind = key)].fields)
   ELSE <<>>)

CellsAfter == <<"cells_after", "cells_after_pre_rollback", "cells_after_rollback">>
CellBlocks == {"cells"} \cup Range(CellsAfter)

\* What F makes of each element, one after the other.
ForEach(s, F(_)) == FlattenSeq([i \in DOMAIN s |-> F(s[i])])

\* What a parsed slice is made of.
IsBlock(b) ==
  /\ b.id \in Range(Order) \cup {NoName}
  /\ b.numbered \in BOOLEAN /\ (b.numbered => b.id = NoName)
  /\ \A key \in DOMAIN b.fields : IsList(b.fields[key].of)
  /\ IsList(b.blocks)
IsSlice(slice) ==
  IsList(slice) /\ \A b \in Range(slice) : IsBlock(b) /\ \A x \in Range(b.blocks) : IsBlock(x)

\* A diagnostic: its code, where it is (a block, or a step in one), and what
\* its message names.
Diag(code, at, arg) == [code |-> code, at |-> at, arg |-> arg]
If(condition, diag) == IF condition THEN <<diag>> ELSE <<>>

-----------------------------------------------------------------------------
(* Pass 1: structural completeness. *)

SlotKinds ==
  {"cell", "derived", "association", "event", "post_failure", "forbidden_state", "kill_test"}

Required ==
  [cell            |-> <<"type", "mutable">>,
   derived         |-> <<"derives_from", "derivation">>,
   association     |-> <<"invariant", "over", "enforced_by">>,
   event           |-> <<"mutates">>,
   step            |-> <<"op", "fallible">>,
   post_failure    |-> <<"event", "step", "outcome">>,
   forbidden_state |-> <<"description", "reachability", "kill_test">>,
   kill_test       |-> <<"forbidden", "kind", "assertion">>]

\* A number is name enough.
CheckFields(b, at) ==
  If(b.id = NoName /\ ~b.numbered, Diag("E0200", at, "name")) \o
  ForEach(Only(Required[b.kind], Range(Required[b.kind]) \ DOMAIN b.fields),
          LAMBDA key : <<Diag("E0200", at, key)>>)

StepsAt(b) == Only(Places(b.blocks), {j \in DOMAIN b.blocks : b.blocks[j].kind = "step"})

CheckEvent(b, i) ==
  If(~HasBlock(b, "step"), Diag("E0202", <<i>>, b.id)) \o
  ForEach(StepsAt(b), LAMBDA j : CheckFields(b.blocks[j], <<i, j>>))

CheckPostFailure(b, i) ==
  If(~(HasField(b, "cells_after") \/ \E k \in 1..3 : HasBlock(b, CellsAfter[k])),
     Diag("E0200", <<i>>, "cells_after"))

CheckForbiddenState(b, i) ==
  If(~(HasField(b, "predicate") \/ HasField(b, "cells") \/ HasBlock(b, "cells")),
     Diag("E0203", <<i>>, b.id))

CheckSlot(b, i) ==
  CheckFields(b, <<i>>) \o
  (CASE b.kind = "event"           -> CheckEvent(b, i)
     [] b.kind = "post_failure"    -> CheckPostFailure(b, i)
     [] b.kind = "forbidden_state" -> CheckForbiddenState(b, i)
     [] OTHER                      -> <<>>)

Slots(slice) == Only(Places(slice), {i \in DOMAIN slice : slice[i].kind \in SlotKinds})

Structural(slice) ==
  IF slice = <<>> THEN <<Diag("E0201", <<>>, NoName)>>
  ELSE ForEach(Slots(slice), LAMBDA i : CheckSlot(slice[i], i))

-----------------------------------------------------------------------------
(* Pass 2: coherence.  The symbol table holds, of the blocks with one id,  *)
(* the first; and of the steps of an event with one id, the first.  What   *)
(* has no id is passed over, here and in all that follows.                 *)

Named(slice) == Only(Slots(slice), {i \in DOMAIN slice : slice[i].id # NoName})

Prior(slice, i) == \E j \in Range(Named(slice)) : j < i /\ slice[j].id = slice[i].id

Rank(id) == SelectInSeq(Order, LAMBDA x : x = id)

\* The table of a kind: where its blocks are, in the order of their ids.
Table(slice, kind) ==
  LET firsts == {i \in Range(Named(slice)) : slice[i].kind = kind /\ ~Prior(slice, i)}
  IN  ByRank(firsts, [i \in firsts |-> Rank(slice[i].id)])

Ids(slice, kind) == {slice[i].id : i \in Range(Table(slice, kind))}

\* The block of the table with an id.
Lookup(slice, id) == CHOOSE i \in Range(Named(slice)) : slice[i].id = id /\ ~Prior(slice, i)

NamedSteps(e) == Only(StepsAt(e), {j \in DOMAIN e.blocks : e.blocks[j].id # NoName})
PriorStep(e, j) == \E k \in Range(NamedSteps(e)) : k < j /\ e.blocks[k].id = e.blocks[j].id
StepTable(e) ==
  LET firsts == {j \in Range(NamedSteps(e)) : ~PriorStep(e, j)}
  IN  ByRank(firsts, [j \in firsts |-> Rank(e.blocks[j].id)])
StepIds(e) == {e.blocks[j].id : j \in Range(NamedSteps(e))}
StepOf(e, id) == e.blocks[CHOOSE j \in Range(StepTable(e)) : e.blocks[j].id = id]

Duplicates(slice) ==
  ForEach(Named(slice), LAMBDA i :
    IF Prior(slice, i) THEN <<Diag("E0250", <<i>>, slice[i].id)>>
    ELSE IF slice[i].kind # "event" THEN <<>>
    ELSE ForEach(NamedSteps(slice[i]), LAMBDA j :
           If(PriorStep(slice[i], j), Diag("E0251", <<i, j>>, slice[i].blocks[j].id))))

Unresolved(ids, known, at) ==
  ForEach(Only(ids, Range(ids) \ known), LAMBDA x : <<Diag("E0252", at, x)>>)

CheckPostFailureRefs(slice, i) ==
  LET b == slice[i]
      event == IdentOf(b, "event")
      step  == IdentOf(b, "step")
      cells == Ids(slice, "cell")
  IN  ForEach(CellsAfter, LAMBDA key : Unresolved(CellKeys(b, key), cells, <<i>>)) \o
      (IF event = NoName THEN <<>>
       ELSE IF event \notin Ids(slice, "event") THEN <<Diag("E0253", <<i>>, event)>>
       ELSE LET e == slice[Lookup(slice, event)]
            IN  IF step = NoName THEN <<>>
                ELSE IF step \notin StepIds(e) THEN <<Diag("E0254", <<i>>, step)>>
                ELSE If(~IsTrue(StepOf(e, step), "fallible"), Diag("E0259", <<i>>, step)))

CheckRefs(slice) ==
  LET cells == Ids(slice, "cell")
      both  == cells \cup Ids(slice, "derived")
  IN  ForEach(Table(slice, "derived"),
              LAMBDA i : Unresolved(Idents(slice[i], "derives_from"), both, <<i>>)) \o
      ForEach(Table(slice, "association"),
              LAMBDA i : Unresolved(Idents(slice[i], "over"), both, <<i>>)) \o
      ForEach(Table(slice, "event"), LAMBDA i :
        Unresolved(Idents(slice[i], "mutates"), cells, <<i>>) \o
        ForEach(StepTable(slice[i]), LAMBDA j :
          Unresolved(Idents(slice[i].blocks[j], "mutates"), cells, <<i, j>>))) \o
      ForEach(Table(slice, "forbidden_state"),
              LAMBDA i : Unresolved(CellKeys(slice[i], "cells"), cells, <<i>>)) \o
      ForEach(Table(slice, "post_failure"), LAMBDA i : CheckPostFailureRefs(slice, i))

\* Bugs to find: TODO is taken for an id; whom the kill test names is not
\* looked at.
CheckForward_TodoUnknown(slice, i) ==
  LET ref == IdentOf(slice[i], "kill_test")
  IN  If(ref \notin Ids(slice, "kill_test") \cup {NoName}, Diag("E0256", <<i>>, ref))
CheckForward_NoBackRef(slice, i) ==
  LET ref == IdentOf(slice[i], "kill_test")
  IN  If(ref \notin Ids(slice, "kill_test") \cup {NoName, "TODO"}, Diag("E0256", <<i>>, ref))

\* The kill test of a forbidden state must exist, and name it back if it
\* names anything.
CheckForward(slice, i) ==
  LET ref == IdentOf(slice[i], "kill_test")
  IN  IF ref \in {NoName, "TODO"} THEN <<>>
      ELSE IF ref \notin Ids(slice, "kill_test") THEN <<Diag("E0256", <<i>>, ref)>>
      ELSE LET k == Lookup(slice, ref)
           IN  If(IdentOf(slice[k], "forbidden") \notin {NoName, slice[i].id},
                  Diag("E0257", <<k>>, slice[i].id))

\* The forbidden state a kill test names must exist.
CheckReverse(slice, i) ==
  LET ref == IdentOf(slice[i], "forbidden")
  IN  If(ref \notin Ids(slice, "forbidden_state") \cup {NoName}, Diag("E0255", <<i>>, ref))

CheckBipartite(slice) ==
  ForEach(Table(slice, "forbidden_state"), LAMBDA i : CheckForward(slice, i)) \o
  ForEach(Table(slice, "kill_test"), LAMBDA i : CheckReverse(slice, i))

\* The derived values and what each derives from.
Adjacency(slice) ==
  [d \in Ids(slice, "derived") |-> Idents(slice[Lookup(slice, d)], "derives_from")]

\* One turn of the depth-first search, with its explicit stack of <<value,
\* next source>>; none if the stack is empty.
Turn(adj, s) ==
  LET node == Last(s.stack)[1]
      k    == Last(s.stack)[2]
      next == adj[node][k]
      on   == [s EXCEPT !.stack[Len(s.stack)] = <<node, k + 1>>]
  IN  IF s.stack = <<>> THEN s
      ELSE IF k > Len(adj[node])
      THEN [s EXCEPT !.color[node] = "black", !.stack = Front(s.stack)]
      ELSE IF next \notin DOMAIN adj THEN on
      ELSE IF s.color[next] = "white"
      THEN [on EXCEPT !.color[next] = "gray", !.stack = Append(@, <<next, 1>>)]
      ELSE IF s.color[next] = "gray" THEN [on EXCEPT !.found = Append(@, next)]
      ELSE on

\* The turns until the stack is empty: no value is entered twice, so there is
\* at most one for each source and one for the end of each value.
Search(adj, s) ==
  LET most == Cardinality(UNION {{d} \X (1..(Len(adj[d]) + 1)) : d \in DOMAIN adj})
      turn[n \in 0..most] == IF n = 0 THEN s ELSE Turn(adj, turn[n - 1])
  IN  turn[most]

\* The search from each value that is still white, in the order of the ids.
Searched(adj, ids) ==
  LET start == [color |-> [d \in DOMAIN adj |-> "white"], stack |-> <<>>, found |-> <<>>]
      From(s, d) ==
        IF s.color[d] # "white" THEN s
        ELSE Search(adj, [s EXCEPT !.color[d] = "gray", !.stack = <<<<d, 1>>>>])
      past[n \in 0..Len(ids)] == IF n = 0 THEN start ELSE From(past[n - 1], ids[n])
  IN  past[Len(ids)]

CheckDerivationCycles(slice) ==
  LET table == Table(slice, "derived")
  IN  ForEach(Searched(Adjacency(slice), [n \in DOMAIN table |-> slice[table[n]].id]).found,
              LAMBDA d : <<Diag("E0258", <<Lookup(slice, d)>>, d)>>)

Coherence(slice) ==
  Duplicates(slice) \o CheckRefs(slice) \o CheckBipartite(slice) \o CheckDerivationCycles(slice)

\* W0270: the cells of the table that nothing in the tables refers to.
Mentions(b, key) ==
  Range(Of(b, key, {"ident", "list", "map"}))
    \cup (IF key \in CellBlocks THEN Range(CellKeys(b, key)) ELSE {})

Refers(slice, kind, key) ==
  UNION {Mentions(slice[i], key) : i \in Range(Table(slice, kind))}

ReferencedCells(slice) ==
  Refers(slice, "derived", "derives_from") \cup Refers(slice, "association", "over")
    \cup Refers(slice, "event", "mutates") \cup Refers(slice, "forbidden_state", "cells")
    \cup (UNION {Refers(slice, "post_failure", CellsAfter[k]) : k \in 1..3})
    \cup (UNION {UNION {Mentions(slice[i].blocks[j], "mutates") :
                          j \in Range(StepTable(slice[i]))} : i \in Range(Table(slice, "event"))})

UnusedCells(slice) == Ids(slice, "cell") \ ReferencedCells(slice)

-----------------------------------------------------------------------------
(* Pass 3: symmetric failure. *)

\* The steps of an event, those with a name, in order.
Steps(e) == [n \in DOMAIN NamedSteps(e) |-> e.blocks[NamedSteps(e)[n]]]

\* A bug to find: an earlier step that cannot fail is thought to leave nothing.
Observable_FallibleOnly(steps, k) == \E j \in 1..(k - 1) : IsTrue(steps[j], "fallible")

\* A list with something in it.
IsFullList(b, key) ==
  Of(b, key, {"list"}) # <<>> \/ (HasField(b, key) /\ b.fields[key] = Others)

\* Behind step k an earlier step may have failed, or changed something.
Observable(steps, k) ==
  \E j \in 1..(k - 1) : IsTrue(steps[j], "fallible") \/ IsFullList(steps[j], "mutates")

\* The steps of an event that must have a post_failure row.
NeedRow(e) ==
  LET steps == Steps(e)
      fallible == {k \in DOMAIN steps : IsTrue(steps[k], "fallible")}
  IN  IF \A j, k \in fallible : j = k THEN <<>>
      ELSE Only(Places(steps), {k \in fallible : Observable(steps, k)})

\* The row indexed under an event and a step: the last one, 0 if there is none.
Row(slice, event, step) ==
  SelectLastInSeq(slice, LAMBDA b : /\ b.kind = "post_failure"
                                    /\ IdentOf(b, "event") = event
                                    /\ IdentOf(b, "step") = step)

Transactional(e) == IdentOf(e, "atomicity") \in {"transactional", "db_transaction"}

Distinguishes(b) ==
  \A k \in {2, 3} : HasField(b, CellsAfter[k]) \/ HasBlock(b, CellsAfter[k])

CheckStep(slice, e, i, step) ==
  LET row == Row(slice, e.id, step)
  IN  IF row = 0 THEN <<Diag("E0300", <<i>>, <<e.id, step>>)>>
      ELSE If(Transactional(e) /\ ~Distinguishes(slice[row]), Diag("E0301", <<row>>, <<e.id, step>>))

EventsAt(slice) ==
  Only(Places(slice), {i \in DOMAIN slice : slice[i].kind = "event" /\ slice[i].id # NoName})

SymmetricFailure(slice) ==
  ForEach(EventsAt(slice), LAMBDA i :
    ForEach(NeedRow(slice[i]),
            LAMBDA k : CheckStep(slice, slice[i], i, Steps(slice[i])[k].id)))

\* The errors of the three passes.
Analyze(slice) == Structural(slice) \o Coherence(slice) \o SymmetricFailure(slice)

-----------------------------------------------------------------------------
(* query --gaps.  Its tables know no duplicates: the last block of a kind  *)
(* with an id is the one it sees.                                          *)

DeclaredKillTest(slice, id) ==
  SelectLastInSeq(slice, LAMBDA b : b.kind = "kill_test" /\ b.id = id)

Passing(b) == IdentOf(b, "status") = "executed_passing"

\* Forbidden states no executed test covers.  A kill_test field that is not
\* an identifier is passed over.
UnkilledForbiddenStates(slice) ==
  {i \in DOMAIN slice :
     /\ slice[i].kind = "forbidden_state" /\ slice[i].id # NoName
     /\ LET ref == IdentOf(slice[i], "kill_test")
            k   == DeclaredKillTest(slice, ref)
        IN  \/ ~HasField(slice[i], "kill_test")
            \/ ref # NoName /\ (ref = "TODO" \/ k = 0 \/ ~Passing(slice[k]))}

\* A bug to find: one fallible step is enough for the rule to apply.
GapNeedsRow_AnyFallible(e) ==
  {k \in 2..Len(Steps(e)) : IsTrue(Steps(e)[k], "fallible") /\ Observable(Steps(e), k)}

GapNeedsRow(e) ==
  LET steps == Steps(e)
  IN  {k \in 2..Len(steps) :
         /\ \E j, l \in DOMAIN steps :
              j # l /\ IsTrue(steps[j], "fallible") /\ IsTrue(steps[l], "fallible")
         /\ IsTrue(steps[k], "fallible")
         /\ Observable(steps, k)}

MissingPostFailures(slice) ==
  (UNION {{<<slice[i].id, Steps(slice[i])[k].id>> : k \in GapNeedsRow(slice[i])} :
            i \in Range(EventsAt(slice))})
    \ {<<IdentOf(slice[i], "event"), IdentOf(slice[i], "step")>> :
         i \in {j \in DOMAIN slice : slice[j].kind = "post_failure"}}

\* Every identifier of every field counts as a reference to a cell.
ReferencedAnywhere(slice) ==
  LET InFields(b) == UNION {Range(Of(b, key, {"ident", "list", "map"})) : key \in DOMAIN b.fields}
      InBlock(b) ==
        InFields(b) \cup (UNION {InFields(x) : x \in Range(b.blocks)})
          \cup (UNION {DOMAIN x.fields : x \in {y \in Range(b.blocks) : y.kind \in CellBlocks}})
  IN  UNION {InBlock(b) : b \in Range(slice)}

UnusedCellGaps(slice) ==
  {slice[i].id : i \in {j \in DOMAIN slice : slice[j].kind = "cell" /\ slice[j].id # NoName}}
    \ ReferencedAnywhere(slice)
=============================================================================
