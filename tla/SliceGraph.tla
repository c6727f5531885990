---------------------------- MODULE SliceGraph ----------------------------
(***************************************************************************)
(* What the viewer and `memspec query` read off the tree of one slice: the *)
(* rows of the Slots pane (compute_slot_rows), the block a row leads to    *)
(* (detail_for_slot, find_top_block, find_step_block), its edges out       *)
(* (collect_outbound) and the edges in (refs_to), and the look-up by id    *)
(* (by_id).  Each goes over the tree on its own.                           *)
(*                                                                         *)
(* A place is <<i>> for the i-th block, <<i, j>> for its j-th nested one.  *)
(***************************************************************************)
EXTENDS SliceAnalysis

-----------------------------------------------------------------------------
(* Rows. *)

KindOrder ==
  <<"cell", "derived", "association", "event", "post_failure", "forbidden_state", "kill_test">>

\* `at` is the place a row was made from; the code keeps the names only.
Place(is, id, step, at) == [is |-> is, id |-> id, step |-> step, at |-> at]
Header == Place("header", NoName, NoName, <<>>)

StepRows(slice, i) ==
  IF slice[i].kind # "event" THEN <<>>
  ELSE ForEach(NamedSteps(slice[i]),
               LAMBDA j : <<Place("step", slice[i].id, slice[i].blocks[j].id, <<i, j>>)>>)

BlockRows(slice, i) ==
  <<Place("block", slice[i].id, NoName, <<i>>)>> \o StepRows(slice, i)

\* A kind has its header as soon as it has a block, with a name or without.
KindRows(slice, kind) ==
  LET at == Only(Places(slice), {i \in DOMAIN slice : slice[i].kind = kind})
  IN  IF at = <<>> THEN <<>>
      ELSE <<Header>> \o ForEach(Only(at, {i \in DOMAIN slice : slice[i].id # NoName}),
                                 LAMBDA i : BlockRows(slice, i))

SlotRows(slice) == ForEach(KindOrder, LAMBDA kind : KindRows(slice, kind))

\* list_ids: the ids of each kind, with the ids of the steps for an event.
StepIdsOf(b) == ForEach(NamedSteps(b), LAMBDA j : <<b.blocks[j].id>>)
ListIds(slice) ==
  [kind \in Range(KindOrder) |->
     ForEach(Only(Places(slice), {i \in DOMAIN slice : slice[i].kind = kind /\ slice[i].id # NoName}),
             LAMBDA i : <<[id    |-> slice[i].id,
                           steps |-> IF kind = "event" THEN StepIdsOf(slice[i]) ELSE <<>>]>>)]

-----------------------------------------------------------------------------
(* From the names of a row back to a block. *)

FirstOf(places) == IF places = <<>> THEN <<>> ELSE places[1]

TopBlock(slice, id) ==
  FirstOf(ForEach(Places(slice), LAMBDA i : If(slice[i].id = id /\ id # NoName, <<i>>)))

StepNamed(slice, i, step) ==
  ForEach(NamedSteps(slice[i]), LAMBDA j : If(slice[i].blocks[j].id = step, <<i, j>>))

\* The Detail pane: any event of that name that has the step.
DetailAt(slice, row) ==
  CASE row.is = "header" -> <<>>
    [] row.is = "block"  -> TopBlock(slice, row.id)
    [] row.is = "step"   ->
         FirstOf(ForEach(Places(slice), LAMBDA i :
           IF slice[i].kind = "event" /\ slice[i].id = row.id
           THEN StepNamed(slice, i, row.step) ELSE <<>>))

\* A bug to find: the step is looked for in every event.
NodeAt_AnyEvent(slice, row) ==
  CASE row.is = "header" -> <<>>
    [] row.is = "block"  -> TopBlock(slice, row.id)
    [] row.is = "step"   ->
         FirstOf(ForEach(Places(slice), LAMBDA i :
           IF slice[i].kind = "event" THEN StepNamed(slice, i, row.step) ELSE <<>>))

\* The Graph pane: the first block of that name, whatever its kind.
NodeAt(slice, row) ==
  CASE row.is = "header" -> <<>>
    [] row.is = "block"  -> TopBlock(slice, row.id)
    [] row.is = "step"   ->
         LET event == TopBlock(slice, row.id)
         IN  IF event = <<>> THEN <<>> ELSE FirstOf(StepNamed(slice, event[1], row.step))

\* by_id: the steps of an event are looked at before the blocks behind it.
ById(slice, id) ==
  FirstOf(ForEach(Places(slice), LAMBDA i :
    If(slice[i].id = id /\ id # NoName, <<i>>) \o
    (IF slice[i].kind = "event" /\ slice[i].id # NoName
     THEN StepNamed(slice, i, id) ELSE <<>>)))

BlockAt(slice, at) == IF Len(at) = 1 THEN slice[at[1]] ELSE slice[at[1]].blocks[at[2]]

-----------------------------------------------------------------------------
(* Edges.  A reference is <<id>>, or <<alias, id>> if it is qualified.     *)

Edge(via, to) == [via |-> via, to |-> to]

\* walk_value_outbound, on every field.
FieldEdges(b) ==
  UNION {CASE b.fields[key].is \in {"ident", "list"} ->
                {Edge(<<key>>, <<x>>) : x \in Range(b.fields[key].of)}
           [] b.fields[key].is = "map" ->
                {Edge(<<key, "<key>">>, <<x>>) : x \in Range(b.fields[key].of)}
           [] b.fields[key].is = "qualified" -> {Edge(<<key>>, b.fields[key].of)}
           [] OTHER -> {} : key \in DOMAIN b.fields}

\* The keys of a nested block are taken for references, whatever it is.
KeyEdges(x) == {Edge(<<x.kind, "<keys>">>, <<key>>) : key \in DOMAIN x.fields}

Outgoing(b) == FieldEdges(b) \cup UNION {KeyEdges(x) \cup FieldEdges(x) : x \in Range(b.blocks)}

\* A bug to find: the keys of maps are not looked at.
Sites_NoMapKeys(b, at, id) ==
  {[from |-> at, via |-> <<key>>] : key \in {k \in DOMAIN b.fields : id \in Range(Idents(b, k))}}

\* scan_value_refs, on every field of the block at a place.
Sites(b, at, id) ==
  {[from |-> at, via |-> <<key>>] : key \in {k \in DOMAIN b.fields : id \in Range(Idents(b, k))}}
  \cup {[from |-> at, via |-> <<key, "<key>">>] :
          key \in {k \in DOMAIN b.fields : id \in Range(Of(b, k, {"map"}))}}

RefsTo(slice, id) ==
  UNION {Sites(slice[i], <<i>>, id)
         \cup UNION {Sites(slice[i].blocks[j], <<i, j>>, id) : j \in DOMAIN slice[i].blocks} :
           i \in DOMAIN slice}

=============================================================================
