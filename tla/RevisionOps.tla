---------------------------- MODULE RevisionOps ----------------------------
(***************************************************************************)
(* The semantic patch of analysis/revisions.rs: what a slice projects to,  *)
(* the ops that diff_projections writes for a change of the projection,    *)
(* and what apply_revision_op makes of them when a chain is replayed.      *)
(*                                                                         *)
(* A projection is the slice without its `revisions` block.  Its items,    *)
(* and those of every block, are a sequence of entries [kind, name, body]: *)
(* a field is an entry of kind "field" whose body is its value, a block's  *)
(* body is its items.  The text of a projection and its hash stand for the *)
(* projection itself: rendering a block and parsing it back gives the same *)
(* entries, and two projections have one hash only if they are equal.      *)
(*                                                                         *)
(* Of the ops a chain can hold, those synthesis never writes (add_slice,   *)
(* add_walk, add_declaration, add_step) are left out; a reorder_items is   *)
(* one of an event's steps, and a block path has at most two segments, as  *)
(* in the ops synthesis writes.                                            *)
(***************************************************************************)
EXTENDS Listing

CONSTANTS
  Alphabet,  \* the words used as kinds, names and keys, in byte order
  Hole       \* what replay ends in when an op does not apply

Empty(name) == [name |-> name, imports |-> <<>>, items |-> <<>>]

KeyOf(e)       == <<e.kind, e.name>>
FieldKey(name) == <<"field", name>>
Keys(items)    == {KeyOf(items[i]) : i \in DOMAIN items}
FieldKeys(items) == {k \in Keys(items) : k[1] = "field"}
BlockKeys(items) == {k \in Keys(items) : k[1] # "field"}

\* The first entry with a key, 0 if there is none; the maps built for a diff
\* keep the last.
First(items, key) == SelectInSeq(items, LAMBDA e : KeyOf(e) = key)
Mapped(items, key) ==
  items[SelectLastInSeq(items, LAMBDA e : KeyOf(e) = key)].body

\* The order of a BTreeMap keyed by (kind, name), or by field name.
Rank(word) == SelectInSeq(Alphabet, LAMBDA w : w = word)
KeyRank(k) == Rank(k[1]) * (Len(Alphabet) + 1) + Rank(k[2])
InKeyOrder(keys) == ByRank(keys, [k \in keys |-> KeyRank(k)])

StepNames(body) ==
  LET steps == Only(body, {e \in Range(body) : e.kind = "step"})
  IN  [i \in DOMAIN steps |-> steps[i].name]

-----------------------------------------------------------------------------
(* The diff. *)

Op(tag, path, key, arg) == [op |-> tag, path |-> path, key |-> key, arg |-> arg]
NoKey == <<>>

\* What F makes of each key of a set, one after the other.
ForEach(keys, F(_)) ==
  LET ordered == InKeyOrder(keys)
  IN  FlattenSeq([i \in DOMAIN ordered |-> F(ordered[i])])

ImportOps(prev, cur) ==
  LET known == {prev.imports[i].alias : i \in DOMAIN prev.imports}
      new   == Only(cur.imports, {use \in Range(cur.imports) : use.alias \notin known})
  IN  [i \in DOMAIN new |-> Op("add_import", <<>>, NoKey, new[i])]

\* Fields changed or gone, in name order, then those that are new.
FieldOps(path, before, after) ==
  LET Modify(k) == <<Op("modify_field", path, k, Mapped(after, k))>>
      Known(k)  == IF k \notin Keys(after) THEN <<Op("remove_field", path, k, <<>>)>>
                   ELSE IF Mapped(before, k) # Mapped(after, k) THEN Modify(k)
                   ELSE <<>>
  IN  ForEach(FieldKeys(before), Known)
        \o ForEach(FieldKeys(after) \ FieldKeys(before), Modify)

StepOrderOps(key, before, after) ==
  LET was == StepNames(before)  is == StepNames(after) IN
  IF key[1] = "event" /\ Len(was) > 1 /\ was # is /\ Range(was) = Range(is)
    THEN <<Op("reorder_items", <<key>>, NoKey, is)>>
    ELSE <<>>

\* Steps on one side only are passed over.
StepFieldOps(key, before, after) ==
  LET shared == {k \in Keys(before) \cap Keys(after) : k[1] = "step"}
      OfStep(k) == FieldOps(<<key, k>>, Mapped(before, k), Mapped(after, k))
  IN  IF key[1] = "event" THEN ForEach(shared, OfStep) ELSE <<>>

AddOps(prev, cur) ==
  LET New(k) == <<Op("add_block", <<>>, k, Mapped(cur.items, k))>>
  IN  ForEach(BlockKeys(cur.items) \ BlockKeys(prev.items), New)

\* A bug to find: blocks that went away are not diffed.
RemoveOps_None(prev, cur) == <<>>

RemoveOps(prev, cur) ==
  LET Gone(k) == <<Op("remove_block", <<>>, k, <<>>)>>
  IN  ForEach(BlockKeys(prev.items) \ BlockKeys(cur.items), Gone)

ChangeOps(prev, cur) ==
  LET Change(k) ==
        LET before == Mapped(prev.items, k)  after == Mapped(cur.items, k)
        IN  FieldOps(<<k>>, before, after)
              \o StepOrderOps(k, before, after)
              \o StepFieldOps(k, before, after)
  IN  ForEach(BlockKeys(prev.items) \cap BlockKeys(cur.items), Change)

\* A field at the top level of a slice is in nobody's diff.
Diff(prev, cur) ==
  ImportOps(prev, cur) \o AddOps(prev, cur) \o RemoveOps(prev, cur)
    \o ChangeOps(prev, cur)

-----------------------------------------------------------------------------
(* Replay. *)

\* The items a block path leads to; the empty path is the slice.
Reachable(items, path) ==
  /\ Len(path) >= 1 => First(items, path[1]) # 0
  /\ Len(path) = 2  => First(items[First(items, path[1])].body, path[2]) # 0

BodyAt(items, path) ==
  FoldLeft(LAMBDA body, key : body[First(body, key)].body, items, path)

Put(items, path, body) ==
  CASE Len(path) = 0 -> body
    [] Len(path) = 1 -> [items EXCEPT ![First(items, path[1])].body = body]
    [] Len(path) = 2 ->
         LET i == First(items, path[1])
             j == First(items[i].body, path[2])
         IN  [items EXCEPT ![i].body[j].body = body]

\* Position r among the steps takes the r-th name of the order, a repeated name
\* counted once.  Of steps with one name only one is to be had, so the names
\* run out (E0503), as they do where the order names other steps than there are.
Reorder(body, order) ==
  LET names == FlattenSeq([i \in DOMAIN order |->
                             IF order[i] \in Range(SubSeq(order, 1, i - 1)) THEN <<>> ELSE <<order[i]>>])
      Place(i) == Cardinality({j \in 1..i : body[j].kind = "step"})
  IN  IF Range(StepNames(body)) # Range(order) \/ Len(StepNames(body)) # Len(names)
      THEN Hole
      ELSE [i \in DOMAIN body |->
             IF body[i].kind # "step" THEN body[i]
             ELSE body[First(body, <<"step", names[Place(i)]>>)]]

\* A bug to find: a modified field is appended where it should be replaced.
ModifyField_Appends(body, key, value) ==
  Append(body, [kind |-> key[1], name |-> key[2], body |-> value])

ModifyField(body, key, value) ==
  IF First(body, key) # 0 THEN [body EXCEPT ![First(body, key)].body = value]
  ELSE Append(body, [kind |-> key[1], name |-> key[2], body |-> value])

Edited(body, op) ==
  CASE op.op = "add_block" ->
         IF First(body, op.key) # 0 THEN Hole
         ELSE Append(body, [kind |-> op.key[1], name |-> op.key[2], body |-> op.arg])
    [] op.op \in {"remove_block", "remove_field"} ->
         IF First(body, op.key) = 0 THEN Hole ELSE RemoveAt(body, First(body, op.key))
    [] op.op = "modify_field"  -> ModifyField(body, op.key, op.arg)
    [] op.op = "reorder_items" -> Reorder(body, op.arg)

\* Revisions may not reorder walks; any segment spelled so counts as one.
TargetsWalks(op) ==
  /\ op.op = "reorder_items"
  /\ \E i \in DOMAIN op.path : Range(op.path[i]) \cap {"walk", "walks"} # {}

ApplyImport(p, use) ==
  LET same == SelectInSeq(p.imports, LAMBDA u : u.alias = use.alias) IN
  IF same = 0 THEN [p EXCEPT !.imports = Append(@, use)]
  ELSE IF p.imports[same] = use THEN p
  ELSE Hole

ApplyToItems(p, op) ==
  IF TargetsWalks(op) \/ ~Reachable(p.items, op.path) THEN Hole
  ELSE LET body == Edited(BodyAt(p.items, op.path), op)
       IN  IF body = Hole THEN Hole
           ELSE [p EXCEPT !.items = Put(@, op.path, body)]

Apply(p, op) ==
  CASE p = Hole -> Hole
    [] p # Hole /\ op.op = "genesis"    -> IF p = op.arg THEN p ELSE Hole
    [] p # Hole /\ op.op = "add_import" -> ApplyImport(p, op.arg)
    [] OTHER -> ApplyToItems(p, op)

\* The ops of a revision, one after the other.
Applied(p, ops) ==
  LET state[k \in 0..Len(ops)] == IF k = 0 THEN p ELSE Apply(state[k - 1], ops[k])
  IN  state[Len(ops)]

\* Every revision's ops must lead to the hash it declares.
ReplayRevision(p, revision) ==
  LET q == Applied(p, revision.ops)
  IN  IF q = revision.result THEN q ELSE Hole

\* Replay starts from an empty slice of the CURRENT name.
Replay(name, chain) ==
  LET state[i \in 0..Len(chain)] ==
        IF i = 0 THEN Empty(name) ELSE ReplayRevision(state[i - 1], chain[i])
  IN  state[Len(chain)]

=============================================================================
