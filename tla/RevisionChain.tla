--------------------------- MODULE RevisionChain ---------------------------
(***************************************************************************)
(* The inline revision chain of one .memspec file: an author who edits the *)
(* slice, or the `revisions` block itself, and synthesize_revision_source  *)
(* of analysis/revisions.rs, which appends to the chain.  Reading, writing *)
(* and re-checking the file is SynthesizeFile's part; here the file is the *)
(* text the function is given and the text it returns.                     *)
(***************************************************************************)
EXTENDS RevisionOps

CONSTANTS
  Projections,  \* what the slice can say, besides its revisions
  NoHash,       \* `base_hash: null`
  MaxEdits,     \* bound: how often the author edits the slice
  MaxTampers    \* bound: how often somebody edits the revisions block

\* Items as the parser gives them: a list of entries, and a list again under
\* every block, down to the fields of a step.
IsEntries(s) ==
  IsList(s) /\ \A e \in Range(s) : {e.kind, e.name} \subseteq Range(Alphabet)
IsItems(items) ==
  LET Blocks(s) == {e \in Range(s) : e.kind # "field"}
  IN  /\ IsEntries(items)
      /\ \A b \in Blocks(items) :
           IsEntries(b.body) /\ \A s \in Blocks(b.body) : IsEntries(s.body)

ASSUME ChainAssumption ==
  /\ IsList(Alphabet)
  /\ \A p \in Projections :
       /\ DOMAIN p = {"name", "imports", "items"}
       /\ IsList(p.imports) /\ IsItems(p.items)
       /\ Hole \notin {p, Empty(p.name)}
  /\ MaxEdits \in Nat /\ MaxTampers \in Nat

VARIABLES
  now,       \* the projection of the text
  parses,    \* the text is free of syntax errors
  chain,     \* the entries of its first `revisions` block
  second,    \* the slice has a second `revisions` block
  edits,     \* how often the slice was edited
  tampers,   \* how often a revisions block was edited by hand
  outcome    \* what the last synthesis answered: error codes, "appended", "no_op"

vars == <<now, parses, chain, second, edits, tampers, outcome>>

Codes == {"syntax", "E0500", "E0501", "E0502", "E0503", "E0504", "E0505", "E0506", "E0507"}

TypeOK ==
  /\ now \in Projections
  /\ parses \in BOOLEAN /\ second \in BOOLEAN
  /\ \A i \in DOMAIN chain :
       /\ DOMAIN chain[i] = {"number", "base", "result", "ops"}
       /\ chain[i].number \in Nat
       /\ chain[i].ops # <<>>
  /\ edits \in 0..MaxEdits /\ tampers \in 0..MaxTampers
  /\ outcome \in {{}, {"appended"}, {"no_op"}} \cup SUBSET Codes

-----------------------------------------------------------------------------
(* Reading and validating a chain. *)

\* The codes for which a condition holds somewhere.
Code(code, holds) == IF holds THEN {code} ELSE {}

\* An op with an unknown tag is reported and left out.
Understood(op) == op.op # "unknown"
Collect(revisions) ==
  [i \in DOMAIN revisions |->
     [revisions[i] EXCEPT !.ops = Only(@, {op \in Range(@) : Understood(op)})]]
CollectErrors(revisions, twice) ==
  Code("E0503", twice)
    \cup Code("E0504", \E i \in DOMAIN revisions :
                         ~ \A k \in DOMAIN revisions[i].ops : Understood(revisions[i].ops[k]))

\* A bug to find: a revision's base hash is not compared with the result
\* hash before it.
BaseBreaks_FirstOnly(c) == c[1].base # NoHash

BaseBreaks(c) ==
  \/ c[1].base # NoHash
  \/ \E i \in 2..Len(c) : c[i].base # c[i - 1].result

\* An op that reorders walks is an error of its own, and the one that stops
\* the replay there.
ReordersWalks(c) == \E i \in DOMAIN c : \E k \in DOMAIN c[i].ops : TargetsWalks(c[i].ops[k])

ChainErrors(p, c) ==
  Code("E0501", \E i \in DOMAIN c : c[i].number # i)
    \cup Code("E0505", ReordersWalks(c))
    \cup Code("E0500", BaseBreaks(c))
    \cup Code("E0503", Replay(p.name, c) = Hole /\ ~ReordersWalks(c))

CurrentErrors(p, c) ==
  Code("E0502", c[Len(c)].result # p)
    \cup Code("E0503", Replay(p.name, c) \notin {p, Hole})

\* A bug to find: synthesis asks for a chain that is current, as a walk does.
AllowMismatch_Terminal(p, c) ==
  IF c = <<>> THEN {} ELSE ChainErrors(p, c) \cup CurrentErrors(p, c)

\* The two terminal checks: a file may be ahead of its chain while synthesis
\* reads it, never when it is walked.
AllowMismatch(p, c)  == IF c = <<>> THEN {} ELSE ChainErrors(p, c)
RequireCurrent(p, c) == IF c = <<>> THEN {} ELSE ChainErrors(p, c) \cup CurrentErrors(p, c)

-----------------------------------------------------------------------------
(* Synthesis. *)

Revision(number, base, result, ops) ==
  [number |-> number, base |-> base, result |-> result, ops |-> ops]

Previous(p, c) == IF c = <<>> THEN Empty(p.name) ELSE Replay(p.name, c)

\* A bug to find: the chain starts without an op that says from what.
Genesis_Unanchored(p) == Revision(1, NoHash, Empty(p.name), <<>>)

\* The first synthesis starts the chain at the empty slice.
Genesis(p) ==
  LET empty == Empty(p.name)
  IN  Revision(1, NoHash, empty, <<Op("genesis", <<>>, NoKey, empty)>>)

NextNumber(c) == c[Len(c)].number + 1

Grown(p, c, ops) ==
  LET old == IF c = <<>> THEN <<Genesis(p)>> ELSE c
  IN  Append(old, Revision(NextNumber(old), old[Len(old)].result, p, ops))

\* A bug to find: what was rendered is not validated before it is returned.
Rejected_Never(p, c) == {}

\* The rendered text, parsed and validated again.
Rejected(p, c) == RequireCurrent(p, c)

\* A bug to find: the comparison with the last revision is left out.
Unchanged_Never(p, c) == FALSE

Unchanged(p, c) == c # <<>> /\ c[Len(c)].result = p

\* Equal projections give E0506, a change without an op E0507.
NoOpsCode(p, c) == IF Previous(p, c) = p THEN "E0506" ELSE "E0507"

Answer(out, revisions) == [outcome |-> out, chain |-> revisions]

SynthesizeRevisionSource ==
  LET c      == Collect(chain)
      before == CollectErrors(chain, second) \cup AllowMismatch(now, c)
      ops    == Diff(Previous(now, c), now)
      \* entries are appended as text: those already there stay as they are
      grown  == Grown(now, c, ops)
      after  == Rejected(now, grown)
  IN  CASE ~parses             -> Answer({"syntax"}, chain)
        [] parses /\ before # {} -> Answer(before, chain)
        [] OTHER ->
             IF Unchanged(now, c) THEN Answer({"no_op"}, chain)
             ELSE IF ops = <<>> THEN Answer({NoOpsCode(now, c)}, chain)
             ELSE IF after # {} THEN Answer(after, chain)
             ELSE Answer({"appended"}, grown)

-----------------------------------------------------------------------------

Init ==
  /\ now \in Projections
  /\ parses = TRUE
  /\ chain = <<>>
  /\ second = FALSE
  /\ edits = 0 /\ tampers = 0
  /\ outcome = {}

Edit ==
  /\ edits < MaxEdits
  /\ now' \in Projections \ {now}
  /\ parses' \in BOOLEAN
  /\ edits' = edits + 1
  /\ outcome' = {}
  /\ UNCHANGED <<chain, second, tampers>>

\* An entry is dropped, pasted twice, cut off from its base or given an op
\* this version does not know; or a whole second block is pasted.
Tampered(c) ==
  {RemoveAt(c, i) : i \in DOMAIN c}
    \cup {InsertAt(c, i, c[i]) : i \in DOMAIN c}
    \cup {[c EXCEPT ![i].base = NoHash] : i \in 2..Len(c)}
    \cup {[c EXCEPT ![i].ops = Append(@, Op("unknown", <<>>, NoKey, <<>>))] :
            i \in DOMAIN c}

Tamper ==
  /\ tampers < MaxTampers
  /\ chain # <<>>
  /\ \/ chain' \in Tampered(chain) /\ UNCHANGED second
     \/ second' = ~second /\ UNCHANGED chain
  /\ tampers' = tampers + 1
  /\ outcome' = {}
  /\ UNCHANGED <<now, parses, edits>>

Synthesize ==
  /\ outcome' = SynthesizeRevisionSource.outcome
  /\ chain' = SynthesizeRevisionSource.chain
  /\ UNCHANGED <<now, parses, second, edits, tampers>>

Next == Edit \/ Tamper \/ Synthesize

Spec == Init /\ [][Next]_vars

-----------------------------------------------------------------------------
(* Properties. *)

\* A chain read as history: it starts at the empty slice, every entry names
\* the one before it, and its ops turn the state before it into its own.
Linked(c, i) ==
  /\ c[i].number = i
  /\ c[i].base = (IF i = 1 THEN NoHash ELSE c[i - 1].result)
Replays(c, i) ==
  LET from == IF i = 1 THEN Empty(c[1].result.name) ELSE c[i - 1].result
  IN  Applied(from, c[i].ops) = c[i].result

(* A chain nobody but the tool wrote is a history: linked, numbered from 1 *)
(* and replayable entry by entry, whatever edits came in between and       *)
(* however many syntheses failed.                                          *)
WrittenChainIsHistory ==
  tampers = 0 => \A i \in DOMAIN chain : Linked(chain, i) /\ Replays(chain, i)

(* After synthesis said it appended, or that there is nothing to append,   *)
(* walking the file finds no fault with its revisions, hand-edited or not. *)
AnswerIsClean ==
  outcome \in {{"appended"}, {"no_op"}} =>
    CollectErrors(chain, second) \cup RequireCurrent(now, Collect(chain)) = {}

(* What validation accepts is a history: if a walk reports nothing, every  *)
(* entry is linked and replays, also in a block edited by hand.            *)
CleanMeansHistory ==
  (chain # <<>> /\ CollectErrors(chain, second) \cup RequireCurrent(now, Collect(chain)) = {}) =>
    /\ \A i \in DOMAIN chain : Linked(chain, i) /\ Replays(chain, i)
    /\ chain[Len(chain)].result = now

(* An edit of the slice never makes the chain invalid, so undoing an edit  *)
(* that synthesis rejects always gets the file going again; unless the     *)
(* edit renames the slice, for replay starts from the current name.        *)
EditsKeepTheChainReadable ==
  (tampers = 0 /\ chain # <<>> /\ chain[1].result.name = now.name) =>
    AllowMismatch(now, chain) = {}

(* Synthesis only ever adds entries at the end: one, or two when it starts *)
(* the chain; and a second run in a row adds none.                         *)
OnlyAppends ==
  [][Synthesize =>
       /\ IsPrefix(chain, chain')
       /\ Len(chain') - Len(chain) \in {0, IF chain = <<>> THEN 2 ELSE 1}
       /\ outcome \in {{"appended"}, {"no_op"}} => outcome' = {"no_op"}]_vars

\* The changes the ops can express, read off the two projections alone:
\* entries that stay keep their place, those that are new follow them in
\* key order, and only fields, and the order of an event's steps, differ.
Ascending(keys) == \A i \in 1..(Len(keys) - 1) : KeyRank(keys[i]) < KeyRank(keys[i + 1])

FieldsInPlace(before, after) ==
  LET stay == SelectSeq(before, LAMBDA e : e.kind # "field" \/ KeyOf(e) \in Keys(after))
      new  == SubSeq(after, Len(stay) + 1, Len(after))
  IN  /\ Len(stay) <= Len(after)
      /\ \A i \in DOMAIN stay :
           IF stay[i].kind = "field" THEN KeyOf(after[i]) = KeyOf(stay[i])
           ELSE after[i].kind = stay[i].kind
      /\ \A i \in DOMAIN new : new[i].kind = "field" /\ KeyOf(new[i]) \notin Keys(before)
      /\ Ascending([i \in DOMAIN new |-> KeyOf(new[i])])

BlockInPlace(before, after) ==
  /\ FieldsInPlace(before.body, after.body)
  /\ \A k \in BlockKeys(before.body) \cup BlockKeys(after.body) :
       /\ k \in BlockKeys(before.body) \cap BlockKeys(after.body)
       /\ IF before.kind = "event" /\ k[1] = "step"
          THEN FieldsInPlace(Mapped(before.body, k), Mapped(after.body, k))
          ELSE /\ First(before.body, k) = First(after.body, k)
               /\ Mapped(before.body, k) = Mapped(after.body, k)
  /\ before.name \in {"walk", "walks"} => StepNames(before.body) = StepNames(after.body)

Expressible(prev, cur) ==
  LET stay == SelectSeq(prev.items, LAMBDA e : KeyOf(e) \in Keys(cur.items))
      new  == SubSeq(cur.items, Len(stay) + 1, Len(cur.items))
  IN  /\ cur.name = prev.name
      /\ IsPrefix(prev.imports, cur.imports)
      /\ Len(stay) <= Len(cur.items)
      /\ \A i \in DOMAIN stay : /\ KeyOf(cur.items[i]) = KeyOf(stay[i])
                                /\ BlockInPlace(stay[i], cur.items[i])
      /\ \A i \in DOMAIN new : new[i].kind # "field" /\ KeyOf(new[i]) \notin Keys(prev.items)
      /\ Ascending([i \in DOMAIN new |-> KeyOf(new[i])])

(* A change is appended exactly if it is one the ops can express: the diff *)
(* misses none of those, and replay lets no other through.  Everything     *)
(* else is refused and leaves the file as it was.                          *)
AppendsTheExpressible ==
  [][(Synthesize /\ parses /\ tampers = 0 /\ now # Previous(now, chain)) =>
       LET last == IF chain = <<>> THEN Empty(now.name) ELSE chain[Len(chain)].result
       IN  (outcome' = {"appended"}) <=> Expressible(last, now)]_vars

(* Every change of a file that parses is appended.                         *)
EveryChangeIsAppended ==
  [][(Synthesize /\ parses /\ tampers = 0 /\ now # Previous(now, chain)) =>
       outcome' = {"appended"}]_vars

=============================================================================
