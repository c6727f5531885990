-------------------------- MODULE MCRevisionChain --------------------------
(* Slices of up to three blocks: cells with up to two fields, an event with *)
(* up to two steps, imports, and every way two versions of them can differ. *)
EXTENDS RevisionChain

CONSTANTS v, w

MCAlphabet == <<"c", "cell", "d", "e", "event", "field", "k", "m", "meta", "n",
                "s", "step", "t", "walk">>

F(name, value)      == [kind |-> "field", name |-> name, body |-> value]
B(kind, name, body) == [kind |-> kind, name |-> name, body |-> body]
S(name, body)       == B("step", name, body)
E(body)             == B("event", "e", body)
C(body)             == B("cell", "c", body)
D                   == B("cell", "d", <<>>)

Use(alias, value) == [alias |-> alias, path |-> value]
P(name, imports, items) == [name |-> name, imports |-> imports, items |-> items]

\* The bodies of one cell: fields changed, removed, added before or after.
CellBodies ==
  {<<>>, <<F("k", v)>>, <<F("k", w)>>, <<F("n", v)>>,
   <<F("k", v), F("n", v)>>, <<F("n", v), F("k", v)>>, <<F("m", v), F("n", v), F("k", v)>>}

\* The bodies of one event: steps swapped, added, removed, changed inside;
\* a field between them.
EventBodies ==
  {<<S("s", <<>>), S("t", <<>>)>>, <<S("t", <<>>), S("s", <<>>)>>, <<S("s", <<>>)>>,
   <<S("s", <<F("k", v)>>), S("t", <<>>)>>, <<S("t", <<F("n", w)>>), S("s", <<F("k", w)>>)>>,
   <<F("k", v), S("t", <<>>), S("s", <<>>)>>, <<S("t", <<>>), F("k", w), S("s", <<>>)>>,
   <<S("t", <<>>), S("s", <<>>), F("k", v)>>}

Items ==
  {<<>>, <<D>>, <<F("k", v)>>}
    \cup {<<C(b)>> : b \in CellBodies} \cup {<<E(b)>> : b \in EventBodies}
    \cup {<<C(<<>>), D>>, <<D, C(<<>>)>>, <<D, C(<<F("k", v)>>)>>, <<C(<<>>), C(<<F("k", v)>>)>>,
          <<C(<<>>), D, E(<<>>)>>, <<E(<<>>), C(<<>>)>>, <<C(<<>>), E(<<>>)>>}
    \cup {<<B("meta", "m", <<S("s", x)>>)>> : x \in {<<>>, <<F("k", v)>>}}
    \cup {<<B("event", "walk", <<S(x[1], <<>>), S(x[2], <<>>)>>)>> : x \in {<<"s", "t">>, <<"t", "s">>}}

Plain == {P("n", <<>>, items) : items \in Items}
Imported ==
  {P("n", imports, <<C(<<>>)>>) :
     imports \in {<<Use("c", v)>>, <<Use("c", w)>>, <<Use("d", w)>>, <<Use("c", v), Use("d", w)>>,
                  <<Use("d", w), Use("c", v)>>}}
Renamed == {P("m", <<>>, <<>>), P("m", <<>>, <<D>>)}

MCProjections == Plain \cup Imported \cup Renamed

\* Fewer, for longer histories and hands in the revisions block.
MCFewProjections ==
  {P("n", <<>>, items) : items \in {<<>>, <<C(<<F("k", v)>>)>>, <<D, C(<<>>)>>, <<D>>}}
    \cup {P("m", <<>>, <<D>>)}

\* Two edits over all versions; a third, and hands in the block, over few.
AmongFew(p, c) ==
  /\ p \in MCFewProjections
  /\ \A i \in DOMAIN c : c[i].result \in MCFewProjections

MCEdit ==
  /\ Edit
  /\ (edits < 2 /\ tampers = 0) \/ (AmongFew(now, chain) /\ AmongFew(now', chain'))

MCTamper == AmongFew(now, chain) /\ Tamper

MCSpec == Init /\ [][MCEdit \/ MCTamper \/ Synthesize]_vars
=============================================================================
