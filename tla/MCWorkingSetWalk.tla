------------------------- MODULE MCWorkingSetWalk -------------------------
(* Two files with every pair of declarations and eight texts, and a third  *)
(* they may share.                                                         *)
EXTENDS WorkingSetWalk, TLC

CONSTANTS fa, fb, fc, ax, ay, cell, other, here, there

MCFile    == {fa, fb, fc}
MCFileOf  == [k \in MCFile |-> k]
MCOrder   == <<cell, other, here, there>>
MCAlias   == {ax, ay}

Use(al) == [alias : {al}, path : MCFile]
MCSources ==
  {<<>>} \cup {<<u>> : u \in Use(ax)} \cup {<<u, v>> : u \in Use(ax), v \in Use(ax) \cup Use(ay)}

Block(kind, id, fields, blocks) ==
  [kind |-> kind, id |-> id, numbered |-> FALSE, fields |-> fields, blocks |-> blocks]
Text(slice, faults) == [slice |-> slice, faults |-> faults]

Cell(id) == Block("cell", id, [type |-> Other, mutable |-> True], <<>>)
Derived(id, from) == Block("derived", id, [derives_from |-> from, derivation |-> Other], <<>>)
Event(at) ==
  Block("event", here, [mutates |-> List(<<>>)],
        <<Block("step", there, [op |-> Other, fallible |-> True, mutates |-> at], <<>>)>>)

MCTexts ==
  {Text(<<Cell(cell)>>, {}),
   Text(<<Cell(cell), Derived(here, Ident(cell))>>, {}),
   Text(<<Derived(here, Qualified(ax, cell)), Derived(there, Qualified(ay, cell))>>, {}),
   Text(<<Cell(cell), Derived(here, Qualified(ax, cell))>>, {}),
   Text(<<Cell(other), Event(Qualified(ax, cell))>>, {}),
   Text(<<>>, {}),
   Text(<<Cell(cell)>>, {"E0100"}),
   Text(<<>>, {"E0003"})}

\* A text without a slice declares no imports.
Fits(content, t) == content # <<>> => ~NotAMemspec(t)

\* What fb holds is of interest if fa imports it.
OfB(content) ==
  IF content \in {Absent, Unreadable} \/ \A u \in DOMAIN content : content[u].path # fb
  THEN {<<Absent, Text(<<>>, {})>>}
  ELSE {w \in ({Absent} \cup {s \in MCSources : \A u \in DOMAIN s : s[u].path # fb}) \X MCTexts :
          Fits(w[1], w[2])}
TextsOfA(content) ==
  IF content \in {Absent, Unreadable} THEN {Text(<<>>, {})}
  ELSE {t \in MCTexts : Fits(content, t)}

MCWorlds ==
  UNION {
    {[disk |-> (fa :> content) @@ (fb :> w[1]) @@ (fc :> <<>>),
      text |-> (fa :> t) @@ (fb :> w[2]) @@ (fc :> Text(<<Cell(cell)>>, {}))] :
       t \in TextsOfA(content), w \in OfB(content)} : content \in MCSources \cup {Absent, Unreadable}}
=============================================================================
