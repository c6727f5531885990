-------------------------- MODULE MCImportLoader --------------------------
(* The instance of ImportLoader: three files, of which a can also be named *)
(* by the relative path it was given on the command line.                  *)
EXTENDS ImportLoader, FiniteSets

CONSTANTS a, b, c, x, y, aRel

MCFile    == {a, b, c}
MCKey     == {a, b, c, aRel}
MCFileOf  == [k \in MCKey |-> IF k = aRel THEN a ELSE k]
MCCanonOf == [f \in MCFile |-> f]
MCAlias   == {x, y}

\* Up to two declarations; if they name files canonically, the second may
\* repeat the first one's alias (a parse error, E0110, that keeps both).
Use(al, paths) == [alias : {al}, path : paths]
MCLists(paths) ==
  {<<>>} \cup {<<u>> : u \in Use(x, paths)}
         \cup {<<u, v>> : u \in Use(x, paths), v \in Use(x, paths) \cup Use(y, paths)}
MCSpelled == {l \in MCLists({a, b, aRel}) : Len(l) = 2 => l[2].alias = y}
MCSources == MCLists(MCFile) \cup MCSpelled

\* The larger worlds: three files named by their canonical paths, no editor.
Wide(d) == \A f \in MCFile : d[f] \in MCLists(MCFile) \cup {Absent, Unreadable}

\* The smaller worlds: two files, named by every spelling, and an editor.
SpelledContents == MCSpelled \cup {Absent, Unreadable}
Edited(d) == d[c] = Absent /\ \A f \in {a, b} : d[f] \in SpelledContents

MCInit == Init /\ (Wide(disk) \/ Edited(disk))

MCSave(f) == Edited(disk) /\ Save(f) /\ Edited(disk')

MCSpec == MCInit /\ [][LoaderStep \/ \E f \in {a, b} : MCSave(f)]_vars /\ WF_vars(LoaderStep)
=============================================================================
