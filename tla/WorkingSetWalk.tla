-------------------------- MODULE WorkingSetWalk --------------------------
(***************************************************************************)
(* `memspec walk` over a file and all it imports: the loader of            *)
(* ImportLoader, then analyze_working_set (analysis.rs) with the passes of *)
(* SliceAnalysis on each loaded file, the resolution of qualified          *)
(* references (cross_slice.rs), the composition warnings (composition.rs), *)
(* the suppression of W0270, and the exit code (main.rs).                  *)
(*                                                                         *)
(* What a source holds besides its `use` declarations is in `text`: the    *)
(* blocks of its slice, and the codes of its parse errors.  A value        *)
(* `alias.id` stands by itself in a field.  Nobody saves during a walk.    *)
(***************************************************************************)
EXTENDS ImportLoader, SliceAnalysis

CONSTANTS
  Worlds,    \* what the disk can hold: [disk, text]
  NoReport   \* the walk has not reported

VARIABLES
  text,      \* [slice, faults] of each file
  report     \* the diagnostics by path, as sets

walkVars == <<disk, saves, pc, files, visited, chain, stack, target, text, report>>

Qualified(alias, id) == Value("qualified", <<alias, id>>)

\* The parse errors of a list of declarations: an alias used twice.
AliasFaults(imports) ==
  IF \E u, v \in DOMAIN imports : u # v /\ imports[u].alias = imports[v].alias
  THEN {"E0110"} ELSE {}

\* A source that is no .memspec is a flood of E0003 and has no slice.
NotAMemspec(t) == "E0003" \in t.faults

TextOf(i) == text[FileOf[files[i].key]]
HasSlice(i) == ~files[i].rootError /\ ~NotAMemspec(TextOf(i))
SliceOf(i) == IF HasSlice(i) THEN TextOf(i).slice ELSE <<>>

-----------------------------------------------------------------------------
(* What the loader and the single-file passes say of file i. *)

LoaderDiagnostics(i) ==
  (IF files[i].rootError THEN {Diag("E0400", <<>>, files[i].key)}
   ELSE {Diag(code, <<>>, NoName) : code \in TextOf(i).faults \cup AliasFaults(files[i].imports)})
  \cup {Diag(files[i].uses[u].as, <<u>>, files[i].uses[u].key) :
          u \in {v \in DOMAIN files[i].uses : files[i].uses[v].as \in {"E0400", "E0401"}}}

SingleFile(i) ==
  IF ~HasSlice(i) THEN {}
  ELSE Range(Analyze(SliceOf(i))) \cup {Diag("W0270", <<>>, x) : x \in UnusedCells(SliceOf(i))}

-----------------------------------------------------------------------------
(* Cross-slice resolution. *)

QualifiedIn(b) == {b.fields[key].of : key \in {k \in DOMAIN b.fields : b.fields[k].is = "qualified"}}

\* The references <<alias, id>> of a slice, wherever they are.
QualifiedRefs(slice) ==
  UNION {QualifiedIn(b) \cup UNION {QualifiedIn(x) : x \in Range(b.blocks)} : b \in Range(slice)}

\* The ids a slice gives to other slices.
Declared(slice) ==
  {b.id : b \in {x \in Range(slice) : x.kind \in SlotKinds /\ x.id # NoName}}

At(key) == CHOOSE j \in Index : files[j].key = key

\* A bug to find: an alias that leads nowhere is passed over.
UnresolvedRef_NoAlias(i, r) ==
  LET to == files[i].resolved[r[1]]
  IN  IF to # NoKey /\ r[2] \notin Declared(SliceOf(At(to))) THEN {Diag("E0403", <<>>, r)} ELSE {}

UnresolvedRef(i, r) ==
  LET to == files[i].resolved[r[1]]
  IN  IF to = NoKey THEN {Diag("E0402", <<>>, r)}
      ELSE IF r[2] \notin Declared(SliceOf(At(to))) THEN {Diag("E0403", <<>>, r)}
      ELSE {}

CrossSlice(i) == UNION {UnresolvedRef(i, r) : r \in QualifiedRefs(SliceOf(i))}

\* The ids of file j that some file refers to.
CrossReferenced(j) ==
  UNION {{r[2] : r \in {q \in QualifiedRefs(SliceOf(i)) : files[i].resolved[q[1]] = files[j].key}} :
           i \in Index}

-----------------------------------------------------------------------------
(* Composition warnings. *)

\* A bug to find: the nested blocks are not visited.
UsedAliases_TopOnly(i) == UNION {{r[1] : r \in QualifiedIn(b)} : b \in Range(SliceOf(i))}

UsedAliases(i) == {r[1] : r \in QualifiedRefs(SliceOf(i))}

UnusedImports(i) ==
  {Diag("W0273", <<u>>, files[i].imports[u].alias) :
     u \in {v \in DOMAIN files[i].imports : files[i].imports[v].alias \notin UsedAliases(i)}}

\* A declaration whose alias leads where that of an earlier one leads.
DuplicateTargets(i) ==
  LET To(u) == files[i].resolved[files[i].imports[u].alias]
  IN  {Diag("W0274", <<u>>, To(u)) :
         u \in {v \in DOMAIN files[i].imports :
                  To(v) # NoKey /\ \E w \in 1..(v - 1) : To(w) = To(v)}}

Shadowed(i) ==
  {Diag("W0275", <<>>, r) :
     r \in {q \in QualifiedRefs(SliceOf(i)) :
              /\ q[2] \in {b.id : b \in Range(SliceOf(i))}
              /\ files[i].resolved[q[1]] # NoKey
              /\ q[2] \in {b.id : b \in Range(SliceOf(At(files[i].resolved[q[1]])))}}}

Composition(i) ==
  IF HasSlice(i) THEN UnusedImports(i) \cup DuplicateTargets(i) \cup Shadowed(i) ELSE {}

-----------------------------------------------------------------------------
(* The report. *)

\* A bug to find: W0270 is suppressed by a reference to the id in any file.
Suppressed_ById(j, d) ==
  d.code = "W0270" /\ d.arg \in UNION {CrossReferenced(i) : i \in Index}

Suppressed(j, d) == d.code = "W0270" /\ d.arg \in CrossReferenced(j)

Diagnostics(j) ==
  IF ~files[j].rootError /\ NotAMemspec(TextOf(j)) THEN {Diag("E0006", <<>>, NoName)}
  ELSE {d \in LoaderDiagnostics(j) \cup SingleFile(j) \cup CrossSlice(j) \cup Composition(j) :
          ~Suppressed(j, d)}

Walk ==
  /\ pc = "done"
  /\ report = NoReport
  /\ report' = [k \in {files[i].key : i \in Index} |-> Diagnostics(At(k))]
  /\ UNCHANGED <<vars, text>>

ParseClass ==
  {"E0001", "E0002", "E0003", "E0004", "E0005", "E0006", "E0100", "E0101", "E0102",
   "E0103", "E0104", "E0105", "E0106", "E0107", "E0108", "E0109", "E0110"}
Warning == {"W0270", "W0273", "W0274", "W0275"}

\* Paths are canonical ones, a list of declarations is no mark for a file
\* without one, and a text is what the parser makes of one.
ASSUME WalkAssumption ==
  /\ \A k \in Key : CanonOf[FileOf[k]] = k
  /\ Absent \notin Seq(Import) /\ Unreadable \notin Seq(Import)
  /\ \A w \in Worlds, f \in File :
       /\ IsSlice(w.text[f].slice)
       /\ QualifiedRefs(w.text[f].slice) \subseteq Alias \X Range(Order)
       /\ w.text[f].faults \subseteq ParseClass

\* A bug to find: the exit code is that of the root's diagnostics.
Reported_RootOnly(r) == {d.code : d \in r[Root]}
Reported(r) == {d.code : d \in UNION {r[k] : k \in DOMAIN r}}

ExitCode ==
  IF Reported(report) \cap ParseClass # {} THEN 2
  ELSE IF Reported(report) \ Warning # {} THEN 3
  ELSE 0

WalkInit ==
  /\ \E w \in Worlds : disk = w.disk /\ text = w.text
  /\ Init
  /\ report = NoReport

WalkNext ==
  \/ LoaderStep /\ UNCHANGED <<text, report>>
  \/ Walk

WalkSpec == WalkInit /\ [][WalkNext]_walkVars

-----------------------------------------------------------------------------
(* Properties, said of the disk and not of the working set. *)

HasReported == report # NoReport

ReadableOn(d, k) == d[FileOf[k]] \notin {Absent, Unreadable}
Imports(d, k) == Range(d[FileOf[k]])
Targets(d, k) == IF ReadableOn(d, k) THEN {u.path : u \in Imports(d, k)} ELSE {}

\* The paths the root leads to.
Reached(d) ==
  {k \in Key : \A C \in SUBSET Key :
     (Root \in C /\ \A m \in C : Targets(d, m) \subseteq C) => k \in C}

\* A reference of the file at k leads, through a declaration of that file, to
\* a block of the file it names.
Leads(d, k, r) ==
  \E u \in Imports(d, k) :
    /\ u.alias = r[1]
    /\ ReadableOn(d, u.path)
    /\ ~NotAMemspec(text[FileOf[u.path]])
    /\ r[2] \in Declared(text[FileOf[u.path]].slice)

\* A disk on which all is well, as far as the root can see.
Whole(d) ==
  /\ \A k \in Reached(d) :
       /\ ReadableOn(d, k)
       /\ text[FileOf[k]].faults = {} /\ AliasFaults(d[FileOf[k]]) = {}
       /\ Analyze(text[FileOf[k]].slice) = <<>>
       /\ \A r \in QualifiedRefs(text[FileOf[k]].slice) : Leads(d, k, r)
  /\ \A S \in (SUBSET Reached(d)) \ {{}} : \E k \in S : Targets(d, k) \cap S = {}

(* The walk exits with 0 if and only if every file the root leads to is    *)
(* there, parses and passes by itself, imports form no cycle, and every    *)
(* qualified reference leads through its alias to a declaration.           *)
CleanIffWhole == HasReported => (ExitCode = 0 <=> Whole(disk))

(* In a clean walk W0270 is said of exactly the cells that no file, the    *)
(* one that declares them or another, refers to.                           *)
UnusedCellsAreUnused ==
  (HasReported /\ ExitCode = 0) =>
    \A k \in Reached(disk) :
      {d.arg : d \in {e \in report[k] : e.code = "W0270"}} =
        {x \in Ids(text[FileOf[k]].slice, "cell") :
           /\ x \notin ReferencedCells(text[FileOf[k]].slice)
           /\ \A m \in Reached(disk), u \in UNION {Imports(disk, l) : l \in Reached(disk)} :
                ~(u \in Imports(disk, m) /\ u.path = k
                    /\ <<u.alias, x>> \in QualifiedRefs(text[FileOf[m]].slice))}

\* The disk without the u-th declaration of the file at k.
Removed(k, u) ==
  [disk EXCEPT ![FileOf[k]] =
     Only(@, Range(@) \ {disk[FileOf[k]][u]})]

(* An import called unused can be removed, as the hint says: a clean disk  *)
(* stays clean.                                                            *)
UnusedImportsCanGo ==
  (HasReported /\ ExitCode = 0) =>
    \A k \in DOMAIN report : \A d \in report[k] :
      d.code = "W0273" => Whole(Removed(k, d.at[1]))

(* No parse error of a loaded file is lost between the load and the exit   *)
(* code: it is 2 exactly if one of them has one.                           *)
ParseErrorsReachTheExitCode ==
  HasReported =>
    (ExitCode = 2 <=>
       \E i \in Index : /\ ~files[i].rootError
                        /\ TextOf(i).faults \cup AliasFaults(files[i].imports) # {})

=============================================================================
