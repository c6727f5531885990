---------------------------- MODULE SliceViewer ----------------------------
(***************************************************************************)
(* The viewer of tui.rs: `memspec view <path>`.  One thread reads keys and *)
(* reloads; the files change under it.                                     *)
(*                                                                         *)
(* What a text holds is left to operators: the rows of the Slots pane, the *)
(* imports, the line of an offset; and so is what the analysis says of     *)
(* the texts of a working set.  A reload reads them twice: load_with_      *)
(* imports reads what is shown, and for the line of each diagnostic        *)
(* compute_line_col reads the file again.  Each is one step.  A selection  *)
(* is a position from 1, or 0 for none.                                    *)
(***************************************************************************)
EXTENDS Naturals, Sequences, FiniteSets

CONSTANTS
  Path,         \* the paths the viewer can meet
  File,         \* those of them that are no directories
  Siblings,     \* the .memspec files of the discovery directory, when they are there
  InOrder(_),   \* a set of paths, sorted
  PathRank(_),  \* the place of a path in that order
  Invocations,  \* what the command line can give: [path, isDir, lists]
  Texts,        \* what a file can hold
  Absent,       \* ... or that it is not there
  NoSet,        \* no working set is loaded
  SlotRow,      \* the rows of the Slots pane
  RowsOf(_),    \* ... those of a text
  ImportsOf(_), \* the paths a text imports
  LineOf(_, _), \* the line of an offset in a text
  Diagnostic,   \* [severity, what, file, offset]
  Analysis(_),  \* the diagnostics of the texts of a working set, file by file
  MaxSaves      \* bound: how many saves the editor makes

\* `lists`: the directory of the path can be read.
Invocation == [path : Path, isDir : BOOLEAN, lists : BOOLEAN]

Has(s, x) == \E i \in DOMAIN s : s[i] = x

WorkingSets == UNION {[S -> Texts \cup {Absent}] : S \in SUBSET Path}

ASSUME ViewerAssumption ==
  /\ Siblings \subseteq File /\ File \subseteq Path
  /\ Invocations \subseteq Invocation
  /\ \A inv \in Invocations : inv.isDir => inv.path \notin File
  /\ \A S \in SUBSET Siblings :
       /\ InOrder(S) \in Seq(S)
       /\ \A p \in S : Has(InOrder(S), p)
       /\ \A i, j \in DOMAIN InOrder(S) : InOrder(S)[i] = InOrder(S)[j] => i = j
  /\ Absent \notin Texts
  /\ \A t \in Texts : RowsOf(t) \in Seq(SlotRow) /\ ImportsOf(t) \subseteq File
  /\ \A p, q \in Path : PathRank(p) \in Nat /\ (PathRank(p) = PathRank(q) => p = q)
  /\ \A w \in WorkingSets :
       /\ Analysis(w) \in Seq(Diagnostic)
       /\ \A i \in DOMAIN Analysis(w) :
            /\ Analysis(w)[i].severity \in Nat
            /\ Analysis(w)[i].file \in Path
            /\ \A t \in Texts : LineOf(t, Analysis(w)[i].offset) \in Nat
  /\ MaxSaves \in Nat

VARIABLES
  disk,        \* what each path holds
  saves,       \* how many saves the editor made
  fresh,       \* nobody saved since the last reload began
  phase,       \* "loading", "loaded", "idle" or "quit"
  discovered,  \* the paths of the Slices pane
  activeRoot,  \* the root whose working set is shown
  ws,          \* the texts of the working set, by path
  focused,     \* the pane the keys go to
  selected,    \* the selection of each pane
  slotRows,    \* the rows of the Slots pane
  diagRows     \* the rows of the Diagnostics pane

vars == <<disk, saves, fresh, phase, discovered, activeRoot, ws, focused, selected,
          slotRows, diagRows>>

Pane == {"slices", "slots", "diagnostics"}

-----------------------------------------------------------------------------
(* State::new: discover_siblings. *)

Found(inv, d) == InOrder(IF inv.lists THEN {p \in Siblings : d[p] # Absent} ELSE {})

\* A file that is not found is listed all the same, first.
Discovered(inv, d) ==
  IF inv.isDir \/ Has(Found(inv, d), inv.path) THEN Found(inv, d)
  ELSE <<inv.path>> \o Found(inv, d)

FirstRoot(inv, d) ==
  IF inv.isDir /\ Found(inv, d) # <<>> THEN Found(inv, d)[1] ELSE inv.path

\* The place of x in s, the first one if it is nowhere; 0 in an empty list.
PositionOf(s, x) ==
  IF s = <<>> THEN 0
  ELSE IF Has(s, x) THEN CHOOSE i \in DOMAIN s : s[i] = x
  ELSE 1

Init ==
  /\ \E there \in [File -> Texts \cup {Absent}] :
       disk = [p \in Path |-> IF p \in File THEN there[p] ELSE Absent]
  /\ saves = 0
  /\ fresh = FALSE
  /\ phase = "loading"
  /\ \E inv \in Invocations :
       /\ discovered = Discovered(inv, disk)
       /\ activeRoot = FirstRoot(inv, disk)
  /\ ws = NoSet
  /\ focused = "slices"
  /\ selected = [p \in Pane |-> IF p = "slices" THEN PositionOf(discovered, activeRoot) ELSE 0]
  /\ slotRows = <<>>
  /\ diagRows = <<>>

-----------------------------------------------------------------------------
(* State::reload. *)

\* What a load from p reads: the root, and every readable file it leads to.
Closed(C, d) == \A m \in C : d[m] # Absent => {q \in ImportsOf(d[m]) : d[q] # Absent} \subseteq C
Reached(p, d) == {q \in Path : \A C \in SUBSET Path : (p \in C /\ Closed(C, d)) => q \in C}

Load ==
  /\ phase = "loading"
  /\ ws' = [q \in Reached(activeRoot, disk) |-> disk[q]]
  /\ fresh' = TRUE
  /\ phase' = "loaded"
  /\ UNCHANGED <<disk, saves, discovered, activeRoot, focused, selected, slotRows, diagRows>>

\* compute_slot_rows, of current_slice: the loaded file that is the root.
CurrentRows == IF ws[activeRoot] = Absent THEN <<>> ELSE RowsOf(ws[activeRoot])

\* compute_line_col: 0 if the file cannot be read any more.
LineNow(file, offset) == IF disk[file] = Absent THEN 0 ELSE LineOf(disk[file], offset)

DiagRow(d) ==
  [severity |-> d.severity, what |-> d.what, file |-> d.file, line |-> LineNow(d.file, d.offset)]

\* A bug to find: the rows are ordered by file before they are by severity.
Precedes_ByFile(r, s) ==
  \/ PathRank(r.file) < PathRank(s.file)
  \/ r.file = s.file /\ r.line < s.line

\* The order of rows: by severity, then file, then line.
Precedes(r, s) ==
  \/ r.severity < s.severity
  \/ r.severity = s.severity /\ PathRank(r.file) < PathRank(s.file)
  \/ r.severity = s.severity /\ r.file = s.file /\ r.line < s.line

\* sort_by, which keeps the order of equals.
Before(rows, i, j) == Precedes(rows[i], rows[j]) \/ (~Precedes(rows[j], rows[i]) /\ i < j)
Sorted(rows) ==
  [n \in DOMAIN rows |->
     rows[CHOOSE i \in DOMAIN rows :
            Cardinality({j \in DOMAIN rows : Before(rows, j, i)}) = n - 1]]

CurrentDiags ==
  LET found == Analysis(ws) IN Sorted([i \in DOMAIN found |-> DiagRow(found[i])])

\* A bug to find: a list that changed keeps its selection.
Reselected_Keeps(old, rows) == old

\* The selection of a list that was rebuilt.
Reselected(old, rows) == IF rows = <<>> THEN 0 ELSE 1

Rebuild ==
  /\ phase = "loaded"
  /\ slotRows' = CurrentRows
  /\ diagRows' = CurrentDiags
  /\ selected' = [selected EXCEPT !["slots"] = Reselected(@, slotRows'),
                                  !["diagnostics"] = Reselected(@, diagRows')]
  /\ phase' = "idle"
  /\ UNCHANGED <<disk, saves, fresh, discovered, activeRoot, ws, focused>>

-----------------------------------------------------------------------------
(* handle_key. *)

Quit ==
  /\ phase = "idle"
  /\ phase' = "quit"
  /\ UNCHANGED <<disk, saves, fresh, discovered, activeRoot, ws, focused, selected, slotRows, diagRows>>

FocusOn(pane) ==
  /\ phase = "idle"
  /\ focused' = pane
  /\ UNCHANGED <<disk, saves, fresh, phase, discovered, activeRoot, ws, selected, slotRows, diagRows>>

\* The keys 1, 2 and 3; Tab; and BackTab.
Digit == \E pane \in Pane : FocusOn(pane)
Tab ==
  FocusOn(CASE focused = "slices" -> "slots"
            [] focused = "slots"  -> "diagnostics"
            [] focused = "diagnostics" -> "slices")
BackTab ==
  FocusOn(CASE focused = "slices" -> "diagnostics"
            [] focused = "slots"  -> "slices"
            [] focused = "diagnostics" -> "slots")

Reload ==
  /\ phase = "idle"
  /\ phase' = "loading"
  /\ UNCHANGED <<disk, saves, fresh, discovered, activeRoot, ws, focused, selected, slotRows, diagRows>>

\* How many rows a pane has.
Rows(pane) ==
  CASE pane = "slices" -> Len(discovered)
    [] pane = "slots"  -> Len(slotRows)
    [] pane = "diagnostics" -> Len(diagRows)

\* set_active_root: the slice under the cursor is the one shown.
Shown(n) == activeRoot' = discovered[n] /\ phase' = "loading"

\* apply_selection
Select(n) ==
  /\ selected' = [selected EXCEPT ![focused] = n]
  /\ IF focused = "slices" THEN Shown(n) ELSE UNCHANGED <<activeRoot, phase>>
  /\ UNCHANGED <<disk, saves, fresh, discovered, ws, focused, slotRows, diagRows>>

\* The position below: the last one stays, and no selection becomes the first.
Below(n, rows) == IF n >= rows THEN rows ELSE n + 1
Above(n) == IF n <= 1 THEN 1 ELSE n - 1

HasRows == phase = "idle" /\ Rows(focused) > 0

Down  == HasRows /\ Select(Below(selected[focused], Rows(focused)))
Up    == HasRows /\ Select(Above(selected[focused]))
First == HasRows /\ Select(1)
End   == HasRows /\ Select(Rows(focused))

-----------------------------------------------------------------------------
Save(p) ==
  /\ phase # "quit"
  /\ saves < MaxSaves
  /\ \E t \in (Texts \cup {Absent}) \ {disk[p]} : disk' = [disk EXCEPT ![p] = t]
  /\ saves' = saves + 1
  /\ fresh' = FALSE
  /\ UNCHANGED <<phase, discovered, activeRoot, ws, focused, selected, slotRows, diagRows>>

Viewer ==
  \/ Load \/ Rebuild
  \/ Quit \/ Digit \/ Tab \/ BackTab \/ Reload
  \/ Down \/ Up \/ First \/ End

Next == Viewer \/ \E p \in File : Save(p)

Spec == Init /\ [][Next]_vars

-----------------------------------------------------------------------------
(* Properties. *)

(* Every cursor is on a row of its list, or nowhere if the list is empty:  *)
(* draw and detail index the lists with it.  And the cursor of the Slices  *)
(* pane is on the slice that is shown or about to be, however lists grew,  *)
(* shrank or vanished since.                                               *)
CursorsFit ==
  /\ \A pane \in Pane :
       /\ selected[pane] \in 0..Rows(pane)
       /\ selected[pane] = 0 <=> Rows(pane) = 0
  /\ discovered # <<>> => discovered[selected["slices"]] = activeRoot

\* What the row of a diagnostic of the disk should say.
Said(d) ==
  [severity |-> d.severity, what |-> d.what, file |-> d.file,
   line |-> IF disk[d.file] = Absent THEN 0 ELSE LineOf(disk[d.file], d.offset)]

(* Unless somebody saved since the last reload began, the screen shows     *)
(* what is on the disk, under whatever root the keys have chosen: the      *)
(* slots of that root, and the diagnostics of all it leads to with their   *)
(* lines, no warning above an error.                                       *)
ScreenIsTheDisk ==
  (phase = "idle" /\ fresh) =>
    LET there == Analysis([q \in Reached(activeRoot, disk) |-> disk[q]]) IN
    /\ slotRows = IF disk[activeRoot] = Absent THEN <<>> ELSE RowsOf(disk[activeRoot])
    /\ Len(diagRows) = Len(there)
    /\ \A i \in DOMAIN there : Has(diagRows, Said(there[i]))
    /\ \A i, j \in DOMAIN diagRows : i < j => diagRows[i].severity <= diagRows[j].severity

=============================================================================
