----------------------------- MODULE Authoring -----------------------------
(***************************************************************************)
(* `memspec suggest` (analysis/suggest.rs) and the author, person or       *)
(* agent, who works in a loop with it: ask for the next gap, paste the     *)
(* template where suggest says, ask again, until the slice is              *)
(* walk-complete.                                                          *)
(*                                                                         *)
(* The author replaces the placeholders of a template by ids that fit.     *)
(* Where the same template comes back the author goes by the message, and  *)
(* mends by hand what comes without a template; nothing else changes.      *)
(***************************************************************************)
EXTENDS SliceAnalysis, TLC

CONSTANTS
  Slices,   \* the slices the author may start from
  NoReport  \* nothing was asked about the slice as it is

VARIABLES
  slice,    \* the slice in the author's file
  report    \* what suggest said about it

vars == <<slice, report>>

Block(kind, id, fields, blocks) ==
  [kind |-> kind, id |-> id, numbered |-> FALSE, fields |-> fields, blocks |-> blocks]
None == <<>>

\* A field outside of all blocks.
FieldOfSlice == Block("field", NoName, None, None)

ASSUME AuthoringAssumption == \A s \in Slices : IsSlice(s)

-----------------------------------------------------------------------------
(* suggest. *)

\* The codes that have a template, the most blocking first.
Priority == <<"E0201", "E0203", "E0200", "E0256", "E0255", "E0300">>

Codes(diags) == {diags[i].code : i \in DOMAIN diags}
FirstWith(diags, code) == diags[SelectInSeq(diags, LAMBDA d : d.code = code)]

Report(status, template, gap) == [status |-> status, template |-> template, gap |-> gap]

Suggestion(s) ==
  LET diags == Analyze(s)
      k     == SelectInSeq(Priority, LAMBDA code : code \in Codes(diags))
  IN  IF k # 0 THEN Report("gap", TRUE, FirstWith(diags, Priority[k]))
      ELSE IF diags # <<>> THEN Report("gap", FALSE, diags[1])
      ELSE Report("walk_complete", FALSE, NoReport)

\* A template goes after the last block of its kind that has an id, or at the end.
PlaceFor(s, kind) ==
  LET last == SelectLastInSeq(s, LAMBDA x : x.kind = kind /\ x.id # NoName)
  IN  IF last = 0 THEN Len(s) + 1 ELSE last + 1

InsertAfterLast(s, b) == InsertAt(s, PlaceFor(s, b.kind), b)

CellTemplate == Block("cell", "rule_state", [type |-> Ident("boolean"), mutable |-> True], None)

KillTestTemplate(kt, fs) ==
  Block("kill_test", kt,
        [forbidden |-> Ident(fs), kind |-> Ident("structural"), assertion |-> Other,
         status |-> Ident("declared")], None)

ForbiddenStateTemplate(fs, kt) ==
  Block("forbidden_state", fs,
        [description |-> Other, predicate |-> Other,
         reachability |-> Ident("currently_reachable"), kill_test |-> Ident(kt)], None)

EventAtomicity(s, event) ==
  LET k == SelectInSeq(s, LAMBDA b : /\ b.kind = "event" /\ b.id = event
                                     /\ IdentOf(b, "atomicity") # NoName)
  IN  IF k = 0 THEN "none" ELSE IdentOf(s[k], "atomicity")

\* A bug to find: the template does not say which event it is for.
PostFailureTemplate_NoEvent(s, event, step) ==
  Block("post_failure", "pf_" \o event \o "_" \o step \o "_fail",
        [step |-> Ident(step), outcome |-> Other, result |-> Ident("rejected")],
        [k \in 1..3 |-> Block(CellsAfter[k], NoName, <<>>, None)])

PostFailureTemplate(s, event, step) ==
  LET after == IF EventAtomicity(s, event) \in {"transactional", "db_transaction"}
               THEN SubSeq(CellsAfter, 2, 3) ELSE SubSeq(CellsAfter, 1, 1)
  IN  Block("post_failure", "pf_" \o event \o "_" \o step \o "_fail",
            [event |-> Ident(event), step |-> Ident(step), outcome |-> Other, result |-> Ident("rejected")],
            [k \in DOMAIN after |-> Block(after[k], NoName, <<>>, None)])

-----------------------------------------------------------------------------
(* The author. *)

Init ==
  /\ slice \in Slices
  /\ report = NoReport

Ask ==
  /\ report = NoReport
  /\ report' = Suggestion(slice)
  /\ UNCHANGED slice

gap == report.gap

Answering(code) ==
  /\ report # NoReport
  /\ report.status = "gap"
  /\ report.template
  /\ gap.code = code
  /\ report' = NoReport

AddCell == Answering("E0201") /\ slice' = Append(slice, CellTemplate)

\* The block, or the step, a diagnostic is on; and the slice with another one
\* in its place.
At(s, at) == IF Len(at) = 1 THEN s[at[1]] ELSE s[at[1]].blocks[at[2]]
With(s, at, b) ==
  IF Len(at) = 1 THEN [s EXCEPT ![at[1]] = b] ELSE [s EXCEPT ![at[1]].blocks[at[2]] = b]
Without(s, at) ==
  IF Len(at) = 1 THEN RemoveAt(s, at[1])
  ELSE [s EXCEPT ![at[1]].blocks = RemoveAt(@, at[2])]

SetField(s, at, key, value) ==
  LET b == At(s, at)
  IN  With(s, at, [b EXCEPT !.fields =
        [k \in DOMAIN b.fields \cup {key} |-> IF k = key THEN value ELSE b.fields[k]]])

AddBlocks(s, at, kinds) ==
  LET b == At(s, at)
  IN  With(s, at, [b EXCEPT !.blocks =
        @ \o [k \in DOMAIN kinds |-> Block(kinds[k], NoName, <<>>, None)]])

\* An id nothing in the slice has.
AllIds(s) == {b.id : b \in Range(s)} \cup UNION {{x.id : x \in Range(b.blocks)} : b \in Range(s)}
NewId(s) == Order[SelectInSeq(Order, LAMBDA x : x \notin AllIds(s))]

\* The values that fit a field.
Values(s, b, key) ==
  CASE key \in {"derives_from", "over"} ->
         {List(<<x>>) : x \in Ids(s, "cell") \cup Ids(s, "derived")}
    [] key = "mutates"   -> {List(<<x>>) : x \in Ids(s, "cell")}
    [] key = "event"     -> {Ident(x) : x \in Ids(s, "event")}
    [] key = "step"      ->
         {Ident(x) : x \in UNION {StepIds(s[i]) : i \in Range(Table(s, "event"))}}
    [] key = "forbidden" -> {Ident(x) : x \in Ids(s, "forbidden_state")}
    [] key = "kill_test" -> {Ident(x) : x \in Ids(s, "kill_test") \cup {"TODO"}}
    [] key = "fallible"  -> {True, Other}
    [] OTHER             -> {Other}

\* The template of a missing field is for the end of the slice, whatever block
\* it is missing from; the author pastes it there once.
PasteField ==
  /\ Answering("E0200")
  /\ \A b \in Range(slice) : b.kind # "field"
  /\ slice' = Append(slice, FieldOfSlice)

\* By the message: the field goes into its block.  A block nothing fits is
\* given up.
FillField ==
  /\ Answering("E0200")
  /\ gap.arg \notin {"name", "cells_after"}
  /\ LET fitting == Values(slice, At(slice, gap.at), gap.arg)
     IN  \/ fitting = {} /\ slice' = Without(slice, gap.at)
         \/ \E value \in fitting : slice' = SetField(slice, gap.at, gap.arg, value)

\* What is missing is not a field; the template says `<field>: <value>`.
FillByMessage ==
  /\ Answering("E0200")
  /\ \/ /\ gap.arg = "name"
        /\ slice' = With(slice, gap.at, [At(slice, gap.at) EXCEPT !.id = NewId(slice)])
     \/ /\ gap.arg = "cells_after"
        /\ slice' = AddBlocks(slice, gap.at, <<"cells_after">>)

\* A bug to find: the template is for another field.
FillBody_WrongField == Answering("E0203") /\ slice' = SetField(slice, gap.at, "description", Other)

FillBody == Answering("E0203") /\ slice' = SetField(slice, gap.at, "predicate", Other)

\* The block is there already, behind another one that has its id.
IsHidden(kind) == \E b \in Range(slice) : b.kind = kind /\ b.id = gap.arg

AddKillTest ==
  /\ Answering("E0256")
  /\ ~IsHidden("kill_test")
  /\ slice' = InsertAfterLast(slice, KillTestTemplate(gap.arg, slice[gap.at[1]].id))

AddForbiddenState ==
  /\ Answering("E0255")
  /\ ~IsHidden("forbidden_state")
  /\ \E kt \in Ids(slice, "kill_test") \cup {"TODO"} :
       slice' = InsertAfterLast(slice, ForbiddenStateTemplate(gap.arg, kt))

\* The block in front gets another id.
FreeId ==
  /\ \/ Answering("E0256") /\ IsHidden("kill_test")
     \/ Answering("E0255") /\ IsHidden("forbidden_state")
  /\ slice' = [slice EXCEPT ![Lookup(slice, gap.arg)].id = NewId(slice)]

AddPostFailure ==
  /\ Answering("E0300")
  /\ slice' = InsertAfterLast(slice, PostFailureTemplate(slice, gap.arg[1], gap.arg[2]))

\* What has no template: an id is freed, a dangling reference given up or
\* declared, a kill test taken away from the second that claims it.
Mended(s, d) ==
  CASE d.code = "E0202" ->
         With(s, d.at, [At(s, d.at) EXCEPT !.blocks =
           Append(@, Block("step", NewId(s), [op |-> Other, fallible |-> True], None))])
    [] d.code = "E0252" -> Append(s, [CellTemplate EXCEPT !.id = d.arg])
    [] d.code = "E0257" -> SetField(s, <<Lookup(s, d.arg)>>, "kill_test", Ident("TODO"))
    [] d.code = "E0301" -> AddBlocks(s, d.at, SubSeq(CellsAfter, 2, 3))
    [] OTHER            -> Without(s, d.at)

Mend ==
  /\ report # NoReport
  /\ report.status = "gap"
  /\ ~report.template
  /\ slice' = Mended(slice, gap)
  /\ report' = NoReport

Paste == AddCell \/ PasteField \/ FillBody \/ AddKillTest \/ AddForbiddenState \/ AddPostFailure
ByMessage == FillField \/ FillByMessage

Work == Ask \/ Paste \/ ByMessage \/ FreeId \/ Mend

WalkComplete == report # NoReport /\ report.status = "walk_complete"

\* Nothing is left to do: the loop ends here and nowhere else.
Finished == WalkComplete /\ UNCHANGED vars

Next == Work \/ Finished

\* The author keeps going until then.  (Weak fairness of Work, without its
\* ENABLED: Work is enabled in every state that is not walk-complete, or TLC
\* would report a deadlock.)
KeepsGoing == []<>WalkComplete \/ []<><<Work>>_vars

Spec == Init /\ [][Next]_vars /\ KeepsGoing

-----------------------------------------------------------------------------
(* Properties. *)

\* What a slice must be, said without the passes, of the blocks and steps that
\* have an identifier for a name and of the references that are identifiers:
\* the rest is passed over.
Blocks(kind) == {b \in Range(slice) : b.kind = kind /\ b.id # NoName}
IdsOf(kind)  == {b.id : b \in Blocks(kind)}
StepsOf(e)   == {x \in Range(e.blocks) : x.kind = "step" /\ x.id # NoName}

Complete(b) ==
  /\ b.id # NoName \/ b.numbered
  /\ \A k \in DOMAIN Required[b.kind] : HasField(b, Required[b.kind][k])

FieldsPresent ==
  \A b \in Range(slice) : b.kind \in SlotKinds =>
    /\ Complete(b)
    /\ b.kind = "event" =>
         /\ HasBlock(b, "step")
         /\ \A x \in Range(b.blocks) : x.kind = "step" => Complete(x)
    /\ b.kind = "forbidden_state" =>
         HasField(b, "predicate") \/ HasField(b, "cells") \/ HasBlock(b, "cells")
    /\ b.kind = "post_failure" =>
         HasField(b, "cells_after") \/ \E k \in 1..3 : HasBlock(b, CellsAfter[k])

IsUnique(s, Counts(_)) ==
  \A i, j \in {k \in DOMAIN s : Counts(s[k]) /\ s[k].id # NoName} : s[i].id = s[j].id => i = j

IdsUnique ==
  /\ IsUnique(slice, LAMBDA b : b.kind \in SlotKinds)
  /\ \A e \in Blocks("event") : IsUnique(e.blocks, LAMBDA x : x.kind = "step")

CellsResolve ==
  /\ \A b \in Blocks("derived") : Range(Idents(b, "derives_from")) \subseteq IdsOf("cell") \cup IdsOf("derived")
  /\ \A b \in Blocks("association") : Range(Idents(b, "over")) \subseteq IdsOf("cell") \cup IdsOf("derived")
  /\ \A e \in Blocks("event") :
       \A x \in {e} \cup StepsOf(e) : Range(Idents(x, "mutates")) \subseteq IdsOf("cell")
  /\ \A b \in Blocks("forbidden_state") : Range(CellKeys(b, "cells")) \subseteq IdsOf("cell")
  /\ \A b \in Blocks("post_failure") : \A k \in 1..3 : Range(CellKeys(b, CellsAfter[k])) \subseteq IdsOf("cell")

\* The event of a row, and in it the step, that can fail.
RowsResolve ==
  \A b \in Blocks("post_failure") :
    LET event == IdentOf(b, "event")
        step  == IdentOf(b, "step")
    IN  event # NoName =>
          \E e \in Blocks("event") :
            /\ e.id = event
            /\ step # NoName => \E x \in StepsOf(e) : x.id = step /\ IsTrue(x, "fallible")

Kills(k, f) == k.id = IdentOf(f, "kill_test") /\ IdentOf(k, "forbidden") \in {NoName, f.id}

Mutual ==
  /\ \A f \in Blocks("forbidden_state") :
       \/ IdentOf(f, "kill_test") \in {NoName, "TODO"}
       \/ \E k \in Blocks("kill_test") : Kills(k, f)
  /\ \A k \in Blocks("kill_test") : IdentOf(k, "forbidden") \in IdsOf("forbidden_state") \cup {NoName}

Acyclic ==
  \A S \in (SUBSET Blocks("derived")) \ {{}} :
    \E b \in S : \A x \in S : x.id \notin Range(Idents(b, "derives_from"))

\* The steps whose failure leaves something to see: another step may have
\* failed, or changed a cell, before.
Exposed(e) ==
  LET steps == {j \in DOMAIN e.blocks : e.blocks[j].kind = "step" /\ e.blocks[j].id # NoName}
      fallible == {j \in steps : IsTrue(e.blocks[j], "fallible")}
  IN  {e.blocks[k].id : k \in {l \in fallible :
         /\ fallible # {l}
         /\ \E j \in steps : j < l /\ (j \in fallible \/ IsFullList(e.blocks[j], "mutates"))}}

RowsOf(e, step) ==
  {b \in Range(slice) : /\ b.kind = "post_failure"
                        /\ IdentOf(b, "event") = e.id /\ IdentOf(b, "step") = step}

RowsPresent(Enough(_)) ==
  \A e \in Blocks("event") : \A step \in Exposed(e) :
    /\ RowsOf(e, step) # {}
    /\ Transactional(e) => Enough(RowsOf(e, step))

Sound(Enough(_)) ==
  /\ slice # <<>>
  /\ FieldsPresent /\ IdsUnique /\ CellsResolve /\ RowsResolve /\ Mutual /\ Acyclic
  /\ RowsPresent(Enough)

(* What suggest calls walk-complete is: every field is there, every        *)
(* reference leads to what it should, forbidden states and kill tests name *)
(* each other, no value derives from itself, and every step that can fail  *)
(* with something to see has its row; with what is written as anything but *)
(* an identifier passed over.                                              *)
CompleteMeansSound ==
  WalkComplete => Sound(LAMBDA rows : \E b \in rows : Distinguishes(b))

(* The passes raise no false alarm: a sound slice has no errors.           *)
AlarmsAreReal ==
  Sound(LAMBDA rows : \A b \in rows : Distinguishes(b)) => Analyze(slice) = <<>>

(* README.md:22, "The analyzer validates that every reference resolves":   *)
(* whatever block it is in, and whether it stands alone or in a list.      *)
EveryReferenceResolves ==
  LET Declared(kinds) == UNION {IdsOf(kind) : kind \in kinds}
      Meant(key) ==
        CASE key \in {"derives_from", "over"} -> Declared({"cell", "derived"})
          [] key = "mutates"   -> Declared({"cell"})
          [] key = "event"     -> Declared({"event"})
          [] key = "forbidden" -> Declared({"forbidden_state"})
          [] key = "kill_test" -> Declared({"kill_test"}) \cup {"TODO"}
  IN  WalkComplete =>
        \A b \in Range(slice) :
          \A key \in DOMAIN b.fields \cap {"derives_from", "over", "mutates", "event", "forbidden", "kill_test"} :
            Range(Idents(b, key)) \subseteq Meant(key)

(* README.md:48: of a transactional event every row tells the state before *)
(* the rollback from the one after it.                                     *)
EveryRowHasItsPair ==
  WalkComplete => RowsPresent(LAMBDA rows : \A b \in rows : Distinguishes(b))

(* The gaps that query reports are the walk's: it misses the rows that     *)
(* E0300 misses, and calls no cell unused that the walk finds used.        *)
GapsMirrorTheWalk ==
  /\ MissingPostFailures(slice) = {d.arg : d \in {x \in Range(Analyze(slice)) : x.code = "E0300"}}
  /\ IdsUnique => UnusedCellGaps(slice) \subseteq UnusedCells(slice)

(* In a complete slice query reports as unkilled just the forbidden states *)
(* without a kill test of their own that was executed and passed, as far   *)
(* as both have identifiers for names.                                     *)
KilledMeansExecuted ==
  WalkComplete =>
    UnkilledForbiddenStates(slice) =
      {i \in DOMAIN slice :
         /\ slice[i] \in Blocks("forbidden_state") /\ IdentOf(slice[i], "kill_test") # NoName
         /\ \/ IdentOf(slice[i], "kill_test") = "TODO"
            \/ ~ \E k \in Blocks("kill_test") : Kills(k, slice[i]) /\ Passing(k)}

Times(s, d) ==
  Cardinality({i \in DOMAIN Analyze(s) : /\ Analyze(s)[i].code = d.code
                                         /\ Analyze(s)[i].arg = d.arg})

\* Where the template of a block goes no block in front has its id.
IsFree(kind) == \A i \in Range(Named(slice)) : slice[i].id = gap.arg => i >= PlaceFor(slice, kind)

(* suggest.rs:4, "a template that fills it", with its two exceptions: the  *)
(* template of a missing field, pasted where suggest says, never fills its *)
(* gap; that of a block a reference asks for does, unless a block in front *)
(* has its id.  What the message says always does; and a slice stays one.  *)
PasteFillsWhereItFits ==
  [][/\ Paste =>
          (Times(slice', gap) < Times(slice, gap) <=>
             /\ gap.code # "E0200"
             /\ gap.code = "E0256" => IsFree("kill_test")
             /\ gap.code = "E0255" => IsFree("forbidden_state"))
     /\ ByMessage => Times(slice', gap) < Times(slice, gap)
     /\ IsSlice(slice')]_vars

(* An author who keeps asking and filling gets to a complete slice.        *)
Converges == <>WalkComplete

=============================================================================
