------------------------------ MODULE Parser ------------------------------
(***************************************************************************)
(* The recursive-descent parser of parser.rs, over the tokens of Lexer:    *)
(* parse, from a text to a syntax tree and diagnostics.                    *)
(*                                                                         *)
(* The recursion is the variable stack: a frame for each open call of      *)
(* parse_slice, parse_block_decl, parse_field, parse_list, parse_map,      *)
(* parse_type_app and parse_call, with what it has read so far.  `doing`   *)
(* says where the innermost call stands: at the head of its loop, in a     *)
(* call of parse_field_value, or back from a call that left `result`.  One *)
(* action is one turn of a loop, with every token it consumes.             *)
(***************************************************************************)
EXTENDS Lexer

CONSTANTS
  SliceWord, UseWord, AsWord,  \* the spellings of `slice`, `use` and `as`
  BoolWords,                   \* the spellings of `true` and `false`
  NoTree                       \* what a call that failed returns

VARIABLES
  cursor,   \* the index of the token at hand (Parser::pos, from 1)
  stack,    \* the open calls
  doing,    \* "start", "uses", "loop", "value", "return", "close", "top", "parsed"
  result,   \* what the call that just returned left
  uses,     \* the imports read so far
  slice,    \* the slice, once it is read
  diags     \* the parser's diagnostics: code and token

parserVars == <<cursor, stack, doing, result, uses, slice, diags>>
vars == <<text, pos, mode, start, value, tokens, lexDiags,
          cursor, stack, doing, result, uses, slice, diags>>

-----------------------------------------------------------------------------
(* The cursor. *)

AtMost(i) == IF i > Len(tokens) THEN Len(tokens) ELSE i

KindAt(k) == tokens[AtMost(cursor + k)].kind
NameAt(k) == tokens[AtMost(cursor + k)].name

\* k tokens further; bump stays at the end of the input.
After(k) == AtMost(cursor + k)

IsWord(k, word) == KindAt(k) = "ident" /\ NameAt(k) = word

Report(code, k) == {[code |-> code, at |-> After(k)]}

\* The diagnostics of `expect`, if the token k further is not of that kind.
Expected(kind, k) == IF KindAt(k) = kind THEN {} ELSE Report("E0100", k)

\* How many tokens `expect` or `eat` consumes there.
Eaten(kind, k) == IF KindAt(k) = kind THEN 1 ELSE 0

-----------------------------------------------------------------------------
(* Frames. *)

\* head and name are what the call has read of its head (name: the key at
\* hand, of a map), acc what it has collected, sep the first separator it met.
Frame(rule, head, name) ==
  [rule |-> rule, head |-> head, name |-> name, acc |-> <<>>, sep |-> "none"]

top  == stack[Len(stack)]
Rest == SubSeq(stack, 1, Len(stack) - 1)
In(rules) == stack # <<>> /\ top.rule \in rules

Push(frame) == stack' = Append(stack, frame)
SetTop(frame) == stack' = [stack EXCEPT ![Len(stack)] = frame]

\* One turn: consume n tokens, report, and go on there.
Step(n, reports, next) ==
  /\ cursor' = After(n)
  /\ diags' = diags \cup reports
  /\ doing' = next
  /\ UNCHANGED lexVars

\* The innermost call returns what it built.
Return(tree) ==
  /\ stack' = Rest
  /\ result' = tree
  /\ UNCHANGED <<uses, slice>>

Leaf(is, name) == [is |-> is, name |-> name]
Node(is, name, of) == [is |-> is, name |-> name, of |-> of]

Init ==
  /\ LexInit
  /\ cursor = 1
  /\ stack = <<>>
  /\ doing = "start"
  /\ result = NoTree
  /\ uses = <<>>
  /\ slice = NoTree
  /\ diags = {}

-----------------------------------------------------------------------------
(* parse_file and parse_slice. *)

Starts == mode = "lexed" /\ doing = "start"

EmptyFile ==
  /\ Starts
  /\ KindAt(0) = "eof"
  /\ Step(0, Report("E0105", 0), "parsed")
  /\ UNCHANGED <<stack, result, uses, slice>>

NoSlice ==
  /\ Starts
  /\ KindAt(0) # "eof"
  /\ \/ ~IsWord(0, SliceWord) /\ Step(0, Report("E0107", 0), "top")
     \/ /\ IsWord(0, SliceWord)
        /\ KindAt(1) # "ident"
        /\ Step(1, Report("E0101", 1), "top")
  /\ UNCHANGED <<stack, result, uses, slice>>

OpenSlice ==
  /\ Starts
  /\ IsWord(0, SliceWord)
  /\ KindAt(1) = "ident"
  /\ Push(Frame("slice", <<>>, NameAt(1)))
  /\ Step(2 + Eaten("{", 2), Expected("{", 2), "uses")
  /\ UNCHANGED <<result, uses, slice>>

\* What follows the slice is reported once and dropped.
ParseEnds ==
  /\ doing = "top"
  /\ IF KindAt(0) = "eof" THEN Step(0, {}, "parsed")
     ELSE Step(Len(tokens), Report("E0106", 0), "parsed")
  /\ UNCHANGED <<stack, result, uses, slice>>

-----------------------------------------------------------------------------
(* parse_imports: one action per turn of the loop. *)

NoMoreUses ==
  /\ doing = "uses"
  /\ ~IsWord(0, UseWord)
  /\ Step(0, {}, "loop")
  /\ UNCHANGED <<stack, result, uses, slice>>

\* A turn that goes wrong: what it consumes and reports.
BadUse ==
  /\ doing = "uses"
  /\ IsWord(0, UseWord)
  /\ \/ KindAt(1) # "string" /\ Step(2, Report("E0100", 1), "uses")
     \/ /\ KindAt(1) = "string"
        /\ \/ KindAt(2) # "ident" /\ Step(2, Report("E0109", 2), "uses")
           \/ /\ KindAt(2) = "ident" /\ NameAt(2) # AsWord
              /\ Step(3, Report("E0109", 2), "uses")
           \/ /\ IsWord(2, AsWord)
              /\ KindAt(3) # "ident"
              /\ Step(3, Report("E0101", 3), "uses")
  /\ UNCHANGED <<stack, result, uses, slice>>

\* A second declaration of an alias is reported, and kept.
GoodUse ==
  /\ doing = "uses"
  /\ IsWord(0, UseWord)
  /\ KindAt(1) = "string"
  /\ IsWord(2, AsWord)
  /\ KindAt(3) = "ident"
  /\ uses' = Append(uses, [path |-> NameAt(1), alias |-> NameAt(3)])
  /\ Step(4, IF \E i \in DOMAIN uses : uses[i].alias = NameAt(3)
             THEN Report("E0110", 3) ELSE {}, "uses")
  /\ UNCHANGED <<stack, result, slice>>

-----------------------------------------------------------------------------
(* parse_block_items and parse_block_item. *)

Items == {"slice", "block"}
AtItem == doing = "loop" /\ In(Items) /\ KindAt(0) \notin {"eof", "}"}

CloseSlice ==
  /\ doing = "loop" /\ In({"slice"}) /\ KindAt(0) \in {"eof", "}"}
  /\ slice' = [name |-> top.name, imports |-> uses, items |-> top.acc]
  /\ stack' = Rest
  /\ Step(Eaten("}", 0), Expected("}", 0), "top")
  /\ UNCHANGED <<result, uses>>

CloseBlock ==
  /\ doing = "loop" /\ In({"block"}) /\ KindAt(0) \in {"eof", "}"}
  /\ Return([is |-> "block", kind |-> top.head, name |-> top.name, of |-> top.acc])
  /\ Step(Eaten("}", 0), IF KindAt(0) = "}" THEN {} ELSE Report("E0103", 0), "return")

\* A bug to find: a failed item leaves the cursor where it is.
AfterFailedItem_Stays == 0

\* The token more that the loop consumes after every failure of
\* parse_block_item, whatever it is ...
AfterFailedItem == 1

\* ... here the one that starts no item ...
NotAnItem ==
  /\ AtItem
  /\ KindAt(0) # "ident"
  /\ Step(AfterFailedItem, Report("E0104", 0), "loop")
  /\ UNCHANGED <<stack, result, uses, slice>>

\* ... here the one after the token that can be neither ...
NeitherFieldNorBlock ==
  /\ AtItem
  /\ KindAt(0) = "ident" /\ NameAt(0) # UseWord
  /\ KindAt(1) \notin {":", "{", "ident", "int"}
  /\ Step(1 + AfterFailedItem, Report("E0104", 1), "loop")
  /\ UNCHANGED <<stack, result, uses, slice>>

\* How many tokens the skipped clause of a late `use` takes.
ClauseLength ==
  LET path == 1 + Eaten("string", 1)
      word == path + (IF IsWord(path, AsWord) THEN 1 ELSE 0)
  IN  word + Eaten("ident", word)

\* ... and here the one after the clause.
UseAfterDecl ==
  /\ AtItem
  /\ IsWord(0, UseWord)
  /\ Step(ClauseLength + AfterFailedItem, Report("E0108", 0), "loop")
  /\ UNCHANGED <<stack, result, uses, slice>>

OpenField ==
  /\ AtItem
  /\ KindAt(0) = "ident" /\ NameAt(0) # UseWord
  /\ KindAt(1) = ":"
  /\ Push(Frame("field", NameAt(0), <<>>))
  /\ Step(2, {}, "value")
  /\ UNCHANGED <<result, uses, slice>>

OpenBlock ==
  /\ AtItem
  /\ KindAt(0) = "ident" /\ NameAt(0) # UseWord
  /\ \/ /\ KindAt(1) = "{"
        /\ Push(Frame("block", NameAt(0), <<>>))
        /\ Step(2, {}, "loop")
     \/ /\ KindAt(1) \in {"ident", "int"}
        /\ Push(Frame("block", NameAt(0), NameAt(1)))
        /\ Step(2 + Eaten("{", 2), Expected("{", 2), "loop")
  /\ UNCHANGED <<result, uses, slice>>

AfterItem ==
  /\ doing = "return" /\ In(Items)
  /\ IF result = NoTree
     THEN Step(AfterFailedItem, {}, "loop") /\ UNCHANGED stack
     ELSE Step(0, {}, "loop") /\ SetTop([top EXCEPT !.acc = Append(@, result)])
  /\ UNCHANGED <<result, uses, slice>>

FieldReturns ==
  /\ doing = "return" /\ In({"field"})
  /\ Return(IF result = NoTree THEN NoTree ELSE Node("field", top.head, <<result>>))
  /\ Step(0, {}, "return")

-----------------------------------------------------------------------------
(* parse_field_value, which is a frame only for a value that nests. *)

AtValue == doing = "value"

\* The value is read, with n tokens of it left to consume.
Yield(n, reports, tree) ==
  /\ result' = tree
  /\ Step(n, reports, "return")
  /\ UNCHANGED <<stack, uses, slice>>

\* A bug to find: a qualified name the wrong way round.
Qualified_Swapped(alias, name) == [is |-> "qualified", alias |-> name, name |-> alias]

Qualified(alias, name) == [is |-> "qualified", alias |-> alias, name |-> name]

\* ident_to_value
IdentValue(name) == Leaf(IF name \in BoolWords THEN "bool" ELSE "ident", name)

Literal ==
  /\ AtValue
  /\ KindAt(0) \in {"string", "int"}
  /\ Yield(1, {}, Leaf(KindAt(0), NameAt(0)))

NotAValue ==
  /\ AtValue
  /\ KindAt(0) \notin {"[", "{", "string", "int", "ident"}
  /\ Yield(0, Report("E0102", 0), NoTree)

BareName ==
  /\ AtValue
  /\ KindAt(0) = "ident" /\ KindAt(1) \notin {"<", "(", "."}
  /\ Yield(1, {}, IdentValue(NameAt(0)))

QualifiedName ==
  /\ AtValue
  /\ KindAt(0) = "ident" /\ KindAt(1) = "."
  /\ IF KindAt(2) = "ident" THEN Yield(3, {}, Qualified(NameAt(0), NameAt(2)))
     ELSE Yield(2, Report("E0101", 2), IdentValue(NameAt(0)))

-----------------------------------------------------------------------------
(* parse_map. *)

OpenMap ==
  /\ AtValue
  /\ KindAt(0) = "{"
  /\ Push(Frame("map", <<>>, <<>>))
  /\ Step(1, {}, "loop")
  /\ UNCHANGED <<result, uses, slice>>

AtEntry == doing = "loop" /\ In({"map"}) /\ KindAt(0) \notin {"eof", "}"}

NotAKey ==
  /\ AtEntry
  /\ KindAt(0) # "ident"
  /\ Step(1, Report("E0101", 0), "loop")
  /\ UNCHANGED <<stack, result, uses, slice>>

MapKey ==
  /\ AtEntry
  /\ KindAt(0) = "ident"
  /\ SetTop([top EXCEPT !.name = NameAt(0)])
  /\ Step(1 + Eaten(":", 1), Expected(":", 1), "value")
  /\ UNCHANGED <<result, uses, slice>>

\* The token that is no value is left to the loop.
MapReturns ==
  /\ doing = "return" /\ In({"map"})
  /\ IF result = NoTree THEN Step(0, {}, "loop") /\ UNCHANGED stack
     ELSE /\ SetTop([top EXCEPT !.acc = Append(@, Node("entry", top.name, <<result>>))])
          /\ Step(Eaten(",", 0), {}, "loop")
  /\ UNCHANGED <<result, uses, slice>>

CloseMap ==
  /\ doing = "loop" /\ In({"map"}) /\ KindAt(0) \in {"eof", "}"}
  /\ Return(Node("map", <<>>, top.acc))
  /\ Step(Eaten("}", 0), Expected("}", 0), "return")

-----------------------------------------------------------------------------
(* parse_list, parse_type_app and parse_call. *)

Bracketed == {"list", "type", "call"}
Closer(rule) == CASE rule = "list" -> "]" [] rule = "type" -> ">" [] rule = "call" -> ")"

\* A list looks for its end before each value, at the end of the text too;
\* the other two where a value may be left out.
NextElement(k) == IF KindAt(k) \in {"eof", "]"} THEN "close" ELSE "value"
NextArgument(rule, k) == IF KindAt(k) = Closer(rule) THEN "close" ELSE "value"

OpenList ==
  /\ AtValue
  /\ KindAt(0) = "["
  /\ Push(Frame("list", <<>>, <<>>))
  /\ Step(1, {}, NextElement(1))
  /\ UNCHANGED <<result, uses, slice>>

OpenArguments ==
  /\ AtValue
  /\ KindAt(0) = "ident" /\ KindAt(1) \in {"<", "("}
  /\ LET rule == IF KindAt(1) = "<" THEN "type" ELSE "call"
     IN  Push(Frame(rule, NameAt(0), <<>>)) /\ Step(2, {}, NextArgument(rule, 2))
  /\ UNCHANGED <<result, uses, slice>>

\* What the call that returned left, in the frame at hand.
Collected == IF result = NoTree THEN top.acc ELSE Append(top.acc, result)

\* A bug to find: the list does not skip the token that is no value.
AfterFailedElement_Stays == 0

AfterFailedElement == IF result = NoTree THEN 1 ELSE 0

\* Commas may be left out.
ListReturns ==
  /\ doing = "return" /\ In({"list"})
  /\ SetTop([top EXCEPT !.acc = Collected])
  /\ LET n == AfterFailedElement + Eaten(",", AfterFailedElement)
     IN  Step(n, {}, NextElement(n))
  /\ UNCHANGED <<result, uses, slice>>

\* A bug to find: a call takes the separators of a type.
Separators_Both(rule) == {"|", ","}

Separators(rule) == IF rule = "type" THEN {"|", ","} ELSE {","}

\* The first argument may fail, a later one ends the arguments.  The first
\* separator says whether the parameters of a type are alternatives.
ArgumentReturns ==
  /\ doing = "return" /\ In({"type", "call"})
  /\ IF (result # NoTree \/ top.sep = "none") /\ KindAt(0) \in Separators(top.rule)
     THEN /\ SetTop([top EXCEPT !.acc = Collected,
                                !.sep = IF @ = "none" THEN KindAt(0) ELSE @])
          /\ Step(1, {}, NextArgument(top.rule, 1))
     ELSE /\ SetTop([top EXCEPT !.acc = Collected])
          /\ Step(0, {}, "close")
  /\ UNCHANGED <<result, uses, slice>>

CloseBracket ==
  /\ doing = "close" /\ In(Bracketed)
  /\ Return([is |-> top.rule, name |-> top.head, of |-> top.acc, alternation |-> top.sep = "|"])
  /\ Step(Eaten(Closer(top.rule), 0), Expected(Closer(top.rule), 0), "return")

-----------------------------------------------------------------------------
\* A run ends with a tree, or in the lexer's panic.
Finished == doing = "parsed" \/ mode = "aborted"
Stopped == Finished /\ UNCHANGED vars

ParseStep ==
  \/ EmptyFile \/ NoSlice \/ OpenSlice \/ ParseEnds
  \/ NoMoreUses \/ BadUse \/ GoodUse
  \/ CloseSlice \/ CloseBlock \/ NotAnItem \/ NeitherFieldNorBlock \/ UseAfterDecl
  \/ OpenField \/ OpenBlock \/ AfterItem \/ FieldReturns
  \/ Literal \/ NotAValue \/ BareName \/ QualifiedName
  \/ OpenMap \/ NotAKey \/ MapKey \/ MapReturns \/ CloseMap
  \/ OpenList \/ OpenArguments \/ ListReturns \/ ArgumentReturns \/ CloseBracket

Next ==
  \/ LexStep /\ UNCHANGED parserVars
  \/ ParseStep
  \/ Stopped

Spec == Init /\ [][Next]_vars /\ WF_vars(Next)

-----------------------------------------------------------------------------
(* Properties. *)

\* What is left to do: bytes to scan and tokens to come, then tokens to
\* parse, open calls to return from, and how far the call at hand is.
ScanRank == CASE mode = "scan" -> 5 [] InString -> 15 [] OTHER -> 0
ParseRank ==
  CASE doing \in {"start", "uses"} -> 3
    [] doing = "value" -> 6
    [] doing = "return" -> IF result = NoTree THEN 2 ELSE 8
    [] doing \in {"loop", "close", "top"} -> 1
    [] doing = "parsed" -> 0
Fuel ==
  CASE mode = "aborted" -> 0
    [] mode = "lexed"   -> 9 * (Len(tokens) - cursor) + 8 * Len(stack) + ParseRank
    [] OTHER            -> 20 * (Last - pos) + 9 * Len(tokens) + ScanRank

(* No loop of the lexer or the parser turns without getting nearer to its  *)
(* end, however broken the text is: every recovery consumes something, and *)
(* a loop that leaves the token to its caller returns to it.               *)
Advances == [][Fuel' < Fuel]_vars

(* So the parse of every text ends. *)
Termination == <>Finished

=============================================================================
