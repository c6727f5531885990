----------------------------- MODULE MCParser -----------------------------
(* All short texts: of bytes, for the lexer, and of tokens behind several  *)
(* prefixes, for each loop of the parser; and a grammar to compare with.   *)
EXTENDS Parser, TLC

S == INSTANCE SequencesExt

-----------------------------------------------------------------------------
(* The texts.  A symbol is the bytes it is spelled with. *)

MCLetter    == {"s", "u", "a", "n", "x"}
MCDigit     == {"0", "7"}
MCValueOf   == ("0" :> 0) @@ ("7" :> 7)
MCSliceWord == <<"s">>
MCUseWord   == <<"u">>
MCAsWord    == <<"a">>
MCBoolWords == {<<"n">>}

One(b)  == <<b>>
Quoted  == <<"quote", "x", "quote">>
Accent  == <<"lead", "cont">>
Triple  == <<"quote", "quote", "quote">>
Ones(B) == {One(b) : b \in B}

UpTo(symbols, n) == UNION {[1..k -> symbols] : k \in 0..n}

\* The symbols one after another, a blank between two words.
Wordlike(w) == w[1] \in MCLetter \cup MCDigit
Spell(syms) ==
  S!FlattenSeq([i \in DOMAIN syms |->
    IF i > 1 /\ Wordlike(syms[i - 1]) /\ Wordlike(syms[i])
    THEN <<"space">> \o syms[i] ELSE syms[i]])

Syms(bytes) == [i \in DOMAIN bytes |-> One(bytes[i])]
Family(prefix, symbols, n, suffix) ==
  {Spell(Syms(prefix) \o body \o Syms(suffix)) : body \in UpTo(symbols, n)}

Loose == Ones({"n", "7", "quote", "backslash", "newline", "/", "*", "-", ">", "other"}) \cup {Accent}

\* A text for each departure of the parser from the document: it takes the
\* first five, it refuses the last three.
Departures ==
  {Spell(Syms(<<"s", "n", "{", "x">> \o t \o <<"}">>)) :
     t \in {<<":", "x", "<", ">">>,
           <<":", "x", "(", ")">>,
           <<":", "x", "<", "x", ",", ">">>,
           <<":", "x", "(", "x", ",", ")">>,
           <<":", "x", "<", "x", "|", "x", ",", "x", ">">>,
           <<":", "{", "x", ".", "x", ":", "n", "}">>,
           <<"{", "x", ".", "x", ":", "n", "}">>,
           <<":", "<", "x", ">">>}}

\* Literals with escapes in them.
MCEscapes == {<<"quote">> \o S!FlattenSeq(t) : t \in UpTo(Ones({"n", "x", "quote", "backslash"}) \cup {Accent}, 4)}

MCTexts ==
  \* the lexer: any text, literals, block comments
  {S!FlattenSeq(t) : t \in UpTo(Loose, 3)}
  \cup MCEscapes
  \cup {Triple \o S!FlattenSeq(t) : t \in UpTo(Ones({"quote", "newline"}) \cup {Accent}, 4)}
  \cup {<<"/", "*">> \o S!FlattenSeq(t) : t \in UpTo(Ones({"*", "/", "x"}) \cup {Accent}, 4)}
  \* the parser: heads, items, imports, values, and the brackets of values
  \cup Family(<<>>, Ones({"s", "x", "7", "{", "}"}), 4, <<>>)
  \cup Family(<<"s", "n", "{">>, Ones({"x", "7", ":", "{", "}", "u"}), 5, <<"}">>)
  \cup Family(<<"s", "n", "{">>, Ones({"u", "a", "x"}) \cup {Quoted}, 5, <<"}">>)
  \cup {Spell(Syms(<<"s", "n", "{", "u">>) \o <<Quoted>> \o Syms(<<"a", "x", "u">>) \o <<Quoted>> \o t) :
          t \in UpTo(Ones({"u", "a", "x", "}"}), 3)}
  \cup Family(<<"s", "n", "{", "x", ":">>, Ones({"n", ",", ":", "[", "]", "{", "}"}), 4, <<"}">>)
  \cup Family(<<"s", "n", "{", "x", ":">>, Ones({"n", "x", "."}), 3, <<"}">>)
  \cup Family(<<"s", "n", "{", "x", ":", "x", "<">>, Ones({"x", ">", "|", ",", ".", ")"}), 4, <<"}">>)
  \cup Family(<<"s", "n", "{", "x", ":", "x", "(">>, Ones({"x", ")", "<", ",", "|", ">"}), 4, <<"}">>)
  \cup Family(<<"s", "n", "{", "x", ":", "{">>, Ones({"x", ":", ",", "}"}), 5, <<"}">>)
  \* where parser and document differ: placeholders, qualified keys
  \cup Family(<<"s", "n", "{", "x", ":">>, Ones({"<", ">", "x", "|"}), 3, <<"}">>)
  \cup Family(<<"s", "n", "{", "x", ":", "{", "x">>, Ones({".", "x", ":", ","}), 4, <<"}", "}">>)
  \cup Family(<<"s", "n", "{", "x", "{", "x">>, Ones({".", "x", ":"}), 4, <<"}", "}">>)
  \cup Departures

-----------------------------------------------------------------------------
(* The grammar: where a phrase that starts at token i may end.  Commas may *)
(* be left out of lists and maps.  F is the set of the forms on which      *)
(* grammar-v0.md and the parser do not agree:                              *)
(*   "no argument"         an empty pair of brackets behind a name         *)
(*   "trailing separator"  one more separator behind the last argument     *)
(*   "mixed separators"    both of | and , between the parameters of one   *)
(*                         type                                            *)
(*   "qualified key"       alias.id in front of a colon                    *)
(*   "placeholder"         a name in angle brackets as a value             *)

\* What the document has: grammar-v0.md:104 and 236 show the one and the other,
\* and parser.rs:588 and 637 write out the arguments of types and calls.
AsDocumented == {"qualified key", "placeholder"}

\* What the parser takes.
AsRead == {"no argument", "trailing separator", "mixed separators"}

Is(i, kind) == i <= Len(tokens) /\ tokens[i].kind = kind
Word(i, word) == Is(i, "ident") /\ tokens[i].name = word
EndIf(cond, i) == IF cond THEN {i} ELSE {}
OrComma(i) == {i} \cup EndIf(Is(i, ","), i + 1)

\* alias.id
QualifiedAt(i) == Is(i, "ident") /\ Is(i + 1, ".") /\ Is(i + 2, "ident")

\* Behind a key and its colon.
KeyEnd(F, i) ==
  EndIf(Is(i, "ident") /\ Is(i + 1, ":"), i + 2)
  \cup EndIf("qualified key" \in F /\ QualifiedAt(i) /\ Is(i + 3, ":"), i + 4)

RECURSIVE Value(_, _), Elements(_, _), Entries(_, _), Arguments(_, _, _, _), Body(_, _), ImportsEnd(_)

Elements(F, i) ==
  EndIf(Is(i, "]"), i + 1)
  \cup UNION {UNION {Elements(F, k) : k \in OrComma(j)} : j \in Value(F, i)}

Entries(F, i) ==
  EndIf(Is(i, "}"), i + 1)
  \cup UNION {UNION {Entries(F, k) : k \in OrComma(j)} :
                j \in UNION {Value(F, v) : v \in KeyEnd(F, i)}}

\* Arguments that start at i: one at least, and behind a separator one more.
Arguments(F, i, separators, closer) ==
  UNION {EndIf(Is(j, closer), j + 1)
         \cup UNION {EndIf("trailing separator" \in F /\ Is(j + 1, closer), j + 2)
                     \cup Arguments(F, j + 1, IF "mixed separators" \in F THEN separators ELSE {s}, closer) :
                       s \in {t \in separators : Is(j, t)}} :
         j \in Value(F, i)}

Bracket(F, i, opener, separators, closer) ==
  IF ~(Is(i, "ident") /\ Is(i + 1, opener)) THEN {}
  ELSE EndIf("no argument" \in F /\ Is(i + 2, closer), i + 3)
       \cup Arguments(F, i + 2, separators, closer)

Value(F, i) ==
  EndIf(Is(i, "string") \/ Is(i, "int") \/ Is(i, "ident"), i + 1)
  \cup EndIf(QualifiedAt(i), i + 3)
  \cup EndIf("placeholder" \in F /\ Is(i, "<") /\ Is(i + 1, "ident") /\ Is(i + 2, ">"), i + 3)
  \cup Bracket(F, i, "<", {"|", ","}, ">")
  \cup Bracket(F, i, "(", {","}, ")")
  \cup (IF Is(i, "[") THEN Elements(F, i + 1) ELSE {})
  \cup (IF Is(i, "{") THEN Entries(F, i + 1) ELSE {})

Body(F, i) ==
  EndIf(Is(i, "}"), i + 1)
  \cup UNION {Body(F, j) : j \in
         IF ~Is(i, "ident") \/ Word(i, UseWord) THEN {}
         ELSE UNION {Value(F, v) : v \in KeyEnd(F, i)}
              \cup (IF Is(i + 1, "{") THEN Body(F, i + 2) ELSE {})
              \cup (IF (Is(i + 1, "ident") \/ Is(i + 1, "int")) /\ Is(i + 2, "{")
                    THEN Body(F, i + 3) ELSE {})}

ImportAt(i) == Word(i, UseWord) /\ Is(i + 1, "string") /\ Word(i + 2, AsWord) /\ Is(i + 3, "ident")
ImportsEnd(i) == {i} \cup (IF ImportAt(i) THEN ImportsEnd(i + 4) ELSE {})

Sentence(F) ==
  /\ Word(1, SliceWord) /\ Is(2, "ident") /\ Is(3, "{")
  /\ \E i \in ImportsEnd(4) :
       /\ Len(tokens) \in Body(F, i)
       /\ \A j, k \in {n \in 4..(i - 1) : (n - 4) % 4 = 0} :
            tokens[j + 3].name = tokens[k + 3].name => j = k

-----------------------------------------------------------------------------
(* The tree, written out again. *)

Said(kind, name) == [kind |-> kind, name |-> name]
Sign(b) == Said(b, One(b))
NameOf(name) == IF name = <<>> THEN <<>> ELSE <<Said(IF name[1] \in MCDigit THEN "int" ELSE "ident", name)>>

RECURSIVE Unparse(_)
Between(open, of, close) ==
  <<Sign(open)>> \o S!FlattenSeq([i \in DOMAIN of |-> Unparse(of[i])]) \o <<Sign(close)>>
Unparse(t) ==
  CASE t.is \in {"string", "int"}  -> <<Said(t.is, t.name)>>
    [] t.is \in {"ident", "bool"}  -> <<Said("ident", t.name)>>
    [] t.is = "qualified" -> <<Said("ident", t.alias), Sign("."), Said("ident", t.name)>>
    [] t.is \in {"field", "entry"} -> <<Said("ident", t.name), Sign(":")>> \o Unparse(t.of[1])
    [] t.is = "block" -> <<Said("ident", t.kind)>> \o NameOf(t.name) \o Between("{", t.of, "}")
    [] t.is = "list" -> Between("[", t.of, "]")
    [] t.is = "map"  -> Between("{", t.of, "}")
    [] t.is = "type" -> <<Said("ident", t.name)>> \o Between("<", t.of, ">")
    [] t.is = "call" -> <<Said("ident", t.name)>> \o Between("(", t.of, ")")

Import(u) == <<Said("ident", UseWord), Said("string", u.path), Said("ident", AsWord), Said("ident", u.alias)>>
UnparseSlice ==
  <<Said("ident", SliceWord), Said("ident", slice.name), Sign("{")>>
  \o S!FlattenSeq([i \in DOMAIN slice.imports |-> Import(slice.imports[i])])
  \o S!FlattenSeq([i \in DOMAIN slice.items |-> Unparse(slice.items[i])])
  \o <<Sign("}")>>

TokensSaid == [i \in DOMAIN tokens |-> Said(tokens[i].kind, tokens[i].name)]
Separating(w) == w.kind \in {",", "|", "eof"}
Carries(w) == w.kind \in {"ident", "int", "string"}

RECURSIVE Within(_, _)
Within(s, t) ==
  \/ s = <<>>
  \/ t # <<>> /\ Within(IF Head(s) = Head(t) THEN Tail(s) ELSE s, Tail(t))

Clean == diags = {}

(* The parser reports something exactly if the tokens are no sentence of   *)
(* the language it reads, or two imports have one alias: recovery never    *)
(* swallows an error, and nothing of that language is refused.  It is not  *)
(* quite the documented language: on each of the texts Departures the      *)
(* parser's answer is not the document's, so AsRead is no smaller and      *)
(* AsDocumented no larger than they have to be.                            *)
CleanIffGrammatical ==
  doing = "parsed" =>
    /\ Clean <=> Sentence(AsRead)
    /\ text \in Departures => Clean # Sentence(AsDocumented)

(* The tree of a clean parse is the text, but for separators: nothing is   *)
(* dropped, nested elsewhere or reordered.  The tree of a text with errors *)
(* still says nothing the text does not: its names and literals occur in   *)
(* the text in the tree's order, so what recovery skips is left out, never *)
(* put in another's place.                                                 *)
TreeIsTheText ==
  doing = "parsed" /\ slice # NoTree =>
    /\ Clean => UnparseSlice = SelectSeq(TokensSaid, LAMBDA w : ~Separating(w))
    /\ Within(SelectSeq(UnparseSlice, Carries), SelectSeq(TokensSaid, Carries))
=============================================================================
