------------------------------- MODULE Lexer -------------------------------
(***************************************************************************)
(* The scanner of lexer.rs: tokenize, from a text to tokens and            *)
(* diagnostics.  A text is the sequence of its bytes; the class of a byte  *)
(* is what the code branches on, and a character outside ASCII is a lead   *)
(* byte and a continuation byte.  pos counts the bytes consumed, as in the *)
(* code, so the byte at hand is text[pos + 1].                             *)
(*                                                                         *)
(* One action per branch of scan_one and skip_trivia; a run of equal work  *)
(* (blanks, digits, the bytes of a name, a comment) is one action, and a   *)
(* string literal is one action per turn of scan_string's loop.            *)
(***************************************************************************)
EXTENDS Naturals, Sequences

CONSTANTS
  Texts,    \* the texts to scan
  Letter,   \* the letters and underscores of names, and of escapes
  Digit,    \* the digits
  ValueOf,  \* the value of each digit
  MaxInt    \* the largest integer literal that fits (2^63 - 1 in the code)

Punct == {"{", "}", "[", "]", "(", ")", "<", ">", ",", ":", ";", ".", "|", "="}
Blank == {"space", "newline"}
Byte  == Punct \cup Blank \cup Letter \cup Digit
           \cup {"-", "/", "*", "quote", "backslash", "lead", "cont", "other"}

\* UTF-8: a continuation byte follows every lead byte and nothing else.
WholeCharacters(t) ==
  /\ \A i \in 1..Len(t) : t[i] = "lead" => i < Len(t) /\ t[i + 1] = "cont"
  /\ \A i \in 1..Len(t) : t[i] = "cont" => i > 1 /\ t[i - 1] = "lead"

ASSUME LexerAssumption ==
  /\ \A t \in Texts : t \in Seq(Byte) /\ WholeCharacters(t)
  /\ {"lead", "cont"} \cap (Letter \cup Digit) = {}
  /\ ValueOf \in [Digit -> 0..9]
  /\ MaxInt \in Nat

VARIABLES
  text,      \* the text
  pos,       \* how many bytes are consumed
  mode,      \* "scan", in a literal "string" or "triple", "lexed", "aborted"
  start,     \* where the literal at hand starts
  value,     \* the characters of the literal at hand, escapes resolved
  tokens,    \* the tokens so far
  lexDiags   \* the diagnostics so far: code and extent

lexVars == <<text, pos, mode, start, value, tokens, lexDiags>>

Last == Len(text)

\* The byte k bytes ahead of pos.
Peek(k) == IF pos + k < Last THEN text[pos + k + 1] ELSE "end"

Token(kind, spelled, from, to) == [kind |-> kind, name |-> spelled, from |-> from, to |-> to]

\* What a token was spelled with; its name, if it is an identifier.
Spelled(to) == SubSeq(text, pos + 1, to)

\* The bytes from pos to e are all in S, and no more of them follow.
Run(S, e) ==
  /\ e \in (pos + 1)..Last
  /\ \A i \in (pos + 1)..e : text[i] \in S
  /\ e < Last => text[e + 1] \notin S

LexInit ==
  /\ text \in Texts
  /\ pos = 0
  /\ mode = "scan"
  /\ start = 0
  /\ value = <<>>
  /\ tokens = <<>>
  /\ lexDiags = {}

-----------------------------------------------------------------------------
(* Between tokens: skip_trivia. *)

SkipBlanks ==
  /\ mode = "scan"
  /\ \E e \in (pos + 1)..Last : Run(Blank, e) /\ pos' = e
  /\ UNCHANGED <<text, mode, start, value, tokens, lexDiags>>

\* To the end of the line, which is left to SkipBlanks.
SkipLineComment ==
  /\ mode = "scan"
  /\ Peek(0) = "/" /\ Peek(1) = "/"
  /\ \E e \in (pos + 2)..Last :
       /\ \A i \in (pos + 3)..e : text[i] # "newline"
       /\ e < Last => text[e + 1] = "newline"
       /\ pos' = e
  /\ UNCHANGED <<text, mode, start, value, tokens, lexDiags>>

\* The comment's "*/" begins at e, counted like pos.
Closes(e) == e + 1 < Last /\ text[e + 1] = "*" /\ text[e + 2] = "/"

SkipBlockComment ==
  /\ mode = "scan"
  /\ Peek(0) = "/" /\ Peek(1) = "*"
  /\ \E e \in (pos + 2)..Last :
       /\ \A i \in (pos + 2)..(e - 1) : ~Closes(i)
       /\ \/ Closes(e) /\ pos' = e + 2 /\ UNCHANGED lexDiags
          \/ /\ e = Last
             /\ pos' = Last
             /\ lexDiags' = lexDiags \cup {[code |-> "E0002", from |-> pos, to |-> Last]}
  /\ UNCHANGED <<text, mode, start, value, tokens>>

-----------------------------------------------------------------------------
(* One token: scan_one. *)

\* The token from pos to `to`.
Scanned(kind, to) ==
  /\ tokens' = Append(tokens, Token(kind, Spelled(to), pos, to))
  /\ pos' = to
  /\ UNCHANGED <<text, mode, start, value, lexDiags>>

\* No token from pos to `to`, but a diagnostic.
Reported(code, to) ==
  /\ lexDiags' = lexDiags \cup {[code |-> code, from |-> pos, to |-> to]}
  /\ pos' = to
  /\ UNCHANGED <<text, mode, start, value, tokens>>

ScanPunct == mode = "scan" /\ Peek(0) \in Punct /\ Scanned(Peek(0), pos + 1)

ScanDash ==
  /\ mode = "scan"
  /\ Peek(0) = "-"
  /\ IF Peek(1) = ">" THEN Scanned("->", pos + 2) ELSE Reported("E0003", pos + 1)

\* is_ident_cont
NameByte == Letter \cup Digit

ScanIdentifier ==
  /\ mode = "scan"
  /\ Peek(0) \in Letter
  /\ \E e \in (pos + 1)..Last : Run(NameByte, e) /\ Scanned("ident", e)

\* i64's parse: digits whose value is too large are no literal.
Fits(e) ==
  LET number[i \in pos..e] ==
        IF i = pos THEN 0 ELSE 10 * number[i - 1] + ValueOf[text[i]]
  IN  number[e] <= MaxInt

ScanInt ==
  /\ mode = "scan"
  /\ Peek(0) \in Digit
  /\ \E e \in (pos + 1)..Last :
       /\ Run(Digit, e)
       /\ IF Fits(e) THEN Scanned("int", e) ELSE Reported("E0005", e)

\* A bug to find: every unknown byte is skipped on its own.
CodepointLen_One(b) == 1

\* utf8_codepoint_len
CodepointLen(b) == IF b = "lead" THEN 2 ELSE 1

\* A lone "/" lands here, as does every character that starts no token.
UnexpectedChar ==
  /\ mode = "scan"
  /\ \/ Peek(0) = "/" /\ Peek(1) \notin {"/", "*"}
     \/ Peek(0) \in {"*", "backslash", "lead", "cont", "other"}
  /\ Reported("E0003", pos + CodepointLen(Peek(0)))

OpenString ==
  /\ mode = "scan"
  /\ Peek(0) = "quote"
  /\ IF Peek(1) = "quote" /\ Peek(2) = "quote"
     THEN mode' = "triple" /\ pos' = pos + 3
     ELSE mode' = "string" /\ pos' = pos + 1
  /\ start' = pos
  /\ value' = <<>>
  /\ UNCHANGED <<text, tokens, lexDiags>>

-----------------------------------------------------------------------------
(* Inside a string literal: scan_string.  Its token's name is its value.   *)

InString == mode \in {"string", "triple"}

\* The literal ends at `to`, with diagnostics `more`.
StringEnds(chars, to, more) ==
  /\ tokens' = Append(tokens, Token("string", chars, start, to))
  /\ pos' = to
  /\ mode' = "scan"
  /\ start' = 0
  /\ value' = <<>>
  /\ lexDiags' = lexDiags \cup more
  /\ UNCHANGED text

\* The literal goes on at `to`, with one more character.
StringTurn(char, to, more) ==
  /\ value' = Append(value, char)
  /\ pos' = to
  /\ lexDiags' = lexDiags \cup more
  /\ UNCHANGED <<text, mode, start, tokens>>

Unterminated(to) == {[code |-> "E0001", from |-> start, to |-> to]}

StringCloses ==
  \/ /\ mode = "string"
     /\ Peek(0) = "quote"
     /\ StringEnds(value, pos + 1, {})
  \/ /\ mode = "triple"
     /\ Peek(0) = "quote" /\ Peek(1) = "quote" /\ Peek(2) = "quote"
     /\ StringEnds(value, pos + 3, {})

\* At the end of the text, or of the line for a literal of one line.
StringBreaksOff ==
  /\ InString
  /\ pos >= Last \/ (mode = "string" /\ Peek(0) = "newline")
  /\ StringEnds(value, pos, Unterminated(pos))

\* Between triple quotes every byte becomes a character of its own.
TripleByte ==
  /\ mode = "triple"
  /\ pos < Last
  /\ ~(Peek(0) = "quote" /\ Peek(1) = "quote" /\ Peek(2) = "quote")
  /\ StringTurn(<<Peek(0)>>, pos + 1, {})

StringChar ==
  /\ mode = "string"
  /\ pos < Last
  /\ Peek(0) \notin {"quote", "backslash", "newline", "cont"}
  /\ LET to == pos + CodepointLen(Peek(0)) IN StringTurn(Spelled(to), to, {})

\* What an escape stands for.
Escaped(b) ==
  CASE b = "n" -> "newline"
    [] b \in {"t", "r", "0"} -> "control"
    [] OTHER -> b
Escapes == {"n", "t", "r", "0", "backslash", "quote"}

\* An unknown escape is reported and stands for its byte.
EscapeReport(b) ==
  IF b \in Escapes THEN {} ELSE {[code |-> "E0004", from |-> pos, to |-> pos + 2]}

StringEscape ==
  /\ mode = "string"
  /\ Peek(0) = "backslash"
  /\ IF Peek(1) = "end" THEN StringEnds(value, pos + 1, Unterminated(pos + 1))
     ELSE StringTurn(<<Escaped(Peek(1))>>, pos + 2, EscapeReport(Peek(1)))

\* The slice of the source that starts inside a character: a panic.
StringAborts ==
  /\ mode = "string"
  /\ Peek(0) = "cont"
  /\ mode' = "aborted"
  /\ UNCHANGED <<text, pos, start, value, tokens, lexDiags>>

LexEnds ==
  /\ mode = "scan"
  /\ pos >= Last
  /\ tokens' = Append(tokens, Token("eof", <<>>, Last, Last))
  /\ mode' = "lexed"
  /\ UNCHANGED <<text, pos, start, value, lexDiags>>

LexStep ==
  \/ SkipBlanks \/ SkipLineComment \/ SkipBlockComment
  \/ ScanPunct \/ ScanDash \/ ScanIdentifier \/ ScanInt \/ UnexpectedChar
  \/ OpenString \/ StringCloses \/ StringBreaksOff \/ TripleByte \/ StringChar
  \/ StringEscape \/ StringAborts
  \/ LexEnds

-----------------------------------------------------------------------------
(* Properties. *)

\* An offset where a character starts or the text ends.
Boundary(i) == i \in 0..Last /\ (i < Last => text[i + 1] # "cont")

(* The tokens lie in the text in order, none of them empty or overlapping, *)
(* and each starts and ends between characters, as each diagnostic starts: *)
(* the source is sliced at these offsets, by line_col and when a revision  *)
(* is written back, and a slice that splits a character aborts.            *)
TokensInOrder ==
  /\ \A i \in DOMAIN tokens :
       /\ Boundary(tokens[i].from) /\ Boundary(tokens[i].to)
       /\ tokens[i].kind # "eof" => tokens[i].from < tokens[i].to
  /\ \A i, j \in DOMAIN tokens : i < j => tokens[i].to <= tokens[j].from
  /\ \A d \in lexDiags : Boundary(d.from)

(* "It never aborts on a bad character -- it emits a diagnostic and moves  *)
(* on" (lexer.rs:5): no slice of the source starts inside a character.     *)
NeverAborts == mode # "aborted"

=============================================================================
