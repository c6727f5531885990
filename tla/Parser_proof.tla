---------------------------- MODULE Parser_proof ----------------------------
(***************************************************************************)
(* The scanner's invariants hold of the parser's runs, and every step of a *)
(* run brings its end nearer: for every text.                              *)
(***************************************************************************)
EXTENDS Parser, TLAPS, SequenceTheorems

-----------------------------------------------------------------------------
(* What a step of Lexer preserves. *)

\* Up to here the text is in tokens, or skipped.
Floor == IF InString THEN start ELSE pos

LexType ==
  /\ text \in Seq(Byte) /\ WholeCharacters(text)
  /\ pos \in 0..Last
  /\ start \in 0..Last
  /\ mode \in {"scan", "string", "triple", "lexed", "aborted"}
  /\ \E T : tokens \in Seq(T)

\* In a literal of one line pos is inside a character only behind an escape
\* that took half of it.
LexPlaces ==
  /\ mode \in {"scan", "lexed"} => Boundary(pos)
  /\ InString => Boundary(start) /\ start < pos
  /\ mode = "string" =>
       Boundary(pos) \/ (pos >= 2 /\ text[pos - 1] = "backslash" /\ text[pos] = "lead")

TokensBelow == \A i \in DOMAIN tokens : tokens[i].to <= Floor

(* The lexer gives up on a text only inside the character behind a         *)
(* backslash in a string: the escape of lexer.rs:229 took half of it.      *)
AbortsOnlyOnEscapes ==
  mode = "aborted" =>
    pos >= 2 /\ pos < Last /\ text[pos - 1] = "backslash" /\ text[pos] = "lead"

LexInv == LexType /\ LexPlaces /\ TokensInOrder /\ TokensBelow /\ AbortsOnlyOnEscapes

LEMMA LexInitInv == LexInit => LexInv
<1>1. ASSUME LexInit PROVE text \in Seq(Byte) /\ WholeCharacters(text) /\ Last \in Nat
  BY <1>1, LexerAssumption DEF LexInit, Last
<1>2. ASSUME LexInit PROVE tokens \in Seq({}) /\ DOMAIN tokens = {}
  BY <1>2 DEF LexInit
<1>3. ASSUME LexInit PROVE Boundary(0)
  BY <1>1, <1>3 DEF Boundary, WholeCharacters, Last
<1> QED
  BY <1>1, <1>2, <1>3
  DEF LexInit, LexInv, LexType, LexPlaces, TokensInOrder, TokensBelow, AbortsOnlyOnEscapes,
      InString, Floor

-----------------------------------------------------------------------------
(* Where characters end.                                                   *)

(* Behind a byte that does not lead a character one ends.                  *)
LEMMA BoundaryBehind ==
  ASSUME LexType, NEW to \in 1..Last, text[to] # "lead"
  PROVE  Boundary(to)
BY DEF LexType, WholeCharacters, Boundary, Last

(* The step of the scanner over a character is one boundary further.       *)
LEMMA BehindCharacter ==
  ASSUME LexType, pos < Last, text[pos + 1] # "cont",
         NEW to, to = pos + CodepointLen(text[pos + 1])
  PROVE  to \in (pos + 1)..Last /\ Boundary(to)
<1>1. CASE text[pos + 1] = "lead"
  <2>1. to = pos + 2 /\ to \in 1..Last /\ text[to] = "cont"
    BY <1>1 DEF LexType, WholeCharacters, CodepointLen, Last
  <2> QED
    BY <2>1, BoundaryBehind DEF LexType
<1>2. CASE text[pos + 1] # "lead"
  <2>1. to = pos + 1 /\ to \in 1..Last
    BY <1>2 DEF LexType, CodepointLen, Last
  <2> QED
    BY <1>2, <2>1, BoundaryBehind DEF LexType
<1> QED
  BY <1>1, <1>2

(* A byte that is looked at ahead is one of the text.                      *)
LEMMA PeekIs ==
  ASSUME LexType, NEW k \in Nat, Peek(k) # "end"
  PROVE  pos + k < Last /\ Peek(k) = text[pos + k + 1] /\ Last \in Nat
BY DEF LexType, Peek, Last

-----------------------------------------------------------------------------
(* What is common to the steps.                                            *)

(* One more token behind those that are there.                             *)
LEMMA OneMoreToken ==
  ASSUME LexInv, NEW kind, NEW name, NEW from, NEW to,
         Boundary(from), Boundary(to), Floor <= from,
         from < to \/ (kind = "eof" /\ from = to),
         text' = text, tokens' = Append(tokens, Token(kind, name, from, to)),
         \A d \in lexDiags' : Boundary(d.from)
  PROVE  /\ \E T : tokens' \in Seq(T)
         /\ \A i \in DOMAIN tokens' : tokens'[i].to <= to
         /\ TokensInOrder'
<1>1. PICK T : tokens \in Seq(T)
  BY DEF LexInv, LexType
<1> DEFINE t == Token(kind, name, from, to)
           T2 == T \cup {t}
           n == Len(tokens)
<1>2. tokens \in Seq(T2) /\ t \in T2
  BY <1>1, SeqMonotonic
<1>3. /\ tokens' \in Seq(T2) /\ Len(tokens') = n + 1 /\ n \in Nat
      /\ tokens'[n + 1] = t
      /\ \A i \in 1..n : tokens'[i] = tokens[i]
  BY <1>2, AppendProperties, LenProperties
<1>4. DOMAIN tokens' = 1..(n + 1) /\ DOMAIN tokens = 1..n
  BY <1>1, <1>3, LenProperties
<1>5. t.kind = kind /\ t.from = from /\ t.to = to
  BY DEF Token
<1>6. Last \in Nat /\ from \in 0..Last /\ to \in 0..Last /\ Floor \in Nat
  BY DEF LexInv, LexType, Boundary, Last, Floor
<1>7. \A i \in 1..n : /\ Boundary(tokens[i].from) /\ Boundary(tokens[i].to)
                      /\ tokens[i].from \in Nat /\ tokens[i].to \in Nat
                      /\ tokens[i].to <= Floor
                      /\ tokens[i].kind # "eof" => tokens[i].from < tokens[i].to
  BY <1>4 DEF LexInv, TokensInOrder, TokensBelow, Boundary
<1>8. \A i, j \in 1..n : i < j => tokens[i].to <= tokens[j].from
  BY <1>4 DEF LexInv, TokensInOrder
<1>10. \A i \in 1..(n + 1) : tokens'[i].to <= to
  BY <1>3, <1>5, <1>6, <1>7
<1>11. \A i \in 1..(n + 1) :
         /\ Boundary(tokens'[i].from) /\ Boundary(tokens'[i].to)
         /\ tokens'[i].kind # "eof" => tokens'[i].from < tokens'[i].to
  <2> TAKE i \in 1..(n + 1)
  <2>1. CASE i = n + 1
    BY <1>3, <1>5, <2>1
  <2>2. CASE i \in 1..n
    BY <1>3, <1>7, <2>2
  <2> QED
    BY <1>3, <2>1, <2>2
<1>12. \A i, j \in 1..(n + 1) : i < j => tokens'[i].to <= tokens'[j].from
  <2> TAKE i, j \in 1..(n + 1)
  <2> HAVE i < j
  <2>1. i \in 1..n /\ tokens'[i] = tokens[i]
    BY <1>3
  <2>2. CASE j = n + 1
    BY <1>3, <1>5, <1>6, <1>7, <2>1, <2>2
  <2>3. CASE j \in 1..n
    BY <1>3, <1>8, <2>1, <2>3
  <2> QED
    BY <1>3, <2>2, <2>3
<1>13. \A i \in 1..(n + 1) : tokens'[i].from \in 0..Last /\ tokens'[i].to \in 0..Last
  BY <1>11 DEF Boundary
<1>14. \A d \in lexDiags' : d.from \in 0..Len(text)' /\ (d.from < Len(text)' => text'[d.from + 1] # "cont")
  BY DEF Boundary, Last
<1>15. TokensInOrder'
  BY <1>3, <1>4, <1>11, <1>12, <1>14 DEF TokensInOrder, Boundary, Last
<1> QED
  BY <1>3, <1>4, <1>10, <1>15

(* No more tokens, and what is in them lies no further ahead.              *)
LEMMA SameTokens ==
  ASSUME LexInv, text' = text, tokens' = tokens, Floor \in Nat, Floor' \in Nat, Floor <= Floor',
         \A d \in lexDiags' : Boundary(d.from)
  PROVE  /\ \E T : tokens' \in Seq(T)
         /\ TokensInOrder'
         /\ TokensBelow'
<1>1. \E T : tokens' \in Seq(T)
  BY DEF LexInv, LexType
<1>2. TokensInOrder'
  BY DEF LexInv, TokensInOrder, Boundary, Last
<1>3. \A i \in DOMAIN tokens : tokens[i].to \in Nat
  BY DEF LexInv, TokensInOrder, Boundary
<1>4. TokensBelow'
  BY <1>3 DEF LexInv, TokensBelow
<1> QED
  BY <1>1, <1>2, <1>4

(* A step of the scanner between tokens that leaves it between tokens.     *)
LEMMA ScanGoesOn ==
  ASSUME LexInv, mode = "scan", mode' = "scan", start' = start, text' = text,
         pos' \in pos..Last, Boundary(pos'),
         \E T : tokens' \in Seq(T), TokensInOrder', \A i \in DOMAIN tokens' : tokens'[i].to <= pos'
  PROVE  LexInv'
<1>1. pos' \in 0..Last' /\ LexType'
  BY DEF LexInv, LexType, Last
<1>2. LexPlaces'
  BY DEF LexPlaces, Boundary, Last, InString
<1>3. TokensBelow' /\ AbortsOnlyOnEscapes'
  BY DEF TokensBelow, Floor, InString, AbortsOnlyOnEscapes
<1> QED
  BY <1>1, <1>2, <1>3 DEF LexInv

(* The steps Scanned and Reported.                                         *)
LEMMA ScannedInv ==
  ASSUME LexInv, mode = "scan", NEW kind, NEW to \in (pos + 1)..Last, Boundary(to),
         Scanned(kind, to)
  PROVE  LexInv'
<1>1. /\ Boundary(pos) /\ Floor = pos /\ pos < to /\ Floor <= pos
      /\ \A d \in lexDiags' : Boundary(d.from)
  BY DEF LexInv, LexType, LexPlaces, Floor, InString, Scanned, TokensInOrder
<1>2. /\ text' = text /\ tokens' = Append(tokens, Token(kind, Spelled(to), pos, to))
      /\ pos' = to /\ mode' = mode /\ start' = start
  BY DEF Scanned
<1>3. /\ \E T : tokens' \in Seq(T)
      /\ \A i \in DOMAIN tokens' : tokens'[i].to <= to
      /\ TokensInOrder'
  BY <1>1, <1>2, OneMoreToken
<1>4. pos' \in pos..Last /\ Boundary(pos')
  BY <1>2 DEF LexInv, LexType, Last
<1> QED
  BY <1>2, <1>3, <1>4, ScanGoesOn

LEMMA SkippedInv ==
  ASSUME LexInv, mode = "scan", mode' = "scan", start' = start, text' = text, tokens' = tokens,
         pos' \in pos..Last, Boundary(pos'),
         \A d \in lexDiags' : Boundary(d.from)
  PROVE  LexInv'
<1>1. Floor = pos /\ Floor' = pos' /\ Floor \in Nat /\ Floor' \in Nat /\ Floor <= Floor'
  BY DEF LexInv, LexType, Floor, InString, Last
<1>2. (\E T : tokens' \in Seq(T)) /\ TokensInOrder' /\ TokensBelow'
  BY <1>1, SameTokens
<1>3. \A i \in DOMAIN tokens' : tokens'[i].to <= pos'
  BY <1>1, <1>2 DEF TokensBelow
<1> QED
  BY <1>2, <1>3, ScanGoesOn

LEMMA ReportedInv ==
  ASSUME LexInv, mode = "scan", NEW code, NEW to \in (pos + 1)..Last, Boundary(to),
         Reported(code, to)
  PROVE  LexInv'
<1>1. Boundary(pos) /\ \A d \in lexDiags : Boundary(d.from)
  BY DEF LexInv, LexPlaces, TokensInOrder
<1>2. \A d \in lexDiags' : Boundary(d.from)
  BY <1>1 DEF Reported
<1>3. pos' \in pos..Last /\ Boundary(pos')
  BY DEF Reported, LexInv, LexType, Last
<1> QED
  BY <1>2, <1>3, SkippedInv DEF Reported

-----------------------------------------------------------------------------
(* The actions between tokens.                                             *)

(* A run of bytes that lead no character ends where one ends.              *)
LEMMA RunEnds ==
  ASSUME LexType, NEW S, "lead" \notin S, NEW e \in (pos + 1)..Last, Run(S, e)
  PROVE  e \in 1..Last /\ Boundary(e)
<1>1. e \in 1..Last /\ text[e] \in S
  BY DEF LexType, Run, Last
<1> QED
  BY <1>1, BoundaryBehind

LEMMA SkipInv ==
  ASSUME LexInv, SkipBlanks \/ SkipLineComment \/ SkipBlockComment
  PROVE  LexInv'
<1> USE DEF LexInv
<1>0. Boundary(pos) \/ mode # "scan"
  BY DEF LexPlaces
<1>d. \A d \in lexDiags : Boundary(d.from)
  BY DEF TokensInOrder
<1>l. Last \in Nat /\ pos \in 0..Last
  BY DEF LexType, Last
<1>1. CASE SkipBlanks
  <2>1. PICK e \in (pos + 1)..Last : Run(Blank, e) /\ pos' = e
    BY <1>1 DEF SkipBlanks
  <2>2. Boundary(e) /\ pos' \in pos..Last
    BY <1>l, <2>1, RunEnds DEF Blank
  <2> QED
    BY <1>1, <1>d, <2>1, <2>2, SkippedInv DEF SkipBlanks
<1>2. CASE SkipLineComment
  <2>1. PICK e \in (pos + 2)..Last : (e < Last => text[e + 1] = "newline") /\ pos' = e
    BY <1>2 DEF SkipLineComment
  <2>2. Boundary(e) /\ pos' \in pos..Last
    BY <1>l, <2>1 DEF Boundary
  <2> QED
    BY <1>2, <1>d, <2>1, <2>2, SkippedInv DEF SkipLineComment
<1>3. CASE SkipBlockComment
  <2>1. PICK e \in (pos + 2)..Last :
          \/ Closes(e) /\ pos' = e + 2 /\ UNCHANGED lexDiags
          \/ /\ e = Last
             /\ pos' = Last
             /\ lexDiags' = lexDiags \cup {[code |-> "E0002", from |-> pos, to |-> Last]}
    BY <1>3 DEF SkipBlockComment
  <2>2. pos' \in pos..Last /\ Boundary(pos')
    <3>1. CASE Closes(e) /\ pos' = e + 2
      <4>1. e + 2 \in 1..Last /\ text[e + 2] # "lead"
        BY <1>l, <3>1 DEF Closes
      <4> QED
        BY <1>l, <3>1, <4>1, BoundaryBehind
    <3>2. CASE pos' = Last
      BY <1>l, <3>2 DEF Boundary
    <3> QED
      BY <2>1, <3>1, <3>2
  <2>3. mode = "scan" /\ \A d \in lexDiags' : Boundary(d.from)
    BY <1>0, <1>3, <1>d, <2>1 DEF SkipBlockComment
  <2> QED
    BY <1>3, <2>2, <2>3, SkippedInv DEF SkipBlockComment
<1> QED
  BY <1>1, <1>2, <1>3

LEMMA ScanInv ==
  ASSUME LexInv, ScanPunct \/ ScanDash \/ ScanIdentifier \/ ScanInt \/ UnexpectedChar
  PROVE  LexInv'
<1>0. LexType /\ Last \in Nat /\ pos \in 0..Last
  BY DEF LexInv, LexType, Last
<1>1. CASE ScanPunct
  <2>1. Peek(0) # "end" /\ Peek(0) # "lead" /\ Scanned(Peek(0), pos + 1) /\ mode = "scan"
    BY <1>1 DEF ScanPunct, Punct
  <2>2. pos < Last /\ text[pos + 1] # "lead"
    BY <1>0, <2>1, PeekIs
  <2>3. pos + 1 \in (pos + 1)..Last /\ Boundary(pos + 1)
    BY <1>0, <2>2, BoundaryBehind
  <2> QED
    BY <2>1, <2>3, ScannedInv
<1>2. CASE ScanDash
  <2>1. pos < Last /\ text[pos + 1] = "-"
    BY <1>0, <1>2, PeekIs DEF ScanDash
  <2>2. pos + 1 \in (pos + 1)..Last /\ Boundary(pos + 1)
    BY <1>0, <2>1, BoundaryBehind
  <2>3. CASE Peek(1) = ">"
    <3>1. pos + 1 < Last /\ text[pos + 2] = ">"
      BY <1>0, <2>3, PeekIs
    <3>2. pos + 2 \in (pos + 1)..Last /\ Boundary(pos + 2)
      BY <1>0, <3>1, BoundaryBehind
    <3> QED
      BY <1>2, <2>3, <3>2, ScannedInv DEF ScanDash
  <2>4. CASE Peek(1) # ">"
    BY <1>2, <2>2, <2>4, ReportedInv DEF ScanDash
  <2> QED
    BY <2>3, <2>4
<1>3. CASE ScanIdentifier
  <2>1. PICK e \in (pos + 1)..Last : Run(NameByte, e) /\ Scanned("ident", e)
    BY <1>3 DEF ScanIdentifier
  <2>2. Boundary(e)
    BY <1>0, <2>1, RunEnds, LexerAssumption DEF NameByte
  <2> QED
    BY <1>3, <2>1, <2>2, ScannedInv DEF ScanIdentifier
<1>4. CASE ScanInt
  <2>1. PICK e \in (pos + 1)..Last : /\ Run(Digit, e)
                                     /\ Scanned("int", e) \/ Reported("E0005", e)
    BY <1>4 DEF ScanInt
  <2>2. Boundary(e)
    BY <1>0, <2>1, RunEnds, LexerAssumption
  <2> QED
    BY <1>4, <2>1, <2>2, ScannedInv, ReportedInv DEF ScanInt
<1>5. CASE UnexpectedChar
  <2>1. mode = "scan" /\ Peek(0) # "end" /\ Reported("E0003", pos + CodepointLen(Peek(0)))
    BY <1>5 DEF UnexpectedChar
  <2>2. pos < Last /\ Peek(0) = text[pos + 1]
    BY <1>0, <2>1, PeekIs
  <2>3. text[pos + 1] # "cont"
    BY <1>0, <2>1, <2>2 DEF LexInv, LexPlaces, Boundary
  <2>4. pos + CodepointLen(Peek(0)) \in (pos + 1)..Last /\ Boundary(pos + CodepointLen(Peek(0)))
    BY <1>0, <2>2, <2>3, BehindCharacter
  <2> QED
    BY <2>1, <2>4, ReportedInv
<1> QED
  BY <1>1, <1>2, <1>3, <1>4, <1>5

-----------------------------------------------------------------------------
(* The actions in a string literal.                                        *)

LEMMA OpenStringInv ==
  ASSUME LexInv, OpenString
  PROVE  LexInv'
<1>0. LexType /\ Last \in Nat /\ pos \in 0..Last /\ Boundary(pos)
  BY DEF LexInv, LexType, LexPlaces, Last, OpenString
<1>1. pos < Last /\ text[pos + 1] = "quote"
  BY <1>0, PeekIs DEF OpenString
<1>2. Boundary(pos + 1)
  BY <1>0, <1>1, BoundaryBehind
<1>3. \/ mode' = "string" /\ pos' = pos + 1
      \/ mode' = "triple" /\ pos' = pos + 3 /\ Peek(2) = "quote"
  BY DEF OpenString
<1>4. pos' \in 0..Last /\ start' = pos /\ pos < pos' /\ text' = text /\ tokens' = tokens
        /\ lexDiags' = lexDiags
  BY <1>0, <1>1, <1>3, PeekIs DEF OpenString
<1>5. LexType'
  BY <1>0, <1>3, <1>4 DEF LexType, Last
<1>6. LexPlaces'
  BY <1>0, <1>2, <1>3, <1>4 DEF LexPlaces, InString, Boundary, Last
<1>7. Floor = pos /\ Floor' = pos
  BY <1>3, <1>4 DEF Floor, InString, OpenString
<1>8. TokensInOrder' /\ TokensBelow'
  BY <1>0, <1>4, <1>7, SameTokens DEF LexInv, TokensInOrder
<1>9. AbortsOnlyOnEscapes'
  BY <1>3 DEF AbortsOnlyOnEscapes
<1> QED
  BY <1>5, <1>6, <1>8, <1>9 DEF LexInv

(* A literal that ends gives one token.                                    *)
LEMMA StringEndsInv ==
  ASSUME LexInv, InString, NEW chars, NEW to \in pos..Last, Boundary(to), NEW more,
         \A d \in more : d.from = start,
         StringEnds(chars, to, more)
  PROVE  LexInv'
<1>1. /\ Boundary(start) /\ start < to /\ Floor = start /\ Floor <= start
      /\ \A d \in lexDiags' : Boundary(d.from)
  BY DEF LexInv, LexType, LexPlaces, Floor, StringEnds, TokensInOrder, Last
<1>2. /\ text' = text /\ tokens' = Append(tokens, Token("string", chars, start, to))
      /\ pos' = to /\ mode' = "scan" /\ start' = 0
  BY DEF StringEnds
<1>3. /\ \E T : tokens' \in Seq(T)
      /\ \A i \in DOMAIN tokens' : tokens'[i].to <= to
      /\ TokensInOrder'
  BY <1>1, <1>2, OneMoreToken
<1>4. LexType' /\ LexPlaces'
  BY <1>2, <1>3 DEF LexInv, LexType, LexPlaces, InString, Boundary, Last
<1>5. TokensBelow' /\ AbortsOnlyOnEscapes'
  BY <1>2, <1>3 DEF TokensBelow, Floor, InString, AbortsOnlyOnEscapes
<1> QED
  BY <1>3, <1>4, <1>5 DEF LexInv

LEMMA StringDoneInv ==
  ASSUME LexInv, StringCloses \/ StringBreaksOff
  PROVE  LexInv'
<1>0. LexType /\ Last \in Nat /\ pos \in 0..Last
  BY DEF LexInv, LexType, Last
<1>u. \A to : \A d \in Unterminated(to) : d.from = start
  BY DEF Unterminated
<1>1. CASE mode = "string" /\ Peek(0) = "quote" /\ StringEnds(value, pos + 1, {})
  <2>1. pos < Last /\ text[pos + 1] = "quote"
    BY <1>0, <1>1, PeekIs
  <2>2. pos + 1 \in pos..Last /\ Boundary(pos + 1)
    BY <1>0, <2>1, BoundaryBehind
  <2> QED
    BY <1>1, <2>2, StringEndsInv DEF InString
<1>2. CASE mode = "triple" /\ Peek(2) = "quote" /\ StringEnds(value, pos + 3, {})
  <2>1. pos + 2 < Last /\ text[pos + 3] = "quote"
    BY <1>0, <1>2, PeekIs
  <2>2. pos + 3 \in pos..Last /\ Boundary(pos + 3)
    BY <1>0, <2>1, BoundaryBehind
  <2> QED
    BY <1>2, <2>2, StringEndsInv DEF InString
<1>3. CASE StringBreaksOff
  <2>1. CASE pos >= Last
    <3>1. pos \in pos..Last /\ Boundary(pos)
      BY <1>0, <2>1 DEF Boundary
    <3> QED
      BY <1>3, <1>u, <3>1, StringEndsInv DEF StringBreaksOff
  <2>2. CASE Peek(0) = "newline"
    <3>1. text[pos + 1] = "newline"
      BY <1>0, <2>2, PeekIs
    <3>2. pos \in pos..Last /\ Boundary(pos)
      BY <1>0, <3>1 DEF Boundary
    <3> QED
      BY <1>3, <1>u, <3>2, StringEndsInv DEF StringBreaksOff
  <2> QED
    BY <1>3, <2>1, <2>2 DEF StringBreaksOff
<1> QED
  BY <1>1, <1>2, <1>3 DEF StringCloses

(* A turn that stays in the literal.                                       *)
LEMMA StringTurnInv ==
  ASSUME LexInv, InString, NEW char, NEW to \in (pos + 1)..Last, NEW more,
         \A d \in more : d.from = pos /\ Boundary(pos),
         mode = "string" =>
           Boundary(to) \/ (to >= 2 /\ text[to - 1] = "backslash" /\ text[to] = "lead"),
         StringTurn(char, to, more)
  PROVE  LexInv'
<1>1. text' = text /\ pos' = to /\ mode' = mode /\ start' = start /\ tokens' = tokens
  BY DEF StringTurn
<1>2. LexType' /\ InString'
  BY <1>1 DEF LexInv, LexType, InString, Last
<1>3. LexPlaces'
  BY <1>1 DEF LexInv, LexType, LexPlaces, InString, Boundary, Last
<1>4. Floor = start /\ Floor' = start /\ Floor \in Nat /\ \A d \in lexDiags' : Boundary(d.from)
  BY <1>1, <1>2 DEF LexInv, LexType, Floor, StringTurn, TokensInOrder, Last
<1>5. TokensInOrder' /\ TokensBelow'
  BY <1>1, <1>4, SameTokens
<1>6. AbortsOnlyOnEscapes'
  BY <1>1 DEF AbortsOnlyOnEscapes, InString
<1> QED
  BY <1>2, <1>3, <1>5, <1>6 DEF LexInv

LEMMA StringGoesOnInv ==
  ASSUME LexInv, TripleByte \/ StringChar
  PROVE  LexInv'
<1>0. LexType /\ Last \in Nat /\ pos \in 0..Last
  BY DEF LexInv, LexType, Last
<1>1. CASE TripleByte
  <2>1. pos + 1 \in (pos + 1)..Last
    BY <1>0, <1>1 DEF TripleByte
  <2> QED
    BY <1>1, <2>1, StringTurnInv DEF TripleByte, InString
<1>2. CASE StringChar
  <2>1. pos < Last /\ text[pos + 1] # "cont" /\ Peek(0) = text[pos + 1]
    BY <1>0, <1>2 DEF StringChar, Peek
  <2>2. PICK to : to = pos + CodepointLen(text[pos + 1])
    OBVIOUS
  <2>3. to \in (pos + 1)..Last /\ Boundary(to)
    BY <1>0, <2>1, <2>2, BehindCharacter
  <2>4. StringTurn(Spelled(to), to, {}) /\ mode = "string"
    BY <1>2, <2>1, <2>2 DEF StringChar
  <2> QED
    BY <2>3, <2>4, StringTurnInv DEF InString
<1> QED
  BY <1>1, <1>2

(* An escape takes the next byte, which may be half a character.           *)
LEMMA StringEscapeInv ==
  ASSUME LexInv, StringEscape
  PROVE  LexInv'
<1>0. LexType /\ Last \in Nat /\ pos \in 0..Last /\ InString
  BY DEF LexInv, LexType, Last, StringEscape, InString
<1>1. pos < Last /\ text[pos + 1] = "backslash"
  BY <1>0, PeekIs DEF StringEscape
<1>2. CASE Peek(1) = "end"
  <2>1. pos + 1 \in pos..Last /\ Boundary(pos + 1)
    BY <1>0, <1>1, BoundaryBehind
  <2>2. \A d \in Unterminated(pos + 1) : d.from = start
    BY DEF Unterminated
  <2> QED
    BY <1>0, <1>2, <2>1, <2>2, StringEndsInv DEF StringEscape
<1>3. CASE Peek(1) # "end"
  <2>1. pos + 1 < Last /\ pos + 2 \in (pos + 1)..Last
    BY <1>0, <1>3, PeekIs
  <2>2. \/ Boundary(pos + 2)
        \/ pos + 2 >= 2 /\ text[pos + 2 - 1] = "backslash" /\ text[pos + 2] = "lead"
    BY <1>0, <1>1, <2>1, BoundaryBehind
  <2>3. Boundary(pos)
    BY <1>0, <1>1 DEF Boundary
  <2>4. \A d \in EscapeReport(Peek(1)) : d.from = pos /\ Boundary(pos)
    BY <2>3 DEF EscapeReport
  <2> QED
    BY <1>0, <1>3, <2>1, <2>2, <2>4, StringTurnInv DEF StringEscape
<1> QED
  BY <1>2, <1>3

(* The panic: pos is inside a character, so an escape was in front of it.  *)
LEMMA StringAbortsInv ==
  ASSUME LexInv, StringAborts
  PROVE  LexInv'
<1>0. LexType /\ Last \in Nat /\ pos \in 0..Last /\ mode = "string"
  BY DEF LexInv, LexType, Last, StringAborts
<1>1. pos < Last /\ text[pos + 1] = "cont"
  BY <1>0, PeekIs DEF StringAborts
<1>2. pos >= 2 /\ text[pos - 1] = "backslash" /\ text[pos] = "lead"
  BY <1>0, <1>1 DEF LexInv, LexPlaces, Boundary
<1>3. /\ text' = text /\ pos' = pos /\ start' = start /\ tokens' = tokens /\ lexDiags' = lexDiags
      /\ mode' = "aborted"
  BY DEF StringAborts
<1>4. AbortsOnlyOnEscapes'
  BY <1>1, <1>2, <1>3 DEF AbortsOnlyOnEscapes, Last
<1>5. LexType' /\ LexPlaces'
  BY <1>0, <1>3 DEF LexType, LexPlaces, InString, Last
<1>6. start < pos
  BY <1>0 DEF LexInv, LexPlaces, InString
<1>7. Floor = start /\ Floor' = pos
  BY <1>0, <1>3 DEF Floor, InString
<1>8. start \in Nat /\ pos \in Nat /\ start <= pos
  BY <1>0, <1>6 DEF LexType
<1>9. \A d \in lexDiags' : Boundary(d.from)
  BY <1>3 DEF LexInv, TokensInOrder
<1>10. TokensInOrder' /\ TokensBelow'
  BY <1>3, <1>7, <1>8, <1>9, SameTokens
<1> QED
  BY <1>4, <1>5, <1>10 DEF LexInv

LEMMA LexEndsInv ==
  ASSUME LexInv, LexEnds
  PROVE  LexInv' /\ tokens' # <<>> /\ tokens'[Len(tokens')].kind = "eof"
<1>0. LexType /\ Last \in Nat /\ pos = Last /\ Boundary(Last) /\ Floor = Last
  BY DEF LexInv, LexType, LexPlaces, Last, LexEnds, Floor, InString
<1>1. /\ text' = text /\ pos' = pos /\ start' = start /\ lexDiags' = lexDiags /\ mode' = "lexed"
      /\ tokens' = Append(tokens, Token("eof", <<>>, Last, Last))
  BY DEF LexEnds
<1>2. \A d \in lexDiags' : Boundary(d.from)
  BY <1>1 DEF LexInv, TokensInOrder
<1>3. /\ \E T : tokens' \in Seq(T)
      /\ \A i \in DOMAIN tokens' : tokens'[i].to <= Last
      /\ TokensInOrder'
  BY <1>0, <1>1, <1>2, OneMoreToken
<1>4. LexType' /\ LexPlaces'
  BY <1>0, <1>1, <1>3 DEF LexType, LexPlaces, InString, Boundary, Last
<1>5. TokensBelow' /\ AbortsOnlyOnEscapes'
  BY <1>0, <1>1, <1>3 DEF TokensBelow, Floor, InString, AbortsOnlyOnEscapes
<1>6. tokens' # <<>> /\ tokens'[Len(tokens')].kind = "eof"
  <2>1. PICK T : tokens \in Seq(T)
    BY <1>0 DEF LexType
  <2> DEFINE eof == Token("eof", <<>>, Last, Last)
  <2>2. tokens \in Seq(T \cup {eof}) /\ eof \in T \cup {eof}
    BY <2>1, SeqMonotonic
  <2>3. Len(Append(tokens, eof)) = Len(tokens) + 1 /\ Append(tokens, eof)[Len(tokens) + 1] = eof
    BY <2>2, AppendProperties
  <2>4. eof.kind = "eof" /\ Len(tokens) \in Nat
    BY <2>1 DEF Token
  <2> QED
    BY <1>1, <2>3, <2>4
<1> QED
  BY <1>3, <1>4, <1>5, <1>6 DEF LexInv

(* Every step of the scanner, and every step that leaves it alone.         *)
LEMMA LexStepInv ==
  ASSUME LexInv, LexStep
  PROVE  LexInv'
BY SkipInv, ScanInv, OpenStringInv, StringDoneInv, StringGoesOnInv, StringEscapeInv,
   StringAbortsInv, LexEndsInv
DEF LexStep

LEMMA LexStutterInv ==
  ASSUME LexInv, UNCHANGED lexVars
  PROVE  LexInv'
BY DEF lexVars, LexInv, LexType, LexPlaces, TokensInOrder, TokensBelow, AbortsOnlyOnEscapes,
       InString, Floor, Boundary, Last
-----------------------------------------------------------------------------
(* The parser. *)

Doings == {"start", "uses", "loop", "value", "return", "close", "top", "parsed"}

\* While the text is scanned the parser has not begun; then the cursor is on
\* a token, and the last token is the end of the text.
ParsePlaces ==
  /\ doing \in Doings
  /\ \E S : stack \in Seq(S)
  /\ mode # "lexed" => doing = "start" /\ stack = <<>> /\ cursor = 1
  /\ mode = "lexed" =>
       /\ tokens # <<>> /\ tokens[Len(tokens)].kind = "eof"
       /\ cursor \in 1..Len(tokens)

ParseInv == LexInv /\ ParsePlaces

LEMMA ParseInitInv == Init => ParseInv
<1>1. ASSUME Init PROVE stack \in Seq({})
  BY <1>1 DEF Init
<1> QED
  BY <1>1, LexInitInv DEF Init, LexInit, ParseInv, ParsePlaces, Doings

LEMMA ParseStutterInv ==
  ASSUME ParseInv, UNCHANGED vars
  PROVE  ParseInv'
<1>1. LexInv'
  BY LexStutterInv DEF ParseInv, vars, lexVars
<1> QED
  BY <1>1 DEF ParseInv, ParsePlaces, vars

(* Every action of the parser leaves the scanner's state alone.            *)
LEMMA ParseKeepsLexer ==
  ASSUME ParseStep
  PROVE  UNCHANGED lexVars
BY DEF ParseStep, EmptyFile, NoSlice, OpenSlice, ParseEnds, NoMoreUses, BadUse, GoodUse,
       CloseSlice, CloseBlock, NotAnItem, NeitherFieldNorBlock, UseAfterDecl, OpenField,
       OpenBlock, AfterItem, FieldReturns, Literal, NotAValue, BareName, QualifiedName,
       Yield, OpenMap, NotAKey, MapKey, MapReturns, CloseMap, OpenList, OpenArguments,
       ListReturns, ArgumentReturns, CloseBracket, Step

-----------------------------------------------------------------------------
(* The stack, whatever its frames are.                                     *)

LEMMA Pushed ==
  ASSUME ParseInv, NEW frame, Push(frame)
  PROVE  /\ \E S : stack' \in Seq(S)
         /\ Len(stack) \in Nat /\ Len(stack') = Len(stack) + 1
<1>1. PICK S : stack \in Seq(S)
  BY DEF ParseInv, ParsePlaces
<1>2. stack \in Seq(S \cup {frame}) /\ frame \in S \cup {frame}
  BY <1>1, SeqMonotonic
<1>3. stack' \in Seq(S \cup {frame}) /\ Len(stack') = Len(stack) + 1
  BY <1>2, AppendProperties DEF Push
<1> QED
  BY <1>1, <1>3, LenProperties

LEMMA TopSet ==
  ASSUME ParseInv, stack # <<>>, NEW frame, SetTop(frame)
  PROVE  /\ \E S : stack' \in Seq(S)
         /\ Len(stack) \in Nat /\ Len(stack') = Len(stack)
<1>1. PICK S : stack \in Seq(S)
  BY DEF ParseInv, ParsePlaces
<1> DEFINE S2 == S \cup {frame}
<1>2. stack \in Seq(S2) /\ frame \in S2
  BY <1>1, SeqMonotonic
<1>3. ASSUME NEW T, NEW s \in Seq(T), NEW e \in T, NEW i \in 1..Len(s)
      PROVE  [s EXCEPT ![i] = e] \in Seq(T) /\ Len([s EXCEPT ![i] = e]) = Len(s)
  BY <1>3
<1>4. Len(stack) \in 1..Len(stack)
  BY <1>1
<1>5. stack' \in Seq(S2) /\ Len(stack') = Len(stack)
  BY <1>2, <1>3, <1>4 DEF SetTop
<1> QED
  BY <1>1, <1>5, LenProperties

LEMMA Popped ==
  ASSUME ParseInv, stack # <<>>, stack' = Rest
  PROVE  /\ \E S : stack' \in Seq(S)
         /\ Len(stack) \in Nat /\ Len(stack') = Len(stack) - 1
<1>1. PICK S : stack \in Seq(S)
  BY DEF ParseInv, ParsePlaces
<1>2. Len(stack) \in Nat \ {0} /\ Len(stack) - 1 \in Nat
  BY <1>1
<1>3. ASSUME NEW n \in Nat, n = Len(stack) - 1
      PROVE  SubSeq(stack, 1, n) \in Seq(S) /\ Len(SubSeq(stack, 1, n)) = n
  <2>1. \A i \in 1..n : stack[i] \in S
    BY <1>1, <1>3
  <2> QED
    BY <2>1, <1>1, <1>3, SubSeqProperties
<1> QED
  BY <1>2, <1>3 DEF Rest

LEMMA StackKept ==
  ASSUME ParseInv, stack' = stack
  PROVE  (\E S : stack' \in Seq(S)) /\ Len(stack) \in Nat /\ Len(stack') = Len(stack)
BY LenProperties DEF ParseInv, ParsePlaces

-----------------------------------------------------------------------------
(* The cursor.                                                             *)

(* Only the last token ends the text, so before another there is a token   *)
(* to consume.                                                             *)
LEMMA Ahead ==
  ASSUME ParseInv, mode = "lexed", NEW k \in Nat
  PROVE  /\ Len(tokens) \in Nat /\ cursor \in 1..Len(tokens)
         /\ After(k) \in cursor..Len(tokens)
         /\ cursor + k <= Len(tokens) => After(k) = cursor + k
         /\ KindAt(k) # "eof" => cursor + k < Len(tokens)
<1>1. Len(tokens) \in Nat /\ cursor \in 1..Len(tokens) /\ tokens[Len(tokens)].kind = "eof"
  BY LenProperties DEF ParseInv, ParsePlaces, LexInv, LexType
<1> QED
  BY <1>1 DEF After, AtMost, KindAt

(* What a turn of n tokens is sure to consume.                             *)
LEMMA Consumes ==
  ASSUME ParseInv, mode = "lexed", NEW n \in Nat
  PROVE  /\ n >= 1 /\ KindAt(0) # "eof" => After(n) > cursor
         /\ n >= 2 /\ KindAt(1) # "eof" => After(n) > cursor + 1
<1>1. Len(tokens) \in Nat /\ cursor \in 1..Len(tokens)
  BY Ahead
<1>2. (KindAt(0) # "eof" => cursor < Len(tokens)) /\ (KindAt(1) # "eof" => cursor + 1 < Len(tokens))
  BY <1>1, Ahead
<1> QED
  BY <1>1, <1>2 DEF After, AtMost

(* The sum: l tokens, of which c and then d are behind; a and b, what the  *)
(* calls need before and after.                                            *)
LEMMA Balance ==
  ASSUME NEW l \in Nat, NEW c \in Nat, NEW d \in Nat, NEW a \in Nat, NEW b \in Nat,
         b < a + 9 * (d - c)
  PROVE  9 * (l - d) + b < 9 * (l - c) + a
OBVIOUS

(* A turn that consumes enough for the calls it opens and what they have   *)
(* to do.                                                                  *)
LEMMA Turn ==
  ASSUME ParseInv, mode = "lexed", NEW n \in Nat, NEW reports, NEW next \in Doings \ {"start"},
         Step(n, reports, next), ParseRank \in Nat, ParseRank' \in Nat, Len(stack) \in Nat,
         Len(stack') \in Nat,
         \E S : stack' \in Seq(S),
         8 * Len(stack') + ParseRank' < 8 * Len(stack) + ParseRank + 9 * (After(n) - cursor)
  PROVE  ParseInv' /\ Fuel' < Fuel
<1>1. LexInv'
  BY LexStutterInv DEF Step, ParseInv
<1>2. /\ mode' = mode /\ tokens' = tokens /\ cursor' = After(n) /\ doing' = next
  BY DEF Step, lexVars
<1>3. /\ Len(tokens) \in Nat /\ cursor \in 1..Len(tokens)
      /\ After(n) \in cursor..Len(tokens)
  BY Ahead
<1>4. ParsePlaces'
  BY <1>2, <1>3 DEF ParseInv, ParsePlaces
<1>5. Fuel = 9 * (Len(tokens) - cursor) + 8 * Len(stack) + ParseRank
  BY DEF Fuel
<1>6. Fuel' = 9 * (Len(tokens) - After(n)) + 8 * Len(stack') + ParseRank'
  BY <1>2 DEF Fuel
<1>7. /\ cursor \in Nat /\ After(n) \in Nat
      /\ 8 * Len(stack) + ParseRank \in Nat /\ 8 * Len(stack') + ParseRank' \in Nat
  BY <1>3
<1>8. Fuel' < Fuel
  <2> DEFINE a == 8 * Len(stack) + ParseRank
             b == 8 * Len(stack') + ParseRank'
  <2>1. a \in Nat /\ b \in Nat /\ b < a + 9 * (After(n) - cursor)
    BY <1>7
  <2>2. Fuel = 9 * (Len(tokens) - cursor) + a /\ Fuel' = 9 * (Len(tokens) - After(n)) + b
    BY <1>3, <1>5, <1>6, <1>7
  <2> HIDE DEF a, b
  <2> QED
    BY <2>1, <2>2, <1>3, <1>7, Balance
<1> QED
  BY <1>1, <1>4, <1>8 DEF ParseInv

(* An expected token makes a turn longer by one at most.                   *)
LEMMA TurnLength ==
  ASSUME NEW kind, NEW k, NEW m \in Nat, NEW reports, NEW next,
         Step(m + Eaten(kind, k), reports, next)
  PROVE  \E n \in m..(m + 1) : Step(n, reports, next)
<1>1. CASE KindAt(k) = kind
  <2>1. m + 1 \in m..(m + 1) /\ Eaten(kind, k) = 1
    BY <1>1 DEF Eaten
  <2> QED
    BY <2>1
<1>2. CASE KindAt(k) # kind
  <2>1. m + 0 \in m..(m + 1) /\ Eaten(kind, k) = 0
    BY <1>2 DEF Eaten
  <2> QED
    BY <2>1
<1> QED
  BY <1>1, <1>2

LEMMA EatenLength ==
  ASSUME NEW kind, NEW k, NEW reports, NEW next, Step(Eaten(kind, k), reports, next)
  PROVE  \E n \in 0..1 : Step(n, reports, next)
<1>1. Eaten(kind, k) \in 0..1
  BY DEF Eaten
<1> QED
  BY <1>1

\* The calls that are open stay as they are, but for what the last has read.
Keeps == stack' = stack \/ (stack # <<>> /\ \E frame : SetTop(frame))

(* A turn within a call is nearer its end, or consumes.                    *)
LEMMA TurnKeeps ==
  ASSUME ParseInv, mode = "lexed", NEW n \in Nat, NEW reports, NEW next \in Doings \ {"start"},
         Step(n, reports, next), Keeps, ParseRank \in Nat, ParseRank' \in Nat,
         \/ ParseRank' < ParseRank
         \/ After(n) > cursor /\ ParseRank' < ParseRank + 9
  PROVE  ParseInv' /\ Fuel' < Fuel
<1>1. (\E S : stack' \in Seq(S)) /\ Len(stack) \in Nat /\ Len(stack') = Len(stack)
  BY StackKept, TopSet DEF Keeps
<1>2. After(n) \in cursor..Len(tokens) /\ Len(tokens) \in Nat /\ cursor \in 1..Len(tokens)
  BY Ahead
<1>3. 8 * Len(stack') + ParseRank' < 8 * Len(stack) + ParseRank + 9 * (After(n) - cursor)
  BY <1>1, <1>2
<1> QED
  BY <1>1, <1>3, Turn

(* A turn that opens a call consumes.                                      *)
LEMMA TurnOpens ==
  ASSUME ParseInv, mode = "lexed", NEW n \in Nat, NEW reports, NEW next \in Doings \ {"start"},
         Step(n, reports, next), NEW frame, Push(frame), ParseRank \in Nat, ParseRank' \in Nat,
         \/ After(n) > cursor /\ ParseRank' < ParseRank + 1
         \/ After(n) > cursor + 1 /\ ParseRank' < ParseRank + 10
  PROVE  ParseInv' /\ Fuel' < Fuel
<1>1. (\E S : stack' \in Seq(S)) /\ Len(stack) \in Nat /\ Len(stack') = Len(stack) + 1
  BY Pushed
<1>2. After(n) \in cursor..Len(tokens) /\ Len(tokens) \in Nat /\ cursor \in 1..Len(tokens)
  BY Ahead
<1>3. 8 * Len(stack') + ParseRank' < 8 * Len(stack) + ParseRank + 9 * (After(n) - cursor)
  BY <1>1, <1>2
<1>4. Len(stack') \in Nat
  BY <1>1
<1> QED
  BY <1>1, <1>3, <1>4, Turn

(* A turn that returns need not consume.                                   *)
LEMMA TurnReturns ==
  ASSUME ParseInv, mode = "lexed", NEW n \in Nat, NEW reports, NEW next \in Doings \ {"start"},
         Step(n, reports, next), stack # <<>>, stack' = Rest,
         ParseRank \in Nat, ParseRank' \in Nat, ParseRank' < ParseRank + 8
  PROVE  ParseInv' /\ Fuel' < Fuel
<1>1. (\E S : stack' \in Seq(S)) /\ Len(stack) \in Nat /\ Len(stack') = Len(stack) - 1
  BY Popped
<1>2. After(n) \in cursor..Len(tokens) /\ Len(tokens) \in Nat /\ cursor \in 1..Len(tokens)
  BY Ahead
<1>3. 8 * Len(stack') + ParseRank' < 8 * Len(stack) + ParseRank + 9 * (After(n) - cursor)
  BY <1>1, <1>2
<1>4. Len(stack') \in Nat
  BY <1>1, LenProperties
<1> QED
  BY <1>1, <1>3, <1>4, Turn

-----------------------------------------------------------------------------
(* The actions, rule by rule.                                              *)

LEMMA SliceStep ==
  ASSUME ParseInv, EmptyFile \/ NoSlice \/ OpenSlice \/ ParseEnds
  PROVE  ParseInv' /\ Fuel' < Fuel
<1>0. mode = "lexed"
  BY DEF EmptyFile, NoSlice, OpenSlice, ParseEnds, Starts, ParseInv, ParsePlaces
<1>1. CASE EmptyFile
  <2>1. Step(0, Report("E0105", 0), "parsed") /\ Keeps
    BY <1>1 DEF EmptyFile, Keeps
  <2>2. ParseRank = 3 /\ ParseRank' = 0
    BY <1>1 DEF EmptyFile, Starts, Step, ParseRank
  <2> QED
    BY <1>0, <2>1, <2>2, TurnKeeps DEF Doings
<1>2. CASE NoSlice
  <2>1. (\E n \in 0..1 : \E reports : Step(n, reports, "top")) /\ Keeps
    BY <1>2 DEF NoSlice, Keeps
  <2>2. ParseRank = 3 /\ ParseRank' = 1
    BY <1>2, <2>1 DEF NoSlice, Starts, Step, ParseRank
  <2> QED
    BY <1>0, <2>1, <2>2, TurnKeeps DEF Doings
<1>3. CASE OpenSlice
  <2>1. KindAt(1) = "ident" /\ \E frame : Push(frame)
    BY <1>3 DEF OpenSlice
  <2>2. \E kind, k, reports : Step(2 + Eaten(kind, k), reports, "uses")
    BY <1>3 DEF OpenSlice
  <2>3. PICK n \in 2..3 : \E reports : Step(n, reports, "uses")
    BY <2>2, TurnLength
  <2>4. ParseRank = 3 /\ ParseRank' = 3
    BY <1>3, <2>3 DEF OpenSlice, Starts, Step, ParseRank
  <2>5. After(n) > cursor + 1
    BY <1>0, <2>1, Consumes
  <2> QED
    BY <1>0, <2>1, <2>3, <2>4, <2>5, TurnOpens DEF Doings
<1>4. CASE ParseEnds
  <2>1. (\E n \in Nat : \E reports : Step(n, reports, "parsed")) /\ Keeps
    BY <1>0, <1>4, Ahead DEF ParseEnds, Keeps
  <2>2. ParseRank = 1 /\ ParseRank' = 0
    BY <1>4, <2>1 DEF ParseEnds, Step, ParseRank
  <2> QED
    BY <1>0, <2>1, <2>2, TurnKeeps DEF Doings
<1> QED
  BY <1>1, <1>2, <1>3, <1>4

LEMMA UseStep ==
  ASSUME ParseInv, NoMoreUses \/ BadUse \/ GoodUse
  PROVE  ParseInv' /\ Fuel' < Fuel
<1>0. mode = "lexed" /\ doing = "uses" /\ ParseRank = 3 /\ Keeps
  BY DEF NoMoreUses, BadUse, GoodUse, ParseInv, ParsePlaces, ParseRank, Keeps
<1>1. CASE NoMoreUses
  <2>1. Step(0, {}, "loop")
    BY <1>1 DEF NoMoreUses
  <2>2. ParseRank' = 1
    BY <2>1 DEF Step, ParseRank
  <2> QED
    BY <1>0, <2>1, <2>2, TurnKeeps DEF Doings
<1>2. CASE BadUse \/ GoodUse
  <2>1. PICK n \in 2..4 : \E reports : Step(n, reports, "uses")
    BY <1>2 DEF BadUse, GoodUse
  <2>2. ParseRank' = 3
    BY <2>1 DEF Step, ParseRank
  <2>3. After(n) > cursor
    BY <1>0, <1>2, Consumes DEF BadUse, GoodUse, IsWord
  <2> QED
    BY <1>0, <2>1, <2>2, <2>3, TurnKeeps DEF Doings
<1> QED
  BY <1>1, <1>2

LEMMA ItemStep ==
  ASSUME ParseInv,
         CloseSlice \/ CloseBlock \/ NotAnItem \/ NeitherFieldNorBlock \/ UseAfterDecl
           \/ OpenField \/ OpenBlock
  PROVE  ParseInv' /\ Fuel' < Fuel
<1>0. mode = "lexed" /\ doing = "loop" /\ ParseRank = 1 /\ stack # <<>>
  BY DEF CloseSlice, CloseBlock, NotAnItem, NeitherFieldNorBlock, UseAfterDecl, OpenField,
         OpenBlock, AtItem, In, ParseInv, ParsePlaces, ParseRank
<1>1. CASE CloseSlice \/ CloseBlock
  <2>1. stack' = Rest /\ \E kind, k, reports : \E next \in {"top", "return"} :
                           Step(Eaten(kind, k), reports, next)
    BY <1>1 DEF CloseSlice, CloseBlock, Return
  <2>2. \E n \in 0..1 : \E reports : \E next \in {"top", "return"} : Step(n, reports, next)
    BY <2>1, EatenLength
  <2>3. ParseRank' \in {1, 2, 8}
    BY <2>2 DEF Step, ParseRank
  <2> QED
    BY <1>0, <2>1, <2>2, <2>3, TurnReturns DEF Doings
<1>3. CASE NotAnItem \/ NeitherFieldNorBlock \/ UseAfterDecl
  <2>1. ClauseLength \in 1..4
    <3> DEFINE path == 1 + Eaten("string", 1)
               word == path + (IF IsWord(path, AsWord) THEN 1 ELSE 0)
    <3>1. path \in 1..2
      BY DEF Eaten
    <3>2. word \in 1..3
      <4> HIDE DEF path
      <4> QED
        BY <3>1
    <3>3. Eaten("ident", word) \in 0..1
      BY DEF Eaten
    <3>4. word + Eaten("ident", word) \in 1..4
      <4> HIDE DEF word
      <4> QED
        BY <3>2, <3>3
    <3> QED
      BY <3>4 DEF ClauseLength
  <2>2. PICK n \in 1..5 : \E reports : Step(n, reports, "loop")
    <3>1. CASE NotAnItem \/ NeitherFieldNorBlock
      <4>1. \/ Step(AfterFailedItem, Report("E0104", 0), "loop")
            \/ Step(1 + AfterFailedItem, Report("E0104", 1), "loop")
        BY <3>1 DEF NotAnItem, NeitherFieldNorBlock
      <4> QED
        BY <4>1 DEF AfterFailedItem
    <3>2. CASE UseAfterDecl
      <4>1. ClauseLength + AfterFailedItem \in 1..5
        BY <2>1 DEF AfterFailedItem
      <4>2. Step(ClauseLength + AfterFailedItem, Report("E0108", 0), "loop")
        BY <3>2 DEF UseAfterDecl
      <4> QED
        BY <4>1, <4>2
    <3> QED
      BY <1>3, <3>1, <3>2
  <2>3. ParseRank' = 1 /\ Keeps
    BY <1>3, <2>2 DEF Step, ParseRank, Keeps, NotAnItem, NeitherFieldNorBlock, UseAfterDecl
  <2>4. KindAt(0) # "eof"
    BY <1>3 DEF NotAnItem, NeitherFieldNorBlock, UseAfterDecl, AtItem
  <2>5. After(n) > cursor
    BY <1>0, <2>2, <2>4, Consumes
  <2> QED
    BY <1>0, <2>2, <2>3, <2>5, TurnKeeps DEF Doings
<1>4. CASE OpenField
  <2>1. Step(2, {}, "value") /\ Push(Frame("field", NameAt(0), <<>>)) /\ KindAt(1) = ":"
    BY <1>4 DEF OpenField
  <2>2. ParseRank' = 6
    BY <2>1 DEF Step, ParseRank
  <2>3. After(2) > cursor + 1
    BY <1>0, <2>1, Consumes
  <2> QED
    BY <1>0, <2>1, <2>2, <2>3, TurnOpens DEF Doings
<1>5. CASE OpenBlock
  <2>1. KindAt(1) # "eof" /\ \E name : Push(Frame("block", NameAt(0), name))
    BY <1>5 DEF OpenBlock
  <2>2. \/ \E reports : Step(2, reports, "loop")
        \/ \E kind, k, reports : Step(2 + Eaten(kind, k), reports, "loop")
    BY <1>5 DEF OpenBlock
  <2>3. PICK n \in 2..3 : \E reports : Step(n, reports, "loop")
    BY <2>2, TurnLength
  <2>4. ParseRank' = 1
    BY <2>3 DEF Step, ParseRank
  <2>5. After(n) > cursor + 1
    BY <1>0, <2>1, Consumes
  <2> QED
    BY <1>0, <2>1, <2>3, <2>4, <2>5, TurnOpens DEF Doings
<1> QED
  BY <1>1, <1>3, <1>4, <1>5

LEMMA ReturnStep ==
  ASSUME ParseInv, AfterItem \/ FieldReturns
  PROVE  ParseInv' /\ Fuel' < Fuel
<1>0. /\ mode = "lexed" /\ doing = "return" /\ stack # <<>>
      /\ ParseRank = IF result = NoTree THEN 2 ELSE 8
  BY DEF AfterItem, FieldReturns, In, ParseInv, ParsePlaces, ParseRank
<1>1. CASE AfterItem
  <2>1. Keeps /\ \E n \in Nat : \E reports : Step(n, reports, "loop")
    BY <1>0, <1>1 DEF AfterItem, Keeps, AfterFailedItem
  <2>2. ParseRank' = 1
    BY <2>1 DEF Step, ParseRank
  <2> QED
    BY <1>0, <2>1, <2>2, TurnKeeps DEF Doings
<1>2. CASE FieldReturns
  <2>1. /\ Step(0, {}, "return") /\ stack' = Rest
        /\ result' = IF result = NoTree THEN NoTree ELSE Node("field", top.head, <<result>>)
    BY <1>2 DEF FieldReturns, Return
  <2>2. ParseRank' = IF result' = NoTree THEN 2 ELSE 8
    BY <2>1 DEF Step, ParseRank
  <2>3. ParseRank' < ParseRank + 8 /\ ParseRank \in Nat /\ ParseRank' \in Nat
    BY <1>0, <2>1, <2>2
  <2> QED
    BY <1>0, <2>1, <2>3, TurnReturns DEF Doings
<1> QED
  BY <1>1, <1>2

LEMMA ValueStep ==
  ASSUME ParseInv,
         Literal \/ NotAValue \/ BareName \/ QualifiedName \/ OpenMap \/ OpenList
           \/ OpenArguments
  PROVE  ParseInv' /\ Fuel' < Fuel
<1>0. mode = "lexed" /\ doing = "value" /\ ParseRank = 6
  BY DEF Literal, NotAValue, BareName, QualifiedName, OpenMap, OpenList, OpenArguments,
         AtValue, ParseInv, ParsePlaces, ParseRank
<1>1. CASE Literal \/ BareName \/ QualifiedName
  <2>1. KindAt(0) # "eof"
    BY <1>1 DEF Literal, BareName, QualifiedName
  <2>2. Keeps /\ \/ \E reports : Step(1, reports, "return")
                 \/ \E reports : Step(2, reports, "return")
                 \/ \E reports : Step(3, reports, "return")
    BY <1>1 DEF Literal, BareName, QualifiedName, Yield, Keeps
  <2>3. PICK n \in 1..3 : \E reports : Step(n, reports, "return")
    BY <2>2
  <2>4. ParseRank' \in {2, 8}
    BY <2>3 DEF Step, ParseRank
  <2>5. After(n) > cursor
    BY <1>0, <2>1, <2>3, Consumes
  <2> QED
    BY <1>0, <2>2, <2>3, <2>4, <2>5, TurnKeeps DEF Doings
<1>2. CASE NotAValue
  <2>1. Keeps /\ result' = NoTree /\ \E reports : Step(0, reports, "return")
    BY <1>2 DEF NotAValue, Yield, Keeps
  <2>2. ParseRank' = 2
    BY <2>1 DEF Step, ParseRank
  <2> QED
    BY <1>0, <2>1, <2>2, TurnKeeps DEF Doings
<1>3. CASE OpenMap
  <2>1. KindAt(0) # "eof" /\ (\E frame : Push(frame)) /\ Step(1, {}, "loop")
    BY <1>3 DEF OpenMap
  <2>2. ParseRank' = 1
    BY <2>1 DEF Step, ParseRank
  <2>3. After(1) > cursor
    BY <1>0, <2>1, Consumes
  <2> QED
    BY <1>0, <2>1, <2>2, <2>3, TurnOpens DEF Doings
<1>4. CASE OpenList
  <2>1. KindAt(0) # "eof" /\ (\E frame : Push(frame)) /\ Step(1, {}, NextElement(1))
    BY <1>4 DEF OpenList
  <2>2. NextElement(1) \in {"close", "value"}
    BY DEF NextElement
  <2>3. ParseRank' \in {1, 6}
    BY <2>1, <2>2 DEF Step, ParseRank
  <2>4. After(1) > cursor
    BY <1>0, <2>1, Consumes
  <2> QED
    BY <1>0, <2>1, <2>2, <2>3, <2>4, TurnOpens DEF Doings
<1>5. CASE OpenArguments
  <2>1. KindAt(1) # "eof" /\ (\E frame : Push(frame))
          /\ \E rule : Step(2, {}, NextArgument(rule, 2))
    BY <1>5 DEF OpenArguments
  <2>2. \E next \in {"close", "value"} : Step(2, {}, next)
    BY <2>1 DEF NextArgument
  <2>3. ParseRank' \in {1, 6}
    BY <2>2 DEF Step, ParseRank
  <2>4. After(2) > cursor + 1
    BY <1>0, <2>1, Consumes
  <2> QED
    BY <1>0, <2>1, <2>2, <2>3, <2>4, TurnOpens DEF Doings
<1> QED
  BY <1>1, <1>2, <1>3, <1>4, <1>5

LEMMA MapStep ==
  ASSUME ParseInv, NotAKey \/ MapKey \/ MapReturns \/ CloseMap
  PROVE  ParseInv' /\ Fuel' < Fuel
<1>0. mode = "lexed" /\ stack # <<>>
  BY DEF NotAKey, MapKey, MapReturns, CloseMap, AtEntry, In, ParseInv, ParsePlaces
<1>1. CASE NotAKey
  <2>1. KindAt(0) # "eof" /\ Keeps /\ (\E reports : Step(1, reports, "loop")) /\ doing = "loop"
    BY <1>1 DEF NotAKey, AtEntry, Keeps
  <2>2. ParseRank = 1 /\ ParseRank' = 1
    BY <2>1 DEF Step, ParseRank
  <2>3. After(1) > cursor
    BY <1>0, <2>1, Consumes
  <2> QED
    BY <1>0, <2>1, <2>2, <2>3, TurnKeeps DEF Doings
<1>2. CASE MapKey
  <2>1. KindAt(0) # "eof" /\ doing = "loop" /\ Keeps
    BY <1>0, <1>2 DEF MapKey, AtEntry, Keeps
  <2>2. \E kind, k, reports : Step(1 + Eaten(kind, k), reports, "value")
    BY <1>2 DEF MapKey
  <2>3. PICK n \in 1..2 : \E reports : Step(n, reports, "value")
    BY <2>2, TurnLength
  <2>4. ParseRank = 1 /\ ParseRank' = 6
    BY <2>1, <2>3 DEF Step, ParseRank
  <2>5. After(n) > cursor
    BY <1>0, <2>1, <2>3, Consumes
  <2> QED
    BY <1>0, <2>1, <2>3, <2>4, <2>5, TurnKeeps DEF Doings
<1>3. CASE MapReturns
  <2>1. doing = "return" /\ Keeps
    BY <1>0, <1>3 DEF MapReturns, Keeps
  <2>2. \/ Step(0, {}, "loop")
        \/ \E kind, k, reports : Step(Eaten(kind, k), reports, "loop")
    BY <1>3 DEF MapReturns
  <2>3. PICK n \in 0..1 : \E reports : Step(n, reports, "loop")
    BY <2>2, EatenLength
  <2>4. ParseRank \in {2, 8} /\ ParseRank' = 1
    BY <2>1, <2>3 DEF Step, ParseRank
  <2> QED
    BY <1>0, <2>1, <2>3, <2>4, TurnKeeps DEF Doings
<1>4. CASE CloseMap
  <2>1. doing = "loop" /\ stack' = Rest
          /\ \E kind, k, reports : Step(Eaten(kind, k), reports, "return")
    BY <1>4 DEF CloseMap, Return
  <2>2. PICK n \in 0..1 : \E reports : Step(n, reports, "return")
    BY <2>1, EatenLength
  <2>3. ParseRank = 1 /\ ParseRank' \in {2, 8}
    BY <2>1, <2>2 DEF Step, ParseRank
  <2> QED
    BY <1>0, <2>1, <2>2, <2>3, TurnReturns DEF Doings
<1> QED
  BY <1>1, <1>2, <1>3, <1>4

LEMMA BracketStep ==
  ASSUME ParseInv, ListReturns \/ ArgumentReturns \/ CloseBracket
  PROVE  ParseInv' /\ Fuel' < Fuel
<1>0. mode = "lexed" /\ stack # <<>>
  BY DEF ListReturns, ArgumentReturns, CloseBracket, In, ParseInv, ParsePlaces
\* At the end of the text a list closes; before it, a failed value is skipped.
<1>1. CASE ListReturns
  <2>1. doing = "return" /\ Keeps
    BY <1>0, <1>1 DEF ListReturns, Keeps
  <2>2. \E kind : LET n == AfterFailedElement + Eaten(kind, AfterFailedElement)
                  IN  Step(n, {}, NextElement(n))
    BY <1>1 DEF ListReturns
  <2>3. PICK n \in 0..2 : Step(n, {}, NextElement(n)) /\ (result = NoTree => n >= 1)
    <3>1. PICK kind : LET n == AfterFailedElement + Eaten(kind, AfterFailedElement)
                      IN  Step(n, {}, NextElement(n))
      BY <2>2
    <3>2. /\ AfterFailedElement + Eaten(kind, AfterFailedElement) \in 0..2
          /\ result = NoTree => AfterFailedElement + Eaten(kind, AfterFailedElement) >= 1
      BY DEF AfterFailedElement, Eaten
    <3> QED
      BY <3>1, <3>2
  <2>4. NextElement(n) \in {"close", "value"}
    BY DEF NextElement
  <2>5. /\ ParseRank = IF result = NoTree THEN 2 ELSE 8
        /\ ParseRank' = IF NextElement(n) = "close" THEN 1 ELSE 6
    BY <2>1, <2>3, <2>4 DEF Step, ParseRank
  <2>6. NextElement(n) = "value" /\ result = NoTree => After(n) > cursor
    <3>1. NextElement(n) = "value" => KindAt(n) # "eof"
      BY DEF NextElement
    <3> QED
      BY <1>0, <2>3, <3>1, Ahead
  <2> QED
    BY <1>0, <2>1, <2>3, <2>4, <2>5, <2>6, TurnKeeps DEF Doings
<1>2. CASE ArgumentReturns
  <2>1. doing = "return" /\ Keeps
    BY <1>0, <1>2 DEF ArgumentReturns, Keeps
  <2>2. \/ Step(0, {}, "close")
        \/ KindAt(0) # "eof" /\ \E rule : Step(1, {}, NextArgument(rule, 1))
    BY <1>2 DEF ArgumentReturns, Separators
  <2>3. CASE Step(0, {}, "close")
    <3>1. ParseRank \in {2, 8} /\ ParseRank' = 1
      BY <2>1, <2>3 DEF Step, ParseRank
    <3> QED
      BY <1>0, <2>1, <2>3, <3>1, TurnKeeps DEF Doings
  <2>4. CASE KindAt(0) # "eof" /\ \E rule : Step(1, {}, NextArgument(rule, 1))
    <3>1. \E next \in {"close", "value"} : Step(1, {}, next)
      BY <2>4 DEF NextArgument
    <3>2. ParseRank \in {2, 8} /\ ParseRank' \in {1, 6}
      BY <2>1, <3>1 DEF Step, ParseRank
    <3>3. After(1) > cursor
      BY <1>0, <2>4, Consumes
    <3> QED
      BY <1>0, <2>1, <3>1, <3>2, <3>3, TurnKeeps DEF Doings
  <2> QED
    BY <2>2, <2>3, <2>4
<1>3. CASE CloseBracket
  <2>1. doing = "close" /\ stack' = Rest
          /\ \E kind, k, reports : Step(Eaten(kind, k), reports, "return")
    BY <1>3 DEF CloseBracket, Return
  <2>2. PICK n \in 0..1 : \E reports : Step(n, reports, "return")
    BY <2>1, EatenLength
  <2>3. ParseRank = 1 /\ ParseRank' \in {2, 8}
    BY <2>1, <2>2 DEF Step, ParseRank
  <2> QED
    BY <1>0, <2>1, <2>2, <2>3, TurnReturns DEF Doings
<1> QED
  BY <1>1, <1>2, <1>3

-----------------------------------------------------------------------------
(* The scanner comes nearer to its end, too.                               *)

LEMMA TokenAdded ==
  ASSUME LexInv, NEW t, tokens' = Append(tokens, t)
  PROVE  Len(tokens) \in Nat /\ Len(tokens') = Len(tokens) + 1
<1>1. PICK T : tokens \in Seq(T)
  BY DEF LexInv, LexType
<1>2. tokens \in Seq(T \cup {t}) /\ t \in T \cup {t}
  BY <1>1, SeqMonotonic
<1> QED
  BY <1>2, AppendProperties, LenProperties

(* Every turn of the scanner that goes on consumes a byte, or ends the     *)
(* literal that breaks off.                                                *)
LEMMA LexConsumes ==
  ASSUME LexInv, LexStep, ~StringAborts, ~LexEnds
  PROVE  /\ mode \in {"scan", "string", "triple"} /\ mode' \in {"scan", "string", "triple"}
         /\ text' = text
         /\ tokens' = tokens \/ \E t : tokens' = Append(tokens, t)
         /\ pos' > pos \/ (pos' = pos /\ InString /\ mode' = "scan")
<1>0. Last \in Nat /\ pos \in 0..Last /\ text' = text
  BY DEF LexInv, LexType, Last, LexStep, SkipBlanks, SkipLineComment, SkipBlockComment,
         ScanPunct, ScanDash, ScanIdentifier, ScanInt, UnexpectedChar, OpenString,
         StringCloses, StringBreaksOff, TripleByte, StringChar, StringEscape, StringAborts,
         LexEnds, Scanned, Reported, StringEnds, StringTurn
<1>1. CASE SkipBlanks \/ SkipLineComment \/ SkipBlockComment
  <2>1. pos' > pos
    <3>1. \/ \E e \in (pos + 1)..Last : pos' = e
          \/ \E e \in (pos + 2)..Last : pos' = e
          \/ \E e \in (pos + 2)..Last : pos' = e + 2
          \/ \E e \in (pos + 2)..Last : e = Last /\ pos' = Last
      BY <1>1 DEF SkipBlanks, SkipLineComment, SkipBlockComment
    <3> QED
      BY <1>0, <3>1
  <2> QED
    BY <1>0, <1>1, <2>1 DEF SkipBlanks, SkipLineComment, SkipBlockComment
<1>2. CASE ScanPunct \/ ScanDash \/ ScanIdentifier \/ ScanInt \/ UnexpectedChar
  <2>1. \E to : pos' = to /\ \/ to = pos + 1 \/ to = pos + 2 \/ to \in (pos + 1)..Last
    BY <1>2 DEF ScanPunct, ScanDash, ScanIdentifier, ScanInt, UnexpectedChar, Scanned,
                Reported, CodepointLen
  <2>2. pos' > pos
    BY <1>0, <2>1
  <2> QED
    BY <1>0, <1>2, <2>2 DEF ScanPunct, ScanDash, ScanIdentifier, ScanInt, UnexpectedChar,
                            Scanned, Reported
<1>3. CASE OpenString
  BY <1>0, <1>3 DEF OpenString
<1>4. CASE StringCloses \/ StringBreaksOff
  BY <1>0, <1>4 DEF StringCloses, StringBreaksOff, StringEnds, InString
<1>5. CASE TripleByte \/ StringChar
  BY <1>0, <1>5 DEF TripleByte, StringChar, StringTurn, CodepointLen
<1>6. CASE StringEscape
  BY <1>0, <1>6 DEF StringEscape, StringTurn, StringEnds
<1> QED
  BY <1>1, <1>2, <1>3, <1>4, <1>5, <1>6 DEF LexStep

LEMMA LessToScan ==
  ASSUME NEW last \in Nat, NEW p \in 0..last, NEW q \in 0..last, NEW n \in Nat, NEW m \in Nat,
         NEW r \in {5, 15}, NEW s \in {5, 15}, m <= n + 1,
         q > p \/ (q = p /\ r = 15 /\ s = 5)
  PROVE  20 * (last - q) + 9 * m + s < 20 * (last - p) + 9 * n + r
OBVIOUS

LEMMA LexerStep ==
  ASSUME ParseInv, LexStep, UNCHANGED parserVars
  PROVE  ParseInv' /\ Fuel' < Fuel
<1>1. LexInv'
  BY LexStepInv DEF ParseInv
<1>2. /\ mode \in {"scan", "string", "triple"} /\ doing = "start" /\ stack = <<>> /\ cursor = 1
      /\ doing' = "start" /\ stack' = <<>> /\ cursor' = 1
  BY DEF LexStep, SkipBlanks, SkipLineComment, SkipBlockComment, ScanPunct, ScanDash,
         ScanIdentifier, ScanInt, UnexpectedChar, OpenString, StringCloses,
         StringBreaksOff, TripleByte, StringChar, StringEscape, StringAborts, LexEnds,
         InString, ParseInv, ParsePlaces, parserVars
<1>3. stack' \in Seq({}) /\ Len(stack') = 0 /\ doing' \in Doings
  BY <1>2 DEF Doings
<1>4. /\ Last \in Nat /\ Last' \in Nat /\ pos \in 0..Last /\ pos' \in 0..(Last')
      /\ Len(tokens) \in Nat /\ Len(tokens') \in Nat
  BY <1>1, LenProperties DEF ParseInv, LexInv, LexType, Last
<1>5. Fuel = 20 * (Last - pos) + 9 * Len(tokens) + (IF InString THEN 15 ELSE 5)
  BY <1>2 DEF Fuel, ScanRank, InString
<1>6. CASE StringAborts
  <2>1. Fuel' = 0 /\ mode' = "aborted"
    BY <1>6 DEF StringAborts, Fuel
  <2>2. Fuel > 0
    BY <1>4, <1>5
  <2> QED
    BY <1>1, <1>2, <1>3, <2>1, <2>2 DEF ParseInv, ParsePlaces
<1>7. CASE LexEnds
  <2>1. tokens' # <<>> /\ tokens'[Len(tokens')].kind = "eof"
    BY <1>7, LexEndsInv DEF ParseInv
  <2>2. mode' = "lexed" /\ Last = pos /\ ~InString
    BY <1>4, <1>7 DEF LexEnds, InString
  <2>3. Len(tokens') = Len(tokens) + 1
    BY <1>7, TokenAdded DEF LexEnds, ParseInv
  <2>4. ParseRank' = 3
    BY <1>2 DEF ParseRank
  <2>5. Fuel' = 9 * (Len(tokens') - 1) + 8 * 0 + 3
    BY <1>2, <1>3, <2>2, <2>4 DEF Fuel
  <2>6. Fuel' < Fuel
    BY <1>4, <1>5, <2>2, <2>3, <2>5
  <2>7. cursor' \in 1..Len(tokens')
    BY <1>2, <1>4, <2>3
  <2> QED
    BY <1>1, <1>2, <1>3, <2>1, <2>2, <2>6, <2>7 DEF ParseInv, ParsePlaces
<1>8. CASE ~StringAborts /\ ~LexEnds
  <2>1. /\ mode' \in {"scan", "string", "triple"} /\ text' = text
        /\ tokens' = tokens \/ \E t : tokens' = Append(tokens, t)
        /\ pos' > pos \/ (pos' = pos /\ InString /\ mode' = "scan")
    BY <1>8, LexConsumes DEF ParseInv
  <2>2. Len(tokens') <= Len(tokens) + 1 /\ Last' = Last
    BY <1>4, <2>1, TokenAdded DEF ParseInv, Last
  <2>3. Fuel' = 20 * (Last - pos') + 9 * Len(tokens') + (IF mode' = "scan" THEN 5 ELSE 15)
    <3>1. ScanRank' = IF mode' = "scan" THEN 5 ELSE 15
      BY <2>1 DEF ScanRank, InString
    <3>2. Fuel' = 20 * (Last' - pos') + 9 * Len(tokens') + ScanRank'
      BY <2>1 DEF Fuel
    <3> QED
      BY <2>2, <3>1, <3>2
  <2>4. Fuel' < Fuel
    <3>1. Last \in Nat /\ pos \in 0..Last /\ pos' \in 0..Last
      BY <1>4, <2>2
    <3> QED
      BY <1>4, <1>5, <2>1, <2>2, <2>3, <3>1, LessToScan
  <2> QED
    BY <1>1, <1>2, <1>3, <2>1, <2>4 DEF ParseInv, ParsePlaces
<1> QED
  BY <1>6, <1>7, <1>8

-----------------------------------------------------------------------------
(* The theorems.                                                           *)

LEMMA ParserStep ==
  ASSUME ParseInv, ParseStep
  PROVE  ParseInv' /\ Fuel' < Fuel
BY SliceStep, UseStep, ItemStep, ReturnStep, ValueStep, MapStep, BracketStep DEF ParseStep

LEMMA StepAdvances == ParseInv /\ [Next]_vars => ParseInv' /\ [Fuel' < Fuel]_vars
<1> SUFFICES ASSUME ParseInv, [Next]_vars
             PROVE  ParseInv' /\ [Fuel' < Fuel]_vars
  OBVIOUS
<1>1. CASE LexStep /\ UNCHANGED parserVars
  BY <1>1, LexerStep
<1>2. CASE ParseStep
  BY <1>2, ParserStep
<1>3. CASE UNCHANGED vars
  BY <1>3, ParseStutterInv
<1> QED
  BY <1>1, <1>2, <1>3 DEF Next, Stopped

(* The scanner's places hold at every moment of every run.                 *)
LEMMA ParseInvariant == Spec => []ParseInv
<1>1. ParseInv /\ [Next]_vars => ParseInv'
  BY StepAdvances
<1> QED
  BY <1>1, ParseInitInv, PTL DEF Spec

(* Of every text the tokens lie in order, between characters: the offsets  *)
(* at which lexer.rs slices the text and everything behind it does.        *)
THEOREM EveryTokenInOrder == Spec => []TokensInOrder
<1>1. ParseInv => TokensInOrder
  BY DEF ParseInv, LexInv
<1> QED
  BY <1>1, ParseInvariant, PTL

(* Of every text: where the slice of lexer.rs:267 splits a character, the  *)
(* two bytes in front are a backslash and the character's lead byte, so    *)
(* lexer.rs:5 ("it never aborts") fails on escapes of characters outside   *)
(* ASCII and on nothing else.                                              *)
THEOREM OneWayToAbort == Spec => []AbortsOnlyOnEscapes
<1>1. ParseInv => AbortsOnlyOnEscapes
  BY DEF ParseInv, LexInv
<1> QED
  BY <1>1, ParseInvariant, PTL

(* Every turn of every loop of lexer.rs and parser.rs, over every text and *)
(* however deep it nests, uses up some of what is left to do, so that no   *)
(* broken input keeps the parser busy for ever.                            *)
THEOREM EveryTurnAdvances == Spec => Advances
<1>1. ParseInv /\ [Next]_vars => [Fuel' < Fuel]_vars
  BY StepAdvances
<1> QED
  BY <1>1, ParseInvariant, PTL DEF Spec, Advances
=============================================================================
