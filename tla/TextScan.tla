------------------------------- MODULE TextScan -------------------------------
(***************************************************************************)
(* The functions of internal/lsp and of the Java parser that read a text   *)
(* character by character, on the text of a document while it is typed:    *)
(*   signature_help.go   the call around the cursor,                       *)
(*   completion.go       the receiver and prefix left of the cursor,       *)
(*   navigation.go       the member access and the word at the cursor,     *)
(*   analysis.go         the tokens of the text,                           *)
(*   diagnostics.go      its unbalanced braces.                            *)
(* Each reads the text in a way of its own; the properties say where they  *)
(* agree, and how what they find follows what is typed.                    *)
(*                                                                         *)
(* A text is a sequence of characters, strings of length 1.  An offset is  *)
(* a number in 0..Len(text); the character at an offset is the one after   *)
(* it, text[offset + 1].                                                   *)
(***************************************************************************)
EXTENDS Integers, Sequences, FiniteSets, FiniteSetsExt, SequencesExt

CONSTANTS
  Letters, Digits,  \* the characters of identifiers
  Format,           \* the word "format"
  Alphabets,        \* bound: the sets of characters texts are made of
  MaxLength         \* bound: the length of a text

VARIABLES
  alphabet,  \* the characters that are typed
  text,
  cursor     \* an offset

vars == <<alphabet, text, cursor>>

Newline == "\n"
IdentifierPart == Letters \union Digits
Blank == {" ", Newline}
Quotes == {"\"", "'"}
LeftBrace == "{"
RightBrace == "}"
Braces == {LeftBrace, RightBrace}

ASSUME TextScanAssumption ==
  /\ MaxLength \in Nat
  /\ Format \in Seq(Letters) /\ Format # <<>>
  /\ Letters \intersect Digits = {}
  /\ IdentifierPart \intersect (Blank \union Braces \union Quotes \union {"/"}) = {}
------------------------------------------------------------------------------
(* Runs of characters of a set: where the one left of an offset begins,    *)
(* and where the one right of it ends.                                     *)
RunStart(t, at, set) == Min({s \in 0..at : \A i \in s+1..at : t[i] \in set})
RunEnd(t, at, set) == Max({e \in at..Len(t) : \A i \in at+1..e : t[i] \in set})
Slice(t, from, to) == SubSeq(t, from + 1, to)

(* The lines of a text: where one starts, and a line. *)
NewlinesIn(t, from, to) == Cardinality({i \in from+1..to : t[i] = Newline})
LineStart(t, l) == Min({s \in 0..Len(t) : NewlinesIn(t, 0, s) = l})
Line(t, l) ==
  LET from == LineStart(t, l) IN Slice(t, from, RunEnd(t, from, ToSet(t) \ {Newline}))

(* The position of an offset, as the editor sends it. *)
PositionOf(t, offset) ==
  LET line == NewlinesIn(t, 0, offset)
  IN [line |-> line, character |-> offset - LineStart(t, line)]

(* offsetForPosition, for a line that there is *)
OffsetForPosition(t, pos) ==
  LineStart(t, pos.line) + Min({pos.character, Len(Line(t, pos.line))})
------------------------------------------------------------------------------
(* signature_help.go *)
NoCall == [method |-> <<>>, active |-> 0]

(* The search for the "(" that is open at an offset, backwards; -1 is none. *)
Back(s, c, i) ==
  IF s.open >= 0 THEN s
  ELSE IF c = ")" THEN [s EXCEPT !.depth = @ + 1]
  ELSE IF c = "(" /\ s.depth = 0 THEN [s EXCEPT !.open = i - 1]
  ELSE IF c = "(" THEN [s EXCEPT !.depth = @ - 1]
  ELSE s

OpenParenthesis(t, offset) ==
  LET after[k \in 0..offset] ==
        IF k = 0 THEN [depth |-> 0, open |-> -1]
        ELSE Back(after[k - 1], t[offset + 1 - k], offset + 1 - k)
  IN after[offset].open

CountComma(s, c) ==
  IF c = "(" THEN [s EXCEPT !.nested = @ + 1]
  ELSE IF c = ")" THEN [s EXCEPT !.nested = IF @ > 0 THEN @ - 1 ELSE 0]
  ELSE IF c = "," /\ s.nested = 0 THEN [s EXCEPT !.active = @ + 1]
  ELSE s

(* Mutant of ActiveParameter: commas of nested calls count. *)
ActiveParameterFlat(t, open, offset) == Cardinality({i \in open+2..offset : t[i] = ","})

(* The commas since the "(" that are in no parentheses of their own. *)
ActiveParameter(t, open, offset) ==
  LET after[k \in 0..offset-open-1] ==
        IF k = 0 THEN [nested |-> 0, active |-> 0] ELSE CountComma(after[k - 1], t[open + 1 + k])
  IN after[offset - open - 1].active

(* invocationAtOffset: NoCall if no name is in front of the parenthesis. *)
InvocationAtOffset(t, offset) ==
  LET open == OpenParenthesis(t, offset)
      end == RunStart(t, open, Blank)
      start == RunStart(t, end, IdentifierPart \union {"."})
  IN IF open < 0 \/ start = end THEN NoCall
     ELSE [method |-> Slice(t, start, end), active |-> ActiveParameter(t, open, offset)]

(* lookupSignature: methods called format have two parameters. *)
LookupSignature(method) == IF IsSuffix(<<".">> \o Format, method) THEN 2 ELSE 0

(* signatureHelpAtPosition: the active parameter stays on the last one. *)
SignatureHelpAtPosition(t, pos) ==
  LET call == InvocationAtOffset(t, OffsetForPosition(t, pos))
      parameters == LookupSignature(call.method)
  IN [parameters |-> parameters, method |-> call.method,
      active |-> IF parameters > 0 THEN Min({call.active, parameters - 1}) ELSE call.active]
------------------------------------------------------------------------------
(* The cursor on a line: completion.go, navigation.go, workspace.go. *)
NoTarget == [receiver |-> <<>>, prefix |-> <<>>]

(* completionTargetAtPosition: the word around the cursor is the prefix,   *)
(* what is right of the cursor included; its receiver is the word in front *)
(* of a dot in front of it, or the word in front of the cursor if a dot    *)
(* follows.                                                                *)
CompletionTargetAtPosition(line, at) ==
  LET start == RunStart(line, at, IdentifierPart)
      prefix == Slice(line, start, RunEnd(line, at, IdentifierPart))
      Receiver(dot) == Slice(line, RunStart(line, dot, IdentifierPart), dot)
  IN IF start > 0 /\ line[start] = "." /\ Receiver(start - 1) # <<>>
     THEN [receiver |-> Receiver(start - 1), prefix |-> prefix]
     ELSE IF at < Len(line) /\ line[at + 1] = "." /\ Receiver(at) # <<>>
     THEN [receiver |-> Receiver(at), prefix |-> <<>>]
     ELSE [receiver |-> <<>>, prefix |-> prefix]

(* Mutant of IndexAt: the end of a word is not in the word. *)
IndexAtCursor(line, at) == Min({at, Len(line) - 1})

(* The character that is looked at, and the token around it: a word, or    *)
(* else the character itself.                                              *)
IndexAt(line, at) ==
  LET index == Min({at, Len(line) - 1})
  IN IF line[index + 1] \notin IdentifierPart /\ index > 0 /\ line[index] \in IdentifierPart
     THEN index - 1 ELSE index

TokenAt(line, at) ==
  LET index == IndexAt(line, at)
  IN [start |-> RunStart(line, index, IdentifierPart), end |-> RunEnd(line, index + 1, IdentifierPart)]

(* wordAtPosition: <<>> is the error. *)
WordAtPosition(line, at) ==
  IF line = <<>> THEN <<>>
  ELSE IF line[IndexAt(line, at) + 1] \notin IdentifierPart THEN <<>>
  ELSE Slice(line, TokenAt(line, at).start, TokenAt(line, at).end)

NoAccess == [receiver |-> <<>>, member |-> <<>>, focus |-> "none"]

(* memberAccessAtPosition, surroundingMemberAccess: the token is the       *)
(* receiver if a dot and a word follow, else the member if a word and a    *)
(* dot are in front of it.                                                 *)
MemberAccessAtPosition(line, at) ==
  IF line = <<>> THEN NoAccess
  ELSE LET token == TokenAt(line, at)
           word == Slice(line, token.start, token.end)
           member == Slice(line, token.end + 1, RunEnd(line, token.end + 1, IdentifierPart))
           receiver == Slice(line, RunStart(line, token.start - 1, IdentifierPart), token.start - 1)
       IN IF token.end < Len(line) /\ line[token.end + 1] = "." /\ member # <<>>
          THEN [receiver |-> word, member |-> member, focus |-> "receiver"]
          ELSE IF token.start > 0 /\ line[token.start] = "." /\ receiver # <<>>
          THEN [receiver |-> receiver, member |-> word, focus |-> "member"]
          ELSE NoAccess
------------------------------------------------------------------------------
(* analysis.go: the tokens.  A token is [kind, start, end, line, char].    *)
CharAt(t, offset) == IF offset < Len(t) THEN t[offset + 1] ELSE ""

(* Where a comment "/*" ends: after the first "*/", else one character     *)
(* before the end of the text.                                             *)
CommentEnd(t, start) ==
  LET closes == {j \in start+2..Len(t)-2 : t[j + 1] = "*" /\ t[j + 2] = "/"}
  IN IF closes # {} THEN Min(closes) + 2 ELSE Max({start + 2, Len(t) - 1})

(* A literal: a backslash takes the next character with it, at the end of  *)
(* the text one that is not there; only newlines without backslash count.  *)
ReadLiteral(s, quote, c, i) ==
  IF s.closed THEN s
  ELSE IF s.escaped THEN [s EXCEPT !.escaped = FALSE, !.end = i]
  ELSE IF c = "\\" THEN [s EXCEPT !.escaped = TRUE, !.end = i + 1]
  ELSE IF c = quote THEN [s EXCEPT !.closed = TRUE, !.end = i]
  ELSE [s EXCEPT !.end = i, !.lines = IF c = Newline THEN @ + 1 ELSE @]

Literal(t, start) ==
  LET after[k \in 0..Len(t)-start-1] ==
        IF k = 0 THEN [closed |-> FALSE, escaped |-> FALSE, end |-> start + 1, lines |-> 0]
        ELSE ReadLiteral(after[k - 1], t[start + 1], t[start + 1 + k], start + 1 + k)
  IN after[Len(t) - start - 1]

(* Mutant of CommentLines: lines are not counted in comments. *)
CommentLinesNone(t, start) == 0

(* The lines a comment "/*" has. *)
CommentLines(t, start) == NewlinesIn(t, start + 2, CommentEnd(t, start))

(* The token at an offset that is not blank, and the line after it. *)
TokenFrom(t, i, line) ==
  LET Token(kind, end, lines) == [kind |-> kind, start |-> i, end |-> end, line |-> line, after |-> line + lines]
      c == CharAt(t, i)
  IN CASE c = "/" /\ CharAt(t, i + 1) = "/" -> Token("comment", RunEnd(t, i + 2, ToSet(t) \ {Newline}), 0)
       [] c = "/" /\ CharAt(t, i + 1) = "*" -> Token("comment", CommentEnd(t, i), CommentLines(t, i))
       [] c \in Quotes -> Token("string", Literal(t, i).end, Literal(t, i).lines)
       [] c \in Letters -> Token("identifier", RunEnd(t, i + 1, IdentifierPart), 0)
       [] c \in Digits -> Token("number", RunEnd(t, i + 1, Digits \union {"."}), 0)
       [] OTHER -> Token("symbol", IF Slice(t, i, Min({i + 3, Len(t)})) = <<".", ".", ".">> THEN i + 3 ELSE i + 1, 0)

(* lex: the tokens one after another, blanks between them. *)
LexAt(s, t, i) ==
  IF i < s.at THEN s
  ELSE IF CharAt(t, i) \in Blank
  THEN [s EXCEPT !.at = i + 1, !.line = IF CharAt(t, i) = Newline THEN @ + 1 ELSE @]
  ELSE LET token == TokenFrom(t, i, s.line)
       IN [tokens |-> Append(s.tokens, token), at |-> token.end, line |-> token.after]

Lex(t) ==
  LET after[k \in 0..Len(t)] ==
        IF k = 0 THEN [tokens |-> <<>>, at |-> 0, line |-> 0] ELSE LexAt(after[k - 1], t, k - 1)
  IN after[Len(t)].tokens
------------------------------------------------------------------------------
(* diagnostics.go *)

CountBrace(depth, c) ==
  IF depth >= 0 /\ c = LeftBrace THEN depth + 1
  ELSE IF depth >= 0 /\ c = RightBrace THEN depth - 1 ELSE depth

(* Mutant of BraceDiagnostics: only the end counts. *)
BraceTotals(t) ==
  LET Number(c) == Cardinality({i \in DOMAIN t : t[i] = c})
  IN IF Number(LeftBrace) > Number(RightBrace) THEN "missing"
     ELSE IF Number(LeftBrace) < Number(RightBrace) THEN "unexpected" ELSE "none"

(* braceDiagnostics: the first brace that closes too much, else that one   *)
(* is missing.                                                             *)
BraceDiagnostics(t) ==
  LET after[k \in 0..Len(t)] == IF k = 0 THEN 0 ELSE CountBrace(after[k - 1], t[k])
      depth == after[Len(t)]
  IN IF depth < 0 THEN "unexpected" ELSE IF depth > 0 THEN "missing" ELSE "none"
------------------------------------------------------------------------------
Init ==
  /\ alphabet \in Alphabets
  /\ text = <<>> /\ cursor = 0

(* didChange: a character is typed at the cursor. *)
Type(c) ==
  /\ Len(text) < MaxLength
  /\ text' = InsertAt(text, cursor + 1, c)
  /\ cursor' = cursor + 1
  /\ UNCHANGED alphabet

MoveCursor ==
  /\ cursor' \in 0..Len(text) /\ cursor' # cursor
  /\ UNCHANGED <<alphabet, text>>

Next == (\E c \in alphabet : Type(c)) \/ MoveCursor

Spec == Init /\ [][Next]_vars
------------------------------------------------------------------------------
(* Signature help follows what is typed: "(" after a name begins a call, a *)
(* comma leads to the next parameter, ")" leads back to the call that was  *)
(* around the one it closes, at the parameter it was at, and other         *)
(* characters change nothing; what is right of the cursor does not matter. *)
Help(t, at) == SignatureHelpAtPosition(t, PositionOf(t, at))
CallFollowsTyping ==
  [][\A c \in alphabet : Type(c) =>
       LET before == InvocationAtOffset(text, cursor)
           after == InvocationAtOffset(text', cursor')
           open == OpenParenthesis(text, cursor)
       IN /\ c = "," /\ before # NoCall => after = [before EXCEPT !.active = @ + 1]
          /\ c = ")" => after = IF open < 0 THEN NoCall ELSE InvocationAtOffset(text, open)
          /\ c = "(" => after.active = 0
          /\ c \notin {",", "(", ")"} => after = before
          /\ Help(text', cursor').method = after.method
          /\ Help(text', cursor').active = IF LookupSignature(after.method) = 0 THEN after.active
                                           ELSE Min({after.active, 1})]_vars

CurrentLine == Line(text, PositionOf(text, cursor).line)
Column == PositionOf(text, cursor).character

(* Completion, hover and definition mean the same receiver: at a word with *)
(* a receiver in front, completion offers the members of the receiver that *)
(* hover and definition look for the word in, with the word as the prefix, *)
(* unless hover takes the word for the receiver of what follows it.        *)
OneReceiver ==
  LET target == CompletionTargetAtPosition(CurrentLine, Column)
      access == MemberAccessAtPosition(CurrentLine, Column)
      word == WordAtPosition(CurrentLine, Column)
  IN /\ target.receiver # <<>> /\ target.prefix # <<>> /\ access.focus # "receiver"
          => access = [receiver |-> target.receiver, member |-> target.prefix, focus |-> "member"]
     /\ access.focus = "member" /\ word # <<>> /\ Column <= TokenAt(CurrentLine, Column).end
          => target = [receiver |-> access.receiver, prefix |-> word]
     /\ access.focus = "receiver" /\ word # <<>> => access.receiver = word

(* The tokens of a text, in order, cover all of it but blanks, and carry   *)
(* the line they start on.  Only a literal that is still open and ends in  *)
(* a backslash reads past the text, and only one with a backslash at the   *)
(* end of a line puts the lines after it off.                              *)
TokensTile ==
  LET tokens == Lex(text)
      past == tokens # <<>> /\ Last(tokens).end > Len(text)
      Escaped(i) == i > 1 /\ text[i] = Newline /\ text[i - 1] = "\\"
  IN /\ \A i \in DOMAIN tokens : tokens[i].start < tokens[i].end
     /\ \A i \in 1..Len(tokens)-1 : tokens[i].end <= tokens[i + 1].start
     /\ \A o \in 0..Len(text)-1 : \/ text[o + 1] \in Blank
                                  \/ \E i \in DOMAIN tokens : o \in tokens[i].start..tokens[i].end-1
     /\ past => Last(tokens).kind = "string" /\ Last(text) = "\\"
     /\ \A i \in DOMAIN tokens :
          tokens[i].line = NewlinesIn(text, 0, tokens[i].start)
            \/ \E j \in 1..tokens[i].start : Escaped(j)

(* The braces are balanced for the diagnostics if and only if they are for *)
(* the parser, which does not see those in comments and literals; if there *)
(* are any there, the two may differ.                                      *)
BracesAsTokens ==
  LET tokens == Lex(text)
      brace == {i \in DOMAIN tokens : CharAt(text, tokens[i].start) \in Braces}
      hidden == \E i \in DOMAIN tokens : tokens[i].kind \in {"comment", "string"}
                  /\ \E o \in tokens[i].start..Min({tokens[i].end, Len(text)})-1 : text[o + 1] \in Braces
      Number(c, n) == Cardinality({i \in brace : i <= n /\ CharAt(text, tokens[i].start) = c})
      balanced == /\ \A n \in DOMAIN tokens : Number(LeftBrace, n) >= Number(RightBrace, n)
                  /\ Number(LeftBrace, Len(tokens)) = Number(RightBrace, Len(tokens))
  IN ~hidden => (BraceDiagnostics(text) = "none" <=> balanced)
==============================================================================
