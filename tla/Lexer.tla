------------------------------- MODULE Lexer --------------------------------
(***************************************************************************)
(* Lexer::scan of Lexer/src/lexer.cpp: the text of a file becomes tokens.  *)
(* A text is a sequence of characters, strings of length one; positions    *)
(* start at 1, and the C string ends with NUL at position Len(text) + 1.   *)
(*                                                                         *)
(*   start, current   the pointers of the lexer, as positions              *)
(*   line, column     where the next token is said to be                   *)
(*   tokens           the tokens so far: their type (the spelling, for     *)
(*                    symbols and reserved words), the position and the    *)
(*                    length of their text, their line and column          *)
(*   quote            the quote that closes the string being read          *)
(*   mode             the loop of the lexer that runs, or how it ended:    *)
(*                    "undefined" once it reads beyond NUL                 *)
(*                                                                         *)
(* One action is one turn of a loop: of scan's, which starts with a fresh  *)
(* character, or of one of those inside it.                                *)
(***************************************************************************)
EXTENDS Integers, Sequences, FiniteSets

CONSTANT Texts      \* the texts to scan

VARIABLES text, start, current, line, column, tokens, quote, mode
vars == <<text, start, current, line, column, tokens, quote, mode>>

NUL == "NUL"
BLANK == " "
CharactersOf(word) == {SubSeq(word, k, k) : k \in 1 .. Len(word)}
Digit == CharactersOf("0123456789")
Alpha == CharactersOf("abcdefghijklmnopqrstuvwxyzABCDEFGHIJKLMNOPQRSTUVWXYZ_")
Alphanum == Alpha \cup Digit
Quotes == {"\"", "'"}

Reserved ==
  {"true", "false", "as", "or", "and", "if", "else", "for", "while", "return",
   "print", "class", "fun", "use", "from", "elif", "in", "export", "delete"}

Symbols ==
  {"(", ")", "{", "}", "[", "]", ",", ":", ".", "..", "...", "!", "!=", "-",
   "->", "+", "/", "*", "=", "==", "=>", "<", "<=", ">", ">="}

ASSUME TextsAssumption == \A t \in Texts : t \in Seq(STRING) /\ NUL \notin {t[i] : i \in 1 .. Len(t)}

\* How words are spelled: with characters that do not end or part them.
ASSUME SpellingAssumption ==
  /\ \A w \in Symbols \cup Reserved \cup {"//"} :
       /\ Len(w) \in Nat \ {0}
       /\ \A k \in 1 .. Len(w) : SubSeq(w, k, k) \notin {NUL, BLANK, "\n", "\t", "\r"}
  /\ Len("//") = 2
  /\ Alphanum \cap {NUL, BLANK, "\n", "\t", "\r"} = {}

\* PEEK_ON: the character at position i, as far as there is one.
Char(i) == IF i \in 1 .. Len(text) THEN text[i] ELSE NUL

\* The word is spelled from position i on.
Spells(word, i) == \A k \in 1 .. Len(word) : Char(i + k - 1) = SubSeq(word, k, k)

\* The reserved word between two positions, or an identifier.
WordType(from, to) ==
  IF \E w \in Reserved : Len(w) = to - from /\ Spells(w, from)
    THEN CHOOSE w \in Reserved : Len(w) = to - from /\ Spells(w, from)
    ELSE "identifier"

-----------------------------------------------------------------------------
Init ==
  /\ text \in Texts
  /\ start = 1 /\ current = 1
  /\ line = 1 /\ column = 1
  /\ tokens = <<>>
  /\ quote = NUL
  /\ mode = "scan"

\* A turn of the loop called m, which reads the character at current.
Reading(m) == mode = m /\ current <= Len(text) + 1

\* Mutants: the column is taken for that of the end; start stays; start goes
\* past the next character whatever it is.
AddTokenFromEnd(type, next) ==
  /\ tokens' = Append(tokens, [type |-> type, start |-> start, length |-> next - start,
                               line |-> line', column |-> column - (next - start)])
  /\ start' = next /\ current' = next /\ column' = column
AddTokenUnmoved(type, next) ==
  /\ tokens' = Append(tokens, [type |-> type, start |-> start, length |-> next - start,
                               line |-> line', column |-> column])
  /\ current' = next /\ column' = column + next - start /\ UNCHANGED start
AddTokenAndBlank(type, next) ==
  /\ tokens' = Append(tokens, [type |-> type, start |-> start, length |-> next - start,
                               line |-> line', column |-> column])
  /\ start' = next + 1 /\ current' = next /\ column' = column + next - start

\* make_token, with current at next: a string loses its quotes, a space
\* after the token is no part of the one after it.
AddToken(type, next) ==
  LET length == next - start
      inner == IF type = "string" THEN 1 ELSE 0
  IN  /\ tokens' = Append(tokens, [type |-> type, start |-> start + inner,
                                   length |-> length - 2 * inner,
                                   line |-> line', column |-> column])
      /\ start' = IF Char(next) = BLANK THEN next + 1 ELSE next
      /\ current' = next
      /\ column' = column + length

\* A token that leaves the line as it is.
Emit(type, next) ==
  /\ line' = line
  /\ AddToken(type, next)
  /\ mode' = "scan"
  /\ UNCHANGED <<text, quote>>

\* current moves to next and another loop runs.
Continue(next, m) ==
  /\ current' = next
  /\ mode' = m
  /\ UNCHANGED <<text, start, line, column, tokens, quote>>

Crash == mode' = "crashed" /\ UNCHANGED <<text, start, current, line, column, tokens, quote>>

-----------------------------------------------------------------------------
SpaceUncounted ==   \* mutant
  /\ Reading("scan") /\ Char(current) = BLANK
  /\ current' = current + 1 /\ start' = current + 1
  /\ UNCHANGED <<text, line, column, tokens, quote, mode>>

Space ==
  /\ Reading("scan") /\ Char(current) = BLANK
  /\ current' = current + 1 /\ start' = current + 1
  /\ column' = column + 1
  /\ UNCHANGED <<text, line, tokens, quote, mode>>

CarriageReturnUnmoved ==   \* mutant
  Reading("scan") /\ Char(current) = "\r" /\ Continue(current, "scan")

\* Neither moves start: the next token starts with the blank.
CarriageReturn ==
  /\ Reading("scan") /\ Char(current) = "\r"
  /\ Continue(current + 1, "scan")
Tab ==
  /\ Reading("scan") /\ Char(current) = "\t"
  /\ current' = current + 1 /\ column' = column + 1
  /\ UNCHANGED <<text, start, line, tokens, quote, mode>>

\* One token for a line break and those that follow it, with the number of
\* the line after the first.
NewLine ==
  /\ Reading("scan") /\ Char(current) = "\n"
  /\ line' = line + 1
  /\ AddToken("\n", current + 1)
  /\ mode' = "newlines"
  /\ UNCHANGED <<text, quote>>
MoreNewLines ==
  /\ Reading("newlines")
  /\ IF Char(current) = "\n"
       THEN /\ current' = current + 1 /\ start' = current + 1
            /\ line' = line + 1
            /\ UNCHANGED <<text, column, tokens, quote, mode>>
       ELSE /\ column' = 1 /\ mode' = "scan"
            /\ UNCHANGED <<text, start, current, line, tokens, quote>>

SymbolOfAnyLength ==   \* mutant
  /\ Reading("scan") /\ ~ Spells("//", current)
  /\ \E s \in Symbols : Spells(s, current) /\ Emit(s, current + Len(s))

\* The longest symbol; two slashes start a comment.
Symbol ==
  /\ Reading("scan") /\ ~ Spells("//", current)
  /\ \E s \in Symbols :
       /\ Spells(s, current)
       /\ \A t \in Symbols : Spells(t, current) => Len(t) <= Len(s)
       /\ Emit(s, current + Len(s))

\* A comment takes the line break with it, or the end of the text.
CommentStart ==
  /\ Reading("scan") /\ Spells("//", current)
  /\ Continue(current + 2, "comment")
CommentCountsNoLine ==   \* mutant
  /\ Reading("comment")
  /\ current' = current + 1 /\ start' = current + 1
  /\ mode' = IF Char(current) \in {"\n", NUL} THEN "scan" ELSE mode
  /\ UNCHANGED <<text, line, column, tokens, quote>>
Comment ==
  /\ Reading("comment")
  /\ current' = current + 1 /\ start' = current + 1
  /\ IF Char(current) \in {"\n", NUL}
       THEN line' = line + 1 /\ mode' = "scan"
       ELSE UNCHANGED <<line, mode>>
  /\ UNCHANGED <<text, column, tokens, quote>>

\* is_string: what follows a backslash is skipped, whatever it is.
StringStart ==
  /\ Reading("scan") /\ Char(current) \in Quotes
  /\ quote' = Char(current)
  /\ current' = current + 1
  /\ mode' = "string"
  /\ UNCHANGED <<text, start, line, column, tokens>>
StringMorePastTheEnd ==   \* mutant
  /\ Reading("string") /\ Char(current) # quote
  /\ current' = current + (IF Char(current) = "\\" THEN 2 ELSE 1)
  /\ line' = IF Char(current) = "\n" THEN line + 1 ELSE line
  /\ UNCHANGED <<text, start, column, tokens, quote, mode>>
StringMore ==
  /\ Reading("string") /\ Char(current) \notin {quote, NUL}
  /\ current' = current + (IF Char(current) = "\\" THEN 2 ELSE 1)
  /\ line' = IF Char(current) = "\n" THEN line + 1 ELSE line
  /\ UNCHANGED <<text, start, column, tokens, quote, mode>>
StringEnd ==
  /\ Reading("string") /\ Char(current) = quote
  /\ Emit("string", current + 1)
StringUnterminated ==
  /\ Reading("string") /\ Char(current) = NUL
  /\ Crash

\* is_number: a dot belongs to it if a digit follows.
NumberStart ==
  /\ Reading("scan") /\ Char(current) \in Digit
  /\ Continue(current + 1, "number")
Number ==
  /\ Reading("number")
  /\ IF Char(current) \in Digit THEN Continue(current + 1, "number")
     ELSE IF Char(current) = "." /\ Char(current + 1) \in Digit
       THEN Continue(current + 1, "fraction")
     ELSE Emit("integer", current)
Fraction ==
  /\ Reading("fraction")
  /\ IF Char(current) \in Digit THEN Continue(current + 1, "fraction")
     ELSE Emit("float", current)

\* is_identifier
WordStart ==
  /\ Reading("scan") /\ Char(current) \in Alpha
  /\ Continue(current + 1, "word")
Word ==
  /\ Reading("word")
  /\ IF Char(current) \in Alphanum THEN Continue(current + 1, "word")
     ELSE Emit(WordType(start, current), current)

\* token_error
Known == Alphanum \cup Quotes \cup {BLANK, "\r", "\t", "\n", NUL}
           \cup {SubSeq(s, 1, 1) : s \in Symbols}
Unknown ==
  /\ Reading("scan") /\ Char(current) \notin Known
  /\ Crash

End ==
  /\ Reading("scan") /\ Char(current) = NUL
  /\ line' = line
  /\ AddToken("EOF", current)
  /\ mode' = "done"
  /\ UNCHANGED <<text, quote>>

\* The character beyond NUL is read.
Overrun ==
  /\ mode \notin {"done", "crashed", "undefined"} /\ current > Len(text) + 1
  /\ mode' = "undefined"
  /\ UNCHANGED <<text, start, current, line, column, tokens, quote>>

Next ==
  \/ Space \/ CarriageReturn \/ Tab \/ NewLine \/ MoreNewLines \/ Symbol
  \/ CommentStart \/ Comment
  \/ StringStart \/ StringMore \/ StringEnd \/ StringUnterminated
  \/ NumberStart \/ Number \/ Fraction \/ WordStart \/ Word
  \/ Unknown \/ End \/ Overrun

Spec == Init /\ [][Next]_vars /\ WF_vars(Next)
-----------------------------------------------------------------------------
Ended == {"done", "crashed", "undefined"}
Modes == {"scan", "newlines", "comment", "string", "number", "fraction", "word"} \cup Ended
TokenTypes == Symbols \cup Reserved \cup {"\n", "string", "integer", "float", "identifier", "EOF"}

\* What each variable holds.
TypeOK ==
  /\ text \in Texts
  /\ start \in Nat /\ current \in Nat
  /\ line \in Nat /\ column \in Nat
  /\ tokens \in Seq([type: TokenTypes, start: Nat, length: Nat, line: Nat, column: Nat])
  /\ quote \in Quotes \cup {NUL}
  /\ mode \in Modes

\* The position after a token's text, and the positions of its text with the
\* quotes of a string.
After(t) == t.start + t.length
Covers(t) == IF t.type = "string" THEN t.start - 1 .. After(t) ELSE t.start .. After(t) - 1

\* Tokens lie in the text, one after the other, and what is being read comes
\* after them: no character is in two tokens (make_token, SKIP).
TokensInOrder ==
  /\ \A i \in DOMAIN tokens :
       tokens[i].start >= 1 /\ After(tokens[i]) <= start /\ After(tokens[i]) <= Len(text) + 1
  /\ \A i \in 2 .. Len(tokens) : After(tokens[i - 1]) <= tokens[i].start

\* A character of a text between two positions that is hidden from the one
\* before it by a backslash.
Escaped(from, k) ==
  \E n \in 0 .. k - from :
    /\ \A m \in 1 .. n : Char(k - m) = "\\"
    /\ (k - n = from \/ Char(k - n - 1) # "\\")
    /\ n % 2 = 1

All(from, to, set) == \A k \in from .. to : Char(k) \in set

(***************************************************************************)
(* Without tabs and carriage returns, which stay in the token that follows *)
(* them, every token spells what its type says and could not be longer.    *)
(***************************************************************************)
IsExact(t) ==
  LET from == t.start
      after == After(t)
  IN  CASE t.type \in Symbols ->
             /\ t.length = Len(t.type) /\ Spells(t.type, from)
             /\ \A s \in Symbols : Spells(s, from) => Len(s) <= t.length
        [] t.type \in Reserved ->
             /\ t.length = Len(t.type) /\ Spells(t.type, from)
             /\ Char(after) \notin Alphanum
        [] t.type = "identifier" ->
             /\ Char(from) \in Alpha /\ All(from, after - 1, Alphanum)
             /\ Char(after) \notin Alphanum
             /\ ~ \E w \in Reserved : Len(w) = t.length /\ Spells(w, from)
        [] t.type = "integer" ->
             /\ t.length > 0 /\ All(from, after - 1, Digit)
             /\ Char(after) \notin Digit
             /\ ~ (Char(after) = "." /\ Char(after + 1) \in Digit)
        [] t.type = "float" ->
             /\ \E d \in from + 1 .. after - 2 :
                  All(from, d - 1, Digit) /\ Char(d) = "." /\ All(d + 1, after - 1, Digit)
             /\ Char(after) \notin Digit
        [] t.type = "string" ->
             /\ Char(from - 1) \in Quotes /\ Char(after) = Char(from - 1)
             /\ ~ Escaped(from, after)
             /\ \A k \in from .. after - 1 : Char(k) = Char(from - 1) => Escaped(from, k)
        [] t.type = "\n" -> t.length = 1 /\ Char(from) = "\n"
        [] t.type = "EOF" -> t.length = 0 /\ from = Len(text) + 1
TokensAreExact ==
  {"\t", "\r"} \cap {text[k] : k \in DOMAIN text} = {} =>
    \A i \in DOMAIN tokens : IsExact(tokens[i])

(***************************************************************************)
(* What is left out is blank, a line break after one that is a token, or   *)
(* in a comment: between two slashes that are in no token and the end of   *)
(* their line.                                                             *)
(***************************************************************************)
Covered == UNION {Covers(tokens[i]) : i \in DOMAIN tokens}
InComment(k) ==
  \E c \in 1 .. k :
    /\ Spells("//", c) /\ c \notin Covered
    /\ \A j \in c .. k - 1 : Char(j) # "\n"
NothingIsSkipped ==
  \A k \in (1 .. start - 1) \ Covered :
    \/ k > Len(text)
    \/ Char(k) \in {BLANK, "\t", "\r"}
    \/ Char(k) = "\n" /\ Char(k - 1) = "\n"
    \/ InComment(k)

(***************************************************************************)
(* The positions reported to the user are true: a token is in the line its *)
(* last character is in (for a line break, the line it starts), and in its *)
(* column unless a comment, a string over several lines or a tab is        *)
(* between it and the last token that is a line break.  A line break       *)
(* behind a backslash is not counted.                                      *)
(***************************************************************************)
Breaks(from, to) == Cardinality({k \in from .. to : Char(k) = "\n"})
LinesAreTrue ==
  "\\" \notin {text[k] : k \in DOMAIN text} =>
    \A i \in DOMAIN tokens : tokens[i].line = 1 + Breaks(1, After(tokens[i]) - 1)
LineStart(k) == CHOOSE s \in 1 .. k :
  /\ s = 1 \/ Char(s - 1) = "\n"
  /\ "\n" \notin {text[j] : j \in s .. k - 1}
ColumnsAreTrue ==
  \A i \in DOMAIN tokens :
    LET t == tokens[i]
        from == IF t.type = "string" THEN t.start - 1 ELSE t.start
        SinceBreak(k) ==
          \A j \in 1 .. i - 1 : tokens[j].type = "\n" => tokens[j].start < k
    IN  \/ t.column = 1 + from - LineStart(from)
        \/ \E k \in 1 .. from : SinceBreak(k) /\
             \/ Spells("//", k) \/ Char(k) \in {"\t", "\r"}
             \/ Char(k) = "\n" /\ \E j \in 1 .. i - 1 :
                  tokens[j].type = "string" /\ k \in Covers(tokens[j])

\* The lexer reads beyond the text only if it ends in a comment or a
\* backslash.
OverrunsAreKnown ==
  mode = "undefined" =>
    \/ Char(Len(text)) = "\\"
    \/ \E k \in 1 .. Len(text) : Spells("//", k) /\ ~ \E j \in k .. Len(text) : Char(j) = "\n"

\* Every text is scanned to its end or refused.
ScanningEnds == <>(mode \in Ended)
=============================================================================
