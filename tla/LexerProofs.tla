----------------------------- MODULE LexerProofs -----------------------------
(***************************************************************************)
(* Proofs about Lexer, for texts of any length over any characters: where  *)
(* tokens lie, what lies between them, and how the text may be left.       *)
(***************************************************************************)
EXTENDS Lexer, SequenceTheorems, FiniteSetTheorems, TLAPS

\* The pointers in each loop.  make_token moves start over one blank.
Place ==
  /\ start >= 1 /\ current >= 1
  /\ mode \in {"scan", "newlines"} =>
       start <= current \/ (start = current + 1 /\ Char(current) = BLANK)
  /\ mode = "comment" => start <= current
  /\ mode \in {"string", "number", "fraction", "word"} => start < current
  /\ mode = "string" => quote \in Quotes

\* The position after all of a token, the quotes of a string included.
Behind(t) == IF t.type = "string" THEN After(t) + 1 ELSE After(t)

TokensBehind ==
  \A i \in DOMAIN tokens : tokens[i].start >= 1 /\ Behind(tokens[i]) <= start

Tokens == [type: TokenTypes, start: Nat, length: Nat, line: Nat, column: Nat]

\* A token is made of the text between start and next.
Makes(type, next) ==
  /\ type \in TokenTypes /\ next \in Nat
  /\ start <= next /\ next <= Len(text) + 1
  /\ type = "string" => start + 2 <= next
  /\ line' \in Nat
  /\ AddToken(type, next)

-----------------------------------------------------------------------------
\* Characters.

LEMMA Characters ==
  /\ NUL # BLANK /\ NUL # "\n" /\ NUL # "\\"
  /\ BLANK # "\n" /\ BLANK # "\\" /\ "\n" # "\\"
  /\ \A q \in Quotes : q \notin {NUL, BLANK, "\n", "\\"}
  /\ "\t" # BLANK /\ "\r" # BLANK /\ "\t" # NUL /\ "\r" # NUL
BY Zenon DEF NUL, BLANK, Quotes

LEMMA TextFacts ==
  ASSUME TypeOK
  PROVE  /\ Len(text) \in Nat
         /\ \A i : Char(i) # NUL => i \in 1 .. Len(text)
         /\ \A i \in 1 .. Len(text) : Char(i) # NUL /\ Char(i) = text[i]
<1>1. text \in Seq(STRING) /\ NUL \notin {text[i] : i \in 1 .. Len(text)}
  BY TextsAssumption DEF TypeOK
<1>2. Len(text) \in Nat
  BY <1>1, LenProperties
<1> QED BY <1>1, <1>2 DEF Char

LEMMA SameText ==
  ASSUME text' = text
  PROVE  /\ \A i : Char(i)' = Char(i)
         /\ \A w, i : Spells(w, i)' <=> Spells(w, i)
BY DEF Char, Spells

\* What is spelled lies in the text and does not start with a blank.
LEMMA SpelledInText ==
  ASSUME TypeOK, NEW w \in Symbols \cup Reserved \cup {"//"}, NEW i \in Nat \ {0}, Spells(w, i)
  PROVE  /\ Len(w) \in Nat \ {0} /\ i + Len(w) <= Len(text) + 1
         /\ \A k \in i .. i + Len(w) - 1 : Char(k) \notin {NUL, BLANK, "\n", "\t", "\r"}
<1>1. /\ Len(w) \in Nat \ {0}
      /\ \A k \in 1 .. Len(w) : SubSeq(w, k, k) \notin {NUL, BLANK, "\n", "\t", "\r"}
  BY SpellingAssumption
<1>2. \A k \in 1 .. Len(w) : Char(i + k - 1) \notin {NUL, BLANK, "\n", "\t", "\r"}
  BY <1>1 DEF Spells
<1>3. ASSUME NEW k \in i .. i + Len(w) - 1
      PROVE  Char(k) \notin {NUL, BLANK, "\n", "\t", "\r"}
  <2> DEFINE j == k - i + 1
  <2>1. j \in 1 .. Len(w) /\ i + j - 1 = k
    BY <1>1
  <2> QED BY <1>2, <2>1
<1>4. i + Len(w) - 1 \in 1 .. Len(text)
  <2>1. i + Len(w) - 1 \in i .. i + Len(w) - 1
    BY <1>1
  <2> QED BY <1>3, <2>1, TextFacts
<1> QED BY <1>1, <1>3, <1>4, TextFacts

-----------------------------------------------------------------------------
\* Each step makes one token or none.

LEMMA Integers ==
  ASSUME TypeOK, Place
  PROVE  /\ start \in Nat \ {0} /\ current \in Nat \ {0} /\ line \in Nat /\ column \in Nat
         /\ Len(text) \in Nat
         /\ mode = "scan" /\ Char(current) # BLANK => start <= current
         /\ mode = "newlines" /\ Char(current) # BLANK => start <= current
         /\ mode = "comment" => start <= current
         /\ mode \in {"string", "number", "fraction", "word"} => start < current
<1>1. start \in Nat /\ current \in Nat /\ line \in Nat /\ column \in Nat
  BY DEF TypeOK
<1>2. Len(text) \in Nat
  BY TextFacts
<1> QED BY <1>1, <1>2 DEF Place

\* A character more of a number or a word.
Extends(m) ==
  \/ mode = m /\ m \in {"number", "fraction"} /\ Char(current) \in Digit
  \/ mode = "number" /\ m = "fraction" /\ Char(current) = "." /\ Char(current + 1) \in Digit
  \/ mode = "word" /\ m = "word" /\ Char(current) \in Alphanum
Longer ==
  /\ mode \in {"number", "fraction", "word"} /\ current <= Len(text) + 1
  /\ Char(current) # NUL
  /\ \E m \in {"number", "fraction", "word"} : Continue(current + 1, m) /\ Extends(m)

Quiet ==
  \/ Space \/ CarriageReturn \/ Tab \/ MoreNewLines \/ CommentStart \/ Comment
  \/ StringStart \/ StringMore \/ StringUnterminated \/ NumberStart \/ WordStart
  \/ Unknown \/ Overrun \/ Longer

\* A step that makes a token.
Speaks(type, next) ==
  /\ Makes(type, next)
  /\ mode' \in {"scan", "newlines", "done"}
  /\ mode' = "newlines" => next > 1 /\ Char(next - 1) = "\n"
  /\ UNCHANGED <<text, quote>>

\* What ends at next when a token of that type is made.
Longest(s, i) == Spells(s, i) /\ \A t \in Symbols : Spells(t, i) => Len(t) <= Len(s)
Detail(type, next) ==
  \/ /\ type = "\n" /\ mode = "scan" /\ Char(current) = "\n" /\ next = current + 1
     /\ line' = line + 1 /\ mode' = "newlines"
  \/ /\ line' = line /\ mode' \in {"scan", "done"}
     /\ \/ type \in Symbols /\ mode = "scan" /\ Longest(type, current) /\ next = current + Len(type)
        \/ type = "string" /\ mode = "string" /\ Char(current) = quote /\ next = current + 1
        \/ /\ type = "integer" /\ mode = "number" /\ next = current
           /\ ~ (Char(current) \in Digit \/ (Char(current) = "." /\ Char(current + 1) \in Digit))
        \/ type = "float" /\ mode = "fraction" /\ next = current /\ Char(current) \notin Digit
        \/ /\ type = WordType(start, current) /\ mode = "word" /\ next = current
           /\ Char(current) \notin Alphanum
        \/ type = "EOF" /\ mode = "scan" /\ next = current /\ Char(current) = NUL

LEMMA EmitSpeaks ==
  ASSUME TypeOK, NEW type, NEW next, Emit(type, next),
         type \in TokenTypes, next \in Nat, start <= next, next <= Len(text) + 1,
         type = "string" => start + 2 <= next
  PROVE  Speaks(type, next)
<1>1. line \in Nat
  BY DEF TypeOK
<1> QED BY <1>1 DEF Emit, Makes, Speaks

LEMMA Steps ==
  ASSUME TypeOK, Place, Next
  PROVE  Quiet \/ \E type \in TokenTypes, next \in Nat : Speaks(type, next) /\ Detail(type, next)
<1> USE DEF Reading
<1>0. /\ start \in Nat \ {0} /\ current \in Nat \ {0} /\ line \in Nat /\ column \in Nat
      /\ Len(text) \in Nat
      /\ mode = "scan" /\ Char(current) # BLANK => start <= current
      /\ mode \in {"string", "number", "fraction", "word"} => start < current
  BY Integers
<1>1. CASE NewLine
  <2>1. current <= Len(text)
    BY <1>0, <1>1, TextFacts, Characters DEF NewLine
  <2>2. /\ AddToken("\n", current + 1) /\ line' = line + 1 /\ start <= current
        /\ mode' = "newlines" /\ UNCHANGED <<text, quote>>
    BY <1>0, <1>1, Characters DEF NewLine
  <2>3. "\n" \in TokenTypes
    BY DEF TokenTypes
  <2>4. Speaks("\n", current + 1)
    <3>1. current + 1 > 1 /\ (current + 1) - 1 = current /\ Char(current) = "\n"
      BY <1>0, <1>1 DEF NewLine
    <3> QED BY <1>0, <2>1, <2>2, <2>3, <3>1 DEF Makes, Speaks
  <2>5. Detail("\n", current + 1)
    BY <1>1, <2>2 DEF NewLine, Detail
  <2> QED BY <1>0, <2>3, <2>4, <2>5
<1>2. CASE Symbol
  <2>1. PICK s \in Symbols :
           /\ Spells(s, current) /\ Emit(s, current + Len(s))
           /\ \A t \in Symbols : Spells(t, current) => Len(t) <= Len(s)
    BY <1>2 DEF Symbol
  <2>2. /\ Len(s) \in Nat \ {0} /\ current + Len(s) <= Len(text) + 1
        /\ \A k \in current .. current + Len(s) - 1 : Char(k) \notin {NUL, BLANK, "\n", "\t", "\r"}
    BY <1>0, <2>1, SpelledInText
  <2>3. current \in current .. current + Len(s) - 1
    BY <1>0, <2>2
  <2>4. start <= current
    BY <1>0, <1>2, <2>2, <2>3 DEF Symbol
  <2>5. s \in TokenTypes /\ s # "string"
    BY DEF TokenTypes, Symbols
  <2>6. start <= current + Len(s) /\ current + Len(s) \in Nat
    BY <1>0, <2>2, <2>4
  <2>7. Speaks(s, current + Len(s))
    BY <2>1, <2>2, <2>5, <2>6, EmitSpeaks
  <2>8. Longest(s, current) /\ mode = "scan" /\ line' = line /\ mode' = "scan"
    BY <1>2, <2>1 DEF Symbol, Emit, Longest
  <2>9. Detail(s, current + Len(s))
    BY <2>8 DEF Detail
  <2> QED BY <2>5, <2>6, <2>7, <2>9
<1>3. CASE StringEnd
  <2>1. /\ Char(current) # NUL /\ start < current /\ Emit("string", current + 1)
    BY <1>0, <1>3, Characters DEF StringEnd, Place
  <2>2. current <= Len(text)
    BY <1>0, <2>1, TextFacts
  <2>3. "string" \in TokenTypes
    BY DEF TokenTypes
  <2>4. start <= current + 1 /\ current + 1 <= Len(text) + 1 /\ start + 2 <= current + 1
        /\ current + 1 \in Nat
    BY <1>0, <2>1, <2>2
  <2>5. Speaks("string", current + 1)
    BY <2>1, <2>3, <2>4, EmitSpeaks
  <2>6. Detail("string", current + 1)
    BY <1>3, <2>1 DEF StringEnd, Emit, Detail
  <2> QED BY <2>3, <2>4, <2>5, <2>6
<1>4. ASSUME NEW type, type \in TokenTypes \ {"string"}, Emit(type, current),
             mode \in {"number", "fraction", "word"}, current <= Len(text) + 1
      PROVE  Speaks(type, current) /\ current \in Nat
  BY <1>0, <1>4, EmitSpeaks
<1>5. CASE Number
  <2>1. CASE Char(current) \in Digit \/ (Char(current) = "." /\ Char(current + 1) \in Digit)
    <3>1. Char(current) # NUL
      BY <2>1, SpellingAssumption DEF Alphanum, NUL
    <3>2. \E m \in {"number", "fraction"} : Continue(current + 1, m) /\ Extends(m)
      BY <1>5, <2>1 DEF Number, Extends
    <3> QED BY <1>5, <3>1, <3>2 DEF Number, Longer, Quiet
  <2>2. CASE ~ (Char(current) \in Digit \/ (Char(current) = "." /\ Char(current + 1) \in Digit))
    <3>1. Emit("integer", current) /\ "integer" \in TokenTypes
      BY <1>5, <2>2 DEF Number, TokenTypes
    <3>2. Detail("integer", current)
      BY <1>5, <2>2, <3>1 DEF Number, Emit, Detail
    <3> QED BY <1>4, <1>5, <3>1, <3>2 DEF Number
  <2> QED BY <2>1, <2>2
<1>6. CASE Fraction
  <2>1. CASE Char(current) \in Digit
    <3>1. Char(current) # NUL
      BY <2>1, SpellingAssumption DEF Alphanum
    <3>2. Continue(current + 1, "fraction") /\ Extends("fraction")
      BY <1>6, <2>1 DEF Fraction, Extends
    <3> QED BY <1>6, <3>1, <3>2 DEF Fraction, Longer, Quiet
  <2>2. CASE Char(current) \notin Digit
    <3>1. Emit("float", current) /\ "float" \in TokenTypes
      BY <1>6, <2>2 DEF Fraction, TokenTypes
    <3>2. Detail("float", current)
      BY <1>6, <2>2, <3>1 DEF Fraction, Emit, Detail
    <3> QED BY <1>4, <1>6, <3>1, <3>2 DEF Fraction
  <2> QED BY <2>1, <2>2
<1>7. CASE Word
  <2>1. CASE Char(current) \in Alphanum
    <3>1. Char(current) # NUL
      BY <2>1, SpellingAssumption
    <3>2. Continue(current + 1, "word") /\ Extends("word")
      BY <1>7, <2>1 DEF Word, Extends
    <3> QED BY <1>7, <3>1, <3>2 DEF Word, Longer, Quiet
  <2>2. CASE Char(current) \notin Alphanum
    <3> DEFINE type == WordType(start, current)
    <3>1. Emit(type, current)
      BY <1>7, <2>2 DEF Word
    <3>2. type \in Reserved \cup {"identifier"}
      BY DEF WordType
    <3> HIDE DEF type
    <3>3. type \in TokenTypes \ {"string"}
      BY <3>2 DEF TokenTypes, Reserved
    <3>4. Detail(WordType(start, current), current)
      BY <1>7, <2>2, <3>1 DEF Word, Emit, Detail, type
    <3>5. Detail(type, current)
      BY <3>4 DEF type
    <3> QED BY <1>4, <1>7, <3>1, <3>3, <3>5 DEF Word
  <2> QED BY <2>1, <2>2
<1>8. CASE End
  <2>1. /\ AddToken("EOF", current) /\ line' = line
        /\ start <= current /\ current <= Len(text) + 1
        /\ mode' = "done" /\ UNCHANGED <<text, quote>>
    BY <1>0, <1>8, Characters DEF End
  <2>2. "EOF" \in TokenTypes
    BY DEF TokenTypes
  <2>3. Speaks("EOF", current)
    BY <1>0, <2>1, <2>2 DEF Makes, Speaks
  <2>4. Detail("EOF", current)
    BY <1>8, <2>1 DEF End, Detail
  <2> QED BY <1>0, <2>2, <2>3, <2>4
<1> QED BY <1>1, <1>2, <1>3, <1>5, <1>6, <1>7, <1>8 DEF Next, Quiet

LEMMA QuietKeeps ==
  ASSUME TypeOK, Place, Quiet
  PROVE  /\ tokens' = tokens /\ text' = text
         /\ start' \in Nat /\ start' >= start
         /\ TypeOK' /\ Place'
<1> USE DEF Reading
<1>0. /\ start \in Nat \ {0} /\ current \in Nat \ {0} /\ line \in Nat /\ column \in Nat
      /\ Len(text) \in Nat
      /\ mode = "scan" /\ Char(current) # BLANK => start <= current
      /\ mode = "newlines" /\ Char(current) # BLANK => start <= current
      /\ mode = "comment" => start <= current
      /\ mode \in {"string", "number", "fraction", "word"} => start < current
  BY Integers
<1>1. /\ tokens' = tokens /\ text' = text /\ start' \in Nat /\ start' >= start
      /\ current' \in Nat /\ line' \in Nat /\ column' \in Nat
  <2>1. CASE Space \/ CarriageReturn \/ Tab \/ CommentStart \/ Comment
    BY <1>0, <2>1 DEF Space, CarriageReturn, Tab, CommentStart, Comment, Continue, Place
  <2>2. CASE MoreNewLines
    BY <1>0, <2>2, Characters DEF MoreNewLines
  <2>3. CASE StringStart \/ StringMore \/ StringUnterminated \/ NumberStart \/ WordStart \/ Unknown
             \/ Overrun \/ Longer
    BY <1>0, <2>3 DEF StringStart, StringMore, StringUnterminated, NumberStart, WordStart, Unknown,
                      Overrun, Longer, Continue, Crash
  <2> QED BY <2>1, <2>2, <2>3 DEF Quiet
<1>2. mode' \in Modes /\ quote' \in Quotes \cup {NUL}
  BY DEF TypeOK, Quiet, Modes, Ended, Space, CarriageReturn, Tab, CommentStart, Comment, MoreNewLines,
         StringStart, StringMore, StringUnterminated, NumberStart, WordStart, Unknown,
         Overrun, Longer, Continue, Crash
<1>3. TypeOK'
  BY <1>1, <1>2 DEF TypeOK
<1>4. Place'
  <2>1. \A i : Char(i)' = Char(i)
    BY <1>1, SameText
  <2>2. start' >= 1
    BY <1>0, <1>1
  <2>3. CASE Space \/ CarriageReturn \/ Tab \/ CommentStart \/ Comment
    BY <1>0, <2>2, <2>3, Characters
       DEF Space, CarriageReturn, Tab, CommentStart, Comment, Continue, Place
  <2>4. CASE MoreNewLines
    <3>1. CASE Char(current) = "\n"
      BY <1>0, <2>2, <2>4, <3>1, Characters DEF MoreNewLines, Place
    <3>2. CASE Char(current) # "\n"
      BY <1>0, <2>1, <2>2, <2>4, <3>2 DEF MoreNewLines, Place
    <3> QED BY <3>1, <3>2
  <2>5. CASE StringStart \/ NumberStart \/ WordStart
    <3>1. Char(current) # BLANK
      BY <2>5, Characters, SpellingAssumption DEF StringStart, NumberStart, WordStart, Alphanum
    <3> QED BY <1>0, <2>2, <2>5, <3>1 DEF StringStart, NumberStart, WordStart, Continue, Place
  <2>6. CASE StringMore \/ StringUnterminated \/ Unknown \/ Overrun \/ Longer
    BY <1>0, <2>2, <2>6
       DEF StringMore, StringUnterminated, Unknown, Overrun, Longer, Continue, Crash, Place
  <2> QED BY <2>3, <2>4, <2>5, <2>6 DEF Quiet
<1> QED BY <1>1, <1>3, <1>4

\* The token that is made.
LEMMA TokenMade ==
  ASSUME TypeOK, NEW type, NEW next, Makes(type, next)
  PROVE  \E t \in Tokens :
           /\ tokens' = Append(tokens, t)
           /\ t.type = type /\ t.line = line' /\ t.column = column
           /\ t.start = (IF type = "string" THEN start + 1 ELSE start)
           /\ After(t) = (IF type = "string" THEN next - 1 ELSE next)
           /\ Behind(t) = next
           /\ start' = (IF Char(next) = BLANK THEN next + 1 ELSE next)
           /\ current' = next /\ column' = column + (next - start)
<1> DEFINE inner == IF type = "string" THEN 1 ELSE 0
           t == [type |-> type, start |-> start + inner, length |-> next - start - 2 * inner,
                 line |-> line', column |-> column]
<1>1. t \in Tokens
  BY DEF Makes, Tokens, TypeOK
<1>2. /\ tokens' = Append(tokens, t) /\ current' = next /\ column' = column + (next - start)
      /\ start' = (IF Char(next) = BLANK THEN next + 1 ELSE next)
  BY DEF Makes, AddToken
<1>3. /\ After(t) = (IF type = "string" THEN next - 1 ELSE next)
      /\ Behind(t) = next
  BY DEF Makes, After, Behind, TypeOK
<1>4. t.type = type /\ t.line = line' /\ t.column = column /\ t.start = start + inner
  OBVIOUS
<1>5. start + inner = (IF type = "string" THEN start + 1 ELSE start)
  BY DEF TypeOK
<1> HIDE DEF t, inner
<1> QED BY <1>1, <1>2, <1>3, <1>4, <1>5

LEMMA Appending ==
  ASSUME TypeOK, NEW t \in Tokens, tokens' = Append(tokens, t)
  PROVE  /\ tokens' \in Seq(Tokens) /\ Len(tokens) \in Nat
         /\ DOMAIN tokens = 1 .. Len(tokens) /\ DOMAIN tokens' = 1 .. Len(tokens) + 1
         /\ Len(tokens') = Len(tokens) + 1
         /\ \A i \in 1 .. Len(tokens) : tokens'[i] = tokens[i] /\ tokens[i] \in Tokens
         /\ tokens'[Len(tokens) + 1] = t
<1>1. tokens \in Seq(Tokens)
  BY DEF TypeOK, Tokens
<1> QED BY <1>1, AppendProperties, LenProperties, ElementOfSeq

LEMMA SpeaksKeeps ==
  ASSUME TypeOK, Place, NEW type, NEW next, Speaks(type, next)
  PROVE  /\ TypeOK' /\ Place'
         /\ start' \in Nat /\ start' >= next /\ next >= start
<1>1. PICK t \in Tokens :
        /\ tokens' = Append(tokens, t)
        /\ start' = (IF Char(next) = BLANK THEN next + 1 ELSE next)
        /\ current' = next /\ column' = column + (next - start)
  BY TokenMade DEF Speaks
<1>2. /\ next \in Nat /\ start <= next /\ line' \in Nat
      /\ mode' \in {"scan", "newlines", "done"} /\ text' = text /\ quote' = quote
  BY DEF Speaks, Makes
<1>3. start \in Nat \ {0} /\ column \in Nat
  BY Integers
<1>4. start' \in Nat /\ start' >= next /\ current' \in Nat /\ column' \in Nat
  BY <1>1, <1>2, <1>3
<1>5. tokens' \in Seq(Tokens)
  BY <1>1, Appending
<1>6. TypeOK'
  BY <1>2, <1>4, <1>5 DEF TypeOK, Tokens, Modes, Ended
<1>7. Char(next)' = Char(next)
  BY <1>2, SameText
<1>8. Place'
  BY <1>1, <1>2, <1>3, <1>4, <1>7 DEF Place
<1> QED BY <1>2, <1>4, <1>6, <1>8

-----------------------------------------------------------------------------
\* Tokens lie in order.

Ordered == TokensBehind /\ TokensInOrder

LEMMA QuietOrder ==
  ASSUME TypeOK, Place, Ordered, Quiet
  PROVE  Ordered'
<1>1. /\ tokens' = tokens /\ text' = text
      /\ start' \in Nat /\ start' >= start
  BY QuietKeeps
<1>2. start \in Nat
  BY DEF TypeOK
<1>3. tokens \in Seq(Tokens)
  BY DEF TypeOK, Tokens
<1>4. \A i \in DOMAIN tokens : Behind(tokens[i]) \in Nat /\ After(tokens[i]) \in Nat
  <2>1. \A i \in DOMAIN tokens : tokens[i] \in Tokens
    BY <1>3, ElementOfSeq, LenProperties
  <2> QED BY <2>1 DEF Tokens, Behind, After
<1> QED BY <1>1, <1>2, <1>4 DEF Ordered, TokensBehind, TokensInOrder, Behind, After

LEMMA SpeaksOrder ==
  ASSUME TypeOK, Place, Ordered, NEW type, NEW next, Speaks(type, next)
  PROVE  Ordered'
<1> DEFINE n == Len(tokens)
<1>1. PICK t \in Tokens :
        /\ tokens' = Append(tokens, t)
        /\ t.start = (IF type = "string" THEN start + 1 ELSE start)
        /\ After(t) = (IF type = "string" THEN next - 1 ELSE next)
        /\ Behind(t) = next
  BY TokenMade DEF Speaks
<1>2. /\ n \in Nat /\ DOMAIN tokens = 1 .. n /\ DOMAIN tokens' = 1 .. n + 1 /\ Len(tokens') = n + 1
      /\ \A i \in 1 .. n : tokens'[i] = tokens[i] /\ tokens[i] \in Tokens
      /\ tokens'[n + 1] = t
  BY <1>1, Appending
<1>3. /\ start' \in Nat /\ start' >= next /\ next >= start /\ start \in Nat \ {0}
      /\ next \in Nat /\ next <= Len(text) + 1 /\ text' = text /\ Len(text) \in Nat
  BY SpeaksKeeps, Integers DEF Speaks, Makes
<1>4. \A i \in 1 .. n : /\ Behind(tokens[i]) \in Nat /\ After(tokens[i]) \in Nat
                        /\ tokens[i].start \in Nat /\ After(tokens[i]) <= Behind(tokens[i])
  BY <1>2 DEF Tokens, Behind, After
<1>5. \A i \in 1 .. n : /\ tokens[i].start >= 1 /\ Behind(tokens[i]) <= start
                        /\ After(tokens[i]) <= Len(text) + 1
  BY <1>2 DEF Ordered, TokensBehind, TokensInOrder
<1>6. \A i \in 1 .. n + 1 : i \in 1 .. n \/ i = n + 1
  BY <1>2
<1>7. TokensBehind'
  <2>1. ASSUME NEW i \in 1 .. n + 1
        PROVE  tokens'[i].start >= 1 /\ Behind(tokens'[i]) <= start'
    <3>1. CASE i \in 1 .. n
      BY <1>2, <1>3, <1>4, <1>5, <3>1
    <3>2. CASE i = n + 1
      BY <1>1, <1>2, <1>3, <3>2
    <3> QED BY <1>6, <3>1, <3>2
  <2> QED BY <1>2, <2>1 DEF TokensBehind, Behind, After
<1>8. ASSUME NEW i \in 1 .. n + 1
      PROVE  /\ tokens'[i].start >= 1 /\ After(tokens'[i]) <= start'
             /\ After(tokens'[i]) <= Len(text) + 1
  <2>1. CASE i \in 1 .. n
    BY <1>2, <1>3, <1>4, <1>5, <2>1
  <2>2. CASE i = n + 1
    BY <1>1, <1>2, <1>3, <2>2
  <2> QED BY <1>6, <2>1, <2>2
<1>9. ASSUME NEW i \in 2 .. n + 1
      PROVE  After(tokens'[i - 1]) <= tokens'[i].start
  <2>1. i - 1 \in 1 .. n
    BY <1>2
  <2>2. CASE i \in 2 .. n
    <3>1. i \in 1 .. n
      BY <2>2
    <3> QED BY <1>2, <2>1, <2>2, <3>1 DEF Ordered, TokensInOrder
  <2>3. CASE i = n + 1
    <3>1. t.start >= start /\ t.start \in Nat
      BY <1>1, <1>3 DEF Tokens
    <3> QED BY <1>2, <1>3, <1>4, <1>5, <2>1, <2>3, <3>1
  <2>4. i \in 2 .. n \/ i = n + 1
    BY <1>2
  <2> QED BY <2>2, <2>3, <2>4
<1>10. TokensInOrder'
  BY <1>2, <1>3, <1>8, <1>9 DEF TokensInOrder, After
<1> QED BY <1>7, <1>10 DEF Ordered

-----------------------------------------------------------------------------
\* What lies between tokens.

Skippable(k) ==
  \/ k > Len(text)
  \/ Char(k) \in {BLANK, "\t", "\r"}
  \/ Char(k) = "\n" /\ Char(k - 1) = "\n"
  \/ InComment(k)

\* The comment being read starts at c.
CommentFrom(c) ==
  /\ c \in 1 .. current - 1 /\ Spells("//", c) /\ c \notin Covered
  /\ \A j \in c .. current - 1 : Char(j) # "\n"
  /\ \A k \in start .. c - 1 : Char(k) \in {"\t", "\r"}

Gap ==
  /\ mode = "scan" => \A k \in start .. current - 1 : Char(k) \in {"\t", "\r"}
  /\ mode = "newlines" => start >= current /\ current > 1 /\ Char(current - 1) = "\n"
  /\ mode = "comment" => \E c \in 1 .. current - 1 : CommentFrom(c)

LEMMA CoveredIsBehind ==
  ASSUME TypeOK, Ordered
  PROVE  \A k \in Covered : k < start
<1>1. \A i \in DOMAIN tokens : tokens[i] \in Tokens
  BY ElementOfSeq, LenProperties DEF TypeOK, Tokens
<1>2. ASSUME NEW i \in DOMAIN tokens, NEW k \in Covers(tokens[i]) PROVE k < start
  <2>1. Behind(tokens[i]) <= start
    BY DEF Ordered, TokensBehind
  <2>2. /\ After(tokens[i]) \in Nat /\ start \in Nat /\ tokens[i].start \in Nat
        /\ Behind(tokens[i]) = (IF tokens[i].type = "string" THEN After(tokens[i]) + 1 ELSE After(tokens[i]))
    BY SMTT(20), <1>1 DEF Tokens, After, Behind, TypeOK
  <2>3. k \in Int /\ k < Behind(tokens[i])
    <3>1. CASE tokens[i].type = "string"
      BY <1>2, <2>2, <3>1 DEF Covers
    <3>2. CASE tokens[i].type # "string"
      BY <1>2, <2>2, <3>2 DEF Covers
    <3> QED BY <3>1, <3>2
  <2> QED BY <2>1, <2>2, <2>3
<1> QED BY <1>2 DEF Covered

LEMMA QuietCovers ==
  ASSUME tokens' = tokens, text' = text
  PROVE  /\ Covered' = Covered
         /\ \A k : Skippable(k)' <=> Skippable(k)
<1>1. Covered' = Covered
  BY DEF Covered, Covers, After
<1> QED BY <1>1 DEF Skippable, InComment, Spells, Char

LEMMA QuietGap ==
  ASSUME TypeOK, Place, Ordered, Gap, Quiet
  PROVE  Gap'
<1> USE DEF Reading
<1>0. /\ start \in Nat \ {0} /\ current \in Nat \ {0}
      /\ Len(text) \in Nat
      /\ mode = "scan" /\ Char(current) # BLANK => start <= current
      /\ mode = "comment" => start <= current
  BY Integers
<1>1. tokens' = tokens /\ text' = text
  BY QuietKeeps
<1>2. /\ \A i : Char(i)' = Char(i)
      /\ \A w, i : Spells(w, i)' <=> Spells(w, i)
      /\ Covered' = Covered
  BY <1>1, SameText, QuietCovers
<1>3. CASE Space
  BY <1>0, <1>3 DEF Space, Gap
<1>4. CASE CarriageReturn \/ Tab
  <2>1. /\ Char(current) \in {"\t", "\r"} /\ start' = start /\ current' = current + 1
        /\ mode = "scan" /\ mode' = "scan"
    BY <1>4 DEF CarriageReturn, Tab, Continue
  <2>2. \A k \in start .. current : k \in start .. current - 1 \/ k = current
    BY <1>0
  <2> QED BY <1>0, <1>2, <2>1, <2>2 DEF Gap
<1>5. CASE MoreNewLines
  <2>1. CASE Char(current) = "\n"
    <3>1. current' = current + 1 /\ start' = current + 1 /\ mode' = "newlines"
      BY <1>5, <2>1 DEF MoreNewLines
    <3>2. current' - 1 = current /\ current' > 1 /\ start' >= current'
      BY <1>0, <3>1
    <3> QED BY <1>2, <2>1, <3>1, <3>2 DEF Gap
  <2>2. CASE Char(current) # "\n"
    BY <1>0, <1>5, <2>2 DEF MoreNewLines, Gap
  <2> QED BY <2>1, <2>2
<1>6. CASE CommentStart
  <2>1. PICK c \in Nat \ {0} : c = current
    BY <1>0
  <2>2. /\ Spells("//", c) /\ start' = start /\ current' = c + 2 /\ mode' = "comment"
        /\ mode = "scan"
    BY <1>6, <2>1 DEF CommentStart, Continue
  <2>3. \A k \in c .. c + 1 : Char(k) \notin {NUL, BLANK, "\n", "\t", "\r"}
    <3>1. \A k \in c .. c + 2 - 1 : Char(k) \notin {NUL, BLANK, "\n", "\t", "\r"}
      BY <2>2, SpelledInText, SpellingAssumption
    <3> QED BY <3>1
  <2>4. start <= c
    BY <1>0, <2>1, <2>2, <2>3
  <2>5. c \notin Covered
    BY <1>0, <2>4, CoveredIsBehind
  <2>6. \A k \in start .. c - 1 : Char(k) \in {"\t", "\r"}
    BY <2>1, <2>2 DEF Gap
  <2>7. c \in 1 .. current' - 1 /\ current' - 1 = c + 1
    BY <2>2
  <2>8. CommentFrom(c)'
    BY <1>2, <2>2, <2>3, <2>5, <2>6, <2>7 DEF CommentFrom
  <2> QED BY <2>2, <2>7, <2>8 DEF Gap
<1>7. CASE Comment
  <2>1. /\ current' = current + 1 /\ start' = current + 1
        /\ mode = "comment" /\ mode' \in {"comment", "scan"}
        /\ mode' = "comment" => Char(current) # "\n"
    BY <1>7 DEF Comment
  <2>2. PICK c \in 1 .. current - 1 : CommentFrom(c)
    BY <2>1 DEF Gap
  <2>3. CASE mode' = "scan"
    BY <1>0, <2>1, <2>3 DEF Gap
  <2>4. CASE mode' = "comment"
    <3>1. \A j \in c .. current : j \in c .. current - 1 \/ j = current
      BY <1>0
    <3>2. \A j \in c .. current : Char(j) # "\n"
      BY <2>1, <2>2, <2>4, <3>1 DEF CommentFrom
    <3>3. c \in 1 .. current' - 1 /\ current' - 1 = current /\ start' .. c - 1 = {}
      BY <1>0, <2>1
    <3>4. CommentFrom(c)'
      BY <1>2, <2>1, <2>2, <3>2, <3>3 DEF CommentFrom
    <3> QED BY <2>4, <3>3, <3>4 DEF Gap
  <2> QED BY <2>1, <2>3, <2>4
<1>8. CASE StringStart \/ StringMore \/ StringUnterminated \/ NumberStart \/ WordStart \/ Unknown
           \/ Overrun \/ Longer
  BY <1>8 DEF StringStart, StringMore, StringUnterminated, NumberStart, WordStart, Unknown,
              Overrun, Longer, Continue, Crash, Gap
<1> QED BY <1>3, <1>4, <1>5, <1>6, <1>7, <1>8 DEF Quiet

LEMMA SpeaksGap ==
  ASSUME TypeOK, Place, NEW type, NEW next, Speaks(type, next)
  PROVE  Gap'
<1>1. /\ current' = next /\ start' >= next /\ start' \in Nat /\ next \in Nat
      /\ text' = text
  BY TokenMade, SpeaksKeeps DEF Speaks, Makes
<1>2. \A i : Char(i)' = Char(i)
  BY <1>1, SameText
<1>3. \A k \in start' .. current' - 1 : FALSE
  BY <1>1
<1>4. PICK m : m = next - 1
  OBVIOUS
<1>5. Char(m)' = Char(m)
  BY <1>2
<1>6. mode' = "newlines" => start' >= current' /\ current' > 1 /\ Char(m)' = "\n"
  BY <1>1, <1>4, <1>5 DEF Speaks
<1>7. m = (current - 1)'
  BY <1>1, <1>4
<1>8. mode' = "newlines" => start' >= current' /\ current' > 1 /\ Char(current - 1)' = "\n"
  BY <1>6, <1>7 DEF Char
<1>9. mode' \in {"scan", "newlines", "done"}
  BY DEF Speaks
<1> QED BY <1>1, <1>3, <1>8, <1>9 DEF Gap

LEMMA Split ==
  ASSUME NEW a \in Nat \ {0}, NEW b \in Nat, b >= a
  PROVE  \A k \in 1 .. b - 1 : k \in 1 .. a - 1 \/ k \in a .. b - 1
OBVIOUS

LEMMA QuietSkips ==
  ASSUME TypeOK, Place, Ordered, Gap, NothingIsSkipped, Quiet
  PROVE  NothingIsSkipped'
<1> USE DEF Reading
<1>0. /\ start \in Nat \ {0} /\ current \in Nat \ {0} /\ Len(text) \in Nat
      /\ mode = "scan" /\ Char(current) # BLANK => start <= current
      /\ mode = "comment" => start <= current
  BY Integers
<1>1. tokens' = tokens /\ text' = text /\ start' \in Nat /\ start' >= start
  BY QuietKeeps
<1>2. Covered' = Covered /\ \A k : Skippable(k)' <=> Skippable(k)
  BY <1>1, QuietCovers
<1>3. \A k \in (1 .. start - 1) \ Covered : Skippable(k)
  BY DEF NothingIsSkipped, Skippable
<1>4. ASSUME NEW k \in start .. start' - 1 PROVE Skippable(k)
  <2>1. CASE Space
    <3>1. k \in start .. current - 1 \/ k = current
      BY <1>0, <1>4, <2>1 DEF Space
    <3> QED BY <2>1, <3>1 DEF Space, Gap, Skippable
  <2>2. CASE MoreNewLines
    <3>1. CASE Char(current) = "\n"
      <4>1. k = current
        BY <1>0, <1>4, <2>2, <3>1 DEF MoreNewLines, Gap
      <4> QED BY <2>2, <3>1, <4>1 DEF MoreNewLines, Gap, Skippable
    <3>2. CASE Char(current) # "\n"
      BY <1>0, <1>4, <2>2, <3>2 DEF MoreNewLines
    <3> QED BY <3>1, <3>2
  <2>3. CASE Comment
    <3>1. mode = "comment" /\ start' = current + 1
      BY <2>3 DEF Comment
    <3>2. PICK c \in 1 .. current - 1 : CommentFrom(c)
      BY <3>1 DEF Gap
    <3>3. k \in start .. c - 1 \/ (c <= k /\ k <= current)
      BY <1>0, <1>4, <3>1
    <3>4. CASE k \in start .. c - 1
      BY <3>2, <3>4 DEF CommentFrom, Skippable
    <3>5. CASE c <= k /\ k <= current
      <4>1. c \in 1 .. k /\ \A j \in c .. k - 1 : j \in c .. current - 1
        BY <1>0, <1>4, <3>5
      <4> QED BY <3>2, <4>1 DEF CommentFrom, Skippable, InComment
    <3> QED BY <3>3, <3>4, <3>5
  <2>4. CASE CarriageReturn \/ Tab \/ CommentStart \/ StringStart \/ StringMore
             \/ StringUnterminated \/ NumberStart \/ WordStart \/ Unknown \/ Overrun \/ Longer
    <3>1. start' = start
      BY <2>4 DEF CarriageReturn, Tab, CommentStart, StringStart, StringMore, StringUnterminated,
                  NumberStart, WordStart, Unknown, Overrun, Longer, Continue, Crash
    <3> QED BY <1>0, <1>4, <3>1
  <2> QED BY <2>1, <2>2, <2>3, <2>4 DEF Quiet
<1>5. \A k \in 1 .. start' - 1 : k \in 1 .. start - 1 \/ k \in start .. start' - 1
  BY <1>0, <1>1, Split
<1>6. \A k \in (1 .. start' - 1) \ Covered' : Skippable(k)'
  BY <1>2, <1>3, <1>4, <1>5
<1> QED BY <1>6 DEF NothingIsSkipped, Skippable

LEMMA SpeaksSkips ==
  ASSUME TypeOK, Place, Ordered, NothingIsSkipped, NEW type, NEW next, Speaks(type, next)
  PROVE  NothingIsSkipped'
<1> DEFINE n == Len(tokens)
<1>1. PICK t \in Tokens :
        /\ tokens' = Append(tokens, t) /\ t.type = type
        /\ t.start = (IF type = "string" THEN start + 1 ELSE start)
        /\ After(t) = (IF type = "string" THEN next - 1 ELSE next)
        /\ start' = (IF Char(next) = BLANK THEN next + 1 ELSE next)
  BY TokenMade DEF Speaks
<1>2. /\ n \in Nat /\ DOMAIN tokens = 1 .. n /\ DOMAIN tokens' = 1 .. n + 1
      /\ \A i \in 1 .. n : tokens'[i] = tokens[i]
      /\ tokens'[n + 1] = t
  BY <1>1, Appending
<1>3. start \in Nat \ {0} /\ next \in Nat /\ start <= next /\ text' = text
  BY Integers DEF Speaks, Makes
<1>4. Covers(t) = start .. next - 1
  <2>1. CASE type = "string"
    BY <1>1, <1>3, <2>1 DEF Covers
  <2>2. CASE type # "string"
    BY <1>1, <1>3, <2>2 DEF Covers
  <2> QED BY <2>1, <2>2
<1>5. Covered' = Covered \cup (start .. next - 1)
  <2>1. Covered' = UNION {Covers(tokens'[i]) : i \in 1 .. n + 1}
    BY <1>2 DEF Covered, Covers, After
  <2>2. \A i \in 1 .. n + 1 : i \in 1 .. n \/ i = n + 1
    BY <1>2
  <2>3. 1 .. n \subseteq 1 .. n + 1 /\ n + 1 \in 1 .. n + 1
    BY <1>2
  <2> HIDE DEF n
  <2> QED BY <1>2, <1>4, <2>1, <2>2, <2>3 DEF Covered
<1>6. /\ \A i : Char(i)' = Char(i)
      /\ \A w, i : Spells(w, i)' <=> Spells(w, i)
  BY <1>3, SameText
<1>7. ASSUME NEW k \in 1 .. start - 1, InComment(k) PROVE InComment(k)'
  <2>1. PICK c \in 1 .. k :
          /\ Spells("//", c) /\ c \notin Covered
          /\ \A j \in c .. k - 1 : Char(j) # "\n"
    BY <1>7 DEF InComment
  <2>2. c \notin start .. next - 1
    BY <1>3
  <2> QED BY <1>5, <1>6, <2>1, <2>2 DEF InComment
<1>8. \A k \in 1 .. start - 1 : Skippable(k) => Skippable(k)'
  BY <1>3, <1>6, <1>7 DEF Skippable
<1>9. ASSUME NEW k \in (1 .. start' - 1) \ Covered' PROVE Skippable(k)'
  <2>1. k \in 1 .. start - 1 \/ k \in start .. next - 1 \/ (k = next /\ Char(next) = BLANK)
    BY <1>1, <1>3
  <2>2. CASE k \in 1 .. start - 1
    BY <1>5, <1>8, <1>9, <2>2 DEF NothingIsSkipped, Skippable
  <2>3. CASE k = next /\ Char(next) = BLANK
    BY <1>6, <2>3 DEF Skippable
  <2> QED BY <1>5, <1>9, <2>1, <2>2, <2>3
<1> QED BY <1>9 DEF NothingIsSkipped, Skippable

-----------------------------------------------------------------------------
\* How the text is left.

LeftKnown ==
  \/ Char(Len(text)) = "\\"
  \/ \E k \in 1 .. Len(text) : Spells("//", k) /\ ~ \E j \in k .. Len(text) : Char(j) = "\n"
Left ==
  /\ mode = "undefined" => current > Len(text) + 1
  /\ current > Len(text) + 1 => LeftKnown

LEMMA QuietLeft ==
  ASSUME TypeOK, Place, Gap, Left, Quiet
  PROVE  Left'
<1> USE DEF Reading
<1>0. current \in Nat \ {0} /\ Len(text) \in Nat
  BY Integers
<1>1. text' = text
  BY QuietKeeps
<1>2. LeftKnown' <=> LeftKnown
  BY <1>1 DEF LeftKnown, Spells, Char
<1>3. CASE Space \/ CarriageReturn \/ Tab \/ MoreNewLines \/ StringStart \/ NumberStart \/ WordStart \/ Longer
  <2>1. current' = current \/ (current' = current + 1 /\ Char(current) # NUL)
    BY <1>3, Characters, SpellingAssumption
       DEF Space, CarriageReturn, Tab, MoreNewLines, StringStart, NumberStart, WordStart, Longer,
           Continue, Alphanum
  <2>2. current <= Len(text) + 1 /\ mode' # "undefined"
    BY <1>3 DEF Space, CarriageReturn, Tab, MoreNewLines, StringStart, NumberStart, WordStart, Longer, Continue
  <2>3. current' <= Len(text) + 1
    BY <1>0, <2>1, <2>2, TextFacts
  <2> QED BY <1>0, <1>1, <2>1, <2>2, <2>3 DEF Left
<1>4. CASE CommentStart
  <2>1. Spells("//", current) /\ current' = current + 2 /\ mode' = "comment"
    BY <1>4 DEF CommentStart, Continue
  <2>2. current + 2 <= Len(text) + 1
    BY <1>0, <2>1, SpelledInText, SpellingAssumption
  <2> QED BY <1>0, <1>1, <2>1, <2>2 DEF Left
<1>5. CASE Comment
  <2>1. /\ current' = current + 1 /\ mode = "comment" /\ mode' # "undefined"
        /\ current <= Len(text) + 1
    BY <1>5 DEF Comment
  <2>2. CASE current <= Len(text)
    BY <1>0, <1>1, <2>1, <2>2 DEF Left
  <2>3. CASE current = Len(text) + 1
    <3>1. PICK c \in 1 .. current - 1 : CommentFrom(c)
      BY <2>1 DEF Gap
    <3>2. c \in 1 .. Len(text) /\ current - 1 = Len(text)
      BY <1>0, <2>3
    <3>3. LeftKnown
      BY <3>1, <3>2 DEF CommentFrom, LeftKnown
    <3> QED BY <1>2, <2>1, <3>3 DEF Left
  <2> QED BY <1>0, <2>1, <2>2, <2>3
<1>6. CASE StringMore
  <2>1. /\ Char(current) # NUL /\ mode' # "undefined"
        /\ current' = current + (IF Char(current) = "\\" THEN 2 ELSE 1)
    BY <1>6 DEF StringMore
  <2>2. current <= Len(text)
    BY <1>0, <2>1, TextFacts
  <2>3. current' > Len(text) + 1 => Char(Len(text)) = "\\"
    <3>1. SUFFICES ASSUME current' > Len(text) + 1 PROVE Char(Len(text)) = "\\"
      OBVIOUS
    <3>2. current = Len(text) /\ Char(current) = "\\"
      BY <1>0, <2>1, <2>2, <3>1
    <3> QED BY <3>2
  <2>4. current' > Len(text)' + 1 => LeftKnown
    BY <1>1, <2>3 DEF LeftKnown
  <2> QED BY <1>2, <2>1, <2>4 DEF Left
<1>7. CASE StringUnterminated \/ Unknown \/ Overrun
  <2>1. current' = current /\ (mode' = "undefined" => current > Len(text) + 1)
    BY <1>7 DEF StringUnterminated, Unknown, Overrun, Crash
  <2> QED BY <1>1, <1>2, <2>1 DEF Left
<1> QED BY <1>3, <1>4, <1>5, <1>6, <1>7 DEF Quiet

LEMMA SpeaksLeft ==
  ASSUME TypeOK, Place, NEW type, NEW next, Speaks(type, next)
  PROVE  Left'
<1>1. current' = next /\ text' = text /\ next <= Len(text) + 1 /\ mode' # "undefined"
      /\ next \in Nat /\ Len(text) \in Nat
  BY TokenMade, Integers DEF Speaks, Makes
<1> QED BY <1>1 DEF Left

-----------------------------------------------------------------------------
\* The invariant.

LexInv == TypeOK /\ Place /\ Ordered /\ Gap /\ NothingIsSkipped /\ Left

LEMMA LexInit ==
  ASSUME Init
  PROVE  LexInv
<1>0. Len(text) \in Nat
  BY TextsAssumption, LenProperties DEF Init
<1>1. TypeOK
  BY DEF Init, TypeOK, Modes, Ended
<1>2. Place
  BY DEF Init, Place
<1>3. Ordered
  BY DEF Init, Ordered, TokensBehind, TokensInOrder
<1>4. Gap /\ NothingIsSkipped
  BY DEF Init, Gap, NothingIsSkipped
<1>5. Left
  BY <1>0 DEF Init, Left
<1> QED BY <1>1, <1>2, <1>3, <1>4, <1>5 DEF LexInv

LEMMA LexStutter ==
  ASSUME LexInv, UNCHANGED vars
  PROVE  LexInv'
<1>1. TypeOK'
  BY DEF LexInv, vars, TypeOK
<1>2. Place'
  BY DEF LexInv, vars, Place, Char
<1>3. Ordered'
  BY DEF LexInv, vars, Ordered, TokensBehind, TokensInOrder, Behind, After
<1>4. NothingIsSkipped'
  <2>1. tokens' = tokens /\ text' = text /\ start' = start
    BY DEF vars
  <2>2. Covered' = Covered /\ \A k : Skippable(k)' <=> Skippable(k)
    BY <2>1, QuietCovers
  <2>3. \A k \in (1 .. start - 1) \ Covered : Skippable(k)
    BY DEF LexInv, NothingIsSkipped, Skippable
  <2>4. \A k \in (1 .. start' - 1) \ Covered' : Skippable(k)'
    BY <2>1, <2>2, <2>3
  <2> QED BY <2>4 DEF NothingIsSkipped, Skippable
<1>5. Gap'
  BY DEF LexInv, vars, Gap, CommentFrom, Covered, Covers, After, Spells, Char
<1>6. Left'
  BY DEF LexInv, vars, Left, LeftKnown, Spells, Char
<1> QED BY <1>1, <1>2, <1>3, <1>4, <1>5, <1>6 DEF LexInv

LEMMA LexInvariant == Spec => []LexInv
<1>1. ASSUME LexInv, Next PROVE LexInv'
  <2>1. TypeOK /\ Place /\ Ordered /\ Gap /\ NothingIsSkipped /\ Left
    BY <1>1 DEF LexInv
  <2>2. CASE Quiet
    BY <2>1, <2>2, QuietKeeps, QuietOrder, QuietGap, QuietSkips, QuietLeft DEF LexInv
  <2>3. ASSUME NEW type, NEW next, Speaks(type, next) PROVE LexInv'
    BY <2>1, <2>3, SpeaksKeeps, SpeaksOrder, SpeaksGap, SpeaksSkips, SpeaksLeft DEF LexInv
  <2> QED BY <1>1, <2>1, <2>2, <2>3, Steps
<1>2. LexInv /\ [Next]_vars => LexInv'
  BY <1>1, LexStutter
<1> QED BY <1>2, LexInit, PTL DEF Spec

(***************************************************************************)
(* Types: lengths and positions stay natural numbers, whatever the text.   *)
(***************************************************************************)
THEOREM LexerTypeOK == Spec => []TypeOK
<1>1. LexInv => TypeOK
  BY DEF LexInv
<1> QED BY <1>1, LexInvariant, PTL

(***************************************************************************)
(* In every text tokens lie one after the other and in front of what is    *)
(* read next; none extends beyond the text.                                *)
(***************************************************************************)
THEOREM TokensLieInOrder == Spec => []TokensInOrder
<1>1. LexInv => TokensInOrder
  BY DEF LexInv, Ordered
<1> QED BY <1>1, LexInvariant, PTL

(***************************************************************************)
(* In every text what is in no token is blank, a line break after another  *)
(* one, or in a comment: scan loses nothing a program means.               *)
(***************************************************************************)
THEOREM NothingSkipped == Spec => []NothingIsSkipped
<1>1. LexInv => NothingIsSkipped
  BY DEF LexInv
<1> QED BY <1>1, LexInvariant, PTL

(***************************************************************************)
(* scan reads behind the end of no text but one that ends in a comment or  *)
(* in a backslash.                                                         *)
(***************************************************************************)
THEOREM OverrunsKnown == Spec => []OverrunsAreKnown
<1>1. LexInv => OverrunsAreKnown
  BY DEF LexInv, Left, LeftKnown, OverrunsAreKnown
<1> QED BY <1>1, LexInvariant, PTL
=============================================================================
