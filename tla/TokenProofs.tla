----------------------------- MODULE TokenProofs -----------------------------
(***************************************************************************)
(* Proofs about the tokens of Lexer, for texts of any length: the lines    *)
(* and columns they are said to be in, and the text they are made of.      *)
(***************************************************************************)
EXTENDS LexerProofs

\* What a step that makes no token leaves, and what one that does appends.
LEMMA Silence ==
  ASSUME LexInv, Quiet
  PROVE  /\ tokens' = tokens /\ text' = text
         /\ start \in Nat \ {0} /\ current \in Nat \ {0} /\ line \in Nat /\ column \in Nat
         /\ Len(text) \in Nat
BY QuietKeeps, Integers DEF LexInv

LEMMA Speech ==
  ASSUME LexInv, NEW type, NEW next, Speaks(type, next)
  PROVE  /\ start \in Nat \ {0} /\ current \in Nat \ {0} /\ line \in Nat /\ column \in Nat
         /\ Len(text) \in Nat /\ next \in Nat /\ start <= next /\ next <= Len(text) + 1
         /\ type = "string" => start + 2 <= next
         /\ text' = text /\ current' = next /\ column' = column + (next - start)
         /\ start' = (IF Char(next) = BLANK THEN next + 1 ELSE next)
         /\ DOMAIN tokens' = 1 .. Len(tokens) + 1 /\ DOMAIN tokens = 1 .. Len(tokens)
         /\ Len(tokens) \in Nat
         /\ \A i \in 1 .. Len(tokens) : tokens'[i] = tokens[i] /\ tokens[i] \in Tokens
         /\ \E t \in Tokens :
              /\ tokens'[Len(tokens) + 1] = t
              /\ t.type = type /\ t.line = line' /\ t.column = column
              /\ t.start = (IF type = "string" THEN start + 1 ELSE start)
              /\ After(t) = (IF type = "string" THEN next - 1 ELSE next)
<1>1. TypeOK /\ Place /\ Makes(type, next) /\ text' = text
  BY DEF LexInv, Speaks
<1>2. PICK t \in Tokens :
        /\ tokens' = Append(tokens, t)
        /\ t.type = type /\ t.line = line' /\ t.column = column
        /\ t.start = (IF type = "string" THEN start + 1 ELSE start)
        /\ After(t) = (IF type = "string" THEN next - 1 ELSE next)
        /\ start' = (IF Char(next) = BLANK THEN next + 1 ELSE next)
        /\ current' = next /\ column' = column + (next - start)
  BY <1>1, TokenMade
<1>3. /\ DOMAIN tokens' = 1 .. Len(tokens) + 1 /\ DOMAIN tokens = 1 .. Len(tokens)
      /\ Len(tokens) \in Nat
      /\ \A i \in 1 .. Len(tokens) : tokens'[i] = tokens[i] /\ tokens[i] \in Tokens
      /\ tokens'[Len(tokens) + 1] = t
  BY <1>1, <1>2, Appending
<1>4. /\ start \in Nat \ {0} /\ current \in Nat \ {0} /\ line \in Nat /\ column \in Nat
      /\ Len(text) \in Nat
  BY <1>1, Integers
<1>5. /\ next \in Nat /\ start <= next /\ next <= Len(text) + 1
      /\ type = "string" => start + 2 <= next
  BY <1>1 DEF Makes
<1> QED BY <1>1, <1>2, <1>3, <1>4, <1>5

\* A property of tokens and text holds of all tokens if it held of those there
\* were and holds of the new one.
LEMMA LastOfMore ==
  ASSUME NEW n \in Nat
  PROVE  \A i \in 1 .. n + 1 : i \in 1 .. n \/ i = n + 1
OBVIOUS

-----------------------------------------------------------------------------
\* Line breaks are counted.

LEMMA OneMoreBreak ==
  ASSUME NEW k \in Nat \ {0}
  PROVE  /\ Breaks(1, k - 1) \in Nat
         /\ Breaks(1, k) = Breaks(1, k - 1) + (IF Char(k) = "\n" THEN 1 ELSE 0)
<1> DEFINE S(j) == {i \in 1 .. j : Char(i) = "\n"}
<1>1. IsFiniteSet(S(k - 1)) /\ Cardinality(S(k - 1)) \in Nat
  <2>1. IsFiniteSet(1 .. k - 1)
    BY FS_Interval
  <2>2. S(k - 1) \in SUBSET (1 .. k - 1)
    OBVIOUS
  <2>3. IsFiniteSet(S(k - 1))
    BY <2>1, <2>2, FS_Subset
  <2> HIDE DEF S
  <2> QED BY <2>3, FS_CardinalityType
<1>2. k \notin S(k - 1)
  OBVIOUS
<1>3. S(k) = IF Char(k) = "\n" THEN S(k - 1) \cup {k} ELSE S(k - 1)
  <2>1. \A i \in 1 .. k : i \in 1 .. k - 1 \/ i = k
    OBVIOUS
  <2>2. k \in 1 .. k /\ \A i \in 1 .. k - 1 : i \in 1 .. k
    OBVIOUS
  <2> QED BY <2>1, <2>2
<1>4. Cardinality(S(k)) = Cardinality(S(k - 1)) + (IF Char(k) = "\n" THEN 1 ELSE 0)
  <2> HIDE DEF S
  <2>1. Cardinality(S(k - 1) \cup {k}) = Cardinality(S(k - 1)) + 1
    BY <1>1, <1>2, FS_AddElement
  <2> QED BY <1>1, <1>3, <2>1
<1>5. Breaks(1, k) = Cardinality(S(k)) /\ Breaks(1, k - 1) = Cardinality(S(k - 1))
  BY DEF Breaks
<1> HIDE DEF S
<1> QED BY <1>1, <1>4, <1>5

LEMMA NoBreaks ==
  ASSUME NEW a \in Nat \ {0}, NEW b \in Nat, a <= b, \A j \in a .. b - 1 : Char(j) # "\n"
  PROVE  Breaks(1, b - 1) = Breaks(1, a - 1)
<1>1. \A j \in 1 .. b - 1 : j \in 1 .. a - 1 \/ j \in a .. b - 1
  OBVIOUS
<1>2. \A j \in 1 .. a - 1 : j \in 1 .. b - 1
  OBVIOUS
<1>3. {j \in 1 .. b - 1 : Char(j) = "\n"} = {j \in 1 .. a - 1 : Char(j) = "\n"}
  BY <1>1, <1>2
<1> QED BY <1>3 DEF Breaks

LEMMA SameBreaks ==
  ASSUME text' = text
  PROVE  \A a, b : Breaks(a, b)' = Breaks(a, b)
BY DEF Breaks, Char

-----------------------------------------------------------------------------
\* The line of a token.

NoBackslash == "\\" \notin {text[k] : k \in DOMAIN text}
LineCounted ==
  mode \notin Ended /\ current <= Len(text) + 1 => line = 1 + Breaks(1, current - 1)
TokensCounted == \A i \in DOMAIN tokens : tokens[i].line = 1 + Breaks(1, After(tokens[i]) - 1)
LineInv == NoBackslash => LineCounted /\ TokensCounted

LEMMA QuietCounts ==
  ASSUME LexInv, LineCounted, NoBackslash, Quiet
  PROVE  LineCounted'
<1> USE DEF Reading
<1>0. /\ text' = text /\ current \in Nat \ {0} /\ line \in Nat /\ Len(text) \in Nat
      /\ TypeOK /\ Place
  BY Silence DEF LexInv
<1>1. \A a, b : Breaks(a, b)' = Breaks(a, b)
  BY <1>0, SameBreaks
<1>2. /\ Breaks(1, current - 1) \in Nat
      /\ Breaks(1, current) = Breaks(1, current - 1) + (IF Char(current) = "\n" THEN 1 ELSE 0)
  BY <1>0, OneMoreBreak
<1>3. CASE /\ mode \notin Ended /\ current <= Len(text) + 1
           /\ current' = current + 1
           /\ line' = line + (IF Char(current) = "\n" THEN 1 ELSE 0)
  <2>1. line' = 1 + Breaks(1, current)
    BY <1>0, <1>2, <1>3 DEF LineCounted
  <2>2. current' - 1 = current
    BY <1>0, <1>3
  <2>3. Breaks(1, current' - 1) = Breaks(1, current)
    BY <2>2
  <2> QED BY <1>1, <2>1, <2>3 DEF LineCounted
<1>4. CASE Space \/ CarriageReturn \/ Tab \/ StringStart \/ NumberStart \/ WordStart \/ Longer
  <2>1. Char(current) # "\n"
    BY <1>4, Characters, SpellingAssumption
       DEF Space, CarriageReturn, Tab, StringStart, NumberStart, WordStart, Longer, Extends, Alphanum
  <2>2. /\ mode \notin Ended /\ current <= Len(text) + 1
        /\ current' = current + 1 /\ line' = line
    BY <1>4 DEF Space, CarriageReturn, Tab, StringStart, NumberStart, WordStart, Longer, Continue, Ended
  <2> QED BY <1>0, <1>3, <2>1, <2>2
<1>5. CASE MoreNewLines
  <2>1. mode \notin Ended /\ current <= Len(text) + 1
    BY <1>5 DEF MoreNewLines, Ended
  <2>2. CASE Char(current) = "\n"
    BY <1>3, <1>5, <2>1, <2>2 DEF MoreNewLines
  <2>3. CASE Char(current) # "\n"
    BY <1>1, <1>5, <2>1, <2>3 DEF MoreNewLines, LineCounted
  <2> QED BY <2>2, <2>3
<1>6. CASE CommentStart
  <2>1. /\ Spells("//", current) /\ current' = current + 2 /\ line' = line
        /\ mode \notin Ended /\ current <= Len(text) + 1
    BY <1>6 DEF CommentStart, Continue, Ended
  <2>2. \A k \in current .. current + 2 - 1 : Char(k) # "\n"
    BY <1>0, <2>1, SpelledInText, SpellingAssumption
  <2>3. Breaks(1, current + 2 - 1) = Breaks(1, current - 1)
    BY <1>0, <2>2, NoBreaks
  <2>4. current' - 1 = current + 2 - 1
    BY <1>0, <2>1
  <2>5. Breaks(1, current' - 1) = Breaks(1, current - 1)
    BY <2>3, <2>4
  <2> QED BY <1>1, <2>1, <2>5 DEF LineCounted
<1>7. CASE Comment
  <2>1. mode \notin Ended /\ current <= Len(text) + 1 /\ current' = current + 1
    BY <1>7 DEF Comment, Ended
  <2>2. CASE Char(current) = NUL
    <3>1. current' > Len(text) + 1
      BY <1>0, <2>1, <2>2, TextFacts
    <3>2. current' \in Nat /\ Len(text)' = Len(text)
      BY <1>0, <2>1
    <3>3. ~ (current' <= Len(text)' + 1)
      BY <1>0, <3>1, <3>2
    <3> QED BY <3>3 DEF LineCounted
  <2>3. CASE Char(current) # NUL
    <3>1. line' = line + (IF Char(current) = "\n" THEN 1 ELSE 0)
      BY <1>0, <1>7, <2>3 DEF Comment
    <3> QED BY <1>3, <2>1, <3>1
  <2> QED BY <2>2, <2>3
<1>8. CASE StringMore
  <2>1. Char(current) # NUL /\ mode \notin Ended /\ current <= Len(text) + 1
    BY <1>8 DEF StringMore, Ended
  <2>2. Char(current) # "\\"
    <3>1. current \in 1 .. Len(text) /\ Char(current) = text[current]
      BY <1>0, <2>1, TextFacts
    <3>2. DOMAIN text = 1 .. Len(text)
      BY <1>0, TextsAssumption, LenProperties DEF TypeOK
    <3> QED BY <3>1, <3>2 DEF NoBackslash
  <2>3. current' = current + 1 /\ line' = line + (IF Char(current) = "\n" THEN 1 ELSE 0)
    BY <1>0, <1>8, <2>2 DEF StringMore
  <2> QED BY <1>3, <2>1, <2>3
<1>9. CASE StringUnterminated \/ Unknown \/ Overrun
  BY <1>9 DEF StringUnterminated, Unknown, Overrun, Crash, LineCounted, Ended
<1> QED BY <1>4, <1>5, <1>6, <1>7, <1>8, <1>9 DEF Quiet

LEMMA SpeechCounts ==
  ASSUME LexInv, LineCounted, NEW type, NEW next, Speaks(type, next), Detail(type, next)
  PROVE  line' = 1 + Breaks(1, next - 1)
<1>0. /\ TypeOK /\ Place /\ start \in Nat \ {0} /\ current \in Nat \ {0} /\ line \in Nat
      /\ next \in Nat /\ next <= Len(text) + 1
  BY Speech DEF LexInv
<1>1. /\ Breaks(1, current - 1) \in Nat
      /\ Breaks(1, current) = Breaks(1, current - 1) + (IF Char(current) = "\n" THEN 1 ELSE 0)
  BY <1>0, OneMoreBreak
<1>2. current <= next /\ mode \notin Ended
  <2>1. \A s \in Symbols : Len(s) \in Nat
    BY SpellingAssumption
  <2> QED BY <1>0, <2>1 DEF Detail, Ended
<1>3. line = 1 + Breaks(1, current - 1)
  BY <1>0, <1>2 DEF LineCounted
<1>4. CASE type = "\n" /\ Char(current) = "\n" /\ next = current + 1 /\ line' = line + 1
  <2>1. next - 1 = current
    BY <1>0, <1>4
  <2>2. Breaks(1, next - 1) = Breaks(1, current)
    BY <2>1
  <2> QED BY <1>0, <1>1, <1>3, <1>4, <2>2
<1>5. CASE line' = line /\ \A j \in current .. next - 1 : Char(j) # "\n"
  BY <1>0, <1>2, <1>3, <1>5, NoBreaks
<1>6. CASE type \in Symbols /\ Longest(type, current) /\ next = current + Len(type) /\ line' = line
  <2>1. /\ Len(type) \in Nat
        /\ \A j \in current .. current + Len(type) - 1 : Char(j) # "\n"
    BY <1>0, <1>6, SpelledInText DEF Longest
  <2>2. PICK m \in Nat : m = Len(type)
    BY <2>1
  <2>3. next = current + m /\ \A j \in current .. current + m - 1 : Char(j) # "\n"
    BY <1>6, <2>1, <2>2
  <2>4. \A j \in current .. next - 1 : Char(j) # "\n"
    BY <1>0, <2>3
  <2> QED BY <1>5, <1>6, <2>4
<1>7. CASE mode = "string" /\ Char(current) = quote /\ next = current + 1 /\ line' = line
  <2>1. \A j \in current .. next - 1 : j = current
    BY <1>0, <1>7
  <2>2. Char(current) # "\n"
    BY <1>0, <1>7, Characters DEF Place
  <2> QED BY <1>5, <1>7, <2>1, <2>2
<1>8. CASE next = current /\ line' = line
  BY <1>0, <1>3, <1>8
<1> QED BY <1>4, <1>6, <1>7, <1>8 DEF Detail

LEMMA LineInvariant == Spec => []LineInv
<1>1. Init => LineInv
  <2>1. 1 .. 1 - 1 = {}
    OBVIOUS
  <2>2. Init => Breaks(1, current - 1) = 0
    <3>1. Init => {k \in 1 .. current - 1 : Char(k) = "\n"} = {}
      BY <2>1 DEF Init
    <3> QED BY <3>1, FS_EmptySet DEF Breaks
  <2> QED BY <2>2 DEF Init, LineInv, LineCounted, TokensCounted
<1>2. ASSUME LexInv, LineInv, Next PROVE LineInv'
  <2>0. TypeOK /\ Place
    BY <1>2 DEF LexInv
  <2>1. CASE Quiet
    <3>1. tokens' = tokens /\ text' = text
      BY <1>2, <2>1, Silence
    <3>2. NoBackslash' <=> NoBackslash
      BY <3>1 DEF NoBackslash
    <3>3. TokensCounted => TokensCounted'
      BY <3>1, SameBreaks DEF TokensCounted, After
    <3> QED BY <1>2, <2>1, <3>2, <3>3, QuietCounts DEF LineInv
  <2>2. ASSUME NEW type, NEW next, Speaks(type, next), Detail(type, next) PROVE LineInv'
    <3> SUFFICES ASSUME NoBackslash' PROVE LineCounted' /\ TokensCounted'
      BY DEF LineInv
    <3> DEFINE n == Len(tokens)
    <3>1. /\ text' = text /\ current' = next /\ next \in Nat
          /\ DOMAIN tokens' = 1 .. n + 1 /\ DOMAIN tokens = 1 .. n /\ n \in Nat
          /\ \A i \in 1 .. n : tokens'[i] = tokens[i]
      BY <1>2, <2>2, Speech
    <3>2. PICK t \in Tokens :
            /\ tokens'[n + 1] = t /\ t.type = type /\ t.line = line'
            /\ After(t) = (IF type = "string" THEN next - 1 ELSE next)
      BY <1>2, <2>2, Speech
    <3>3. LineCounted /\ TokensCounted
      BY <1>2, <3>1 DEF LineInv, NoBackslash
    <3>4. line' = 1 + Breaks(1, next - 1)
      BY <1>2, <2>2, <3>3, SpeechCounts
    <3>5. \A a, b : Breaks(a, b)' = Breaks(a, b)
      BY <3>1, SameBreaks
    <3>6. LineCounted'
      BY <3>1, <3>4, <3>5 DEF LineCounted
    <3>7. Breaks(1, After(t) - 1) = Breaks(1, next - 1)
      <4>1. CASE type = "string"
        <5>1. /\ start \in Nat \ {0} /\ start + 2 <= next /\ Char(next - 1) # "\n"
          <6>1. start \in Nat \ {0} /\ current \in Nat /\ start + 2 <= next
            BY <1>2, <2>2, <4>1, Speech
          <6>2. mode = "string" /\ Char(current) = quote /\ next = current + 1
            BY <2>2, <4>1 DEF Detail, Symbols, WordType, Reserved
          <6>3. next - 1 = current /\ Char(current) # "\n"
            BY <2>0, <6>1, <6>2, Characters DEF Place
          <6>4. Char(next - 1) = Char(current)
            BY <6>3
          <6> QED BY <6>1, <6>3, <6>4
        <5>2. PICK m \in Nat \ {0} : m = next - 1
          BY <3>1, <5>1
        <5>3. Breaks(1, m) = Breaks(1, m - 1) + 0 /\ Breaks(1, m - 1) \in Nat
          BY <5>1, <5>2, OneMoreBreak
        <5> QED BY <3>2, <4>1, <5>2, <5>3
      <4>2. CASE type # "string"
        BY <3>2, <4>2
      <4> QED BY <4>1, <4>2
    <3>8. TokensCounted'
      <4>1. ASSUME NEW i \in 1 .. n + 1
            PROVE  tokens'[i].line = 1 + Breaks(1, After(tokens'[i]) - 1)
        <5>1. CASE i \in 1 .. n
          BY <3>1, <3>3, <5>1 DEF TokensCounted
        <5>2. CASE i = n + 1
          BY <3>2, <3>4, <3>7, <5>2
        <5> QED BY <3>1, <5>1, <5>2, LastOfMore
      <4> QED BY <3>1, <3>5, <4>1 DEF TokensCounted, After
    <3> QED BY <3>6, <3>8
  <2> QED BY <1>2, <2>0, <2>1, <2>2, Steps
<1>3. ASSUME LineInv, UNCHANGED vars PROVE LineInv'
  <2>1. \A a, b : Breaks(a, b)' = Breaks(a, b)
    BY <1>3, SameBreaks DEF vars
  <2> QED BY <1>3, <2>1 DEF LineInv, vars, NoBackslash, LineCounted, TokensCounted, After
<1>4. LexInv /\ LineInv /\ [Next]_vars => LineInv'
  BY <1>2, <1>3
<1> QED BY <1>1, <1>4, LexInvariant, PTL DEF Spec

(***************************************************************************)
(* In every text without backslashes a token is said to be in the line its *)
(* last character is in, or that it starts if it is a line break, whatever *)
(* comments, strings and empty lines come before it.                       *)
(***************************************************************************)
THEOREM TokensKnowTheirLine == Spec => []LinesAreTrue
<1>1. LineInv => LinesAreTrue
  BY DEF LineInv, NoBackslash, TokensCounted, LinesAreTrue
<1> QED BY <1>1, LineInvariant, PTL
-----------------------------------------------------------------------------
\* The text of a token.

NoBlanks == {"\t", "\r"} \cap {text[k] : k \in DOMAIN text} = {}

\* The backslashes right before k, from a position on, hide one another.
InPairs(from, k) ==
  \E n \in 0 .. k - from :
    /\ \A m \in 1 .. n : Char(k - m) = "\\"
    /\ (k - n = from \/ Char(k - n - 1) # "\\")
    /\ n % 2 = 0

\* What has been read of a token.
Read ==
  /\ mode = "number" => All(start, current - 1, Digit)
  /\ mode = "fraction" =>
       \E d \in start + 1 .. current - 1 :
         /\ All(start, d - 1, Digit) /\ Char(d) = "." /\ All(d + 1, current - 1, Digit)
         /\ d = current - 1 => Char(current) \in Digit
  /\ mode = "word" => Char(start) \in Alpha /\ All(start, current - 1, Alphanum)
  /\ mode = "string" =>
       /\ Char(start) = quote /\ InPairs(start + 1, current)
       /\ \A k \in start + 1 .. current - 1 : Char(k) = quote => Escaped(start + 1, k)
TextInv == NoBlanks => Read /\ \A i \in DOMAIN tokens : IsExact(tokens[i])

LEMMA SameExactness ==
  ASSUME text' = text
  PROVE  \A t : IsExact(t)' <=> IsExact(t)
BY DEF IsExact, Spells, All, Escaped, Char, After

\* Where a character is read that is not blank the token starts.
LEMMA StartsHere ==
  ASSUME LexInv, NoBlanks, mode = "scan", Char(current) # BLANK
  PROVE  start = current
<1>1. start \in Nat \ {0} /\ current \in Nat \ {0} /\ start <= current /\ TypeOK
  BY Integers DEF LexInv
<1>2. \A k \in start .. current - 1 : Char(k) \in {"\t", "\r"}
  BY DEF LexInv, Gap
<1>3. ASSUME start < current PROVE FALSE
  <2>1. Char(start) \in {"\t", "\r"}
    BY <1>1, <1>2, <1>3
  <2>2. start \in 1 .. Len(text) /\ Char(start) = text[start]
    BY <1>1, <2>1, TextFacts, Characters
  <2>3. DOMAIN text = 1 .. Len(text)
    BY <1>1, TextsAssumption, LenProperties DEF TypeOK
  <2> QED BY <2>1, <2>2, <2>3 DEF NoBlanks
<1> QED BY <1>1, <1>3

\* A backslash more: what follows it is hidden, what follows that is not.
LEMMA Hidden ==
  ASSUME NEW from \in Nat, NEW k \in Nat, from <= k, InPairs(from, k), Char(k) = "\\"
  PROVE  Escaped(from, k + 1) /\ InPairs(from, k + 2)
<1>1. PICK n \in 0 .. k - from :
        /\ \A m \in 1 .. n : Char(k - m) = "\\"
        /\ (k - n = from \/ Char(k - n - 1) # "\\")
        /\ n % 2 = 0
  BY DEF InPairs
<1>2. /\ n + 1 \in 0 .. k + 1 - from /\ n + 2 \in 0 .. k + 2 - from
      /\ k + 1 - (n + 1) = k - n /\ k + 2 - (n + 2) = k - n
      /\ (n + 1) % 2 = 1 /\ (n + 2) % 2 = 0
  BY <1>1
<1>3. \A m \in 1 .. n + 1 : Char(k + 1 - m) = "\\"
  <2>1. ASSUME NEW m \in 1 .. n + 1 PROVE Char(k + 1 - m) = "\\"
    <3>1. CASE m = 1
      <4>1. k + 1 - m = k
        BY <3>1
      <4> QED BY <4>1
    <3>2. CASE m # 1
      <4>1. m - 1 \in 1 .. n /\ k + 1 - m = k - (m - 1)
        BY <1>1, <3>2
      <4> QED BY <1>1, <4>1
    <3> QED BY <3>1, <3>2
  <2> QED BY <2>1
<1>4. Escaped(from, k + 1)
  BY <1>1, <1>2, <1>3 DEF Escaped
<1>5. CASE Char(k + 1) = "\\"
  <2>1. ASSUME NEW m \in 1 .. n + 2 PROVE Char(k + 2 - m) = "\\"
    <3>1. CASE m = 1
      <4>1. k + 2 - m = k + 1
        BY <3>1
      <4> QED BY <1>5, <4>1
    <3>2. CASE m # 1
      <4>1. m - 1 \in 1 .. n + 1 /\ k + 2 - m = k + 1 - (m - 1)
        BY <1>1, <3>2
      <4> QED BY <1>3, <4>1
    <3> QED BY <3>1, <3>2
  <2>2. k + 2 - (n + 2) = from \/ Char(k + 2 - (n + 2) - 1) # "\\"
    BY <1>1, <1>2
  <2>3. PICK i \in 0 .. k + 2 - from, l \in Nat : i = n + 2 /\ l = k + 2
    BY <1>2
  <2>4. /\ \A m \in 1 .. i : Char(l - m) = "\\"
        /\ l - i = from \/ Char(l - i - 1) # "\\"
        /\ i % 2 = 0
    BY <1>2, <2>1, <2>2, <2>3
  <2>5. i \in 0 .. l - from
    BY <2>3
  <2>6. InPairs(from, l)
    BY <2>4, <2>5 DEF InPairs
  <2> QED BY <1>4, <2>3, <2>6
<1>6. CASE Char(k + 1) # "\\"
  <2>1. /\ 0 \in 0 .. k + 2 - from /\ \A m \in 1 .. 0 : Char(k + 2 - m) = "\\"
        /\ k + 2 - 0 - 1 = k + 1 /\ 0 % 2 = 0
    OBVIOUS
  <2>2. Char(k + 2 - 0 - 1) # "\\"
    BY <1>6, <2>1
  <2>3. InPairs(from, k + 2)
    BY <2>1, <2>2 DEF InPairs
  <2> QED BY <1>4, <2>3
<1> QED BY <1>5, <1>6

LEMMA NotHidden ==
  ASSUME NEW from \in Nat, NEW k \in Nat, from <= k, InPairs(from, k)
  PROVE  ~ Escaped(from, k)
<1> SUFFICES ASSUME Escaped(from, k) PROVE FALSE
  OBVIOUS
<1>1. PICK n \in 0 .. k - from :
        /\ \A m \in 1 .. n : Char(k - m) = "\\"
        /\ (k - n = from \/ Char(k - n - 1) # "\\")
        /\ n % 2 = 0
  BY DEF InPairs
<1>2. PICK o \in 0 .. k - from :
        /\ \A m \in 1 .. o : Char(k - m) = "\\"
        /\ (k - o = from \/ Char(k - o - 1) # "\\")
        /\ o % 2 = 1
  BY DEF Escaped
<1>3. CASE n < o
  <2>1. n + 1 \in 1 .. o /\ k - (n + 1) = k - n - 1 /\ k - n # from
    BY <1>1, <1>2, <1>3
  <2> QED BY <1>1, <1>2, <2>1
<1>4. CASE o < n
  <2>1. o + 1 \in 1 .. n /\ k - (o + 1) = k - o - 1 /\ k - o # from
    BY <1>1, <1>2, <1>4
  <2> QED BY <1>1, <1>2, <2>1
<1>5. n # o
  BY <1>1, <1>2
<1> QED BY <1>1, <1>2, <1>3, <1>4, <1>5

LEMMA Fresh ==
  ASSUME NEW from \in Nat, NEW k \in Nat, from <= k, k = from \/ Char(k - 1) # "\\"
  PROVE  InPairs(from, k)
<1>1. /\ 0 \in 0 .. k - from /\ \A m \in 1 .. 0 : Char(k - m) = "\\"
      /\ k - 0 - 1 = k - 1 /\ k - 0 = k /\ 0 % 2 = 0
  OBVIOUS
<1>2. k - 0 = from \/ Char(k - 0 - 1) # "\\"
  BY <1>1
<1> QED BY <1>1, <1>2 DEF InPairs

LEMMA QuietReads ==
  ASSUME LexInv, NoBlanks, Read, Quiet
  PROVE  Read'
<1> USE DEF Reading
<1>0. /\ text' = text /\ start \in Nat \ {0} /\ current \in Nat \ {0} /\ Len(text) \in Nat
      /\ mode = "scan" /\ Char(current) # BLANK => start = current
      /\ mode \in {"string", "number", "fraction", "word"} => start < current
  BY Silence, StartsHere, Integers DEF LexInv
<1>1. \A i : Char(i)' = Char(i)
  BY <1>0, SameText
<1>2. /\ \A f, g, set : All(f, g, set)' <=> All(f, g, set')
      /\ \A f, k : InPairs(f, k)' <=> InPairs(f, k)
      /\ \A f, k : Escaped(f, k)' <=> Escaped(f, k)
  BY <1>0 DEF All, InPairs, Escaped, Char
<1>3. CASE \/ Space \/ CarriageReturn \/ Tab \/ MoreNewLines \/ CommentStart \/ Comment
           \/ Unknown \/ Overrun \/ StringUnterminated
  BY <1>3 DEF Read, Space, CarriageReturn, Tab, MoreNewLines, CommentStart, Comment, Unknown,
              Overrun, StringUnterminated, Continue, Crash
<1>4. CASE NumberStart \/ WordStart
  <2>1. /\ \/ mode' = "number" /\ Char(current) \in Digit
           \/ mode' = "word" /\ Char(current) \in Alpha
        /\ start' = start /\ current' = current + 1 /\ mode = "scan"
    BY <1>4 DEF NumberStart, WordStart, Continue
  <2>2. Char(current) # BLANK
    BY <2>1, SpellingAssumption DEF Alphanum
  <2>3. start = current
    BY <1>0, <2>1, <2>2
  <2>4. \A k \in start' .. current' - 1 : k = current
    BY <1>0, <2>1, <2>3
  <2>5. CASE mode' = "number"
    BY <1>1, <2>1, <2>4, <2>5 DEF Read, All
  <2>6. CASE mode' = "word"
    BY <1>1, <2>1, <2>3, <2>4, <2>6 DEF Read, All, Alphanum
  <2> QED BY <2>1, <2>5, <2>6
<1>5. CASE StringStart
  <2>1. /\ Char(current) \in Quotes /\ quote' = Char(current) /\ mode' = "string"
        /\ start' = start /\ current' = current + 1 /\ mode = "scan"
    BY <1>5 DEF StringStart
  <2>2. start = current
    BY <1>0, <2>1, Characters
  <2>3. PICK f \in Nat : f = start + 1
    BY <1>0
  <2>4. f = start' + 1 /\ f = current' /\ ~ \E k \in f .. current' - 1 : TRUE
    BY <1>0, <2>1, <2>2, <2>3
  <2>5. InPairs(f, f)
    BY Fresh
  <2>6. Char(start)' = quote'
    BY <1>1, <2>1, <2>2
  <2> QED BY <1>0, <1>2, <2>1, <2>4, <2>5, <2>6 DEF Read
<1>6. CASE StringMore
  <2>1. /\ mode = "string" /\ Char(current) \notin {quote, NUL} /\ mode' = "string"
        /\ current' = current + (IF Char(current) = "\\" THEN 2 ELSE 1)
        /\ quote' = quote /\ start' = start /\ quote \in Quotes
    BY <1>6 DEF StringMore, LexInv, Place
  <2>2. PICK f \in Nat, c \in Nat : f = start + 1 /\ c = current
    BY <1>0
  <2>3. /\ f <= c /\ Char(start) = quote /\ InPairs(f, c) /\ f = start' + 1
        /\ \A k \in f .. c - 1 : Char(k) = quote => Escaped(f, k)
    BY <1>0, <2>1, <2>2 DEF Read
  <2>4. CASE Char(c) = "\\"
    <3>1. Escaped(f, c + 1) /\ InPairs(f, c + 2) /\ quote # "\\"
      BY <2>1, <2>3, <2>4, Hidden, Characters
    <3>2. PICK b \in Nat : b = c + 2 /\ current' = b
      BY <2>1, <2>2, <2>4
    <3>3. \A k \in f .. b - 1 : k \in f .. c - 1 \/ k = c \/ k = c + 1
      BY <2>2, <3>2
    <3>4. \A k \in f .. b - 1 : Char(k) = quote => Escaped(f, k)
      BY <2>3, <2>4, <3>1, <3>3
    <3> QED BY <1>1, <1>2, <2>1, <2>3, <3>1, <3>2, <3>4 DEF Read
  <2>5. CASE Char(c) # "\\"
    <3>1. PICK b \in Nat : b = c + 1 /\ current' = b /\ b - 1 = c
      BY <2>1, <2>2, <2>5
    <3>2. InPairs(f, b)
      BY <2>3, <2>5, <3>1, Fresh
    <3>3. \A k \in f .. b - 1 : k \in f .. c - 1 \/ k = c
      BY <2>2, <3>1
    <3>4. \A k \in f .. b - 1 : Char(k) = quote => Escaped(f, k)
      BY <2>1, <2>2, <2>3, <3>3
    <3> QED BY <1>1, <1>2, <2>1, <2>3, <3>1, <3>2, <3>4 DEF Read
  <2> QED BY <2>4, <2>5
<1>7. CASE Longer
  <2>1. PICK m : Continue(current + 1, m) /\ Extends(m)
    BY <1>7 DEF Longer
  <2>2. /\ start' = start /\ mode' = m /\ start < current
        /\ mode \in {"number", "fraction", "word"}
    BY <1>0, <1>7, <2>1 DEF Continue, Longer
  <2>3. PICK c \in Nat, b \in Nat : c = current /\ b = c + 1 /\ b = current' /\ b - 1 = c
    BY <1>0, <2>1 DEF Continue
  <2>4. ASSUME NEW i \in Nat, NEW set, All(i, c - 1, set), Char(c) \in set
        PROVE  All(i, b - 1, set)
    <3>1. \A k \in i .. b - 1 : k \in i .. c - 1 \/ k = c
      BY <2>3
    <3> QED BY <2>4, <3>1 DEF All
  <2>5. CASE m = "number"
    <3>1. mode = "number" /\ Char(c) \in Digit
      BY <2>1, <2>3, <2>5 DEF Extends
    <3>2. All(start, b - 1, Digit)
      BY <1>0, <2>3, <2>4, <3>1 DEF Read
    <3> QED BY <1>2, <2>2, <2>3, <2>5, <3>2 DEF Read
  <2>6. CASE m = "word"
    <3>1. mode = "word" /\ Char(c) \in Alphanum
      BY <2>1, <2>3, <2>6 DEF Extends
    <3>2. Char(start) \in Alpha /\ All(start, b - 1, Alphanum)
      BY <1>0, <2>3, <2>4, <3>1 DEF Read
    <3> QED BY <1>1, <1>2, <2>2, <2>3, <2>6, <3>2 DEF Read
  <2>7. CASE m = "fraction"
    <3>1. CASE mode = "fraction"
      <4>1. Char(c) \in Digit
        BY <2>1, <2>3, <2>7, <3>1 DEF Extends
      <4>2. PICK d \in start + 1 .. c - 1 :
              All(start, d - 1, Digit) /\ Char(d) = "." /\ All(d + 1, c - 1, Digit)
        BY <2>3, <3>1 DEF Read
      <4>3. d \in start' + 1 .. b - 1 /\ d + 1 \in Nat /\ d # b - 1
        BY <1>0, <2>2, <2>3, <4>2
      <4>4. All(d + 1, b - 1, Digit)
        BY <2>4, <4>1, <4>2, <4>3
      <4> QED BY <1>1, <1>2, <2>2, <2>3, <2>7, <4>2, <4>3, <4>4 DEF Read
    <3>2. CASE mode = "number"
      <4>1. Char(c) = "." /\ Char(b) \in Digit /\ All(start, c - 1, Digit)
        BY <2>1, <2>3, <2>7, <3>2 DEF Extends, Read
      <4>2. c \in start' + 1 .. b - 1 /\ All(c + 1, b - 1, Digit)
        BY <1>0, <2>2, <2>3 DEF All
      <4> QED BY <1>1, <1>2, <2>2, <2>3, <2>7, <4>1, <4>2 DEF Read
    <3> QED BY <2>1, <2>7, <3>1, <3>2 DEF Extends
  <2> QED BY <1>7, <2>1, <2>2, <2>5, <2>6, <2>7 DEF Extends
<1> QED BY <1>3, <1>4, <1>5, <1>6, <1>7 DEF Quiet

LEMMA KindsDiffer ==
  LET Other == {"\n", "string", "integer", "float", "identifier", "EOF"}
  IN  /\ \A s \in Symbols : s \notin Reserved \cup Other
      /\ \A w \in Reserved : w \notin Symbols \cup Other
BY DEF Symbols, Reserved

LEMMA SpeechIsExact ==
  ASSUME LexInv, NoBlanks, Read, NEW type, NEW next, Speaks(type, next), Detail(type, next),
         NEW t \in Tokens, t.type = type,
         t.start = (IF type = "string" THEN start + 1 ELSE start),
         After(t) = (IF type = "string" THEN next - 1 ELSE next)
  PROVE  IsExact(t)
<1>0. /\ TypeOK /\ Place /\ start \in Nat \ {0} /\ current \in Nat \ {0} /\ next \in Nat
      /\ Len(text) \in Nat
      /\ mode = "scan" /\ Char(current) # BLANK => start = current
      /\ mode \in {"string", "number", "fraction", "word"} => start < current
      /\ current <= next /\ next <= Len(text) + 1
  <2>1. \A s \in Symbols : Len(s) \in Nat
    BY SpellingAssumption
  <2>2. /\ TypeOK /\ Place /\ start \in Nat \ {0} /\ current \in Nat \ {0} /\ next \in Nat
        /\ next <= Len(text) + 1
    BY Speech DEF LexInv
  <2>3. current <= next
    BY <2>1, <2>2 DEF Detail
  <2> QED BY <2>2, <2>3, StartsHere, Integers
<1>1. t.length \in Nat /\ t.start \in Nat /\ After(t) = t.start + t.length
  BY DEF Tokens, After
<1>2. CASE type = "\n" /\ mode = "scan" /\ Char(current) = "\n" /\ next = current + 1
  <2>1. t.start = current /\ t.length = 1
    BY <1>0, <1>1, <1>2, Characters
  <2> QED BY <1>2, <2>1 DEF IsExact, Symbols, Reserved
<1>3. CASE type \in Symbols /\ mode = "scan" /\ Longest(type, current) /\ next = current + Len(type)
  <2>1. /\ Len(type) \in Nat \ {0}
        /\ \A k \in current .. current + Len(type) - 1 : Char(k) # BLANK
    BY <1>0, <1>3, SpelledInText DEF Longest
  <2>2. PICK m \in Nat \ {0} : m = Len(type)
    BY <2>1
  <2>3. current \in current .. current + m - 1 /\ next = current + m
    BY <1>0, <1>3, <2>2
  <2>4. start = current /\ type # "string"
    BY <1>0, <1>3, <2>1, <2>2, <2>3 DEF Symbols
  <2>5. t.start = current /\ t.length = m
    BY <1>0, <1>1, <2>3, <2>4
  <2>6. /\ type \notin Reserved
        /\ type \notin {"\n", "string", "integer", "float", "identifier", "EOF"}
    BY <1>3, KindsDiffer
  <2>7. Spells(type, t.start) /\ \A s \in Symbols : Spells(s, t.start) => Len(s) <= m
    BY <1>3, <2>2, <2>5 DEF Longest
  <2> QED BY <1>3, <2>2, <2>5, <2>6, <2>7 DEF IsExact
<1>4. CASE type = "string" /\ mode = "string" /\ Char(current) = quote /\ next = current + 1
  <2>1. PICK f \in Nat, c \in Nat, b \in Nat :
          f = start + 1 /\ c = current /\ b = start /\ f - 1 = b /\ f <= c
    BY <1>0, <1>4
  <2>2. /\ t.start = f /\ After(t) = c /\ Char(b) = quote /\ Char(c) = quote
        /\ InPairs(f, c)
        /\ \A k \in f .. c - 1 : Char(k) = quote => Escaped(f, k)
    BY <1>0, <1>4, <2>1 DEF Read
  <2>3. ~ Escaped(f, c)
    BY <2>1, <2>2, NotHidden
  <2>4. quote \in Quotes
    BY <1>0, <1>4 DEF Place
  <2> QED BY <1>4, <2>1, <2>2, <2>3, <2>4 DEF IsExact, Symbols, Reserved
<1>5. CASE /\ type = "integer" /\ mode = "number" /\ next = current
           /\ ~ (Char(current) \in Digit \/ (Char(current) = "." /\ Char(current + 1) \in Digit))
  <2>1. t.start = start /\ After(t) = current /\ t.length > 0 /\ All(start, current - 1, Digit)
    BY <1>0, <1>1, <1>5 DEF Read
  <2> QED BY <1>5, <2>1 DEF IsExact, Symbols, Reserved
<1>6. CASE type = "float" /\ mode = "fraction" /\ next = current /\ Char(current) \notin Digit
  <2>1. PICK d \in start + 1 .. current - 1 :
          /\ All(start, d - 1, Digit) /\ Char(d) = "." /\ All(d + 1, current - 1, Digit)
          /\ d = current - 1 => Char(current) \in Digit
    BY <1>6 DEF Read
  <2>2. d \in start + 1 .. current - 2
    BY <1>0, <1>6, <2>1
  <2>3. t.start = start /\ After(t) = current
    BY <1>0, <1>6
  <2> QED BY <1>6, <2>1, <2>2, <2>3 DEF IsExact, Symbols, Reserved
<1>7. CASE /\ type = WordType(start, current) /\ mode = "word" /\ next = current
           /\ Char(current) \notin Alphanum
  <2>1. t.start = start /\ After(t) = current /\ t.length = current - start
    <3>1. type # "string"
      BY <1>7 DEF WordType, Reserved
    <3> QED BY <1>0, <1>1, <1>7, <3>1
  <2>2. CASE \E w \in Reserved : Len(w) = current - start /\ Spells(w, start)
    <3>1. type \in Reserved /\ Len(type) = current - start /\ Spells(type, start)
      BY <1>7, <2>2 DEF WordType
    <3>2. /\ type \notin Symbols
          /\ type \notin {"\n", "string", "integer", "float", "identifier", "EOF"}
      BY <3>1, KindsDiffer
    <3> QED BY <1>7, <2>1, <3>1, <3>2 DEF IsExact
  <2>3. CASE ~ \E w \in Reserved : Len(w) = current - start /\ Spells(w, start)
    <3>1. type = "identifier" /\ type \notin Symbols /\ type \notin Reserved
      BY <1>7, <2>3 DEF WordType, Reserved, Symbols
    <3>2. Char(start) \in Alpha /\ All(start, current - 1, Alphanum)
      BY <1>7 DEF Read
    <3> QED BY <1>7, <2>1, <2>3, <3>1, <3>2 DEF IsExact
  <2> QED BY <2>2, <2>3
<1>8. CASE type = "EOF" /\ mode = "scan" /\ next = current /\ Char(current) = NUL
  <2>1. start = current /\ current = Len(text) + 1
    BY <1>0, <1>8, Characters, TextFacts
  <2>2. t.start = Len(text) + 1 /\ t.length = 0
    BY <1>0, <1>1, <1>8, <2>1
  <2> QED BY <1>8, <2>2 DEF IsExact, Symbols, Reserved
<1> QED BY <1>2, <1>3, <1>4, <1>5, <1>6, <1>7, <1>8 DEF Detail

LEMMA TextInvariant == Spec => []TextInv
<1>1. Init => TextInv
  BY DEF Init, TextInv, Read
<1>2. ASSUME LexInv, TextInv, Next PROVE TextInv'
  <2>0. TypeOK /\ Place
    BY <1>2 DEF LexInv
  <2>1. CASE Quiet
    <3>1. tokens' = tokens /\ text' = text
      BY <1>2, <2>1, Silence
    <3>2. NoBlanks' <=> NoBlanks
      BY <3>1 DEF NoBlanks
    <3>3. \A t : IsExact(t)' <=> IsExact(t)
      BY <3>1, SameExactness
    <3>4. ASSUME NoBlanks PROVE Read' /\ \A i \in DOMAIN tokens : IsExact(tokens[i])
      BY <1>2, <2>1, <3>4, QuietReads DEF TextInv
    <3> QED BY <3>1, <3>2, <3>3, <3>4 DEF TextInv
  <2>2. ASSUME NEW type, NEW next, Speaks(type, next), Detail(type, next) PROVE TextInv'
    <3> DEFINE n == Len(tokens)
    <3>1. /\ text' = text /\ n \in Nat
          /\ DOMAIN tokens' = 1 .. n + 1 /\ DOMAIN tokens = 1 .. n
          /\ \A i \in 1 .. n : tokens'[i] = tokens[i]
      BY <1>2, <2>2, Speech
    <3>2. PICK t \in Tokens :
            /\ tokens'[n + 1] = t /\ t.type = type
            /\ t.start = (IF type = "string" THEN start + 1 ELSE start)
            /\ After(t) = (IF type = "string" THEN next - 1 ELSE next)
      BY <1>2, <2>2, Speech
    <3>3. \A s : IsExact(s)' <=> IsExact(s)
      BY <3>1, SameExactness
    <3>4. ASSUME NoBlanks, NEW i \in 1 .. n + 1 PROVE IsExact(tokens'[i])
      <4>1. Read /\ \A j \in 1 .. n : IsExact(tokens[j])
        BY <1>2, <3>1, <3>4 DEF TextInv
      <4>2. CASE i \in 1 .. n
        BY <3>1, <4>1, <4>2
      <4>3. CASE i = n + 1
        BY <1>2, <2>2, <3>2, <3>4, <4>1, <4>3, SpeechIsExact
      <4> QED BY <3>1, <4>2, <4>3, LastOfMore
    <3>5. Read'
      BY <2>2 DEF Read, Speaks
    <3>6. NoBlanks' <=> NoBlanks
      BY <3>1 DEF NoBlanks
    <3> QED BY <3>1, <3>3, <3>4, <3>5, <3>6 DEF TextInv
  <2> QED BY <1>2, <2>0, <2>1, <2>2, Steps
<1>3. ASSUME TextInv, UNCHANGED vars PROVE TextInv'
  <2>1. \A t : IsExact(t)' <=> IsExact(t)
    BY <1>3, SameExactness DEF vars
  <2> QED BY ZenonT(30), <1>3, <2>1 DEF TextInv, vars, NoBlanks, Read, All, InPairs, Escaped, Char
<1>4. LexInv /\ TextInv /\ [Next]_vars => TextInv'
  BY <1>2, <1>3
<1> QED BY <1>1, <1>4, LexInvariant, PTL DEF Spec

(***************************************************************************)
(* In every text without tabs and carriage returns each token spells what  *)
(* its type says, and could not be longer: scan, is_number, is_string and  *)
(* is_identifier take all there is to take and no more.                    *)
(***************************************************************************)
THEOREM TokensSpellTheirType == Spec => []TokensAreExact
<1>1. TextInv => TokensAreExact
  BY DEF TextInv, NoBlanks, TokensAreExact
<1> QED BY <1>1, TextInvariant, PTL

-----------------------------------------------------------------------------
\* The column of a token.

\* What keeps columns from being true until the next line break is read, and
\* may be: a position before the token to come.
Cloud(k) ==
  /\ \A j \in 1 .. Len(tokens) : tokens[j].type = "\n" => tokens[j].start < k
  /\ \/ Spells("//", k) \/ Char(k) \in {"\t", "\r"}
     \/ Char(k) = "\n" /\ \E j \in 1 .. Len(tokens) :
          tokens[j].type = "string" /\ k \in Covers(tokens[j])
Clouded == \E k \in 1 .. start : Cloud(k)

\* The column is that of position p.
ColumnOf(p) ==
  \E s \in 1 .. p :
    /\ s = 1 \/ Char(s - 1) = "\n"
    /\ \A j \in s .. p - 1 : Char(j) # "\n"
    /\ column = 1 + p - s

BreaksBehind == \A j \in 1 .. Len(tokens) : tokens[j].type = "\n" => tokens[j].start < start
ColumnKept ==
  /\ mode = "scan" => Clouded \/ ColumnOf(current)
  /\ mode = "comment" => Clouded
  /\ mode = "string" => Clouded \/ ColumnOf(start)
  /\ mode \in {"number", "fraction", "word"} =>
       Clouded \/ (ColumnOf(start) /\ \A j \in start .. current - 1 : Char(j) # "\n")
From(t) == IF t.type = "string" THEN t.start - 1 ELSE t.start
ColumnTrue(i) ==
  \/ tokens[i].column = 1 + From(tokens[i]) - LineStart(From(tokens[i]))
  \/ \E k \in 1 .. From(tokens[i]) :
       /\ \A j \in 1 .. i - 1 : tokens[j].type = "\n" => tokens[j].start < k
       /\ \/ Spells("//", k) \/ Char(k) \in {"\t", "\r"}
          \/ Char(k) = "\n" /\ \E j \in 1 .. i - 1 :
               tokens[j].type = "string" /\ k \in Covers(tokens[j])
ColumnInv == BreaksBehind /\ ColumnKept /\ \A i \in 1 .. Len(tokens) : ColumnTrue(i)

\* A line starts at one position.
LEMMA LineStartFound ==
  ASSUME TypeOK, NEW p \in Nat, p <= Len(text) + 1, ColumnOf(p)
  PROVE  column = 1 + p - LineStart(p)
<1> DEFINE Starts(s) == /\ s = 1 \/ Char(s - 1) = "\n"
                        /\ "\n" \notin {text[j] : j \in s .. p - 1}
<1>1. PICK s \in 1 .. p :
        /\ s = 1 \/ Char(s - 1) = "\n"
        /\ \A j \in s .. p - 1 : Char(j) # "\n"
        /\ column = 1 + p - s
  BY DEF ColumnOf
<1>2. \A i \in 1 .. Len(text) : Char(i) = text[i]
  BY TextFacts
<1>3. Len(text) \in Nat
  BY TextFacts
<1>4. Starts(s)
  <2>1. \A j \in s .. p - 1 : j \in 1 .. Len(text)
    BY <1>3
  <2> QED BY <1>1, <1>2, <2>1
<1>5. ASSUME NEW r \in 1 .. p, Starts(r) PROVE r = s
  <2>1. CASE r < s
    <3>1. s - 1 \in r .. p - 1 /\ s - 1 \in 1 .. Len(text) /\ s # 1
      BY <1>3, <2>1
    <3>2. text[s - 1] = "\n"
      BY <1>1, <1>2, <3>1
    <3> QED BY <1>5, <3>1, <3>2
  <2>2. CASE s < r
    <3>1. r - 1 \in s .. p - 1 /\ r # 1
      BY <1>3, <2>2
    <3> QED BY <1>1, <1>5, <3>1
  <2> QED BY <2>1, <2>2
<1>6. LineStart(p) = CHOOSE r \in 1 .. p : Starts(r)
  BY Zenon DEF LineStart
<1> HIDE DEF Starts
<1>7. LineStart(p) = s
  BY <1>4, <1>5, <1>6
<1> QED BY <1>1, <1>7

\* Where a blank that is no space has been read columns are not true.
LEMMA GapClouds ==
  ASSUME LexInv, BreaksBehind, mode = "scan", start < current
  PROVE  Clouded
<1>1. start \in Nat \ {0} /\ current \in Nat
  BY Integers DEF LexInv
<1>2. Char(start) \in {"\t", "\r"}
  BY <1>1 DEF LexInv, Gap
<1> QED BY <1>1, <1>2 DEF Clouded, Cloud, BreaksBehind

LEMMA CloudsStay ==
  ASSUME LexInv, Clouded, text' = text, tokens' = tokens, start' \in Nat, start' >= start
  PROVE  Clouded'
<1>1. PICK k \in 1 .. start : Cloud(k)
  BY DEF Clouded
<1>2. k \in 1 .. start'
  BY Integers DEF LexInv
<1>3. Cloud(k)'
  BY <1>1 DEF Cloud, Spells, Char, Covers, After
<1> QED BY <1>2, <1>3 DEF Clouded

LEMMA ColumnGoesOn ==
  ASSUME NEW p \in Nat \ {0}, NEW q \in Nat, p <= q, column \in Nat, ColumnOf(p),
         \A j \in p .. q - 1 : Char(j) # "\n",
         text' = text, column' = column + (q - p)
  PROVE  ColumnOf(q)'
<1>1. PICK s \in 1 .. p :
        /\ s = 1 \/ Char(s - 1) = "\n"
        /\ \A j \in s .. p - 1 : Char(j) # "\n"
        /\ column = 1 + p - s
  BY DEF ColumnOf
<1>2. \A j \in s .. q - 1 : j \in s .. p - 1 \/ j \in p .. q - 1
  OBVIOUS
<1>3. \A j \in s .. q - 1 : Char(j) # "\n"
  BY <1>1, <1>2
<1>4. s \in 1 .. q /\ column' = 1 + q - s
  BY <1>1
<1>5. \A i : Char(i)' = Char(i)
  BY SameText
<1> QED BY <1>1, <1>3, <1>4, <1>5 DEF ColumnOf

LEMMA QuietColumns ==
  ASSUME LexInv, ColumnInv, Quiet
  PROVE  ColumnKept'
<1> USE DEF Reading
<1>0. /\ text' = text /\ tokens' = tokens
      /\ start \in Nat \ {0} /\ current \in Nat \ {0} /\ column \in Nat /\ Len(text) \in Nat
      /\ start' \in Nat /\ start' >= start
      /\ mode \in {"scan", "newlines"} /\ Char(current) # BLANK => start <= current
      /\ mode \in {"string", "number", "fraction", "word"} => start < current
      /\ TypeOK /\ Place
  BY Silence, Integers, QuietKeeps DEF LexInv
<1>1. \A i : Char(i)' = Char(i)
  BY <1>0, SameText
<1>2. Clouded => Clouded'
  BY <1>0, CloudsStay
<1>3. mode = "scan" /\ start < current => Clouded
  BY GapClouds DEF ColumnInv
<1>4. CASE Space
  <2>1. /\ mode = "scan" /\ mode' = "scan" /\ Char(current) = BLANK
        /\ current' = current + 1 /\ column' = column + 1
    BY <1>4 DEF Space
  <2>2. CASE ColumnOf(current)
    <3>1. PICK q \in Nat : q = current + 1 /\ current' = q /\ current <= q /\ column' = column + (q - current)
      BY <1>0, <2>1
    <3>2. \A j \in current .. q - 1 : Char(j) # "\n"
      <4>1. \A j \in current .. q - 1 : j = current
        BY <1>0, <3>1
      <4> QED BY <2>1, <4>1, Characters
    <3>3. ColumnOf(q)'
      BY <1>0, <2>2, <3>1, <3>2, ColumnGoesOn
    <3>4. ColumnOf(current)'
      BY <3>1, <3>3 DEF ColumnOf
    <3> QED BY <2>1, <3>4 DEF ColumnKept
  <2> QED BY <1>2, <2>1, <2>2 DEF ColumnInv, ColumnKept
<1>5. CASE CarriageReturn \/ Tab
  <2>1. /\ mode = "scan" /\ mode' = "scan" /\ Char(current) \in {"\t", "\r"}
    BY <1>5 DEF CarriageReturn, Tab, Continue
  <2>2. start <= current
    BY <1>0, <2>1, Characters
  <2>3. start = current => Cloud(start)
    BY <2>1 DEF Cloud, ColumnInv, BreaksBehind
  <2>4. Clouded
    BY <1>0, <1>3, <2>1, <2>2, <2>3 DEF Clouded
  <2> QED BY <1>2, <2>1, <2>4 DEF ColumnKept
<1>6. CASE MoreNewLines
  <2>1. CASE Char(current) = "\n"
    BY <1>6, <2>1 DEF MoreNewLines, ColumnKept
  <2>2. CASE Char(current) # "\n"
    <3>1. /\ mode = "newlines" /\ mode' = "scan" /\ column' = 1 /\ current' = current
          /\ Char(current - 1) = "\n"
      BY <1>6, <2>2 DEF MoreNewLines, LexInv, Gap
    <3>2. PICK c \in Nat \ {0}, b \in Int : c = current /\ b = c - 1 /\ Char(b) = "\n" /\ current' = c
      BY <1>0, <3>1
    <3>3. /\ c \in 1 .. c /\ column' = 1 + c - c /\ c .. c - 1 = {}
      BY <3>1, <3>2
    <3>4. ColumnOf(c)'
      BY <1>1, <3>2, <3>3 DEF ColumnOf
    <3>5. ColumnOf(current)'
      BY <3>2, <3>4 DEF ColumnOf
    <3> QED BY <3>1, <3>5 DEF ColumnKept
  <2> QED BY <2>1, <2>2
<1>7. CASE CommentStart
  <2>1. /\ mode = "scan" /\ mode' = "comment" /\ Spells("//", current)
    BY <1>7 DEF CommentStart, Continue
  <2>2. start <= current
    <3>1. \A k \in current .. current + 2 - 1 : Char(k) # BLANK
      BY <1>0, <2>1, SpelledInText, SpellingAssumption
    <3>2. current \in current .. current + 2 - 1
      BY <1>0
    <3> QED BY <1>0, <2>1, <3>1, <3>2
  <2>3. start = current => Cloud(start)
    BY <2>1 DEF Cloud, ColumnInv, BreaksBehind
  <2>4. Clouded
    BY <1>0, <1>3, <2>1, <2>2, <2>3 DEF Clouded
  <2> QED BY <1>2, <2>1, <2>4 DEF ColumnKept
<1>8. CASE Comment
  <2>1. mode = "comment" /\ mode' \in {"comment", "scan"}
    BY <1>8 DEF Comment
  <2> QED BY <1>2, <2>1 DEF ColumnInv, ColumnKept
<1>9. CASE StringStart \/ NumberStart \/ WordStart
  <2>1. /\ mode = "scan" /\ mode' \in {"string", "number", "word"} /\ current' = current + 1
        /\ start' = start /\ column' = column /\ Char(current) \notin {BLANK, "\n"}
    BY <1>9, Characters, SpellingAssumption DEF StringStart, NumberStart, WordStart, Continue, Alphanum
  <2>2. CASE start < current
    BY <1>2, <1>3, <2>1, <2>2 DEF ColumnKept
  <2>3. CASE start = current
    <3>1. ColumnOf(current) => ColumnOf(start)'
      BY <1>0, <1>1, <2>1, <2>3 DEF ColumnOf
    <3>2. \A j \in start' .. current' - 1 : j = current
      BY <1>0, <2>1, <2>3
    <3> QED BY <1>1, <1>2, <2>1, <3>1, <3>2 DEF ColumnInv, ColumnKept
  <2> QED BY <1>0, <2>1, <2>2, <2>3
<1>10. CASE StringMore
  <2>1. mode = "string" /\ mode' = "string" /\ start' = start /\ column' = column
    BY <1>10 DEF StringMore
  <2>2. ColumnOf(start) => ColumnOf(start)'
    BY <1>1, <2>1 DEF ColumnOf
  <2> QED BY <1>2, <2>1, <2>2 DEF ColumnInv, ColumnKept
<1>11. CASE Longer
  <2>1. PICK m : Continue(current + 1, m) /\ Extends(m)
    BY <1>11 DEF Longer
  <2>2. /\ mode \in {"number", "fraction", "word"} /\ mode' \in {"number", "fraction", "word"}
        /\ start' = start /\ column' = column /\ current' = current + 1
        /\ Char(current) # "\n"
    BY <2>1, SpellingAssumption DEF Continue, Extends, Alphanum
  <2>3. ColumnOf(start) => ColumnOf(start)'
    BY <1>1, <2>2 DEF ColumnOf
  <2>4. \A j \in start' .. current' - 1 : j \in start .. current - 1 \/ j = current
    BY <1>0, <2>2
  <2> QED BY <1>1, <1>2, <2>2, <2>3, <2>4 DEF ColumnInv, ColumnKept
<1>12. CASE StringUnterminated \/ Unknown \/ Overrun
  BY <1>12 DEF StringUnterminated, Unknown, Overrun, Crash, ColumnKept
<1> QED BY <1>4, <1>5, <1>6, <1>7, <1>8, <1>9, <1>10, <1>11, <1>12 DEF Quiet

LEMMA SpeechColumns ==
  ASSUME LexInv, ColumnInv, NEW type, NEW next, Speaks(type, next), Detail(type, next)
  PROVE  ColumnInv'
<1>n. PICK n \in Nat : n = Len(tokens)
  BY Speech
<1>0. /\ text' = text /\ start \in Nat \ {0} /\ current \in Nat \ {0} /\ next \in Nat
      /\ column \in Nat /\ Len(text) \in Nat /\ n \in Nat
      /\ start <= next /\ next <= Len(text) + 1 /\ (type = "string" => start + 2 <= next)
      /\ current' = next /\ column' = column + (next - start)
      /\ start' = (IF Char(next) = BLANK THEN next + 1 ELSE next)
      /\ DOMAIN tokens' = 1 .. n + 1
      /\ \A i \in 1 .. n : tokens'[i] = tokens[i] /\ tokens[i] \in Tokens
      /\ TypeOK /\ Place
  BY <1>n, Speech DEF LexInv
<1>1. PICK t \in Tokens :
        /\ tokens'[n + 1] = t /\ t.type = type /\ t.column = column
        /\ t.start = (IF type = "string" THEN start + 1 ELSE start)
        /\ After(t) = (IF type = "string" THEN next - 1 ELSE next)
  BY <1>n, Speech
<1>2. Len(tokens') = n + 1
  <2>1. tokens' \in Seq([type: TokenTypes, start: Nat, length: Nat, line: Nat, column: Nat])
    BY <1>0, SpeaksKeeps DEF TypeOK
  <2> QED BY <1>0, <2>1, LenProperties
<1>3. /\ \A i : Char(i)' = Char(i)
      /\ \A w, i : Spells(w, i)' <=> Spells(w, i)
      /\ \A i : LineStart(i)' = LineStart(i)
  BY <1>0, SameText DEF LineStart, Char
<1>4. From(t) = start
  BY <1>0, <1>1 DEF From
<1>5. Covers(t) = start .. next - 1
  <2>1. CASE type = "string"
    BY <1>0, <1>1, <2>1 DEF Covers
  <2>2. CASE type # "string"
    BY <1>1, <2>2 DEF Covers
  <2> QED BY <2>1, <2>2
<1>6. BreaksBehind /\ ColumnKept /\ \A i \in 1 .. n : ColumnTrue(i)
  BY <1>n DEF ColumnInv
\* The token starts where a blank was read, or where it is read now.
<1>7. Clouded \/ (start <= Len(text) + 1 /\ ColumnOf(start))
  <2>1. start <= Len(text) + 1
    BY <1>0
  <2>2. CASE mode \in {"string", "number", "fraction", "word"}
    BY <1>6, <2>1, <2>2 DEF ColumnKept
  <2>3. CASE mode = "scan"
    <3>1. Char(current) # BLANK
      <4>1. CASE type \in Symbols /\ Longest(type, current)
        <5>1. /\ Len(type) \in Nat \ {0}
              /\ \A k \in current .. current + Len(type) - 1 : Char(k) # BLANK
          BY <1>0, <4>1, SpelledInText DEF Longest
        <5>2. PICK m \in Nat \ {0} : m = Len(type)
          BY <5>1
        <5>3. current \in current .. current + m - 1
          BY <1>0
        <5> QED BY <5>1, <5>2, <5>3
      <4>2. CASE Char(current) \in {"\n", NUL}
        BY <4>2, Characters
      <4> QED BY <2>3, <4>1, <4>2 DEF Detail
    <3>2. start <= current
      BY <1>0, <2>3, <3>1, Integers
    <3>3. start < current => Clouded
      BY <1>6, <2>3, GapClouds
    <3>4. start = current \/ start < current
      BY <1>0, <3>2
    <3> QED BY <1>6, <2>1, <2>3, <3>3, <3>4 DEF ColumnKept
  <2> QED BY <2>2, <2>3 DEF Detail
<1>8. ColumnTrue(n + 1)'
  <2>1. CASE Clouded
    <3>1. PICK k \in 1 .. start : Cloud(k)
      BY <2>1 DEF Clouded
    <3>2. (n + 1) - 1 = n
      BY <1>0
    <3>3. /\ \A j \in 1 .. n : tokens'[j].type = "\n" => tokens'[j].start < k
          /\ \/ Spells("//", k) \/ Char(k) \in {"\t", "\r"}
             \/ Char(k) = "\n" /\ \E j \in 1 .. n :
                  tokens'[j].type = "string" /\ k \in Covers(tokens'[j])
      BY <1>n, <1>0, <3>1 DEF Cloud
    <3>4. k \in 1 .. From(tokens'[n + 1])
      BY <1>1, <1>4, <3>1
    <3> QED BY <1>3, <3>2, <3>3, <3>4 DEF ColumnTrue, From, Covers, After
  <2>2. CASE start <= Len(text) + 1 /\ ColumnOf(start)
    <3>1. column = 1 + start - LineStart(start)
      BY <1>0, <2>2, LineStartFound
    <3>2. /\ tokens'[n + 1].column = 1 + From(t) - LineStart(From(t))
          /\ From(tokens'[n + 1]) = From(t)
      BY <1>1, <1>4, <3>1 DEF From
    <3> QED BY <1>3, <3>2 DEF ColumnTrue
  <2> QED BY <1>7, <2>1, <2>2
<1>9. ASSUME NEW i \in 1 .. n PROVE ColumnTrue(i)'
  <2>1. ColumnTrue(i) /\ tokens'[i] = tokens[i]
    BY <1>0, <1>6
  <2>2. \A j \in 1 .. i - 1 : tokens'[j] = tokens[j]
    BY <1>0
  <2> QED BY <1>3, <2>1, <2>2 DEF ColumnTrue, From, Covers, After
<1>10. \A i \in 1 .. Len(tokens)' : ColumnTrue(i)'
  <2>1. ASSUME NEW i \in 1 .. n + 1 PROVE ColumnTrue(i)'
    <3>1. CASE i \in 1 .. n
      BY <1>9, <3>1
    <3>2. CASE i = n + 1
      BY <1>8, <3>2
    <3> QED BY <1>0, <3>1, <3>2, LastOfMore
  <2> QED BY <1>2, <2>1
<1>11. start' \in Nat /\ start' >= next /\ (type = "\n" => start < next)
  <2>1. type = "\n" => next = current + 1 /\ start <= current
    BY <1>0, Integers, Characters DEF Detail, Symbols, WordType, Reserved
  <2> QED BY SMTT(20), <1>0, <2>1
<1>12. BreaksBehind'
  <2>1. ASSUME NEW j \in 1 .. n + 1, tokens'[j].type = "\n" PROVE tokens'[j].start < start'
    <3>1. CASE j \in 1 .. n
      <4>1. tokens[j].start < start /\ tokens[j].start \in Nat
        BY <1>n, <1>0, <1>6, <2>1, <3>1 DEF BreaksBehind, Tokens
      <4> QED BY SMTT(20), <1>0, <1>11, <3>1, <4>1
    <3>2. CASE j = n + 1
      BY <1>0, <1>1, <1>11, <2>1, <3>2
    <3> QED BY <1>0, <3>1, <3>2, LastOfMore
  <2> QED BY <1>2, <2>1 DEF BreaksBehind
<1>13. ColumnKept'
  <2>1. mode' \in {"scan", "newlines", "done"}
    BY DEF Speaks
  <2>2. ASSUME mode' = "scan" PROVE Clouded' \/ ColumnOf(current)'
    <3>0. type # "\n" /\ mode # "comment"
      BY <2>2 DEF Detail, Symbols, WordType, Reserved
    \* A cloud before the token stays, and so does one in it.
    <3>1. ASSUME NEW k \in 1 .. start',
                 \A j \in 1 .. n : tokens[j].type = "\n" => tokens[j].start < k,
                 \/ Spells("//", k) \/ Char(k) \in {"\t", "\r"}
                 \/ Char(k) = "\n" /\ \E j \in 1 .. n + 1 :
                      tokens'[j].type = "string" /\ k \in Covers(tokens'[j])
          PROVE  Clouded'
      <4>1. \A j \in 1 .. n + 1 : tokens'[j].type = "\n" => tokens'[j].start < k
        <5>1. ASSUME NEW j \in 1 .. n + 1, tokens'[j].type = "\n" PROVE tokens'[j].start < k
          <6>1. j # n + 1
            BY <1>1, <3>0, <5>1
          <6>2. j \in 1 .. n
            BY <5>1, <6>1, LastOfMore
          <6> QED BY <1>0, <3>1, <5>1, <6>2
        <5> QED BY <5>1
      <4>2. Cloud(k)'
        BY <1>2, <1>3, <3>1, <4>1 DEF Cloud, Covers, After
      <4> QED BY <4>2 DEF Clouded
    <3>2. CASE Clouded
      <4>1. PICK k \in 1 .. start : Cloud(k)
        BY <3>2 DEF Clouded
      <4>2. k \in 1 .. start'
        BY <1>0, <1>11
      <4>3. \A j \in 1 .. n : j \in 1 .. n + 1 /\ tokens'[j] = tokens[j]
        BY <1>0
      <4>4. \/ Spells("//", k) \/ Char(k) \in {"\t", "\r"}
            \/ Char(k) = "\n" /\ \E j \in 1 .. n + 1 :
                 tokens'[j].type = "string" /\ k \in Covers(tokens'[j])
        BY <1>n, <4>1, <4>3 DEF Cloud
      <4> QED BY <1>n, <3>1, <4>1, <4>2, <4>4 DEF Cloud
    <3>3. CASE ColumnOf(start) /\ \A j \in start .. next - 1 : Char(j) # "\n"
      <4>1. ColumnOf(next)'
        BY <1>0, <3>3, ColumnGoesOn
      <4> QED BY <1>0, <4>1 DEF ColumnOf
    <3>4. CASE type = "string"
      <4>1. CASE \A j \in start .. next - 1 : Char(j) # "\n"
        BY <1>7, <3>2, <3>3, <4>1
      <4>2. CASE ~ \A j \in start .. next - 1 : Char(j) # "\n"
        <5>1. PICK k \in start .. next - 1 : Char(k) = "\n"
          BY <4>2
        <5>2. k \in 1 .. start' /\ start <= k
          BY <1>0, <1>11
        <5>3. \A j \in 1 .. n : tokens[j].type = "\n" => tokens[j].start < k
          <6>1. \A j \in 1 .. n : tokens[j].type = "\n" => tokens[j].start < start /\ tokens[j].start \in Nat
            BY <1>n, <1>0, <1>6 DEF BreaksBehind, Tokens
          <6> QED BY <1>0, <5>2, <6>1
        <5>4. n + 1 \in 1 .. n + 1 /\ tokens'[n + 1].type = "string" /\ k \in Covers(tokens'[n + 1])
          BY <1>0, <1>1, <1>5, <3>4
        <5> QED BY <3>1, <5>1, <5>2, <5>3, <5>4
      <4> QED BY <4>1, <4>2
    <3>5. CASE mode \in {"number", "fraction", "word"} /\ next = current
      <4>1. Clouded \/ (ColumnOf(start) /\ \A j \in start .. next - 1 : Char(j) # "\n")
        BY <1>6, <3>5 DEF ColumnKept
      <4> QED BY <3>2, <3>3, <4>1
    <3>6. CASE mode = "scan"
      <4>1. CASE start < current
        BY <1>6, <3>2, <3>6, <4>1, GapClouds
      <4>2. CASE ~ (start < current)
        <5>1. \A j \in start .. next - 1 : Char(j) # "\n"
          <6>1. \A j \in start .. next - 1 : j \in current .. next - 1
            BY <1>0, <4>2
          <6>2. CASE type \in Symbols /\ Longest(type, current) /\ next = current + Len(type)
            <7>1. /\ Len(type) \in Nat
                  /\ \A j \in current .. current + Len(type) - 1 : Char(j) # "\n"
              BY <1>0, <6>2, SpelledInText DEF Longest
            <7>2. PICK m \in Nat : m = Len(type)
              BY <7>1
            <7>3. next = current + m /\ \A j \in current .. current + m - 1 : Char(j) # "\n"
              BY <6>2, <7>1, <7>2
            <7> QED BY <1>0, <6>1, <7>3
          <6>3. CASE next = current
            BY <1>0, <6>1, <6>3
          <6> QED BY <3>0, <3>6, <6>2, <6>3 DEF Detail
        <5> QED BY <1>7, <3>2, <3>3, <5>1
      <4> QED BY <4>1, <4>2
    <3> QED BY <3>0, <3>4, <3>5, <3>6 DEF Detail
  <2> QED BY <2>1, <2>2 DEF ColumnKept
<1> QED BY <1>10, <1>12, <1>13 DEF ColumnInv

LEMMA ColumnInvariant == Spec => []ColumnInv
<1>1. ASSUME Init PROVE ColumnInv
  <2>1. /\ mode = "scan" /\ current = 1 /\ column = 1 /\ Len(tokens) = 0
        /\ \A i \in 1 .. 0 : FALSE
    BY <1>1 DEF Init
  <2>2. 1 \in 1 .. current /\ column = 1 + current - 1 /\ \A j \in 1 .. current - 1 : FALSE
    BY <2>1
  <2>3. ColumnOf(current)
    BY <2>2 DEF ColumnOf
  <2> QED BY <2>1, <2>3 DEF ColumnInv, BreaksBehind, ColumnKept
<1>2. ASSUME LexInv, ColumnInv, Next PROVE ColumnInv'
  <2>0. TypeOK /\ Place
    BY <1>2 DEF LexInv
  <2>1. CASE Quiet
    <3>1. /\ tokens' = tokens /\ text' = text /\ start \in Nat /\ start' \in Nat /\ start' >= start
          /\ tokens \in Seq(Tokens)
      BY <1>2, <2>0, <2>1, Silence, QuietKeeps DEF TypeOK, Tokens
    <3>2. BreaksBehind'
      <4>1. \A j \in 1 .. Len(tokens) : tokens[j] \in Tokens
        BY <3>1, ElementOfSeq
      <4>2. \A j \in 1 .. Len(tokens) : tokens[j].start \in Nat
        BY <4>1 DEF Tokens
      <4> QED BY <1>2, <3>1, <4>2 DEF ColumnInv, BreaksBehind
    <3>3. ColumnKept'
      BY <1>2, <2>1, QuietColumns
    <3>4. \A i : ColumnTrue(i)' <=> ColumnTrue(i)
      BY <3>1 DEF ColumnTrue, From, Covers, After, LineStart, Spells, Char
    <3> QED BY <1>2, <3>1, <3>2, <3>3, <3>4 DEF ColumnInv
  <2> QED BY <1>2, <2>0, <2>1, Steps, SpeechColumns
<1>3. ASSUME ColumnInv, UNCHANGED vars PROVE ColumnInv'
  <2>1. text' = text /\ tokens' = tokens /\ start' = start /\ column' = column
    BY <1>3 DEF vars
  <2>2. \A i : ColumnTrue(i)' <=> ColumnTrue(i)
    BY <2>1 DEF ColumnTrue, From, Covers, After, LineStart, Spells, Char
  <2>3. Clouded' <=> Clouded
    BY <2>1 DEF Clouded, Cloud, Covers, After, Spells, Char
  <2>4. ColumnKept'
    BY <1>3, <2>3 DEF ColumnInv, ColumnKept, ColumnOf, Char, vars
  <2> QED BY <1>3, <2>1, <2>2, <2>4 DEF ColumnInv, BreaksBehind
<1>4. LexInv /\ ColumnInv /\ [Next]_vars => ColumnInv'
  BY <1>2, <1>3
<1> QED BY <1>1, <1>4, LexInvariant, PTL DEF Spec

(***************************************************************************)
(* In every text a token is said to be in its column, unless a comment, a  *)
(* string over several lines or a blank that is no space comes before it   *)
(* in its line.                                                            *)
(***************************************************************************)
THEOREM TokensKnowTheirColumn == Spec => []ColumnsAreTrue
<1>1. ASSUME TypeOK, ColumnInv PROVE ColumnsAreTrue
  <2>1. DOMAIN tokens = 1 .. Len(tokens)
    BY <1>1, LenProperties DEF TypeOK
  <2> QED BY <1>1, <2>1 DEF ColumnInv, ColumnTrue, From, ColumnsAreTrue
<1>2. TypeOK /\ ColumnInv => ColumnsAreTrue
  BY <1>1
<1> QED BY <1>2, ColumnInvariant, LexerTypeOK, PTL
=============================================================================
