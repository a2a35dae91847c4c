--------------------------- MODULE ShellLineProofs ---------------------------
(***************************************************************************)
(* What the command line shows, and the words it is divided into, for      *)
(* every screen, font size, buffer and alphabet.                           *)
(***************************************************************************)
EXTENDS ShellLine, FiniteSetTheorems, SequenceTheorems, NaturalsInduction, TLAPS

L == CHAR_WIDTH * level
Word == 2 ^ 16
Square == CHAR_HEIGHT * level
Glyphs == Letters \cup {BLANK, "$", ">", "o"}
Rows == [0 .. width - 1 -> Glyphs]

(* A pen below which a letter of any size fits.                            *)
Pens == {p \in [x : 0 .. Word - 1, y : Nat, row : Rows] : p.y + 3 * CHAR_HEIGHT <= height}

LineType ==
  /\ Pen \in Pens /\ level \in Levels
  /\ at \in {"prompt", "read", "run"}
  /\ i \in Indices /\ read_buffer \in [Indices -> Letters \cup {NUL}]
  /\ home \in BOOLEAN /\ wrapped \in BOOLEAN /\ overflowed \in BOOLEAN
  /\ disturbed \in BOOLEAN

(* In a line that began at the edge, has not reached the other one and was *)
(* not disturbed, the pen stands behind n letters, the prompt's two        *)
(* included, and nothing is drawn from there on; the letters are the       *)
(* prompt and those of the buffer if it had room.                          *)
LettersShown(n) ==
  /\ n = i + 2
  /\ row[0] = "$" /\ row[L] = ">"
  /\ \A k \in 0 .. i - 1 : row[(k + 2) * L] = Drawn(read_buffer[k])

PenBehind(n) ==
  /\ n >= 2 /\ pen_x = n * L /\ pen_x + L <= width
  /\ \A m \in Nat : m >= n /\ m * L < width => row[m * L] = BLANK
  /\ ~overflowed => LettersShown(n)

PenInLine ==
  at = "read" /\ home /\ ~wrapped /\ ~disturbed => \E n \in Nat : PenBehind(n)

IInv == LineType /\ PenInLine

-----------------------------------------------------------------------------
(* The console.                                                            *)

(* The sizes, at each level.                                               *)
LEMMA SizesFit ==
  ASSUME NEW l \in Levels
  PROVE  /\ CHAR_WIDTH * l \in Nat /\ CHAR_WIDTH * l > 0 /\ CHAR_WIDTH * l <= width
         /\ CHAR_HEIGHT * l \in Nat /\ CHAR_HEIGHT * l > 0 /\ l * CHAR_HEIGHT \in Nat
         /\ width \in Nat /\ width > 0 /\ width < Word
         /\ CHAR_HEIGHT \in Nat /\ CHAR_HEIGHT > 0
         /\ height \in Nat /\ 3 * CHAR_HEIGHT <= height
<1>1. /\ CHAR_WIDTH \in Nat /\ CHAR_WIDTH > 0 /\ 3 * CHAR_WIDTH <= width
      /\ CHAR_HEIGHT \in Nat /\ CHAR_HEIGHT > 0 /\ 3 * CHAR_HEIGHT <= height
      /\ width \in Nat /\ height \in Nat /\ width < Word /\ l \in {1, 2, 3}
  BY ConsoleAssumption, SMT DEF Word
<1>2. CASE l = 1
  BY <1>1, <1>2
<1>3. CASE l = 2
  BY <1>1, <1>3
<1>4. CASE l = 3
  BY <1>1, <1>4
<1> QED BY <1>1, <1>2, <1>3, <1>4

LEMMA LevelFits ==
  ASSUME level \in Levels
  PROVE  /\ L \in Nat /\ L > 0 /\ L <= width
         /\ Square \in Nat /\ Square > 0 /\ level * CHAR_HEIGHT \in Nat
         /\ width \in Nat /\ width > 0 /\ width < Word
         /\ CHAR_HEIGHT \in Nat /\ height \in Nat /\ 3 * CHAR_HEIGHT <= height
BY SizesFit DEF L, Square

(* The places of two letters are a letter apart.                           *)
LEMMA PlacesApart ==
  ASSUME NEW k \in Nat, NEW m \in Nat, NEW l \in Nat, k < m
  PROVE  k * l \in Nat /\ m * l \in Nat /\ k * l + l <= m * l
<1> DEFINE d == m - k - 1
<1>1. d \in Nat /\ m = k + 1 + d
  OBVIOUS
<1> HIDE DEF d
<1>2. m * l = k * l + l + d * l
  BY <1>1
<1>3. d * l >= 0 /\ d * l \in Nat /\ k * l \in Nat
  BY <1>1
<1> QED BY <1>2, <1>3

(* Sixteen bits.                                                           *)
LEMMA SixteenBits ==
  /\ Word \in Nat /\ Word > 0
  /\ \A x \in Int : (x % Word) \in 0 .. Word - 1
  /\ \A x \in 0 .. Word - 1 : (x % Word) = x
<1>1. Word \in Nat /\ Word > 0
  BY SMT DEF Word
<1>2. ASSUME NEW x \in Int
      PROVE  (x % Word) \in Int /\ (x % Word) >= 0 /\ (x % Word) <= Word - 1
  BY SMT DEF Word
<1>3. ASSUME NEW x \in Nat, x < Word
      PROVE  (x % Word) = x
  BY <1>3, SMT DEF Word
<1> QED BY <1>1, <1>2, <1>3

LEMMA NewLineDoes ==
  ASSUME level \in Levels, NEW p \in Pens
  PROVE  /\ NewLine(p) \in Pens
         /\ NewLine(p).x = 0 /\ NewLine(p).row = EmptyRow
<1>1. EmptyRow \in Rows
  BY DEF EmptyRow, Rows, Glyphs
<1>2. /\ p.y \in Nat /\ p.y + 3 * CHAR_HEIGHT <= height
      /\ level * CHAR_HEIGHT \in Nat /\ CHAR_HEIGHT \in Nat /\ height \in Nat
  BY LevelFits DEF Pens
<1> DEFINE y == IF p.y + level * CHAR_HEIGHT <= height - CHAR_HEIGHT * 3
                  THEN p.y + level * CHAR_HEIGHT ELSE p.y
<1>3. y \in Nat /\ y + 3 * CHAR_HEIGHT <= height
  BY <1>2
<1>4. NewLine(p) = [x |-> 0, row |-> EmptyRow, y |-> y]
  BY DEF NewLine
<1> HIDE DEF y
<1>5. 0 \in 0 .. Word - 1
  BY SixteenBits
<1> QED BY <1>1, <1>3, <1>4, <1>5 DEF Pens

(* A letter moves the pen by one place, or to an empty line.               *)
LEMMA AdvanceDoes ==
  ASSUME level \in Levels, NEW p \in Pens, NEW c \in Glyphs
  PROVE  /\ Advance(p, c) \in Pens
         /\ p.x + L <= width - L =>
              /\ Advance(p, c).x = p.x + L
              /\ Advance(p, c).row = [p.row EXCEPT ![p.x] = IF Drawn(c) = BLANK THEN @ ELSE c]
         /\ p.x + L <= width /\ ~(p.x + L <= width - L) =>
              Advance(p, c).x = 0 /\ Advance(p, c).row = EmptyRow
<1> DEFINE x == (p.x + L) % Word
           letters == [q \in DOMAIN p.row |-> IF q = p.x /\ Drawn(c) # BLANK THEN c ELSE p.row[q]]
           drawn == [p EXCEPT !.x = x, !.row = letters]
<1>1. Advance(p, c) = IF x > width - L THEN NewLine(drawn) ELSE drawn
  BY DEF Advance, L, Word
<1>2. /\ p.x \in 0 .. Word - 1 /\ p.row \in Rows /\ p = [x |-> p.x, y |-> p.y, row |-> p.row]
      /\ p.y \in Nat /\ p.y + 3 * CHAR_HEIGHT <= height
  BY DEF Pens
<1>3. L \in Nat /\ L > 0 /\ width \in Nat /\ width < Word
  BY LevelFits
<1>4. x \in 0 .. Word - 1 /\ (p.x + L <= width => x = p.x + L)
  <2>1. p.x + L \in Int /\ (p.x + L <= width => p.x + L \in 0 .. Word - 1)
    BY <1>2, <1>3, SixteenBits
  <2> QED BY <2>1, SixteenBits
<1>5. letters \in Rows
  BY <1>2 DEF Rows
<1>6. letters = [p.row EXCEPT ![p.x] = IF Drawn(c) = BLANK THEN @ ELSE c]
  BY <1>2 DEF Rows
<1> HIDE DEF x, letters
<1>7. drawn \in Pens /\ drawn.x = x /\ drawn.row = letters
  BY <1>2, <1>4, <1>5 DEF Pens
<1> HIDE DEF drawn
<1>8. NewLine(drawn) \in Pens /\ NewLine(drawn).x = 0 /\ NewLine(drawn).row = EmptyRow
  BY <1>7, NewLineDoes
<1>9. p.x + L <= width - L => p.x + L <= width
  BY <1>2, <1>3
<1> QED BY <1>1, <1>2, <1>3, <1>4, <1>6, <1>7, <1>8, <1>9

(* Backspace moves it back by one place and clears that, but not over the  *)
(* prompt.                                                                 *)
LEMMA DeleteDoes ==
  ASSUME level \in Levels, NEW p \in Pens
  PROVE  /\ DeleteLastChar(p) \in Pens
         /\ p.x = 2 * L => DeleteLastChar(p) = p
         /\ p.x # 2 * L /\ p.x >= L =>
              /\ DeleteLastChar(p).x = p.x - L
              /\ DeleteLastChar(p).row =
                   [q \in 0 .. width - 1 |->
                      IF q \in p.x - L .. p.x - L + Square - 1 THEN BLANK ELSE p.row[q]]
<1> DEFINE x == (p.x - L) % Word
           erased == [q \in DOMAIN p.row |->
                        IF q \in x .. x + Square - 1 THEN BLANK ELSE p.row[q]]
           back == [p EXCEPT !.x = x, !.row = erased]
<1>1. L \in Nat /\ L > 0 /\ width \in Nat /\ CHAR_WIDTH * 2 * level = 2 * L
  BY LevelFits, ConsoleAssumption DEF L
<1>2. DeleteLastChar(p) = IF p.x = 2 * L THEN p ELSE back
  BY <1>1 DEF DeleteLastChar, L, Square, Word
<1>3. /\ p.x \in 0 .. Word - 1 /\ p.row \in Rows /\ DOMAIN p.row = 0 .. width - 1
      /\ p = [x |-> p.x, y |-> p.y, row |-> p.row]
      /\ p.y \in Nat /\ p.y + 3 * CHAR_HEIGHT <= height
  BY DEF Pens, Rows
<1>8. Word \in Nat
  BY SixteenBits
<1>4. x \in 0 .. Word - 1 /\ (p.x >= L => x = p.x - L)
  <2>1. p.x - L \in Int /\ (p.x >= L => p.x - L \in 0 .. Word - 1)
    BY <1>1, <1>3, <1>8
  <2> QED BY <2>1, SixteenBits
<1> HIDE DEF x
<1>5. erased \in Rows
  BY <1>3 DEF Rows, Glyphs
<1>6. p.x >= L => erased = [q \in 0 .. width - 1 |->
                             IF q \in p.x - L .. p.x - L + Square - 1 THEN BLANK ELSE p.row[q]]
  BY <1>3, <1>4
<1> HIDE DEF erased
<1>7. back \in Pens /\ back.x = x /\ back.row = erased
  BY <1>3, <1>4, <1>5 DEF Pens
<1> HIDE DEF back
<1> QED BY <1>2, <1>4, <1>6, <1>7

(* A string is printed letter by letter.                                   *)
LEMMA PrintedTwo ==
  ASSUME NEW pen, NEW s, Len(s) = 2
  PROVE  Printed(pen, s) = PrintChar(PrintChar(pen, s[1]), s[2])
<1> DEFINE F(a) == [k \in 0 .. Len(s) |-> IF k = 0 THEN pen ELSE PrintChar(a[k - 1], s[k])]
           one == PrintChar(pen, s[1])
           two == PrintChar(one, s[2])
           g == [k \in 0 .. Len(s) |-> IF k = 0 THEN pen ELSE IF k = 1 THEN one ELSE two]
           after == CHOOSE a : a = F(a)
<1>1. g[0] = pen /\ g[1] = one
  OBVIOUS
<1>2. ASSUME NEW k \in 0 .. Len(s)
      PROVE  g[k] = F(g)[k]
  <2>1. k = 0 \/ k = 1 \/ k = 2
    OBVIOUS
  <2>2. CASE k = 0
    BY <2>2
  <2>3. CASE k = 1
    BY <1>1, <2>3
  <2>4. CASE k = 2
    BY <1>1, <2>4
  <2> QED BY <2>1, <2>2, <2>3, <2>4
<1>3. g = F(g)
  <2> HIDE DEF one, two
  <2> QED BY <1>2
<1>4. after = F(after)
  <2> HIDE DEF F, g
  <2> QED BY <1>3
<1>5. after = [k \in 0 .. Len(s) |-> IF k = 0 THEN pen ELSE PrintChar(after[k - 1], s[k])]
  BY <1>4
<1>6. Printed(pen, s) = after[Len(s)]
  BY DEF Printed
<1> HIDE DEF after, F, g
<1>7. after[0] = pen
  BY <1>5
<1>8. after[1] = one
  BY <1>5, <1>7
<1>9. after[2] = two
  BY <1>5, <1>8
<1> QED BY <1>6, <1>9

LEMMA PrintedOne ==
  ASSUME NEW pen, NEW s, Len(s) = 1
  PROVE  Printed(pen, s) = PrintChar(pen, s[1])
<1> DEFINE F(a) == [k \in 0 .. Len(s) |-> IF k = 0 THEN pen ELSE PrintChar(a[k - 1], s[k])]
           one == PrintChar(pen, s[1])
           g == [k \in 0 .. Len(s) |-> IF k = 0 THEN pen ELSE one]
           after == CHOOSE a : a = F(a)
<1>1. g[0] = pen
  OBVIOUS
<1>2. ASSUME NEW k \in 0 .. Len(s)
      PROVE  g[k] = F(g)[k]
  <2>1. k = 0 \/ k = 1
    OBVIOUS
  <2>2. CASE k = 0
    BY <2>2
  <2>3. CASE k = 1
    BY <1>1, <2>3
  <2> QED BY <2>1, <2>2, <2>3
<1>3. g = F(g)
  <2> HIDE DEF one
  <2> QED BY <1>2
<1>4. after = F(after)
  <2> HIDE DEF F, g
  <2> QED BY <1>3
<1>5. after = [k \in 0 .. Len(s) |-> IF k = 0 THEN pen ELSE PrintChar(after[k - 1], s[k])]
  BY <1>4
<1>6. Printed(pen, s) = after[Len(s)]
  BY DEF Printed
<1> HIDE DEF after, F, g
<1>7. after[0] = pen
  BY <1>5
<1>8. after[1] = one
  BY <1>5, <1>7
<1> QED BY <1>6, <1>8

(* Which characters are letters to the console.                            *)
LEMMA GlyphsAdvance ==
  ASSUME NEW p, NEW c \in Glyphs
  PROVE  PrintChar(p, c) = Advance(p, c)
<1>1. c # "newline" /\ c # BACKSPACE
  <2>1. CASE c \in Letters
    BY <2>1, ShellLineAssumption
  <2>2. CASE c \in {BLANK, "$", ">", "o"}
    BY <2>2 DEF BLANK, BACKSPACE
  <2> QED BY <2>1, <2>2 DEF Glyphs
<1> QED BY <1>1 DEF PrintChar

(* The pen after a step that shows p.                                      *)
LEMMA PenShown ==
  ASSUME NEW p \in Pens, Shows(p)
  PROVE  Pen' = p
<1>1. p = [x |-> p.x, y |-> p.y, row |-> p.row]
  BY DEF Pens
<1> QED BY <1>1 DEF Shows, Pen

-----------------------------------------------------------------------------
LEMMA PromptIInv ==
  ASSUME IInv, PrintsPrompt
  PROVE  IInv'
<1> DEFINE first == Advance(Pen, "$")
           second == Advance(first, ">")
<1>1. /\ Pen \in Pens /\ level \in Levels /\ Pen.x = pen_x /\ Pen.row = row
      /\ "$" \in Glyphs /\ ">" \in Glyphs /\ Drawn("$") # BLANK /\ Drawn(">") # BLANK
  BY DEF IInv, LineType, Pen, Glyphs, Drawn, BLANK, NUL
<1>2. /\ L \in Nat /\ L > 0 /\ width \in Nat /\ L <= width
  BY <1>1, LevelFits
<1>3. /\ first \in Pens
      /\ pen_x + L <= width - L =>
           first.x = pen_x + L /\ first.row = [row EXCEPT ![pen_x] = "$"]
      /\ pen_x + L <= width /\ ~(pen_x + L <= width - L) => first.x = 0
  BY <1>1, AdvanceDoes
<1> HIDE DEF first
<1>4. /\ second \in Pens
      /\ first.x + L <= width - L =>
           second.x = first.x + L /\ second.row = [first.row EXCEPT ![first.x] = ">"]
      /\ first.x + L <= width /\ ~(first.x + L <= width - L) => second.x = 0
  BY <1>1, <1>3, AdvanceDoes
<1>5. Printed(Pen, Prompt) = second
  <2>1. Len(Prompt) = 2 /\ Prompt[1] = "$" /\ Prompt[2] = ">"
    BY DEF Prompt
  <2> QED BY <1>1, <2>1, PrintedTwo, GlyphsAdvance DEF first
<1> HIDE DEF second
<1>6. Pen' = second /\ pen_x' = second.x /\ row' = second.row
  BY <1>4, <1>5, PenShown DEF PrintsPrompt, Shows
<1>7. level' = level /\ L' = L /\ at = "prompt" /\ at' = "read" /\ i' = 0
  BY DEF PrintsPrompt, L
<1>8. LineType'
  <2>1. 0 \in Indices /\ EmptyBuffer \in [Indices -> Letters \cup {NUL}]
    BY ShellLineAssumption DEF Indices, EmptyBuffer
  <2> QED BY <1>1, <1>4, <1>6, <1>7, <2>1 DEF LineType, IInv, PrintsPrompt
<1>9. ASSUME home', ~wrapped'
      PROVE  PenBehind(2)'
  <2>1. pen_x = 0 /\ pen_x' # 0 /\ row = EmptyRow
    BY <1>7, <1>9 DEF PrintsPrompt
  <2>2. L <= width - L
    BY <1>2, <1>3, <1>4, <1>6, <2>1
  <2>3. first.x = L /\ first.row = [row EXCEPT ![0] = "$"]
    BY <1>2, <1>3, <2>1, <2>2
  <2>4. L + L <= width - L
    BY <1>2, <1>4, <1>6, <2>1, <2>2, <2>3
  <2>5. pen_x' = 2 * L /\ row' = [[row EXCEPT ![0] = "$"] EXCEPT ![L] = ">"]
    BY <1>2, <1>4, <1>6, <2>3, <2>4
  <2>6. row' = [q \in 0 .. width - 1 |-> IF q = L THEN ">" ELSE IF q = 0 THEN "$" ELSE BLANK]
    BY <1>2, <2>1, <2>5 DEF EmptyRow
  <2>7. ASSUME NEW m \in Nat, m >= 2, m * L < width
        PROVE  row'[m * L] = BLANK
    <3>1. 1 * L + L <= m * L /\ m * L \in Nat /\ 1 * L = L
      BY <1>2, <2>7, PlacesApart
    <3> QED BY <1>2, <2>6, <2>7, <3>1
  <2>8. row'[0] = "$" /\ row'[L] = ">"
    BY <1>2, <2>2, <2>6
  <2>9. LettersShown(2)'
    BY <1>7, <2>8 DEF LettersShown
  <2>10. pen_x' + L <= width /\ 2 >= 2 /\ 2 \in Nat
    BY <1>2, <2>4, <2>5
  <2> QED BY <1>7, <2>5, <2>7, <2>9, <2>10 DEF PenBehind
<1> QED BY <1>7, <1>8, <1>9 DEF IInv, PenInLine

(* A letter typed appears where the pen was, and nowhere else.             *)
LEMMA LetterIInv ==
  ASSUME IInv, NEW c \in Letters, TypesLetter(c)
  PROVE  IInv'
<1> DEFINE typed == Advance(Pen, c)
<1>1. /\ Pen \in Pens /\ level \in Levels /\ Pen.x = pen_x /\ Pen.row = row
      /\ c \in Glyphs /\ row \in Rows /\ pen_x \in Nat
  BY SixteenBits DEF IInv, LineType, Pen, Pens, Glyphs
<1>2. /\ L \in Nat /\ L > 0 /\ width \in Nat /\ L <= width
  BY <1>1, LevelFits
<1>3. /\ typed \in Pens
      /\ pen_x + L <= width - L =>
           /\ typed.x = pen_x + L
           /\ typed.row = [row EXCEPT ![pen_x] = IF Drawn(c) = BLANK THEN @ ELSE c]
      /\ pen_x + L <= width /\ ~(pen_x + L <= width - L) => typed.x = 0
  BY <1>1, AdvanceDoes
<1>4. Pen' = typed /\ pen_x' = typed.x /\ row' = typed.row
  BY <1>1, <1>3, GlyphsAdvance, PenShown DEF TypesLetter, Shows
<1> HIDE DEF typed
<1>5. /\ level' = level /\ L' = L /\ at = "read" /\ at' = "read" /\ home' = home
      /\ disturbed' = disturbed
      /\ i \in Indices /\ read_buffer \in [Indices -> Letters \cup {NUL}]
      /\ BUFFER_LENGTH \in Nat
  BY ShellLineAssumption DEF TypesLetter, PressesKey, L, IInv, LineType, drawHistory
<1>6. LineType'
  <2>1. i' \in Indices /\ read_buffer' \in [Indices -> Letters \cup {NUL}]
    BY <1>5 DEF TypesLetter, Indices
  <2>2. /\ overflowed' \in BOOLEAN /\ wrapped' \in BOOLEAN /\ home' \in BOOLEAN
        /\ disturbed' \in BOOLEAN
    BY <1>5 DEF TypesLetter, IInv, LineType
  <2> QED BY <1>1, <1>3, <1>4, <1>5, <2>1, <2>2 DEF LineType
<1>7. ASSUME home', ~wrapped', ~disturbed'
      PROVE  \E n \in Nat : PenBehind(n)'
  <2>1. home /\ ~wrapped /\ ~disturbed /\ pen_x' >= pen_x
    <3>3. wrapped' = (wrapped \/ pen_x' < pen_x)
      BY DEF TypesLetter
    <3>1. home /\ ~wrapped /\ ~(pen_x' < pen_x)
      BY <1>5, <1>7, <3>3, Zenon
    <3>2. pen_x' \in Nat
      BY <1>3, <1>4, SixteenBits DEF Pens
    <3> QED BY <1>1, <1>5, <1>7, <3>1, <3>2
  <2>2. PICK n \in Nat : PenBehind(n)
    BY <1>5, <2>1 DEF IInv, PenInLine
  <2>3. /\ n >= 2 /\ pen_x = n * L /\ pen_x + L <= width
        /\ \A m \in Nat : m >= n /\ m * L < width => row[m * L] = BLANK
    BY <2>2 DEF PenBehind
  <2>4. \A k \in Nat : k < n => k * L \in Nat /\ k * L + L <= pen_x
    BY <1>2, <2>3, PlacesApart
  <2>5. 0 < pen_x /\ L < pen_x /\ pen_x < width
    BY <1>2, <2>3, <2>4
  <2>6. /\ pen_x + L <= width - L
        /\ pen_x' = pen_x + L
        /\ row' = [row EXCEPT ![pen_x] = IF Drawn(c) = BLANK THEN @ ELSE c]
    BY <1>2, <1>3, <1>4, <2>1, <2>3, <2>5
  <2>7. /\ \A q \in 0 .. width - 1 : q # pen_x => row'[q] = row[q]
        /\ row'[pen_x] = Drawn(c)
    <3>1. row[pen_x] = BLANK
      BY <2>3, <2>5
    <3>2. (IF Drawn(c) = BLANK THEN row[pen_x] ELSE c) = Drawn(c)
      BY <3>1 DEF Drawn
    <3>3. row' = [row EXCEPT ![pen_x] = Drawn(c)]
      BY <2>6, <3>2
    <3>4. pen_x \in 0 .. width - 1 /\ DOMAIN row = 0 .. width - 1
      BY <1>1, <1>2, <2>5 DEF Rows
    <3> QED BY <3>3, <3>4
  <2>8. pen_x' = (n + 1) * L /\ pen_x' + L <= width
    BY <1>2, <2>3, <2>6
  <2>9. ASSUME NEW m \in Nat, m >= n + 1, m * L < width
        PROVE  row'[m * L] = BLANK
    <3>1. n * L + L <= m * L /\ m * L \in Nat
      BY <1>2, <2>9, PlacesApart
    <3>2. m * L \in 0 .. width - 1 /\ m * L # pen_x /\ m >= n
      BY <1>2, <2>3, <2>9, <3>1
    <3> QED BY <2>3, <2>7, <2>9, <3>2
  <2>10. ASSUME ~overflowed'
         PROVE  LettersShown(n + 1)'
    <3>6. overflowed' = (overflowed \/ i = BUFFER_LENGTH - 1)
      BY DEF TypesLetter
    <3>5. ~overflowed /\ i # BUFFER_LENGTH - 1
      BY <2>10, <3>6, Zenon
    <3>1. LettersShown(n) /\ i < BUFFER_LENGTH - 1
      BY <1>5, <2>2, <3>5 DEF PenBehind, Indices
    <3>2. i' = i + 1 /\ read_buffer' = [read_buffer EXCEPT ![i] = c] /\ n + 1 = i' + 2
      BY <1>5, <3>1 DEF TypesLetter, LettersShown, Indices
    <3>3. row'[0] = "$" /\ row'[L] = ">"
      BY <1>1, <1>2, <2>5, <2>7, <3>1 DEF LettersShown
    <3>4. ASSUME NEW k \in 0 .. i' - 1
          PROVE  row'[(k + 2) * L] = Drawn(read_buffer'[k])
      <4>1. CASE k = i
        <5>1. (k + 2) * L = pen_x /\ read_buffer'[k] = c
          BY <1>5, <2>3, <3>1, <3>2, <4>1 DEF LettersShown
        <5> QED BY <2>7, <5>1
      <4>2. CASE k # i
        <5>1. k \in 0 .. i - 1 /\ k \in Indices /\ k + 2 \in Nat /\ k + 2 < n
          BY <1>5, <3>1, <3>2, <3>4, <4>2 DEF Indices, LettersShown
        <5>2. (k + 2) * L \in 0 .. width - 1 /\ (k + 2) * L # pen_x
          <6>1. (k + 2) * L \in Nat /\ (k + 2) * L + L <= pen_x
            BY <2>4, <5>1
          <6> QED BY <1>1, <1>2, <2>5, <6>1
        <5> QED BY <1>5, <2>7, <3>1, <3>2, <4>2, <5>1, <5>2 DEF LettersShown
      <4> QED BY <4>1, <4>2
    <3> QED BY <1>5, <3>2, <3>3, <3>4 DEF LettersShown
  <2>11. PenBehind(n + 1)'
    BY <1>5, <2>3, <2>8, <2>9, <2>10 DEF PenBehind
  <2> QED BY <2>11
<1> QED BY <1>5, <1>6, <1>7 DEF IInv, PenInLine

(* Backspace takes the last letter from the screen and from the buffer,    *)
(* and nothing when the line is empty.                                     *)
LEMMA BackspaceIInv ==
  ASSUME IInv, TypesBackspace
  PROVE  IInv'
<1> DEFINE back == DeleteLastChar(Pen)
<1>1. /\ Pen \in Pens /\ level \in Levels /\ Pen.x = pen_x /\ Pen.row = row
      /\ row \in Rows /\ pen_x \in Nat
  BY SixteenBits DEF IInv, LineType, Pen, Pens
<1>2. /\ L \in Nat /\ L > 0 /\ width \in Nat /\ L <= width
      /\ Square \in Nat /\ Square > 0
  BY <1>1, LevelFits
<1>3. /\ back \in Pens
      /\ pen_x = 2 * L => back = Pen
      /\ pen_x # 2 * L /\ pen_x >= L =>
           /\ back.x = pen_x - L
           /\ back.row = [q \in 0 .. width - 1 |->
                IF q \in pen_x - L .. pen_x - L + Square - 1 THEN BLANK ELSE row[q]]
  BY <1>1, DeleteDoes
<1> HIDE DEF back
<1>4. PrintChar(Pen, BACKSPACE) = back
  BY DEF PrintChar, BACKSPACE, back
<1>5. Pen' = back /\ pen_x' = back.x /\ row' = back.row
  BY <1>3, <1>4, PenShown DEF TypesBackspace, Shows
<1>6. /\ level' = level /\ L' = L /\ at = "read" /\ at' = "read"
      /\ home' = home /\ wrapped' = wrapped /\ overflowed' = overflowed
      /\ disturbed' = disturbed
      /\ i \in Indices /\ read_buffer' = read_buffer
      /\ i' = IF i > 0 THEN i - 1 ELSE i
      /\ BUFFER_LENGTH \in Nat
  BY ShellLineAssumption DEF TypesBackspace, PressesKey, L, IInv, LineType, drawHistory
<1>7. LineType'
  <2>1. i' \in Indices
    BY <1>6 DEF Indices
  <2> QED BY <1>3, <1>5, <1>6, <2>1 DEF LineType, IInv
<1>8. ASSUME home', ~wrapped', ~disturbed'
      PROVE  \E n \in Nat : PenBehind(n)'
  <2>1. PICK n \in Nat : PenBehind(n)
    BY <1>6, <1>8 DEF IInv, PenInLine
  <2>2. /\ n >= 2 /\ pen_x = n * L /\ pen_x + L <= width
        /\ \A m \in Nat : m >= n /\ m * L < width => row[m * L] = BLANK
    BY <2>1 DEF PenBehind
  <2>3. CASE n = 2
    <3>1. pen_x' = pen_x /\ row' = row
      BY <1>1, <1>3, <1>5, <2>2, <2>3
    <3>2. ~overflowed => i' = i
      BY <1>6, <2>1, <2>3 DEF PenBehind, LettersShown, Indices
    <3> QED BY <1>6, <2>1, <3>1, <3>2 DEF PenBehind, LettersShown
  <2>4. CASE n > 2
    <3> DEFINE x == pen_x - L
    <3>1. 2 * L + L <= pen_x /\ 2 * L \in Nat
      BY <1>2, <2>2, <2>4, PlacesApart
    <3>2. /\ pen_x' = x
          /\ row' = [q \in 0 .. width - 1 |-> IF q \in x .. x + Square - 1 THEN BLANK ELSE row[q]]
      BY <1>1, <1>2, <1>3, <1>5, <3>1
    <3>3. n - 1 \in Nat /\ n - 1 >= 2 /\ x = (n - 1) * L /\ x \in Nat /\ x + L <= width
      BY <1>2, <2>2, <2>4, <3>1
    <3> HIDE DEF x
    <3>4. \A q \in 0 .. width - 1 : q < x => row'[q] = row[q]
      BY <1>2, <3>2, <3>3
    <3>5. \A k \in Nat : k < n - 1 => k * L \in 0 .. width - 1 /\ k * L < x
      <4>1. ASSUME NEW k \in Nat, k < n - 1
            PROVE  k * L \in Nat /\ k * L + L <= x
        BY <1>2, <3>3, <4>1, PlacesApart
      <4> QED BY <1>2, <3>3, <4>1
    <3>6. ASSUME NEW m \in Nat, m >= n - 1, m * L < width
          PROVE  row'[m * L] = BLANK
      <4>1. CASE m = n - 1
        BY <1>2, <3>2, <3>3, <3>6, <4>1
      <4>2. CASE m # n - 1
        <5>1. m >= n /\ row[m * L] = BLANK /\ m * L \in Nat
          BY <1>2, <2>2, <3>6, <4>2
        <5> QED BY <1>2, <3>2, <3>6, <5>1
      <4> QED BY <4>1, <4>2
    <3>7. ASSUME ~overflowed
          PROVE  LettersShown(n - 1)'
      <4>1. LettersShown(n) /\ n = i + 2 /\ i' = i - 1
        BY <1>6, <2>1, <2>4, <3>7 DEF PenBehind, LettersShown, Indices
      <4>2. row'[0] = "$" /\ row'[L] = ">"
        <5>1. 0 * L = 0 /\ 1 * L = L /\ 0 \in Nat /\ 1 \in Nat
          BY <1>2
        <5>2. 0 \in 0 .. width - 1 /\ 0 < x /\ L \in 0 .. width - 1 /\ L < x
          BY <3>3, <3>5, <5>1
        <5> QED BY <3>4, <4>1, <5>2 DEF LettersShown
      <4>3. ASSUME NEW k \in 0 .. i' - 1
            PROVE  row'[(k + 2) * L] = Drawn(read_buffer[k])
        <5>1. k \in 0 .. i - 1 /\ k + 2 \in Nat /\ k + 2 < n - 1
          BY <1>6, <4>1, <4>3 DEF Indices
        <5> QED BY <3>4, <3>5, <4>1, <5>1 DEF LettersShown
      <4> QED BY <1>6, <4>1, <4>2, <4>3 DEF LettersShown, Indices
    <3>8. PenBehind(n - 1)'
      BY <1>6, <3>2, <3>3, <3>6, <3>7 DEF PenBehind
    <3> QED BY <3>3, <3>8
  <2> QED BY <2>2, <2>3, <2>4
<1> QED BY <1>6, <1>7, <1>8 DEF IInv, PenInLine

(* Enter leaves an empty line.                                             *)
LEMMA EnterIInv ==
  ASSUME IInv, TypesEnter
  PROVE  IInv'
<1>1. Pen \in Pens /\ level \in Levels
  BY DEF IInv, LineType
<1>2. NewLine(Pen) \in Pens /\ NewLine(Pen).x = 0 /\ NewLine(Pen).row = EmptyRow
  BY <1>1, NewLineDoes
<1>3. Shows(NewLine(Pen))
  <2>1. PrintChar(Pen, "newline") = NewLine(Pen)
    BY DEF PrintChar, BACKSPACE
  <2>2. Shows(PrintChar(Pen, "newline"))
    BY DEF TypesEnter
  <2> QED BY <2>1, <2>2
<1>4. Pen' = NewLine(Pen) /\ pen_x' = 0 /\ row' = EmptyRow
  BY <1>2, <1>3, PenShown DEF Shows
<1>5. /\ level' = level /\ at' = "run" /\ i' = i
      /\ home' = FALSE /\ wrapped' = FALSE /\ overflowed' = FALSE /\ disturbed' = FALSE
      /\ read_buffer' = [read_buffer EXCEPT ![i] = NUL]
  BY DEF TypesEnter
<1>6. LineType'
  BY <1>2, <1>4, <1>5 DEF IInv, LineType
<1> QED BY <1>5, <1>6 DEF IInv, PenInLine

(* Whatever is printed, cleared or resized, the pen is above a place for a *)
(* letter of any size.                                                     *)
LEMMA PrintDoes ==
  ASSUME level \in Levels, NEW p \in Pens, NEW c \in {"o", "newline", BACKSPACE}
  PROVE  PrintChar(p, c) \in Pens
<1>1. CASE c = "o"
  <2>1. c \in Glyphs
    BY <1>1 DEF Glyphs
  <2>2. PrintChar(p, c) = Advance(p, c)
    BY <2>1, GlyphsAdvance
  <2>3. Advance(p, c) \in Pens
    BY <2>1, AdvanceDoes
  <2> QED BY <2>2, <2>3
<1>2. CASE c = "newline"
  BY <1>2, NewLineDoes DEF PrintChar, BACKSPACE
<1>3. CASE c = BACKSPACE
  <2>1. PrintChar(p, c) = DeleteLastChar(p)
    BY <1>3 DEF PrintChar, BACKSPACE
  <2> QED BY <2>1, DeleteDoes
<1> QED BY <1>1, <1>2, <1>3

LEMMA DrawType ==
  ASSUME IInv, NEW letters, letters \subseteq {"o", "newline", BACKSPACE}, Draws(letters),
         disturbed' \in BOOLEAN
  PROVE  LineType' /\ at' = at
<1>1. Pen \in Pens /\ level \in Levels
  BY DEF IInv, LineType
<1>2. Pen' \in Pens /\ level' \in Levels
  <2>1. ASSUME NEW l \in Levels, change_font_size(l)
        PROVE  Pen' \in Pens /\ level' \in Levels
    BY <1>1, <2>1 DEF change_font_size, Pen
  <2>2. ASSUME ngc_paint_screen
        PROVE  Pen' \in Pens /\ level' \in Levels
    <3>1. EmptyRow \in Rows /\ 0 \in 0 .. Word - 1 /\ 0 + 3 * CHAR_HEIGHT <= height
      BY <1>1, LevelFits, SixteenBits DEF EmptyRow, Rows, Glyphs
    <3> QED BY <1>1, <2>2, <3>1 DEF ngc_paint_screen, Pen, Pens
  <2>3. ASSUME NEW c \in letters, Shows(PrintChar(Pen, c)), level' = level
        PROVE  Pen' \in Pens /\ level' \in Levels
    <3>1. PrintChar(Pen, c) \in Pens
      BY <1>1, PrintDoes
    <3> QED BY <1>1, <2>3, <3>1, PenShown
  <2> QED BY <2>1, <2>2, <2>3 DEF Draws
<1>3. /\ at' = at /\ i' = i /\ read_buffer' = read_buffer
      /\ home' = home /\ wrapped' = wrapped /\ overflowed' = overflowed
  BY DEF Draws, lineVars, lineHistory
<1> QED BY <1>2, <1>3 DEF IInv, LineType

LEMMA DrawsIInv ==
  ASSUME IInv, ForegroundDraws \/ BackgroundDraws
  PROVE  IInv'
<1>1. CASE ForegroundDraws
  <2>1. disturbed' \in BOOLEAN
    BY <1>1 DEF ForegroundDraws, IInv, LineType
  <2>2. LineType' /\ at' = at /\ at = "run"
    BY <1>1, <2>1, DrawType DEF ForegroundDraws
  <2> QED BY <2>2 DEF IInv, PenInLine
<1>2. CASE BackgroundDraws
  <2>1. disturbed' = (at = "read") /\ disturbed' \in BOOLEAN
    BY <1>2 DEF BackgroundDraws
  <2>2. LineType' /\ at' = at
    BY <1>2, <2>1, DrawType DEF BackgroundDraws
  <2> QED BY <2>1, <2>2 DEF IInv, PenInLine
<1> QED BY <1>1, <1>2

(* The end of a line, with or without a message.                           *)
LEMMA EndIInv ==
  ASSUME IInv, Complains \/ Returns
  PROVE  IInv'
<1>1. Pen \in Pens /\ level \in Levels
  BY DEF IInv, LineType
<1>2. LineEnds
  BY DEF Complains, Returns
<1>3. Pen' \in Pens /\ level' = level
  <2>1. CASE Complains
    <3> DEFINE s == <<"o", "newline">>
    <3>1. Len(s) = 2 /\ s[1] = "o" /\ s[2] = "newline"
      OBVIOUS
    <3> HIDE DEF s
    <3>2. Printed(Pen, s) = PrintChar(PrintChar(Pen, "o"), "newline")
      BY <3>1, PrintedTwo
    <3>3. PrintChar(Pen, "o") \in Pens
      BY <1>1, PrintDoes
    <3>4. Printed(Pen, s) \in Pens
      BY <1>1, <3>2, <3>3, PrintDoes
    <3>5. Shows(Printed(Pen, s)) /\ level' = level
      BY <2>1 DEF Complains, s
    <3> QED BY <3>4, <3>5, PenShown
  <2>2. CASE Returns
    BY <1>1, <2>2 DEF Returns, consoleVars, Pen
  <2> QED BY <2>1, <2>2
<1>4. /\ at' = "prompt" /\ i' = 0 /\ read_buffer' = EmptyBuffer
      /\ home' = home /\ wrapped' = wrapped /\ overflowed' = overflowed
      /\ disturbed' = disturbed
  BY <1>2 DEF LineEnds, drawHistory
<1>5. 0 \in Indices /\ EmptyBuffer \in [Indices -> Letters \cup {NUL}]
  BY ShellLineAssumption DEF Indices, EmptyBuffer
<1>6. LineType'
  BY <1>1, <1>3, <1>4, <1>5 DEF IInv, LineType
<1> QED BY <1>4, <1>6 DEF IInv, PenInLine

-----------------------------------------------------------------------------
LEMMA InitIInv == Init => IInv
<1> SUFFICES ASSUME Init
             PROVE  IInv
  OBVIOUS
<1>1. /\ pen_x = 0 /\ pen_y = 0 /\ level = 1 /\ row = EmptyRow /\ level \in Levels
  BY ConsoleAssumption DEF Init, ConsoleInit
<1>2. /\ L \in Nat /\ L <= width /\ 3 * CHAR_HEIGHT <= height /\ CHAR_HEIGHT \in Nat
      /\ height \in Nat
  BY <1>1, LevelFits
<1>3. Pen \in Pens
  <2>1. EmptyRow \in Rows /\ 0 \in 0 .. Word - 1
    BY SixteenBits DEF EmptyRow, Rows, Glyphs
  <2> QED BY <1>1, <1>2, <2>1 DEF Pen, Pens
<1>4. 0 \in Indices /\ EmptyBuffer \in [Indices -> Letters \cup {NUL}]
  BY ShellLineAssumption DEF Indices, EmptyBuffer
<1>5. LineType
  BY <1>1, <1>3, <1>4 DEF LineType, Init
<1> QED BY <1>1, <1>2, <1>5 DEF IInv, PenInLine, Init

LEMMA NextIInv == IInv /\ [Next]_vars => IInv'
<1> SUFFICES ASSUME IInv, [Next]_vars
             PROVE  IInv'
  OBVIOUS
<1>1. CASE PrintsPrompt
  BY <1>1, PromptIInv
<1>2. ASSUME NEW c \in Letters, TypesLetter(c)
      PROVE  IInv'
  BY <1>2, LetterIInv
<1>3. CASE TypesBackspace
  BY <1>3, BackspaceIInv
<1>4. CASE TypesEnter
  BY <1>4, EnterIInv
<1>5. CASE Complains \/ Returns
  BY <1>5, EndIInv
<1>6. CASE ForegroundDraws \/ BackgroundDraws
  BY <1>6, DrawsIInv
<1>7. CASE BackgroundEnds \/ UNCHANGED vars
  <2>1. /\ pen_x' = pen_x /\ pen_y' = pen_y /\ level' = level /\ row' = row
        /\ at' = at /\ read_buffer' = read_buffer /\ i' = i
        /\ home' = home /\ wrapped' = wrapped /\ overflowed' = overflowed
        /\ disturbed' = disturbed
    BY <1>7 DEF BackgroundEnds, vars, consoleVars, lineVars, lineHistory, drawHistory
  <2>2. Pen' = Pen /\ L' = L
    BY <2>1 DEF Pen, L
  <2>3. LineType'
    BY <2>1, <2>2 DEF IInv, LineType
  <2>4. PenInLine'
    BY <2>1, <2>2 DEF IInv, PenInLine, PenBehind, LettersShown
  <2> QED BY <2>3, <2>4 DEF IInv
<1> QED BY <1>1, <1>2, <1>3, <1>4, <1>5, <1>6, <1>7 DEF Next

LEMMA LineInductive == Spec => []IInv
BY InitIInv, NextIInv, PTL DEF Spec

(* Whatever the screen, the font sizes and the order of letters,           *)
(* backspaces, long lines and programs, in the foreground and in the       *)
(* background, the pen is above a place for a letter of any size, and left *)
(* of one while an undisturbed line is typed that has not wrapped          *)
(* (naive_graphics_console.c:188, 203, 259-266, shell.c:187-189).          *)
THEOREM PenStaysOnScreen == Spec => []PenOnScreen
<1>1. IInv => PenOnScreen
  <2> SUFFICES ASSUME IInv
               PROVE  PenOnScreen
    OBVIOUS
  <2>1. pen_y + 3 * CHAR_HEIGHT <= height
    BY DEF IInv, LineType, Pen, Pens
  <2>2. ASSUME at = "read", home, ~wrapped, ~disturbed
        PROVE  pen_x + L <= width
    BY <2>2 DEF IInv, PenInLine, PenBehind
  <2> QED BY <2>1, <2>2 DEF PenOnScreen, L
<1> QED BY <1>1, LineInductive, PTL

(* Behind the prompt the screen shows the letters of the buffer, at every  *)
(* font size and on every screen, however they were corrected, while no    *)
(* background program draws (inout.c:47-59,                                *)
(* naive_graphics_console.c:187, 259-266).                                 *)
THEOREM ScreenAgreesWithBuffer == Spec => []ScreenShowsLine
<1>1. IInv => ScreenShowsLine
  <2> SUFFICES ASSUME IInv, at = "read", home, ~wrapped, ~overflowed, ~disturbed
               PROVE  /\ row[0 * CHAR_WIDTH * level] = "$"
                      /\ row[1 * CHAR_WIDTH * level] = ">"
                      /\ \A k \in 0 .. i - 1 :
                           row[(k + 2) * CHAR_WIDTH * level] = Drawn(read_buffer[k])
                      /\ pen_x = (i + 2) * CHAR_WIDTH * level
    BY DEF ScreenShowsLine
  <2>1. PICK n \in Nat : pen_x = n * L /\ LettersShown(n)
    BY DEF IInv, PenInLine, PenBehind
  <2>2. CHAR_WIDTH \in Nat /\ level \in Nat /\ i \in Nat
    BY ConsoleAssumption, ShellLineAssumption DEF IInv, LineType, Indices
  <2>3. \A k \in Nat : k * CHAR_WIDTH * level = k * L
    BY <2>2 DEF L
  <2>4. 0 * CHAR_WIDTH * level = 0 /\ 1 * CHAR_WIDTH * level = L
    BY <2>2 DEF L
  <2>5. pen_x = (i + 2) * CHAR_WIDTH * level
    BY <2>1, <2>2, <2>3 DEF LettersShown
  <2>6. \A k \in 0 .. i - 1 : (k + 2) * CHAR_WIDTH * level = (k + 2) * L
    BY <2>2, <2>3
  <2> QED BY <2>1, <2>4, <2>5, <2>6 DEF LettersShown
<1> QED BY <1>1, LineInductive, PTL

-----------------------------------------------------------------------------
(* The words of a line.  A line b of n letters ends with a 0 and nothing   *)
(* but 0s is behind it.                                                    *)
Typed(b, n) ==
  /\ n \in Indices
  /\ \A k \in Indices : (b[k] = NUL) <=> k >= n

IsStart(b, j) == b[j] # BLANK /\ (j = 0 \/ b[j - 1] = BLANK)
Starts(b, k) == {j \in 0 .. k - 1 : IsStart(b, j)}
Before(b, k) == Cardinality(Starts(b, k))
End(b, s) == First({j \in Indices : j >= s /\ b[j] \in {BLANK, NUL}})

(* The start of word m, and what is known of a word that starts at s after *)
(* k letters.                                                              *)
Nth(b, m) == CHOOSE s \in Indices : IsStart(b, s) /\ Before(b, s) = m - 1
Stop(b, s, k) == IF End(b, s) <= k THEN End(b, s) ELSE k
Piece(b, s, k) == [q \in 1 .. Stop(b, s, k) - s |-> b[s + q - 1]]

LEMMA FirstIn ==
  ASSUME NEW S \in SUBSET Nat, S # {}
  PROVE  First(S) \in S /\ \A j \in S : First(S) <= j
<1> DEFINE R == OpToRel(<, Nat)
<1>1. IsWellFoundedOn(R, Nat)
  BY NatLessThanWellFounded, Zenon
<1>2. R = {ss \in Nat \X Nat : ss[1] < ss[2]}
  BY DEF OpToRel
<1> HIDE DEF R
<1>3. PICK x \in S : \A y \in S : <<y, x>> \notin R
  BY <1>1, WFMin, Zenon
<1>4. ASSUME NEW y \in S
      PROVE  x <= y
  <2>1. <<y, x>> \in Nat \X Nat
    OBVIOUS
  <2>2. ~(y < x)
    BY <2>1, <1>2, <1>3
  <2> QED BY <2>2
<1> QED BY <1>4 DEF First

LEMMA Symbols == BLANK # NUL
BY DEF BLANK, NUL

LEMMA LineOf ==
  ASSUME NEW b, NEW n, Typed(b, n)
  PROVE  /\ n \in Nat /\ n \in Indices /\ b[n] = NUL /\ b[n] # BLANK
         /\ Indices \subseteq Nat
         /\ \A k \in 0 .. n : k \in Indices
         /\ \A k \in 0 .. n - 1 : k \in Indices /\ b[k] # NUL
         /\ \A k \in Indices : k >= n => b[k] = NUL /\ b[k] # BLANK
<1>1. /\ BUFFER_LENGTH \in Nat /\ n \in Indices /\ Indices = 0 .. BUFFER_LENGTH - 1
      /\ BLANK # NUL
  BY ShellLineAssumption, Symbols DEF Typed, Indices
<1> QED BY <1>1 DEF Typed

LEMMA EndIs ==
  ASSUME NEW b, NEW n, Typed(b, n), NEW s \in 0 .. n
  PROVE  /\ End(b, s) \in s .. n
         /\ b[End(b, s)] = BLANK \/ (End(b, s) = n /\ b[n] = NUL)
         /\ End(b, s) < n => b[End(b, s)] = BLANK
         /\ \A j \in s .. End(b, s) - 1 : b[j] # BLANK /\ b[j] # NUL
<1> DEFINE S == {j \in Indices : j >= s /\ b[j] \in {BLANK, NUL}}
<1>1. /\ n \in Nat /\ n \in Indices /\ b[n] = NUL /\ Indices \subseteq Nat
      /\ \A k \in 0 .. n : k \in Indices
      /\ \A k \in 0 .. n - 1 : b[k] # NUL
  BY LineOf
<1>2. n \in S /\ S \in SUBSET Nat
  <2>1. n >= s /\ b[n] \in {BLANK, NUL}
    BY <1>1
  <2> QED BY <1>1, <2>1
<1>3. End(b, s) \in S /\ \A j \in S : End(b, s) <= j
  <2>1. First(S) \in S /\ \A j \in S : First(S) <= j
    <3> HIDE DEF S
    <3> QED BY <1>2, FirstIn
  <2> QED BY <2>1 DEF End
<1> DEFINE e == End(b, s)
<1> HIDE DEF e
<1>4. e \in S /\ \A j \in S : e <= j
  BY <1>3 DEF e
<1>5. e \in s .. n
  BY <1>1, <1>2, <1>4
<1>6. ASSUME NEW j \in s .. e - 1 PROVE b[j] # BLANK /\ b[j] # NUL
  BY <1>1, <1>4, <1>5
<1>7. e < n => b[e] = BLANK
  BY <1>1, <1>4, <1>5
<1>8. e = n => b[e] = NUL
  BY <1>1
<1>9. e = End(b, s)
  BY DEF e
<1> QED BY <1>1, <1>5, <1>6, <1>7, <1>8, <1>9

(* Counting the starts.                                                    *)
LEMMA Counting ==
  ASSUME NEW b, NEW k \in Nat
  PROVE  /\ Before(b, k) \in Nat /\ IsFiniteSet(Starts(b, k))
         /\ Before(b, k + 1) = Before(b, k) + (IF IsStart(b, k) THEN 1 ELSE 0)
         /\ Starts(b, k + 1) = Starts(b, k) \cup (IF IsStart(b, k) THEN {k} ELSE {})
<1>1. IsFiniteSet(0 .. k - 1)
  BY FS_Interval
<1>2. IsFiniteSet(Starts(b, k))
  BY <1>1, FS_Subset DEF Starts
<1>3. Before(b, k) \in Nat
  BY <1>2, FS_CardinalityType DEF Before
<1>4. Starts(b, k + 1) = Starts(b, k) \cup (IF IsStart(b, k) THEN {k} ELSE {})
  <2>1. \A j : j \in 0 .. (k + 1) - 1 <=> (j \in 0 .. k - 1 \/ j = k)
    OBVIOUS
  <2> QED BY <2>1 DEF Starts
<1>5. k \notin Starts(b, k)
  BY DEF Starts
<1>6. CASE IsStart(b, k)
  <2>1. Starts(b, k + 1) = Starts(b, k) \cup {k}
    BY <1>4, <1>6
  <2> QED BY <1>2, <1>3, <1>4, <1>5, <1>6, <2>1, FS_AddElement DEF Before
<1>7. CASE ~IsStart(b, k)
  BY <1>2, <1>3, <1>4, <1>7 DEF Before
<1> QED BY <1>6, <1>7

LEMMA CountGrows ==
  ASSUME NEW b, NEW k \in Nat, NEW m \in Nat, k <= m
  PROVE  Before(b, k) <= Before(b, m) /\ Starts(b, k) \subseteq Starts(b, m)
<1>1. Starts(b, k) \subseteq Starts(b, m)
  BY DEF Starts
<1>2. IsFiniteSet(Starts(b, m))
  BY Counting
<1> QED BY <1>1, <1>2, FS_Subset DEF Before

(* Each start has a place of its own in the count.                         *)
LEMMA StartsApart ==
  ASSUME NEW b, NEW s \in Nat, NEW t \in Nat, IsStart(b, s), s < t
  PROVE  Before(b, s) + 1 <= Before(b, t)
<1>1. Before(b, s + 1) = Before(b, s) + 1 /\ Before(b, s) \in Nat /\ Before(b, t) \in Nat
  BY Counting
<1>2. s + 1 \in Nat /\ s + 1 <= t
  OBVIOUS
<1>3. Before(b, s + 1) <= Before(b, t)
  BY <1>2, CountGrows
<1> QED BY <1>1, <1>3

LEMMA NthIs ==
  ASSUME NEW b, NEW s \in Indices, IsStart(b, s)
  PROVE  Nth(b, Before(b, s) + 1) = s
<1>1. Indices \subseteq Nat
  BY ShellLineAssumption DEF Indices
<1>2. Before(b, s) \in Nat /\ (Before(b, s) + 1) - 1 = Before(b, s)
  BY <1>1, Counting
<1> DEFINE t == Nth(b, Before(b, s) + 1)
<1>3. t \in Indices /\ IsStart(b, t) /\ Before(b, t) = Before(b, s)
  BY <1>2 DEF Nth
<1> HIDE DEF t
<1>4. ~(s < t)
  BY <1>1, <1>2, <1>3, StartsApart
<1>5. ~(t < s)
  BY <1>1, <1>2, <1>3, StartsApart
<1>6. t = s
  BY <1>1, <1>3, <1>4, <1>5
<1> QED BY <1>6 DEF t

(* The m-th of the starts before k is one of them.                         *)
LEMMA NthStarts ==
  ASSUME NEW b, NEW n, Typed(b, n), NEW k \in 0 .. n, NEW m \in 1 .. Before(b, k)
  PROVE  /\ Nth(b, m) \in 0 .. k - 1 /\ IsStart(b, Nth(b, m))
         /\ Before(b, Nth(b, m)) = m - 1
<1>1. /\ n \in Nat /\ \A l \in 0 .. n : l \in Indices
      /\ Before(b, k) \in Nat
  BY LineOf, Counting
<1> DEFINE S == {l \in 0 .. k : Before(b, l) >= m}
<1>2. k \in S /\ S \in SUBSET Nat
  BY <1>1
<1>3. PICK l \in S : \A j \in S : l <= j
  <2> HIDE DEF S
  <2> QED BY <1>2, FirstIn
<1>4. l # 0
  <2>1. Before(b, 0) = 0
    <3>1. Starts(b, 0) = {}
      BY DEF Starts
    <3> QED BY <3>1, FS_EmptySet DEF Before
  <2> QED BY <1>3, <2>1
<1> DEFINE s == l - 1
<1>5. s \in Nat /\ s \in 0 .. k - 1 /\ s + 1 = l /\ s \in Indices
  BY <1>1, <1>4
<1>6. s \notin S
  <2>1. l \in Nat
    BY <1>2
  <2> QED BY <1>3, <2>1
<1> HIDE DEF s
<1>7. Before(b, s) < m /\ Before(b, s) \in Nat
  BY <1>1, <1>5, <1>6, Counting
<1>8. Before(b, l) >= m
  BY <1>3
<1>9. IsStart(b, s) /\ Before(b, s) = m - 1
  <2>1. Before(b, s + 1) = Before(b, s) + (IF IsStart(b, s) THEN 1 ELSE 0)
    BY <1>5, Counting
  <2> QED BY <1>5, <1>7, <1>8, <2>1
<1>10. Nth(b, Before(b, s) + 1) = s
  BY <1>5, <1>9, NthIs
<1>11. Before(b, s) + 1 = m
  BY <1>9
<1> QED BY <1>5, <1>9, <1>10, <1>11

-----------------------------------------------------------------------------
(* Reading a line from left to right.                                      *)

(* Before a letter that is no blank stands the start of its word.          *)
LEMMA StartOf ==
  ASSUME NEW b, NEW k \in Nat, NEW from \in 0 .. k, b[k] # BLANK,
         from = 0 \/ b[from - 1] = BLANK
  PROVE  \E j \in from .. k : IsStart(b, j) /\ \A l \in j .. k : b[l] # BLANK
<1> DEFINE S == {j \in from .. k : \A l \in j .. k : b[l] # BLANK}
<1>1. k \in S /\ S \in SUBSET Nat
  OBVIOUS
<1>2. PICK j \in S : \A l \in S : j <= l
  <2> HIDE DEF S
  <2> QED BY <1>1, FirstIn
<1>3. j \in from .. k /\ \A l \in j .. k : b[l] # BLANK
  BY <1>2
<1>4. ASSUME j # from
      PROVE  b[j - 1] = BLANK
  <2>1. j - 1 \in from .. k /\ ~(j <= j - 1)
    BY <1>3, <1>4
  <2>2. j - 1 \notin S
    BY <1>2, <2>1
  <2>3. PICK l \in j - 1 .. k : b[l] = BLANK
    BY <2>1, <2>2
  <2>4. l = j - 1
    BY <1>3, <2>3
  <2> QED BY <2>3, <2>4
<1>5. IsStart(b, j)
  <2>1. b[j] # BLANK
    BY <1>3
  <2>2. j = 0 \/ b[j - 1] = BLANK
    BY <1>4
  <2> QED BY <2>1, <2>2 DEF IsStart
<1> QED BY <1>3, <1>5

(* A word that has not ended by k holds every letter from its start to k,  *)
(* and is the last one; behind the end of a word and before a letter       *)
(* another one has begun.                                                  *)
LEMMA LastWord ==
  ASSUME NEW b, NEW n, Typed(b, n), NEW k \in 1 .. n, NEW s \in 0 .. k - 1,
         IsStart(b, s), b[k - 1] # BLANK
  PROVE  /\ End(b, s) >= k => Before(b, k) = Before(b, s) + 1
         /\ End(b, s) < k => Before(b, k) > Before(b, s) + 1
<1>1. /\ n \in Nat /\ Indices \subseteq Nat
      /\ \A l \in 0 .. n : l \in Indices
      /\ s \in 0 .. n
  BY LineOf
<1>2. /\ End(b, s) \in s .. n
      /\ End(b, s) < n => b[End(b, s)] = BLANK
      /\ \A j \in s .. End(b, s) - 1 : b[j] # BLANK
  BY <1>1, EndIs
<1> DEFINE e == End(b, s)
<1> HIDE DEF e
<1>3. e \in s .. n /\ (e < n => b[e] = BLANK) /\ \A j \in s .. e - 1 : b[j] # BLANK
  BY <1>2 DEF e
<1>4. Before(b, s + 1) = Before(b, s) + 1 /\ Before(b, s) \in Nat
  BY Counting
<1>5. ASSUME e >= k
      PROVE  Before(b, k) = Before(b, s) + 1
  <2>1. \A j \in s + 1 .. k - 1 : ~IsStart(b, j)
    <3> SUFFICES ASSUME NEW j \in s + 1 .. k - 1
                 PROVE  ~(j = 0 \/ b[j - 1] = BLANK)
      BY DEF IsStart
    <3>1. j - 1 \in s .. e - 1 /\ j # 0
      BY <1>3, <1>5
    <3> QED BY <1>3, <3>1
  <2>2. Starts(b, k) = Starts(b, s + 1)
    BY <2>1 DEF Starts
  <2> QED BY <1>4, <2>2 DEF Before
<1>6. ASSUME e < k
      PROVE  Before(b, k) > Before(b, s) + 1
  <2>1. b[e] = BLANK /\ e \in 0 .. k - 1 /\ e # k - 1 /\ (e + 1) - 1 = e
    BY <1>1, <1>3, <1>6
  <2>2. e + 1 \in 0 .. k - 1 /\ k - 1 \in Nat
    BY <2>1
  <2>3. PICK j \in e + 1 .. k - 1 : IsStart(b, j)
    BY <2>1, <2>2, StartOf
  <2>4. j \in Nat /\ s < j /\ j < k
    BY <1>3, <2>2
  <2>5. Before(b, s) + 1 <= Before(b, j) /\ Before(b, j) + 1 <= Before(b, k)
    BY <2>3, <2>4, StartsApart
  <2> QED BY <1>4, <2>4, <2>5, Counting
<1> QED BY <1>5, <1>6 DEF e

(* What is known of the word that starts at s, one letter further on.      *)
LEMMA PieceGrows ==
  ASSUME NEW b, NEW n, Typed(b, n), NEW k \in 1 .. n, NEW s \in 0 .. k - 1, IsStart(b, s)
  PROVE  /\ b[k - 1] = BLANK => Piece(b, s, k) = Piece(b, s, k - 1)
         /\ End(b, s) < k => Piece(b, s, k) = Piece(b, s, k - 1)
         /\ End(b, s) >= k =>
              /\ Stop(b, s, k) = k /\ Stop(b, s, k - 1) = k - 1
<1>1. n \in Nat /\ s \in 0 .. n
  BY LineOf
<1>2. End(b, s) \in s .. n /\ \A j \in s .. End(b, s) - 1 : b[j] # BLANK
  BY <1>1, EndIs
<1>3. b[k - 1] = BLANK => End(b, s) < k
  BY <1>2
<1>4. End(b, s) < k => Stop(b, s, k) = Stop(b, s, k - 1)
  BY <1>2 DEF Stop
<1>5. End(b, s) >= k => Stop(b, s, k) = k /\ Stop(b, s, k - 1) = k - 1
  BY <1>2 DEF Stop
<1> QED BY <1>3, <1>4, <1>5 DEF Piece

(* The words of the first k letters, and whether the last one may go on.   *)
Read(b, k) ==
  [words |-> [m \in 1 .. Before(b, k) |-> Piece(b, Nth(b, m), k)],
   open |-> k > 0 /\ b[k - 1] # BLANK]

ReadStep(before, c) ==
  LET last == Len(before.words)
  IN  IF c = BLANK
        THEN [before EXCEPT !.open = FALSE]
      ELSE IF before.open
        THEN [before EXCEPT !.words[last] = Append(@, c)]
      ELSE [words |-> Append(before.words, <<c>>), open |-> TRUE]

LEMMA ReadNothing ==
  ASSUME NEW b
  PROVE  Read(b, 0) = [words |-> <<>>, open |-> FALSE]
<1>1. Starts(b, 0) = {}
  BY DEF Starts
<1>2. Before(b, 0) = 0
  BY <1>1, FS_EmptySet DEF Before
<1>3. [m \in 1 .. Before(b, 0) |-> Piece(b, Nth(b, m), 0)] = <<>>
  BY <1>2
<1>4. (0 > 0 /\ b[0 - 1] # BLANK) = FALSE
  OBVIOUS
<1> QED BY <1>3, <1>4, Zenon DEF Read

Symbol(b) == {b[j] : j \in Indices}

LEMMA PieceIs ==
  ASSUME NEW b, NEW n, Typed(b, n), NEW k \in 0 .. n, NEW s \in 0 .. n, s <= k
  PROVE  /\ Piece(b, s, k) \in Seq(Symbol(b))
         /\ Len(Piece(b, s, k)) = Stop(b, s, k) - s /\ Stop(b, s, k) \in s .. k
         /\ \A q \in 1 .. Stop(b, s, k) - s : Piece(b, s, k)[q] = b[s + q - 1]
<1>1. n \in Nat /\ \A l \in 0 .. n - 1 : l \in Indices
  BY LineOf
<1>2. Stop(b, s, k) \in s .. k
  BY EndIs DEF Stop
<1> DEFINE l == Stop(b, s, k) - s
<1>3. l \in Nat /\ Piece(b, s, k) = [q \in 1 .. l |-> b[s + q - 1]]
  BY <1>2 DEF Piece
<1>4. \A q \in 1 .. l : s + q - 1 \in Indices
  BY <1>1, <1>2
<1> HIDE DEF l
<1>5. Piece(b, s, k) \in [1 .. l -> Symbol(b)]
  BY <1>3, <1>4 DEF Symbol
<1>6. Piece(b, s, k) \in Seq(Symbol(b))
  BY <1>3, <1>5, SeqDef
<1>7. Len(Piece(b, s, k)) = l
  BY <1>3
<1>8. \A q \in 1 .. l : Piece(b, s, k)[q] = b[s + q - 1]
  BY <1>3
<1> QED BY <1>2, <1>6, <1>7, <1>8 DEF l

(* The next letter of a word.                                              *)
LEMMA PieceAppends ==
  ASSUME NEW b, NEW n, Typed(b, n), NEW k \in 1 .. n, NEW s \in 0 .. k - 1,
         End(b, s) >= k
  PROVE  /\ Piece(b, s, k) = Append(Piece(b, s, k - 1), b[k - 1])
         /\ s = k - 1 => Piece(b, s, k) = <<b[k - 1]>>
<1>1. n \in Nat /\ \A l \in 0 .. n - 1 : l \in Indices
  BY LineOf
<1>2. s \in 0 .. n /\ k \in 0 .. n /\ k - 1 \in 0 .. n /\ s <= k /\ s <= k - 1
  BY <1>1
<1>3. Stop(b, s, k) = k /\ Stop(b, s, k - 1) = k - 1
  BY <1>1, <1>2, EndIs DEF Stop
<1>4. /\ Piece(b, s, k) \in Seq(Symbol(b)) /\ Len(Piece(b, s, k)) = k - s
      /\ \A q \in 1 .. k - s : Piece(b, s, k)[q] = b[s + q - 1]
  <2>1. /\ Piece(b, s, k) \in Seq(Symbol(b)) /\ Len(Piece(b, s, k)) = Stop(b, s, k) - s
        /\ \A q \in 1 .. Stop(b, s, k) - s : Piece(b, s, k)[q] = b[s + q - 1]
    BY <1>2, PieceIs
  <2> QED BY <1>3, <2>1
<1>5. /\ Piece(b, s, k - 1) \in Seq(Symbol(b)) /\ Len(Piece(b, s, k - 1)) = k - 1 - s
      /\ \A q \in 1 .. k - 1 - s : Piece(b, s, k - 1)[q] = b[s + q - 1]
  <2>1. ASSUME NEW j \in 0 .. n, s <= j
        PROVE  /\ Piece(b, s, j) \in Seq(Symbol(b)) /\ Len(Piece(b, s, j)) = Stop(b, s, j) - s
               /\ \A q \in 1 .. Stop(b, s, j) - s : Piece(b, s, j)[q] = b[s + q - 1]
    BY <1>2, <2>1, PieceIs
  <2> QED BY <1>2, <1>3, <2>1
<1>6. b[k - 1] \in Symbol(b)
  BY <1>1 DEF Symbol
<1> DEFINE x == Piece(b, s, k)
           y == Piece(b, s, k - 1)
           z == Append(y, b[k - 1])
<1> HIDE DEF x, y
<1>7. /\ z \in Seq(Symbol(b)) /\ Len(z) = k - s
      /\ \A q \in 1 .. k - 1 - s : z[q] = y[q]
      /\ z[k - s] = b[k - 1]
  <2>1. /\ y \in Seq(Symbol(b)) /\ Len(y) = k - 1 - s
    BY <1>5 DEF y
  <2>2. (k - 1 - s) + 1 = k - s
    BY <1>2
  <2> QED BY <1>6, <2>1, <2>2, AppendProperties
<1> HIDE DEF z
<1>8. \A q \in 1 .. k - s : x[q] = z[q]
  <2> TAKE q \in 1 .. k - s
  <2>1. x[q] = b[s + q - 1]
    BY <1>4 DEF x
  <2>2. CASE q = k - s
    <3>1. s + q - 1 = k - 1
      BY <1>2, <2>2
    <3> QED BY <1>7, <2>1, <2>2, <3>1
  <2>3. CASE q # k - s
    <3>1. q \in 1 .. k - 1 - s
      BY <1>2, <2>3
    <3>2. y[q] = b[s + q - 1]
      BY <1>5, <3>1 DEF y
    <3> QED BY <1>7, <2>1, <3>1, <3>2
  <2> QED BY <2>2, <2>3
<1>9. x = z
  <2>1. x \in Seq(Symbol(b)) /\ Len(x) = k - s
    BY <1>4 DEF x
  <2> QED BY <1>7, <1>8, <2>1, SeqEqual
<1>10. ASSUME s = k - 1
       PROVE  x = <<b[k - 1]>>
  <2>1. x \in Seq(Symbol(b)) /\ Len(x) = 1 /\ x[1] = b[k - 1]
    <3>1. k - s = 1 /\ s + 1 - 1 = k - 1 /\ 1 \in 1 .. 1
      BY <1>2, <1>10
    <3> QED BY <1>4, <3>1 DEF x
  <2>2. x = [q \in 1 .. 1 |-> x[q]]
    <3>1. x \in [1 .. Len(x) -> Symbol(b)]
      BY <2>1, LenProperties
    <3> QED BY <2>1, <3>1
  <2>3. \A q \in 1 .. 1 : q = 1
    OBVIOUS
  <2> QED BY <2>1, <2>2, <2>3
<1> QED BY <1>9, <1>10 DEF x, y, z

(* What has been read by k, and its words.                                 *)
LEMMA ReadType ==
  ASSUME NEW b, NEW n, Typed(b, n), NEW k \in 0 .. n
  PROVE  /\ Before(b, k) \in Nat
         /\ Read(b, k).words \in Seq(Seq(Symbol(b)))
         /\ Len(Read(b, k).words) = Before(b, k)
         /\ \A m \in 1 .. Before(b, k) : Read(b, k).words[m] = Piece(b, Nth(b, m), k)
<1>1. n \in Nat /\ k \in Nat /\ Before(b, k) \in Nat
  BY LineOf, Counting
<1> DEFINE W == [m \in 1 .. Before(b, k) |-> Piece(b, Nth(b, m), k)]
<1>2. Read(b, k).words = W
  BY DEF Read
<1>3. \A m \in 1 .. Before(b, k) : Piece(b, Nth(b, m), k) \in Seq(Symbol(b))
  <2> TAKE m \in 1 .. Before(b, k)
  <2>1. Nth(b, m) \in 0 .. k - 1
    BY NthStarts
  <2>2. Nth(b, m) \in 0 .. n /\ Nth(b, m) <= k
    BY <1>1, <2>1
  <2> QED BY <2>2, PieceIs
<1>4. W \in [1 .. Before(b, k) -> Seq(Symbol(b))]
  BY <1>3
<1>5. W \in Seq(Seq(Symbol(b)))
  <2> HIDE DEF W
  <2> QED BY <1>1, <1>4, SeqDef
<1> QED BY <1>1, <1>2, <1>5

LEMMA Records ==
  ASSUME NEW r, NEW w, NEW o, r = [words |-> w, open |-> o], NEW m, NEW v
  PROVE  /\ [r EXCEPT !.open = FALSE] = [words |-> w, open |-> FALSE]
         /\ [r EXCEPT !.words[m] = v] = [words |-> [w EXCEPT ![m] = v], open |-> o]
         /\ r.words = w
<1>1. \A x : [r EXCEPT !.open = x] = [words |-> w, open |-> x]
  OBVIOUS
<1>2. [r EXCEPT !.words[m] = v] = [words |-> [w EXCEPT ![m] = v], open |-> o]
  <2>1. [r EXCEPT !.words[m] = v] = [r EXCEPT !.words = [r.words EXCEPT ![m] = v]]
    OBVIOUS
  <2>2. r.words = w
    OBVIOUS
  <2>3. \A x : [r EXCEPT !.words = x] = [words |-> x, open |-> o]
    OBVIOUS
  <2> QED BY <2>1, <2>2, <2>3
<1>3. r.words = w
  OBVIOUS
<1> QED BY <1>1, <1>2, <1>3, Zenon

(* The words of k letters are those of k - 1 letters and the next one.     *)
LEMMA ReadOn ==
  ASSUME NEW b, NEW n, Typed(b, n), NEW k \in 1 .. n
  PROVE  Read(b, k) = ReadStep(Read(b, k - 1), b[k - 1])
<1> DEFINE before == Read(b, k - 1)
           c == b[k - 1]
           W == before.words
           X == Read(b, k).words
           N == Before(b, k - 1)
           T == Seq(Symbol(b))
<1>1. /\ n \in Nat /\ k \in 0 .. n /\ k - 1 \in 0 .. n /\ k - 1 \in Nat /\ k - 1 + 1 = k
      /\ k - 1 \in Indices /\ k > 0
  BY LineOf
<1>2. /\ N \in Nat /\ W \in Seq(T) /\ Len(W) = N
      /\ \A m \in 1 .. N : W[m] = Piece(b, Nth(b, m), k - 1)
  BY <1>1, ReadType
<1>3. /\ Before(b, k) \in Nat /\ X \in Seq(T) /\ Len(X) = Before(b, k)
      /\ \A m \in 1 .. Before(b, k) : X[m] = Piece(b, Nth(b, m), k)
  BY <1>1, ReadType
<1>4. before = [words |-> W, open |-> before.open] /\ Read(b, k) = [words |-> X, open |-> c # BLANK]
  <2>1. (k > 0 /\ c # BLANK) = (c # BLANK)
    BY <1>1
  <2> QED BY <2>1, Zenon DEF Read
<1>5. before.open <=> k - 1 > 0 /\ b[k - 1 - 1] # BLANK
  BY DEF Read
<1>6. Before(b, k) = N + (IF IsStart(b, k - 1) THEN 1 ELSE 0)
  BY <1>1, Counting
<1>7. ASSUME NEW m \in 1 .. N
      PROVE  /\ Nth(b, m) \in 0 .. (k - 1) - 1 /\ Nth(b, m) \in 0 .. k - 1
             /\ IsStart(b, Nth(b, m)) /\ Before(b, Nth(b, m)) = m - 1
  <2>1. /\ Nth(b, m) \in 0 .. (k - 1) - 1
        /\ IsStart(b, Nth(b, m)) /\ Before(b, Nth(b, m)) = m - 1
    BY <1>1, NthStarts
  <2> QED BY <1>1, <2>1
<1> HIDE DEF before, W, X, N, c, T
<1>8. CASE c = BLANK
  <2>1. Before(b, k) = N
    BY <1>2, <1>6, <1>8 DEF IsStart, c
  <2>2. \A m \in 1 .. N : X[m] = W[m]
    <3> TAKE m \in 1 .. N
    <3>1. Piece(b, Nth(b, m), k) = Piece(b, Nth(b, m), k - 1)
      BY <1>1, <1>7, <1>8, PieceGrows DEF c
    <3> QED BY <1>2, <1>3, <2>1, <3>1
  <2>3. X = W
    BY <1>2, <1>3, <2>1, <2>2, SeqEqual
  <2>4. ReadStep(before, c) = [before EXCEPT !.open = FALSE]
    BY <1>8 DEF ReadStep
  <2>5. [before EXCEPT !.open = FALSE] = [words |-> W, open |-> FALSE]
    BY <1>4, Records
  <2>6. (c # BLANK) = FALSE
    BY <1>8
  <2>7. Read(b, k) = [words |-> W, open |-> FALSE]
    BY <1>4, <2>3, <2>6
  <2> QED BY <2>4, <2>5, <2>7 DEF before, c
<1>9. CASE c # BLANK /\ before.open
  <2>1. k - 1 > 0 /\ b[k - 1 - 1] # BLANK /\ k - 1 - 1 \in Nat /\ k - 1 \in 1 .. n
    BY <1>1, <1>5, <1>9
  <2>2. Before(b, k) = N
    <3>1. ~IsStart(b, k - 1)
      BY <2>1 DEF IsStart
    <3> QED BY <1>2, <1>6, <3>1
  <2>3. PICK s \in 0 .. k - 1 - 1 : IsStart(b, s) /\ \A l \in s .. k - 1 - 1 : b[l] # BLANK
    <3>1. 0 \in 0 .. k - 1 - 1
      BY <2>1
    <3> QED BY <2>1, <3>1, StartOf
  <2>4. End(b, s) >= k
    <3>1. s \in 0 .. n
      BY <1>1
    <3>2. /\ End(b, s) \in s .. n
          /\ End(b, s) < n => b[End(b, s)] = BLANK
      BY <3>1, EndIs
    <3> DEFINE e == End(b, s)
    <3> HIDE DEF e
    <3>3. e \in s .. n /\ (e < n => b[e] = BLANK)
      BY <3>2 DEF e
    <3>4. \A l \in s .. k - 1 : b[l] # BLANK
      BY <1>1, <1>9, <2>3 DEF c
    <3>5. e >= k
      BY <1>1, <3>1, <3>3, <3>4
    <3> QED BY <3>5 DEF e
  <2>5. Before(b, s) + 1 = N /\ s \in Indices /\ s \in 0 .. k - 1 /\ Before(b, s) \in Nat
    <3>1. End(b, s) >= k - 1
      <4>1. End(b, s) \in Nat
        BY <1>1, EndIs
      <4> QED BY <1>1, <2>4, <4>1
    <3>2. Before(b, k - 1) = Before(b, s) + 1
      BY <2>1, <2>3, <3>1, LastWord
    <3>3. s \in Nat /\ s \in 0 .. n
      BY <1>1
    <3> QED BY <1>1, <3>2, <3>3, LineOf, Counting DEF N
  <2>6. Nth(b, N) = s /\ N \in 1 .. N
    <3>1. Nth(b, Before(b, s) + 1) = s
      BY <2>3, <2>5, NthIs
    <3> QED BY <1>2, <2>5, <3>1
  <2>7. X[N] = Append(W[N], c)
    <3>1. Piece(b, s, k) = Append(Piece(b, s, k - 1), b[k - 1])
      BY <2>4, <2>5, PieceAppends
    <3> QED BY <1>2, <1>3, <2>2, <2>6, <3>1 DEF c
  <2>8. \A m \in 1 .. N : m # N => X[m] = W[m]
    <3> SUFFICES ASSUME NEW m \in 1 .. N, m # N
                 PROVE  X[m] = W[m]
      OBVIOUS
    <3> DEFINE t == Nth(b, m)
    <3>1. t \in 0 .. (k - 1) - 1 /\ t \in 0 .. k - 1 /\ IsStart(b, t) /\ Before(b, t) = m - 1
      BY <1>7
    <3> HIDE DEF t
    <3>2. ~(End(b, t) >= k - 1)
      <4>1. ASSUME End(b, t) >= k - 1
            PROVE  Before(b, k - 1) = Before(b, t) + 1
        BY <2>1, <3>1, <4>1, LastWord
      <4> QED BY <1>2, <3>1, <4>1 DEF N
    <3>3. End(b, t) < k
      <4>1. t \in 0 .. n
        BY <1>1, <3>1
      <4>2. End(b, t) \in t .. n
        BY <4>1, EndIs
      <4> QED BY <1>1, <3>2, <4>1, <4>2
    <3>4. Piece(b, t, k) = Piece(b, t, k - 1)
      BY <3>1, <3>3, PieceGrows
    <3> QED BY <1>2, <1>3, <2>2, <3>4 DEF t
  <2>9. X = [W EXCEPT ![N] = Append(W[N], c)]
    <3>1. X[N] \in T
      BY <1>3, <2>2, <2>6, ElementOfSeq
    <3> DEFINE Y == [W EXCEPT ![N] = X[N]]
    <3>2. Y \in Seq(T) /\ Len(Y) = N /\ \A m \in 1 .. N : Y[m] = IF m = N THEN X[N] ELSE W[m]
      BY <1>2, <2>6, <3>1, ExceptSeq
    <3> HIDE DEF Y
    <3>3. \A m \in 1 .. N : X[m] = Y[m]
      BY <2>8, <3>2
    <3>4. X = Y
      BY <1>2, <1>3, <2>2, <3>2, <3>3, SeqEqual
    <3> QED BY <2>7, <3>4 DEF Y
  <2>10. ReadStep(before, c) = [before EXCEPT !.words[N] = Append(@, c)]
    BY <1>2, <1>9 DEF ReadStep, W
  <2>11. [before EXCEPT !.words[N] = Append(@, c)] =
           [words |-> [W EXCEPT ![N] = Append(W[N], c)], open |-> before.open]
    <3> DEFINE v == Append(W[N], c)
               o == before.open
    <3>1. before = [words |-> W, open |-> o]
      BY <1>4
    <3> HIDE DEF v, o
    <3>2. [before EXCEPT !.words[N] = v] = [words |-> [W EXCEPT ![N] = v], open |-> o]
      BY <3>1, Records
    <3> QED BY <3>2 DEF v, o, W
  <2>12. before.open = TRUE /\ (c # BLANK) = TRUE
    <3>1. before.open \in BOOLEAN
      BY DEF before, Read
    <3> QED BY <1>9, <3>1
  <2> QED BY <1>4, <2>9, <2>10, <2>11, <2>12 DEF before, c
<1>10. CASE c # BLANK /\ ~before.open
  <2>1. IsStart(b, k - 1)
    <3>1. k - 1 = 0 \/ b[k - 1 - 1] = BLANK
      BY <1>1, <1>5, <1>10
    <3> QED BY <1>10, <3>1 DEF IsStart, c
  <2>2. Before(b, k) = N + 1
    BY <1>2, <1>6, <2>1
  <2>3. Nth(b, N + 1) = k - 1
    BY <1>1, <2>1, NthIs DEF N
  <2>4. X[N + 1] = <<c>>
    <3>1. End(b, k - 1) >= k
      <4>1. /\ End(b, k - 1) \in k - 1 .. n
            /\ End(b, k - 1) < n => b[End(b, k - 1)] = BLANK
        BY <1>1, EndIs
      <4>2. End(b, k - 1) # k - 1
        BY <1>1, <1>10, <4>1 DEF c
      <4> QED BY <1>1, <4>1, <4>2
    <3>2. k - 1 \in 0 .. k - 1
      BY <1>1
    <3>3. Piece(b, k - 1, k) = <<b[k - 1]>>
      BY <3>1, <3>2, PieceAppends
    <3> QED BY <1>2, <1>3, <2>2, <2>3, <3>3 DEF c
  <2>5. \A m \in 1 .. N : X[m] = W[m]
    <3> TAKE m \in 1 .. N
    <3> DEFINE t == Nth(b, m)
    <3>1. t \in 0 .. (k - 1) - 1 /\ t \in 0 .. k - 1 /\ t \in 0 .. n /\ IsStart(b, t)
      BY <1>1, <1>7
    <3> HIDE DEF t
    <3>2. b[k - 1 - 1] = BLANK /\ k - 1 - 1 \in t .. k - 1
      BY <1>1, <1>5, <1>10, <3>1
    <3>3. /\ End(b, t) \in t .. n
          /\ \A j \in t .. End(b, t) - 1 : b[j] # BLANK
      BY <3>1, EndIs
    <3> DEFINE e == End(b, t)
    <3> HIDE DEF e
    <3>4. e \in t .. n /\ \A j \in t .. e - 1 : b[j] # BLANK
      BY <3>3 DEF e
    <3>5. e < k
      BY <1>1, <3>1, <3>2, <3>4
    <3>6. Piece(b, t, k) = Piece(b, t, k - 1)
      BY <3>1, <3>5, PieceGrows DEF e
    <3>7. m \in 1 .. Before(b, k)
      BY <1>2, <2>2
    <3> QED BY <1>2, <1>3, <3>6, <3>7 DEF t
  <2>6. X = Append(W, <<c>>)
    <3>1. <<c>> \in T
      <4>1. N + 1 \in 1 .. Len(X)
        BY <1>2, <1>3, <2>2
      <4> QED BY <1>3, <2>4, <4>1, ElementOfSeq
    <3> DEFINE Y == Append(W, <<c>>)
    <3>2. /\ Y \in Seq(T) /\ Len(Y) = N + 1 /\ Y[N + 1] = <<c>>
          /\ \A m \in 1 .. N : Y[m] = W[m]
      BY <1>2, <3>1, AppendProperties
    <3> HIDE DEF Y
    <3>3. \A m \in 1 .. N + 1 : X[m] = Y[m]
      <4> TAKE m \in 1 .. N + 1
      <4>1. CASE m = N + 1
        BY <2>4, <3>2, <4>1
      <4>2. CASE m # N + 1
        <5>1. m \in 1 .. N
          BY <1>2, <4>2
        <5> QED BY <2>5, <3>2, <5>1
      <4> QED BY <4>1, <4>2
    <3> QED BY <1>3, <2>2, <3>2, <3>3, SeqEqual DEF Y
  <2>7. ReadStep(before, c) = [words |-> Append(W, <<c>>), open |-> TRUE]
    BY <1>10 DEF ReadStep, W
  <2>8. (c # BLANK) = TRUE
    BY <1>10
  <2> QED BY <1>4, <2>6, <2>7, <2>8 DEF before, c
<1> QED BY <1>8, <1>9, <1>10

LEMMA WordsAre ==
  ASSUME NEW b, NEW n, Typed(b, n)
  PROVE  Words([k \in 1 .. n |-> b[k - 1]]) = Read(b, n).words
<1> DEFINE letters == [k \in 1 .. n |-> b[k - 1]]
           F(r) == [k \in 0 .. Len(letters) |->
                      IF k = 0 THEN [words |-> <<>>, open |-> FALSE]
                               ELSE ReadStep(r[k - 1], letters[k])]
           read == CHOOSE r : r = F(r)
           g == [k \in 0 .. n |-> Read(b, k)]
<1>1. n \in Nat /\ Len(letters) = n /\ \A k \in 1 .. n : letters[k] = b[k - 1]
  <2>1. n \in Nat
    BY LineOf
  <2> QED BY <2>1
<1>2. Words(letters) = read[Len(letters)].words
  BY DEF Words, ReadStep
<1> HIDE DEF letters
<1>3. g = F(g)
  <2>1. ASSUME NEW k \in 0 .. n
        PROVE  g[k] = IF k = 0 THEN [words |-> <<>>, open |-> FALSE]
                               ELSE ReadStep(g[k - 1], letters[k])
    <3>1. CASE k = 0
      BY <3>1, ReadNothing
    <3>2. CASE k # 0
      <4>1. k \in 1 .. n /\ k - 1 \in 0 .. n
        BY <1>1, <3>2
      <4>2. Read(b, k) = ReadStep(Read(b, k - 1), b[k - 1])
        BY <4>1, ReadOn
      <4> QED BY <1>1, <3>2, <4>1, <4>2
    <3> QED BY <3>1, <3>2
  <2>2. g = [k \in 0 .. n |-> g[k]]
    OBVIOUS
  <2> HIDE DEF g
  <2> QED BY <1>1, <2>1, <2>2
<1>4. read = F(read)
  <2> HIDE DEF F, g
  <2> QED BY <1>3
<1>5. \A k \in 0 .. n : read[k] = IF k = 0 THEN [words |-> <<>>, open |-> FALSE]
                                  ELSE ReadStep(read[k - 1], letters[k])
  <2> HIDE DEF read
  <2> QED BY <1>1, <1>4
<1>6. \A k \in 0 .. n : g[k] = IF k = 0 THEN [words |-> <<>>, open |-> FALSE]
                               ELSE ReadStep(g[k - 1], letters[k])
  <2> HIDE DEF g
  <2> QED BY <1>1, <1>3
<1>7. g[n] = Read(b, n)
  BY <1>1
<1> HIDE DEF read, g, F
<1>8. \A k \in 0 .. n : read[k] = g[k]
  <2> DEFINE S == {k \in 0 .. n : read[k] # g[k]}
  <2>1. CASE S = {}
    BY <2>1
  <2>2. CASE S # {}
    <3>1. PICK k \in S : \A l \in S : k <= l
      <4>1. S \in SUBSET Nat
        OBVIOUS
      <4> HIDE DEF S
      <4> QED BY <2>2, <4>1, FirstIn
    <3>2. k # 0
      BY <1>5, <1>6
    <3>3. k \in 0 .. n /\ k - 1 \in 0 .. n /\ ~(k <= k - 1)
      BY <1>1, <3>2
    <3>4. read[k - 1] = g[k - 1]
      BY <3>1, <3>3
    <3>5. read[k] = g[k]
      BY <1>5, <1>6, <3>2, <3>3, <3>4
    <3> QED BY <3>1, <3>5
  <2> QED BY <2>1, <2>2
<1> QED BY <1>1, <1>2, <1>7, <1>8 DEF letters

-----------------------------------------------------------------------------
(* parse_buffer divides it into the same words.                            *)
LEMMA StringIs ==
  ASSUME NEW b, NEW n, Typed(b, n), NEW s \in 0 .. n
  PROVE  StringAt(b, s) = Piece(b, s, n)
<1>1. End(b, s) \in s .. n /\ n \in Nat
  BY EndIs, LineOf
<1>2. Stop(b, s, n) = End(b, s)
  BY <1>1 DEF Stop
<1>3. StringAt(b, s) = [j \in 1 .. End(b, s) - s |-> b[s + j - 1]]
  BY DEF StringAt, End
<1> QED BY <1>2, <1>3 DEF Piece

(* The blanks that are skipped from k on.                                  *)
LEMMA SkipIs ==
  ASSUME NEW b, NEW n, Typed(b, n), NEW k \in 0 .. n
  PROVE  /\ SkipBlanks(b, k) \in k .. n /\ b[SkipBlanks(b, k)] # BLANK
         /\ \A j \in k .. SkipBlanks(b, k) - 1 : b[j] = BLANK
<1>1. n \in Nat /\ n \in Indices /\ Indices \subseteq Nat /\ b[n] # BLANK
      /\ \A j \in 0 .. n : j \in Indices
  BY LineOf
<1>2. n \in NotBlankFrom(b, k) /\ NotBlankFrom(b, k) \in SUBSET Nat
  <2>1. n >= k
    BY <1>1
  <2> QED BY <1>1, <2>1 DEF NotBlankFrom
<1> DEFINE f == SkipBlanks(b, k)
<1>3. f \in NotBlankFrom(b, k) /\ \A j \in NotBlankFrom(b, k) : f <= j
  BY <1>2, FirstIn DEF SkipBlanks
<1> HIDE DEF f
<1>4. f \in k .. n /\ b[f] # BLANK
  BY <1>1, <1>2, <1>3 DEF NotBlankFrom
<1>5. \A j \in k .. f - 1 : b[j] = BLANK
  <2> SUFFICES ASSUME NEW j \in k .. f - 1, b[j] # BLANK
               PROVE  FALSE
    OBVIOUS
  <2>1. j \in Indices /\ j >= k /\ ~(f <= j)
    BY <1>1, <1>4
  <2> QED BY <1>3, <2>1 DEF NotBlankFrom
<1> QED BY <1>4, <1>5 DEF f

(* A line of blanks has no command.                                        *)
LEMMA NoCommand ==
  ASSUME NEW b, NEW n, Typed(b, n), Before(b, n) = 0
  PROVE  Command(b) = <<>>
<1> DEFINE f == SkipBlanks(b, 0)
<1>1. n \in Nat /\ b[n] = NUL /\ 0 \in 0 .. n
  BY LineOf
<1>2. f \in 0 .. n /\ b[f] # BLANK
  BY <1>1, SkipIs
<1> HIDE DEF f
<1>3. CASE f < n
  <2>1. f \in Nat /\ 0 \in 0 .. f
    BY <1>2
  <2>2. PICK s \in 0 .. f : IsStart(b, s)
    BY <1>2, <2>1, StartOf
  <2>3. s \in Nat /\ s < n
    BY <1>1, <1>2, <1>3
  <2>4. Before(b, s) + 1 <= Before(b, n) /\ Before(b, s) \in Nat
    BY <1>1, <2>2, <2>3, StartsApart, Counting
  <2> QED BY <2>4
<1>4. CASE f = n
  <2>1. End(b, n) = n
    BY <1>1, <1>2, <1>4, EndIs
  <2>2. Command(b) = Piece(b, n, n)
    BY <1>2, <1>4, StringIs DEF Command, f
  <2>3. Stop(b, n, n) - n = 0
    BY <1>1, <2>1 DEF Stop
  <2> QED BY <2>2, <2>3 DEF Piece
<1> QED BY <1>1, <1>2, <1>3, <1>4

(* The command is the first word.                                          *)
LEMMA FirstWord ==
  ASSUME NEW b, NEW n, Typed(b, n), Before(b, n) # 0
  PROVE  /\ SkipBlanks(b, 0) \in 0 .. n - 1 /\ IsStart(b, SkipBlanks(b, 0))
         /\ Before(b, SkipBlanks(b, 0)) = 0 /\ Nth(b, 1) = SkipBlanks(b, 0)
<1> DEFINE f == SkipBlanks(b, 0)
<1>1. n \in Nat /\ 0 \in 0 .. n /\ \A j \in 0 .. n - 1 : j \in Indices
  BY LineOf
<1>2. f \in 0 .. n /\ b[f] # BLANK /\ \A j \in 0 .. f - 1 : b[j] = BLANK
  BY <1>1, SkipIs
<1> HIDE DEF f
<1>3. Starts(b, f) = {}
  BY <1>2 DEF Starts, IsStart
<1>4. Before(b, f) = 0
  BY <1>3, FS_EmptySet DEF Before
<1>5. f \in 0 .. n - 1
  BY <1>1, <1>2, <1>4
<1>6. IsStart(b, f)
  <2>1. f = 0 \/ b[f - 1] = BLANK
    BY <1>2
  <2> QED BY <1>2, <2>1 DEF IsStart
<1>7. Nth(b, 0 + 1) = f
  <2>1. f \in Indices
    BY <1>1, <1>5
  <2> QED BY <1>4, <1>6, <2>1, NthIs
<1>8. 0 + 1 = 1
  OBVIOUS
<1> QED BY <1>4, <1>5, <1>6, <1>7, <1>8 DEF f

(* The parameters start where the other words do.                          *)
LEMMA OtherWords ==
  ASSUME NEW b, NEW n, Typed(b, n), Before(b, n) # 0
  PROVE  WordStarts(b) = Starts(b, n) \ {SkipBlanks(b, 0)}
<1> DEFINE f == SkipBlanks(b, 0)
           e == End(b, f)
           from == AfterCommand(b)
<1>1. /\ n \in Nat /\ n \in Indices /\ Indices \subseteq Nat
      /\ \A j \in 0 .. n - 1 : j \in Indices /\ b[j] # NUL
      /\ \A k \in Indices : k >= n => b[k] = NUL /\ b[k] # BLANK
      /\ BLANK # NUL
  BY LineOf, Symbols
<1>2. f \in 0 .. n - 1 /\ f \in 0 .. n /\ IsStart(b, f)
  BY <1>1, FirstWord
<1>3. /\ e \in f .. n
      /\ e < n => b[e] = BLANK
      /\ \A j \in f .. e - 1 : b[j] # BLANK
  BY <1>2, EndIs
<1>4. Len(Command(b)) = e - f
  <2>1. Command(b) = Piece(b, f, n)
    BY <1>2, StringIs DEF Command
  <2>2. Stop(b, f, n) = e
    BY <1>1, <1>3 DEF Stop
  <2>3. Len(Piece(b, f, n)) = Stop(b, f, n) - f
    <3>1. n \in 0 .. n /\ f <= n
      BY <1>1, <1>2
    <3> QED BY <1>2, <3>1, PieceIs
  <2> QED BY <2>1, <2>2, <2>3
<1> HIDE DEF e
<1>5. from = SkipBlanks(b, e)
  <2>1. f + (e - f) = e
    BY <1>2, <1>3
  <2> QED BY <1>4, <2>1 DEF AfterCommand
<1>6. from \in e .. n /\ b[from] # BLANK /\ \A j \in e .. from - 1 : b[j] = BLANK
  <2>1. e \in 0 .. n
    BY <1>2, <1>3
  <2> QED BY <1>5, <2>1, SkipIs
<1> HIDE DEF f, from
<1>7. b[f] # BLANK /\ f < e
  <2>1. b[f] # BLANK
    BY <1>2 DEF IsStart
  <2>2. f # e
    <3>1. ASSUME f = e
          PROVE  FALSE
      <4>1. e < n
        BY <1>1, <1>2, <3>1
      <4>2. b[f] = BLANK
        BY <1>3, <3>1, <4>1
      <4> QED BY <2>1, <4>2
    <3> QED BY <3>1
  <2>3. f \in Nat /\ e \in Nat /\ f <= e
    BY <1>2, <1>3
  <2> QED BY <2>1, <2>2, <2>3
<1>8. from < n => from > e /\ b[from - 1] = BLANK
  BY <1>1, <1>2, <1>3, <1>6
<1> DEFINE starts == {k \in Indices : /\ k >= from /\ b[k] # BLANK
                                      /\ k = from \/ b[k - 1] = BLANK}
<1>9. WordStarts(b) = {k \in starts : \A j \in starts : j <= k => b[j] # NUL}
  BY DEF WordStarts, from
<1>10. ASSUME NEW k \in starts, k < n
       PROVE  k \in Starts(b, n) /\ k # f
  <2>1. k \in Nat /\ k >= from /\ b[k] # BLANK /\ (k = from \/ b[k - 1] = BLANK)
    BY <1>1
  <2>2. b[k - 1] = BLANK
    <3>1. CASE k = from
      BY <1>8, <1>10, <3>1
    <3> QED BY <2>1, <3>1
  <2>3. k \in 0 .. n - 1 /\ k # f
    <3>1. f \in Nat /\ e \in Nat /\ from \in Nat /\ f < e /\ e <= from
      BY <1>2, <1>3, <1>6, <1>7
    <3> QED BY <1>1, <1>10, <2>1, <3>1
  <2> QED BY <2>1, <2>2, <2>3 DEF Starts, IsStart
<1>11. ASSUME NEW k \in Starts(b, n), k # f
       PROVE  k \in starts /\ k < n
  <2>1. k \in 0 .. n - 1 /\ b[k] # BLANK /\ (k = 0 \/ b[k - 1] = BLANK)
    BY DEF Starts, IsStart
  <2>2. k \in Indices /\ k \in Nat /\ k < n
    BY <1>1, <2>1
  <2>3. ~(k < f)
    <3>1. \A j \in 0 .. f - 1 : b[j] = BLANK
      BY <1>1, SkipIs DEF f
    <3> QED BY <1>2, <2>1, <3>1
  <2>4. k > f
    BY <1>2, <1>11, <2>1, <2>3
  <2>5. b[k - 1] = BLANK
    BY <1>2, <2>1, <2>4
  <2>6. ~(k - 1 \in f .. e - 1)
    BY <1>3, <2>5
  <2>7. k > e
    BY <1>2, <1>3, <2>1, <2>4, <2>6
  <2>8. ~(k \in e .. from - 1)
    BY <1>6, <2>1
  <2>9. k >= from
    BY <1>2, <1>3, <1>6, <2>1, <2>7, <2>8
  <2> QED BY <2>1, <2>2, <2>5, <2>9
<1>12. ASSUME NEW k \in starts, k >= n
       PROVE  b[k] = NUL
  BY <1>1, <1>12
<1>13. ASSUME NEW k \in starts, k < n
       PROVE  b[k] # NUL /\ k \in 0 .. n - 1
  BY <1>1, <1>13
<1>14. starts \subseteq Nat
  BY <1>1
<1> HIDE DEF starts
<1>15. ASSUME NEW k \in WordStarts(b)
       PROVE  k \in Starts(b, n) /\ k # f
  <2>1. k \in starts /\ k \in Nat
    BY <1>9, <1>14
  <2>3. k <= k
    BY <2>1
  <2>4. b[k] # NUL
    BY <1>9, <2>1, <2>3
  <2>2. k < n
    BY <1>1, <1>12, <2>1, <2>4
  <2> QED BY <1>10, <2>1, <2>2
<1>16. ASSUME NEW k \in Starts(b, n), k # f
       PROVE  k \in WordStarts(b)
  <2>1. k \in starts /\ k < n
    BY <1>11, <1>16
  <2>2. ASSUME NEW j \in starts, j <= k
        PROVE  b[j] # NUL
    <3>1. j < n
      BY <1>1, <1>14, <2>1, <2>2
    <3> QED BY <1>13, <3>1
  <2> QED BY <1>9, <2>1, <2>2
<1> QED BY <1>15, <1>16 DEF f

(* Each of them is found at its place among the other words.               *)
LEMMA PlaceIs ==
  ASSUME NEW b, NEW n, Typed(b, n), Before(b, n) # 0
  PROVE  /\ Cardinality(WordStarts(b)) = Before(b, n) - 1
         /\ \A k \in WordStarts(b) :
              Cardinality({j \in WordStarts(b) : j <= k}) = Before(b, k)
<1> DEFINE f == SkipBlanks(b, 0)
<1>1. n \in Nat
  BY LineOf
<1>2. f \in 0 .. n - 1 /\ IsStart(b, f) /\ Before(b, f) = 0
  BY FirstWord
<1>3. WordStarts(b) = Starts(b, n) \ {f}
  BY OtherWords
<1> HIDE DEF f
<1>4. ASSUME NEW k \in 1 .. n, f < k
      PROVE  Cardinality(Starts(b, k) \ {f}) = Before(b, k) - 1
  <2>1. f \in Starts(b, k) /\ IsFiniteSet(Starts(b, k))
    <3>1. f \in 0 .. k - 1
      BY <1>2, <1>4
    <3>2. k \in Nat
      OBVIOUS
    <3>3. IsFiniteSet(Starts(b, k))
      BY <3>2, Counting
    <3>4. f \in Starts(b, k)
      BY <1>2, <3>1 DEF Starts
    <3> QED BY <3>3, <3>4
  <2> QED BY <2>1, FS_RemoveElement DEF Before
<1>5. Cardinality(WordStarts(b)) = Before(b, n) - 1
  <2>1. n \in 1 .. n /\ f < n
    BY <1>1, <1>2
  <2> QED BY <1>3, <1>4, <2>1
<1>6. ASSUME NEW k \in WordStarts(b)
      PROVE  Cardinality({j \in WordStarts(b) : j <= k}) = Before(b, k)
  <2>1. k \in 0 .. n - 1 /\ IsStart(b, k) /\ k # f
    BY <1>3 DEF Starts
  <2>2. k \in Nat /\ f \in Nat
    BY <1>2, <2>1
  <2>3. f < k
    <3>1. ASSUME k < f PROVE FALSE
      <4>1. Before(b, k) + 1 <= Before(b, f) /\ Before(b, k) \in Nat
        BY <2>1, <2>2, <3>1, StartsApart, Counting
      <4> QED BY <1>2, <4>1
    <3> QED BY <2>1, <2>2, <3>1
  <2>4. {j \in WordStarts(b) : j <= k} = Starts(b, k + 1) \ {f}
    <3>1. \A j : (j \in 0 .. n - 1 /\ j <= k) <=> j \in 0 .. (k + 1) - 1
      BY <1>1, <2>1
    <3> QED BY <1>3, <3>1 DEF Starts
  <2>5. k + 1 \in 1 .. n /\ f < k + 1
    BY <1>1, <2>1, <2>2, <2>3
  <2>6. Cardinality(Starts(b, k + 1) \ {f}) = Before(b, k + 1) - 1
    BY <1>4, <2>5
  <2>7. Before(b, k + 1) = Before(b, k) + 1 /\ Before(b, k) \in Nat
    BY <2>1, <2>2, Counting
  <2>8. Cardinality(Starts(b, k + 1) \ {f}) = Before(b, k)
    BY <2>6, <2>7
  <2> QED BY <2>4, <2>8, Zenon
<1> QED BY <1>5, <1>6

LEMMA ParametersAre ==
  ASSUME NEW b, NEW n, Typed(b, n), Before(b, n) # 0
  PROVE  /\ ParsedSize(b) = IF Before(b, n) - 1 >= MAX_PARAMETERS THEN -1
                                                                  ELSE Before(b, n) - 1
         /\ Parameters(b) = [m \in 1 .. Before(b, n) - 1 |-> StringAt(b, Nth(b, m + 1))]
<1> DEFINE place(m) == CHOOSE k \in WordStarts(b) :
                         Cardinality({j \in WordStarts(b) : j <= k}) = m
<1>1. n \in Nat /\ n \in 0 .. n /\ Before(b, n) \in Nat /\ \A k \in 0 .. n - 1 : k \in Indices
  BY LineOf, Counting
<1>2. Parameters(b) = [m \in 1 .. Before(b, n) - 1 |-> StringAt(b, place(m))]
  BY PlaceIs DEF Parameters
<1>3. ASSUME NEW m \in 1 .. Before(b, n) - 1
      PROVE  place(m) = Nth(b, m + 1)
  <2> DEFINE s == Nth(b, m + 1)
  <2>1. m + 1 \in 1 .. Before(b, n) /\ (m + 1) - 1 = m
    BY <1>1
  <2>2. s \in 0 .. n - 1 /\ IsStart(b, s) /\ Before(b, s) = m
    BY <1>1, <2>1, NthStarts
  <2> HIDE DEF s
  <2>3. s \in WordStarts(b)
    <3>1. s # SkipBlanks(b, 0)
      BY <2>2, FirstWord
    <3> QED BY <2>2, <3>1, OtherWords DEF Starts
  <2>4. Cardinality({j \in WordStarts(b) : j <= s}) = m
    BY <2>2, <2>3, PlaceIs
  <2> DEFINE t == place(m)
  <2>5. t \in WordStarts(b) /\ Cardinality({j \in WordStarts(b) : j <= t}) = m
    BY <2>3, <2>4
  <2> HIDE DEF t
  <2>6. Before(b, t) = m
    BY <2>5, PlaceIs
  <2>7. t \in Indices /\ IsStart(b, t)
    BY <1>1, <2>5, OtherWords DEF Starts
  <2>8. Nth(b, Before(b, t) + 1) = t
    BY <2>7, NthIs
  <2> QED BY <2>6, <2>8 DEF s, t
<1> HIDE DEF place
<1>4. ParsedSize(b) = IF Before(b, n) - 1 >= MAX_PARAMETERS THEN -1 ELSE Before(b, n) - 1
  BY PlaceIs DEF ParsedSize
<1> QED BY <1>2, <1>3, <1>4

(* A typed line is divided into the words that were typed.                 *)
LEMMA Division ==
  ASSUME NEW b, NEW n, Typed(b, n), NEW words, words = Words([k \in 1 .. n |-> b[k - 1]])
  PROVE  IF words = <<>> THEN Command(b) = <<>>
         ELSE /\ Command(b) = Head(words) /\ Parameters(b) = Tail(words)
              /\ Len(Tail(words)) \in Nat
              /\ ParsedSize(b) = IF Len(Tail(words)) >= MAX_PARAMETERS THEN -1
                                                                       ELSE Len(Tail(words))
<1> DEFINE T == Seq(Symbol(b))
           N == Before(b, n)
<1>1. n \in Nat /\ n \in 0 .. n /\ N \in Nat
  BY LineOf, Counting
<1>2. /\ words \in Seq(T) /\ Len(words) = N
      /\ \A m \in 1 .. N : words[m] = Piece(b, Nth(b, m), n)
  <2>1. words = Read(b, n).words
    BY WordsAre
  <2> QED BY <1>1, <2>1, ReadType
<1>3. ASSUME NEW m \in 1 .. N
      PROVE  words[m] = StringAt(b, Nth(b, m))
  <2>1. Nth(b, m) \in 0 .. n - 1
    BY <1>1, NthStarts
  <2>2. Nth(b, m) \in 0 .. n
    BY <1>1, <2>1
  <2> QED BY <1>2, <2>2, StringIs
<1> HIDE DEF T
<1>4. CASE N = 0
  <2>1. Command(b) = <<>>
    BY <1>4, NoCommand
  <2>2. words = <<>>
    BY <1>2, <1>4, EmptySeq
  <2> QED BY <2>1, <2>2
<1>5. CASE N # 0
  <2>1. words # <<>> /\ 1 \in 1 .. N
    BY <1>1, <1>2, <1>5, EmptySeq
  <2>2. Command(b) = words[1]
    <3>1. Nth(b, 1) = SkipBlanks(b, 0)
      BY <1>5, FirstWord
    <3> QED BY <1>3, <2>1, <3>1 DEF Command
  <2>3. Head(words) = words[1]
    OBVIOUS
  <2>4. /\ Tail(words) \in Seq(T) /\ Len(Tail(words)) = N - 1
        /\ \A m \in 1 .. N - 1 : Tail(words)[m] = words[m + 1]
    <3>1. /\ Tail(words) \in Seq(T) /\ Len(Tail(words)) = Len(words) - 1
          /\ \A m \in 1 .. Len(Tail(words)) : Tail(words)[m] = words[m + 1]
      BY <1>2, <2>1, HeadTailProperties
    <3> QED BY <1>2, <3>1, Zenon
  <2>5. Parameters(b) = [m \in 1 .. N - 1 |-> StringAt(b, Nth(b, m + 1))]
    BY <1>5, ParametersAre
  <2> DEFINE t == Tail(words)
  <2> HIDE DEF t, N
  <2>6. t = [m \in 1 .. N - 1 |-> t[m]]
    <3>1. t \in [1 .. Len(t) -> T]
      BY <2>4, LenProperties DEF t
    <3> QED BY <2>4, <3>1 DEF t
  <2>7. \A m \in 1 .. N - 1 : t[m] = StringAt(b, Nth(b, m + 1))
    <3> TAKE m \in 1 .. N - 1
    <3>1. m + 1 \in 1 .. N
      BY <1>1
    <3>2. t[m] = words[m + 1]
      BY <2>4 DEF t
    <3> QED BY <1>3, <3>1, <3>2
  <2>8. Parameters(b) = t
    BY <2>5, <2>6, <2>7
  <2>9. Len(t) = N - 1 /\ Len(t) \in Nat
    <3>1. N - 1 \in Nat
      BY <1>1, <1>5
    <3> QED BY <2>4, <3>1 DEF t
  <2>10. ParsedSize(b) = IF Len(t) >= MAX_PARAMETERS THEN -1 ELSE Len(t)
    <3>1. ParsedSize(b) = IF N - 1 >= MAX_PARAMETERS THEN -1 ELSE N - 1
      BY <1>5, ParametersAre DEF N
    <3> QED BY <2>9, <3>1
  <2> QED BY <2>1, <2>2, <2>3, <2>8, <2>9, <2>10 DEF t
<1> QED BY <1>4, <1>5

(* Behind a line that was not corrected there is nothing but 0s.           *)
LineIsTyped == ~corrected => \A k \in Indices : k >= i => read_buffer[k] = NUL

LEMMA TypedSteps ==
  ASSUME LineIsTyped, [Next]_vars, i \in Indices,
         read_buffer \in [Indices -> Letters \cup {NUL}]
  PROVE  LineIsTyped'
<1>1. Indices = 0 .. BUFFER_LENGTH - 1 /\ BUFFER_LENGTH \in Nat \ {0}
  BY ShellLineAssumption DEF Indices
<1>2. CASE PrintsPrompt \/ Complains \/ Returns
  <2>1. read_buffer' = EmptyBuffer
    BY <1>2 DEF PrintsPrompt, Complains, Returns, LineEnds
  <2> QED BY <2>1 DEF LineIsTyped, EmptyBuffer
<1>3. ASSUME NEW c \in Letters, TypesLetter(c)
      PROVE  LineIsTyped'
  <2>1. /\ corrected' = corrected
        /\ IF i < BUFFER_LENGTH - 1
             THEN read_buffer' = [read_buffer EXCEPT ![i] = c] /\ i' = i + 1
             ELSE read_buffer' = read_buffer /\ i' = i
    BY <1>3 DEF TypesLetter
  <2>2. ASSUME ~corrected, NEW k \in Indices, k >= i'
        PROVE  read_buffer'[k] = NUL
    <3>1. CASE i < BUFFER_LENGTH - 1
      BY <1>1, <2>1, <2>2, <3>1 DEF LineIsTyped
    <3>2. CASE ~(i < BUFFER_LENGTH - 1)
      BY <2>1, <2>2, <3>2 DEF LineIsTyped
    <3> QED BY <3>1, <3>2
  <2> QED BY <2>1, <2>2 DEF LineIsTyped
<1>4. CASE TypesBackspace
  BY <1>4 DEF TypesBackspace, LineIsTyped
<1>5. CASE TypesEnter
  <2>1. /\ corrected' = corrected /\ i' = i
        /\ read_buffer' = [read_buffer EXCEPT ![i] = NUL]
    BY <1>5 DEF TypesEnter
  <2> QED BY <1>1, <2>1 DEF LineIsTyped
<1>6. CASE ForegroundDraws \/ BackgroundDraws \/ BackgroundEnds \/ UNCHANGED vars
  <2>1. corrected' = corrected /\ i' = i /\ read_buffer' = read_buffer
    BY <1>6 DEF ForegroundDraws, BackgroundDraws, Draws, BackgroundEnds, vars, lineVars,
                lineHistory
  <2> QED BY <2>1 DEF LineIsTyped
<1> QED BY <1>2, <1>3, <1>4, <1>5, <1>6 DEF Next

(* A line that was typed without corrections, and without keys that type a *)
(* 0, is run as the words that were typed, whatever its length, its blanks *)
(* and its letters; if they are too many for the table of parameters it is *)
(* answered with -1, and no other line is (shell.c:230-272,                *)
(* inout.c:47-59).                                                         *)
THEOREM WordsAreTyped == Spec => []ParsedIsTyped
<1>1. Init => LineIsTyped
  BY DEF Init, LineIsTyped, EmptyBuffer
<1>2. IInv /\ LineIsTyped /\ [Next]_vars => LineIsTyped'
  BY TypedSteps DEF IInv, LineType
<1>3. IInv /\ LineIsTyped => ParsedIsTyped
  <2> SUFFICES ASSUME IInv, LineIsTyped, at = "run", ~corrected,
                      \A k \in 0 .. i - 1 : read_buffer[k] # NUL
               PROVE  LET words == Words([k \in 1 .. i |-> read_buffer[k - 1]])
                      IN  IF words = <<>> THEN Command(read_buffer) = <<>>
                          ELSE /\ Command(read_buffer) = Head(words)
                               /\ IF Len(Tail(words)) < MAX_PARAMETERS
                                    THEN /\ ParsedSize(read_buffer) = Len(Tail(words))
                                         /\ Parameters(read_buffer) = Tail(words)
                                    ELSE ParsedSize(read_buffer) = -1
    BY DEF ParsedIsTyped
  <2>1. Typed(read_buffer, i)
    <3>1. i \in Indices /\ i \in Nat /\ Indices \subseteq Nat
      BY ShellLineAssumption DEF IInv, LineType, Indices
    <3>2. ASSUME NEW k \in Indices, ~(k >= i)
          PROVE  k \in 0 .. i - 1
      BY <3>1, <3>2
    <3> QED BY <3>1, <3>2 DEF LineIsTyped, Typed
  <2> DEFINE words == Words([k \in 1 .. i |-> read_buffer[k - 1]])
             size == Len(Tail(words))
  <2>2. IF words = <<>> THEN Command(read_buffer) = <<>>
        ELSE /\ Command(read_buffer) = Head(words) /\ Parameters(read_buffer) = Tail(words)
             /\ size \in Nat
             /\ ParsedSize(read_buffer) = IF size >= MAX_PARAMETERS THEN -1 ELSE size
    BY <2>1, Division
  <2>4. MAX_PARAMETERS \in Nat
    BY ShellLineAssumption
  <2> HIDE DEF words, size
  <2>5. words # <<>> => (size < MAX_PARAMETERS <=> ~(size >= MAX_PARAMETERS))
    BY <2>2, <2>4
  <2> QED BY <2>2, <2>5 DEF words, size
<1> QED BY <1>1, <1>2, <1>3, LineInductive, PTL DEF Spec
=============================================================================
