------------------------------- MODULE Console -------------------------------
(***************************************************************************)
(* The text console of the kernel (naive_graphics_console.c): where the    *)
(* pen is, how large the letters are, and what the line the pen is on      *)
(* shows.  Colours and the shapes of the letters are left out.             *)
(***************************************************************************)
EXTENDS Integers, Sequences

CONSTANTS
  CHAR_WIDTH,   \* pixels of a letter at level 1                      (9)
  CHAR_HEIGHT,  \*                                                   (16)
  width,        \* pixels of the screen, as the boot loader set it
  height,
  Levels        \* the font sizes                              ({1, 2, 3})

ASSUME ConsoleAssumption ==
  /\ {CHAR_WIDTH, CHAR_HEIGHT, width, height} \subseteq Nat \ {0}
  /\ Levels \subseteq 1 .. 3 /\ 1 \in Levels
  /\ CHAR_WIDTH * 3 <= width /\ width < 2 ^ 16
  /\ CHAR_HEIGHT * 3 <= height /\ height < 2 ^ 16

VARIABLES
  pen_x, pen_y,  \* the upper left pixel of the next letter (uint16_t)
  level,         \* the size of the letters
  row            \* the letter drawn at each pixel of the line of the pen

consoleVars == <<pen_x, pen_y, level, row>>

BACKSPACE == "backspace"
BLANK == " "
NUL == "nul"
EmptyRow == [x \in 0 .. width - 1 |-> BLANK]

(* A pen, with the row it is on: what the functions below work on.         *)
Pen == [x |-> pen_x, y |-> pen_y, row |-> row]

ConsoleInit ==
  /\ pen_x = 0 /\ pen_y = 0
  /\ level = 1
  /\ row = EmptyRow

(* Mutant: the screen is moved up one line too late.                        *)
NewLine_Late(pen) ==
  [x |-> 0, row |-> EmptyRow,
   y |-> IF pen.y <= height - CHAR_HEIGHT * 3 THEN pen.y + level * CHAR_HEIGHT
                                              ELSE pen.y]

(* ngc_print_new_line: the next line, or the same after the screen has     *)
(* moved up.  Either way the pen is on an empty line.                      *)
NewLine(pen) ==
  [x |-> 0, row |-> EmptyRow,
   y |-> IF pen.y + level * CHAR_HEIGHT <= height - CHAR_HEIGHT * 3
           THEN pen.y + level * CHAR_HEIGHT
           ELSE pen.y]

(* Mutant: the prompt is guarded at level 1 only.                           *)
DeleteLastChar_OneSize(pen) ==
  IF pen.x = CHAR_WIDTH * 2
    THEN pen
    ELSE LET x == (pen.x - CHAR_WIDTH * level) % 2 ^ 16
         IN  [pen EXCEPT !.x = x,
                !.row = [q \in DOMAIN @ |->
                           IF q \in x .. x + CHAR_HEIGHT * level - 1 THEN BLANK ELSE @[q]]]

(* delete_last_char: back over one letter and a square of its height made  *)
(* black, unless the pen stands where a prompt of two letters ends.        *)
DeleteLastChar(pen) ==
  IF pen.x = CHAR_WIDTH * 2 * level
    THEN pen
    ELSE LET x == (pen.x - CHAR_WIDTH * level) % 2 ^ 16
         IN  [pen EXCEPT !.x = x,
                !.row = [q \in DOMAIN @ |->
                           IF q \in x .. x + CHAR_HEIGHT * level - 1 THEN BLANK ELSE @[q]]]

(* What a character leaves on the screen: the font begins behind the blank *)
(* (FIRST_CHAR), so the 0 that keys without a character type is one too.   *)
Drawn(c) == IF c = NUL THEN BLANK ELSE c

(* The pen after a letter (a blank only moves it): past the last whole     *)
(* letter of the line it goes to the next one.                             *)
Advance(pen, c) ==
  LET x == (pen.x + CHAR_WIDTH * level) % 2 ^ 16
      drawn == [pen EXCEPT !.x = x,
                  !.row = [q \in DOMAIN @ |->
                             IF q = pen.x /\ Drawn(c) # BLANK THEN c ELSE @[q]]]
  IN  IF x > width - CHAR_WIDTH * level THEN NewLine(drawn) ELSE drawn

PrintChar(pen, c) ==
  CASE c = "newline" -> NewLine(pen)
    [] c = BACKSPACE -> DeleteLastChar(pen)
    [] OTHER -> Advance(pen, c)

(* ngc_print, and sys_write to the screen: the letters one after another.  *)
Printed(pen, string) ==
  LET after[k \in 0 .. Len(string)] ==
        IF k = 0 THEN pen ELSE PrintChar(after[k - 1], string[k])
  IN  after[Len(string)]

Shows(pen) ==
  pen_x' = pen.x /\ pen_y' = pen.y /\ row' = pen.row

change_font_size(new_level) ==
  /\ level' = new_level
  /\ UNCHANGED <<pen_x, pen_y, row>>

ngc_paint_screen ==
  /\ pen_x' = 0 /\ pen_y' = 0 /\ row' = EmptyRow
  /\ UNCHANGED level
=============================================================================
