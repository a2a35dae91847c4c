------------------------------ MODULE ShellLine ------------------------------
(***************************************************************************)
(* A command line, from the key to the program: the loop of the shell      *)
(* (shell.c), the line editor it reads with (buffer_action of inout.c),    *)
(* the console both draw on, the division of the line into words, and the  *)
(* choice of what to run.  Programs are what they do to the screen: one in *)
(* the foreground until the shell goes on, those in the background at any  *)
(* time.                                                                   *)
(***************************************************************************)
EXTENDS Console, FiniteSets

CONSTANTS
  BUFFER_LENGTH,   \* of a command line, its final 0 included        (256)
  MAX_PARAMETERS,  \*                                                  (5)
  Letters,         \* what is typed: one-letter strings, the blank included
  args_qty,        \* of each command, whose name is a sequence of letters
  pipeable,        \* the commands that may write into a pipe
  MaxKeys,         \* bound of the model: keys in one line
  MaxDraws         \* bound of the model: drawings of programs from one
                   \* prompt to the next

ASSUME ShellLineAssumption ==
  /\ BUFFER_LENGTH \in Nat \ {0} /\ MAX_PARAMETERS \in Nat \ {0}
  /\ BLANK \in Letters /\ {"newline", BACKSPACE} \cap Letters = {}
  /\ \A name \in DOMAIN args_qty : args_qty[name] \in Nat
  /\ pipeable \subseteq DOMAIN args_qty

VARIABLES
  at,           \* the shell is at its prompt, reads, or runs a program
  read_buffer,  \* the line, with whatever lies behind its end
  i,            \* where the next letter goes
  outcome,      \* what the line leads to
  background,   \* a program runs that the shell does not wait for
  keys,         \* keys pressed in this line (history)
  corrected,    \* backspace was used in this line (history)
  overflowed,   \* the buffer had no room for a letter of it (history)
  home,         \* the prompt was printed at the left edge (history)
  wrapped,      \* the line has reached the right edge (history)
  draws,        \* drawings since the prompt was printed (history)
  disturbed,    \* a background program drew since then (history)
  mixed         \* the size was changed behind letters: what hangs down from
                \* them may reach into later lines (history)

lineVars == <<at, read_buffer, i, outcome, background>>
lineHistory == <<keys, corrected, overflowed, home, wrapped>>
drawHistory == <<draws, disturbed, mixed>>
vars == <<consoleVars, lineVars, lineHistory, drawHistory>>

Indices == 0 .. BUFFER_LENGTH - 1
EmptyBuffer == [k \in Indices |-> NUL]
Prompt == <<"$", ">">>

Init ==
  /\ ConsoleInit
  /\ at = "prompt" /\ read_buffer = EmptyBuffer /\ i = 0 /\ outcome = "nothing"
  /\ keys = 0 /\ corrected = FALSE /\ overflowed = FALSE
  /\ home = TRUE /\ wrapped = FALSE
  /\ background = FALSE /\ draws = 0 /\ disturbed = FALSE /\ mixed = FALSE

-----------------------------------------------------------------------------
(* parse_buffer.                                                           *)

NotBlankFrom(b, k) == {j \in Indices : j >= k /\ b[j] # BLANK}
First(S) == CHOOSE j \in S : \A l \in S : j <= l
SkipBlanks(b, k) == First(NotBlankFrom(b, k))

(* The string that starts at k, in a C reader's eyes, up to a blank.       *)
StringAt(b, k) ==
  LET stop == First({j \in Indices : j >= k /\ b[j] \in {BLANK, NUL}})
  IN  [j \in 1 .. stop - k |-> b[k + j - 1]]

Command(b) == StringAt(b, SkipBlanks(b, 0))
AfterCommand(b) == SkipBlanks(b, SkipBlanks(b, 0) + Len(Command(b)))

(* Mutant: of several blanks only the first is skipped.                     *)
WordStarts_OneBlank(b) ==
  LET from == AfterCommand(b)
      starts == {k \in Indices : k >= from /\ (k = from \/ b[k - 1] = BLANK)}
  IN  {k \in starts : \A j \in starts : j <= k => b[j] # NUL}

(* The loop over the parameters ends at a word that begins with 0, and     *)
(* only there: a 0 inside a word is copied like a letter, and what lies    *)
(* behind it, up to the next blank, goes into the same parameter, which is *)
(* read up to the 0.                                                       *)
WordStarts(b) ==
  LET from == AfterCommand(b)
      starts == {k \in Indices : /\ k >= from /\ b[k] # BLANK
                                 /\ k = from \/ b[k - 1] = BLANK}
  IN  {k \in starts : \A j \in starts : j <= k => b[j] # NUL}

Parameters(b) ==
  LET starts == WordStarts(b)
      place(n) == CHOOSE k \in starts : Cardinality({j \in starts : j <= k}) = n
  IN  [n \in 1 .. Cardinality(starts) |-> StringAt(b, place(n))]

(* Mutant: one parameter too many is let through.                           *)
ParsedSize_OneMore(b) ==
  LET words == Cardinality(WordStarts(b))
  IN  IF words > MAX_PARAMETERS THEN -1 ELSE words

(* What parse_buffer answers: the parameters, or -1 when there are more    *)
(* than the table of the shell has room for (its last row is never used).  *)
ParsedSize(b) ==
  LET words == Cardinality(WordStarts(b))
  IN  IF words >= MAX_PARAMETERS THEN -1 ELSE words

-----------------------------------------------------------------------------
(* find_idx_command, piped_process_handle and normal_process_handle: what  *)
(* is done with a line.  With a command of the table, -1 is a length to    *)
(* prepare_parameters, whose loop writes behind its block: "overrun", and  *)
(* what the shell does after it is not modelled.                           *)
Handled(command, size, parameters) ==
  CASE command = <<>> -> "nothing"
    [] command # <<>> /\ command \notin DOMAIN args_qty -> "not found"
    [] command \in DOMAIN args_qty ->
         IF size = -1 THEN "overrun"
         ELSE IF size = 2 /\ parameters[1] = <<"|">>
           THEN IF parameters[2] \notin DOMAIN args_qty THEN "not found"
                ELSE IF parameters[2] \in pipeable THEN "pipe" ELSE "not pipeable"
         ELSE IF size = args_qty[command] + 1 /\ parameters[size] = <<"&">>
           THEN "background"
         ELSE IF size # args_qty[command] THEN "usage"
         ELSE "foreground"

-----------------------------------------------------------------------------
PrintsPrompt ==
  /\ at = "prompt"
  /\ Shows(Printed(Pen, Prompt))
  /\ at' = "read" /\ read_buffer' = EmptyBuffer /\ i' = 0
  /\ home' = (pen_x = 0 /\ row = EmptyRow)
  /\ wrapped' = (pen_y' # pen_y \/ pen_x' = 0)
  /\ draws' = 0
  /\ UNCHANGED <<level, outcome, background, keys, corrected, overflowed>>
  /\ UNCHANGED <<disturbed, mixed>>

PressesKey == at = "read" /\ keys < MaxKeys /\ keys' = keys + 1

(* A letter is drawn whether or not the buffer has room for it.            *)
TypesLetter(c) ==
  /\ PressesKey
  /\ Shows(PrintChar(Pen, c))
  /\ IF i < BUFFER_LENGTH - 1
       THEN read_buffer' = [read_buffer EXCEPT ![i] = c] /\ i' = i + 1
       ELSE UNCHANGED <<read_buffer, i>>
  /\ overflowed' = (overflowed \/ i = BUFFER_LENGTH - 1)
  /\ wrapped' = (wrapped \/ pen_x' < pen_x)
  /\ UNCHANGED <<level, at, outcome, background, corrected, home, drawHistory>>

TypesBackspace ==
  /\ PressesKey
  /\ Shows(PrintChar(Pen, BACKSPACE))
  /\ i' = IF i > 0 THEN i - 1 ELSE i
  /\ corrected' = TRUE
  /\ UNCHANGED <<level, at, read_buffer, outcome, background>>
  /\ UNCHANGED <<overflowed, home, wrapped, drawHistory>>

TypesEnter ==
  LET line == [read_buffer EXCEPT ![i] = NUL]
  IN  /\ at = "read"
      /\ Shows(PrintChar(Pen, "newline"))
      /\ read_buffer' = line
      /\ outcome' = Handled(Command(line), ParsedSize(line), Parameters(line))
      /\ at' = "run"
      /\ keys' = 0 /\ overflowed' = FALSE /\ home' = FALSE /\ wrapped' = FALSE
      /\ disturbed' = FALSE
      /\ UNCHANGED <<level, i, background, corrected, draws, mixed>>

(* The end of the loop's body, and of the life of its variables.           *)
LineEnds ==
  /\ at = "run" /\ at' = "prompt"
  /\ read_buffer' = EmptyBuffer /\ i' = 0 /\ outcome' = "nothing"
  /\ corrected' = FALSE
  /\ UNCHANGED <<keys, overflowed, home, wrapped, drawHistory>>

(* The messages of the shell, each a line, and back to the prompt.         *)
Complains ==
  /\ outcome \in {"not found", "not pipeable", "usage"}
  /\ Shows(Printed(Pen, <<"o", "newline">>))
  /\ LineEnds
  /\ UNCHANGED <<level, background>>

(* One thing a program does to the screen: it changes the size (command    *)
(* changefontsize, Tron), clears it, or prints a letter.                   *)
Draws(letters) ==
  /\ draws < MaxDraws /\ draws' = draws + 1
  /\ \/ (\E l \in Levels : change_font_size(l)) /\ mixed' = (mixed \/ row # EmptyRow)
     \/ ngc_paint_screen /\ mixed' = FALSE
     \/ /\ \E c \in letters : Shows(PrintChar(Pen, c))
        /\ UNCHANGED <<level, mixed>>
  /\ UNCHANGED <<lineVars, lineHistory>>

(* The program, or the two of a pipe, that the shell waits for; cat echoes *)
(* a backspace as well.                                                    *)
ForegroundDraws ==
  /\ at = "run" /\ outcome \in {"foreground", "pipe"}
  /\ Draws({"o", "newline", BACKSPACE})
  /\ UNCHANGED disturbed

(* A program in the background writes to a descriptor whose output is      *)
(* dropped, but sizes, clearing and letters in colour do not go through it. *)
BackgroundDraws ==
  /\ background
  /\ Draws({"o", "newline"})
  /\ disturbed' = (at = "read")

(* The shell goes on: the children it waited for have ended, or it did not *)
(* wait.  A program for the background may be refused.                     *)
Returns ==
  /\ outcome \in {"nothing", "foreground", "pipe", "background"}
  /\ background' \in IF outcome = "background" THEN {background, TRUE} ELSE {background}
  /\ LineEnds
  /\ UNCHANGED consoleVars

BackgroundEnds ==
  /\ background /\ background' = FALSE
  /\ UNCHANGED <<consoleVars, at, read_buffer, i, outcome, lineHistory, drawHistory>>

Next ==
  \/ PrintsPrompt
  \/ \E c \in Letters : TypesLetter(c)
  \/ TypesBackspace \/ TypesEnter
  \/ Complains \/ ForegroundDraws \/ Returns
  \/ BackgroundDraws \/ BackgroundEnds

Spec == Init /\ [][Next]_vars

-----------------------------------------------------------------------------
(* The words of a sequence of letters, read from left to right.            *)
Words(letters) ==
  LET read[k \in 0 .. Len(letters)] ==
        IF k = 0 THEN [words |-> <<>>, open |-> FALSE]
        ELSE LET before == read[k - 1]
                 last == Len(before.words)
             IN  IF letters[k] = BLANK
                   THEN [before EXCEPT !.open = FALSE]
                 ELSE IF before.open
                   THEN [before EXCEPT !.words[last] = Append(@, letters[k])]
                 ELSE [words |-> Append(before.words, <<letters[k]>>), open |-> TRUE]
  IN  read[Len(letters)].words

(* What the user sees is what will be run: behind the prompt the screen    *)
(* shows the letters of the buffer and the pen stands after them, at every *)
(* font size and however letters and backspaces alternate, whatever ran    *)
(* before.  Not promised: a line that has reached the right edge,          *)
(* overflowed the buffer, begun behind another program's output or on a    *)
(* screen with letters of two sizes on a line, and a line during which a   *)
(* background program drew (inout.c:47-59, naive_graphics_console.c:187,   *)
(* 259-266, shell.c:187-189).                                              *)
ScreenShowsLine ==
  at = "read" /\ home /\ ~wrapped /\ ~overflowed /\ ~disturbed /\ ~mixed =>
    LET cell(k) == row[k * CHAR_WIDTH * level]
    IN  /\ cell(0) = "$" /\ cell(1) = ">"
        /\ \A k \in 0 .. i - 1 : cell(k + 2) = Drawn(read_buffer[k])
        /\ pen_x = (i + 2) * CHAR_WIDTH * level

(* The pen is where a letter of any size fits on the screen: below it      *)
(* always, whatever programs change the size while a line is typed; beside *)
(* it in a line that began at the left edge, unless it has wrapped, for a  *)
(* backspace may go over the left edge then, or a background program drew  *)
(* (naive_graphics_console.c:188, 203, 259-266).                           *)
PenOnScreen ==
  /\ pen_y + 3 * CHAR_HEIGHT <= height
  /\ at = "read" /\ home /\ ~wrapped /\ ~disturbed => pen_x + CHAR_WIDTH * level <= width

(* A line typed without corrections is divided into the words that were    *)
(* typed, whatever blanks are before, between and after them; a line of    *)
(* MAX_PARAMETERS parameters or more is refused with -1, and no other one  *)
(* is.  With corrections, or keys that type a 0, it need not be: the loop  *)
(* over the parameters does not stop at the end of the line                *)
(* (shell.c:230-272).                                                      *)
ParsedIsTyped ==
  at = "run" /\ ~corrected /\ (\A k \in 0 .. i - 1 : read_buffer[k] # NUL) =>
    LET words == Words([k \in 1 .. i |-> read_buffer[k - 1]])
    IN  IF words = <<>> THEN Command(read_buffer) = <<>>
        ELSE /\ Command(read_buffer) = Head(words)
             /\ IF Len(Tail(words)) < MAX_PARAMETERS
                  THEN /\ ParsedSize(read_buffer) = Len(Tail(words))
                       /\ Parameters(read_buffer) = Tail(words)
                  ELSE ParsedSize(read_buffer) = -1
=============================================================================
