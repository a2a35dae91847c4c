-------------------------------- MODULE Tron --------------------------------
(***************************************************************************)
(* The game of Userland/SampleCodeModule/tron.c: two players drive over a  *)
(* board of cells and leave a trail; who meets a trail or the border loses. *)
(* A turn is one step: the timer has ticked, two keys are read, both       *)
(* players move and are judged.  Painting and the beep are left out.       *)
(***************************************************************************)
EXTENDS Integers

CONSTANTS
  SCREEN_WIDTH,   \* in pixels, as the kernel reports it  (1024)
  SCREEN_HEIGHT,  \*                                      (768)
  MAX_WIDTH,      \* the dimensions of board              (1024)
  MAX_HEIGHT,     \*                                      (1280)
  WORD            \* a position is a number modulo WORD   (2^64)

SIZE == 8
width == (SCREEN_WIDTH - 16) \div SIZE
height == (SCREEN_HEIGHT - 16) \div SIZE

ASSUME TronAssumption ==
  /\ SCREEN_WIDTH \in Nat /\ SCREEN_WIDTH >= 64 /\ width + 2 < MAX_WIDTH
  /\ SCREEN_HEIGHT \in Nat /\ SCREEN_HEIGHT >= 32 /\ height + 2 < MAX_HEIGHT
  /\ MAX_WIDTH \in Nat /\ MAX_HEIGHT \in Nat
  /\ WORD \in Nat /\ WORD > MAX_WIDTH /\ WORD > MAX_HEIGHT

VARIABLES
  phase,   \* "shell", "play" while the loop runs, "ask" after it
  player,  \* player1 and player2
  board,   \* the cells whose entry is 1; the array outlives the game
  due,     \* the ticks have changed since the last turn
  d,       \* the answer to "play again?"
  trail    \* history: the cells each player was alive on in this game

vars == <<phase, player, board, due, d, trail>>

Players == {1, 2}
Other(p) == 3 - p

(* The keys that steer, and what each does.  The first four are player1's. *)
Directions == {"w", "a", "s", "d", "U", "L", "D", "R"}
Keys == Directions \cup {"other"}
Answers == {"y", "n", "other"}

Driver(key) == IF key \in {"w", "a", "s", "d"} THEN 1 ELSE 2
Up(key) == key \in {"w", "U"}
Down(key) == key \in {"s", "D"}
Left(key) == key \in {"a", "L"}
Right(key) == key \in {"d", "R"}

Opposite(key) ==
  CASE key = "w" -> "s" [] key = "s" -> "w" [] key = "a" -> "d" [] key = "d" -> "a"
    [] key = "U" -> "D" [] key = "D" -> "U" [] key = "L" -> "R" [] key = "R" -> "L"

-----------------------------------------------------------------------------
(* Positions are unsigned: to the left of 0 is WORD - 1.                   *)
Shifted(pos, back, forth) ==
  IF back THEN (pos - 1 + WORD) % WORD ELSE IF forth THEN (pos + 1) % WORD ELSE pos

Moved(one, key) ==
  [one EXCEPT !.pos_x = Shifted(@, Left(key), Right(key)),
              !.pos_y = Shifted(@, Up(key), Down(key)),
              !.direction = key]

(* update_position: one cell in the direction of the key, unless it is the *)
(* one the player comes from; any other character does nothing.            *)
update_position(players, key) ==
  IF key \in Directions /\ players[Driver(key)].direction # Opposite(key)
    THEN [players EXCEPT ![Driver(key)] = Moved(@, key)]
    ELSE players

(* Mutant: a key is taken even when it is the player's own direction.       *)
Press_Always(players, key) == update_position(players, key)

(* A key read by play_tron; the direction a player already has is left to  *)
(* the move that both make in every turn.                                  *)
Press(players, key) ==
  IF \A p \in Players : key # players[p].direction
    THEN update_position(players, key) ELSE players

(* Where the two players may be after a turn, whatever keys c and t are    *)
(* read: each key may move one of them, then both move on.  It is up to    *)
(* three cells from where they were; those in between are not marked.      *)
Onward(players, p) == update_position(players, players[p].direction)

Pressed == {Press(players, t) : players \in {Press(player, c) : c \in Keys}, t \in Keys}
Driven == {Onward(players, 2) : players \in {Onward(players, 1) : players \in Pressed}}

-----------------------------------------------------------------------------
Cell(one) == <<one.pos_x, one.pos_y>>

(* is_alive's test, called with width + 1 and height + 1.                  *)
InField(one) ==
  /\ one.pos_x < width + 1 /\ one.pos_x > 1
  /\ one.pos_y < height + 1 /\ one.pos_y > 1

HeadOn(players) == Cell(players[1]) = Cell(players[2])

Survives(players, p) ==
  ~HeadOn(players) /\ Cell(players[p]) \notin board /\ InField(players[p])

(* set_players.                                                            *)
Start(p) ==
  [pos_x |-> (IF p = 1 THEN SCREEN_WIDTH \div 4
                       ELSE SCREEN_WIDTH - SCREEN_WIDTH \div 4) \div SIZE,
   pos_y |-> (SCREEN_HEIGHT \div 2) \div SIZE,
   direction |-> IF p = 1 THEN "d" ELSE "L",
   state |-> 1]

(* Mutant: the board keeps what the last game left.                         *)
NewGame_KeepsBoard ==
  /\ phase' = "play"
  /\ player' = [p \in Players |-> Start(p)]
  /\ board' = board
  /\ trail' = [p \in Players |-> {}]
  /\ due' = TRUE
  /\ UNCHANGED d

(* The beginning of play_tron.  The board is cleared up to column width - 1 *)
(* and row height - 1, while the field ends with column width, row height. *)
NewGame ==
  /\ phase' = "play"
  /\ player' = [p \in Players |-> Start(p)]
  /\ board' = {cell \in board : cell[1] >= width \/ cell[2] >= height}
  /\ trail' = [p \in Players |-> {}]
  /\ due' = TRUE
  /\ UNCHANGED d

-----------------------------------------------------------------------------
(* The static variables are zero, and ticks has moved on from 0 long since. *)
Init ==
  /\ phase = "shell"
  /\ player = [p \in Players |->
                 [pos_x |-> 0, pos_y |-> 0, direction |-> "other", state |-> 0]]
  /\ board = {}
  /\ due = FALSE
  /\ d = "other"
  /\ trail = [p \in Players |-> {}]

(* The command tron of the shell.                                          *)
Run == phase = "shell" /\ NewGame

(* sys_get_ticks, polled at the end of every round of the loop.            *)
Tick ==
  /\ phase = "play"
  /\ ~due
  /\ due' = TRUE
  /\ UNCHANGED <<phase, player, board, d, trail>>

(* Mutant: a player that is alive leaves no mark.                           *)
Judge_Unmarked(players) ==
  LET alive == {p \in Players : Survives(players, p)}
  IN  /\ player' = [p \in Players |->
                      [players[p] EXCEPT !.state = IF p \in alive THEN 1 ELSE 0]]
      /\ board' = board
      /\ trail' = [p \in Players |-> trail[p] \cup
                     (IF p \in alive THEN {Cell(players[p])} ELSE {})]
      /\ phase' = IF alive = Players THEN "play" ELSE "ask"

(* A player that is alive marks its cell.  Both cells differ when the board *)
(* is read, so that it does not matter who is judged first.                *)
Judge(players) ==
  LET alive == {p \in Players : Survives(players, p)}
  IN  /\ player' = [p \in Players |->
                      [players[p] EXCEPT !.state = IF p \in alive THEN 1 ELSE 0]]
      /\ board' = board \cup {Cell(players[p]) : p \in alive}
      /\ trail' = [p \in Players |-> trail[p] \cup
                     (IF p \in alive THEN {Cell(players[p])} ELSE {})]
      /\ phase' = IF alive = Players THEN "play" ELSE "ask"

(* One round of the loop; when it ends the loop, d is declared and not set. *)
Turn ==
  /\ phase = "play"
  /\ due
  /\ \E players \in Driven : Judge(players)
  /\ due' = FALSE
  /\ d' \in IF phase' = "ask" THEN Answers ELSE {d}

(* Keys are read until one is an answer; with an answer left in d by chance *)
(* nobody is asked.                                                        *)
Ask ==
  /\ phase = "ask"
  /\ d \notin {"y", "n"}
  /\ d' \in Answers
  /\ UNCHANGED <<phase, player, board, due, trail>>

Again == phase = "ask" /\ d = "y" /\ NewGame

Leave ==
  /\ phase = "ask"
  /\ d = "n"
  /\ phase' = "shell"
  /\ UNCHANGED <<player, board, due, d, trail>>

(* Ctrl-C ends the process; player1, player2 and board outlive it.         *)
CtrlC ==
  /\ phase # "shell"
  /\ phase' = "shell"
  /\ UNCHANGED <<player, board, due, d, trail>>

Next == Run \/ Tick \/ Turn \/ Ask \/ Again \/ Leave \/ CtrlC

(* The clock ticks, and the two players press keys.                        *)
Spec == Init /\ [][Next]_vars /\ WF_vars(Tick) /\ WF_vars(Turn)

-----------------------------------------------------------------------------
(* No position wraps below 0 or leaves the array: a turn moves a player    *)
(* three cells at most, of which two along one axis, and only a player on  *)
(* the field takes one (tron.c:42-112, 137-153).                           *)
IndicesInBoard ==
  \A p \in Players : /\ player[p].pos_x \in 0 .. width + 2
                     /\ player[p].pos_y \in 0 .. height + 2

(* A marked cell is on one of the trails of this game, of one player only, *)
(* and every cell of a trail is marked; but in the last column and row     *)
(* marks of earlier games stand, on which a player dies in a place that    *)
(* looks empty (tron.c:44, 126, 149-150).                                  *)
LastColumnOrRow == {cell \in board : cell[1] = width \/ cell[2] = height}

MarksAreTrails ==
  /\ trail[1] \cup trail[2] \subseteq board
  /\ trail[1] \cap trail[2] = {}
  /\ board \ (trail[1] \cup trail[2]) \subseteq LastColumnOrRow

(* Every game ends: each turn that leaves both players alive takes two     *)
(* cells from a finite field (tron.c:132-157).                             *)
GameEnds == phase = "play" ~> phase # "play"
=============================================================================
