----------------------------- MODULE TronProofs -----------------------------
(***************************************************************************)
(* Proofs about the game, for every size of the screen: no position leaves *)
(* the board, and the board shows the trails of the game and no others but *)
(* in its last column and row.                                             *)
(***************************************************************************)
EXTENDS Tron, TLAPS

USE TronAssumption DEF SIZE

Sideways(key) == Left(key) \/ Right(key)
Own(p) == {key \in Directions : Driver(key) = p}
Field == (2 .. width) \X (2 .. height)

Record == [pos_x : Nat, pos_y : Nat, direction : Directions \cup {"other"}, state : {0, 1}]

(* A player on the field, and where one key, two keys and a whole turn may *)
(* take it: two keys of one player are never both sideways, or both up or  *)
(* down, since the second is neither the direction nor its opposite.       *)
OnField(one) == one.pos_x \in 2 .. width /\ one.pos_y \in 2 .. height
AfterOneKey(one) ==
  IF Sideways(one.direction)
    THEN one.pos_x \in 1 .. width + 1 /\ one.pos_y \in 2 .. height
    ELSE one.pos_x \in 2 .. width /\ one.pos_y \in 1 .. height + 1
AfterTwoKeys(one) == one.pos_x \in 1 .. width + 1 /\ one.pos_y \in 1 .. height + 1
AfterTurn(one) == one.pos_x \in 0 .. width + 2 /\ one.pos_y \in 0 .. height + 2

Driving(players) ==
  /\ players \in [Players -> Record]
  /\ \A p \in Players : players[p].direction \in Own(p)

-----------------------------------------------------------------------------
LEMMA Dimensions ==
  /\ width \in Nat /\ width >= 6 /\ width + 2 < MAX_WIDTH /\ width + 3 < WORD
  /\ height \in Nat /\ height >= 2 /\ height + 2 < MAX_HEIGHT /\ height + 3 < WORD
  BY DEF width, height

(* Both players start on the field.                                        *)
LEMMA StartOnField ==
  ASSUME NEW p \in Players
  PROVE  Start(p) \in Record /\ OnField(Start(p)) /\ Start(p).direction \in Own(p)
<1>1. /\ (SCREEN_WIDTH \div 4) \div SIZE \in 2 .. width
      /\ (SCREEN_WIDTH - SCREEN_WIDTH \div 4) \div SIZE \in 2 .. width
      /\ (SCREEN_HEIGHT \div 2) \div SIZE \in 2 .. height
  BY DEF width, height
<1>2. "d" \in Own(1) /\ "L" \in Own(2)
  BY DEF Own, Directions, Driver
<1>3. p = 1 \/ p = 2
  BY DEF Players
<1>4. /\ Start(p).pos_x \in 2 .. width /\ Start(p).pos_y \in 2 .. height
      /\ Start(p).direction \in Own(p) /\ Start(p).state = 1
      /\ Start(p) = [pos_x |-> Start(p).pos_x, pos_y |-> Start(p).pos_y,
                     direction |-> Start(p).direction, state |-> Start(p).state]
  BY <1>1, <1>2, <1>3 DEF Start
<1>5. Start(p).pos_x \in Nat /\ Start(p).pos_y \in Nat /\ Start(p).direction \in Directions
  BY <1>4, Dimensions DEF Own
<1> HIDE DEF Start
<1> QED BY <1>4, <1>5 DEF Record, OnField

(* Within the board a position moves by one, and does not wrap.            *)
LEMMA OneCell ==
  ASSUME NEW n \in Nat, NEW pos \in 1 .. n + 1, n + 3 < WORD, NEW back \in BOOLEAN,
         NEW forth \in BOOLEAN
  PROVE  Shifted(pos, back, forth) =
           IF back THEN pos - 1 ELSE IF forth THEN pos + 1 ELSE pos
<1>1. (pos - 1 + WORD) % WORD = pos - 1
  <2>1. pos - 1 + WORD \in WORD .. 2 * WORD - 1
    OBVIOUS
  <2> DEFINE a == pos - 1 + WORD
  <2>2. a \in WORD .. 2 * WORD - 1 /\ WORD \in Nat \ {0}
    BY <2>1
  <2> HIDE DEF a
  <2>3. a % WORD = a - WORD
    BY <2>2, SMT
  <2> QED BY <2>3 DEF a
<1>2. (pos + 1) % WORD = pos + 1
  <2>1. pos + 1 \in 0 .. WORD - 1 /\ WORD \in Nat \ {0}
    OBVIOUS
  <2> DEFINE a == pos + 1
  <2> HIDE DEF a
  <2>2. a \in 0 .. WORD - 1
    BY <2>1 DEF a
  <2>3. a % WORD = a
    BY <2>1, <2>2, SMT
  <2> QED BY <2>3 DEF a
<1> QED BY <1>1, <1>2 DEF Shifted

(* A key turns a player to itself and moves it along its own axis.         *)
LEMMA Moves ==
  ASSUME NEW one \in Record, NEW key \in Directions, AfterTwoKeys(one)
  PROVE  /\ Moved(one, key) \in Record
         /\ Moved(one, key).direction = key
         /\ Moved(one, key).state = one.state
         /\ Sideways(key) => /\ Moved(one, key).pos_x \in one.pos_x - 1 .. one.pos_x + 1
                             /\ Moved(one, key).pos_y = one.pos_y
         /\ ~Sideways(key) => /\ Moved(one, key).pos_x = one.pos_x
                              /\ Moved(one, key).pos_y \in one.pos_y - 1 .. one.pos_y + 1
<1> DEFINE x == Shifted(one.pos_x, Left(key), Right(key))
           y == Shifted(one.pos_y, Up(key), Down(key))
<1>1. /\ Left(key) \in BOOLEAN /\ Right(key) \in BOOLEAN
      /\ Up(key) \in BOOLEAN /\ Down(key) \in BOOLEAN
  BY DEF Left, Right, Up, Down
<1>2. x = IF Left(key) THEN one.pos_x - 1 ELSE IF Right(key) THEN one.pos_x + 1 ELSE one.pos_x
  BY <1>1, OneCell, Dimensions DEF AfterTwoKeys
<1>3. y = IF Up(key) THEN one.pos_y - 1 ELSE IF Down(key) THEN one.pos_y + 1 ELSE one.pos_y
  BY <1>1, OneCell, Dimensions DEF AfterTwoKeys
<1>4. Sideways(key) <=> ~(Up(key) \/ Down(key))
  BY DEF Sideways, Left, Right, Up, Down, Directions
<1>5. Moved(one, key) = [one EXCEPT !.pos_x = x, !.pos_y = y, !.direction = key]
  BY DEF Moved
<1> HIDE DEF x, y
<1>6. /\ Moved(one, key).pos_x = x /\ Moved(one, key).pos_y = y
      /\ Moved(one, key).direction = key /\ Moved(one, key).state = one.state
  BY <1>5 DEF Record
<1>7. x \in Nat /\ y \in Nat
  BY <1>2, <1>3, Dimensions DEF AfterTwoKeys
<1>8. Moved(one, key) \in Record
  BY <1>5, <1>7 DEF Record
<1>9. /\ Sideways(key) => x \in one.pos_x - 1 .. one.pos_x + 1 /\ y = one.pos_y
      /\ ~Sideways(key) => x = one.pos_x /\ y \in one.pos_y - 1 .. one.pos_y + 1
  BY <1>2, <1>3, <1>4, Dimensions DEF AfterTwoKeys, Sideways
<1> QED BY <1>6, <1>8, <1>9

-----------------------------------------------------------------------------
LEMMA DriverDrives ==
  /\ \A key \in Directions : Driver(key) \in Players /\ key \in Own(Driver(key))
  /\ \A p \in Players : \A key \in Own(p) : key \in Directions /\ Driver(key) = p
  BY DEF Driver, Players, Own

(* One call of update_position, player by player.                          *)
LEMMA Updates ==
  ASSUME NEW players, Driving(players), NEW key \in Keys,
         key \in Directions => AfterTwoKeys(players[Driver(key)])
  PROVE  /\ Driving(update_position(players, key))
         /\ \A p \in Players :
              update_position(players, key)[p] =
                IF key \in Own(p) /\ players[p].direction # Opposite(key)
                  THEN Moved(players[p], key) ELSE players[p]
<1> DEFINE after == update_position(players, key)
<1>1. players \in [Players -> Record]
  BY DEF Driving
<1>2. CASE key \in Directions /\ players[Driver(key)].direction # Opposite(key)
  <2> DEFINE q == Driver(key)
  <2>1. q \in Players /\ key \in Own(q) /\ \A p \in Players : key \in Own(p) => p = q
    BY <1>2, DriverDrives
  <2>2. after = [players EXCEPT ![q] = Moved(players[q], key)]
    BY <1>2 DEF update_position
  <2> HIDE DEF q, after
  <2>3. Moved(players[q], key) \in Record /\ Moved(players[q], key).direction = key
    BY <1>1, <1>2, <2>1, Moves DEF q
  <2>4. after \in [Players -> Record] /\ after[q] = Moved(players[q], key)
        /\ \A p \in Players : p # q => after[p] = players[p]
    BY <1>1, <2>1, <2>2, <2>3
  <2>5. \A p \in Players : after[p].direction \in Own(p)
    BY <2>1, <2>3, <2>4 DEF Driving
  <2>6. \A p \in Players :
          after[p] = IF key \in Own(p) /\ players[p].direction # Opposite(key)
                       THEN Moved(players[p], key) ELSE players[p]
    BY <1>2, <2>1, <2>4 DEF q
  <2> QED BY <2>4, <2>5, <2>6 DEF Driving, after
<1>3. CASE ~(key \in Directions /\ players[Driver(key)].direction # Opposite(key))
  <2>1. after = players
    BY <1>3 DEF update_position
  <2>2. \A p \in Players : ~(key \in Own(p) /\ players[p].direction # Opposite(key))
    BY <1>3, DriverDrives
  <2> QED BY <2>1, <2>2
<1> QED BY <1>2, <1>3

(* A key that is neither the direction nor its opposite is a turn.         *)
LEMMA Turns ==
  ASSUME NEW p \in Players, NEW dir \in Own(p), NEW key \in Own(p),
         key # dir, dir # Opposite(key)
  PROVE  Sideways(key) <=> ~Sideways(dir)
<1>1. CASE p = 1
  <2>1. dir \in {"w", "a", "s", "d"} /\ key \in {"w", "a", "s", "d"}
    BY <1>1 DEF Own, Driver
  <2> QED BY <2>1 DEF Opposite, Sideways, Left, Right
<1>2. CASE p = 2
  <2>1. dir \in {"U", "D", "L", "R"} /\ key \in {"U", "D", "L", "R"}
    BY <1>2 DEF Own, Driver, Directions
  <2> QED BY <2>1 DEF Opposite, Sideways, Left, Right
<1> QED BY <1>1, <1>2 DEF Players

LEMMA NoOpposite == \A key \in Directions : key # Opposite(key)
  BY DEF Directions, Opposite

(* The three steps of a turn take the players where the predicates say.    *)
LEMMA Widen ==
  /\ \A one \in Record : OnField(one) => AfterOneKey(one)
  /\ \A one \in Record : AfterOneKey(one) => AfterTwoKeys(one)
  /\ \A one \in Record : AfterTwoKeys(one) => AfterTurn(one)
<1>1. \A one \in Record : OnField(one) => AfterOneKey(one)
  BY Dimensions DEF Record, OnField, AfterOneKey
<1>2. \A one \in Record : AfterOneKey(one) => AfterTwoKeys(one)
  BY Dimensions DEF Record, AfterOneKey, AfterTwoKeys
<1>3. \A one \in Record : AfterTwoKeys(one) => AfterTurn(one)
  BY Dimensions DEF Record, AfterTwoKeys, AfterTurn
<1> QED BY <1>1, <1>2, <1>3

LEMMA FirstKey ==
  ASSUME NEW players, Driving(players), \A p \in Players : OnField(players[p]),
         NEW c \in Keys
  PROVE  Driving(Press(players, c)) /\ \A p \in Players : AfterOneKey(Press(players, c)[p])
<1>1. \A p \in Players : players[p] \in Record
  BY DEF Driving
<1>2. \A p \in Players : AfterOneKey(players[p]) /\ AfterTwoKeys(players[p])
  BY <1>1, Widen
<1>3. CASE Press(players, c) = players
  BY <1>2, <1>3
<1>4. CASE Press(players, c) = update_position(players, c)
  <2>1. c \in Directions => AfterTwoKeys(players[Driver(c)])
    BY <1>2, DriverDrives
  <2>2. Driving(update_position(players, c))
    BY <2>1, Updates
  <2>3. ASSUME NEW p \in Players PROVE AfterOneKey(update_position(players, c)[p])
    <3> DEFINE now == update_position(players, c)[p]
    <3>1. now = players[p] \/ (c \in Own(p) /\ now = Moved(players[p], c))
      BY <2>1, Updates
    <3>2. CASE now = players[p]
      BY <1>2, <3>2
    <3>3. CASE c \in Own(p) /\ now = Moved(players[p], c)
      <4>1. c \in Directions /\ players[p] \in Record /\ AfterTwoKeys(players[p])
        BY <1>1, <1>2, <3>3, DriverDrives
      <4>2. /\ now.direction = c
            /\ Sideways(c) => /\ now.pos_x \in players[p].pos_x - 1 .. players[p].pos_x + 1
                              /\ now.pos_y = players[p].pos_y
            /\ ~Sideways(c) => /\ now.pos_x = players[p].pos_x
                               /\ now.pos_y \in players[p].pos_y - 1 .. players[p].pos_y + 1
        BY <3>3, <4>1, Moves
      <4> HIDE DEF now
      <4>3. OnField(players[p])
        OBVIOUS
      <4>4. AfterOneKey(now)
        BY <4>2, <4>3, Dimensions DEF OnField, AfterOneKey
      <4> QED BY <4>4 DEF now
    <3> QED BY <3>1, <3>2, <3>3
  <2> QED BY <1>4, <2>2, <2>3
<1> QED BY <1>3, <1>4 DEF Press

LEMMA SecondKey ==
  ASSUME NEW players, Driving(players), \A p \in Players : AfterOneKey(players[p]),
         NEW t \in Keys
  PROVE  Driving(Press(players, t)) /\ \A p \in Players : AfterTwoKeys(Press(players, t)[p])
<1>1. \A p \in Players : players[p] \in Record /\ players[p].direction \in Own(p)
  BY DEF Driving
<1>2. \A p \in Players : AfterTwoKeys(players[p])
  BY <1>1, Widen
<1>3. CASE Press(players, t) = players
  BY <1>2, <1>3
<1>4. CASE /\ Press(players, t) = update_position(players, t)
           /\ \A p \in Players : t # players[p].direction
  <2>1. t \in Directions => AfterTwoKeys(players[Driver(t)])
    BY <1>2, DriverDrives
  <2>2. Driving(update_position(players, t))
    BY <2>1, Updates
  <2>3. ASSUME NEW p \in Players PROVE AfterTwoKeys(update_position(players, t)[p])
    <3> DEFINE now == update_position(players, t)[p]
    <3>1. \/ now = players[p]
          \/ /\ t \in Own(p) /\ players[p].direction # Opposite(t)
             /\ now = Moved(players[p], t)
      BY <2>1, Updates
    <3>2. CASE now = players[p]
      BY <1>2, <3>2
    <3>3. CASE /\ t \in Own(p) /\ players[p].direction # Opposite(t)
               /\ now = Moved(players[p], t)
      <4>1. t \in Directions /\ players[p] \in Record /\ AfterTwoKeys(players[p])
        BY <1>1, <1>2, <3>3, DriverDrives
      <4>2. /\ Sideways(t) => /\ now.pos_x \in players[p].pos_x - 1 .. players[p].pos_x + 1
                              /\ now.pos_y = players[p].pos_y
            /\ ~Sideways(t) => /\ now.pos_x = players[p].pos_x
                               /\ now.pos_y \in players[p].pos_y - 1 .. players[p].pos_y + 1
        BY <3>3, <4>1, Moves
      <4>3. Sideways(t) <=> ~Sideways(players[p].direction)
        BY <1>1, <1>4, <3>3, Turns
      <4>4. AfterOneKey(players[p])
        OBVIOUS
      <4> HIDE DEF now
      <4>5. AfterTwoKeys(now)
        BY <4>2, <4>3, <4>4, Dimensions DEF AfterOneKey, AfterTwoKeys
      <4> QED BY <4>5 DEF now
    <3> QED BY <3>1, <3>2, <3>3
  <2> QED BY <1>4, <2>2, <2>3
<1> QED BY <1>3, <1>4 DEF Press

LEMMA MovesOn ==
  ASSUME NEW players, Driving(players), NEW p \in Players, AfterTwoKeys(players[p])
  PROVE  /\ Driving(Onward(players, p))
         /\ AfterTurn(Onward(players, p)[p])
         /\ \A q \in Players : q # p => Onward(players, p)[q] = players[q]
<1> DEFINE key == players[p].direction
           after == Onward(players, p)
<1>1. key \in Own(p) /\ key \in Directions /\ Driver(key) = p /\ players[p] \in Record
  BY DriverDrives DEF Driving
<1>2. key \in Keys /\ key # Opposite(key)
  BY <1>1, NoOpposite DEF Keys
<1>3. after = update_position(players, key)
  BY DEF Onward
<1> HIDE DEF after
<1>4. /\ Driving(after)
      /\ \A q \in Players :
           after[q] = IF key \in Own(q) /\ players[q].direction # Opposite(key)
                        THEN Moved(players[q], key) ELSE players[q]
  <2> HIDE DEF key
  <2> QED BY <1>1, <1>2, <1>3, Updates
<1>5. after[p] = Moved(players[p], key)
  BY <1>1, <1>2, <1>4
<1>6. \A q \in Players : q # p => after[q] = players[q]
  BY <1>1, <1>4, DriverDrives
<1>7. AfterTurn(after[p])
  <2>1. /\ after[p].pos_x \in players[p].pos_x - 1 .. players[p].pos_x + 1
        /\ after[p].pos_y \in players[p].pos_y - 1 .. players[p].pos_y + 1
    <3>1. players[p].pos_x \in Nat /\ players[p].pos_y \in Nat
      BY <1>1 DEF Record
    <3> HIDE DEF key
    <3> QED BY <1>1, <1>5, <3>1, Moves
  <2> QED BY <2>1, Dimensions DEF AfterTwoKeys, AfterTurn
<1> QED BY <1>4, <1>6, <1>7 DEF after

(* Whatever keys are read, a turn from the field stays on the board.       *)
LEMMA DrivenStays ==
  ASSUME Driving(player), \A p \in Players : OnField(player[p]), NEW now \in Driven
  PROVE  Driving(now) /\ \A p \in Players : AfterTurn(now[p])
<1>1. PICK c \in Keys, t \in Keys :
        now = Onward(Onward(Press(Press(player, c), t), 1), 2)
  BY DEF Driven, Pressed
<1> DEFINE two == Press(Press(player, c), t)
           first == Onward(two, 1)
<1>2. Driving(two) /\ \A p \in Players : AfterTwoKeys(two[p])
  BY FirstKey, SecondKey
<1> HIDE DEF two
<1>3. 1 \in Players /\ 2 \in Players /\ \A p \in Players : p = 1 \/ p = 2
  BY DEF Players
<1>4. Driving(first) /\ AfterTurn(first[1]) /\ first[2] = two[2]
  BY <1>2, <1>3, MovesOn
<1> HIDE DEF first
<1>5. Driving(Onward(first, 2)) /\ AfterTurn(Onward(first, 2)[2]) /\ Onward(first, 2)[1] = first[1]
  BY <1>2, <1>3, <1>4, MovesOn
<1>6. now = Onward(first, 2)
  BY <1>1 DEF first, two
<1> QED BY <1>3, <1>4, <1>5, <1>6
-----------------------------------------------------------------------------
(* The invariant: while the loop runs both players are on the field, and   *)
(* every mark is in it, so that what a new game does not clear is in its   *)
(* last column and row.                                                    *)
PlayersStand ==
  /\ phase \in {"shell", "play", "ask"}
  /\ player \in [Players -> Record]
  /\ \A p \in Players : AfterTurn(player[p])
  /\ phase = "play" => Driving(player) /\ \A p \in Players : OnField(player[p])

MarksInField ==
  /\ board \subseteq Field
  /\ trail[1] \cap trail[2] = {}
  /\ trail \in [Players -> SUBSET board]
  /\ \A cell \in board : cell \in trail[1] \/ cell \in trail[2]
                         \/ cell[1] = width \/ cell[2] = height

IInv == PlayersStand /\ MarksInField

LEMMA Pair == 1 \in Players /\ 2 \in Players /\ \A p \in Players : p = 1 \/ p = 2
  BY DEF Players

LEMMA InitEstablishesIInv == Init => IInv
<1> SUFFICES ASSUME Init PROVE IInv
  OBVIOUS
<1>1. PlayersStand
  <2>1. [pos_x |-> 0, pos_y |-> 0, direction |-> "other", state |-> 0] \in Record
    BY DEF Record
  <2> QED BY <2>1, Dimensions DEF Init, PlayersStand, AfterTurn
<1>2. MarksInField
  BY Pair DEF Init, MarksInField
<1> QED BY <1>1, <1>2 DEF IInv

(* A new game puts both players on the field and clears all marks but those *)
(* of the last column and row.                                             *)
LEMMA NewGameKeepsIInv == IInv /\ NewGame => IInv'
<1> SUFFICES ASSUME IInv, NewGame PROVE IInv'
  OBVIOUS
<1> HIDE DEF Start
<1>1. /\ phase' = "play"
      /\ player' = [p \in Players |-> Start(p)]
      /\ board' = {cell \in board : cell[1] >= width \/ cell[2] >= height}
      /\ trail' = [p \in Players |-> {}]
  BY DEF NewGame
<1>2. \A p \in Players : player'[p] = Start(p)
  BY <1>1
<1>3. Driving(player') /\ \A p \in Players : OnField(player'[p])
  BY <1>1, <1>2, StartOnField DEF Driving
<1>4. \A p \in Players : player'[p] \in Record /\ AfterTurn(player'[p])
  BY <1>3, Widen DEF Driving
<1>5. PlayersStand'
  BY <1>1, <1>3, <1>4 DEF PlayersStand, Driving
<1>6. board' \subseteq Field
  BY <1>1 DEF IInv, MarksInField
<1>7. \A cell \in board' : cell[1] = width \/ cell[2] = height
  BY <1>1, <1>6, Dimensions DEF Field
<1>8. MarksInField'
  BY <1>1, <1>6, <1>7, Pair DEF MarksInField
<1> QED BY <1>5, <1>8 DEF IInv

(* A player that survives is on the field, and on a cell without a mark,   *)
(* which is not the other's.                                               *)
LEMMA SurvivorsStand ==
  ASSUME NEW players \in [Players -> Record], NEW p \in Players, Survives(players, p)
  PROVE  /\ OnField(players[p]) /\ Cell(players[p]) \in Field
         /\ Cell(players[p]) \notin board
         /\ Cell(players[1]) # Cell(players[2])
<1>1. players[p].pos_x \in Nat /\ players[p].pos_y \in Nat
  BY DEF Record
<1>2. InField(players[p])
  BY DEF Survives
<1>3. OnField(players[p])
  BY <1>1, <1>2, Dimensions DEF InField, OnField
<1> QED BY <1>3 DEF Survives, HeadOn, Cell, Field, OnField

LEMMA TurnKeepsIInv == IInv /\ Turn => IInv'
<1> SUFFICES ASSUME IInv, Turn PROVE IInv'
  OBVIOUS
<1>1. Driving(player) /\ \A p \in Players : OnField(player[p])
  BY DEF Turn, IInv, PlayersStand
<1>2. PICK now \in Driven : Judge(now)
  BY DEF Turn
<1>3. Driving(now) /\ \A p \in Players : AfterTurn(now[p])
  BY <1>1, DrivenStays
<1>4. now \in [Players -> Record] /\ \A p \in Players : now[p].direction \in Own(p)
  BY <1>3 DEF Driving
<1> DEFINE alive == {p \in Players : Survives(now, p)}
<1>5. /\ player' = [p \in Players |->
                     [now[p] EXCEPT !.state = IF p \in alive THEN 1 ELSE 0]]
      /\ board' = board \cup {Cell(now[p]) : p \in alive}
      /\ trail' = [p \in Players |->
                     trail[p] \cup (IF p \in alive THEN {Cell(now[p])} ELSE {})]
      /\ phase' = IF alive = Players THEN "play" ELSE "ask"
  BY <1>2 DEF Judge
<1>6. \A p \in alive : /\ p \in Players /\ OnField(now[p]) /\ Cell(now[p]) \in Field
                       /\ Cell(now[p]) \notin board
                       /\ Cell(now[1]) # Cell(now[2])
  BY <1>4, SurvivorsStand
<1> HIDE DEF alive
<1>7. \A p \in Players : /\ player'[p] \in Record
                         /\ player'[p].pos_x = now[p].pos_x
                         /\ player'[p].pos_y = now[p].pos_y
                         /\ player'[p].direction = now[p].direction
  BY <1>4, <1>5 DEF Record
<1>8. PlayersStand'
  <2>1. phase' \in {"shell", "play", "ask"}
    BY <1>5
  <2>2. player' \in [Players -> Record]
    BY <1>5, <1>7
  <2>3. \A p \in Players : AfterTurn(player'[p])
    BY <1>3, <1>7 DEF AfterTurn
  <2>4. ASSUME phase' = "play"
        PROVE  Driving(player') /\ \A p \in Players : OnField(player'[p])
    <3>1. alive = Players
      BY <1>5, <2>4
    <3>2. \A p \in Players : OnField(player'[p])
      BY <1>6, <1>7, <3>1 DEF OnField
    <3>3. \A p \in Players : player'[p].direction \in Own(p)
      BY <1>4, <1>7
    <3> QED BY <2>2, <3>2, <3>3 DEF Driving
  <2> QED BY <2>1, <2>2, <2>3, <2>4 DEF PlayersStand
<1>9. MarksInField'
  <2>1. board' \subseteq Field
    BY <1>5, <1>6 DEF IInv, MarksInField
  <2>2. \A p \in Players :
          trail'[p] = trail[p] \cup (IF p \in alive THEN {Cell(now[p])} ELSE {})
    BY <1>5
  <2>3. trail[1] \subseteq board /\ trail[2] \subseteq board /\ trail[1] \cap trail[2] = {}
    BY Pair DEF IInv, MarksInField
  <2>4. trail'[1] \cap trail'[2] = {}
    BY <1>6, <2>2, <2>3, Pair
  <2>5. \A p \in Players : trail'[p] \subseteq board'
    BY <1>5, <2>2, <2>3, Pair
  <2>6. trail' \in [Players -> SUBSET board']
    BY <1>5, <2>2, <2>5
  <2>7. \A cell \in board' : cell \in trail'[1] \/ cell \in trail'[2]
                             \/ cell[1] = width \/ cell[2] = height
    <3>1. ASSUME NEW cell \in board
          PROVE  cell \in trail'[1] \/ cell \in trail'[2]
                 \/ cell[1] = width \/ cell[2] = height
      BY <2>2, Pair DEF IInv, MarksInField
    <3>2. ASSUME NEW p \in alive
          PROVE  Cell(now[p]) \in trail'[1] \/ Cell(now[p]) \in trail'[2]
      BY <1>6, <2>2, Pair
    <3> QED BY <1>5, <3>1, <3>2
  <2> QED BY <2>1, <2>4, <2>6, <2>7 DEF MarksInField
<1> QED BY <1>8, <1>9 DEF IInv

LEMMA NextKeepsIInv == IInv /\ [Next]_vars => IInv'
<1> SUFFICES ASSUME IInv, [Next]_vars PROVE IInv'
  OBVIOUS
<1>1. CASE Run
  BY <1>1, NewGameKeepsIInv DEF Run
<1>2. CASE Tick
  BY <1>2 DEF Tick, IInv, PlayersStand, MarksInField
<1>3. CASE Turn
  BY <1>3, TurnKeepsIInv
<1>4. CASE Ask
  BY <1>4 DEF Ask, IInv, PlayersStand, MarksInField
<1>5. CASE Again
  BY <1>5, NewGameKeepsIInv DEF Again
<1>6. CASE Leave
  BY <1>6 DEF Leave, IInv, PlayersStand, MarksInField
<1>7. CASE CtrlC
  BY <1>7 DEF CtrlC, IInv, PlayersStand, MarksInField
<1>8. CASE UNCHANGED vars
  BY <1>8 DEF vars, IInv, PlayersStand, MarksInField
<1> QED BY <1>1, <1>2, <1>3, <1>4, <1>5, <1>6, <1>7, <1>8 DEF Next

THEOREM IInvHolds == Spec => []IInv
  BY InitEstablishesIInv, NextKeepsIInv, PTL DEF Spec

(* For every screen the board has room for, no position ever wraps below 0 *)
(* or leaves the array, whatever keys are pressed (tron.c:42-112).         *)
THEOREM PositionsStayOnBoard == Spec => []IndicesInBoard
<1>1. IInv => IndicesInBoard
  BY DEF IInv, PlayersStand, AfterTurn, IndicesInBoard
<1> QED BY <1>1, IInvHolds, PTL

(* For every screen, the board shows the trails of the current game, each  *)
(* cell on one of them only, and marks of earlier games in its last column *)
(* and row alone (tron.c:44, 126, 149-150).                                *)
THEOREM BoardShowsTrails == Spec => []MarksAreTrails
<1>1. IInv => MarksAreTrails
  BY Pair DEF IInv, MarksInField, MarksAreTrails, LastColumnOrRow
<1> QED BY <1>1, IInvHolds, PTL
=============================================================================
