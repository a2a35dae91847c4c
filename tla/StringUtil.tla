----------------------------- MODULE StringUtil -----------------------------
(***************************************************************************)
(* The conversions of the user land (string_util.c, inout.c, commands.c)   *)
(* between numbers and text.  A letter is its ASCII code and a string the  *)
(* sequence of its letters, without the final 0.                           *)
(***************************************************************************)
EXTENDS Integers, Sequences

Zero == 48
UpperA == 65
LowerA == 97
LowerX == 120

IsDigit(c) == c \in Zero .. Zero + 9
IsHexa(c) == IsDigit(c) \/ c \in UpperA .. UpperA + 5 \/ c \in LowerA .. LowerA + 5

(* The value of a sequence of digits in base b: the loop                   *)
(* res = res * b + digit.                                                  *)
InBase(b, digits) ==
  LET res[k \in 0 .. Len(digits)] ==
        IF k = 0 THEN 0 ELSE res[k - 1] * b + digits[k]
  IN  res[Len(digits)]

(* atoi: the digits the string begins with.                                *)
atoi(s) ==
  LET prefixes == {n \in 0 .. Len(s) : \A k \in 1 .. n : IsDigit(s[k])}
      longest == CHOOSE n \in prefixes : \A m \in prefixes : m <= n
  IN  InBase(10, [k \in 1 .. longest |-> s[k] - Zero])

(* Mutant: the digits come out in the wrong order.                          *)
itoa_Reversed(number) ==
  LET digits == CHOOSE d \in 1 .. 20 : /\ number \div 10 ^ d = 0
                                       /\ d = 1 \/ number \div 10 ^ (d - 1) # 0
  IN  IF digits = 1 THEN <<Zero, Zero + number>>
      ELSE [k \in 1 .. digits |-> Zero + ((number \div 10 ^ (k - 1)) % 10)]

(* itoa: a number of one digit gets a zero in front.                       *)
itoa(number) ==
  LET digits == CHOOSE d \in 1 .. 20 : /\ number \div 10 ^ d = 0
                                       /\ d = 1 \/ number \div 10 ^ (d - 1) # 0
  IN  IF digits = 1 THEN <<Zero, Zero + number>>
      ELSE [k \in 1 .. digits |-> Zero + ((number \div 10 ^ (digits - k)) % 10)]

(* check_mem: does the parameter of printmem look like an address?         *)
check_mem(s) ==
  /\ Len(s) >= 2 /\ s[1] = Zero /\ s[2] = LowerX
  /\ \A k \in 3 .. Len(s) : IsHexa(s[k])

(* hex_str_to_int: -1 stands for its result 0, "not converted".  Its test  *)
(* of the first two letters is an "or".                                    *)
HexDigit(c) == IF IsDigit(c) THEN c - Zero
               ELSE IF c >= LowerA THEN c - LowerA + 10 ELSE c - UpperA + 10
hex_str_to_int(s) ==
  LET start == IF s[1] = Zero \/ s[2] = LowerX THEN 2 ELSE 0
      digits == SelectSeq(SubSeq(s, start + 1, Len(s)), IsHexa)
  IN  IF Len(s) - start > 8 THEN -1
      ELSE InBase(16, [k \in 1 .. Len(digits) |-> HexDigit(digits[k])])

(* put_base in base 16: twelve digits, for a number that is not negative.  *)
put_base(num) ==
  LET rest[k \in 0 .. 11] == IF k = 0 THEN num ELSE rest[k - 1] \div 16
      digit(n) == IF n < 10 THEN Zero + n ELSE UpperA + n - 10
  IN  <<Zero, LowerX>> \o [k \in 1 .. 12 |-> digit(rest[12 - k] % 16)]

(* _str_cmp: the difference at the first place where the strings, final 0  *)
(* included, do not agree.                                                 *)
_str_cmp(a, b) ==
  LET letter(s, k) == IF k <= Len(s) THEN s[k] ELSE 0
      stops == {k \in 1 .. Len(a) + Len(b) + 1 :
                  letter(a, k) = 0 \/ letter(b, k) = 0 \/ letter(a, k) # letter(b, k)}
      stop == CHOOSE k \in stops : \A j \in stops : k <= j
  IN  letter(a, stop) - letter(b, stop)

(* get_format: a clock register holds two decimal digits of four bits.     *)
get_format(n) == ((n % 256) \div 16) * 10 + (n % 16)

(* do_get_time: three numbers, with colons over what itoa wrote behind     *)
(* the first two.                                                          *)
Colon == 58
do_get_time(hours, minutes, seconds) ==
  LET two(n) == SubSeq(itoa(get_format(n)), 1, 2)
  IN  two(hours) \o <<Colon>> \o two(minutes) \o <<Colon>> \o two(seconds)

-----------------------------------------------------------------------------
(* A reading of the same strings that has nothing of the code's loops.     *)
PositionalSum(b, digits) ==
  LET sum[k \in 0 .. Len(digits)] ==
        IF k = 0 THEN 0 ELSE sum[k - 1] + digits[k] * b ^ (Len(digits) - k)
  IN  sum[Len(digits)]

StringsUpTo(n, letters) == UNION {[1 .. m -> letters] : m \in 0 .. n}
Bcd(n) == (n \div 10) * 16 + (n % 10)

(* A number that is printed and read back is the same number, whatever its *)
(* length (string_util.c:34-66).                                           *)
NumbersReadBack == \A n \in 0 .. 1200 : atoi(itoa(n)) = n

(* What passes for an address is converted to the number it denotes, in    *)
(* either case of letters, although the test of its prefix is too lax      *)
(* (commands.c:78-91, string_util.c:8-32).                                 *)
AddressesConvert ==
  \A s \in StringsUpTo(5, {Zero, Zero + 9, LowerX, LowerA + 5, UpperA, UpperA + 6}) :
    check_mem(s) =>
      hex_str_to_int(s) =
        PositionalSum(16, [k \in 1 .. Len(s) - 2 |-> HexDigit(s[k + 2])])

(* What printf shows for %x is that number, in a form check_mem takes for  *)
(* an address (inout.c:196-217); hex_str_to_int refuses it as too long.    *)
HexIsReadable ==
  \A n \in 0 .. 300 \cup {16 ^ k - 1 : k \in 1 .. 7} :
    /\ check_mem(put_base(n)) /\ hex_str_to_int(put_base(n)) = -1
    /\ \A k \in 3 .. 7 : put_base(n)[k] = Zero
    /\ PositionalSum(16, [k \in 1 .. 7 |-> HexDigit(put_base(n)[k + 7])]) = n

(* Strings compare as equal only when they are (string_util.c:86-102).     *)
EqualIsEqual ==
  \A a, b \in StringsUpTo(3, {LowerA, LowerX}) : _str_cmp(a, b) = 0 <=> a = b

(* Any time of day is shown as two digits, colon, two digits, colon, two   *)
(* digits (inout.c:64-81).                                                 *)
TimeIsReadable ==
  \A h \in 0 .. 23, m \in {0, 7, 10, 59}, t \in {0, 9, 30} :
    LET text == do_get_time(Bcd(h), Bcd(m), Bcd(t))
    IN  /\ Len(text) = 8
        /\ atoi(text) = h /\ atoi(SubSeq(text, 4, 8)) = m /\ atoi(SubSeq(text, 7, 8)) = t

Conversions ==
  NumbersReadBack /\ AddressesConvert /\ HexIsReadable /\ EqualIsEqual /\ TimeIsReadable
=============================================================================
