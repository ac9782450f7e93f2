------------------------------- MODULE Numerals -------------------------------
(***************************************************************************)
(* The conversions behind %d, %x and %p: itoa of lib/stdio.c (EarlyLog and *)
(* kDebug), itoa and ptoa of lib/serial.c.  Characters are their codes.    *)
(* An int is as wide as IntMax says; % and / truncate towards zero, as in  *)
(* C, and the negation of the least int gives itself.                      *)
(***************************************************************************)
EXTENDS Integers, Sequences, SequencesExt

CONSTANT IntMax   \* INT_MAX, a power of 2 less 1

ASSUME NumeralsAssumption == IntMax \in Nat /\ IntMax > 0

IntMin == -IntMax - 1
Ints   == IntMin..IntMax
Bases  == {10, 16}

Quot(v, b) == IF v < 0 THEN -((-v) \div b) ELSE v \div b
Rem(v, b)  == v - b * Quot(v, b)
Negated(v) == IF v = IntMin THEN IntMin ELSE -v

VARIABLE number  \* an int, a base and what the conversions make of them

numVars == <<number>>

-----------------------------------------------------------------------------
Minus == 45
Zero  == 48

DigitShort(d) == IF d <= 10 THEN Zero + d ELSE 97 + d - 10

Digit(d) == IF d < 10 THEN Zero + d ELSE 97 + d - 10

(* The digits of v, the last one first; none for 0.  v is an int or an     *)
(* unsigned int.                                                           *)
UIntMax == 2 * IntMax + 1

Digits(v, b) ==
  LET digits[w \in -UIntMax..UIntMax] ==
        IF w = 0 THEN <<>> ELSE <<Digit(Rem(w, b))>> \o digits[Quot(w, b)]
  IN  digits[v]

Signed(v, b)    == v < 0 /\ b = 10
Magnitude(v, b) == IF Signed(v, b) THEN Negated(v) ELSE v
Sign(v, b)      == IF Signed(v, b) THEN <<Minus>> ELSE <<>>

(* stdio.c: do { } while takes one digit at least; reversed in place.      *)
stdio_itoa(v, b) ==
  LET m == Magnitude(v, b)
  IN  Reverse((IF m = 0 THEN <<Digit(0)>> ELSE Digits(m, b)) \o Sign(v, b))

(* serial.c: zero is a case of its own; copied in reverse.                 *)
serial_itoa(v, b) ==
  IF v = 0 THEN <<Zero>>
  ELSE Reverse(Digits(Magnitude(v, b), b) \o Sign(v, b))

(* A pointer is unsigned.                                                  *)
Unsigned(v) == IF v < 0 THEN v + 2 * (IntMax + 1) ELSE v

ptoa(p) == <<Zero, 120>> \o (IF p = 0 THEN <<Zero>> ELSE Reverse(Digits(p, 16)))

-----------------------------------------------------------------------------
Conversions(v, b) ==
  [val |-> v, base |-> b, stdio |-> stdio_itoa(v, b),
   serial |-> serial_itoa(v, b), pointer |-> ptoa(Unsigned(v))]

NumInit == number = Conversions(0, 10)

Convert(v, b) == number' = Conversions(v, b)

(* A conversion depends on its arguments only: one in each behaviour.      *)
NumNext ==
  /\ number.val = 0 /\ number.base = 10
  /\ \E v \in Ints, b \in Bases : Convert(v, b)

NumSpec == NumInit /\ [][NumNext]_numVars

-----------------------------------------------------------------------------
(* What a reader takes a string of digits for.                             *)
DigitValue(c) == IF c \in Zero..(Zero + 9) THEN c - Zero
                 ELSE IF c \in 97..102 THEN c - 87 ELSE -1

NumberRead(s, b) ==
  LET upTo[i \in 0..Len(s)] ==
        IF i = 0 THEN 0 ELSE upTo[i - 1] * b + DigitValue(s[i])
  IN  upTo[Len(s)]

ReadsAs(s, n, b) ==
  /\ Len(s) > 0
  /\ \A i \in DOMAIN s : DigitValue(s[i]) \in 0..(b - 1)
  /\ NumberRead(s, b) = n
  /\ s[1] = Zero => Len(s) = 1

(* The two itoas agree on every int; they print what they are given in     *)
(* base 10, except INT_MIN, and in base 16 what is not negative (for other *)
(* ints the digits come out below '0'); and ptoa prints every pointer.     *)
NumeralsAreRight ==
  LET n == number IN
    /\ n.stdio = n.serial
    /\ n.base = 10 /\ n.val > IntMin =>
         IF n.val >= 0 THEN ReadsAs(n.stdio, n.val, 10)
         ELSE Head(n.stdio) = Minus /\ ReadsAs(Tail(n.stdio), -n.val, 10)
    /\ n.base = 16 /\ n.val >= 0 => ReadsAs(n.stdio, n.val, 16)
    /\ ReadsAs(SubSeq(n.pointer, 3, Len(n.pointer)), Unsigned(n.val), 16)
=============================================================================
