------------------------------- MODULE KString -------------------------------
(***************************************************************************)
(* k_sprintf and the routines it is built from (kstring.c).  It goes       *)
(* through its format a character at a time and writes into a memory that  *)
(* holds whatever was there before: a string in memory ends in front of    *)
(* the first 0, wherever that is.                                          *)
(*                                                                         *)
(* A character is its code.  An argument is the sequence of the characters *)
(* of a string, or <<n>> for the int n.                                    *)
(***************************************************************************)
EXTENDS Integers, FiniteSets, SequencesExt

CONSTANTS
  Word,      \* ints are words modulo Word (2^32)
  Room,      \* characters of the memory k_sprintf writes to
  Formats,   \* the formats
  Strings,   \* arguments of %s
  Numbers    \* arguments of %d and %x

VARIABLES
  fmt, args, \* the call
  str,       \* memory
  rest,      \* what is left of the format
  va,        \* the arguments still to be taken
  len,       \* l: characters written
  done       \* k_sprintf has returned l

svars == <<fmt, args, str, rest, va, len, done>>

IntMin == -(Word \div 2)

\* No character of a string is 0.
ASSUME WordAssumption == Word \in Nat \ {0} /\ Word % 2 = 0
ASSUME CallsAssumption ==
  /\ Room \in Nat
  /\ Formats \cup Strings \subseteq Seq(Int \ {0})
  /\ Numbers \subseteq {<<n>> : n \in IntMin .. -IntMin - 1}

Percent == 37
CharS == 115
CharD == 100
CharX == 120
Minus == 45
Zero == 48

\* What is in memory before the call.
Stale == 1

-----------------------------------------------------------------------------
(* Strings and numbers.                                                    *)

k_strlen(m) == CHOOSE n \in DOMAIN m : m[n] = 0 /\ \A i \in 0 .. n - 1 : m[i] # 0

k_strcat(m, source) ==
  LET end == k_strlen(m)
  IN  [a \in DOMAIN m |->
         IF a \in end .. end + Len(source) - 1 THEN source[a - end + 1]
         ELSE IF a = end + Len(source) THEN 0 ELSE m[a]]

k_rev8(s, a, b) == [s EXCEPT ![a] = s[b], ![b] = s[a]]

\* Both ends move inwards until they meet.
k_memrev(s) ==
  LET swapped[i \in 0 .. Len(s) \div 2] ==
        IF i = 0 THEN s ELSE k_rev8(swapped[i - 1], i, Len(s) + 1 - i)
  IN  swapped[Len(s) \div 2]

\* The digit of a remainder; below 0 lies what is in memory before NUM_MAP.
NUM_MAP(r) == IF r < 0 THEN Stale ELSE IF r < 10 THEN Zero + r ELSE 55 + r

\* The remainders of the loop of divisions.
Remainders(num, base) ==
  LET loop[n \in Nat] == IF n = 0 THEN <<>> ELSE <<n % base>> \o loop[n \div base]
  IN  loop[num]

\* The characters of the loop, last digit first.  Division in C rounds towards
\* 0: the remainders of a number below 0 are those of its magnitude, below 0.
Digits(num, base) ==
  LET r == Remainders(IF num < 0 THEN -num ELSE num, base)
  IN  [k \in DOMAIN r |-> NUM_MAP(IF num < 0 THEN -r[k] ELSE r[k])]

k_utoa(num, base) == IF num = 0 THEN <<Zero>> ELSE k_memrev(Digits(num, base))

\* Deviation of k_itoa: the sign is put in front of the digits, and turned
\* round with them.
k_itoa_sign_first(num) ==
  IF num = 0 THEN <<Zero>>
  ELSE IF num > 0 THEN k_memrev(Digits(num, 10))
  ELSE k_memrev(<<Minus>> \o Digits(IF num = IntMin THEN num ELSE -num, 10))

\* To base 10.  The sign goes behind the last digit, to be turned round with
\* the digits; the negation of the least int is that int.
k_itoa(num) ==
  IF num = 0 THEN <<Zero>>
  ELSE IF num > 0 THEN k_memrev(Digits(num, 10))
  ELSE k_memrev(Append(Digits(IF num = IntMin THEN num ELSE -num, 10), Minus))

-----------------------------------------------------------------------------
(* Calls.                                                                  *)

\* Position i of f begins a conversion: it is a % that no % before it has
\* taken.
Begins(f, i) ==
  /\ f[i] = Percent
  /\ Cardinality({j \in 1 .. i - 1 : \A k \in j .. i - 1 : f[k] = Percent}) % 2 = 0

\* The conversion position i of f ends, 0 if it ends none.
Conversion(f, i) == IF i > 1 /\ Begins(f, i - 1) THEN f[i] ELSE 0

\* The positions up to i that end a conversion that takes an argument.
Taking(f, i) == {k \in 1 .. i : Conversion(f, k) \in {CharS, CharD, CharX}}

\* Callers pass an argument of the right type for each of them.
Arguments(f) ==
  {a \in [1 .. Cardinality(Taking(f, Len(f))) -> Strings \cup Numbers] :
     \A k \in Taking(f, Len(f)) :
       a[Cardinality(Taking(f, k))] \in IF f[k] = CharS THEN Strings ELSE Numbers}

SprintfInit ==
  /\ fmt \in Formats /\ args \in Arguments(fmt)
  /\ str = [a \in 0 .. Room - 1 |-> Stale]
  /\ rest = fmt /\ va = args
  /\ len = 0 /\ done = FALSE

-----------------------------------------------------------------------------
(* k_sprintf.                                                              *)

\* The next characters of the format are through.
Take(n) ==
  /\ rest' = SubSeq(rest, n + 1, Len(rest))
  /\ UNCHANGED <<fmt, args, done>>

\* str[l++] = ch
Char(ch) == str' = [str EXCEPT ![len] = ch] /\ len' = len + 1 /\ UNCHANGED va

\* Deviation of Text: the string is appended to what is in memory.
TextUnmarked(source) ==
  str' = k_strcat([str EXCEPT ![Room - 1] = 0], source) /\ len' = len + Len(source)

\* The end of the string is marked first, so that k_strcat finds it.
Text(source) == str' = k_strcat([str EXCEPT ![len] = 0], source) /\ len' = len + Len(source)

Convert(source) == Take(2) /\ va' = Tail(va) /\ Text(source)

Starts(c) == ~ done /\ Len(rest) >= 2 /\ rest[1] = Percent /\ rest[2] = c

PlainChar == rest # <<>> /\ rest[1] # Percent /\ Take(1) /\ Char(rest[1])
PercentChar == Starts(Percent) /\ Take(2) /\ Char(Percent)
ConvertString == Starts(CharS) /\ Convert(va[1])
ConvertInt == Starts(CharD) /\ Convert(k_itoa(va[1][1]))
ConvertHex == Starts(CharX) /\ Convert(k_utoa(va[1][1] % Word, 16))

\* A conversion the switch does not know is skipped.
Unknown ==
  /\ Len(rest) >= 2 /\ rest[1] = Percent /\ rest[2] \notin {Percent, CharS, CharD, CharX}
  /\ Take(2) /\ UNCHANGED <<str, va, len>>

\* The end of the format, also right behind a %.
End ==
  /\ rest \in {<<>>, <<Percent>>} /\ ~ done
  /\ str' = [str EXCEPT ![len] = 0] /\ done' = TRUE
  /\ UNCHANGED <<fmt, args, rest, va, len>>

Sprintf ==
  \/ PlainChar \/ PercentChar \/ ConvertString \/ ConvertInt \/ ConvertHex
  \/ Unknown \/ End

SprintfSpec == SprintfInit /\ [][Sprintf]_svars

-----------------------------------------------------------------------------
(* Properties.                                                             *)

Power(base, k) ==
  LET power[i \in Nat] == IF i = 0 THEN 1 ELSE base * power[i - 1]
  IN  power[k]

\* k is the number of digits of num.
IsWidth(k, num, base) == Power(base, k) > num /\ (k = 1 \/ Power(base, k - 1) <= num)

\* The numeral of num, digit by digit from the first.
Numeral(num, base) ==
  LET n == CHOOSE k \in 1 .. Word : IsWidth(k, num, base)
  IN  [k \in 1 .. n |-> NUM_MAP((num \div Power(base, n - k)) % base)]

\* What position i of the format contributes to the result.
Piece(i) ==
  LET arg == args[Cardinality(Taking(fmt, i))]  c == Conversion(fmt, i) IN
  CASE c = CharS -> arg
    [] c = CharD -> IF arg[1] < 0 THEN <<Minus>> \o Numeral(-arg[1], 10)
                    ELSE Numeral(arg[1], 10)
    [] c = CharX -> Numeral(arg[1] % Word, 16)
    [] c = Percent -> <<Percent>>
    [] c = 0 /\ ~ Begins(fmt, i) -> <<fmt[i]>>
    [] OTHER -> <<>>

Rendered == FlattenSeq([i \in DOMAIN fmt |-> Piece(i)])

\* k_sprintf returns the length of the text its format and arguments describe,
\* and, where there is room for it and for the 0 that ends it, with this text
\* in memory, whatever was in memory before.  The least int is excepted: it
\* has no negation (kstring.c:179, kstring.c:197-251).
FormatsAsSpecified ==
  done /\ (\A k \in DOMAIN args : args[k] # <<IntMin>>) =>
    /\ len = Len(Rendered)
    /\ len < Room => str[len] = 0 /\ \A k \in 1 .. len : str[k - 1] = Rendered[k]

\* A buffer of the length of the text and one more is enough: nothing behind
\* it is ever written, not even on the way (kstring.c:221, kstring.c:247-250).
WritesOnlyItsText ==
  \A a \in DOMAIN str : a > len => str[a] = Stale
=============================================================================
