--------------------------- MODULE DisplayProofs ---------------------------
(***************************************************************************)
(* Proofs about what the kernel shows: KString, which makes the text, and  *)
(* Gui, which draws.                                                       *)
(*                                                                         *)
(* k_sprintf makes the text its format and arguments describe and writes   *)
(* nothing behind it, for every format, all arguments, every width of an   *)
(* int and any room.  In text mode, for a screen of any size, any number   *)
(* of tasks and messages of any length, the cursor is on the screen        *)
(* whenever the character of a task, its message or the interrupts'        *)
(* messages is complete, and no character goes further than one line       *)
(* below.  In graphics mode, for any number of layers and places, the      *)
(* screen shows the highest layer everywhere until a call parts the stack  *)
(* and the heights.                                                        *)
(***************************************************************************)
EXTENDS Gui, KString, FiniteSetTheorems, SequenceTheorems, WellFoundedInduction, TLAPS

-----------------------------------------------------------------------------
(* The inductive invariant of Gui.                                         *)

\* A line a task has read and is still going to use was a line of the screen.
HeldLines == \A t \in Task : pc[t] \in {"carryY", "write", "paint", "setY"} => reg[t] < Lines

\* The cursor is never past both ends at once.
OneEndAtATime == y <= Lines /\ (x >= Columns => y < Lines)

\* The inductive invariant of Console.
IInv == TypeOK /\ CursorOnScreen /\ WritesNearScreen /\ HeldLines /\ OneEndAtATime

\* What Console and Layers keep, each by itself; Layers until it is misused.
GuiIInv == IInv /\ misused \in Nat /\ (misused = 0 => L!LayersInv)

-----------------------------------------------------------------------------
(* Least elements, which stand in for induction.                             *)

Less == {pair \in Nat \X Nat : pair[1] < pair[2]}

LEMMA LeastNumber ==
  ASSUME NEW S \in SUBSET Nat, S # {}
  PROVE  \E m \in S : \A k \in S : m <= k
<1>0. OpToRel(<, Nat) = Less
  BY DEF OpToRel, Less
<1>1. \A i, j \in Nat : <<j, i>> \in Less <=> j < i
  BY DEF Less
<1>2. PICK m \in S : \A k \in S : <<k, m>> \notin Less
  BY <1>0, NatLessThanWellFounded, WFMin
<1>3. \A k \in S : ~(k < m) /\ m \in Nat /\ k \in Nat
  BY <1>1, <1>2
<1>4. \A k \in S : m <= k
  BY <1>3
<1> QED BY <1>4

-----------------------------------------------------------------------------
(* Recursion.                                                                *)

\* f holds the first n + 1 values of the recursion from c by g.
Iterates(f, c, g, V, n) ==
  /\ f \in [0 .. n -> V] /\ f[0] = c
  /\ \A k \in 1 .. n : f[k] = g[k][f[k - 1]]

\* Every recursion over the naturals has a solution.
LEMMA IteratesExist ==
  ASSUME NEW V, NEW c \in V, NEW g \in [Nat -> [V -> V]], NEW n \in Nat
  PROVE  \E f : Iterates(f, c, g, V, n)
<1> DEFINE Bad == {m \in Nat : ~ \E f : Iterates(f, c, g, V, m)}
<1>1. ASSUME n \in Bad PROVE FALSE
  <2>1. PICK m \in Bad : \A k \in Bad : m <= k
    BY <1>1, LeastNumber
  <2>2. CASE m = 0
    <3>1. Iterates([k \in 0 .. 0 |-> c], c, g, V, 0)
      BY DEF Iterates
    <3> QED BY <2>1, <2>2, <3>1
  <2>3. CASE m # 0
    <3>1. m \in Nat /\ m - 1 \in Nat /\ m - 1 \notin Bad
      BY <2>1, <2>3
    <3>2. PICK f : Iterates(f, c, g, V, m - 1)
      BY <3>1
    <3>3. f[m - 1] \in V /\ f \in [0 .. m - 1 -> V]
      BY <3>1, <3>2 DEF Iterates
    <3> DEFINE last == g[m][f[m - 1]]
               d == [k \in 0 .. m |-> IF k = m THEN last ELSE f[k]]
    <3>4. last \in V
      <4>1. g[m] \in [V -> V]
        BY <3>1
      <4> QED BY <3>3, <4>1
    <3> HIDE DEF last
    <3>5. Iterates(d, c, g, V, m)
      <4>1. d \in [0 .. m -> V] /\ d[0] = c
        BY <2>3, <3>1, <3>2, <3>3, <3>4 DEF Iterates
      <4>2. ASSUME NEW k \in 1 .. m PROVE d[k] = g[k][d[k - 1]]
        <5>1. CASE k = m
          <6>1. d[k] = last /\ d[k - 1] = f[m - 1]
            BY <3>1, <5>1
          <6> QED BY <5>1, <6>1 DEF last
        <5>2. CASE k # m
          <6>1. k \in 1 .. m - 1 /\ d[k] = f[k] /\ d[k - 1] = f[k - 1]
            BY <3>1, <5>2
          <6> QED BY <3>2, <6>1 DEF Iterates
        <5> QED BY <5>1, <5>2
      <4> HIDE DEF d
      <4> QED BY <4>1, <4>2 DEF Iterates
    <3> QED BY <2>1, <3>5
  <2> QED BY <2>2, <2>3
<1> QED BY <1>1

\* Two such functions agree as far as both go.
LEMMA IteratesAgree ==
  ASSUME NEW V, NEW c, NEW g, NEW n \in Nat, NEW f, Iterates(f, c, g, V, n),
         NEW m \in Nat, NEW h, Iterates(h, c, g, V, m),
         NEW k \in Nat, k <= n, k <= m
  PROVE  f[k] = h[k]
<1> DEFINE Bad == {i \in Nat : i <= n /\ i <= m /\ f[i] # h[i]}
<1>1. ASSUME k \in Bad PROVE FALSE
  <2>1. PICK i \in Bad : \A j \in Bad : i <= j
    BY <1>1, LeastNumber
  <2>2. i # 0
    BY <2>1 DEF Iterates
  <2>3. i - 1 \in Nat /\ i - 1 <= n /\ i - 1 <= m /\ i - 1 \notin Bad /\ i \in 1 .. n /\ i \in 1 .. m
    BY <2>1, <2>2
  <2>4. f[i - 1] = h[i - 1]
    BY <2>3
  <2>5. f[i] = g[i][f[i - 1]] /\ h[i] = g[i][h[i - 1]]
    BY <2>3 DEF Iterates
  <2> QED BY <2>1, <2>4, <2>5
<1> QED BY <1>1

LEMMA Recursion ==
  ASSUME NEW V, NEW c \in V, NEW g \in [Nat -> [V -> V]]
  PROVE  \E f \in [Nat -> V] : f[0] = c /\ \A k \in Nat : f[k + 1] = g[k + 1][f[k]]
<1> DEFINE part(n) == CHOOSE f : Iterates(f, c, g, V, n)
           whole == [n \in Nat |-> part(n)[n]]
<1>1. ASSUME NEW n \in Nat PROVE Iterates(part(n), c, g, V, n)
  <2>1. \E f : Iterates(f, c, g, V, n)
    BY IteratesExist
  <2> QED BY <2>1
<1> HIDE DEF part
<1>2. ASSUME NEW n \in Nat PROVE part(n)[n] \in V
  BY <1>1 DEF Iterates
<1>3. whole \in [Nat -> V]
  BY <1>2
<1>4. part(0)[0] = c
  <2>1. Iterates(part(0), c, g, V, 0)
    BY <1>1
  <2> QED BY <2>1 DEF Iterates
<1>5. ASSUME NEW k \in Nat PROVE part(k + 1)[k + 1] = g[k + 1][part(k)[k]]
  <2>1. k + 1 \in Nat /\ k + 1 \in 1 .. k + 1 /\ (k + 1) - 1 = k
    OBVIOUS
  <2>2. Iterates(part(k + 1), c, g, V, k + 1) /\ Iterates(part(k), c, g, V, k)
    BY <1>1, <2>1
  <2>3. part(k + 1)[k + 1] = g[k + 1][part(k + 1)[k]]
    BY <2>1, <2>2 DEF Iterates
  <2>4. part(k + 1)[k] = part(k)[k]
    BY <2>1, <2>2, IteratesAgree
  <2> QED BY <2>3, <2>4
<1>6. whole[0] = c /\ \A k \in Nat : whole[k + 1] = g[k + 1][whole[k]]
  BY <1>4, <1>5
<1> HIDE DEF whole
<1> QED BY <1>3, <1>6

-----------------------------------------------------------------------------
(* Arithmetic.                                                               *)

LEMMA Product ==
  ASSUME NEW a \in Nat, NEW b \in Nat, NEW c \in Nat, a <= b
  PROVE  c * a <= c * b /\ c * a \in Nat /\ c * b \in Nat
<1>1. PICK d \in Nat : b = a + d
  <2>1. b - a \in Nat /\ b = a + (b - a)
    OBVIOUS
  <2> QED BY <2>1
<1>2. c * b = c * a + c * d /\ c * d \in Nat /\ c * a \in Nat
  BY <1>1
<1> QED BY <1>2

LEMMA Division ==
  ASSUME NEW m \in Nat, NEW d \in Nat \ {0}
  PROVE  /\ m \div d \in Nat /\ m % d \in 0 .. d - 1
         /\ m = d * (m \div d) + (m % d)
         /\ d * (m \div d) <= m /\ m < d * (m \div d) + d
<1>1. m \div d \in Nat /\ m % d \in 0 .. d - 1
  OBVIOUS
<1>2. m = d * (m \div d) + (m % d)
  OBVIOUS
<1>3. PICK q \in Nat, r \in Nat : q = d * (m \div d) /\ r = m % d
  BY <1>1
<1>4. m = q + r /\ 0 <= r /\ r < d
  BY <1>1, <1>2, <1>3
<1>5. q <= m /\ m < q + d
  BY <1>3, <1>4
<1> QED BY <1>1, <1>2, <1>3, <1>5

LEMMA DivisionUnique ==
  ASSUME NEW m \in Nat, NEW d \in Nat \ {0}, NEW q \in Nat, d * q <= m, m < d * q + d
  PROVE  m \div d = q
<1> DEFINE e == m \div d
<1>1. e \in Nat /\ d * e <= m /\ m < d * e + d
  BY Division
<1> HIDE DEF e
<1>2. ASSUME e < q PROVE FALSE
  <2>1. d * (e + 1) <= d * q
    BY <1>1, <1>2, Product
  <2>2. d * (e + 1) = d * e + d
    BY <1>1
  <2>3. d * e \in Nat /\ d * q \in Nat
    BY <1>1
  <2> QED BY <1>1, <2>1, <2>2, <2>3
<1>3. ASSUME q < e PROVE FALSE
  <2>1. d * (q + 1) <= d * e
    BY <1>1, <1>3, Product
  <2>2. d * (q + 1) = d * q + d
    OBVIOUS
  <2>3. d * e \in Nat /\ d * q \in Nat
    BY <1>1
  <2> QED BY <1>1, <2>1, <2>2, <2>3
<1>4. e = q
  BY <1>1, <1>2, <1>3
<1> QED BY <1>4 DEF e

LEMMA DivisionTwice ==
  ASSUME NEW m \in Nat, NEW b \in Nat \ {0}, NEW p \in Nat \ {0}
  PROVE  (m \div b) \div p = m \div (b * p)
<1>1. PICK q \in Nat : q = m \div b /\ b * q <= m /\ m < b * q + b
  BY Division
<1>2. PICK r \in Nat : r = q \div p /\ p * r <= q /\ q < p * r + p
  BY Division
<1>3. PICK t \in Nat : t = p * r
  BY <1>2
<1>4. b * t <= b * q /\ b * (q + 1) <= b * (t + p)
  BY <1>2, <1>3, Product
<1>5. b * (q + 1) = b * q + b /\ b * (t + p) = b * t + b * p
  BY <1>3
<1>6. b * t \in Nat /\ b * q \in Nat /\ b * p \in Nat
  OBVIOUS
<1>7. b * t <= m /\ m < b * t + b * p
  BY <1>1, <1>4, <1>5, <1>6
<1>8. b * t = (b * p) * r /\ b * p \in Nat \ {0}
  BY <1>3
<1>9. m \div (b * p) = r
  BY <1>7, <1>8, DivisionUnique
<1> QED BY <1>1, <1>2, <1>9

-----------------------------------------------------------------------------
(* Powers.                                                                   *)

LEMMA Powers ==
  ASSUME NEW base \in Nat \ {0}
  PROVE  /\ Power(base, 0) = 1
         /\ \A k \in Nat : Power(base, k) \in Nat \ {0} /\ Power(base, k + 1) = base * Power(base, k)
<1> DEFINE V == Nat \ {0}
           g == [k \in Nat |-> [v \in V |-> base * v]]
           Def(f) == [i \in Nat |-> IF i = 0 THEN 1 ELSE base * f[i - 1]]
           power == CHOOSE f : f = Def(f)
<1>1. g \in [Nat -> [V -> V]] /\ 1 \in V
  <2>1. \A v \in V : base * v \in V
    OBVIOUS
  <2> QED BY <2>1
<1>2. \A k \in Nat, v \in V : g[k][v] = base * v
  OBVIOUS
<1> HIDE DEF g, V
<1>3. PICK f \in [Nat -> V] : f[0] = 1 /\ \A k \in Nat : f[k + 1] = g[k + 1][f[k]]
  <2>1. \A c \in V, h \in [Nat -> [V -> V]] :
          \E f \in [Nat -> V] : f[0] = c /\ \A k \in Nat : f[k + 1] = h[k + 1][f[k]]
    BY Recursion
  <2> QED BY <1>1, <2>1
<1> USE DEF V
<1>4. f = Def(f)
  <2>1. ASSUME NEW i \in Nat PROVE f[i] = IF i = 0 THEN 1 ELSE base * f[i - 1]
    <3>1. CASE i = 0
      BY <1>3, <3>1
    <3>2. CASE i # 0
      <4>1. i - 1 \in Nat /\ (i - 1) + 1 = i /\ f[i - 1] \in V
        BY <1>3, <3>2
      <4>2. f[(i - 1) + 1] = g[(i - 1) + 1][f[i - 1]]
        BY <1>3, <4>1
      <4> QED BY <1>2, <3>2, <4>1, <4>2
    <3> QED BY <3>1, <3>2
  <2>2. f = [i \in Nat |-> f[i]]
    BY <1>3
  <2> QED BY <2>1, <2>2
<1>5. power = Def(power)
  BY <1>4
<1>6. \A k : Power(base, k) = power[k]
  BY DEF Power
<1> HIDE DEF power
<1>7. power[0] = 1 /\ \A k \in Nat : power[k + 1] = base * power[k]
  <2>1. \A i \in Nat : power[i] = IF i = 0 THEN 1 ELSE base * power[i - 1]
    BY <1>5
  <2>2. ASSUME NEW k \in Nat PROVE power[k + 1] = base * power[k]
    <3>1. k + 1 \in Nat /\ k + 1 # 0 /\ (k + 1) - 1 = k
      OBVIOUS
    <3> QED BY <2>1, <3>1
  <2> QED BY <2>1, <2>2
<1>8. ASSUME NEW k \in Nat PROVE power[k] \in V
  <2> DEFINE Bad == {i \in Nat : power[i] \notin V}
  <2>1. ASSUME k \in Bad PROVE FALSE
    <3>1. PICK i \in Bad : \A j \in Bad : i <= j
      BY <2>1, LeastNumber
    <3>2. i # 0
      BY <1>7, <3>1
    <3>3. i - 1 \in Nat /\ i - 1 \notin Bad /\ (i - 1) + 1 = i
      BY <3>1, <3>2
    <3>4. power[i - 1] \in V /\ power[(i - 1) + 1] = base * power[i - 1]
      BY <1>7, <3>3
    <3> QED BY <3>1, <3>3, <3>4
  <2> QED BY <2>1
<1> QED BY <1>6, <1>7, <1>8

LEMMA PowerGrows ==
  ASSUME NEW base \in Nat, base >= 2, NEW k \in Nat
  PROVE  k < Power(base, k)
<1>0. base \in Nat \ {0}
  OBVIOUS
<1> DEFINE Bad == {i \in Nat : ~ (i < Power(base, i))}
<1>1. ASSUME k \in Bad PROVE FALSE
  <2>1. PICK i \in Bad : \A j \in Bad : i <= j
    BY <1>1, LeastNumber
  <2>2. i # 0
    BY <1>0, <2>1, Powers
  <2>3. i - 1 \in Nat /\ i - 1 \notin Bad /\ (i - 1) + 1 = i
    BY <2>1, <2>2
  <2>4. PICK p \in Nat : p = Power(base, i - 1) /\ Power(base, (i - 1) + 1) = base * p
    BY <1>0, <2>3, Powers
  <2>5. i - 1 < p /\ Power(base, i) = base * p
    BY <2>3, <2>4
  <2>6. p * 2 <= p * base
    BY Product
  <2>7. base * p = p * base /\ p * 2 = p + p /\ base * p \in Nat
    OBVIOUS
  <2> QED BY <2>1, <2>3, <2>5, <2>6, <2>7
<1> QED BY <1>1

LEMMA PowerMonotone ==
  ASSUME NEW base \in Nat \ {0}, NEW k \in Nat, NEW m \in Nat, k <= m
  PROVE  Power(base, k) <= Power(base, m)
<1> DEFINE Bad == {i \in Nat : k <= i /\ ~ (Power(base, k) <= Power(base, i))}
<1>1. ASSUME m \in Bad PROVE FALSE
  <2>1. PICK i \in Bad : \A j \in Bad : i <= j
    BY <1>1, LeastNumber
  <2>2. i # k
    BY <2>1, Powers
  <2>3. i - 1 \in Nat /\ k <= i - 1 /\ i - 1 \notin Bad /\ (i - 1) + 1 = i
    BY <2>1, <2>2
  <2>4. PICK p \in Nat : p = Power(base, i - 1) /\ Power(base, (i - 1) + 1) = base * p
    BY <2>3, Powers
  <2>5. Power(base, k) <= p /\ Power(base, i) = base * p /\ Power(base, k) \in Nat
    BY <2>3, <2>4, Powers
  <2>6. p * 1 <= p * base
    BY Product
  <2>7. base * p = p * base /\ p * 1 = p
    OBVIOUS
  <2> QED BY <2>1, <2>5, <2>6, <2>7
<1> QED BY <1>1

-----------------------------------------------------------------------------
(* Numbers.                                                                  *)

WidthOf(num, base) == CHOOSE k \in Nat \ {0} : IsWidth(k, num, base)

\* Every number has one number of digits.
LEMMA WidthExists ==
  ASSUME NEW num \in Nat, NEW base \in Nat, base >= 2
  PROVE  /\ WidthOf(num, base) \in 1 .. num + 1
         /\ IsWidth(WidthOf(num, base), num, base)
         /\ \A k \in Nat \ {0} : IsWidth(k, num, base) => k = WidthOf(num, base)
<1>0. base \in Nat \ {0}
  OBVIOUS
<1> DEFINE Enough == {k \in Nat : k # 0 /\ Power(base, k) > num}
<1>1. num + 1 \in Enough
  <2>1. num + 1 \in Nat /\ num + 1 < Power(base, num + 1) /\ Power(base, num + 1) \in Nat
    BY <1>0, Powers, PowerGrows
  <2> QED BY <2>1
<1>2. PICK k \in Enough : \A m \in Enough : k <= m
  <2>1. Enough \in SUBSET Nat /\ Enough # {}
    BY <1>1
  <2> HIDE DEF Enough
  <2> QED BY <2>1, LeastNumber
<1>3. k \in 1 .. num + 1
  BY <1>1, <1>2
<1>4. IsWidth(k, num, base)
  <2>1. CASE k = 1
    BY <1>2, <2>1 DEF IsWidth
  <2>2. CASE k # 1
    <3>1. k - 1 \in Nat /\ k - 1 # 0 /\ k - 1 \notin Enough
      BY <1>2, <1>3, <2>2
    <3>2. Power(base, k - 1) \in Nat
      BY <1>0, <3>1, Powers
    <3>3. Power(base, k - 1) <= num
      BY <3>1, <3>2
    <3> QED BY <1>2, <3>3 DEF IsWidth
  <2> QED BY <2>1, <2>2
<1>5. ASSUME NEW i \in Nat \ {0}, NEW j \in Nat \ {0}, i < j,
             IsWidth(i, num, base), IsWidth(j, num, base)
      PROVE  FALSE
  <2>1. j # 1 /\ j - 1 \in Nat /\ i <= j - 1
    BY <1>5
  <2>2. Power(base, i) > num /\ Power(base, j - 1) <= num
    BY <1>5, <2>1 DEF IsWidth
  <2>3. Power(base, i) <= Power(base, j - 1)
    BY <1>0, <2>1, PowerMonotone
  <2>4. Power(base, i) \in Nat /\ Power(base, j - 1) \in Nat
    BY <1>0, <2>1, Powers
  <2> QED BY <2>2, <2>3, <2>4
<1>6. WidthOf(num, base) \in Nat \ {0} /\ IsWidth(WidthOf(num, base), num, base)
  <2>1. \E m \in Nat \ {0} : IsWidth(m, num, base)
    BY <1>3, <1>4
  <2> QED BY <2>1 DEF WidthOf
<1>7. \A m \in Nat \ {0} : IsWidth(m, num, base) => m = WidthOf(num, base)
  <2> SUFFICES ASSUME NEW m \in Nat \ {0}, IsWidth(m, num, base)
               PROVE  m = WidthOf(num, base)
    OBVIOUS
  <2>1. ~ (m < WidthOf(num, base)) /\ ~ (WidthOf(num, base) < m)
    BY <1>5, <1>6
  <2> QED BY <1>6, <2>1
<1>8. k = WidthOf(num, base)
  BY <1>3, <1>4, <1>7
<1> QED BY <1>3, <1>6, <1>7, <1>8

\* A digit less in front of the last one.
LEMMA WidthOfQuotient ==
  ASSUME NEW num \in Nat, NEW base \in Nat, base >= 2, num >= base
  PROVE  /\ num \div base \in Nat \ {0}
         /\ WidthOf(num, base) = WidthOf(num \div base, base) + 1
<1>0. base \in Nat \ {0}
  OBVIOUS
<1>1. PICK q \in Nat : q = num \div base /\ base * q <= num /\ num < base * q + base
  BY <1>0, Division
<1>2. q # 0
  <2>1. q = 0 => base * q = 0
    OBVIOUS
  <2> QED BY <1>1, <2>1
<1>3. PICK w \in Nat \ {0} : w = WidthOf(q, base) /\ IsWidth(w, q, base)
  BY <1>1, WidthExists
<1>4. PICK p \in Nat : p = Power(base, w) /\ Power(base, w + 1) = base * p
  BY <1>0, <1>3, Powers
<1>5. Power(base, w + 1) > num
  <2>1. q + 1 <= p
    BY <1>3, <1>4 DEF IsWidth
  <2>2. base * (q + 1) <= base * p
    BY <2>1, Product
  <2>3. base * (q + 1) = base * q + base /\ base * q \in Nat /\ base * p \in Nat
    OBVIOUS
  <2> QED BY <1>1, <1>4, <2>2, <2>3
<1>6. p <= num
  <2>1. CASE w = 1
    <3>1. p = base
      BY <1>0, <1>4, <2>1, Powers
    <3> QED BY <3>1
  <2>2. CASE w # 1
    <3>1. w - 1 \in Nat /\ (w - 1) + 1 = w
      BY <2>2
    <3>2. PICK o \in Nat : o = Power(base, w - 1) /\ Power(base, (w - 1) + 1) = base * o
      BY <1>0, <3>1, Powers
    <3>3. o <= q
      BY <1>3, <2>2, <3>2 DEF IsWidth
    <3>4. base * o <= base * q /\ base * o \in Nat /\ base * q \in Nat
      BY <3>3, Product
    <3>5. p = base * o
      BY <1>4, <3>1, <3>2
    <3> QED BY <1>1, <3>4, <3>5
  <2> QED BY <2>1, <2>2
<1>7. IsWidth(w + 1, num, base)
  <2>1. (w + 1) - 1 = w
    OBVIOUS
  <2> QED BY <1>4, <1>5, <1>6, <2>1 DEF IsWidth
<1>8. w + 1 = WidthOf(num, base)
  BY <1>7, WidthExists
<1> QED BY <1>1, <1>2, <1>3, <1>8

\* The remainders in closed form.
RemaindersOf(num, base) ==
  IF num = 0 THEN <<>>
  ELSE [k \in 1 .. WidthOf(num, base) |-> (num \div Power(base, k - 1)) % base]

LEMMA RemaindersShape ==
  ASSUME NEW num \in Nat, NEW base \in Nat, base >= 2
  PROVE  RemaindersOf(num, base) \in Seq(0 .. base - 1)
<1>0. base \in Nat \ {0}
  OBVIOUS
<1>1. WidthOf(num, base) \in Nat
  BY WidthExists
<1>2. ASSUME NEW k \in 1 .. WidthOf(num, base)
      PROVE  (num \div Power(base, k - 1)) % base \in 0 .. base - 1
  <2>1. k - 1 \in Nat
    BY <1>1
  <2>2. Power(base, k - 1) \in Nat \ {0}
    BY <1>0, <2>1, Powers
  <2>3. num \div Power(base, k - 1) \in Nat
    BY <2>2, Division
  <2> QED BY <1>0, <2>3, Division
<1>3. CASE num = 0
  BY <1>3 DEF RemaindersOf
<1>4. CASE num # 0
  <2> DEFINE d(k) == (num \div Power(base, k - 1)) % base
  <2>1. PICK w \in Nat : w = WidthOf(num, base)
    BY <1>1
  <2>2. \A k \in 1 .. w : d(k) \in 0 .. base - 1
    BY <1>2, <2>1
  <2>3. RemaindersOf(num, base) = [k \in 1 .. w |-> d(k)]
    BY <1>4, <2>1 DEF RemaindersOf
  <2> HIDE DEF d
  <2> QED BY <2>1, <2>2, <2>3
<1> QED BY <1>3, <1>4

\* One turn of the loop.
LEMMA RemaindersStep ==
  ASSUME NEW num \in Nat \ {0}, NEW base \in Nat, base >= 2
  PROVE  RemaindersOf(num, base) = <<num % base>> \o RemaindersOf(num \div base, base)
<1>0. base \in Nat \ {0} /\ num \in Nat
  OBVIOUS
<1>1. Power(base, 0) = 1 /\ Power(base, 1) = base
  <2>1. Power(base, 0 + 1) = base * Power(base, 0) /\ Power(base, 0) = 1
    BY <1>0, Powers
  <2> QED BY <2>1
<1>2. num \div 1 = num
  OBVIOUS
<1>3. CASE num < base
  <2>1. num \div base = 0
    <3>1. base * 0 = 0
      OBVIOUS
    <3> QED BY <1>0, <1>3, <3>1, DivisionUnique
  <2>2. IsWidth(1, num, base)
    BY <1>1, <1>3 DEF IsWidth
  <2>3. WidthOf(num, base) = 1
    BY <2>2, WidthExists
  <2>4. \A k \in 1 .. 1 : Power(base, k - 1) = 1
    BY <1>1
  <2>5. RemaindersOf(num, base) = [k \in 1 .. 1 |-> num % base]
    BY <1>2, <2>3, <2>4 DEF RemaindersOf
  <2>6. RemaindersOf(num \div base, base) = <<>>
    BY <2>1 DEF RemaindersOf
  <2>7. num % base \in 0 .. base - 1
    BY <1>0, Division
  <2>8. [k \in 1 .. 1 |-> num % base] = <<num % base>>
    OBVIOUS
  <2>9. <<num % base>> \o <<>> = <<num % base>>
    OBVIOUS
  <2> QED BY <2>5, <2>6, <2>8, <2>9
<1>4. CASE num >= base
  <2>1. PICK q \in Nat \ {0} : q = num \div base
    BY <1>4, WidthOfQuotient
  <2>2. PICK w \in Nat : w = WidthOf(q, base)
    <3>1. q \in Nat /\ WidthOf(q, base) \in 1 .. q + 1
      BY <2>1, WidthExists
    <3> QED BY <3>1
  <2>3. WidthOf(num, base) = w + 1
    BY <1>4, <2>1, <2>2, WidthOfQuotient
  <2> DEFINE rq == RemaindersOf(q, base)
             d == num % base
  <2>4. rq \in Seq(0 .. base - 1) /\ Len(rq) = w
        /\ \A k \in 1 .. w : rq[k] = (q \div Power(base, k - 1)) % base
    <3>1. rq \in Seq(0 .. base - 1)
      BY <2>1, RemaindersShape
    <3>2. rq = [k \in 1 .. w |-> (q \div Power(base, k - 1)) % base]
      BY <2>1, <2>2 DEF RemaindersOf
    <3>3. Len(rq) = w
      BY <3>2
    <3> HIDE DEF rq
    <3> QED BY <3>1, <3>2, <3>3
  <2>5. d \in 0 .. base - 1
    BY <1>0, Division
  <2> HIDE DEF rq, d
  <2>6. /\ <<d>> \o rq \in Seq(0 .. base - 1) /\ Len(<<d>> \o rq) = w + 1
        /\ \A k \in 1 .. w + 1 : (<<d>> \o rq)[k] = IF k = 1 THEN d ELSE rq[k - 1]
    BY <2>2, <2>4, <2>5
  <2>7. ASSUME NEW k \in 1 .. w + 1
        PROVE  (num \div Power(base, k - 1)) % base = (<<d>> \o rq)[k]
    <3>1. CASE k = 1
      BY <1>1, <1>2, <2>6, <3>1 DEF d
    <3>2. CASE k # 1
      <4>1. k - 1 \in 1 .. w /\ k - 2 \in Nat /\ (k - 1) - 1 = k - 2 /\ (k - 2) + 1 = k - 1
        BY <2>2, <3>2
      <4>2. PICK p \in Nat \ {0} : p = Power(base, k - 2) /\ Power(base, (k - 2) + 1) = base * p
        BY <1>0, <4>1, Powers
      <4>3. (num \div base) \div p = num \div (base * p)
        BY <1>0, <4>2, DivisionTwice
      <4>4. rq[k - 1] = (q \div p) % base
        BY <2>4, <4>1, <4>2
      <4>5. Power(base, k - 1) = base * p
        BY <4>1, <4>2
      <4> QED BY <2>1, <2>6, <3>2, <4>3, <4>4, <4>5
    <3> QED BY <3>1, <3>2
  <2>8. RemaindersOf(num, base) \in Seq(0 .. base - 1)
    BY <1>0, RemaindersShape
  <2>9. RemaindersOf(num, base) = [k \in 1 .. w + 1 |-> (num \div Power(base, k - 1)) % base]
    BY <2>3 DEF RemaindersOf
  <2>10. Len(RemaindersOf(num, base)) = w + 1
    BY <2>2, <2>9
  <2>11. \A k \in 1 .. w + 1 : RemaindersOf(num, base)[k] = (<<d>> \o rq)[k]
    BY <2>7, <2>9
  <2>12. RemaindersOf(num, base) = <<d>> \o rq
    <3> DEFINE a == RemaindersOf(num, base)
               b == <<d>> \o rq
    <3>1. /\ a \in Seq(0 .. base - 1) /\ b \in Seq(0 .. base - 1)
          /\ Len(a) = Len(b) /\ \A k \in 1 .. Len(a) : a[k] = b[k]
      BY <2>6, <2>8, <2>10, <2>11
    <3> HIDE DEF a, b
    <3>2. a = b
      BY <3>1, SeqEqual
    <3> QED BY <3>2 DEF a, b
  <2> QED BY <2>1, <2>12 DEF d, rq
<1> QED BY <1>0, <1>3, <1>4

\* The loop computes the closed form.
LEMMA RemaindersClosed ==
  ASSUME NEW num \in Nat, NEW base \in Nat, base >= 2
  PROVE  Remainders(num, base) = RemaindersOf(num, base)
<1>0. base \in Nat \ {0}
  OBVIOUS
<1> DEFINE Def(f) == [n \in Nat |-> IF n = 0 THEN <<>> ELSE <<n % base>> \o f[n \div base]]
           loop == CHOOSE f : f = Def(f)
           closed == [n \in Nat |-> RemaindersOf(n, base)]
<1>1. ASSUME NEW n \in Nat \ {0} PROVE n \div base \in Nat /\ n \div base < n
  <2>1. PICK q \in Nat : q = n \div base /\ base * q <= n
    BY <1>0, Division
  <2>2. q * 2 <= q * base /\ q * base \in Nat
    BY Product
  <2>3. q * base = base * q /\ q * 2 = q + q
    OBVIOUS
  <2> QED BY <2>1, <2>2, <2>3
<1>2. closed = Def(closed)
  <2>1. ASSUME NEW n \in Nat
        PROVE  RemaindersOf(n, base) = IF n = 0 THEN <<>> ELSE <<n % base>> \o closed[n \div base]
    <3>1. CASE n = 0
      BY <3>1 DEF RemaindersOf
    <3>2. CASE n # 0
      <4>1. closed[n \div base] = RemaindersOf(n \div base, base)
        BY <1>1, <3>2
      <4>2. RemaindersOf(n, base) = <<n % base>> \o RemaindersOf(n \div base, base)
        BY <3>2, RemaindersStep
      <4> QED BY <3>2, <4>1, <4>2
    <3> QED BY <3>1, <3>2
  <2> QED BY <2>1
<1>3. loop = Def(loop)
  BY <1>2
<1>4. Remainders(num, base) = loop[num]
  BY DEF Remainders
<1> HIDE DEF loop
<1>5. \A n \in Nat : loop[n] = IF n = 0 THEN <<>> ELSE <<n % base>> \o loop[n \div base]
  BY <1>3
<1> DEFINE Bad == {n \in Nat : loop[n] # RemaindersOf(n, base)}
<1>6. ASSUME num \in Bad PROVE FALSE
  <2>1. PICK n \in Bad : \A m \in Bad : n <= m
    BY <1>6, LeastNumber
  <2>2. n # 0
    BY <1>5, <2>1 DEF RemaindersOf
  <2>3. n \div base \notin Bad /\ n \div base \in Nat
    BY <1>1, <2>1, <2>2
  <2>4. loop[n \div base] = RemaindersOf(n \div base, base)
    BY <2>3
  <2>5. RemaindersOf(n, base) = <<n % base>> \o RemaindersOf(n \div base, base)
    BY <2>1, <2>2, RemaindersStep
  <2> QED BY <1>5, <2>1, <2>2, <2>4, <2>5
<1> QED BY <1>4, <1>6

-----------------------------------------------------------------------------
(* k_memrev.                                                                 *)

\* After i turns the outer i characters on both sides have changed places.
Turned(s, i) ==
  [k \in 1 .. Len(s) |-> IF k <= i \/ k > Len(s) - i THEN s[Len(s) + 1 - k] ELSE s[k]]

LEMMA TurnStep ==
  ASSUME NEW s \in Seq(Int), NEW i \in 1 .. Len(s) \div 2
  PROVE  k_rev8(Turned(s, i - 1), i, Len(s) + 1 - i) = Turned(s, i)
<1>1. PICK n \in Nat : n = Len(s)
  OBVIOUS
<1>2. i \in 1 .. n /\ n + 1 - i \in 1 .. n /\ i < n + 1 - i /\ i - 1 \in Nat
  <2>1. i <= n \div 2 /\ 2 * (n \div 2) <= n
    BY <1>1
  <2> QED BY <1>1, <2>1
<1> DEFINE t == Turned(s, i - 1)
<1>3. t = [k \in 1 .. n |-> IF k <= i - 1 \/ k > n - (i - 1) THEN s[n + 1 - k] ELSE s[k]]
  BY <1>1 DEF Turned
<1>4. t[i] = s[i] /\ t[n + 1 - i] = s[n + 1 - i]
  BY <1>2, <1>3
<1>5. DOMAIN t = 1 .. n
  BY <1>3
<1> DEFINE r == k_rev8(t, i, n + 1 - i)
<1>6. r = [[t EXCEPT ![i] = t[n + 1 - i]] EXCEPT ![n + 1 - i] = t[i]]
  BY DEF k_rev8
<1>7. Turned(s, i) = [k \in 1 .. n |-> IF k <= i \/ k > n - i THEN s[n + 1 - k] ELSE s[k]]
  BY <1>1 DEF Turned
<1> HIDE DEF t
<1>8. r = [k \in 1 .. n |-> r[k]]
  BY <1>5, <1>6
<1>9. ASSUME NEW k \in 1 .. n
      PROVE  r[k] = IF k <= i \/ k > n - i THEN s[n + 1 - k] ELSE s[k]
  <2>1. CASE k = i
    <3>1. r[k] = t[n + 1 - i]
      BY <1>2, <1>5, <1>6, <2>1
    <3> QED BY <1>2, <1>4, <2>1, <3>1
  <2>2. CASE k = n + 1 - i
    <3>1. r[k] = t[i]
      BY <1>2, <1>5, <1>6, <2>2
    <3>2. n + 1 - k = i /\ k > n - i
      BY <1>2, <2>2
    <3> QED BY <1>4, <3>1, <3>2
  <2>3. CASE k # i /\ k # n + 1 - i
    <3>1. r[k] = t[k]
      BY <1>2, <1>5, <1>6, <2>3
    <3>2. (k <= i \/ k > n - i) <=> (k <= i - 1 \/ k > n - (i - 1))
      BY <1>2, <2>3
    <3>3. t[k] = IF k <= i - 1 \/ k > n - (i - 1) THEN s[n + 1 - k] ELSE s[k]
      BY <1>3
    <3> QED BY <3>1, <3>2, <3>3
  <2> QED BY <2>1, <2>2, <2>3
<1> HIDE DEF r
<1>10. r = Turned(s, i)
  BY <1>7, <1>8, <1>9
<1> QED BY <1>1, <1>10 DEF r, t

LEMMA MemrevReverses ==
  ASSUME NEW s \in Seq(Int)
  PROVE  k_memrev(s) = [k \in 1 .. Len(s) |-> s[Len(s) + 1 - k]]
<1>1. PICK n \in Nat, h \in Nat : n = Len(s) /\ h = Len(s) \div 2
  OBVIOUS
<1>2. n = 2 * h \/ n = 2 * h + 1
  BY <1>1
<1> DEFINE Def(f) == [i \in 0 .. Len(s) \div 2 |->
                        IF i = 0 THEN s ELSE k_rev8(f[i - 1], i, Len(s) + 1 - i)]
           swapped == CHOOSE f : f = Def(f)
           closed == [i \in 0 .. Len(s) \div 2 |-> Turned(s, i)]
<1>3. Turned(s, 0) = s
  <2>1. Turned(s, 0) = [k \in 1 .. n |-> s[k]]
    BY <1>1 DEF Turned
  <2> QED BY <1>1, <2>1
<1>4. closed = Def(closed)
  <2>1. ASSUME NEW i \in 0 .. Len(s) \div 2
        PROVE  Turned(s, i) = IF i = 0 THEN s ELSE k_rev8(closed[i - 1], i, Len(s) + 1 - i)
    <3>1. CASE i = 0
      BY <1>3, <3>1
    <3>2. CASE i # 0
      <4>1. i \in 1 .. Len(s) \div 2 /\ i - 1 \in 0 .. Len(s) \div 2
        BY <1>1, <3>2
      <4>2. closed[i - 1] = Turned(s, i - 1)
        BY <4>1
      <4> QED BY <3>2, <4>1, <4>2, TurnStep
    <3> QED BY <3>1, <3>2
  <2> QED BY <2>1
<1>5. swapped = Def(swapped)
  BY <1>4
<1>6. k_memrev(s) = swapped[h]
  BY <1>1 DEF k_memrev
<1> HIDE DEF swapped
<1>7. \A i \in 0 .. h : swapped[i] = IF i = 0 THEN s ELSE k_rev8(swapped[i - 1], i, Len(s) + 1 - i)
  BY <1>1, <1>5
<1> DEFINE Bad == {i \in Nat : i <= h /\ swapped[i] # Turned(s, i)}
<1>8. ASSUME h \in Bad PROVE FALSE
  <2>1. PICK i \in Bad : \A j \in Bad : i <= j
    BY <1>8, LeastNumber
  <2>2. i # 0
    BY <1>1, <1>3, <1>7, <2>1
  <2>3. i - 1 \in Nat /\ i - 1 <= h /\ i - 1 \notin Bad /\ i \in 0 .. h /\ i \in 1 .. Len(s) \div 2
    BY <1>1, <2>1, <2>2
  <2>4. swapped[i - 1] = Turned(s, i - 1)
    BY <2>3
  <2>5. swapped[i] = k_rev8(Turned(s, i - 1), i, Len(s) + 1 - i)
    BY <1>7, <2>2, <2>3, <2>4
  <2> QED BY <2>1, <2>3, <2>5, TurnStep
<1>9. swapped[h] = Turned(s, h)
  BY <1>8
<1>10. ASSUME NEW k \in 1 .. n
       PROVE  (IF k <= h \/ k > n - h THEN s[n + 1 - k] ELSE s[k]) = s[n + 1 - k]
  <2>1. k <= h \/ k > n - h \/ n + 1 - k = k
    BY <1>2
  <2> QED BY <2>1
<1>11. Turned(s, h) = [k \in 1 .. n |-> s[n + 1 - k]]
  BY <1>1, <1>10 DEF Turned
<1> QED BY <1>1, <1>6, <1>9, <1>11

-----------------------------------------------------------------------------
(* Conversions of numbers.                                                   *)

\* What may be in a string.
Character == Int \ {0}

LEMMA DigitIsCharacter ==
  ASSUME NEW r \in Int
  PROVE  NUM_MAP(r) \in Character
BY DEF NUM_MAP, Character, Zero, Stale

LEMMA ReversedString ==
  ASSUME NEW s \in Seq(Character)
  PROVE  /\ k_memrev(s) \in Seq(Character) /\ Len(k_memrev(s)) = Len(s)
         /\ \A k \in 1 .. Len(s) : k_memrev(s)[k] = s[Len(s) + 1 - k]
<1>1. s \in Seq(Int)
  BY DEF Character
<1>2. PICK n \in Nat : n = Len(s)
  OBVIOUS
<1>3. k_memrev(s) = [k \in 1 .. n |-> s[n + 1 - k]]
  BY <1>1, <1>2, MemrevReverses
<1>4. \A k \in 1 .. n : s[n + 1 - k] \in Character
  BY <1>2
<1> QED BY <1>2, <1>3, <1>4

\* What the loop of divisions writes has no 0 in it.
LEMMA DigitsShape ==
  ASSUME NEW num \in Int, NEW base \in Nat, base >= 2
  PROVE  Digits(num, base) \in Seq(Character)
<1>1. PICK m \in Nat : m = IF num < 0 THEN -num ELSE num
  OBVIOUS
<1>2. PICK r \in Seq(0 .. base - 1) : r = Remainders(m, base)
  BY RemaindersClosed, RemaindersShape
<1>3. PICK n \in Nat : n = Len(r) /\ DOMAIN r = 1 .. n
  OBVIOUS
<1> DEFINE d(k) == NUM_MAP(IF num < 0 THEN -r[k] ELSE r[k])
<1>4. ASSUME NEW k \in 1 .. n PROVE d(k) \in Character
  <2>1. r[k] \in 0 .. base - 1
    BY <1>3
  <2>2. (IF num < 0 THEN -r[k] ELSE r[k]) \in Int
    BY <2>1
  <2> QED BY <2>2, DigitIsCharacter
<1>5. Digits(num, base) = [k \in 1 .. n |-> d(k)]
  BY <1>1, <1>2, <1>3 DEF Digits
<1> HIDE DEF d
<1> QED BY <1>3, <1>4, <1>5

\* Where the numeral has a digit, the loop has it at the other end.
LEMMA DigitsOfNumeral ==
  ASSUME NEW num \in 1 .. Word - 1, NEW base \in Nat, base >= 2
  PROVE  /\ Numeral(num, base) \in Seq(Character)
         /\ Len(Digits(num, base)) = Len(Numeral(num, base))
         /\ \A k \in 1 .. Len(Numeral(num, base)) :
              Digits(num, base)[Len(Numeral(num, base)) + 1 - k] = Numeral(num, base)[k]
<1>0. num \in Nat /\ num # 0 /\ ~ (num < 0) /\ base \in Nat \ {0} /\ Word \in Nat
  BY WordAssumption
<1>1. PICK w \in 1 .. num + 1 : w = WidthOf(num, base)
  BY <1>0, WidthExists
<1>2. w \in Nat /\ w \in 1 .. Word /\ IsWidth(w, num, base)
  <2>1. w \in Nat /\ w \in 1 .. Word
    BY <1>0, <1>1
  <2>2. IsWidth(WidthOf(num, base), num, base)
    BY <1>0, WidthExists
  <2> QED BY <1>1, <2>1, <2>2
<1> DEFINE n == CHOOSE k \in 1 .. Word : IsWidth(k, num, base)
<1>3. n = w
  <2>1. n \in 1 .. Word /\ IsWidth(n, num, base)
    BY <1>2
  <2>2. n \in Nat \ {0}
    BY <1>0, <2>1
  <2> QED BY <1>0, <1>1, <2>1, <2>2, WidthExists
<1>4. Numeral(num, base) = [k \in 1 .. w |-> NUM_MAP((num \div Power(base, w - k)) % base)]
  <2>1. Numeral(num, base) = [k \in 1 .. n |-> NUM_MAP((num \div Power(base, n - k)) % base)]
    BY DEF Numeral
  <2> HIDE DEF n
  <2> QED BY <1>3, <2>1
<1> HIDE DEF n
<1> DEFINE r == Remainders(num, base)
<1>5. r = [k \in 1 .. w |-> (num \div Power(base, k - 1)) % base]
  BY <1>0, <1>1, RemaindersClosed DEF RemaindersOf
<1>6. Digits(num, base) = [k \in 1 .. w |-> NUM_MAP(r[k])]
  <2>1. DOMAIN r = 1 .. w
    BY <1>5
  <2> HIDE DEF r
  <2> QED BY <1>0, <2>1 DEF Digits, r
<1> HIDE DEF r
<1>7. ASSUME NEW k \in 1 .. w
      PROVE  /\ w + 1 - k \in 1 .. w /\ r[w + 1 - k] = (num \div Power(base, w - k)) % base
             /\ NUM_MAP((num \div Power(base, w - k)) % base) \in Character
  <2>1. w + 1 - k \in 1 .. w /\ (w + 1 - k) - 1 = w - k /\ w - k \in Nat
    BY <1>2
  <2>2. r[w + 1 - k] = (num \div Power(base, w - k)) % base
    BY <1>5, <2>1
  <2>3. Power(base, w - k) \in Nat \ {0}
    BY <1>0, <2>1, Powers
  <2>4. num \div Power(base, w - k) \in Nat
    BY <1>0, <2>3, Division
  <2>5. (num \div Power(base, w - k)) % base \in 0 .. base - 1
    BY <1>0, <2>4, Division
  <2>6. (num \div Power(base, w - k)) % base \in Int
    BY <1>0, <2>5
  <2> QED BY <2>1, <2>2, <2>6, DigitIsCharacter
<1>8. Numeral(num, base) \in Seq(Character) /\ Len(Numeral(num, base)) = w
  BY <1>2, <1>4, <1>7
<1>9. Len(Digits(num, base)) = w
  BY <1>2, <1>6
<1>10. ASSUME NEW k \in 1 .. w PROVE Digits(num, base)[w + 1 - k] = Numeral(num, base)[k]
  BY <1>4, <1>6, <1>7
<1> QED BY <1>8, <1>9, <1>10

LEMMA NumeralOfZero ==
  ASSUME NEW base \in Nat, base >= 2
  PROVE  Numeral(0, base) = <<Zero>>
<1>0. base \in Nat \ {0} /\ 1 \in 1 .. Word /\ Word \in Nat
  BY WordAssumption
<1>1. Power(base, 0) = 1 /\ Power(base, 1) = base
  <2>1. Power(base, 0 + 1) = base * Power(base, 0) /\ Power(base, 0) = 1
    BY <1>0, Powers
  <2> QED BY <2>1
<1>2. IsWidth(1, 0, base)
  BY <1>1 DEF IsWidth
<1> DEFINE n == CHOOSE k \in 1 .. Word : IsWidth(k, 0, base)
<1>3. n = 1
  <2>1. n \in 1 .. Word /\ IsWidth(n, 0, base)
    BY <1>0, <1>2
  <2>2. n \in Nat \ {0}
    BY <1>0, <2>1
  <2>3. \A k \in Nat \ {0} : IsWidth(k, 0, base) => k = WidthOf(0, base)
    BY WidthExists
  <2> HIDE DEF n
  <2>4. n = WidthOf(0, base) /\ 1 = WidthOf(0, base)
    BY <1>2, <2>1, <2>2, <2>3
  <2> QED BY <2>4
<1>4. Numeral(0, base) = [k \in 1 .. n |-> NUM_MAP((0 \div Power(base, n - k)) % base)]
  BY DEF Numeral
<1> HIDE DEF n
<1>5. \A k \in 1 .. 1 : NUM_MAP((0 \div Power(base, 1 - k)) % base) = Zero
  <2>1. 0 \div 1 = 0 /\ 0 % base = 0
    <3>1. 0 \div base \in Nat /\ 0 % base \in 0 .. base - 1 /\ 0 = base * (0 \div base) + (0 % base)
      BY <1>0, Division
    <3>2. base * (0 \div base) \in Nat
      BY <1>0, <3>1
    <3> QED BY <3>1, <3>2
  <2>2. NUM_MAP(0) = Zero
    BY DEF NUM_MAP, Zero
  <2> QED BY <1>1, <2>1, <2>2
<1>6. Numeral(0, base) = [k \in 1 .. 1 |-> Zero]
  BY <1>3, <1>4, <1>5
<1> QED BY <1>6

LEMMA ZeroIsCharacter == <<Zero>> \in Seq(Character)
BY DEF Zero, Character

LEMMA NumeralShape ==
  ASSUME NEW num \in 0 .. Word - 1, NEW base \in Nat, base >= 2
  PROVE  Numeral(num, base) \in Seq(Character)
<1>1. CASE num = 0
  BY <1>1, NumeralOfZero, ZeroIsCharacter
<1>2. CASE num # 0
  <2>1. num \in 1 .. Word - 1
    BY <1>2, WordAssumption
  <2> QED BY <2>1, DigitsOfNumeral
<1> QED BY <1>1, <1>2

\* k_utoa writes the numeral of every word (kstring.c:139-162).
LEMMA UtoaNumeral ==
  ASSUME NEW num \in 0 .. Word - 1, NEW base \in Nat, base >= 2
  PROVE  k_utoa(num, base) = Numeral(num, base)
<1>1. CASE num = 0
  BY <1>1, NumeralOfZero DEF k_utoa
<1>2. CASE num # 0
  <2>1. num \in 1 .. Word - 1 /\ num \in Int
    BY <1>2, WordAssumption
  <2> DEFINE d == Digits(num, base)
             m == Numeral(num, base)
  <2>2. d \in Seq(Character) /\ m \in Seq(Character) /\ Len(d) = Len(m)
    BY <2>1, DigitsShape, DigitsOfNumeral
  <2>3. \A k \in 1 .. Len(m) : d[Len(m) + 1 - k] = m[k]
    BY <2>1, DigitsOfNumeral
  <2>4. k_utoa(num, base) = k_memrev(d)
    BY <1>2 DEF k_utoa
  <2> HIDE DEF d, m
  <2>5. /\ k_memrev(d) \in Seq(Character) /\ Len(k_memrev(d)) = Len(d)
        /\ \A k \in 1 .. Len(d) : k_memrev(d)[k] = d[Len(d) + 1 - k]
    BY <2>2, ReversedString
  <2>6. \A k \in 1 .. Len(m) : k_memrev(d)[k] = m[k]
    BY <2>2, <2>3, <2>5
  <2>7. k_memrev(d) = m
    BY <2>2, <2>5, <2>6, SeqEqual
  <2> QED BY <2>4, <2>7 DEF m
<1> QED BY <1>1, <1>2

\* k_itoa writes a sign and the numeral of the magnitude, for every int but the
\* least (kstring.c:164-195).
ItoaText(num) == IF num < 0 THEN <<Minus>> \o Numeral(-num, 10) ELSE Numeral(num, 10)

LEMMA ItoaNumeral ==
  ASSUME NEW num \in IntMin .. -IntMin - 1, num # IntMin
  PROVE  k_itoa(num) = ItoaText(num)
<1>0. PICK w \in Nat : w = Word \div 2 /\ IntMin = -w /\ 2 * w = Word /\ w # 0
  BY WordAssumption DEF IntMin
<1>1. num \in Int /\ num < w /\ -num < w
  BY <1>0
<1>2. CASE num = 0
  BY <1>2, NumeralOfZero DEF k_itoa, ItoaText
<1>3. CASE num > 0
  <2>1. num \in 0 .. Word - 1 /\ ~ (num < 0) /\ num # 0
    BY <1>0, <1>1, <1>3
  <2>2. k_itoa(num) = k_utoa(num, 10)
    BY <1>3, <2>1 DEF k_itoa, k_utoa
  <2> QED BY <2>1, <2>2, UtoaNumeral DEF ItoaText
<1>4. CASE num < 0
  <2>1. num # 0 /\ ~ (num > 0)
    BY <1>4
  <2>0. PICK v \in 1 .. Word - 1 : v = -num
    <3>1. -num \in 1 .. Word - 1
      BY <1>0, <1>1, <1>4
    <3> QED BY <3>1
  <2>12. PICK b \in Nat : b = 10 /\ b >= 2
    OBVIOUS
  <2> DEFINE d == Digits(v, b)
             m == Numeral(v, b)
             a == Append(d, Minus)
             t == <<Minus>> \o m
  <2>2. d \in Seq(Character) /\ m \in Seq(Character) /\ Len(d) = Len(m)
    <3>1. v \in Int
      BY WordAssumption
    <3> QED BY <2>12, <3>1, DigitsShape, DigitsOfNumeral
  <2>3. \A k \in 1 .. Len(m) : d[Len(m) + 1 - k] = m[k]
    BY <2>12, DigitsOfNumeral
  <2>4. k_itoa(num) = k_memrev(a)
    BY <2>0, <2>1, <2>12 DEF k_itoa
  <2> HIDE DEF d, m
  <2>5. Minus \in Character
    BY DEF Minus, Character
  <2>6. PICK n \in Nat : n = Len(m)
    BY <2>2
  <2>7. /\ a \in Seq(Character) /\ Len(a) = n + 1
        /\ \A k \in 1 .. n : a[k] = d[k]
        /\ a[n + 1] = Minus
    BY <2>2, <2>5, <2>6, AppendProperties
  <2>8. /\ t \in Seq(Character) /\ Len(t) = n + 1
        /\ t[1] = Minus /\ \A k \in 2 .. n + 1 : t[k] = m[k - 1]
    BY <2>2, <2>5, <2>6
  <2> HIDE DEF a, t
  <2>9. /\ k_memrev(a) \in Seq(Character) /\ Len(k_memrev(a)) = Len(a)
        /\ \A k \in 1 .. Len(a) : k_memrev(a)[k] = a[Len(a) + 1 - k]
    BY <2>7, ReversedString
  <2>10. ASSUME NEW k \in 1 .. n + 1 PROVE k_memrev(a)[k] = t[k]
    <3>0. k \in 1 .. Len(a) /\ Len(a) + 1 - k = n + 2 - k
      BY <2>7
    <3>1. k_memrev(a)[k] = a[n + 2 - k]
      BY <2>9, <3>0
    <3>2. CASE k = 1
      <4>1. n + 2 - k = n + 1
        BY <3>2
      <4> QED BY <2>7, <2>8, <3>1, <3>2, <4>1
    <3>3. CASE k # 1
      <4>1. n + 2 - k \in 1 .. n /\ k - 1 \in 1 .. n /\ n + 1 - (k - 1) = n + 2 - k /\ k \in 2 .. n + 1
        BY <2>6, <3>3
      <4>2. d[n + 1 - (k - 1)] = m[k - 1]
        BY <2>3, <2>6, <4>1
      <4> QED BY <2>7, <2>8, <3>1, <4>1, <4>2
    <3> QED BY <3>2, <3>3
  <2>11. k_memrev(a) = t
    BY <2>7, <2>8, <2>9, <2>10, SeqEqual
  <2> QED BY <1>4, <2>0, <2>4, <2>11, <2>12 DEF ItoaText, t, m
<1> QED BY <1>1, <1>2, <1>3, <1>4

\* Whatever the int, there is no 0 in what k_itoa writes.
LEMMA ItoaShape ==
  ASSUME NEW num \in Int
  PROVE  k_itoa(num) \in Seq(Character)
<1>1. ASSUME NEW k \in Int PROVE Digits(k, 10) \in Seq(Character)
  BY DigitsShape
<1>2. IntMin \in Int
  BY WordAssumption DEF IntMin
<1>3. CASE num = 0
  BY <1>3, ZeroIsCharacter DEF k_itoa
<1>4. CASE num > 0
  BY <1>1, <1>4, ReversedString DEF k_itoa
<1>5. CASE num < 0
  <2> DEFINE d == Digits(IF num = IntMin THEN num ELSE -num, 10)
  <2>1. d \in Seq(Character)
    <3>1. (IF num = IntMin THEN num ELSE -num) \in Int
      OBVIOUS
    <3> QED BY <1>1, <3>1
  <2>2. k_itoa(num) = k_memrev(Append(d, Minus))
    BY <1>5 DEF k_itoa
  <2> HIDE DEF d
  <2>3. Append(d, Minus) \in Seq(Character)
    BY <2>1, AppendProperties DEF Minus, Character
  <2> QED BY <2>2, <2>3, ReversedString
<1> QED BY <1>3, <1>4, <1>5

-----------------------------------------------------------------------------
(* The format.                                                               *)

\* Of two % in a row only one begins a conversion.
LEMMA BeginsOnce ==
  ASSUME NEW f \in Seq(Int), NEW i \in Nat \ {0}
  PROVE  Begins(f, i + 1) <=> f[i + 1] = Percent /\ ~ Begins(f, i)
<1> DEFINE T(j) == {q \in 1 .. j - 1 : \A k \in q .. j - 1 : f[k] = Percent}
<1>1. \A j : Begins(f, j) <=> f[j] = Percent /\ Cardinality(T(j)) % 2 = 0
  BY DEF Begins
<1>2. IsFiniteSet(T(i)) /\ Cardinality(T(i)) \in Nat
  <2>1. IsFiniteSet(1 .. i - 1) /\ T(i) \subseteq 1 .. i - 1
    BY FS_Interval
  <2> HIDE DEF T
  <2> QED BY <2>1, FS_Subset, FS_CardinalityType
<1>3. CASE f[i] = Percent
  <2>1. T(i + 1) = T(i) \cup {i}
    <3>1. ASSUME NEW q \in T(i + 1) PROVE q \in T(i) \cup {i}
      <4>1. q \in 1 .. i /\ \A k \in q .. i : f[k] = Percent
        OBVIOUS
      <4>2. q # i => q \in 1 .. i - 1 /\ \A k \in q .. i - 1 : f[k] = Percent
        BY <4>1
      <4> QED BY <4>2
    <3>2. ASSUME NEW q \in T(i) PROVE q \in T(i + 1)
      <4>1. q \in 1 .. i - 1 /\ \A k \in q .. i - 1 : f[k] = Percent
        OBVIOUS
      <4>2. q \in 1 .. (i + 1) - 1 /\ \A k \in q .. (i + 1) - 1 : k = i \/ k \in q .. i - 1
        BY <4>1
      <4> QED BY <1>3, <4>1, <4>2
    <3>3. i \in T(i + 1)
      BY <1>3
    <3> HIDE DEF T
    <3> QED BY <3>1, <3>2, <3>3
  <2>2. i \notin T(i)
    OBVIOUS
  <2> HIDE DEF T
  <2>3. Cardinality(T(i + 1)) = Cardinality(T(i)) + 1
    BY <1>2, <2>1, <2>2, FS_AddElement
  <2>4. PICK n \in Nat : n = Cardinality(T(i)) /\ n + 1 = Cardinality(T(i + 1))
    BY <1>2, <2>3
  <2>5. (n + 1) % 2 = 0 <=> ~ (n % 2 = 0)
    OBVIOUS
  <2> QED BY <1>1, <1>3, <2>4, <2>5
<1>4. CASE f[i] # Percent
  <2>1. T(i + 1) = {}
    <3>1. ASSUME NEW q \in T(i + 1) PROVE FALSE
      <4>1. q \in 1 .. i /\ \A k \in q .. i : f[k] = Percent
        OBVIOUS
      <4> QED BY <1>4, <4>1
    <3> HIDE DEF T
    <3> QED BY <3>1
  <2> HIDE DEF T
  <2>2. Cardinality(T(i + 1)) % 2 = 0
    <3>1. Cardinality({}) = 0
      BY FS_EmptySet
    <3>2. 0 % 2 = 0
      OBVIOUS
    <3> QED BY <2>1, <3>1, <3>2
  <2> QED BY <1>1, <1>4, <2>2
<1> QED BY <1>3, <1>4

LEMMA BeginsFirst ==
  ASSUME NEW f
  PROVE  Begins(f, 1) <=> f[1] = Percent
<1>1. {j \in 1 .. 1 - 1 : \A k \in j .. 1 - 1 : f[k] = Percent} = {}
  OBVIOUS
<1>2. Cardinality({j \in 1 .. 1 - 1 : \A k \in j .. 1 - 1 : f[k] = Percent}) % 2 = 0
  BY <1>1, FS_EmptySet
<1> QED BY <1>2 DEF Begins

\* The next character begins a conversion just if it is a %.
LEMMA BeginsNext ==
  ASSUME NEW f \in Seq(Int), NEW p \in Nat, p > 0 => ~ Begins(f, p)
  PROVE  /\ Begins(f, p + 1) <=> f[p + 1] = Percent
         /\ Conversion(f, p + 1) = 0
         /\ f[p + 1] = Percent => ~ Begins(f, p + 2) /\ Conversion(f, p + 2) = f[p + 2]
<1>1. Begins(f, p + 1) <=> f[p + 1] = Percent
  <2>1. CASE p = 0
    <3>1. p + 1 = 1
      BY <2>1
    <3> QED BY <3>1, BeginsFirst
  <2>2. CASE p # 0
    BY <2>2, BeginsOnce
  <2> QED BY <2>1, <2>2
<1>2. Conversion(f, p + 1) = 0
  <2>1. (p + 1) - 1 = p /\ (p + 1 > 1 => p > 0)
    OBVIOUS
  <2> QED BY <2>1 DEF Conversion
<1>3. ASSUME f[p + 1] = Percent
      PROVE  ~ Begins(f, p + 2) /\ Conversion(f, p + 2) = f[p + 2]
  <2>1. p + 1 \in Nat \ {0} /\ (p + 1) + 1 = p + 2 /\ (p + 2) - 1 = p + 1 /\ p + 2 > 1
    OBVIOUS
  <2>2. Begins(f, p + 1)
    BY <1>1, <1>3
  <2>3. ~ Begins(f, (p + 1) + 1)
    BY <2>1, <2>2, BeginsOnce
  <2> QED BY <2>1, <2>2, <2>3 DEF Conversion
<1> QED BY <1>1, <1>2, <1>3

\* Conversions counted.
LEMMA TakingNext ==
  ASSUME NEW f, NEW i \in Nat
  PROVE  /\ Taking(f, i) \subseteq 1 .. i
         /\ Cardinality(Taking(f, i)) \in Nat
         /\ Cardinality(Taking(f, i + 1)) =
              IF Conversion(f, i + 1) \in {CharS, CharD, CharX}
              THEN Cardinality(Taking(f, i)) + 1 ELSE Cardinality(Taking(f, i))
<1>1. Taking(f, i) \subseteq 1 .. i
  BY DEF Taking
<1>2. IsFiniteSet(Taking(f, i)) /\ Cardinality(Taking(f, i)) \in Nat
  <2>1. IsFiniteSet(1 .. i)
    BY FS_Interval
  <2> QED BY <1>1, <2>1, FS_Subset, FS_CardinalityType
<1>3. CASE Conversion(f, i + 1) \in {CharS, CharD, CharX}
  <2>1. Taking(f, i + 1) = Taking(f, i) \cup {i + 1}
    <3>1. \A k : k \in 1 .. i + 1 <=> k \in 1 .. i \/ k = i + 1
      OBVIOUS
    <3> QED BY <1>3, <3>1 DEF Taking
  <2>2. i + 1 \notin Taking(f, i)
    BY <1>1
  <2>3. Cardinality(Taking(f, i + 1)) = Cardinality(Taking(f, i)) + 1
    BY <1>2, <2>1, <2>2, FS_AddElement
  <2> QED BY <1>1, <1>2, <1>3, <2>3
<1>4. CASE Conversion(f, i + 1) \notin {CharS, CharD, CharX}
  <2>1. Taking(f, i + 1) = Taking(f, i)
    <3>1. \A k : k \in 1 .. i + 1 <=> k \in 1 .. i \/ k = i + 1
      OBVIOUS
    <3> QED BY <1>4, <3>1 DEF Taking
  <2> QED BY <1>1, <1>2, <1>4, <2>1
<1> QED BY <1>1, <1>2, <1>3, <1>4

LEMMA TakingMonotone ==
  ASSUME NEW f, NEW i \in Nat, NEW j \in Nat, i <= j
  PROVE  Cardinality(Taking(f, i)) <= Cardinality(Taking(f, j))
<1>1. Taking(f, i) \subseteq Taking(f, j)
  BY DEF Taking
<1>2. IsFiniteSet(1 .. j) /\ Taking(f, j) \subseteq 1 .. j
  BY FS_Interval, TakingNext
<1>3. IsFiniteSet(Taking(f, j))
  BY <1>2, FS_Subset
<1> QED BY <1>1, <1>3, FS_Subset

LEMMA TakingNone ==
  ASSUME NEW f
  PROVE  Cardinality(Taking(f, 0)) = 0
<1>1. Taking(f, 0) = {}
  BY DEF Taking
<1> QED BY <1>1, FS_EmptySet

\* A conversion that takes an argument finds one of its type.
LEMMA ArgumentOfConversion ==
  ASSUME NEW f \in Formats, NEW b \in Arguments(f), NEW i \in 1 .. Len(f),
         Conversion(f, i) \in {CharS, CharD, CharX}
  PROVE  /\ Cardinality(Taking(f, i)) \in 1 .. Len(b) /\ b \in Seq(Strings \cup Numbers)
         /\ b[Cardinality(Taking(f, i))] \in IF f[i] = CharS THEN Strings ELSE Numbers
         /\ Conversion(f, i) = f[i]
<1>0. f \in Seq(Int) /\ Len(f) \in Nat
  <2>1. Formats \subseteq Seq(Int \ {0})
    BY CallsAssumption
  <2> QED BY <2>1
<1>1. i \in Taking(f, Len(f))
  BY DEF Taking
<1>2. /\ b \in [1 .. Cardinality(Taking(f, Len(f))) -> Strings \cup Numbers]
      /\ b[Cardinality(Taking(f, i))] \in IF f[i] = CharS THEN Strings ELSE Numbers
  BY <1>1 DEF Arguments
<1>3. Cardinality(Taking(f, Len(f))) \in Nat
  BY <1>0, TakingNext
<1>4. b \in Seq(Strings \cup Numbers) /\ Len(b) = Cardinality(Taking(f, Len(f)))
  BY <1>2, <1>3
<1>5. i - 1 \in Nat /\ (i - 1) + 1 = i /\ i \in Nat /\ i <= Len(f)
  BY <1>0
<1>6. Cardinality(Taking(f, i)) \in Nat \ {0}
  <2>1. Cardinality(Taking(f, i - 1)) \in Nat
    BY <1>5, TakingNext
  <2>2. Cardinality(Taking(f, (i - 1) + 1)) = Cardinality(Taking(f, i - 1)) + 1
    BY <1>5, TakingNext
  <2> QED BY <1>5, <2>1, <2>2
<1>7. Cardinality(Taking(f, i)) <= Cardinality(Taking(f, Len(f)))
  BY <1>0, <1>5, TakingMonotone
<1>8. Conversion(f, i) = f[i]
  BY DEF Conversion, CharS, CharD, CharX
<1> QED BY <1>2, <1>3, <1>4, <1>6, <1>7, <1>8

-----------------------------------------------------------------------------
(* Memory.                                                                   *)

LEMMA StringEnds ==
  ASSUME NEW m, DOMAIN m = 0 .. Room - 1, NEW e \in 0 .. Room - 1, m[e] = 0,
         \A i \in 0 .. e - 1 : m[i] # 0
  PROVE  k_strlen(m) = e
<1> DEFINE n == CHOOSE n \in DOMAIN m : m[n] = 0 /\ \A i \in 0 .. n - 1 : m[i] # 0
<1>1. n \in DOMAIN m /\ m[n] = 0 /\ \A i \in 0 .. n - 1 : m[i] # 0
  OBVIOUS
<1>2. k_strlen(m) = n
  BY DEF k_strlen
<1> HIDE DEF n
<1>3. n \in Nat /\ e \in Nat
  BY <1>1, CallsAssumption
<1>4. ~ (n < e) /\ ~ (e < n)
  BY <1>1, <1>3
<1> QED BY <1>2, <1>3, <1>4

\* The memory m holds t, and behind the place where t ends what it held before
\* the call.  Of a text that does not fit nothing is said.
Holds(m, t) ==
  /\ m = [a \in 0 .. Room - 1 |-> m[a]]
  /\ Len(t) < Room =>
       \A a \in 0 .. Room - 1 :
         (a < Len(t) => m[a] = t[a + 1]) /\ (a > Len(t) => m[a] = Stale)

LEMMA CharHolds ==
  ASSUME NEW m, NEW t \in Seq(Character), Holds(m, t), NEW ch \in Character
  PROVE  Holds([m EXCEPT ![Len(t)] = ch], t \o <<ch>>)
<1> DEFINE r == [m EXCEPT ![Len(t)] = ch]
           u == t \o <<ch>>
<1>1. DOMAIN m = 0 .. Room - 1 /\ Room \in Nat
  BY CallsAssumption DEF Holds
<1>2. PICK e \in Nat : e = Len(t)
  OBVIOUS
<1>3. Len(u) = e + 1 /\ u[e + 1] = ch /\ \A k \in 1 .. e : u[k] = t[k]
  <2>1. <<ch>> \in Seq(Character) /\ Len(<<ch>>) = 1 /\ <<ch>>[1] = ch
    OBVIOUS
  <2> QED BY <1>2, <2>1, ConcatProperties
<1>4. r = [a \in 0 .. Room - 1 |-> IF a = e THEN ch ELSE m[a]]
  BY <1>1, <1>2
<1> HIDE DEF u, r
<1>5. r = [a \in 0 .. Room - 1 |-> r[a]]
  BY <1>4
<1>6. ASSUME e + 1 < Room, NEW a \in 0 .. Room - 1
      PROVE  (a < e + 1 => r[a] = u[a + 1]) /\ (a > e + 1 => r[a] = Stale)
  <2>1. (a < e => m[a] = t[a + 1]) /\ (a > e => m[a] = Stale)
    BY <1>1, <1>2, <1>6 DEF Holds
  <2>2. a < e => a + 1 \in 1 .. e
    BY <1>1
  <2>3. r[a] = IF a = e THEN ch ELSE m[a]
    BY <1>4
  <2> QED BY <1>1, <1>3, <2>1, <2>2, <2>3
<1>7. Holds(r, u)
  BY <1>3, <1>5, <1>6 DEF Holds
<1> QED BY <1>7 DEF r, u

LEMMA TextHolds ==
  ASSUME NEW m, NEW t \in Seq(Character), Holds(m, t), NEW source \in Seq(Character)
  PROVE  Holds(k_strcat([m EXCEPT ![Len(t)] = 0], source), t \o source)
<1> DEFINE b == [m EXCEPT ![Len(t)] = 0]
           r == k_strcat(b, source)
           u == t \o source
           end == k_strlen(b)
<1>1. DOMAIN m = 0 .. Room - 1 /\ Room \in Nat /\ DOMAIN b = 0 .. Room - 1
  BY CallsAssumption DEF Holds
<1>2. PICK e \in Nat, n \in Nat : e = Len(t) /\ n = Len(source)
  OBVIOUS
<1>3. Len(u) = e + n /\ \A k \in 1 .. e + n : u[k] = IF k <= e THEN t[k] ELSE source[k - e]
  BY <1>2, ConcatProperties
<1>4. r = [a \in 0 .. Room - 1 |->
             IF a \in end .. end + n - 1 THEN source[a - end + 1]
             ELSE IF a = end + n THEN 0 ELSE b[a]]
  BY <1>1, <1>2 DEF k_strcat
<1>5. b = [a \in 0 .. Room - 1 |-> IF a = e THEN 0 ELSE m[a]]
  BY <1>1, <1>2
<1>6. \A k \in 1 .. e : t[k] # 0
  BY <1>2 DEF Character
<1> HIDE DEF r, u, b, end
<1>7. r = [a \in 0 .. Room - 1 |-> r[a]]
  BY <1>4
<1>8. ASSUME e + n < Room, NEW a \in 0 .. Room - 1
      PROVE  (a < e + n => r[a] = u[a + 1]) /\ (a > e + n => r[a] = Stale)
  <2>1. e < Room /\ e \in 0 .. Room - 1
    BY <1>1, <1>8
  <2>2. \A i \in 0 .. Room - 1 : (i < e => m[i] = t[i + 1]) /\ (i > e => m[i] = Stale)
    BY <1>1, <1>2, <2>1 DEF Holds
  <2>3. ASSUME NEW i \in 0 .. e - 1 PROVE b[i] # 0 /\ b[i] = t[i + 1]
    <3>1. i \in 0 .. Room - 1 /\ i < e /\ i # e /\ i + 1 \in 1 .. e
      BY <1>1, <2>1
    <3> QED BY <1>5, <1>6, <2>2, <3>1
  <2>4. b[e] = 0
    BY <1>5, <2>1
  <2>5. end = e
    BY <1>1, <2>1, <2>3, <2>4, StringEnds DEF end
  <2>6. CASE a < e
    <3>1. a \notin e .. e + n - 1 /\ a # e + n /\ a \in 0 .. e - 1 /\ a + 1 \in 1 .. e + n /\ a + 1 <= e
      BY <1>1, <2>6
    <3>2. r[a] = b[a]
      BY <1>4, <2>5, <3>1
    <3> QED BY <1>3, <2>3, <3>1, <3>2
  <2>7. CASE e <= a /\ a < e + n
    <3>1. a \in e .. e + n - 1 /\ a + 1 \in 1 .. e + n /\ ~ (a + 1 <= e) /\ (a + 1) - e = a - e + 1
      BY <1>1, <2>7
    <3>2. r[a] = source[a - e + 1]
      BY <1>4, <2>5, <3>1
    <3>3. ~ (a > e + n)
      BY <1>1, <2>7
    <3> QED BY <1>3, <3>1, <3>2, <3>3
  <2>8. CASE a = e + n
    BY <1>1, <2>8
  <2>9. CASE a > e + n
    <3>1. a \notin e .. e + n - 1 /\ a # e + n /\ a # e /\ a > e /\ ~ (a < e + n)
      BY <1>1, <2>9
    <3>2. r[a] = m[a]
      BY <1>4, <1>5, <2>5, <3>1
    <3> QED BY <2>2, <3>1, <3>2
  <2> QED BY <1>1, <2>6, <2>7, <2>8, <2>9
<1>9. Holds(r, u)
  BY <1>3, <1>7, <1>8 DEF Holds
<1> QED BY <1>9 DEF r, u, b

-----------------------------------------------------------------------------
(* The text.                                                                 *)

\* What k_sprintf writes for position i of the format f.
Output(f, b, i) ==
  LET arg == b[Cardinality(Taking(f, i))]  c == Conversion(f, i) IN
  CASE c = CharS -> arg
    [] c = CharD -> k_itoa(arg[1])
    [] c = CharX -> k_utoa(arg[1] % Word, 16)
    [] c = Percent -> <<Percent>>
    [] c = 0 /\ ~ Begins(f, i) -> <<f[i]>>
    [] OTHER -> <<>>

\* What it has written for the first p positions.
Written(f, b, p) ==
  LET written[n \in 0 .. Len(f)] == IF n = 0 THEN <<>> ELSE written[n - 1] \o Output(f, b, n)
  IN  written[p]

LEMMA OutputOf ==
  ASSUME NEW f, NEW b, NEW i
  PROVE  /\ Conversion(f, i) = CharS => Output(f, b, i) = b[Cardinality(Taking(f, i))]
         /\ Conversion(f, i) = CharD => Output(f, b, i) = k_itoa(b[Cardinality(Taking(f, i))][1])
         /\ Conversion(f, i) = CharX =>
              Output(f, b, i) = k_utoa(b[Cardinality(Taking(f, i))][1] % Word, 16)
<1> DEFINE arg == b[Cardinality(Taking(f, i))]
           c == Conversion(f, i)
<1>1. Output(f, b, i) =
        CASE c = CharS -> arg
          [] c = CharD -> k_itoa(arg[1])
          [] c = CharX -> k_utoa(arg[1] % Word, 16)
          [] c = Percent -> <<Percent>>
          [] c = 0 /\ ~ Begins(f, i) -> <<f[i]>>
          [] OTHER -> <<>>
  BY DEF Output
<1> HIDE DEF arg, c
<1>2. /\ c = CharS => Output(f, b, i) = arg
      /\ c = CharD => Output(f, b, i) = k_itoa(arg[1])
      /\ c = CharX => Output(f, b, i) = k_utoa(arg[1] % Word, 16)
  BY <1>1 DEF CharS, CharD, CharX, Percent
<1> QED BY <1>2 DEF arg, c

LEMMA FormatShape ==
  ASSUME NEW f \in Formats
  PROVE  f \in Seq(Character) /\ f \in Seq(Int) /\ Len(f) \in Nat
<1>1. Formats \subseteq Seq(Int \ {0})
  BY CallsAssumption
<1> QED BY <1>1 DEF Character

LEMMA NumberShape ==
  ASSUME NEW v \in Numbers
  PROVE  /\ v[1] \in IntMin .. -IntMin - 1 /\ v[1] \in Int /\ v = <<v[1]>>
         /\ v[1] % Word \in 0 .. Word - 1
<1>1. PICK n \in IntMin .. -IntMin - 1 : v = <<n>>
  BY CallsAssumption
<1>2. IntMin \in Int /\ Word \in Nat \ {0}
  BY WordAssumption DEF IntMin
<1>3. n \in Int /\ v[1] = n
  BY <1>1, <1>2
<1>4. n % Word \in 0 .. Word - 1
  BY <1>2, <1>3
<1> QED BY <1>1, <1>3, <1>4

LEMMA OutputShape ==
  ASSUME NEW f \in Formats, NEW b \in Arguments(f), NEW i \in 1 .. Len(f)
  PROVE  Output(f, b, i) \in Seq(Character)
<1> DEFINE arg == b[Cardinality(Taking(f, i))]
           c == Conversion(f, i)
<1>1. ASSUME c \in {CharS, CharD, CharX}
      PROVE  /\ arg \in IF c = CharS THEN Strings ELSE Numbers
  BY <1>1, ArgumentOfConversion
<1>2. Output(f, b, i) =
        CASE c = CharS -> arg
          [] c = CharD -> k_itoa(arg[1])
          [] c = CharX -> k_utoa(arg[1] % Word, 16)
          [] c = Percent -> <<Percent>>
          [] c = 0 /\ ~ Begins(f, i) -> <<f[i]>>
          [] OTHER -> <<>>
  BY DEF Output
<1>3. f[i] \in Character
  BY FormatShape
<1> HIDE DEF c, arg
<1>4. CASE c = CharS
  <2>1. Output(f, b, i) = arg /\ arg \in Strings
    BY <1>1, <1>2, <1>4 DEF CharS, CharD, CharX, Percent
  <2>2. Strings \subseteq Seq(Int \ {0})
    BY CallsAssumption
  <2> QED BY <2>1, <2>2 DEF Character
<1>5. CASE c = CharD
  <2>1. Output(f, b, i) = k_itoa(arg[1]) /\ arg \in Numbers
    BY <1>1, <1>2, <1>5 DEF CharS, CharD, CharX, Percent
  <2> QED BY <2>1, NumberShape, ItoaShape
<1>6. CASE c = CharX
  <2>1. Output(f, b, i) = k_utoa(arg[1] % Word, 16) /\ arg \in Numbers
    BY <1>1, <1>2, <1>6 DEF CharS, CharD, CharX, Percent
  <2>2. PICK v \in 0 .. Word - 1 : v = arg[1] % Word
    BY <2>1, NumberShape
  <2>3. k_utoa(v, 16) \in Seq(Character)
    BY UtoaNumeral, NumeralShape
  <2> QED BY <2>1, <2>2, <2>3
<1>7. CASE c \notin {CharS, CharD, CharX}
  <2>1. Output(f, b, i) \in {<<Percent>>, <<f[i]>>, <<>>}
    BY <1>2, <1>7
  <2>2. <<Percent>> \in Seq(Character)
    BY DEF Percent, Character
  <2>3. <<f[i]>> \in Seq(Character)
    BY <1>3
  <2>4. <<>> \in Seq(Character)
    OBVIOUS
  <2> QED BY <2>1, <2>2, <2>3, <2>4
<1> QED BY <1>4, <1>5, <1>6, <1>7

\* The equations of the recursion.
LEMMA WrittenNext ==
  ASSUME NEW f \in Formats, NEW b \in Arguments(f)
  PROVE  /\ Written(f, b, 0) = <<>>
         /\ \A p \in 0 .. Len(f) : Written(f, b, p) \in Seq(Character)
         /\ \A p \in 1 .. Len(f) : Written(f, b, p) = Written(f, b, p - 1) \o Output(f, b, p)
<1> DEFINE V == Seq(Character)
           piece(k) == IF k \in 1 .. Len(f) THEN Output(f, b, k) ELSE <<>>
           g == [k \in Nat |-> [v \in V |-> v \o piece(k)]]
           Def(w) == [n \in 0 .. Len(f) |-> IF n = 0 THEN <<>> ELSE w[n - 1] \o Output(f, b, n)]
           written == CHOOSE w : w = Def(w)
<1>0. Len(f) \in Nat
  BY FormatShape
<1>1. \A k \in Nat : piece(k) \in V
  <2>1. <<>> \in V
    OBVIOUS
  <2> QED BY <2>1, OutputShape
<1>2. <<>> \in V
  OBVIOUS
<1>3. g \in [Nat -> [V -> V]]
  <2>1. ASSUME NEW k \in Nat, NEW v \in V PROVE v \o piece(k) \in V
    BY <1>1, <2>1, ConcatProperties
  <2> HIDE DEF piece, V
  <2> QED BY <2>1
<1>4. \A k \in Nat, v \in V : g[k][v] = v \o piece(k)
  BY DEF V
<1> HIDE DEF g, V
<1>5. PICK h \in [Nat -> V] : h[0] = <<>> /\ \A k \in Nat : h[k + 1] = g[k + 1][h[k]]
  <2>1. ASSUME NEW c \in V, NEW d \in [Nat -> [V -> V]]
        PROVE  \E h \in [Nat -> V] : h[0] = c /\ \A k \in Nat : h[k + 1] = d[k + 1][h[k]]
    BY <2>1, Recursion
  <2> QED BY <1>2, <1>3, <2>1
<1>6. \A n \in 1 .. Len(f) : h[n] = h[n - 1] \o Output(f, b, n)
  <2> SUFFICES ASSUME NEW n \in 1 .. Len(f) PROVE h[n] = h[n - 1] \o Output(f, b, n)
    OBVIOUS
  <2>1. n - 1 \in Nat /\ (n - 1) + 1 = n /\ n \in Nat
    BY <1>0
  <2>2. h[n - 1] \in V /\ h[(n - 1) + 1] = g[(n - 1) + 1][h[n - 1]]
    BY <1>5, <2>1
  <2>3. piece(n) = Output(f, b, n)
    OBVIOUS
  <2> HIDE DEF piece
  <2> QED BY <1>4, <2>1, <2>2, <2>3
<1> HIDE DEF piece
<1> DEFINE closed == [n \in 0 .. Len(f) |-> h[n]]
<1>7. closed = Def(closed)
  <2>1. ASSUME NEW n \in 0 .. Len(f)
        PROVE  h[n] = IF n = 0 THEN <<>> ELSE closed[n - 1] \o Output(f, b, n)
    <3>1. CASE n = 0
      BY <1>5, <3>1
    <3>2. CASE n # 0
      <4>1. n \in 1 .. Len(f) /\ n - 1 \in 0 .. Len(f)
        BY <1>0, <3>2
      <4>2. closed[n - 1] = h[n - 1]
        BY <4>1
      <4> QED BY <1>6, <3>2, <4>1, <4>2
    <3> QED BY <3>1, <3>2
  <2> QED BY <2>1
<1>8. written = Def(written)
  BY <1>7
<1>9. \A p : Written(f, b, p) = written[p]
  BY DEF Written
<1> HIDE DEF written
<1>10. \A n \in 0 .. Len(f) : written[n] = IF n = 0 THEN <<>> ELSE written[n - 1] \o Output(f, b, n)
  BY <1>8
<1>12. written[0] = <<>>
  BY <1>0, <1>10
<1>11. ASSUME NEW p \in 0 .. Len(f) PROVE written[p] = h[p]
  <2> DEFINE Bad == {n \in Nat : n <= Len(f) /\ written[n] # h[n]}
  <2>1. ASSUME p \in Bad PROVE FALSE
    <3>1. PICK n \in Bad : \A j \in Bad : n <= j
      BY <2>1, LeastNumber
    <3>2. n # 0
      BY <1>5, <1>12, <3>1
    <3>3. n - 1 \in Nat /\ n - 1 <= Len(f) /\ n - 1 \notin Bad /\ n \in 0 .. Len(f) /\ n \in 1 .. Len(f)
      BY <1>0, <3>1, <3>2
    <3>4. written[n - 1] = h[n - 1]
      BY <3>3
    <3> QED BY <1>6, <1>10, <3>1, <3>2, <3>3, <3>4
  <2>2. p \in Nat /\ p <= Len(f)
    BY <1>0
  <2> QED BY <2>1, <2>2
<1>13. ASSUME NEW p \in 0 .. Len(f) PROVE written[p] \in Seq(Character)
  <2>1. h[p] \in V
    BY <1>0, <1>5
  <2> QED BY <1>11, <2>1 DEF V
<1>14. ASSUME NEW p \in 1 .. Len(f) PROVE written[p] = written[p - 1] \o Output(f, b, p)
  <2>1. p \in 0 .. Len(f) /\ p # 0
    BY <1>0
  <2> QED BY <1>10, <2>1
<1> QED BY <1>9, <1>12, <1>13, <1>14

\* FlattenSeq puts the sequences one behind the other.
LEMMA Flattened ==
  ASSUME NEW n \in Nat, NEW s, s = [i \in 1 .. n |-> s[i]], NEW w \in [0 .. n -> Seq(Character)], w[0] = <<>>,
         \A i \in 1 .. n : w[i] = w[i - 1] \o s[i],
         \A i \in 1 .. n : s[i] \in Seq(Character)
  PROVE  FlattenSeq(s) = w[n]
<1> DEFINE Def(h) == [i \in 1 .. Len(s) |-> IF i = 1 THEN s[i] ELSE h[i - 1] \o s[i]]
           flatten == CHOOSE h : h = Def(h)
           closed == [i \in 1 .. Len(s) |-> w[i]]
<1>1. Len(s) = n /\ DOMAIN s = 1 .. n
  OBVIOUS
<1>2. CASE n = 0
  <2>1. FlattenSeq(s) = s
    BY <1>1, <1>2 DEF FlattenSeq
  <2>2. s = <<>>
    BY <1>2
  <2> QED BY <1>2, <2>1, <2>2
<1>3. CASE n # 0
  <2>1. 1 \in 1 .. n => w[1] = s[1]
    <3>1. ASSUME 1 \in 1 .. n PROVE w[1] = s[1]
      <4>1. w[1] = <<>> \o s[1]
        <5>1. PICK i \in 1 .. n : i = 1
          BY <3>1
        <5>2. w[i] = w[i - 1] \o s[i]
          OBVIOUS
        <5>3. i - 1 = 0
          BY <5>1
        <5> QED BY <5>1, <5>2, <5>3
      <4>2. s[1] \in Seq(Character)
        BY <3>1
      <4> QED BY <4>1, <4>2, ConcatEmptySeq
    <3> QED BY <3>1
  <2>2. closed = Def(closed)
    <3>1. ASSUME NEW i \in 1 .. Len(s)
          PROVE  w[i] = IF i = 1 THEN s[i] ELSE closed[i - 1] \o s[i]
      <4>1. CASE i = 1
        BY <1>1, <2>1, <4>1
      <4>2. CASE i # 1
        <5>1. i - 1 \in 1 .. Len(s) /\ i \in 1 .. n
          BY <1>1, <4>2
        <5>2. closed[i - 1] = w[i - 1]
          BY <5>1
        <5> QED BY <4>2, <5>1, <5>2
      <4> QED BY <4>1, <4>2
    <3> QED BY <3>1
  <2>3. flatten = Def(flatten)
    BY <2>2
  <2>4. FlattenSeq(s) = flatten[n]
    BY <1>1, <1>3 DEF FlattenSeq
  <2> HIDE DEF flatten
  <2>5. \A i \in 1 .. n : flatten[i] = IF i = 1 THEN s[i] ELSE flatten[i - 1] \o s[i]
    BY <1>1, <2>3
  <2> DEFINE Bad == {i \in Nat : i \in 1 .. n /\ flatten[i] # w[i]}
  <2>6. ASSUME n \in Bad PROVE FALSE
    <3>1. PICK i \in Bad : \A j \in Bad : i <= j
      BY <2>6, LeastNumber
    <3>2. i # 1
      BY <2>1, <2>5, <3>1
    <3>3. i - 1 \in Nat /\ i - 1 \in 1 .. n /\ i - 1 \notin Bad /\ i \in 1 .. n
      BY <3>1, <3>2
    <3>4. flatten[i - 1] = w[i - 1]
      BY <3>3
    <3> QED BY <2>5, <3>1, <3>2, <3>3, <3>4
  <2>7. n \in Nat /\ n \in 1 .. n
    BY <1>3
  <2> QED BY <2>4, <2>6, <2>7
<1> QED BY <1>2, <1>3

-----------------------------------------------------------------------------
(* k_sprintf.                                                                *)

\* The call is through with p characters of its format, no conversion is begun,
\* and what is written is their text.
Progress(p) ==
  /\ rest = SubSeq(fmt, p + 1, Len(fmt))
  /\ p > 0 => ~ Begins(fmt, p)
  /\ va = SubSeq(args, Cardinality(Taking(fmt, p)) + 1, Len(args))
  /\ len = Len(Written(fmt, args, p))
  /\ Holds(str, Written(fmt, args, p))

SprintfInv ==
  /\ fmt \in Formats /\ args \in Arguments(fmt) /\ done \in BOOLEAN
  /\ \E p \in 0 .. Len(fmt) : Progress(p)
  /\ done => rest \in {<<>>, <<Percent>>} /\ (len < Room => str[len] = 0)

LEMMA ArgumentsShape ==
  ASSUME NEW f \in Formats, NEW b \in Arguments(f)
  PROVE  b \in Seq(Strings \cup Numbers)
<1>1. Len(f) \in Nat
  BY FormatShape
<1>2. Cardinality(Taking(f, Len(f))) \in Nat
  BY <1>1, TakingNext
<1> QED BY <1>2 DEF Arguments

\* What is left of a sequence, an element on.
LEMMA Rest ==
  ASSUME NEW s, s \in Seq(Int) \/ s \in Seq(Strings \cup Numbers), NEW n \in 0 .. Len(s),
         NEW r, r = SubSeq(s, n + 1, Len(s))
  PROVE  /\ Len(r) = Len(s) - n /\ Len(s) \in Nat
         /\ r = <<>> <=> n = Len(s)
         /\ \A k \in 1 .. Len(s) - n : r[k] = s[n + k]
         /\ \A k \in 0 .. Len(s) - n : SubSeq(r, k + 1, Len(r)) = SubSeq(s, n + k + 1, Len(s))
         /\ n < Len(s) => Tail(r) = SubSeq(s, n + 2, Len(s))
<1>1. PICK S : s \in Seq(S)
  OBVIOUS
<1>2. PICK l \in Nat : l = Len(s)
  BY <1>1
<1>3. n \in 0 .. l /\ n \in Nat
  BY <1>2
<1>4. /\ r = [k \in 1 .. l - n |-> s[n + k]] /\ r \in Seq(S) /\ Len(r) = l - n
  <2>1. r = [k \in 1 .. l - n |-> s[n + k]]
    BY <1>1, <1>2, <1>3
  <2>2. \A k \in 1 .. l - n : s[n + k] \in S
    BY <1>1, <1>2, <1>3
  <2>3. PICK q \in Nat : q = l - n
    BY <1>3
  <2>4. r \in [1 .. q -> S]
    BY <2>1, <2>2, <2>3
  <2>5. r \in Seq(S) /\ Len(r) = q
    <3>1. ASSUME NEW c \in Nat, NEW t \in [1 .. c -> S] PROVE t \in Seq(S) /\ Len(t) = c
      OBVIOUS
    <3> QED BY <2>4, <3>1, Zenon
  <2> QED BY <2>1, <2>3, <2>5
<1>5. r = <<>> <=> n = l
  <2>1. r = <<>> <=> Len(r) = 0
    BY <1>4, EmptySeq
  <2> QED BY <1>2, <1>3, <1>4, <2>1
<1>6. ASSUME NEW k \in 0 .. l - n
      PROVE  SubSeq(r, k + 1, l - n) = SubSeq(s, n + k + 1, l)
  <2>1. k \in Nat /\ n + k \in Nat /\ n + k <= l
    BY <1>3
  <2>2. SubSeq(r, k + 1, l - n) = [j \in 1 .. l - n - k |-> r[k + j]]
    BY <1>3, <1>4, <2>1
  <2>3. SubSeq(s, n + k + 1, l) = [j \in 1 .. l - n - k |-> s[n + k + j]]
    BY <1>1, <1>2, <1>3, <2>1
  <2>4. ASSUME NEW j \in 1 .. l - n - k PROVE r[k + j] = s[n + k + j]
    <3>1. k + j \in 1 .. l - n /\ n + (k + j) = n + k + j
      BY <1>3, <2>1
    <3> QED BY <1>4, <3>1
  <2> QED BY <2>2, <2>3, <2>4
<1>7. ASSUME n < l PROVE Tail(r) = SubSeq(s, n + 2, l)
  <2>1. r # <<>>
    BY <1>3, <1>5, <1>7
  <2>2. Tail(r) = SubSeq(r, 2, Len(r))
    BY <1>4, <2>1, TailIsSubSeq
  <2>3. 1 \in 0 .. l - n /\ 1 + 1 = 2 /\ n + 1 + 1 = n + 2
    BY <1>3, <1>7
  <2> QED BY <1>4, <1>6, <2>2, <2>3
<1> QED BY <1>2, <1>4, <1>5, <1>6, <1>7

\* A character outside a conversion.
LEMMA PlainPosition ==
  ASSUME NEW f \in Formats, NEW b \in Arguments(f), NEW p \in 0 .. Len(f) - 1,
         p > 0 => ~ Begins(f, p), f[p + 1] # Percent
  PROVE  /\ ~ Begins(f, p + 1) /\ Cardinality(Taking(f, p + 1)) = Cardinality(Taking(f, p))
         /\ Written(f, b, p + 1) = Written(f, b, p) \o <<f[p + 1]>>
<1>1. PICK l \in Nat : l = Len(f) /\ f \in Seq(Int) /\ p \in Nat /\ p + 1 \in 1 .. l
  BY FormatShape
<1>2. ~ Begins(f, p + 1) /\ Conversion(f, p + 1) = 0
  BY <1>1, BeginsNext
<1>3. Output(f, b, p + 1) = <<f[p + 1]>>
  BY <1>2 DEF Output, CharS, CharD, CharX, Percent
<1>4. Written(f, b, p + 1) = Written(f, b, p) \o Output(f, b, p + 1)
  <2>1. (p + 1) - 1 = p
    BY <1>1
  <2> QED BY <1>1, <2>1, WrittenNext
<1>5. Cardinality(Taking(f, p + 1)) = Cardinality(Taking(f, p))
  <2>1. Conversion(f, p + 1) \notin {CharS, CharD, CharX}
    BY <1>2 DEF CharS, CharD, CharX
  <2> QED BY <1>1, <2>1, TakingNext
<1> QED BY <1>2, <1>3, <1>4, <1>5

\* A conversion.
LEMMA ConversionPosition ==
  ASSUME NEW f \in Formats, NEW b \in Arguments(f), NEW p \in 0 .. Len(f) - 2,
         p > 0 => ~ Begins(f, p), f[p + 1] = Percent
  PROVE  /\ ~ Begins(f, p + 2) /\ Conversion(f, p + 2) = f[p + 2]
         /\ Cardinality(Taking(f, p + 2)) =
              IF f[p + 2] \in {CharS, CharD, CharX}
              THEN Cardinality(Taking(f, p)) + 1 ELSE Cardinality(Taking(f, p))
         /\ Written(f, b, p + 2) = Written(f, b, p) \o Output(f, b, p + 2)
<1>1. PICK l \in Nat : /\ l = Len(f) /\ f \in Seq(Int) /\ p \in Nat
                       /\ p + 1 \in 1 .. l /\ p + 2 \in 1 .. l /\ p \in 0 .. l
  BY FormatShape
<1>2. /\ Begins(f, p + 1) /\ Conversion(f, p + 1) = 0
      /\ ~ Begins(f, p + 2) /\ Conversion(f, p + 2) = f[p + 2]
  BY <1>1, BeginsNext
<1>3. Output(f, b, p + 1) = <<>>
  BY <1>2 DEF Output, CharS, CharD, CharX, Percent
<1>4. Written(f, b, p + 1) = Written(f, b, p)
  <2>1. (p + 1) - 1 = p
    BY <1>1
  <2>2. Written(f, b, p + 1) = Written(f, b, p) \o <<>>
    BY <1>1, <1>3, <2>1, WrittenNext
  <2>3. Written(f, b, p) \in Seq(Character)
    BY <1>1, WrittenNext
  <2> QED BY <2>2, <2>3, ConcatEmptySeq
<1>5. Written(f, b, p + 2) = Written(f, b, p + 1) \o Output(f, b, p + 2)
  <2>1. (p + 2) - 1 = p + 1
    BY <1>1
  <2> QED BY <1>1, <2>1, WrittenNext
<1>6. Cardinality(Taking(f, p + 1)) = Cardinality(Taking(f, p))
  <2>1. Conversion(f, p + 1) \notin {CharS, CharD, CharX}
    BY <1>2 DEF CharS, CharD, CharX
  <2> QED BY <1>1, <2>1, TakingNext
<1>7. Cardinality(Taking(f, p + 2)) =
        IF f[p + 2] \in {CharS, CharD, CharX}
        THEN Cardinality(Taking(f, p)) + 1 ELSE Cardinality(Taking(f, p))
  <2>1. p + 1 \in Nat /\ (p + 1) + 1 = p + 2
    BY <1>1
  <2> QED BY <1>2, <1>6, <2>1, TakingNext
<1> QED BY <1>2, <1>4, <1>5, <1>7

LEMMA SprintfInitInv == SprintfInit => SprintfInv
<1> SUFFICES ASSUME SprintfInit PROVE SprintfInv
  OBVIOUS
<1>1. fmt \in Formats /\ args \in Arguments(fmt)
  BY DEF SprintfInit
<1>2. PICK l \in Nat : l = Len(fmt) /\ fmt \in Seq(Int)
  BY <1>1, FormatShape
<1>3. Written(fmt, args, 0) = <<>>
  BY <1>1, WrittenNext
<1>4. Cardinality(Taking(fmt, 0)) = 0
  BY TakingNone
<1>5. rest = SubSeq(fmt, 0 + 1, Len(fmt))
  BY <1>2, SubSeqFull DEF SprintfInit
<1>6. va = SubSeq(args, 0 + 1, Len(args))
  BY <1>1, ArgumentsShape, SubSeqFull DEF SprintfInit
<1>7. Holds(str, <<>>)
  <2>1. str = [a \in 0 .. Room - 1 |-> Stale]
    BY DEF SprintfInit
  <2> QED BY <2>1, CallsAssumption DEF Holds
<1>8. Progress(0)
  BY <1>3, <1>4, <1>5, <1>6, <1>7 DEF Progress, SprintfInit
<1>9. 0 \in 0 .. Len(fmt)
  BY <1>2
<1> QED BY <1>1, <1>8, <1>9 DEF SprintfInv, SprintfInit

LEMMA PlainCharInv == SprintfInv /\ PlainChar => SprintfInv'
<1> SUFFICES ASSUME SprintfInv, PlainChar PROVE SprintfInv'
  OBVIOUS
<1>1. /\ fmt \in Formats /\ args \in Arguments(fmt) /\ UNCHANGED <<fmt, args, done, va>>
      /\ rest # <<>> /\ rest[1] # Percent
  BY DEF SprintfInv, PlainChar, Take, Char
<1>2. ~ done /\ done = FALSE
  BY <1>1 DEF SprintfInv
<1>3. PICK p \in 0 .. Len(fmt) : Progress(p)
  BY DEF SprintfInv
<1>4. PICK l \in Nat : l = Len(fmt) /\ fmt \in Seq(Int) /\ fmt \in Seq(Character)
  BY <1>1, FormatShape
<1>5. /\ p < l /\ rest[1] = fmt[p + 1] /\ p \in 0 .. l - 1
      /\ SubSeq(rest, 1 + 1, Len(rest)) = SubSeq(fmt, p + 1 + 1, Len(fmt))
  <2>1. /\ rest = <<>> <=> p = l
        /\ \A k \in 1 .. l - p : rest[k] = fmt[p + k]
        /\ \A k \in 0 .. l - p : SubSeq(rest, k + 1, Len(rest)) = SubSeq(fmt, p + k + 1, Len(fmt))
    BY <1>3, <1>4, Rest DEF Progress
  <2>2. p < l /\ p \in Nat
    BY <1>1, <1>3, <1>4, <2>1
  <2>3. 1 \in 1 .. l - p /\ 1 \in 0 .. l - p /\ p \in 0 .. l - 1
    BY <1>4, <2>2
  <2> QED BY <2>1, <2>2, <2>3
<1>6. /\ ~ Begins(fmt, p + 1) /\ Cardinality(Taking(fmt, p + 1)) = Cardinality(Taking(fmt, p))
      /\ Written(fmt, args, p + 1) = Written(fmt, args, p) \o <<fmt[p + 1]>>
  BY <1>1, <1>3, <1>4, <1>5, PlainPosition DEF Progress
<1>7. Written(fmt, args, p) \in Seq(Character) /\ fmt[p + 1] \in Character
  <2>1. p + 1 \in 1 .. l
    BY <1>4, <1>5
  <2> QED BY <1>1, <1>3, <1>4, <2>1, WrittenNext
<1>8. Holds(str', Written(fmt, args, p + 1)) /\ len' = Len(Written(fmt, args, p + 1))
  <2>1. len = Len(Written(fmt, args, p)) /\ Holds(str, Written(fmt, args, p))
    BY <1>3 DEF Progress
  <2>2. str' = [str EXCEPT ![len] = fmt[p + 1]] /\ len' = len + 1
    BY <1>5 DEF PlainChar, Char
  <2>3. Len(Written(fmt, args, p) \o <<fmt[p + 1]>>) = Len(Written(fmt, args, p)) + 1
    BY <1>7, ConcatProperties
  <2> QED BY <1>6, <1>7, <2>1, <2>2, <2>3, CharHolds
<1>9. Progress(p + 1)'
  <2>1. rest' = SubSeq(rest, 1 + 1, Len(rest))
    BY DEF PlainChar, Take
  <2>2. rest' = SubSeq(fmt, p + 1 + 1, Len(fmt))
    BY <1>5, <2>1
  <2>3. va' = SubSeq(args, Cardinality(Taking(fmt, p + 1)) + 1, Len(args))
    BY <1>1, <1>3, <1>6 DEF Progress
  <2> QED BY <1>1, <1>6, <1>8, <2>2, <2>3 DEF Progress
<1>10. p + 1 \in 0 .. Len(fmt')
  BY <1>1, <1>4, <1>5
<1> QED BY <1>1, <1>2, <1>9, <1>10 DEF SprintfInv

\* Where the call is in its format.
LEMMA FormatLeft ==
  ASSUME NEW l \in Nat, l = Len(fmt), fmt \in Seq(Int), NEW p \in 0 .. l, Progress(p)
  PROVE  /\ Len(rest) = l - p
         /\ \A k \in 1 .. l - p : rest[k] = fmt[p + k]
         /\ \A k \in 0 .. l - p : SubSeq(rest, k + 1, Len(rest)) = SubSeq(fmt, p + k + 1, Len(fmt))
<1>1. rest = SubSeq(fmt, p + 1, Len(fmt)) /\ p \in 0 .. Len(fmt)
  BY DEF Progress
<1>2. Len(rest) = Len(fmt) - p
  BY <1>1, Rest
<1>3. \A k \in 1 .. Len(fmt) - p : rest[k] = fmt[p + k]
  BY <1>1, Rest
<1>4. \A k \in 0 .. Len(fmt) - p : SubSeq(rest, k + 1, Len(rest)) = SubSeq(fmt, p + k + 1, Len(fmt))
  BY <1>1, Rest
<1> QED BY <1>2, <1>3, <1>4

\* A conversion in which nothing is written, or a text is.
LEMMA ConversionInv ==
  ASSUME SprintfInv, NEW c, Starts(c), Take(2), NEW p \in 0 .. Len(fmt), Progress(p),
         NEW source, source = Output(fmt, args, p + 2),
         \/ c \in {CharS, CharD, CharX} /\ va' = Tail(va)
         \/ c \notin {CharS, CharD, CharX} /\ va' = va,
         len' = len + Len(source),
         Holds(str', Written(fmt, args, p) \o source)
  PROVE  SprintfInv'
<1>1. /\ fmt \in Formats /\ args \in Arguments(fmt) /\ UNCHANGED <<fmt, args, done>>
      /\ ~ done /\ done = FALSE
  BY DEF SprintfInv, Take, Starts
<1>2. PICK l \in Nat : l = Len(fmt) /\ fmt \in Seq(Int)
  BY <1>1, FormatShape
<1>3. /\ p + 2 <= l /\ fmt[p + 1] = Percent /\ fmt[p + 2] = c /\ p \in 0 .. l - 2
      /\ SubSeq(rest, 2 + 1, Len(rest)) = SubSeq(fmt, p + 2 + 1, Len(fmt))
  <2>1. /\ Len(rest) = l - p
        /\ \A k \in 1 .. l - p : rest[k] = fmt[p + k]
        /\ \A k \in 0 .. l - p : SubSeq(rest, k + 1, Len(rest)) = SubSeq(fmt, p + k + 1, Len(fmt))
    BY <1>2, FormatLeft
  <2>2. Len(rest) >= 2 /\ rest[1] = Percent /\ rest[2] = c
    BY DEF Starts
  <2>3. p \in Nat /\ p + 2 <= l /\ p \in 0 .. l - 2
    <3>1. p \in 0 .. l /\ Len(rest) = l - p /\ Len(rest) >= 2
      BY <1>2, <2>1, <2>2
    <3> QED BY <3>1
  <2>4. 1 \in 1 .. l - p /\ 2 \in 1 .. l - p /\ 2 \in 0 .. l - p
    BY <1>2, <2>3
  <2> QED BY <2>1, <2>2, <2>3, <2>4
<1>4. /\ ~ Begins(fmt, p + 2) /\ Conversion(fmt, p + 2) = c
      /\ Cardinality(Taking(fmt, p + 2)) =
           IF c \in {CharS, CharD, CharX}
           THEN Cardinality(Taking(fmt, p)) + 1 ELSE Cardinality(Taking(fmt, p))
      /\ Written(fmt, args, p + 2) = Written(fmt, args, p) \o source
  BY <1>1, <1>2, <1>3, ConversionPosition DEF Progress
<1>5. va' = SubSeq(args, Cardinality(Taking(fmt, p + 2)) + 1, Len(args))
  <2>1. va = SubSeq(args, Cardinality(Taking(fmt, p)) + 1, Len(args))
    BY DEF Progress
  <2>2. CASE c \in {CharS, CharD, CharX}
    <3>1. p + 2 \in 1 .. l /\ p \in Nat
      BY <1>2, <1>3
    <3>2. Cardinality(Taking(fmt, p + 2)) \in 1 .. Len(args) /\ args \in Seq(Strings \cup Numbers)
      BY <1>1, <1>2, <1>4, <2>2, <3>1, ArgumentOfConversion
    <3>3. PICK n \in Nat : n = Cardinality(Taking(fmt, p)) /\ n + 1 = Cardinality(Taking(fmt, p + 2))
      BY <1>4, <2>2, <3>1, TakingNext
    <3>4. n \in 0 .. Len(args) /\ n < Len(args)
      BY <3>2, <3>3
    <3>5. Tail(va) = SubSeq(args, n + 2, Len(args))
      BY <2>1, <3>2, <3>3, <3>4, Rest
    <3>6. n + 1 + 1 = n + 2 /\ va' = Tail(va)
      BY <2>2
    <3> QED BY <3>3, <3>5, <3>6
  <2>3. CASE c \notin {CharS, CharD, CharX}
    BY <1>4, <2>1, <2>3
  <2> QED BY <2>2, <2>3
<1>6. len' = Len(Written(fmt, args, p + 2))
  <2>1. Written(fmt, args, p) \in Seq(Character) /\ source \in Seq(Character)
    <3>1. p + 2 \in 1 .. l /\ p \in 0 .. l
      BY <1>2, <1>3
    <3> QED BY <1>1, <1>2, <3>1, WrittenNext, OutputShape
  <2>2. Len(Written(fmt, args, p) \o source) = Len(Written(fmt, args, p)) + Len(source)
    BY <2>1, ConcatProperties
  <2> QED BY <1>4, <2>2 DEF Progress
<1>7. Progress(p + 2)'
  <2>1. rest' = SubSeq(rest, 2 + 1, Len(rest))
    BY DEF Take
  <2>2. rest' = SubSeq(fmt, p + 2 + 1, Len(fmt))
    BY <1>3, <2>1
  <2> QED BY <1>1, <1>4, <1>5, <1>6, <2>2 DEF Progress
<1>8. p + 2 \in 0 .. Len(fmt')
  BY <1>1, <1>2, <1>3
<1> QED BY <1>1, <1>7, <1>8 DEF SprintfInv

\* The character and the argument a conversion finds.
LEMMA ConversionFinds ==
  ASSUME SprintfInv, NEW c, Starts(c), NEW p \in 0 .. Len(fmt), Progress(p)
  PROVE  /\ fmt \in Formats /\ args \in Arguments(fmt) /\ p + 2 \in 1 .. Len(fmt)
         /\ Conversion(fmt, p + 2) = c /\ ~ Begins(fmt, p + 2) /\ c \in Character
         /\ Written(fmt, args, p) \in Seq(Character)
         /\ len = Len(Written(fmt, args, p)) /\ Holds(str, Written(fmt, args, p))
         /\ c \in {CharS, CharD, CharX} =>
              /\ va[1] = args[Cardinality(Taking(fmt, p + 2))]
              /\ va[1] \in IF c = CharS THEN Strings ELSE Numbers
<1>1. fmt \in Formats /\ args \in Arguments(fmt)
  BY DEF SprintfInv
<1>2. PICK l \in Nat : l = Len(fmt) /\ fmt \in Seq(Int) /\ fmt \in Seq(Character)
  BY <1>1, FormatShape
<1>3. p + 2 \in 1 .. l /\ fmt[p + 1] = Percent /\ fmt[p + 2] = c /\ p \in 0 .. l - 2 /\ p \in Nat
  <2>1. Len(rest) = l - p /\ \A k \in 1 .. l - p : rest[k] = fmt[p + k]
    BY <1>2, FormatLeft
  <2>2. Len(rest) >= 2 /\ rest[1] = Percent /\ rest[2] = c
    BY DEF Starts
  <2>3. p \in Nat /\ p + 2 <= l /\ p \in 0 .. l - 2
    <3>1. p \in 0 .. l /\ Len(rest) = l - p /\ Len(rest) >= 2
      BY <1>2, <2>1, <2>2
    <3> QED BY <3>1
  <2>4. 1 \in 1 .. l - p /\ 2 \in 1 .. l - p
    BY <1>2, <2>3
  <2>5. p + 2 \in 1 .. l
    BY <1>2, <2>3
  <2> QED BY <2>1, <2>2, <2>3, <2>4, <2>5
<1>4. /\ ~ Begins(fmt, p + 2) /\ Conversion(fmt, p + 2) = c
      /\ Cardinality(Taking(fmt, p + 2)) =
           IF c \in {CharS, CharD, CharX}
           THEN Cardinality(Taking(fmt, p)) + 1 ELSE Cardinality(Taking(fmt, p))
  BY <1>1, <1>2, <1>3, ConversionPosition DEF Progress
<1>5. c \in Character
  BY <1>2, <1>3
<1>6. Written(fmt, args, p) \in Seq(Character)
  BY <1>1, <1>2, WrittenNext
<1>7. ASSUME c \in {CharS, CharD, CharX}
      PROVE  /\ va[1] = args[Cardinality(Taking(fmt, p + 2))]
             /\ va[1] \in IF c = CharS THEN Strings ELSE Numbers
  <2>1. /\ Cardinality(Taking(fmt, p + 2)) \in 1 .. Len(args) /\ args \in Seq(Strings \cup Numbers)
        /\ args[Cardinality(Taking(fmt, p + 2))] \in IF fmt[p + 2] = CharS THEN Strings ELSE Numbers
    BY <1>1, <1>2, <1>3, <1>4, <1>7, ArgumentOfConversion
  <2>2. PICK n \in Nat : n = Cardinality(Taking(fmt, p)) /\ n + 1 = Cardinality(Taking(fmt, p + 2))
    BY <1>3, <1>4, <1>7, TakingNext
  <2>3. n \in 0 .. Len(args) /\ 1 \in 1 .. Len(args) - n
    BY <2>1, <2>2
  <2>4. va = SubSeq(args, n + 1, Len(args))
    BY <2>2 DEF Progress
  <2>5. va[1] = args[n + 1]
    BY <2>1, <2>3, <2>4, Rest
  <2> QED BY <1>3, <2>1, <2>2, <2>5
<1> QED BY <1>1, <1>2, <1>3, <1>4, <1>5, <1>6, <1>7 DEF Progress

\* The conversions that write a text.
LEMMA ConvertInv ==
  ASSUME SprintfInv, NEW c \in {CharS, CharD, CharX}, Starts(c), NEW source, Convert(source),
         \A p \in 0 .. Len(fmt) : Progress(p) => source = Output(fmt, args, p + 2)
  PROVE  SprintfInv'
<1>1. PICK p \in 0 .. Len(fmt) : Progress(p)
  BY DEF SprintfInv
<1>2. /\ fmt \in Formats /\ args \in Arguments(fmt) /\ p + 2 \in 1 .. Len(fmt)
      /\ Written(fmt, args, p) \in Seq(Character)
      /\ len = Len(Written(fmt, args, p)) /\ Holds(str, Written(fmt, args, p))
  BY <1>1, ConversionFinds
<1>3. source = Output(fmt, args, p + 2) /\ source \in Seq(Character)
  BY <1>1, <1>2, OutputShape
<1>4. /\ Take(2) /\ va' = Tail(va) /\ len' = len + Len(source)
      /\ str' = k_strcat([str EXCEPT ![len] = 0], source)
  BY DEF Convert, Text
<1>5. Holds(str', Written(fmt, args, p) \o source)
  BY <1>2, <1>3, <1>4, TextHolds
<1> QED BY <1>1, <1>3, <1>4, <1>5, ConversionInv

LEMMA ConvertStringInv == SprintfInv /\ ConvertString => SprintfInv'
<1> SUFFICES ASSUME SprintfInv, ConvertString PROVE SprintfInv'
  OBVIOUS
<1>1. Starts(CharS) /\ Convert(va[1])
  BY DEF ConvertString
<1>2. ASSUME NEW p \in 0 .. Len(fmt), Progress(p) PROVE va[1] = Output(fmt, args, p + 2)
  <2>1. Conversion(fmt, p + 2) = CharS /\ va[1] = args[Cardinality(Taking(fmt, p + 2))]
    BY <1>1, <1>2, ConversionFinds
  <2> QED BY <2>1, OutputOf
<1> QED BY <1>1, <1>2, ConvertInv

LEMMA ConvertIntInv == SprintfInv /\ ConvertInt => SprintfInv'
<1> SUFFICES ASSUME SprintfInv, ConvertInt PROVE SprintfInv'
  OBVIOUS
<1>1. Starts(CharD) /\ Convert(k_itoa(va[1][1]))
  BY DEF ConvertInt
<1>2. ASSUME NEW p \in 0 .. Len(fmt), Progress(p) PROVE k_itoa(va[1][1]) = Output(fmt, args, p + 2)
  <2>1. Conversion(fmt, p + 2) = CharD /\ va[1] = args[Cardinality(Taking(fmt, p + 2))]
    BY <1>1, <1>2, ConversionFinds
  <2> QED BY <2>1, OutputOf
<1> QED BY <1>1, <1>2, ConvertInv

LEMMA ConvertHexInv == SprintfInv /\ ConvertHex => SprintfInv'
<1> SUFFICES ASSUME SprintfInv, ConvertHex PROVE SprintfInv'
  OBVIOUS
<1>1. Starts(CharX) /\ Convert(k_utoa(va[1][1] % Word, 16))
  BY DEF ConvertHex
<1>2. ASSUME NEW p \in 0 .. Len(fmt), Progress(p)
      PROVE  k_utoa(va[1][1] % Word, 16) = Output(fmt, args, p + 2)
  <2>1. Conversion(fmt, p + 2) = CharX /\ va[1] = args[Cardinality(Taking(fmt, p + 2))]
    BY <1>1, <1>2, ConversionFinds
  <2> QED BY <2>1, OutputOf
<1> QED BY <1>1, <1>2, ConvertInv

LEMMA PercentCharInv == SprintfInv /\ PercentChar => SprintfInv'
<1> SUFFICES ASSUME SprintfInv, PercentChar PROVE SprintfInv'
  OBVIOUS
<1>1. Starts(Percent) /\ Take(2) /\ Char(Percent)
  BY DEF PercentChar
<1>2. PICK p \in 0 .. Len(fmt) : Progress(p)
  BY DEF SprintfInv
<1>3. /\ Conversion(fmt, p + 2) = Percent /\ Percent \in Character
      /\ Written(fmt, args, p) \in Seq(Character)
      /\ len = Len(Written(fmt, args, p)) /\ Holds(str, Written(fmt, args, p))
  BY <1>1, <1>2, ConversionFinds
<1>4. Output(fmt, args, p + 2) = <<Percent>>
  BY <1>3 DEF Output, CharS, CharD, CharX, Percent
<1>5. str' = [str EXCEPT ![len] = Percent] /\ len' = len + Len(<<Percent>>) /\ va' = va
  <2>1. Len(<<Percent>>) = 1
    OBVIOUS
  <2> QED BY <1>1, <2>1 DEF Char
<1>6. Holds(str', Written(fmt, args, p) \o <<Percent>>)
  BY <1>3, <1>5, CharHolds
<1>7. Percent \notin {CharS, CharD, CharX}
  BY DEF CharS, CharD, CharX, Percent
<1> QED BY <1>1, <1>2, <1>4, <1>5, <1>6, <1>7, ConversionInv

LEMMA UnknownInv == SprintfInv /\ Unknown => SprintfInv'
<1> SUFFICES ASSUME SprintfInv, Unknown PROVE SprintfInv'
  OBVIOUS
<1>1. PICK c : /\ c = rest[2] /\ c \notin {Percent, CharS, CharD, CharX}
               /\ Len(rest) >= 2 /\ rest[1] = Percent
               /\ Take(2) /\ UNCHANGED <<str, va, len>>
  BY DEF Unknown
<1>2. PICK p \in 0 .. Len(fmt) : Progress(p)
  BY DEF SprintfInv
<1>3. Starts(c)
  <2>1. rest \notin {<<>>, <<Percent>>}
    <3>1. Len(<<>>) = 0 /\ Len(<<Percent>>) = 1
      OBVIOUS
    <3>2. rest = <<>> => Len(rest) = 0
      BY <3>1
    <3>3. rest = <<Percent>> => Len(rest) = 1
      BY <3>1
    <3> QED BY <1>1, <3>2, <3>3
  <2>2. ~ done
    BY <2>1 DEF SprintfInv
  <2> QED BY <1>1, <2>2 DEF Starts
<1>4. /\ Conversion(fmt, p + 2) = c /\ c \in Character
      /\ Written(fmt, args, p) \in Seq(Character)
      /\ len = Len(Written(fmt, args, p)) /\ Holds(str, Written(fmt, args, p))
  BY <1>2, <1>3, ConversionFinds
<1>5. Output(fmt, args, p + 2) = <<>>
  BY <1>1, <1>4 DEF Output, Character
<1>6. Holds(str', Written(fmt, args, p) \o <<>>) /\ len' = len + Len(<<>>)
  <2>1. Written(fmt, args, p) \o <<>> = Written(fmt, args, p)
    BY <1>4, ConcatEmptySeq
  <2>2. Len(<<>>) = 0 /\ len \in Nat
    BY <1>4
  <2> QED BY <1>1, <1>4, <2>1, <2>2
<1> QED BY <1>1, <1>2, <1>3, <1>5, <1>6, ConversionInv

LEMMA EndInv == SprintfInv /\ End => SprintfInv'
<1> SUFFICES ASSUME SprintfInv, End PROVE SprintfInv'
  OBVIOUS
<1>1. /\ rest \in {<<>>, <<Percent>>} /\ done' = TRUE /\ str' = [str EXCEPT ![len] = 0]
      /\ UNCHANGED <<fmt, args, rest, va, len>>
  BY DEF End
<1>2. PICK p \in 0 .. Len(fmt) : Progress(p)
  BY DEF SprintfInv
<1>3. fmt \in Formats /\ args \in Arguments(fmt) /\ Room \in Nat
  BY CallsAssumption DEF SprintfInv
<1>4. len \in Nat /\ len = Len(Written(fmt, args, p))
  BY <1>2, <1>3, WrittenNext DEF Progress
<1>5. str = [a \in 0 .. Room - 1 |-> str[a]]
  BY <1>2 DEF Progress, Holds
<1>6. str' = [a \in 0 .. Room - 1 |-> IF a = len THEN 0 ELSE str[a]]
  BY <1>1, <1>5
<1>7. str' = [a \in 0 .. Room - 1 |-> str'[a]]
  BY <1>6
<1>8. \A a \in 0 .. Room - 1 : a # len => str'[a] = str[a]
  BY <1>6
<1>9. Holds(str', Written(fmt, args, p))
  <2>1. ASSUME len < Room, NEW a \in 0 .. Room - 1
        PROVE  /\ a < len => str'[a] = Written(fmt, args, p)[a + 1]
               /\ a > len => str'[a] = Stale
    <3>1. /\ a < len => str[a] = Written(fmt, args, p)[a + 1]
          /\ a > len => str[a] = Stale
      BY <1>2, <1>4, <2>1 DEF Progress, Holds
    <3>2. a \in Nat
      OBVIOUS
    <3> QED BY <1>4, <1>8, <3>1, <3>2
  <2> QED BY <1>4, <1>7, <2>1 DEF Holds
<1>10. Progress(p)'
  BY <1>1, <1>2, <1>9 DEF Progress
<1>11. len < Room => str'[len] = 0
  BY <1>3, <1>4, <1>6
<1> QED BY <1>1, <1>2, <1>3, <1>10, <1>11 DEF SprintfInv

LEMMA SprintfStepInv == SprintfInv /\ [Sprintf]_svars => SprintfInv'
<1>1. ASSUME SprintfInv, UNCHANGED svars PROVE SprintfInv'
  <2>1. UNCHANGED <<fmt, args, str, rest, va, len, done>>
    BY <1>1 DEF svars
  <2>2. PICK p \in 0 .. Len(fmt) : Progress(p)
    BY <1>1 DEF SprintfInv
  <2>3. Progress(p)'
    BY <2>1, <2>2 DEF Progress
  <2> QED BY <1>1, <2>1, <2>2, <2>3 DEF SprintfInv
<1> QED BY <1>1, PlainCharInv, PercentCharInv, ConvertStringInv, ConvertIntInv, ConvertHexInv,
           UnknownInv, EndInv DEF Sprintf

LEMMA SprintfInvariant == SprintfSpec => []SprintfInv
BY SprintfInitInv, SprintfStepInv, PTL DEF SprintfSpec

\* A buffer of the length of the text and one more is enough, for every format,
\* all arguments and every width of an int (kstring.c:221, kstring.c:247-250).
THEOREM SprintfWritesOnlyItsText == SprintfSpec => []WritesOnlyItsText
<1>1. SprintfInv => WritesOnlyItsText
  <2> SUFFICES ASSUME SprintfInv, NEW a \in DOMAIN str, a > len PROVE str[a] = Stale
    BY DEF WritesOnlyItsText
  <2>1. PICK p \in 0 .. Len(fmt) : Progress(p)
    BY DEF SprintfInv
  <2>2. fmt \in Formats /\ args \in Arguments(fmt) /\ Room \in Nat
    BY CallsAssumption DEF SprintfInv
  <2>3. len \in Nat /\ len = Len(Written(fmt, args, p))
    BY <2>1, <2>2, WrittenNext DEF Progress
  <2>4. a \in 0 .. Room - 1
    BY <2>1 DEF Progress, Holds
  <2>5. len < Room
    BY <2>2, <2>3, <2>4
  <2> QED BY <2>1, <2>3, <2>4, <2>5 DEF Progress, Holds
<1> QED BY <1>1, SprintfInvariant, PTL

\* What is written for a position is what the format asks for.
LEMMA OutputIsPiece ==
  ASSUME fmt \in Formats, args \in Arguments(fmt), NEW i \in 1 .. Len(fmt),
         \A k \in DOMAIN args : args[k] # <<IntMin>>
  PROVE  Output(fmt, args, i) = Piece(i)
<1> DEFINE arg == args[Cardinality(Taking(fmt, i))]
           c == Conversion(fmt, i)
<1>1. ASSUME c \in {CharS, CharD, CharX}
      PROVE  arg \in (IF c = CharS THEN Strings ELSE Numbers) /\ arg # <<IntMin>>
  <2>1. /\ arg \in IF c = CharS THEN Strings ELSE Numbers
        /\ Cardinality(Taking(fmt, i)) \in 1 .. Len(args) /\ args \in Seq(Strings \cup Numbers)
    BY <1>1, ArgumentOfConversion
  <2>2. Cardinality(Taking(fmt, i)) \in DOMAIN args
    BY <2>1
  <2> QED BY <2>1, <2>2
<1>2. Output(fmt, args, i) =
        CASE c = CharS -> arg
          [] c = CharD -> k_itoa(arg[1])
          [] c = CharX -> k_utoa(arg[1] % Word, 16)
          [] c = Percent -> <<Percent>>
          [] c = 0 /\ ~ Begins(fmt, i) -> <<fmt[i]>>
          [] OTHER -> <<>>
  BY DEF Output
<1>3. Piece(i) =
        CASE c = CharS -> arg
          [] c = CharD -> IF arg[1] < 0 THEN <<Minus>> \o Numeral(-arg[1], 10)
                          ELSE Numeral(arg[1], 10)
          [] c = CharX -> Numeral(arg[1] % Word, 16)
          [] c = Percent -> <<Percent>>
          [] c = 0 /\ ~ Begins(fmt, i) -> <<fmt[i]>>
          [] OTHER -> <<>>
  BY DEF Piece
<1> HIDE DEF c, arg
<1>4. CASE c = CharD
  <2>1. arg \in Numbers /\ arg # <<IntMin>>
    BY <1>1, <1>4 DEF CharS, CharD
  <2>2. PICK n \in IntMin .. -IntMin - 1 : n = arg[1] /\ arg = <<n>>
    BY <2>1, NumberShape
  <2>3. k_itoa(n) = ItoaText(n)
    BY <2>1, <2>2, ItoaNumeral
  <2>4. Output(fmt, args, i) = k_itoa(n)
    BY <1>2, <1>4, <2>2 DEF CharS, CharD, CharX, Percent
  <2>5. Piece(i) = IF n < 0 THEN <<Minus>> \o Numeral(-n, 10) ELSE Numeral(n, 10)
    BY <1>3, <1>4, <2>2 DEF CharS, CharD, CharX, Percent
  <2> QED BY <2>3, <2>4, <2>5 DEF ItoaText
<1>5. CASE c = CharX
  <2>1. arg \in Numbers
    BY <1>1, <1>5 DEF CharS, CharX
  <2>2. PICK v \in 0 .. Word - 1 : v = arg[1] % Word
    BY <2>1, NumberShape
  <2>3. PICK base \in Nat : base = 16 /\ base >= 2
    OBVIOUS
  <2>4. k_utoa(v, base) = Numeral(v, base)
    BY <2>3, UtoaNumeral
  <2>5. Output(fmt, args, i) = k_utoa(v, base)
    BY <1>2, <1>5, <2>2, <2>3 DEF CharS, CharD, CharX, Percent
  <2>6. Piece(i) = Numeral(v, base)
    BY <1>3, <1>5, <2>2, <2>3 DEF CharS, CharD, CharX, Percent
  <2> QED BY <2>4, <2>5, <2>6
<1>6. CASE c # CharD /\ c # CharX
  BY <1>2, <1>3, <1>6
<1> QED BY <1>4, <1>5, <1>6

LEMMA RenderedIsWritten ==
  ASSUME fmt \in Formats, args \in Arguments(fmt),
         \A k \in DOMAIN args : args[k] # <<IntMin>>
  PROVE  Rendered = Written(fmt, args, Len(fmt))
<1>1. PICK l \in Nat : l = Len(fmt) /\ DOMAIN fmt = 1 .. l
  BY FormatShape
<1> DEFINE s == [i \in 1 .. l |-> Piece(i)]
           w == [p \in 0 .. l |-> Written(fmt, args, p)]
<1>2. s = [i \in 1 .. l |-> s[i]] /\ w \in [0 .. l -> Seq(Character)] /\ w[0] = <<>>
  BY <1>1, WrittenNext
<1>3. ASSUME NEW i \in 1 .. l PROVE w[i] = w[i - 1] \o s[i] /\ s[i] \in Seq(Character)
  <2>1. i \in 0 .. l /\ i - 1 \in 0 .. l
    BY <1>1
  <2>2. s[i] = Output(fmt, args, i)
    BY <1>1, OutputIsPiece
  <2> QED BY <1>1, <2>1, <2>2, WrittenNext, OutputShape
<1>4. Rendered = FlattenSeq(s)
  BY <1>1 DEF Rendered
<1>5. w[l] = Written(fmt, args, Len(fmt))
  BY <1>1
<1> HIDE DEF s, w
<1>6. FlattenSeq(s) = w[l]
  BY <1>2, <1>3, Flattened
<1> QED BY <1>4, <1>5, <1>6

\* What k_sprintf returns and leaves in memory is the text its format and its
\* arguments describe, for every format, all arguments and every width of an
\* int (kstring.c:197-251); the least int is excepted, which has no negation
\* (kstring.c:179).
THEOREM SprintfFormatsAsSpecified == SprintfSpec => []FormatsAsSpecified
<1>1. SprintfInv => FormatsAsSpecified
  <2> SUFFICES ASSUME SprintfInv, done, \A k \in DOMAIN args : args[k] # <<IntMin>>
               PROVE  /\ len = Len(Rendered)
                      /\ len < Room => str[len] = 0 /\ \A k \in 1 .. len : str[k - 1] = Rendered[k]
    BY DEF FormatsAsSpecified
  <2>1. PICK p \in 0 .. Len(fmt) : Progress(p)
    BY DEF SprintfInv
  <2>2. fmt \in Formats /\ args \in Arguments(fmt) /\ Room \in Nat
    BY CallsAssumption DEF SprintfInv
  <2>3. PICK l \in Nat : l = Len(fmt) /\ fmt \in Seq(Int)
    BY <2>2, FormatShape
  <2>4. len \in Nat /\ len = Len(Written(fmt, args, p)) /\ Written(fmt, args, p) \in Seq(Character)
    BY <2>1, <2>2, WrittenNext DEF Progress
  <2>5. Written(fmt, args, l) = Written(fmt, args, p)
    <3>1. Len(rest) = l - p /\ \A k \in 1 .. l - p : rest[k] = fmt[p + k]
      BY <2>1, <2>3, FormatLeft
    <3>2. CASE rest = <<>>
      <4>1. Len(rest) = 0
        BY <3>2
      <4>2. p = l
        BY <2>3, <3>1, <4>1
      <4> QED BY <4>2
    <3>3. CASE rest = <<Percent>>
      <4>1. Len(rest) = 1 /\ rest[1] = Percent
        BY <3>3
      <4>2. p + 1 = l /\ p \in Nat /\ l \in 1 .. l /\ l - 1 = p /\ fmt[p + 1] = Percent
        <5>1. p \in 0 .. l /\ l - p = 1
          BY <2>3, <3>1, <4>1
        <5>2. p + 1 = l /\ p \in Nat /\ l \in 1 .. l /\ l - 1 = p /\ 1 \in 1 .. l - p
          BY <5>1
        <5> QED BY <3>1, <4>1, <5>2
      <4>3. Begins(fmt, l) /\ Conversion(fmt, l) = 0
        BY <2>1, <2>3, <4>2, BeginsNext DEF Progress
      <4>4. Output(fmt, args, l) = <<>>
        BY <4>3 DEF Output, CharS, CharD, CharX, Percent
      <4>5. Written(fmt, args, l) = Written(fmt, args, p) \o <<>>
        BY <2>2, <2>3, <4>2, <4>4, WrittenNext
      <4> QED BY <2>4, <4>5, ConcatEmptySeq
    <3> QED BY <3>2, <3>3 DEF SprintfInv
  <2>6. Rendered = Written(fmt, args, p)
    BY <2>2, <2>3, <2>5, RenderedIsWritten
  <2>7. ASSUME len < Room, NEW k \in 1 .. len PROVE str[k - 1] = Rendered[k]
    <3>1. k - 1 \in 0 .. Room - 1 /\ k - 1 < len /\ (k - 1) + 1 = k
      BY <2>2, <2>4, <2>7
    <3>2. str[k - 1] = Written(fmt, args, p)[(k - 1) + 1]
      BY <2>1, <2>4, <2>7, <3>1 DEF Progress, Holds
    <3> QED BY <2>6, <3>1, <3>2
  <2> QED BY <2>4, <2>6, <2>7 DEF SprintfInv
<1> QED BY <1>1, SprintfInvariant, PTL

-----------------------------------------------------------------------------
(* The console.                                                              *)

\* A step of a task: what its place is afterwards, and what stays.
LEMMA GoesShape ==
  ASSUME TypeOK, NEW t \in Task, NEW from, NEW to \in Location, Goes(t, from, to)
  PROVE  /\ printing = Silent /\ printing' = printing
         /\ running = t /\ running' = t /\ pc[t] = from
         /\ pc'[t] = to
         /\ \A u \in Task \ {t} : pc'[u] = pc[u]
         /\ pc' \in [Task -> Location]
BY DEF Goes, TypeOK

\* No step of a task that prints breaks the invariant (gui.c:368-395,
\* gui.c:450-467).
LEMMA PrintsKeepsIInv ==
  ASSUME IInv, NEW t \in Task, Prints(t)
  PROVE  IInv'
<1> USE DEF IInv
<1>0. /\ x \in Nat /\ y \in Nat /\ row \in Nat /\ reg \in [Task -> Nat]
      /\ Columns \in Nat \ {0} /\ Lines \in Nat \ {0}
      /\ reg[t] \in Nat
  BY ScreenAssumption DEF TypeOK
<1>a. \A s \in {"out", "carryY", "write", "color", "paint", "addX", "setX", "testX",
                "zeroX", "addY", "setY", "testY", "scroll"} : s \in Location
  BY DEF Location
<1>b. begun' \in [Task -> BOOLEAN]
  <2>1. CASE MessageEnd(t)
    BY <2>1 DEF MessageEnd, TypeOK
  <2>2. CASE ~ MessageEnd(t)
    <3>1. begun' = begun
      BY <2>2 DEF Prints, LineFeed, Return, CarryY, Seen, Write, Color, Paint, AddX, SetX,
                  TestX, ZeroX, AddY, SetY, TestY, Scroll
    <3> QED BY <3>1 DEF TypeOK
  <2> QED BY <2>1, <2>2
<1>1. CASE LineFeed(t)
  <2>1. Goes(t, "out", "testX") /\ x' = 0 /\ y' = y /\ reg' = reg /\ row' = row
    BY <1>1 DEF LineFeed
  <2>2. /\ printing' = printing /\ running = t /\ running' = t
        /\ pc[t] = "out" /\ pc'[t] = "testX"
        /\ \A u \in Task \ {t} : pc'[u] = pc[u]
        /\ pc' \in [Task -> Location]
    BY <2>1, <1>a, GoesShape
  <2> QED BY <2>1, <2>2, <1>0, <1>b
          DEF TypeOK, CursorOnScreen, WritesNearScreen, HeldLines, OneEndAtATime
<1>2. CASE Return(t)
  <2>1. /\ Goes(t, "out", "carryY") /\ x' = x /\ y' = y /\ row' = row
        /\ reg' = [reg EXCEPT ![t] = y]
    BY <1>2 DEF Return
  <2>2. /\ printing' = printing /\ running = t /\ running' = t
        /\ pc[t] = "out" /\ pc'[t] = "carryY"
        /\ \A u \in Task \ {t} : pc'[u] = pc[u]
        /\ pc' \in [Task -> Location]
    BY <2>1, <1>a, GoesShape
  <2> QED BY <2>1, <2>2, <1>0, <1>b
          DEF TypeOK, CursorOnScreen, WritesNearScreen, HeldLines, OneEndAtATime
<1>3. CASE CarryY(t)
  <2>1. /\ Goes(t, "carryY", "testX") /\ x' = x /\ y' = reg[t] + 1 /\ row' = row
        /\ reg' = reg
    BY <1>3 DEF CarryY
  <2>2. /\ printing' = printing /\ running = t /\ running' = t
        /\ pc[t] = "carryY" /\ pc'[t] = "testX"
        /\ \A u \in Task \ {t} : pc'[u] = pc[u]
        /\ pc' \in [Task -> Location]
    BY <2>1, <1>a, GoesShape
  <2> QED BY <2>1, <2>2, <1>0, <1>b
          DEF TypeOK, CursorOnScreen, WritesNearScreen, HeldLines, OneEndAtATime
<1>4. CASE Seen(t)
  <2>1. /\ Goes(t, "out", "write") /\ x' = x /\ y' = y /\ row' = row
        /\ reg' = [reg EXCEPT ![t] = y]
    BY <1>4 DEF Seen
  <2>2. /\ printing' = printing /\ running = t /\ running' = t
        /\ pc[t] = "out" /\ pc'[t] = "write"
        /\ \A u \in Task \ {t} : pc'[u] = pc[u]
        /\ pc' \in [Task -> Location]
    BY <2>1, <1>a, GoesShape
  <2> QED BY <2>1, <2>2, <1>0, <1>b
          DEF TypeOK, CursorOnScreen, WritesNearScreen, HeldLines, OneEndAtATime
<1>5. CASE Write(t)
  <2>1. /\ Goes(t, "write", "color") /\ x' = x /\ y' = y /\ reg' = reg
        /\ row' = LineAt(reg[t])
    BY <1>5 DEF Write
  <2>2. /\ printing' = printing /\ running = t /\ running' = t
        /\ pc[t] = "write" /\ pc'[t] = "color"
        /\ \A u \in Task \ {t} : pc'[u] = pc[u]
        /\ pc' \in [Task -> Location]
    BY <2>1, <1>a, GoesShape
  <2> QED BY <2>1, <2>2, <1>0, <1>b
          DEF TypeOK, CursorOnScreen, WritesNearScreen, HeldLines, OneEndAtATime, LineAt
<1>6. CASE AddX(t)
  <2>1. /\ Goes(t, "addX", "setX") /\ x' = x /\ y' = y /\ row' = row
        /\ reg' = [reg EXCEPT ![t] = x]
    BY <1>6 DEF AddX
  <2>2. /\ printing' = printing /\ running = t /\ running' = t
        /\ pc[t] = "addX" /\ pc'[t] = "setX"
        /\ \A u \in Task \ {t} : pc'[u] = pc[u]
        /\ pc' \in [Task -> Location]
    BY <2>1, <1>a, GoesShape
  <2> QED BY <2>1, <2>2, <1>0, <1>b
          DEF TypeOK, CursorOnScreen, WritesNearScreen, HeldLines, OneEndAtATime
<1>7. CASE SetX(t)
  <2>1. /\ Goes(t, "setX", "testX") /\ x' = reg[t] + 1 /\ y' = y /\ row' = row
        /\ reg' = reg
    BY <1>7 DEF SetX
  <2>2. /\ printing' = printing /\ running = t /\ running' = t
        /\ pc[t] = "setX" /\ pc'[t] = "testX"
        /\ \A u \in Task \ {t} : pc'[u] = pc[u]
        /\ pc' \in [Task -> Location]
    BY <2>1, <1>a, GoesShape
  <2> QED BY <2>1, <2>2, <1>0, <1>b
          DEF TypeOK, CursorOnScreen, WritesNearScreen, HeldLines, OneEndAtATime
<1>8. CASE TestX(t)
  <2>1. /\ Goes(t, "testX", IF x >= Columns THEN "zeroX" ELSE "testY")
        /\ x' = x /\ y' = y /\ row' = row /\ reg' = reg
    BY <1>8 DEF TestX
  <2>2. CASE x >= Columns
    <3>1. Goes(t, "testX", "zeroX")
      BY <2>1, <2>2
    <3>2. /\ printing' = printing /\ running = t /\ running' = t
          /\ pc[t] = "testX" /\ pc'[t] = "zeroX"
          /\ \A u \in Task \ {t} : pc'[u] = pc[u]
          /\ pc' \in [Task -> Location]
      BY <3>1, <1>a, GoesShape
    <3> QED BY <2>1, <2>2, <3>2, <1>0, <1>b
            DEF TypeOK, CursorOnScreen, WritesNearScreen, HeldLines, OneEndAtATime
  <2>3. CASE ~(x >= Columns)
    <3>1. Goes(t, "testX", "testY")
      BY <2>1, <2>3
    <3>2. /\ printing' = printing /\ running = t /\ running' = t
          /\ pc[t] = "testX" /\ pc'[t] = "testY"
          /\ \A u \in Task \ {t} : pc'[u] = pc[u]
          /\ pc' \in [Task -> Location]
      BY <3>1, <1>a, GoesShape
    <3> QED BY <2>1, <2>3, <3>2, <1>0, <1>b
            DEF TypeOK, CursorOnScreen, WritesNearScreen, HeldLines, OneEndAtATime
  <2> QED BY <2>2, <2>3
<1>9. CASE ZeroX(t)
  <2>1. Goes(t, "zeroX", "addY") /\ x' = 0 /\ y' = y /\ reg' = reg /\ row' = row
    BY <1>9 DEF ZeroX
  <2>2. /\ printing' = printing /\ running = t /\ running' = t
        /\ pc[t] = "zeroX" /\ pc'[t] = "addY"
        /\ \A u \in Task \ {t} : pc'[u] = pc[u]
        /\ pc' \in [Task -> Location]
    BY <2>1, <1>a, GoesShape
  <2> QED BY <2>1, <2>2, <1>0, <1>b
          DEF TypeOK, CursorOnScreen, WritesNearScreen, HeldLines, OneEndAtATime
<1>10. CASE AddY(t)
  <2>1. /\ Goes(t, "addY", "setY") /\ x' = x /\ y' = y /\ row' = row
        /\ reg' = [reg EXCEPT ![t] = y]
    BY <1>10 DEF AddY
  <2>2. /\ printing' = printing /\ running = t /\ running' = t
        /\ pc[t] = "addY" /\ pc'[t] = "setY"
        /\ \A u \in Task \ {t} : pc'[u] = pc[u]
        /\ pc' \in [Task -> Location]
    BY <2>1, <1>a, GoesShape
  <2> QED BY <2>1, <2>2, <1>0, <1>b
          DEF TypeOK, CursorOnScreen, WritesNearScreen, HeldLines, OneEndAtATime
<1>11. CASE SetY(t)
  <2>1. /\ Goes(t, "setY", "testY") /\ x' = x /\ y' = reg[t] + 1 /\ row' = row
        /\ reg' = reg
    BY <1>11 DEF SetY
  <2>2. /\ printing' = printing /\ running = t /\ running' = t
        /\ pc[t] = "setY" /\ pc'[t] = "testY"
        /\ \A u \in Task \ {t} : pc'[u] = pc[u]
        /\ pc' \in [Task -> Location]
    BY <2>1, <1>a, GoesShape
  <2> QED BY <2>1, <2>2, <1>0, <1>b
          DEF TypeOK, CursorOnScreen, WritesNearScreen, HeldLines, OneEndAtATime
<1>12. CASE TestY(t)
  <2>1. /\ Goes(t, "testY", IF y >= Lines THEN "scroll" ELSE "out")
        /\ x' = x /\ y' = y /\ row' = row /\ reg' = reg
    BY <1>12 DEF TestY
  <2>2. CASE y >= Lines
    <3>1. Goes(t, "testY", "scroll")
      BY <2>1, <2>2
    <3>2. /\ printing' = printing /\ running = t /\ running' = t
          /\ pc[t] = "testY" /\ pc'[t] = "scroll"
          /\ \A u \in Task \ {t} : pc'[u] = pc[u]
          /\ pc' \in [Task -> Location]
      BY <3>1, <1>a, GoesShape
    <3> QED BY <2>1, <2>2, <3>2, <1>0, <1>b
            DEF TypeOK, CursorOnScreen, WritesNearScreen, HeldLines, OneEndAtATime
  <2>3. CASE ~(y >= Lines)
    <3>1. Goes(t, "testY", "out")
      BY <2>1, <2>3
    <3>2. /\ printing' = printing /\ running = t /\ running' = t
          /\ pc[t] = "testY" /\ pc'[t] = "out"
          /\ \A u \in Task \ {t} : pc'[u] = pc[u]
          /\ pc' \in [Task -> Location]
      BY <3>1, <1>a, GoesShape
    <3> QED BY <2>1, <2>3, <3>2, <1>0, <1>b
            DEF TypeOK, CursorOnScreen, WritesNearScreen, HeldLines, OneEndAtATime
  <2> QED BY <2>2, <2>3
<1>13. CASE Scroll(t)
  <2>1. Goes(t, "scroll", "out") /\ x' = x /\ y' = Lines - 1 /\ reg' = reg /\ row' = row
    BY <1>13 DEF Scroll
  <2>2. /\ printing' = printing /\ running = t /\ running' = t
        /\ pc[t] = "scroll" /\ pc'[t] = "out"
        /\ \A u \in Task \ {t} : pc'[u] = pc[u]
        /\ pc' \in [Task -> Location]
    BY <2>1, <1>a, GoesShape
  <2> QED BY <2>1, <2>2, <1>0, <1>b
          DEF TypeOK, CursorOnScreen, WritesNearScreen, HeldLines, OneEndAtATime
<1>14. CASE Color(t)
  <2>1. /\ Goes(t, "color", "paint") /\ x' = x /\ y' = y /\ row' = row
        /\ reg' = [reg EXCEPT ![t] = y]
    BY <1>14 DEF Color
  <2>2. /\ printing' = printing /\ running = t /\ running' = t
        /\ pc[t] = "color" /\ pc'[t] = "paint"
        /\ \A u \in Task \ {t} : pc'[u] = pc[u]
        /\ pc' \in [Task -> Location]
    BY <2>1, <1>a, GoesShape
  <2> QED BY <2>1, <2>2, <1>0, <1>b
          DEF TypeOK, CursorOnScreen, WritesNearScreen, HeldLines, OneEndAtATime
<1>15. CASE Paint(t)
  <2>1. /\ Goes(t, "paint", "addX") /\ x' = x /\ y' = y /\ reg' = reg
        /\ row' = LineAt(reg[t])
    BY <1>15 DEF Paint
  <2>2. /\ printing' = printing /\ running = t /\ running' = t
        /\ pc[t] = "paint" /\ pc'[t] = "addX"
        /\ \A u \in Task \ {t} : pc'[u] = pc[u]
        /\ pc' \in [Task -> Location]
    BY <2>1, <1>a, GoesShape
  <2> QED BY <2>1, <2>2, <1>0, <1>b
          DEF TypeOK, CursorOnScreen, WritesNearScreen, HeldLines, OneEndAtATime, LineAt
<1>16. CASE MessageEnd(t)
  <2>1. Goes(t, "out", "addY") /\ x' = 0 /\ y' = y /\ reg' = reg /\ row' = row
    BY <1>16 DEF MessageEnd
  <2>2. /\ printing' = printing /\ running = t /\ running' = t
        /\ pc[t] = "out" /\ pc'[t] = "addY"
        /\ \A u \in Task \ {t} : pc'[u] = pc[u]
        /\ pc' \in [Task -> Location]
    BY <2>1, <1>a, GoesShape
  <2> QED BY <2>1, <2>2, <1>0, <1>b
          DEF TypeOK, CursorOnScreen, WritesNearScreen, HeldLines, OneEndAtATime
<1> QED BY <1>1, <1>2, <1>3, <1>4, <1>5, <1>6, <1>7, <1>8, <1>9, <1>10, <1>11, <1>12,
           <1>13, <1>14, <1>15, <1>16 DEF Prints

\* No step breaks the inductive invariant (gui.c:368-395, gui.c:450-467).
LEMMA IInvStep == IInv /\ [Next]_vars => IInv'
<1> SUFFICES ASSUME IInv, [Next]_vars PROVE IInv'
  OBVIOUS
<1> USE DEF IInv
<1> DEFINE Printing == [messages : 0 .. 3, switch : BOOLEAN]
<1>0. /\ x \in Nat /\ y \in Nat /\ row \in Nat
      /\ Columns \in Nat \ {0} /\ Lines \in Nat \ {0}
      /\ printing \in Printing
  BY ScreenAssumption DEF TypeOK
<1>1. ASSUME NEW t \in Task, Prints(t) PROVE IInv'
  BY <1>1, PrintsKeepsIInv
<1>2. CASE TimerInterrupt
  <2>1. PICK switch \in BOOLEAN : \E n \in IF switch THEN {2, 3} ELSE {1} :
          printing' = [messages |-> n, switch |-> switch]
    BY <1>2 DEF TimerInterrupt
  <2>2. PICK n \in 1 .. 3 : printing' = [messages |-> n, switch |-> switch]
    BY <2>1
  <2>3. printing' \in Printing
    BY <2>2
  <2>4. /\ x' = x /\ y' = y /\ running' = running /\ begun' = begun
        /\ pc' = pc /\ reg' = reg /\ row' = row
    BY <1>2 DEF TimerInterrupt
  <2> QED BY <2>3, <2>4
          DEF TypeOK, CursorOnScreen, WritesNearScreen, HeldLines, OneEndAtATime
<1>3. CASE PrintChar
  <2>1. /\ printing' = printing /\ running' = running /\ begun' = begun
        /\ pc' = pc /\ reg' = reg /\ row' = LineAt(y)
    BY <1>3, Zenon DEF PrintChar
  <2>2. row' \in Nat /\ row' <= Lines
    BY <2>1, <1>0 DEF LineAt, OneEndAtATime
  <2>3. x' \in Nat /\ x' < Columns /\ y' \in Nat /\ y' < Lines
    <3>1. /\ x' = IF x + 1 >= Columns THEN 0 ELSE x + 1
          /\ y' = Scrolled(IF x + 1 >= Columns THEN y + 1 ELSE y)
      BY <1>3 DEF PrintChar
    <3> QED BY <3>1, <1>0 DEF Scrolled
  <2> QED BY <1>0, <2>1, <2>2, <2>3
          DEF TypeOK, CursorOnScreen, WritesNearScreen, HeldLines, OneEndAtATime
<1>4. CASE PrintEnd
  <2>1. printing' \in Printing /\ running' \in Task
    <3>1. CASE printing.messages = 1
      <4>1. printing' = [messages |-> 0, switch |-> FALSE]
        BY <1>4, <3>1 DEF PrintEnd, Silent
      <4>2. running' \in Task
        BY <1>4, <3>1 DEF PrintEnd, TypeOK
      <4> QED BY <4>1, <4>2
    <3>2. CASE printing.messages # 1
      <4>1. /\ printing' = [printing EXCEPT !.messages = printing.messages - 1]
            /\ running' = running /\ printing.messages > 0
        BY <1>4, <3>2 DEF PrintEnd
      <4>2. printing.messages - 1 \in 0 .. 3
        BY <1>0, <4>1
      <4> QED BY <1>0, <4>1, <4>2 DEF TypeOK
    <3> QED BY <3>1, <3>2
  <2>2. begun' = begun /\ pc' = pc /\ reg' = reg /\ row' = row /\ x' = 0
    BY <1>4 DEF PrintEnd
  <2>3. y' \in Nat /\ y' < Lines
    BY <1>0, <1>4 DEF PrintEnd, Scrolled
  <2> QED BY <1>0, <2>1, <2>2, <2>3
          DEF TypeOK, CursorOnScreen, WritesNearScreen, HeldLines, OneEndAtATime
<1>5. CASE UNCHANGED vars
  BY <1>5 DEF vars, TypeOK, CursorOnScreen, WritesNearScreen, HeldLines, OneEndAtATime
<1> QED BY <1>1, <1>2, <1>3, <1>4, <1>5 DEF Next

\* The console starts with the invariant (gui.c:368-395).
LEMMA IInvInit == Init => IInv
<1> SUFFICES ASSUME Init PROVE IInv
  OBVIOUS
<1>1. printing \in [messages : 0 .. 3, switch : BOOLEAN]
  BY DEF Init, Silent
<1> QED BY <1>1, ScreenAssumption
        DEF Init, IInv, TypeOK, Location, CursorOnScreen, WritesNearScreen, HeldLines,
            OneEndAtATime

-----------------------------------------------------------------------------
(* The layers.                                                               *)

\* The entries between two heights that hold one layer: one, which is the last
\* the loop comes to.
LEMMA HeightOfMoved ==
  ASSUME NEW moved \in SUBSET Int, NEW new, NEW m, NEW old, NEW nz,
         NEW k \in moved, new[k] = m,
         \A i, j \in moved : new[i] = new[j] => i = j
  PROVE  {i \in moved : new[i] = m} # {} /\ L!LastOf({i \in moved : new[i] = m}, old, nz) = k
<1>1. {i \in moved : new[i] = m} = {k}
  OBVIOUS
<1>2. k \in Int
  OBVIOUS
<1>3. (CHOOSE i \in {k} : \A j \in {k} : i <= j) = k /\ L!Highest({k}) = k
  BY <1>2 DEF L!Highest
<1>4. L!LastOf({k}, old, nz) = k
  BY <1>3, Zenon DEF L!LastOf
<1> QED BY <1>1, <1>4

\* A layer cannot be raised above a stack that is full: one that is hidden is
\* none of those that are shown (gui.c:97-99).
LEMMA RoomOnTop ==
  ASSUME L!LayersTypeOK, L!Inverse, NEW l \in L!Layer, z[l] = -1
  PROVE  z_top + 1 \in 0 .. Size - 1
<1>1. Size \in Nat /\ z_top \in Int /\ -1 <= z_top /\ z_top <= Size - 1
  BY LayersAssumption DEF L!LayersTypeOK
<1>2. SUFFICES ASSUME z_top = Size - 1 PROVE FALSE
  BY <1>1
<1> DEFINE Others == L!Layer \ {l}
           g == [k \in L!Layer |-> layer_stack[k]]
<1>3. /\ IsFiniteSet(L!Layer) /\ Cardinality(L!Layer) = Size
  <2>1. /\ IsFiniteSet(0 .. Size - 1)
        /\ Cardinality(0 .. Size - 1) = IF 0 > Size - 1 THEN 0 ELSE (Size - 1) - 0 + 1
    BY <1>1, FS_Interval
  <2> QED BY <2>1, <1>1 DEF L!Layer
<1>4. IsFiniteSet(Others) /\ Cardinality(Others) = Size - 1
  BY <1>3, FS_RemoveElement
<1>5. g \in [L!Layer -> Others]
  <2> SUFFICES ASSUME NEW k \in L!Layer PROVE layer_stack[k] \in Others
    OBVIOUS
  <2>1. k \in 0 .. z_top
    BY <1>2 DEF L!Layer
  <2>2. layer_stack[k] \in L!Layer /\ z[layer_stack[k]] = k
    BY <2>1 DEF L!Inverse
  <2> QED BY <2>1, <2>2
<1>6. PICK i, j \in L!Layer : i # j /\ g[i] = g[j]
  <2>1. Cardinality(Others) < Cardinality(L!Layer)
    BY <1>1, <1>3, <1>4
  <2>2. \A f \in [L!Layer -> Others] : \E i, j \in L!Layer : i # j /\ f[i] = f[j]
    <3> HIDE DEF Others
    <3> QED BY <1>3, <1>4, <2>1, FS_PigeonHole, Zenon
  <2> HIDE DEF g
  <2> QED BY <1>5, <2>2, Zenon
<1>7. i \in 0 .. z_top /\ j \in 0 .. z_top /\ layer_stack[i] = layer_stack[j]
  BY <1>2, <1>6 DEF L!Layer
<1> QED BY <1>6, <1>7 DEF L!Inverse

\* What a move makes of the stack: the new entries list the shown layers in the
\* order of the new heights (gui.c:91-137).
Listed(new, hs, top) ==
  /\ new \in [L!Entry -> L!Layer \cup {None}]
  /\ hs \in [L!Layer -> -1 .. Size - 1]
  /\ top \in -1 .. Size - 1
  /\ \A k \in 0 .. top : new[k] \in L!Layer /\ flags[new[k]] /\ hs[new[k]] = k
  /\ \A m \in L!Layer : flags[m] /\ hs[m] >= 0 => hs[m] <= top /\ new[hs[m]] = m

\* A layer that stays where it is, or a hidden one that stays hidden.
LEMMA MoveNowhere ==
  ASSUME L!LayersTypeOK, L!Inverse, NEW l \in L!Layer
  PROVE  /\ Listed(L!Stack(l, z[l], z[l]), L!Heights(l, z[l], z[l]), L!Top(z[l], z[l]))
         /\ L!Heights(l, z[l], z[l])[l] = z[l]
<1> DEFINE old == z[l]
<1>1. z[l] \in Int /\ -1 <= z[l] /\ z_top \in -1 .. Size - 1 /\ Size \in Nat
  BY LayersAssumption DEF L!LayersTypeOK
<1>2. L!MovedUp(z[l], z[l]) = {} /\ L!Numbered(z[l], z[l]) = {}
  BY <1>1 DEF L!MovedUp, L!Numbered
<1>3. L!MovedDown(z[l], z[l]) = {}
  <2>1. CASE z[l] >= 0
    BY <1>1, <2>1 DEF L!MovedDown
  <2>2. CASE ~ (z[l] >= 0)
    BY <2>2 DEF L!MovedDown
  <2> QED BY <2>1, <2>2
<1>4. L!Stack(l, z[l], z[l]) = layer_stack
  BY <1>2, <1>3, Zenon DEF L!Stack, L!LayersTypeOK
<1>5. L!Heights(l, z[l], z[l]) = z
  BY <1>2, <1>3 DEF L!Heights, L!LayersTypeOK
<1>6. L!Top(z[l], z[l]) = z_top
  BY <1>1 DEF L!Top
<1> QED BY <1>4, <1>5, <1>6 DEF Listed, L!LayersTypeOK, L!Inverse

\* A hidden layer raised to the top.
LEMMA MoveOnTop ==
  ASSUME L!LayersTypeOK, L!Inverse, NEW l \in L!Layer, flags[l], z[l] = -1
  PROVE  /\ Listed(L!Stack(l, -1, z_top + 1), L!Heights(l, -1, z_top + 1), L!Top(-1, z_top + 1))
         /\ L!Heights(l, -1, z_top + 1)[l] = z_top + 1
<1>1. z_top \in -1 .. Size - 1 /\ Size \in Nat /\ z_top + 1 \in 0 .. Size - 1
  BY LayersAssumption, RoomOnTop DEF L!LayersTypeOK
<1>2. /\ L!MovedUp(-1, z_top + 1) = {} /\ L!MovedDown(-1, z_top + 1) = {}
      /\ L!Numbered(-1, z_top + 1) = {}
  BY <1>1 DEF L!MovedUp, L!MovedDown, L!Numbered
<1>3. L!Stack(l, -1, z_top + 1) = [layer_stack EXCEPT ![z_top + 1] = l]
  <2> SUFFICES ASSUME NEW k \in L!Entry
               PROVE  L!Stack(l, -1, z_top + 1)[k] = IF k = z_top + 1 THEN l ELSE layer_stack[k]
    BY DEF L!Stack, L!LayersTypeOK
  <2> QED BY <1>1, <1>2 DEF L!Stack
<1>4. L!Heights(l, -1, z_top + 1) = [z EXCEPT ![l] = z_top + 1]
  BY <1>2 DEF L!Heights, L!LayersTypeOK
<1>5. L!Top(-1, z_top + 1) = z_top + 1
  BY <1>1 DEF L!Top
<1> DEFINE new == [layer_stack EXCEPT ![z_top + 1] = l]
           hs == [z EXCEPT ![l] = z_top + 1]
<1>6. new \in [L!Entry -> L!Layer \cup {None}] /\ hs \in [L!Layer -> -1 .. Size - 1]
  <2>1. new \in [L!Entry -> L!Layer \cup {None}]
    BY Zenon DEF L!LayersTypeOK
  <2>2. z_top + 1 \in -1 .. Size - 1
    BY <1>1
  <2>3. hs \in [L!Layer -> -1 .. Size - 1]
    BY <2>2, Zenon DEF L!LayersTypeOK
  <2> QED BY <2>1, <2>3
<1>7. ASSUME NEW k \in 0 .. z_top + 1
      PROVE  new[k] \in L!Layer /\ flags[new[k]] /\ hs[new[k]] = k
  <2>1. k \in L!Entry
    BY <1>1 DEF L!Entry
  <2>2. CASE k = z_top + 1
    BY <1>1, <2>1, <2>2 DEF L!LayersTypeOK
  <2>3. CASE k \in 0 .. z_top
    BY <1>1, <2>1, <2>3 DEF L!LayersTypeOK, L!Inverse
  <2> QED BY <1>1, <2>2, <2>3
<1>8. ASSUME NEW m \in L!Layer, flags[m], hs[m] >= 0
      PROVE  hs[m] <= z_top + 1 /\ new[hs[m]] = m
  <2>1. CASE m = l
    BY <1>1, <2>1 DEF L!LayersTypeOK, L!Entry
  <2>2. CASE m # l
    <3>1. hs[m] = z[m] /\ z[m] \in Int
      BY <2>2 DEF L!LayersTypeOK
    <3>2. z[m] >= 0 /\ z[m] <= z_top /\ layer_stack[z[m]] = m
      BY <1>8, <3>1 DEF L!Inverse
    <3> QED BY <1>1, <3>1, <3>2 DEF L!LayersTypeOK, L!Entry
  <2> QED BY <2>1, <2>2
<1>9. hs[l] = z_top + 1
  BY DEF L!LayersTypeOK
<1> HIDE DEF new, hs
<1>10. Listed(new, hs, z_top + 1)
  BY <1>1, <1>6, <1>7, <1>8 DEF Listed
<1> QED BY <1>3, <1>4, <1>5, <1>9, <1>10 DEF new, hs

\* The heights after the layers in the entries "moved" went along with them.
HeightsWith(l, old, nz, moved, new) ==
  [m \in L!Layer |-> IF {k \in moved : new[k] = m} # {}
                    THEN L!LastOf({k \in moved : new[k] = m}, old, nz)
                    ELSE IF m = l THEN nz ELSE z[m]]

\* A shown layer l that is hidden, raised or lowered among the shown ones: the
\* entries "moved" take what was "by" further up, everything else stays, and
\* nothing but l is lost.
MovedBy(l, nz, top, moved, by, new) ==
  /\ new \in [L!Entry -> L!Layer \cup {None}]
  /\ top \in -1 .. Size - 1 /\ nz <= top
  /\ moved \in SUBSET (0 .. top) /\ by \in {-1, 1}
  /\ nz >= 0 => new[nz] = l /\ nz \notin moved
  /\ \A k \in moved : k + by \in 0 .. z_top /\ k + by # z[l] /\ new[k] = layer_stack[k + by]
  /\ \A k \in L!Entry : k \notin moved /\ k # nz => new[k] = layer_stack[k]
  /\ \A k \in 0 .. top : k \notin moved /\ k # nz =>
       k <= z_top /\ k # z[l] /\ k - by \notin moved
  /\ \A j \in 0 .. z_top : j # z[l] =>
       j - by \in moved \/ (j \in 0 .. top /\ j \notin moved /\ j # nz)

LEMMA MoveAmongShown ==
  ASSUME L!LayersTypeOK, L!Inverse, NEW l \in L!Layer, NEW nz \in -1 .. z_top, flags[l],
         z[l] >= 0, nz # z[l], NEW top, NEW moved, NEW by, NEW new,
         MovedBy(l, nz, top, moved, by, new)
  PROVE  /\ Listed(new, HeightsWith(l, z[l], nz, moved, new), top)
         /\ HeightsWith(l, z[l], nz, moved, new)[l] = nz
<1> DEFINE hs == HeightsWith(l, z[l], nz, moved, new)
<1>0. hs = [m \in L!Layer |-> IF {k \in moved : new[k] = m} # {}
                             THEN L!LastOf({k \in moved : new[k] = m}, z[l], nz)
                             ELSE IF m = l THEN nz ELSE z[m]]
  BY DEF HeightsWith
<1> USE DEF MovedBy
<1> HIDE DEF hs
<1>1. /\ z_top \in -1 .. Size - 1 /\ Size \in Nat /\ z[l] \in 0 .. z_top
      /\ layer_stack[z[l]] = l /\ z[l] \in Int /\ nz \in Int /\ top \in Int
      /\ by \in Int /\ by # 0
  BY LayersAssumption DEF L!LayersTypeOK, L!Inverse
<1>2. moved \in SUBSET Int /\ \A i \in moved : i \in L!Layer
  BY <1>1 DEF L!Layer
<1>3. \A i, j \in 0 .. z_top : layer_stack[i] = layer_stack[j] => i = j
  BY DEF L!Inverse
<1>4. \A i, j \in moved : new[i] = new[j] => i = j
  <2> SUFFICES ASSUME NEW i \in moved, NEW j \in moved, new[i] = new[j] PROVE i = j
    OBVIOUS
  <2>1. i + by = j + by
    BY <1>3
  <2> QED BY <1>1, <1>2, <2>1
<1>5. hs[l] = nz
  <2>1. \A k \in moved : new[k] # l
    BY <1>1, <1>3
  <2>2. {k \in moved : new[k] = l} = {}
    BY <2>1
  <2> QED BY <1>0, <2>2
<1>6. ASSUME NEW m \in L!Layer, m # l, NEW k \in moved, new[k] = m
      PROVE  hs[m] = k
  <2>1. /\ {i \in moved : new[i] = m} # {}
        /\ L!LastOf({i \in moved : new[i] = m}, z[l], nz) = k
    BY <1>2, <1>4, <1>6, HeightOfMoved
  <2> QED BY <1>0, <1>6, <2>1, Zenon
<1>7. ASSUME NEW m \in L!Layer, m # l, \A k \in moved : new[k] # m
      PROVE  hs[m] = z[m]
  <2>1. {k \in moved : new[k] = m} = {}
    BY <1>7
  <2> QED BY <1>0, <1>7, <2>1
<1>8. hs \in [L!Layer -> -1 .. Size - 1]
  <2> SUFFICES ASSUME NEW m \in L!Layer PROVE hs[m] \in -1 .. Size - 1
    BY <1>0, Zenon
  <2>1. CASE m = l
    BY <1>1, <1>5, <2>1
  <2>2. CASE m # l /\ \E k \in moved : new[k] = m
    <3>1. PICK k \in moved : new[k] = m
      BY <2>2
    <3>2. hs[m] = k
      BY <1>6, <2>2, <3>1
    <3>3. k \in -1 .. Size - 1
      <4>1. k \in 0 .. top
        BY <3>1
      <4> QED BY <1>1, <4>1
    <3> QED BY <3>2, <3>3, Zenon
  <2>3. CASE m # l /\ \A k \in moved : new[k] # m
    BY <1>7, <2>3 DEF L!LayersTypeOK
  <2> QED BY <2>1, <2>2, <2>3
<1>9. ASSUME NEW k \in 0 .. top
      PROVE  new[k] \in L!Layer /\ flags[new[k]] /\ hs[new[k]] = k
  <2>1. CASE k = nz
    BY <1>1, <1>5, <1>9, <2>1
  <2>2. CASE k \in moved
    <3>1. /\ k + by \in 0 .. z_top /\ k + by # z[l] /\ new[k] = layer_stack[k + by]
      BY <2>2
    <3>2. new[k] \in L!Layer /\ flags[new[k]] /\ new[k] # l
      BY <1>1, <1>3, <3>1 DEF L!Inverse
    <3> QED BY <1>6, <2>2, <3>2
  <2>3. CASE k # nz /\ k \notin moved
    <3>1. k \in L!Entry /\ k \in 0 .. z_top /\ k # z[l] /\ k - by \notin moved
      BY <1>1, <2>3 DEF L!Entry
    <3>2. new[k] = layer_stack[k]
      BY <2>3, <3>1
    <3>3. new[k] \in L!Layer /\ flags[new[k]] /\ new[k] # l /\ z[new[k]] = k
      BY <1>1, <1>3, <3>1, <3>2 DEF L!Inverse
    <3>4. \A i \in moved : new[i] # new[k]
      <4> SUFFICES ASSUME NEW i \in moved, new[i] = new[k] PROVE FALSE
        OBVIOUS
      <4>1. i + by = k
        BY <1>3, <3>1, <3>2
      <4> QED BY <1>1, <1>2, <3>1, <4>1
    <3> QED BY <1>7, <3>3, <3>4
  <2> QED BY <2>1, <2>2, <2>3
<1>10. ASSUME NEW m \in L!Layer, flags[m], hs[m] >= 0
       PROVE  hs[m] <= top /\ new[hs[m]] = m
  <2>1. CASE m = l
    BY <1>1, <1>5, <1>10, <2>1
  <2>2. CASE m # l /\ \E k \in moved : new[k] = m
    <3>1. PICK k \in moved : new[k] = m
      BY <2>2
    <3>2. hs[m] = k
      BY <1>6, <2>2, <3>1
    <3>3. k <= top
      BY <1>1, <3>1
    <3> QED BY <3>1, <3>2, <3>3
  <2>3. CASE m # l /\ \A k \in moved : new[k] # m
    <3>1. hs[m] = z[m] /\ z[m] \in Int
      BY <1>7, <2>3 DEF L!LayersTypeOK
    <3>2. z[m] \in 0 .. z_top /\ layer_stack[z[m]] = m /\ z[m] # z[l]
      BY <1>1, <1>10, <2>3, <3>1 DEF L!Inverse
    <3>3. z[m] - by \notin moved
      <4> SUFFICES ASSUME z[m] - by \in moved PROVE FALSE
        OBVIOUS
      <4>1. new[z[m] - by] = layer_stack[(z[m] - by) + by]
        OBVIOUS
      <4>2. (z[m] - by) + by = z[m]
        BY <1>1, <3>1
      <4> QED BY <2>3, <3>2, <4>1, <4>2
    <3>4. z[m] \in 0 .. top /\ z[m] \notin moved /\ z[m] # nz
      BY <3>2, <3>3
    <3>5. new[z[m]] = layer_stack[z[m]]
      <4>1. z[m] \in L!Entry
        BY <1>1, <3>2 DEF L!Entry
      <4> QED BY <3>4, <4>1
    <3> QED BY <3>1, <3>2, <3>4, <3>5
  <2> QED BY <2>1, <2>2, <2>3
<1> QED BY <1>5, <1>8, <1>9, <1>10 DEF Listed, hs

LEMMA NextEntry ==
  ASSUME NEW n \in Nat, NEW top \in -1 .. n - 1, NEW a \in 0 .. top, NEW b \in -1 .. top,
         NEW k
  PROVE  /\ b >= 0 /\ k \in b + 1 .. a => k - 1 \in 0 .. n - 1
         /\ k \in a .. b - 1 => k + 1 \in 0 .. n - 1
         /\ k \in a .. top - 1 => k + 1 \in 0 .. n - 1
OBVIOUS

\* mov_layer_z does not part the stack and the heights (gui.c:91-137).
LEMMA MoveKeepsListed ==
  ASSUME L!LayersTypeOK, L!Inverse, NEW l \in L!Layer, flags[l], NEW nz \in -1 .. z_top + 1,
         ~ L!Misuse(z[l], nz)
  PROVE  /\ Listed(L!Stack(l, z[l], nz), L!Heights(l, z[l], nz), L!Top(z[l], nz))
         /\ L!Heights(l, z[l], nz)[l] = nz
<1>1. /\ z_top \in -1 .. Size - 1 /\ Size \in Nat /\ z[l] \in -1 .. Size - 1
      /\ z[l] >= 0 => z[l] <= z_top
  BY LayersAssumption DEF L!LayersTypeOK, L!Inverse
<1>2. CASE z[l] = nz
  BY <1>2, MoveNowhere
<1>3. CASE z[l] = -1 /\ nz # -1
  <2>1. nz = z_top + 1
    BY <1>1, <1>3 DEF L!Misuse
  <2> QED BY <1>3, <2>1, MoveOnTop
<1>4. CASE z[l] >= 0 /\ z[l] # nz
  <2>1. nz \in -1 .. z_top
    BY <1>1, <1>4 DEF L!Misuse
  <2> DEFINE old == z[l]
             moved == L!MovedUp(old, nz) \cup L!MovedDown(old, nz)
             new == L!Stack(l, old, nz)
  <2>2. L!Heights(l, old, nz) = HeightsWith(l, old, nz, moved, new)
    BY DEF L!Heights, HeightsWith
  <2>n. L!Numbered(old, nz) = {}
    BY <1>1, <1>4 DEF L!Numbered
  <2>0. old \in 0 .. z_top
    BY <1>1, <1>4
  <2>3. CASE nz = -1
    <3>1. L!MovedUp(old, nz) = {} /\ L!MovedDown(old, nz) = old .. z_top - 1
      BY <1>1, <1>4, <2>3 DEF L!MovedUp, L!MovedDown
    <3>2. L!Top(old, nz) = z_top - 1
      BY <1>1, <1>4, <2>3 DEF L!Top
    <3>3. ASSUME NEW k \in L!Entry
          PROVE  new[k] = IF k \in old .. z_top - 1 THEN layer_stack[k + 1] ELSE layer_stack[k]
      BY <1>1, <2>n, <2>3, <3>1 DEF L!Stack, L!Entry
    <3> DEFINE m1 == old .. z_top - 1
    <3> HIDE DEF new, old
    <3>4. new \in [L!Entry -> L!Layer \cup {None}]
      <4> SUFFICES ASSUME NEW k \in L!Entry PROVE new[k] \in L!Layer \cup {None}
        BY DEF new, L!Stack
      <4>1. \A i \in L!Entry : layer_stack[i] \in L!Layer \cup {None}
        BY DEF L!LayersTypeOK
      <4>2. /\ nz >= 0 /\ k \in nz + 1 .. old => k - 1 \in 0 .. Size - 1
            /\ k \in old .. nz - 1 => k + 1 \in 0 .. Size - 1
            /\ k \in old .. z_top - 1 => k + 1 \in 0 .. Size - 1
        BY <1>1, <2>0, <2>1, NextEntry
      <4>3. \A i \in 0 .. Size - 1 : i \in L!Entry
        BY <1>1 DEF L!Entry
      <4> QED BY <2>3, <3>3, <4>1, <4>2, <4>3
    <3>5. /\ m1 \in SUBSET (0 .. z_top - 1) /\ moved = m1
          /\ z_top - 1 \in -1 .. Size - 1 /\ nz <= z_top - 1
      BY <1>1, <1>4, <2>0, <2>1, <2>3, <3>1 DEF old
    <3>6. nz >= 0 => new[nz] = l /\ nz \notin m1
      BY <1>1, <1>4, <2>0, <2>1, <2>3, <3>3 DEF old, L!Entry
    <3>7. \A k \in m1 : k + 1 \in 0 .. z_top /\ k + 1 # z[l] /\ new[k] = layer_stack[k + 1]
      BY <1>1, <1>4, <2>0, <2>1, <2>3, <3>3 DEF old, L!Entry
    <3>8. \A k \in L!Entry : k \notin m1 /\ k # nz => new[k] = layer_stack[k]
      BY <1>1, <1>4, <2>0, <2>1, <2>3, <3>3 DEF old, L!Entry
    <3>9. \A k \in 0 .. z_top - 1 : k \notin m1 /\ k # nz =>
             k <= z_top /\ k # z[l] /\ k - 1 \notin m1
      BY <1>1, <1>4, <2>0, <2>1, <2>3 DEF old
    <3>10. \A j \in 0 .. z_top : j # z[l] =>
             j - 1 \in m1 \/ (j \in 0 .. z_top - 1 /\ j \notin m1 /\ j # nz)
      <4> SUFFICES ASSUME NEW j \in 0 .. z_top, j # z[l]
                   PROVE  j - 1 \in m1 \/ (j \in 0 .. z_top - 1 /\ j \notin m1 /\ j # nz)
        BY Zenon
      <4>1. CASE j < old
        BY <1>1, <1>4, <2>0, <2>1, <2>3, <4>1 DEF old
      <4>2. CASE j > old
        BY <1>1, <1>4, <2>0, <2>1, <2>3, <4>2 DEF old
      <4> QED BY <2>0, <4>1, <4>2 DEF old
    <3>11. MovedBy(l, nz, z_top - 1, m1, 1, new)
      BY <3>4, <3>5, <3>6, <3>7, <3>8, <3>9, <3>10 DEF MovedBy
    <3>12. L!Heights(l, old, nz) = HeightsWith(l, old, nz, m1, new)
      BY <2>2, <3>5, Zenon
    <3> HIDE DEF m1, moved
    <3>13. /\ Listed(new, HeightsWith(l, z[l], nz, m1, new), z_top - 1)
           /\ HeightsWith(l, z[l], nz, m1, new)[l] = nz
      BY <1>4, <2>1, <3>11, MoveAmongShown, SMT
    <3> QED BY <3>2, <3>12, <3>13 DEF new, old
  <2>4. CASE nz >= 0 /\ nz < old
    <3>1. L!MovedUp(old, nz) = nz + 1 .. old /\ L!MovedDown(old, nz) = {}
      BY <1>1, <1>4, <2>1, <2>4 DEF L!MovedUp, L!MovedDown
    <3>2. L!Top(old, nz) = z_top
      BY <1>1, <1>4, <2>4 DEF L!Top
    <3>3. ASSUME NEW k \in L!Entry
          PROVE  new[k] = IF k = nz THEN l ELSE IF k \in nz + 1 .. old THEN layer_stack[k - 1]
                                           ELSE layer_stack[k]
      BY <1>1, <2>n, <1>4, <2>1, <2>4, <3>1 DEF L!Stack, L!Entry
    <3> DEFINE m1 == nz + 1 .. old
    <3> HIDE DEF new, old
    <3>4. new \in [L!Entry -> L!Layer \cup {None}]
      <4> SUFFICES ASSUME NEW k \in L!Entry PROVE new[k] \in L!Layer \cup {None}
        BY DEF new, L!Stack
      <4>1. \A i \in L!Entry : layer_stack[i] \in L!Layer \cup {None}
        BY DEF L!LayersTypeOK
      <4>2. /\ nz >= 0 /\ k \in nz + 1 .. old => k - 1 \in 0 .. Size - 1
            /\ k \in old .. nz - 1 => k + 1 \in 0 .. Size - 1
            /\ k \in old .. z_top - 1 => k + 1 \in 0 .. Size - 1
        BY <1>1, <2>0, <2>1, NextEntry
      <4>3. \A i \in 0 .. Size - 1 : i \in L!Entry
        BY <1>1 DEF L!Entry
      <4> QED BY <2>4, <3>3, <4>1, <4>2, <4>3
    <3>5. /\ m1 \in SUBSET (0 .. z_top) /\ moved = m1
          /\ z_top \in -1 .. Size - 1 /\ nz <= z_top
      BY <1>1, <1>4, <2>0, <2>1, <2>4, <3>1 DEF old
    <3>6. nz >= 0 => new[nz] = l /\ nz \notin m1
      BY <1>1, <1>4, <2>0, <2>1, <2>4, <3>3 DEF old, L!Entry
    <3>7. \A k \in m1 : k + (-1) \in 0 .. z_top /\ k + (-1) # z[l] /\ new[k] = layer_stack[k + (-1)]
      BY <1>1, <1>4, <2>0, <2>1, <2>4, <3>3 DEF old, L!Entry
    <3>8. \A k \in L!Entry : k \notin m1 /\ k # nz => new[k] = layer_stack[k]
      BY <1>1, <1>4, <2>0, <2>1, <2>4, <3>3 DEF old, L!Entry
    <3>9. \A k \in 0 .. z_top : k \notin m1 /\ k # nz =>
             k <= z_top /\ k # z[l] /\ k - (-1) \notin m1
      BY <1>1, <1>4, <2>0, <2>1, <2>4 DEF old
    <3>10. \A j \in 0 .. z_top : j # z[l] =>
             j - (-1) \in m1 \/ (j \in 0 .. z_top /\ j \notin m1 /\ j # nz)
      <4> SUFFICES ASSUME NEW j \in 0 .. z_top, j # z[l]
                   PROVE  j - (-1) \in m1 \/ (j \in 0 .. z_top /\ j \notin m1 /\ j # nz)
        BY Zenon
      <4>1. CASE j < old
        BY <1>1, <1>4, <2>0, <2>1, <2>4, <4>1 DEF old
      <4>2. CASE j > old
        BY <1>1, <1>4, <2>0, <2>1, <2>4, <4>2 DEF old
      <4> QED BY <2>0, <4>1, <4>2 DEF old
    <3>11. MovedBy(l, nz, z_top, m1, (-1), new)
      BY <3>4, <3>5, <3>6, <3>7, <3>8, <3>9, <3>10 DEF MovedBy
    <3>12. L!Heights(l, old, nz) = HeightsWith(l, old, nz, m1, new)
      BY <2>2, <3>5, Zenon
    <3> HIDE DEF m1, moved
    <3>13. /\ Listed(new, HeightsWith(l, z[l], nz, m1, new), z_top)
           /\ HeightsWith(l, z[l], nz, m1, new)[l] = nz
      BY <1>4, <2>1, <3>11, MoveAmongShown, SMT
    <3> QED BY <3>2, <3>12, <3>13 DEF new, old
  <2>5. CASE nz > old
    <3>1. L!MovedUp(old, nz) = {} /\ L!MovedDown(old, nz) = old .. nz - 1
      BY <1>1, <1>4, <2>1, <2>5 DEF L!MovedUp, L!MovedDown
    <3>2. L!Top(old, nz) = z_top
      BY <1>1, <1>4, <2>5 DEF L!Top
    <3>3. ASSUME NEW k \in L!Entry
          PROVE  new[k] = IF k = nz THEN l ELSE IF k \in old .. nz - 1 THEN layer_stack[k + 1]
                                           ELSE layer_stack[k]
      BY <1>1, <2>n, <1>4, <2>1, <2>5, <3>1 DEF L!Stack, L!Entry
    <3> DEFINE m1 == old .. nz - 1
    <3> HIDE DEF new, old
    <3>4. new \in [L!Entry -> L!Layer \cup {None}]
      <4> SUFFICES ASSUME NEW k \in L!Entry PROVE new[k] \in L!Layer \cup {None}
        BY DEF new, L!Stack
      <4>1. \A i \in L!Entry : layer_stack[i] \in L!Layer \cup {None}
        BY DEF L!LayersTypeOK
      <4>2. /\ nz >= 0 /\ k \in nz + 1 .. old => k - 1 \in 0 .. Size - 1
            /\ k \in old .. nz - 1 => k + 1 \in 0 .. Size - 1
            /\ k \in old .. z_top - 1 => k + 1 \in 0 .. Size - 1
        BY <1>1, <2>0, <2>1, NextEntry
      <4>3. \A i \in 0 .. Size - 1 : i \in L!Entry
        BY <1>1 DEF L!Entry
      <4> QED BY <2>5, <3>3, <4>1, <4>2, <4>3
    <3>5. /\ m1 \in SUBSET (0 .. z_top) /\ moved = m1
          /\ z_top \in -1 .. Size - 1 /\ nz <= z_top
      BY <1>1, <1>4, <2>0, <2>1, <2>5, <3>1 DEF old
    <3>6. nz >= 0 => new[nz] = l /\ nz \notin m1
      BY <1>1, <1>4, <2>0, <2>1, <2>5, <3>3 DEF old, L!Entry
    <3>7. \A k \in m1 : k + 1 \in 0 .. z_top /\ k + 1 # z[l] /\ new[k] = layer_stack[k + 1]
      BY <1>1, <1>4, <2>0, <2>1, <2>5, <3>3 DEF old, L!Entry
    <3>8. \A k \in L!Entry : k \notin m1 /\ k # nz => new[k] = layer_stack[k]
      BY <1>1, <1>4, <2>0, <2>1, <2>5, <3>3 DEF old, L!Entry
    <3>9. \A k \in 0 .. z_top : k \notin m1 /\ k # nz =>
             k <= z_top /\ k # z[l] /\ k - 1 \notin m1
      BY <1>1, <1>4, <2>0, <2>1, <2>5 DEF old
    <3>10. \A j \in 0 .. z_top : j # z[l] =>
             j - 1 \in m1 \/ (j \in 0 .. z_top /\ j \notin m1 /\ j # nz)
      <4> SUFFICES ASSUME NEW j \in 0 .. z_top, j # z[l]
                   PROVE  j - 1 \in m1 \/ (j \in 0 .. z_top /\ j \notin m1 /\ j # nz)
        BY Zenon
      <4>1. CASE j < old
        BY <1>1, <1>4, <2>0, <2>1, <2>5, <4>1 DEF old
      <4>2. CASE j > old
        BY <1>1, <1>4, <2>0, <2>1, <2>5, <4>2 DEF old
      <4> QED BY <2>0, <4>1, <4>2 DEF old
    <3>11. MovedBy(l, nz, z_top, m1, 1, new)
      BY <3>4, <3>5, <3>6, <3>7, <3>8, <3>9, <3>10 DEF MovedBy
    <3>12. L!Heights(l, old, nz) = HeightsWith(l, old, nz, m1, new)
      BY <2>2, <3>5, Zenon
    <3> HIDE DEF m1, moved
    <3>13. /\ Listed(new, HeightsWith(l, z[l], nz, m1, new), z_top)
           /\ HeightsWith(l, z[l], nz, m1, new)[l] = nz
      BY <1>4, <2>1, <3>11, MoveAmongShown, SMT
    <3> QED BY <3>2, <3>12, <3>13 DEF new, old
  <2> QED BY <1>1, <1>4, <2>1, <2>3, <2>4, <2>5
<1> QED BY <1>1, <1>2, <1>3, <1>4

\* Painting what was just painted changes nothing (gui.c:139-159).
LEMMA PaintingTwice ==
  ASSUME NEW stack, NEW top, NEW at,
         screen' = L!refresh_screen(stack, top, at)
  PROVE  \A p \in Pixel : screen'[p] =
           IF L!Painted(p, stack, top, at) = {} THEN screen'[p]
           ELSE stack[L!Highest(L!Painted(p, stack, top, at))]
BY DEF L!refresh_screen

\* A move keeps the invariant, and a layer that is hidden leaves the stack.
LEMMA MoveKeepsInv ==
  ASSUME L!LayersInv, NEW l \in L!Layer, flags[l], NEW nz \in -1 .. z_top + 1,
         ~ L!Misuse(z[l], nz), L!MoveZ(l, nz), place' = place,
         \/ flags' = flags
         \/ nz = -1 /\ z[l] >= 0 /\ flags' = [flags EXCEPT ![l] = FALSE]
  PROVE  L!LayersInv'
<1> USE DEF L!LayersInv
<1>1. /\ layer_stack' = L!Stack(l, z[l], nz) /\ z' = L!Heights(l, z[l], nz)
      /\ z_top' = L!Top(z[l], nz)
      /\ screen' = L!refresh_screen(layer_stack', z_top', place)
  BY DEF L!MoveZ
<1>2. Listed(layer_stack', z', z_top') /\ z'[l] = nz
  BY <1>1, MoveKeepsListed
<1>3. z'[l] = nz
  BY <1>2
<1>4. flags' \in [L!Layer -> BOOLEAN]
  BY DEF L!LayersTypeOK
<1>5. L!LayersTypeOK'
  BY <1>2, <1>4 DEF L!LayersTypeOK, Listed
<1>6. L!Inverse'
  <2>1. CASE flags' = flags
    BY <1>2, <2>1 DEF L!Inverse, Listed
  <2>2. CASE nz = -1 /\ flags' = [flags EXCEPT ![l] = FALSE]
    <3>1. ASSUME NEW k \in 0 .. z_top'
          PROVE  /\ layer_stack'[k] \in L!Layer /\ flags'[layer_stack'[k]]
                 /\ z'[layer_stack'[k]] = k
      <4>1. /\ layer_stack'[k] \in L!Layer /\ flags[layer_stack'[k]]
            /\ z'[layer_stack'[k]] = k
        BY <1>2 DEF Listed
      <4>2. layer_stack'[k] # l
        BY <1>3, <2>2, <4>1
      <4> QED BY <2>2, <4>1, <4>2 DEF L!LayersTypeOK
    <3>2. ASSUME NEW m \in L!Layer, flags'[m], z'[m] >= 0
          PROVE  z'[m] <= z_top' /\ layer_stack'[z'[m]] = m
      <4>1. flags[m]
        BY <2>2, <3>2 DEF L!LayersTypeOK
      <4> QED BY <1>2, <3>2, <4>1 DEF Listed
    <3> QED BY <3>1, <3>2 DEF L!Inverse
  <2> QED BY <2>1, <2>2
<1>7. L!UpToDate'
  BY <1>1, PaintingTwice DEF L!UpToDate, L!refresh_screen, L!Painted
<1> QED BY <1>5, <1>6, <1>7

\* Unless it parts the stack and the heights, no step of the layers breaks their
\* invariant (gui.c:64-174).
LEMMA LayersStep ==
  ASSUME L!LayersInv, misused = 0, L!LayersNext \/ UNCHANGED layers, misused' = 0
  PROVE  L!LayersInv'
<1> USE DEF L!LayersInv
<1>0. /\ z_top \in -1 .. Size - 1 /\ Size \in Nat
      /\ z \in [L!Layer -> -1 .. Size - 1] /\ place \in [L!Layer -> Pixel]
  BY LayersAssumption DEF L!LayersTypeOK
<1>1. ASSUME NEW l \in L!Layer, L!alloc_layer(l) PROVE L!LayersInv'
  <2>1. /\ ~ flags[l] /\ flags' = [flags EXCEPT ![l] = TRUE] /\ z' = [z EXCEPT ![l] = -1]
        /\ place' = place /\ layer_stack' = layer_stack /\ z_top' = z_top /\ screen' = screen
    BY <1>1 DEF L!alloc_layer
  <2>2. L!LayersTypeOK'
    BY <1>0, <2>1 DEF L!LayersTypeOK
  <2>3. L!Inverse'
    BY <1>0, <2>1 DEF L!Inverse, L!LayersTypeOK
  <2> QED BY <2>1, <2>2, <2>3 DEF L!UpToDate, L!refresh_screen, L!Painted
<1>2. ASSUME NEW l \in L!Layer, L!free_layer(l) PROVE L!LayersInv'
  <2>1. flags[l] /\ flags' = [flags EXCEPT ![l] = FALSE] /\ place' = place
    BY <1>2 DEF L!free_layer
  <2>2. CASE z[l] >= 0
    <3>1. -1 \in -1 .. z_top + 1 /\ L!MoveZ(l, -1)
      BY <1>0, <1>2, <2>2 DEF L!free_layer
    <3>2. ~ L!Misuse(z[l], -1)
      BY <3>1 DEF L!MoveZ, L!Counts
    <3> QED BY <2>1, <2>2, <3>1, <3>2, MoveKeepsInv, Zenon
  <2>3. CASE ~ (z[l] >= 0)
    <3>1. z' = z /\ layer_stack' = layer_stack /\ z_top' = z_top /\ screen' = screen
      BY <1>2, <2>3 DEF L!free_layer
    <3>2. L!LayersTypeOK'
      BY <1>0, <2>1, <3>1 DEF L!LayersTypeOK
    <3>3. L!Inverse'
      BY <1>0, <2>1, <2>3, <3>1 DEF L!Inverse, L!LayersTypeOK
    <3> QED BY <2>1, <3>1, <3>2, <3>3 DEF L!UpToDate, L!refresh_screen, L!Painted
  <2> QED BY <2>2, <2>3
<1>3. ASSUME NEW l \in L!Layer, NEW nz \in -2 .. Size, L!mov_layer_z(l, nz) PROVE L!LayersInv'
  <2>1. L!Clamped(nz) \in -1 .. z_top + 1
    BY <1>0 DEF L!Clamped
  <2>2. L!MoveZ(l, L!Clamped(nz)) /\ flags[l] /\ flags' = flags /\ place' = place
    BY <1>3 DEF L!mov_layer_z
  <2>3. ~ L!Misuse(z[l], L!Clamped(nz))
    BY <2>2 DEF L!MoveZ, L!Counts
  <2> QED BY <2>1, <2>2, <2>3, MoveKeepsInv
<1>4. ASSUME NEW l \in L!Layer, NEW p \in Pixel, L!mov_layer(l, p) PROVE L!LayersInv'
  <2>1. /\ flags' = flags /\ z' = z /\ layer_stack' = layer_stack /\ z_top' = z_top
        /\ place' = [place EXCEPT ![l] = p]
        /\ screen' = IF z[l] >= 0 THEN L!refresh_screen(layer_stack, z_top, place') ELSE screen
    BY <1>4 DEF L!mov_layer
  <2>2. L!LayersTypeOK'
    BY <1>0, <2>1 DEF L!LayersTypeOK
  <2>3. L!Inverse'
    BY <2>1 DEF L!Inverse
  <2>4. L!UpToDate'
    <3>1. CASE z[l] >= 0
      BY <2>1, <3>1, PaintingTwice DEF L!UpToDate, L!refresh_screen, L!Painted
    <3>2. CASE ~ (z[l] >= 0)
      <4>1. \A q \in Pixel :
              L!Painted(q, layer_stack, z_top, place') = L!Painted(q, layer_stack, z_top, place)
        <5> SUFFICES ASSUME NEW q \in Pixel, NEW k \in 0 .. z_top
                     PROVE  L!Covers(layer_stack[k], q, place') <=> L!Covers(layer_stack[k], q, place)
          BY DEF L!Painted
        <5>1. layer_stack[k] \in L!Layer /\ layer_stack[k] # l
          BY <3>2 DEF L!Inverse
        <5> QED BY <1>0, <2>1, <5>1 DEF L!Covers
      <4>2. screen' = screen
        BY <2>1, <3>2
      <4> QED BY <2>1, <4>1, <4>2 DEF L!UpToDate, L!refresh_screen
    <3> QED BY <3>1, <3>2
  <2> QED BY <2>2, <2>3, <2>4
<1>5. CASE UNCHANGED layers
  BY <1>5 DEF layers, L!LayersTypeOK, L!Inverse, L!UpToDate, L!refresh_screen, L!Painted
<1> QED BY <1>1, <1>2, <1>3, <1>4, <1>5 DEF L!LayersNext

\* Once the two have parted, that is remembered.
LEMMA PartedForGood ==
  ASSUME misused \in Nat, L!LayersNext \/ UNCHANGED layers
  PROVE  misused' \in Nat /\ (misused > 0 => misused' > 0)
<1>1. ASSUME NEW parts, L!Counts(parts)
      PROVE  misused' \in Nat /\ (misused > 0 => misused' > 0)
  BY <1>1 DEF L!Counts
<1>2. CASE L!LayersNext
  <2>1. \E parts : L!Counts(parts)
    BY <1>2 DEF L!LayersNext, L!alloc_layer, L!free_layer, L!mov_layer_z, L!mov_layer, L!MoveZ
  <2> QED BY <1>1, <2>1
<1>3. CASE UNCHANGED layers
  BY <1>3 DEF layers
<1> QED BY <1>2, <1>3

\* The first painting: the background everywhere, the mouse above it where it is
\* (gui.c:42-73).
LEMMA LayersStart == L!InitScreen => L!LayersInv
<1> SUFFICES ASSUME L!InitScreen PROVE L!LayersInv
  OBVIOUS
<1>1. /\ Size \in Nat /\ Size >= 2 /\ 0 \in L!Layer /\ 1 \in L!Layer
      /\ \A l \in L!Layer : l \in Nat
      /\ 0 \in Pixel /\ 0 \in L!Entry /\ 1 \in L!Entry /\ \A k \in L!Entry : k \in Nat
  BY LayersAssumption DEF L!Layer, L!Entry
<1>2. /\ flags = [l \in L!Layer |-> l <= 1] /\ z = [l \in L!Layer |-> IF l = 1 THEN 1 ELSE 0]
      /\ place = [l \in L!Layer |-> 0] /\ z_top = 1
      /\ layer_stack = [k \in L!Entry |-> IF k <= 1 THEN k ELSE None]
      /\ screen = [p \in Pixel |-> IF p = place[1] THEN 1 ELSE 0]
  BY DEF L!InitScreen
<1>3. L!LayersTypeOK
  <2>1. flags \in [L!Layer -> BOOLEAN]
    BY <1>2
  <2>2. z \in [L!Layer -> -1 .. Size - 1] /\ z_top \in -1 .. Size - 1
    BY <1>1, <1>2
  <2>3. place \in [L!Layer -> Pixel]
    BY <1>1, <1>2
  <2>4. layer_stack \in [L!Entry -> L!Layer \cup {None}]
    BY <1>1, <1>2
  <2> QED BY <2>1, <2>2, <2>3, <2>4 DEF L!LayersTypeOK
<1>4. L!Inverse
  <2>1. ASSUME NEW k \in 0 .. z_top
        PROVE  /\ layer_stack[k] \in L!Layer /\ flags[layer_stack[k]] /\ z[layer_stack[k]] = k
    <3>0. /\ layer_stack[0] = 0 /\ layer_stack[1] = 1 /\ flags[0] /\ flags[1]
          /\ z[0] = 0 /\ z[1] = 1
      <4>1. layer_stack[0] = 0 /\ layer_stack[1] = 1 /\ z[0] = 0 /\ z[1] = 1
        BY <1>1, <1>2
      <4>2. 0 <= 1 /\ 1 <= 1
        OBVIOUS
      <4>3. flags[0] /\ flags[1]
        BY <1>1, <1>2, <4>2, Zenon
      <4> QED BY <4>1, <4>3
    <3>1. k = 0 \/ k = 1
      BY <1>2, <2>1
    <3> QED BY <1>1, <3>0, <3>1
  <2>2. ASSUME NEW l \in L!Layer, flags[l], z[l] >= 0
        PROVE  z[l] <= z_top /\ layer_stack[z[l]] = l
    <3>1. l = 0 \/ l = 1
      <4>1. l <= 1
        BY <1>2, <2>2, Zenon
      <4>2. l \in Nat
        BY <1>1
      <4> QED BY <4>1, <4>2
    <3> QED BY <1>1, <1>2, <3>1
  <2> QED BY <2>1, <2>2 DEF L!Inverse
<1>5. L!UpToDate
  <2>1. ASSUME NEW p \in Pixel
        PROVE  screen[p] = IF L!Painted(p, layer_stack, z_top, place) = {} THEN screen[p]
                           ELSE layer_stack[L!Highest(L!Painted(p, layer_stack, z_top, place))]
    <3>1. \A k : k \in L!Painted(p, layer_stack, z_top, place) <=> k = 0 \/ (k = 1 /\ p = 0)
      <4>1. /\ layer_stack[0] = 0 /\ layer_stack[1] = 1 /\ None # 0 /\ None # 1
            /\ place[0] = 0 /\ place[1] = 0 /\ z_top = 1
        BY <1>1, <1>2, LayersAssumption DEF L!Layer
      <4>2. \A k : k \in 0 .. 1 <=> k = 0 \/ k = 1
        OBVIOUS
      <4> QED BY <4>1, <4>2 DEF L!Painted, L!Covers
    <3>2. CASE p = 0
      <4>1. L!Painted(p, layer_stack, z_top, place) = {0, 1}
        BY <3>1, <3>2
      <4>2. L!Highest({0, 1}) = 1
        BY DEF L!Highest
      <4> QED BY <1>1, <1>2, <3>2, <4>1, <4>2
    <3>3. CASE p # 0
      <4>1. L!Painted(p, layer_stack, z_top, place) = {0}
        BY <3>1, <3>3
      <4>2. L!Highest({0}) = 0
        BY DEF L!Highest
      <4> QED BY <1>1, <1>2, <3>3, <4>1, <4>2
    <3> QED BY <3>2, <3>3
  <2> QED BY <1>2, <2>1 DEF L!UpToDate, L!refresh_screen
<1> QED BY <1>3, <1>4, <1>5 DEF L!LayersInv

\* A set of entries that is not empty has a highest one: the least distance from
\* the top, which stands in for induction here.
LEMMA HighestExists ==
  ASSUME NEW top \in Int, NEW ks \in SUBSET (0 .. top), ks # {}
  PROVE  L!Highest(ks) \in ks /\ \A k \in ks : k <= L!Highest(ks)
<1> DEFINE far == {top - k : k \in ks}
<1>1. far \in SUBSET Nat /\ far # {}
  <2>1. ASSUME NEW k \in ks PROVE top - k \in Nat
    BY <2>1
  <2> QED BY <2>1
<1>2. OpToRel(<, Nat) = Less
  BY DEF OpToRel, Less
<1>3. \A i, j \in Nat : <<j, i>> \in Less <=> j < i
  BY DEF Less
<1>4. PICK d \in far : \A e \in far : <<e, d>> \notin Less
  <2> HIDE DEF far
  <2> QED BY <1>1, <1>2, NatLessThanWellFounded, WFMin
<1>5. PICK k \in ks : d = top - k
  OBVIOUS
<1>6. ASSUME NEW m \in ks PROVE m <= k
  <2>1. top - m \in far /\ top - m \in Nat /\ d \in Nat
    BY <1>1
  <2>2. ~ (top - m < d)
    BY <1>3, <1>4, <2>1
  <2> QED BY <1>5, <2>2
<1>7. \E h \in ks : \A m \in ks : m <= h
  BY <1>6
<1> QED BY <1>7, Zenon DEF L!Highest

\* The invariant says what is seen (gui.c:139-159).
LEMMA TopIsSeen == (misused = 0 => L!LayersInv) => ScreenShowsTop
<1> SUFFICES ASSUME L!LayersInv, NEW p \in Pixel, L!Shown(p) # {}
             PROVE  screen[p] \in L!Shown(p) /\ \A l \in L!Shown(p) : z[l] <= z[screen[p]]
  BY DEF ScreenShowsTop, L!ScreenShowsTop
<1> DEFINE painted == L!Painted(p, layer_stack, z_top, place)
<1>1. z_top \in Int /\ painted \in SUBSET (0 .. z_top) /\ None \notin L!Layer
  BY LayersAssumption DEF L!LayersInv, L!LayersTypeOK, L!Painted, L!Layer
<1>2. ASSUME NEW l \in L!Shown(p)
      PROVE  z[l] \in painted /\ layer_stack[z[l]] = l
  <2>1. l \in L!Layer /\ flags[l] /\ z[l] >= 0 /\ L!Covers(l, p, place)
    BY DEF L!Shown
  <2>2. z[l] \in 0 .. z_top /\ layer_stack[z[l]] = l
    BY <1>1, <2>1 DEF L!LayersInv, L!LayersTypeOK, L!Inverse
  <2> QED BY <1>1, <2>1, <2>2 DEF L!Painted
<1>3. ASSUME NEW k \in painted
      PROVE  layer_stack[k] \in L!Shown(p) /\ z[layer_stack[k]] = k
  <2>1. k \in 0 .. z_top /\ L!Covers(layer_stack[k], p, place)
    BY DEF L!Painted
  <2> QED BY <2>1 DEF L!LayersInv, L!Inverse, L!Shown
<1>4. painted # {}
  BY <1>2
<1> HIDE DEF painted
<1>5. L!Highest(painted) \in painted /\ \A k \in painted : k <= L!Highest(painted)
  BY <1>1, <1>4, HighestExists
<1>6. screen[p] = layer_stack[L!Highest(painted)]
  BY <1>4 DEF L!LayersInv, L!UpToDate, L!refresh_screen, painted
<1> QED BY <1>2, <1>3, <1>5, <1>6

-----------------------------------------------------------------------------
(* Both together: the mode never changes, and what is not used stands still. *)

LEMMA GuiIInvInductive == GuiSpec => []GuiIInv
<1>1. GuiInit => GuiIInv
  BY IInvInit, LayersStart DEF GuiInit, GuiIInv, L!InitScreen
<1>2. GuiIInv /\ [GuiNext]_gvars => GuiIInv'
  <2> SUFFICES ASSUME GuiIInv, [GuiNext]_gvars PROVE GuiIInv'
    OBVIOUS
  <2>1. [Next]_vars
    BY DEF GuiNext, gvars
  <2>2. L!LayersNext \/ UNCHANGED layers
    BY DEF GuiNext, gvars
  <2>3. misused' \in Nat /\ (misused > 0 => misused' > 0)
    BY <2>2, PartedForGood DEF GuiIInv
  <2>4. ASSUME misused' = 0 PROVE L!LayersInv'
    <3>1. misused = 0
      BY <2>3, <2>4 DEF GuiIInv
    <3> QED BY <2>2, <2>4, <3>1, LayersStep DEF GuiIInv
  <2> QED BY <2>1, <2>3, <2>4, IInvStep DEF GuiIInv
<1> QED BY <1>1, <1>2, PTL DEF GuiSpec

\* The tasks' messages and characters and the messages of the timer interrupt and
\* the scheduler, all that is printed once the tasks run, each find the cursor on
\* the screen where a character begins, except for a message that interrupts a
\* task on its way to the test, for a screen of any size and any number of tasks
\* (gui.c:368-395, gui.c:450-467, tasks.c:86, interrupt_handlers.c:61).
THEOREM ConsoleCursorOnScreen == GuiSpec => []CursorOnScreen
<1>1. GuiIInv => CursorOnScreen
  BY DEF GuiIInv, IInv
<1> QED BY <1>1, GuiIInvInductive, PTL

\* No character of these, nor its colour, is written further than one line below
\* the screen (gui.c:381-382, gui.c:459-460).
THEOREM ConsoleWritesNearScreen == GuiSpec => []WritesNearScreen
<1>1. GuiIInv => WritesNearScreen
  BY DEF GuiIInv, IInv
<1> QED BY <1>1, GuiIInvInductive, PTL

\* Until a layer is put in below a shown one or a shown one is raised above the
\* top, the screen shows the highest layer at every place, for any number of
\* layers and places, whatever else was moved, hidden and released before
\* (gui.c:64-174).
THEOREM HighestLayerIsSeen == GuiSpec => []ScreenShowsTop
<1>1. GuiIInv => ScreenShowsTop
  BY TopIsSeen DEF GuiIInv
<1> QED BY <1>1, GuiIInvInductive, PTL
=============================================================================
