---------------------------- MODULE KTimerProofs ----------------------------
(***************************************************************************)
(* Proofs about KTimer for any number of timers, any width of the counter  *)
(* and any delays.                                                         *)
(*                                                                         *)
(* Chain is a recursive function; that it is well defined and determined   *)
(* by its equation follows from the least position where it would not be.  *)
(* Three lemmas say what following, inserting and taking off do to a list; *)
(* the inductive invariant IInv and the properties rest on them.           *)
(***************************************************************************)
EXTENDS KTimer, FunctionTheorems, WellFoundedInduction, TLAPS

-----------------------------------------------------------------------------
(* The inductive invariant.                                                *)

\* The list from h holds the n timers of s, in that order, and nothing else.
At(s, n, i) == IF i < n THEN s[i] ELSE Nil

IsList(h, nx, s, n) ==
  /\ s \in [0 .. n - 1 -> Timer]
  /\ \A i, j \in 0 .. n - 1 : s[i] = s[j] => i = j
  /\ h = At(s, n, 0)
  /\ \A i \in 0 .. n - 1 : nx[s[i]] = At(s, n, i + 1)
  /\ \A t \in Timer : (\A i \in 0 .. n - 1 : s[i] # t) => nx[t] = Nil

Sorted(s, n, due) == \A i, j \in 0 .. n - 1 : i < j => due[s[i]] <= due[s[j]]

\* The list from h holds the timers of L, by their deadline if ordered.
Holds(h, nx, L, due, ordered) ==
  \E n \in 0 .. T : \E s \in [0 .. n - 1 -> Timer] :
    /\ IsList(h, nx, s, n)
    /\ \A t \in Timer : t \in L <=> \E i \in 0 .. n - 1 : s[i] = t
    /\ ordered => Sorted(s, n, due)

\* Where the calls are, as long as each timer has one owner.
CallsApart ==
  /\ \A p \in Task : call[p].at = "insert" =>
       call[p].timer # Switch /\ flags[call[p].timer] = "using"
  /\ \A p, q \in Task : call[p].at = "insert" /\ call[q].at = "insert"
       /\ call[p].timer = call[q].timer => p = q
  /\ \A p \in Task : call[p].at \in {"load", "store"} => call[p].timer # Switch
  /\ \A p \in Task : call[p].at = "store" => call[p].flags = "free"

\* Deadlines count from the tick.
LeftCounts == \A t \in Timer : flags[t] = "using" =>
  left[t] = IF timeout[t] > tick THEN timeout[t] - tick ELSE 0

\* What is linked, in which order while nothing has wrapped.
Kept ==
  /\ TypeOK /\ ~hung /\ CallsApart
  /\ \A t \in Timer : flags[t] # "both"
  /\ flags[Switch] # "alloc"
  /\ flags[Switch] = "free" =>
       (\A t \in Timer : flags[t] = "free") /\ \A p \in Task : call[p] = Idle
  /\ Holds(head, next, Armed, timeout, ~wrapped)
  /\ ~wrapped => LeftCounts

\* A timer that was misused stays so; nothing is promised from then on.
IInv == misused \/ Kept

-----------------------------------------------------------------------------
\* The least element of a set of numbers, which stands in for induction here.
Less == {pair \in Nat \X Nat : pair[1] < pair[2]}

LEMMA LessWellFounded == IsWellFoundedOn(Less, Nat)
<1>1. OpToRel(<, Nat) = Less
  BY DEF OpToRel, Less
<1> QED BY NatLessThanWellFounded, <1>1

LEMMA LeastNumber ==
  ASSUME NEW S \in SUBSET Nat, S # {}
  PROVE  \E m \in S : \A k \in S : m <= k
<1>1. \A x, y \in Nat : <<y, x>> \in Less <=> y < x
  BY DEF Less
<1>2. PICK x \in S : \A y \in S : <<y, x>> \notin Less
  BY LessWellFounded, WFMin
<1>3. \A y \in S : ~(y < x) /\ x \in Nat /\ y \in Nat
  BY <1>1, <1>2
<1>4. \A y \in S : x <= y
  BY <1>3
<1> QED BY <1>4

\* The positions of the recursion, one after the other.
Follows(c, h, nx, n) ==
  /\ c \in [0 .. n -> Pointer]
  /\ c[0] = h
  /\ \A k \in 1 .. n : c[k] = IF c[k - 1] = Nil THEN Nil ELSE nx[c[k - 1]]

LEMMA FollowsExists ==
  ASSUME NEW h \in Pointer, NEW nx \in [Timer -> Pointer], NEW n \in Nat
  PROVE  \E c : Follows(c, h, nx, n)
<1> DEFINE Bad == {m \in Nat : ~ \E c : Follows(c, h, nx, m)}
<1>1. ASSUME n \in Bad PROVE FALSE
  <2>1. PICK m \in Bad : \A k \in Bad : m <= k
    BY <1>1, LeastNumber
  <2>2. CASE m = 0
    <3>1. Follows([k \in 0 .. 0 |-> h], h, nx, 0)
      BY DEF Follows
    <3> QED BY <2>2, <3>1
  <2>3. CASE m # 0
    <3>1. m \in Nat /\ m - 1 \in Nat /\ m - 1 \notin Bad
      BY <2>1, <2>3
    <3>2. PICK c : Follows(c, h, nx, m - 1)
      BY <3>1
    <3> DEFINE last == IF c[m - 1] = Nil THEN Nil ELSE nx[c[m - 1]]
               d == [k \in 0 .. m |-> IF k = m THEN last ELSE c[k]]
    <3>3. c[m - 1] \in Pointer
      BY <3>1, <3>2 DEF Follows
    <3>4. last \in Pointer
      BY <3>3 DEF Pointer
    <3> HIDE DEF last
    <3>5. Follows(d, h, nx, m)
      <4>1. d \in [0 .. m -> Pointer] /\ d[0] = h
        BY <2>3, <3>1, <3>2, <3>4 DEF Follows
      <4>2. ASSUME NEW k \in 1 .. m
            PROVE  d[k] = IF d[k - 1] = Nil THEN Nil ELSE nx[d[k - 1]]
        <5>1. CASE k = m
          <6>1. d[k] = last /\ d[k - 1] = c[m - 1]
            BY <3>1, <5>1
          <6> QED BY <6>1 DEF last
        <5>2. CASE k # m
          <6>1. k \in 1 .. m - 1 /\ d[k] = c[k] /\ d[k - 1] = c[k - 1]
            BY <3>1, <5>2
          <6> QED BY <3>2, <6>1 DEF Follows
        <5> QED BY <5>1, <5>2
      <4> QED BY <4>1, <4>2 DEF Follows
    <3> QED BY <2>1, <3>5
  <2> QED BY <2>2, <2>3
<1> QED BY <1>1

\* The type need not be asked for.
LEMMA FollowsTyped ==
  ASSUME NEW h \in Pointer, NEW nx \in [Timer -> Pointer], NEW n \in Nat, NEW c,
         c = [k \in 0 .. n |->
                IF k = 0 THEN h ELSE IF c[k - 1] = Nil THEN Nil ELSE nx[c[k - 1]]]
  PROVE  Follows(c, h, nx, n)
<1>1. c[0] = h /\ DOMAIN c = 0 .. n
  OBVIOUS
<1>2. \A k \in 1 .. n : c[k] = IF c[k - 1] = Nil THEN Nil ELSE nx[c[k - 1]]
  OBVIOUS
<1> DEFINE Bad == {m \in Nat : m <= n /\ c[m] \notin Pointer}
<1>3. ASSUME NEW k \in 0 .. n, c[k] \notin Pointer PROVE FALSE
  <2>0. k \in Bad /\ Bad \in SUBSET Nat
    BY <1>3
  <2>1. PICK m \in Bad : \A j \in Bad : m <= j
    BY <2>0, LeastNumber
  <2>2. m # 0 /\ m \in Nat /\ m - 1 \in Nat /\ m - 1 \notin Bad /\ m \in 1 .. n
    <3>1. m \in Nat /\ m <= n /\ c[m] \notin Pointer
      BY <2>1
    <3>2. m # 0
      BY <1>1, <3>1
    <3>3. m - 1 \in Nat /\ ~(m <= m - 1)
      BY <3>1, <3>2
    <3>4. m - 1 \notin Bad
      BY <2>1, <3>3
    <3> QED BY <3>1, <3>2, <3>3, <3>4
  <2>3. c[m - 1] \in Pointer
    BY <2>2
  <2>4. c[m] \in Pointer
    BY <1>2, <2>2, <2>3 DEF Pointer
  <2> QED BY <2>1, <2>4
<1>4. \A k \in 0 .. n : c[k] \in Pointer
  BY <1>3
<1>5. c = [k \in 0 .. n |-> c[k]]
  OBVIOUS
<1>6. c \in [0 .. n -> Pointer]
  BY <1>4, <1>5
<1> QED BY <1>1, <1>2, <1>6 DEF Follows

\* There is one way to follow a list.
LEMMA FollowsUnique ==
  ASSUME NEW h \in Pointer, NEW nx \in [Timer -> Pointer], NEW n \in Nat,
         NEW c, Follows(c, h, nx, n), NEW d, Follows(d, h, nx, n)
  PROVE  c = d
<1> DEFINE Bad == {m \in Nat : m <= n /\ c[m] # d[m]}
<1>1. ASSUME NEW k \in 0 .. n, c[k] # d[k] PROVE FALSE
  <2>0. k \in Bad /\ Bad \in SUBSET Nat
    BY <1>1
  <2>1. PICK m \in Bad : \A j \in Bad : m <= j
    BY <2>0, LeastNumber
  <2>2. m # 0 /\ m \in Nat /\ m - 1 \in Nat /\ m - 1 \notin Bad /\ m \in 1 .. n
    BY <2>1 DEF Follows
  <2>3. c[m - 1] = d[m - 1]
    BY <2>2
  <2>4. c[m] = d[m]
    BY <2>2, <2>3 DEF Follows
  <2> QED BY <2>1, <2>4
<1>2. \A k \in 0 .. n : c[k] = d[k]
  BY <1>1
<1> QED BY <1>2 DEF Follows

\* The recursive function Chain is well defined.
LEMMA ChainFollows ==
  ASSUME NEW h \in Pointer, NEW nx \in [Timer -> Pointer]
  PROVE  Follows(Chain(h, nx), h, nx, T + 1)
<1>1. T + 1 \in Nat
  BY TAssumption
<1>2. PICK c : Follows(c, h, nx, T + 1)
  BY <1>1, FollowsExists
<1> DEFINE Def(f) == [k \in 0 .. T + 1 |->
                        IF k = 0 THEN h ELSE IF f[k - 1] = Nil THEN Nil ELSE nx[f[k - 1]]]
           ch == CHOOSE f : f = Def(f)
<1>3. c = Def(c)
  BY <1>1, <1>2 DEF Follows
<1>4. ch = Def(ch)
  BY <1>3
<1>5. Chain(h, nx) = ch
  BY DEF Chain
<1> QED BY <1>1, <1>4, <1>5, FollowsTyped

-----------------------------------------------------------------------------
(* The list.                                                               *)

\* There are no more different timers than timers.
LEMMA PigeonHole ==
  ASSUME NEW n \in Nat, NEW s \in [0 .. n - 1 -> Timer],
         \A i, j \in 0 .. n - 1 : s[i] = s[j] => i = j
  PROVE  n <= T
<1> DEFINE f == [i \in 1 .. n |-> s[i - 1] + 1]
<1>1. T \in Nat
  BY TAssumption
<1>2. \A i \in 1 .. n : i - 1 \in 0 .. n - 1 /\ s[i - 1] \in Int /\ s[i - 1] + 1 \in 1 .. T
  BY <1>1 DEF Timer
<1>3. f \in [1 .. n -> 1 .. T]
  BY <1>2
<1>4. ASSUME NEW i \in 1 .. n, NEW j \in 1 .. n, f[i] = f[j] PROVE i = j
  <2>1. s[i - 1] = s[j - 1]
    BY <1>2, <1>4
  <2>2. i - 1 = j - 1
    BY <1>2, <2>1
  <2> QED BY <2>2
<1>5. f \in Injection(1 .. n, 1 .. T)
  BY <1>3, <1>4 DEF Injection, IsInjective
<1> HIDE DEF f
<1>6. ExistsInjection(1 .. n, 1 .. T)
  BY <1>5 DEF ExistsInjection
<1> QED BY <1>1, <1>6, Fun_NatInjLeq

LEMMA NilIsNoTimer == Nil \notin Timer
BY NilAssumption, TAssumption DEF Timer

\* Following the list from its head meets its timers in order, and then Nil.
LEMMA ChainOfList ==
  ASSUME NEW h \in Pointer, NEW nx \in [Timer -> Pointer],
         NEW n \in Nat, NEW s, IsList(h, nx, s, n)
  PROVE  n <= T /\ \A k \in 0 .. T + 1 : Chain(h, nx)[k] = At(s, n, k)
<1>1. n <= T /\ T \in Nat
  BY PigeonHole, TAssumption DEF IsList
<1> DEFINE d == [k \in 0 .. T + 1 |-> At(s, n, k)]
<1>2. ASSUME NEW k \in 0 .. T + 1 PROVE At(s, n, k) \in Pointer
  BY <1>1 DEF At, IsList, Pointer
<1>3. d \in [0 .. T + 1 -> Pointer] /\ d[0] = h
  BY <1>1, <1>2 DEF IsList
<1>4. ASSUME NEW k \in 1 .. T + 1
      PROVE  d[k] = IF d[k - 1] = Nil THEN Nil ELSE nx[d[k - 1]]
  <2>1. k \in 0 .. T + 1 /\ k - 1 \in 0 .. T + 1 /\ d[k] = At(s, n, k) /\ d[k - 1] = At(s, n, k - 1)
    BY <1>1
  <2>2. CASE k - 1 < n
    <3>1. k - 1 \in 0 .. n - 1 /\ d[k - 1] = s[k - 1] /\ k - 1 + 1 = k
      BY <1>1, <2>1, <2>2 DEF At
    <3>2. nx[s[k - 1]] = At(s, n, k) /\ s[k - 1] \in Timer
      BY <3>1 DEF IsList
    <3> QED BY <2>1, <3>1, <3>2, NilIsNoTimer
  <2>3. CASE ~(k - 1 < n)
    <3>1. ~(k < n)
      BY <1>1, <2>3
    <3> QED BY <2>1, <2>3, <3>1 DEF At
  <2> QED BY <2>2, <2>3
<1>5. Follows(d, h, nx, T + 1)
  BY <1>3, <1>4 DEF Follows
<1>6. Chain(h, nx) = d
  BY <1>1, <1>5, ChainFollows, FollowsUnique
<1> QED BY <1>1, <1>6

\* Where Place stops.
LEMMA PlaceStops ==
  ASSUME NEW c, NEW n \in 0 .. T + 1, c[n] = Nil, NEW due, NEW t
  PROVE  LET k == Place(c, due, t) IN
         /\ HasPlace(c, due, t)
         /\ k \in 0 .. n
         /\ c[k] = Nil \/ due[c[k]] >= due[t]
         /\ \A i \in 0 .. k - 1 : c[i] # Nil /\ ~(due[c[i]] >= due[t])
<1> DEFINE Here(k) == c[k] = Nil \/ due[c[k]] >= due[t]
           S == {k \in Nat : k <= T + 1 /\ Here(k)}
           k0 == Place(c, due, t)
<1>1. n \in S /\ T \in Nat
  BY TAssumption
<1>2. PICK m \in S : \A i \in S : m <= i
  BY <1>1, LeastNumber
<1>3. m \in 0 .. T + 1 /\ Here(m) /\ \A i \in 0 .. m - 1 : ~Here(i)
  BY <1>1, <1>2
<1> HIDE DEF Here
<1>4. k0 = CHOOSE k \in 0 .. T + 1 : Here(k) /\ \A i \in 0 .. k - 1 : ~Here(i)
  BY DEF Here, Place, Stops
<1>e. HasPlace(c, due, t)
  BY <1>3 DEF Here, HasPlace, Stops
<1>5. k0 \in 0 .. T + 1 /\ Here(k0) /\ \A i \in 0 .. k0 - 1 : ~Here(i)
  BY <1>3, <1>4
<1> HIDE DEF k0
<1>6. k0 <= n
  <2>1. Here(n)
    BY DEF Here
  <2> QED BY <1>1, <1>5, <2>1
<1>7. k0 \in 0 .. n
  BY <1>1, <1>5, <1>6
<1> QED BY <1>5, <1>7, <1>e DEF k0, Here

\* Where the handler stops.
LEMMA ExpiredStops ==
  ASSUME NEW c, NEW n \in 0 .. T + 1, c[n] = Nil, NEW now
  PROVE  LET k == Expired(c, now) IN
         /\ k \in 0 .. n
         /\ c[k] = Nil \/ timeout[c[k]] > now
         /\ \A i \in 0 .. k - 1 : c[i] # Nil /\ ~(timeout[c[i]] > now)
<1> DEFINE Here(k) == c[k] = Nil \/ timeout[c[k]] > now
           S == {k \in Nat : k <= T + 1 /\ Here(k)}
           k0 == Expired(c, now)
<1>1. n \in S /\ T \in Nat
  BY TAssumption
<1>2. PICK m \in S : \A i \in S : m <= i
  BY <1>1, LeastNumber
<1>3. m \in 0 .. T + 1 /\ Here(m) /\ \A i \in 0 .. m - 1 : ~Here(i)
  BY <1>1, <1>2
<1> HIDE DEF Here
<1>4. k0 = CHOOSE k \in 0 .. T + 1 : Here(k) /\ \A i \in 0 .. k - 1 : ~Here(i)
  BY DEF Here, Expired, Stops
<1>5. k0 \in 0 .. T + 1 /\ Here(k0) /\ \A i \in 0 .. k0 - 1 : ~Here(i)
  BY <1>3, <1>4
<1> HIDE DEF k0
<1>6. k0 <= n
  <2>1. Here(n)
    BY DEF Here
  <2> QED BY <1>1, <1>5, <2>1
<1>7. k0 \in 0 .. n
  BY <1>1, <1>5, <1>6
<1> QED BY <1>5, <1>7 DEF k0, Here

\* The timers in order after t was put in at position k.
Inserted(s, n, k, t) ==
  [i \in 0 .. n |-> IF i < k THEN s[i] ELSE IF i = k THEN t ELSE s[i - 1]]

\* The body of k_set_timer_time links a timer in and loses no other.
LEMMA InsertIntoList ==
  ASSUME NEW h \in Pointer, NEW nx \in [Timer -> Pointer],
         NEW n \in Nat, NEW s, IsList(h, nx, s, n),
         NEW t \in Timer, \A i \in 0 .. n - 1 : s[i] # t, NEW due
  PROVE  LET l == Insert(h, nx, due, t) IN
         /\ HasPlace(Chain(h, nx), due, t)
         /\ l.head \in Pointer /\ l.next \in [Timer -> Pointer] /\ n + 1 <= T
         /\ \E k \in 0 .. n :
              /\ IsList(l.head, l.next, Inserted(s, n, k, t), n + 1)
              /\ \A i \in 0 .. k - 1 : ~(due[s[i]] >= due[t])
              /\ k < n => due[s[k]] >= due[t]
<1> DEFINE c == Chain(h, nx)
           k == Place(c, due, t)
           l == Insert(h, nx, due, t)
<1>1. /\ n <= T /\ T \in Nat /\ \A i \in 0 .. T + 1 : c[i] = At(s, n, i)
  BY ChainOfList, TAssumption
<1> HIDE DEF c
<1>2. s \in [0 .. n - 1 -> Timer]
  BY DEF IsList
<1>3. n \in 0 .. T + 1 /\ c[n] = Nil /\ \A i \in 0 .. n - 1 : c[i] = s[i] /\ s[i] \in Timer
  BY <1>1, <1>2 DEF At
<1>4. /\ HasPlace(c, due, t)
      /\ k \in 0 .. n
      /\ c[k] = Nil \/ due[c[k]] >= due[t]
      /\ \A i \in 0 .. k - 1 : c[i] # Nil /\ ~(due[c[i]] >= due[t])
  BY <1>3, PlaceStops
<1>5. l = LinkAt(k, c, nx, t)
  BY DEF Insert, c
<1> HIDE DEF k, l
<1>6. c[k] = At(s, n, k) /\ c[k] \in Pointer
  BY <1>1, <1>2, <1>4 DEF At, Pointer
<1>7. k # 0 => k - 1 \in 0 .. n - 1 /\ c[k - 1] = s[k - 1] /\ s[k - 1] \in Timer
  BY <1>1, <1>3, <1>4
<1>8. /\ l.head = IF k = 0 THEN t ELSE h
      /\ l.next = IF k = 0 THEN [nx EXCEPT ![t] = At(s, n, k)]
                  ELSE [[nx EXCEPT ![t] = At(s, n, k)] EXCEPT ![s[k - 1]] = t]
  <2>1. c[0] = h
    BY <1>1 DEF IsList
  <2> QED BY <1>5, <1>6, <1>7, <2>1 DEF LinkAt
<1>9. l.head \in Pointer /\ l.next \in [Timer -> Pointer]
  BY <1>6, <1>7, <1>8 DEF Pointer
<1>10. \A u \in Timer :
         l.next[u] = IF k # 0 /\ u = s[k - 1] THEN t
                     ELSE IF u = t THEN At(s, n, k) ELSE nx[u]
  BY <1>7, <1>8
<1> DEFINE s2 == Inserted(s, n, k, t)
<1>11. /\ s2 \in [0 .. n -> Timer]
       /\ \A i \in 0 .. k - 1 : i \in 0 .. n - 1 /\ s2[i] = s[i]
       /\ s2[k] = t
       /\ \A i \in k + 1 .. n : i - 1 \in 0 .. n - 1 /\ s2[i] = s[i - 1]
  <2>1. ASSUME NEW p \in 0 .. n
        PROVE  /\ Inserted(s, n, p, t) \in [0 .. n -> Timer]
               /\ \A i \in 0 .. p - 1 : i \in 0 .. n - 1 /\ Inserted(s, n, p, t)[i] = s[i]
               /\ Inserted(s, n, p, t)[p] = t
               /\ \A i \in p + 1 .. n : i - 1 \in 0 .. n - 1 /\ Inserted(s, n, p, t)[i] = s[i - 1]
    <3>1. \A i \in 0 .. n : i < p => i \in 0 .. n - 1 /\ s[i] \in Timer
      BY <1>2
    <3>2. \A i \in 0 .. n : ~(i < p) /\ i # p => i - 1 \in 0 .. n - 1 /\ s[i - 1] \in Timer
      BY <1>2
    <3> QED BY <3>1, <3>2 DEF Inserted
  <2>2. k \in 0 .. n
    BY <1>4
  <2> QED BY <2>1, <2>2, Zenon
<1> HIDE DEF s2
<1>12. ASSUME NEW i \in 0 .. n, NEW j \in 0 .. n, s2[i] = s2[j] PROVE i = j
  <2>1. /\ i < k => i \in 0 .. k - 1
        /\ i > k => i \in k + 1 .. n
        /\ j < k => j \in 0 .. k - 1
        /\ j > k => j \in k + 1 .. n
    BY <1>4
  <2>2. \A a, b \in 0 .. n - 1 : s[a] = s[b] => a = b
    BY DEF IsList
  <2>3. CASE i = k
    BY <1>4, <1>11, <1>12, <2>1, <2>3
  <2>4. CASE i # k /\ j = k
    BY <1>4, <1>11, <1>12, <2>1, <2>4
  <2>5. CASE i # k /\ j # k
    <3>1. i \in 0 .. k - 1 \/ i \in k + 1 .. n
      BY <1>4, <2>5
    <3>2. j \in 0 .. k - 1 \/ j \in k + 1 .. n
      BY <1>4, <2>5
    <3>3. CASE i \in 0 .. k - 1 /\ j \in 0 .. k - 1
      BY <1>11, <1>12, <2>2, <3>3
    <3>4. CASE i \in k + 1 .. n /\ j \in k + 1 .. n
      <4>1. i - 1 = j - 1
        BY <1>11, <1>12, <2>2, <3>4
      <4> QED BY <4>1
    <3>5. CASE i \in 0 .. k - 1 /\ j \in k + 1 .. n
      <4>1. i = j - 1
        BY <1>11, <1>12, <2>2, <3>5
      <4> QED BY <1>4, <3>5, <4>1
    <3>6. CASE i \in k + 1 .. n /\ j \in 0 .. k - 1
      <4>1. i - 1 = j
        BY <1>11, <1>12, <2>2, <3>6
      <4> QED BY <1>4, <3>6, <4>1
    <3> QED BY <3>1, <3>2, <3>3, <3>4, <3>5, <3>6
  <2> QED BY <2>3, <2>4, <2>5
<1>13. l.head = At(s2, n + 1, 0)
  <2>1. CASE k = 0
    BY <1>8, <1>11, <2>1 DEF At
  <2>2. CASE k # 0
    <3>1. 0 \in 0 .. k - 1 /\ 0 < n
      BY <1>4, <2>2
    <3>2. h = s[0] /\ s2[0] = s[0]
      BY <1>11, <3>1 DEF IsList, At
    <3> QED BY <1>8, <2>2, <3>2 DEF At
  <2> QED BY <2>1, <2>2
<1>14. ASSUME NEW i \in 0 .. n PROVE l.next[s2[i]] = At(s2, n + 1, i + 1)
  <2>0. \A a \in 0 .. n - 1 : nx[s[a]] = At(s, n, a + 1) /\ s[a] # t /\ s[a] \in Timer
    BY <1>2 DEF IsList
  <2>i. \A a, b \in 0 .. n - 1 : s[a] = s[b] => a = b
    BY DEF IsList
  <2>1. CASE i \in 0 .. k - 2
    <3>1. /\ i \in 0 .. k - 1 /\ i + 1 \in 0 .. k - 1 /\ i \in 0 .. n - 1
          /\ k - 1 \in 0 .. n - 1 /\ i # k - 1 /\ i + 1 < n /\ i + 1 < n + 1
      BY <1>4, <2>1
    <3>2. s[i] # s[k - 1]
      BY <2>i, <3>1
    <3>3. l.next[s[i]] = s[i + 1]
      BY <1>10, <2>0, <3>1, <3>2 DEF At
    <3> QED BY <1>11, <3>1, <3>3 DEF At
  <2>2. CASE i = k - 1
    <3>1. k # 0 /\ i \in 0 .. k - 1 /\ i + 1 = k /\ k < n + 1
      BY <1>4, <2>2
    <3>2. s2[i] = s[k - 1] /\ s[k - 1] \in Timer
      BY <1>7, <1>11, <2>2, <3>1
    <3>3. l.next[s2[i]] = t
      BY <1>10, <3>1, <3>2
    <3> QED BY <1>11, <3>1, <3>3 DEF At
  <2>3. CASE i = k
    <3>1. k # 0 => t # s[k - 1]
      BY <1>7
    <3>2. l.next[s2[i]] = At(s, n, k)
      BY <1>10, <1>11, <2>3, <3>1
    <3>3. CASE k < n
      <4>1. k + 1 \in k + 1 .. n /\ k + 1 < n + 1 /\ k + 1 - 1 = k
        BY <1>4, <3>3
      <4>2. s2[k + 1] = s[k + 1 - 1]
        BY <1>4, <1>11, <4>1
      <4>3. s2[k + 1] = s[k]
        BY <4>1, <4>2
      <4> QED BY <2>3, <3>2, <3>3, <4>1, <4>3 DEF At
    <3>4. CASE ~(k < n)
      <4>1. ~(k + 1 < n + 1)
        BY <1>4, <3>4
      <4> QED BY <2>3, <3>2, <3>4, <4>1 DEF At
    <3> QED BY <3>3, <3>4
  <2>4. CASE i \in k + 1 .. n
    <3>1. /\ i - 1 \in 0 .. n - 1 /\ s2[i] = s[i - 1] /\ i - 1 + 1 = i
          /\ k # 0 => k - 1 \in 0 .. n - 1 /\ i - 1 # k - 1
      BY <1>4, <1>11, <2>4
    <3>2. k # 0 => s[i - 1] # s[k - 1]
      BY <2>i, <3>1
    <3>3. l.next[s2[i]] = At(s, n, i)
      BY <1>10, <2>0, <3>1, <3>2
    <3>4. CASE i < n
      <4>1. i + 1 \in k + 1 .. n /\ i + 1 < n + 1 /\ i + 1 - 1 = i
        BY <1>4, <2>4, <3>4
      <4>2. s2[i + 1] = s[i]
        BY <1>11, <4>1
      <4> QED BY <3>3, <3>4, <4>1, <4>2 DEF At
    <3>5. CASE ~(i < n)
      <4>1. ~(i + 1 < n + 1)
        BY <1>4, <2>4, <3>5
      <4> QED BY <3>3, <3>5, <4>1 DEF At
    <3> QED BY <3>4, <3>5
  <2>5. i \in 0 .. k - 2 \/ i = k - 1 \/ i = k \/ i \in k + 1 .. n
    BY <1>4
  <2> QED BY <2>1, <2>2, <2>3, <2>4, <2>5
<1>15. ASSUME NEW u \in Timer, \A i \in 0 .. n : s2[i] # u PROVE l.next[u] = Nil
  <2>1. k \in 0 .. n /\ u # t
    BY <1>4, <1>11, <1>15
  <2>2. ASSUME NEW i \in 0 .. n - 1 PROVE s[i] # u
    <3>1. CASE i < k
      <4>1. i \in 0 .. k - 1 /\ i \in 0 .. n
        BY <1>4, <3>1
      <4> QED BY <1>11, <1>15, <4>1
    <3>2. CASE ~(i < k)
      <4>1. i + 1 \in k + 1 .. n /\ i + 1 - 1 = i /\ i + 1 \in 0 .. n
        BY <1>4, <3>2
      <4>2. s2[i + 1] = s[i]
        BY <1>11, <4>1
      <4> QED BY <1>15, <4>1, <4>2
    <3> QED BY <3>1, <3>2
  <2>3. nx[u] = Nil
    BY <2>2 DEF IsList
  <2> QED BY <1>7, <1>10, <2>1, <2>2, <2>3
<1>16. IsList(l.head, l.next, s2, n + 1)
  <2>1. n + 1 - 1 = n
    OBVIOUS
  <2> QED BY <1>11, <1>12, <1>13, <1>14, <1>15, <2>1 DEF IsList
<1>17. n + 1 <= T
  <2>1. n + 1 - 1 = n /\ n + 1 \in Nat
    OBVIOUS
  <2> QED BY <1>11, <1>12, <2>1, PigeonHole
<1>18. k < n => due[s[k]] >= due[t]
  <2>1. k < n => k \in 0 .. n - 1
    BY <1>4
  <2> QED BY <1>3, <1>4, <2>1, NilIsNoTimer
<1>19. \A i \in 0 .. k - 1 : ~(due[s[i]] >= due[t])
  <2>1. \A i \in 0 .. k - 1 : i \in 0 .. n - 1
    BY <1>4
  <2> QED BY <1>3, <1>4, <2>1
<1> QED BY <1>4, <1>9, <1>16, <1>17, <1>18, <1>19 DEF l, s2, c

\* It keeps them in order.
LEMMA InsertedSorted ==
  ASSUME NEW n \in Nat, NEW s \in [0 .. n - 1 -> Timer], NEW k \in 0 .. n, NEW t \in Timer,
         NEW due \in [Timer -> Int], Sorted(s, n, due),
         \A i \in 0 .. k - 1 : ~(due[s[i]] >= due[t]), k < n => due[s[k]] >= due[t]
  PROVE  Sorted(Inserted(s, n, k, t), n + 1, due)
<1> DEFINE s2 == Inserted(s, n, k, t)
<1>1. /\ \A i \in 0 .. n - 1 : due[s[i]] \in Int
      /\ due[t] \in Int /\ n + 1 - 1 = n
  OBVIOUS
<1>2. ASSUME NEW i \in 0 .. n
      PROVE  s2[i] = IF i < k THEN s[i] ELSE IF i = k THEN t ELSE s[i - 1]
  BY DEF Inserted
<1> HIDE DEF s2
<1>3. \A i, j \in 0 .. n - 1 : i < j => due[s[i]] <= due[s[j]]
  BY DEF Sorted
<1>4. ASSUME NEW i \in 0 .. n - 1, i >= k PROVE due[s[i]] >= due[t]
  <2>1. k \in 0 .. n - 1 /\ due[s[k]] >= due[t]
    BY <1>4
  <2>2. due[s[k]] <= due[s[i]]
    BY <1>1, <1>3, <1>4, <2>1
  <2> QED BY <1>1, <2>1, <2>2
<1>5. ASSUME NEW i \in 0 .. n, NEW j \in 0 .. n, i < j PROVE due[s2[i]] <= due[s2[j]]
  <2>1. CASE j < k
    <3>1. i \in 0 .. n - 1 /\ j \in 0 .. n - 1 /\ i < k
      BY <1>5, <2>1
    <3> QED BY <1>2, <1>3, <1>5, <2>1, <3>1
  <2>2. CASE j = k
    <3>1. i \in 0 .. k - 1 /\ i \in 0 .. n - 1 /\ s2[i] = s[i] /\ s2[j] = t
      BY <1>2, <1>5, <2>2
    <3> QED BY <1>1, <3>1
  <2>3. CASE j > k
    <3>1. j - 1 \in 0 .. n - 1 /\ s2[j] = s[j - 1] /\ j - 1 >= k
      BY <1>2, <1>5, <2>3
    <3>2. CASE i < k
      <4>1. i \in 0 .. n - 1 /\ s2[i] = s[i] /\ i < j - 1
        BY <1>2, <2>3, <3>2
      <4> QED BY <1>3, <3>1, <4>1
    <3>3. CASE i = k
      <4>1. s2[i] = t
        BY <1>2, <3>3
      <4> QED BY <1>1, <1>4, <3>1, <4>1
    <3>4. CASE i > k
      <4>1. i - 1 \in 0 .. n - 1 /\ s2[i] = s[i - 1] /\ i - 1 < j - 1
        BY <1>2, <1>5, <3>4
      <4> QED BY <1>3, <3>1, <4>1
    <3> QED BY <3>2, <3>3, <3>4
  <2> QED BY <2>1, <2>2, <2>3
<1> QED BY <1>1, <1>5 DEF Sorted, s2

-----------------------------------------------------------------------------
(* The three ways a list changes.                                          *)

\* Only the deadlines of the timers on the list count.
LEMMA HoldsFor ==
  ASSUME NEW h, NEW nx, NEW L, NEW due, NEW ordered \in BOOLEAN,
         Holds(h, nx, L, due, ordered),
         NEW due2, NEW ordered2 \in BOOLEAN, ordered2 => ordered,
         \A u \in L : due2[u] = due[u]
  PROVE  Holds(h, nx, L, due2, ordered2)
<1>1. PICK n \in 0 .. T : \E s \in [0 .. n - 1 -> Timer] :
         /\ IsList(h, nx, s, n)
         /\ \A t \in Timer : t \in L <=> \E i \in 0 .. n - 1 : s[i] = t
         /\ ordered => Sorted(s, n, due)
  BY DEF Holds
<1>2. PICK s \in [0 .. n - 1 -> Timer] :
         /\ IsList(h, nx, s, n)
         /\ \A t \in Timer : t \in L <=> \E i \in 0 .. n - 1 : s[i] = t
         /\ ordered => Sorted(s, n, due)
  BY <1>1
<1>3. \A i \in 0 .. n - 1 : due2[s[i]] = due[s[i]]
  BY <1>2
<1>4. ordered2 => Sorted(s, n, due2)
  BY <1>2, <1>3 DEF Sorted
<1> QED BY <1>2, <1>4 DEF Holds

\* Linking a timer in: the loop ends.
LEMMA HoldsInserted ==
  ASSUME NEW h \in Pointer, NEW nx \in [Timer -> Pointer], NEW L \in SUBSET Timer,
         NEW due \in [Timer -> Int], NEW ordered \in BOOLEAN,
         Holds(h, nx, L, due, ordered), NEW t \in Timer \ L
  PROVE  LET l == Insert(h, nx, due, t) IN
         /\ HasPlace(Chain(h, nx), due, t)
         /\ l.head \in Pointer /\ l.next \in [Timer -> Pointer]
         /\ Holds(l.head, l.next, L \cup {t}, due, ordered)
<1> DEFINE l == Insert(h, nx, due, t)
<1>0. T \in Nat
  BY TAssumption
<1>1. PICK n \in 0 .. T : \E s \in [0 .. n - 1 -> Timer] :
         /\ IsList(h, nx, s, n)
         /\ \A u \in Timer : u \in L <=> \E i \in 0 .. n - 1 : s[i] = u
         /\ ordered => Sorted(s, n, due)
  BY DEF Holds
<1>2. PICK s \in [0 .. n - 1 -> Timer] :
         /\ IsList(h, nx, s, n)
         /\ \A u \in Timer : u \in L <=> \E i \in 0 .. n - 1 : s[i] = u
         /\ ordered => Sorted(s, n, due)
  BY <1>1
<1>3. n \in Nat /\ \A i \in 0 .. n - 1 : s[i] # t
  BY <1>2
<1>4. /\ HasPlace(Chain(h, nx), due, t)
      /\ l.head \in Pointer /\ l.next \in [Timer -> Pointer] /\ n + 1 <= T
      /\ \E k \in 0 .. n :
           /\ IsList(l.head, l.next, Inserted(s, n, k, t), n + 1)
           /\ \A i \in 0 .. k - 1 : ~(due[s[i]] >= due[t])
           /\ k < n => due[s[k]] >= due[t]
  BY <1>2, <1>3, InsertIntoList
<1> HIDE DEF l
<1>5. PICK k \in 0 .. n :
           /\ IsList(l.head, l.next, Inserted(s, n, k, t), n + 1)
           /\ \A i \in 0 .. k - 1 : ~(due[s[i]] >= due[t])
           /\ k < n => due[s[k]] >= due[t]
  BY <1>4
<1> DEFINE s2 == Inserted(s, n, k, t)
<1>6. \A i \in 0 .. n : s2[i] = IF i < k THEN s[i] ELSE IF i = k THEN t ELSE s[i - 1]
  BY DEF Inserted
<1>7. ordered => Sorted(s2, n + 1, due)
  BY <1>2, <1>3, <1>5, InsertedSorted
<1> HIDE DEF s2
<1>8. ASSUME NEW u \in Timer
      PROVE  u \in L \cup {t} <=> \E i \in 0 .. n : s2[i] = u
  <2>1. ASSUME NEW i \in 0 .. n, s2[i] = u PROVE u \in L \cup {t}
    <3>1. i < k => i \in 0 .. n - 1
      OBVIOUS
    <3>2. i > k => i - 1 \in 0 .. n - 1
      OBVIOUS
    <3> QED BY <1>2, <1>6, <2>1, <3>1, <3>2
  <2>2. CASE u = t
    <3>1. k \in 0 .. n /\ s2[k] = t
      BY <1>6
    <3> QED BY <2>2, <3>1
  <2>3. ASSUME u \in L PROVE \E i \in 0 .. n : s2[i] = u
    <3>1. PICK i \in 0 .. n - 1 : s[i] = u
      BY <1>2, <2>3
    <3>2. CASE i < k
      <4>1. i \in 0 .. n /\ s2[i] = u
        BY <1>6, <3>1, <3>2
      <4> QED BY <4>1
    <3>3. CASE ~(i < k)
      <4>1. i + 1 \in 0 .. n /\ ~(i + 1 < k) /\ i + 1 # k /\ i + 1 - 1 = i
        BY <3>3
      <4>2. s2[i + 1] = s[i + 1 - 1]
        BY <1>6, <4>1
      <4>3. s2[i + 1] = u
        BY <3>1, <4>1, <4>2
      <4> QED BY <4>1, <4>3
    <3> QED BY <3>2, <3>3
  <2> QED BY <2>1, <2>2, <2>3
<1>9. n + 1 \in 0 .. T /\ n + 1 - 1 = n
  BY <1>0, <1>4
<1>10. s2 \in [0 .. n + 1 - 1 -> Timer] /\ IsList(l.head, l.next, s2, n + 1)
  <2>1. IsList(l.head, l.next, s2, n + 1)
    BY <1>5 DEF s2
  <2>2. s2 \in [0 .. n + 1 - 1 -> Timer]
    <3>1. PICK n2 : n2 = n + 1
      OBVIOUS
    <3>2. IsList(l.head, l.next, s2, n2)
      BY <2>1, <3>1
    <3>3. s2 \in [0 .. n2 - 1 -> Timer]
      BY <3>2 DEF IsList
    <3> QED BY <3>1, <3>3
  <2> QED BY <2>1, <2>2
<1>11. Holds(l.head, l.next, L \cup {t}, due, ordered)
  <2>1. \A u \in Timer : u \in L \cup {t} <=> \E i \in 0 .. n + 1 - 1 : s2[i] = u
    BY <1>8, <1>9
  <2> DEFINE n2 == n + 1
  <2>2. /\ n2 \in 0 .. T /\ s2 \in [0 .. n2 - 1 -> Timer] /\ IsList(l.head, l.next, s2, n2)
        /\ \A u \in Timer : u \in L \cup {t} <=> \E i \in 0 .. n2 - 1 : s2[i] = u
        /\ ordered => Sorted(s2, n2, due)
    BY <1>7, <1>9, <1>10, <2>1
  <2> HIDE DEF n2
  <2> QED BY <2>2 DEF Holds
<1> QED BY <1>4, <1>11 DEF l

LEMMA HoldsLinked ==
  ASSUME NEW h \in Pointer, NEW nx \in [Timer -> Pointer], NEW L \in SUBSET Timer,
         NEW due \in [Timer -> Int], NEW ordered \in BOOLEAN,
         Holds(h, nx, L, due, ordered), NEW t \in Timer \ L, Link(h, nx, due, t)
  PROVE  /\ head' \in Pointer /\ next' \in [Timer -> Pointer] /\ hung' = FALSE
         /\ Holds(head', next', L \cup {t}, due, ordered)
<1> DEFINE l == Insert(h, nx, due, t)
<1>1. /\ HasPlace(Chain(h, nx), due, t)
      /\ l.head \in Pointer /\ l.next \in [Timer -> Pointer]
      /\ Holds(l.head, l.next, L \cup {t}, due, ordered)
  BY HoldsInserted
<1>2. head' = l.head /\ next' = l.next /\ hung' = FALSE
  BY <1>1 DEF Link
<1> QED BY <1>1, <1>2

\* On a list without repetition the handler meets what Chain does.
LEMMA HoldsUnlinked ==
  ASSUME NEW h \in Pointer, NEW nx \in [Timer -> Pointer], NEW L,
         NEW due, NEW ordered, Holds(h, nx, L, due, ordered)
  PROVE  Unlinked(Chain(h, nx)) = Chain(h, nx)
<1> DEFINE c == Chain(h, nx)
<1>0. T \in Nat
  BY TAssumption
<1>1. PICK n \in 0 .. T : \E s \in [0 .. n - 1 -> Timer] : IsList(h, nx, s, n)
  BY DEF Holds
<1>2. PICK s \in [0 .. n - 1 -> Timer] : IsList(h, nx, s, n)
  BY <1>1
<1>3. \A i \in 0 .. T + 1 : c[i] = At(s, n, i)
  BY <1>2, ChainOfList
<1>4. c \in [0 .. T + 1 -> Pointer]
  BY ChainFollows DEF Follows
<1> HIDE DEF c
<1>5. ASSUME NEW k \in 0 .. T + 1, NEW i \in 0 .. k - 1, NEW j \in 0 .. k - 1,
             i < j, c[i] = c[j]
      PROVE  c[k] = Nil
  <2>0. /\ i \in Nat /\ j \in Nat /\ k \in Int /\ n \in Int /\ j < k
        /\ i \in 0 .. T + 1 /\ j \in 0 .. T + 1
    BY <1>0
  <2>1. /\ c[i] = At(s, n, i) /\ c[j] = At(s, n, j) /\ c[k] = At(s, n, k)
        /\ i \in Nat /\ j \in Nat /\ k \in Int /\ n \in Int /\ j < k
    BY <1>3, <2>0
  <2>2. CASE i < n /\ j < n
    <3>0. i \in 0 .. n - 1 /\ j \in 0 .. n - 1
      BY <2>1, <2>2
    <3>a. At(s, n, i) = s[i] /\ At(s, n, j) = s[j]
      BY <2>2 DEF At
    <3>1. i \in 0 .. n - 1 /\ j \in 0 .. n - 1 /\ s[i] = s[j]
      BY <1>5, <2>1, <3>0, <3>a
    <3>2. i = j
      BY <1>2, <3>1 DEF IsList
    <3> QED BY <1>5, <2>1, <3>2
  <2>3. CASE i < n /\ ~(j < n)
    <3>0. i \in 0 .. n - 1 /\ s[i] \in Timer
      BY <1>2, <2>1, <2>3
    <3>a. At(s, n, i) = s[i] /\ At(s, n, j) = Nil
      BY <2>3 DEF At
    <3>1. i \in 0 .. n - 1 /\ s[i] = Nil /\ s[i] \in Timer
      BY <1>5, <2>1, <3>0, <3>a
    <3> QED BY <3>1, NilIsNoTimer
  <2>4. CASE ~(i < n)
    <3>1. ~(k < n)
      BY <1>5, <2>1, <2>4
    <3> QED BY <2>1, <3>1 DEF At
  <2> QED BY <2>2, <2>3, <2>4
<1>6. \A k \in 0 .. T + 1 : Unlinked(c)[k] = c[k]
  BY <1>5 DEF Unlinked
<1>7. Unlinked(c) = [k \in 0 .. T + 1 |-> Unlinked(c)[k]]
  BY DEF Unlinked
<1> QED BY <1>4, <1>6, <1>7 DEF c

\* Taking the first m timers off, and clearing what they point to.
Front(c, m) == {c[i] : i \in 0 .. m - 1}

Cleared(nx, fired) == [t \in Timer |-> IF t \in fired THEN Nil ELSE nx[t]]

LEMMA HoldsPopped ==
  ASSUME NEW h \in Pointer, NEW nx \in [Timer -> Pointer], NEW L \in SUBSET Timer,
         NEW due, NEW ordered, Holds(h, nx, L, due, ordered),
         NEW m \in 0 .. T + 1, \A i \in 0 .. m - 1 : Chain(h, nx)[i] # Nil
  PROVE  LET c == Chain(h, nx) IN
         /\ Front(c, m) \subseteq L
         /\ c[m] \in Pointer /\ Cleared(nx, Front(c, m)) \in [Timer -> Pointer]
         /\ Holds(c[m], Cleared(nx, Front(c, m)), L \ Front(c, m), due, ordered)
<1> DEFINE c == Chain(h, nx)
           fired == {c[i] : i \in 0 .. m - 1}
           nx2 == [t \in Timer |-> IF t \in fired THEN Nil ELSE nx[t]]
<1>0. T \in Nat
  BY TAssumption
<1>1. PICK n \in 0 .. T : \E s \in [0 .. n - 1 -> Timer] :
         /\ IsList(h, nx, s, n)
         /\ \A u \in Timer : u \in L <=> \E i \in 0 .. n - 1 : s[i] = u
         /\ ordered => Sorted(s, n, due)
  BY DEF Holds
<1>2. PICK s \in [0 .. n - 1 -> Timer] :
         /\ IsList(h, nx, s, n)
         /\ \A u \in Timer : u \in L <=> \E i \in 0 .. n - 1 : s[i] = u
         /\ ordered => Sorted(s, n, due)
  BY <1>1
<1>3. n \in Nat
  OBVIOUS
<1>4. \A i \in 0 .. T + 1 : c[i] = At(s, n, i)
  BY <1>2, <1>3, ChainOfList
<1>5. m <= n
  <2>1. CASE m = 0
    BY <2>1
  <2>2. CASE m # 0
    <3>1. m - 1 \in 0 .. m - 1 /\ m - 1 \in 0 .. T + 1 /\ m \in Int /\ n \in Int
      BY <1>0, <2>2
    <3>2. At(s, n, m - 1) # Nil
      BY <1>4, <3>1
    <3>3. m - 1 < n
      BY <3>2 DEF At
    <3> QED BY <3>1, <3>3
  <2> QED BY <2>1, <2>2
<1>6. \A i \in 0 .. m - 1 : i \in 0 .. n - 1 /\ c[i] = s[i]
  BY <1>0, <1>4, <1>5 DEF At
<1>7. c[m] = At(s, n, m) /\ c[m] \in Pointer
  BY <1>0, <1>4, <1>5 DEF At, Pointer
<1> HIDE DEF c
<1>8. fired \subseteq L
  BY <1>2, <1>6
<1>9. nx2 \in [Timer -> Pointer]
  BY DEF Pointer
<1>10. \A i \in 0 .. n - 1 : s[i] \in fired <=> i < m
  <2>1. ASSUME NEW i \in 0 .. n - 1, i < m PROVE s[i] \in fired
    <3>1. i \in 0 .. m - 1
      BY <2>1
    <3> QED BY <1>6, <3>1
  <2>2. ASSUME NEW i \in 0 .. n - 1, s[i] \in fired PROVE i < m
    <3>1. PICK j \in 0 .. m - 1 : s[i] = c[j]
      BY <2>2
    <3>2. i = j
      BY <1>2, <1>6, <3>1 DEF IsList
    <3> QED BY <3>2
  <2> QED BY <2>1, <2>2
<1>11. \A u \in Timer : nx2[u] = IF u \in fired THEN Nil ELSE nx[u]
  OBVIOUS
<1> HIDE DEF fired, nx2
<1> DEFINE n2 == n - m
           s2 == [i \in 0 .. n2 - 1 |-> s[i + m]]
<1>12. n2 \in 0 .. T /\ n2 \in Int /\ \A i \in 0 .. n2 - 1 : i + m \in 0 .. n - 1
  BY <1>0, <1>5
<1>13. s2 \in [0 .. n2 - 1 -> Timer] /\ \A i \in 0 .. n2 - 1 : s2[i] = s[i + m]
  BY <1>12
<1>14. \A i \in 0 .. n2 : At(s2, n2, i) = At(s, n, i + m)
  BY <1>5, <1>13 DEF At
<1>n. \A i \in 0 .. n2 : i < n2 <=> i \in 0 .. n2 - 1
  BY <1>12
<1>m. \A i \in 0 .. n - 1 : ~(i < m) => i - m \in 0 .. n2 - 1 /\ i - m + m = i
  BY <1>5
<1> HIDE DEF s2
<1>15. c[m] = At(s2, n2, 0)
  <2>1. 0 \in 0 .. n2 /\ 0 + m = m
    BY <1>12
  <2>2. At(s2, n2, 0) = At(s, n, 0 + m)
    BY <1>14, <2>1
  <2> QED BY <1>7, <2>1, <2>2
<1>16. ASSUME NEW i \in 0 .. n2 - 1, NEW j \in 0 .. n2 - 1, s2[i] = s2[j] PROVE i = j
  <2>1. i + m = j + m
    BY <1>2, <1>12, <1>13, <1>16 DEF IsList
  <2> QED BY <2>1, <1>12
<1>17. ASSUME NEW i \in 0 .. n2 - 1 PROVE nx2[s2[i]] = At(s2, n2, i + 1)
  <2>1. /\ i + m \in 0 .. n - 1 /\ ~(i + m < m) /\ s2[i] = s[i + m] /\ s[i + m] \in Timer
        /\ i + 1 \in 0 .. n2 /\ i + 1 + m = i + m + 1
    BY <1>12, <1>13
  <2>2. nx2[s2[i]] = nx[s[i + m]]
    BY <1>10, <1>11, <2>1
  <2>3. nx[s[i + m]] = At(s, n, i + m + 1)
    BY <1>2, <2>1 DEF IsList
  <2>4. At(s2, n2, i + 1) = At(s, n, i + 1 + m)
    BY <1>14, <2>1
  <2> QED BY <2>1, <2>2, <2>3, <2>4
<1>18. ASSUME NEW u \in Timer
       PROVE  (\E i \in 0 .. n2 - 1 : s2[i] = u)
                <=> u \notin fired /\ \E i \in 0 .. n - 1 : s[i] = u
  <2>1. ASSUME NEW i \in 0 .. n2 - 1, s2[i] = u
        PROVE  u \notin fired /\ \E j \in 0 .. n - 1 : s[j] = u
    <3>1. i + m \in 0 .. n - 1 /\ ~(i + m < m) /\ s[i + m] = u
      BY <1>12, <1>13, <2>1
    <3> QED BY <1>10, <3>1
  <2>2. ASSUME u \notin fired, NEW i \in 0 .. n - 1, s[i] = u
        PROVE  \E j \in 0 .. n2 - 1 : s2[j] = u
    <3>1. ~(i < m)
      BY <1>10, <2>2
    <3>2. i - m \in 0 .. n2 - 1 /\ i - m + m = i
      BY <1>m, <3>1
    <3>3. s2[i - m] = s[i - m + m]
      BY <1>13, <3>2
    <3>4. s2[i - m] = u
      BY <2>2, <3>2, <3>3
    <3> QED BY <3>2, <3>4
  <2> QED BY <2>1, <2>2
<1>19. ASSUME NEW u \in Timer, \A i \in 0 .. n2 - 1 : s2[i] # u PROVE nx2[u] = Nil
  <2>1. u \in fired \/ \A i \in 0 .. n - 1 : s[i] # u
    BY <1>18, <1>19
  <2> QED BY <1>2, <1>11, <2>1 DEF IsList
<1>20. IsList(c[m], nx2, s2, n2)
  BY <1>13, <1>15, <1>16, <1>17, <1>19 DEF IsList
<1>21. ordered => Sorted(s2, n2, due)
  <2>1. ASSUME ordered, NEW i \in 0 .. n2 - 1, NEW j \in 0 .. n2 - 1, i < j
        PROVE  due[s2[i]] <= due[s2[j]]
    <3>1. i + m \in 0 .. n - 1 /\ j + m \in 0 .. n - 1 /\ i + m < j + m
      BY <1>12, <2>1
    <3>2. due[s[i + m]] <= due[s[j + m]]
      BY <1>2, <2>1, <3>1 DEF Sorted
    <3> QED BY <1>13, <3>2
  <2> QED BY <2>1 DEF Sorted
<1>22. \A u \in Timer : u \in L \ fired <=> \E i \in 0 .. n2 - 1 : s2[i] = u
  BY <1>2, <1>18
<1> HIDE DEF n2
<1>23. Holds(c[m], nx2, L \ fired, due, ordered)
  BY <1>12, <1>13, <1>20, <1>21, <1>22 DEF Holds
<1> QED BY <1>7, <1>8, <1>9, <1>23 DEF c, fired, nx2, Front, Cleared

\* Following the list meets exactly the timers on it.
LEMMA HoldsListed ==
  ASSUME NEW h \in Pointer, NEW nx \in [Timer -> Pointer], NEW L \in SUBSET Timer,
         NEW due, NEW ordered \in BOOLEAN, Holds(h, nx, L, due, ordered)
  PROVE  LET c == Chain(h, nx) IN
         /\ c[T] = Nil
         /\ {c[k] : k \in 0 .. T + 1} \ {Nil} = L
         /\ \A t \in Timer \ L : nx[t] = Nil
<1> DEFINE c == Chain(h, nx)
<1>0. T \in Nat
  BY TAssumption
<1>1. PICK n \in 0 .. T : \E s \in [0 .. n - 1 -> Timer] :
         /\ IsList(h, nx, s, n)
         /\ \A u \in Timer : u \in L <=> \E i \in 0 .. n - 1 : s[i] = u
  BY DEF Holds
<1>2. PICK s \in [0 .. n - 1 -> Timer] :
         /\ IsList(h, nx, s, n)
         /\ \A u \in Timer : u \in L <=> \E i \in 0 .. n - 1 : s[i] = u
  BY <1>1
<1>3. \A i \in 0 .. T + 1 : c[i] = At(s, n, i)
  BY <1>2, ChainOfList
<1> HIDE DEF c
<1>4. c[T] = Nil
  BY <1>0, <1>3 DEF At
<1>5. ASSUME NEW k \in 0 .. T + 1, c[k] # Nil PROVE c[k] \in L
  <2>1. k \in 0 .. n - 1 /\ c[k] = s[k]
    BY <1>0, <1>3, <1>5 DEF At
  <2> QED BY <1>2, <2>1
<1>6. ASSUME NEW u \in L PROVE u # Nil /\ \E k \in 0 .. T + 1 : c[k] = u
  <2>1. PICK i \in 0 .. n - 1 : s[i] = u
    BY <1>2
  <2>2. i \in 0 .. T + 1 /\ c[i] = u
    BY <1>0, <1>3, <2>1 DEF At
  <2> QED BY <2>2, NilIsNoTimer
<1>7. {c[k] : k \in 0 .. T + 1} \ {Nil} = L
  BY <1>5, <1>6
<1>8. \A t \in Timer \ L : nx[t] = Nil
  BY <1>2 DEF IsList
<1> QED BY <1>4, <1>7, <1>8 DEF c

\* The handler's loop stops behind the last timer that is due.
LEMMA ExpiredAreDue ==
  ASSUME NEW h \in Pointer, NEW nx \in [Timer -> Pointer], NEW L \in SUBSET Timer,
         timeout \in [Timer -> Int], Holds(h, nx, L, timeout, TRUE), NEW now \in Int
  PROVE  LET c == Chain(h, nx)
             e == Expired(c, now)
         IN  /\ e \in 0 .. T
             /\ \A i \in 0 .. e - 1 : c[i] # Nil /\ ~(timeout[c[i]] > now)
             /\ \A t \in L : ~(timeout[t] > now) => t \in {c[i] : i \in 0 .. e - 1}
<1> DEFINE c == Chain(h, nx)
           e == Expired(c, now)
<1>0. T \in Nat
  BY TAssumption
<1>1. PICK n \in 0 .. T : \E s \in [0 .. n - 1 -> Timer] :
         /\ IsList(h, nx, s, n)
         /\ \A u \in Timer : u \in L <=> \E i \in 0 .. n - 1 : s[i] = u
         /\ Sorted(s, n, timeout)
  BY DEF Holds
<1>2. PICK s \in [0 .. n - 1 -> Timer] :
         /\ IsList(h, nx, s, n)
         /\ \A u \in Timer : u \in L <=> \E i \in 0 .. n - 1 : s[i] = u
         /\ Sorted(s, n, timeout)
  BY <1>1
<1>3. \A i \in 0 .. T + 1 : c[i] = At(s, n, i)
  BY <1>2, ChainOfList
<1> HIDE DEF c
<1>4. n \in 0 .. T + 1 /\ c[n] = Nil
  BY <1>0, <1>3 DEF At
<1>5. /\ e \in 0 .. n
      /\ c[e] = Nil \/ timeout[c[e]] > now
      /\ \A i \in 0 .. e - 1 : c[i] # Nil /\ ~(timeout[c[i]] > now)
  BY <1>4, ExpiredStops
<1> HIDE DEF e
<1>6. ASSUME NEW t \in L, ~(timeout[t] > now)
      PROVE  t \in {c[i] : i \in 0 .. e - 1}
  <2>1. PICK i \in 0 .. n - 1 : s[i] = t
    BY <1>2
  <2>2. c[i] = t
    BY <1>0, <1>3, <2>1 DEF At
  <2>3. ASSUME ~(i < e) PROVE FALSE
    <3>1. e \in 0 .. n - 1 /\ e <= i
      BY <1>5, <2>3
    <3>2. c[e] = s[e] /\ s[e] \in Timer /\ s[e] # Nil
      BY <1>0, <1>3, <3>1, NilIsNoTimer DEF At
    <3>3. timeout[s[e]] > now /\ timeout[s[e]] \in Int /\ timeout[t] \in Int
      BY <1>5, <3>2
    <3>4. timeout[s[e]] <= timeout[t]
      <4>1. CASE e = i
        BY <2>1, <3>3, <4>1
      <4>2. CASE e # i
        <5>1. e < i
          BY <3>1, <4>2
        <5> QED BY <1>2, <2>1, <3>1, <5>1 DEF Sorted
      <4> QED BY <4>1, <4>2
    <3> QED BY <1>6, <3>3, <3>4
  <2>4. i \in 0 .. e - 1
    BY <1>5, <2>3
  <2> QED BY <2>2, <2>4
<1>7. e \in 0 .. T
  BY <1>0, <1>5
<1> QED BY <1>5, <1>6, <1>7 DEF c, e

-----------------------------------------------------------------------------
(* The inductive invariant.                                                *)

LEMMA SwitchIsTimer == Switch \in Timer
BY TAssumption DEF Switch, Timer

\* A deadline computed from the tick: it fits, and counts from the tick
\* unless it wraps.
LEMMA Deadline ==
  ASSUME NEW d \in Nat, NEW now \in 0 .. W - 1
  PROVE  /\ (d + now) % W \in 0 .. W - 1
         /\ ~(d + now >= W) =>
              d = IF (d + now) % W > now THEN ((d + now) % W) - now ELSE 0
<1>1. W \in Nat \ {0}
  BY WAssumption
<1>2. d + now \in Nat
  BY <1>1
<1>3. (d + now) % W \in 0 .. W - 1
  BY <1>1, <1>2
<1>4. d + now < W => (d + now) % W = d + now
  BY <1>1, <1>2
<1>5. now \in Int
  OBVIOUS
<1>6. ASSUME ~(d + now >= W)
      PROVE  d = IF (d + now) % W > now THEN ((d + now) % W) - now ELSE 0
  <2>1. (d + now) % W = d + now
    BY <1>1, <1>2, <1>4, <1>6
  <2> QED BY <1>5, <2>1
<1> QED BY <1>3, <1>6

LEMMA InitKept == Init => Kept
<1> SUFFICES ASSUME Init PROVE Kept
  OBVIOUS
<1>0. T \in Nat /\ 0 \in 0 .. W - 1 /\ T # 0
  BY TAssumption, WAssumption, DelayAssumption
<1>1. TypeOK
  BY <1>0, SwitchIsTimer DEF Init, TypeOK, Pointer, Flags, Idle, In, Calls
<1>2. Armed = {}
  BY DEF Init, Armed
<1>c. \A p \in Task : call[p].at = "idle"
  BY DEF Init, Idle, In
<1>d. CallsApart
  BY <1>c DEF CallsApart
<1> DEFINE s == [i \in 0 .. 0 - 1 |-> Switch]
<1>3. s \in [0 .. 0 - 1 -> Timer]
  BY SwitchIsTimer
<1>4. IsList(head, next, s, 0) /\ Sorted(s, 0, timeout)
  BY <1>3 DEF Init, IsList, Sorted, At
<1>5. \A t \in Timer : t \in Armed <=> \E i \in 0 .. 0 - 1 : s[i] = t
  BY <1>2
<1> HIDE DEF s
<1>6. Holds(head, next, Armed, timeout, ~wrapped)
  <2>1. PICK n \in 0 .. T : n = 0
    BY <1>0
  <2>2. /\ s \in [0 .. n - 1 -> Timer] /\ IsList(head, next, s, n) /\ Sorted(s, n, timeout)
        /\ \A t \in Timer : t \in Armed <=> \E i \in 0 .. n - 1 : s[i] = t
    BY <1>3, <1>4, <1>5, <2>1
  <2> QED BY <2>2 DEF Holds
<1>7. /\ ~hung /\ flags[Switch] # "alloc" /\ \A t \in Timer : flags[t] = "free"
      /\ \A p \in Task : call[p] = Idle
  BY SwitchIsTimer DEF Init
<1> QED BY <1>1, <1>d, <1>6, <1>7 DEF Kept, LeftCounts

\* The steps of a call that leave the timers alone.
LEMMA TestKeeps ==
  ASSUME Kept, ~misused', NEW p \in Task,
         AllocLoad(p) \/ \E t \in Timer : AllocTest(p, t)
  PROVE  Kept'
<1>1. UNCHANGED <<tick, timers, hung, history>>
  BY DEF AllocTest, AllocLoad
<1>2. /\ UNCHANGED <<tick, head, next, timeout, flags, hung, left, wrapped, lost>>
      /\ misused' \in BOOLEAN
  <2>1. UNCHANGED <<tick, head, next, timeout, flags, hung, left, wrapped, lost>>
    BY <1>1 DEF timers, history
  <2>2. ASSUME AllocLoad(p) PROVE misused' \in BOOLEAN
    BY <2>2 DEF AllocLoad
  <2>3. ASSUME NEW t \in Timer, AllocTest(p, t) PROVE misused' \in BOOLEAN
    BY <2>3 DEF AllocTest, Kept, TypeOK
  <2> QED BY <2>1, <2>2, <2>3
<1>3. \E c \in Calls :
      /\ call' = [call EXCEPT ![p] = c]
      /\ c.at # "insert" /\ call[p].at # "insert"
      /\ c.at \in {"load", "store"} => c.timer # Switch
      /\ c.at = "store" => c.flags = "free"
      /\ flags[Switch] # "free"
  <2>1. CASE AllocLoad(p)
    <3> DEFINE t == call[p].timer
               c == [at |-> "store", timer |-> t, flags |-> flags[t]]
    <3>1. call' = [call EXCEPT ![p] = c] /\ call[p].at = "load" /\ flags[t] = "free"
      BY <2>1 DEF AllocLoad
    <3>2. t \in Timer /\ flags[t] \in Flags /\ t # Switch /\ flags[Switch] # "free"
      BY <3>1 DEF Kept, TypeOK, CallsApart, Calls, Idle, In
    <3>3. c \in Calls /\ c.at = "store" /\ c.timer # Switch /\ c.flags = "free"
      BY <3>1, <3>2 DEF Calls
    <3> HIDE DEF c
    <3> QED BY <3>1, <3>2, <3>3
  <2>2. ASSUME NEW t \in Timer, AllocTest(p, t)
        PROVE  \E c \in Calls :
                 /\ call' = [call EXCEPT ![p] = c]
                 /\ c.at # "insert" /\ call[p].at # "insert"
                 /\ c.at \in {"load", "store"} => c.timer # Switch
                 /\ c.at = "store" => c.flags = "free"
                 /\ flags[Switch] # "free"
    <3> DEFINE c == IF flags[t] = "free" THEN In("load", t)
                    ELSE IF t + 1 < T THEN In("test", t + 1) ELSE Idle
    <3>1. call' = [call EXCEPT ![p] = c] /\ call[p].at # "insert" /\ flags[Switch] # "free"
      BY <2>2 DEF AllocTest, Idle, In, Booted
    <3>2. "free" \in Flags /\ (t + 1 < T => t + 1 \in Timer) /\ T \in Nat
      BY TAssumption DEF Flags, Timer
    <3>3. c \in Calls
      BY <3>2, SwitchIsTimer DEF In, Idle, Calls
    <3>4. /\ c.at # "insert" /\ c.at # "store"
          /\ c.at = "load" => c.timer # Switch
      BY <3>1 DEF In, Idle
    <3> HIDE DEF c
    <3> QED BY <3>1, <3>3, <3>4
  <2> QED BY <2>1, <2>2
<1>4. PICK c \in Calls :
      /\ call' = [call EXCEPT ![p] = c]
      /\ c.at # "insert" /\ call[p].at # "insert"
      /\ c.at \in {"load", "store"} => c.timer # Switch
      /\ c.at = "store" => c.flags = "free"
      /\ flags[Switch] # "free"
  BY <1>3
<1>5. \A q \in Task : call'[q] = IF q = p THEN c ELSE call[q]
  BY <1>4 DEF Kept, TypeOK
<1>6. CallsApart' /\ Arming' = Arming
  <2>1. CallsApart'
    BY <1>2, <1>4, <1>5 DEF Kept, CallsApart
  <2>2. \A q \in Task : call'[q].at = "insert" <=> call[q].at = "insert"
    BY <1>4, <1>5
  <2>3. \A q \in Task : call[q].at = "insert" => call'[q].timer = call[q].timer
    BY <1>4, <1>5
  <2> QED BY <2>1, <2>2, <2>3 DEF Arming
<1>7. Armed' = Armed
  BY <1>2, <1>6 DEF Armed
<1>8. TypeOK'
  BY <1>2, <1>4 DEF Kept, TypeOK
<1>9. Holds(head, next, Armed, timeout, ~wrapped)'
  BY <1>2, <1>7 DEF Kept
<1>10. LeftCounts' = LeftCounts
  BY <1>2 DEF LeftCounts
<1> QED BY <1>2, <1>4, <1>6, <1>8, <1>9, <1>10 DEF Kept

\* The steps that take a timer that is not armed, or give it back.
LEMMA FlagsKeep ==
  ASSUME Kept, ~misused', NEW p \in Task,
         AllocStore(p) \/ \E t \in Timer : TimerFree(p, t)
  PROVE  Kept'
<1>1. PICK t \in Timer, v \in {"free", "alloc"} :
        /\ t # Switch /\ flags[t] # "using" /\ call[p].at # "insert"
        /\ flags' = [flags EXCEPT ![t] = v]
        /\ call' = [call EXCEPT ![p] = Idle]
        /\ UNCHANGED <<tick, head, next, timeout, hung, left, wrapped, lost>>
        /\ misused' \in BOOLEAN
        /\ flags[Switch] = "free" => v = "free"
  <2>1. CASE AllocStore(p)
    <3>1. /\ call[p].timer \in Timer /\ call[p].timer # Switch /\ call[p].flags = "free"
          /\ flags[call[p].timer] = "free"
      BY <2>1 DEF AllocStore, Kept, TypeOK, CallsApart, Calls
    <3>2. flags[Switch] # "free" /\ call[p].at # "insert"
      BY <2>1 DEF AllocStore, Kept, Idle, In
    <3> QED BY <2>1, <3>1, <3>2 DEF AllocStore, WithAlloc, history
  <2>2. ASSUME NEW t \in Timer, TimerFree(p, t)
        PROVE  /\ t # Switch /\ flags[t] # "using" /\ call[p].at # "insert"
               /\ flags' = [flags EXCEPT ![t] = "free"]
               /\ call' = [call EXCEPT ![p] = Idle]
               /\ UNCHANGED <<tick, head, next, timeout, hung, left, wrapped, lost>>
               /\ misused' \in BOOLEAN
    <3>1. call = [call EXCEPT ![p] = Idle]
      BY <2>2 DEF TimerFree, Kept, TypeOK
    <3>2. call[p].at = "idle" /\ t # Switch /\ flags[t] # "using"
      <4>1. Idle.at = "idle"
        BY DEF Idle, In
      <4>2. call[p].at = "idle" /\ t # Switch
        BY <2>2, <4>1 DEF TimerFree
      <4>3. misused' <=> misused \/ flags[t] = "using"
        BY <2>2 DEF TimerFree
      <4> QED BY <4>2, <4>3
    <3> QED BY <2>2, <3>1, <3>2 DEF TimerFree, history
  <2> QED BY <2>1, <2>2
<1>2. /\ flags' \in [Timer -> Flags] /\ call' \in [Task -> Calls] /\ TypeOK'
      /\ \A u \in Timer : flags'[u] = IF u = t THEN v ELSE flags[u]
      /\ \A q \in Task : call'[q] = IF q = p THEN Idle ELSE call[q]
  BY <1>1, SwitchIsTimer DEF Kept, TypeOK, Idle, In, Calls, Flags
<1>3. CallsApart'
  BY <1>1, <1>2 DEF Kept, CallsApart, Idle, In, TypeOK, Calls
<1>4. Arming' = Arming
  <2>1. \A q \in Task : call'[q].at = "insert" <=> call[q].at = "insert"
    BY <1>1, <1>2 DEF Idle, In
  <2>2. \A q \in Task : call[q].at = "insert" => call'[q].timer = call[q].timer
    BY <1>1, <1>2
  <2> QED BY <2>1, <2>2 DEF Arming
<1>5. Armed' = Armed
  BY <1>1, <1>2, <1>4 DEF Armed
<1>6. Holds(head, next, Armed, timeout, ~wrapped)'
  BY <1>1, <1>5 DEF Kept
<1>7. flags[Switch] = "free" =>
        (\A u \in Timer : flags'[u] = "free") /\ \A q \in Task : call'[q] = Idle
  BY <1>1, <1>2 DEF Kept
<1>8. ~wrapped' => LeftCounts'
  BY <1>1, <1>2 DEF Kept, LeftCounts
<1> QED BY <1>1, <1>2, <1>3, <1>6, <1>7, <1>8, SwitchIsTimer DEF Kept

\* k_set_timer_time in front of its cli().
LEMMA SetStoreKeeps ==
  ASSUME Kept, ~misused', NEW p \in Task, NEW t \in Timer, NEW d \in Delays, SetStore(p, t, d)
  PROVE  Kept'
<1>1. /\ d \in Nat /\ tick \in 0 .. W - 1
      /\ (d + tick) % W \in 0 .. W - 1
      /\ ~(d + tick >= W) => d = IF (d + tick) % W > tick THEN ((d + tick) % W) - tick ELSE 0
  BY DelayAssumption, Deadline DEF Kept, TypeOK
<1> DEFINE c == In("insert", t)
<1>2. c \in Calls /\ c.at = "insert" /\ c.timer = t /\ call[p].at = "idle"
  BY DEF In, Calls, Flags, SetStore, Idle
<1>3. /\ UNCHANGED <<head, next, tick, hung>> /\ t # Switch /\ call' = [call EXCEPT ![p] = c]
      /\ flags[t] # "using" /\ flags' = [flags EXCEPT ![t] = "using"] /\ flags[Switch] # "free"
      /\ timeout' = [timeout EXCEPT ![t] = (d + tick) % W] /\ left' = [left EXCEPT ![t] = d]
      /\ wrapped' = (wrapped \/ d + tick >= W) /\ misused' \in BOOLEAN /\ lost' = lost
  BY DEF SetStore, Booted
<1> HIDE DEF c
<1>4. /\ \A u \in Timer : flags'[u] = IF u = t THEN "using" ELSE flags[u]
      /\ \A u \in Timer : timeout'[u] = IF u = t THEN (d + tick) % W ELSE timeout[u]
      /\ \A u \in Timer : left'[u] = IF u = t THEN d ELSE left[u]
      /\ \A q \in Task : call'[q] = IF q = p THEN c ELSE call[q]
  BY <1>3 DEF Kept, TypeOK
<1>5. TypeOK'
  BY <1>1, <1>2, <1>3 DEF Kept, TypeOK, Flags
<1>6. CallsApart'
  BY <1>2, <1>3, <1>4 DEF Kept, CallsApart, TypeOK, Calls
<1>7. t \in Arming' /\ \A u \in Timer : u # t => (u \in Arming' <=> u \in Arming)
  <2>1. t \in Arming'
    BY <1>2, <1>4 DEF Arming
  <2>2. ASSUME NEW u \in Timer, u # t, u \in Arming' PROVE u \in Arming
    <3>1. PICK q \in Task : call'[q].at = "insert" /\ call'[q].timer = u
      BY <2>2 DEF Arming
    <3>2. q # p /\ call[q].at = "insert" /\ call[q].timer = u
      BY <1>2, <1>4, <2>2, <3>1
    <3> QED BY <3>2 DEF Arming
  <2>3. ASSUME NEW u \in Timer, u # t, u \in Arming PROVE u \in Arming'
    <3>1. PICK q \in Task : call[q].at = "insert" /\ call[q].timer = u
      BY <2>3 DEF Arming
    <3>2. q # p /\ call'[q] = call[q]
      BY <1>2, <1>4, <3>1
    <3>3. q \in {r \in Task : call'[r].at = "insert"} /\ call'[q].timer = u
      BY <3>1, <3>2
    <3> QED BY <3>3 DEF Arming
  <2> QED BY <2>1, <2>2, <2>3
<1>8. Armed' = Armed /\ t \notin Armed
  BY <1>3, <1>4, <1>7 DEF Armed
<1>9. Holds(head, next, Armed, timeout, ~wrapped)'
  <2>1. \A u \in Armed : timeout'[u] = timeout[u]
    BY <1>4, <1>8 DEF Armed
  <2>2. /\ (~wrapped) \in BOOLEAN /\ (~wrapped') \in BOOLEAN /\ (~wrapped' => ~wrapped)
        /\ Holds(head, next, Armed, timeout, ~wrapped)
    BY <1>3 DEF Kept
  <2>3. Holds(head, next, Armed, timeout', ~wrapped')
    BY <2>1, <2>2, HoldsFor
  <2> QED BY <1>3, <1>8, <2>3
<1>10. ~wrapped' => LeftCounts'
  <2>1. ASSUME ~wrapped', NEW u \in Timer, flags'[u] = "using"
        PROVE  left'[u] = IF timeout'[u] > tick' THEN timeout'[u] - tick' ELSE 0
    <3>1. CASE u = t
      BY <1>1, <1>3, <1>4, <2>1, <3>1
    <3>2. CASE u # t
      BY <1>3, <1>4, <2>1, <3>2 DEF Kept, LeftCounts
    <3> QED BY <3>1, <3>2
  <2> QED BY <2>1 DEF LeftCounts
<1>11. flags'[Switch] = flags[Switch] /\ \A u \in Timer : flags'[u] # "both"
  BY <1>3, <1>4, SwitchIsTimer DEF Kept
<1> QED BY <1>3, <1>5, <1>6, <1>9, <1>10, <1>11 DEF Kept

\* The boot arms the first timer.
LEMMA StartKeeps ==
  ASSUME Kept, ~misused', StartSwitchTimer
  PROVE  Kept'
<1>1. /\ Quantum \in Nat /\ tick \in 0 .. W - 1
      /\ (Quantum + tick) % W \in 0 .. W - 1
      /\ ~(Quantum + tick >= W) =>
            Quantum = IF (Quantum + tick) % W > tick THEN ((Quantum + tick) % W) - tick ELSE 0
  BY DelayAssumption, Deadline DEF Kept, TypeOK
<1>2. (\A u \in Timer : flags[u] = "free") /\ \A p \in Task : call[p] = Idle
  BY DEF Kept, StartSwitchTimer, Booted
<1>3. Armed = {} /\ \A p \in Task : call[p].at = "idle"
  BY <1>2 DEF Armed, Idle, In
<1>4. /\ UNCHANGED <<tick, call, misused, lost>>
      /\ flags' \in [Timer -> Flags] /\ flags'[Switch] = "using"
      /\ \A u \in Timer : u # Switch => flags'[u] = "free"
      /\ timeout' \in [Timer -> 0 .. W - 1] /\ timeout'[Switch] = (Quantum + tick) % W
      /\ left' \in [Timer -> Nat] /\ left'[Switch] = Quantum
      /\ wrapped' = (wrapped \/ Quantum + tick >= W) /\ wrapped' \in BOOLEAN /\ wrapped \in BOOLEAN
  BY <1>1, <1>2, SwitchIsTimer DEF Kept, TypeOK, StartSwitchTimer, Flags
<1>5. Arming' = {} /\ Armed' = {Switch}
  BY <1>3, <1>4, SwitchIsTimer DEF Armed, Arming
<1>6. Holds(head, next, {}, timeout', ~wrapped')
  <2>1. /\ (~wrapped) \in BOOLEAN /\ (~wrapped') \in BOOLEAN /\ (~wrapped' => ~wrapped)
        /\ Holds(head, next, {}, timeout, ~wrapped)
    BY <1>3, <1>4 DEF Kept
  <2> QED BY <2>1, HoldsFor
<1>7. timeout' \in [Timer -> Int] /\ head \in Pointer /\ next \in [Timer -> Pointer]
  BY <1>4 DEF Kept, TypeOK
<1>8. /\ head' \in Pointer /\ next' \in [Timer -> Pointer] /\ hung' = FALSE
      /\ Holds(head', next', {} \cup {Switch}, timeout', ~wrapped')
  <2>1. Link(head, next, timeout', Switch)
    BY DEF StartSwitchTimer
  <2>2. {} \in SUBSET Timer /\ Switch \in Timer \ {} /\ (~wrapped') \in BOOLEAN
    BY SwitchIsTimer
  <2> QED BY <1>6, <1>7, <2>1, <2>2, HoldsLinked
<1>9. Holds(head, next, Armed, timeout, ~wrapped)'
  BY <1>5, <1>8
<1>10. TypeOK'
  BY <1>4, <1>8 DEF Kept, TypeOK
<1>11. ~wrapped' => LeftCounts'
  BY <1>1, <1>4 DEF LeftCounts
<1>12. CallsApart'
  BY <1>3, <1>4 DEF CallsApart
<1> QED BY <1>4, <1>8, <1>9, <1>10, <1>11, <1>12, SwitchIsTimer DEF Kept

\* From cli() on, k_set_timer_time links the timer in.
LEMMA InsertKeeps ==
  ASSUME Kept, ~misused', NEW p \in Task, SetInsert(p)
  PROVE  Kept'
<1> DEFINE t == call[p].timer
<1>1. /\ UNCHANGED <<tick, timeout, flags, misused, left, wrapped, lost>>
      /\ call' = [call EXCEPT ![p] = Idle]
      /\ call[p].at = "insert" /\ t \in Timer /\ t # Switch /\ flags[t] = "using"
      /\ Idle \in Calls /\ Idle.at = "idle" /\ Link(head, next, timeout, t)
  BY SwitchIsTimer DEF Kept, TypeOK, CallsApart, Calls, SetInsert, history, Idle, In, Flags
<1>2. \A q \in Task : call'[q] = IF q = p THEN Idle ELSE call[q]
  BY <1>1 DEF Kept, TypeOK
<1>3. Arming' = Arming \ {t} /\ t \in Arming
  <2>1. \A q \in Task : call'[q].at = "insert" =>
           q # p /\ call[q].at = "insert" /\ call'[q].timer = call[q].timer
    BY <1>1, <1>2
  <2>2. \A q \in Task : call[q].at = "insert" /\ call[q].timer # t =>
           call'[q].at = "insert" /\ call'[q].timer = call[q].timer
    BY <1>2
  <2>3. \A q \in Task : call[q].at = "insert" /\ call[q].timer = t => q = p
    BY <1>1 DEF Kept, CallsApart
  <2> HIDE DEF t
  <2>4. ASSUME NEW u \in Arming' PROVE u \in Arming /\ u # t
    <3>1. PICK q \in Task : call'[q].at = "insert" /\ call'[q].timer = u
      BY <2>4 DEF Arming
    <3> QED BY <2>1, <2>3, <3>1 DEF Arming
  <2>5. ASSUME NEW u \in Arming, u # t PROVE u \in Arming'
    <3>1. PICK q \in Task : call[q].at = "insert" /\ call[q].timer = u
      BY <2>5 DEF Arming
    <3>2. q \in {r \in Task : call'[r].at = "insert"} /\ call'[q].timer = u
      BY <2>2, <2>5, <3>1
    <3> QED BY <3>2 DEF Arming
  <2>6. t \in Arming
    BY <1>1 DEF t, Arming
  <2> QED BY <2>4, <2>5, <2>6
<1>4. Armed' = Armed \cup {t} /\ t \in Timer \ Armed /\ Armed \in SUBSET Timer
  BY <1>1, <1>3 DEF Armed
<1>5. /\ head' \in Pointer /\ next' \in [Timer -> Pointer] /\ hung' = FALSE
      /\ Holds(head', next', Armed \cup {t}, timeout, ~wrapped)
  <2>1. /\ timeout \in [Timer -> Int] /\ head \in Pointer /\ next \in [Timer -> Pointer]
        /\ (~wrapped) \in BOOLEAN /\ Holds(head, next, Armed, timeout, ~wrapped)
    BY DEF Kept, TypeOK
  <2> HIDE DEF t
  <2> QED BY <1>1, <1>4, <2>1, HoldsLinked
<1>6. Holds(head, next, Armed, timeout, ~wrapped)'
  BY <1>1, <1>4, <1>5
<1>7. TypeOK'
  BY <1>1, <1>5 DEF Kept, TypeOK
<1>8. CallsApart'
  BY <1>1, <1>2 DEF Kept, CallsApart
<1>9. \A q \in Task : flags[Switch] = "free" => call'[q] = Idle
  BY <1>2 DEF Kept
<1> QED BY <1>1, <1>5, <1>6, <1>7, <1>8, <1>9 DEF Kept, LeftCounts

\* The tick counts up by one, or wraps to 0.
LEMMA NextTick ==
  ASSUME tick \in 0 .. W - 1
  PROVE  /\ (tick + 1) % W \in 0 .. W - 1
         /\ (tick + 1) % W # 0 => (tick + 1) % W = tick + 1
<1>1. W \in Nat \ {0} /\ tick + 1 \in Nat /\ tick + 1 <= W
  BY WAssumption
<1>2. (tick + 1) % W \in 0 .. W - 1
  BY <1>1
<1>3. CASE tick + 1 < W
  <2>1. (tick + 1) % W = tick + 1
    BY <1>1, <1>3
  <2> QED BY <1>2, <2>1
<1>4. CASE tick + 1 = W
  <2>1. (tick + 1) % W = 0
    BY <1>1, <1>4
  <2> QED BY <1>2, <2>1
<1> QED BY <1>1, <1>3, <1>4

\* What the handler takes off is the front of the list.
LEMMA TickPops ==
  ASSUME Kept, NEW m \in Popped(Unlinked(Chain(head, next)),
                                Expired(Unlinked(Chain(head, next)), (tick + 1) % W))
  PROVE  LET c     == Unlinked(Chain(head, next))
             e     == Expired(c, (tick + 1) % W)
             fired == {c[i] : i \in 0 .. m - 1}
             nx2   == [t \in Timer |-> IF t \in fired THEN Nil ELSE next[t]]
         IN  /\ m \in 0 .. T + 1 /\ e \in 0 .. T + 1 /\ m <= e
             /\ fired \subseteq Armed
             /\ \A t \in fired : ~(timeout[t] > (tick + 1) % W)
             /\ c[m] \in Pointer /\ nx2 \in [Timer -> Pointer]
             /\ Holds(c[m], nx2, Armed \ fired, timeout, ~wrapped)
<1> DEFINE c == Unlinked(Chain(head, next))
           now == (tick + 1) % W
           e == Expired(c, now)
           fired == {c[i] : i \in 0 .. m - 1}
<1>0. T \in 0 .. T + 1 /\ T \in Nat
  BY TAssumption
<1>1. /\ head \in Pointer /\ next \in [Timer -> Pointer] /\ Armed \in SUBSET Timer
      /\ (~wrapped) \in BOOLEAN /\ Holds(head, next, Armed, timeout, ~wrapped)
  BY DEF Kept, TypeOK, Armed
<1>u. c = Chain(head, next)
  BY <1>1, HoldsUnlinked
<1>2. c[T] = Nil
  BY <1>1, <1>u, HoldsListed
<1>3. /\ e \in 0 .. T
      /\ \A i \in 0 .. e - 1 : c[i] # Nil /\ ~(timeout[c[i]] > now)
  BY <1>0, <1>2, ExpiredStops
<1>4. m \in 0 .. T + 1 /\ m <= e
  BY <1>0, <1>3 DEF Popped
<1>5. \A i \in 0 .. m - 1 : i \in 0 .. e - 1
  BY <1>3, <1>4
<1>6. \A i \in 0 .. m - 1 : c[i] # Nil /\ ~(timeout[c[i]] > now)
  BY <1>3, <1>5
<1>7. \A t \in fired : ~(timeout[t] > now)
  BY <1>6
<1>8. e \in 0 .. T + 1
  BY <1>0, <1>3
<1> DEFINE nx2 == [t \in Timer |-> IF t \in fired THEN Nil ELSE next[t]]
<1> HIDE DEF e, now
<1>9. /\ fired \subseteq Armed
      /\ c[m] \in Pointer /\ nx2 \in [Timer -> Pointer]
      /\ Holds(c[m], nx2, Armed \ fired, timeout, ~wrapped)
  <2>1. \A i \in 0 .. m - 1 : Chain(head, next)[i] # Nil
    BY <1>6, <1>u
  <2>2. /\ Front(c, m) \subseteq Armed
        /\ c[m] \in Pointer /\ Cleared(next, Front(c, m)) \in [Timer -> Pointer]
        /\ Holds(c[m], Cleared(next, Front(c, m)), Armed \ Front(c, m), timeout, ~wrapped)
    BY <1>1, <1>4, <1>u, <2>1, HoldsPopped
  <2> QED BY <2>2 DEF Front, Cleared
<1> QED BY <1>4, <1>7, <1>8, <1>9 DEF e, now

LEMMA TickKeeps ==
  ASSUME Kept, ~misused', Tick
  PROVE  Kept'
<1> DEFINE c == Unlinked(Chain(head, next))
           now == (tick + 1) % W
           e == Expired(c, now)
           Clear(fired) == [t \in Timer |-> IF t \in fired THEN Nil ELSE next[t]]
<1>1. PICK m \in Popped(c, e) : LET fired == {c[i] : i \in 0 .. m - 1} IN
        /\ SwitchRearms(c[m], Clear(fired), now, fired)
        /\ left' = [t \in Timer |-> IF t = Switch /\ t \in fired THEN Quantum
                                    ELSE IF left[t] > 0 THEN left[t] - 1 ELSE 0]
        /\ lost' \in IF m = e THEN {FALSE} \cup {m > 0 /\ c[m - 1] # Switch} ELSE {TRUE}
  BY DEF Tick
<1>2. PICK fired : fired = {c[i] : i \in 0 .. m - 1}
  OBVIOUS
<1>3. PICK h2, nx2 : h2 = c[m] /\ nx2 = Clear(fired)
  OBVIOUS
<1>4. /\ fired \subseteq Armed
      /\ h2 \in Pointer /\ nx2 \in [Timer -> Pointer]
      /\ Holds(h2, nx2, Armed \ fired, timeout, ~wrapped)
  BY <1>2, <1>3, TickPops
<1>5. /\ SwitchRearms(h2, nx2, now, fired)
      /\ left' = [t \in Timer |-> IF t = Switch /\ t \in fired THEN Quantum
                                  ELSE IF left[t] > 0 THEN left[t] - 1 ELSE 0]
      /\ lost' \in BOOLEAN /\ UNCHANGED <<call, misused>> /\ tick' = now /\ flags[Switch] # "free"
  BY <1>1, <1>2, <1>3 DEF Tick, Booted
<1> HIDE DEF c, e, Clear
<1>6. /\ tick \in 0 .. W - 1 /\ now \in 0 .. W - 1 /\ (now # 0 => now = tick + 1)
      /\ Quantum \in Nat
      /\ (Quantum + now) % W \in 0 .. W - 1
      /\ ~(Quantum + now >= W) =>
            Quantum = IF (Quantum + now) % W > now THEN ((Quantum + now) % W) - now ELSE 0
  BY NextTick, DelayAssumption, Deadline DEF Kept, TypeOK
<1> HIDE DEF now
<1>7. /\ flags' \in [Timer -> Flags] /\ flags \in [Timer -> Flags]
      /\ flags' = [t \in Timer |-> IF t \in fired \ {Switch} THEN "alloc" ELSE flags[t]]
      /\ left' \in [Timer -> Nat] /\ left \in [Timer -> Nat]
      /\ timeout \in [Timer -> 0 .. W - 1]
      /\ wrapped \in BOOLEAN /\ lost' \in BOOLEAN
      /\ flags'[Switch] = flags[Switch] /\ flags[Switch] = "using"
  BY <1>5, <1>6, SwitchIsTimer DEF Kept, TypeOK, SwitchRearms, Flags, Booted
<1>8. Arming' = Arming /\ Armed' = (Armed \ fired) \cup (fired \cap {Switch})
  <2>1. Arming' = Arming
    BY <1>5 DEF Arming
  <2> QED BY <1>4, <1>5, <1>7, <2>1, SwitchIsTimer DEF Armed
<1>9. ASSUME NEW p \in Task, call[p].at = "insert" PROVE call[p].timer \notin fired
  <2>1. call[p].timer \in Arming
    BY <1>9 DEF Arming
  <2> QED BY <1>4, <2>1 DEF Armed
<1>10. CallsApart'
  BY <1>5, <1>7, <1>9 DEF Kept, CallsApart, TypeOK, Calls
<1>11. /\ timeout' \in [Timer -> 0 .. W - 1] /\ wrapped' \in BOOLEAN
       /\ ~wrapped' => ~wrapped /\ now # 0
       /\ \A t \in Timer : timeout'[t] = IF t = Switch /\ t \in fired
                                      THEN (Quantum + now) % W ELSE timeout[t]
       /\ Switch \in fired /\ ~wrapped' => ~(Quantum + now >= W)
  BY <1>5, <1>6, <1>7 DEF SwitchRearms
<1>12. head' \in Pointer /\ next' \in [Timer -> Pointer] /\ hung' = FALSE /\ Holds(head', next', Armed', timeout', ~wrapped')
  <2>1. /\ timeout' \in [Timer -> Int] /\ (~wrapped') \in BOOLEAN /\ (~wrapped) \in BOOLEAN
        /\ Armed \ fired \in SUBSET Timer
    BY <1>11 DEF Armed
  <2>2. \A t \in Armed \ fired : timeout'[t] = timeout[t]
    BY <1>11 DEF Armed
  <2>3. Holds(h2, nx2, Armed \ fired, timeout', ~wrapped')
    BY <1>4, <1>7, <1>11, <2>1, <2>2, HoldsFor
  <2>4. CASE Switch \in fired
    <3>1. Link(h2, nx2, timeout', Switch)
      BY <1>5, <2>4 DEF SwitchRearms
    <3>2. Switch \in Timer \ (Armed \ fired) /\ Armed' = (Armed \ fired) \cup {Switch}
      BY <1>8, <2>4, SwitchIsTimer
    <3> QED BY <1>4, <2>1, <2>3, <3>1, <3>2, HoldsLinked
  <2>5. CASE Switch \notin fired
    <3>1. head' = h2 /\ next' = nx2 /\ hung' = FALSE
      BY <1>5, <2>5 DEF SwitchRearms
    <3>2. Armed' = Armed \ fired
      BY <1>8, <2>5
    <3> QED BY <1>4, <2>3, <3>1, <3>2
  <2> QED BY <2>4, <2>5
<1>13. TypeOK'
  BY <1>5, <1>6, <1>7, <1>11, <1>12 DEF Kept, TypeOK
<1>14. ASSUME ~wrapped', NEW u \in Timer, flags'[u] = "using"
       PROVE  left'[u] = IF timeout'[u] > tick' THEN timeout'[u] - tick' ELSE 0
  <2>1. CASE u = Switch /\ u \in fired
    BY <1>5, <1>6, <1>11, <1>14, <2>1
  <2>2. CASE ~(u = Switch /\ u \in fired)
    <3>1. /\ flags[u] = "using" /\ timeout'[u] = timeout[u] /\ timeout[u] \in Int
          /\ left[u] \in Nat /\ left'[u] = IF left[u] > 0 THEN left[u] - 1 ELSE 0
          /\ tick' = tick + 1
      BY <1>5, <1>6, <1>7, <1>11, <1>14, <2>2
    <3>2. left[u] = IF timeout[u] > tick THEN timeout[u] - tick ELSE 0
      BY <1>11, <1>14, <3>1 DEF Kept, LeftCounts
    <3> QED BY <1>6, <3>1, <3>2
  <2> QED BY <2>1, <2>2
<1>15. \A t \in Timer : flags'[t] # "both"
  BY <1>7 DEF Kept
<1> QED BY <1>5, <1>7, <1>10, <1>12, <1>13, <1>14, <1>15 DEF Kept, LeftCounts

\* A timer that was misused stays so.
LEMMA MisusedStays == misused /\ [Next]_vars => misused'
<1> SUFFICES ASSUME misused, [Next]_vars PROVE misused'
  OBVIOUS
<1>1. ASSUME UNCHANGED misused PROVE misused'
  BY <1>1
<1>2. ASSUME NEW p \in Task, AllocLoad(p) \/ AllocStore(p) PROVE misused'
  BY <1>2 DEF AllocLoad, AllocStore
<1>3. ASSUME NEW p \in Task, NEW t \in Timer, TimerFree(p, t) PROVE misused'
  BY <1>3 DEF TimerFree
<1>4. ASSUME NEW p \in Task, NEW t \in Timer, NEW d \in Delays, SetStore(p, t, d) PROVE misused'
  BY <1>4 DEF SetStore
<1>5. CASE Tick \/ StartSwitchTimer \/ UNCHANGED vars
  BY <1>1, <1>5 DEF Tick, StartSwitchTimer, vars
<1>6. ASSUME NEW p \in Task, SetInsert(p) \/ \E t \in Timer : AllocTest(p, t) PROVE misused'
  BY <1>1, <1>6 DEF SetInsert, AllocTest
<1> QED BY <1>2, <1>3, <1>4, <1>5, <1>6 DEF Next

LEMMA StepKeeps ==
  ASSUME Kept, ~misused', [Next]_vars
  PROVE  Kept'
<1>1. CASE StartSwitchTimer
  BY <1>1, StartKeeps
<1>2. ASSUME NEW p \in Task, AllocLoad(p) \/ AllocStore(p) \/ SetInsert(p) PROVE Kept'
  BY <1>2, TestKeeps, FlagsKeep, InsertKeeps
<1>3. ASSUME NEW p \in Task, NEW t \in Timer, AllocTest(p, t) \/ TimerFree(p, t) PROVE Kept'
  BY <1>3, TestKeeps, FlagsKeep
<1>4. ASSUME NEW p \in Task, NEW t \in Timer, NEW d \in Delays, SetStore(p, t, d) PROVE Kept'
  BY <1>4, SetStoreKeeps
<1>5. CASE Tick
  BY <1>5, TickKeeps
<1>6. CASE UNCHANGED vars
  <2>1. /\ UNCHANGED <<tick, head, next, timeout, flags, call, hung, misused>>
        /\ UNCHANGED <<left, wrapped, lost>>
    BY <1>6 DEF vars, timers, history
  <2>2. TypeOK' /\ CallsApart' /\ LeftCounts' = LeftCounts
    BY <2>1 DEF Kept, TypeOK, CallsApart, LeftCounts
  <2>3. Arming' = Arming
    BY <2>1 DEF Arming
  <2>4. Armed' = Armed
    BY <2>1, <2>3 DEF Armed
  <2>5. Holds(head, next, Armed, timeout, ~wrapped)'
    BY <2>1, <2>4 DEF Kept
  <2>6. ~wrapped' => LeftCounts'
    BY <2>1, <2>2 DEF Kept
  <2> QED BY <2>1, <2>2, <2>5, <2>6 DEF Kept
<1> QED BY <1>1, <1>2, <1>3, <1>4, <1>5, <1>6 DEF Next

LEMMA IInvInductive == Init /\ [][Next]_vars => []IInv
<1>1. IInv /\ [Next]_vars => IInv'
  BY MisusedStays, StepKeeps DEF IInv
<1>2. Init => IInv
  BY InitKept DEF IInv
<1> QED BY <1>1, <1>2, PTL

-----------------------------------------------------------------------------
(* The properties.                                                         *)

LEMMA ListedIsArmed ==
  ASSUME Kept
  PROVE  /\ Chain(head, next)[T] = Nil /\ Listed = Armed
         /\ \A t \in Timer \ Armed : next[t] = Nil
<1>1. /\ head \in Pointer /\ next \in [Timer -> Pointer] /\ Armed \in SUBSET Timer
      /\ (~wrapped) \in BOOLEAN /\ Holds(head, next, Armed, timeout, ~wrapped)
  BY DEF Kept, TypeOK, Armed
<1> QED BY <1>1, HoldsListed DEF Listed

\* However ticks come between the calls of any number of tasks, and however
\* often the counter wraps, the list from g_timer_control.next ends and links
\* exactly the timers whose k_set_timer_time has come past its cli() and that
\* have not fired since - up to the moment when k_timer_alloc gives a timer to
\* two tasks, or a task arms or frees one that is armed, which k_timer.c does
\* not keep them from (k_timer.c:28-47, interrupt_handlers.c:45-69).
THEOREM KTimerListHoldsArmed == Spec => []ListHoldsArmedTimers
<1>1. IInv => ListHoldsArmedTimers
  BY ListedIsArmed DEF IInv, ListHoldsArmedTimers
<1> QED BY IInvInductive, <1>1, PTL DEF Spec

\* Up to that moment the timer that preempts tasks is not lost: after the boot it
\* is linked, and so it will fire (interrupt_handlers.c:53-73,
\* kernel_functions.c: switch_task).
THEOREM KTimerSwitchStaysArmed == Spec => []SwitchTimerStaysArmed
<1>1. ASSUME IInv PROVE SwitchTimerStaysArmed
  <2> SUFFICES ASSUME Booted, Kept PROVE Switch \in Listed
    BY <1>1 DEF IInv, SwitchTimerStaysArmed
  <2>1. flags[Switch] = "using"
    BY SwitchIsTimer DEF Kept, TypeOK, Booted, Flags
  <2>2. Switch \notin Arming
    BY DEF Kept, CallsApart, Arming
  <2> QED BY <2>1, <2>2, ListedIsArmed, SwitchIsTimer DEF Armed
<1> QED BY IInvInductive, <1>1, PTL DEF Spec

\* Up to that moment, and while the counter has not overflowed, a tick takes off only timers that are
\* due and, unless memory runs out, all of them (interrupt_handlers.c:39-69).
THEOREM KTimerFiresOnTime == Spec => FiresOnTime
<1> DEFINE OnTime ==
      tick' # tick /\ ~wrapped' /\ ~misused =>
        /\ \A t \in Listed \ {Switch} : flags'[t] = "alloc" => left[t] <= 1
        /\ ~lost' => \A t \in Listed \ {Switch} : left[t] <= 1 => flags'[t] = "alloc"
<1>1. ASSUME IInv, Next PROVE OnTime
  <2> SUFFICES ASSUME tick' # tick, ~wrapped', Kept
               PROVE  /\ \A t \in Listed \ {Switch} : flags'[t] = "alloc" => left[t] <= 1
                      /\ ~lost' => \A t \in Listed \ {Switch} : left[t] <= 1 => flags'[t] = "alloc"
    BY <1>1 DEF IInv
  <2>0. Tick
    BY <1>1 DEF Next, StartSwitchTimer, AllocTest, AllocLoad, AllocStore, TimerFree, SetInsert,
                SetStore, vars
  <2> DEFINE c == Unlinked(Chain(head, next))
             now == (tick + 1) % W
             e == Expired(c, now)
  <2>1. PICK m \in Popped(c, e) : LET fired == {c[i] : i \in 0 .. m - 1} IN
          /\ SwitchRearms(c[m], [t \in Timer |-> IF t \in fired THEN Nil ELSE next[t]], now, fired)
          /\ lost' \in IF m = e THEN {FALSE} \cup {m > 0 /\ c[m - 1] # Switch} ELSE {TRUE}
    BY <2>0 DEF Tick
  <2>2. PICK fired : fired = {c[i] : i \in 0 .. m - 1}
    OBVIOUS
  <2>3. /\ flags' = [t \in Timer |-> IF t \in fired \ {Switch} THEN "alloc" ELSE flags[t]]
        /\ wrapped' = (wrapped \/ now = 0) \/ wrapped' = (wrapped \/ now = 0 \/ Quantum + now >= W)
    BY <2>1, <2>2 DEF SwitchRearms
  <2>4. /\ tick \in 0 .. W - 1 /\ now \in 0 .. W - 1
        /\ ~wrapped /\ now = tick + 1
    BY <2>3, NextTick DEF Kept, TypeOK
  <2>5. /\ fired \subseteq Armed /\ \A t \in fired : ~(timeout[t] > now)
    BY <2>2, TickPops
  <2>6. \A t \in Armed : ~(timeout[t] > now) => t \in {c[i] : i \in 0 .. e - 1}
    <3>1. /\ head \in Pointer /\ next \in [Timer -> Pointer] /\ Armed \in SUBSET Timer
          /\ timeout \in [Timer -> Int] /\ Holds(head, next, Armed, timeout, TRUE)
      <4>1. (~wrapped) = TRUE
        BY <2>4
      <4>2. Holds(head, next, Armed, timeout, ~wrapped)
        BY DEF Kept
      <4>3. Holds(head, next, Armed, timeout, TRUE)
        BY <4>1, <4>2
      <4>4. /\ head \in Pointer /\ next \in [Timer -> Pointer]
            /\ timeout \in [Timer -> Int] /\ Armed \in SUBSET Timer
        BY DEF Kept, TypeOK, Armed
      <4> QED BY <4>3, <4>4
    <3>2. now \in Int
      BY <2>4
    <3>3. c = Chain(head, next)
      BY <3>1, HoldsUnlinked
    <3>4. e = Expired(Chain(head, next), now)
      BY <3>3
    <3> HIDE DEF now
    <3>5. \A t \in Armed : ~(timeout[t] > now) =>
            t \in {Chain(head, next)[i] : i \in 0 .. Expired(Chain(head, next), now) - 1}
      BY <3>1, <3>2, ExpiredAreDue
    <3> HIDE DEF c, e
    <3> QED BY <3>3, <3>4, <3>5
  <2> HIDE DEF c, now, e
  <2>7. ASSUME NEW t \in Armed
        PROVE  /\ t \in Timer /\ flags[t] = "using" /\ timeout[t] \in Int
               /\ left[t] <= 1 <=> ~(timeout[t] > now)
    <3>1. t \in Timer /\ flags[t] = "using" /\ timeout[t] \in Int
      BY DEF Kept, TypeOK, Armed
    <3>2. left[t] = IF timeout[t] > tick THEN timeout[t] - tick ELSE 0
      BY <2>4, <3>1 DEF Kept, LeftCounts
    <3> QED BY <2>4, <3>1, <3>2
  <2>8. Listed = Armed
    BY ListedIsArmed
  <2>9. ASSUME NEW t \in Armed \ {Switch}, flags'[t] = "alloc" PROVE left[t] <= 1
    BY <2>3, <2>5, <2>7, <2>9
  <2>10. ASSUME ~lost', NEW t \in Armed \ {Switch}, left[t] <= 1 PROVE flags'[t] = "alloc"
    <3>1. m = e
      BY <2>1, <2>10
    <3>2. t \in fired
      BY <2>2, <2>6, <2>7, <2>10, <3>1
    <3> QED BY <2>3, <2>7, <3>2
  <2> QED BY <2>8, <2>9, <2>10
<1>2. IInv /\ [Next]_vars => [OnTime]_vars
  BY <1>1
<1>3. [][OnTime]_vars => FiresOnTime
  BY DEF FiresOnTime
<1> QED BY IInvInductive, <1>2, <1>3, PTL DEF Spec
=============================================================================
