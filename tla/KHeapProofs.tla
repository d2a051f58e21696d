---------------------------- MODULE KHeapProofs -----------------------------
(***************************************************************************)
(* Proofs about the kernel heap for every heap size, page size, bitmap and *)
(* number of contexts inside k_free.  First KHeap alone, with its          *)
(* inductive invariant IInv; then the search of k_malloc: whatever it      *)
(* skips cannot hold the block; last KHeapCode, the loops of k_malloc,     *)
(* each step of which is a step of KHeap or none.                          *)
(***************************************************************************)
EXTENDS KHeapCode, TLAPS

-----------------------------------------------------------------------------
(* The inductive invariant of KHeapScan.                                   *)

\* Nothing below i fits, and the pages seen since the
\* run at i was begun are free.
ScanInv ==
  /\ LocalsOK
  /\ pc = "idle" => Idle
  /\ pc = "size" => size \in Sizes /\ n = 0 /\ i = 0
  /\ pc \in {"outer", "inner", "check", "done"} =>
       n \in 1 .. P /\ n * PageSize >= size + Header
  /\ \A k \in 0 .. i - 1 : ~Fits(bitmap, k, n)
  /\ pc = "inner" => /\ i < P - n /\ j \in 0 .. n
                     /\ \A p \in Run(i, j) : ~bitmap[p]
                     /\ j > 0 => found = 1
  /\ pc = "check" /\ found = 1 => Fits(bitmap, i, n)
  /\ pc = "done" => Fits(bitmap, i, n)
  /\ NullMeansNoRoom

-----------------------------------------------------------------------------
(* KHeap.                                                                  *)

\* The pages of a block are pages of the heap.
LEMMA RunInPage ==
  ASSUME NEW f \in Nat, NEW m \in Nat, f + m <= P, NEW p \in Run(f, m)
  PROVE  p \in Page
BY PAssumption DEF Run, Page

\* A place k_malloc finds is a run of unmarked pages inside the heap.
LEMMA PlaceIsFree ==
  ASSUME NEW f \in Page, NEW m \in 1 .. P, Place(f, m)
  PROVE  /\ m \in 1 .. P /\ f + m <= P
         /\ \A p \in Run(f, m) : p \in Page /\ ~bitmap[p]
<1>1. f \in 0 .. P - m - 1 /\ \A p \in Run(f, m) : ~bitmap[p]
  BY DEF Place, FirstFit, Fits
<1>2. m \in Nat /\ m >= 1 /\ f \in Nat
  BY PAssumption DEF Page
<1>3. f + m <= P /\ m \in 1 .. P
  BY <1>1, <1>2, PAssumption
<1> QED BY <1>1, <1>2, <1>3, RunInPage

\* No call of k_malloc or k_free, and no turn of the loop of k_free, breaks the
\* inductive invariant.
LEMMA IInvStep == IInv /\ [Next]_vars => IInv'
<1> SUFFICES ASSUME IInv, [Next]_vars PROVE IInv'
  OBVIOUS
<1>a. /\ TypeOK /\ BlocksDisjoint /\ StaleUntouched /\ HeadersIntact
      /\ \A p \in Page : bitmap[p] <=> \/ p \in stale
                                       \/ \E b \in live : p \in Pages(b)
                                       \/ \E c \in Client : p \in Remaining(c)
  BY DEF IInv, MarkedExactly, Accounted
<1>b. ASSUME NEW b \in live
      PROVE  /\ b.start \in Page /\ b.len \in 1 .. P /\ b.start + b.len <= P
             /\ b = [start |-> b.start, len |-> b.len]
             /\ b.start \in Pages(b)
  BY <1>a, PAssumption DEF TypeOK, Block, Pages, Run, Page
<1>1. ASSUME NEW m \in 1 .. P, NEW f \in Page, Malloc(f, m) PROVE IInv'
  <2> DEFINE new == [start |-> f, len |-> m]
  <2>1. /\ m \in 1 .. P /\ f + m <= P
        /\ \A p \in Run(f, m) : p \in Page /\ ~bitmap[p]
    BY <1>1, PlaceIsFree DEF Malloc
  <2>2. /\ bitmap' = [p \in Page |-> bitmap[p] \/ p \in Run(f, m)]
        /\ hdr' = [hdr EXCEPT ![f] = m]
        /\ live' = live \cup {new}
        /\ freeing' = freeing /\ stale' = stale
    BY <1>1 DEF Malloc, Mark
  <2>3. new \in Block /\ Pages(new) = Run(f, m) /\ new.start = f /\ new.len = m
    BY <2>1 DEF Block, Pages
  <2>4. f \in Pages(new)
    BY <2>1, <2>3, PAssumption DEF Run, Page
  <2> HIDE DEF new
  <2>5. \A c \in Client : Remaining(c)' = Remaining(c)
    BY <2>2 DEF Remaining
  <2>6. \A b \in live : Pages(b) \cap Pages(new) = {} /\ b.start # f
    <3>1. ASSUME NEW b \in live, NEW p \in Pages(b) PROVE p \notin Pages(new)
      BY <1>a, <2>1, <2>3, <3>1
    <3> QED BY <3>1, <1>b, <2>4
  <2>7. \A c \in Client : Pages(new) \cap Remaining(c) = {}
    BY <1>a, <2>1, <2>3
  <2>8. Pages(new) \cap stale = {}
    BY <1>a, <2>1, <2>3
  <2>9. TypeOK'
    BY <1>a, <2>1, <2>2, <2>3 DEF TypeOK
  <2>10. BlocksDisjoint'
    BY <1>a, <2>2, <2>5, <2>6, <2>7 DEF BlocksDisjoint
  <2>11. StaleUntouched'
    BY <1>a, <2>2, <2>5, <2>8 DEF StaleUntouched
  <2>12. HeadersIntact'
    <3>1. hdr \in [Page -> 0 .. P]
      BY <1>a DEF TypeOK
    <3> QED BY <3>1, <1>a, <1>b, <2>2, <2>3, <2>6 DEF HeadersIntact
  <2>13. MarkedExactly'
    <3>1. ASSUME NEW p \in Page PROVE bitmap'[p] <=> Accounted(p)'
      <4>1. bitmap'[p] <=> bitmap[p] \/ p \in Pages(new)
        BY <2>2, <2>3
      <4>2. Accounted(p)' <=> \/ p \in stale
                              \/ \E b \in live \cup {new} : p \in Pages(b)
                              \/ \E c \in Client : p \in Remaining(c)
        BY <2>2, <2>5 DEF Accounted
      <4> QED BY <4>1, <4>2, <1>a
    <3> QED BY <3>1 DEF MarkedExactly
  <2> QED BY <2>9, <2>10, <2>11, <2>12, <2>13 DEF IInv
<1>2. ASSUME NEW c \in Client, NEW b \in live, FreeStart(c, b) PROVE IInv'
  <2>1. /\ freeing' = [freeing EXCEPT ![c] = [start |-> b.start, next |-> b.start,
                                              end |-> b.start + b.len]]
        /\ live' = live \ {b} /\ bitmap' = bitmap /\ hdr' = hdr /\ stale' = stale
        /\ Remaining(c) = {}
    BY <1>2, <1>a DEF FreeStart, BlockEnd, HeadersIntact
  <2>2. freeing \in [Client -> [start : 0 .. P, next : 0 .. P, end : 0 .. P]]
    BY <1>a DEF TypeOK
  <2>3. Remaining(c)' = Pages(b)
    <3>1. freeing'[c].next = b.start /\ freeing'[c].end = b.start + b.len
      BY <2>1, <2>2
    <3>2. b.start \in Int /\ b.len \in Int
      BY <1>b DEF Page
    <3> QED BY <3>1, <3>2 DEF Remaining, Pages, Run
  <2>4. \A d \in Client : d # c => Remaining(d)' = Remaining(d)
    BY <2>1, <2>2 DEF Remaining
  <2>5. TypeOK'
    <3>1. b.start \in 0 .. P /\ b.start + b.len \in 0 .. P
      BY <1>b, PAssumption DEF Page
    <3> QED BY <3>1, <1>a, <2>1 DEF TypeOK
  <2>6. BlocksDisjoint'
    <3>1. \A d \in live' : d \in live /\ d # b
      BY <2>1
    <3> QED BY <3>1, <1>a, <2>3, <2>4 DEF BlocksDisjoint
  <2>7. StaleUntouched'
    BY <1>a, <2>1, <2>3, <2>4 DEF StaleUntouched
  <2>8. HeadersIntact'
    BY <1>a, <2>1 DEF HeadersIntact
  <2>9. MarkedExactly'
    <3>1. ASSUME NEW p \in Page PROVE bitmap'[p] <=> Accounted(p)'
      <4>1. Accounted(p)' <=> \/ p \in stale
                              \/ \E d \in live \ {b} : p \in Pages(d)
                              \/ \E d \in Client : p \in Remaining(d)'
        BY <2>1 DEF Accounted
      <4>2. (\E d \in Client : p \in Remaining(d)')
              <=> p \in Pages(b) \/ \E d \in Client : p \in Remaining(d)
        BY <2>1, <2>3, <2>4
      <4> QED BY <4>1, <4>2, <1>a, <2>1
    <3> QED BY <3>1 DEF MarkedExactly
  <2> QED BY <2>5, <2>6, <2>7, <2>8, <2>9 DEF IInv
<1>3. ASSUME NEW c \in Client, FreePage(c) PROVE IInv'
  <2> DEFINE q == freeing[c].next
  <2>1. /\ freeing \in [Client -> [start : 0 .. P, next : 0 .. P, end : 0 .. P]]
        /\ freeing' = [freeing EXCEPT ![c].next = @ + 1]
        /\ bitmap' = [bitmap EXCEPT ![q] = FALSE]
        /\ hdr' = hdr /\ live' = live /\ stale' = stale
        /\ q < freeing[c].end
    BY <1>3, <1>a DEF FreePage, TypeOK
  <2>2. q \in Page /\ q + 1 \in 0 .. P /\ freeing[c].end \in 0 .. P /\ q \in Int
    BY <2>1, PAssumption DEF Page
  <2>3. /\ freeing'[c].next = q + 1 /\ freeing'[c].end = freeing[c].end
        /\ \A d \in Client : d # c => freeing'[d] = freeing[d]
    BY <2>1
  <2> HIDE DEF q
  <2>4. q \in Remaining(c) /\ Remaining(c)' = Remaining(c) \ {q}
    BY <2>1, <2>2, <2>3 DEF Remaining, q
  <2>5. \A d \in Client : d # c => Remaining(d)' = Remaining(d)
    BY <2>3 DEF Remaining
  <2>6. \A d \in Client : Remaining(d)' \subseteq Remaining(d)
    BY <2>4, <2>5
  <2>7. TypeOK'
    BY <1>a, <2>1, <2>2 DEF TypeOK, q
  <2>8. BlocksDisjoint'
    BY <1>a, <2>1, <2>6 DEF BlocksDisjoint
  <2>9. StaleUntouched' /\ HeadersIntact'
    BY <1>a, <2>1, <2>6 DEF StaleUntouched, HeadersIntact
  <2>10. MarkedExactly'
    <3>1. /\ q \notin stale
          /\ \A d \in live : q \notin Pages(d)
          /\ \A d \in Client : d # c => q \notin Remaining(d)
      BY <1>a, <2>4 DEF StaleUntouched, BlocksDisjoint
    <3>2. ASSUME NEW p \in Page PROVE bitmap'[p] <=> Accounted(p)'
      <4>1. Accounted(p)' <=> \/ p \in stale
                              \/ \E d \in live : p \in Pages(d)
                              \/ \E d \in Client : p \in Remaining(d)'
        BY <2>1 DEF Accounted
      <4>2. bitmap'[p] <=> bitmap[p] /\ p # q
        BY <2>1, <1>a DEF TypeOK
      <4>3. (\E d \in Client : p \in Remaining(d)')
              <=> p # q /\ \E d \in Client : p \in Remaining(d)
        BY <2>4, <2>5, <3>1
      <4> QED BY <4>1, <4>2, <4>3, <3>1, <1>a
    <3> QED BY <3>2 DEF MarkedExactly
  <2> QED BY <2>7, <2>8, <2>9, <2>10 DEF IInv
<1>4. CASE UNCHANGED vars
  BY <1>4 DEF vars, IInv, TypeOK, BlocksDisjoint, StaleUntouched, MarkedExactly, HeadersIntact,
              Accounted, Remaining
<1> QED BY <1>1, <1>2, <1>3, <1>4 DEF Next, MallocFails

LEMMA IInvInductive == Spec => []IInv
<1>1. Init => IInv
  <2> SUFFICES ASSUME Init PROVE IInv
    OBVIOUS
  <2>1. live = {} /\ \A c \in Client : Remaining(c) = {}
    BY DEF Init, Remaining
  <2>2. TypeOK
    BY PAssumption DEF Init, TypeOK
  <2>3. MarkedExactly
    BY <2>1 DEF Init, MarkedExactly, Accounted
  <2> QED BY <2>1, <2>2, <2>3 DEF IInv, BlocksDisjoint, StaleUntouched, HeadersIntact
<1> QED BY <1>1, IInvStep, PTL DEF Spec

-----------------------------------------------------------------------------
\* For every heap size: no page has two owners, and no block shares a page with
\* one that an interrupted k_free is still clearing (k_heap.c:30-36, 52-54).
THEOREM HeapBlocksDisjoint == Spec => []BlocksDisjoint
<1>1. IInv => BlocksDisjoint
  BY DEF IInv
<1> QED BY <1>1, IInvInductive, PTL

\* For every heap size: a page is marked exactly when it is in use, so the heap
\* neither leaks pages nor leaves a used one unprotected.
THEOREM HeapMarkedExactly == Spec => []MarkedExactly
<1>1. IInv => MarkedExactly
  BY DEF IInv
<1> QED BY <1>1, IInvInductive, PTL

\* For every heap size: the length k_free reads is the length that was
\* allocated (k_heap.c:32, k_heap.c:47).
THEOREM HeapHeadersIntact == Spec => [](TypeOK /\ HeadersIntact)
<1>1. IInv => TypeOK /\ HeadersIntact
  BY DEF IInv
<1> QED BY <1>1, IInvInductive, PTL

\* No call disturbs the header or the mark of a block it does not own.
THEOREM HeapBlocksStable == Spec => LiveBlocksStable
<1>1. IInv /\ IInv' /\ [Next]_vars
        => [\A b \in live \cap live' :
              hdr'[b.start] = hdr[b.start] /\ \A p \in Pages(b) : bitmap'[p]]_vars
  <2> SUFFICES ASSUME IInv, IInv', [Next]_vars, NEW b \in live \cap live'
               PROVE  hdr'[b.start] = hdr[b.start] /\ \A p \in Pages(b) : bitmap'[p]
    OBVIOUS
  <2>1. hdr[b.start] = b.len /\ hdr'[b.start] = b.len
    BY DEF IInv, HeadersIntact
  <2>2. ASSUME NEW p \in Pages(b) PROVE bitmap'[p]
    <3>1. p \in Page
      <4>1. b.start \in Nat /\ b.len \in Nat /\ b.start + b.len <= P /\ Pages(b) = Run(b.start, b.len)
        BY DEF IInv, TypeOK, Block, Pages, Page
      <4> QED BY <4>1, RunInPage
    <3>2. Accounted(p)'
      BY DEF Accounted
    <3> QED BY <3>1, <3>2 DEF IInv, MarkedExactly
  <2> QED BY <2>1, <2>2
<1> QED BY <1>1, IInvInductive, PTL DEF Spec, LiveBlocksStable

-----------------------------------------------------------------------------
(* The search.                                                             *)

\* Multiplication by a positive number keeps the order.
LEMMA LessByFactor ==
  ASSUME NEW a \in Nat, NEW b \in Nat, NEW c \in Nat \ {0}, c * a < c * b
  PROVE  a < b
<1>1. a >= b => c * a >= c * b
  OBVIOUS
<1> QED BY <1>1

\* The number of pages is at least one, has room for all the bytes, and stays
\* within the heap when the bytes do.
LEMMA PagesForBounds ==
  ASSUME NEW bytes \in Nat \ {0}, bytes < P * PageSize
  PROVE  PagesFor(bytes) \in 1 .. P /\ PagesFor(bytes) * PageSize >= bytes
<1> DEFINE q == bytes \div PageSize
           r == bytes % PageSize
<1>1. /\ q \in Nat /\ r \in Nat /\ r < PageSize
      /\ bytes = PageSize * q + r
  BY PageSizeAssumption
<1>2. PagesFor(bytes) = q + (IF r = 0 THEN 0 ELSE 1)
  BY DEF PagesFor
<1> HIDE DEF q, r
<1>3. PageSize * q < PageSize * P
  <2>1. PageSize \in Nat /\ PageSize * q \in Nat
    BY <1>1, PageSizeAssumption
  <2>2. PageSize * q <= bytes
    <3> DEFINE m == PageSize * q
    <3>1. m \in Nat /\ bytes = m + r
      BY <2>1, <1>1
    <3> HIDE DEF m
    <3>2. m <= bytes
      BY <3>1, <1>1
    <3> QED BY <3>2 DEF m
  <2>3. PageSize * P = P * PageSize /\ PageSize * P \in Nat
    BY PageSizeAssumption, PAssumption
  <2>4. bytes < PageSize * P
    BY <2>3
  <2> DEFINE a == PageSize * q
             b == PageSize * P
  <2>5. a \in Nat /\ b \in Nat /\ a <= bytes /\ bytes < b
    BY <2>1, <2>2, <2>3, <2>4
  <2> HIDE DEF a, b
  <2>6. a < b
    BY <2>5
  <2> QED BY <2>6 DEF a, b
<1>4. q < P
  BY <1>1, <1>3, LessByFactor, PageSizeAssumption, PAssumption
<1>5. CASE r = 0
  <2>1. q # 0
    BY <1>1, <1>5, PageSizeAssumption
  <2>2. q * PageSize = PageSize * q /\ PageSize * q = bytes
    <3>1. PageSize * q \in Nat /\ q * PageSize = PageSize * q
      BY <1>1, PageSizeAssumption
    <3> QED BY <3>1, <1>1, <1>5
  <2>3. PagesFor(bytes) = q
    BY <1>1, <1>2, <1>5
  <2>4. q \in 1 .. P
    BY <1>1, <1>4, <2>1, PAssumption
  <2> QED BY <2>2, <2>3, <2>4
<1>6. CASE r # 0
  <2>1. (q + 1) * PageSize = PageSize * q + PageSize
    BY <1>1, PageSizeAssumption
  <2>2. PageSize * q + PageSize >= bytes
    <3> DEFINE m == PageSize * q
    <3>1. m \in Nat /\ bytes = m + r
      BY <1>1, PageSizeAssumption
    <3> HIDE DEF m
    <3>2. m + PageSize >= bytes
      BY <3>1, <1>1, PageSizeAssumption
    <3> QED BY <3>2 DEF m
  <2>3. PagesFor(bytes) = q + 1 /\ q + 1 \in 1 .. P
    BY <1>1, <1>2, <1>4, <1>6, PAssumption
  <2> QED BY <2>1, <2>2, <2>3
<1> QED BY <1>5, <1>6

\* A marked page rules out every start page from which the run would cover it.
LEMMA MarkedPageRulesOut ==
  ASSUME NEW k \in Nat, NEW m \in Nat, NEW len \in Nat,
         bitmap[m], k <= m, m < k + len
  PROVE  ~Fits(bitmap, k, len)
BY DEF Fits, Run

\* The search keeps its invariant on a bitmap that stands still.
LEMMA SearchKeepsScanInv ==
  ASSUME ScanInv, Search, bitmap' = bitmap
  PROVE  ScanInv'
<1>a. LocalsOK
  BY DEF ScanInv
<1>1. CASE ComputePages
  <2>1. /\ pc = "size" /\ n = 0 /\ i = 0 /\ i' = i /\ j' = j /\ size' = size
        /\ found' = found
    BY <1>1 DEF ComputePages, ScanInv
  <2>2. /\ size \in Nat /\ size + Header < Word /\ Header \in Nat \ {0}
    BY <2>1, SizesAssumption, HeaderAssumption DEF ScanInv
  <2>3. (size + Header) % Word = size + Header
    BY <2>2, WordAssumption
  <2>4. CASE size + Header >= P * PageSize
    <3>1. pc' = "null" /\ n' = n
      BY <1>1, <2>3, <2>4 DEF ComputePages
    <3> QED BY <2>1, <2>4, <3>1, <1>a DEF ScanInv, LocalsOK, NullMeansNoRoom
  <2>5. CASE ~(size + Header >= P * PageSize)
    <3>1. pc' = "outer" /\ n' = PagesFor(size + Header)
      BY <1>1, <2>3, <2>5 DEF ComputePages
    <3>2. size + Header < P * PageSize
      BY <2>2, <2>5, PAssumption, PageSizeAssumption
    <3>3. n' \in 1 .. P /\ n' * PageSize >= size + Header
      BY <2>2, <3>1, <3>2, PagesForBounds
    <3> QED BY <2>1, <3>1, <3>3, <1>a DEF ScanInv, LocalsOK, NullMeansNoRoom
  <2> QED BY <2>4, <2>5
<1>2. CASE OuterLoop
  <2>1. /\ pc = "outer" /\ n \in 1 .. P /\ i \in 0 .. P
        /\ UNCHANGED <<size, n, i, found>>
        /\ \A k \in 0 .. i - 1 : ~Fits(bitmap, k, n)
    BY <1>2, <1>a DEF OuterLoop, ScanInv, LocalsOK
  <2>2. CASE i < P - n
    <3>1. pc' = "inner" /\ j' = 0
      BY <1>2, <2>2 DEF OuterLoop
    <3>2. Run(i, 0) = {}
      BY <2>1 DEF Run
    <3> QED BY <2>1, <2>2, <3>1, <3>2, <1>a, PAssumption DEF ScanInv, LocalsOK, NullMeansNoRoom
  <2>3. CASE ~(i < P - n)
    <3>1. pc' = "null" /\ j' = j
      BY <1>2, <2>3 DEF OuterLoop
    <3>2. ASSUME NEW k \in Page PROVE ~Fits(bitmap, k, n)
      <4>1. CASE k \in 0 .. i - 1
        BY <4>1, <2>1
      <4>2. CASE k \notin 0 .. i - 1
        BY <4>2, <2>1, <2>3, PAssumption DEF Fits, Page
      <4> QED BY <4>1, <4>2
    <3> QED BY <2>1, <3>1, <3>2, <1>a DEF ScanInv, LocalsOK, NullMeansNoRoom
  <2> QED BY <2>2, <2>3
<1>3. CASE InnerLoop
  <2>1. /\ pc = "inner" /\ n \in 1 .. P /\ i \in 0 .. P /\ i < P - n /\ j \in 0 .. n
        /\ UNCHANGED <<size, n>>
        /\ \A k \in 0 .. i - 1 : ~Fits(bitmap, k, n)
        /\ \A p \in Run(i, j) : ~bitmap[p]
        /\ j > 0 => found = 1
    BY <1>3, <1>a DEF InnerLoop, ScanInv, LocalsOK
  <2>2. CASE j >= n
    <3>1. pc' = "check" /\ UNCHANGED <<i, j, found>>
      BY <1>3, <2>2 DEF InnerLoop
    <3>2. j = n
      BY <2>1, <2>2, PAssumption
    <3>3. Fits(bitmap, i, n)
      BY <2>1, <3>2, PAssumption DEF Fits
    <3> QED BY <2>1, <3>1, <3>3, <1>a DEF ScanInv, LocalsOK, NullMeansNoRoom
  <2>3. CASE j < n /\ bitmap[i + j]
    <3>1. pc' = "check" /\ found' = 0 /\ i' = i + j + 1 /\ j' = j
      BY <1>3, <2>1, <2>3, PAssumption DEF InnerLoop, Skip
    <3>2. i' \in 0 .. P
      BY <2>1, <2>3, <3>1, PAssumption
    <3>3. ASSUME NEW k \in 0 .. i' - 1 PROVE ~Fits(bitmap, k, n)
      <4>1. CASE k \in 0 .. i - 1
        BY <4>1, <2>1
      <4>2. CASE k \notin 0 .. i - 1
        <5>1. k \in Nat /\ i + j \in Nat /\ n \in Nat /\ k <= i + j /\ i + j < k + n
          BY <4>2, <2>1, <2>3, <3>1, PAssumption
        <5> QED BY <5>1, <2>3, MarkedPageRulesOut
      <4> QED BY <4>1, <4>2
    <3> QED BY <2>1, <3>1, <3>2, <3>3, <1>a DEF ScanInv, LocalsOK, NullMeansNoRoom
  <2>4. CASE j < n /\ ~bitmap[i + j]
    <3>1. pc' = pc /\ found' = 1 /\ i' = i /\ j' = j + 1
      BY <1>3, <2>1, <2>4, PAssumption DEF InnerLoop
    <3>2. j' \in 0 .. n /\ j' \in 0 .. P
      BY <2>1, <2>4, <3>1, PAssumption
    <3>3. ASSUME NEW p \in Run(i, j') PROVE ~bitmap[p]
      <4>1. p = i + j \/ p \in Run(i, j)
        BY <2>1, <3>1, PAssumption DEF Run
      <4> QED BY <4>1, <2>1, <2>4
    <3> QED BY <2>1, <3>1, <3>2, <3>3, <1>a DEF ScanInv, LocalsOK, NullMeansNoRoom
  <2> QED BY <2>1, <2>2, <2>3, <2>4, PAssumption
<1>4. CASE Check
  <2>1. pc = "check" /\ UNCHANGED <<size, n, i, j, found>>
    BY <1>4 DEF Check, locals
  <2>2. (found = 1 /\ pc' = "done") \/ (found # 1 /\ pc' = "outer")
    BY <1>4 DEF Check, locals
  <2> QED BY <2>1, <2>2, <1>a DEF ScanInv, LocalsOK, NullMeansNoRoom
<1> QED BY <1>1, <1>2, <1>3, <1>4 DEF Search

-----------------------------------------------------------------------------
(* The loops of k_malloc are one step of KHeap.                            *)

\* A call begins with nothing seen.
LEMMA EnterKeepsScanInv ==
  ASSUME ScanInv, Call
  PROVE  ScanInv'
<1>1. /\ Idle /\ LocalsOK
      /\ size' \in Sizes /\ found' \in {0, 1} /\ pc' = "size"
      /\ n' = n /\ i' = i /\ j' = j /\ bitmap' = bitmap
  BY DEF Call, Enter, ScanInv, vars
<1> QED BY <1>1, PAssumption DEF ScanInv, LocalsOK, Idle, NullMeansNoRoom

\* After a call nothing is left of the search.
LEMMA LeaveKeepsScanInv ==
  ASSUME Leave, bitmap' \in [Page -> BOOLEAN]
  PROVE  ScanInv'
BY PAssumption DEF Leave, ScanInv, LocalsOK, Idle, NullMeansNoRoom

LEMMA ScanInvStep == ScanInv /\ [CodeNext]_cvars => ScanInv'
<1> SUFFICES ASSUME ScanInv, [CodeNext]_cvars PROVE ScanInv'
  OBVIOUS
<1>a. bitmap \in [Page -> BOOLEAN]
  BY DEF ScanInv, LocalsOK
<1>1. CASE Call
  BY <1>1, EnterKeepsScanInv
<1>2. CASE Step
  BY <1>2, SearchKeepsScanInv DEF Step, vars
<1>3. CASE ReturnBlock
  <2>1. Leave /\ bitmap' = [p \in Page |-> bitmap[p] \/ p \in Run(i, n)]
    BY <1>3 DEF ReturnBlock, Mark
  <2>2. bitmap' \in [Page -> BOOLEAN]
    BY <2>1
  <2> QED BY <2>1, <2>2, LeaveKeepsScanInv
<1>4. CASE ReturnNull
  BY <1>4, <1>a, LeaveKeepsScanInv DEF ReturnNull, vars
<1>5. CASE Free
  <2>1. /\ pc = "idle" /\ pc' = pc /\ size' = size /\ n' = n /\ i' = i /\ j' = j
        /\ found' = found
    BY <1>5 DEF Free, locals
  <2>2. bitmap' \in [Page -> BOOLEAN]
    <3>1. PICK c \in Client : FreePage(c) \/ \E b \in live : FreeStart(c, b)
      BY <1>5 DEF Free
    <3>2. CASE FreePage(c)
      <4>1. bitmap' = [bitmap EXCEPT ![freeing[c].next] = FALSE]
        BY <3>2 DEF FreePage
      <4> QED BY <4>1, <1>a
    <3>3. CASE \E b \in live : FreeStart(c, b)
      BY <3>3, <1>a DEF FreeStart
    <3> QED BY <3>1, <3>2, <3>3
  <2>3. Idle /\ Idle'
    BY <2>1 DEF ScanInv, Idle
  <2> QED BY <2>2, <2>3, PAssumption DEF ScanInv, LocalsOK, Idle, NullMeansNoRoom
<1>6. CASE UNCHANGED cvars
  <2>1. UNCHANGED <<bitmap, size, n, i, j, found, pc>>
    BY <1>6 DEF cvars, vars, locals
  <2> QED BY <2>1 DEF ScanInv, LocalsOK, Idle, NullMeansNoRoom
<1> QED BY <1>1, <1>2, <1>3, <1>4, <1>5, <1>6 DEF CodeNext

LEMMA ScanInvInductive == CodeSpec => []ScanInv
<1>1. CodeInit => ScanInv
  BY PAssumption DEF CodeInit, Init, Idle, ScanInv, LocalsOK, NullMeansNoRoom
<1> QED BY <1>1, ScanInvStep, PTL DEF CodeSpec

\* What the search has found is the place of the one step.
LEMMA ReturnIsMalloc ==
  ASSUME ScanInv, ReturnBlock
  PROVE  Next
<1>1. /\ n \in 1 .. P /\ i \in 0 .. P /\ Fits(bitmap, i, n)
      /\ \A k \in 0 .. i - 1 : ~Fits(bitmap, k, n)
  BY DEF ReturnBlock, ScanInv, LocalsOK
<1>2. Place(i, n)
  BY <1>1 DEF Place, FirstFit
<1>3. i \in Page
  BY <1>1, PAssumption DEF Fits, Page
<1>4. Malloc(i, n)
  BY <1>2 DEF ReturnBlock, Store, Malloc
<1> QED BY <1>1, <1>3, <1>4 DEF Next

\* Every step of k_malloc's loops and of k_free is the one step of KHeap or
\* none: whatever holds of that heap holds of the code (k_heap.c:13-55).
THEOREM HeapCodeImplementsHeap == CodeSpec => ImplementsHeap
<1>1. CodeInit => Init
  BY DEF CodeInit
<1>2. ScanInv /\ [CodeNext]_cvars => [Next]_vars
  <2> SUFFICES ASSUME ScanInv, [CodeNext]_cvars PROVE [Next]_vars
    OBVIOUS
  <2>1. CASE ReturnBlock
    BY <2>1, ReturnIsMalloc
  <2>2. CASE Free
    BY <2>2 DEF Free, Next
  <2>3. CASE Call \/ Step \/ ReturnNull
    BY <2>3 DEF Call, Step, ReturnNull
  <2>4. CASE UNCHANGED cvars
    BY <2>4 DEF cvars
  <2> QED BY <2>1, <2>2, <2>3, <2>4 DEF CodeNext
<1> QED BY <1>1, <1>2, ScanInvInductive, PTL DEF CodeSpec, ImplementsHeap, Spec

\* The loops of k_malloc return the first run of free pages that is long
\* enough, on every bitmap (k_heap.c:21-30).
THEOREM ScanReturnsFirstFit == CodeSpec => []ReturnsFirstFit
<1>1. ScanInv => ReturnsFirstFit
  BY DEF ScanInv, ReturnsFirstFit, FirstFit
<1> QED BY <1>1, ScanInvInductive, PTL

\* A null pointer is returned only when no place is left (k_heap.c:41).
THEOREM ScanNullMeansNoRoom == CodeSpec => []NullMeansNoRoom
<1>1. ScanInv => NullMeansNoRoom
  BY DEF ScanInv
<1> QED BY <1>1, ScanInvInductive, PTL

\* The pages counted hold the header and the bytes asked for, for every page
\* size (k_heap.c:14-18).
THEOREM ScanBlockHoldsRequest == CodeSpec => []BlockHoldsRequest
<1>1. ScanInv => BlockHoldsRequest
  BY DEF ScanInv, BlockHoldsRequest
<1> QED BY <1>1, ScanInvInductive, PTL
=============================================================================
