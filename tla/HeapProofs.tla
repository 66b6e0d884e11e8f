----------------------------- MODULE HeapProofs -----------------------------
(***************************************************************************)
(* The heap of every size, under every sequence of calls, proved with      *)
(* TLAPS: its blocks tile it, the free list is in order of address, holds  *)
(* every free block and is fully merged, the counter is right, and an      *)
(* allocation fails only when there is no room.                            *)
(***************************************************************************)
EXTENDS Heap, FiniteSetTheorems, WellFoundedInduction, TLAPS

-----------------------------------------------------------------------------
(* Induction, without an operator for what is proved.                      *)

LEMMA LeastNat ==
  ASSUME NEW T \in SUBSET Nat, T # {}
  PROVE  \E x \in T : \A y \in T : x <= y
<1>1. IsWellFoundedOn(OpToRel(<, Nat), Nat)
  BY NatLessThanWellFounded, Zenon
<1>2. PICK x \in T : \A y \in T : ~ (<<y, x>> \in OpToRel(<, Nat))
  BY <1>1, WFMin, Zenon
<1>3. ASSUME NEW y \in T PROVE x <= y
  <2>1. x \in Nat /\ y \in Nat
    OBVIOUS
  <2>2. <<y, x>> \in Nat \X Nat
    BY <2>1
  <2>3. ~ y < x
    BY <1>2, <2>2 DEF OpToRel
  <2> QED
    BY <2>1, <2>3
<1> QED
  BY <1>3

LEMMA InductionOver ==
  ASSUME NEW T \in SUBSET Nat, 0 \in T, \A n \in T : n + 1 \in T
  PROVE  T = Nat
<1> SUFFICES ASSUME T # Nat PROVE FALSE
  OBVIOUS
<1>1. PICK x \in Nat \ T : \A y \in Nat \ T : x <= y
  <2>1. Nat \ T \in SUBSET Nat /\ Nat \ T # {}
    OBVIOUS
  <2> QED
    BY <2>1, LeastNat
<1>2. x - 1 \in Nat /\ x - 1 < x /\ x - 1 + 1 = x
  BY <1>1
<1>3. x - 1 \in T
  BY <1>1, <1>2
<1> QED
  BY <1>1, <1>2, <1>3

\* The first n + 1 elements of the list, as a function of its own.
IsWalk(b, n, f) ==
    f = [k \in 0 .. n |-> IF k = 0 THEN Start
                          ELSE LET prior == f[k - 1] IN
                               IF b[prior].next = NULL THEN prior ELSE b[prior].next]

LEMMA WalkExists == \A b : \A n \in Nat : \E f : IsWalk(b, n, f)
<1> TAKE b
<1> DEFINE T == {n \in Nat : \E f : IsWalk(b, n, f)}
<1>1. 0 \in T
  <2>1. IsWalk(b, 0, [k \in 0 .. 0 |-> Start])
    BY DEF IsWalk
  <2> QED
    BY <2>1
<1>2. ASSUME NEW n \in T PROVE n + 1 \in T
  <2>1. PICK f : IsWalk(b, n, f)
    BY <1>2
  <2>2. n \in Nat
    BY <1>2
  <2> DEFINE after == IF b[f[n]].next = NULL THEN f[n] ELSE b[f[n]].next
             g == [k \in 0 .. n + 1 |-> IF k <= n THEN f[k] ELSE after]
             step(k) == IF k = 0 THEN Start
                        ELSE IF b[g[k - 1]].next = NULL THEN g[k - 1] ELSE b[g[k - 1]].next
  <2>3. ASSUME NEW k \in 0 .. n + 1 PROVE g[k] = step(k)
    <3>1. CASE k = 0
      <4>1. g[0] = f[0] /\ f[0] = Start
        <5>1. 0 \in 0 .. n + 1 /\ 0 \in 0 .. n /\ 0 <= n
          BY <2>2
        <5> QED
          BY <2>1, <5>1 DEF IsWalk
      <4> QED
        BY <3>1, <4>1
    <3>2. CASE k \in 1 .. n
      <4>1. k - 1 \in 0 .. n /\ k \in 0 .. n /\ k # 0 /\ k - 1 \in 0 .. n + 1
        BY <2>2, <3>2
      <4>2. g[k] = f[k] /\ g[k - 1] = f[k - 1]
        BY <4>1
      <4>3. f[k] = IF b[f[k - 1]].next = NULL THEN f[k - 1] ELSE b[f[k - 1]].next
        BY <2>1, <4>1 DEF IsWalk
      <4> QED
        BY <4>1, <4>2, <4>3
    <3>3. CASE k = n + 1
      <4>1. k - 1 = n /\ n \in 0 .. n + 1 /\ k # 0 /\ ~ k <= n /\ n <= n
        BY <2>2, <3>3
      <4>2. g[k] = after /\ g[n] = f[n]
        BY <4>1
      <4> QED
        BY <4>1, <4>2
    <3> QED
      BY <2>2, <3>1, <3>2, <3>3
  <2>4. g = [k \in 0 .. n + 1 |-> step(k)]
    BY <2>3
  <2>5. IsWalk(b, n + 1, g)
    BY <2>4 DEF IsWalk
  <2> QED
    BY <2>2, <2>5
<1>3. T = Nat
  <2> HIDE DEF T
  <2>1. T \in SUBSET Nat
    BY DEF T
  <2> QED
    BY <1>1, <1>2, <2>1, InductionOver
<1> QED
  BY <1>3

\* What Nth's definition means.
LEMMA NthIs ==
  ASSUME NEW b
  PROVE  /\ Nth(b)[0] = Start
         /\ \A n \in 1 .. Units :
               Nth(b)[n] = IF b[Nth(b)[n - 1]].next = NULL THEN Nth(b)[n - 1]
                           ELSE b[Nth(b)[n - 1]].next
<1>1. Units \in Nat
  BY HeapAssumption
<1>2. \E f : IsWalk(b, Units, f)
  BY <1>1, WalkExists
<1>3. IsWalk(b, Units, CHOOSE f : IsWalk(b, Units, f))
  BY <1>2
<1>4. IsWalk(b, Units, Nth(b))
  BY <1>3 DEF Nth, IsWalk
<1> DEFINE nth == Nth(b)
<1>5. IsWalk(b, Units, nth)
  BY <1>4
<1> HIDE DEF nth
<1>6. nth[0] = Start
  BY <1>1, <1>5 DEF IsWalk
<1>7. ASSUME NEW n \in 1 .. Units
      PROVE nth[n] = IF b[nth[n - 1]].next = NULL THEN nth[n - 1] ELSE b[nth[n - 1]].next
  <2>1. n \in 0 .. Units /\ n # 0
    BY <1>1
  <2> QED
    BY <1>5, <2>1 DEF IsWalk
<1> QED
  BY <1>6, <1>7 DEF nth

-----------------------------------------------------------------------------
(* The free list.                                                          *)

\* The list of b holds the blocks in L and no others, in order of address.
Linked(b, L) ==
    /\ {Start, End} \subseteq L /\ L \subseteq DOMAIN b /\ L \subseteq {Start} \cup 0 .. End
    /\ b[End].next = NULL
    /\ \A a \in L \ {End} :
          /\ b[a].next \in L /\ a < b[a].next
          /\ \A c \in L : c <= a \/ b[a].next <= c

LEMMA Sizes == Units \in Nat /\ End \in Nat /\ End > 0 /\ Units = End + 1 /\ Start = -1 /\ NULL = -2
BY HeapAssumption DEF End, Start, NULL

\* The walk stays on the list, at its end for good.
LEMMA WalkOnList ==
  ASSUME NEW b, NEW L, Linked(b, L)
  PROVE  /\ \A n \in 0 .. Units : Nth(b)[n] \in L
         /\ \A n \in 1 .. Units :
               Nth(b)[n] = IF Nth(b)[n - 1] = End THEN End ELSE b[Nth(b)[n - 1]].next
<1> DEFINE nth == Nth(b)
<1>1. /\ nth[0] = Start
      /\ \A n \in 1 .. Units : nth[n] = IF b[nth[n - 1]].next = NULL THEN nth[n - 1]
                                        ELSE b[nth[n - 1]].next
  BY NthIs
<1> HIDE DEF nth
<1>2. \A a \in L : b[a].next = NULL <=> a = End
  <2> TAKE a \in L
  <2>1. CASE a = End
    BY <2>1 DEF Linked
  <2>2. CASE a # End
    <3>1. a < b[a].next /\ a \in {Start} \cup 0 .. End /\ b[a].next \in {Start} \cup 0 .. End
      BY <2>2 DEF Linked
    <3> QED
      BY <2>2, <3>1, Sizes
  <2> QED
    BY <2>1, <2>2
<1>3. ASSUME NEW n \in 1 .. Units, nth[n - 1] \in L
      PROVE  /\ nth[n] \in L
             /\ nth[n] = IF nth[n - 1] = End THEN End ELSE b[nth[n - 1]].next
  BY <1>1, <1>2, <1>3 DEF Linked
<1> DEFINE T == {n \in Nat : n <= Units => nth[n] \in L}
<1>4. T = Nat
  <2>1. T \in SUBSET Nat /\ 0 \in T
    BY <1>1 DEF Linked
  <2>2. ASSUME NEW n \in T PROVE n + 1 \in T
    <3>1. CASE n + 1 <= Units
      <4>1. n + 1 \in 1 .. Units /\ n + 1 - 1 = n /\ n <= Units
        BY <3>1, Sizes
      <4>2. nth[n] \in L
        BY <4>1
      <4>3. PICK m \in 1 .. Units : m = n + 1 /\ m - 1 = n
        BY <4>1
      <4> QED
        BY <1>3, <4>2, <4>3
    <3>2. CASE ~ n + 1 <= Units
      BY <3>2
    <3> QED
      BY <3>1, <3>2
  <2> HIDE DEF T
  <2> QED
    BY <2>1, <2>2, InductionOver
<1>5. ASSUME NEW n \in 0 .. Units PROVE nth[n] \in L
  <2>1. n \in T /\ n <= Units
    BY <1>4, Sizes
  <2> QED
    BY <2>1
<1>6. \A n \in 1 .. Units : nth[n - 1] \in L
  <2> TAKE n \in 1 .. Units
  <2>1. n - 1 \in 0 .. Units
    BY Sizes
  <2> QED
    BY <1>5, <2>1
<1> QED
  BY <1>3, <1>5, <1>6 DEF nth

\* It never turns back, and reaches pxEnd in time.
LEMMA WalkAscends ==
  ASSUME NEW b, NEW L, Linked(b, L)
  PROVE  /\ \A n \in 0 .. Units, m \in 0 .. Units : m <= n => Nth(b)[m] <= Nth(b)[n]
         /\ Nth(b)[Units] = End
<1> DEFINE nth == Nth(b)
<1>1. /\ \A n \in 0 .. Units : nth[n] \in L
      /\ \A n \in 1 .. Units : nth[n] = IF nth[n - 1] = End THEN End ELSE b[nth[n - 1]].next
  BY WalkOnList
<1>2. nth[0] = Start
  BY NthIs
<1> HIDE DEF nth
<1>3. \A n \in 0 .. Units : nth[n] \in Int /\ nth[n] <= End /\ nth[n] >= Start
  <2> TAKE n \in 0 .. Units
  <2>1. nth[n] \in {Start} \cup 0 .. End
    BY <1>1 DEF Linked
  <2> QED
    BY <2>1, Sizes
<1>4. ASSUME NEW n \in Nat, n + 1 <= Units
      PROVE  /\ n \in 0 .. Units /\ n + 1 \in 0 .. Units
             /\ nth[n] <= nth[n + 1]
             /\ nth[n] # End => nth[n + 1] >= nth[n] + 1
  <2>1. n + 1 \in 1 .. Units /\ n \in 0 .. Units /\ n + 1 \in 0 .. Units
    BY <1>4, Sizes
  <2>2. PICK m \in 1 .. Units : m = n + 1 /\ m - 1 = n
    BY <2>1
  <2>3. nth[n + 1] = IF nth[n] = End THEN End ELSE b[nth[n]].next
    BY <1>1, <2>2
  <2>4. nth[n] # End => nth[n] < b[nth[n]].next
    BY <1>1, <2>1 DEF Linked
  <2> QED
    BY <1>3, <2>1, <2>3, <2>4
<1>5. ASSUME NEW m \in 0 .. Units
      PROVE  \A n \in 0 .. Units : m <= n => nth[m] <= nth[n]
  <2> DEFINE T == {n \in Nat : m <= n /\ n <= Units => nth[m] <= nth[n]}
  <2>1. T = Nat
    <3>1. T \in SUBSET Nat /\ 0 \in T
      BY <1>3
    <3>2. ASSUME NEW n \in T PROVE n + 1 \in T
      <4> SUFFICES ASSUME m <= n + 1, n + 1 <= Units PROVE nth[m] <= nth[n + 1]
        OBVIOUS
      <4>1. n \in 0 .. Units /\ n + 1 \in 0 .. Units /\ nth[n] <= nth[n + 1]
        BY <1>4
      <4>2. CASE m = n + 1
        BY <1>3, <4>2
      <4>3. CASE m <= n
        <5>1. nth[m] <= nth[n]
          BY <4>1, <4>3
        <5> QED
          BY <1>3, <4>1, <5>1
      <4> QED
        BY <4>1, <4>2, <4>3
    <3> HIDE DEF T
    <3> QED
      BY <3>1, <3>2, InductionOver
  <2> TAKE n \in 0 .. Units
  <2>2. n \in T /\ n <= Units
    BY <2>1, Sizes
  <2> QED
    BY <2>2
<1>6. nth[Units] = End
  <2> DEFINE T == {n \in Nat : n <= Units => nth[n] = End \/ nth[n] >= n - 1}
  <2>1. T = Nat
    <3>1. T \in SUBSET Nat /\ 0 \in T
      BY <1>2, Sizes
    <3>2. ASSUME NEW n \in T PROVE n + 1 \in T
      <4> SUFFICES ASSUME n + 1 <= Units PROVE nth[n + 1] = End \/ nth[n + 1] >= n
        OBVIOUS
      <4>1. /\ n \in 0 .. Units /\ n + 1 \in 0 .. Units /\ nth[n] <= nth[n + 1]
            /\ nth[n] # End => nth[n + 1] >= nth[n] + 1
        BY <1>4
      <4>2. nth[n] = End \/ nth[n] >= n - 1
        BY <4>1
      <4> QED
        BY <1>3, <4>1, <4>2
    <3> HIDE DEF T
    <3> QED
      BY <3>1, <3>2, InductionOver
  <2>2. Units \in T /\ Units \in 0 .. Units
    BY <2>1, Sizes
  <2> QED
    BY <1>3, <2>2, Sizes
<1> QED
  BY <1>5, <1>6 DEF nth

\* It comes past every block of the list ...
LEMMA Visited ==
  ASSUME NEW b, NEW L, Linked(b, L), NEW x \in L
  PROVE  \E n \in 0 .. Units : Nth(b)[n] = x
<1> DEFINE nth == Nth(b)
<1>1. /\ \A n \in 0 .. Units : nth[n] \in L
      /\ \A n \in 1 .. Units : nth[n] = IF nth[n - 1] = End THEN End ELSE b[nth[n - 1]].next
  BY WalkOnList
<1>2. nth[0] = Start /\ nth[Units] = End
  BY NthIs, WalkAscends
<1> HIDE DEF nth
<1>3. \A a \in L : a \in Int /\ Start <= a /\ a <= End
  <2> TAKE a \in L
  <2>1. a \in {Start} \cup 0 .. End
    BY DEF Linked
  <2> QED
    BY <2>1, Sizes
<1> DEFINE T == {n \in 0 .. Units : nth[n] >= x}
<1>4. PICK n \in T : \A m \in T : n <= m
  <2>1. Units \in T
    BY <1>2, <1>3, Sizes
  <2>2. T \in SUBSET Nat
    BY Sizes
  <2> HIDE DEF T
  <2> QED
    BY <2>1, <2>2, LeastNat
<1>5. CASE n = 0
  <2>1. Start >= x /\ 0 \in 0 .. Units
    BY <1>2, <1>4, <1>5, Sizes
  <2>2. nth[0] = x
    BY <1>2, <1>3, <2>1, Sizes
  <2> QED
    BY <2>1, <2>2 DEF nth
<1>6. CASE n # 0
  <2>1. n \in 1 .. Units /\ n - 1 \in 0 .. Units /\ ~ n <= n - 1
    BY <1>4, <1>6, Sizes
  <2>2. ~ nth[n - 1] >= x /\ nth[n - 1] \in L
    BY <1>1, <1>4, <2>1
  <2>3. nth[n - 1] # End
    BY <1>3, <2>2
  <2>4. nth[n] = b[nth[n - 1]].next
    BY <1>1, <2>1, <2>3
  <2>5. nth[n] <= x
    BY <1>3, <2>2, <2>3, <2>4 DEF Linked
  <2>6. nth[n] \in L /\ nth[n] >= x
    BY <1>1, <1>4
  <2>7. nth[n] = x
    BY <1>3, <2>5, <2>6
  <2> QED
    BY <1>4, <2>7 DEF nth
<1> QED
  BY <1>4, <1>5, <1>6 DEF nth

\* ... so that every one but xStart is the next of one before it ...
LEMMA Predecessor ==
  ASSUME NEW b, NEW L, Linked(b, L), NEW x \in L \ {Start}
  PROVE  \E p \in L \ {End} : b[p].next = x /\ p < x
<1> DEFINE nth == Nth(b)
           T == {n \in 0 .. Units : nth[n] = x}
<1>1. PICK n \in T : \A m \in T : n <= m
  <2>1. T # {} /\ T \in SUBSET Nat
    BY Visited, Sizes
  <2> HIDE DEF T
  <2> QED
    BY <2>1, LeastNat
<1>2. /\ \A m \in 0 .. Units : nth[m] \in L
      /\ \A m \in 1 .. Units : nth[m] = IF nth[m - 1] = End THEN End ELSE b[nth[m - 1]].next
      /\ nth[0] = Start
  BY WalkOnList, NthIs
<1> HIDE DEF nth
<1>3. n \in 1 .. Units /\ n - 1 \in 0 .. Units /\ ~ n <= n - 1
  BY <1>1, <1>2, Sizes
<1>4. nth[n - 1] # x /\ nth[n - 1] \in L
  BY <1>1, <1>2, <1>3
<1>5. nth[n - 1] # End /\ x = b[nth[n - 1]].next
  BY <1>1, <1>2, <1>3, <1>4
<1> QED
  BY <1>4, <1>5 DEF Linked

\* ... and a loop over the list stops at the first block it may stop at.
LEMMA FirstIs ==
  ASSUME NEW b, NEW L, Linked(b, L), NEW stops, stops \cap L # {}
  PROVE  /\ First(b, stops) \in stops \cap L
         /\ \A y \in stops \cap L : First(b, stops) <= y
<1> DEFINE nth == Nth(b)
           T == {n \in 0 .. Units : nth[n] \in stops}
<1>1. PICK n \in T : \A m \in T : n <= m
  <2>1. PICK y \in stops \cap L : TRUE
    OBVIOUS
  <2>2. PICK m \in 0 .. Units : nth[m] = y
    BY <2>1, Visited
  <2>3. T # {} /\ T \in SUBSET Nat
    BY <2>1, <2>2, Sizes
  <2> HIDE DEF T
  <2> QED
    BY <2>3, LeastNat
<1> DEFINE Is(k) == nth[k] \in stops /\ \A m \in 0 .. k - 1 : nth[m] \notin stops
<1>2. n \in 0 .. Units /\ Is(n)
  <2>1. \A m \in 0 .. n - 1 : m \in 0 .. Units /\ ~ n <= m
    BY <1>1, Sizes
  <2> QED
    BY <1>1, <2>1
<1>3. ASSUME NEW k \in 0 .. Units, Is(k) PROVE k = n
  <2>1. ~ n \in 0 .. k - 1
    BY <1>2, <1>3
  <2>2. k \in T
    BY <1>3
  <2> QED
    BY <1>1, <1>2, <2>1, <2>2, Sizes
<1>4. (CHOOSE k \in 0 .. Units : Is(k)) = n
  <2>1. Is(CHOOSE k \in 0 .. Units : Is(k)) /\ (CHOOSE k \in 0 .. Units : Is(k)) \in 0 .. Units
    BY <1>2
  <2> QED
    BY <1>3, <2>1
<1>5. First(b, stops) = nth[n]
  BY <1>4 DEF First
<1>6. nth[n] \in stops \cap L
  BY <1>2, WalkOnList
<1>7. ASSUME NEW y \in stops \cap L PROVE nth[n] <= y
  <2>1. PICK m \in 0 .. Units : nth[m] = y
    BY Visited
  <2>2. n <= m
    BY <1>1, <2>1
  <2> QED
    BY <1>2, <2>1, <2>2, WalkAscends
<1> QED
  BY <1>5, <1>6, <1>7

-----------------------------------------------------------------------------
(* The blocks.                                                             *)

Headers == [next : {NULL} \cup 0 .. End, size : 0 .. End, used : BOOLEAN]

BlocksOf(b) == DOMAIN b \ {Start, End}

\* The blocks of b tile the heap.
Layout(b) ==
    /\ {Start, End, 0} \subseteq DOMAIN b /\ DOMAIN b \subseteq {Start} \cup 0 .. End
    /\ b \in [DOMAIN b -> Headers]
    /\ b[Start].size = 0 /\ b[End].size = 0
    /\ \A a \in BlocksOf(b) :
          /\ b[a].size > 0
          /\ a + b[a].size \in BlocksOf(b) \cup {End}
          /\ \A c \in BlocksOf(b) : c <= a \/ a + b[a].size <= c
    /\ \A u \in 0 .. End - 1 : \E a \in BlocksOf(b) : a <= u /\ u < a + b[a].size

\* No two blocks of the list are adjacent, but for x and the one after it.
SeparateBut(b, L, x) ==
    \A a \in L \ {Start, End, x} : b[a].next = End \/ a + b[a].size < b[a].next

Separate(b, L) ==
    \A a \in L \ {Start, End} : b[a].next = End \/ a + b[a].size < b[a].next

\* The units of the blocks in L.
Covered(b, L) == UNION { a .. a + b[a].size - 1 : a \in L \ {Start, End} }

LEMMA BlockIs ==
  ASSUME NEW b, Layout(b), NEW a \in BlocksOf(b)
  PROVE  /\ a \in 0 .. End - 1 /\ a \in DOMAIN b /\ b[a] \in Headers
         /\ b[a].size \in 1 .. End /\ a + b[a].size \in 1 .. End
         /\ b[a].next \in {NULL} \cup 0 .. End /\ b[a].used \in BOOLEAN
<1>1. a \in DOMAIN b /\ a # Start /\ a # End /\ b[a] \in Headers /\ a \in 0 .. End
  BY DEF Layout, BlocksOf
<1>2. b[a].size \in 0 .. End /\ b[a].size > 0 /\ a + b[a].size \in 0 .. End
  <2>1. a + b[a].size \in BlocksOf(b) \cup {End}
    BY DEF Layout
  <2>2. BlocksOf(b) \subseteq 0 .. End
    BY DEF Layout, BlocksOf
  <2> QED
    BY <1>1, <2>1, <2>2, Sizes DEF Layout, Headers
<1> QED
  BY <1>1, <1>2, Sizes DEF Headers

\* The first of two adjacent blocks takes the second one in.
Merged(b, a, c, next, used) ==
    [x \in DOMAIN b \ {c} |-> IF x = a THEN Header(next, b[a].size + b[c].size, used) ELSE b[x]]

LEMMA MergeKeepsLayout ==
  ASSUME NEW b, Layout(b), NEW a \in BlocksOf(b), NEW c \in BlocksOf(b), c = a + b[a].size,
         NEW next \in {NULL} \cup 0 .. End, NEW used \in BOOLEAN
  PROVE  /\ Layout(Merged(b, a, c, next, used))
         /\ BlocksOf(Merged(b, a, c, next, used)) = BlocksOf(b) \ {c}
<1> DEFINE r == Merged(b, a, c, next, used)
           sum == b[a].size + b[c].size
<1>1. /\ \A x \in BlocksOf(b) :
           /\ x \in 0 .. End - 1 /\ b[x].size \in 1 .. End /\ x + b[x].size \in 1 .. End
      /\ \A x \in BlocksOf(b) :
           /\ x + b[x].size \in BlocksOf(b) \cup {End}
           /\ \A y \in BlocksOf(b) : y <= x \/ x + b[x].size <= y
  BY BlockIs DEF Layout
<1>2. /\ a \in 0 .. End - 1 /\ c \in 0 .. End - 1 /\ End \in Nat
      /\ b[a].size \in 1 .. End /\ b[c].size \in 1 .. End
      /\ sum \in 1 .. End /\ a + sum = c + b[c].size /\ a < c /\ c # 0 /\ a # c
  <2>1. /\ a \in 0 .. End - 1 /\ b[a].size \in 1 .. End
        /\ c \in 0 .. End - 1 /\ b[c].size \in 1 .. End /\ c + b[c].size \in 1 .. End
    BY BlockIs
  <2> QED
    BY <2>1, Sizes
<1>3. /\ DOMAIN r = DOMAIN b \ {c}
      /\ r[a] = Header(next, sum, used)
      /\ \A x \in DOMAIN b \ {a, c} : r[x] = b[x]
  <2>1. a \in DOMAIN b \ {c}
    BY <1>2 DEF BlocksOf
  <2> QED
    BY <2>1 DEF Merged
<1>4. r[a] \in Headers /\ r[a].size = sum
  BY <1>2, <1>3, Sizes DEF Headers, Header
<1> HIDE DEF r, sum
<1>5. c # Start /\ c # End /\ a # Start /\ a # End /\ a \in DOMAIN b
  BY DEF BlocksOf
<1>6. BlocksOf(r) = BlocksOf(b) \ {c} /\ BlocksOf(r) \subseteq BlocksOf(b)
  BY <1>3 DEF BlocksOf
<1>7. \A x \in BlocksOf(r) \ {a} : r[x] = b[x]
  BY <1>3, <1>6 DEF BlocksOf
<1>8. /\ {Start, End, 0} \subseteq DOMAIN r /\ DOMAIN r \subseteq {Start} \cup 0 .. End
      /\ r[Start].size = 0 /\ r[End].size = 0
  BY <1>2, <1>3, <1>5 DEF Layout
<1>9. r \in [DOMAIN r -> Headers]
  <2>1. \A x \in DOMAIN r : r[x] \in Headers
    BY <1>3, <1>4 DEF Layout
  <2>2. r = [x \in DOMAIN r |-> r[x]]
    BY DEF r, Merged
  <2> QED
    BY <2>1, <2>2
<1>10. ASSUME NEW x \in BlocksOf(r)
       PROVE  /\ r[x].size > 0
              /\ x + r[x].size \in BlocksOf(r) \cup {End}
              /\ \A y \in BlocksOf(r) : y <= x \/ x + r[x].size <= y
  <2>1. CASE x = a
    <3>1. a + sum \in BlocksOf(r) \cup {End}
      BY <1>1, <1>2, <1>6
    <3>2. \A y \in BlocksOf(r) : y <= a \/ a + sum <= y
      <4> TAKE y \in BlocksOf(r)
      <4>1. y \in BlocksOf(b) /\ y # c
        BY <1>6
      <4>2. /\ y \in 0 .. End - 1
            /\ y <= a \/ c <= y
            /\ y <= c \/ c + b[c].size <= y
        BY <1>1, <4>1
      <4> QED
        BY <1>2, <4>1, <4>2
    <3> QED
      BY <1>2, <1>4, <2>1, <3>1, <3>2
  <2>2. CASE x # a
    <3>1. r[x] = b[x] /\ x \in BlocksOf(b)
      BY <1>6, <1>7, <2>2
    <3>2. x + b[x].size # c
      <4>1. /\ x \in 0 .. End - 1 /\ b[x].size \in 1 .. End
            /\ x <= a \/ c <= x
            /\ a <= x \/ x + b[x].size <= a
        BY <1>1, <3>1
      <4> QED
        BY <1>2, <2>2, <4>1
    <3> QED
      BY <1>1, <1>6, <3>1, <3>2
  <2> QED
    BY <2>1, <2>2
<1>11. ASSUME NEW u \in 0 .. End - 1
       PROVE  \E x \in BlocksOf(r) : x <= u /\ u < x + r[x].size
  <2>1. PICK x \in BlocksOf(b) : x <= u /\ u < x + b[x].size
    BY DEF Layout
  <2>2. CASE x \in {a, c}
    <3>1. a <= u /\ u < a + sum
      BY <1>2, <2>1, <2>2
    <3> QED
      BY <1>2, <1>4, <1>6, <3>1
  <2>3. CASE x \notin {a, c}
    BY <1>6, <1>7, <2>1, <2>3
  <2> QED
    BY <2>2, <2>3
<1>12. Layout(r)
  BY <1>8, <1>9, <1>10, <1>11 DEF Layout
<1> QED
  BY <1>6, <1>12 DEF r

LEMMA CoveredMerged ==
  ASSUME NEW b, Layout(b), NEW a \in BlocksOf(b), NEW c \in BlocksOf(b), c = a + b[a].size,
         NEW next, NEW used, NEW L, a \in L, c \in L, L \subseteq DOMAIN b
  PROVE  Covered(Merged(b, a, c, next, used), L \ {c}) = Covered(b, L)
<1> DEFINE r == Merged(b, a, c, next, used)
           sum == b[a].size + b[c].size
<1>1. /\ a \in 0 .. End - 1 /\ c \in 0 .. End - 1 /\ End \in Nat /\ a < c
      /\ b[a].size \in 1 .. End /\ b[c].size \in 1 .. End
  <2>1. /\ a \in 0 .. End - 1 /\ b[a].size \in 1 .. End
        /\ c \in 0 .. End - 1 /\ b[c].size \in 1 .. End
    BY BlockIs
  <2> QED
    BY <2>1, Sizes
<1>2. a .. a + sum - 1 = (a .. a + b[a].size - 1) \cup (c .. c + b[c].size - 1)
  BY <1>1
<1>3. /\ r[a].size = sum
      /\ \A x \in L \ {a, c} : r[x] = b[x]
  <2>1. a \in DOMAIN b \ {c}
    BY <1>1 DEF BlocksOf
  <2> QED
    BY <2>1 DEF Merged, Header
<1>4. a \in L \ {Start, End} /\ c \in L \ {Start, End} /\ a # c
  BY <1>1 DEF BlocksOf
<1> HIDE DEF r, sum
<1>5. ASSUME NEW u \in Covered(r, L \ {c}) PROVE u \in Covered(b, L)
  <2>1. PICK x \in (L \ {c}) \ {Start, End} : u \in x .. x + r[x].size - 1
    BY <1>5 DEF Covered
  <2>2. CASE x = a
    <3>1. u \in a .. a + b[a].size - 1 \/ u \in c .. c + b[c].size - 1
      BY <1>2, <1>3, <2>1, <2>2
    <3> QED
      BY <1>4, <3>1 DEF Covered
  <2>3. CASE x # a
    BY <1>3, <2>1, <2>3 DEF Covered
  <2> QED
    BY <2>2, <2>3
<1>6. ASSUME NEW u \in Covered(b, L) PROVE u \in Covered(r, L \ {c})
  <2>1. PICK x \in L \ {Start, End} : u \in x .. x + b[x].size - 1
    BY <1>6 DEF Covered
  <2>2. CASE x \in {a, c}
    <3>1. u \in a .. a + r[a].size - 1
      BY <1>2, <1>3, <2>1, <2>2
    <3> QED
      BY <1>4, <3>1 DEF Covered
  <2>3. CASE x \notin {a, c}
    BY <1>3, <2>1, <2>3 DEF Covered
  <2> QED
    BY <2>2, <2>3
<1> QED
  BY <1>5, <1>6 DEF r

-----------------------------------------------------------------------------
(* prvInsertBlockIntoFreeList.                                             *)

\* The blocks of b in L are those of r in K, some of them merged, and linked;
\* the others are what they were.
Kept(b, L, r, K) ==
    /\ Layout(r) /\ Linked(r, K)
    /\ K \subseteq L /\ DOMAIN r = DOMAIN b \ (L \ K)
    /\ \A x \in DOMAIN r : r[x].used = b[x].used
    /\ \A x \in DOMAIN b \ L : r[x] = b[x]
    /\ Covered(r, K) = Covered(b, L)

\* The loop finds the blocks of the list between which the new one lies.
LEMMA BeforeIs ==
  ASSUME NEW b, NEW L, Layout(b), Linked(b, L), NEW new \in BlocksOf(b) \ L
  PROVE  /\ Before(b, new) \in L \ {End} /\ Before(b, new) < new
         /\ b[Before(b, new)].next \in L /\ new < b[Before(b, new)].next
<1> DEFINE stops == {a \in DOMAIN b : b[a].next >= new}
           it == First(b, stops)
<1>1. new \in 0 .. End - 1 /\ End \in Nat /\ Start = -1 /\ NULL = -2 /\ Start # End
  BY BlockIs, Sizes
<1>2. PICK tail \in L \ {End} : b[tail].next = End
  <2>1. End \in L \ {Start}
    BY <1>1 DEF Linked
  <2> QED
    BY <2>1, Predecessor
<1>3. tail \in stops \cap L
  BY <1>1, <1>2 DEF Linked
<1>4. it \in stops \cap L /\ \A y \in stops \cap L : it <= y
  <2> HIDE DEF stops
  <2> QED
    BY <1>3, FirstIs
<1>5. it # End
  BY <1>1, <1>4 DEF Linked
<1> HIDE DEF it
<1>6. b[it].next \in L /\ b[it].next >= new /\ b[it].next # new
  BY <1>4, <1>5 DEF Linked
<1>7. b[it].next \in {Start} \cup 0 .. End /\ it \in {Start} \cup 0 .. End
  BY <1>4, <1>6 DEF Linked
<1>8. it < new
  <2>1. CASE it = Start
    BY <1>1, <2>1
  <2>2. CASE it # Start
    <3>1. PICK p \in L \ {End} : b[p].next = it /\ p < it
      <4>1. it \in L \ {Start}
        BY <1>4, <2>2
      <4> QED
        BY <4>1, Predecessor
    <3>2. p \in {Start} \cup 0 .. End /\ p \in DOMAIN b
      BY DEF Linked
    <3>3. ~ it <= p
      BY <1>1, <1>7, <3>1, <3>2
    <3>4. p \notin stops
      BY <1>4, <3>3
    <3>5. ~ it >= new
      BY <3>1, <3>2, <3>4
    <3> QED
      BY <1>1, <1>7, <3>5
  <2> QED
    BY <2>1, <2>2
<1>9. new < b[it].next
  BY <1>1, <1>6, <1>7
<1>10. Before(b, new) = it
  BY DEF Before, it
<1> QED
  BY <1>4, <1>5, <1>6, <1>8, <1>9, <1>10

LEMMA MergePreviousKeeps ==
  ASSUME NEW b, NEW L, Layout(b), Linked(b, L), Separate(b, L), NEW new \in BlocksOf(b) \ L
  PROVE  LET at == IF Adjacent(b, Before(b, new), new) THEN Before(b, new) ELSE new
             m  == MergePrevious(b, new)
         IN \E K : /\ Kept(b, L \cup {new}, m, K) /\ SeparateBut(m, K, at)
                   /\ at \in K /\ at \in BlocksOf(m)
<1> DEFINE it == Before(b, new)
           m == MergePrevious(b, new)
<1>1. it \in L \ {End} /\ it < new /\ b[it].next \in L /\ new < b[it].next
  BY BeforeIs
<1>2. /\ new \in 0 .. End - 1 /\ new \in DOMAIN b /\ b[new] \in Headers
      /\ End \in Nat /\ Start = -1 /\ NULL = -2 /\ Start # End
      /\ new # Start /\ new # End
  BY BlockIs, Sizes DEF BlocksOf
<1>3. \A a \in L : /\ a \in DOMAIN b /\ a \in Int /\ a >= Start /\ a <= End /\ b[a] \in Headers
  <2> TAKE a \in L
  <2>1. a \in {Start} \cup 0 .. End /\ a \in DOMAIN b
    BY DEF Linked
  <2> QED
    BY <1>2, <2>1 DEF Layout
<1>4. CASE Adjacent(b, it, new)
  <2>1. new = it + b[it].size
    BY <1>4 DEF Adjacent
  <2>2. it # Start
    <3> SUFFICES ASSUME it = Start PROVE FALSE
      OBVIOUS
    <3>1. b[Start].size = 0
      BY DEF Layout
    <3> QED
      BY <1>1, <1>2, <2>1, <3>1
  <2>3. it \in BlocksOf(b) /\ new \in BlocksOf(b)
    BY <1>1, <1>3, <2>2 DEF BlocksOf
  <2>4. b[it].next \in {NULL} \cup 0 .. End /\ b[it].used \in BOOLEAN
    BY <2>3, BlockIs
  <2>5. m = Merged(b, it, new, b[it].next, b[it].used)
    <3>1. m = [a \in DOMAIN b \ {new} |->
                  IF a = it THEN [b[it] EXCEPT !.size = @ + b[new].size] ELSE b[a]]
      BY <1>4 DEF MergePrevious, m, it
    <3>2. [b[it] EXCEPT !.size = @ + b[new].size]
             = Header(b[it].next, b[it].size + b[new].size, b[it].used)
      BY <1>1, <1>3 DEF Header, Headers
    <3> QED
      BY <3>1, <3>2 DEF Merged
  <2> HIDE DEF m, it
  <2>6. Layout(m) /\ BlocksOf(m) = BlocksOf(b) \ {new}
    BY <2>1, <2>3, <2>4, <2>5, MergeKeepsLayout
  <2>7. /\ DOMAIN m = DOMAIN b \ {new}
        /\ \A x \in DOMAIN m \ {it} : m[x] = b[x]
        /\ m[it] = Header(b[it].next, b[it].size + b[new].size, b[it].used)
    BY <1>1, <1>3, <2>5 DEF Merged
  <2>8. m[it].next = b[it].next /\ m[it].used = b[it].used
    BY <2>7 DEF Header
  <2>9. L \subseteq DOMAIN m /\ \A x \in L : m[x].next = b[x].next
    BY <1>3, <2>7, <2>8
  <2>10. Linked(m, L)
    <3>1. m[End].next = NULL
      BY <2>9 DEF Linked
    <3> QED
      BY <2>9, <3>1 DEF Linked
  <2>11. SeparateBut(m, L, it)
    BY <1>3, <2>7 DEF Separate, SeparateBut
  <2>12. Covered(m, L) = Covered(b, L \cup {new})
    <3>1. (L \cup {new}) \ {new} = L
      OBVIOUS
    <3>2. L \cup {new} \subseteq DOMAIN b /\ it \in L \cup {new} /\ new \in L \cup {new}
      BY <1>1, <1>2, <1>3
    <3>3. Covered(Merged(b, it, new, b[it].next, b[it].used), (L \cup {new}) \ {new})
            = Covered(b, L \cup {new})
      BY <2>1, <2>3, <3>2, CoveredMerged
    <3> QED
      BY <2>5, <3>1, <3>3
  <2>13. Kept(b, L \cup {new}, m, L)
    <3>1. (L \cup {new}) \ L = {new}
      OBVIOUS
    <3>2. \A x \in DOMAIN m : m[x].used = b[x].used
      BY <2>7, <2>8
    <3>3. \A x \in DOMAIN b \ (L \cup {new}) : m[x] = b[x]
      BY <1>1, <2>7
    <3> QED
      BY <2>6, <2>7, <2>10, <2>12, <3>1, <3>2, <3>3 DEF Kept
  <2>14. it \in L /\ it \in BlocksOf(m)
    BY <1>1, <1>2, <2>3, <2>6
  <2> QED
    BY <1>4, <2>11, <2>13, <2>14 DEF it, m
<1>5. CASE ~ Adjacent(b, it, new)
  <2> DEFINE K == L \cup {new}
             next == b[it].next
  <2>1. m = [b EXCEPT ![new].next = next, ![it].next = new]
    BY <1>5 DEF MergePrevious, m, it
  <2> HIDE DEF m, it, next
  <2>2. it \in DOMAIN b /\ it # new /\ b[it] \in Headers
    BY <1>1, <1>3
  <2>3. /\ DOMAIN m = DOMAIN b
        /\ m[new] = [b[new] EXCEPT !.next = next]
        /\ m[it] = [b[it] EXCEPT !.next = new]
        /\ \A x \in DOMAIN b \ {it, new} : m[x] = b[x]
    BY <1>2, <2>1, <2>2
  <2>4. next \in L /\ new < next /\ next \in 0 .. End
    <3>1. next \in L /\ new < next
      BY <1>1 DEF next
    <3> QED
      BY <1>2, <1>3, <3>1
  <2>5. /\ m[new].next = next /\ m[new].size = b[new].size /\ m[new].used = b[new].used
        /\ m[it].next = new /\ m[it].size = b[it].size /\ m[it].used = b[it].used
        /\ m[new] \in Headers /\ m[it] \in Headers
    BY <1>2, <2>2, <2>3, <2>4 DEF Headers
  <2>6. \A x \in DOMAIN b : m[x].size = b[x].size /\ m[x].used = b[x].used /\ m[x] \in Headers
    BY <2>3, <2>5 DEF Layout
  <2>7. BlocksOf(m) = BlocksOf(b)
    BY <2>3 DEF BlocksOf
  <2>8. Layout(m)
    <3>1. m \in [DOMAIN m -> Headers]
      <4>1. m = [x \in DOMAIN m |-> m[x]]
        BY <2>1
      <4> QED
        BY <2>3, <2>6, <4>1
    <3>2. \A x \in BlocksOf(b) : m[x].size = b[x].size
      BY <2>6 DEF BlocksOf
    <3>3. m[Start].size = 0 /\ m[End].size = 0
      BY <2>6 DEF Layout
    <3> QED
      BY <2>3, <2>7, <3>1, <3>2, <3>3 DEF Layout
  <2>9. \A a \in L \ {End} : a <= it \/ next <= a
    BY <1>1 DEF Linked, next
  <2>10. ASSUME NEW a \in K \ {End}
         PROVE  /\ m[a].next \in K /\ a < m[a].next
                /\ \A c \in K : c <= a \/ m[a].next <= c
    <3>1. CASE a = new
      <4>1. \A c \in K : c <= new \/ next <= c
        <5> TAKE c \in K
        <5>1. CASE c = new
          BY <1>2, <5>1
        <5>2. CASE c \in L
          <6>1. c <= it \/ next <= c
            BY <1>1, <5>2 DEF Linked, next
          <6> QED
            BY <1>1, <1>2, <1>3, <5>2, <6>1
        <5> QED
          BY <5>1, <5>2
      <4> QED
        BY <2>4, <2>5, <3>1, <4>1
    <3>2. CASE a = it
      <4>1. \A c \in K : c <= it \/ new <= c
        <5> TAKE c \in K
        <5>1. CASE c = new
          BY <1>2, <5>1
        <5>2. CASE c \in L
          <6>1. c <= it \/ next <= c
            BY <1>1, <5>2 DEF Linked, next
          <6> QED
            BY <1>2, <1>3, <2>4, <5>2, <6>1
        <5> QED
          BY <5>1, <5>2
      <4> QED
        BY <1>1, <2>5, <3>2, <4>1
    <3>3. CASE a # new /\ a # it
      <4>1. a \in L \ {End} /\ m[a].next = b[a].next
        BY <1>3, <2>3, <3>3
      <4>2. b[a].next \in L /\ a < b[a].next /\ \A c \in L : c <= a \/ b[a].next <= c
        BY <4>1 DEF Linked
      <4>3. new <= a \/ b[a].next <= new
        <5>1. it <= a \/ b[a].next <= it
          BY <1>1, <4>2
        <5>2. a <= it \/ next <= a
          BY <2>9, <4>1
        <5>3. a \in Int /\ it \in Int /\ new \in Int /\ next \in Int /\ b[a].next \in Int
          <6>1. a \in L /\ it \in L /\ next \in L /\ b[a].next \in L
            BY <1>1, <2>4, <4>1, <4>2
          <6>2. \A x \in L : x \in Int
            BY <1>3
          <6> QED
            BY <1>2, <6>1, <6>2
        <5>4. it < new /\ new < next /\ a # it
          BY <1>1, <2>4, <3>3
        <5> QED
          BY <5>1, <5>2, <5>3, <5>4
      <4> QED
        BY <4>1, <4>2, <4>3
    <3> QED
      BY <3>1, <3>2, <3>3
  <2>11. Linked(m, K)
    <3>1. {Start, End} \subseteq K /\ K \subseteq DOMAIN m /\ K \subseteq {Start} \cup 0 .. End
      BY <1>2, <2>3 DEF Linked
    <3>2. m[End].next = NULL
      BY <1>1, <1>2, <1>3, <2>3 DEF Linked
    <3> QED
      BY <2>10, <3>1, <3>2 DEF Linked
  <2>12. SeparateBut(m, K, new)
    <3> SUFFICES ASSUME NEW a \in K \ {Start, End, new}
                 PROVE  m[a].next = End \/ a + m[a].size < m[a].next
      BY DEF SeparateBut
    <3>1. a \in L \ {Start, End} /\ a \in DOMAIN b
      BY <1>3
    <3>2. CASE a = it
      <4>1. a \in BlocksOf(b)
        BY <3>1 DEF BlocksOf
      <4>2. new <= a \/ a + b[a].size <= new
        BY <4>1 DEF Layout
      <4>3. a + b[a].size # new
        BY <1>5, <3>2 DEF Adjacent, it
      <4>4. a \in 0 .. End - 1 /\ b[a].size \in 1 .. End
        BY <4>1, BlockIs
      <4> QED
        BY <1>1, <1>2, <2>5, <3>2, <4>2, <4>3, <4>4
    <3>3. CASE a # it
      BY <2>3, <3>1, <3>3 DEF Separate
    <3> QED
      BY <3>2, <3>3
  <2>13. Covered(m, K) = Covered(b, K)
    <3>1. \A x \in K : m[x].size = b[x].size
      BY <1>2, <1>3, <2>6
    <3> QED
      BY <3>1 DEF Covered
  <2>14. Kept(b, K, m, K)
    <3>1. DOMAIN m = DOMAIN b \ (K \ K)
      BY <2>3
    <3>2. \A x \in DOMAIN b \ K : m[x] = b[x]
      BY <1>1, <2>3
    <3> QED
      BY <2>3, <2>6, <2>8, <2>11, <2>13, <3>1, <3>2 DEF Kept
  <2>15. new \in K /\ new \in BlocksOf(m)
    BY <2>7
  <2> QED
    BY <1>5, <2>12, <2>14, <2>15 DEF it, m
<1> QED
  BY <1>4, <1>5

LEMMA MergeNextKeeps ==
  ASSUME NEW b, NEW L, Layout(b), Linked(b, L), NEW at \in L, at \in BlocksOf(b),
         SeparateBut(b, L, at), \A x \in L : ~ b[x].used
  PROVE  \E K : Kept(b, L, MergeNext(b, at), K) /\ Separate(MergeNext(b, at), K)
<1> DEFINE r == MergeNext(b, at)
           next == b[at].next
<1>1. next \in L /\ at < next /\ at \in L \ {Start, End}
  BY DEF BlocksOf, Linked
<1>2. /\ at \in 0 .. End - 1 /\ b[at].size \in 1 .. End
      /\ End \in Nat /\ Start = -1 /\ NULL = -2 /\ Start # End
  BY BlockIs, Sizes
<1>3. \A a \in L : a \in DOMAIN b /\ a \in Int /\ a >= Start /\ a <= End
  <2> TAKE a \in L
  <2>1. a \in {Start} \cup 0 .. End /\ a \in DOMAIN b
    BY DEF Linked
  <2> QED
    BY <1>2, <2>1
<1>4. next = End \/ next \in BlocksOf(b)
  BY <1>1, <1>2, <1>3 DEF BlocksOf
<1>5. CASE at + b[at].size = next /\ next # End
  <2> DEFINE K == L \ {next}
  <2>1. next \in BlocksOf(b)
    BY <1>4, <1>5
  <2>2. b[next].next \in L /\ next < b[next].next
        /\ b[next].next \in {NULL} \cup 0 .. End /\ next \in 0 .. End - 1
    <3>1. b[next].next \in L /\ next < b[next].next
      BY <1>1, <1>5 DEF Linked
    <3> QED
      BY <2>1, <3>1, BlockIs
  <2> DEFINE after == b[next].next
             no == FALSE
  <2>3. r = Merged(b, at, next, after, no) /\ no \in BOOLEAN
    BY <1>5 DEF MergeNext, MergedSize, Merged, r, next
  <2> HIDE DEF r, next, no
  <2>4. Layout(r) /\ BlocksOf(r) = BlocksOf(b) \ {next}
    <3>1. next = at + b[at].size /\ after \in {NULL} \cup 0 .. End
      BY <1>5, <2>2
    <3> HIDE DEF after
    <3> QED
      BY <2>1, <2>3, <3>1, MergeKeepsLayout DEF after
  <2>5. Covered(r, K) = Covered(b, L)
    <3>1. L \subseteq DOMAIN b /\ next \in L /\ next = at + b[at].size
      BY <1>1, <1>3, <1>5
    <3> HIDE DEF after
    <3>2. Covered(Merged(b, at, next, after, no), L \ {next}) = Covered(b, L)
      BY <2>1, <3>1, CoveredMerged
    <3> QED
      BY <2>3, <3>2 DEF after
  <2>6. /\ DOMAIN r = DOMAIN b \ {next}
        /\ \A x \in DOMAIN r \ {at} : r[x] = b[x]
        /\ r[at].next = after /\ r[at].used = FALSE /\ r[at].size = b[at].size + b[next].size
    <3>1. at \in DOMAIN b \ {next}
      BY <1>1, <1>2, <1>3
    <3> QED
      BY <2>3, <3>1 DEF Merged, Header, no
  <2>7. next # Start /\ next # End /\ at # next
    BY <1>1, <1>2, <1>5
  <2>8. ASSUME NEW a \in K \ {End}
        PROVE  /\ r[a].next \in K /\ a < r[a].next
               /\ \A c \in K : c <= a \/ r[a].next <= c
    <3>1. CASE a = at
      <4>1. after \in K
        BY <1>3, <2>2
      <4>2. at < after
        BY <1>1, <1>2, <1>3, <2>2
      <4>3. ASSUME NEW c \in K PROVE c <= at \/ after <= c
        <5>1. c <= at \/ next <= c
          BY <1>1 DEF Linked, next
        <5>2. c <= next \/ after <= c
          BY <1>1, <1>5 DEF Linked
        <5>3. c # next /\ c \in Int /\ next \in Int
          BY <1>1, <1>3
        <5> QED
          BY <5>1, <5>2, <5>3
      <4> QED
        BY <2>6, <3>1, <4>1, <4>2, <4>3
    <3>2. CASE a # at
      <4>1. a \in L \ {End} /\ r[a] = b[a]
        BY <1>3, <2>6, <3>2
      <4>2. b[a].next \in L /\ a < b[a].next /\ \A c \in L : c <= a \/ b[a].next <= c
        BY <4>1 DEF Linked
      <4>3. b[a].next # next
        <5> SUFFICES ASSUME b[a].next = next PROVE FALSE
          OBVIOUS
        <5>1. at <= a \/ next <= at
          BY <1>1, <4>2
        <5>2. a <= at \/ next <= a
          BY <1>1, <4>1 DEF Linked, next
        <5>3. a \in Int /\ at \in Int /\ next \in Int
          BY <1>1, <1>3, <4>1
        <5> QED
          BY <1>1, <3>2, <4>2, <5>1, <5>2, <5>3
      <4> QED
        BY <4>1, <4>2, <4>3
    <3> QED
      BY <3>1, <3>2
  <2>9. Linked(r, K)
    <3>1. {Start, End} \subseteq K /\ K \subseteq DOMAIN r /\ K \subseteq {Start} \cup 0 .. End
      BY <1>3, <2>6, <2>7 DEF Linked
    <3>2. r[End].next = NULL
      BY <1>1, <1>3, <2>6, <2>7 DEF Linked
    <3> QED
      BY <2>8, <3>1, <3>2 DEF Linked
  <2>10. ASSUME NEW a \in K \ {Start, End}
         PROVE  r[a].next = End \/ a + r[a].size < r[a].next
    <3>1. CASE a = at
      <4>1. after = End \/ next + b[next].size < after
        BY <1>1, <2>7 DEF SeparateBut
      <4>2. b[next].size \in 1 .. End
        BY <2>1, BlockIs
      <4>3. next + b[next].size = at + r[at].size
        BY <1>2, <1>5, <2>6, <4>2
      <4> QED
        BY <2>6, <3>1, <4>1, <4>3
    <3>2. CASE a # at
      <4>1. r[a] = b[a] /\ a \in L \ {Start, End, at}
        BY <1>3, <2>6, <3>2
      <4> QED
        BY <4>1 DEF SeparateBut
    <3> QED
      BY <3>1, <3>2
  <2>11. Separate(r, K)
    BY <2>10 DEF Separate
  <2>12. Kept(b, L, r, K)
    <3>1. L \ K = {next} /\ K \subseteq L
      BY <1>1
    <3>2. \A x \in DOMAIN r : r[x].used = b[x].used
      <4>1. b[at].used \in BOOLEAN /\ ~ b[at].used
        BY BlockIs
      <4> QED
        BY <2>6, <4>1
    <3>3. \A x \in DOMAIN b \ L : r[x] = b[x]
      BY <1>1, <2>6
    <3> QED
      BY <2>4, <2>5, <2>6, <2>9, <3>1, <3>2, <3>3 DEF Kept
  <2> QED
    BY <2>11, <2>12 DEF r
<1>6. CASE ~ (at + b[at].size = next /\ next # End)
  <2>1. r = b
    BY <1>6 DEF MergeNext, r, next
  <2>2. Separate(b, L)
    <3> SUFFICES ASSUME next # End PROVE at + b[at].size < next
      BY DEF Separate, SeparateBut, next
    <3>1. next \in BlocksOf(b)
      BY <1>4
    <3>2. next <= at \/ at + b[at].size <= next
      BY <3>1 DEF Layout
    <3>3. next \in Int
      BY <1>1, <1>3
    <3> HIDE DEF next
    <3> QED
      BY <1>1, <1>2, <1>6, <3>2, <3>3
  <2>3. Kept(b, L, b, L)
    <3>1. DOMAIN b = DOMAIN b \ (L \ L)
      OBVIOUS
    <3> QED
      BY <3>1 DEF Kept
  <2> QED
    BY <2>1, <2>2, <2>3 DEF r
<1> QED
  BY <1>5, <1>6

LEMMA KeptTwice ==
  ASSUME NEW b, NEW L, NEW m, NEW M, NEW r, NEW K, L \subseteq DOMAIN b,
         Kept(b, L, m, M), Kept(m, M, r, K)
  PROVE  Kept(b, L, r, K)
<1>1. K \subseteq L /\ DOMAIN m = DOMAIN b \ (L \ M) /\ DOMAIN r = DOMAIN m \ (M \ K)
  BY DEF Kept
<1>2. DOMAIN r = DOMAIN b \ (L \ K)
  <2>1. M \subseteq L /\ K \subseteq M
    BY DEF Kept
  <2> QED
    BY <1>1, <2>1
<1>3. \A x \in DOMAIN b \ L : r[x] = b[x]
  <2> TAKE x \in DOMAIN b \ L
  <2>1. m[x] = b[x] /\ x \in DOMAIN m \ M
    BY <1>1 DEF Kept
  <2> QED
    BY <2>1 DEF Kept
<1>4. \A x \in DOMAIN r : r[x].used = b[x].used
  <2> TAKE x \in DOMAIN r
  <2>1. x \in DOMAIN m /\ r[x].used = m[x].used
    BY <1>1 DEF Kept
  <2> QED
    BY <2>1 DEF Kept
<1> QED
  BY <1>1, <1>2, <1>3, <1>4 DEF Kept

\* prvInsertBlockIntoFreeList links the new block in and merges it with its
\* neighbours.
LEMMA InsertKeeps ==
  ASSUME NEW b, NEW L, Layout(b), Linked(b, L), Separate(b, L), NEW new \in BlocksOf(b) \ L,
         \A x \in L \cup {new} : ~ b[x].used
  PROVE  \E K : Kept(b, L \cup {new}, Insert(b, new), K) /\ Separate(Insert(b, new), K)
<1> DEFINE m == MergePrevious(b, new)
           at == IF Adjacent(b, Before(b, new), new) THEN Before(b, new) ELSE new
<1>1. PICK M : /\ Kept(b, L \cup {new}, m, M) /\ SeparateBut(m, M, at)
               /\ at \in M /\ at \in BlocksOf(m)
  BY MergePreviousKeeps
<1>2. Insert(b, new) = MergeNext(m, at)
  BY DEF Insert
<1> HIDE DEF m, at
<1>3. M \subseteq DOMAIN m /\ M \subseteq L \cup {new} /\ Layout(m) /\ Linked(m, M)
  BY <1>1 DEF Kept, Linked
<1>4. \A x \in M : ~ m[x].used
  BY <1>1, <1>3 DEF Kept
<1>5. PICK K : Kept(m, M, MergeNext(m, at), K) /\ Separate(MergeNext(m, at), K)
  BY <1>1, <1>3, <1>4, MergeNextKeeps
<1>6. L \cup {new} \subseteq DOMAIN b
  BY DEF Linked, BlocksOf
<1>7. Kept(b, L \cup {new}, MergeNext(m, at), K)
  BY <1>1, <1>5, <1>6, KeptTwice
<1> QED
  BY <1>2, <1>5, <1>7

-----------------------------------------------------------------------------
(* pvPortMalloc takes a block off the list and cuts it.                    *)

FreeList(b) == {a \in DOMAIN b : ~ b[a].used}

Good(b) == Layout(b) /\ Linked(b, FreeList(b)) /\ Separate(b, FreeList(b))

\* The loop of pvPortMalloc stops at a block that is big enough, and at pxEnd
\* only when there is none.
LEMMA FitIs ==
  ASSUME NEW b, NEW L, Layout(b), Linked(b, L), NEW want \in Nat \ {0}
  PROVE  /\ Fit(b, want) \in L \ {Start}
         /\ Fit(b, want) # End => Fit(b, want) \in BlocksOf(b) /\ b[Fit(b, want)].size >= want
         /\ Fit(b, want) = End => \A x \in L \ {Start, End} : b[x].size < want
<1> DEFINE stops == {a \in DOMAIN b : b[a].size >= want \/ b[a].next = NULL}
           at == First(b, stops)
<1>1. /\ {Start, End} \subseteq L /\ L \subseteq DOMAIN b /\ L \subseteq {Start} \cup 0 .. End
      /\ b[End].next = NULL
      /\ \A a \in L \ {End} : b[a].next \in L /\ a < b[a].next
  BY DEF Linked
<1>2. End \in Nat /\ Start = -1 /\ NULL = -2 /\ Start # End
  BY Sizes
<1>3. at \in stops \cap L /\ \A y \in stops \cap L : at <= y
  <2>1. End \in stops \cap L
    BY <1>1
  <2> HIDE DEF stops
  <2> QED
    BY <2>1, FirstIs
<1>4. Fit(b, want) = at
  BY DEF Fit
<1> HIDE DEF at
<1>5. ASSUME NEW x \in L \ {End} PROVE b[x].next # NULL
  <2>1. b[x].next \in {Start} \cup 0 .. End
    BY <1>1
  <2> QED
    BY <1>2, <2>1
<1>6. b[Start].size = 0
  BY DEF Layout
<1>7. at # Start
  <2> SUFFICES ASSUME at = Start PROVE FALSE
    OBVIOUS
  <2>1. b[Start].next # NULL
    BY <1>1, <1>2, <1>5
  <2> QED
    BY <1>3, <1>6, <2>1
<1>8. ASSUME at # End PROVE at \in BlocksOf(b) /\ b[at].size >= want
  <2>1. b[at].next # NULL
    BY <1>3, <1>5, <1>8
  <2> QED
    BY <1>1, <1>3, <1>7, <1>8, <2>1 DEF BlocksOf
<1>9. ASSUME at = End, NEW x \in L \ {Start, End} PROVE b[x].size < want
  <2>1. x \in BlocksOf(b) /\ x \in DOMAIN b
    BY <1>1 DEF BlocksOf
  <2>2. x \in 0 .. End - 1 /\ b[x].size \in 1 .. End
    BY <2>1, BlockIs
  <2>3. x \notin stops
    BY <1>2, <1>3, <1>9, <2>2
  <2> QED
    BY <2>1, <2>2, <2>3
<1> QED
  BY <1>3, <1>4, <1>7, <1>8, <1>9

LEMMA UnlinkedKeeps ==
  ASSUME NEW b, NEW L, Layout(b), Linked(b, L), Separate(b, L), NEW at \in L, at \in BlocksOf(b)
  PROVE  LET r == Unlinked(b, at) IN
         /\ Layout(r) /\ Linked(r, L \ {at}) /\ Separate(r, L \ {at})
         /\ DOMAIN r = DOMAIN b
         /\ \A x \in DOMAIN b : r[x].size = b[x].size /\ r[x].used = b[x].used
         /\ \A x \in DOMAIN b \ L : r[x] = b[x]
         /\ r[at] = b[at]
<1> DEFINE r == Unlinked(b, at)
           stops == {a \in DOMAIN b : b[a].next = at}
           p == First(b, stops)
           K == L \ {at}
           next == b[at].next
<1>1. /\ {Start, End} \subseteq L /\ L \subseteq DOMAIN b /\ L \subseteq {Start} \cup 0 .. End
      /\ b[End].next = NULL
      /\ \A a \in L \ {End} : /\ b[a].next \in L /\ a < b[a].next
                              /\ \A c \in L : c <= a \/ b[a].next <= c
  BY DEF Linked
<1>2. /\ at \in 0 .. End - 1 /\ at # Start /\ at # End
      /\ End \in Nat /\ Start = -1 /\ NULL = -2 /\ Start # End
  BY BlockIs, Sizes DEF BlocksOf
<1>3. p \in stops \cap L
  <2>1. PICK q \in L \ {End} : b[q].next = at /\ q < at
    <3>1. at \in L \ {Start}
      BY <1>2
    <3> QED
      BY <3>1, Predecessor
  <2>2. q \in stops \cap L
    BY <1>1, <2>1
  <2> HIDE DEF stops
  <2> QED
    BY <2>2, FirstIs
<1>4. r = [b EXCEPT ![p].next = next]
  BY DEF Unlinked, r, p, stops, next
<1> HIDE DEF r, p
<1>5. p \in L \ {End} /\ p \in DOMAIN b /\ b[p].next = at /\ p < at
  <2>1. p \in L /\ b[p].next = at /\ p \in DOMAIN b
    BY <1>1, <1>3
  <2>2. p # End
    BY <1>1, <1>2, <2>1
  <2> QED
    BY <1>1, <2>1, <2>2
<1>6. next \in L /\ at < next /\ next \in 0 .. End /\ b[p] \in Headers
  <2>1. next \in L /\ at < next
    BY <1>1, <1>2
  <2>2. next \in {Start} \cup 0 .. End
    BY <1>1, <2>1
  <2> QED
    BY <1>2, <1>5, <2>1, <2>2 DEF Layout
<1> HIDE DEF next
<1>7. /\ DOMAIN r = DOMAIN b
      /\ r[p] = [b[p] EXCEPT !.next = next]
      /\ \A x \in DOMAIN b \ {p} : r[x] = b[x]
  BY <1>4, <1>5
<1>8. r[p].next = next /\ r[p].size = b[p].size /\ r[p].used = b[p].used /\ r[p] \in Headers
  BY <1>5, <1>6, <1>7 DEF Headers
<1>9. \A x \in DOMAIN b : r[x].size = b[x].size /\ r[x].used = b[x].used /\ r[x] \in Headers
  BY <1>7, <1>8 DEF Layout
<1>10. BlocksOf(r) = BlocksOf(b)
  BY <1>7 DEF BlocksOf
<1>11. Layout(r)
  <2>1. r \in [DOMAIN r -> Headers]
    <3>1. r = [x \in DOMAIN r |-> r[x]]
      BY <1>4
    <3> QED
      BY <1>7, <1>9, <3>1
  <2>2. \A x \in BlocksOf(b) : r[x].size = b[x].size
    BY <1>9 DEF BlocksOf
  <2>3. r[Start].size = 0 /\ r[End].size = 0
    BY <1>9 DEF Layout
  <2> QED
    BY <1>7, <1>10, <2>1, <2>2, <2>3 DEF Layout
<1>12. at # p /\ at # next
  BY <1>2, <1>5, <1>6
<1>13. \A x \in L : x \in Int
  BY <1>1, <1>2
<1>14. ASSUME NEW a \in K \ {End}
       PROVE  /\ r[a].next \in K /\ a < r[a].next
              /\ \A c \in K : c <= a \/ r[a].next <= c
  <2>1. CASE a = p
    <3>1. p < next
      <4>1. p \in Int /\ at \in Int /\ next \in Int
        BY <1>5, <1>6, <1>13
      <4> QED
        BY <1>5, <1>6, <4>1
    <3>2. ASSUME NEW c \in K PROVE c <= p \/ next <= c
      <4>1. c <= p \/ at <= c
        BY <1>1, <1>5
      <4>2. c <= at \/ next <= c
        BY <1>1, <1>2 DEF next
      <4> QED
        BY <1>13, <4>1, <4>2
    <3> QED
      BY <1>6, <1>8, <1>12, <2>1, <3>1, <3>2
  <2>2. CASE a # p
    <3>1. a \in L \ {End} /\ r[a] = b[a]
      BY <1>1, <1>7, <2>2
    <3>2. b[a].next \in L /\ a < b[a].next /\ \A c \in L : c <= a \/ b[a].next <= c
      BY <1>1, <3>1
    <3>3. b[a].next # at
      <4> SUFFICES ASSUME b[a].next = at PROVE FALSE
        OBVIOUS
      <4>1. p <= a \/ at <= p
        BY <1>5, <3>2
      <4>2. a <= p \/ at <= a
        BY <1>1, <1>5, <3>1
      <4>3. a \in Int /\ p \in Int /\ at \in Int
        BY <1>5, <1>13, <3>1
      <4> QED
        BY <1>5, <2>2, <3>2, <4>1, <4>2, <4>3
    <3> QED
      BY <3>1, <3>2, <3>3
  <2> QED
    BY <2>1, <2>2
<1>15. Linked(r, K)
  <2>1. {Start, End} \subseteq K /\ K \subseteq DOMAIN r /\ K \subseteq {Start} \cup 0 .. End
    BY <1>1, <1>2, <1>7
  <2>2. r[End].next = NULL
    BY <1>1, <1>5, <1>7
  <2> QED
    BY <1>14, <2>1, <2>2 DEF Linked
<1>16. ASSUME NEW a \in K \ {Start, End}
       PROVE  r[a].next = End \/ a + r[a].size < r[a].next
  <2>1. CASE a = p
    <3>1. a + b[a].size < at
      BY <1>2, <1>5, <2>1 DEF Separate
    <3>2. a \in BlocksOf(b)
      BY <1>1 DEF BlocksOf
    <3>3. a \in 0 .. End - 1 /\ b[a].size \in 1 .. End
      BY <3>2, BlockIs
    <3>4. a + b[a].size < next
      BY <1>2, <1>6, <3>1, <3>3
    <3> QED
      BY <1>8, <2>1, <3>4
  <2>2. CASE a # p
    <3>1. r[a] = b[a] /\ a \in L \ {Start, End}
      BY <1>1, <1>7, <2>2
    <3> QED
      BY <3>1 DEF Separate
  <2> QED
    BY <2>1, <2>2
<1>17. Separate(r, K)
  BY <1>16 DEF Separate
<1>18. r[at] = b[at] /\ \A x \in DOMAIN b \ L : r[x] = b[x]
  BY <1>1, <1>5, <1>7, <1>12
<1> QED
  BY <1>7, <1>9, <1>11, <1>15, <1>17, <1>18 DEF r

LEMMA Disjoint ==
  ASSUME NEW b, Layout(b), NEW a \in BlocksOf(b), NEW c \in BlocksOf(b), a # c
  PROVE  (a .. a + b[a].size - 1) \cap (c .. c + b[c].size - 1) = {}
<1>1. /\ a \in 0 .. End - 1 /\ b[a].size \in 1 .. End
      /\ c \in 0 .. End - 1 /\ b[c].size \in 1 .. End
  BY BlockIs
<1>2. /\ c <= a \/ a + b[a].size <= c
      /\ a <= c \/ c + b[c].size <= a
  BY DEF Layout
<1> QED
  BY <1>1, <1>2, Sizes

LEMMA SplitKeeps ==
  ASSUME NEW b, Layout(b), NEW at \in BlocksOf(b), NEW want \in Nat \ {0}, want < b[at].size,
         NEW K, Linked(b, K), Separate(b, K), at \notin K,
         NEW r, r = Split(b, at, want)
  PROVE  /\ Layout(r) /\ Linked(r, K) /\ Separate(r, K)
         /\ at + want \notin DOMAIN b /\ at + want \in BlocksOf(r)
         /\ DOMAIN r = DOMAIN b \cup {at + want}
         /\ \A x \in DOMAIN b : r[x].used = b[x].used
         /\ \A x \in DOMAIN b \ {at} : r[x] = b[x]
         /\ r[at].size = want
         /\ r[at + want].size = b[at].size - want /\ ~ r[at + want].used
<1> DEFINE new == at + want
           rest == b[at].size - want
<1>1. /\ \A x \in BlocksOf(b) :
           /\ x \in 0 .. End - 1 /\ b[x].size \in 1 .. End /\ x + b[x].size \in 1 .. End
      /\ \A x \in BlocksOf(b) :
           /\ x + b[x].size \in BlocksOf(b) \cup {End}
           /\ \A y \in BlocksOf(b) : y <= x \/ x + b[x].size <= y
  BY BlockIs DEF Layout
<1>2. /\ at \in 0 .. End - 1 /\ b[at].size \in 1 .. End /\ at + b[at].size \in 1 .. End
      /\ End \in Nat /\ Start = -1 /\ NULL = -2
  BY <1>1, Sizes
<1>3. /\ new \in 1 .. End - 1 /\ want \in 1 .. End /\ rest \in 1 .. End
      /\ new + rest = at + b[at].size /\ at < new
  BY <1>2
<1>4. at \in DOMAIN b /\ at # Start /\ at # End /\ b[at] \in Headers
  BY BlockIs DEF BlocksOf
<1>5. new \notin DOMAIN b
  <2> SUFFICES ASSUME new \in DOMAIN b PROVE FALSE
    OBVIOUS
  <2>1. new \in BlocksOf(b)
    BY <1>2, <1>3 DEF BlocksOf
  <2>2. new <= at \/ at + b[at].size <= new
    BY <1>1, <2>1
  <2> QED
    BY <1>2, <1>3, <2>2
<1>6. /\ DOMAIN r = DOMAIN b \cup {new}
      /\ r[at] = [b[at] EXCEPT !.size = want]
      /\ r[new] = Header(NULL, rest, FALSE)
      /\ \A x \in DOMAIN b \ {at} : r[x] = b[x]
      /\ r = [x \in DOMAIN r |-> r[x]]
  <2> DEFINE first == [b[at] EXCEPT !.size = want]
             second == Header(NULL, rest, FALSE)
  <2>1. r = [a \in DOMAIN b \cup {new} |->
                CASE a = at -> first [] a = new -> second [] OTHER -> b[a]]
    BY DEF Split
  <2> HIDE DEF new, first, second
  <2>2. DOMAIN r = DOMAIN b \cup {new} /\ r = [x \in DOMAIN r |-> r[x]]
    BY <2>1
  <2> at # new
    BY <1>2, <1>3
  <2>3. r[at] = first
    BY <1>4, <2>1
  <2>4. r[new] = second
    BY <2>1
  <2>5. \A x \in DOMAIN b \ {at} : r[x] = b[x]
    BY <1>5, <2>1
  <2> QED
    BY <2>2, <2>3, <2>4, <2>5 DEF first, second
<1> HIDE DEF new, rest
<1>7. /\ r[at].size = want /\ r[at].used = b[at].used /\ r[at].next = b[at].next
      /\ r[at] \in Headers
      /\ r[new].size = rest /\ r[new].used = FALSE /\ r[new] \in Headers
  BY <1>3, <1>4, <1>6 DEF Header, Headers
<1>8. /\ BlocksOf(r) = BlocksOf(b) \cup {new}
      /\ \A x \in BlocksOf(b) \ {at} : r[x] = b[x]
      /\ at \in BlocksOf(r) /\ new \in BlocksOf(r)
  BY <1>2, <1>3, <1>6 DEF BlocksOf
<1>9. /\ {Start, End, 0} \subseteq DOMAIN r /\ DOMAIN r \subseteq {Start} \cup 0 .. End
      /\ r[Start].size = 0 /\ r[End].size = 0
  BY <1>2, <1>3, <1>4, <1>6 DEF Layout
<1>10. r \in [DOMAIN r -> Headers]
  <2>1. \A x \in DOMAIN r : r[x] \in Headers
    BY <1>6, <1>7 DEF Layout
  <2> QED
    BY <1>6, <2>1
<1>11. ASSUME NEW x \in BlocksOf(r)
       PROVE  /\ r[x].size > 0
              /\ x + r[x].size \in BlocksOf(r) \cup {End}
              /\ \A y \in BlocksOf(r) : y <= x \/ x + r[x].size <= y
  <2>1. CASE x = at
    <3>1. at + want = new
      BY DEF new
    <3>2. \A y \in BlocksOf(r) : y <= at \/ new <= y
      <4> TAKE y \in BlocksOf(r)
      <4>1. CASE y = new
        BY <1>3, <4>1
      <4>2. CASE y # new
        <5>1. y \in 0 .. End - 1
          BY <1>1, <1>8, <4>2
        <5>2. y <= at \/ at + b[at].size <= y
          BY <1>1, <1>8, <4>2
        <5> QED
          BY <1>2, <1>3, <5>1, <5>2
      <4> QED
        BY <4>1, <4>2
    <3> QED
      BY <1>3, <1>7, <1>8, <2>1, <3>1, <3>2
  <2>2. CASE x = new
    <3>1. new + rest \in BlocksOf(r) \cup {End}
      BY <1>1, <1>3, <1>8
    <3>2. \A y \in BlocksOf(r) : y <= new \/ new + rest <= y
      <4> TAKE y \in BlocksOf(r)
      <4>1. CASE y = new
        BY <1>3, <4>1
      <4>2. CASE y # new
        <5>1. y \in 0 .. End - 1
          BY <1>1, <1>8, <4>2
        <5>2. y <= at \/ at + b[at].size <= y
          BY <1>1, <1>8, <4>2
        <5> QED
          BY <1>2, <1>3, <5>1, <5>2
      <4> QED
        BY <4>1, <4>2
    <3> QED
      BY <1>3, <1>7, <2>2, <3>1, <3>2
  <2>3. CASE x # at /\ x # new
    <3>1. x \in BlocksOf(b) /\ r[x] = b[x]
      BY <1>8, <2>3
    <3>2. \A y \in BlocksOf(r) : y <= x \/ x + b[x].size <= y
      <4> TAKE y \in BlocksOf(r)
      <4>1. CASE y = new
        <5>1. /\ at <= x \/ x + b[x].size <= at
              /\ x <= at \/ at + b[at].size <= x
              /\ x \in 0 .. End - 1 /\ b[x].size \in 1 .. End
          BY <1>1, <3>1
        <5> QED
          BY <1>2, <1>3, <2>3, <4>1, <5>1
      <4>2. CASE y # new
        BY <1>1, <1>8, <3>1, <4>2
      <4> QED
        BY <4>1, <4>2
    <3> QED
      BY <1>1, <1>2, <1>8, <3>1, <3>2
  <2> QED
    BY <2>1, <2>2, <2>3
<1>12. ASSUME NEW u \in 0 .. End - 1
       PROVE  \E x \in BlocksOf(r) : x <= u /\ u < x + r[x].size
  <2>1. PICK x \in BlocksOf(b) : x <= u /\ u < x + b[x].size
    BY DEF Layout
  <2>2. CASE x = at
    <3>1. CASE u < new
      <4>1. at <= u /\ u < at + r[at].size
        BY <1>7, <2>1, <2>2, <3>1 DEF new
      <4> QED
        BY <1>8, <4>1
    <3>2. CASE ~ u < new
      <4>1. new <= u /\ u < new + r[new].size
        BY <1>2, <1>3, <1>7, <2>1, <2>2, <3>2
      <4> QED
        BY <1>8, <4>1
    <3> QED
      BY <3>1, <3>2
  <2>3. CASE x # at
    BY <1>8, <2>1, <2>3
  <2> QED
    BY <2>2, <2>3
<1>13. Layout(r)
  BY <1>9, <1>10, <1>11, <1>12 DEF Layout
<1>14. K \subseteq DOMAIN b /\ \A x \in K : r[x] = b[x]
  BY <1>6 DEF Linked
<1>15. Linked(r, K)
  <2>1. r[End].next = NULL /\ {Start, End} \subseteq K /\ K \subseteq DOMAIN r
    BY <1>6, <1>14 DEF Linked
  <2> QED
    BY <1>14, <2>1 DEF Linked
<1>16. Separate(r, K)
  BY <1>14 DEF Separate
<1>17. \A x \in DOMAIN b : r[x].used = b[x].used
  BY <1>6, <1>7
<1> QED
  BY <1>5, <1>6, <1>7, <1>8, <1>13, <1>15, <1>16, <1>17 DEF new, rest

\* What is left on the list once a block of at least the size wanted was taken
\* off and its rest put back.
LEMMA CutKeeps ==
  ASSUME NEW b, Good(b), NEW at \in FreeList(b), at \in BlocksOf(b),
         NEW want \in Nat \ {0}, want <= b[at].size
  PROVE  LET c == Cut(b, at, want)
             region == at .. at + c[at].size - 1
         IN \E K : /\ Layout(c) /\ Linked(c, K) /\ Separate(c, K)
                   /\ FreeList(c) = K \cup {at} /\ at \notin K /\ at \in BlocksOf(c)
                   /\ c[at].size \in want .. want + MinimumBlock
                   /\ \A x \in DOMAIN b \ FreeList(b) : x \in DOMAIN c /\ c[x] = b[x]
                   /\ \A x \in DOMAIN c : ~ c[x].used \/ x \in DOMAIN b \ FreeList(b)
                   /\ region \subseteq Covered(b, FreeList(b))
                   /\ Covered(c, K) = Covered(b, FreeList(b)) \ region
<1> DEFINE L == FreeList(b)
           u == Unlinked(b, at)
           c == Cut(b, at, want)
           region == at .. at + c[at].size - 1
           new == at + want
           K0 == L \ {at}
<1>1. Layout(b) /\ Linked(b, L) /\ Separate(b, L) /\ at \in L
  BY DEF Good
<1>2. /\ at \in 0 .. End - 1 /\ at \in DOMAIN b /\ b[at].size \in 1 .. End
      /\ at + b[at].size \in 1 .. End /\ End \in Nat /\ at # Start /\ at # End
  BY <1>1, BlockIs, Sizes DEF BlocksOf
<1>3. /\ Layout(u) /\ Linked(u, K0) /\ Separate(u, K0) /\ DOMAIN u = DOMAIN b
      /\ \A x \in DOMAIN b : u[x].size = b[x].size /\ u[x].used = b[x].used
      /\ \A x \in DOMAIN b \ L : u[x] = b[x]
      /\ u[at] = b[at]
  <2> HIDE DEF L
  <2> QED
    BY <1>1, UnlinkedKeeps DEF u
<1>4. /\ L \subseteq DOMAIN b
      /\ \A x \in DOMAIN b : ~ b[x].used <=> x \in L
  BY DEF FreeList
<1>5. BlocksOf(u) = BlocksOf(b)
  BY <1>3 DEF BlocksOf
<1>6. \A x \in L \ {Start, End} : x \in BlocksOf(b)
  BY <1>4 DEF BlocksOf
\* The list without the block covers the rest of the units.
<1>7. ASSUME NEW x \in L \ {Start, End, at}
      PROVE  (at .. at + b[at].size - 1) \cap (x .. x + b[x].size - 1) = {}
  BY <1>1, <1>6, Disjoint
<1>8. MinimumBlock = 2
  BY DEF MinimumBlock
<1> HIDE DEF L, u, MinimumBlock
<1>9. CASE ~ b[at].size - want > MinimumBlock
  <2>1. c = u
    BY <1>9 DEF Cut, c, u
  <2> HIDE DEF c
  <2>2. c[at].size = b[at].size
    BY <1>3, <2>1
  <2>3. c[at].size \in want .. want + MinimumBlock
    BY <1>2, <1>8, <1>9, <2>2
  <2>4. FreeList(c) = K0 \cup {at}
    BY <1>1, <1>3, <1>4, <2>1 DEF FreeList
  <2>5. region \subseteq Covered(b, L)
    BY <1>1, <1>2, <2>2 DEF Covered
  <2>6. Covered(c, K0) = Covered(b, L) \ region
    <3>1. \A x \in K0 : c[x].size = b[x].size
      BY <1>3, <1>4, <2>1
    <3>2. ASSUME NEW v \in Covered(c, K0) PROVE v \in Covered(b, L) \ region
      <4>1. PICK x \in K0 \ {Start, End} : v \in x .. x + c[x].size - 1
        BY <3>2 DEF Covered
      <4>2. v \in x .. x + b[x].size - 1 /\ x \in L \ {Start, End, at}
        BY <3>1, <4>1
      <4>3. v \notin region
        BY <1>7, <2>2, <4>2
      <4> QED
        BY <4>2, <4>3 DEF Covered
    <3>3. ASSUME NEW v \in Covered(b, L) \ region PROVE v \in Covered(c, K0)
      <4>1. PICK x \in L \ {Start, End} : v \in x .. x + b[x].size - 1
        BY <3>3 DEF Covered
      <4>2. x # at
        BY <2>2, <3>3, <4>1
      <4> QED
        BY <3>1, <4>1, <4>2 DEF Covered
    <3> QED
      BY <3>2, <3>3
  <2>7. at \in BlocksOf(c) /\ at \notin K0
    BY <1>5, <2>1
  <2>8. /\ \A x \in DOMAIN b \ L : x \in DOMAIN c /\ c[x] = b[x]
        /\ \A x \in DOMAIN c : ~ c[x].used \/ x \in DOMAIN b \ L
    BY <1>3, <1>4, <2>1
  <2> QED
    BY <1>3, <2>1, <2>3, <2>4, <2>5, <2>6, <2>7, <2>8 DEF c, L
<1>10. CASE b[at].size - want > MinimumBlock
  <2> DEFINE s == Split(u, at, want)
             K1 == K0 \cup {new}
  <2>1. c = Insert(s, new)
    BY <1>10 DEF Cut, c, u
  <2> HIDE DEF c
  <2>2. want < b[at].size /\ b[at].size - want \in 1 .. End /\ want \in 1 .. End
    BY <1>2, <1>8, <1>10
  <2>3. /\ Layout(s) /\ Linked(s, K0) /\ Separate(s, K0)
        /\ new \notin DOMAIN b /\ new \in BlocksOf(s)
        /\ DOMAIN s = DOMAIN b \cup {new}
        /\ \A x \in DOMAIN b : s[x].used = u[x].used
        /\ \A x \in DOMAIN b \ {at} : s[x] = u[x]
        /\ s[at].size = want
        /\ s[new].size = b[at].size - want /\ ~ s[new].used
    <3>1. at \notin K0 /\ at \in BlocksOf(u) /\ want < u[at].size
      BY <1>3, <1>5, <2>2
    <3> HIDE DEF K0
    <3>2. /\ Layout(s) /\ Linked(s, K0) /\ Separate(s, K0)
          /\ at + want \notin DOMAIN u /\ at + want \in BlocksOf(s)
          /\ DOMAIN s = DOMAIN u \cup {at + want}
          /\ \A x \in DOMAIN u : s[x].used = u[x].used
          /\ \A x \in DOMAIN u \ {at} : s[x] = u[x]
          /\ s[at].size = want
          /\ s[at + want].size = u[at].size - want /\ ~ s[at + want].used
      <4>1. s = Split(u, at, want)
        OBVIOUS
      <4> HIDE DEF s
      <4> QED
        <5>1. Layout(u)
          BY <1>3
        <5>2. Linked(u, K0) /\ Separate(u, K0)
          BY <1>3
        <5>3. Layout(s)
          BY <5>1, <5>2, <3>1, <4>1, SplitKeeps
        <5>4. Linked(s, K0) /\ Separate(s, K0)
          BY <5>1, <5>2, <3>1, <4>1, SplitKeeps
        <5>5. at + want \notin DOMAIN u /\ at + want \in BlocksOf(s)
          BY <5>1, <5>2, <3>1, <4>1, SplitKeeps
        <5> QED
          BY <5>1, <5>2, <3>1, <4>1, SplitKeeps
    <3> QED
      BY <1>3, <3>2 DEF new
  <2> HIDE DEF s, new
  <2>4. new \in BlocksOf(s) \ K0
    BY <1>4, <2>3
  <2>5. \A x \in DOMAIN s : ~ s[x].used <=> x \in K1 \cup {at}
    BY <1>1, <1>3, <1>4, <2>3
  <2>6. PICK K : Kept(s, K1, c, K) /\ Separate(c, K)
    <3>1. \A x \in K1 : ~ s[x].used
      BY <1>4, <2>3, <2>5
    <3> HIDE DEF K0
    <3> QED
      BY <2>1, <2>3, <2>4, <3>1, InsertKeeps
  <2>7. at \notin K1 /\ at \in DOMAIN s \ K1
    BY <1>2, <2>3
  <2>8. /\ Layout(c) /\ Linked(c, K) /\ Separate(c, K)
        /\ K \subseteq K1 /\ DOMAIN c = DOMAIN s \ (K1 \ K)
        /\ \A x \in DOMAIN c : c[x].used = s[x].used
        /\ \A x \in DOMAIN s \ K1 : c[x] = s[x]
        /\ Covered(c, K) = Covered(s, K1)
    BY <2>6 DEF Kept
  <2>9. c[at].size = want /\ at \in BlocksOf(c) /\ at \notin K
    BY <1>2, <2>3, <2>7, <2>8 DEF BlocksOf
  <2>10. c[at].size \in want .. want + MinimumBlock
    BY <1>8, <2>9
  <2>11. FreeList(c) = K \cup {at}
    <3>1. \A x \in DOMAIN c : ~ c[x].used <=> x \in K1 \cup {at}
      BY <2>5, <2>8
    <3>2. K \subseteq DOMAIN c /\ at \in DOMAIN c
      BY <2>8, <2>9 DEF Linked, BlocksOf
    <3> QED
      BY <2>8, <3>1, <3>2 DEF FreeList
  <2>12. /\ \A x \in DOMAIN b \ L : x \in DOMAIN c /\ c[x] = b[x]
         /\ \A x \in DOMAIN c : ~ c[x].used \/ x \in DOMAIN b \ L
    <3>1. \A x \in DOMAIN b \ L : x \in DOMAIN s \ K1 /\ s[x] = b[x]
      BY <1>1, <1>3, <2>3
    <3>2. \A x \in DOMAIN c : x \in DOMAIN s /\ c[x].used = s[x].used
      BY <2>8
    <3> QED
      BY <1>1, <2>3, <2>5, <2>8, <3>1, <3>2
  <2>13. region \subseteq at .. at + b[at].size - 1
    BY <1>2, <2>2, <2>9
  <2>14. region \subseteq Covered(b, L)
    BY <1>1, <1>2, <2>13 DEF Covered
  <2>15. \A v : v \in at .. at + b[at].size - 1
                   <=> v \in region \/ v \in new .. new + s[new].size - 1
    BY <1>2, <2>2, <2>3, <2>9 DEF new
  <2>16. region \cap (new .. new + s[new].size - 1) = {}
    BY <1>2, <2>2, <2>3, <2>9 DEF new
  <2>17. \A x \in K0 : s[x].size = b[x].size /\ x # new
    BY <1>3, <1>4, <2>3
  <2>18. ASSUME NEW v \in Covered(s, K1) PROVE v \in Covered(b, L) \ region
    <3>1. PICK x \in K1 \ {Start, End} : v \in x .. x + s[x].size - 1
      BY <2>18 DEF Covered
    <3>2. CASE x = new
      <4>1. v \notin region /\ v \in at .. at + b[at].size - 1
        BY <2>15, <2>16, <3>1, <3>2
      <4> QED
        BY <1>1, <1>2, <4>1 DEF Covered
    <3>3. CASE x # new
      <4>1. v \in x .. x + b[x].size - 1 /\ x \in L \ {Start, End, at}
        BY <2>17, <3>1, <3>3
      <4>2. v \notin region
        BY <1>7, <2>13, <4>1
      <4> QED
        BY <4>1, <4>2 DEF Covered
    <3> QED
      BY <3>2, <3>3
  <2>19. ASSUME NEW v \in Covered(b, L) \ region PROVE v \in Covered(s, K1)
    <3>1. PICK x \in L \ {Start, End} : v \in x .. x + b[x].size - 1
      BY <2>19 DEF Covered
    <3>2. CASE x = at
      <4>1. v \in new .. new + s[new].size - 1
        BY <2>15, <2>19, <3>1, <3>2
      <4>2. new \in K1 \ {Start, End}
        BY <2>3 DEF BlocksOf
      <4> QED
        BY <4>1, <4>2 DEF Covered
    <3>3. CASE x # at
      <4>1. x \in K1 \ {Start, End} /\ v \in x .. x + s[x].size - 1
        BY <2>17, <3>1, <3>3
      <4> QED
        BY <4>1 DEF Covered
    <3> QED
      BY <3>2, <3>3
  <2>20. Covered(c, K) = Covered(b, L) \ region
    BY <2>8, <2>18, <2>19
  <2> QED
    BY <2>8, <2>9, <2>10, <2>11, <2>12, <2>14, <2>20 DEF c, L
<1> QED
  BY <1>9, <1>10

UsedOf(b) == {a \in DOMAIN b : b[a].used}

Marked(c, at) == [c EXCEPT ![at].next = NULL, ![at].used = TRUE]

\* A block that is in no list is given to the caller ...
LEMMA MarkKeeps ==
  ASSUME NEW c, NEW K, Layout(c), Linked(c, K), Separate(c, K), NEW at \in BlocksOf(c),
         FreeList(c) = K \cup {at}, at \notin K,
         NEW r, r = Marked(c, at)
  PROVE  /\ Good(r) /\ FreeList(r) = K /\ Covered(r, K) = Covered(c, K)
         /\ DOMAIN r = DOMAIN c /\ r[at].size = c[at].size /\ r[at].used
         /\ \A x \in DOMAIN c \ {at} : r[x] = c[x]
<1>1. at \in DOMAIN c /\ at # Start /\ at # End /\ c[at] \in Headers
  BY BlockIs DEF BlocksOf
<1>2. /\ DOMAIN r = DOMAIN c
      /\ r = [x \in DOMAIN r |-> r[x]]
      /\ \A x \in DOMAIN c \ {at} : r[x] = c[x]
      /\ r[at] = [c[at] EXCEPT !.next = NULL, !.used = TRUE]
  BY <1>1 DEF Marked
<1>3. r[at].size = c[at].size /\ r[at].used /\ r[at] \in Headers
  BY <1>1, <1>2 DEF Headers
<1>4. BlocksOf(r) = BlocksOf(c) /\ \A x \in DOMAIN c : r[x].size = c[x].size /\ r[x] \in Headers
  BY <1>2, <1>3 DEF BlocksOf, Layout
<1>5. Layout(r)
  <2>1. \A x \in BlocksOf(c) : r[x].size = c[x].size
    BY <1>4 DEF BlocksOf
  <2>2. r[Start].size = 0 /\ r[End].size = 0
    BY <1>4 DEF Layout
  <2>3. r \in [DOMAIN r -> Headers]
    BY <1>2, <1>4
  <2> QED
    BY <1>2, <1>4, <2>1, <2>2, <2>3 DEF Layout
<1>6. K \subseteq DOMAIN c \ {at} /\ \A x \in K : r[x] = c[x]
  BY <1>2 DEF Linked
<1>7. Linked(r, K)
  <2>1. r[End].next = NULL /\ {Start, End} \subseteq K /\ K \subseteq DOMAIN r
    BY <1>2, <1>6 DEF Linked
  <2> QED
    BY <1>6, <2>1 DEF Linked
<1>8. Separate(r, K)
  BY <1>6 DEF Separate
<1>9. Covered(r, K) = Covered(c, K)
  BY <1>6 DEF Covered
<1>10. FreeList(r) = K
  <2>1. \A x \in DOMAIN c : ~ c[x].used <=> x \in K \cup {at}
    BY DEF FreeList
  <2> QED
    BY <1>2, <1>3, <1>6, <2>1 DEF FreeList
<1> QED
  BY <1>2, <1>3, <1>5, <1>7, <1>8, <1>9, <1>10 DEF Good

LEMMA GiveKeeps ==
  ASSUME NEW b, Good(b), NEW at \in FreeList(b), at \in BlocksOf(b),
         NEW want \in Nat \ {0}, want <= b[at].size,
         NEW r, r = Marked(Cut(b, at, want), at)
  PROVE  LET region == at .. at + r[at].size - 1 IN
         /\ Good(r)
         /\ UsedOf(r) = UsedOf(b) \cup {at}
         /\ \A x \in UsedOf(b) : r[x] = b[x]
         /\ r[at].size = Cut(b, at, want)[at].size
         /\ r[at].size \in want .. want + MinimumBlock
         /\ region \subseteq Covered(b, FreeList(b))
         /\ Covered(r, FreeList(r)) = Covered(b, FreeList(b)) \ region
<1> DEFINE c == Cut(b, at, want)
           region == at .. at + c[at].size - 1
<1>1. PICK K : /\ Layout(c) /\ Linked(c, K) /\ Separate(c, K)
               /\ FreeList(c) = K \cup {at} /\ at \notin K /\ at \in BlocksOf(c)
               /\ c[at].size \in want .. want + MinimumBlock
               /\ \A x \in DOMAIN b \ FreeList(b) : x \in DOMAIN c /\ c[x] = b[x]
               /\ \A x \in DOMAIN c : ~ c[x].used \/ x \in DOMAIN b \ FreeList(b)
               /\ region \subseteq Covered(b, FreeList(b))
               /\ Covered(c, K) = Covered(b, FreeList(b)) \ region
  BY CutKeeps
<1>2. r = Marked(c, at)
  OBVIOUS
<1> HIDE DEF c, region
<1>3. /\ Good(r) /\ FreeList(r) = K /\ Covered(r, K) = Covered(c, K)
      /\ DOMAIN r = DOMAIN c /\ r[at].size = c[at].size /\ r[at].used
      /\ \A x \in DOMAIN c \ {at} : r[x] = c[x]
  BY <1>1, <1>2, MarkKeeps
<1>4. UsedOf(b) = DOMAIN b \ FreeList(b)
  BY DEF UsedOf, FreeList
<1>5. at \in DOMAIN c /\ at \in FreeList(b)
  BY <1>1 DEF BlocksOf
<1>6. \A x \in UsedOf(b) : x \in DOMAIN c \ {at} /\ r[x] = b[x]
  BY <1>1, <1>3, <1>4, <1>5
<1>7. UsedOf(r) = UsedOf(b) \cup {at}
  <2>1. ASSUME NEW x \in UsedOf(r) PROVE x \in UsedOf(b) \cup {at}
    BY <1>1, <1>3, <1>4, <2>1 DEF UsedOf
  <2>2. \A x \in UsedOf(b) : x \in UsedOf(r)
    BY <1>3, <1>6 DEF UsedOf
  <2>3. at \in UsedOf(r)
    BY <1>3, <1>5 DEF UsedOf
  <2> QED
    BY <2>1, <2>2, <2>3
<1>8. region = at .. at + r[at].size - 1
  BY <1>3 DEF region
<1> QED
  BY <1>1, <1>3, <1>6, <1>7, <1>8 DEF c

Returned(b, at) == [b EXCEPT ![at].used = FALSE]

\* ... and comes back.
LEMMA TakeBackKeeps ==
  ASSUME NEW b, Good(b), NEW at \in UsedOf(b),
         NEW r, r = Insert(Returned(b, at), at)
  PROVE  /\ Good(r)
         /\ UsedOf(r) = UsedOf(b) \ {at}
         /\ \A x \in UsedOf(r) : r[x] = b[x]
         /\ at \in BlocksOf(b)
         /\ Covered(r, FreeList(r)) = Covered(b, FreeList(b)) \cup (at .. at + b[at].size - 1)
<1> DEFINE L == FreeList(b)
           f == Returned(b, at)
           region == at .. at + b[at].size - 1
<1>1. Layout(b) /\ Linked(b, L) /\ Separate(b, L) /\ L \subseteq DOMAIN b
  BY DEF Good, FreeList
<1>2. /\ \A x \in DOMAIN b : ~ b[x].used <=> x \in L
      /\ at \in DOMAIN b /\ b[at].used /\ at \notin L
  BY DEF UsedOf, FreeList
<1> HIDE DEF L
<1>3. at \in BlocksOf(b) /\ b[at] \in Headers
  BY <1>1, <1>2 DEF BlocksOf, Linked, Layout
<1>4. /\ DOMAIN f = DOMAIN b
      /\ f = [x \in DOMAIN f |-> f[x]]
      /\ \A x \in DOMAIN b \ {at} : f[x] = b[x]
      /\ f[at] = [b[at] EXCEPT !.used = FALSE]
  BY <1>2 DEF Returned
<1>5. r = Insert(f, at)
  OBVIOUS
<1> HIDE DEF f
<1>6. f[at].size = b[at].size /\ ~ f[at].used /\ f[at] \in Headers
  BY <1>3, <1>4 DEF Headers
<1>7. BlocksOf(f) = BlocksOf(b) /\ \A x \in DOMAIN b : f[x].size = b[x].size /\ f[x] \in Headers
  BY <1>1, <1>4, <1>6 DEF BlocksOf, Layout
<1>8. Layout(f)
  <2>1. \A x \in BlocksOf(b) : f[x].size = b[x].size
    BY <1>7 DEF BlocksOf
  <2>2. f[Start].size = 0 /\ f[End].size = 0
    BY <1>1, <1>7 DEF Layout
  <2>3. f \in [DOMAIN f -> Headers]
    BY <1>4, <1>7
  <2> QED
    BY <1>1, <1>4, <1>7, <2>1, <2>2, <2>3 DEF Layout
<1>9. \A x \in L : f[x] = b[x]
  BY <1>1, <1>2, <1>4
<1>10. Linked(f, L)
  <2>1. f[End].next = NULL /\ {Start, End} \subseteq L /\ L \subseteq DOMAIN f
    BY <1>1, <1>4, <1>9 DEF Linked
  <2> QED
    BY <1>1, <1>9, <2>1 DEF Linked
<1>11. Separate(f, L)
  BY <1>1, <1>9 DEF Separate
<1>12. \A x \in DOMAIN f : ~ f[x].used <=> x \in L \cup {at}
  BY <1>2, <1>4, <1>6
<1>13. PICK K : Kept(f, L \cup {at}, r, K) /\ Separate(r, K)
  <2>1. at \in BlocksOf(f) \ L
    BY <1>2, <1>3, <1>7
  <2>2. \A x \in L \cup {at} : ~ f[x].used
    BY <1>1, <1>2, <1>4, <1>12
  <2> QED
    BY <1>5, <1>8, <1>10, <1>11, <2>1, <2>2, InsertKeeps
<1>14. /\ Layout(r) /\ Linked(r, K) /\ K \subseteq L \cup {at}
       /\ DOMAIN r = DOMAIN f \ ((L \cup {at}) \ K)
       /\ \A x \in DOMAIN r : r[x].used = f[x].used
       /\ \A x \in DOMAIN f \ (L \cup {at}) : r[x] = f[x]
       /\ Covered(r, K) = Covered(f, L \cup {at})
  BY <1>13 DEF Kept
<1>15. FreeList(r) = K
  <2>1. K \subseteq DOMAIN r
    BY <1>14 DEF Linked
  <2> QED
    BY <1>12, <1>14, <2>1 DEF FreeList
<1>16. UsedOf(r) = UsedOf(b) \ {at}
  <2>1. \A x \in DOMAIN f : f[x].used <=> x \notin L \cup {at}
    BY <1>12
  <2>2. \A x \in DOMAIN r : r[x].used <=> x \notin L \cup {at}
    BY <1>14, <2>1
  <2>3. UsedOf(r) = DOMAIN b \ (L \cup {at})
    BY <1>4, <1>14, <2>2 DEF UsedOf
  <2> QED
    BY <1>2, <2>3 DEF UsedOf
<1>17. \A x \in UsedOf(r) : r[x] = b[x]
  BY <1>2, <1>4, <1>14, <1>16 DEF UsedOf
<1>18. Covered(f, L \cup {at}) = Covered(b, L) \cup region
  <2>1. \A x \in L : f[x].size = b[x].size
    BY <1>9
  <2>2. at \notin {Start, End}
    BY <1>3 DEF BlocksOf
  <2>3. ASSUME NEW v \in Covered(f, L \cup {at}) PROVE v \in Covered(b, L) \cup region
    <3>1. PICK x \in (L \cup {at}) \ {Start, End} : v \in x .. x + f[x].size - 1
      BY <2>3 DEF Covered
    <3> QED
      BY <1>6, <2>1, <3>1 DEF Covered
  <2>4. ASSUME NEW v \in Covered(b, L) PROVE v \in Covered(f, L \cup {at})
    BY <2>1, <2>4 DEF Covered
  <2>5. ASSUME NEW v \in region PROVE v \in Covered(f, L \cup {at})
    <3>1. at \in (L \cup {at}) \ {Start, End} /\ v \in at .. at + f[at].size - 1
      BY <1>6, <2>2, <2>5
    <3> QED
      BY <3>1 DEF Covered
  <2> QED
    BY <2>3, <2>4, <2>5
<1> QED
  BY <1>3, <1>13, <1>14, <1>15, <1>16, <1>17, <1>18 DEF Good, L

-----------------------------------------------------------------------------
(* The units no block in use holds.                                        *)

\* They are those of the free blocks.
LEMMA CoveredIsUnused ==
  ASSUME NEW b, Good(b)
  PROVE  /\ Covered(b, FreeList(b)) \subseteq 0 .. End - 1
         /\ Covered(b, FreeList(b))
              = (0 .. End - 1) \ UNION {a .. a + b[a].size - 1 : a \in UsedOf(b)}
<1> DEFINE L == FreeList(b)
           C == Covered(b, L)
           U == UNION {a .. a + b[a].size - 1 : a \in UsedOf(b)}
<1>1. Layout(b) /\ Linked(b, L)
  BY DEF Good
<1>2. /\ \A a \in L \ {Start, End} : a \in BlocksOf(b)
      /\ \A a \in UsedOf(b) : a \in BlocksOf(b) /\ a \notin L
      /\ \A a \in BlocksOf(b) : a \in L \ {Start, End} \/ a \in UsedOf(b)
  BY <1>1 DEF FreeList, UsedOf, BlocksOf, Linked
<1>3. \A a \in BlocksOf(b) : a .. a + b[a].size - 1 \subseteq 0 .. End - 1
  <2> TAKE a \in BlocksOf(b)
  <2>1. a \in 0 .. End - 1 /\ b[a].size \in 1 .. End /\ a + b[a].size \in 1 .. End
    BY <1>1, BlockIs
  <2> QED
    BY <2>1, Sizes
<1> HIDE DEF L
<1>4. C \subseteq 0 .. End - 1
  BY <1>2, <1>3 DEF Covered
<1>5. ASSUME NEW u \in C, u \in U PROVE FALSE
  <2>1. PICK a \in L \ {Start, End} : u \in a .. a + b[a].size - 1
    BY <1>5 DEF Covered
  <2>2. PICK c \in UsedOf(b) : u \in c .. c + b[c].size - 1
    BY <1>5
  <2>3. a \in BlocksOf(b) /\ c \in BlocksOf(b) /\ a # c
    BY <1>2
  <2> QED
    BY <1>1, <2>1, <2>2, <2>3, Disjoint
<1>6. ASSUME NEW u \in 0 .. End - 1, u \notin U PROVE u \in C
  <2>1. PICK a \in BlocksOf(b) : a <= u /\ u < a + b[a].size
    BY <1>1 DEF Layout
  <2>2. a \in 0 .. End - 1 /\ b[a].size \in 1 .. End
    BY <1>1, BlockIs
  <2>3. u \in a .. a + b[a].size - 1
    BY <2>1, <2>2, Sizes
  <2>4. a \notin UsedOf(b)
    BY <1>6, <2>3
  <2> QED
    BY <1>2, <2>3, <2>4 DEF Covered
<1> QED
  BY <1>4, <1>5, <1>6 DEF L

\* Because the free blocks are merged, units in a row that are all free are in
\* one block.
LEMMA OneBlock ==
  ASSUME NEW b, Good(b), NEW at \in 0 .. End - 1, NEW want \in Nat \ {0},
         at .. at + want - 1 \subseteq Covered(b, FreeList(b))
  PROVE  \E x \in FreeList(b) \ {Start, End} : want <= b[x].size
<1> DEFINE L == FreeList(b)
<1>1. Layout(b) /\ Linked(b, L) /\ Separate(b, L) /\ L \subseteq DOMAIN b
  BY DEF Good, FreeList
<1> HIDE DEF L
<1>2. at \in at .. at + want - 1 /\ End \in Nat /\ Start = -1
  BY Sizes
<1>3. PICK x \in L \ {Start, End} : at \in x .. x + b[x].size - 1
  BY <1>2 DEF Covered, L
<1>4. x \in BlocksOf(b)
  BY <1>1, <1>3 DEF BlocksOf
<1>5. x \in 0 .. End - 1 /\ b[x].size \in 1 .. End /\ x + b[x].size \in 1 .. End
  BY <1>1, <1>4, BlockIs
<1> DEFINE y == x + b[x].size
<1>6. CASE at + want <= y
  BY <1>3, <1>5, <1>6 DEF L
<1>7. CASE ~ at + want <= y
  <2>1. y \in at .. at + want - 1 /\ y > x /\ y \in 1 .. End
    BY <1>3, <1>5, <1>7
  <2>2. y \in Covered(b, L)
    BY <2>1 DEF L
  <2> HIDE DEF y
  <2>3. PICK z \in L \ {Start, End} : y \in z .. z + b[z].size - 1
    BY <2>2 DEF Covered
  <2>4. z \in BlocksOf(b)
    BY <1>1, <2>3 DEF BlocksOf
  <2>5. z \in 0 .. End - 1 /\ b[z].size \in 1 .. End /\ z + b[z].size \in 1 .. End
    BY <1>1, <2>4, BlockIs
  <2>6. y \in BlocksOf(b)
    <3>1. y \in BlocksOf(b) \cup {End}
      BY <1>1, <1>4 DEF Layout, y
    <3>2. y # End
      BY <1>2, <2>3, <2>5
    <3> QED
      BY <3>1, <3>2
  <2>7. z = y
    <3>1. y <= z \/ z + b[z].size <= y
      BY <1>1, <2>4, <2>6 DEF Layout
    <3> QED
      BY <2>1, <2>3, <2>5, <3>1
  <2>8. y <= x \/ b[x].next <= y
    BY <1>1, <1>3, <2>3, <2>7 DEF Linked
  <2>9. b[x].next = End \/ y < b[x].next
    BY <1>1, <1>3 DEF Separate, y
  <2>10. b[x].next \in Int
    <3>1. b[x].next \in L
      BY <1>1, <1>3 DEF Linked
    <3>2. b[x].next \in {Start} \cup 0 .. End
      BY <1>1, <3>1 DEF Linked
    <3> QED
      BY <1>2, <3>2
  <2> QED
    BY <1>2, <1>5, <2>1, <2>5, <2>7, <2>8, <2>9, <2>10
<1> QED
  BY <1>6, <1>7

\* prvHeapInit leaves one free block.
LEMMA InitialIsGood ==
  /\ Good(Initial) /\ UsedOf(Initial) = {}
  /\ Covered(Initial, FreeList(Initial)) = 0 .. End - 1
<1>1. /\ End \in Nat /\ End > 0 /\ Start = -1 /\ NULL = -2
      /\ Start # End /\ Start # 0 /\ End # 0
  BY Sizes
<1>2. /\ DOMAIN Initial = {Start, 0, End}
      /\ Initial[Start] = Header(0, 0, FALSE)
      /\ Initial[0] = Header(End, End, FALSE)
      /\ Initial[End] = Header(NULL, 0, FALSE)
  BY <1>1 DEF Initial
<1>4. /\ Initial[Start].next = 0 /\ Initial[Start].size = 0 /\ ~ Initial[Start].used
      /\ Initial[0].next = End /\ Initial[0].size = End /\ ~ Initial[0].used
      /\ Initial[End].next = NULL /\ Initial[End].size = 0 /\ ~ Initial[End].used
  BY <1>2 DEF Header
<1>5. Initial \in [DOMAIN Initial -> Headers]
  <2> DEFINE head(a) == CASE a = Start -> Header(0, 0, FALSE)
                          [] a = 0     -> Header(End, End, FALSE)
                          [] a = End   -> Header(NULL, 0, FALSE)
  <2>1. Initial = [a \in {Start, 0, End} |-> head(a)]
    BY DEF Initial
  <2>2. ASSUME NEW a \in {Start, 0, End} PROVE head(a) \in Headers
    <3>1. \A next \in {NULL} \cup 0 .. End, size \in 0 .. End :
             Header(next, size, FALSE) \in Headers
      BY DEF Header, Headers
    <3>2. 0 \in 0 .. End /\ End \in 0 .. End
      BY <1>1
    <3> QED
      BY <1>1, <3>1, <3>2
  <2> HIDE DEF head
  <2> QED
    BY <2>1, <2>2
<1>6. BlocksOf(Initial) = {0}
  BY <1>1, <1>2 DEF BlocksOf
<1>7. FreeList(Initial) = {Start, 0, End} /\ UsedOf(Initial) = {}
  BY <1>2, <1>4 DEF FreeList, UsedOf
<1> HIDE DEF Initial
<1>8. Layout(Initial)
  <2>1. \A u \in 0 .. End - 1 : 0 <= u /\ u < 0 + Initial[0].size
    BY <1>1, <1>4
  <2>2. {Start, End, 0} \subseteq DOMAIN Initial /\ DOMAIN Initial \subseteq {Start} \cup 0 .. End
    BY <1>1, <1>2
  <2> QED
    BY <1>1, <1>4, <1>5, <1>6, <2>1, <2>2 DEF Layout
<1>9. Linked(Initial, {Start, 0, End})
  <2>1. \A a \in {Start, 0} :
           /\ Initial[a].next \in {Start, 0, End} /\ a < Initial[a].next
           /\ \A c \in {Start, 0, End} : c <= a \/ Initial[a].next <= c
    BY <1>1, <1>4
  <2>2. {Start, 0, End} \ {End} = {Start, 0}
    BY <1>1
  <2>3. {Start, 0, End} \subseteq {Start} \cup 0 .. End
    BY <1>1
  <2> QED
    BY <1>2, <1>4, <2>1, <2>2, <2>3 DEF Linked
<1>10. Separate(Initial, {Start, 0, End})
  BY <1>4 DEF Separate
<1>11. Covered(Initial, {Start, 0, End}) = 0 .. End - 1
  BY <1>1, <1>4 DEF Covered
<1> QED
  BY <1>7, <1>8, <1>9, <1>10, <1>11 DEF Good

-----------------------------------------------------------------------------
(* The steps.                                                              *)

\* The blocks are as they should be, and n units of them are free.
Counted(b, n, m) == Good(b) /\ n = Cardinality(Covered(b, FreeList(b))) /\ m \in 0 .. n

LastCalls ==
    [want : {Wanted(bytes) : bytes \in Requests} \cup {0}, at : {NULL} \cup 0 .. End - 1]

\* The inductive invariant.
HeapInv ==
    /\ Ready => Counted(block, free, minFree)
    /\ ~ Ready => DOMAIN block = {} /\ free = 0 /\ minFree = 0
    /\ last \in LastCalls

LEMMA CoveredFinite ==
  ASSUME NEW b, Good(b)
  PROVE  /\ IsFiniteSet(Covered(b, FreeList(b)))
         /\ Cardinality(Covered(b, FreeList(b))) \in 0 .. End
<1>1. IsFiniteSet(0 .. End - 1) /\ Cardinality(0 .. End - 1) = End
  <2>1. 0 \in Int /\ End - 1 \in Int /\ ~ 0 > End - 1 /\ End - 1 - 0 + 1 = End
    BY Sizes
  <2> QED
    BY <2>1, FS_Interval
<1>2. Covered(b, FreeList(b)) \in SUBSET (0 .. End - 1)
  BY CoveredIsUnused
<1>3. /\ IsFiniteSet(Covered(b, FreeList(b)))
      /\ Cardinality(Covered(b, FreeList(b))) <= End
  BY <1>1, <1>2, FS_Subset
<1>4. Cardinality(Covered(b, FreeList(b))) \in Nat
  BY <1>3, FS_CardinalityType
<1> QED
  BY <1>3, <1>4, Sizes

LEMMA IntervalSize ==
  ASSUME NEW a \in Int, NEW n \in Nat
  PROVE  IsFiniteSet(a .. a + n - 1) /\ Cardinality(a .. a + n - 1) = n
<1>1. /\ IsFiniteSet(a .. a + n - 1)
      /\ Cardinality(a .. a + n - 1) = IF a > a + n - 1 THEN 0 ELSE a + n - 1 - a + 1
  BY FS_Interval
<1> QED
  BY <1>1

\* The heap pvPortMalloc searches: prvHeapInit's on the first call.
LEMMA SearchedHeap ==
  ASSUME HeapInv
  PROVE  LET now   == IF Ready THEN block ELSE Initial
             avail == IF Ready THEN free ELSE End
             least == IF Ready THEN minFree ELSE End
         IN /\ Counted(now, avail, least)
            /\ UsedOf(now) = UsedOf(block) /\ \A x \in UsedOf(block) : now[x] = block[x]
            /\ End \in DOMAIN now
<1>1. CASE Ready
  BY <1>1 DEF HeapInv, Ready
<1>2. CASE ~ Ready
  <2>1. UsedOf(block) = {}
    BY <1>2 DEF HeapInv, UsedOf
  <2>2. Good(Initial) /\ UsedOf(Initial) = {} /\ Covered(Initial, FreeList(Initial)) = 0 .. End - 1
    BY InitialIsGood
  <2>3. Cardinality(0 .. End - 1) = End
    <3>1. 0 \in Int /\ End \in Nat /\ 0 + End - 1 = End - 1
      BY Sizes
    <3>2. Cardinality(0 .. 0 + End - 1) = End
      BY <3>1, IntervalSize
    <3> QED
      BY <3>1, <3>2
  <2>4. Counted(Initial, End, End)
    BY <2>2, <2>3, Sizes DEF Counted
  <2>5. End \in DOMAIN Initial
    BY DEF Initial
  <2> QED
    BY <1>2, <2>1, <2>2, <2>4, <2>5
<1> QED
  BY <1>1, <1>2

\* What is refused does not fit ...
NoRoom(b, want) ==
    want = 0 \/ \A at \in 0 .. End - 1 : ~ (at .. at + want - 1 \subseteq Covered(b, FreeList(b)))

\* ... and what is given was free.
GivenFrom(b, at, want) ==
    /\ at \in 0 .. End - 1 /\ want > 0
    /\ UsedOf(block') = UsedOf(b) \cup {at}
    /\ \A x \in UsedOf(b) : block'[x] = b[x]
    /\ block'[at].size \in want .. want + MinimumBlock
    /\ at .. at + block'[at].size - 1 \subseteq Covered(b, FreeList(b))

LEMMA MallocStep ==
  ASSUME HeapInv, NEW bytes \in Requests, pvPortMalloc(bytes)
  PROVE  \E now, at :
            /\ Good(now)
            /\ UsedOf(now) = UsedOf(block) /\ \A x \in UsedOf(block) : now[x] = block[x]
            /\ Counted(block', free', minFree') /\ End \in DOMAIN block'
            /\ last' = [want |-> Wanted(bytes), at |-> at]
            /\ \/ at = NULL /\ block' = now /\ NoRoom(now, Wanted(bytes))
               \/ GivenFrom(now, at, Wanted(bytes))
<1> DEFINE want  == Wanted(bytes)
           now   == IF Ready THEN block ELSE Initial
           avail == IF Ready THEN free ELSE End
           least == IF Ready THEN minFree ELSE End
           at    == IF want > 0 /\ want <= avail THEN Fit(now, want) ELSE End
           cut   == Cut(now, at, want)
           left  == Less(avail, cut[at].size, want)
<1>1. want \in Nat
  <2>1. bytes \in Nat
    BY HeapAssumption
  <2>2. (bytes + 8 - 1) \div 8 \in Nat
    BY <2>1
  <2> QED
    BY <2>1, <2>2 DEF Wanted, HeaderSize, Alignment
<1>2. /\ Counted(now, avail, least) /\ End \in DOMAIN now
      /\ UsedOf(now) = UsedOf(block) /\ \A x \in UsedOf(block) : now[x] = block[x]
  BY SearchedHeap
<1>3. IF at # End
        THEN /\ block' = Marked(cut, at)
             /\ free' = left
             /\ minFree' = IF left < least THEN left ELSE least
             /\ last' = [want |-> want, at |-> at]
        ELSE /\ block' = now /\ free' = avail /\ minFree' = least
             /\ last' = [want |-> want, at |-> NULL]
  BY DEF pvPortMalloc, Marked
<1> HIDE DEF now, avail, least, want
<1> DEFINE L == FreeList(now)
           C == Covered(now, L)
<1>4. /\ Good(now) /\ Layout(now) /\ Linked(now, L) /\ avail = Cardinality(C) /\ least \in 0 .. avail
  BY <1>2 DEF Counted, Good
<1>5. IsFiniteSet(C) /\ avail \in 0 .. End
  BY <1>4, CoveredFinite
<1>6. CASE at # End
  <2>1. want \in Nat \ {0} /\ at = Fit(now, want)
    BY <1>1, <1>6
  <2> HIDE DEF at
  <2>2. at \in L /\ at \in BlocksOf(now) /\ want <= now[at].size
    <3>1. at \in BlocksOf(now) /\ now[at].size >= want /\ at \in L
      BY <1>4, <1>6, <2>1, FitIs
    <3>2. now[at].size \in 1 .. End
      BY <1>4, <3>1, BlockIs
    <3> QED
      BY <1>1, <3>1, <3>2
  <2>3. at \in 0 .. End - 1
    BY <1>4, <2>2, BlockIs
  <2> DEFINE region == at .. at + block'[at].size - 1
  <2>4. block' = Marked(Cut(now, at, want), at)
    BY <1>3, <1>6
  <2>5. /\ Good(block')
        /\ UsedOf(block') = UsedOf(now) \cup {at}
        /\ \A x \in UsedOf(now) : block'[x] = now[x]
        /\ block'[at].size = Cut(now, at, want)[at].size
        /\ block'[at].size \in want .. want + MinimumBlock
        /\ region \subseteq C
        /\ Covered(block', FreeList(block')) = C \ region
    BY <1>4, <2>1, <2>2, <2>4, GiveKeeps
  <2> DEFINE size == block'[at].size
  <2>6. size \in Nat /\ size > 0
    BY <1>1, <2>1, <2>5 DEF MinimumBlock
  <2>7. free' = avail - size /\ minFree' = IF avail - size < least THEN avail - size ELSE least
    BY <1>3, <1>6, <2>5 DEF Less
  <2> HIDE DEF size
  <2>8. avail - size = Cardinality(C \ region)
    <3>1. Cardinality(region) = size
      <4>1. at \in Int /\ region = at .. at + size - 1
        BY <2>3 DEF size
      <4> QED
        BY <2>6, <4>1, IntervalSize
    <3>2. Cardinality(C \ region) = Cardinality(C) - Cardinality(C \cap region)
      BY <1>5, FS_Difference
    <3>3. C \cap region = region
      BY <2>5
    <3> QED
      BY <1>4, <3>1, <3>2, <3>3
  <2>9. avail - size \in 0 .. End
    BY <2>5, <2>8, CoveredFinite
  <2>10. Counted(block', free', minFree')
    BY <1>4, <1>5, <2>5, <2>6, <2>7, <2>8, <2>9 DEF Counted
  <2>11. End \in DOMAIN block'
    BY <2>5 DEF Good, Layout
  <2>12. GivenFrom(now, at, want)
    BY <1>1, <2>1, <2>3, <2>5 DEF GivenFrom
  <2>13. last' = [want |-> want, at |-> at]
    BY <1>3, <1>6
  <2> QED
    BY <1>2, <1>4, <2>10, <2>11, <2>12, <2>13 DEF want
<1>7. CASE at = End
  <2>1. /\ block' = now /\ free' = avail /\ minFree' = least
        /\ last' = [want |-> want, at |-> NULL]
    BY <1>3, <1>7
  <2>2. NoRoom(now, want)
    <3> SUFFICES ASSUME want # 0, NEW p \in 0 .. End - 1, p .. p + want - 1 \subseteq C
                 PROVE  FALSE
      BY DEF NoRoom
    <3>1. want \in Nat \ {0} /\ p \in Int
      BY <1>1, Sizes
    <3>2. want <= avail
      <4>1. Cardinality(p .. p + want - 1) = want
        BY <3>1, IntervalSize
      <4>2. p .. p + want - 1 \in SUBSET C
        OBVIOUS
      <4>3. Cardinality(p .. p + want - 1) <= Cardinality(C)
        BY <1>5, <4>2, FS_Subset
      <4> QED
        BY <1>4, <4>1, <4>3
    <3>3. Fit(now, want) = End
      BY <1>7, <3>1, <3>2
    <3>4. PICK x \in L \ {Start, End} : want <= now[x].size
      BY <1>4, <3>1, OneBlock
    <3>5. now[x].size < want
      BY <1>4, <3>1, <3>3, FitIs
    <3>6. x \in BlocksOf(now)
      BY <3>4 DEF BlocksOf, FreeList
    <3>7. now[x].size \in 1 .. End
      BY <1>4, <3>6, BlockIs
    <3> QED
      BY <3>1, <3>4, <3>5, <3>7
  <2> HIDE DEF at
  <2> QED
    BY <1>2, <1>4, <2>1, <2>2 DEF want
<1> QED
  BY <1>6, <1>7

LEMMA FreeStep ==
  ASSUME HeapInv, NEW at \in Used, vPortFree(at)
  PROVE  /\ Counted(block', free', minFree') /\ End \in DOMAIN block' /\ last' = last
         /\ UsedOf(block') = UsedOf(block) \ {at}
         /\ \A x \in UsedOf(block') : block'[x] = block[x]
<1>1. Ready /\ at \in UsedOf(block)
  BY DEF HeapInv, Used, UsedOf
<1> DEFINE C == Covered(block, FreeList(block))
           region == at .. at + block[at].size - 1
           size == block[at].size
<1>2. Good(block) /\ free = Cardinality(C) /\ minFree \in 0 .. free
  BY <1>1 DEF HeapInv, Counted
<1>3. /\ block' = Insert(Returned(block, at), at)
      /\ free' = free + size /\ minFree' = minFree /\ last' = last
  BY DEF vPortFree, Returned
<1>4. /\ Good(block')
      /\ UsedOf(block') = UsedOf(block) \ {at}
      /\ \A x \in UsedOf(block') : block'[x] = block[x]
      /\ at \in BlocksOf(block)
      /\ Covered(block', FreeList(block')) = C \cup region
  BY <1>1, <1>2, <1>3, TakeBackKeeps
<1>5. at \in 0 .. End - 1 /\ size \in 1 .. End
  BY <1>2, <1>4, BlockIs DEF Good
<1>6. IsFiniteSet(C) /\ free \in 0 .. End
  BY <1>2, CoveredFinite
<1>7. IsFiniteSet(region) /\ Cardinality(region) = size
  <2>1. at \in Int /\ size \in Nat
    BY <1>5, Sizes
  <2> HIDE DEF size
  <2>2. region = at .. at + size - 1
    BY DEF size
  <2> QED
    BY <2>1, <2>2, IntervalSize
<1>8. C \cap region = {}
  BY <1>1, <1>2, CoveredIsUnused
<1> HIDE DEF C, region, size
<1>9. Cardinality(C \cup region) = free + size
  <2>1. Cardinality(C \cup region) = Cardinality(C) + Cardinality(region) - Cardinality(C \cap region)
    BY <1>6, <1>7, FS_Union
  <2>2. Cardinality(C \cap region) = 0
    BY <1>8, FS_EmptySet
  <2> QED
    BY <1>2, <1>5, <1>6, <1>7, <2>1, <2>2
<1>10. minFree' \in 0 .. free'
  BY <1>2, <1>3, <1>5, <1>6
<1>11. End \in DOMAIN block'
  BY <1>4 DEF Good, Layout
<1> QED
  BY <1>3, <1>4, <1>9, <1>10, <1>11 DEF Counted

LEMMA HeapInit == Init => HeapInv
<1> SUFFICES ASSUME Init PROVE HeapInv
  OBVIOUS
<1>1. DOMAIN block = {} /\ free = 0 /\ minFree = 0
  BY DEF Init
<1>2. ~ Ready
  BY <1>1 DEF Ready
<1>3. last \in LastCalls
  BY DEF Init, LastCalls
<1> QED
  BY <1>1, <1>2, <1>3 DEF HeapInv

LEMMA HeapNext == HeapInv /\ [Next]_vars => HeapInv'
<1> SUFFICES ASSUME HeapInv, [Next]_vars PROVE HeapInv'
  OBVIOUS
<1>1. ASSUME NEW bytes \in Requests, pvPortMalloc(bytes) PROVE HeapInv'
  <2>1. PICK now, at :
           /\ Counted(block', free', minFree') /\ End \in DOMAIN block'
           /\ last' = [want |-> Wanted(bytes), at |-> at]
           /\ at = NULL \/ GivenFrom(now, at, Wanted(bytes))
    BY <1>1, MallocStep
  <2>2. at \in {NULL} \cup 0 .. End - 1
    BY <2>1 DEF GivenFrom
  <2>3. last' \in LastCalls
    BY <2>1, <2>2 DEF LastCalls
  <2> QED
    BY <2>1, <2>3 DEF HeapInv, Counted, Ready
<1>2. ASSUME NEW at \in Used, vPortFree(at) PROVE HeapInv'
  <2>1. Counted(block', free', minFree') /\ End \in DOMAIN block' /\ last' = last
    BY <1>2, FreeStep
  <2> QED
    BY <2>1 DEF HeapInv, Ready
<1>3. CASE UNCHANGED vars
  BY <1>3 DEF HeapInv, Counted, Ready, vars
<1> QED
  BY <1>1, <1>2, <1>3 DEF Next

\* The invariant every other theorem of the heap rests on.
THEOREM HeapCorrect == Spec => []HeapInv
<1> QED
  BY HeapInit, HeapNext, PTL DEF Spec

-----------------------------------------------------------------------------
(* The properties.                                                         *)

\* Every header holds a legal address and a legal size, and the counters stay
\* within the heap, whatever the sequence of pvPortMalloc and vPortFree.
THEOREM TypeCorrect == Spec => []TypeOK
<1>1. HeapInv => TypeOK
  <2> SUFFICES ASSUME HeapInv PROVE TypeOK
    OBVIOUS
  <2>1. last \in LastCalls
    BY DEF HeapInv
  <2>2. CASE Ready
    <3>1. Good(block) /\ Layout(block) /\ minFree \in 0 .. free
          /\ free = Cardinality(Covered(block, FreeList(block)))
      BY <2>2 DEF HeapInv, Counted, Good
    <3>2. free \in 0 .. End
      BY <3>1, CoveredFinite
    <3>3. minFree \in 0 .. End
      BY <3>1, <3>2, Sizes
    <3>4. DOMAIN block \subseteq {Start, End} \cup 0 .. End
      BY <3>1 DEF Layout
    <3>5. \A a \in DOMAIN block : block[a] \in Headers
      BY <3>1 DEF Layout
    <3> QED
      BY <2>1, <3>2, <3>3, <3>4, <3>5 DEF TypeOK, Headers, LastCalls
  <2>3. CASE ~ Ready
    <3>1. DOMAIN block = {} /\ free \in 0 .. End /\ minFree \in 0 .. End
      BY <2>3, Sizes DEF HeapInv
    <3> QED
      BY <2>1, <3>1 DEF TypeOK, LastCalls
  <2> QED
    BY <2>2, <2>3
<1> QED
  BY <1>1, HeapCorrect, PTL

\* Every unit belongs to exactly one block: splitting and merging neither lose
\* memory nor let two blocks overlap, in a heap of any size.
THEOREM HeapTiled == Spec => []Tiled
<1>1. HeapInv => Tiled
  <2> SUFFICES ASSUME HeapInv, Ready PROVE /\ 0 \in Blocks
                                           /\ \A a \in Blocks :
                                                LET end == a + block[a].size IN
                                                /\ end > a
                                                /\ end \in Blocks \cup {End}
                                                /\ \A c \in Blocks : c <= a \/ end <= c
    BY DEF Tiled
  <2>1. Layout(block) /\ Blocks = BlocksOf(block)
    BY DEF HeapInv, Counted, Good, Blocks, BlocksOf
  <2>2. 0 \in BlocksOf(block)
    BY <2>1, Sizes DEF Layout, BlocksOf
  <2>3. ASSUME NEW a \in BlocksOf(block) PROVE a + block[a].size > a
    <3>1. a \in 0 .. End - 1 /\ block[a].size \in 1 .. End
      BY <2>1, BlockIs
    <3> QED
      BY <3>1
  <2> QED
    BY <2>1, <2>2, <2>3 DEF Layout
<1> QED
  BY <1>1, HeapCorrect, PTL

\* The list holds exactly the free blocks in order of address, fully merged,
\* so that no free memory is out of reach of the loop in pvPortMalloc.
THEOREM FreeListCorrect == Spec => []FreeListOK
<1>1. HeapInv => FreeListOK
  <2> SUFFICES ASSUME HeapInv, Ready PROVE FreeListOK
    BY DEF FreeListOK
  <2> DEFINE L == FreeList(block)
             list == {Nth(block)[n] : n \in 0 .. Units}
  <2>1. Layout(block) /\ Linked(block, L) /\ Separate(block, L)
    BY DEF HeapInv, Counted, Good
  <2>2. L = FreeBlocks \cup {Start, End} /\ FreeBlocks = L \ {Start, End}
    BY <2>1 DEF FreeBlocks, Blocks, Used, FreeList, Linked
  <2> HIDE DEF L
  <2>3. list = L
    <3>1. \A n \in 0 .. Units : Nth(block)[n] \in L
      BY <2>1, WalkOnList
    <3>2. \A x \in L : \E n \in 0 .. Units : Nth(block)[n] = x
      BY <2>1, Visited
    <3> QED
      BY <3>1, <3>2
  <2>4. \A a \in list \ {End} : a < block[a].next
    BY <2>1, <2>3 DEF Linked
  <2>5. \A a \in FreeBlocks : block[a].next = End \/ a + block[a].size < block[a].next
    BY <2>1, <2>2 DEF Separate
  <2> QED
    BY <2>2, <2>3, <2>4, <2>5 DEF FreeListOK
<1> QED
  BY <1>1, HeapCorrect, PTL

\* xFreeBytesRemaining is what the free blocks cover, after every order of
\* splits and merges.
THEOREM FreeCountCorrect == Spec => []FreeCount
<1>1. HeapInv => FreeCount
  <2> SUFFICES ASSUME HeapInv, Ready PROVE free = Cardinality(FreeUnits) /\ minFree <= free
    BY DEF FreeCount
  <2>1. Good(block) /\ minFree \in 0 .. free
        /\ free = Cardinality(Covered(block, FreeList(block)))
    BY DEF HeapInv, Counted
  <2>2. FreeBlocks = FreeList(block) \ {Start, End}
    BY DEF FreeBlocks, Blocks, Used, FreeList
  <2>3. FreeUnits = Covered(block, FreeList(block))
    BY <2>2 DEF FreeUnits, Covered
  <2>4. free \in 0 .. End
    BY <2>1, CoveredFinite
  <2> QED
    BY <2>1, <2>3, <2>4
<1> QED
  BY <1>1, HeapCorrect, PTL

LEMMA WholeHeap ==
  ASSUME NEW b, Good(b), UsedOf(b) = {}
  PROVE  b = Initial /\ Covered(b, FreeList(b)) = 0 .. End - 1
<1> DEFINE L == FreeList(b)
<1>1. Layout(b) /\ Linked(b, L) /\ Separate(b, L) /\ L = DOMAIN b
  BY DEF Good, FreeList, UsedOf
<1> HIDE DEF L
<1>2. End \in Nat /\ End > 0 /\ Start = -1 /\ NULL = -2 /\ Start # End
  BY Sizes
<1>3. 0 \in BlocksOf(b) /\ 0 \in L \ {Start, End}
  BY <1>1, <1>2 DEF Layout, BlocksOf
<1> DEFINE y == 0 + b[0].size
<1>4. y \in 1 .. End /\ y \in BlocksOf(b) \cup {End} /\ y = b[0].size
  <2>1. b[0].size \in 1 .. End
    BY <1>1, <1>3, BlockIs
  <2>2. 0 + b[0].size \in BlocksOf(b) \cup {End}
    BY <1>1, <1>3 DEF Layout
  <2> QED
    BY <1>2, <2>1, <2>2
<1>5. b[0].next \in L /\ 0 < b[0].next /\ \A c \in L : c <= 0 \/ b[0].next <= c
  BY <1>1, <1>3 DEF Linked
<1>6. b[0].next = End \/ y < b[0].next
  BY <1>1, <1>3 DEF Separate
<1>7. b[0].next \in 0 .. End
  <2>1. b[0].next \in {Start} \cup 0 .. End
    BY <1>1, <1>5 DEF Linked
  <2> QED
    BY <1>2, <1>5, <2>1
<1> HIDE DEF y
<1>8. y = End
  <2> SUFFICES ASSUME y # End PROVE FALSE
    OBVIOUS
  <2>1. y \in BlocksOf(b) /\ y \in L
    BY <1>1, <1>4 DEF BlocksOf
  <2>2. y \in 0 .. End - 1
    BY <1>1, <2>1, BlockIs
  <2>3. b[0].next <= y
    BY <1>2, <1>5, <2>2, <1>4, <2>1
  <2> QED
    BY <1>2, <1>6, <1>7, <2>2, <2>3
<1>9. BlocksOf(b) = {0}
  <2>1. ASSUME NEW c \in BlocksOf(b) PROVE c = 0
    <3>1. c <= 0 \/ 0 + b[0].size <= c
      BY <1>1, <1>3 DEF Layout
    <3>2. c \in 0 .. End - 1
      BY <1>1, BlockIs
    <3> QED
      BY <1>2, <1>4, <1>8, <3>1, <3>2
  <2> QED
    BY <1>3, <2>1
<1>10. DOMAIN b = {Start, 0, End}
  BY <1>1, <1>9 DEF BlocksOf, Layout
<1>11. b[0].next = End /\ b[0].size = End
  BY <1>2, <1>4, <1>5, <1>6, <1>7, <1>8
<1>12. b[Start].next = 0 /\ b[Start].size = 0
  <2>1. /\ b[Start].next \in L /\ Start < b[Start].next
        /\ \A c \in L : c <= Start \/ b[Start].next <= c
    BY <1>1, <1>2 DEF Linked
  <2>2. b[Start].next \in {Start} \cup 0 .. End
    BY <1>1, <2>1 DEF Linked
  <2>3. b[Start].next <= 0
    BY <1>2, <1>3, <2>1
  <2>4. b[Start].next = 0
    BY <1>2, <2>1, <2>2, <2>3
  <2> QED
    BY <1>1, <2>4 DEF Layout
<1>13. b[End].next = NULL /\ b[End].size = 0
  BY <1>1 DEF Linked, Layout
<1>14. \A a \in DOMAIN b : b[a] = Header(b[a].next, b[a].size, FALSE)
  <2> TAKE a \in DOMAIN b
  <2>1. b[a] \in Headers
    BY <1>1 DEF Layout
  <2>2. ~ b[a].used
    BY DEF UsedOf
  <2>3. b[a].used = FALSE
    BY <2>1, <2>2 DEF Headers
  <2>4. b[a] = [next |-> b[a].next, size |-> b[a].size, used |-> b[a].used]
    BY <2>1 DEF Headers
  <2> QED
    BY <2>3, <2>4 DEF Header
<1>15. b = Initial
  <2>1. b = [a \in DOMAIN b |-> b[a]]
    BY <1>1 DEF Layout
  <2>2. b[Start] = Header(0, 0, FALSE)
    BY <1>10, <1>12, <1>14
  <2>3. b[0] = Header(End, End, FALSE)
    BY <1>10, <1>11, <1>14
  <2>4. b[End] = Header(NULL, 0, FALSE)
    BY <1>10, <1>13, <1>14
  <2>5. \A a \in {Start, 0, End} : b[a] = CASE a = Start -> Header(0, 0, FALSE)
                                            [] a = 0     -> Header(End, End, FALSE)
                                            [] a = End   -> Header(NULL, 0, FALSE)
    BY <1>2, <2>2, <2>3, <2>4
  <2>6. b = [a \in {Start, 0, End} |-> CASE a = Start -> Header(0, 0, FALSE)
                                         [] a = 0     -> Header(End, End, FALSE)
                                         [] a = End   -> Header(NULL, 0, FALSE)]
    BY <1>10, <2>1, <2>5, Zenon
  <2> QED
    BY <2>6 DEF Initial
<1>16. Covered(b, FreeList(b)) = 0 .. End - 1
  BY <1>15, InitialIsGood
<1> QED
  BY <1>15, <1>16

\* Once every block was freed, in whatever order, the heap is one block again.
THEOREM HeapRestored == Spec => []Restored
<1>1. HeapInv => Restored
  <2> SUFFICES ASSUME HeapInv, Ready, Used = {} PROVE block = Initial /\ free = End
    BY DEF Restored
  <2>1. Good(block) /\ free = Cardinality(Covered(block, FreeList(block)))
    BY DEF HeapInv, Counted
  <2>2. UsedOf(block) = {}
    BY DEF Used, UsedOf
  <2>3. block = Initial /\ Covered(block, FreeList(block)) = 0 .. End - 1
    BY <2>1, <2>2, WholeHeap
  <2>4. Cardinality(0 .. End - 1) = End
    <3>1. 0 \in Int /\ End \in Nat /\ 0 + End - 1 = End - 1
      BY Sizes
    <3>2. Cardinality(0 .. 0 + End - 1) = End
      BY <3>1, IntervalSize
    <3> QED
      BY <3>1, <3>2
  <2> QED
    BY <2>1, <2>3, <2>4
<1> QED
  BY <1>1, HeapCorrect, PTL

-----------------------------------------------------------------------------
(* The refinement of HeapSpace.                                            *)

OwnedOf(b) == {[at |-> a, size |-> b[a].size] : a \in UsedOf(b)}

LEMMA PromisedNext ==
  HeapInv /\ [Next]_vars => [Promise!Next]_<<OwnedOf(block), last>>
<1> SUFFICES ASSUME HeapInv, [Next]_vars PROVE [Promise!Next]_<<OwnedOf(block), last>>
  OBVIOUS
<1> DEFINE owned == OwnedOf(block)
<1>1. owned = {[at |-> a, size |-> block[a].size] : a \in Used}
  BY DEF OwnedOf, UsedOf, Used
<1>2. Promise!Taken = UNION {a .. a + block[a].size - 1 : a \in UsedOf(block)}
  <2>1. Promise!Taken = UNION {o.at .. o.at + o.size - 1 : o \in owned}
    BY <1>1 DEF Promise!Taken, Promise!Region
  <2>2. ASSUME NEW u
        PROVE  (\E o \in owned : u \in o.at .. o.at + o.size - 1)
                  <=> \E a \in UsedOf(block) : u \in a .. a + block[a].size - 1
    <3>1. \A a \in UsedOf(block) : [at |-> a, size |-> block[a].size] \in owned
      BY DEF OwnedOf
    <3>2. \A o \in owned : \E a \in UsedOf(block) : o.at = a /\ o.size = block[a].size
      BY DEF OwnedOf
    <3> HIDE DEF owned
    <3>3. ASSUME NEW a \in UsedOf(block), u \in a .. a + block[a].size - 1
          PROVE  \E o \in owned : u \in o.at .. o.at + o.size - 1
      <4> DEFINE o == [at |-> a, size |-> block[a].size]
      <4>1. o \in owned /\ o.at = a /\ o.size = block[a].size
        BY <3>1
      <4> HIDE DEF o
      <4> QED
        BY <3>3, <4>1
    <3> QED
      BY <3>2, <3>3
  <2> QED
    BY <2>1, <2>2
<1>3. ASSUME NEW bytes \in Requests, pvPortMalloc(bytes)
      PROVE  Promise!Next
  <2> DEFINE want == Wanted(bytes)
  <2>1. PICK now, at :
           /\ Good(now)
           /\ UsedOf(now) = UsedOf(block) /\ \A x \in UsedOf(block) : now[x] = block[x]
           /\ last' = [want |-> want, at |-> at]
           /\ \/ at = NULL /\ block' = now /\ NoRoom(now, want)
              \/ GivenFrom(now, at, want)
    BY <1>3, MallocStep
  <2>2. Covered(now, FreeList(now)) = (0 .. End - 1) \ Promise!Taken
    <3>1. UNION {a .. a + now[a].size - 1 : a \in UsedOf(now)} = Promise!Taken
      BY <1>2, <2>1
    <3> QED
      BY <2>1, <3>1, CoveredIsUnused
  <2>3. OwnedOf(now) = owned
    BY <2>1 DEF OwnedOf
  <2>4. want \in {Wanted(n) : n \in Requests}
    OBVIOUS
  <2> HIDE DEF want, owned
  <2>5. CASE at = NULL /\ block' = now /\ NoRoom(now, want)
    <3>1. OwnedOf(block)' = owned
      BY <2>3, <2>5 DEF OwnedOf, UsedOf
    <3>2. want = 0 \/ \A p \in 0 .. End - 1 : ~ Promise!Fits([at |-> p, size |-> want])
      BY <2>2, <2>5 DEF NoRoom, Promise!Fits, Promise!Region
    <3>3. Promise!Refuse(want)
      BY <1>1, <2>1, <2>5, <3>1, <3>2 DEF Promise!Refuse, OwnedOf, UsedOf, Used, owned
    <3> QED
      BY <2>4, <3>3 DEF Promise!Next, Promise!Malloc
  <2>6. CASE GivenFrom(now, at, want)
    <3> DEFINE size == block'[at].size
               given == [at |-> at, size |-> size]
    <3>1. /\ at \in 0 .. End - 1 /\ want > 0
          /\ UsedOf(block') = UsedOf(now) \cup {at}
          /\ \A x \in UsedOf(now) : block'[x] = now[x]
          /\ size \in want .. want + MinimumBlock
          /\ at .. at + size - 1 \subseteq Covered(now, FreeList(now))
      BY <2>6 DEF GivenFrom
    <3>2. OwnedOf(block') = owned \cup {given}
      <4>1. \A x \in UsedOf(now) : block'[x].size = now[x].size
        BY <3>1
      <4> QED
        BY <2>3, <3>1, <4>1 DEF OwnedOf
    <3>3. Promise!Fits(given)
      BY <2>2, <3>1 DEF Promise!Fits, Promise!Region
    <3> HIDE DEF size
    <3>4. Promise!Give(want)
      BY <1>1, <2>1, <3>1, <3>2, <3>3 DEF Promise!Give, OwnedOf, UsedOf, Used, owned
    <3> QED
      BY <2>4, <3>1, <3>4 DEF Promise!Next, Promise!Malloc
  <2> QED
    BY <2>1, <2>5, <2>6
<1>4. ASSUME NEW at \in Used, vPortFree(at)
      PROVE  Promise!Next
  <2> DEFINE given == [at |-> at, size |-> block[at].size]
  <2>1. /\ UsedOf(block') = UsedOf(block) \ {at} /\ last' = last
        /\ \A x \in UsedOf(block') : block'[x] = block[x]
    BY <1>4, FreeStep
  <2>2. OwnedOf(block') = owned \ {given}
    <3>1. \A x \in UsedOf(block') : block'[x].size = block[x].size /\ x # at
      BY <2>1
    <3> QED
      BY <2>1, <3>1 DEF OwnedOf
  <2>3. given \in owned
    BY DEF OwnedOf, Used, UsedOf
  <2> HIDE DEF given, owned
  <2>4. Promise!Free(given)
    BY <1>1, <2>1, <2>2 DEF Promise!Free, OwnedOf, UsedOf, Used, owned
  <2>5. given \in {[at |-> a, size |-> block[a].size] : a \in Used}
    BY <1>1, <2>3
  <2> QED
    BY <2>4, <2>5 DEF Promise!Next, Promise!Free
<1>5. CASE UNCHANGED vars
  BY <1>5 DEF vars, OwnedOf, UsedOf
<1> QED
  BY <1>3, <1>4, <1>5 DEF Next

\* The heap implements the promise to its callers, of every size and for all
\* requests: memory nobody else holds, and NULL only when no gap is big enough.
THEOREM HeapKeepsPromise == Spec => KeepsPromise
<1>1. Init => Promise!Init
  BY DEF Init, Promise!Init, Used
<1>2. HeapInv /\ [Next]_vars =>
         [Promise!Next]_<<{[at |-> a, size |-> block[a].size] : a \in Used}, last>>
  BY PromisedNext DEF OwnedOf, UsedOf, Used
<1> QED
  BY <1>1, <1>2, HeapCorrect, PTL DEF Spec, KeepsPromise, Promise!Spec

-----------------------------------------------------------------------------
(* What the callers may count on.                                          *)

\* A block in a caller's hands keeps its place and its header through every
\* call but the one that frees it, whatever is split and merged around it.
THEOREM BlocksStay ==
  Spec => [][\A a \in Used : vPortFree(a) \/ (a \in Used' /\ block'[a] = block[a])]_vars
<1> DEFINE Stays(a) == vPortFree(a) \/ (a \in UsedOf(block') /\ block'[a] = block[a])
<1>1. ASSUME HeapInv, [Next]_vars, NEW a \in UsedOf(block) PROVE Stays(a)
  <2>1. ASSUME NEW bytes \in Requests, pvPortMalloc(bytes) PROVE Stays(a)
    <3>1. PICK now, at :
             /\ UsedOf(now) = UsedOf(block) /\ \A x \in UsedOf(block) : now[x] = block[x]
             /\ block' = now \/ GivenFrom(now, at, Wanted(bytes))
      BY <1>1, <2>1, MallocStep
    <3> QED
      BY <1>1, <3>1 DEF GivenFrom
  <2>2. ASSUME NEW at \in Used, vPortFree(at) PROVE Stays(a)
    BY <1>1, <2>2, FreeStep
  <2>3. CASE UNCHANGED vars
    BY <1>1, <2>3 DEF vars
  <2> QED
    BY <1>1, <2>1, <2>2, <2>3 DEF Next
<1>2. HeapInv /\ [Next]_vars
        => [\A a \in Used : vPortFree(a) \/ (a \in Used' /\ block'[a] = block[a])]_vars
  BY <1>1 DEF Used, UsedOf
<1> QED
  BY <1>2, HeapCorrect, PTL DEF Spec

LEMMA Quotient ==
  ASSUME NEW u \in Nat, NEW s \in Nat \ {0}
  PROVE  u = s * (u \div s) + (u % s) /\ u % s \in 0 .. s - 1 /\ u \div s \in Int
OBVIOUS

LEMMA NextMultiple ==
  ASSUME NEW s \in Nat \ {0}, NEW d \in Int, NEW e \in Int, d > e
  PROVE  s * d >= s * e + s
OBVIOUS

\* Of less than s numbers in a row no two leave the same rest.
LEMMA RestsDiffer ==
  ASSUME NEW s \in Nat \ {0}, NEW u \in Nat, NEW v \in Nat, u < v, v - u < s
  PROVE  u % s # v % s
<1> DEFINE d == u \div s
           e == v \div s
           r == u % s
<1> SUFFICES ASSUME v % s = r PROVE FALSE
  OBVIOUS
<1>1. u = s * d + r /\ v = s * e + r /\ r \in 0 .. s - 1 /\ d \in Int /\ e \in Int
  BY Quotient
<1> HIDE DEF d, e, r
<1>2. s * d \in Int /\ s * e \in Int
  BY <1>1
<1>3. d # e
  BY <1>1
<1>4. CASE d > e
  <2>1. s * d >= s * e + s
    BY <1>1, <1>4, NextMultiple
  <2> QED
    BY <1>1, <1>2, <2>1
<1>5. CASE e > d
  <2>1. s * e >= s * d + s
    BY <1>1, <1>5, NextMultiple
  <2> QED
    BY <1>1, <1>2, <2>1
<1> QED
  BY <1>1, <1>3, <1>4, <1>5

\* p is the last block in use that starts before unit u, or xStart.
LastBefore(b, u, p) ==
    /\ p \in UsedOf(b) \cup {Start} /\ p <= u
    /\ \A d \in UsedOf(b) : d <= u => d <= p

LEMMA LastBeforeExists ==
  ASSUME NEW b, Good(b), NEW u \in 0 .. End - 1
  PROVE  \E p \in UsedOf(b) \cup {Start} : LastBefore(b, u, p)
<1> DEFINE T == {u - d : d \in {c \in UsedOf(b) : c <= u}}
<1>1. UsedOf(b) \subseteq 0 .. End /\ End \in Nat /\ Start = -1
  BY Sizes DEF Good, Layout, Linked, UsedOf, FreeList
<1>2. CASE T = {}
  <2>1. \A d \in UsedOf(b) : ~ d <= u
    BY <1>2
  <2>2. LastBefore(b, u, Start)
    BY <1>1, <2>1 DEF LastBefore
  <2> QED
    BY <2>2
<1>3. CASE T # {}
  <2>1. T \in SUBSET Nat
    BY <1>1
  <2> HIDE DEF T
  <2>2. PICK x \in T : \A y \in T : x <= y
    BY <1>3, <2>1, LeastNat
  <2>3. PICK p \in UsedOf(b) : p <= u /\ x = u - p
    BY <2>2 DEF T
  <2>4. ASSUME NEW d \in UsedOf(b), d <= u PROVE d <= p
    <3>1. u - d \in T
      BY <2>4 DEF T
    <3>2. u - p <= u - d
      BY <2>2, <2>3, <3>1
    <3> QED
      BY <1>1, <3>2
  <2> QED
    BY <2>3, <2>4 DEF LastBefore
<1> QED
  BY <1>2, <1>3

\* Between two free units with the same block before them all is free.
LEMMA FreeBetween ==
  ASSUME NEW b, Good(b),
         NEW u \in Covered(b, FreeList(b)), NEW v \in Covered(b, FreeList(b)), u < v,
         NEW p, LastBefore(b, u, p), LastBefore(b, v, p)
  PROVE  u .. v \subseteq Covered(b, FreeList(b))
<1> DEFINE C == Covered(b, FreeList(b))
<1>1. /\ C \subseteq 0 .. End - 1
      /\ C = (0 .. End - 1) \ UNION {a .. a + b[a].size - 1 : a \in UsedOf(b)}
  BY CoveredIsUnused
<1>2. End \in Nat /\ \A d \in UsedOf(b) : d \in 0 .. End - 1 /\ b[d].size \in 1 .. End
  <2>1. UsedOf(b) \subseteq BlocksOf(b)
    BY DEF Good, Linked, UsedOf, FreeList, BlocksOf
  <2> QED
    BY <2>1, BlockIs, Sizes DEF Good
<1> HIDE DEF C
<1>3. ASSUME NEW w \in u .. v, w \notin C PROVE FALSE
  <2>1. u \in C /\ v \in C
    BY DEF C
  <2>2. u \in 0 .. End - 1 /\ v \in 0 .. End - 1
    BY <1>1, <2>1
  <2>3. w \in 0 .. End - 1 /\ u < w
    <3>1. w # u
      BY <1>3, <2>1
    <3>2. w \in Int /\ u <= w /\ w <= v
      BY <2>2
    <3> QED
      BY <1>2, <2>2, <3>1, <3>2
  <2>4. PICK d \in UsedOf(b) : w \in d .. d + b[d].size - 1
    BY <1>1, <1>3, <2>3
  <2>5. d <= p /\ p <= u
    BY <1>2, <2>2, <2>3, <2>4 DEF LastBefore
  <2>6. p \in Int
    BY <1>2, Sizes DEF LastBefore
  <2>7. u \in d .. d + b[d].size - 1
    BY <1>2, <2>2, <2>3, <2>4, <2>5, <2>6
  <2>8. u \notin C
    BY <1>1, <2>7
  <2> QED
    BY <2>1, <2>8
<1> QED
  BY <1>3 DEF C

\* When no gap holds want units, the free units are few: n blocks in use leave
\* n + 1 gaps, and each of them less than want units.
LEMMA GapsAreFew ==
  ASSUME NEW b, Good(b), NEW want \in Nat \ {0}, NoRoom(b, want)
  PROVE  /\ IsFiniteSet(UsedOf(b))
         /\ Cardinality(Covered(b, FreeList(b))) <= (Cardinality(UsedOf(b)) + 1) * (want - 1)
<1> DEFINE C == Covered(b, FreeList(b))
           U == UsedOf(b)
           s == want - 1
<1>1. C \subseteq 0 .. End - 1 /\ End \in Nat
  BY CoveredIsUnused, Sizes
<1>2. IsFiniteSet(U) /\ Start \notin U
  <2>1. U \in SUBSET (0 .. End) /\ Start \notin U
    BY Sizes DEF Good, Layout, Linked, UsedOf, FreeList
  <2>2. IsFiniteSet(0 .. End)
    BY <1>1, FS_Interval
  <2> QED
    BY <2>1, <2>2, FS_Subset
<1>3. Cardinality(U) \in Nat
  BY <1>2, FS_CardinalityType
<1>4. IsFiniteSet(C) /\ Cardinality(C) \in Nat
  BY CoveredFinite
<1>5. ASSUME NEW u \in C, NEW v \in C, u < v, u .. v \subseteq C
      PROVE  v - u < s
  <2>1. u \in 0 .. End - 1 /\ v \in 0 .. End - 1
    BY <1>1
  <2>2. ~ (u .. u + want - 1 \subseteq C)
    BY <2>1 DEF NoRoom
  <2>3. CASE v - u >= s
    <3>1. u .. u + want - 1 \subseteq u .. v
      BY <2>1, <2>3
    <3> QED
      BY <1>5, <2>2, <3>1
  <2> QED
    BY <2>1, <2>3
<1>6. CASE s = 0
  <2>1. ASSUME NEW u \in C PROVE FALSE
    <3>1. u \in 0 .. End - 1 /\ u .. u + want - 1 = {u}
      BY <1>1, <1>6
    <3> QED
      BY <3>1 DEF NoRoom
  <2>2. C = {}
    BY <2>1
  <2>3. Cardinality(C) = 0
    BY <2>2, FS_EmptySet
  <2>4. (Cardinality(U) + 1) * s = 0
    BY <1>3, <1>6
  <2> QED
    BY <1>2, <2>3, <2>4
<1>7. CASE s # 0
  <2> DEFINE P == U \cup {Start}
             R == 0 .. s - 1
             f == [u \in C |-> <<CHOOSE p \in P : LastBefore(b, u, p), u % s>>]
  <2>1. s \in Nat \ {0}
    BY <1>7
  <2>2. \A u \in C : /\ f[u] \in P \X R
                     /\ LastBefore(b, u, f[u][1]) /\ f[u][2] = u % s
    <3> TAKE u \in C
    <3>1. u \in 0 .. End - 1 /\ u \in Nat
      BY <1>1
    <3>2. \E p \in P : LastBefore(b, u, p)
      BY <3>1, LastBeforeExists
    <3> DEFINE q == CHOOSE p \in P : LastBefore(b, u, p)
    <3>3. q \in P /\ LastBefore(b, u, q)
      BY <3>2
    <3>4. f[u] = <<q, u % s>>
      OBVIOUS
    <3> HIDE DEF q, f, P
    <3>5. u % s \in R
      BY <2>1, <3>1, Quotient
    <3> QED
      BY <3>3, <3>4, <3>5
  <2>3. f \in [C -> P \X R]
    <3> DEFINE g(u) == <<CHOOSE p \in P : LastBefore(b, u, p), u % s>>
    <3>1. f = [u \in C |-> g(u)] /\ \A u \in C : f[u] = g(u)
      OBVIOUS
    <3> HIDE DEF g, P
    <3> QED
      BY <2>2, <3>1
  <2>4. /\ IsFiniteSet(P \X R)
        /\ Cardinality(P \X R) = (Cardinality(U) + 1) * s
    <3>1. IsFiniteSet(P) /\ Cardinality(P) = Cardinality(U) + 1
      BY <1>2, FS_AddElement
    <3>2. IsFiniteSet(R) /\ Cardinality(R) = s
      BY <2>1, FS_Interval
    <3> HIDE DEF P, R
    <3> QED
      BY <3>1, <3>2, FS_Product
  <2> HIDE DEF f, P, R
  <2>5. ASSUME NEW u \in C, NEW v \in C, u < v PROVE f[u] # f[v]
    <3> SUFFICES ASSUME f[u] = f[v] PROVE FALSE
      OBVIOUS
    <3> DEFINE p == f[u][1]
    <3>1. LastBefore(b, u, p) /\ LastBefore(b, v, p) /\ u % s = v % s
      BY <2>2
    <3> HIDE DEF p
    <3>2. u .. v \subseteq C
      BY <2>5, <3>1, FreeBetween
    <3>3. v - u < s /\ u \in Nat /\ v \in Nat
      BY <1>1, <1>5, <2>5, <3>2
    <3> QED
      BY <2>1, <2>5, <3>1, <3>3, RestsDiffer
  <2>6. CASE Cardinality(P \X R) < Cardinality(C)
    <3>1. PICK u, v \in C : u # v /\ f[u] = f[v]
      BY <1>4, <2>3, <2>4, <2>6, FS_PigeonHole
    <3>2. u \in Int /\ v \in Int
      BY <1>1
    <3> QED
      BY <2>5, <3>1, <3>2
  <2>7. Cardinality(P \X R) \in Nat
    BY <2>4, FS_CardinalityType
  <2> QED
    BY <1>2, <1>4, <2>4, <2>6, <2>7
<1> QED
  BY <1>6, <1>7

\* The cost of fragmentation has a bound.  n blocks in use leave at most n + 1
\* gaps: pvPortMalloc refuses a request only when no more is free than so many
\* gaps hold that are each one unit too small.  TLC finds a state of the
\* instance where it is just that.
THEOREM RefusalIsBounded ==
  Spec => [][\A bytes \in Requests :
               pvPortMalloc(bytes) /\ last'.want > 0 /\ last'.at = NULL
                 => free' <= (Cardinality(Used) + 1) * (last'.want - 1)]_vars
<1>1. ASSUME HeapInv, NEW bytes \in Requests, pvPortMalloc(bytes),
             last'.want > 0, last'.at = NULL
      PROVE  free' <= (Cardinality(Used) + 1) * (last'.want - 1)
  <2> DEFINE want == Wanted(bytes)
  <2>1. PICK now, at :
           /\ Good(now) /\ UsedOf(now) = UsedOf(block)
           /\ free' = Cardinality(Covered(block', FreeList(block')))
           /\ last' = [want |-> want, at |-> at]
           /\ \/ at = NULL /\ block' = now /\ NoRoom(now, want)
              \/ GivenFrom(now, at, want)
    BY <1>1, MallocStep DEF Counted
  <2>2. last'.want = want /\ last'.at = at
    BY <2>1
  <2>3. block' = now /\ NoRoom(now, want)
    <3>1. NULL \notin 0 .. End - 1
      BY Sizes
    <3> QED
      BY <1>1, <2>1, <2>2, <3>1 DEF GivenFrom
  <2>4. want \in Nat \ {0}
    <3>1. bytes \in Nat
      BY HeapAssumption
    <3>2. (bytes + 8 - 1) \div 8 \in Nat
      BY <3>1
    <3>3. want \in Nat
      BY <3>1, <3>2 DEF Wanted, HeaderSize, Alignment
    <3> HIDE DEF want
    <3> QED
      BY <1>1, <2>2, <3>3
  <2> HIDE DEF want
  <2>5. Cardinality(Covered(now, FreeList(now))) <= (Cardinality(UsedOf(now)) + 1) * (want - 1)
    BY <2>1, <2>3, <2>4, GapsAreFew
  <2>6. UsedOf(now) = Used
    BY <2>1 DEF Used, UsedOf
  <2> QED
    BY <2>1, <2>2, <2>3, <2>5, <2>6
<1>2. HeapInv =>
        [\A bytes \in Requests :
           pvPortMalloc(bytes) /\ last'.want > 0 /\ last'.at = NULL
             => free' <= (Cardinality(Used) + 1) * (last'.want - 1)]_vars
  BY <1>1
<1> QED
  BY <1>2, HeapCorrect, PTL DEF Spec
=============================================================================
