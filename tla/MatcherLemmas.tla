--------------------------- MODULE MatcherLemmas ---------------------------
(***************************************************************************)
(* Lemmas about the hash-table matchers of levels 2 to 9: what a search    *)
(* may return, given what the table and the cache yield; the common shape  *)
(* of the matchers' steps, with the differences between them in a profile; *)
(* and tidiness, the order of the positions a table holds, which stores,   *)
(* resets and the promotion to another table keep.                         *)
(***************************************************************************)
EXTENDS Matchers, WellFoundedInduction, FiniteSetTheorems,
        SequenceTheorems, TLAPS

-----------------------------------------------------------------------------
(* Numbers *)

(* The least and the greatest of two numbers. *)
LEMMA MinTwo ==
  ASSUME NEW a \in Int, NEW b \in Int
  PROVE  Min({a, b}) = IF a <= b THEN a ELSE b
<1>1. Min({a, b}) = CHOOSE x \in {a, b} : \A y \in {a, b} : x <= y
  BY DEF Min
<1>2. \A x \in {a, b} : (\A y \in {a, b} : x <= y) => x = IF a <= b THEN a ELSE b
  OBVIOUS
<1>3. \E x \in {a, b} : \A y \in {a, b} : x <= y
  OBVIOUS
<1> QED BY <1>1, <1>2, <1>3

LEMMA MaxTwo ==
  ASSUME NEW a \in Int, NEW b \in Int
  PROVE  Max({a, b}) = IF a >= b THEN a ELSE b
<1>1. Max({a, b}) = CHOOSE x \in {a, b} : \A y \in {a, b} : x >= y
  BY DEF Max
<1>2. \A x \in {a, b} : (\A y \in {a, b} : x >= y) => x = IF a >= b THEN a ELSE b
  OBVIOUS
<1>3. \E x \in {a, b} : \A y \in {a, b} : x >= y
  OBVIOUS
<1> QED BY <1>1, <1>2, <1>3

(* A set of naturals that is not empty has a least element. *)
LEMMA Least ==
  ASSUME NEW T \in SUBSET Nat, T # {}
  PROVE  \E x \in T : \A y \in T : x <= y
<1> DEFINE R == {ss \in Nat \X Nat : ss[1] < ss[2]}
<1>1. IsWellFoundedOn(R, Nat)
  BY NatLessThanWellFounded DEF OpToRel
<1> HIDE DEF R
<1>2. PICK x \in T : \A y \in T : ~(<<y, x>> \in R)
  BY <1>1, WFMin
<1>3. ASSUME NEW y \in T PROVE x <= y
  <2>1. x \in Nat /\ y \in Nat
    OBVIOUS
  <2>2. y < x => <<y, x>> \in R
    BY <2>1 DEF R
  <2> QED BY <1>2, <2>1, <2>2
<1> QED BY <1>3

(* The least of some numbers below a limit and the limit. *)
LEMMA MinBelow ==
  ASSUME NEW n \in Nat, NEW A \in SUBSET (0 .. n - 1)
  PROVE  /\ Min(A \cup {n}) \in 0 .. n
         /\ \A k \in 0 .. Min(A \cup {n}) - 1 : k \notin A
<1> DEFINE B == A \cup {n}
<1>1. B \in SUBSET Nat /\ B # {}
  OBVIOUS
<1>2. PICK x \in B : \A y \in B : x <= y
  BY <1>1, Least
<1>3. Min(B) = CHOOSE z \in B : \A y \in B : z <= y
  BY DEF Min
<1>4. Min(B) \in B /\ \A y \in B : Min(B) <= y
  BY <1>2, <1>3
<1>5. PICK m \in B : m = Min(B) /\ \A y \in B : m <= y
  BY <1>4
<1>6. m \in 0 .. n /\ \A k \in 0 .. m - 1 : k \notin A
  BY <1>5
<1> QED
  BY <1>5, <1>6

-----------------------------------------------------------------------------
(* Functions defined by recursion over an interval *)

(* A property of the first value that every step keeps. *)
LEMMA RecursionKeeps ==
  ASSUME NEW lo \in Int, NEW hi \in Int, NEW f, NEW T,
         f[lo] \in T,
         \A k \in lo + 1 .. hi : f[k - 1] \in T => f[k] \in T
  PROVE  \A k \in lo .. hi : f[k] \in T
<1> SUFFICES ASSUME NEW b \in lo .. hi, f[b] \notin T PROVE FALSE
  OBVIOUS
<1> DEFINE A == {n \in Nat : lo + n \in lo .. hi /\ f[lo + n] \notin T}
<1>1. b - lo \in Nat /\ lo + (b - lo) = b
  OBVIOUS
<1>2. b - lo \in A
  BY <1>1
<1>3. PICK x \in A : \A y \in A : x <= y
  BY <1>2, Least
<1>4. x # 0
  BY <1>3
<1>5. x - 1 \in Nat /\ lo + (x - 1) \in lo .. hi /\ x - 1 \notin A
  BY <1>3, <1>4
<1>6. f[lo + (x - 1)] \in T
  BY <1>5
<1>7. lo + x \in lo + 1 .. hi /\ (lo + x) - 1 = lo + (x - 1)
  BY <1>3, <1>4
<1> QED
  BY <1>3, <1>6, <1>7

(* There is a function with the first value and the step given. *)
Recurs(f, lo, hi, base, G) ==
    \A k \in lo .. hi : f[k] = IF k = lo THEN base ELSE G[<<k, f[k - 1]>>]

LEMMA RecursionExists ==
  ASSUME NEW lo \in Int, NEW hi \in Int, NEW T, NEW base \in T,
         NEW G \in [(lo + 1 .. hi) \X T -> T]
  PROVE  \E f \in [lo .. hi -> T] : Recurs(f, lo, hi, base, G)
<1> DEFINE Has(n) == \E f \in [lo .. lo + n -> T] :
                       \A k \in lo .. lo + n :
                         f[k] = IF k = lo THEN base ELSE G[<<k, f[k - 1]>>]
<1>1. CASE hi < lo
  <2>1. lo .. hi = {}
    BY <1>1
  <2>2. [k \in lo .. hi |-> base] \in [lo .. hi -> T]
    OBVIOUS
  <2> QED
    BY <2>1, <2>2 DEF Recurs
<1>2. CASE hi >= lo
  <2>1. Has(0)
    <3>1. lo .. lo + 0 = {lo}
      OBVIOUS
    <3>2. [k \in lo .. lo + 0 |-> base] \in [lo .. lo + 0 -> T]
      OBVIOUS
    <3> QED
      BY <3>1, <3>2
  <2>2. ASSUME NEW n \in Nat, lo + (n + 1) <= hi, Has(n) PROVE Has(n + 1)
    <3>1. PICK f \in [lo .. lo + n -> T] :
             \A k \in lo .. lo + n :
               f[k] = IF k = lo THEN base ELSE G[<<k, f[k - 1]>>]
      BY <2>2
    <3> DEFINE top == lo + (n + 1)
               g == [k \in lo .. top |-> IF k = top THEN G[<<top, f[top - 1]>>] ELSE f[k]]
    <3>2. top \in lo + 1 .. hi /\ top - 1 \in lo .. lo + n
      BY <2>2
    <3>3. G[<<top, f[top - 1]>>] \in T
      BY <3>1, <3>2
    <3>4. \A k \in lo .. top : k # top => k \in lo .. lo + n
      OBVIOUS
    <3>5. g \in [lo .. top -> T]
      BY <3>1, <3>3, <3>4
    <3>6. ASSUME NEW k \in lo .. top
          PROVE  g[k] = IF k = lo THEN base ELSE G[<<k, g[k - 1]>>]
      <4>1. CASE k = top
        <5>1. k - 1 \in lo .. top /\ k - 1 # top /\ k # lo
          BY <4>1
        <5> QED
          BY <4>1, <5>1
      <4>2. CASE k # top /\ k # lo
        <5>1. k - 1 \in lo .. top /\ k - 1 # top
          BY <4>2
        <5>2. g[k] = f[k] /\ g[k - 1] = f[k - 1]
          BY <4>2, <5>1
        <5> QED
          BY <3>1, <3>4, <4>2, <5>2
      <4>3. CASE k # top /\ k = lo
        BY <3>1, <3>4, <4>3
      <4> QED
        BY <4>1, <4>2, <4>3
    <3> QED
      BY <3>5, <3>6
  <2> HIDE DEF Has
  <2> DEFINE A == {n \in Nat : lo + n <= hi /\ ~Has(n)}
  <2>3. A = {}
    <3> SUFFICES ASSUME A # {} PROVE FALSE
      OBVIOUS
    <3>1. PICK x \in A : \A y \in A : x <= y
      BY Least
    <3>2. x # 0
      BY <2>1, <3>1
    <3>3. x - 1 \in Nat /\ (x - 1) + 1 = x /\ lo + (x - 1) <= hi /\ x - 1 \notin A
      BY <3>1, <3>2
    <3>4. Has(x - 1)
      BY <3>3
    <3>5. Has((x - 1) + 1)
      BY <2>2, <3>1, <3>3, <3>4
    <3> QED
      BY <3>1, <3>3, <3>5
  <2>4. hi - lo \in Nat /\ lo + (hi - lo) = hi
    BY <1>2
  <2>5. Has(hi - lo)
    BY <2>3, <2>4
  <2> QED
    BY <2>4, <2>5 DEF Has, Recurs
<1> QED
  BY <1>1, <1>2

-----------------------------------------------------------------------------
(* What a search may return *)

(* Scores are integers. *)
LEMMA ScoreInt ==
  ASSUME NEW len \in Int, NEW distance
  PROVE  Score(len, distance) \in Int /\ ScoreUsingLast(len) \in Int
<1> DEFINE A == {k \in 1 .. 25 : 2^k <= distance}
<1>1. IsFiniteSet(1 .. 25)
  <2>1. 1 \in Int /\ 25 \in Int
    OBVIOUS
  <2> QED
    BY <2>1, FS_Interval, Zenon
<1>2. A \subseteq 1 .. 25
  OBVIOUS
<1>3. IsFiniteSet(A)
  BY <1>1, <1>2, FS_Subset
<1>4. Log2Floor(distance) \in Nat
  BY <1>3, FS_CardinalityType DEF Log2Floor
<1> QED
  BY <1>4 DEF Score, ScoreUsingLast

LEMMA PenaltyInt == ASSUME NEW k \in 2 .. 16 PROVE Penalty(k - 1) \in Int
<1>1. 1 + ((k - 1) \div 2) \in 1 .. 8
  OBVIOUS
<1>2. <<0, 2, 0, 4, 5, 1, 6, 3>>[1 + ((k - 1) \div 2)] \in Int
  BY <1>1
<1> QED
  BY <1>2 DEF Penalty

(* Two positions have at most the bytes in common that are asked for. *)
LEMMA MatchLenRange ==
  ASSUME NEW a, NEW b, NEW limit \in Nat
  PROVE  /\ MatchLen(a, b, limit) \in 0 .. limit
         /\ \A j \in 0 .. MatchLen(a, b, limit) - 1 : ByteAt(a + j) = ByteAt(b + j)
<1> DEFINE A == {k \in 0 .. limit - 1 : ByteAt(a + k) # ByteAt(b + k)}
<1>1. MatchLen(a, b, limit) = Min(A \cup {limit})
  BY DEF MatchLen
<1>2. A \in SUBSET (0 .. limit - 1)
  OBVIOUS
<1> HIDE DEF A
<1>3. /\ MatchLen(a, b, limit) \in 0 .. limit
      /\ \A k \in 0 .. MatchLen(a, b, limit) - 1 : k \notin A
  <2>1. /\ Min(A \cup {limit}) \in 0 .. limit
        /\ \A k \in 0 .. Min(A \cup {limit}) - 1 : k \notin A
    BY <1>2, MinBelow, Zenon
  <2> QED
    BY <1>1, <2>1
<1>4. \A k \in 0 .. MatchLen(a, b, limit) - 1 : k \in 0 .. limit - 1
  BY <1>3
<1> QED
  BY <1>3, <1>4 DEF A

-----------------------------------------------------------------------------
(* What a search may return *)

(* The copy of ml bytes from distance d back, as the data of the ring.     *)
Copied(masked, cur, d, ml) ==
    \A j \in 0 .. ml - 1 :
      ByteAt(IndexOf(masked, cur - d) + j) = ByteAt(IndexOf(masked, cur) + j)

(* A set M that has every true match in the window. *)
Takes(masked, cur, maxLength, maxDistance, M) ==
    \A ml \in 2 .. maxLength, d \in 1 .. maxDistance, sc \in Int :
      Copied(masked, cur, d, ml) => Match(ml, d, sc) \in M

(* A search over the entries of the distance cache finds only those.       *)
LEMMA TryCacheFinds ==
  ASSUME NEW masked, NEW first \in 1 .. 16, NEW last \in first .. 16, NEW cur,
         NEW maxLength \in Nat, NEW maxDistance \in Int, NEW best, NEW M,
         Takes(masked, cur, maxLength, maxDistance, M)
  PROVE  TryCache(masked, first, last, cur, maxLength, maxDistance, best)
           \in {best} \cup M
<1> DEFINE T == {best} \cup M
           i == IndexOf(masked, cur)
           P(k) == IndexOf(masked, cur - l.cache[k])
           Ml(k) == MatchLen(P(k), i, maxLength)
           Sc(k) == ScoreUsingLast(Ml(k)) - (IF k = 1 THEN 0 ELSE Penalty(k - 1))
           Body(k, r) == IF /\ l.cache[k] \in 1 .. maxDistance
                            /\ masked => P(k) < RingLimit(i, r.len)
                            /\ ByteAt(P(k) + r.len) = ByteAt(i + r.len)
                            /\ Ml(k) >= (IF k <= 2 THEN 2 ELSE 3)
                            /\ Sc(k) > r.score
                         THEN Match(Ml(k), l.cache[k], Sc(k)) ELSE r
           Try == CHOOSE f : f = [k \in first - 1 .. last |->
                                    IF k = first - 1 THEN best ELSE Body(k, f[k - 1])]
<1>1. TryCache(masked, first, last, cur, maxLength, maxDistance, best) = Try[last]
  BY DEF TryCache
<1>2. \A k : Ml(k) \in 0 .. maxLength
  BY MatchLenRange
<1>3. \A k : Copied(masked, cur, l.cache[k], Ml(k))
  BY MatchLenRange DEF Copied
<1> HIDE DEF i, P, Ml
<1>4. ASSUME NEW k \in first .. last, NEW r \in T PROVE Body(k, r) \in T
  <2>1. Ml(k) \in 0 .. maxLength /\ Copied(masked, cur, l.cache[k], Ml(k))
    BY <1>2, <1>3
  <2>2. Sc(k) \in Int
    <3>1. ScoreUsingLast(Ml(k)) \in Int
      BY <2>1 DEF ScoreUsingLast
    <3>2. k # 1 => k \in 2 .. 16
      BY ONLY k \in first .. last, first \in 1 .. 16, last \in first .. 16
    <3>3. k # 1 => Penalty(k - 1) \in Int
      BY <3>2, PenaltyInt, Zenon
    <3> QED
      BY <3>1, <3>3
  <2>3. CASE l.cache[k] \in 1 .. maxDistance /\ Ml(k) >= (IF k <= 2 THEN 2 ELSE 3)
    <3>1. Ml(k) \in 2 .. maxLength
      BY <2>1, <2>3
    <3> HIDE DEF Sc
    <3>2. Match(Ml(k), l.cache[k], Sc(k)) \in M
      BY <2>1, <2>2, <2>3, <3>1 DEF Takes
    <3> QED
      BY <3>2
  <2> QED
    BY <2>3
<1> HIDE DEF Body
<1>5. best \in T
  OBVIOUS
<1> HIDE DEF T
<1>6. PICK lo \in Int : lo = first - 1 /\ lo + 1 = first /\ last \in Int
  OBVIOUS
<1> DEFINE G == [x \in (lo + 1 .. last) \X T |-> Body(x[1], x[2])]
<1>7. G \in [(lo + 1 .. last) \X T -> T]
  BY <1>4, <1>6
<1>8. \A k \in lo + 1 .. last : \A r \in T : G[<<k, r>>] = Body(k, r)
  OBVIOUS
<1> HIDE DEF G
<1>9. \E f \in [lo .. last -> T] : Recurs(f, lo, last, best, G)
  BY <1>5, <1>6, <1>7, RecursionExists, Zenon
<1>10. PICK f \in [lo .. last -> T] : Recurs(f, lo, last, best, G)
  BY <1>9
<1>11. f = [k \in lo .. last |-> IF k = lo THEN best ELSE Body(k, f[k - 1])]
  <2>1. ASSUME NEW k \in lo .. last, k # lo
        PROVE  f[k] = Body(k, f[k - 1])
    <3>1. k \in lo + 1 .. last /\ k - 1 \in lo .. last
      BY <1>6, <2>1
    <3> QED
      BY <1>8, <1>10, <2>1, <3>1 DEF Recurs
  <2> QED
    BY <1>10, <2>1 DEF Recurs
<1>12. Try = [k \in lo .. last |-> IF k = lo THEN best ELSE Body(k, Try[k - 1])]
  BY <1>6, <1>11
<1> HIDE DEF Try
<1>13. \A k \in lo .. last : Try[k] \in T
  <2>1. Try[lo] \in T
    BY <1>5, <1>6, <1>12
  <2>2. \A k \in lo + 1 .. last : Try[k - 1] \in T => Try[k] \in T
    BY <1>4, <1>6, <1>12
  <2> QED
    BY <1>6, <2>1, <2>2, RecursionKeeps, Zenon
<1> QED
  BY <1>1, <1>6, <1>13 DEF T

(* So does one that asks for the tiny hash. *)
LEMMA TryCacheTinyFinds ==
  ASSUME NEW first \in 1 .. 16, NEW last \in first .. 16, NEW cur,
         NEW maxLength \in Nat, NEW maxDistance \in Int, NEW best, NEW M,
         Takes(TRUE, cur, maxLength, maxDistance, M)
  PROVE  TryCacheTiny(first, last, cur, maxLength, maxDistance, best)
           \in {best} \cup M
<1> DEFINE T == {best} \cup M
           i == Masked(cur)
           P(k) == Masked(cur - l.cache[k])
           Ml(k) == MatchLen(P(k), i, maxLength)
           Sc(k) == ScoreUsingLast(Ml(k)) - (IF k = 1 THEN 0 ELSE Penalty(k - 1))
           Body(k, r) == IF /\ l.cache[k] \in 1 .. maxDistance
                            /\ k > 1 => h.tinyHash[(cur - l.cache[k]) % U16Size]
                                          = ChainKey(i) % TinyHashes
                            /\ Ml(k) >= 2 /\ Sc(k) > r.score
                         THEN Match(Ml(k), l.cache[k], Sc(k)) ELSE r
           Try == CHOOSE f : f = [k \in first - 1 .. last |->
                                    IF k = first - 1 THEN best ELSE Body(k, f[k - 1])]
<1>1. TryCacheTiny(first, last, cur, maxLength, maxDistance, best) = Try[last]
  BY DEF TryCacheTiny
<1>2. \A k : Ml(k) \in 0 .. maxLength
  BY MatchLenRange
<1>3. \A k : Copied(TRUE, cur, l.cache[k], Ml(k))
  BY MatchLenRange DEF Copied, IndexOf
<1> HIDE DEF i, P, Ml
<1>4. ASSUME NEW k \in first .. last, NEW r \in T PROVE Body(k, r) \in T
  <2>1. Ml(k) \in 0 .. maxLength /\ Copied(TRUE, cur, l.cache[k], Ml(k))
    BY <1>2, <1>3
  <2>2. Sc(k) \in Int
    <3>1. ScoreUsingLast(Ml(k)) \in Int
      BY <2>1 DEF ScoreUsingLast
    <3>2. k # 1 => k \in 2 .. 16
      BY ONLY k \in first .. last, first \in 1 .. 16, last \in first .. 16
    <3>3. k # 1 => Penalty(k - 1) \in Int
      BY <3>2, PenaltyInt, Zenon
    <3> QED
      BY <3>1, <3>3
  <2>3. CASE l.cache[k] \in 1 .. maxDistance /\ Ml(k) >= 2
    <3>1. Ml(k) \in 2 .. maxLength
      BY <2>1, <2>3
    <3> HIDE DEF Sc
    <3>2. Match(Ml(k), l.cache[k], Sc(k)) \in M
      BY <2>1, <2>2, <2>3, <3>1 DEF Takes
    <3> QED
      BY <3>2
  <2> QED
    BY <2>3
<1> HIDE DEF Body
<1>5. best \in T
  OBVIOUS
<1> HIDE DEF T
<1>6. PICK lo \in Int : lo = first - 1 /\ lo + 1 = first /\ last \in Int
  OBVIOUS
<1> DEFINE G == [x \in (lo + 1 .. last) \X T |-> Body(x[1], x[2])]
<1>7. G \in [(lo + 1 .. last) \X T -> T]
  BY <1>4, <1>6
<1>8. \A k \in lo + 1 .. last : \A r \in T : G[<<k, r>>] = Body(k, r)
  OBVIOUS
<1> HIDE DEF G
<1>9. \E f \in [lo .. last -> T] : Recurs(f, lo, last, best, G)
  BY <1>5, <1>6, <1>7, RecursionExists, Zenon
<1>10. PICK f \in [lo .. last -> T] : Recurs(f, lo, last, best, G)
  BY <1>9
<1>11. f = [k \in lo .. last |-> IF k = lo THEN best ELSE Body(k, f[k - 1])]
  <2>1. ASSUME NEW k \in lo .. last, k # lo
        PROVE  f[k] = Body(k, f[k - 1])
    <3>1. k \in lo + 1 .. last /\ k - 1 \in lo .. last
      BY <1>6, <2>1
    <3> QED
      BY <1>8, <1>10, <2>1, <3>1 DEF Recurs
  <2> QED
    BY <1>10, <2>1 DEF Recurs
<1>12. Try = [k \in lo .. last |-> IF k = lo THEN best ELSE Body(k, Try[k - 1])]
  BY <1>6, <1>11
<1> HIDE DEF Try
<1>13. \A k \in lo .. last : Try[k] \in T
  <2>1. Try[lo] \in T
    BY <1>5, <1>6, <1>12
  <2>2. \A k \in lo + 1 .. last : Try[k - 1] \in T => Try[k] \in T
    BY <1>4, <1>6, <1>12
  <2> QED
    BY <1>6, <2>1, <2>2, RecursionKeeps, Zenon
<1> QED
  BY <1>1, <1>6, <1>13 DEF T

(* A scan of a bucket finds what its entries in the window yield.          *)
EntriesTaken(masked, entries, cur, maxLength, maxDistance, M) ==
    \E n \in Nat :
      /\ entries \in [1 .. n -> Int]
      /\ \A k \in 1 .. n : entries[k] >= cur - maxDistance =>
           \A ml \in 2 .. maxLength, sc \in Int :
             Copied(masked, cur, cur - entries[k], ml)
               => Match(ml, cur - entries[k], sc) \in M

LEMMA ScanBucketFinds ==
  ASSUME NEW masked, NEW entries, NEW tried, NEW cur \in Int, NEW maxLength \in Nat,
         NEW maxDistance \in Int, NEW best, NEW M,
         EntriesTaken(masked, entries, cur, maxLength, maxDistance, M)
  PROVE  ScanBucket(masked, entries, tried, cur, maxLength, maxDistance, best)
           \in {best} \cup M
<1> DEFINE L == {Max({best.len, 3})} \cup 0 .. maxLength
           T == [sr : {best} \cup M, len : L, stop : BOOLEAN]
           i == IndexOf(masked, cur)
           Over(j, len) == masked /\ j + len >= RingSize
           P(k) == IndexOf(masked, entries[k])
           Ml(k) == MatchLen(P(k), i, maxLength)
           Sc(k) == Score(Ml(k), cur - entries[k])
           Body(k, r) ==
             IF k \notin tried THEN r
             ELSE IF r.stop \/ Over(i, r.len) \/ entries[k] < cur - maxDistance
             THEN [r EXCEPT !.stop = TRUE]
             ELSE IF /\ ~Over(P(k), r.len) /\ SameEnd(P(k), i, r.len)
                     /\ Ml(k) >= 4 /\ Sc(k) > r.sr.score
             THEN [r EXCEPT !.sr = Match(Ml(k), cur - entries[k], Sc(k)), !.len = Ml(k)]
             ELSE r
           start == [sr |-> best, len |-> Max({best.len, 3}), stop |-> FALSE]
           Scan == CHOOSE f : f = [k \in 0 .. Len(entries) |->
                                     IF k = 0 THEN start ELSE Body(k, f[k - 1])]
<1>0. PICK n \in Nat :
         /\ entries \in [1 .. n -> Int]
         /\ \A k \in 1 .. n : entries[k] >= cur - maxDistance =>
              \A ml \in 2 .. maxLength, sc \in Int :
                Copied(masked, cur, cur - entries[k], ml)
                  => Match(ml, cur - entries[k], sc) \in M
  BY DEF EntriesTaken
<1>1. ScanBucket(masked, entries, tried, cur, maxLength, maxDistance, best)
        = Scan[Len(entries)].sr
  BY DEF ScanBucket
<1>2. \A k : Ml(k) \in 0 .. maxLength
  BY MatchLenRange
<1>3. \A k \in 1 .. n : Copied(masked, cur, cur - entries[k], Ml(k))
  <2> TAKE k \in 1 .. n
  <2>1. cur - (cur - entries[k]) = entries[k]
    BY <1>0
  <2> QED
    BY <2>1, MatchLenRange DEF Copied
<1>4. Len(entries) = n
  BY <1>0
<1> HIDE DEF i, P, Ml, Over, L
<1>5. ASSUME NEW k \in 1 .. n, NEW r \in T PROVE Body(k, r) \in T
  <2>1. Ml(k) \in 0 .. maxLength /\ Copied(masked, cur, cur - entries[k], Ml(k))
    BY <1>2, <1>3
  <2>2. Sc(k) \in Int
    BY <2>1, ScoreInt
  <2> HIDE DEF Sc
  <2>3. CASE Ml(k) >= 4 /\ ~(entries[k] < cur - maxDistance)
    <3>1. Ml(k) \in 2 .. maxLength /\ entries[k] >= cur - maxDistance
      BY <1>0, <2>1, <2>3
    <3>2. Match(Ml(k), cur - entries[k], Sc(k)) \in M
      BY <1>0, <2>1, <2>2, <3>1
    <3>3. Ml(k) \in L
      BY <2>1 DEF L
    <3>4. [r EXCEPT !.sr = Match(Ml(k), cur - entries[k], Sc(k)), !.len = Ml(k)] \in T
      BY <3>2, <3>3
    <3> QED
      BY <3>4
  <2>4. [r EXCEPT !.stop = TRUE] \in T
    OBVIOUS
  <2> HIDE DEF T
  <2> QED
    BY <2>3, <2>4
<1>6. start \in T
  BY DEF L
<1>7. \A r \in T : r.sr \in {best} \cup M
  OBVIOUS
<1> HIDE DEF Body, T, start
<1>8. \A k \in 0 + 1 .. n : \A r \in T : Body(k, r) \in T
  BY <1>5
<1>9. PICK lo \in Int : lo = 0 /\ n \in Int
  OBVIOUS
<1> DEFINE G == [x \in (lo + 1 .. n) \X T |-> Body(x[1], x[2])]
<1>10. G \in [(lo + 1 .. n) \X T -> T]
  BY <1>8, <1>9
<1>11. \A k \in lo + 1 .. n : \A r \in T : G[<<k, r>>] = Body(k, r)
  OBVIOUS
<1> HIDE DEF G
<1>12. \E f \in [lo .. n -> T] : Recurs(f, lo, n, start, G)
  BY <1>6, <1>9, <1>10, RecursionExists, Zenon
<1>13. PICK f \in [lo .. n -> T] : Recurs(f, lo, n, start, G)
  BY <1>12
<1>14. f = [k \in lo .. n |-> IF k = lo THEN start ELSE Body(k, f[k - 1])]
  <2>1. ASSUME NEW k \in lo .. n, k # lo
        PROVE  f[k] = Body(k, f[k - 1])
    <3>1. k \in lo + 1 .. n /\ k - 1 \in lo .. n
      BY <1>9, <2>1
    <3> QED
      BY <1>11, <1>13, <2>1, <3>1 DEF Recurs
  <2> QED
    BY <1>13, <2>1 DEF Recurs
<1>15. Scan = [k \in lo .. n |-> IF k = lo THEN start ELSE Body(k, Scan[k - 1])]
  <2>1. f = [k \in 0 .. Len(entries) |-> IF k = 0 THEN start ELSE Body(k, f[k - 1])]
    BY <1>4, <1>9, <1>14
  <2>2. Scan = [k \in 0 .. Len(entries) |-> IF k = 0 THEN start ELSE Body(k, Scan[k - 1])]
    BY <2>1
  <2> QED
    BY <1>4, <1>9, <2>2
<1> HIDE DEF Scan
<1>16. \A k \in lo .. n : Scan[k] \in T
  <2>1. Scan[lo] \in T
    BY <1>6, <1>9, <1>15
  <2>2. \A k \in lo + 1 .. n : Scan[k - 1] \in T => Scan[k] \in T
    BY <1>8, <1>9, <1>15
  <2> QED
    BY <1>9, <2>1, <2>2, RecursionKeeps, Zenon
<1> QED
  BY <1>1, <1>4, <1>7, <1>9, <1>16

(* A search of h2, and one of h3, h4 or h54, given that the last distance  *)
(* and the slots of the key yield a match of M or none.                    *)
LastTaken(masked, within, cur, maxLength, maxDistance, M) ==
    \A best : TryLast(masked, within, cur, maxLength, maxDistance, best) \in {best} \cup M

SlotTaken(masked, k, cur, maxLength, maxDistance, M) ==
    \A best : TrySlot(masked, h.buckets[k], cur, maxLength, maxDistance, best)
                \in {best} \cup M

LEMMA FindOneFinds ==
  ASSUME NEW masked, NEW narrow, NEW cur, NEW maxLength, NEW maxDistance, NEW best,
         NEW M, LastTaken(masked, FALSE, cur, maxLength, maxDistance, M),
         SlotTaken(masked, HashAt(IndexOf(masked, cur), 5, QuickSlots),
                   cur, maxLength, maxDistance, M)
  PROVE  FindOne(masked, narrow, cur, maxLength, maxDistance, best).sr \in {best} \cup M
<1> DEFINE prev == h.buckets[HashAt(IndexOf(masked, cur), 5, QuickSlots)]
           last == TryLast(masked, FALSE, cur, maxLength, maxDistance, best)
           slot == TrySlot(masked, prev, cur, maxLength, maxDistance, best)
<1>1. FindOne(masked, narrow, cur, maxLength, maxDistance, best).sr
        = IF last # best THEN last ELSE slot
  BY DEF FindOne
<1>2. last \in {best} \cup M
  BY DEF LastTaken
<1>3. slot \in {best} \cup M
  BY DEF SlotTaken
<1> QED
  BY <1>1, <1>2, <1>3

LEMMA FindSweepFinds ==
  ASSUME NEW masked, NEW narrow, NEW n, NEW sweep \in Nat, NEW within, NEW words,
         NEW cur, NEW maxLength, NEW maxDistance, NEW best, NEW M,
         LastTaken(masked, within, cur, maxLength, maxDistance, M),
         \A j \in 1 .. sweep :
           SlotTaken(masked, (HashAt(IndexOf(masked, cur), n, QuickSlots) + 8 * (j - 1))
                               % QuickSlots, cur, maxLength, maxDistance, M)
  PROVE  FindSweep(masked, narrow, n, sweep, within, words, cur,
                   maxLength, maxDistance, best).sr \in {best} \cup M
<1> DEFINE T == {best} \cup M
           key == HashAt(IndexOf(masked, cur), n, QuickSlots)
           start == TryLast(masked, within, cur, maxLength, maxDistance, best)
           Body(j, r) == TrySlot(masked, h.buckets[(key + 8 * (j - 1)) % QuickSlots],
                                 cur, maxLength, maxDistance, r)
           Try == CHOOSE f : f = [j \in 0 .. sweep |->
                                    IF j = 0 THEN start ELSE Body(j, f[j - 1])]
<1>1. FindSweep(masked, narrow, n, sweep, within, words, cur,
                maxLength, maxDistance, best).sr = Try[sweep]
  BY DEF FindSweep
<1>2. ASSUME NEW k \in 0 + 1 .. sweep, NEW r \in T PROVE Body(k, r) \in T
  <2>0. k \in 1 .. sweep
    OBVIOUS
  <2>1. Body(k, r) \in {r} \cup M
    BY <2>0 DEF SlotTaken
  <2> QED
    BY <2>1
<1>3. start \in T
  BY DEF LastTaken
<1>3a. sweep \in Int
  OBVIOUS
<1> HIDE DEF T, start, Body
<1>4. PICK lo \in Int : lo = 0 /\ sweep \in Int
  OBVIOUS
<1> DEFINE G == [x \in (lo + 1 .. sweep) \X T |-> Body(x[1], x[2])]
<1>5. G \in [(lo + 1 .. sweep) \X T -> T]
  BY <1>2, <1>4
<1>6. \A k \in lo + 1 .. sweep : \A r \in T : G[<<k, r>>] = Body(k, r)
  OBVIOUS
<1> HIDE DEF G
<1>7. \E f \in [lo .. sweep -> T] : Recurs(f, lo, sweep, start, G)
  BY <1>3, <1>4, <1>5, RecursionExists, Zenon
<1>8. PICK f \in [lo .. sweep -> T] : Recurs(f, lo, sweep, start, G)
  BY <1>7
<1>9. f = [k \in lo .. sweep |-> IF k = lo THEN start ELSE Body(k, f[k - 1])]
  <2>1. ASSUME NEW k \in lo .. sweep, k # lo
        PROVE  f[k] = Body(k, f[k - 1])
    <3>1. k \in lo + 1 .. sweep /\ k - 1 \in lo .. sweep
      BY <1>4, <2>1
    <3> QED
      BY <1>6, <1>8, <2>1, <3>1 DEF Recurs
  <2> QED
    BY <1>8, <2>1 DEF Recurs
<1>10. Try = [k \in lo .. sweep |-> IF k = lo THEN start ELSE Body(k, Try[k - 1])]
  BY <1>4, <1>9
<1> HIDE DEF Try
<1>11. \A k \in lo .. sweep : Try[k] \in T
  <2>1. Try[lo] \in T
    BY <1>3, <1>4, <1>10
  <2>2. \A k \in lo + 1 .. sweep : Try[k - 1] \in T => Try[k] \in T
    BY <1>2, <1>4, <1>10
  <2> QED
    BY <1>4, <2>1, <2>2, RecursionKeeps, Zenon
<1> QED
  BY <1>1, <1>4, <1>11 DEF T

-----------------------------------------------------------------------------
(* Matches of at most n bytes, and what the searches take for a match,     *)
(* whatever the distance.                                                  *)
Matches(n) == [len : 2 .. n, distance : Int, score : Int, delta : Int]

LEMMA AnyMatch ==
  ASSUME NEW n \in Nat, NEW len \in 2 .. n, NEW d \in Int, NEW sc \in Int
  PROVE  Match(len, d, sc) \in Matches(n)
BY DEF Match, Matches

(* Whatever is compared, what is found is a match of at most the bytes     *)
(* asked for.                                                              *)
LEMMA TakesAny ==
  ASSUME NEW masked, NEW cur, NEW maxLength \in Nat, NEW maxDistance
  PROVE  Takes(masked, cur, maxLength, maxDistance, Matches(maxLength))
BY AnyMatch DEF Takes

LEMMA TryLastAny ==
  ASSUME NEW masked, NEW within, NEW cur, NEW maxLength \in Nat, NEW maxDistance,
         s.distCache[1] \in Int
  PROVE  LastTaken(masked, within, cur, maxLength, maxDistance, Matches(maxLength))
<1> SUFFICES ASSUME NEW best
             PROVE  TryLast(masked, within, cur, maxLength, maxDistance, best)
                      \in {best} \cup Matches(maxLength)
  BY DEF LastTaken
<1> DEFINE d == s.distCache[1]
           ml == MatchLen(IndexOf(masked, cur - d), IndexOf(masked, cur), maxLength)
           sc == ScoreUsingLast(ml)
<1>1. ml \in 0 .. maxLength
  BY MatchLenRange
<1>2. \/ /\ TryLast(masked, within, cur, maxLength, maxDistance, best) = Match(ml, d, sc)
         /\ ml >= 4
      \/ TryLast(masked, within, cur, maxLength, maxDistance, best) = best
  BY DEF TryLast
<1> HIDE DEF ml
<1>3. sc \in Int
  BY <1>1, ScoreInt
<1> HIDE DEF sc
<1>4. CASE ml >= 4
  <2>1. ml \in 2 .. maxLength
    BY <1>1, <1>4
  <2>2. Match(ml, d, sc) \in Matches(maxLength)
    BY <1>3, <2>1, AnyMatch
  <2> QED
    BY <1>2, <2>2
<1> QED
  BY <1>2, <1>4

LEMMA TrySlotAny ==
  ASSUME NEW masked, NEW k, h.buckets[k] \in Int, NEW cur \in Int,
         NEW maxLength \in Nat, NEW maxDistance
  PROVE  SlotTaken(masked, k, cur, maxLength, maxDistance, Matches(maxLength))
<1> SUFFICES ASSUME NEW best, NEW prev \in Int
             PROVE  TrySlot(masked, prev, cur, maxLength, maxDistance, best)
                      \in {best} \cup Matches(maxLength)
  BY DEF SlotTaken
<1> DEFINE ml == MatchLen(IndexOf(masked, prev), IndexOf(masked, cur), maxLength)
           sc == Score(ml, cur - prev)
<1>1. ml \in 0 .. maxLength
  BY MatchLenRange
<1>2. \/ TrySlot(masked, prev, cur, maxLength, maxDistance, best) = Match(ml, cur - prev, sc) /\ ml >= 4
      \/ TrySlot(masked, prev, cur, maxLength, maxDistance, best) = best
  BY DEF TrySlot
<1> HIDE DEF ml
<1>3. sc \in Int
  BY <1>1, ScoreInt
<1> HIDE DEF sc
<1>4. CASE ml >= 4
  <2>1. ml \in 2 .. maxLength /\ cur - prev \in Int
    BY <1>1, <1>4
  <2>2. Match(ml, cur - prev, sc) \in Matches(maxLength)
    BY <1>3, <2>1, AnyMatch
  <2> QED
    BY <1>2, <2>2
<1> QED
  BY <1>2, <1>4

(* A walk over a chain. *)
WalkTaken(hh, cur, maxLength, maxDistance, M) ==
    \A best : WalkChain(hh, cur, maxLength, maxDistance, best) \in {best} \cup M

(* The slots of a bank, of one of the two sizes. *)
BankOf(n) == [0 .. n - 1 -> [delta : Nat, next : 0 .. n - 1]]

LEMMA WalkChainAny ==
  ASSUME NEW hh, NEW cur \in Int, NEW maxLength \in Nat, NEW maxDistance,
         NEW n \in Nat, NEW key, key = ChainKey(Masked(cur)),
         U16Size \in Nat, h.maxHops \in Nat,
         hh.banks[key % Cardinality(DOMAIN hh.banks)] \in BankOf(n),
         h.head[key] \in 0 .. n - 1, h.addr[key] \in Int
  PROVE  WalkTaken(hh, cur, maxLength, maxDistance, Matches(maxLength))
<1> SUFFICES ASSUME NEW best
             PROVE  WalkChain(hh, cur, maxLength, maxDistance, best)
                      \in {best} \cup Matches(maxLength)
  BY DEF WalkTaken
<1> DEFINE M == Matches(maxLength)
           L == {Max({best.len, 3})} \cup 0 .. maxLength
           slots == hh.banks[key % Cardinality(DOMAIN hh.banks)]
           T == [sr : {best} \cup M, len : L, slot : 0 .. n - 1,
                 backward : Int, delta : Int]
           i == Masked(cur)
           P(r) == Masked(cur - (r.backward + r.delta))
           Ml(r) == MatchLen(P(r), i, maxLength)
           Sc(r) == Score(Ml(r), r.backward + r.delta)
           on(r) == [r EXCEPT !.backward = r.backward + r.delta,
                              !.slot = slots[r.slot].next,
                              !.delta = slots[r.slot].delta]
           Body(k, r) ==
             IF r.backward + r.delta > maxDistance THEN r
             ELSE IF /\ i + r.len < RingSize /\ P(r) + r.len < RingSize
                     /\ SameEnd(P(r), i, r.len) /\ Ml(r) >= 4 /\ Sc(r) > r.sr.score
             THEN [on(r) EXCEPT !.sr = Match(Ml(r), r.backward + r.delta, Sc(r)),
                                !.len = Ml(r)]
             ELSE on(r)
           start == [sr |-> best, len |-> Max({best.len, 3}), slot |-> h.head[key],
                     backward |-> 0, delta |-> Since(cur, h.addr[key])]
           hops == h.maxHops
           Walk == CHOOSE f : f = [k \in 0 .. hops |->
                                     IF k = 0 THEN start ELSE Body(k, f[k - 1])]
<1>1. WalkChain(hh, cur, maxLength, maxDistance, best) = Walk[hops].sr
  BY DEF WalkChain
<1>2. \A r : Ml(r) \in 0 .. maxLength
  BY MatchLenRange
<1>2a. slots \in BankOf(n)
  OBVIOUS
<1> HIDE DEF i, P, Ml, L, M, slots
<1>4. ASSUME NEW k \in 0 + 1 .. hops, NEW r \in T PROVE Body(k, r) \in T
  <2>1. Ml(r) \in 0 .. maxLength
    BY <1>2
  <2>2. Sc(r) \in Int
    BY <2>1, ScoreInt
  <2> HIDE DEF Sc
  <2>3. slots[r.slot] \in [delta : Int, next : 0 .. n - 1]
    BY <1>2a DEF BankOf
  <2>4. on(r) \in T
    <3>1. r.backward + r.delta \in Int
      OBVIOUS
    <3> QED
      BY <2>3, <3>1
  <2>5. CASE Ml(r) >= 4
    <3>1. Ml(r) \in 2 .. maxLength /\ Ml(r) \in L
      BY <2>1, <2>5 DEF L
    <3>2. Match(Ml(r), r.backward + r.delta, Sc(r)) \in M
      <4>1. r.backward + r.delta \in Int
        OBVIOUS
      <4> QED
        BY <2>2, <3>1, <4>1, AnyMatch DEF M
    <3> HIDE DEF on
    <3>3. [on(r) EXCEPT !.sr = Match(Ml(r), r.backward + r.delta, Sc(r)),
                        !.len = Ml(r)] \in T
      BY <2>4, <3>1, <3>2
    <3> HIDE DEF T
    <3> QED
      BY <2>4, <3>3
  <2> HIDE DEF T, on
  <2> QED
    BY <2>4, <2>5
<1>5. start \in T
  <2>1. Since(cur, h.addr[key]) \in Int
    BY DEF Since
  <2> QED
    BY <2>1 DEF L
<1>6. \A r \in T : r.sr \in {best} \cup M
  OBVIOUS
<1>7. hops \in Nat
  OBVIOUS
<1> HIDE DEF Body, T, start, hops
<1>8. PICK lo \in Int : lo = 0 /\ hops \in Int /\ hops >= 0
  BY <1>7
<1> DEFINE G == [x \in (lo + 1 .. hops) \X T |-> Body(x[1], x[2])]
<1>9. G \in [(lo + 1 .. hops) \X T -> T]
  BY <1>4, <1>8
<1>10. \A k \in lo + 1 .. hops : \A r \in T : G[<<k, r>>] = Body(k, r)
  OBVIOUS
<1> HIDE DEF G
<1>11. \E f \in [lo .. hops -> T] : Recurs(f, lo, hops, start, G)
  BY <1>5, <1>8, <1>9, RecursionExists, Zenon
<1>12. PICK f \in [lo .. hops -> T] : Recurs(f, lo, hops, start, G)
  BY <1>11
<1>13. f = [k \in lo .. hops |-> IF k = lo THEN start ELSE Body(k, f[k - 1])]
  <2>1. ASSUME NEW k \in lo .. hops, k # lo
        PROVE  f[k] = Body(k, f[k - 1])
    <3>1. k \in lo + 1 .. hops /\ k - 1 \in lo .. hops
      BY <1>8, <2>1
    <3> QED
      BY <1>10, <1>12, <2>1, <3>1 DEF Recurs
  <2> QED
    BY <1>12, <2>1 DEF Recurs
<1>14. Walk = [k \in lo .. hops |-> IF k = lo THEN start ELSE Body(k, Walk[k - 1])]
  BY ONLY <1>8, <1>13
<1> HIDE DEF Walk
<1>15. \A k \in lo .. hops : Walk[k] \in T
  <2>1. Walk[lo] \in T
    BY <1>5, <1>8, <1>14
  <2>2. \A k \in lo + 1 .. hops : Walk[k - 1] \in T => Walk[k] \in T
    BY <1>4, <1>8, <1>14
  <2> QED
    BY <1>8, <2>1, <2>2, RecursionKeeps, Zenon
<1>16. Walk[hops] \in T
  BY <1>7, <1>8, <1>15
<1> QED
  BY <1>1, <1>6, <1>16 DEF M

-----------------------------------------------------------------------------
(* The bytes of the ring *)

(* Division with remainder. *)
LEMMA Remainder ==
  ASSUME NEW m \in Nat \ {0}, NEW a \in Int
  PROVE  a = m * (a \div m) + (a % m) /\ a % m \in 0 .. m - 1 /\ a \div m \in Int
OBVIOUS

(* The sizes of the ring. *)
LEMMA RingSizes ==
  /\ RingSize \in Nat \ {0} /\ RingTail \in Nat /\ RingTail >= 8
  /\ Window \in Nat /\ Window >= 16 /\ RingSize >= 2 * Window
  /\ RingSize >= 2 * RingTail
BY MatchLoopAssumption

(* What the loop reads of the input. *)
DataOK == /\ Data \in Seq(Int) /\ Chunks \in Seq(Seq(Int))
          /\ l.posEnd \in 0 .. Len(Data)

(* The bytes of the input. *)
LEMMA ByteInt == ASSUME DataOK, NEW i \in Int PROVE ByteAt(i) \in Int
<1>0. PICK e \in Nat, n \in Nat : e = l.posEnd /\ n = Len(Data) /\ e <= n
  <2>1. Len(Data) \in Nat
    BY LenProperties DEF DataOK
  <2> QED
    BY <2>1 DEF DataOK
<1>1. PICK c \in 0 .. RingSize - 1 : c = i % RingSize
  BY RingSizes, Remainder
<1>2. CASE i >= RingSize + RingTail \/ c >= l.posEnd
  BY <1>1, <1>2 DEF ByteAt, Nothing
<1>3. CASE ~(i >= RingSize + RingTail) /\ ~(c >= l.posEnd)
  <2>1. PICK b \in Nat : b = l.posEnd - 1 - c
    BY <1>0, <1>1, <1>3
  <2>2. PICK q \in Int, t \in 0 .. RingSize - 1 : q = b \div RingSize /\ b = RingSize * q + t
    BY RingSizes, Remainder
  <2>3. RingSize * q >= 0
    <3>1. q >= 0
      BY <2>1, <2>2, RingSizes
    <3> QED
      BY <3>1, RingSizes
  <2>4. PICK y \in Nat : y = RingSize * q
    BY <2>3, RingSizes
  <2>5. 1 + c + y \in 1 .. n
    <3>1. b = y + t
      BY <2>2, <2>4
    <3>2. t >= 0 /\ t \in Int /\ c >= 0 /\ c \in Int
      BY <1>1, <2>2, RingSizes
    <3>3. y = e - 1 - c - t
      BY <1>0, <2>1, <2>4, <3>1, <3>2
    <3> QED
      BY ONLY <1>0, <2>4, <3>2, <3>3
  <2>6. ByteAt(i) = Data[1 + c + y]
    BY <1>1, <1>3, <2>1, <2>2, <2>4 DEF ByteAt
  <2> QED
    BY <1>0, <2>5, <2>6 DEF DataOK
<1> QED
  BY <1>2, <1>3

(* A hash is one of its bits. *)
LEMMA HashRange ==
  ASSUME DataOK, NEW i \in Int, NEW n \in Int, NEW m \in Nat \ {0}
  PROVE  HashAt(i, n, m) \in 0 .. m - 1
<1> DEFINE b == [k \in 0 .. 6 |-> ByteAt(i + k)]
<1>1. b \in [0 .. 6 -> Int]
  BY ByteInt
<1>2. HashAt(i, n, m) = HashOf(b, n, m)
  BY DEF HashAt
<1> HIDE DEF b
<1> DEFINE x == b[0] + 2 * b[1] + 5 * b[2] + 11 * b[3]
                 + (IF n > 4 THEN 17 * b[4] ELSE 0)
                 + (IF n > 5 THEN 23 * b[5] + 31 * b[6] ELSE 0)
<1>3. /\ b[0] \in Int /\ b[1] \in Int /\ b[2] \in Int /\ b[3] \in Int
      /\ b[4] \in Int /\ b[5] \in Int /\ b[6] \in Int
  BY <1>1
<1>4. x \in Int
  BY <1>3
<1>5. HashOf(b, n, m) = x % m
  BY DEF HashOf
<1> HIDE DEF x
<1> QED
  BY <1>2, <1>4, <1>5, Remainder

-----------------------------------------------------------------------------
(* The static dictionary *)

(* A word whose end is cut off, at the bytes i and after, and its distance. *)
IsWord(m, i, maxBackward) ==
    \E key \in DOMAIN WordTable :
      LET e == WordTable[key]
      IN /\ e.len > 0 /\ m.delta \in 0 .. 9 /\ m.len + m.delta = e.len
         /\ m.distance = WordDistance(e.len, e.word, m.delta, maxBackward)
         /\ \A k \in 0 .. m.len - 1 : ByteAt(i + k) = Words[e.len][e.word + 1][k + 1]

WordMatches(i, maxLength, maxBackward) ==
    {m \in Matches(maxLength) : m.score >= MinScore /\ IsWord(m, i, maxBackward)}

(* An entry of the static dictionary. *)
LEMMA EntryOK ==
  ASSUME NEW key \in DOMAIN WordTable
  PROVE  /\ WordTable[key].len \in Nat /\ WordTable[key].word \in Nat
         /\ WordTable[key].len > 0 =>
              /\ WordTable[key].len >= 4
              /\ Len(Words[WordTable[key].len]) \in Nat
              /\ WordTable[key].word < Len(Words[WordTable[key].len])
BY MatchLoopAssumption

(* Three bytes or more cut off, the distance has two bits and more. *)
LEMMA CutoffBytes ==
  ASSUME NEW cut \in 0 .. 9
  PROVE  Cutoffs[cut + 1] \in Nat /\ (cut >= 3 => Cutoffs[cut + 1] >= 4)
BY DEF Cutoffs

LEMMA FarScore ==
  ASSUME NEW d \in Int, d >= 4 PROVE Score(1, d) < MinScore
<1> DEFINE A == {k \in 1 .. 25 : 2^k <= d}
<1>1. 1 \in Int /\ 25 \in Int
  OBVIOUS
<1>2. IsFiniteSet(1 .. 25)
  BY <1>1, FS_Interval, Zenon
<1>3. A \subseteq 1 .. 25
  OBVIOUS
<1>4. IsFiniteSet(A)
  BY <1>2, <1>3, FS_Subset
<1>5. 2^1 = 2 /\ 2^2 = 4
  OBVIOUS
<1>6. {1, 2} \subseteq A
  BY <1>5
<1> HIDE DEF A
<1>7. Cardinality({1, 2}) = 2
  <2>1. IsFiniteSet({1}) /\ Cardinality({1}) = 1
    BY FS_Singleton
  <2>2. {1, 2} = {1} \cup {2}
    BY Zenon
  <2>3. 2 \notin {1}
    BY SMT
  <2> QED
    BY <2>1, <2>2, <2>3, FS_AddElement
<1>8. Cardinality({1, 2}) <= Cardinality(A) /\ Cardinality(A) \in Nat
  BY <1>4, <1>6, FS_Subset, FS_CardinalityType
<1>9. Log2Floor(d) = Cardinality(A)
  BY DEF Log2Floor, A
<1>10. Score(1, d) = 1920 + 135 * 1 - 30 * Cardinality(A)
  BY <1>9 DEF Score
<1> QED
  BY <1>7, <1>8, <1>10 DEF MinScore

(* A look-up in the static dictionary, a word or all of them, finds words  *)
(* at their distances.                                                     *)
LEMMA WordFinds ==
  ASSUME NEW i, NEW key \in DOMAIN WordTable, NEW maxLength \in Nat,
         WordTable[key].len > 0, WordTable[key].len <= maxLength,
         NEW maxBackward \in Nat, NEW best, best.score \in Int, best.score >= MinScore
  PROVE  MatchWord(i, WordTable[key], maxBackward, best)
           \in {best} \cup WordMatches(i, maxLength, maxBackward)
<1> DEFINE e == WordTable[key]
           word == Words[e.len][e.word + 1]
           A == {k \in 0 .. e.len - 1 : ByteAt(i + k) # word[k + 1]}
           ml == Min(A \cup {e.len})
           backward == WordDistance(e.len, e.word, e.len - ml, maxBackward)
           sc == Score(ml, backward)
           m == [Match(ml, backward, sc) EXCEPT !.delta = e.len - ml]
<1>1. /\ e.len \in Nat /\ e.word \in Nat /\ e.len >= 4 /\ e.len <= maxLength
      /\ Len(Words[e.len]) \in Nat /\ e.word < Len(Words[e.len])
  BY EntryOK
<1>2. MatchWord(i, e, maxBackward, best)
        = IF ml + 10 <= e.len \/ ml = 0 THEN best
          ELSE IF backward > Farthest \/ sc < best.score THEN best ELSE m
  BY DEF MatchWord
<1> HIDE DEF e, word
<1>3. A \in SUBSET (0 .. e.len - 1)
  OBVIOUS
<1> HIDE DEF A
<1>4. ml \in 0 .. e.len /\ \A k \in 0 .. ml - 1 : k \notin A
  BY <1>1, <1>3, MinBelow, Zenon
<1> HIDE DEF ml
<1>5. \A k \in 0 .. ml - 1 : ByteAt(i + k) = word[k + 1]
  <2> TAKE k \in 0 .. ml - 1
  <2>1. k \in 0 .. e.len - 1 /\ k \notin A
    BY <1>1, <1>4
  <2> QED
    BY <2>1 DEF A
<1>6. CASE ~(ml + 10 <= e.len) /\ ml # 0 /\ ~(sc < best.score)
  <2>1. e.len - ml \in 0 .. 9 /\ ml \in 1 .. e.len
    <3>1. PICK el \in Nat : el = e.len
      BY <1>1
    <3>2. ml \in 0 .. el /\ ~(ml + 10 <= el) /\ ml # 0
      BY <1>4, <1>6, <3>1
    <3>3. el - ml \in 0 .. 9 /\ ml \in 1 .. el
      BY ONLY <3>1, <3>2
    <3> QED
      BY <3>1, <3>3
  <2>2. PICK c \in Nat : c = Cutoffs[(e.len - ml) + 1] /\ (e.len - ml >= 3 => c >= 4)
    BY <2>1, CutoffBytes
  <2>3. PICK n \in Nat : n = Len(Words[e.len]) /\ n >= 1
    BY <1>1
  <2>4. backward = maxBackward + 1 + e.word + c * n
    BY <2>2, <2>3 DEF WordDistance
  <2>5. c * n \in Nat /\ (c >= 4 => c * n >= 4)
    <3>1. c * n >= c * 1
      BY <2>3
    <3> QED
      BY <3>1
  <2>6. backward \in Int /\ (c >= 4 => backward >= 4)
    BY <1>1, <2>4, <2>5
  <2>7. sc \in Int
    <3>1. ml \in Int
      BY <2>1
    <3> QED
      BY <3>1, ScoreInt, Zenon DEF sc
  <2>8. ml # 1
    <3> SUFFICES ASSUME ml = 1 PROVE FALSE
      OBVIOUS
    <3>1. backward >= 4
      BY <1>1, <2>2, <2>6
    <3>2. Score(1, backward) < MinScore
      BY <2>6, <3>1, FarScore
    <3> QED
      BY <1>6, <2>7, <3>2 DEF MinScore, sc
  <2> HIDE DEF backward, sc
  <2>9. ml \in 2 .. maxLength /\ e.len - ml \in Int
    BY <1>1, <2>1, <2>8
  <2>10. /\ m = [len |-> ml, distance |-> backward, score |-> sc, delta |-> e.len - ml]
         /\ m \in Matches(maxLength)
    BY <2>6, <2>7, <2>9 DEF Match, Matches
  <2>11. m.score >= MinScore
    BY <1>6, <2>7, <2>10 DEF MinScore
  <2>12. IsWord(m, i, maxBackward)
    <3>1. m.delta \in 0 .. 9 /\ m.len + m.delta = e.len /\ m.len = ml
            /\ m.distance = backward /\ m.delta = e.len - ml
      BY ONLY <1>1, <2>1, <2>9, <2>10
    <3>2. m.distance = WordDistance(e.len, e.word, m.delta, maxBackward)
      BY <3>1 DEF backward
    <3>3. \A k \in 0 .. m.len - 1 : ByteAt(i + k) = Words[e.len][e.word + 1][k + 1]
      BY <1>5, <3>1 DEF word
    <3> HIDE DEF m
    <3> QED
      BY <3>1, <3>2, <3>3 DEF IsWord, e
  <2> HIDE DEF m
  <2>13. m \in WordMatches(i, maxLength, maxBackward)
    BY <2>10, <2>11, <2>12 DEF WordMatches
  <2> QED
    BY <1>2, <2>13 DEF e
<1> QED
  BY <1>2, <1>6 DEF e

Counters == [lookups : Int, matches : Int]

LEMMA SearchWordsFinds ==
  ASSUME DataOK, NEW n \in {1, 2}, NEW i \in Int, NEW maxLength \in Nat,
         NEW maxBackward \in Nat, NEW best, best.score \in Int, best.score >= MinScore,
         NEW d \in Counters
  PROVE  LET w == SearchWords(n, i, maxLength, maxBackward, best, d)
         IN /\ w.sr \in {best} \cup WordMatches(i, maxLength, maxBackward)
            /\ w.d \in Counters
<1> DEFINE M == WordMatches(i, maxLength, maxBackward)
           T == [sr : {best} \cup M, d : Counters]
           start == [sr |-> best, d |-> [d EXCEPT !.lookups = @ + n]]
           Key(k) == 2 * HashAt(i, 4, DictKeys) + k - 1
           Body(k, r) == TryWord(i, Key(k), maxLength, maxBackward, r)
           Try == CHOOSE f : f = [k \in 0 .. n |->
                                    IF k = 0 THEN start ELSE Body(k, f[k - 1])]
<1>1. SearchWords(n, i, maxLength, maxBackward, best, d)
        = IF GivesUp(d) THEN [sr |-> best, d |-> d] ELSE Try[n]
  BY DEF SearchWords
<1>2. start \in T
  BY DEF Counters
<1>3. \A r \in {best} \cup M : r.score \in Int /\ r.score >= MinScore
  BY DEF WordMatches, Matches
<1>4. ASSUME NEW k \in 0 + 1 .. n, NEW r \in T PROVE Body(k, r) \in T
  <2>1. Key(k) \in DOMAIN WordTable
    <3>1. DictKeys \in Nat \ {0} /\ DOMAIN WordTable = 0 .. 2 * DictKeys - 1
      BY MatchLoopAssumption
    <3>2. HashAt(i, 4, DictKeys) \in 0 .. DictKeys - 1
      <4>1. 4 \in Int
        OBVIOUS
      <4> QED
        BY <3>1, <4>1, HashRange, Zenon
    <3> QED
      BY <3>1, <3>2
  <2> DEFINE e == WordTable[Key(k)]
             found == MatchWord(i, e, maxBackward, r.sr)
             sr == IF e.len = 0 \/ e.len > maxLength \/ e.first # ByteAt(i)
                   THEN r.sr ELSE found
             more == IF sr = r.sr THEN r.d ELSE [r.d EXCEPT !.matches = @ + 1]
  <2>2. Body(k, r) = [sr |-> sr, d |-> more]
    BY Zenon DEF TryWord
  <2>3. e.len \in Nat
    BY <2>1, EntryOK
  <2>4. r.sr.score \in Int /\ r.sr.score >= MinScore
    BY <1>3
  <2>5. e.len > 0 /\ e.len <= maxLength => found \in {r.sr} \cup M
    BY <2>1, <2>4, WordFinds
  <2> HIDE DEF e, found, M
  <2>6. sr \in {best} \cup M
    BY <2>3, <2>5
  <2>7. more \in Counters
    BY DEF Counters
  <2> HIDE DEF sr, more, Body
  <2> QED
    BY <2>2, <2>6, <2>7
<1>5. \A r \in T : r.sr \in {best} \cup M /\ r.d \in Counters
  OBVIOUS
<1>6. n \in Int /\ n >= 0
  OBVIOUS
<1> HIDE DEF M, T, start, Body
<1>7. PICK lo \in Int : lo = 0 /\ n \in Int
  OBVIOUS
<1> DEFINE G == [x \in (lo + 1 .. n) \X T |-> Body(x[1], x[2])]
<1>8. G \in [(lo + 1 .. n) \X T -> T]
  BY <1>4, <1>7
<1>9. \A k \in lo + 1 .. n : \A r \in T : G[<<k, r>>] = Body(k, r)
  OBVIOUS
<1> HIDE DEF G
<1>10. \E f \in [lo .. n -> T] : Recurs(f, lo, n, start, G)
  BY <1>2, <1>7, <1>8, RecursionExists, Zenon
<1>11. PICK f \in [lo .. n -> T] : Recurs(f, lo, n, start, G)
  BY <1>10
<1>12. f = [k \in lo .. n |-> IF k = lo THEN start ELSE Body(k, f[k - 1])]
  <2>1. ASSUME NEW k \in lo .. n, k # lo
        PROVE  f[k] = Body(k, f[k - 1])
    <3>1. k \in lo + 1 .. n /\ k - 1 \in lo .. n
      BY <1>7, <2>1
    <3> QED
      BY <1>9, <1>11, <2>1, <3>1 DEF Recurs
  <2> QED
    BY <1>11, <2>1 DEF Recurs
<1>13. Try = [k \in lo .. n |-> IF k = lo THEN start ELSE Body(k, Try[k - 1])]
  BY <1>7, <1>12
<1> HIDE DEF Try
<1>14. \A k \in lo .. n : Try[k] \in T
  <2>1. Try[lo] \in T
    BY <1>2, <1>7, <1>13
  <2>2. \A k \in lo + 1 .. n : Try[k - 1] \in T => Try[k] \in T
    BY <1>4, <1>7, <1>13
  <2> QED
    BY <1>7, <2>1, <2>2, RecursionKeeps, Zenon
<1>15. Try[n] \in T
  BY <1>6, <1>7, <1>14
<1>16. SearchWords(n, i, maxLength, maxBackward, best, d) \in T
  <2>1. [sr |-> best, d |-> d] \in T
    BY DEF T
  <2> QED
    BY <1>1, <1>15, <2>1
<1> QED
  BY <1>5, <1>16 DEF M

-----------------------------------------------------------------------------
(* The compound dictionary *)

LEMMA ChunkMatchLenRange ==
  ASSUME NEW chunk \in Seq(Int), NEW j \in Int, j <= Len(chunk), NEW i,
         NEW maxLength \in Nat
  PROVE  /\ ChunkMatchLen(chunk, j, i, maxLength) \in 0 .. maxLength
         /\ j + ChunkMatchLen(chunk, j, i, maxLength) <= Len(chunk)
         /\ \A k \in 0 .. ChunkMatchLen(chunk, j, i, maxLength) - 1 :
              chunk[1 + j + k] = ByteAt(i + k)
<1> DEFINE limit == Min({Len(chunk) - j, maxLength})
           A == {k \in 0 .. limit - 1 : chunk[1 + j + k] # ByteAt(i + k)}
           ml == Min(A \cup {limit})
<1>1. ChunkMatchLen(chunk, j, i, maxLength) = ml
  BY DEF ChunkMatchLen
<1>2. Len(chunk) - j \in Nat
  BY LenProperties
<1>3. limit = IF Len(chunk) - j <= maxLength THEN Len(chunk) - j ELSE maxLength
  BY <1>2, MinTwo
<1>4. limit \in Nat /\ limit <= maxLength /\ j + limit <= Len(chunk)
  BY <1>2, <1>3
<1>5. A \in SUBSET (0 .. limit - 1)
  OBVIOUS
<1> HIDE DEF A, limit
<1>6. ml \in 0 .. limit /\ \A k \in 0 .. ml - 1 : k \notin A
  BY <1>4, <1>5, MinBelow, Zenon
<1> HIDE DEF ml
<1>7. \A k \in 0 .. ml - 1 : chunk[1 + j + k] = ByteAt(i + k)
  <2> TAKE k \in 0 .. ml - 1
  <2>1. k \in 0 .. limit - 1 /\ k \notin A
    BY <1>4, <1>6
  <2> QED
    BY <2>1 DEF A
<1>8. ml \in 0 .. maxLength /\ j + ml <= Len(chunk)
  BY <1>4, <1>6
<1> QED
  BY <1>1, <1>7, <1>8

(* Bytes of a chunk, which lies offset bytes and less behind the window. *)
FromChunk(chunk, offset, i, maxLength) ==
    {m \in Matches(maxLength) :
       /\ m.delta = 0
       /\ \E j \in 0 .. Len(chunk) - 1 :
            /\ m.distance = offset - j /\ j + m.len <= Len(chunk)
            /\ \A k \in 0 .. m.len - 1 : chunk[1 + j + k] = ByteAt(i + k)}

(* A match in a chunk of the compound dictionary. *)
LEMMA ChunkMatch ==
  ASSUME NEW chunk \in Seq(Int), NEW offset \in Int, NEW i, NEW maxLength \in Nat,
         NEW j \in 0 .. Len(chunk) - 1, NEW ml,
         ml = ChunkMatchLen(chunk, j, i, maxLength), ml >= 2, NEW sc \in Int
  PROVE  Match(ml, offset - j, sc) \in FromChunk(chunk, offset, i, maxLength)
<1> DEFINE m == Match(ml, offset - j, sc)
<1>0. j \in Int /\ j <= Len(chunk)
  BY LenProperties
<1>1. /\ ml \in 0 .. maxLength /\ j + ml <= Len(chunk)
      /\ \A k \in 0 .. ml - 1 : chunk[1 + j + k] = ByteAt(i + k)
  <2>1. /\ ChunkMatchLen(chunk, j, i, maxLength) \in 0 .. maxLength
        /\ j + ChunkMatchLen(chunk, j, i, maxLength) <= Len(chunk)
        /\ \A k \in 0 .. ChunkMatchLen(chunk, j, i, maxLength) - 1 :
             chunk[1 + j + k] = ByteAt(i + k)
    BY <1>0, ChunkMatchLenRange
  <2> QED
    BY <2>1, Zenon
<1>2. ml \in 2 .. maxLength /\ offset - j \in Int
  BY <1>0, <1>1
<1>3. m \in Matches(maxLength)
  BY <1>2, AnyMatch
<1>4. m.delta = 0 /\ m.distance = offset - j /\ m.len = ml
  BY DEF Match
<1> HIDE DEF m
<1>5. /\ m.distance = offset - j /\ j + m.len <= Len(chunk)
      /\ \A k \in 0 .. m.len - 1 : chunk[1 + j + k] = ByteAt(i + k)
  BY <1>1, <1>4
<1>6. \E jj \in 0 .. Len(chunk) - 1 :
        /\ m.distance = offset - jj /\ jj + m.len <= Len(chunk)
        /\ \A k \in 0 .. m.len - 1 : chunk[1 + jj + k] = ByteAt(i + k)
  BY <1>5
<1>7. m \in FromChunk(chunk, offset, i, maxLength)
  BY <1>3, <1>4, <1>6, Zenon DEF FromChunk
<1> QED
  BY <1>7 DEF m

CacheInts ==
    /\ s.distCache[1] \in Int /\ s.distCache[2] \in Int
    /\ s.distCache[3] \in Int /\ s.distCache[4] \in Int

(* The searches of a chunk, by the cache and along the chain, and of all   *)
(* chunks.                                                                 *)
LEMMA TryChunkCacheFinds ==
  ASSUME CacheInts, NEW chunk \in Seq(Int), NEW offset \in Int, NEW i,
         NEW maxLength \in Nat, NEW best, best.len \in Int
  PROVE  LET r == TryChunkCache(chunk, offset, i, maxLength, best)
         IN r.sr \in {best} \cup FromChunk(chunk, offset, i, maxLength)
<1> DEFINE M == FromChunk(chunk, offset, i, maxLength)
           T == [sr : {best} \cup M, len : Int]
           start == [sr |-> best, len |-> best.len]
           Ml(k) == ChunkMatchLen(chunk, offset - s.distCache[k], i, maxLength)
           Sc(k) == ScoreUsingLast(Ml(k)) - (IF k = 1 THEN 0 ELSE Penalty(k - 1))
           Body(k, r) ==
             IF /\ s.distCache[k] > offset - Len(chunk) /\ s.distCache[k] <= offset
                /\ Ml(k) >= 2 /\ Sc(k) > r.sr.score
             THEN [sr |-> Match(Ml(k), s.distCache[k], Sc(k)), len |-> Max({Ml(k), r.len})]
             ELSE r
           four == 4
           Try == CHOOSE f : f = [k \in 0 .. 4 |->
                                    IF k = 0 THEN start ELSE Body(k, f[k - 1])]
<1>1. TryChunkCache(chunk, offset, i, maxLength, best) = Try[4]
  BY DEF TryChunkCache
<1>2. start \in T
  OBVIOUS
<1> HIDE DEF M
<1>3. ASSUME NEW k \in 0 + 1 .. four, NEW r \in T PROVE Body(k, r) \in T
  <2>1. s.distCache[k] \in Int
    <3>1. k \in {1, 2, 3, 4}
      OBVIOUS
    <3> QED
      BY <3>1 DEF CacheInts
  <2>2. CASE /\ s.distCache[k] > offset - Len(chunk) /\ s.distCache[k] <= offset
             /\ Ml(k) >= 2
    <3>1. PICK d \in Int : d = s.distCache[k]
      BY <2>1
    <3>2. Len(chunk) \in Nat
      BY LenProperties
    <3>3. offset - d \in 0 .. Len(chunk) - 1 /\ offset - (offset - d) = d
      BY <2>2, <3>1, <3>2
    <3>4. offset - d \in Int /\ offset - d <= Len(chunk)
      BY <3>2, <3>3
    <3>5. Ml(k) = ChunkMatchLen(chunk, offset - d, i, maxLength)
      BY <3>1
    <3>6. Ml(k) \in 0 .. maxLength
      BY <3>4, <3>5, ChunkMatchLenRange
    <3>7. Sc(k) \in Int
      <4>1. ScoreUsingLast(Ml(k)) \in Int
        BY <3>6 DEF ScoreUsingLast
      <4>2. k # 1 => k \in 2 .. 16
        BY ONLY k \in 0 + 1 .. four DEF four
      <4>3. k # 1 => Penalty(k - 1) \in Int
        BY <4>2, PenaltyInt, Zenon
      <4> QED
        BY <4>1, <4>3
    <3>8. Max({Ml(k), r.len}) \in Int
      BY <3>6, MaxTwo
    <3> HIDE DEF Ml, Sc
    <3>9. Match(Ml(k), offset - (offset - d), Sc(k)) \in M
      BY <2>2, <3>3, <3>5, <3>7, ChunkMatch DEF M
    <3>10. Match(Ml(k), s.distCache[k], Sc(k)) \in M
      BY <3>1, <3>3, <3>9
    <3> QED
      BY <3>8, <3>10
  <2> QED
    BY <2>2
<1>4. \A r \in T : r.sr \in {best} \cup M
  OBVIOUS
<1>5. four = 4 /\ four \in Int /\ four >= 0
  OBVIOUS
<1> HIDE DEF T, start, Body, four
<1>6. PICK lo \in Int : lo = 0 /\ four \in Int /\ four >= 0
  BY <1>5
<1> DEFINE G == [x \in (lo + 1 .. four) \X T |-> Body(x[1], x[2])]
<1>7. G \in [(lo + 1 .. four) \X T -> T]
  BY <1>3, <1>6
<1>8. \A k \in lo + 1 .. four : \A r \in T : G[<<k, r>>] = Body(k, r)
  OBVIOUS
<1> HIDE DEF G
<1>9. \E f \in [lo .. four -> T] : Recurs(f, lo, four, start, G)
  BY <1>2, <1>6, <1>7, RecursionExists, Zenon
<1>10. PICK f \in [lo .. four -> T] : Recurs(f, lo, four, start, G)
  BY <1>9
<1>11. f = [k \in lo .. four |-> IF k = lo THEN start ELSE Body(k, f[k - 1])]
  <2>1. ASSUME NEW k \in lo .. four, k # lo
        PROVE  f[k] = Body(k, f[k - 1])
    <3>1. k \in lo + 1 .. four /\ k - 1 \in lo .. four
      BY <1>6, <2>1
    <3> QED
      BY <1>8, <1>10, <2>1, <3>1 DEF Recurs
  <2> QED
    BY <1>10, <2>1 DEF Recurs
<1>12. Try = [k \in lo .. four |-> IF k = lo THEN start ELSE Body(k, Try[k - 1])]
  <2>1. f = [k \in 0 .. 4 |-> IF k = 0 THEN start ELSE Body(k, f[k - 1])]
    BY <1>5, <1>6, <1>11
  <2>2. Try = [k \in 0 .. 4 |-> IF k = 0 THEN start ELSE Body(k, Try[k - 1])]
    BY <2>1
  <2> QED
    BY <1>5, <1>6, <2>2
<1> HIDE DEF Try
<1>13. \A k \in lo .. four : Try[k] \in T
  <2>1. Try[lo] \in T
    BY <1>2, <1>6, <1>12
  <2>2. \A k \in lo + 1 .. four : Try[k - 1] \in T => Try[k] \in T
    BY <1>3, <1>6, <1>12
  <2> QED
    BY <1>6, <2>1, <2>2, RecursionKeeps, Zenon
<1>14. Try[4] \in T
  BY <1>5, <1>6, <1>13
<1> QED
  BY <1>1, <1>4, <1>14 DEF M

(* One entry of the chain more. *)
LEMMA OneMoreSeen ==
    ASSUME NEW A, NEW B, NEW r \in [sr : A, len : B, seen : Int]
    PROVE  [r EXCEPT !.seen = @ + 1] \in [sr : A, len : B, seen : Int]
OBVIOUS

LEMMA WalkChunkFinds ==
  ASSUME NEW chunk \in Seq(Int), Len(chunk) >= 8, NEW offset \in Int, NEW i,
         NEW maxLength \in Nat, NEW begin, NEW best,
         begin.sr \in {best} \cup FromChunk(chunk, offset, i, maxLength)
  PROVE  WalkChunk(chunk, offset, i, maxLength, begin)
           \in {best} \cup FromChunk(chunk, offset, i, maxLength)
<1> DEFINE M == FromChunk(chunk, offset, i, maxLength)
           L == {Max({begin.len, 3})} \cup 0 .. maxLength
           T == [sr : {best} \cup M, len : L, seen : Int]
           size == Len(chunk)
           top == size - 7
           Full(len) == len >= maxLength \/ i + len >= RingSize \/ size <= len
           start == [sr |-> begin.sr, len |-> Max({begin.len, 3}), seen |-> 0]
           J(k) == size - 7 - k
           Ml(k) == ChunkMatchLen(chunk, J(k), i, maxLength)
           Sc(k) == Score(Ml(k), offset - J(k))
           w(r) == [r EXCEPT !.seen = @ + 1]
           Body(k, r) ==
             IF Full(r.len) \/ r.seen = ChunkLimit
                  \/ ChunkKey(chunk, J(k)) # HashAt(i, 5, 8) THEN r
             ELSE IF /\ J(k) + r.len < size
                     /\ \A n \in r.len - 3 .. r.len :
                           chunk[1 + J(k) + n] = ByteAt(i + n)
                     /\ offset - J(k) <= Farthest
                     /\ Ml(k) >= 4 /\ Sc(k) > r.sr.score
             THEN [w(r) EXCEPT !.sr = Match(Ml(k), offset - J(k), Sc(k)), !.len = Ml(k)]
             ELSE w(r)
           Walk == CHOOSE f : f = [k \in 0 .. size - 7 |->
                                     IF k = 0 THEN start ELSE Body(k, f[k - 1])]
<1>1. WalkChunk(chunk, offset, i, maxLength, begin) = Walk[size - 7].sr
  BY DEF WalkChunk
<1>2. start \in T
  OBVIOUS
<1>3. top \in Nat /\ top = size - 7 /\ top \in Int /\ size \in Nat
  BY LenProperties
<1> HIDE DEF M, L, Full
<1>4. ASSUME NEW k \in 0 + 1 .. top, NEW r \in T PROVE Body(k, r) \in T
  <2>1. J(k) \in 0 .. Len(chunk) - 1 /\ J(k) \in Int /\ J(k) <= Len(chunk)
    BY <1>3
  <2> HIDE DEF J
  <2>2. Ml(k) \in 0 .. maxLength
    BY <2>1, ChunkMatchLenRange
  <2>3. Sc(k) \in Int
    <3>1. Ml(k) \in Int
      BY <2>2
    <3> QED
      BY <3>1, ScoreInt, Zenon DEF Sc
  <2>4. w(r) \in T
    BY OneMoreSeen
  <2>5. CASE Ml(k) >= 4
    <3>1. Ml(k) >= 2 /\ Ml(k) \in L
      BY <2>2, <2>5 DEF L
    <3> HIDE DEF Sc
    <3>2. Ml(k) = ChunkMatchLen(chunk, J(k), i, maxLength)
      OBVIOUS
    <3> HIDE DEF Ml
    <3>3. Match(Ml(k), offset - J(k), Sc(k)) \in M
      BY <2>1, <2>3, <3>1, <3>2, ChunkMatch DEF M
    <3> HIDE DEF w
    <3>4. [w(r) EXCEPT !.sr = Match(Ml(k), offset - J(k), Sc(k)), !.len = Ml(k)] \in T
      BY <2>4, <3>1, <3>3
    <3> HIDE DEF T
    <3> QED
      BY <2>4, <3>4
  <2> HIDE DEF T, w
  <2> QED
    BY <2>4, <2>5
<1>5. \A r \in T : r.sr \in {best} \cup M
  OBVIOUS
<1> HIDE DEF T, start, Body, top
<1>6. PICK lo \in Int : lo = 0 /\ top \in Int /\ top >= 0
  BY <1>3
<1> DEFINE G == [x \in (lo + 1 .. top) \X T |-> Body(x[1], x[2])]
<1>7. G \in [(lo + 1 .. top) \X T -> T]
  BY <1>4, <1>6
<1>8. \A k \in lo + 1 .. top : \A r \in T : G[<<k, r>>] = Body(k, r)
  OBVIOUS
<1> HIDE DEF G
<1>9. \E f \in [lo .. top -> T] : Recurs(f, lo, top, start, G)
  BY <1>2, <1>6, <1>7, RecursionExists, Zenon
<1>10. PICK f \in [lo .. top -> T] : Recurs(f, lo, top, start, G)
  BY <1>9
<1>11. f = [k \in lo .. top |-> IF k = lo THEN start ELSE Body(k, f[k - 1])]
  <2>1. ASSUME NEW k \in lo .. top, k # lo
        PROVE  f[k] = Body(k, f[k - 1])
    <3>1. k \in lo + 1 .. top /\ k - 1 \in lo .. top
      BY <1>6, <2>1
    <3> QED
      BY <1>8, <1>10, <2>1, <3>1 DEF Recurs
  <2> QED
    BY <1>10, <2>1 DEF Recurs
<1>12. Walk = [k \in lo .. top |-> IF k = lo THEN start ELSE Body(k, Walk[k - 1])]
  <2>1. f = [k \in 0 .. size - 7 |-> IF k = 0 THEN start ELSE Body(k, f[k - 1])]
    BY <1>3, <1>6, <1>11
  <2>2. Walk = [k \in 0 .. size - 7 |-> IF k = 0 THEN start ELSE Body(k, Walk[k - 1])]
    BY <2>1
  <2> QED
    BY <1>3, <1>6, <2>2
<1> HIDE DEF Walk
<1>13. \A k \in lo .. top : Walk[k] \in T
  <2>1. Walk[lo] \in T
    BY <1>2, <1>6, <1>12
  <2>2. \A k \in lo + 1 .. top : Walk[k - 1] \in T => Walk[k] \in T
    BY <1>4, <1>6, <1>12
  <2> QED
    BY <1>6, <2>1, <2>2, RecursionKeeps, Zenon
<1>14. Walk[size - 7] \in T
  BY <1>3, <1>6, <1>13
<1> QED
  BY <1>1, <1>5, <1>14 DEF M

LEMMA FindCompoundFinds ==
  ASSUME CacheInts, NEW chunk \in Seq(Int), NEW offset \in Int, NEW i,
         NEW maxLength \in Nat, NEW best, best.len \in Int
  PROVE  FindCompoundMatch(chunk, offset, i, maxLength, best)
           \in {best} \cup FromChunk(chunk, offset, i, maxLength)
<1> DEFINE r == TryChunkCache(chunk, offset, i, maxLength, best)
<1>1. r.sr \in {best} \cup FromChunk(chunk, offset, i, maxLength)
  BY TryChunkCacheFinds
<1>2. FindCompoundMatch(chunk, offset, i, maxLength, best)
        = IF Len(chunk) < 8 THEN r.sr ELSE WalkChunk(chunk, offset, i, maxLength, r)
  BY DEF FindCompoundMatch
<1> HIDE DEF r
<1>3. Len(chunk) \in Nat
  BY LenProperties
<1>4. CASE Len(chunk) < 8
  BY <1>1, <1>2, <1>4
<1>5. CASE Len(chunk) >= 8
  <2>1. WalkChunk(chunk, offset, i, maxLength, r)
          \in {best} \cup FromChunk(chunk, offset, i, maxLength)
    BY <1>1, <1>5, WalkChunkFinds
  <2> QED
    BY <1>2, <1>3, <1>5, <2>1
<1> QED
  BY <1>3, <1>4, <1>5

(* The sizes of the first chunks. *)
SizesOf(chunks) ==
    CHOOSE f : f = [k \in 0 .. Len(chunks) |->
                      IF k = 0 THEN 0 ELSE f[k - 1] + Len(chunks[k])]

(* The sizes of the chunks are numbers. *)
LEMMA SizesNat ==
  ASSUME NEW chunks \in Seq(Seq(Int))
  PROVE  /\ Len(chunks) \in Nat
         /\ SizesOf(chunks)[0] = 0
         /\ \A k \in 0 .. Len(chunks) : SizesOf(chunks)[k] \in Nat
         /\ \A k \in 1 .. Len(chunks) :
              SizesOf(chunks)[k] = SizesOf(chunks)[k - 1] + Len(chunks[k])
<1> DEFINE T == Nat
           n == Len(chunks)
           zero == 0
           Body(k, r) == r + Len(chunks[k])
           F == CHOOSE f : f = [k \in 0 .. Len(chunks) |->
                                  IF k = 0 THEN 0 ELSE Body(k, f[k - 1])]
<1>1. SizesOf(chunks) = F
  BY DEF SizesOf
<1>2. zero \in T /\ zero = 0
  OBVIOUS
<1>3. n \in Nat /\ n = Len(chunks)
  BY LenProperties
<1>4. ASSUME NEW k \in 0 + 1 .. n, NEW r \in T PROVE Body(k, r) \in T
  <2>1. k \in 1 .. Len(chunks)
    BY <1>3
  <2>2. chunks[k] \in Seq(Int)
    BY <2>1, ElementOfSeq
  <2>3. Len(chunks[k]) \in Nat
    BY <2>2, LenProperties
  <2> QED
    BY <2>3
<1>5. n \in Int /\ n >= 0
  BY <1>3
<1> HIDE DEF T, n, zero, Body
<1>6. PICK lo \in Int : lo = 0 /\ n \in Int /\ n >= 0
  BY <1>5
<1> DEFINE G == [x \in (lo + 1 .. n) \X T |-> Body(x[1], x[2])]
<1>7. G \in [(lo + 1 .. n) \X T -> T]
  BY <1>4, <1>6
<1>8. \A k \in lo + 1 .. n : \A r \in T : G[<<k, r>>] = Body(k, r)
  OBVIOUS
<1> HIDE DEF G
<1>9. \E f \in [lo .. n -> T] : Recurs(f, lo, n, zero, G)
  BY <1>2, <1>6, <1>7, RecursionExists, Zenon
<1>10. PICK f \in [lo .. n -> T] : Recurs(f, lo, n, zero, G)
  BY <1>9
<1>11. f = [k \in lo .. n |-> IF k = lo THEN zero ELSE Body(k, f[k - 1])]
  <2>1. ASSUME NEW k \in lo .. n, k # lo
        PROVE  f[k] = Body(k, f[k - 1])
    <3>1. k \in lo + 1 .. n /\ k - 1 \in lo .. n
      BY <1>6, <2>1
    <3> QED
      BY <1>8, <1>10, <2>1, <3>1 DEF Recurs
  <2> QED
    BY <1>10, <2>1 DEF Recurs
<1>12. F = [k \in lo .. n |-> IF k = lo THEN zero ELSE Body(k, F[k - 1])]
  <2>1. f = [k \in 0 .. Len(chunks) |-> IF k = 0 THEN 0 ELSE Body(k, f[k - 1])]
    BY <1>2, <1>3, <1>6, <1>11
  <2>2. F = [k \in 0 .. Len(chunks) |-> IF k = 0 THEN 0 ELSE Body(k, F[k - 1])]
    BY <2>1
  <2> QED
    BY <1>2, <1>3, <1>6, <2>2
<1> HIDE DEF F
<1>13. \A k \in lo .. n : F[k] \in T
  <2>1. F[lo] \in T
    BY <1>2, <1>6, <1>12
  <2>2. \A k \in lo + 1 .. n : F[k - 1] \in T => F[k] \in T
    BY <1>4, <1>6, <1>12
  <2> QED
    BY <1>6, <2>1, <2>2, RecursionKeeps, Zenon
<1>14. F[0] = 0
  BY <1>2, <1>5, <1>6, <1>12
<1>15. \A k \in 0 .. Len(chunks) : F[k] \in Nat
  BY <1>3, <1>6, <1>13 DEF T
<1>16. \A k \in 1 .. Len(chunks) : F[k] = F[k - 1] + Len(chunks[k])
  <2> TAKE k \in 1 .. Len(chunks)
  <2>1. k \in lo .. n /\ k # lo
    BY <1>3, <1>6
  <2> QED
    BY <1>12, <2>1 DEF Body
<1> QED
  BY <1>1, <1>3, <1>14, <1>15, <1>16

LEMMA GapNat == ASSUME DataOK PROVE Gap \in Nat /\ Gap = SizesOf(Chunks)[Len(Chunks)]
<1>1. Gap = SizesOf(Chunks)[Len(Chunks)]
  BY DEF Gap, SizeOf, SizesOf
<1>2. Chunks \in Seq(Seq(Int))
  BY DEF DataOK
<1>3. Len(Chunks) \in 0 .. Len(Chunks)
  BY <1>2, SizesNat
<1> QED
  BY <1>1, <1>2, <1>3, SizesNat

(* The offset of a chunk, and the matches in all of them. *)
ChunkOffset(k, maxDistance) == maxDistance + Gap - SizesOf(Chunks)[k - 1]

CompoundMatches(i, maxLength, maxDistance) ==
    UNION {FromChunk(Chunks[k], ChunkOffset(k, maxDistance), i, maxLength) :
             k \in 1 .. Len(Chunks)}

(* The look-up in both dictionaries finds words and matches in chunks. *)
LEMMA LookupFinds ==
  ASSUME DataOK, CacheInts, NEW i, NEW maxLength \in Nat, NEW maxDistance \in Int,
         NEW best, best.len \in Int
  PROVE  LookupMatch(i, maxLength, maxDistance, best)
           \in {best} \cup CompoundMatches(i, maxLength, maxDistance)
<1> DEFINE M == CompoundMatches(i, maxLength, maxDistance)
           T == {best} \cup M
           n == Len(Chunks)
           Sizes == SizesOf(Chunks)
           Body(k, r) == FindCompoundMatch(Chunks[k], maxDistance + Gap - Sizes[k - 1],
                                           i, maxLength, r)
           Find == CHOOSE f : f = [k \in 0 .. Len(Chunks) |->
                                     IF k = 0 THEN best ELSE Body(k, f[k - 1])]
<1>1. LookupMatch(i, maxLength, maxDistance, best) = Find[n]
  BY DEF LookupMatch, SizesOf
<1>2. Chunks \in Seq(Seq(Int)) /\ n \in Nat /\ n = Len(Chunks)
  BY LenProperties DEF DataOK
<1>3. \A r \in T : r.len \in Int
  BY DEF CompoundMatches, FromChunk, Matches
<1>4. ASSUME NEW k \in 0 + 1 .. n, NEW r \in T PROVE Body(k, r) \in T
  <2>1. k \in 1 .. Len(Chunks) /\ k - 1 \in 0 .. Len(Chunks)
    BY <1>2
  <2>2. Chunks[k] \in Seq(Int)
    BY <1>2, <2>1, ElementOfSeq
  <2>3. Sizes[k - 1] \in Nat /\ Gap \in Nat
    BY <1>2, <2>1, SizesNat, GapNat
  <2>4. maxDistance + Gap - Sizes[k - 1] \in Int
    BY <2>3
  <2>5. r.len \in Int
    BY <1>3
  <2>6. Body(k, r) \in {r} \cup FromChunk(Chunks[k], ChunkOffset(k, maxDistance), i, maxLength)
    BY <2>2, <2>4, <2>5, FindCompoundFinds DEF ChunkOffset
  <2>7. FromChunk(Chunks[k], ChunkOffset(k, maxDistance), i, maxLength) \subseteq M
    BY <2>1 DEF CompoundMatches
  <2> HIDE DEF Body, M
  <2> QED
    BY <2>6, <2>7
<1>5. best \in T /\ n \in Int /\ n >= 0
  BY <1>2
<1> HIDE DEF T, n, Body
<1>6. PICK lo \in Int : lo = 0 /\ n \in Int /\ n >= 0
  BY <1>5
<1> DEFINE G == [x \in (lo + 1 .. n) \X T |-> Body(x[1], x[2])]
<1>7. G \in [(lo + 1 .. n) \X T -> T]
  BY <1>4, <1>6
<1>8. \A k \in lo + 1 .. n : \A r \in T : G[<<k, r>>] = Body(k, r)
  OBVIOUS
<1> HIDE DEF G
<1>9. \E f \in [lo .. n -> T] : Recurs(f, lo, n, best, G)
  BY <1>5, <1>6, <1>7, RecursionExists, Zenon
<1>10. PICK f \in [lo .. n -> T] : Recurs(f, lo, n, best, G)
  BY <1>9
<1>11. f = [k \in lo .. n |-> IF k = lo THEN best ELSE Body(k, f[k - 1])]
  <2>1. ASSUME NEW k \in lo .. n, k # lo
        PROVE  f[k] = Body(k, f[k - 1])
    <3>1. k \in lo + 1 .. n /\ k - 1 \in lo .. n
      BY <1>6, <2>1
    <3> QED
      BY <1>8, <1>10, <2>1, <3>1 DEF Recurs
  <2> QED
    BY <1>10, <2>1 DEF Recurs
<1>12. Find = [k \in lo .. n |-> IF k = lo THEN best ELSE Body(k, Find[k - 1])]
  <2>1. f = [k \in 0 .. Len(Chunks) |-> IF k = 0 THEN best ELSE Body(k, f[k - 1])]
    BY <1>2, <1>6, <1>11
  <2>2. Find = [k \in 0 .. Len(Chunks) |-> IF k = 0 THEN best ELSE Body(k, Find[k - 1])]
    BY <2>1
  <2> QED
    BY <1>2, <1>6, <2>2
<1> HIDE DEF Find
<1>13. \A k \in lo .. n : Find[k] \in T
  <2>1. Find[lo] \in T
    BY <1>5, <1>6, <1>12
  <2>2. \A k \in lo + 1 .. n : Find[k - 1] \in T => Find[k] \in T
    BY <1>4, <1>6, <1>12
  <2> QED
    BY <1>6, <2>1, <2>2, RecursionKeeps, Zenon
<1>14. Find[n] \in T
  BY <1>5, <1>6, <1>13
<1> QED
  BY <1>1, <1>14 DEF T

-----------------------------------------------------------------------------
(* The steps of the loop, with what the matcher contributes left open:     *)
(* what a search returned and the matcher after the step.                  *)

(* A search one byte ahead or none, of the table. *)
Looking(P, ahead, m) ==
    \/ /\ pc = "search" /\ ahead = 0 /\ l.position + P.htl < l.posEnd
       /\ Look(P, ahead, m)
    \/ /\ pc = "lazy" /\ ahead = 1 /\ Look(P, ahead, m)

FoundFirst ==
    /\ pc = "found" /\ l.ahead = 0
    /\ pc' = IF l.found.score > MinScore THEN "lazy" ELSE "literal"
    /\ l' = [l EXCEPT !.sr = l.found, !.delayed = 0]
    /\ UNCHANGED <<input, s, h>>

Better == l.found.score >= l.sr.score + CostDiffLazy

FoundNext(P) ==
    /\ pc = "found" /\ l.ahead = 1
    /\ pc' = IF /\ Better /\ l.delayed + 1 < 4
                /\ l.position + 1 + P.htl < l.posEnd
             THEN "lazy" ELSE "emit"
    /\ l' = IF ~Better THEN l
            ELSE [l EXCEPT !.position = @ + 1, !.insertLength = @ + 1,
                           !.sr = l.found, !.delayed = @ + 1]
    /\ UNCHANGED <<input, s, h>>

Code == DistanceCode(l.sr.distance, MaxDistance(l.position) + Gap, s.distCache)
Pushes == l.sr.distance <= MaxDistance(l.position) + Gap /\ Code > 0
CacheAfter == IF Pushes THEN Push(s.distCache, l.sr.distance) ELSE s.distCache

Emitting(P, histo, hh) ==
    /\ pc = "emit"
    /\ pc' = "search"
    /\ s' = [s EXCEPT
          !.distCache = CacheAfter,
          !.commands = Append(@, [ins |-> l.insertLength, copy |-> l.sr.len,
                                  delta |-> l.sr.delta, code |-> Code]),
          !.numLiterals = @ + l.insertLength,
          !.histo = histo]
    /\ h' = hh
    /\ l' = [l EXCEPT !.position = @ + l.sr.len, !.insertLength = 0,
                     !.apply = l.position + 2 * l.sr.len + P.window,
                     !.sr = NoMatch, !.found = NoMatch,
                     !.cache = IF ~P.pushed THEN Expand(CacheAfter, P.cached)
                               ELSE IF Pushes THEN Push(@, l.sr.distance) ELSE @]
    /\ UNCHANGED input

Stride(P) ==
    LET pos == l.position + 1
    IN IF pos > l.apply + 4 * P.window
       THEN From(pos, Min({pos + 16, l.posEnd - P.jump4}), 4)
       ELSE IF pos > l.apply
       THEN From(pos, Min({pos + 8, l.posEnd - P.jump2}), 2)
       ELSE <<>>

Striding(P, hh) ==
    LET step == IF l.position + 1 > l.apply + 4 * P.window THEN 4 ELSE 2
    IN /\ pc = "literal"
       /\ pc' = "search"
       /\ h' = hh
       /\ l' = [l EXCEPT !.position = l.position + 1 + step * Len(Stride(P)),
                        !.insertLength = @ + 1 + step * Len(Stride(P))]
       /\ UNCHANGED <<input, s>>

Finishing(P, hh) ==
    /\ pc = "search" /\ l.position + P.htl >= l.posEnd
    /\ pc' = "merge"
    /\ s' = [s EXCEPT !.lastInsertLen = l.insertLength + l.posEnd - l.position]
    /\ h' = hh
    /\ l' = [l EXCEPT !.position = l.posEnd, !.insertLength = 0, !.apply = 0,
                      !.storeEnd = 0, !.noWrap = FALSE,
                      !.found = NoMatch, !.ahead = 0, !.words = 0, !.compound = FALSE]
    /\ UNCHANGED input

(* Several positions stored, one after the other. *)
QuickAll(hh, positions, masked, narrow, n, sweep) ==
    LET F[k \in 0 .. Len(positions)] ==
          IF k = 0 THEN hh
          ELSE LET before == F[k - 1]
               IN QuickStore(before, positions[k], masked, narrow, n, sweep)
    IN F[Len(positions)]

Bucket4All(hh, positions, masked, narrow) ==
    LET F[k \in 0 .. Len(positions)] ==
          IF k = 0 THEN hh
          ELSE LET before == F[k - 1]
               IN Bucket4Store(before, positions[k], masked, narrow)
    IN F[Len(positions)]

Bucket5All(hh, positions, masked) ==
    LET F[k \in 0 .. Len(positions)] ==
          IF k = 0 THEN hh
          ELSE LET before == F[k - 1] IN Bucket5Store(before, positions[k], masked)
    IN F[Len(positions)]

TaggedAll(hh, positions, masked) ==
    LET F[k \in 0 .. Len(positions)] ==
          IF k = 0 THEN hh
          ELSE LET before == F[k - 1] IN TaggedStore(before, positions[k], masked)
    IN F[Len(positions)]

ChainAll(hh, positions) ==
    LET F[k \in 0 .. Len(positions)] ==
          IF k = 0 THEN hh
          ELSE LET before == F[k - 1] IN ChainStore(before, positions[k])
    IN F[Len(positions)]

(* The five kinds of tables.  An index without mask is used in a block     *)
(* that can do without only.                                               *)
Families == {"quick", "four", "five", "tagged", "chain"}
Maskings == {masked \in BOOLEAN : masked \/ l.noWrap}

Stored(fam, g, positions, hh) ==
    \/ /\ fam = "quick"
       /\ \E masked \in Maskings, narrow \in BOOLEAN, n \in {5, 7}, sweep \in {1, 2, 4} :
            hh = QuickAll(g, positions, masked, narrow, n, sweep)
    \/ /\ fam = "four"
       /\ \E masked \in Maskings : hh = Bucket4All(g, positions, masked, h.kind = "h5b6u16")
    \/ fam = "five" /\ \E masked \in Maskings : hh = Bucket5All(g, positions, masked)
    \/ fam = "tagged" /\ \E masked \in Maskings : hh = TaggedAll(g, positions, masked)
    \/ fam = "chain" /\ hh = ChainAll(g, positions)

(* The entries of the distance cache a search tries. *)
Tried(masked, cur, rest, best, c) ==
    \E c1, c2 :
      /\ c1 = TryCache(masked, 1, 4, cur, rest, MaxDistance(cur), best)
      /\ c2 = c1 \/ c2 = TryCache(masked, 5, 10, cur, rest, MaxDistance(cur), c1)
      /\ c = c2 \/ c = TryCache(masked, 11, 16, cur, rest, MaxDistance(cur), c2)

TriedTiny(cur, rest, best, c) ==
    \/ \E last \in {4, 10, 16} :
         c = TryCacheTiny(1, last, cur, rest, MaxDistance(cur), best)
    \/ \E c1 : /\ c1 = TryCacheTiny(1, 4, cur, rest, MaxDistance(cur), best)
               /\ c = TryCacheTiny(5, 10, cur, rest, MaxDistance(cur), c1)

(* The result of a search of each family. *)
QuickFound(cur, rest, best, m) ==
    \E masked \in Maskings, narrow \in BOOLEAN :
      \/ /\ h.kind \in {"h2", "h2u16"}
         /\ m = FindOne(masked, narrow, cur, rest, MaxDistance(cur), best)
      \/ \E n \in {5, 7}, sweep \in {2, 4}, words \in {0, 1} :
           m = FindSweep(masked, narrow, n, sweep, h.kind # "h54", words,
                         cur, rest, MaxDistance(cur), best)

FourFound(cur, rest, best, m) ==
    \E masked \in Maskings : \E c :
      /\ Tried(masked, cur, rest, best, c)
      /\ m = FindInBucket(Bucket4Store(h, cur, masked, h.kind = "h5b6u16"), masked,
                          Newest(h, Key4(IndexOf(masked, cur))),
                          cur, rest, MaxDistance(cur), c)

FiveFound(cur, rest, best, m) ==
    \E masked \in Maskings, other \in Maskings : \E c, r :
      /\ Tried(masked, cur, rest, best, c)
      /\ r = FindInBucket(Bucket5Store(h, cur, other), masked,
                          Newest(h, Key5(IndexOf(masked, cur))),
                          cur, rest, MaxDistance(cur), c)
      /\ m = r \/ m = Sampled(r, cur)

TaggedFound(cur, rest, best, m) ==
    \E masked \in Maskings : \E c :
      /\ Tried(masked, cur, rest, best, c)
      /\ m = FindTagged(TaggedStore(h, cur, masked), masked, IndexOf(masked, cur),
                        cur, rest, MaxDistance(cur), c)

ChainFound(cur, rest, best, m) ==
    \E hh \in {h, ChainStore(h, cur)} : \E c :
      /\ TriedTiny(cur, rest, best, c)
      /\ m = FoundInChain(hh, cur, rest, MaxDistance(cur), c)

Searched(fam, cur, rest, best, m) ==
    \/ fam = "quick" /\ QuickFound(cur, rest, best, m)
    \/ fam = "four" /\ FourFound(cur, rest, best, m)
    \/ fam = "five" /\ FiveFound(cur, rest, best, m)
    \/ fam = "tagged" /\ TaggedFound(cur, rest, best, m)
    \/ fam = "chain" /\ ChainFound(cur, rest, best, m)

(* A matcher after its reset. *)
Cleared(fam, hh) ==
    \/ /\ fam = "quick"
       /\ \E n \in {5, 7}, sweep \in {1, 2, 4}, pair \in {1, 2} :
            hh = QuickReset(h, n, sweep, pair)
    \/ fam = "four" /\ hh = BucketReset(h, {Key4(i) : i \in 0 .. l.posEnd - 1}, 0)
    \/ fam = "five" /\ hh = BucketReset(h, {Key5(i) : i \in 0 .. l.posEnd - 1}, 0)
    \/ /\ fam = "tagged"
       /\ hh = BucketReset(h, {Key5(i) : i \in 0 .. l.posEnd - 1}, CounterSize - 1)
    \/ /\ fam = "chain"
       /\ \E threshold \in {ChainPartial, 8 * ChainPartial} : hh = ChainReset(h, threshold)

Cleaned(fam, r) == IF h.ready THEN r = h ELSE Cleared(fam, r)

Stitched(P, fam, r, hh) ==
    IF l.posEnd - s.processed >= P.htl - 1 /\ s.processed >= 3
    THEN Stored(fam, r, From(s.processed - 3, s.processed, 1), hh)
    ELSE hh = r

WithWrap(hh, noWrap) == [hh EXCEPT !.everWrapped = @ \/ ~noWrap]

(* Which table and which constants a matcher has. *)
Profile(P, fam, kind) ==
    \/ fam = "quick" /\ P = Params2 /\ kind \in {"h2", "h2u16"}
    \/ fam = "quick" /\ P = Params3 /\ kind \in {"h3", "h3u16"}
    \/ fam = "quick" /\ P = Params4 /\ kind \in {"h4", "h4u16"}
    \/ fam = "quick" /\ P = QuickParams /\ kind = "h54"
    \/ fam = "four" /\ P \in {Params5, Params5b, Params5b8, Params5b8NoWrap}
         /\ kind \in Bucket4Kinds
    \/ fam = "five" /\ P \in {Params6b, Params6b8} /\ kind \in PlainKinds
    \/ fam = "five" /\ P = Params6u /\ kind \in CountedKinds
    \/ fam = "tagged" /\ P = Params6 /\ kind \in TaggedKinds
    \/ fam = "chain" /\ P \in {Params40, Params41, Params42} /\ kind \in ChainKinds

(* The command with the positions of the match stored in st. *)
Emitted(P, masked, st) ==
    Emitting(P, IF P.histo THEN CountLiterals(masked) ELSE s.histo,
             IF P.counting THEN [st EXCEPT !.stores = @ + RangeEnd - RangeStart] ELSE st)

LoopStep(P, fam) ==
    \/ \E r, hh, noWrap :
         /\ noWrap \in BOOLEAN /\ Cleaned(fam, r) /\ Stitched(P, fam, r, hh)
         /\ noWrap => \/ fam = "quick" /\ BeforeEnd
                      \/ WithinRing \/ h.kind = "h5b6u16"
         /\ Enter(P, WithWrap(hh, noWrap), noWrap)
    \/ \E m : /\ Searched(fam, l.position, l.posEnd - l.position, NoMatch, m)
              /\ Looking(P, 0, m)
    \/ \E m : /\ Searched(fam, l.position + 1, l.posEnd - l.position - 1, LazyBest(P), m)
              /\ Looking(P, 1, m)
    \/ FoundFirst \/ FoundNext(P)
    \/ \E st, masked :
         /\ masked \in Maskings /\ Stored(fam, h, From(RangeStart, RangeEnd, 1), st)
         /\ Emitted(P, masked, st)
    \/ \E hh : Stored(fam, h, Stride(P), hh) /\ Striding(P, hh)

MatcherStep == \E P, fam : Profile(P, fam, h.kind) /\ LoopStep(P, fam)

(* Storing and searching, with the flags of a matcher. *)
LEMMA StoredQuick ==
  ASSUME NEW g, NEW positions, NEW masked \in Maskings, NEW narrow \in BOOLEAN,
         NEW n \in {5, 7}, NEW sweep \in {1, 2, 4}
  PROVE  Stored("quick", g, positions,
                QuickAll(g, positions, masked, narrow, n, sweep))
BY DEF Stored

LEMMA StoredFour ==
  ASSUME NEW g, NEW positions, NEW masked \in Maskings
  PROVE  Stored("four", g, positions,
                Bucket4All(g, positions, masked, h.kind = "h5b6u16"))
BY DEF Stored

LEMMA StoredFive ==
  ASSUME NEW g, NEW positions, NEW masked \in Maskings
  PROVE  Stored("five", g, positions, Bucket5All(g, positions, masked))
BY DEF Stored

LEMMA StoredTagged ==
  ASSUME NEW g, NEW positions, NEW masked \in Maskings
  PROVE  Stored("tagged", g, positions, TaggedAll(g, positions, masked))
BY DEF Stored

LEMMA StoredChain ==
  ASSUME NEW g, NEW positions PROVE Stored("chain", g, positions, ChainAll(g, positions))
BY DEF Stored

(* The cache is tried in one, two or three parts. *)
LEMMA TriedParts ==
  ASSUME NEW masked, NEW cur, NEW rest, NEW best, NEW c1, NEW c2,
         c1 = TryCache(masked, 1, 4, cur, rest, MaxDistance(cur), best),
         c2 = TryCache(masked, 5, 10, cur, rest, MaxDistance(cur), c1)
  PROVE  /\ Tried(masked, cur, rest, best, c1)
         /\ Tried(masked, cur, rest, best, c2)
         /\ Tried(masked, cur, rest, best,
                  TryCache(masked, 11, 16, cur, rest, MaxDistance(cur), c2))
BY Zenon DEF Tried

LEMMA SearchedFour ==
  ASSUME NEW masked \in Maskings, NEW cur, NEW rest, NEW best, NEW c,
         Tried(masked, cur, rest, best, c)
  PROVE  Searched("four", cur, rest, best,
           FindInBucket(Bucket4Store(h, cur, masked, h.kind = "h5b6u16"), masked,
                        Newest(h, Key4(IndexOf(masked, cur))),
                        cur, rest, MaxDistance(cur), c))
BY DEF Searched, FourFound

LEMMA SearchedFive ==
  ASSUME NEW masked \in Maskings, NEW other \in Maskings, NEW cur, NEW rest, NEW best,
         NEW c, Tried(masked, cur, rest, best, c), NEW r,
         r = FindInBucket(Bucket5Store(h, cur, other), masked,
                          Newest(h, Key5(IndexOf(masked, cur))),
                          cur, rest, MaxDistance(cur), c)
  PROVE  /\ Searched("five", cur, rest, best, r)
         /\ Searched("five", cur, rest, best, Sampled(r, cur))
<1>1. FiveFound(cur, rest, best, r) /\ FiveFound(cur, rest, best, Sampled(r, cur))
  BY Zenon DEF FiveFound
<1> QED
  BY <1>1 DEF Searched

LEMMA SearchedTagged ==
  ASSUME NEW masked \in Maskings, NEW cur, NEW rest, NEW best, NEW c,
         Tried(masked, cur, rest, best, c)
  PROVE  Searched("tagged", cur, rest, best,
           FindTagged(TaggedStore(h, cur, masked), masked, IndexOf(masked, cur),
                      cur, rest, MaxDistance(cur), c))
BY DEF Searched, TaggedFound

LEMMA SearchedChain ==
  ASSUME NEW cur, NEW rest, NEW best, NEW c, TriedTiny(cur, rest, best, c)
  PROVE  /\ Searched("chain", cur, rest, best,
                     FoundInChain(h, cur, rest, MaxDistance(cur), c))
         /\ Searched("chain", cur, rest, best,
                     FoundInChain(ChainStore(h, cur), cur, rest, MaxDistance(cur), c))
BY DEF Searched, ChainFound

LEMMA TriedTinyParts ==
  ASSUME NEW cur, NEW rest, NEW best
  PROVE  /\ \A last \in {4, 10, 16} :
              TriedTiny(cur, rest, best,
                TryCacheTiny(1, last, cur, rest, MaxDistance(cur), best))
         /\ TriedTiny(cur, rest, best,
              TryCacheTiny(5, 10, cur, rest, MaxDistance(cur),
                TryCacheTiny(1, 4, cur, rest, MaxDistance(cur), best)))
BY DEF TriedTiny

(* Each matcher's steps are those of its profile. *)
LEMMA H2Shape == ASSUME H2Next PROVE MatcherStep
<1>1. ASSUME h.kind = "h2", NEW g, NEW positions
      PROVE  Stored("quick", g, positions, StoreAll(H2Store, g, positions))
  <2>1. StoreAll(H2Store, g, positions) = QuickAll(g, positions, TRUE, FALSE, 5, 1)
    BY DEF StoreAll, H2Store, QuickAll
  <2>2. TRUE \in Maskings
    BY <1>1 DEF Maskings
  <2> QED
    BY <2>1, <2>2, StoredQuick
<1>2. ASSUME h.kind = "h2", l.noWrap, NEW g, NEW positions
      PROVE  Stored("quick", g, positions, StoreAll(H2StoreNoWrap, g, positions))
  <2>1. StoreAll(H2StoreNoWrap, g, positions) = QuickAll(g, positions, FALSE, FALSE, 5, 1)
    BY DEF StoreAll, H2StoreNoWrap, QuickAll
  <2>2. FALSE \in Maskings
    BY <1>2 DEF Maskings
  <2> QED
    BY <2>1, <2>2, StoredQuick
<1>3. ASSUME h.kind = "h2", NEW cur, NEW rest, NEW best
      PROVE  Searched("quick", cur, rest, best,
                      H2Find(cur, rest, MaxDistance(cur), best))
  BY <1>3 DEF H2Find, Searched, QuickFound, Maskings
<1>4. ASSUME h.kind = "h2", l.noWrap, NEW cur, NEW rest, NEW best
      PROVE  Searched("quick", cur, rest, best,
                      H2FindNoWrap(cur, rest, MaxDistance(cur), best))
  BY <1>4 DEF H2FindNoWrap, Searched, QuickFound, Maskings
<1>5. ASSUME H2Begin PROVE LoopStep(Params2, "quick")
  BY <1>5, <1>1 DEF H2Begin, H2Reset, Begin, Stitch, Stitched, Cleaned, Cleared, WithWrap, LoopStep
<1>6. ASSUME H2Search PROVE LoopStep(Params2, "quick")
  BY <1>6, <1>3 DEF H2Search, Running, Search, Looking, FoundFirst, LoopStep
<1>7. ASSUME H2Lazy PROVE LoopStep(Params2, "quick")
  BY <1>7, <1>3 DEF H2Lazy, Running, Lazy, Looking, FoundNext, Better, LoopStep
<1>8. ASSUME H2Emit PROVE LoopStep(Params2, "quick")
  BY <1>8, <1>1 DEF H2Emit, Running, Maskings, Emit, Emitted, Emitting, CacheAfter, Pushes, Code, LoopStep
<1>9. ASSUME H2Literal PROVE LoopStep(Params2, "quick")
  BY <1>9, <1>1 DEF H2Literal, Running, Literal, Striding, Stride, LoopStep
<1>10. ASSUME H2SearchNoWrap PROVE LoopStep(Params2, "quick")
  BY <1>10, <1>4 DEF H2SearchNoWrap, Running, Search, Looking, FoundFirst, LoopStep
<1>11. ASSUME H2LazyNoWrap PROVE LoopStep(Params2, "quick")
  BY <1>11, <1>4 DEF H2LazyNoWrap, Running, Lazy, Looking, FoundNext, Better, LoopStep
<1>12. ASSUME H2EmitNoWrap PROVE LoopStep(Params2, "quick")
  BY <1>12, <1>2 DEF H2EmitNoWrap, Running, Maskings, Emit, Emitted, Emitting, CacheAfter, Pushes, Code, LoopStep
<1>13. ASSUME H2LiteralNoWrap PROVE LoopStep(Params2, "quick")
  BY <1>13, <1>2 DEF H2LiteralNoWrap, Running, Literal, Striding, Stride, LoopStep
<1>14. h.kind = "h2"
  BY DEF H2Next, Running, H2Begin, H2Search, H2Lazy, H2Emit, H2Literal, H2SearchNoWrap, H2LazyNoWrap, H2EmitNoWrap, H2LiteralNoWrap
<1>15. Profile(Params2, "quick", h.kind)
  BY <1>14 DEF Profile
<1> QED
  BY <1>5, <1>6, <1>7, <1>8, <1>9, <1>10, <1>11, <1>12, <1>13, <1>15 DEF H2Next, MatcherStep

LEMMA H2u16Shape == ASSUME H2u16Next PROVE MatcherStep
<1>1. ASSUME h.kind = "h2u16", NEW g, NEW positions
      PROVE  Stored("quick", g, positions, StoreAll(H2u16Store, g, positions))
  <2>1. StoreAll(H2u16Store, g, positions) = QuickAll(g, positions, TRUE, TRUE, 5, 1)
    BY DEF StoreAll, H2u16Store, QuickAll
  <2>2. TRUE \in Maskings
    BY <1>1 DEF Maskings
  <2> QED
    BY <2>1, <2>2, StoredQuick
<1>2. ASSUME h.kind = "h2u16", l.noWrap, NEW g, NEW positions
      PROVE  Stored("quick", g, positions, StoreAll(H2u16StoreNoWrap, g, positions))
  <2>1. StoreAll(H2u16StoreNoWrap, g, positions) = QuickAll(g, positions, FALSE, TRUE, 5, 1)
    BY DEF StoreAll, H2u16StoreNoWrap, QuickAll
  <2>2. FALSE \in Maskings
    BY <1>2 DEF Maskings
  <2> QED
    BY <2>1, <2>2, StoredQuick
<1>3. ASSUME h.kind = "h2u16", NEW cur, NEW rest, NEW best
      PROVE  Searched("quick", cur, rest, best,
                      H2u16Find(cur, rest, MaxDistance(cur), best))
  BY <1>3 DEF H2u16Find, Searched, QuickFound, Maskings
<1>4. ASSUME h.kind = "h2u16", l.noWrap, NEW cur, NEW rest, NEW best
      PROVE  Searched("quick", cur, rest, best,
                      H2u16FindNoWrap(cur, rest, MaxDistance(cur), best))
  BY <1>4 DEF H2u16FindNoWrap, Searched, QuickFound, Maskings
<1>5. ASSUME H2u16Begin PROVE LoopStep(Params2, "quick")
  BY <1>5, <1>1 DEF H2u16Begin, H2u16Reset, Begin, Stitch, Stitched, Cleaned, Cleared, WithWrap, LoopStep
<1>6. ASSUME H2u16Search PROVE LoopStep(Params2, "quick")
  BY <1>6, <1>3 DEF H2u16Search, Running, Search, Looking, FoundFirst, LoopStep
<1>7. ASSUME H2u16Lazy PROVE LoopStep(Params2, "quick")
  BY <1>7, <1>3 DEF H2u16Lazy, Running, Lazy, Looking, FoundNext, Better, LoopStep
<1>8. ASSUME H2u16Emit PROVE LoopStep(Params2, "quick")
  BY <1>8, <1>1 DEF H2u16Emit, Running, Maskings, Emit, Emitted, Emitting, CacheAfter, Pushes, Code, LoopStep
<1>9. ASSUME H2u16Literal PROVE LoopStep(Params2, "quick")
  BY <1>9, <1>1 DEF H2u16Literal, Running, Literal, Striding, Stride, LoopStep
<1>10. ASSUME H2u16SearchNoWrap PROVE LoopStep(Params2, "quick")
  BY <1>10, <1>4 DEF H2u16SearchNoWrap, Running, Search, Looking, FoundFirst, LoopStep
<1>11. ASSUME H2u16LazyNoWrap PROVE LoopStep(Params2, "quick")
  BY <1>11, <1>4 DEF H2u16LazyNoWrap, Running, Lazy, Looking, FoundNext, Better, LoopStep
<1>12. ASSUME H2u16EmitNoWrap PROVE LoopStep(Params2, "quick")
  BY <1>12, <1>2 DEF H2u16EmitNoWrap, Running, Maskings, Emit, Emitted, Emitting, CacheAfter, Pushes, Code, LoopStep
<1>13. ASSUME H2u16LiteralNoWrap PROVE LoopStep(Params2, "quick")
  BY <1>13, <1>2 DEF H2u16LiteralNoWrap, Running, Literal, Striding, Stride, LoopStep
<1>14. h.kind = "h2u16"
  BY DEF H2u16Next, Running, H2u16Begin, H2u16Search, H2u16Lazy, H2u16Emit, H2u16Literal, H2u16SearchNoWrap, H2u16LazyNoWrap, H2u16EmitNoWrap, H2u16LiteralNoWrap
<1>15. Profile(Params2, "quick", h.kind)
  BY <1>14 DEF Profile
<1> QED
  BY <1>5, <1>6, <1>7, <1>8, <1>9, <1>10, <1>11, <1>12, <1>13, <1>15 DEF H2u16Next, MatcherStep

LEMMA H3Shape == ASSUME H3Next PROVE MatcherStep
<1>1. ASSUME h.kind = "h3", NEW g, NEW positions
      PROVE  Stored("quick", g, positions, StoreAll(H3Store, g, positions))
  <2>1. StoreAll(H3Store, g, positions) = QuickAll(g, positions, TRUE, FALSE, 5, 2)
    BY DEF StoreAll, H3Store, QuickAll
  <2>2. TRUE \in Maskings
    BY <1>1 DEF Maskings
  <2> QED
    BY <2>1, <2>2, StoredQuick
<1>2. ASSUME h.kind = "h3", l.noWrap, NEW g, NEW positions
      PROVE  Stored("quick", g, positions, StoreAll(H3StoreNoWrap, g, positions))
  <2>1. StoreAll(H3StoreNoWrap, g, positions) = QuickAll(g, positions, FALSE, FALSE, 5, 2)
    BY DEF StoreAll, H3StoreNoWrap, QuickAll
  <2>2. FALSE \in Maskings
    BY <1>2 DEF Maskings
  <2> QED
    BY <2>1, <2>2, StoredQuick
<1>3. ASSUME h.kind = "h3", NEW cur, NEW rest, NEW best
      PROVE  Searched("quick", cur, rest, best,
                      H3Find(cur, rest, MaxDistance(cur), best))
  BY <1>3 DEF H3Find, Searched, QuickFound, Maskings
<1>4. ASSUME h.kind = "h3", l.noWrap, NEW cur, NEW rest, NEW best
      PROVE  Searched("quick", cur, rest, best,
                      H3FindNoWrap(cur, rest, MaxDistance(cur), best))
  BY <1>4 DEF H3FindNoWrap, Searched, QuickFound, Maskings
<1>5. ASSUME H3Begin PROVE LoopStep(Params3, "quick")
  BY <1>5, <1>1 DEF H3Begin, H3Reset, Begin, Stitch, Stitched, Cleaned, Cleared, WithWrap, LoopStep
<1>6. ASSUME H3Search PROVE LoopStep(Params3, "quick")
  BY <1>6, <1>3 DEF H3Search, Running, Search, Looking, FoundFirst, LoopStep
<1>7. ASSUME H3Lazy PROVE LoopStep(Params3, "quick")
  BY <1>7, <1>3 DEF H3Lazy, Running, Lazy, Looking, FoundNext, Better, LoopStep
<1>8. ASSUME H3Emit PROVE LoopStep(Params3, "quick")
  BY <1>8, <1>1 DEF H3Emit, Running, Maskings, Emit, Emitted, Emitting, CacheAfter, Pushes, Code, LoopStep
<1>9. ASSUME H3Literal PROVE LoopStep(Params3, "quick")
  BY <1>9, <1>1 DEF H3Literal, Running, Literal, Striding, Stride, LoopStep
<1>10. ASSUME H3SearchNoWrap PROVE LoopStep(Params3, "quick")
  BY <1>10, <1>4 DEF H3SearchNoWrap, Running, Search, Looking, FoundFirst, LoopStep
<1>11. ASSUME H3LazyNoWrap PROVE LoopStep(Params3, "quick")
  BY <1>11, <1>4 DEF H3LazyNoWrap, Running, Lazy, Looking, FoundNext, Better, LoopStep
<1>12. ASSUME H3EmitNoWrap PROVE LoopStep(Params3, "quick")
  BY <1>12, <1>2 DEF H3EmitNoWrap, Running, Maskings, Emit, Emitted, Emitting, CacheAfter, Pushes, Code, LoopStep
<1>13. ASSUME H3LiteralNoWrap PROVE LoopStep(Params3, "quick")
  BY <1>13, <1>2 DEF H3LiteralNoWrap, Running, Literal, Striding, Stride, LoopStep
<1>14. h.kind = "h3"
  BY DEF H3Next, Running, H3Begin, H3Search, H3Lazy, H3Emit, H3Literal, H3SearchNoWrap, H3LazyNoWrap, H3EmitNoWrap, H3LiteralNoWrap
<1>15. Profile(Params3, "quick", h.kind)
  BY <1>14 DEF Profile
<1> QED
  BY <1>5, <1>6, <1>7, <1>8, <1>9, <1>10, <1>11, <1>12, <1>13, <1>15 DEF H3Next, MatcherStep

LEMMA H3u16Shape == ASSUME H3u16Next PROVE MatcherStep
<1>1. ASSUME h.kind = "h3u16", NEW g, NEW positions
      PROVE  Stored("quick", g, positions, StoreAll(H3u16Store, g, positions))
  <2>1. StoreAll(H3u16Store, g, positions) = QuickAll(g, positions, TRUE, TRUE, 5, 2)
    BY DEF StoreAll, H3u16Store, QuickAll
  <2>2. TRUE \in Maskings
    BY <1>1 DEF Maskings
  <2> QED
    BY <2>1, <2>2, StoredQuick
<1>2. ASSUME h.kind = "h3u16", NEW cur, NEW rest, NEW best
      PROVE  Searched("quick", cur, rest, best,
                      H3u16Find(cur, rest, MaxDistance(cur), best))
  BY <1>2 DEF H3u16Find, Searched, QuickFound, Maskings
<1>3. ASSUME H3u16Begin PROVE LoopStep(Params3, "quick")
  BY <1>3, <1>1 DEF H3u16Begin, H3u16Reset, Begin, Stitch, Stitched, Cleaned, Cleared, WithWrap, LoopStep
<1>4. ASSUME H3u16Search PROVE LoopStep(Params3, "quick")
  BY <1>4, <1>2 DEF H3u16Search, Running, Search, Looking, FoundFirst, LoopStep
<1>5. ASSUME H3u16Lazy PROVE LoopStep(Params3, "quick")
  BY <1>5, <1>2 DEF H3u16Lazy, Running, Lazy, Looking, FoundNext, Better, LoopStep
<1>6. ASSUME H3u16Emit PROVE LoopStep(Params3, "quick")
  BY <1>6, <1>1 DEF H3u16Emit, Running, Maskings, Emit, Emitted, Emitting, CacheAfter, Pushes, Code, LoopStep
<1>7. ASSUME H3u16Literal PROVE LoopStep(Params3, "quick")
  BY <1>7, <1>1 DEF H3u16Literal, Running, Literal, Striding, Stride, LoopStep
<1>8. h.kind = "h3u16"
  BY DEF H3u16Next, Running, H3u16Begin, H3u16Search, H3u16Lazy, H3u16Emit, H3u16Literal
<1>9. Profile(Params3, "quick", h.kind)
  BY <1>8 DEF Profile
<1> QED
  BY <1>3, <1>4, <1>5, <1>6, <1>7, <1>9 DEF H3u16Next, MatcherStep

LEMMA H4Shape == ASSUME H4Next PROVE MatcherStep
<1>1. ASSUME h.kind = "h4", NEW g, NEW positions
      PROVE  Stored("quick", g, positions, StoreAll(H4Store, g, positions))
  <2>1. StoreAll(H4Store, g, positions) = QuickAll(g, positions, TRUE, FALSE, 5, 4)
    BY DEF StoreAll, H4Store, QuickAll
  <2>2. TRUE \in Maskings
    BY <1>1 DEF Maskings
  <2> QED
    BY <2>1, <2>2, StoredQuick
<1>2. ASSUME h.kind = "h4", l.noWrap, NEW g, NEW positions
      PROVE  Stored("quick", g, positions, StoreAll(H4StoreNoWrap, g, positions))
  <2>1. StoreAll(H4StoreNoWrap, g, positions) = QuickAll(g, positions, FALSE, FALSE, 5, 4)
    BY DEF StoreAll, H4StoreNoWrap, QuickAll
  <2>2. FALSE \in Maskings
    BY <1>2 DEF Maskings
  <2> QED
    BY <2>1, <2>2, StoredQuick
<1>3. ASSUME h.kind = "h4", NEW cur, NEW rest, NEW best
      PROVE  Searched("quick", cur, rest, best,
                      H4Find(cur, rest, MaxDistance(cur), best))
  BY <1>3 DEF H4Find, Searched, QuickFound, Maskings
<1>4. ASSUME h.kind = "h4", l.noWrap, NEW cur, NEW rest, NEW best
      PROVE  Searched("quick", cur, rest, best,
                      H4FindNoWrap(cur, rest, MaxDistance(cur), best))
  BY <1>4 DEF H4FindNoWrap, Searched, QuickFound, Maskings
<1>5. ASSUME H4Begin PROVE LoopStep(Params4, "quick")
  BY <1>5, <1>1 DEF H4Begin, H4Reset, Begin, Stitch, Stitched, Cleaned, Cleared, WithWrap, LoopStep
<1>6. ASSUME H4Search PROVE LoopStep(Params4, "quick")
  BY <1>6, <1>3 DEF H4Search, Running, Search, Looking, FoundFirst, LoopStep
<1>7. ASSUME H4Lazy PROVE LoopStep(Params4, "quick")
  BY <1>7, <1>3 DEF H4Lazy, Running, Lazy, Looking, FoundNext, Better, LoopStep
<1>8. ASSUME H4Emit PROVE LoopStep(Params4, "quick")
  BY <1>8, <1>1 DEF H4Emit, Running, Maskings, Emit, Emitted, Emitting, CacheAfter, Pushes, Code, LoopStep
<1>9. ASSUME H4Literal PROVE LoopStep(Params4, "quick")
  BY <1>9, <1>1 DEF H4Literal, Running, Literal, Striding, Stride, LoopStep
<1>10. ASSUME H4SearchNoWrap PROVE LoopStep(Params4, "quick")
  BY <1>10, <1>4 DEF H4SearchNoWrap, Running, Search, Looking, FoundFirst, LoopStep
<1>11. ASSUME H4LazyNoWrap PROVE LoopStep(Params4, "quick")
  BY <1>11, <1>4 DEF H4LazyNoWrap, Running, Lazy, Looking, FoundNext, Better, LoopStep
<1>12. ASSUME H4EmitNoWrap PROVE LoopStep(Params4, "quick")
  BY <1>12, <1>2 DEF H4EmitNoWrap, Running, Maskings, Emit, Emitted, Emitting, CacheAfter, Pushes, Code, LoopStep
<1>13. ASSUME H4LiteralNoWrap PROVE LoopStep(Params4, "quick")
  BY <1>13, <1>2 DEF H4LiteralNoWrap, Running, Literal, Striding, Stride, LoopStep
<1>14. h.kind = "h4"
  BY DEF H4Next, Running, H4Begin, H4Search, H4Lazy, H4Emit, H4Literal, H4SearchNoWrap, H4LazyNoWrap, H4EmitNoWrap, H4LiteralNoWrap
<1>15. Profile(Params4, "quick", h.kind)
  BY <1>14 DEF Profile
<1> QED
  BY <1>5, <1>6, <1>7, <1>8, <1>9, <1>10, <1>11, <1>12, <1>13, <1>15 DEF H4Next, MatcherStep

LEMMA H4u16Shape == ASSUME H4u16Next PROVE MatcherStep
<1>1. ASSUME h.kind = "h4u16", NEW g, NEW positions
      PROVE  Stored("quick", g, positions, StoreAll(H4u16Store, g, positions))
  <2>1. StoreAll(H4u16Store, g, positions) = QuickAll(g, positions, TRUE, TRUE, 5, 4)
    BY DEF StoreAll, H4u16Store, QuickAll
  <2>2. TRUE \in Maskings
    BY <1>1 DEF Maskings
  <2> QED
    BY <2>1, <2>2, StoredQuick
<1>2. ASSUME h.kind = "h4u16", l.noWrap, NEW g, NEW positions
      PROVE  Stored("quick", g, positions, StoreAll(H4u16StoreNoWrap, g, positions))
  <2>1. StoreAll(H4u16StoreNoWrap, g, positions) = QuickAll(g, positions, FALSE, TRUE, 5, 4)
    BY DEF StoreAll, H4u16StoreNoWrap, QuickAll
  <2>2. FALSE \in Maskings
    BY <1>2 DEF Maskings
  <2> QED
    BY <2>1, <2>2, StoredQuick
<1>3. ASSUME h.kind = "h4u16", NEW cur, NEW rest, NEW best
      PROVE  Searched("quick", cur, rest, best,
                      H4u16Find(cur, rest, MaxDistance(cur), best))
  BY <1>3 DEF H4u16Find, Searched, QuickFound, Maskings
<1>4. ASSUME h.kind = "h4u16", l.noWrap, NEW cur, NEW rest, NEW best
      PROVE  Searched("quick", cur, rest, best,
                      H4u16FindNoWrap(cur, rest, MaxDistance(cur), best))
  BY <1>4 DEF H4u16FindNoWrap, Searched, QuickFound, Maskings
<1>5. ASSUME H4u16Begin PROVE LoopStep(Params4, "quick")
  BY <1>5, <1>1 DEF H4u16Begin, H4u16Reset, Begin, Stitch, Stitched, Cleaned, Cleared, WithWrap, LoopStep
<1>6. ASSUME H4u16Search PROVE LoopStep(Params4, "quick")
  BY <1>6, <1>3 DEF H4u16Search, Running, Search, Looking, FoundFirst, LoopStep
<1>7. ASSUME H4u16Lazy PROVE LoopStep(Params4, "quick")
  BY <1>7, <1>3 DEF H4u16Lazy, Running, Lazy, Looking, FoundNext, Better, LoopStep
<1>8. ASSUME H4u16Emit PROVE LoopStep(Params4, "quick")
  BY <1>8, <1>1 DEF H4u16Emit, Running, Maskings, Emit, Emitted, Emitting, CacheAfter, Pushes, Code, LoopStep
<1>9. ASSUME H4u16Literal PROVE LoopStep(Params4, "quick")
  BY <1>9, <1>1 DEF H4u16Literal, Running, Literal, Striding, Stride, LoopStep
<1>10. ASSUME H4u16SearchNoWrap PROVE LoopStep(Params4, "quick")
  BY <1>10, <1>4 DEF H4u16SearchNoWrap, Running, Search, Looking, FoundFirst, LoopStep
<1>11. ASSUME H4u16LazyNoWrap PROVE LoopStep(Params4, "quick")
  BY <1>11, <1>4 DEF H4u16LazyNoWrap, Running, Lazy, Looking, FoundNext, Better, LoopStep
<1>12. ASSUME H4u16EmitNoWrap PROVE LoopStep(Params4, "quick")
  BY <1>12, <1>2 DEF H4u16EmitNoWrap, Running, Maskings, Emit, Emitted, Emitting, CacheAfter, Pushes, Code, LoopStep
<1>13. ASSUME H4u16LiteralNoWrap PROVE LoopStep(Params4, "quick")
  BY <1>13, <1>2 DEF H4u16LiteralNoWrap, Running, Literal, Striding, Stride, LoopStep
<1>14. h.kind = "h4u16"
  BY DEF H4u16Next, Running, H4u16Begin, H4u16Search, H4u16Lazy, H4u16Emit, H4u16Literal, H4u16SearchNoWrap, H4u16LazyNoWrap, H4u16EmitNoWrap, H4u16LiteralNoWrap
<1>15. Profile(Params4, "quick", h.kind)
  BY <1>14 DEF Profile
<1> QED
  BY <1>5, <1>6, <1>7, <1>8, <1>9, <1>10, <1>11, <1>12, <1>13, <1>15 DEF H4u16Next, MatcherStep

LEMMA H54Shape == ASSUME H54Next PROVE MatcherStep
<1>1. ASSUME h.kind = "h54", NEW g, NEW positions
      PROVE  Stored("quick", g, positions, StoreAll(H54Store, g, positions))
  <2>1. StoreAll(H54Store, g, positions) = QuickAll(g, positions, TRUE, FALSE, 7, 4)
    BY DEF StoreAll, H54Store, QuickAll
  <2>2. TRUE \in Maskings
    BY <1>1 DEF Maskings
  <2> QED
    BY <2>1, <2>2, StoredQuick
<1>2. ASSUME h.kind = "h54", l.noWrap, NEW g, NEW positions
      PROVE  Stored("quick", g, positions, StoreAll(H54StoreNoWrap, g, positions))
  <2>1. StoreAll(H54StoreNoWrap, g, positions) = QuickAll(g, positions, FALSE, FALSE, 7, 4)
    BY DEF StoreAll, H54StoreNoWrap, QuickAll
  <2>2. FALSE \in Maskings
    BY <1>2 DEF Maskings
  <2> QED
    BY <2>1, <2>2, StoredQuick
<1>3. ASSUME h.kind = "h54", NEW cur, NEW rest, NEW best
      PROVE  Searched("quick", cur, rest, best,
                      H54Find(cur, rest, MaxDistance(cur), best))
  BY <1>3 DEF H54Find, Searched, QuickFound, Maskings
<1>4. ASSUME h.kind = "h54", l.noWrap, NEW cur, NEW rest, NEW best
      PROVE  Searched("quick", cur, rest, best,
                      H54FindNoWrap(cur, rest, MaxDistance(cur), best))
  BY <1>4 DEF H54FindNoWrap, Searched, QuickFound, Maskings
<1>5. ASSUME H54Begin PROVE LoopStep(QuickParams, "quick")
  BY <1>5, <1>1 DEF H54Begin, H54Reset, Begin, Stitch, Stitched, Cleaned, Cleared, WithWrap, LoopStep
<1>6. ASSUME H54Search PROVE LoopStep(QuickParams, "quick")
  BY <1>6, <1>3 DEF H54Search, Running, Search, Looking, FoundFirst, LoopStep
<1>7. ASSUME H54Lazy PROVE LoopStep(QuickParams, "quick")
  BY <1>7, <1>3 DEF H54Lazy, Running, Lazy, Looking, FoundNext, Better, LoopStep
<1>8. ASSUME H54Emit PROVE LoopStep(QuickParams, "quick")
  BY <1>8, <1>1 DEF H54Emit, Running, Maskings, Emit, Emitted, Emitting, CacheAfter, Pushes, Code, LoopStep
<1>9. ASSUME H54Literal PROVE LoopStep(QuickParams, "quick")
  BY <1>9, <1>1 DEF H54Literal, Running, Literal, Striding, Stride, LoopStep
<1>10. ASSUME H54SearchNoWrap PROVE LoopStep(QuickParams, "quick")
  BY <1>10, <1>4 DEF H54SearchNoWrap, Running, Search, Looking, FoundFirst, LoopStep
<1>11. ASSUME H54LazyNoWrap PROVE LoopStep(QuickParams, "quick")
  BY <1>11, <1>4 DEF H54LazyNoWrap, Running, Lazy, Looking, FoundNext, Better, LoopStep
<1>12. ASSUME H54EmitNoWrap PROVE LoopStep(QuickParams, "quick")
  BY <1>12, <1>2 DEF H54EmitNoWrap, Running, Maskings, Emit, Emitted, Emitting, CacheAfter, Pushes, Code, LoopStep
<1>13. ASSUME H54LiteralNoWrap PROVE LoopStep(QuickParams, "quick")
  BY <1>13, <1>2 DEF H54LiteralNoWrap, Running, Literal, Striding, Stride, LoopStep
<1>14. h.kind = "h54"
  BY DEF H54Next, Running, H54Begin, H54Search, H54Lazy, H54Emit, H54Literal, H54SearchNoWrap, H54LazyNoWrap, H54EmitNoWrap, H54LiteralNoWrap
<1>15. Profile(QuickParams, "quick", h.kind)
  BY <1>14 DEF Profile
<1> QED
  BY <1>5, <1>6, <1>7, <1>8, <1>9, <1>10, <1>11, <1>12, <1>13, <1>15 DEF H54Next, MatcherStep

LEMMA H5Shape == ASSUME H5Next PROVE MatcherStep
<1>1. ASSUME h.kind = "h5", NEW g, NEW positions
      PROVE  Stored("four", g, positions, StoreAll(H5Store, g, positions))
  <2>1. StoreAll(H5Store, g, positions) = Bucket4All(g, positions, TRUE, FALSE)
    BY DEF StoreAll, H5Store, Bucket4All
  <2>2. TRUE \in Maskings
    BY <1>1 DEF Maskings
  <2> QED
    BY <2>1, <2>2, <1>1, StoredFour
<1>2. ASSUME h.kind = "h5", l.noWrap, NEW g, NEW positions
      PROVE  Stored("four", g, positions, StoreAll(H5StoreNoWrap, g, positions))
  <2>1. StoreAll(H5StoreNoWrap, g, positions) = Bucket4All(g, positions, FALSE, FALSE)
    BY DEF StoreAll, H5StoreNoWrap, Bucket4All
  <2>2. FALSE \in Maskings
    BY <1>2 DEF Maskings
  <2> QED
    BY <2>1, <2>2, <1>2, StoredFour
<1>3. ASSUME h.kind = "h5", NEW cur, NEW rest, NEW best
      PROVE  Searched("four", cur, rest, best,
                      H5Find(cur, rest, MaxDistance(cur), best))
  <2> DEFINE c1 == TryCache(TRUE, 1, 4, cur, rest, MaxDistance(cur), best)
             c2 == TryCache(TRUE, 5, 10, cur, rest, MaxDistance(cur), c1)
             c3 == TryCache(TRUE, 11, 16, cur, rest, MaxDistance(cur), c2)
  <2>1. Tried(TRUE, cur, rest, best, c1)
    BY TriedParts, Zenon
  <2>2. TRUE \in Maskings /\ TRUE \in Maskings
    BY <1>3 DEF Maskings
  <2>3. H5Find(cur, rest, MaxDistance(cur), best)
          = FindInBucket(Bucket4Store(h, cur, TRUE, h.kind = "h5b6u16"), TRUE, Newest(h, Key4(IndexOf(TRUE, cur))),
                 cur, rest, MaxDistance(cur), c1)
    BY <1>3 DEF H5Find, H5TryLast, H5Store, IndexOf
  <2> HIDE DEF c1, c2, c3
  <2> QED
    BY <2>1, <2>2, <2>3, SearchedFour
<1>4. ASSUME h.kind = "h5", l.noWrap, NEW cur, NEW rest, NEW best
      PROVE  Searched("four", cur, rest, best,
                      H5FindNoWrap(cur, rest, MaxDistance(cur), best))
  <2> DEFINE c1 == TryCache(FALSE, 1, 4, cur, rest, MaxDistance(cur), best)
             c2 == TryCache(FALSE, 5, 10, cur, rest, MaxDistance(cur), c1)
             c3 == TryCache(FALSE, 11, 16, cur, rest, MaxDistance(cur), c2)
  <2>1. Tried(FALSE, cur, rest, best, c1)
    BY TriedParts, Zenon
  <2>2. FALSE \in Maskings /\ FALSE \in Maskings
    BY <1>4 DEF Maskings
  <2>3. H5FindNoWrap(cur, rest, MaxDistance(cur), best)
          = FindInBucket(Bucket4Store(h, cur, FALSE, h.kind = "h5b6u16"), FALSE, Newest(h, Key4(IndexOf(FALSE, cur))),
                 cur, rest, MaxDistance(cur), c1)
    BY <1>4 DEF H5FindNoWrap, H5TryLastNoWrap, H5StoreNoWrap, IndexOf
  <2> HIDE DEF c1, c2, c3
  <2> QED
    BY <2>1, <2>2, <2>3, SearchedFour
<1>5. ASSUME H5Begin PROVE LoopStep(Params5, "four")
  BY <1>5, <1>1 DEF H5Begin, H5Reset, Begin, Stitch, Stitched, Cleaned, Cleared, WithWrap, LoopStep
<1>6. ASSUME H5Search PROVE LoopStep(Params5, "four")
  BY <1>6, <1>3 DEF H5Search, Running, Search, Looking, FoundFirst, LoopStep
<1>7. ASSUME H5Lazy PROVE LoopStep(Params5, "four")
  BY <1>7, <1>3 DEF H5Lazy, Running, Lazy, Looking, FoundNext, Better, LoopStep
<1>8. ASSUME H5Emit PROVE LoopStep(Params5, "four")
  BY <1>8, <1>1 DEF H5Emit, Running, Maskings, Emit, Emitted, Emitting, CacheAfter, Pushes, Code, LoopStep
<1>9. ASSUME H5Literal PROVE LoopStep(Params5, "four")
  BY <1>9, <1>1 DEF H5Literal, Running, Literal, Striding, Stride, LoopStep
<1>10. ASSUME H5SearchNoWrap PROVE LoopStep(Params5, "four")
  BY <1>10, <1>4 DEF H5SearchNoWrap, Running, Search, Looking, FoundFirst, LoopStep
<1>11. ASSUME H5LazyNoWrap PROVE LoopStep(Params5, "four")
  BY <1>11, <1>4 DEF H5LazyNoWrap, Running, Lazy, Looking, FoundNext, Better, LoopStep
<1>12. ASSUME H5EmitNoWrap PROVE LoopStep(Params5, "four")
  BY <1>12, <1>2 DEF H5EmitNoWrap, Running, Maskings, Emit, Emitted, Emitting, CacheAfter, Pushes, Code, LoopStep
<1>13. ASSUME H5LiteralNoWrap PROVE LoopStep(Params5, "four")
  BY <1>13, <1>2 DEF H5LiteralNoWrap, Running, Literal, Striding, Stride, LoopStep
<1>14. h.kind = "h5"
  BY DEF H5Next, Running, H5Begin, H5Search, H5Lazy, H5Emit, H5Literal, H5SearchNoWrap, H5LazyNoWrap, H5EmitNoWrap, H5LiteralNoWrap
<1>15. Profile(Params5, "four", h.kind)
  BY <1>14 DEF Profile, Bucket4Kinds
<1> QED
  BY <1>5, <1>6, <1>7, <1>8, <1>9, <1>10, <1>11, <1>12, <1>13, <1>15 DEF H5Next, MatcherStep

LEMMA H5b5Shape == ASSUME H5b5Next PROVE MatcherStep
<1>1. ASSUME h.kind = "h5b5", NEW g, NEW positions
      PROVE  Stored("four", g, positions, StoreAll(H5b5Store, g, positions))
  <2>1. StoreAll(H5b5Store, g, positions) = Bucket4All(g, positions, TRUE, FALSE)
    BY DEF StoreAll, H5b5Store, Bucket4All
  <2>2. TRUE \in Maskings
    BY <1>1 DEF Maskings
  <2> QED
    BY <2>1, <2>2, <1>1, StoredFour
<1>2. ASSUME h.kind = "h5b5", l.noWrap, NEW g, NEW positions
      PROVE  Stored("four", g, positions, StoreAll(H5b5StoreNoWrap, g, positions))
  <2>1. StoreAll(H5b5StoreNoWrap, g, positions) = Bucket4All(g, positions, FALSE, FALSE)
    BY DEF StoreAll, H5b5StoreNoWrap, Bucket4All
  <2>2. FALSE \in Maskings
    BY <1>2 DEF Maskings
  <2> QED
    BY <2>1, <2>2, <1>2, StoredFour
<1>3. ASSUME h.kind = "h5b5", NEW cur, NEW rest, NEW best
      PROVE  Searched("four", cur, rest, best,
                      H5b5Find(cur, rest, MaxDistance(cur), best))
  <2> DEFINE c1 == TryCache(TRUE, 1, 4, cur, rest, MaxDistance(cur), best)
             c2 == TryCache(TRUE, 5, 10, cur, rest, MaxDistance(cur), c1)
             c3 == TryCache(TRUE, 11, 16, cur, rest, MaxDistance(cur), c2)
  <2>1. Tried(TRUE, cur, rest, best, c1)
    BY TriedParts, Zenon
  <2>2. TRUE \in Maskings /\ TRUE \in Maskings
    BY <1>3 DEF Maskings
  <2>3. H5b5Find(cur, rest, MaxDistance(cur), best)
          = FindInBucket(Bucket4Store(h, cur, TRUE, h.kind = "h5b6u16"), TRUE, Newest(h, Key4(IndexOf(TRUE, cur))),
                 cur, rest, MaxDistance(cur), c1)
    BY <1>3 DEF H5b5Find, H5b5TryLast, H5b5Store, IndexOf
  <2> HIDE DEF c1, c2, c3
  <2> QED
    BY <2>1, <2>2, <2>3, SearchedFour
<1>4. ASSUME h.kind = "h5b5", l.noWrap, NEW cur, NEW rest, NEW best
      PROVE  Searched("four", cur, rest, best,
                      H5b5FindNoWrap(cur, rest, MaxDistance(cur), best))
  <2> DEFINE c1 == TryCache(FALSE, 1, 4, cur, rest, MaxDistance(cur), best)
             c2 == TryCache(FALSE, 5, 10, cur, rest, MaxDistance(cur), c1)
             c3 == TryCache(FALSE, 11, 16, cur, rest, MaxDistance(cur), c2)
  <2>1. Tried(FALSE, cur, rest, best, c1)
    BY TriedParts, Zenon
  <2>2. FALSE \in Maskings /\ FALSE \in Maskings
    BY <1>4 DEF Maskings
  <2>3. H5b5FindNoWrap(cur, rest, MaxDistance(cur), best)
          = FindInBucket(Bucket4Store(h, cur, FALSE, h.kind = "h5b6u16"), FALSE, Newest(h, Key4(IndexOf(FALSE, cur))),
                 cur, rest, MaxDistance(cur), c1)
    BY <1>4 DEF H5b5FindNoWrap, H5b5TryLastNoWrap, H5b5StoreNoWrap, IndexOf
  <2> HIDE DEF c1, c2, c3
  <2> QED
    BY <2>1, <2>2, <2>3, SearchedFour
<1>5. ASSUME H5b5Begin PROVE LoopStep(Params5, "four")
  BY <1>5, <1>1 DEF H5b5Begin, H5b5Reset, Begin, Stitch, Stitched, Cleaned, Cleared, WithWrap, LoopStep
<1>6. ASSUME H5b5Search PROVE LoopStep(Params5, "four")
  BY <1>6, <1>3 DEF H5b5Search, Running, Search, Looking, FoundFirst, LoopStep
<1>7. ASSUME H5b5Lazy PROVE LoopStep(Params5, "four")
  BY <1>7, <1>3 DEF H5b5Lazy, Running, Lazy, Looking, FoundNext, Better, LoopStep
<1>8. ASSUME H5b5Emit PROVE LoopStep(Params5, "four")
  BY <1>8, <1>1 DEF H5b5Emit, Running, Maskings, Emit, Emitted, Emitting, CacheAfter, Pushes, Code, LoopStep
<1>9. ASSUME H5b5Literal PROVE LoopStep(Params5, "four")
  BY <1>9, <1>1 DEF H5b5Literal, Running, Literal, Striding, Stride, LoopStep
<1>10. ASSUME H5b5SearchNoWrap PROVE LoopStep(Params5, "four")
  BY <1>10, <1>4 DEF H5b5SearchNoWrap, Running, Search, Looking, FoundFirst, LoopStep
<1>11. ASSUME H5b5LazyNoWrap PROVE LoopStep(Params5, "four")
  BY <1>11, <1>4 DEF H5b5LazyNoWrap, Running, Lazy, Looking, FoundNext, Better, LoopStep
<1>12. ASSUME H5b5EmitNoWrap PROVE LoopStep(Params5, "four")
  BY <1>12, <1>2 DEF H5b5EmitNoWrap, Running, Maskings, Emit, Emitted, Emitting, CacheAfter, Pushes, Code, LoopStep
<1>13. ASSUME H5b5LiteralNoWrap PROVE LoopStep(Params5, "four")
  BY <1>13, <1>2 DEF H5b5LiteralNoWrap, Running, Literal, Striding, Stride, LoopStep
<1>14. h.kind = "h5b5"
  BY DEF H5b5Next, Running, H5b5Begin, H5b5Search, H5b5Lazy, H5b5Emit, H5b5Literal, H5b5SearchNoWrap, H5b5LazyNoWrap, H5b5EmitNoWrap, H5b5LiteralNoWrap
<1>15. Profile(Params5, "four", h.kind)
  BY <1>14 DEF Profile, Bucket4Kinds
<1> QED
  BY <1>5, <1>6, <1>7, <1>8, <1>9, <1>10, <1>11, <1>12, <1>13, <1>15 DEF H5b5Next, MatcherStep

LEMMA H5bShape == ASSUME H5bNext PROVE MatcherStep
<1>1. ASSUME h.kind = "h5b", NEW g, NEW positions
      PROVE  Stored("four", g, positions, StoreAll(H5bStore, g, positions))
  <2>1. StoreAll(H5bStore, g, positions) = Bucket4All(g, positions, TRUE, FALSE)
    BY DEF StoreAll, H5bStore, Bucket4All
  <2>2. TRUE \in Maskings
    BY <1>1 DEF Maskings
  <2> QED
    BY <2>1, <2>2, <1>1, StoredFour
<1>2. ASSUME h.kind = "h5b", l.noWrap, NEW g, NEW positions
      PROVE  Stored("four", g, positions, StoreAll(H5bStoreNoWrap, g, positions))
  <2>1. StoreAll(H5bStoreNoWrap, g, positions) = Bucket4All(g, positions, FALSE, FALSE)
    BY DEF StoreAll, H5bStoreNoWrap, Bucket4All
  <2>2. FALSE \in Maskings
    BY <1>2 DEF Maskings
  <2> QED
    BY <2>1, <2>2, <1>2, StoredFour
<1>3. ASSUME h.kind = "h5b", NEW cur, NEW rest, NEW best
      PROVE  Searched("four", cur, rest, best,
                      H5bFind(cur, rest, MaxDistance(cur), best))
  <2> DEFINE c1 == TryCache(TRUE, 1, 4, cur, rest, MaxDistance(cur), best)
             c2 == TryCache(TRUE, 5, 10, cur, rest, MaxDistance(cur), c1)
             c3 == TryCache(TRUE, 11, 16, cur, rest, MaxDistance(cur), c2)
  <2>1. Tried(TRUE, cur, rest, best, c2)
    BY TriedParts, Zenon
  <2>2. TRUE \in Maskings /\ TRUE \in Maskings
    BY <1>3 DEF Maskings
  <2>3. H5bFind(cur, rest, MaxDistance(cur), best)
          = FindInBucket(Bucket4Store(h, cur, TRUE, h.kind = "h5b6u16"), TRUE, Newest(h, Key4(IndexOf(TRUE, cur))),
                 cur, rest, MaxDistance(cur), c2)
    BY <1>3 DEF H5bFind, H5bTryLast, H5bTryNear, H5bStore, IndexOf
  <2> HIDE DEF c1, c2, c3
  <2> QED
    BY <2>1, <2>2, <2>3, SearchedFour
<1>4. ASSUME h.kind = "h5b", l.noWrap, NEW cur, NEW rest, NEW best
      PROVE  Searched("four", cur, rest, best,
                      H5bFindNoWrap(cur, rest, MaxDistance(cur), best))
  <2> DEFINE c1 == TryCache(FALSE, 1, 4, cur, rest, MaxDistance(cur), best)
             c2 == TryCache(FALSE, 5, 10, cur, rest, MaxDistance(cur), c1)
             c3 == TryCache(FALSE, 11, 16, cur, rest, MaxDistance(cur), c2)
  <2>1. Tried(FALSE, cur, rest, best, c2)
    BY TriedParts, Zenon
  <2>2. FALSE \in Maskings /\ FALSE \in Maskings
    BY <1>4 DEF Maskings
  <2>3. H5bFindNoWrap(cur, rest, MaxDistance(cur), best)
          = FindInBucket(Bucket4Store(h, cur, FALSE, h.kind = "h5b6u16"), FALSE, Newest(h, Key4(IndexOf(FALSE, cur))),
                 cur, rest, MaxDistance(cur), c2)
    BY <1>4 DEF H5bFindNoWrap, H5bTryLastNoWrap, H5bTryNearNoWrap, H5bStoreNoWrap, IndexOf
  <2> HIDE DEF c1, c2, c3
  <2> QED
    BY <2>1, <2>2, <2>3, SearchedFour
<1>5. ASSUME H5bBegin PROVE LoopStep(Params5b, "four")
  BY <1>5, <1>1 DEF H5bBegin, H5bReset, Begin, Stitch, Stitched, Cleaned, Cleared, WithWrap, LoopStep
<1>6. ASSUME H5bSearch PROVE LoopStep(Params5b, "four")
  BY <1>6, <1>3 DEF H5bSearch, Running, Search, Looking, FoundFirst, LoopStep
<1>7. ASSUME H5bLazy PROVE LoopStep(Params5b, "four")
  BY <1>7, <1>3 DEF H5bLazy, Running, Lazy, Looking, FoundNext, Better, LoopStep
<1>8. ASSUME H5bEmit PROVE LoopStep(Params5b, "four")
  BY <1>8, <1>1 DEF H5bEmit, Running, Maskings, Emit, Emitted, Emitting, CacheAfter, Pushes, Code, LoopStep
<1>9. ASSUME H5bLiteral PROVE LoopStep(Params5b, "four")
  BY <1>9, <1>1 DEF H5bLiteral, Running, Literal, Striding, Stride, LoopStep
<1>10. ASSUME H5bSearchNoWrap PROVE LoopStep(Params5b, "four")
  BY <1>10, <1>4 DEF H5bSearchNoWrap, Running, Search, Looking, FoundFirst, LoopStep
<1>11. ASSUME H5bLazyNoWrap PROVE LoopStep(Params5b, "four")
  BY <1>11, <1>4 DEF H5bLazyNoWrap, Running, Lazy, Looking, FoundNext, Better, LoopStep
<1>12. ASSUME H5bEmitNoWrap PROVE LoopStep(Params5b, "four")
  BY <1>12, <1>2 DEF H5bEmitNoWrap, Running, Maskings, Emit, Emitted, Emitting, CacheAfter, Pushes, Code, LoopStep
<1>13. ASSUME H5bLiteralNoWrap PROVE LoopStep(Params5b, "four")
  BY <1>13, <1>2 DEF H5bLiteralNoWrap, Running, Literal, Striding, Stride, LoopStep
<1>14. h.kind = "h5b"
  BY DEF H5bNext, Running, H5bBegin, H5bSearch, H5bLazy, H5bEmit, H5bLiteral, H5bSearchNoWrap, H5bLazyNoWrap, H5bEmitNoWrap, H5bLiteralNoWrap
<1>15. Profile(Params5b, "four", h.kind)
  BY <1>14 DEF Profile, Bucket4Kinds
<1> QED
  BY <1>5, <1>6, <1>7, <1>8, <1>9, <1>10, <1>11, <1>12, <1>13, <1>15 DEF H5bNext, MatcherStep

LEMMA H5b6u16Shape == ASSUME H5b6u16Next PROVE MatcherStep
<1>1. ASSUME h.kind = "h5b6u16", NEW g, NEW positions
      PROVE  Stored("four", g, positions, StoreAll(H5b6u16Store, g, positions))
  <2>1. StoreAll(H5b6u16Store, g, positions) = Bucket4All(g, positions, TRUE, TRUE)
    BY DEF StoreAll, H5b6u16Store, Bucket4All
  <2>2. TRUE \in Maskings
    BY <1>1 DEF Maskings
  <2> QED
    BY <2>1, <2>2, <1>1, StoredFour
<1>2. ASSUME h.kind = "h5b6u16", l.noWrap, NEW g, NEW positions
      PROVE  Stored("four", g, positions, StoreAll(H5b6u16StoreNoWrap, g, positions))
  <2>1. StoreAll(H5b6u16StoreNoWrap, g, positions) = Bucket4All(g, positions, FALSE, TRUE)
    BY DEF StoreAll, H5b6u16StoreNoWrap, Bucket4All
  <2>2. FALSE \in Maskings
    BY <1>2 DEF Maskings
  <2> QED
    BY <2>1, <2>2, <1>2, StoredFour
<1>3. ASSUME h.kind = "h5b6u16", l.noWrap, NEW cur, NEW rest, NEW best
      PROVE  Searched("four", cur, rest, best,
                      H5b6u16FindNoWrap(cur, rest, MaxDistance(cur), best))
  <2> DEFINE c1 == TryCache(FALSE, 1, 4, cur, rest, MaxDistance(cur), best)
             c2 == TryCache(FALSE, 5, 10, cur, rest, MaxDistance(cur), c1)
             c3 == TryCache(FALSE, 11, 16, cur, rest, MaxDistance(cur), c2)
  <2>1. Tried(FALSE, cur, rest, best, c2)
    BY TriedParts, Zenon
  <2>2. FALSE \in Maskings /\ FALSE \in Maskings
    BY <1>3 DEF Maskings
  <2>3. H5b6u16FindNoWrap(cur, rest, MaxDistance(cur), best)
          = FindInBucket(Bucket4Store(h, cur, FALSE, h.kind = "h5b6u16"), FALSE, Newest(h, Key4(IndexOf(FALSE, cur))),
                 cur, rest, MaxDistance(cur), c2)
    BY <1>3 DEF H5b6u16FindNoWrap, H5b6u16TryLastNoWrap, H5b6u16TryNearNoWrap, H5b6u16StoreNoWrap, IndexOf
  <2> HIDE DEF c1, c2, c3
  <2> QED
    BY <2>1, <2>2, <2>3, SearchedFour
<1>4. ASSUME H5b6u16Begin PROVE LoopStep(Params5b, "four")
  BY <1>4, <1>1 DEF H5b6u16Begin, H5b6u16Reset, Begin, Stitch, Stitched, Cleaned, Cleared, WithWrap, LoopStep
<1>5. ASSUME H5b6u16SearchNoWrap PROVE LoopStep(Params5b, "four")
  BY <1>5, <1>3 DEF H5b6u16SearchNoWrap, Running, Search, Looking, FoundFirst, LoopStep
<1>6. ASSUME H5b6u16LazyNoWrap PROVE LoopStep(Params5b, "four")
  BY <1>6, <1>3 DEF H5b6u16LazyNoWrap, Running, Lazy, Looking, FoundNext, Better, LoopStep
<1>7. ASSUME H5b6u16EmitNoWrap PROVE LoopStep(Params5b, "four")
  BY <1>7, <1>2 DEF H5b6u16EmitNoWrap, Running, Maskings, Emit, Emitted, Emitting, CacheAfter, Pushes, Code, LoopStep
<1>8. ASSUME H5b6u16LiteralNoWrap PROVE LoopStep(Params5b, "four")
  BY <1>8, <1>2 DEF H5b6u16LiteralNoWrap, Running, Literal, Striding, Stride, LoopStep
<1>9. h.kind = "h5b6u16"
  BY DEF H5b6u16Next, Running, H5b6u16Begin, H5b6u16SearchNoWrap, H5b6u16LazyNoWrap, H5b6u16EmitNoWrap, H5b6u16LiteralNoWrap
<1>10. Profile(Params5b, "four", h.kind)
  BY <1>9 DEF Profile, Bucket4Kinds
<1> QED
  BY <1>4, <1>5, <1>6, <1>7, <1>8, <1>10 DEF H5b6u16Next, MatcherStep

LEMMA H5b8Shape == ASSUME H5b8Next PROVE MatcherStep
<1>1. ASSUME h.kind = "h5b8", NEW g, NEW positions
      PROVE  Stored("four", g, positions, StoreAll(H5b8Store, g, positions))
  <2>1. StoreAll(H5b8Store, g, positions) = Bucket4All(g, positions, TRUE, FALSE)
    BY DEF StoreAll, H5b8Store, Bucket4All
  <2>2. TRUE \in Maskings
    BY <1>1 DEF Maskings
  <2> QED
    BY <2>1, <2>2, <1>1, StoredFour
<1>2. ASSUME h.kind = "h5b8", l.noWrap, NEW g, NEW positions
      PROVE  Stored("four", g, positions, StoreAll(H5b8StoreNoWrap, g, positions))
  <2>1. StoreAll(H5b8StoreNoWrap, g, positions) = Bucket4All(g, positions, FALSE, FALSE)
    BY DEF StoreAll, H5b8StoreNoWrap, Bucket4All
  <2>2. FALSE \in Maskings
    BY <1>2 DEF Maskings
  <2> QED
    BY <2>1, <2>2, <1>2, StoredFour
<1>3. ASSUME h.kind = "h5b8", NEW cur, NEW rest, NEW best
      PROVE  Searched("four", cur, rest, best,
                      H5b8Find(cur, rest, MaxDistance(cur), best))
  <2> DEFINE c1 == TryCache(TRUE, 1, 4, cur, rest, MaxDistance(cur), best)
             c2 == TryCache(TRUE, 5, 10, cur, rest, MaxDistance(cur), c1)
             c3 == TryCache(TRUE, 11, 16, cur, rest, MaxDistance(cur), c2)
  <2>1. Tried(TRUE, cur, rest, best, c3)
    BY TriedParts, Zenon
  <2>2. TRUE \in Maskings /\ TRUE \in Maskings
    BY <1>3 DEF Maskings
  <2>3. H5b8Find(cur, rest, MaxDistance(cur), best)
          = FindInBucket(Bucket4Store(h, cur, TRUE, h.kind = "h5b6u16"), TRUE, Newest(h, Key4(IndexOf(TRUE, cur))),
                 cur, rest, MaxDistance(cur), c3)
    BY <1>3 DEF H5b8Find, H5b8TryLast, H5b8TryNear, H5b8TryNearSecond, H5b8Store, IndexOf
  <2> HIDE DEF c1, c2, c3
  <2> QED
    BY <2>1, <2>2, <2>3, SearchedFour
<1>4. ASSUME h.kind = "h5b8", l.noWrap, NEW cur, NEW rest, NEW best
      PROVE  Searched("four", cur, rest, best,
                      H5b8FindNoWrap(cur, rest, MaxDistance(cur), best))
  <2> DEFINE c1 == TryCache(FALSE, 1, 4, cur, rest, MaxDistance(cur), best)
             c2 == TryCache(FALSE, 5, 10, cur, rest, MaxDistance(cur), c1)
             c3 == TryCache(FALSE, 11, 16, cur, rest, MaxDistance(cur), c2)
  <2>1. Tried(FALSE, cur, rest, best, c3)
    BY TriedParts, Zenon
  <2>2. FALSE \in Maskings /\ FALSE \in Maskings
    BY <1>4 DEF Maskings
  <2>3. H5b8FindNoWrap(cur, rest, MaxDistance(cur), best)
          = FindInBucket(Bucket4Store(h, cur, FALSE, h.kind = "h5b6u16"), FALSE, Newest(h, Key4(IndexOf(FALSE, cur))),
                 cur, rest, MaxDistance(cur), c3)
    BY <1>4 DEF H5b8FindNoWrap, H5b8TryLastNoWrap, H5b8TryNearNoWrap, H5b8TryNearSecondNoWrap, H5b8StoreNoWrap, IndexOf
  <2> HIDE DEF c1, c2, c3
  <2> QED
    BY <2>1, <2>2, <2>3, SearchedFour
<1>5. ASSUME H5b8Begin PROVE LoopStep(Params5b8, "four")
  BY <1>5, <1>1 DEF H5b8Begin, H5b8Reset, Begin, Stitch, Stitched, Cleaned, Cleared, WithWrap, LoopStep
<1>6. ASSUME H5b8Search PROVE LoopStep(Params5b8, "four")
  BY <1>6, <1>3 DEF H5b8Search, Running, Search, Looking, FoundFirst, LoopStep
<1>7. ASSUME H5b8Lazy PROVE LoopStep(Params5b8, "four")
  BY <1>7, <1>3 DEF H5b8Lazy, Running, Lazy, Looking, FoundNext, Better, LoopStep
<1>8. ASSUME H5b8Emit PROVE LoopStep(Params5b8, "four")
  BY <1>8, <1>1 DEF H5b8Emit, Running, Maskings, Emit, Emitted, Emitting, CacheAfter, Pushes, Code, LoopStep
<1>9. ASSUME H5b8Literal PROVE LoopStep(Params5b8, "four")
  BY <1>9, <1>1 DEF H5b8Literal, Running, Literal, Striding, Stride, LoopStep
<1>10. ASSUME H5b8SearchNoWrap PROVE LoopStep(Params5b8NoWrap, "four")
  BY <1>10, <1>4 DEF H5b8SearchNoWrap, Running, Search, Looking, FoundFirst, LoopStep
<1>11. ASSUME H5b8LazyNoWrap PROVE LoopStep(Params5b8NoWrap, "four")
  BY <1>11, <1>4 DEF H5b8LazyNoWrap, Running, Lazy, Looking, FoundNext, Better, LoopStep
<1>12. ASSUME H5b8EmitNoWrap PROVE LoopStep(Params5b8NoWrap, "four")
  BY <1>12, <1>2 DEF H5b8EmitNoWrap, Running, Maskings, Emit, Emitted, Emitting, CacheAfter, Pushes, Code, LoopStep
<1>13. ASSUME H5b8LiteralNoWrap PROVE LoopStep(Params5b8NoWrap, "four")
  BY <1>13, <1>2 DEF H5b8LiteralNoWrap, Running, Literal, Striding, Stride, LoopStep
<1>14. h.kind = "h5b8"
  BY DEF H5b8Next, Running, H5b8Begin, H5b8Search, H5b8Lazy, H5b8Emit, H5b8Literal, H5b8SearchNoWrap, H5b8LazyNoWrap, H5b8EmitNoWrap, H5b8LiteralNoWrap
<1>15. /\ Profile(Params5b8, "four", h.kind)
      /\ Profile(Params5b8NoWrap, "four", h.kind)
  BY <1>14 DEF Profile, Bucket4Kinds
<1> QED
  BY <1>5, <1>6, <1>7, <1>8, <1>9, <1>10, <1>11, <1>12, <1>13, <1>15 DEF H5b8Next, MatcherStep

LEMMA H6Shape == ASSUME H6Next PROVE MatcherStep
<1>1. ASSUME h.kind = "h6", NEW g, NEW positions
      PROVE  Stored("tagged", g, positions, StoreAll(H6Store, g, positions))
  <2>1. StoreAll(H6Store, g, positions) = TaggedAll(g, positions, TRUE)
    BY DEF StoreAll, H6Store, TaggedAll
  <2>2. TRUE \in Maskings
    BY <1>1 DEF Maskings
  <2> QED
    BY <2>1, <2>2, StoredTagged
<1>2. ASSUME h.kind = "h6", l.noWrap, NEW g, NEW positions
      PROVE  Stored("tagged", g, positions, StoreAll(H6StoreNoWrap, g, positions))
  <2>1. StoreAll(H6StoreNoWrap, g, positions) = TaggedAll(g, positions, FALSE)
    BY DEF StoreAll, H6StoreNoWrap, TaggedAll
  <2>2. FALSE \in Maskings
    BY <1>2 DEF Maskings
  <2> QED
    BY <2>1, <2>2, StoredTagged
<1>3. ASSUME h.kind = "h6", NEW cur, NEW rest, NEW best
      PROVE  Searched("tagged", cur, rest, best,
                      H6Find(cur, rest, MaxDistance(cur), best))
  <2> DEFINE c1 == TryCache(TRUE, 1, 4, cur, rest, MaxDistance(cur), best)
             c2 == TryCache(TRUE, 5, 10, cur, rest, MaxDistance(cur), c1)
             c3 == TryCache(TRUE, 11, 16, cur, rest, MaxDistance(cur), c2)
  <2>1. Tried(TRUE, cur, rest, best, c1)
    BY TriedParts, Zenon
  <2>2. TRUE \in Maskings /\ TRUE \in Maskings
    BY <1>3 DEF Maskings
  <2>3. H6Find(cur, rest, MaxDistance(cur), best)
          = FindTagged(TaggedStore(h, cur, TRUE), TRUE, IndexOf(TRUE, cur),
                 cur, rest, MaxDistance(cur), c1)
    BY <1>3 DEF H6Find, H6TryLast, H6Store, IndexOf
  <2> HIDE DEF c1, c2, c3
  <2> QED
    BY <2>1, <2>2, <2>3, SearchedTagged
<1>4. ASSUME h.kind = "h6", l.noWrap, NEW cur, NEW rest, NEW best
      PROVE  Searched("tagged", cur, rest, best,
                      H6FindNoWrap(cur, rest, MaxDistance(cur), best))
  <2> DEFINE c1 == TryCache(FALSE, 1, 4, cur, rest, MaxDistance(cur), best)
             c2 == TryCache(FALSE, 5, 10, cur, rest, MaxDistance(cur), c1)
             c3 == TryCache(FALSE, 11, 16, cur, rest, MaxDistance(cur), c2)
  <2>1. Tried(FALSE, cur, rest, best, c1)
    BY TriedParts, Zenon
  <2>2. FALSE \in Maskings /\ FALSE \in Maskings
    BY <1>4 DEF Maskings
  <2>3. H6FindNoWrap(cur, rest, MaxDistance(cur), best)
          = FindTagged(TaggedStore(h, cur, FALSE), FALSE, IndexOf(FALSE, cur),
                 cur, rest, MaxDistance(cur), c1)
    BY <1>4 DEF H6FindNoWrap, H6TryLastNoWrap, H6StoreNoWrap, IndexOf
  <2> HIDE DEF c1, c2, c3
  <2> QED
    BY <2>1, <2>2, <2>3, SearchedTagged
<1>5. ASSUME H6Begin PROVE LoopStep(Params6, "tagged")
  BY <1>5, <1>1 DEF H6Begin, H6Reset, Begin, Stitch, Stitched, Cleaned, Cleared, WithWrap, LoopStep
<1>6. ASSUME H6Search PROVE LoopStep(Params6, "tagged")
  BY <1>6, <1>3 DEF H6Search, Running, Search, Looking, FoundFirst, LoopStep
<1>7. ASSUME H6Lazy PROVE LoopStep(Params6, "tagged")
  BY <1>7, <1>3 DEF H6Lazy, Running, Lazy, Looking, FoundNext, Better, LoopStep
<1>8. ASSUME H6Emit PROVE LoopStep(Params6, "tagged")
  BY <1>8, <1>1 DEF H6Emit, Running, Maskings, Emit, Emitted, Emitting, CacheAfter, Pushes, Code, LoopStep
<1>9. ASSUME H6Literal PROVE LoopStep(Params6, "tagged")
  BY <1>9, <1>1 DEF H6Literal, Running, Literal, Striding, Stride, LoopStep
<1>10. ASSUME H6SearchNoWrap PROVE LoopStep(Params6, "tagged")
  BY <1>10, <1>4 DEF H6SearchNoWrap, Running, Search, Looking, FoundFirst, LoopStep
<1>11. ASSUME H6LazyNoWrap PROVE LoopStep(Params6, "tagged")
  BY <1>11, <1>4 DEF H6LazyNoWrap, Running, Lazy, Looking, FoundNext, Better, LoopStep
<1>12. ASSUME H6EmitNoWrap PROVE LoopStep(Params6, "tagged")
  BY <1>12, <1>2 DEF H6EmitNoWrap, Running, Maskings, Emit, Emitted, Emitting, CacheAfter, Pushes, Code, LoopStep
<1>13. ASSUME H6LiteralNoWrap PROVE LoopStep(Params6, "tagged")
  BY <1>13, <1>2 DEF H6LiteralNoWrap, Running, Literal, Striding, Stride, LoopStep
<1>14. h.kind = "h6"
  BY DEF H6Next, Running, H6Begin, H6Search, H6Lazy, H6Emit, H6Literal, H6SearchNoWrap, H6LazyNoWrap, H6EmitNoWrap, H6LiteralNoWrap
<1>15. Profile(Params6, "tagged", h.kind)
  BY <1>14 DEF Profile, TaggedKinds
<1> QED
  BY <1>5, <1>6, <1>7, <1>8, <1>9, <1>10, <1>11, <1>12, <1>13, <1>15 DEF H6Next, MatcherStep

LEMMA H6uShape == ASSUME H6uNext PROVE MatcherStep
<1>1. ASSUME h.kind = "h6u", NEW g, NEW positions
      PROVE  Stored("five", g, positions, StoreAll(H6uStore, g, positions))
  <2>1. StoreAll(H6uStore, g, positions) = Bucket5All(g, positions, TRUE)
    BY DEF StoreAll, H6uStore, Bucket5All
  <2>2. TRUE \in Maskings
    BY <1>1 DEF Maskings
  <2> QED
    BY <2>1, <2>2, StoredFive
<1>2. ASSUME h.kind = "h6u", NEW cur, NEW rest, NEW best
      PROVE  Searched("five", cur, rest, best,
                      H6uSampledFind(cur, rest, MaxDistance(cur), best))
  <2> DEFINE c1 == TryCache(TRUE, 1, 4, cur, rest, MaxDistance(cur), best)
             c2 == TryCache(TRUE, 5, 10, cur, rest, MaxDistance(cur), c1)
             c3 == TryCache(TRUE, 11, 16, cur, rest, MaxDistance(cur), c2)
  <2>1. Tried(TRUE, cur, rest, best, c1)
    BY TriedParts, Zenon
  <2>2. TRUE \in Maskings /\ TRUE \in Maskings
    BY <1>2 DEF Maskings
  <2>3. H6uSampledFind(cur, rest, MaxDistance(cur), best)
          = Sampled(FindInBucket(Bucket5Store(h, cur, TRUE), TRUE, Newest(h, Key5(IndexOf(TRUE, cur))),
                 cur, rest, MaxDistance(cur), c1), cur)
    BY <1>2 DEF H6uSampledFind, H6uFind, H6uTryLast, H6uStore, IndexOf
  <2> HIDE DEF c1, c2, c3
  <2> QED
    BY <2>1, <2>2, <2>3, SearchedFive
<1>3. ASSUME h.kind = "h6u", NEW cur, NEW rest, NEW best
      PROVE  Searched("five", cur, rest, best,
                      H6uFind(cur, rest, MaxDistance(cur), best))
  <2> DEFINE c1 == TryCache(TRUE, 1, 4, cur, rest, MaxDistance(cur), best)
             c2 == TryCache(TRUE, 5, 10, cur, rest, MaxDistance(cur), c1)
             c3 == TryCache(TRUE, 11, 16, cur, rest, MaxDistance(cur), c2)
  <2>1. Tried(TRUE, cur, rest, best, c1)
    BY TriedParts, Zenon
  <2>2. TRUE \in Maskings /\ TRUE \in Maskings
    BY <1>3 DEF Maskings
  <2>3. H6uFind(cur, rest, MaxDistance(cur), best)
          = FindInBucket(Bucket5Store(h, cur, TRUE), TRUE, Newest(h, Key5(IndexOf(TRUE, cur))),
                 cur, rest, MaxDistance(cur), c1)
    BY <1>3 DEF H6uFind, H6uTryLast, H6uStore, IndexOf
  <2> HIDE DEF c1, c2, c3
  <2> QED
    BY <2>1, <2>2, <2>3, SearchedFive
<1>4. ASSUME h.kind = "h6u", l.noWrap, NEW cur, NEW rest, NEW best
      PROVE  Searched("five", cur, rest, best,
                      H6uSampledFindNoWrap(cur, rest, MaxDistance(cur), best))
  <2> DEFINE c1 == TryCache(FALSE, 1, 4, cur, rest, MaxDistance(cur), best)
             c2 == TryCache(FALSE, 5, 10, cur, rest, MaxDistance(cur), c1)
             c3 == TryCache(FALSE, 11, 16, cur, rest, MaxDistance(cur), c2)
  <2>1. Tried(FALSE, cur, rest, best, c1)
    BY TriedParts, Zenon
  <2>2. FALSE \in Maskings /\ TRUE \in Maskings
    BY <1>4 DEF Maskings
  <2>3. H6uSampledFindNoWrap(cur, rest, MaxDistance(cur), best)
          = Sampled(FindInBucket(Bucket5Store(h, cur, TRUE), FALSE, Newest(h, Key5(IndexOf(FALSE, cur))),
                 cur, rest, MaxDistance(cur), c1), cur)
    BY <1>4 DEF H6uSampledFindNoWrap, H6uFindNoWrap, H6uTryLastNoWrap, H6uStore, IndexOf
  <2> HIDE DEF c1, c2, c3
  <2> QED
    BY <2>1, <2>2, <2>3, SearchedFive
<1>5. ASSUME h.kind = "h6u", l.noWrap, NEW cur, NEW rest, NEW best
      PROVE  Searched("five", cur, rest, best,
                      H6uFindNoWrap(cur, rest, MaxDistance(cur), best))
  <2> DEFINE c1 == TryCache(FALSE, 1, 4, cur, rest, MaxDistance(cur), best)
             c2 == TryCache(FALSE, 5, 10, cur, rest, MaxDistance(cur), c1)
             c3 == TryCache(FALSE, 11, 16, cur, rest, MaxDistance(cur), c2)
  <2>1. Tried(FALSE, cur, rest, best, c1)
    BY TriedParts, Zenon
  <2>2. FALSE \in Maskings /\ TRUE \in Maskings
    BY <1>5 DEF Maskings
  <2>3. H6uFindNoWrap(cur, rest, MaxDistance(cur), best)
          = FindInBucket(Bucket5Store(h, cur, TRUE), FALSE, Newest(h, Key5(IndexOf(FALSE, cur))),
                 cur, rest, MaxDistance(cur), c1)
    BY <1>5 DEF H6uFindNoWrap, H6uTryLastNoWrap, H6uStore, IndexOf
  <2> HIDE DEF c1, c2, c3
  <2> QED
    BY <2>1, <2>2, <2>3, SearchedFive
<1>6. ASSUME H6uBegin PROVE LoopStep(Params6u, "five")
  BY <1>6, <1>1 DEF H6uBegin, H6uReset, Begin, Stitch, Stitched, Cleaned, Cleared, WithWrap, LoopStep
<1>7. ASSUME H6uSearch PROVE LoopStep(Params6u, "five")
  BY <1>7, <1>2 DEF H6uSearch, Running, Search, Looking, FoundFirst, LoopStep
<1>8. ASSUME H6uLazy PROVE LoopStep(Params6u, "five")
  BY <1>8, <1>3 DEF H6uLazy, Running, Lazy, Looking, FoundNext, Better, LoopStep
<1>9. ASSUME H6uEmit PROVE LoopStep(Params6u, "five")
  BY <1>9, <1>1 DEF H6uEmit, Running, Maskings, Emit, Emitted, Emitting, CacheAfter, Pushes, Code, LoopStep
<1>10. ASSUME H6uLiteral PROVE LoopStep(Params6u, "five")
  BY <1>10, <1>1 DEF H6uLiteral, Running, Literal, Striding, Stride, LoopStep
<1>11. ASSUME H6uSearchNoWrap PROVE LoopStep(Params6u, "five")
  BY <1>11, <1>4 DEF H6uSearchNoWrap, Running, Search, Looking, FoundFirst, LoopStep
<1>12. ASSUME H6uLazyNoWrap PROVE LoopStep(Params6u, "five")
  BY <1>12, <1>5 DEF H6uLazyNoWrap, Running, Lazy, Looking, FoundNext, Better, LoopStep
<1>13. ASSUME H6uEmitNoWrap PROVE LoopStep(Params6u, "five")
  BY <1>13, <1>1 DEF H6uEmitNoWrap, Running, Maskings, Emit, Emitted, Emitting, CacheAfter, Pushes, Code, LoopStep
<1>14. ASSUME H6uLiteralNoWrap PROVE LoopStep(Params6u, "five")
  BY <1>14, <1>1 DEF H6uLiteralNoWrap, Running, Literal, Striding, Stride, LoopStep
<1>15. h.kind = "h6u"
  BY DEF H6uNext, Running, H6uBegin, H6uSearch, H6uLazy, H6uEmit, H6uLiteral, H6uSearchNoWrap, H6uLazyNoWrap, H6uEmitNoWrap, H6uLiteralNoWrap
<1>16. Profile(Params6u, "five", h.kind)
  BY <1>15 DEF Profile, PlainKinds, CountedKinds
<1> QED
  BY <1>6, <1>7, <1>8, <1>9, <1>10, <1>11, <1>12, <1>13, <1>14, <1>16 DEF H6uNext, MatcherStep

LEMMA H6b5Shape == ASSUME H6b5Next PROVE MatcherStep
<1>1. ASSUME h.kind = "h6b5", NEW g, NEW positions
      PROVE  Stored("tagged", g, positions, StoreAll(H6b5Store, g, positions))
  <2>1. StoreAll(H6b5Store, g, positions) = TaggedAll(g, positions, TRUE)
    BY DEF StoreAll, H6b5Store, TaggedAll
  <2>2. TRUE \in Maskings
    BY <1>1 DEF Maskings
  <2> QED
    BY <2>1, <2>2, StoredTagged
<1>2. ASSUME h.kind = "h6b5", l.noWrap, NEW g, NEW positions
      PROVE  Stored("tagged", g, positions, StoreAll(H6b5StoreNoWrap, g, positions))
  <2>1. StoreAll(H6b5StoreNoWrap, g, positions) = TaggedAll(g, positions, FALSE)
    BY DEF StoreAll, H6b5StoreNoWrap, TaggedAll
  <2>2. FALSE \in Maskings
    BY <1>2 DEF Maskings
  <2> QED
    BY <2>1, <2>2, StoredTagged
<1>3. ASSUME h.kind = "h6b5", NEW cur, NEW rest, NEW best
      PROVE  Searched("tagged", cur, rest, best,
                      H6b5Find(cur, rest, MaxDistance(cur), best))
  <2> DEFINE c1 == TryCache(TRUE, 1, 4, cur, rest, MaxDistance(cur), best)
             c2 == TryCache(TRUE, 5, 10, cur, rest, MaxDistance(cur), c1)
             c3 == TryCache(TRUE, 11, 16, cur, rest, MaxDistance(cur), c2)
  <2>1. Tried(TRUE, cur, rest, best, c1)
    BY TriedParts, Zenon
  <2>2. TRUE \in Maskings /\ TRUE \in Maskings
    BY <1>3 DEF Maskings
  <2>3. H6b5Find(cur, rest, MaxDistance(cur), best)
          = FindTagged(TaggedStore(h, cur, TRUE), TRUE, IndexOf(TRUE, cur),
                 cur, rest, MaxDistance(cur), c1)
    BY <1>3 DEF H6b5Find, H6b5TryLast, H6b5Store, IndexOf
  <2> HIDE DEF c1, c2, c3
  <2> QED
    BY <2>1, <2>2, <2>3, SearchedTagged
<1>4. ASSUME h.kind = "h6b5", l.noWrap, NEW cur, NEW rest, NEW best
      PROVE  Searched("tagged", cur, rest, best,
                      H6b5FindNoWrap(cur, rest, MaxDistance(cur), best))
  <2> DEFINE c1 == TryCache(FALSE, 1, 4, cur, rest, MaxDistance(cur), best)
             c2 == TryCache(FALSE, 5, 10, cur, rest, MaxDistance(cur), c1)
             c3 == TryCache(FALSE, 11, 16, cur, rest, MaxDistance(cur), c2)
  <2>1. Tried(FALSE, cur, rest, best, c1)
    BY TriedParts, Zenon
  <2>2. FALSE \in Maskings /\ FALSE \in Maskings
    BY <1>4 DEF Maskings
  <2>3. H6b5FindNoWrap(cur, rest, MaxDistance(cur), best)
          = FindTagged(TaggedStore(h, cur, FALSE), FALSE, IndexOf(FALSE, cur),
                 cur, rest, MaxDistance(cur), c1)
    BY <1>4 DEF H6b5FindNoWrap, H6b5TryLastNoWrap, H6b5StoreNoWrap, IndexOf
  <2> HIDE DEF c1, c2, c3
  <2> QED
    BY <2>1, <2>2, <2>3, SearchedTagged
<1>5. ASSUME H6b5Begin PROVE LoopStep(Params6, "tagged")
  BY <1>5, <1>1 DEF H6b5Begin, H6b5Reset, Begin, Stitch, Stitched, Cleaned, Cleared, WithWrap, LoopStep
<1>6. ASSUME H6b5Search PROVE LoopStep(Params6, "tagged")
  BY <1>6, <1>3 DEF H6b5Search, Running, Search, Looking, FoundFirst, LoopStep
<1>7. ASSUME H6b5Lazy PROVE LoopStep(Params6, "tagged")
  BY <1>7, <1>3 DEF H6b5Lazy, Running, Lazy, Looking, FoundNext, Better, LoopStep
<1>8. ASSUME H6b5Emit PROVE LoopStep(Params6, "tagged")
  BY <1>8, <1>1 DEF H6b5Emit, Running, Maskings, Emit, Emitted, Emitting, CacheAfter, Pushes, Code, LoopStep
<1>9. ASSUME H6b5Literal PROVE LoopStep(Params6, "tagged")
  BY <1>9, <1>1 DEF H6b5Literal, Running, Literal, Striding, Stride, LoopStep
<1>10. ASSUME H6b5SearchNoWrap PROVE LoopStep(Params6, "tagged")
  BY <1>10, <1>4 DEF H6b5SearchNoWrap, Running, Search, Looking, FoundFirst, LoopStep
<1>11. ASSUME H6b5LazyNoWrap PROVE LoopStep(Params6, "tagged")
  BY <1>11, <1>4 DEF H6b5LazyNoWrap, Running, Lazy, Looking, FoundNext, Better, LoopStep
<1>12. ASSUME H6b5EmitNoWrap PROVE LoopStep(Params6, "tagged")
  BY <1>12, <1>2 DEF H6b5EmitNoWrap, Running, Maskings, Emit, Emitted, Emitting, CacheAfter, Pushes, Code, LoopStep
<1>13. ASSUME H6b5LiteralNoWrap PROVE LoopStep(Params6, "tagged")
  BY <1>13, <1>2 DEF H6b5LiteralNoWrap, Running, Literal, Striding, Stride, LoopStep
<1>14. h.kind = "h6b5"
  BY DEF H6b5Next, Running, H6b5Begin, H6b5Search, H6b5Lazy, H6b5Emit, H6b5Literal, H6b5SearchNoWrap, H6b5LazyNoWrap, H6b5EmitNoWrap, H6b5LiteralNoWrap
<1>15. Profile(Params6, "tagged", h.kind)
  BY <1>14 DEF Profile, TaggedKinds
<1> QED
  BY <1>5, <1>6, <1>7, <1>8, <1>9, <1>10, <1>11, <1>12, <1>13, <1>15 DEF H6b5Next, MatcherStep

LEMMA H6b5uShape == ASSUME H6b5uNext PROVE MatcherStep
<1>1. ASSUME h.kind = "h6b5u", NEW g, NEW positions
      PROVE  Stored("five", g, positions, StoreAll(H6b5uStore, g, positions))
  <2>1. StoreAll(H6b5uStore, g, positions) = Bucket5All(g, positions, TRUE)
    BY DEF StoreAll, H6b5uStore, Bucket5All
  <2>2. TRUE \in Maskings
    BY <1>1 DEF Maskings
  <2> QED
    BY <2>1, <2>2, StoredFive
<1>2. ASSUME h.kind = "h6b5u", l.noWrap, NEW g, NEW positions
      PROVE  Stored("five", g, positions, StoreAll(H6b5uStoreNoWrap, g, positions))
  <2>1. StoreAll(H6b5uStoreNoWrap, g, positions) = Bucket5All(g, positions, FALSE)
    BY DEF StoreAll, H6b5uStoreNoWrap, Bucket5All
  <2>2. FALSE \in Maskings
    BY <1>2 DEF Maskings
  <2> QED
    BY <2>1, <2>2, StoredFive
<1>3. ASSUME h.kind = "h6b5u", NEW cur, NEW rest, NEW best
      PROVE  Searched("five", cur, rest, best,
                      H6b5uSampledFind(cur, rest, MaxDistance(cur), best))
  <2> DEFINE c1 == TryCache(TRUE, 1, 4, cur, rest, MaxDistance(cur), best)
             c2 == TryCache(TRUE, 5, 10, cur, rest, MaxDistance(cur), c1)
             c3 == TryCache(TRUE, 11, 16, cur, rest, MaxDistance(cur), c2)
  <2>1. Tried(TRUE, cur, rest, best, c1)
    BY TriedParts, Zenon
  <2>2. TRUE \in Maskings /\ TRUE \in Maskings
    BY <1>3 DEF Maskings
  <2>3. H6b5uSampledFind(cur, rest, MaxDistance(cur), best)
          = Sampled(FindInBucket(Bucket5Store(h, cur, TRUE), TRUE, Newest(h, Key5(IndexOf(TRUE, cur))),
                 cur, rest, MaxDistance(cur), c1), cur)
    BY <1>3 DEF H6b5uSampledFind, H6b5uFind, H6b5uTryLast, H6b5uStore, IndexOf
  <2> HIDE DEF c1, c2, c3
  <2> QED
    BY <2>1, <2>2, <2>3, SearchedFive
<1>4. ASSUME h.kind = "h6b5u", NEW cur, NEW rest, NEW best
      PROVE  Searched("five", cur, rest, best,
                      H6b5uFind(cur, rest, MaxDistance(cur), best))
  <2> DEFINE c1 == TryCache(TRUE, 1, 4, cur, rest, MaxDistance(cur), best)
             c2 == TryCache(TRUE, 5, 10, cur, rest, MaxDistance(cur), c1)
             c3 == TryCache(TRUE, 11, 16, cur, rest, MaxDistance(cur), c2)
  <2>1. Tried(TRUE, cur, rest, best, c1)
    BY TriedParts, Zenon
  <2>2. TRUE \in Maskings /\ TRUE \in Maskings
    BY <1>4 DEF Maskings
  <2>3. H6b5uFind(cur, rest, MaxDistance(cur), best)
          = FindInBucket(Bucket5Store(h, cur, TRUE), TRUE, Newest(h, Key5(IndexOf(TRUE, cur))),
                 cur, rest, MaxDistance(cur), c1)
    BY <1>4 DEF H6b5uFind, H6b5uTryLast, H6b5uStore, IndexOf
  <2> HIDE DEF c1, c2, c3
  <2> QED
    BY <2>1, <2>2, <2>3, SearchedFive
<1>5. ASSUME h.kind = "h6b5u", l.noWrap, NEW cur, NEW rest, NEW best
      PROVE  Searched("five", cur, rest, best,
                      H6b5uSampledFindNoWrap(cur, rest, MaxDistance(cur), best))
  <2> DEFINE c1 == TryCache(FALSE, 1, 4, cur, rest, MaxDistance(cur), best)
             c2 == TryCache(FALSE, 5, 10, cur, rest, MaxDistance(cur), c1)
             c3 == TryCache(FALSE, 11, 16, cur, rest, MaxDistance(cur), c2)
  <2>1. Tried(FALSE, cur, rest, best, c1)
    BY TriedParts, Zenon
  <2>2. FALSE \in Maskings /\ FALSE \in Maskings
    BY <1>5 DEF Maskings
  <2>3. H6b5uSampledFindNoWrap(cur, rest, MaxDistance(cur), best)
          = Sampled(FindInBucket(Bucket5Store(h, cur, FALSE), FALSE, Newest(h, Key5(IndexOf(FALSE, cur))),
                 cur, rest, MaxDistance(cur), c1), cur)
    BY <1>5 DEF H6b5uSampledFindNoWrap, H6b5uFindNoWrap, H6b5uTryLastNoWrap, H6b5uStoreNoWrap, IndexOf
  <2> HIDE DEF c1, c2, c3
  <2> QED
    BY <2>1, <2>2, <2>3, SearchedFive
<1>6. ASSUME h.kind = "h6b5u", l.noWrap, NEW cur, NEW rest, NEW best
      PROVE  Searched("five", cur, rest, best,
                      H6b5uFindNoWrap(cur, rest, MaxDistance(cur), best))
  <2> DEFINE c1 == TryCache(FALSE, 1, 4, cur, rest, MaxDistance(cur), best)
             c2 == TryCache(FALSE, 5, 10, cur, rest, MaxDistance(cur), c1)
             c3 == TryCache(FALSE, 11, 16, cur, rest, MaxDistance(cur), c2)
  <2>1. Tried(FALSE, cur, rest, best, c1)
    BY TriedParts, Zenon
  <2>2. FALSE \in Maskings /\ FALSE \in Maskings
    BY <1>6 DEF Maskings
  <2>3. H6b5uFindNoWrap(cur, rest, MaxDistance(cur), best)
          = FindInBucket(Bucket5Store(h, cur, FALSE), FALSE, Newest(h, Key5(IndexOf(FALSE, cur))),
                 cur, rest, MaxDistance(cur), c1)
    BY <1>6 DEF H6b5uFindNoWrap, H6b5uTryLastNoWrap, H6b5uStoreNoWrap, IndexOf
  <2> HIDE DEF c1, c2, c3
  <2> QED
    BY <2>1, <2>2, <2>3, SearchedFive
<1>7. ASSUME H6b5uBegin PROVE LoopStep(Params6u, "five")
  BY <1>7, <1>1 DEF H6b5uBegin, H6b5uReset, Begin, Stitch, Stitched, Cleaned, Cleared, WithWrap, LoopStep
<1>8. ASSUME H6b5uSearch PROVE LoopStep(Params6u, "five")
  BY <1>8, <1>3 DEF H6b5uSearch, Running, Search, Looking, FoundFirst, LoopStep
<1>9. ASSUME H6b5uLazy PROVE LoopStep(Params6u, "five")
  BY <1>9, <1>4 DEF H6b5uLazy, Running, Lazy, Looking, FoundNext, Better, LoopStep
<1>10. ASSUME H6b5uEmit PROVE LoopStep(Params6u, "five")
  BY <1>10, <1>1 DEF H6b5uEmit, Running, Maskings, Emit, Emitted, Emitting, CacheAfter, Pushes, Code, LoopStep
<1>11. ASSUME H6b5uLiteral PROVE LoopStep(Params6u, "five")
  BY <1>11, <1>1 DEF H6b5uLiteral, Running, Literal, Striding, Stride, LoopStep
<1>12. ASSUME H6b5uSearchNoWrap PROVE LoopStep(Params6u, "five")
  BY <1>12, <1>5 DEF H6b5uSearchNoWrap, Running, Search, Looking, FoundFirst, LoopStep
<1>13. ASSUME H6b5uLazyNoWrap PROVE LoopStep(Params6u, "five")
  BY <1>13, <1>6 DEF H6b5uLazyNoWrap, Running, Lazy, Looking, FoundNext, Better, LoopStep
<1>14. ASSUME H6b5uEmitNoWrap PROVE LoopStep(Params6u, "five")
  BY <1>14, <1>2 DEF H6b5uEmitNoWrap, Running, Maskings, Emit, Emitted, Emitting, CacheAfter, Pushes, Code, LoopStep
<1>15. ASSUME H6b5uLiteralNoWrap PROVE LoopStep(Params6u, "five")
  BY <1>15, <1>2 DEF H6b5uLiteralNoWrap, Running, Literal, Striding, Stride, LoopStep
<1>16. h.kind = "h6b5u"
  BY DEF H6b5uNext, Running, H6b5uBegin, H6b5uSearch, H6b5uLazy, H6b5uEmit, H6b5uLiteral, H6b5uSearchNoWrap, H6b5uLazyNoWrap, H6b5uEmitNoWrap, H6b5uLiteralNoWrap
<1>17. Profile(Params6u, "five", h.kind)
  BY <1>16 DEF Profile, PlainKinds, CountedKinds
<1> QED
  BY <1>7, <1>8, <1>9, <1>10, <1>11, <1>12, <1>13, <1>14, <1>15, <1>17 DEF H6b5uNext, MatcherStep

LEMMA H6bShape == ASSUME H6bNext PROVE MatcherStep
<1>1. ASSUME h.kind = "h6b", NEW g, NEW positions
      PROVE  Stored("five", g, positions, StoreAll(H6bStore, g, positions))
  <2>1. StoreAll(H6bStore, g, positions) = Bucket5All(g, positions, TRUE)
    BY DEF StoreAll, H6bStore, Bucket5All
  <2>2. TRUE \in Maskings
    BY <1>1 DEF Maskings
  <2> QED
    BY <2>1, <2>2, StoredFive
<1>2. ASSUME h.kind = "h6b", NEW cur, NEW rest, NEW best
      PROVE  Searched("five", cur, rest, best,
                      H6bFind(cur, rest, MaxDistance(cur), best))
  <2> DEFINE c1 == TryCache(TRUE, 1, 4, cur, rest, MaxDistance(cur), best)
             c2 == TryCache(TRUE, 5, 10, cur, rest, MaxDistance(cur), c1)
             c3 == TryCache(TRUE, 11, 16, cur, rest, MaxDistance(cur), c2)
  <2>1. Tried(TRUE, cur, rest, best, c2)
    BY TriedParts, Zenon
  <2>2. TRUE \in Maskings /\ TRUE \in Maskings
    BY <1>2 DEF Maskings
  <2>3. H6bFind(cur, rest, MaxDistance(cur), best)
          = FindInBucket(Bucket5Store(h, cur, TRUE), TRUE, Newest(h, Key5(IndexOf(TRUE, cur))),
                 cur, rest, MaxDistance(cur), c2)
    BY <1>2 DEF H6bFind, H6bTryLast, H6bTryNear, H6bStore, IndexOf
  <2> HIDE DEF c1, c2, c3
  <2> QED
    BY <2>1, <2>2, <2>3, SearchedFive
<1>3. ASSUME h.kind = "h6b", l.noWrap, NEW cur, NEW rest, NEW best
      PROVE  Searched("five", cur, rest, best,
                      H6bFindNoWrap(cur, rest, MaxDistance(cur), best))
  <2> DEFINE c1 == TryCache(FALSE, 1, 4, cur, rest, MaxDistance(cur), best)
             c2 == TryCache(FALSE, 5, 10, cur, rest, MaxDistance(cur), c1)
             c3 == TryCache(FALSE, 11, 16, cur, rest, MaxDistance(cur), c2)
  <2>1. Tried(FALSE, cur, rest, best, c2)
    BY TriedParts, Zenon
  <2>2. FALSE \in Maskings /\ TRUE \in Maskings
    BY <1>3 DEF Maskings
  <2>3. H6bFindNoWrap(cur, rest, MaxDistance(cur), best)
          = FindInBucket(Bucket5Store(h, cur, TRUE), FALSE, Newest(h, Key5(IndexOf(FALSE, cur))),
                 cur, rest, MaxDistance(cur), c2)
    BY <1>3 DEF H6bFindNoWrap, H6bTryLastNoWrap, H6bTryNearNoWrap, H6bStore, IndexOf
  <2> HIDE DEF c1, c2, c3
  <2> QED
    BY <2>1, <2>2, <2>3, SearchedFive
<1>4. ASSUME H6bBegin PROVE LoopStep(Params6b, "five")
  BY <1>4, <1>1 DEF H6bBegin, H6bReset, Begin, Stitch, Stitched, Cleaned, Cleared, WithWrap, LoopStep
<1>5. ASSUME H6bSearch PROVE LoopStep(Params6b, "five")
  BY <1>5, <1>2 DEF H6bSearch, Running, Search, Looking, FoundFirst, LoopStep
<1>6. ASSUME H6bLazy PROVE LoopStep(Params6b, "five")
  BY <1>6, <1>2 DEF H6bLazy, Running, Lazy, Looking, FoundNext, Better, LoopStep
<1>7. ASSUME H6bEmit PROVE LoopStep(Params6b, "five")
  BY <1>7, <1>1 DEF H6bEmit, Running, Maskings, Emit, Emitted, Emitting, CacheAfter, Pushes, Code, LoopStep
<1>8. ASSUME H6bLiteral PROVE LoopStep(Params6b, "five")
  BY <1>8, <1>1 DEF H6bLiteral, Running, Literal, Striding, Stride, LoopStep
<1>9. ASSUME H6bSearchNoWrap PROVE LoopStep(Params6b, "five")
  BY <1>9, <1>3 DEF H6bSearchNoWrap, Running, Search, Looking, FoundFirst, LoopStep
<1>10. ASSUME H6bLazyNoWrap PROVE LoopStep(Params6b, "five")
  BY <1>10, <1>3 DEF H6bLazyNoWrap, Running, Lazy, Looking, FoundNext, Better, LoopStep
<1>11. ASSUME H6bEmitNoWrap PROVE LoopStep(Params6b, "five")
  BY <1>11, <1>1 DEF H6bEmitNoWrap, Running, Maskings, Emit, Emitted, Emitting, CacheAfter, Pushes, Code, LoopStep
<1>12. ASSUME H6bLiteralNoWrap PROVE LoopStep(Params6b, "five")
  BY <1>12, <1>1 DEF H6bLiteralNoWrap, Running, Literal, Striding, Stride, LoopStep
<1>13. h.kind = "h6b"
  BY DEF H6bNext, Running, H6bBegin, H6bSearch, H6bLazy, H6bEmit, H6bLiteral, H6bSearchNoWrap, H6bLazyNoWrap, H6bEmitNoWrap, H6bLiteralNoWrap
<1>14. Profile(Params6b, "five", h.kind)
  BY <1>13 DEF Profile, PlainKinds, CountedKinds
<1> QED
  BY <1>4, <1>5, <1>6, <1>7, <1>8, <1>9, <1>10, <1>11, <1>12, <1>14 DEF H6bNext, MatcherStep

LEMMA H6b8Shape == ASSUME H6b8Next PROVE MatcherStep
<1>1. ASSUME h.kind = "h6b8", NEW g, NEW positions
      PROVE  Stored("five", g, positions, StoreAll(H6b8Store, g, positions))
  <2>1. StoreAll(H6b8Store, g, positions) = Bucket5All(g, positions, TRUE)
    BY DEF StoreAll, H6b8Store, Bucket5All
  <2>2. TRUE \in Maskings
    BY <1>1 DEF Maskings
  <2> QED
    BY <2>1, <2>2, StoredFive
<1>2. ASSUME h.kind = "h6b8", l.noWrap, NEW g, NEW positions
      PROVE  Stored("five", g, positions, StoreAll(H6b8StoreNoWrap, g, positions))
  <2>1. StoreAll(H6b8StoreNoWrap, g, positions) = Bucket5All(g, positions, FALSE)
    BY DEF StoreAll, H6b8StoreNoWrap, Bucket5All
  <2>2. FALSE \in Maskings
    BY <1>2 DEF Maskings
  <2> QED
    BY <2>1, <2>2, StoredFive
<1>3. ASSUME h.kind = "h6b8", NEW cur, NEW rest, NEW best
      PROVE  Searched("five", cur, rest, best,
                      H6b8Find(cur, rest, MaxDistance(cur), best))
  <2> DEFINE c1 == TryCache(TRUE, 1, 4, cur, rest, MaxDistance(cur), best)
             c2 == TryCache(TRUE, 5, 10, cur, rest, MaxDistance(cur), c1)
             c3 == TryCache(TRUE, 11, 16, cur, rest, MaxDistance(cur), c2)
  <2>1. Tried(TRUE, cur, rest, best, c3)
    BY TriedParts, Zenon
  <2>2. TRUE \in Maskings /\ TRUE \in Maskings
    BY <1>3 DEF Maskings
  <2>3. H6b8Find(cur, rest, MaxDistance(cur), best)
          = FindInBucket(Bucket5Store(h, cur, TRUE), TRUE, Newest(h, Key5(IndexOf(TRUE, cur))),
                 cur, rest, MaxDistance(cur), c3)
    BY <1>3 DEF H6b8Find, H6b8TryLast, H6b8TryNear, H6b8TryNearSecond, H6b8Store, IndexOf
  <2> HIDE DEF c1, c2, c3
  <2> QED
    BY <2>1, <2>2, <2>3, SearchedFive
<1>4. ASSUME h.kind = "h6b8", l.noWrap, NEW cur, NEW rest, NEW best
      PROVE  Searched("five", cur, rest, best,
                      H6b8FindNoWrap(cur, rest, MaxDistance(cur), best))
  <2> DEFINE c1 == TryCache(FALSE, 1, 4, cur, rest, MaxDistance(cur), best)
             c2 == TryCache(FALSE, 5, 10, cur, rest, MaxDistance(cur), c1)
             c3 == TryCache(FALSE, 11, 16, cur, rest, MaxDistance(cur), c2)
  <2>1. Tried(FALSE, cur, rest, best, c3)
    BY TriedParts, Zenon
  <2>2. FALSE \in Maskings /\ FALSE \in Maskings
    BY <1>4 DEF Maskings
  <2>3. H6b8FindNoWrap(cur, rest, MaxDistance(cur), best)
          = FindInBucket(Bucket5Store(h, cur, FALSE), FALSE, Newest(h, Key5(IndexOf(FALSE, cur))),
                 cur, rest, MaxDistance(cur), c3)
    BY <1>4 DEF H6b8FindNoWrap, H6b8TryLastNoWrap, H6b8TryNearNoWrap, H6b8TryNearSecondNoWrap, H6b8StoreNoWrap, IndexOf
  <2> HIDE DEF c1, c2, c3
  <2> QED
    BY <2>1, <2>2, <2>3, SearchedFive
<1>5. ASSUME H6b8Begin PROVE LoopStep(Params6b8, "five")
  BY <1>5, <1>1 DEF H6b8Begin, H6b8Reset, Begin, Stitch, Stitched, Cleaned, Cleared, WithWrap, LoopStep
<1>6. ASSUME H6b8Search PROVE LoopStep(Params6b8, "five")
  BY <1>6, <1>3 DEF H6b8Search, Running, Search, Looking, FoundFirst, LoopStep
<1>7. ASSUME H6b8Lazy PROVE LoopStep(Params6b8, "five")
  BY <1>7, <1>3 DEF H6b8Lazy, Running, Lazy, Looking, FoundNext, Better, LoopStep
<1>8. ASSUME H6b8Emit PROVE LoopStep(Params6b8, "five")
  BY <1>8, <1>1 DEF H6b8Emit, Running, Maskings, Emit, Emitted, Emitting, CacheAfter, Pushes, Code, LoopStep
<1>9. ASSUME H6b8Literal PROVE LoopStep(Params6b8, "five")
  BY <1>9, <1>1 DEF H6b8Literal, Running, Literal, Striding, Stride, LoopStep
<1>10. ASSUME H6b8SearchNoWrap PROVE LoopStep(Params6b8, "five")
  BY <1>10, <1>4 DEF H6b8SearchNoWrap, Running, Search, Looking, FoundFirst, LoopStep
<1>11. ASSUME H6b8LazyNoWrap PROVE LoopStep(Params6b8, "five")
  BY <1>11, <1>4 DEF H6b8LazyNoWrap, Running, Lazy, Looking, FoundNext, Better, LoopStep
<1>12. ASSUME H6b8EmitNoWrap PROVE LoopStep(Params6b8, "five")
  BY <1>12, <1>2 DEF H6b8EmitNoWrap, Running, Maskings, Emit, Emitted, Emitting, CacheAfter, Pushes, Code, LoopStep
<1>13. ASSUME H6b8LiteralNoWrap PROVE LoopStep(Params6b8, "five")
  BY <1>13, <1>2 DEF H6b8LiteralNoWrap, Running, Literal, Striding, Stride, LoopStep
<1>14. h.kind = "h6b8"
  BY DEF H6b8Next, Running, H6b8Begin, H6b8Search, H6b8Lazy, H6b8Emit, H6b8Literal, H6b8SearchNoWrap, H6b8LazyNoWrap, H6b8EmitNoWrap, H6b8LiteralNoWrap
<1>15. Profile(Params6b8, "five", h.kind)
  BY <1>14 DEF Profile, PlainKinds, CountedKinds
<1> QED
  BY <1>5, <1>6, <1>7, <1>8, <1>9, <1>10, <1>11, <1>12, <1>13, <1>15 DEF H6b8Next, MatcherStep

LEMMA H40Shape == ASSUME H40Next PROVE MatcherStep
<1>1. ASSUME h.kind = "h40", NEW g, NEW positions
      PROVE  Stored("chain", g, positions, StoreAll(H40Store, g, positions))
  <2>1. StoreAll(H40Store, g, positions) = ChainAll(g, positions)
    BY DEF StoreAll, H40Store, ChainAll
  <2> QED
    BY <2>1, StoredChain
<1>2. ASSUME h.kind = "h40", NEW cur, NEW rest, NEW best
      PROVE  Searched("chain", cur, rest, best,
                      H40Find(cur, rest, MaxDistance(cur), best))
  BY <1>2, TriedTinyParts, SearchedChain DEF H40Find, H40FindSmallBuf, H40Store, H40TryLast
<1>3. ASSUME H40Begin PROVE LoopStep(Params40, "chain")
  BY <1>3, <1>1 DEF H40Begin, H40Reset, Begin, Stitch, Stitched, Cleaned, Cleared, WithWrap, LoopStep
<1>4. ASSUME H40Search PROVE LoopStep(Params40, "chain")
  BY <1>4, <1>2 DEF H40Search, Running, Search, Looking, FoundFirst, LoopStep
<1>5. ASSUME H40Lazy PROVE LoopStep(Params40, "chain")
  BY <1>5, <1>2 DEF H40Lazy, Running, Lazy, Looking, FoundNext, Better, LoopStep
<1>6. ASSUME H40Emit PROVE LoopStep(Params40, "chain")
  BY <1>6, <1>1 DEF H40Emit, Running, Maskings, Emit, Emitted, Emitting, CacheAfter, Pushes, Code, LoopStep
<1>7. ASSUME H40Literal PROVE LoopStep(Params40, "chain")
  BY <1>7, <1>1 DEF H40Literal, Running, Literal, Striding, Stride, LoopStep
<1>8. h.kind = "h40"
  BY DEF H40Next, Running, H40Begin, H40Search, H40Lazy, H40Emit, H40Literal
<1>9. Profile(Params40, "chain", h.kind)
  BY <1>8 DEF Profile, ChainKinds
<1> QED
  BY <1>3, <1>4, <1>5, <1>6, <1>7, <1>9 DEF H40Next, MatcherStep

LEMMA H41Shape == ASSUME H41Next PROVE MatcherStep
<1>1. ASSUME h.kind = "h41", NEW g, NEW positions
      PROVE  Stored("chain", g, positions, StoreAll(H41Store, g, positions))
  <2>1. StoreAll(H41Store, g, positions) = ChainAll(g, positions)
    BY DEF StoreAll, H41Store, ChainAll
  <2> QED
    BY <2>1, StoredChain
<1>2. ASSUME h.kind = "h41", NEW cur, NEW rest, NEW best
      PROVE  Searched("chain", cur, rest, best,
                      H41Find(cur, rest, MaxDistance(cur), best))
  BY <1>2, TriedTinyParts, SearchedChain DEF H41Find, H41FindSmallBuf, H41Store, H41TryNear, H41TryLast
<1>3. ASSUME H41Begin PROVE LoopStep(Params41, "chain")
  BY <1>3, <1>1 DEF H41Begin, H41Reset, Begin, Stitch, Stitched, Cleaned, Cleared, WithWrap, LoopStep
<1>4. ASSUME H41Search PROVE LoopStep(Params41, "chain")
  BY <1>4, <1>2 DEF H41Search, Running, Search, Looking, FoundFirst, LoopStep
<1>5. ASSUME H41Lazy PROVE LoopStep(Params41, "chain")
  BY <1>5, <1>2 DEF H41Lazy, Running, Lazy, Looking, FoundNext, Better, LoopStep
<1>6. ASSUME H41Emit PROVE LoopStep(Params41, "chain")
  BY <1>6, <1>1 DEF H41Emit, Running, Maskings, Emit, Emitted, Emitting, CacheAfter, Pushes, Code, LoopStep
<1>7. ASSUME H41Literal PROVE LoopStep(Params41, "chain")
  BY <1>7, <1>1 DEF H41Literal, Running, Literal, Striding, Stride, LoopStep
<1>8. h.kind = "h41"
  BY DEF H41Next, Running, H41Begin, H41Search, H41Lazy, H41Emit, H41Literal
<1>9. Profile(Params41, "chain", h.kind)
  BY <1>8 DEF Profile, ChainKinds
<1> QED
  BY <1>3, <1>4, <1>5, <1>6, <1>7, <1>9 DEF H41Next, MatcherStep

LEMMA H42Shape == ASSUME H42Next PROVE MatcherStep
<1>1. ASSUME h.kind = "h42", NEW g, NEW positions
      PROVE  Stored("chain", g, positions, StoreAll(H42Store, g, positions))
  <2>1. StoreAll(H42Store, g, positions) = ChainAll(g, positions)
    BY DEF StoreAll, H42Store, ChainAll
  <2> QED
    BY <2>1, StoredChain
<1>2. ASSUME h.kind = "h42", NEW cur, NEW rest, NEW best
      PROVE  Searched("chain", cur, rest, best,
                      H42Find(cur, rest, MaxDistance(cur), best))
  BY <1>2, TriedTinyParts, SearchedChain DEF H42Find, H42TryCache
<1>3. ASSUME H42Begin PROVE LoopStep(Params42, "chain")
  BY <1>3, <1>1 DEF H42Begin, H42Reset, Begin, Stitch, Stitched, Cleaned, Cleared, WithWrap, LoopStep
<1>4. ASSUME H42Search PROVE LoopStep(Params42, "chain")
  BY <1>4, <1>2 DEF H42Search, Running, Search, Looking, FoundFirst, LoopStep
<1>5. ASSUME H42Lazy PROVE LoopStep(Params42, "chain")
  BY <1>5, <1>2 DEF H42Lazy, Running, Lazy, Looking, FoundNext, Better, LoopStep
<1>6. ASSUME H42Emit PROVE LoopStep(Params42, "chain")
  BY <1>6, <1>1 DEF H42Emit, Running, Maskings, Emit, Emitted, Emitting, CacheAfter, Pushes, Code, LoopStep
<1>7. ASSUME H42Literal PROVE LoopStep(Params42, "chain")
  BY <1>7, <1>1 DEF H42Literal, Running, Literal, Striding, Stride, LoopStep
<1>8. h.kind = "h42"
  BY DEF H42Next, Running, H42Begin, H42Search, H42Lazy, H42Emit, H42Literal
<1>9. Profile(Params42, "chain", h.kind)
  BY <1>8 DEF Profile, ChainKinds
<1> QED
  BY <1>3, <1>4, <1>5, <1>6, <1>7, <1>9 DEF H42Next, MatcherStep

-----------------------------------------------------------------------------
(* Remainders *)

(* A multiple of m that is nearer than m to zero is zero. *)
LEMMA SmallMultiple ==
  ASSUME NEW m \in Nat \ {0}, NEW k \in Int, m * k > -m, m * k < m
  PROVE  k = 0
<1>1. CASE k >= 1
  <2>1. m * k >= m
    BY <1>1, Z3
  <2> QED
    BY <2>1
<1>2. CASE k <= -1
  <2>1. m * k <= -m
    BY <1>2, Z3
  <2> QED
    BY <2>1
<1> QED
  BY <1>1, <1>2

(* The remainder is the only number below m that is congruent. *)
LEMMA RemainderIs ==
  ASSUME NEW m \in Nat \ {0}, NEW a \in Int, NEW q \in Int, NEW r \in 0 .. m - 1,
         a = m * q + r
  PROVE  a % m = r
<1>1. a = m * (a \div m) + (a % m) /\ a % m \in 0 .. m - 1 /\ a \div m \in Int
  BY Remainder
<1>2. PICK p \in Int : p = a \div m
  BY <1>1
<1>3. PICK t \in 0 .. m - 1 : t = a % m
  BY <1>1
<1>4. m * (q - p) = t - r
  BY <1>1, <1>2, <1>3, Z3
<1>5. q - p = 0
  <2>1. m * (q - p) > -m /\ m * (q - p) < m /\ q - p \in Int
    BY <1>4
  <2> QED
    BY ONLY <2>1, m \in Nat \ {0}, SmallMultiple
<1> QED
  BY <1>4, <1>5, <1>3

(* Two slots of a ring of m that are fewer than m steps apart are two. *)
LEMMA StepsApart ==
  ASSUME NEW m \in Nat \ {0}, NEW a \in Int, NEW b \in Int,
         b - a \in 1 .. m - 1
  PROVE  a % m # b % m
<1>1. a = m * (a \div m) + (a % m) /\ a % m \in 0 .. m - 1 /\ a \div m \in Int
  BY Remainder
<1>2. b = m * (b \div m) + (b % m) /\ b % m \in 0 .. m - 1 /\ b \div m \in Int
  BY Remainder
<1> SUFFICES ASSUME a % m = b % m PROVE FALSE
  OBVIOUS
<1>3. PICK p \in Int, q \in Int : p = a \div m /\ q = b \div m
  BY <1>1, <1>2
<1>4. m * (q - p) = b - a
  BY <1>1, <1>2, <1>3, Z3
<1>5. m * (q - p) > -m /\ m * (q - p) < m /\ q - p \in Int
  BY <1>4
<1>6. q - p = 0
  BY ONLY <1>5, m \in Nat \ {0}, SmallMultiple
<1> QED
  BY <1>4, <1>6

(* A slot counted from the other end of a ring that divides the counter.   *)
LEMMA MirrorSlot ==
  ASSUME NEW m \in Nat \ {0}, NEW c \in Nat, c % m = 0, NEW x \in Int
  PROVE  m - 1 - ((c - 1 - x) % m) = x % m
<1>1. x = m * (x \div m) + (x % m) /\ x % m \in 0 .. m - 1 /\ x \div m \in Int
  BY Remainder
<1>2. c = m * (c \div m) + (c % m) /\ c \div m \in Int
  BY Remainder
<1>3. PICK p \in Int, q \in Int, r \in 0 .. m - 1 :
        p = x \div m /\ q = c \div m /\ r = x % m
  BY <1>1, <1>2
<1>4. c - 1 - x = m * (q - p - 1) + (m - 1 - r)
  BY <1>1, <1>2, <1>3, Z3
<1>5. (c - 1 - x) % m = m - 1 - r
  <2>1. c - 1 - x \in Int /\ q - p - 1 \in Int /\ m - 1 - r \in 0 .. m - 1
    OBVIOUS
  <2> QED
    BY <1>4, <2>1, RemainderIs
<1> QED
  BY <1>3, <1>5

(* What is below m is its own remainder. *)
LEMMA OwnRemainder ==
  ASSUME NEW m \in Nat \ {0}, NEW a \in 0 .. m - 1 PROVE a % m = a
<1>1. a = m * 0 + a
  BY Z3
<1> QED
  BY <1>1, RemainderIs

(* The three kinds of tables: one slot for each key (h2, h3, h4, h54), a   *)
(* bucket for each key (h5 and h6), and chains in banks of slots (h40,     *)
(* h41, h42).                                                              *)
QuickRec(kind) ==
    [kind : {kind}, ready : BOOLEAN, everWrapped : BOOLEAN,
     buckets : [0 .. QuickSlots - 1 -> Int]]

BucketRec(kind) ==
    [kind : {kind}, ready : BOOLEAN, everWrapped : BOOLEAN,
     num : [0 .. BucketKeys - 1 -> 0 .. CounterSize - 1],
     slots : [0 .. BucketKeys - 1 -> [Slots -> Int]],
     tags : [0 .. BucketKeys - 1 -> [Slots -> Int]],
     stores : Int, rejects : Int, busyCalls : Int]

ChainRec(kind, b, n) ==
    [kind : {kind}, ready : BOOLEAN, everWrapped : BOOLEAN,
     addr : [0 .. ChainKeys - 1 -> Int], head : [0 .. ChainKeys - 1 -> 0 .. n - 1],
     tinyHash : [0 .. U16Size - 1 -> Int], banks : [0 .. b - 1 -> BankOf(n)],
     freeSlotIdx : [0 .. b - 1 -> Nat], maxHops : Nat]

(* hh is a table of the kind. *)
Table(kind, hh) ==
    \/ kind \in QuickKinds /\ hh \in QuickRec(kind)
    \/ kind \in BucketKinds /\ hh \in BucketRec(kind)
    \/ /\ kind \in ChainKinds
       /\ \E b \in {1, NumBanks}, n \in {U16Size, BankSize} : hh \in ChainRec(kind, b, n)

(* The positions of c are below the limit and fall. *)
Falls(c, limit) ==
    \A k \in DOMAIN c : c[k] < limit /\ (k >= 2 => c[k] < c[k - 1])

(* The bank of a key. *)
BankSlots(hh, key) == hh.banks[key % Cardinality(DOMAIN hh.banks)]

(* The slot after one whose distance a search follows has a distance as    *)
(* well. A distance of 0 would let a search come back to where it is.      *)
Linked(hh) ==
    \A b \in DOMAIN hh.banks : \A k \in DOMAIN hh.banks[b] :
      (hh.banks[b][k].delta >= 1 /\ hh.banks[b][k].delta < U16Size - 1)
        => hh.banks[b][hh.banks[b][k].next].delta >= 1

(* The chains of the keys K begin below the limit, and lead on. *)
Chained(hh, K, limit) ==
    /\ \A key \in K :
         \/ hh.addr[key] = Never
         \/ /\ hh.addr[key] >= 0 /\ hh.addr[key] < limit
            /\ BankSlots(hh, key)[hh.head[key]].delta >= 1
    /\ Linked(hh)

(* What a table holds for the keys K are positions below the limit, newer  *)
(* ones before older ones.                                                 *)
Tidy(hh, K, limit) ==
    /\ hh.kind \in BucketKinds \ TaggedKinds => \A key \in K : Falls(Newest(hh, key), limit)
    /\ hh.kind \in TaggedKinds => \A key \in K : Falls(NewestTagged(hh, key), limit)
    /\ hh.kind \in ChainKinds => Chained(hh, K, limit)

(* The key of the bytes at i, and all keys, of a kind of table. *)
KeyAt(kind, i) ==
    IF kind \in ChainKinds THEN ChainKey(i)
    ELSE IF kind \in Bucket4Kinds THEN Key4(i) ELSE Key5(i)

KeysOf(kind) == IF kind \in ChainKinds THEN 0 .. ChainKeys - 1 ELSE 0 .. BucketKeys - 1

(* The keys that matter. A partial Prepare clears those of a first and     *)
(* only block alone (Clear); in every other case they are all keys.        *)
LiveKeys ==
    IF s.processed = 0 /\ l.last THEN {KeyAt(h.kind, i) : i \in 0 .. l.posEnd - 1}
    ELSE KeysOf(h.kind)

(* A match of at most n bytes, or what a search says that found none. *)
Plausible(m, n) == m \in Matches(n) \/ (m.score = MinScore /\ m.len \in Int)

(* The steps before, in and after the matcher's loop, and the search one   *)
(* byte ahead.                                                             *)
Before == {"choose", "promote", "begin"}
Inside == {"search", "dict", "found", "lazy", "literal", "emit"}
After  == {"merge", "write"}

Ahead == pc \in {"dict", "found"} /\ l.ahead = 1

(* What has been stored is below this: the loop stores a position when it  *)
(* searches there, and the last three bytes of a block wait for the next   *)
(* one (StitchToPreviousBlock).                                            *)
Limit ==
    IF pc \in {"idle"} \cup Before THEN s.processed - 3
    ELSE IF pc = "search" THEN l.position
    ELSE IF pc \in After THEN l.posEnd - 3
    ELSE IF Ahead \/ pc = "emit" THEN l.position + 2
    ELSE l.position + 1

(* The fields of s and l. *)
StreamFields ==
    {"distCache", "commands", "numLiterals", "histo", "d", "lastInsertLen",
     "processed", "flushed", "decoder"}
LocalFields ==
    {"position", "posEnd", "insertLength", "apply", "storeEnd", "noWrap",
     "last", "sr", "found", "ahead", "words", "compound", "delayed", "cache"}

(* The types. *)
Typed ==
    /\ pc \in {"idle"} \cup Before \cup Inside \cup After
    /\ DOMAIN s = StreamFields /\ DOMAIN l = LocalFields
    /\ Data \in Seq(Int) /\ Chunks \in Seq(Seq(Int))
    /\ s.processed \in Nat /\ s.flushed \in Nat
    /\ l.position \in Nat /\ l.posEnd \in Nat /\ l.last \in BOOLEAN
    /\ l.insertLength \in Int /\ l.apply \in Int /\ l.storeEnd \in Int
    /\ l.noWrap \in BOOLEAN /\ l.ahead \in {0, 1} /\ l.words \in {0, 1, 2} /\ l.delayed \in Int
    /\ l.compound \in BOOLEAN
    /\ s.d \in [lookups : Int, matches : Int] /\ s.lastInsertLen \in Int
    /\ s.distCache \in Seq(Int) /\ Len(s.distCache) = 4
    /\ h.kind = "none" \/ Table(h.kind, h)

(* Where the loop is: the block is inside the ring, the last bytes of it   *)
(* are not searched, and a match ends in the block.                        *)
Placed ==
    /\ s.flushed <= s.processed /\ s.processed <= l.posEnd /\ l.posEnd <= Len(Data)
    /\ pc = "idle" => s.processed - s.flushed + RingTail <= RingSize
    /\ pc # "idle" =>
         /\ l.posEnd > 0 /\ l.posEnd <= s.processed + RingTail
         /\ l.posEnd - s.flushed <= RingSize
         /\ s.processed <= l.position /\ l.position <= l.posEnd
    /\ pc = "choose" => l.position = s.processed
    /\ l.last => l.posEnd = Len(Data)
    /\ pc \in Inside \ {"search", "emit"} => l.position + 4 < l.posEnd
    /\ pc \in Inside \ {"search"} => 4 < l.posEnd
    /\ pc \in Inside => l.storeEnd <= l.posEnd - 3 \/ (pc = "search" /\ l.position + 4 > l.posEnd)
    /\ (pc \in {"lazy", "emit"} \/ Ahead) =>
         l.sr \in Matches(l.posEnd - l.position) /\ l.sr.score > MinScore
    /\ pc \in {"dict", "found"} => Plausible(l.found, l.posEnd - l.position - l.ahead)

(* The table is ready where it is read, belongs to this stream, and is     *)
(* tidy; also up to three bytes from the end of the block, where the next  *)
(* block begins to store.                                                  *)
Ready ==
    /\ h.kind = "h5b6u16" => "h5b6u16" \in Kinds
    /\ pc \notin {"idle", "choose"} => h.kind # "none"
    /\ h.kind # "none" => h.ready \/ pc \in Before
    /\ (h.kind # "none" /\ h.ready /\ pc \in {"idle"} \cup Before) => s.processed > 0
    /\ (h.kind = "h5b6u16" /\ pc \in Inside \cup {"begin"}) => l.posEnd <= U16Size
    /\ h.kind \in ChainKinds => Linked(h)
    /\ (h.kind # "none" /\ h.ready /\ ~(pc = "idle" /\ s.flushed = Len(Data))) =>
         /\ Tidy(h, LiveKeys, Limit)
         /\ pc # "idle" => Tidy(h, LiveKeys, l.posEnd - 3)

(* The inductive invariant of what the tables hold. *)
OrderInv == Typed /\ Placed /\ Ready

(* Positions from low on and below high, that rise. *)
Rises(ps, low, high) ==
    /\ ps \in Seq(Int)
    /\ \A k \in 1 .. Len(ps) :
         low <= ps[k] /\ ps[k] < high /\ (k >= 2 => ps[k - 1] < ps[k])

(* Several positions stored one after the other keep what each of them     *)
(* keeps.                                                                  *)
LEMMA KeepsIndexed ==
  ASSUME NEW n \in Nat, NEW f, NEW R, f[0] \in R[0],
         \A k \in 1 .. n : f[k - 1] \in R[k - 1] => f[k] \in R[k]
  PROVE  f[n] \in R[n]
<1> DEFINE g == [k \in 0 .. n |-> IF f[k] \in R[k] THEN 1 ELSE 0]
<1>1. g[0] \in {1}
  OBVIOUS
<1>2. \A k \in 0 + 1 .. n : g[k - 1] \in {1} => g[k] \in {1}
  OBVIOUS
<1>3. n \in 0 .. n /\ (g[n] = 1 => f[n] \in R[n])
  OBVIOUS
<1> HIDE DEF g
<1>4. \A k \in 0 .. n : g[k] \in {1}
  <2>1. 0 \in Int /\ n \in Int
    OBVIOUS
  <2> QED
    BY <1>1, <1>2, <2>1, RecursionKeeps
<1> QED
  BY <1>3, <1>4

(* The positions of a bucket are typed, and fall, after one more.          *)
LEMMA BucketSizes ==
  /\ BucketKeys \in Nat \ {0} /\ BlockSize \in Nat \ {0} /\ CounterSize \in Nat
  /\ CounterSize % BlockSize = 0 /\ CounterSize > BlockSize
BY HashBucketsAssumption

(* y is hh after a store at the key. *)
BucketPut(kind, hh, key, pos, y) ==
    /\ y \in BucketRec(kind) /\ y.ready = hh.ready /\ y.kind = hh.kind
    /\ y.num = [hh.num EXCEPT ![key] = (hh.num[key] + 1) % CounterSize]
    /\ y.slots = [hh.slots EXCEPT ![key] = [@ EXCEPT ![hh.num[key] % BlockSize] = pos]]

(* A store in a bucket gives a table of the same kind. *)
LEMMA BucketStoreTyped ==
  ASSUME NEW kind, NEW hh \in BucketRec(kind), NEW key \in 0 .. BucketKeys - 1,
         NEW pos \in Int
  PROVE  BucketPut(kind, hh, key, pos, BucketStore(hh, key, pos))
<1>1. hh.num[key] \in Nat /\ (hh.num[key] + 1) % CounterSize \in 0 .. CounterSize - 1
      /\ hh.num[key] % BlockSize \in Slots
  <2>1. PICK n \in 0 .. CounterSize - 1 : n = hh.num[key]
    BY DEF BucketRec
  <2>2. CounterSize \in Nat \ {0} /\ n \in Int /\ n + 1 \in Int
    BY BucketSizes
  <2>3. (n + 1) % CounterSize \in 0 .. CounterSize - 1
    BY <2>2, Remainder
  <2>4. n % BlockSize \in 0 .. BlockSize - 1
    BY <2>2, BucketSizes, Remainder
  <2> QED
    BY <2>1, <2>3, <2>4, BucketSizes DEF Slots
<1> QED
  BY <1>1 DEF BucketRec, BucketStore, BucketPut

(* A count, the slots, and the same after a push of pos.                   *)
LEMMA PushFalls ==
  ASSUME NEW n \in 0 .. CounterSize - 1, NEW a \in [Slots -> Int], NEW limit \in Int,
         NEW pos \in Int, pos >= limit,
         Falls([j \in 1 .. Min({n, BlockSize}) |-> a[(n - j) % BlockSize]], limit)
  PROVE  LET m == (n + 1) % CounterSize
             b == [a EXCEPT ![n % BlockSize] = pos]
         IN Falls([j \in 1 .. Min({m, BlockSize}) |-> b[(m - j) % BlockSize]], pos + 1)
<1> DEFINE m == (n + 1) % CounterSize
           b == [a EXCEPT ![n % BlockSize] = pos]
           Old == [j \in 1 .. Min({n, BlockSize}) |-> a[(n - j) % BlockSize]]
           New == [j \in 1 .. Min({m, BlockSize}) |-> b[(m - j) % BlockSize]]
<1> SUFFICES Falls(New, pos + 1)
  OBVIOUS
<1>0. n \in Nat /\ BlockSize \in Nat \ {0} /\ CounterSize \in Nat /\ CounterSize > BlockSize
  BY BucketSizes
<1>1. m = 0 \/ m = n + 1
  <2>1. CASE n + 1 < CounterSize
    BY <2>1, <1>0, OwnRemainder
  <2>2. CASE n + 1 = CounterSize
    <3>1. n + 1 = CounterSize * 1 + 0
      BY <2>2, <1>0
    <3> QED
      BY <3>1, <1>0, RemainderIs
  <2> QED
    BY <2>1, <2>2, <1>0
<1>2. CASE m = 0
  <2>1. Min({0, BlockSize}) = 0
    BY <1>0, MinTwo
  <2>2. DOMAIN New = {}
    <3>1. Min({m, BlockSize}) = 0
      BY ONLY <1>2, <2>1, Zenon
    <3> HIDE DEF m
    <3> QED
      BY <3>1
  <2> QED
    BY <2>2 DEF Falls
<1>3. CASE m = n + 1
  <2>1. PICK t \in Nat, u \in Nat :
          /\ t = Min({n, BlockSize}) /\ u = Min({m, BlockSize})
          /\ u <= t + 1 /\ t <= n /\ u <= n + 1 /\ u <= BlockSize
    BY <1>0, <1>3, MinTwo
  <2>2. DOMAIN New = 1 .. u /\ DOMAIN Old = 1 .. t
    BY <2>1
  <2>3. \A j \in 1 .. u : New[j] = IF j = 1 THEN pos ELSE Old[j - 1]
    <3> SUFFICES ASSUME NEW j \in 1 .. u PROVE New[j] = IF j = 1 THEN pos ELSE Old[j - 1]
      OBVIOUS
    <3>1. New[j] = b[(n + 1 - j) % BlockSize]
      BY <1>3, <2>1
    <3>2. (n + 1 - j) % BlockSize \in Slots /\ n % BlockSize \in Slots
      BY <1>0, Remainder DEF Slots
    <3>3. CASE j = 1
      <4>1. (n + 1 - j) = n
        BY <3>3, <1>0
      <4> QED
        BY <3>1, <3>2, <3>3, <4>1
    <3>4. CASE j >= 2
      <4>1. n - (n + 1 - j) \in 1 .. BlockSize - 1 /\ n + 1 - j \in Int /\ n \in Int
        BY <3>4, <1>0, <2>1
      <4>2. (n + 1 - j) % BlockSize # n % BlockSize
        BY ONLY <4>1, <1>0, StepsApart
      <4>3. New[j] = a[(n + 1 - j) % BlockSize]
        BY <3>1, <3>2, <4>2
      <4>4. j - 1 \in 1 .. t /\ n - (j - 1) = n + 1 - j
        BY <3>4, <2>1, <1>0
      <4> QED
        BY <4>3, <4>4, <3>4, <2>1
    <3> QED
      BY <3>3, <3>4
  <2>4. \A j \in 1 .. t : /\ Old[j] < limit /\ (j >= 2 => Old[j] < Old[j - 1])
                          /\ Old[j] \in Int
    <3>1. \A j \in 1 .. t : (n - j) % BlockSize \in Slots
      BY <1>0, Remainder DEF Slots
    <3> QED
      BY <2>1, <2>2, <3>1 DEF Falls
  <2> HIDE DEF New, Old
  <2>5. ASSUME NEW k \in 1 .. u
        PROVE  New[k] < pos + 1 /\ (k >= 2 => New[k] < New[k - 1])
    <3>1. CASE k = 1
      BY <3>1, <2>3
    <3>2. CASE k = 2
      <4>0. 1 \in 1 .. u /\ 2 \in 1 .. u /\ 1 \in 1 .. t
        BY <3>2, <2>1
      <4>1. New[1] = pos /\ New[2] = Old[2 - 1]
        BY <4>0, <2>3
      <4>2. Old[1] < limit /\ Old[1] \in Int /\ 2 - 1 = 1
        BY <4>0, <2>4
      <4> QED
        BY <4>1, <4>2, <3>2
    <3>3. CASE k > 2
      <4>0. k - 1 \in 1 .. u /\ k - 1 \in 1 .. t /\ k - 2 \in 1 .. t /\ k # 1 /\ k - 1 # 1
            /\ (k - 1) - 1 = k - 2
        BY <3>3, <2>1
      <4>1. New[k] = Old[k - 1] /\ New[k - 1] = Old[(k - 1) - 1]
        BY <4>0, <2>3
      <4>2. Old[k - 1] < Old[(k - 1) - 1] /\ Old[k - 1] < limit /\ Old[k - 1] \in Int
        BY <4>0, <2>4, <3>3
      <4> QED
        BY <4>1, <4>2
    <3> QED
      BY <3>1, <3>2, <3>3
  <2> QED
    BY <2>2, <2>5 DEF Falls
<1> QED
  BY <1>1, <1>2, <1>3

(* A bucket whose count runs down is the mirror of one whose count runs up. *)
Mirrored(a) == [k \in Slots |-> a[BlockSize - 1 - k]]

LEMMA MirroredSlots ==
  ASSUME NEW a \in [Slots -> Int]
  PROVE  /\ Mirrored(a) \in [Slots -> Int]
         /\ \A k \in Slots : BlockSize - 1 - k \in Slots
                             /\ Mirrored(a)[BlockSize - 1 - k] = a[k]
         /\ Mirrored(Mirrored(a)) = a
<1>1. \A k \in Slots : /\ BlockSize - 1 - k \in Slots
                       /\ BlockSize - 1 - (BlockSize - 1 - k) = k
  BY BucketSizes DEF Slots
<1>2. \A k \in Slots : Mirrored(a)[BlockSize - 1 - k] = a[k]
  BY <1>1 DEF Mirrored
<1>3. Mirrored(a) \in [Slots -> Int]
  BY <1>1 DEF Mirrored
<1>4. Mirrored(Mirrored(a)) = a
  BY <1>2 DEF Mirrored
<1> QED
  BY <1>1, <1>2, <1>3, <1>4

(* The entries of a bucket whose count runs down. *)
RunsDown(n, a) == [j \in 1 .. Min({CounterSize - 1 - n, BlockSize}) |-> a[(n + j) % BlockSize]]
RunsUp(n, a)   == [j \in 1 .. Min({n, BlockSize}) |-> a[(n - j) % BlockSize]]

(* A bucket whose count runs down, seen in its mirror, is one whose count  *)
(* runs up.                                                                *)
LEMMA DownIsUp ==
  ASSUME NEW n \in 0 .. CounterSize - 1, NEW a \in [Slots -> Int]
  PROVE  RunsDown(n, a) = RunsUp(CounterSize - 1 - n, Mirrored(a))
<1>0. BlockSize \in Nat \ {0} /\ CounterSize \in Nat /\ CounterSize % BlockSize = 0
  BY BucketSizes
<1>1. PICK t \in Int : t = Min({CounterSize - 1 - n, BlockSize})
  BY <1>0, MinTwo
<1>2. ASSUME NEW j \in 1 .. t
      PROVE  a[(n + j) % BlockSize] = Mirrored(a)[(CounterSize - 1 - n - j) % BlockSize]
  <2>1. PICK x \in Int : x = CounterSize - 1 - (n + j)
    BY <1>0
  <2>2. CounterSize - 1 - x = n + j /\ CounterSize - 1 - n - j = x /\ n + j \in Int
    BY <2>1, <1>0
  <2>3. BlockSize - 1 - ((CounterSize - 1 - x) % BlockSize) = x % BlockSize
    BY <1>0, MirrorSlot
  <2>4. (n + j) % BlockSize \in Slots
    BY <1>0, <2>2, Remainder DEF Slots
  <2> QED
    BY <2>2, <2>3, <2>4, MirroredSlots
<1> QED
  BY <1>1, <1>2 DEF RunsDown, RunsUp

(* A push to a bucket whose count runs down. *)
LEMMA PushFallsDown ==
  ASSUME NEW n \in 0 .. CounterSize - 1, NEW a \in [Slots -> Int], NEW limit \in Int,
         NEW pos \in Int, pos >= limit, Falls(RunsDown(n, a), limit)
  PROVE  Falls(RunsDown((n - 1) % CounterSize, [a EXCEPT ![n % BlockSize] = pos]), pos + 1)
<1>0. /\ BlockSize \in Nat \ {0} /\ CounterSize \in Nat /\ CounterSize % BlockSize = 0
      /\ CounterSize > BlockSize
  BY BucketSizes
<1>1. PICK c \in 0 .. CounterSize - 1 : c = CounterSize - 1 - n
  BY <1>0
<1>2. PICK m \in 0 .. CounterSize - 1 : m = (n - 1) % CounterSize
  <2>1. CounterSize \in Nat \ {0} /\ n - 1 \in Int
    BY <1>0
  <2> QED
    BY <2>1, Remainder
<1>3. CounterSize - 1 - m = (c + 1) % CounterSize
  <2>1. CASE n = 0
    <3>1. n - 1 = CounterSize * (-1) + (CounterSize - 1)
      BY <2>1, <1>0
    <3>2. m = CounterSize - 1
      BY <3>1, <1>2, <1>0, RemainderIs
    <3>3. c + 1 = CounterSize * 1 + 0
      BY <1>1, <2>1, <1>0
    <3>4. (c + 1) % CounterSize = 0
      BY <3>3, <1>0, RemainderIs
    <3> QED
      BY <3>2, <3>4, <1>0
  <2>2. CASE n >= 1
    <3>1. n - 1 \in 0 .. CounterSize - 1 /\ c + 1 \in 0 .. CounterSize - 1
      BY <2>2, <1>0, <1>1
    <3>2. m = n - 1 /\ (c + 1) % CounterSize = c + 1
      <4>1. CounterSize \in Nat \ {0}
        BY <1>0
      <4>2. (n - 1) % CounterSize = n - 1 /\ (c + 1) % CounterSize = c + 1
        BY <3>1, <4>1, OwnRemainder, Zenon
      <4> QED
        BY <4>2, <1>2
    <3> QED
      BY <3>2, <1>1, <1>0
  <2> QED
    BY <2>1, <2>2
<1>4. n % BlockSize \in Slots /\ c % BlockSize \in Slots
  BY <1>0, Remainder DEF Slots
<1>5. c % BlockSize = BlockSize - 1 - (n % BlockSize)
  <2>1. CounterSize - 1 - c = n /\ c \in Int
    BY <1>0, <1>1
  <2>2. BlockSize - 1 - ((CounterSize - 1 - c) % BlockSize) = c % BlockSize
    BY <1>0, <2>1, MirrorSlot
  <2> QED
    BY <2>1, <2>2
<1>6. Mirrored([a EXCEPT ![n % BlockSize] = pos])
        = [Mirrored(a) EXCEPT ![c % BlockSize] = pos]
  <2>1. \A k \in Slots : BlockSize - 1 - k \in Slots
                         /\ (BlockSize - 1 - k = n % BlockSize <=> k = c % BlockSize)
    BY <1>0, <1>4, <1>5 DEF Slots
  <2> QED
    BY <2>1, <1>4 DEF Mirrored
<1>7. Falls(RunsUp(c, Mirrored(a)), limit)
  BY <1>1, DownIsUp
<1>8. Falls(RunsUp((c + 1) % CounterSize, [Mirrored(a) EXCEPT ![c % BlockSize] = pos]), pos + 1)
  BY <1>7, MirroredSlots, PushFalls DEF RunsUp
<1>9. [a EXCEPT ![n % BlockSize] = pos] \in [Slots -> Int]
  BY <1>4
<1> QED
  BY <1>2, <1>3, <1>6, <1>8, <1>9, DownIsUp

(* The same of the table. *)
LEMMA NewestIs ==
  ASSUME NEW hh, NEW key
  PROVE  /\ Newest(hh, key) = RunsUp(hh.num[key], hh.slots[key])
         /\ NewestTagged(hh, key) = RunsDown(hh.num[key], hh.slots[key])
BY DEF Newest, NewestTagged, LiveTagged, RunsUp, RunsDown

(* The entries of a bucket are in its slots. *)
LEMMA UpRange ==
  ASSUME NEW n \in 0 .. CounterSize - 1, NEW a \in [Slots -> Int]
  PROVE  \E t \in Nat : RunsUp(n, a) \in [1 .. t -> Int]
<1>1. PICK t \in Nat : t = Min({n, BlockSize})
  BY BucketSizes, MinTwo
<1>2. \A j \in 1 .. t : (n - j) % BlockSize \in Slots
  BY BucketSizes, Remainder DEF Slots
<1>3. RunsUp(n, a) \in [1 .. t -> Int]
  BY <1>1, <1>2 DEF RunsUp
<1> QED
  BY <1>3

LEMMA BucketFields ==
  ASSUME NEW kind, NEW hh \in BucketRec(kind), NEW key \in 0 .. BucketKeys - 1
  PROVE  /\ hh.num[key] \in 0 .. CounterSize - 1 /\ hh.slots[key] \in [Slots -> Int]
         /\ CounterSize - 1 - hh.num[key] \in 0 .. CounterSize - 1
         /\ hh.tags[key] \in [Slots -> Int] /\ hh.kind = kind
         /\ hh.num[key] % BlockSize \in Slots
<1>1. hh.num[key] \in 0 .. CounterSize - 1 /\ hh.slots[key] \in [Slots -> Int]
      /\ hh.tags[key] \in [Slots -> Int] /\ hh.kind = kind
  BY DEF BucketRec
<1>2. hh.num[key] % BlockSize \in Slots
  <2>1. hh.num[key] \in Int /\ BlockSize \in Nat \ {0}
    BY <1>1, BucketSizes
  <2> QED
    BY <2>1, Remainder DEF Slots
<1> QED
  BY <1>1, <1>2, BucketSizes

(* The candidates of a bucket are positions.  *)
LEMMA NewestTyped ==
  ASSUME NEW kind, NEW hh \in BucketRec(kind), NEW key \in 0 .. BucketKeys - 1
  PROVE  /\ \E t \in Nat : Newest(hh, key) \in [1 .. t -> Int]
         /\ \E t \in Nat : NewestTagged(hh, key) \in [1 .. t -> Int]
<1>1. NewestTagged(hh, key)
        = RunsUp(CounterSize - 1 - hh.num[key], Mirrored(hh.slots[key]))
  BY BucketFields, NewestIs, DownIsUp
<1>2. /\ hh.num[key] \in 0 .. CounterSize - 1 /\ hh.slots[key] \in [Slots -> Int]
      /\ CounterSize - 1 - hh.num[key] \in 0 .. CounterSize - 1
  BY BucketFields
<1>3. \E t \in Nat : RunsUp(hh.num[key], hh.slots[key]) \in [1 .. t -> Int]
  BY ONLY <1>2, UpRange
<1>4. Mirrored(hh.slots[key]) \in [Slots -> Int]
  BY <1>2, MirroredSlots
<1>5. \E t \in Nat : RunsUp(CounterSize - 1 - hh.num[key], Mirrored(hh.slots[key]))
                       \in [1 .. t -> Int]
  BY ONLY <1>2, <1>4, UpRange
<1> QED
  BY ONLY <1>1, <1>3, <1>5, NewestIs

(* hp is hh after a push of pos to the bucket of the key. *)
Pushed(hh, hp, key, pos) ==
    /\ hp.slots = [hh.slots EXCEPT ![key] = [@ EXCEPT ![hh.num[key] % BlockSize] = pos]]
    /\ hp.kind = hh.kind

(* A push to one bucket leaves the table tidy. *)
LEMMA PushTidyUp ==
  ASSUME NEW kind \in BucketKinds \ TaggedKinds, NEW hh \in BucketRec(kind),
         NEW hp \in BucketRec(kind), NEW key \in 0 .. BucketKeys - 1, NEW pos \in Int,
         Pushed(hh, hp, key, pos),
         hp.num = [hh.num EXCEPT ![key] = (hh.num[key] + 1) % CounterSize],
         NEW K \in SUBSET (0 .. BucketKeys - 1), NEW limit \in Int, pos >= limit,
         \A k \in K : Falls(Newest(hh, k), limit)
  PROVE  \A k \in K : Falls(Newest(hp, k), pos + 1)
<1> SUFFICES ASSUME NEW k \in K PROVE Falls(Newest(hp, k), pos + 1)
  OBVIOUS
<1>1. Falls(RunsUp(hh.num[k], hh.slots[k]), limit)
  BY NewestIs
<1>2. CASE k = key
  <2>1. /\ hp.num[k] = (hh.num[k] + 1) % CounterSize
        /\ hp.slots[k] = [hh.slots[k] EXCEPT ![hh.num[k] % BlockSize] = pos]
    BY <1>2 DEF Pushed, BucketRec
  <2>2. hh.num[k] \in 0 .. CounterSize - 1 /\ hh.slots[k] \in [Slots -> Int]
    BY BucketFields
  <2>3. Falls(RunsUp((hh.num[k] + 1) % CounterSize,
                     [hh.slots[k] EXCEPT ![hh.num[k] % BlockSize] = pos]), pos + 1)
    BY <1>1, <2>2, PushFalls DEF RunsUp
  <2>4. Newest(hp, k) = RunsUp(hp.num[k], hp.slots[k])
    BY NewestIs
  <2> QED
    BY <2>1, <2>3, <2>4, Zenon
<1>3. CASE k # key
  <2>1. hp.num[k] = hh.num[k] /\ hp.slots[k] = hh.slots[k]
    BY <1>3 DEF Pushed, BucketRec
  <2>2. PICK t \in Nat : RunsUp(hh.num[k], hh.slots[k]) \in [1 .. t -> Int]
    BY BucketFields, UpRange
  <2>3. Falls(RunsUp(hh.num[k], hh.slots[k]), pos + 1)
    <3> DEFINE c == RunsUp(hh.num[k], hh.slots[k])
    <3> HIDE DEF c
    <3>1. c \in [1 .. t -> Int] /\ Falls(c, limit)
      BY <1>1, <2>2 DEF c
    <3>2. Falls(c, pos + 1)
      BY <3>1 DEF Falls
    <3> QED
      BY <3>2 DEF c
  <2>4. Newest(hp, k) = RunsUp(hp.num[k], hp.slots[k])
    BY NewestIs
  <2> QED
    BY <2>1, <2>3, <2>4, Zenon
<1> QED
  BY <1>2, <1>3

LEMMA PushTidyDown ==
  ASSUME NEW kind \in TaggedKinds, NEW hh \in BucketRec(kind),
         NEW hp \in BucketRec(kind), NEW key \in 0 .. BucketKeys - 1, NEW pos \in Int,
         Pushed(hh, hp, key, pos),
         hp.num = [hh.num EXCEPT ![key] = (hh.num[key] - 1) % CounterSize],
         NEW K \in SUBSET (0 .. BucketKeys - 1), NEW limit \in Int, pos >= limit,
         \A k \in K : Falls(NewestTagged(hh, k), limit)
  PROVE  \A k \in K : Falls(NewestTagged(hp, k), pos + 1)
<1> SUFFICES ASSUME NEW k \in K PROVE Falls(NewestTagged(hp, k), pos + 1)
  OBVIOUS
<1>1. Falls(RunsDown(hh.num[k], hh.slots[k]), limit)
  BY NewestIs
<1>2. CASE k = key
  <2>1. /\ hp.num[k] = (hh.num[k] - 1) % CounterSize
        /\ hp.slots[k] = [hh.slots[k] EXCEPT ![hh.num[k] % BlockSize] = pos]
    BY <1>2 DEF Pushed, BucketRec
  <2>2. hh.num[k] \in 0 .. CounterSize - 1 /\ hh.slots[k] \in [Slots -> Int]
    BY BucketFields
  <2>3. Falls(RunsDown((hh.num[k] - 1) % CounterSize,
                     [hh.slots[k] EXCEPT ![hh.num[k] % BlockSize] = pos]), pos + 1)
    BY <1>1, <2>2, PushFallsDown
  <2>4. NewestTagged(hp, k) = RunsDown(hp.num[k], hp.slots[k])
    BY NewestIs
  <2> QED
    BY <2>1, <2>3, <2>4, Zenon
<1>3. CASE k # key
  <2>1. hp.num[k] = hh.num[k] /\ hp.slots[k] = hh.slots[k]
    BY <1>3 DEF Pushed, BucketRec
  <2>2. PICK t \in Nat : NewestTagged(hh, k) \in [1 .. t -> Int]
    BY NewestTyped
  <2>3. Falls(NewestTagged(hh, k), pos + 1)
    <3> DEFINE c == NewestTagged(hh, k)
    <3> HIDE DEF c
    <3>1. c \in [1 .. t -> Int] /\ Falls(c, limit)
      BY <2>2 DEF c
    <3>2. Falls(c, pos + 1)
      BY <3>1 DEF Falls
    <3> QED
      BY <3>2 DEF c
  <2>4. NewestTagged(hp, k) = RunsDown(hp.num[k], hp.slots[k])
    BY NewestIs
  <2>5. NewestTagged(hh, k) = RunsDown(hh.num[k], hh.slots[k])
    BY NewestIs
  <2> QED
    BY <2>1, <2>3, <2>4, <2>5, Zenon
<1> QED
  BY <1>2, <1>3

(* The function a recursion over an interval defines.                      *)
Runs(f, n, base, G) == f = [k \in 0 .. n |-> IF k = 0 THEN base ELSE G[<<k, f[k - 1]>>]]
(* Each value of f is in its set. *)
Meets(f, n, R) == \A k \in 0 .. n : f[k] \in R[k]

(* Steps that keep a property that may change from one to the next.        *)
LEMMA RunsExists ==
  ASSUME NEW n \in Nat, NEW T, NEW R \in [0 .. n -> SUBSET T], NEW base \in R[0],
         NEW G, \A k \in 1 .. n : \A x \in R[k - 1] : G[<<k, x>>] \in R[k]
  PROVE  \E f : Runs(f, n, base, G) /\ Meets(f, n, R)
<1> DEFINE G2 == [p \in (0 + 1 .. n) \X T |-> IF G[p] \in T THEN G[p] ELSE base]
<1>0. base \in T /\ 0 \in Int /\ n \in Int
  OBVIOUS
<1>1. G2 \in [(0 + 1 .. n) \X T -> T]
  BY <1>0
<1>2. \A k \in 1 .. n : \A x \in R[k - 1] : G2[<<k, x>>] = G[<<k, x>>] /\ G2[<<k, x>>] \in R[k]
  <2> SUFFICES ASSUME NEW k \in 1 .. n, NEW x \in R[k - 1]
               PROVE  G2[<<k, x>>] = G[<<k, x>>] /\ G2[<<k, x>>] \in R[k]
    OBVIOUS
  <2>1. k - 1 \in 0 .. n /\ k \in 0 .. n
    OBVIOUS
  <2>2. x \in T /\ G[<<k, x>>] \in R[k] /\ G[<<k, x>>] \in T
    BY <2>1
  <2>3. <<k, x>> \in (0 + 1 .. n) \X T
    BY <2>2
  <2> QED
    BY <2>2, <2>3
<1> HIDE DEF G2
<1>3. PICK f \in [0 .. n -> T] : Recurs(f, 0, n, base, G2)
  BY <1>0, <1>1, RecursionExists
<1>4. f[0] = base /\ \A k \in 1 .. n : f[k] = G2[<<k, f[k - 1]>>]
  <2>1. \A k \in 0 .. n : f[k] = IF k = 0 THEN base ELSE G2[<<k, f[k - 1]>>]
    BY <1>3 DEF Recurs
  <2>2. 0 \in 0 .. n /\ \A k \in 1 .. n : k \in 0 .. n /\ k # 0
    OBVIOUS
  <2> QED
    BY <2>1, <2>2, Zenon
<1> DEFINE g == [k \in 0 .. n |-> IF f[k] \in R[k] THEN 1 ELSE 0]
<1>5. \A k \in 0 .. n : g[k] \in {1}
  <2>1. g[0] \in {1}
    <3>1. f[0] \in R[0] /\ 0 \in 0 .. n
      BY <1>4
    <3> QED
      BY <3>1
  <2>2. ASSUME NEW k \in 0 + 1 .. n, g[k - 1] \in {1} PROVE g[k] \in {1}
    <3>1. k \in 1 .. n /\ k - 1 \in 0 .. n /\ k \in 0 .. n
      OBVIOUS
    <3>2. f[k - 1] \in R[k - 1]
      BY <2>2, <3>1
    <3>3. f[k] \in R[k]
      BY <3>1, <3>2, <1>2, <1>4
    <3> QED
      BY <3>1, <3>3
  <2> HIDE DEF g
  <2> QED
    BY <1>0, <2>1, <2>2, RecursionKeeps
<1>6. \A k \in 0 .. n : f[k] \in R[k]
  <2> SUFFICES ASSUME NEW k \in 0 .. n PROVE f[k] \in R[k]
    OBVIOUS
  <2>1. g[k] = 1
    BY <1>5
  <2> QED
    BY <2>1
<1> HIDE DEF g
<1>7. \A k \in 0 .. n : f[k] = IF k = 0 THEN base ELSE G[<<k, f[k - 1]>>]
  <2> SUFFICES ASSUME NEW k \in 0 .. n, k # 0 PROVE f[k] = G[<<k, f[k - 1]>>]
    BY <1>4
  <2>1. k \in 1 .. n /\ k - 1 \in 0 .. n
    OBVIOUS
  <2> QED
    BY <2>1, <1>2, <1>4, <1>6
<1>8. f = [k \in 0 .. n |-> IF k = 0 THEN base ELSE G[<<k, f[k - 1]>>]]
  BY <1>3, <1>7, Zenon
<1> QED
  BY <1>6, <1>8 DEF Runs, Meets

(* The positions below the limit after some of them.                       *)
LimitAt(ps, low, k) == IF k = 0 THEN low ELSE ps[k] + 1

(* A table of the kind, with the flag, that is tidy.                       *)
NeatTable(T, ready, K, limit) == {x \in T : x.ready = ready /\ Tidy(x, K, limit)}

(* A store of each position, a limit that rises, and all stores after      *)
(* another.                                                                *)
StepsNeat(ps, T, ready, K, G) ==
    \A k \in 1 .. Len(ps) : \A limit \in Int : ps[k] >= limit =>
      \A x \in NeatTable(T, ready, K, limit) :
        G[<<k, x>>] \in NeatTable(T, ready, K, ps[k] + 1)

Widens(T, ready, K) ==
    \A u \in Int : \A v \in Int : u <= v =>
      NeatTable(T, ready, K, u) \subseteq NeatTable(T, ready, K, v)

NeatRun(ps, T, ready, K, high, base, G) ==
    \E f : /\ Runs(f, Len(ps), base, G) /\ \A k \in 0 .. Len(ps) : f[k] \in T
           /\ f[Len(ps)] \in NeatTable(T, ready, K, high)

(* Stores of positions that rise, one after the other, leave a table tidy  *)
(* if each of them does.                                                   *)
LEMMA RunsNeat ==
  ASSUME NEW ps, NEW low \in Int, NEW high \in Int, low <= high, Rises(ps, low, high),
         NEW T, NEW ready, NEW K, NEW base \in NeatTable(T, ready, K, low), NEW G,
         StepsNeat(ps, T, ready, K, G), Widens(T, ready, K)
  PROVE  NeatRun(ps, T, ready, K, high, base, G)
<1>a. \A k \in 1 .. Len(ps) : \A limit \in Int : ps[k] >= limit =>
        \A x \in NeatTable(T, ready, K, limit) :
          G[<<k, x>>] \in NeatTable(T, ready, K, ps[k] + 1)
  BY DEF StepsNeat
<1>b. \A u \in Int : \A v \in Int : u <= v =>
        NeatTable(T, ready, K, u) \subseteq NeatTable(T, ready, K, v)
  BY DEF Widens
<1>0. PICK n \in Nat : n = Len(ps)
  BY DEF Rises
<1> DEFINE R == [k \in 0 .. n |-> NeatTable(T, ready, K, LimitAt(ps, low, k))]
<1>1. \A k \in 1 .. n : ps[k] \in Int /\ low <= ps[k] /\ ps[k] < high
                        /\ (k >= 2 => ps[k - 1] < ps[k])
  BY <1>0 DEF Rises
<1>2. \A k \in 1 .. n : LimitAt(ps, low, k - 1) \in Int /\ ps[k] >= LimitAt(ps, low, k - 1)
                        /\ LimitAt(ps, low, k) = ps[k] + 1
  <2> SUFFICES ASSUME NEW k \in 1 .. n
               PROVE  LimitAt(ps, low, k - 1) \in Int /\ ps[k] >= LimitAt(ps, low, k - 1)
                      /\ LimitAt(ps, low, k) = ps[k] + 1
    OBVIOUS
  <2>1. CASE k = 1
    BY <2>1, <1>1 DEF LimitAt
  <2>2. CASE k >= 2
    <3>1. k - 1 \in 1 .. n
      BY <2>2
    <3> QED
      BY <3>1, <2>2, <1>1 DEF LimitAt
  <2> QED
    BY <2>1, <2>2
<1>3. R \in [0 .. n -> SUBSET T] /\ base \in R[0]
  BY DEF NeatTable, LimitAt
<1>4. \A k \in 1 .. n : \A x \in R[k - 1] : G[<<k, x>>] \in R[k]
  <2> SUFFICES ASSUME NEW k \in 1 .. n, NEW x \in R[k - 1] PROVE G[<<k, x>>] \in R[k]
    OBVIOUS
  <2>1. k - 1 \in 0 .. n /\ k \in 0 .. n
    OBVIOUS
  <2>2. x \in NeatTable(T, ready, K, LimitAt(ps, low, k - 1))
    BY <2>1
  <2>3. G[<<k, x>>] \in NeatTable(T, ready, K, ps[k] + 1)
    BY <2>2, <1>0, <1>2, <1>a
  <2> QED
    BY <2>1, <2>3, <1>2
<1>5. LimitAt(ps, low, n) \in Int /\ LimitAt(ps, low, n) <= high
  <2>1. CASE n = 0
    BY <2>1 DEF LimitAt
  <2>2. CASE n >= 1
    <3>1. n \in 1 .. n
      BY <2>2
    <3> QED
      BY <3>1, <2>2, <1>1 DEF LimitAt
  <2> QED
    BY <2>1, <2>2
<1>6. \A k \in 0 .. n : R[k] \subseteq T
  BY DEF NeatTable
<1>7. R[n] \subseteq NeatTable(T, ready, K, high)
  <2>1. R[n] = NeatTable(T, ready, K, LimitAt(ps, low, n))
    OBVIOUS
  <2> HIDE DEF R
  <2> QED
    BY <1>5, <1>b, <2>1
<1> HIDE DEF R
<1>8. PICK f : Runs(f, n, base, G) /\ Meets(f, n, R)
  BY <1>0, <1>3, <1>4, RunsExists
<1>9. f[n] \in NeatTable(T, ready, K, high) /\ \A k \in 0 .. n : f[k] \in T
  <2>1. n \in 0 .. n
    OBVIOUS
  <2> QED
    BY <2>1, <1>6, <1>7, <1>8 DEF Meets
<1> QED
  BY <1>0, <1>8, <1>9 DEF NeatRun

(* One run of the recursion is another that takes the same steps.          *)
LEMMA SameRun ==
  ASSUME NEW n \in Nat, NEW f, NEW e, e[0] = f[0],
         \A k \in 1 .. n : e[k - 1] = f[k - 1] => e[k] = f[k]
  PROVE  e[n] = f[n]
<1> DEFINE R == [k \in 0 .. n |-> {f[k]}]
<1>1. \A k \in 0 .. n : R[k] = {f[k]}
  OBVIOUS
<1> HIDE DEF R
<1>2. e[0] \in R[0]
  BY <1>1
<1>3. \A k \in 1 .. n : e[k - 1] \in R[k - 1] => e[k] \in R[k]
  BY <1>1
<1>4. e[n] \in R[n]
  BY <1>2, <1>3, KeepsIndexed
<1> QED
  BY <1>1, <1>4

(* The three kinds of tables have nothing in common. *)
LEMMA KindsApart ==
  /\ \A kind \in QuickKinds : kind \notin BucketKinds /\ kind \notin ChainKinds
  /\ \A kind \in BucketKinds : kind \notin QuickKinds /\ kind \notin ChainKinds
  /\ \A kind \in ChainKinds : kind \notin BucketKinds /\ kind \notin QuickKinds
  /\ \A kind \in Bucket4Kinds : kind \in BucketKinds /\ kind \notin TaggedKinds
  /\ \A kind \in PlainKinds \cup CountedKinds :
       kind \in BucketKinds /\ kind \notin TaggedKinds /\ kind \notin Bucket4Kinds
  /\ \A kind \in TaggedKinds : kind \in BucketKinds /\ kind \notin Bucket4Kinds
  /\ BucketKinds = Bucket4Kinds \cup PlainKinds \cup CountedKinds \cup TaggedKinds
BY DEF QuickKinds, BucketKinds, ChainKinds, Bucket4Kinds, PlainKinds, TaggedKinds, CountedKinds

(* Positions below a limit are below a greater one. *)
LEMMA FallsGrows ==
  ASSUME NEW t \in Nat, NEW c \in [1 .. t -> Int], NEW a \in Int, NEW b \in Int, a <= b,
         Falls(c, a)
  PROVE  Falls(c, b)
BY DEF Falls

(* A tidy table stays so when the limit is raised.                         *)
LEMMA QuickTidy ==
  ASSUME NEW kind \in QuickKinds, NEW hh \in QuickRec(kind), NEW K, NEW limit
  PROVE  Tidy(hh, K, limit)
<1>1. hh.kind = kind
  BY DEF QuickRec
<1> QED
  BY <1>1, KindsApart DEF Tidy

LEMMA BucketTidy ==
  ASSUME NEW kind \in BucketKinds, NEW hh \in BucketRec(kind), NEW K, NEW limit
  PROVE  Tidy(hh, K, limit) <=>
           IF kind \in TaggedKinds THEN \A key \in K : Falls(NewestTagged(hh, key), limit)
           ELSE \A key \in K : Falls(Newest(hh, key), limit)
<1>1. hh.kind = kind
  BY DEF BucketRec
<1> QED
  BY <1>1, KindsApart DEF Tidy

LEMMA ChainTidy ==
  ASSUME NEW kind \in ChainKinds, NEW b, NEW n, NEW hh \in ChainRec(kind, b, n), NEW K,
         NEW limit
  PROVE  Tidy(hh, K, limit) <=> Chained(hh, K, limit)
<1>1. hh.kind = kind
  BY DEF ChainRec
<1> QED
  BY <1>1, KindsApart DEF Tidy

(* A table that is tidy up to a limit is so up to a greater one. *)
LEMMA QuickGrows ==
  ASSUME NEW kind \in QuickKinds, NEW ready, NEW K, NEW a \in Int, NEW b \in Int, a <= b
  PROVE  NeatTable(QuickRec(kind), ready, K, a) \subseteq NeatTable(QuickRec(kind), ready, K, b)
BY QuickTidy DEF NeatTable

LEMMA BucketGrows ==
  ASSUME NEW kind \in BucketKinds, NEW ready, NEW K \in SUBSET (0 .. BucketKeys - 1),
         NEW a \in Int, NEW b \in Int, a <= b
  PROVE  NeatTable(BucketRec(kind), ready, K, a) \subseteq NeatTable(BucketRec(kind), ready, K, b)
<1> SUFFICES ASSUME NEW x \in BucketRec(kind), Tidy(x, K, a) PROVE Tidy(x, K, b)
  BY DEF NeatTable
<1>1. CASE kind \in TaggedKinds
  <2>1. ASSUME NEW key \in K PROVE Falls(NewestTagged(x, key), b)
    <3>1. Falls(NewestTagged(x, key), a)
      BY <1>1, BucketTidy
    <3>2. PICK t \in Nat : NewestTagged(x, key) \in [1 .. t -> Int]
      BY NewestTyped
    <3> QED
      BY <3>1, <3>2, FallsGrows
  <2> QED
    BY <2>1, <1>1, BucketTidy
<1>2. CASE kind \notin TaggedKinds
  <2>1. ASSUME NEW key \in K PROVE Falls(Newest(x, key), b)
    <3>1. Falls(Newest(x, key), a)
      BY <1>2, BucketTidy
    <3>2. PICK t \in Nat : Newest(x, key) \in [1 .. t -> Int]
      BY NewestTyped
    <3> QED
      BY <3>1, <3>2, FallsGrows
  <2> QED
    BY <2>1, <1>2, BucketTidy
<1> QED
  BY <1>1, <1>2

LEMMA ChainGrows ==
  ASSUME NEW kind \in ChainKinds, NEW banks, NEW n, NEW ready,
         NEW K \in SUBSET (0 .. ChainKeys - 1), NEW a \in Int, NEW b \in Int, a <= b
  PROVE  NeatTable(ChainRec(kind, banks, n), ready, K, a)
           \subseteq NeatTable(ChainRec(kind, banks, n), ready, K, b)
<1> SUFFICES ASSUME NEW x \in ChainRec(kind, banks, n), Tidy(x, K, a) PROVE Tidy(x, K, b)
  BY DEF NeatTable
<1>1. Chained(x, K, a)
  BY ChainTidy
<1>2. \A key \in K : x.addr[key] \in Int
  BY DEF ChainRec
<1>3. Chained(x, K, b)
  BY <1>1, <1>2 DEF Chained, Linked
<1> QED
  BY <1>3, ChainTidy

-----------------------------------------------------------------------------
(* One position stored.                                                    *)
LEMMA QuickStoreNeat ==
  ASSUME DataOK, NEW kind \in QuickKinds, NEW ready, NEW K, NEW limit,
         NEW x \in NeatTable(QuickRec(kind), ready, K, limit), NEW pos \in Int,
         NEW masked \in BOOLEAN, NEW narrow \in BOOLEAN, NEW n \in {5, 7}, NEW sweep \in {1, 2, 4}
  PROVE  QuickStore(x, pos, masked, narrow, n, sweep)
           \in NeatTable(QuickRec(kind), ready, K, pos + 1)
<1>0. QuickSlots \in Nat \ {0} /\ U16Size \in Nat \ {0}
  BY HashQuickAssumption
<1>1. IndexOf(masked, pos) \in Int
  BY RingSizes, Remainder DEF IndexOf, Masked, Direct
<1>2. PICK key \in Int : key = HashAt(IndexOf(masked, pos), n, QuickSlots)
  BY <1>0, <1>1, HashRange
<1>3. PICK q \in Int : q = (pos \div 8) % sweep
  BY Remainder
<1>4. KeyOut(key, sweep, pos) \in 0 .. QuickSlots - 1
  <2>1. key + 8 * q \in Int
    OBVIOUS
  <2>2. (key + 8 * q) % QuickSlots \in 0 .. QuickSlots - 1
    BY <2>1, <1>0, Remainder
  <2> QED
    BY <2>2, <1>3 DEF KeyOut
<1>5. Fit(narrow, pos) \in Int
  BY <1>0, Remainder DEF Fit, Narrow, Wide
<1>6. x \in QuickRec(kind) /\ x.ready = ready
  BY DEF NeatTable
<1>7. PICK k \in 0 .. QuickSlots - 1, v \in Int :
        QuickStore(x, pos, masked, narrow, n, sweep) = [x EXCEPT !.buckets[k] = v]
  <2>1. QuickStore(x, pos, masked, narrow, n, sweep)
          = [x EXCEPT !.buckets[KeyOut(key, sweep, pos)] = Fit(narrow, pos)]
    BY <1>2 DEF QuickStore
  <2> QED
    BY <2>1, <1>4, <1>5
<1>8. /\ QuickStore(x, pos, masked, narrow, n, sweep) \in QuickRec(kind)
      /\ QuickStore(x, pos, masked, narrow, n, sweep).ready = ready
  <2> DEFINE y == [x EXCEPT !.buckets = [x.buckets EXCEPT ![k] = v]]
  <2>1. [x.buckets EXCEPT ![k] = v] \in [0 .. QuickSlots - 1 -> Int]
    BY <1>6 DEF QuickRec
  <2>2. y \in QuickRec(kind) /\ y.ready = ready
    BY <1>6, <2>1 DEF QuickRec
  <2>3. y = [x EXCEPT !.buckets[k] = v]
    OBVIOUS
  <2> QED
    BY <1>7, <2>2, <2>3
<1> QED
  BY <1>8, QuickTidy DEF NeatTable

(* The keys of four and of five bytes. *)
LEMMA FourKey ==
  ASSUME DataOK, NEW i \in Int
  PROVE  Key4(i) \in 0 .. BucketKeys - 1
<1>1. 4 \in Int /\ BucketKeys \in Nat \ {0}
  BY BucketSizes
<1> QED
  BY <1>1, HashRange DEF Key4

LEMMA FiveKey ==
  ASSUME DataOK, NEW i \in Int
  PROVE  Key5(i) \in 0 .. BucketKeys - 1 /\ Tag5(i) \in Int
<1>1. 5 \in Int /\ BucketKeys \in Nat \ {0} /\ Tags \in Nat \ {0}
  BY BucketSizes, HashLongBucketsAssumption
<1>2. BucketKeys * Tags \in Nat \ {0}
  BY <1>1
<1>3. PICK x \in 0 .. BucketKeys * Tags - 1 : x = HashAt(i, 5, BucketKeys * Tags)
  BY <1>1, <1>2, HashRange
<1>4. PICK q \in Int, r \in 0 .. Tags - 1 :
        q = x \div Tags /\ r = x % Tags /\ x = Tags * q + r
  <2>1. Tags \in Nat \ {0} /\ x \in Int
    BY <1>1, <1>2
  <2>2. x = Tags * (x \div Tags) + (x % Tags) /\ x % Tags \in 0 .. Tags - 1
        /\ x \div Tags \in Int
    BY <2>1, Remainder
  <2> QED
    BY <2>2
<1>5. q >= 0
  <2>1. Tags * q > -Tags
    BY <1>3, <1>4, <1>1
  <2>2. q <= -1 => Tags * q <= -Tags
    BY <1>1, Z3
  <2> QED
    BY <2>1, <2>2, <1>1
<1>6. q < BucketKeys
  <2>1. q >= BucketKeys => Tags * q >= BucketKeys * Tags
    BY <1>1, Z3
  <2>2. PICK y \in Int, m \in Int : y = Tags * q /\ m = BucketKeys * Tags
    BY <1>1
  <2>3. y <= x /\ x < m /\ (q >= BucketKeys => y >= m)
    BY <2>1, <2>2, <1>3, <1>4
  <2> QED
    BY <2>2, <2>3, <1>1
<1>7. q \in 0 .. BucketKeys - 1
  BY <1>5, <1>6, <1>1
<1> QED
  BY <1>3, <1>4, <1>7 DEF Key5, Tag5

(* A store of h5, of four or five bytes, or of h6, which keeps tags,       *)
(* leaves the table tidy.                                                  *)
LEMMA BucketStoreNeat ==
  ASSUME NEW kind \in BucketKinds \ TaggedKinds, NEW ready,
         NEW K \in SUBSET (0 .. BucketKeys - 1), NEW limit \in Int,
         NEW x \in NeatTable(BucketRec(kind), ready, K, limit),
         NEW key \in 0 .. BucketKeys - 1, NEW pos \in Int, pos >= limit
  PROVE  BucketStore(x, key, pos) \in NeatTable(BucketRec(kind), ready, K, pos + 1)
<1>1. x \in BucketRec(kind) /\ x.ready = ready /\ Tidy(x, K, limit)
  BY DEF NeatTable
<1>2. \A k \in K : Falls(Newest(x, k), limit)
  BY <1>1, BucketTidy
<1> DEFINE y == BucketStore(x, key, pos)
<1>3. /\ y \in BucketRec(kind) /\ y.ready = ready /\ Pushed(x, y, key, pos)
      /\ y.num = [x.num EXCEPT ![key] = (x.num[key] + 1) % CounterSize]
  <2>1. BucketPut(kind, x, key, pos, y)
    BY <1>1, BucketStoreTyped
  <2> HIDE DEF y
  <2> QED
    BY <1>1, <2>1 DEF Pushed, BucketPut
<1> HIDE DEF y
<1>4. \A k \in K : Falls(Newest(y, k), pos + 1)
  BY <1>1, <1>2, <1>3, PushTidyUp
<1>5. Tidy(y, K, pos + 1)
  BY <1>3, <1>4, BucketTidy
<1> QED
  BY <1>3, <1>5 DEF NeatTable, y

LEMMA TaggedStoreNeat ==
  ASSUME DataOK, NEW kind \in TaggedKinds, NEW ready,
         NEW K \in SUBSET (0 .. BucketKeys - 1), NEW limit \in Int,
         NEW x \in NeatTable(BucketRec(kind), ready, K, limit),
         NEW masked \in BOOLEAN, NEW pos \in Int, pos >= limit
  PROVE  TaggedStore(x, pos, masked) \in NeatTable(BucketRec(kind), ready, K, pos + 1)
<1>1. x \in BucketRec(kind) /\ x.ready = ready /\ Tidy(x, K, limit) /\ kind \in BucketKinds
  BY KindsApart DEF NeatTable
<1>2. \A k \in K : Falls(NewestTagged(x, k), limit)
  BY <1>1, BucketTidy
<1>3. PICK i \in Int : i = IndexOf(masked, pos)
  <2>1. IndexOf(masked, pos) \in Int
    BY RingSizes, Remainder DEF IndexOf, Masked, Direct
  <2> QED
    BY <2>1
<1>4. PICK key \in 0 .. BucketKeys - 1, tag \in Int : key = Key5(i) /\ tag = Tag5(i)
  BY FiveKey
<1> DEFINE y == TaggedStore(x, pos, masked)
<1>5. y = [x EXCEPT !.slots[key][x.num[key] % BlockSize] = pos,
                    !.tags[key][x.num[key] % BlockSize] = tag,
                    !.num[key] = (x.num[key] - 1) % CounterSize]
  BY <1>3, <1>4 DEF TaggedStore
<1>6. /\ x.num[key] % BlockSize \in Slots
      /\ (x.num[key] - 1) % CounterSize \in 0 .. CounterSize - 1
  <2>1. PICK n \in Int : n = x.num[key] /\ n - 1 \in Int
    BY <1>1, BucketFields
  <2>2. CounterSize \in Nat \ {0}
    BY BucketSizes
  <2>3. (n - 1) % CounterSize \in 0 .. CounterSize - 1
    BY <2>1, <2>2, Remainder
  <2> QED
    BY <1>1, <2>1, <2>3, BucketFields
<1>7. /\ y \in BucketRec(kind) /\ y.ready = ready /\ Pushed(x, y, key, pos)
      /\ y.num = [x.num EXCEPT ![key] = (x.num[key] - 1) % CounterSize]
  <2>1. PICK c \in Slots, m \in 0 .. CounterSize - 1 :
          c = x.num[key] % BlockSize /\ m = (x.num[key] - 1) % CounterSize
    BY <1>6
  <2>2. y = [x EXCEPT !.slots[key][c] = pos, !.tags[key][c] = tag, !.num[key] = m]
    BY <1>3, <1>4, <2>1 DEF TaggedStore
  <2> HIDE DEF y
  <2> DEFINE S == [x.slots EXCEPT ![key] = [x.slots[key] EXCEPT ![c] = pos]]
             A == [x.tags EXCEPT ![key] = [x.tags[key] EXCEPT ![c] = tag]]
             N == [x.num EXCEPT ![key] = m]
  <2>5. y = [x EXCEPT !.slots = S, !.tags = A, !.num = N]
    BY <2>2
  <2>6. /\ S \in [0 .. BucketKeys - 1 -> [Slots -> Int]]
        /\ A \in [0 .. BucketKeys - 1 -> [Slots -> Int]]
        /\ N \in [0 .. BucketKeys - 1 -> 0 .. CounterSize - 1]
    BY <1>1 DEF BucketRec
  <2> HIDE DEF S, A, N
  <2>3. y.slots = S /\ y.num = N /\ y.kind = x.kind /\ y.ready = x.ready
    BY <2>5, <1>1 DEF BucketRec
  <2>4. y \in BucketRec(kind)
    BY <2>5, <2>6, <1>1 DEF BucketRec
  <2> QED
    BY <1>1, <2>1, <2>3, <2>4 DEF Pushed, S, N
<1> HIDE DEF y
<1>8. \A k \in K : Falls(NewestTagged(y, k), pos + 1)
  BY <1>1, <1>2, <1>7, PushTidyDown
<1>9. Tidy(y, K, pos + 1)
  BY <1>1, <1>7, <1>8, BucketTidy
<1> QED
  BY <1>7, <1>9 DEF NeatTable, y

(* The banks of the chains, and the keys, slots and beginnings in them. *)
LEMMA ChainSizes ==
  /\ ChainKeys \in Nat \ {0} /\ TinyHashes \in Nat \ {0} /\ U16Size \in Nat \ {0}
  /\ NumBanks \in Nat \ {0} /\ BankSize \in Nat \ {0}
  /\ Window < U16Size - 1 /\ Window \in Nat /\ Window >= 16
BY HashChainsAssumption, HashQuickAssumption, RingSizes

LEMMA ChainKeyRange ==
  ASSUME DataOK, NEW i \in Int PROVE ChainKey(i) \in 0 .. ChainKeys - 1
<1>1. 4 \in Int /\ ChainKeys \in Nat \ {0}
  BY ChainSizes
<1> QED
  BY <1>1, HashRange DEF ChainKey

LEMMA DomainSize ==
  ASSUME NEW n \in Nat \ {0}, NEW f, DOMAIN f = 0 .. n - 1
  PROVE  Cardinality(DOMAIN f) = n
<1>1. 0 \in Int /\ n - 1 \in Int /\ n \in Int
  OBVIOUS
<1>2. Cardinality(0 .. n - 1) = IF 0 > n - 1 THEN 0 ELSE (n - 1) - 0 + 1
  BY <1>1, FS_Interval, Zenon
<1> QED
  BY <1>2

LEMMA BanksAre ==
  ASSUME NEW kind, NEW b \in Nat \ {0}, NEW n \in Nat \ {0}, NEW x \in ChainRec(kind, b, n)
  PROVE  /\ x.banks \in [0 .. b - 1 -> BankOf(n)]
         /\ DOMAIN x.banks = 0 .. b - 1 /\ Cardinality(DOMAIN x.banks) = b
<1>1. x.banks \in [0 .. b - 1 -> BankOf(n)]
  BY DEF ChainRec
<1>2. DOMAIN x.banks = 0 .. b - 1
  BY <1>1
<1> QED
  BY <1>1, <1>2, DomainSize

LEMMA BankFields ==
  ASSUME NEW kind, NEW b \in Nat \ {0}, NEW n \in Nat \ {0}, NEW x \in ChainRec(kind, b, n),
         NEW k \in 0 .. b - 1
  PROVE  /\ DOMAIN x.banks[k] = 0 .. n - 1 /\ Cardinality(DOMAIN x.banks[k]) = n
         /\ x.freeSlotIdx[k] \in Nat
<1>1. x.banks \in [0 .. b - 1 -> BankOf(n)] /\ x.freeSlotIdx[k] \in Nat
  BY DEF ChainRec
<1>2. x.banks[k] \in BankOf(n)
  BY <1>1
<1>3. PICK g \in [0 .. n - 1 -> [delta : Nat, next : 0 .. n - 1]] : g = x.banks[k]
  BY <1>2 DEF BankOf
<1>4. DOMAIN g = 0 .. n - 1
  OBVIOUS
<1>5. Cardinality(DOMAIN g) = n
  BY <1>4, DomainSize
<1> QED
  BY <1>1, <1>3, <1>4, <1>5

LEMMA SlotFields ==
  ASSUME NEW kind, NEW b \in Nat \ {0}, NEW n \in Nat \ {0}, NEW x \in ChainRec(kind, b, n),
         NEW k \in 0 .. b - 1, NEW c \in 0 .. n - 1
  PROVE  x.banks[k][c].delta \in Nat /\ x.banks[k][c].next \in 0 .. n - 1
<1>1. x.banks[k] \in BankOf(n)
  BY DEF ChainRec
<1>2. x.banks[k][c] \in [delta : Nat, next : 0 .. n - 1]
  BY <1>1 DEF BankOf
<1> QED
  BY <1>2

LEMMA HeadFields ==
  ASSUME NEW kind, NEW b \in Nat \ {0}, NEW n \in Nat \ {0}, NEW x \in ChainRec(kind, b, n),
         NEW key \in 0 .. ChainKeys - 1
  PROVE  x.addr[key] \in Int /\ x.head[key] \in 0 .. n - 1 /\ key % b \in 0 .. b - 1
<1>1. key \in Int
  BY ChainSizes
<1>2. key % b \in 0 .. b - 1
  BY <1>1, Remainder
<1> QED
  BY <1>2 DEF ChainRec

(* x after a store at pos. *)
ChainPut(x, pos, key, bank, idx, p, t, e) ==
    [x EXCEPT !.banks[bank][idx] =
                [delta |-> Min({Since(pos, x.addr[key]), U16Size - 1}),
                 next  |-> x.head[key]],
              !.freeSlotIdx[bank] = e, !.tinyHash[p] = t,
              !.addr[key] = pos, !.head[key] = idx]

PutSomewhere(x, pos, b, n) ==
    \E key \in 0 .. ChainKeys - 1, bank \in 0 .. b - 1, idx \in 0 .. n - 1,
       p \in 0 .. U16Size - 1, t \in Int, e \in Nat :
      /\ key = ChainKey(Masked(pos)) /\ bank = key % b
      /\ ChainStore(x, pos) = ChainPut(x, pos, key, bank, idx, p, t, e)

(* What a store changes, with the key, its bank and the slot named.        *)
LEMMA ChainStoreIs ==
  ASSUME DataOK, NEW kind, NEW b \in Nat \ {0}, NEW n \in Nat \ {0},
         NEW x \in ChainRec(kind, b, n), NEW pos \in Int
  PROVE  PutSomewhere(x, pos, b, n)
<1>1. Masked(pos) \in Int
  BY RingSizes, Remainder DEF Masked
<1>2. PICK key \in 0 .. ChainKeys - 1 : key = ChainKey(Masked(pos))
  BY <1>1, ChainKeyRange
<1>3. PICK bank \in 0 .. b - 1 : bank = key % Cardinality(DOMAIN x.banks) /\ bank = key % b
  <2>1. Cardinality(DOMAIN x.banks) = b /\ key % b \in 0 .. b - 1
    BY BanksAre, HeadFields
  <2> QED
    BY <2>1
<1>4. PICK idx \in 0 .. n - 1 :
        idx = x.freeSlotIdx[bank] % Cardinality(DOMAIN x.banks[bank])
  <2>1. x.freeSlotIdx[bank] \in Nat /\ Cardinality(DOMAIN x.banks[bank]) = n
    BY BankFields
  <2>2. x.freeSlotIdx[bank] % n \in 0 .. n - 1
    <3>1. x.freeSlotIdx[bank] \in Int
      BY <2>1
    <3> QED
      BY <3>1, Remainder
  <2> QED
    BY <2>1, <2>2
<1>5. PICK p \in 0 .. U16Size - 1 : p = pos % U16Size
  BY ChainSizes, Remainder
<1>6. PICK t \in Int : t = key % TinyHashes
  <2>1. key \in Int /\ TinyHashes \in Nat \ {0}
    BY ChainSizes
  <2>2. key % TinyHashes \in Int
    BY <2>1, Remainder
  <2> QED
    BY <2>2
<1>7. PICK e \in Nat : e = (x.freeSlotIdx[bank] + 1) % U16Size
  <2>0. x.freeSlotIdx[bank] \in Nat
    BY BankFields
  <2>1. PICK a \in Int : a = x.freeSlotIdx[bank] + 1
    BY <2>0
  <2>2. a % U16Size \in 0 .. U16Size - 1
    BY ChainSizes, Remainder
  <2> QED
    BY <2>1, <2>2
<1>8. ChainStore(x, pos) = ChainPut(x, pos, key, bank, idx, p, t, e)
  BY <1>2, <1>3, <1>4, <1>5, <1>6, <1>7 DEF ChainStore, ChainPut
<1> QED
  BY <1>2, <1>3, <1>8, Zenon DEF PutSomewhere

(* A function with one value replaced. *)
LEMMA PutOne ==
  ASSUME NEW S, NEW T, NEW f \in [S -> T], NEW k \in S, NEW v \in T
  PROVE  /\ [f EXCEPT ![k] = v] \in [S -> T] /\ [f EXCEPT ![k] = v][k] = v
         /\ \A j \in S : j # k => [f EXCEPT ![k] = v][j] = f[j]
OBVIOUS
(* A store of h40, h41 or h42 leaves the chains linked: the slot it takes  *)
(* over gets a distance of at least 1.                                     *)
LEMMA ChainStoreNeat ==
  ASSUME DataOK, NEW kind \in ChainKinds, NEW b \in Nat \ {0}, NEW n \in Nat \ {0},
         NEW ready, NEW K \in SUBSET (0 .. ChainKeys - 1), NEW limit \in Int,
         NEW x \in NeatTable(ChainRec(kind, b, n), ready, K, limit),
         NEW pos \in Nat, pos >= limit, ChainKey(Masked(pos)) \in K
  PROVE  ChainStore(x, pos) \in NeatTable(ChainRec(kind, b, n), ready, K, pos + 1)
<1>1. x \in ChainRec(kind, b, n) /\ x.ready = ready /\ Chained(x, K, limit)
  BY ChainTidy DEF NeatTable
<1>2. PICK key \in 0 .. ChainKeys - 1, bank \in 0 .. b - 1, idx \in 0 .. n - 1,
            p \in 0 .. U16Size - 1, t \in Int, f \in Nat :
        /\ key = ChainKey(Masked(pos)) /\ bank = key % b
        /\ ChainStore(x, pos) = ChainPut(x, pos, key, bank, idx, p, t, f)
  <2>1. pos \in Int
    OBVIOUS
  <2>2. PutSomewhere(x, pos, b, n)
    BY <1>1, <2>1, ChainStoreIs
  <2> QED
    BY <2>2 DEF PutSomewhere
<1>3. key \in K
  BY <1>2
<1>4. PICK d \in Nat : /\ d = Min({Since(pos, x.addr[key]), U16Size - 1}) /\ d >= 1
                       /\ d < U16Size - 1 => x.addr[key] # Never
  <2>1. PICK a \in Int : a = x.addr[key]
    BY <1>1, HeadFields
  <2>2. a = Never \/ (a >= 0 /\ a < limit)
    BY <1>1, <1>3, <2>1 DEF Chained, Linked
  <2>3. PICK g \in Int : g = Since(pos, x.addr[key]) /\ g >= 1
                         /\ (a = Never => g = 2 * U16Size)
    BY <2>1, <2>2, ChainSizes DEF Since, Never
  <2>4. Min({g, U16Size - 1}) = IF g <= U16Size - 1 THEN g ELSE U16Size - 1
    BY <2>3, ChainSizes, MinTwo
  <2> QED
    BY <2>1, <2>3, <2>4, ChainSizes
<1> DEFINE y == ChainStore(x, pos)
           e == [delta |-> d, next |-> x.head[key]]
           B == [x.banks EXCEPT ![bank] = [x.banks[bank] EXCEPT ![idx] = e]]
           A == [x.addr EXCEPT ![key] = pos]
           H == [x.head EXCEPT ![key] = idx]
           I == [x.freeSlotIdx EXCEPT ![bank] = f]
           Y == [x.tinyHash EXCEPT ![p] = t]
<1>5. y = [x EXCEPT !.banks = B, !.freeSlotIdx = I, !.tinyHash = Y, !.addr = A, !.head = H]
  <2>1. y = ChainPut(x, pos, key, bank, idx, p, t, f)
    BY <1>2
  <2> QED
    BY <2>1, <1>4 DEF ChainPut
<1> HIDE DEF y
<1>6. e \in [delta : Nat, next : 0 .. n - 1] /\ e.delta = d /\ e.next = x.head[key]
  <2>1. x.head[key] \in 0 .. n - 1
    BY <1>1, HeadFields
  <2> QED
    BY <2>1
<1> HIDE DEF e
<1>7. \A c \in 0 .. b - 1 : \A k \in 0 .. n - 1 :
        B[c][k] = IF c = bank /\ k = idx THEN e ELSE x.banks[c][k]
  <2>1. x.banks \in [0 .. b - 1 -> [0 .. n - 1 -> [delta : Nat, next : 0 .. n - 1]]]
    BY <1>1 DEF ChainRec, BankOf
  <2> QED
    BY <2>1
<1>8. B \in [0 .. b - 1 -> BankOf(n)]
  <2>1. x.banks \in [0 .. b - 1 -> BankOf(n)]
    BY <1>1 DEF ChainRec
  <2>2. [x.banks[bank] EXCEPT ![idx] = e] \in BankOf(n)
    BY <2>1, <1>6 DEF BankOf
  <2> QED
    BY <2>1, <2>2
<1>9. /\ A \in [0 .. ChainKeys - 1 -> Int] /\ H \in [0 .. ChainKeys - 1 -> 0 .. n - 1]
      /\ I \in [0 .. b - 1 -> Nat] /\ Y \in [0 .. U16Size - 1 -> Int]
      /\ A[key] = pos /\ H[key] = idx
      /\ \A k \in 0 .. ChainKeys - 1 : k # key => A[k] = x.addr[k] /\ H[k] = x.head[k]
  <2>1. /\ x.addr \in [0 .. ChainKeys - 1 -> Int] /\ x.head \in [0 .. ChainKeys - 1 -> 0 .. n - 1]
        /\ x.freeSlotIdx \in [0 .. b - 1 -> Nat] /\ x.tinyHash \in [0 .. U16Size - 1 -> Int]
    BY <1>1 DEF ChainRec
  <2>2. pos \in Int
    OBVIOUS
  <2>3. /\ A \in [0 .. ChainKeys - 1 -> Int] /\ A[key] = pos
        /\ \A k \in 0 .. ChainKeys - 1 : k # key => A[k] = x.addr[k]
    BY <2>1, <2>2, PutOne, Zenon
  <2>4. /\ H \in [0 .. ChainKeys - 1 -> 0 .. n - 1] /\ H[key] = idx
        /\ \A k \in 0 .. ChainKeys - 1 : k # key => H[k] = x.head[k]
    BY <2>1, PutOne, Zenon
  <2>5. I \in [0 .. b - 1 -> Nat] /\ Y \in [0 .. U16Size - 1 -> Int]
    BY <2>1, PutOne, Zenon
  <2> QED
    BY <2>3, <2>4, <2>5
<1> HIDE DEF A, H, I, Y, B
<1>10. y.banks = B /\ y.addr = A /\ y.head = H /\ y.ready = ready
  BY <1>1, <1>5 DEF ChainRec
<1>11. y \in ChainRec(kind, b, n)
  BY <1>1, <1>5, <1>8, <1>9 DEF ChainRec
<1>12. /\ DOMAIN x.banks = 0 .. b - 1 /\ DOMAIN B = 0 .. b - 1
       /\ Cardinality(DOMAIN x.banks) = b /\ Cardinality(DOMAIN B) = b
       /\ \A c \in 0 .. b - 1 : DOMAIN B[c] = 0 .. n - 1 /\ DOMAIN x.banks[c] = 0 .. n - 1
  <2>1. y.banks = B /\ DOMAIN y.banks = 0 .. b - 1 /\ Cardinality(DOMAIN y.banks) = b
    BY <1>10, <1>11, BanksAre
  <2>2. DOMAIN x.banks = 0 .. b - 1 /\ Cardinality(DOMAIN x.banks) = b
    BY <1>1, BanksAre
  <2>3. ASSUME NEW c \in 0 .. b - 1
        PROVE  DOMAIN B[c] = 0 .. n - 1 /\ DOMAIN x.banks[c] = 0 .. n - 1
    <3>1. DOMAIN y.banks[c] = 0 .. n - 1
      BY <1>11, BankFields
    <3>2. DOMAIN x.banks[c] = 0 .. n - 1
      BY <1>1, BankFields
    <3> QED
      BY <3>1, <3>2, <1>10
  <2> QED
    BY <2>1, <2>2, <2>3, Zenon
(* A slot that has a distance keeps one.                                   *)
<1>13. \A c \in 0 .. b - 1 : \A k \in 0 .. n - 1 :
         x.banks[c][k].delta >= 1 => B[c][k].delta >= 1
  BY <1>4, <1>6, <1>7
<1>14. ASSUME NEW k \in K
       PROVE  \/ A[k] = Never
              \/ /\ A[k] >= 0 /\ A[k] < pos + 1
                 /\ B[k % b][H[k]].delta >= 1
  <2>0. k \in 0 .. ChainKeys - 1 /\ k % b \in 0 .. b - 1 /\ x.head[k] \in 0 .. n - 1
        /\ x.addr[k] \in Int
    BY <1>1, HeadFields
  <2>1. CASE k = key
    <3>1. A[k] = pos /\ H[k] = idx /\ k % b = bank
      BY <2>1, <1>2, <1>9
    <3>2. B[bank][idx] = e
      BY <1>7
    <3> QED
      BY <3>1, <3>2, <1>4, <1>6
  <2>2. CASE k # key
    <3>1. A[k] = x.addr[k] /\ H[k] = x.head[k]
      BY <2>0, <2>2, <1>9
    <3>2. x.addr[k] = Never \/ (/\ x.addr[k] >= 0 /\ x.addr[k] < limit
                                /\ x.banks[k % b][x.head[k]].delta >= 1)
      BY <1>1, <1>12 DEF Chained, Linked, BankSlots
    <3> QED
      BY <2>0, <3>1, <3>2, <1>13
  <2> QED
    BY <2>1, <2>2
<1>15. ASSUME NEW c \in 0 .. b - 1, NEW k \in 0 .. n - 1,
              B[c][k].delta >= 1, B[c][k].delta < U16Size - 1
       PROVE  B[c][B[c][k].next].delta >= 1
  <2>1. CASE c = bank /\ k = idx
    <3>1. B[c][k] = e /\ x.addr[key] # Never /\ x.head[key] \in 0 .. n - 1
      BY <2>1, <1>1, <1>4, <1>6, <1>7, <1>15, HeadFields
    <3>2. x.banks[key % b][x.head[key]].delta >= 1
      BY <3>1, <1>1, <1>3, <1>12 DEF Chained, Linked, BankSlots
    <3> QED
      BY <2>1, <3>1, <3>2, <1>2, <1>6, <1>13
  <2>2. CASE ~(c = bank /\ k = idx)
    <3>1. B[c][k] = x.banks[c][k]
      BY <2>2, <1>7
    <3>2. x.banks[c][k].next \in 0 .. n - 1
      BY <1>1, SlotFields
    <3>3. x.banks[c][x.banks[c][k].next].delta >= 1
      BY <3>1, <1>1, <1>12, <1>15 DEF Chained, Linked
    <3> QED
      BY <3>1, <3>2, <3>3, <1>13
  <2> QED
    BY <2>1, <2>2
<1>16. Chained(y, K, pos + 1)
  BY <1>10, <1>12, <1>14, <1>15 DEF Chained, Linked, BankSlots
<1> QED
  BY <1>10, <1>11, <1>16, ChainTidy DEF NeatTable, y

LEMMA IndexInt ==
  ASSUME NEW pos \in Int, NEW masked \in BOOLEAN PROVE IndexOf(masked, pos) \in Int
BY RingSizes, Remainder DEF IndexOf, Masked, Direct

(* Several positions stored that rise, by each kind of table (storeRange,  *)
(* StitchToPreviousBlock, and the strides over literals).                  *)
LEMMA QuickAllNeat ==
  ASSUME DataOK, NEW kind \in QuickKinds, NEW ready, NEW K,
         NEW low \in Int, NEW high \in Int, low <= high,
         NEW g \in NeatTable(QuickRec(kind), ready, K, low), NEW ps, Rises(ps, low, high),
         NEW masked \in BOOLEAN, NEW narrow \in BOOLEAN, NEW n \in {5, 7}, NEW sweep \in {1, 2, 4}
  PROVE  QuickAll(g, ps, masked, narrow, n, sweep) \in NeatTable(QuickRec(kind), ready, K, high)
<1> DEFINE T == QuickRec(kind)
           N == Len(ps)
           G == [q \in (1 .. N) \X T |-> QuickStore(q[2], ps[q[1]], masked, narrow, n, sweep)]
<1> HIDE DEF T
<1>1. N \in Nat /\ ps \in Seq(Int) /\ \A k \in 1 .. N : ps[k] \in Int
  BY DEF Rises
<1>2. ASSUME NEW k \in 1 .. N, NEW limit \in Int, ps[k] >= limit,
             NEW x \in NeatTable(T, ready, K, limit)
      PROVE  G[<<k, x>>] \in NeatTable(T, ready, K, ps[k] + 1)
  <2>1. x \in T /\ G[<<k, x>>] = QuickStore(x, ps[k], masked, narrow, n, sweep)
    BY <1>2 DEF NeatTable
  <2>2. ps[k] \in Int
    BY <1>1, <1>2
  <2>3. x \in NeatTable(QuickRec(kind), ready, K, limit)
    BY <1>2 DEF T
  <2>4. QuickStore(x, ps[k], masked, narrow, n, sweep) \in NeatTable(T, ready, K, ps[k] + 1)
    BY ONLY <2>2, <2>3, DataOK, QuickStoreNeat, kind \in QuickKinds, masked \in BOOLEAN,
            narrow \in BOOLEAN, n \in {5, 7}, sweep \in {1, 2, 4}, ZenonT(40) DEF T
  <2> QED
    BY <2>1, <2>4
<1>3. \A u \in Int : \A v \in Int : u <= v =>
        NeatTable(T, ready, K, u) \subseteq NeatTable(T, ready, K, v)
  BY QuickGrows DEF T
<1>4. g \in NeatTable(T, ready, K, low)
  BY DEF T
<1> HIDE DEF G, N
<1>5. PICK f : /\ Runs(f, N, g, G) /\ \A k \in 0 .. N : f[k] \in T
               /\ f[N] \in NeatTable(T, ready, K, high)
  <2>1. \A k \in 1 .. Len(ps) : \A limit \in Int : ps[k] >= limit =>
          \A x \in NeatTable(T, ready, K, limit) :
            G[<<k, x>>] \in NeatTable(T, ready, K, ps[k] + 1)
    BY <1>2 DEF N
  <2>2. StepsNeat(ps, T, ready, K, G) /\ Widens(T, ready, K)
    BY <1>3, <2>1 DEF StepsNeat, Widens
  <2>3. NeatRun(ps, T, ready, K, high, g, G)
    BY <1>4, <2>2, RunsNeat
  <2> QED
    BY <2>3 DEF N, NeatRun
<1>6. f = [k \in 0 .. N |-> IF k = 0 THEN g
                            ELSE LET before == f[k - 1] IN QuickStore(before, ps[k], masked, narrow, n, sweep)]
  <2>1. f = [k \in 0 .. N |-> IF k = 0 THEN g ELSE G[<<k, f[k - 1]>>]]
    BY <1>5 DEF Runs
  <2>2. ASSUME NEW k \in 0 .. N, k # 0
        PROVE  G[<<k, f[k - 1]>>] = LET before == f[k - 1] IN QuickStore(before, ps[k], masked, narrow, n, sweep)
    <3>1. k \in 1 .. N /\ f[k - 1] \in T
      BY <1>1, <1>5, <2>2
    <3> QED
      BY <3>1 DEF G
  <2> QED
    BY <2>1, <2>2
<1> DEFINE F == CHOOSE F : F = [k \in 0 .. Len(ps) |->
                   IF k = 0 THEN g ELSE LET before == F[k - 1] IN QuickStore(before, ps[k], masked, narrow, n, sweep)]
<1>7. F = [k \in 0 .. N |-> IF k = 0 THEN g
                            ELSE LET before == F[k - 1] IN QuickStore(before, ps[k], masked, narrow, n, sweep)]
  BY <1>6 DEF N
<1>8. QuickAll(g, ps, masked, narrow, n, sweep) = F[N]
  BY DEF QuickAll, N
<1> HIDE DEF F
<1>9. F[N] = f[N]
  <2>1. F[0] = f[0]
    BY <1>1, <1>6, <1>7
  <2>2. ASSUME NEW k \in 1 .. N, F[k - 1] = f[k - 1]
        PROVE  F[k] = f[k]
    <3>1. k \in 0 .. N /\ k # 0
      BY <1>1
    <3>2. F[k] = LET before == F[k - 1] IN QuickStore(before, ps[k], masked, narrow, n, sweep)
      BY <1>7, <3>1
    <3>3. f[k] = LET before == f[k - 1] IN QuickStore(before, ps[k], masked, narrow, n, sweep)
      BY <1>6, <3>1
    <3> QED
      BY <2>2, <3>2, <3>3
  <2> QED
    BY <1>1, <2>1, <2>2, SameRun
<1> QED
  BY <1>5, <1>8, <1>9 DEF T

LEMMA FourAllNeat ==
  ASSUME DataOK, NEW kind \in Bucket4Kinds, NEW ready, NEW K \in SUBSET (0 .. BucketKeys - 1),
         NEW low \in Int, NEW high \in Int, low <= high,
         NEW g \in NeatTable(BucketRec(kind), ready, K, low), NEW ps, Rises(ps, low, high),
         NEW masked \in BOOLEAN, NEW narrow \in BOOLEAN,
         narrow => low >= 0 /\ high <= U16Size
  PROVE  Bucket4All(g, ps, masked, narrow) \in NeatTable(BucketRec(kind), ready, K, high)
<1> DEFINE T == BucketRec(kind)
           N == Len(ps)
           G == [q \in (1 .. N) \X T |-> Bucket4Store(q[2], ps[q[1]], masked, narrow)]
<1> HIDE DEF T
<1>1. N \in Nat /\ ps \in Seq(Int) /\ \A k \in 1 .. N : ps[k] \in Int
  BY DEF Rises
<1>2. ASSUME NEW k \in 1 .. N, NEW limit \in Int, ps[k] >= limit,
             NEW x \in NeatTable(T, ready, K, limit)
      PROVE  G[<<k, x>>] \in NeatTable(T, ready, K, ps[k] + 1)
  <2>1. x \in T /\ G[<<k, x>>] = Bucket4Store(x, ps[k], masked, narrow)
    BY <1>2 DEF NeatTable
  <2>2. ps[k] \in Int
    BY <1>1, <1>2
  <2>3. /\ Fit(narrow, ps[k]) = ps[k] /\ kind \in BucketKinds \ TaggedKinds
        /\ Key4(IndexOf(masked, ps[k])) \in 0 .. BucketKeys - 1
    <3>1. CASE narrow
      <4>1. ps[k] \in 0 .. U16Size - 1 /\ U16Size \in Nat \ {0}
        BY <1>1, <1>2, <3>1, ChainSizes DEF Rises, N
      <4>2. Fit(narrow, ps[k]) = ps[k]
        BY <3>1, <4>1, OwnRemainder DEF Fit, Narrow
      <4> QED
        BY <2>2, <4>2, KindsApart, FourKey, IndexInt
    <3>2. CASE ~narrow
      BY <2>2, <3>2, KindsApart, FourKey, IndexInt DEF Fit, Wide
    <3> QED
      BY <3>1, <3>2
  <2>4. Bucket4Store(x, ps[k], masked, narrow) \in NeatTable(T, ready, K, ps[k] + 1)
    BY <1>2, <2>2, <2>3, BucketStoreNeat, KindsApart DEF T, Bucket4Store
  <2> QED
    BY <2>1, <2>4
<1>3. \A u \in Int : \A v \in Int : u <= v =>
        NeatTable(T, ready, K, u) \subseteq NeatTable(T, ready, K, v)
  BY BucketGrows, KindsApart DEF T
<1>4. g \in NeatTable(T, ready, K, low)
  BY DEF T
<1> HIDE DEF G, N
<1>5. PICK f : /\ Runs(f, N, g, G) /\ \A k \in 0 .. N : f[k] \in T
               /\ f[N] \in NeatTable(T, ready, K, high)
  <2>1. \A k \in 1 .. Len(ps) : \A limit \in Int : ps[k] >= limit =>
          \A x \in NeatTable(T, ready, K, limit) :
            G[<<k, x>>] \in NeatTable(T, ready, K, ps[k] + 1)
    BY <1>2 DEF N
  <2>2. StepsNeat(ps, T, ready, K, G) /\ Widens(T, ready, K)
    BY <1>3, <2>1 DEF StepsNeat, Widens
  <2>3. NeatRun(ps, T, ready, K, high, g, G)
    BY <1>4, <2>2, RunsNeat
  <2> QED
    BY <2>3 DEF N, NeatRun
<1>6. f = [k \in 0 .. N |-> IF k = 0 THEN g
                            ELSE LET before == f[k - 1] IN Bucket4Store(before, ps[k], masked, narrow)]
  <2>1. f = [k \in 0 .. N |-> IF k = 0 THEN g ELSE G[<<k, f[k - 1]>>]]
    BY <1>5 DEF Runs
  <2>2. ASSUME NEW k \in 0 .. N, k # 0
        PROVE  G[<<k, f[k - 1]>>] = LET before == f[k - 1] IN Bucket4Store(before, ps[k], masked, narrow)
    <3>1. k \in 1 .. N /\ f[k - 1] \in T
      BY <1>1, <1>5, <2>2
    <3> QED
      BY <3>1 DEF G
  <2> QED
    BY <2>1, <2>2
<1> DEFINE F == CHOOSE F : F = [k \in 0 .. Len(ps) |->
                   IF k = 0 THEN g ELSE LET before == F[k - 1] IN Bucket4Store(before, ps[k], masked, narrow)]
<1>7. F = [k \in 0 .. N |-> IF k = 0 THEN g
                            ELSE LET before == F[k - 1] IN Bucket4Store(before, ps[k], masked, narrow)]
  BY <1>6 DEF N
<1>8. Bucket4All(g, ps, masked, narrow) = F[N]
  BY DEF Bucket4All, N
<1> HIDE DEF F
<1>9. F[N] = f[N]
  <2>1. F[0] = f[0]
    BY <1>1, <1>6, <1>7
  <2>2. ASSUME NEW k \in 1 .. N, F[k - 1] = f[k - 1]
        PROVE  F[k] = f[k]
    <3>1. k \in 0 .. N /\ k # 0
      BY <1>1
    <3>2. F[k] = LET before == F[k - 1] IN Bucket4Store(before, ps[k], masked, narrow)
      BY <1>7, <3>1
    <3>3. f[k] = LET before == f[k - 1] IN Bucket4Store(before, ps[k], masked, narrow)
      BY <1>6, <3>1
    <3> QED
      BY <2>2, <3>2, <3>3
  <2> QED
    BY <1>1, <2>1, <2>2, SameRun
<1> QED
  BY <1>5, <1>8, <1>9 DEF T

LEMMA FiveAllNeat ==
  ASSUME DataOK, NEW kind \in PlainKinds \cup CountedKinds, NEW ready, NEW K \in SUBSET (0 .. BucketKeys - 1),
         NEW low \in Int, NEW high \in Int, low <= high,
         NEW g \in NeatTable(BucketRec(kind), ready, K, low), NEW ps, Rises(ps, low, high),
         NEW masked \in BOOLEAN
  PROVE  Bucket5All(g, ps, masked) \in NeatTable(BucketRec(kind), ready, K, high)
<1> DEFINE T == BucketRec(kind)
           N == Len(ps)
           G == [q \in (1 .. N) \X T |-> Bucket5Store(q[2], ps[q[1]], masked)]
<1> HIDE DEF T
<1>1. N \in Nat /\ ps \in Seq(Int) /\ \A k \in 1 .. N : ps[k] \in Int
  BY DEF Rises
<1>2. ASSUME NEW k \in 1 .. N, NEW limit \in Int, ps[k] >= limit,
             NEW x \in NeatTable(T, ready, K, limit)
      PROVE  G[<<k, x>>] \in NeatTable(T, ready, K, ps[k] + 1)
  <2>1. x \in T /\ G[<<k, x>>] = Bucket5Store(x, ps[k], masked)
    BY <1>2 DEF NeatTable
  <2>2. ps[k] \in Int
    BY <1>1, <1>2
  <2>3. kind \in BucketKinds \ TaggedKinds /\ Key5(IndexOf(masked, ps[k])) \in 0 .. BucketKeys - 1
    BY <2>2, KindsApart, FiveKey, IndexInt
  <2>4. Bucket5Store(x, ps[k], masked) \in NeatTable(T, ready, K, ps[k] + 1)
    BY <1>2, <2>2, <2>3, BucketStoreNeat DEF T, Bucket5Store
  <2> QED
    BY <2>1, <2>4
<1>3. \A u \in Int : \A v \in Int : u <= v =>
        NeatTable(T, ready, K, u) \subseteq NeatTable(T, ready, K, v)
  BY BucketGrows, KindsApart DEF T
<1>4. g \in NeatTable(T, ready, K, low)
  BY DEF T
<1> HIDE DEF G, N
<1>5. PICK f : /\ Runs(f, N, g, G) /\ \A k \in 0 .. N : f[k] \in T
               /\ f[N] \in NeatTable(T, ready, K, high)
  <2>1. \A k \in 1 .. Len(ps) : \A limit \in Int : ps[k] >= limit =>
          \A x \in NeatTable(T, ready, K, limit) :
            G[<<k, x>>] \in NeatTable(T, ready, K, ps[k] + 1)
    BY <1>2 DEF N
  <2>2. StepsNeat(ps, T, ready, K, G) /\ Widens(T, ready, K)
    BY <1>3, <2>1 DEF StepsNeat, Widens
  <2>3. NeatRun(ps, T, ready, K, high, g, G)
    BY <1>4, <2>2, RunsNeat
  <2> QED
    BY <2>3 DEF N, NeatRun
<1>6. f = [k \in 0 .. N |-> IF k = 0 THEN g
                            ELSE LET before == f[k - 1] IN Bucket5Store(before, ps[k], masked)]
  <2>1. f = [k \in 0 .. N |-> IF k = 0 THEN g ELSE G[<<k, f[k - 1]>>]]
    BY <1>5 DEF Runs
  <2>2. ASSUME NEW k \in 0 .. N, k # 0
        PROVE  G[<<k, f[k - 1]>>] = LET before == f[k - 1] IN Bucket5Store(before, ps[k], masked)
    <3>1. k \in 1 .. N /\ f[k - 1] \in T
      BY <1>1, <1>5, <2>2
    <3> QED
      BY <3>1 DEF G
  <2> QED
    BY <2>1, <2>2
<1> DEFINE F == CHOOSE F : F = [k \in 0 .. Len(ps) |->
                   IF k = 0 THEN g ELSE LET before == F[k - 1] IN Bucket5Store(before, ps[k], masked)]
<1>7. F = [k \in 0 .. N |-> IF k = 0 THEN g
                            ELSE LET before == F[k - 1] IN Bucket5Store(before, ps[k], masked)]
  BY <1>6 DEF N
<1>8. Bucket5All(g, ps, masked) = F[N]
  BY DEF Bucket5All, N
<1> HIDE DEF F
<1>9. F[N] = f[N]
  <2>1. F[0] = f[0]
    BY <1>1, <1>6, <1>7
  <2>2. ASSUME NEW k \in 1 .. N, F[k - 1] = f[k - 1]
        PROVE  F[k] = f[k]
    <3>1. k \in 0 .. N /\ k # 0
      BY <1>1
    <3>2. F[k] = LET before == F[k - 1] IN Bucket5Store(before, ps[k], masked)
      BY <1>7, <3>1
    <3>3. f[k] = LET before == f[k - 1] IN Bucket5Store(before, ps[k], masked)
      BY <1>6, <3>1
    <3> QED
      BY <2>2, <3>2, <3>3
  <2> QED
    BY <1>1, <2>1, <2>2, SameRun
<1> QED
  BY <1>5, <1>8, <1>9 DEF T

LEMMA TaggedAllNeat ==
  ASSUME DataOK, NEW kind \in TaggedKinds, NEW ready, NEW K \in SUBSET (0 .. BucketKeys - 1),
         NEW low \in Int, NEW high \in Int, low <= high,
         NEW g \in NeatTable(BucketRec(kind), ready, K, low), NEW ps, Rises(ps, low, high),
         NEW masked \in BOOLEAN
  PROVE  TaggedAll(g, ps, masked) \in NeatTable(BucketRec(kind), ready, K, high)
<1> DEFINE T == BucketRec(kind)
           N == Len(ps)
           G == [q \in (1 .. N) \X T |-> TaggedStore(q[2], ps[q[1]], masked)]
<1> HIDE DEF T
<1>1. N \in Nat /\ ps \in Seq(Int) /\ \A k \in 1 .. N : ps[k] \in Int
  BY DEF Rises
<1>2. ASSUME NEW k \in 1 .. N, NEW limit \in Int, ps[k] >= limit,
             NEW x \in NeatTable(T, ready, K, limit)
      PROVE  G[<<k, x>>] \in NeatTable(T, ready, K, ps[k] + 1)
  <2>1. x \in T /\ G[<<k, x>>] = TaggedStore(x, ps[k], masked)
    BY <1>2 DEF NeatTable
  <2>2. ps[k] \in Int
    BY <1>1, <1>2
  <2>3. TRUE
    OBVIOUS
  <2>4. TaggedStore(x, ps[k], masked) \in NeatTable(T, ready, K, ps[k] + 1)
    BY <1>2, <2>2, <2>3, TaggedStoreNeat DEF T
  <2> QED
    BY <2>1, <2>4
<1>3. \A u \in Int : \A v \in Int : u <= v =>
        NeatTable(T, ready, K, u) \subseteq NeatTable(T, ready, K, v)
  BY BucketGrows, KindsApart DEF T
<1>4. g \in NeatTable(T, ready, K, low)
  BY DEF T
<1> HIDE DEF G, N
<1>5. PICK f : /\ Runs(f, N, g, G) /\ \A k \in 0 .. N : f[k] \in T
               /\ f[N] \in NeatTable(T, ready, K, high)
  <2>1. \A k \in 1 .. Len(ps) : \A limit \in Int : ps[k] >= limit =>
          \A x \in NeatTable(T, ready, K, limit) :
            G[<<k, x>>] \in NeatTable(T, ready, K, ps[k] + 1)
    BY <1>2 DEF N
  <2>2. StepsNeat(ps, T, ready, K, G) /\ Widens(T, ready, K)
    BY <1>3, <2>1 DEF StepsNeat, Widens
  <2>3. NeatRun(ps, T, ready, K, high, g, G)
    BY <1>4, <2>2, RunsNeat
  <2> QED
    BY <2>3 DEF N, NeatRun
<1>6. f = [k \in 0 .. N |-> IF k = 0 THEN g
                            ELSE LET before == f[k - 1] IN TaggedStore(before, ps[k], masked)]
  <2>1. f = [k \in 0 .. N |-> IF k = 0 THEN g ELSE G[<<k, f[k - 1]>>]]
    BY <1>5 DEF Runs
  <2>2. ASSUME NEW k \in 0 .. N, k # 0
        PROVE  G[<<k, f[k - 1]>>] = LET before == f[k - 1] IN TaggedStore(before, ps[k], masked)
    <3>1. k \in 1 .. N /\ f[k - 1] \in T
      BY <1>1, <1>5, <2>2
    <3> QED
      BY <3>1 DEF G
  <2> QED
    BY <2>1, <2>2
<1> DEFINE F == CHOOSE F : F = [k \in 0 .. Len(ps) |->
                   IF k = 0 THEN g ELSE LET before == F[k - 1] IN TaggedStore(before, ps[k], masked)]
<1>7. F = [k \in 0 .. N |-> IF k = 0 THEN g
                            ELSE LET before == F[k - 1] IN TaggedStore(before, ps[k], masked)]
  BY <1>6 DEF N
<1>8. TaggedAll(g, ps, masked) = F[N]
  BY DEF TaggedAll, N
<1> HIDE DEF F
<1>9. F[N] = f[N]
  <2>1. F[0] = f[0]
    BY <1>1, <1>6, <1>7
  <2>2. ASSUME NEW k \in 1 .. N, F[k - 1] = f[k - 1]
        PROVE  F[k] = f[k]
    <3>1. k \in 0 .. N /\ k # 0
      BY <1>1
    <3>2. F[k] = LET before == F[k - 1] IN TaggedStore(before, ps[k], masked)
      BY <1>7, <3>1
    <3>3. f[k] = LET before == f[k - 1] IN TaggedStore(before, ps[k], masked)
      BY <1>6, <3>1
    <3> QED
      BY <2>2, <3>2, <3>3
  <2> QED
    BY <1>1, <2>1, <2>2, SameRun
<1> QED
  BY <1>5, <1>8, <1>9 DEF T

LEMMA ChainAllNeat ==
  ASSUME DataOK, NEW kind \in ChainKinds, NEW b \in Nat \ {0}, NEW n \in Nat \ {0},
         NEW ready, NEW K \in SUBSET (0 .. ChainKeys - 1),
         NEW low \in Int, NEW high \in Int, low <= high,
         NEW g \in NeatTable(ChainRec(kind, b, n), ready, K, low), NEW ps, Rises(ps, low, high),
         \A k \in 1 .. Len(ps) : ps[k] >= 0 /\ ChainKey(Masked(ps[k])) \in K
  PROVE  ChainAll(g, ps) \in NeatTable(ChainRec(kind, b, n), ready, K, high)
<1> DEFINE T == ChainRec(kind, b, n)
           N == Len(ps)
           G == [q \in (1 .. N) \X T |-> ChainStore(q[2], ps[q[1]])]
<1> HIDE DEF T
<1>1. N \in Nat /\ ps \in Seq(Int) /\ \A k \in 1 .. N : ps[k] \in Int
  BY DEF Rises
<1>2. ASSUME NEW k \in 1 .. N, NEW limit \in Int, ps[k] >= limit,
             NEW x \in NeatTable(T, ready, K, limit)
      PROVE  G[<<k, x>>] \in NeatTable(T, ready, K, ps[k] + 1)
  <2>1. x \in T /\ G[<<k, x>>] = ChainStore(x, ps[k])
    BY <1>2 DEF NeatTable
  <2>2. ps[k] \in Int
    BY <1>1, <1>2
  <2>3. ps[k] \in Nat /\ ChainKey(Masked(ps[k])) \in K
    BY <1>1, <1>2, <2>2 DEF N
  <2>4. ChainStore(x, ps[k]) \in NeatTable(T, ready, K, ps[k] + 1)
    BY <1>2, <2>2, <2>3, ChainStoreNeat DEF T
  <2> QED
    BY <2>1, <2>4
<1>3. \A u \in Int : \A v \in Int : u <= v =>
        NeatTable(T, ready, K, u) \subseteq NeatTable(T, ready, K, v)
  BY ChainGrows DEF T
<1>4. g \in NeatTable(T, ready, K, low)
  BY DEF T
<1> HIDE DEF G, N
<1>5. PICK f : /\ Runs(f, N, g, G) /\ \A k \in 0 .. N : f[k] \in T
               /\ f[N] \in NeatTable(T, ready, K, high)
  <2>1. \A k \in 1 .. Len(ps) : \A limit \in Int : ps[k] >= limit =>
          \A x \in NeatTable(T, ready, K, limit) :
            G[<<k, x>>] \in NeatTable(T, ready, K, ps[k] + 1)
    BY <1>2 DEF N
  <2>2. StepsNeat(ps, T, ready, K, G) /\ Widens(T, ready, K)
    BY <1>3, <2>1 DEF StepsNeat, Widens
  <2>3. NeatRun(ps, T, ready, K, high, g, G)
    BY <1>4, <2>2, RunsNeat
  <2> QED
    BY <2>3 DEF N, NeatRun
<1>6. f = [k \in 0 .. N |-> IF k = 0 THEN g
                            ELSE LET before == f[k - 1] IN ChainStore(before, ps[k])]
  <2>1. f = [k \in 0 .. N |-> IF k = 0 THEN g ELSE G[<<k, f[k - 1]>>]]
    BY <1>5 DEF Runs
  <2>2. ASSUME NEW k \in 0 .. N, k # 0
        PROVE  G[<<k, f[k - 1]>>] = LET before == f[k - 1] IN ChainStore(before, ps[k])
    <3>1. k \in 1 .. N /\ f[k - 1] \in T
      BY <1>1, <1>5, <2>2
    <3> QED
      BY <3>1 DEF G
  <2> QED
    BY <2>1, <2>2
<1> DEFINE F == CHOOSE F : F = [k \in 0 .. Len(ps) |->
                   IF k = 0 THEN g ELSE LET before == F[k - 1] IN ChainStore(before, ps[k])]
<1>7. F = [k \in 0 .. N |-> IF k = 0 THEN g
                            ELSE LET before == F[k - 1] IN ChainStore(before, ps[k])]
  BY <1>6 DEF N
<1>8. ChainAll(g, ps) = F[N]
  BY DEF ChainAll, N
<1> HIDE DEF F
<1>9. F[N] = f[N]
  <2>1. F[0] = f[0]
    BY <1>1, <1>6, <1>7
  <2>2. ASSUME NEW k \in 1 .. N, F[k - 1] = f[k - 1]
        PROVE  F[k] = f[k]
    <3>1. k \in 0 .. N /\ k # 0
      BY <1>1
    <3>2. F[k] = LET before == F[k - 1] IN ChainStore(before, ps[k])
      BY <1>7, <3>1
    <3>3. f[k] = LET before == f[k - 1] IN ChainStore(before, ps[k])
      BY <1>6, <3>1
    <3> QED
      BY <2>2, <3>2, <3>3
  <2> QED
    BY <1>1, <2>1, <2>2, SameRun
<1> QED
  BY <1>5, <1>8, <1>9 DEF T

(* Positions at a distance of step. *)
LEMMA FromIs ==
  ASSUME NEW start \in Int, NEW end \in Int, NEW step \in {1, 2, 4}
  PROVE  \E m \in Nat :
           /\ From(start, end, step) = [k \in 1 .. m |-> start + (k - 1) * step]
           /\ m = 0 \/ start + (m - 1) * step < end
           /\ end <= start => m = 0
           /\ end > start => start + m * step >= end
<1>1. Max({0, end - start}) = IF 0 >= end - start THEN 0 ELSE end - start
  <2>1. end - start \in Int
    OBVIOUS
  <2> QED
    BY <2>1, MaxTwo
<1>2. PICK w \in Nat : w = Max({0, end - start}) /\ w = IF 0 >= end - start THEN 0 ELSE end - start
  BY <1>1
<1>3. PICK m \in Int : m = (w + step - 1) \div step
  OBVIOUS
<1>4. PICK r \in 0 .. step - 1 : w + step - 1 = step * m + r
  <2>1. step \in Nat \ {0} /\ w + step - 1 \in Int
    OBVIOUS
  <2>2. w + step - 1 = step * ((w + step - 1) \div step) + ((w + step - 1) % step)
        /\ (w + step - 1) % step \in 0 .. step - 1
    BY <2>1, Remainder
  <2> QED
    BY <2>2, <1>3
<1>5. m >= 0 /\ (m = 0 \/ (m - 1) * step < w) /\ (w = 0 => m = 0) /\ m * step >= w
  <2>1. CASE step = 1
    BY <1>4, <2>1
  <2>2. CASE step = 2
    BY <1>4, <2>2
  <2>3. CASE step = 4
    BY <1>4, <2>3
  <2> QED
    BY <2>1, <2>2, <2>3
<1>6. From(start, end, step) = [k \in 1 .. m |-> start + (k - 1) * step]
  BY <1>2, <1>3 DEF From
<1>7. PICK x \in Int, y \in Int : x = (m - 1) * step /\ y = m * step
  OBVIOUS
<1>8. /\ m = 0 \/ start + (m - 1) * step < end
      /\ end <= start => m = 0
      /\ end > start => start + m * step >= end
  BY <1>2, <1>5, <1>7
<1> QED
  BY <1>5, <1>6, <1>8

LEMMA FromRises ==
  ASSUME NEW start \in Int, NEW end \in Int, NEW step \in {1, 2, 4}, NEW high \in Int, end <= high
  PROVE  Rises(From(start, end, step), start, high)
<1>1. PICK m \in Nat :
        /\ From(start, end, step) = [k \in 1 .. m |-> start + (k - 1) * step]
        /\ m = 0 \/ start + (m - 1) * step < end
  BY FromIs
<1> DEFINE f == [k \in 1 .. m |-> start + (k - 1) * step]
<1>2. f \in Seq(Int) /\ Len(f) = m
  OBVIOUS
<1>3. ASSUME NEW k \in 1 .. m
      PROVE  start <= f[k] /\ f[k] < high /\ (k >= 2 => f[k - 1] < f[k])
  <2>1. f[k] = start + (k - 1) * step /\ (k >= 2 => f[k - 1] = start + (k - 2) * step)
    OBVIOUS
  <2> HIDE DEF f
  <2>2. CASE step = 1
    BY <1>1, <2>1, <2>2
  <2>3. CASE step = 2
    BY <1>1, <2>1, <2>3
  <2>4. CASE step = 4
    BY <1>1, <2>1, <2>4
  <2> QED
    BY <2>2, <2>3, <2>4
<1> HIDE DEF f
<1> QED
  BY <1>1, <1>2, <1>3 DEF Rises, f

(* Those below a limit are below it, and those that follow begin behind.   *)
LEMMA FromEnds ==
  ASSUME NEW start \in Int, NEW end \in Int, NEW step \in {1, 2, 4}
  PROVE  /\ Len(From(start, end, step)) \in Nat
         /\ start + step * Len(From(start, end, step))
              <= (IF end > start THEN end + step - 1 ELSE start)
         /\ Rises(From(start, end, step), start, start + step * Len(From(start, end, step)))
<1>1. PICK m \in Nat :
        /\ From(start, end, step) = [k \in 1 .. m |-> start + (k - 1) * step]
        /\ m = 0 \/ start + (m - 1) * step < end
        /\ end <= start => m = 0
        /\ end > start => start + m * step >= end
  BY FromIs
<1> DEFINE f == [k \in 1 .. m |-> start + (k - 1) * step]
<1>2. f \in Seq(Int) /\ Len(f) = m
  OBVIOUS
<1>3. ASSUME NEW k \in 1 .. m
      PROVE  start <= f[k] /\ f[k] < start + step * m /\ (k >= 2 => f[k - 1] < f[k])
  <2>1. f[k] = start + (k - 1) * step /\ (k >= 2 => f[k - 1] = start + (k - 2) * step)
    OBVIOUS
  <2> HIDE DEF f
  <2>2. CASE step = 1
    BY <1>1, <2>1, <2>2
  <2>3. CASE step = 2
    BY <1>1, <2>1, <2>3
  <2>4. CASE step = 4
    BY <1>1, <2>1, <2>4
  <2> QED
    BY <2>2, <2>3, <2>4
<1>4. start + step * m <= IF end > start THEN end + step - 1 ELSE start
  <2>2. CASE step = 1
    BY <1>1, <2>2
  <2>3. CASE step = 2
    BY <1>1, <2>3
  <2>4. CASE step = 4
    BY <1>1, <2>4
  <2> QED
    BY <2>2, <2>3, <2>4
<1>5. f = From(start, end, step)
  BY <1>1
<1> HIDE DEF f
<1>6. Rises(f, start, start + step * m)
  BY <1>2, <1>3 DEF Rises
<1> QED
  BY <1>2, <1>4, <1>5, <1>6

(* The keys of the block. *)
LEMMA LiveKeysIn ==
  ASSUME DataOK, h.kind \in BucketKinds \cup ChainKinds
  PROVE  LiveKeys \in SUBSET KeysOf(h.kind)
<1>1. CASE s.processed = 0 /\ l.last
  <2>1. ASSUME NEW i \in 0 .. l.posEnd - 1 PROVE KeyAt(h.kind, i) \in KeysOf(h.kind)
    <3>1. i \in Int
      OBVIOUS
    <3>2. CASE h.kind \in ChainKinds
      BY <3>1, <3>2, ChainKeyRange DEF KeyAt, KeysOf
    <3>3. CASE h.kind \in Bucket4Kinds
      BY <3>1, <3>3, FourKey, KindsApart DEF KeyAt, KeysOf
    <3>4. CASE h.kind \notin ChainKinds \cup Bucket4Kinds
      BY <3>1, <3>4, FiveKey DEF KeyAt, KeysOf
    <3> QED
      BY <3>2, <3>3, <3>4
  <2> QED
    BY <1>1, <2>1 DEF LiveKeys
<1>2. CASE ~(s.processed = 0 /\ l.last)
  BY <1>2 DEF LiveKeys
<1> QED
  BY <1>1, <1>2

(* The key of a position of the block is live. *)
LEMMA LiveKey ==
  ASSUME DataOK, h.kind \in BucketKinds \cup ChainKinds, s.processed \in Nat,
         l.posEnd <= s.processed + RingTail, NEW pos \in 0 .. l.posEnd - 1
  PROVE  KeyAt(h.kind, Masked(pos)) \in LiveKeys
<1>1. CASE s.processed = 0 /\ l.last
  <2>1. Masked(pos) = pos
    <3>1. pos \in 0 .. RingSize - 1 /\ RingSize \in Nat \ {0}
      <4>1. l.posEnd \in Int
        BY LenProperties DEF DataOK
      <4> QED
        BY <1>1, <4>1, RingSizes
    <3> QED
      BY <3>1, OwnRemainder DEF Masked
  <2> QED
    BY <1>1, <2>1 DEF LiveKeys
<1>2. CASE ~(s.processed = 0 /\ l.last)
  <2>1. Masked(pos) \in Int
    BY RingSizes, Remainder DEF Masked
  <2>2. CASE h.kind \in ChainKinds
    BY <1>2, <2>1, <2>2, ChainKeyRange DEF KeyAt, KeysOf, LiveKeys
  <2>3. CASE h.kind \in Bucket4Kinds
    BY <1>2, <2>1, <2>3, FourKey, KindsApart DEF KeyAt, KeysOf, LiveKeys
  <2>4. CASE h.kind \notin ChainKinds \cup Bucket4Kinds
    BY <1>2, <2>1, <2>4, FiveKey DEF KeyAt, KeysOf, LiveKeys
  <2> QED
    BY <2>2, <2>3, <2>4
<1> QED
  BY <1>1, <1>2
(* A table of the kind with the flag, tidy up to a limit. *)
Neat(kind, x, ready, K, limit) == Table(kind, x) /\ x.ready = ready /\ Tidy(x, K, limit)

(* Several positions of the block that rise, stored in a table of any      *)
(* kind.                                                                   *)
LEMMA StoredNeat ==
  ASSUME DataOK, NEW P, NEW fam, Profile(P, fam, h.kind), NEW ready, NEW K,
         h.kind \in BucketKinds \cup ChainKinds => K \in SUBSET KeysOf(h.kind),
         NEW low \in Int, NEW high \in Int, low <= high,
         NEW g, Neat(h.kind, g, ready, K, low), NEW ps, Rises(ps, low, high),
         h.kind = "h5b6u16" => low >= 0 /\ high <= U16Size,
         h.kind \in ChainKinds => \A k \in 1 .. Len(ps) :
                                    ps[k] >= 0 /\ ChainKey(Masked(ps[k])) \in K,
         NEW hh, Stored(fam, g, ps, hh)
  PROVE  Neat(h.kind, hh, ready, K, high)
<1> DEFINE kind == h.kind
<1>0. \A masked \in Maskings : masked \in BOOLEAN
  BY DEF Maskings
<1>1. CASE fam = "quick"
  <2>1. kind \in QuickKinds
    BY <1>1 DEF Profile, QuickKinds
  <2>2. g \in NeatTable(QuickRec(kind), ready, K, low)
    BY <2>1, KindsApart DEF Neat, Table, NeatTable
  <2>3. PICK masked \in BOOLEAN, narrow \in BOOLEAN, n \in {5, 7}, sweep \in {1, 2, 4} :
          hh = QuickAll(g, ps, masked, narrow, n, sweep)
    BY <1>0, <1>1 DEF Stored
  <2>4. hh \in NeatTable(QuickRec(kind), ready, K, high)
    BY <2>1, <2>2, <2>3, QuickAllNeat
  <2> QED
    BY <2>1, <2>4 DEF Neat, Table, NeatTable
<1>2. CASE fam = "four"
  <2>1. kind \in Bucket4Kinds /\ kind \in BucketKinds
    BY <1>2, KindsApart DEF Profile
  <2>2. g \in NeatTable(BucketRec(kind), ready, K, low) /\ K \in SUBSET (0 .. BucketKeys - 1)
    BY <2>1, KindsApart DEF Neat, Table, NeatTable, KeysOf
  <2>3. PICK masked \in BOOLEAN : hh = Bucket4All(g, ps, masked, kind = "h5b6u16")
    BY <1>0, <1>2 DEF Stored
  <2>4. PICK narrow \in BOOLEAN : narrow = (kind = "h5b6u16")
    OBVIOUS
  <2>5. hh \in NeatTable(BucketRec(kind), ready, K, high)
    BY <2>1, <2>2, <2>3, <2>4, FourAllNeat
  <2> QED
    BY <2>1, <2>5 DEF Neat, Table, NeatTable
<1>3. CASE fam = "five"
  <2>1. kind \in PlainKinds \cup CountedKinds /\ kind \in BucketKinds
    BY <1>3, KindsApart DEF Profile
  <2>2. g \in NeatTable(BucketRec(kind), ready, K, low) /\ K \in SUBSET (0 .. BucketKeys - 1)
    BY <2>1, KindsApart DEF Neat, Table, NeatTable, KeysOf
  <2>3. PICK masked \in BOOLEAN : hh = Bucket5All(g, ps, masked)
    BY <1>0, <1>3 DEF Stored
  <2>5. hh \in NeatTable(BucketRec(kind), ready, K, high)
    BY <2>1, <2>2, <2>3, FiveAllNeat
  <2> QED
    BY <2>1, <2>5 DEF Neat, Table, NeatTable
<1>4. CASE fam = "tagged"
  <2>1. kind \in TaggedKinds /\ kind \in BucketKinds
    BY <1>4, KindsApart DEF Profile
  <2>2. g \in NeatTable(BucketRec(kind), ready, K, low) /\ K \in SUBSET (0 .. BucketKeys - 1)
    BY <2>1, KindsApart DEF Neat, Table, NeatTable, KeysOf
  <2>3. PICK masked \in BOOLEAN : hh = TaggedAll(g, ps, masked)
    BY <1>0, <1>4 DEF Stored
  <2>5. hh \in NeatTable(BucketRec(kind), ready, K, high)
    BY <2>1, <2>2, <2>3, TaggedAllNeat
  <2> QED
    BY <2>1, <2>5 DEF Neat, Table, NeatTable
<1>5. CASE fam = "chain"
  <2>1. kind \in ChainKinds
    BY <1>5 DEF Profile
  <2>2. PICK b \in {1, NumBanks}, n \in {U16Size, BankSize} : g \in ChainRec(kind, b, n)
    BY <2>1, KindsApart DEF Neat, Table
  <2>3. /\ g \in NeatTable(ChainRec(kind, b, n), ready, K, low) /\ K \in SUBSET (0 .. ChainKeys - 1)
        /\ b \in Nat \ {0} /\ n \in Nat \ {0}
    BY <2>1, <2>2, ChainSizes DEF Neat, NeatTable, KeysOf
  <2>4. hh = ChainAll(g, ps)
    BY <1>5 DEF Stored
  <2>5. hh \in NeatTable(ChainRec(kind, b, n), ready, K, high)
    BY <2>1, <2>3, <2>4, ChainAllNeat
  <2> QED
    BY <2>1, <2>2, <2>5 DEF Neat, Table, NeatTable
<1> QED
  BY <1>1, <1>2, <1>3, <1>4, <1>5 DEF Profile

(* What tidiness reads of a table. *)
LEMMA SameBuckets ==
  ASSUME NEW kind \in BucketKinds, NEW x, NEW y \in BucketRec(kind), NEW ready, NEW K, NEW limit,
         Neat(kind, x, ready, K, limit), y.ready = x.ready, y.num = x.num, y.slots = x.slots
  PROVE  Neat(kind, y, ready, K, limit)
<1>1. x \in BucketRec(kind) /\ Tidy(x, K, limit)
  BY KindsApart DEF Neat, Table
<1>2. \A key : Newest(x, key) = Newest(y, key) /\ NewestTagged(x, key) = NewestTagged(y, key)
  BY NewestIs
<1>3. Tidy(y, K, limit)
  BY <1>1, <1>2, BucketTidy
<1> QED
  BY <1>1, <1>3 DEF Neat, Table

(* The flag for a position past 2^32 changes nothing else. *)
LEMMA WrapNeat ==
  ASSUME NEW kind, NEW x, NEW ready, NEW K, NEW limit, Neat(kind, x, ready, K, limit),
         NEW noWrap \in BOOLEAN
  PROVE  Neat(kind, WithWrap(x, noWrap), ready, K, limit)
<1> DEFINE y == WithWrap(x, noWrap)
<1>1. CASE kind \in QuickKinds
  <2>1. x \in QuickRec(kind)
    BY <1>1, KindsApart DEF Neat, Table
  <2>2. y \in QuickRec(kind) /\ y.ready = x.ready
    BY <2>1 DEF QuickRec, WithWrap
  <2>3. Tidy(y, K, limit)
    BY <1>1, <2>2, QuickTidy
  <2> QED
    BY <1>1, <2>2, <2>3 DEF Neat, Table
<1>2. CASE kind \in BucketKinds
  <2>1. x \in BucketRec(kind)
    BY <1>2, KindsApart DEF Neat, Table
  <2>2. y \in BucketRec(kind) /\ y.ready = x.ready /\ y.num = x.num /\ y.slots = x.slots
    BY <2>1 DEF BucketRec, WithWrap
  <2> QED
    BY <1>2, <2>2, SameBuckets
<1>3. CASE kind \in ChainKinds
  <2>1. PICK b \in {1, NumBanks}, n \in {U16Size, BankSize} : x \in ChainRec(kind, b, n)
    BY <1>3, KindsApart DEF Neat, Table
  <2>2. y \in ChainRec(kind, b, n) /\ y.ready = x.ready /\ y.addr = x.addr /\ y.head = x.head
        /\ y.banks = x.banks
    BY <2>1 DEF ChainRec, WithWrap
  <2>3. Chained(x, K, limit)
    BY <1>3, <2>1, ChainTidy DEF Neat
  <2>4. Chained(y, K, limit)
    BY <2>2, <2>3 DEF Chained, Linked, BankSlots
  <2> QED
    BY <1>3, <2>1, <2>2, <2>4, ChainTidy DEF Neat, Table
<1> QED
  BY <1>1, <1>2, <1>3 DEF Neat, Table

(* The counts of a matcher. *)
SameTable(kind, x, y) ==
    /\ y \in BucketRec(kind)
    /\ y.ready = x.ready /\ y.num = x.num /\ y.slots = x.slots

LEMMA ZeroInt == 0 \in Int
OBVIOUS

LEMMA RejectsPut ==
  ASSUME NEW kind, NEW x \in BucketRec(kind), NEW n \in Int, NEW y, y = [x EXCEPT !.rejects = n]
  PROVE  SameTable(kind, x, y)
BY DEF BucketRec, SameTable

LEMMA StoresPut ==
  ASSUME NEW kind, NEW x \in BucketRec(kind), NEW n \in Int, NEW y, y = [x EXCEPT !.stores = n]
  PROVE  SameTable(kind, x, y)
BY DEF BucketRec, SameTable

LEMMA BusyCallsPut ==
  ASSUME NEW kind, NEW x \in BucketRec(kind), NEW n \in Int, NEW y, y = [x EXCEPT !.busyCalls = n]
  PROVE  SameTable(kind, x, y)
BY DEF BucketRec, SameTable

(* Counting changes nothing else. *)
LEMMA CountedNeat ==
  ASSUME NEW kind \in BucketKinds, NEW x, NEW ready, NEW K, NEW limit,
         Neat(kind, x, ready, K, limit), NEW y,
         \/ \E n \in Int : y = [x EXCEPT !.stores = n]
         \/ \E n \in Int : y = [x EXCEPT !.rejects = n]
         \/ \E n \in Int : y = [x EXCEPT !.busyCalls = n, !.rejects = 0, !.stores = 0]
  PROVE  Neat(kind, y, ready, K, limit)
<1>1. x \in BucketRec(kind)
  BY KindsApart DEF Neat, Table
<1>2. SameTable(kind, x, y)
  <2>0. 0 \in Int
    BY ZeroInt, Zenon
  <2>1. CASE \E n \in Int : y = [x EXCEPT !.stores = n]
    BY <1>1, <2>1, StoresPut
  <2>2. CASE \E n \in Int : y = [x EXCEPT !.rejects = n]
    BY <1>1, <2>2, RejectsPut
  <2>3. CASE \E n \in Int : y = [x EXCEPT !.busyCalls = n, !.rejects = 0, !.stores = 0]
    <3>1. PICK n \in Int : y = [x EXCEPT !.busyCalls = n, !.rejects = 0, !.stores = 0]
      BY <2>3
    <3>7. PICK v : v = [x EXCEPT !.busyCalls = n]
      OBVIOUS
    <3>8. PICK w : w = [v EXCEPT !.rejects = 0]
      OBVIOUS
    <3>9. PICK z : z = [w EXCEPT !.stores = 0]
      OBVIOUS
    <3>2. v = [x EXCEPT !.busyCalls = n] /\ w = [v EXCEPT !.rejects = 0] /\ z = [w EXCEPT !.stores = 0]
      BY <3>7, <3>8, <3>9
    <3>3. SameTable(kind, x, v)
      BY <1>1, <3>2, BusyCallsPut
    <3>4. SameTable(kind, v, w)
      <4>1. v \in BucketRec(kind)
        BY <3>3 DEF SameTable
      <4> QED
        BY <4>1, <2>0, <3>8, RejectsPut
    <3>5. SameTable(kind, w, z)
      <4>1. w \in BucketRec(kind)
        BY <3>4 DEF SameTable
      <4> QED
        BY <4>1, <2>0, <3>9, StoresPut
    <3>6. y = z
      BY ONLY <3>1, <3>2, <1>1 DEF BucketRec
    <3> QED
      BY <3>3, <3>4, <3>5, <3>6 DEF SameTable
  <2> QED
    BY <2>1, <2>2, <2>3
<1> QED
  BY <1>2, SameBuckets DEF SameTable

-----------------------------------------------------------------------------
(* Resets *)
LEMMA NothingFalls ==
  ASSUME NEW a, NEW limit
  PROVE  /\ Falls(RunsUp(0, a), limit)
         /\ Falls(RunsDown(CounterSize - 1, a), limit)
<1>1. Min({0, BlockSize}) = 0
  BY BucketSizes, MinTwo
<1>2. CounterSize - 1 - (CounterSize - 1) = 0
  BY BucketSizes
<1>3. DOMAIN RunsUp(0, a) = {}
  BY <1>1 DEF RunsUp
<1>4. DOMAIN RunsDown(CounterSize - 1, a) = {}
  BY <1>1, <1>2 DEF RunsDown
<1> QED
  BY <1>3, <1>4 DEF Falls

(* A reset, partial or full, leaves a tidy table for the keys of the       *)
(* stream.                                                                 *)
LEMMA QuickCleared ==
  ASSUME h.kind \in QuickKinds, Table(h.kind, h), NEW n, NEW sweep, NEW pair, NEW K, NEW limit
  PROVE  Neat(h.kind, QuickReset(h, n, sweep, pair), TRUE, K, limit)
<1>1. h \in QuickRec(h.kind)
  BY KindsApart DEF Table
<1> DEFINE y == QuickReset(h, n, sweep, pair)
           keys  == {HashAt(i, n, QuickSlots) : i \in 0 .. l.posEnd - 1}
           slots == UNION {KeySlots(pair * (key \div pair) + p, sweep) :
                          key \in keys, p \in 0 .. pair - 1}
           b == [k \in DOMAIN h.buckets |->
                     IF /\ s.processed = 0 /\ l.last /\ l.posEnd <= QuickPartial
                        /\ k \notin slots
                     THEN h.buckets[k] ELSE 0]
<1>2. y = [h EXCEPT !.ready = TRUE, !.everWrapped = FALSE, !.buckets = b]
  BY DEF QuickReset
<1>3. b \in [0 .. QuickSlots - 1 -> Int]
  <2>1. h.buckets \in [0 .. QuickSlots - 1 -> Int]
    BY <1>1 DEF QuickRec
  <2>5. \A k \in 0 .. QuickSlots - 1 : h.buckets[k] \in Int
    BY ONLY <2>1
  <2> DEFINE keep(k) == s.processed = 0 /\ l.last /\ l.posEnd <= QuickPartial /\ k \notin slots
  <2> HIDE DEF slots
  <2>4. DOMAIN h.buckets = 0 .. QuickSlots - 1
    BY <2>1
  <2>2. b = [k \in 0 .. QuickSlots - 1 |-> IF keep(k) THEN h.buckets[k] ELSE 0]
    BY ONLY <2>4 DEF b, keep
  <2> HIDE DEF keep
  <2>3. ASSUME NEW k \in 0 .. QuickSlots - 1 PROVE (IF keep(k) THEN h.buckets[k] ELSE 0) \in Int
    <3>1. h.buckets[k] \in Int /\ 0 \in Int
      BY ONLY <2>5, k \in 0 .. QuickSlots - 1
    <3> QED
      BY <3>1, Zenon
  <2> QED
    BY <2>2, <2>3
<1> HIDE DEF y, b
<1>4. y \in QuickRec(h.kind) /\ y.ready = TRUE
  BY <1>1, <1>2, <1>3 DEF QuickRec
<1> QED
  BY <1>4, QuickTidy DEF Neat, Table, y

LEMMA BucketCleared ==
  ASSUME h.kind \in BucketKinds, Table(h.kind, h), NEW keys, NEW K, NEW limit \in Int,
         K \in SUBSET (0 .. BucketKeys - 1), s.processed = 0 /\ l.last => K \subseteq keys,
         NEW empty, empty = IF h.kind \in TaggedKinds THEN CounterSize - 1 ELSE 0
  PROVE  Neat(h.kind, BucketReset(h, keys, empty), TRUE, K, limit)
<1>1. h \in BucketRec(h.kind)
  BY KindsApart DEF Table
<1> DEFINE y == BucketReset(h, keys, empty)
           partial == s.processed = 0 /\ l.last /\ l.posEnd <= BucketPartial
           a == [key \in DOMAIN h.num |-> IF partial /\ key \notin keys THEN h.num[key] ELSE empty]
<1>2. y = [h EXCEPT !.ready = TRUE, !.everWrapped = FALSE, !.stores = 0, !.rejects = 0,
                    !.busyCalls = 0, !.num = a]
  BY DEF BucketReset
<1>3. empty \in 0 .. CounterSize - 1
  BY BucketSizes
<1>4. a \in [0 .. BucketKeys - 1 -> 0 .. CounterSize - 1] /\ \A key \in K : a[key] = empty
  <2>1. h.num \in [0 .. BucketKeys - 1 -> 0 .. CounterSize - 1]
    BY <1>1 DEF BucketRec
  <2>2. a \in [0 .. BucketKeys - 1 -> 0 .. CounterSize - 1]
    BY <1>3, <2>1
  <2>3. ASSUME NEW key \in K PROVE a[key] = empty
    <3>1. key \in DOMAIN h.num /\ (partial => key \in keys)
      BY <2>1
    <3> QED
      BY <3>1
  <2> QED
    BY <2>2, <2>3
<1> HIDE DEF y, a
<1>5. y \in BucketRec(h.kind) /\ y.ready = TRUE /\ y.num = a
  <2>1. a \in [0 .. BucketKeys - 1 -> 0 .. CounterSize - 1]
    BY <1>4
  <2> QED
    <3>1. PICK z : z = [h EXCEPT !.ready = TRUE, !.everWrapped = FALSE, !.num = a]
      OBVIOUS
    <3>2. PICK u, w : u = [z EXCEPT !.stores = 0] /\ w = [u EXCEPT !.rejects = 0]
      OBVIOUS
    <3>3. z \in BucketRec(h.kind) /\ z.ready = TRUE /\ z.num = a
      BY <1>1, <2>1, <3>1 DEF BucketRec
    <3>6. u \in BucketRec(h.kind) /\ u.ready = TRUE /\ u.num = a
      BY <3>2, <3>3 DEF BucketRec
    <3>4. w \in BucketRec(h.kind) /\ w.ready = TRUE /\ w.num = a
      BY <3>2, <3>6 DEF BucketRec
    <3>5. y = [w EXCEPT !.busyCalls = 0]
      BY <1>1, <1>2, <3>1, <3>2 DEF BucketRec
    <3> QED
      BY <3>4, <3>5 DEF BucketRec
<1>6. \A key \in K : IF h.kind \in TaggedKinds THEN Falls(NewestTagged(y, key), limit)
                     ELSE Falls(Newest(y, key), limit)
  <2> SUFFICES ASSUME NEW key \in K
               PROVE  IF h.kind \in TaggedKinds THEN Falls(NewestTagged(y, key), limit)
                      ELSE Falls(Newest(y, key), limit)
    OBVIOUS
  <2>1. y.num[key] = empty
    BY <1>4, <1>5
  <2>2. Newest(y, key) = RunsUp(empty, y.slots[key])
        /\ NewestTagged(y, key) = RunsDown(empty, y.slots[key])
    BY <2>1, NewestIs
  <2> QED
    BY <2>2, NothingFalls
<1>7. Tidy(y, K, limit)
  BY <1>5, <1>6, BucketTidy
<1> QED
  BY <1>5, <1>7 DEF Neat, Table, y

LEMMA ChainCleared ==
  ASSUME h.kind \in ChainKinds, Table(h.kind, h), Linked(h), NEW threshold, NEW K, NEW limit \in Int,
         K \in SUBSET (0 .. ChainKeys - 1),
         s.processed = 0 /\ l.last => K \subseteq {ChainKey(i) : i \in 0 .. l.posEnd - 1}
  PROVE  Neat(h.kind, ChainReset(h, threshold), TRUE, K, limit)
<1>1. PICK b \in {1, NumBanks}, n \in {U16Size, BankSize} : h \in ChainRec(h.kind, b, n)
  BY KindsApart DEF Table
<1> DEFINE y == ChainReset(h, threshold)
           partial == s.processed = 0 /\ l.last /\ l.posEnd <= threshold
           keys == {ChainKey(i) : i \in 0 .. l.posEnd - 1}
           A == [key \in DOMAIN h.addr |-> IF partial /\ key \notin keys THEN h.addr[key] ELSE Never]
           H == [key \in DOMAIN h.head |-> IF partial THEN h.head[key] ELSE 0]
           Y == [p \in DOMAIN h.tinyHash |-> 0]
           I == [c \in DOMAIN h.freeSlotIdx |-> 0]
<1>2. y = [h EXCEPT !.ready = TRUE, !.addr = A, !.head = H, !.tinyHash = Y, !.freeSlotIdx = I]
  BY DEF ChainReset
<1>3. n \in Nat \ {0}
  BY ChainSizes
<1>4. /\ h.addr \in [0 .. ChainKeys - 1 -> Int] /\ h.head \in [0 .. ChainKeys - 1 -> 0 .. n - 1]
      /\ h.tinyHash \in [0 .. U16Size - 1 -> Int] /\ h.freeSlotIdx \in [0 .. b - 1 -> Nat]
  BY <1>1 DEF ChainRec
<1>5. A \in [0 .. ChainKeys - 1 -> Int] /\ \A key \in K : A[key] = Never
  <2>1. A \in [0 .. ChainKeys - 1 -> Int]
    <3> DEFINE keep(key) == partial /\ key \notin keys
    <3>3. DOMAIN h.addr = 0 .. ChainKeys - 1
      BY <1>4
    <3>1. A = [key \in 0 .. ChainKeys - 1 |-> IF keep(key) THEN h.addr[key] ELSE Never]
      BY ONLY <3>3 DEF A, keep
    <3> HIDE DEF keep
    <3>2. ASSUME NEW key \in 0 .. ChainKeys - 1
          PROVE  (IF keep(key) THEN h.addr[key] ELSE Never) \in Int
      <4>1. h.addr[key] \in Int /\ Never \in Int
        <5>1. h.addr \in [0 .. ChainKeys - 1 -> Int]
          BY <1>4
        <5>2. \A k \in 0 .. ChainKeys - 1 : h.addr[k] \in Int
          BY ONLY <5>1
        <5> QED
          BY ONLY <5>2, key \in 0 .. ChainKeys - 1 DEF Never
      <4> QED
        BY <4>1, Zenon
    <3> QED
      BY <3>1, <3>2
  <2>2. ASSUME NEW key \in K PROVE A[key] = Never
    <3>1. key \in DOMAIN h.addr /\ (partial => key \in keys)
      BY <1>4
    <3> HIDE DEF keys, partial
    <3> QED
      BY <3>1
  <2> QED
    BY <2>1, <2>2
<1>6. /\ H \in [0 .. ChainKeys - 1 -> 0 .. n - 1] /\ Y \in [0 .. U16Size - 1 -> Int]
      /\ I \in [0 .. b - 1 -> Nat]
  <2> HIDE DEF partial
  <2>1. H \in [0 .. ChainKeys - 1 -> 0 .. n - 1]
    <3>1. H = [key \in 0 .. ChainKeys - 1 |-> IF partial THEN h.head[key] ELSE 0]
      BY <1>4
    <3>2. \A key \in 0 .. ChainKeys - 1 : (IF partial THEN h.head[key] ELSE 0) \in 0 .. n - 1
      <4>1. 0 \in 0 .. n - 1
        BY <1>3
      <4> QED
        BY <4>1, <1>4
    <3> QED
      BY <3>1, <3>2
  <2> QED
    BY <1>4, <2>1
<1> HIDE DEF y, A, H, Y, I
<1>7. y \in ChainRec(h.kind, b, n) /\ y.ready = TRUE /\ y.addr = A /\ y.banks = h.banks
  BY <1>1, <1>2, <1>5, <1>6 DEF ChainRec
<1>8. Chained(y, K, limit)
  BY <1>5, <1>7 DEF Chained, Linked
<1>9. Tidy(y, K, limit)
  BY <1>7, <1>8, ChainTidy
<1> QED
  BY <1>7, <1>9 DEF Neat, Table, y

(* A reset of any kind of table. *)
LEMMA ClearedNeat ==
  ASSUME DataOK, NEW P, NEW fam, Profile(P, fam, h.kind), Table(h.kind, h),
         h.kind \in ChainKinds => Linked(h), NEW hh, Cleared(fam, hh), NEW limit \in Int
  PROVE  Neat(h.kind, hh, TRUE, LiveKeys, limit)
<1>1. CASE fam = "quick"
  <2>1. h.kind \in QuickKinds
    BY <1>1 DEF Profile, QuickKinds
  <2>2. PICK n \in {5, 7}, sweep \in {1, 2, 4}, pair \in {1, 2} : hh = QuickReset(h, n, sweep, pair)
    BY <1>1 DEF Cleared
  <2> QED
    BY <2>1, <2>2, QuickCleared
<1>2. CASE fam = "four"
  <2>1. h.kind \in Bucket4Kinds /\ h.kind \in BucketKinds /\ h.kind \notin TaggedKinds
        /\ h.kind \notin ChainKinds
    BY <1>2, KindsApart DEF Profile
  <2>2. LiveKeys \in SUBSET (0 .. BucketKeys - 1)
    BY <2>1, LiveKeysIn DEF KeysOf
  <2>3. s.processed = 0 /\ l.last => LiveKeys \subseteq {Key4(i) : i \in 0 .. l.posEnd - 1}
    BY <2>1 DEF LiveKeys, KeyAt
  <2>4. hh = BucketReset(h, {Key4(i) : i \in 0 .. l.posEnd - 1}, 0)
    BY <1>2 DEF Cleared
  <2> QED
    BY <2>1, <2>2, <2>3, <2>4, BucketCleared
<1>3. CASE fam = "five"
  <2>1. h.kind \notin Bucket4Kinds /\ h.kind \in BucketKinds /\ h.kind \notin TaggedKinds
        /\ h.kind \notin ChainKinds
    BY <1>3, KindsApart DEF Profile
  <2>2. LiveKeys \in SUBSET (0 .. BucketKeys - 1)
    BY <2>1, LiveKeysIn DEF KeysOf
  <2>3. s.processed = 0 /\ l.last => LiveKeys \subseteq {Key5(i) : i \in 0 .. l.posEnd - 1}
    BY <2>1 DEF LiveKeys, KeyAt
  <2>4. hh = BucketReset(h, {Key5(i) : i \in 0 .. l.posEnd - 1}, 0)
    BY <1>3 DEF Cleared
  <2> QED
    BY <2>1, <2>2, <2>3, <2>4, BucketCleared
<1>4. CASE fam = "tagged"
  <2>1. h.kind \notin Bucket4Kinds /\ h.kind \in BucketKinds /\ h.kind \in TaggedKinds
        /\ h.kind \notin ChainKinds
    BY <1>4, KindsApart DEF Profile
  <2>2. LiveKeys \in SUBSET (0 .. BucketKeys - 1)
    BY <2>1, LiveKeysIn DEF KeysOf
  <2>3. s.processed = 0 /\ l.last => LiveKeys \subseteq {Key5(i) : i \in 0 .. l.posEnd - 1}
    BY <2>1 DEF LiveKeys, KeyAt
  <2>4. hh = BucketReset(h, {Key5(i) : i \in 0 .. l.posEnd - 1}, CounterSize - 1)
    BY <1>4 DEF Cleared
  <2> QED
    BY <2>1, <2>2, <2>3, <2>4, BucketCleared
<1>5. CASE fam = "chain"
  <2>1. h.kind \in ChainKinds
    BY <1>5 DEF Profile
  <2>2. LiveKeys \in SUBSET (0 .. ChainKeys - 1)
    BY <2>1, LiveKeysIn DEF KeysOf
  <2>3. s.processed = 0 /\ l.last => LiveKeys \subseteq {ChainKey(i) : i \in 0 .. l.posEnd - 1}
    BY <2>1 DEF LiveKeys, KeyAt
  <2>4. PICK threshold : hh = ChainReset(h, threshold)
    BY <1>5 DEF Cleared
  <2> QED
    BY <2>1, <2>2, <2>3, <2>4, ChainCleared
<1> QED
  BY <1>1, <1>2, <1>3, <1>4, <1>5 DEF Profile

-----------------------------------------------------------------------------
(* Tags *)
LEMMA MirroredFalls ==
  ASSUME NEW n \in 0 .. CounterSize - 1, NEW a \in [Slots -> Int]
  PROVE  RunsDown(CounterSize - 1 - n, Mirrored(a)) = RunsUp(n, a)
<1>1. CounterSize - 1 - n \in 0 .. CounterSize - 1 /\ CounterSize - 1 - (CounterSize - 1 - n) = n
  BY BucketSizes
<1>2. Mirrored(a) \in [Slots -> Int] /\ Mirrored(Mirrored(a)) = a
  BY MirroredSlots
<1>3. RunsDown(CounterSize - 1 - n, Mirrored(a))
        = RunsUp(CounterSize - 1 - (CounterSize - 1 - n), Mirrored(Mirrored(a)))
  BY <1>1, <1>2, DownIsUp
<1> QED
  BY <1>1, <1>2, <1>3

(* h5 copied to h6 when the matcher is promoted: the same entries, their   *)
(* tags, and the count that runs the other way.                            *)
LEMMA CopyNeat ==
  ASSUME DataOK, NEW kind \in CountedKinds, NEW to \in TaggedKinds, NEW x \in BucketRec(kind)
  PROVE  /\ CopyTo(x, to) \in BucketRec(to) /\ CopyTo(x, to).ready = x.ready
         /\ \A key \in 0 .. BucketKeys - 1 : NewestTagged(CopyTo(x, to), key) = Newest(x, key)
<1> DEFINE y == CopyTo(x, to)
           N == [key \in DOMAIN x.num |-> CounterSize - 1 - x.num[key]]
           S == [key \in DOMAIN x.slots |-> [k \in Slots |-> x.slots[key][BlockSize - 1 - k]]]
           G == [key \in DOMAIN x.tags |->
                   [k \in Slots |-> Tag5(Masked(x.slots[key][BlockSize - 1 - k]))]]
<1>1. y = [x EXCEPT !.kind = to, !.num = N, !.slots = S, !.tags = G,
                    !.stores = 0, !.rejects = 0, !.busyCalls = 0]
  BY DEF CopyTo
<1>2. /\ x.num \in [0 .. BucketKeys - 1 -> 0 .. CounterSize - 1]
      /\ x.slots \in [0 .. BucketKeys - 1 -> [Slots -> Int]]
      /\ x.tags \in [0 .. BucketKeys - 1 -> [Slots -> Int]]
      /\ DOMAIN x.num = 0 .. BucketKeys - 1 /\ DOMAIN x.slots = 0 .. BucketKeys - 1
      /\ DOMAIN x.tags = 0 .. BucketKeys - 1
  BY DEF BucketRec
<1>3. ASSUME NEW key \in 0 .. BucketKeys - 1
      PROVE  /\ N[key] = CounterSize - 1 - x.num[key] /\ N[key] \in 0 .. CounterSize - 1
             /\ S[key] = Mirrored(x.slots[key]) /\ S[key] \in [Slots -> Int]
             /\ G[key] \in [Slots -> Int]
  <2>1. x.num[key] \in 0 .. CounterSize - 1 /\ x.slots[key] \in [Slots -> Int]
    BY <1>2
  <2>2. N[key] = CounterSize - 1 - x.num[key] /\ N[key] \in 0 .. CounterSize - 1
    BY <1>2, <2>1, BucketSizes
  <2>3. S[key] = Mirrored(x.slots[key])
    BY <1>2 DEF Mirrored
  <2>4. S[key] \in [Slots -> Int]
    BY <2>1, <2>3, MirroredSlots
  <2>5. G[key] \in [Slots -> Int]
    <3>1. G[key] = [k \in Slots |-> Tag5(Masked(x.slots[key][BlockSize - 1 - k]))]
      BY <1>2
    <3>2. ASSUME NEW k \in Slots
          PROVE  Tag5(Masked(x.slots[key][BlockSize - 1 - k])) \in Int
      <4>1. BlockSize - 1 - k \in Slots
        BY BucketSizes DEF Slots
      <4>2. x.slots[key][BlockSize - 1 - k] \in Int
        BY <2>1, <4>1
      <4>3. Masked(x.slots[key][BlockSize - 1 - k]) \in Int
        <5>1. RingSize \in Nat \ {0}
          BY RingSizes
        <5>2. x.slots[key][BlockSize - 1 - k] % RingSize \in 0 .. RingSize - 1
          BY ONLY <4>2, <5>1, Remainder
        <5> QED
          BY <5>1, <5>2 DEF Masked
      <4> QED
        BY <4>3, FiveKey
    <3> QED
      BY <3>1, <3>2
  <2> QED
    BY <2>2, <2>3, <2>4, <2>5
<1>4. /\ N \in [0 .. BucketKeys - 1 -> 0 .. CounterSize - 1]
      /\ S \in [0 .. BucketKeys - 1 -> [Slots -> Int]]
      /\ G \in [0 .. BucketKeys - 1 -> [Slots -> Int]]
  <2>1. DOMAIN N = 0 .. BucketKeys - 1 /\ DOMAIN S = 0 .. BucketKeys - 1
        /\ DOMAIN G = 0 .. BucketKeys - 1
    BY <1>2
  <2>2. N = [key \in 0 .. BucketKeys - 1 |-> N[key]] /\ S = [key \in 0 .. BucketKeys - 1 |-> S[key]]
        /\ G = [key \in 0 .. BucketKeys - 1 |-> G[key]]
    BY <1>2
  <2> HIDE DEF N, S, G
  <2>3. N \in [0 .. BucketKeys - 1 -> 0 .. CounterSize - 1]
    BY <1>3, <2>2
  <2>4. S \in [0 .. BucketKeys - 1 -> [Slots -> Int]]
    BY <1>3, <2>2
  <2>5. G \in [0 .. BucketKeys - 1 -> [Slots -> Int]]
    BY <1>3, <2>2
  <2> QED
    BY <2>3, <2>4, <2>5
<1> HIDE DEF y, N, S, G
<1>5. y \in BucketRec(to) /\ y.ready = x.ready /\ y.num = N /\ y.slots = S
  <2>1. PICK u : u = [x EXCEPT !.kind = to, !.num = N]
    OBVIOUS
  <2>2. PICK v : v = [u EXCEPT !.slots = S, !.tags = G]
    OBVIOUS
  <2>3. PICK w : w = [v EXCEPT !.busyCalls = 0]
    OBVIOUS
  <2>4. PICK z : z = [w EXCEPT !.rejects = 0]
    OBVIOUS
  <2>5. u \in BucketRec(to) /\ u.ready = x.ready /\ u.num = N
    BY <1>4, <2>1 DEF BucketRec
  <2>6. v \in BucketRec(to) /\ v.ready = x.ready /\ v.num = N /\ v.slots = S
    BY <1>4, <2>2, <2>5 DEF BucketRec
  <2>7. SameTable(to, v, w)
    BY <2>3, <2>6, ZeroInt, BusyCallsPut
  <2>8. SameTable(to, w, z)
    BY <2>4, <2>7, ZeroInt, RejectsPut DEF SameTable
  <2>9. y = [z EXCEPT !.stores = 0]
    BY <1>1, <2>1, <2>2, <2>3, <2>4 DEF BucketRec
  <2>10. SameTable(to, z, y)
    BY <2>8, <2>9, ZeroInt, StoresPut DEF SameTable
  <2> QED
    BY <2>6, <2>7, <2>8, <2>10 DEF SameTable
<1>6. ASSUME NEW key \in 0 .. BucketKeys - 1
      PROVE  NewestTagged(y, key) = Newest(x, key)
  <2>1. NewestTagged(y, key) = RunsDown(CounterSize - 1 - x.num[key], Mirrored(x.slots[key]))
    BY <1>3, <1>5, NewestIs
  <2>2. x.num[key] \in 0 .. CounterSize - 1 /\ x.slots[key] \in [Slots -> Int]
    BY <1>2
  <2> QED
    BY <2>1, <2>2, MirroredFalls, NewestIs
<1> QED
  BY <1>5, <1>6 DEF y

(* Another kind of the same table. *)
LEMMA WiderKinds ==
  /\ DOMAIN Wider = {"h2u16", "h3u16", "h4u16", "h5b6u16"}
  /\ \A kind \in {"h2u16", "h3u16", "h4u16"} : kind \in QuickKinds /\ Wider[kind] \in QuickKinds
                                               /\ Wider[kind] \notin DOMAIN Wider
  /\ "h5b6u16" \in Bucket4Kinds /\ Wider["h5b6u16"] = "h5b" /\ "h5b" \in Bucket4Kinds
BY DEF Wider, QuickKinds, Bucket4Kinds

(* A promoted table is as tidy as the one before. *)
LEMMA PromotedNeat ==
  ASSUME DataOK, Table(h.kind, h), NEW n, NEW pooled \in BOOLEAN
  PROVE  LET y == Promoted(h, n, pooled)
         IN /\ Table(y.kind, y) /\ y.ready = h.ready
            /\ h.kind \in ChainKinds \/ y.kind \in ChainKinds => y = h
            /\ y.kind = "h5b6u16" => h.kind = "h5b6u16" /\ ~(n > U16Size)
            /\ h.kind \in BucketKinds => y.kind \in BucketKinds /\ KeysOf(y.kind) = KeysOf(h.kind)
                                         /\ \A i : KeyAt(y.kind, i) = KeyAt(h.kind, i)
            /\ h.kind \in QuickKinds => y.kind \in QuickKinds
            /\ \A K \in SUBSET KeysOf(h.kind) : \A limit \in Int :
                 Tidy(h, K, limit) => Tidy(y, K, limit)
<1> DEFINE y == Promoted(h, n, pooled)
<1> DEFINE f == h.kind = "h2u16" /\ pooled
<1>3. f \in BOOLEAN
  OBVIOUS
<1>4. y = CASE h.kind = "h6u" /\ h.ready /\ h.busyCalls >= 1 -> CopyTo(h, "h6")
            [] h.kind = "h6b5u" /\ h.ready /\ h.busyCalls >= 3 -> CopyTo(h, "h6b5")
            [] h.kind \in DOMAIN Wider /\ n > U16Size ->
                 [h EXCEPT !.kind = Wider[h.kind], !.everWrapped = f]
            [] OTHER -> h
  BY Zenon DEF Promoted
<1> HIDE DEF f
<1>1. CASE y = h
  <2>1. y.kind = "h5b6u16" => ~(n > U16Size)
    <3>1. ASSUME y.kind = "h5b6u16", n > U16Size PROVE FALSE
      <4>1. y.kind = "h5b"
        <5>2. h \in BucketRec(h.kind)
          BY <1>1, <3>1, WiderKinds, KindsApart DEF Table
        <5>3. y = [h EXCEPT !.kind = "h5b", !.everWrapped = f]
          BY <1>1, <1>4, <3>1, WiderKinds
        <5> QED
          BY <1>3, <5>2, <5>3 DEF BucketRec
      <4> QED
        BY <3>1, <4>1
    <3> QED
      BY <3>1
  <2> HIDE DEF y
  <2>2. /\ Table(y.kind, y) /\ y.ready = h.ready
        /\ h.kind \in BucketKinds => y.kind \in BucketKinds
        /\ h.kind \in QuickKinds => y.kind \in QuickKinds
    BY <1>1
  <2> QED
    BY <1>1, <2>1, <2>2 DEF y
<1>2. CASE y # h
  <2>1. \/ h.kind \in CountedKinds /\ \E to \in TaggedKinds : y = CopyTo(h, to)
        \/ /\ h.kind \in DOMAIN Wider
           /\ y = [h EXCEPT !.kind = Wider[h.kind], !.everWrapped = f]
    <3>1. CASE h.kind = "h6u" /\ h.ready /\ h.busyCalls >= 1
      <4>1. y = CopyTo(h, "h6")
        BY <1>4, <3>1, WiderKinds
      <4> QED
        BY <3>1, <4>1 DEF CountedKinds, TaggedKinds
    <3>2. CASE h.kind = "h6b5u" /\ h.ready /\ h.busyCalls >= 3
      <4>1. y = CopyTo(h, "h6b5")
        BY <1>4, <3>2, WiderKinds
      <4> QED
        BY <3>2, <4>1 DEF CountedKinds, TaggedKinds
    <3>3. CASE /\ ~(h.kind = "h6u" /\ h.ready /\ h.busyCalls >= 1)
               /\ ~(h.kind = "h6b5u" /\ h.ready /\ h.busyCalls >= 3)
      <4>1. h.kind \in DOMAIN Wider /\ n > U16Size
        BY <1>2, <1>4, <3>3
      <4> QED
        BY <1>4, <3>3, <4>1
    <3> QED
      BY <3>1, <3>2, <3>3
  <2> HIDE DEF y
  <2>2. CASE h.kind \in CountedKinds /\ \E to \in TaggedKinds : y = CopyTo(h, to)
    <3>1. PICK to \in TaggedKinds : y = CopyTo(h, to)
      BY <2>2
    <3>2. h.kind \in BucketKinds /\ h \in BucketRec(h.kind)
      BY <2>2, KindsApart DEF Table
    <3>3. y \in BucketRec(to) /\ y.ready = h.ready
          /\ \A key \in 0 .. BucketKeys - 1 : NewestTagged(y, key) = Newest(h, key)
      BY <2>2, <3>1, <3>2, CopyNeat
    <3>4. y.kind = to
      BY <3>3 DEF BucketRec
    <3>5. /\ to \in BucketKinds /\ h.kind \notin TaggedKinds /\ h.kind \notin Bucket4Kinds
          /\ to \notin Bucket4Kinds /\ h.kind \notin ChainKinds /\ to \notin ChainKinds
          /\ h.kind \notin QuickKinds /\ to # "h5b6u16"
      BY <2>2, KindsApart, WiderKinds
    <3>6. KeysOf(h.kind) = 0 .. BucketKeys - 1 /\ KeysOf(to) = 0 .. BucketKeys - 1
          /\ \A i : KeyAt(to, i) = KeyAt(h.kind, i)
      BY <3>5 DEF KeysOf, KeyAt
    <3>7. ASSUME NEW K \in SUBSET KeysOf(h.kind), NEW limit \in Int, Tidy(h, K, limit)
          PROVE  Tidy(y, K, limit)
      <4>1. \A key \in K : Falls(Newest(h, key), limit)
        BY <3>2, <3>5, <3>7, BucketTidy
      <4>2. \A key \in K : Falls(NewestTagged(y, key), limit)
        BY <3>3, <3>6, <4>1
      <4> QED
        BY <3>3, <3>5, <4>2, BucketTidy
    <3> QED
      BY <3>2, <3>3, <3>4, <3>5, <3>6, <3>7 DEF Table, y
  <2>3. CASE /\ h.kind \in DOMAIN Wider
             /\ y = [h EXCEPT !.kind = Wider[h.kind], !.everWrapped = f]
    <3>1. CASE h.kind = "h5b6u16"
      <4>1. h.kind \in BucketKinds /\ h \in BucketRec(h.kind)
        BY <3>1, WiderKinds, KindsApart DEF Table
      <4>2. y = [h EXCEPT !.kind = "h5b", !.everWrapped = f]
        BY <2>3, <3>1, WiderKinds
      <4>3. y \in BucketRec("h5b") /\ y.ready = h.ready /\ y.num = h.num /\ y.slots = h.slots
            /\ y.kind = "h5b"
        BY <1>3, <4>1, <4>2 DEF BucketRec
      <4>4. /\ "h5b" \in BucketKinds /\ h.kind \notin TaggedKinds /\ "h5b" \notin TaggedKinds
            /\ h.kind \in Bucket4Kinds /\ "h5b" \in Bucket4Kinds /\ h.kind \notin ChainKinds
            /\ "h5b" \notin ChainKinds /\ h.kind \notin QuickKinds
        BY <3>1, WiderKinds, KindsApart
      <4>5. KeysOf(h.kind) = KeysOf("h5b") /\ \A i : KeyAt("h5b", i) = KeyAt(h.kind, i)
        BY <4>4 DEF KeysOf, KeyAt
      <4>6. \A key : Newest(y, key) = Newest(h, key)
        BY <4>3, NewestIs
      <4>7. \A K : \A limit : Tidy(h, K, limit) => Tidy(y, K, limit)
        BY <4>1, <4>3, <4>4, <4>6, BucketTidy
      <4>8. y.kind # "h5b6u16"
        BY <4>3
      <4> QED
        BY <4>1, <4>3, <4>4, <4>5, <4>7, <4>8 DEF Table, y
    <3>2. CASE h.kind # "h5b6u16"
      <4>1. h.kind \in QuickKinds /\ Wider[h.kind] \in QuickKinds /\ Wider[h.kind] \notin DOMAIN Wider
        BY <2>3, <3>2, WiderKinds
      <4>2. h \in QuickRec(h.kind)
        BY <4>1, KindsApart DEF Table
      <4>3. y \in QuickRec(Wider[h.kind]) /\ y.ready = h.ready /\ y.kind = Wider[h.kind]
        BY <1>3, <2>3, <4>2 DEF QuickRec
      <4>4. \A K : \A limit : Tidy(y, K, limit)
        BY <4>1, <4>3, QuickTidy
      <4>5. /\ h.kind \notin BucketKinds /\ h.kind \notin ChainKinds /\ y.kind \notin ChainKinds
            /\ y.kind # "h5b6u16"
        BY <4>1, <4>3, KindsApart, WiderKinds
      <4> QED
        BY <4>1, <4>3, <4>4, <4>5 DEF Table, y
    <3> QED
      BY <3>1, <3>2
  <2> QED
    BY <2>1, <2>2, <2>3
<1> QED
  BY <1>1, <1>2
===============================================================================
