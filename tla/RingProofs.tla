----------------------------- MODULE RingProofs -----------------------------
(***************************************************************************)
(* Proofs about the two ring buffers.                                      *)
(*                                                                         *)
(* DecoderRing, for every window, ring size, slack, gap, store width and   *)
(* word length that meet DecoderRingAssumption, and for streams of any     *)
(* length: the history a reference may use is intact, maxDistance is       *)
(* exact, and the caller receives every byte once and in order.            *)
(*                                                                         *)
(* EncoderRing, for every size of the ring, of its tail and of the         *)
(* position's flag that meets EncoderRingAssumption: the window is intact, *)
(* and the bytes that hashing may load behind the input are quiet.         *)
(***************************************************************************)
EXTENDS DecoderRing, EncoderRing, FiniteSetTheorems, WellFoundedInduction, TLAPS

(* The decoder's output ring *)

(* Bytes of the laps that are over. *)
Base == rt * size

Slots == 0 .. Window + Slack - 1

(* States in which the write position is inside the ring. *)
Settled == {"header", "body", "literals", "distance", "wrapCopy", "compound",
            "uncompressed", "metaDone", "done"}

Types ==
    /\ size \in {0} \cup Sizes /\ pos \in Nat /\ rt \in Nat /\ partial \in Nat
    /\ maxDist \in Nat /\ ring \in [Slots -> Int] /\ state \in States
    /\ remaining \in Int /\ left \in Nat /\ dist \in Nat /\ word \in Nat
    /\ out \in Seq(Int) /\ sent \in Nat

(* Only a ring of the window's size wraps. *)
Wrapped == rt > 0 => size = Window

(* maxDistance is the farthest a reference reaches once a lap is over, and *)
(* never more than what the first lap has.                                 *)
Reach ==
    /\ rt > 0 => maxDist = MaxBackward
    /\ rt = 0 => maxDist <= pos /\ maxDist <= MaxBackward

(* What waits to be served follows what was served. *)
Ordered == \A k \in 1 .. Len(out) : out[k] = sent + k - 1

(* What holds even after a failure. *)
Core == Types /\ Wrapped /\ Reach /\ Ordered

(* This lap up to the write position, the lap before it from the gap on. *)
ThisLap == \A k \in 0 .. pos - 1 : ring[k] = Base + k
LastLap == rt > 0 => \A k \in pos + WindowGap .. size - 1 : ring[k] = Base - size + k

(* The context bytes before the stream are there until the stream has two  *)
(* bytes of its own.                                                       *)
Zeros ==
    /\ rt = 0 /\ pos = 0 => ring[size - 2] = Zero
    /\ rt = 0 /\ pos <= 1 => ring[size - 1] = Zero

(* What was handed out ends inside this lap. *)
Handed ==
    /\ partial = sent + Len(out)
    /\ Base <= partial /\ partial <= Base + pos /\ partial <= Base + size

(* The ring as it is between two steps. *)
Sound == size >= MinRing /\ ThisLap /\ LastLap /\ Zeros /\ Handed

(* Only a command that is to be written out may stand behind the ring, by  *)
(* no more than a word; a copy in pieces has a byte to copy from.          *)
Placed ==
    /\ state \in Settled => pos < size
    /\ pos <= size + MaxWord
    /\ state \in {"wrapCopy", "postWrite2"} => pos > 0 \/ rt > 0
    /\ state = "done" => remaining >= 0

(* Before the first metablock there is no ring. *)
Blank ==
    /\ size = 0 /\ pos = 0 /\ rt = 0 /\ partial = 0 /\ out = <<>> /\ sent = 0
    /\ state = "header"

RingInv ==
    /\ Core
    /\ state = "error" \/ Blank \/ (Sound /\ Placed)

-----------------------------------------------------------------------------
(* Arithmetic and small sets *)

(* Laps and bytes: one lap more is one ring more. *)
LEMMA LapArithmetic ==
    ASSUME NEW r \in Nat, NEW s \in Nat
    PROVE  /\ r * s \in Nat
           /\ r = 0 => r * s = 0
           /\ (r + 1) * s = r * s + s
           /\ r > 0 => r * s >= s
<1>1. r * s \in Nat /\ (r = 0 => r * s = 0) /\ (r + 1) * s = r * s + s
  OBVIOUS
<1>2. ASSUME r > 0 PROVE r * s >= s
  <2> DEFINE q == r - 1
  <2>1. q \in Nat /\ r = q + 1
    BY <1>2
  <2> HIDE DEF q
  <2>2. q * s \in Nat /\ (q + 1) * s = q * s + s
    BY <2>1
  <2>3. r * s = q * s + s
    BY <2>1, <2>2
  <2> QED BY <2>2, <2>3
<1> QED BY <1>1, <1>2

(* The smaller and the larger of two. *)
LEMMA MinMaxPair ==
    ASSUME NEW a \in Int, NEW b \in Int
    PROVE  /\ Min({a, b}) = IF a <= b THEN a ELSE b
           /\ Max({a, b}) = IF a >= b THEN a ELSE b
<1>1. /\ \A x \in {a, b} : (\A y \in {a, b} : x <= y) => x = IF a <= b THEN a ELSE b
      /\ \E x \in {a, b} : \A y \in {a, b} : x <= y
  OBVIOUS
<1>2. /\ \A x \in {a, b} : (\A y \in {a, b} : x >= y) => x = IF a >= b THEN a ELSE b
      /\ \E x \in {a, b} : \A y \in {a, b} : x >= y
  OBVIOUS
<1>3. Min({a, b}) = CHOOSE x \in {a, b} : \A y \in {a, b} : x <= y
  BY DEF Min
<1>4. Max({a, b}) = CHOOSE x \in {a, b} : \A y \in {a, b} : x >= y
  BY DEF Max
<1>5. Min({a, b}) = IF a <= b THEN a ELSE b
  BY <1>1, <1>3
<1>6. Max({a, b}) = IF a >= b THEN a ELSE b
  BY <1>2, <1>4
<1> QED BY <1>5, <1>6

(* The chunk of a copy: no more than any of its three limits. *)
LEMMA MinTriple ==
    ASSUME NEW a \in Int, NEW b \in Int, NEW c \in Int
    PROVE  /\ Min({a, b, c}) \in {a, b, c}
           /\ Min({a, b, c}) <= a /\ Min({a, b, c}) <= b /\ Min({a, b, c}) <= c
<1>1. \E x \in {a, b, c} : \A y \in {a, b, c} : x <= y
  <2>1. CASE a <= b /\ a <= c
    BY <2>1
  <2>2. CASE b <= a /\ b <= c
    BY <2>2
  <2>3. CASE c <= a /\ c <= b
    BY <2>3
  <2> QED BY <2>1, <2>2, <2>3
<1>2. Min({a, b, c}) = CHOOSE x \in {a, b, c} : \A y \in {a, b, c} : x <= y
  BY DEF Min
<1> HIDE DEF Min
<1>3. /\ Min({a, b, c}) \in {a, b, c}
      /\ \A y \in {a, b, c} : Min({a, b, c}) <= y
  BY <1>1, <1>2
<1> QED BY <1>3

(* A set of naturals that is not empty has a least element, its Min. *)
LEMMA LeastIsMin ==
    ASSUME NEW T \in SUBSET Nat, T # {}
    PROVE  Min(T) \in T /\ \A y \in T : Min(T) <= y
<1> DEFINE R == {ss \in Nat \X Nat : ss[1] < ss[2]}
<1>1. IsWellFoundedOn(R, Nat)
  BY NatLessThanWellFounded DEF OpToRel
<1> HIDE DEF R
<1>2. PICK x \in T : \A y \in T : ~(<<y, x>> \in R)
  BY <1>1, WFMin
<1>3. ASSUME NEW y \in T PROVE x <= y
  <2>1. x \in Nat /\ y \in Nat
    OBVIOUS
  <2>2. y < x => <<y, x>> \in R
    BY <2>1 DEF R
  <2> QED BY <1>2, <2>1, <2>2
<1>4. Min(T) = CHOOSE z \in T : \A y \in T : z <= y
  BY DEF Min
<1> QED BY <1>3, <1>4

(* What the proofs use of the constants. *)
LEMMA RingConstants ==
    /\ Window \in Nat /\ MinRing \in Nat /\ Slack \in Nat /\ WindowGap \in Nat
    /\ Eager \in Nat /\ MaxWord \in Nat /\ MaxBackward \in Nat
    /\ 1 <= Eager /\ Eager <= WindowGap /\ WindowGap < MinRing
    /\ Eager + 2 <= MinRing /\ MaxWord < MinRing /\ MinRing <= Window
    /\ MaxWord + Eager <= Slack /\ MaxBackward = Window - WindowGap
    /\ MaxBackward > 0
BY DecoderRingAssumption DEF MaxBackward

(* A ring's size is a positive number up to the window; the next size is   *)
(* at least twice as large.                                                *)
LEMMA RingSizes ==
    /\ Window \in Sizes
    /\ \A s \in Sizes : s \in Nat /\ 1 <= s /\ s <= Window
    /\ \A s, t \in Sizes : s < t => 2 * s <= t
<1>1. Window \in Nat /\ Sizes \subseteq 1 .. Window /\ Window \in Sizes
  BY DecoderRingAssumption
<1>2. \A s, t \in Sizes : s < t => 2 * s <= t
  BY DecoderRingAssumption
<1> QED BY <1>1, <1>2

(* calculateRingBufferSize never shrinks the ring. *)
LEMMA RingForGrows ==
    ASSUME Core, size = 0 \/ size >= MinRing, NEW bytes \in Nat
    PROVE  /\ RingFor(bytes) \in Sizes /\ RingFor(bytes) >= MinRing
           /\ RingFor(bytes) >= size
           /\ size > 0 /\ RingFor(bytes) # size => RingFor(bytes) >= 2 * size
           /\ size = Window => RingFor(bytes) = Window
<1>1. size \in Nat /\ pos \in Nat /\ (size = 0 \/ size \in Sizes) /\ size <= Window
  BY RingConstants, RingSizes DEF Core, Types
<1>2. PICK lo : lo = IF size = 0 THEN MinRing ELSE size
  OBVIOUS
<1>3. lo \in Nat /\ lo >= size /\ lo >= MinRing
  BY ONLY <1>1, <1>2, RingConstants, size = 0 \/ size >= MinRing
<1>4. PICK need : need = Max({lo, pos + bytes})
  OBVIOUS
<1>5. need \in Int /\ need >= lo
  <2>1. pos + bytes \in Int /\ lo \in Int
    BY ONLY <1>1, <1>3, bytes \in Nat
  <2>2. need = IF lo >= pos + bytes THEN lo ELSE pos + bytes
    BY ONLY <1>4, <2>1, MinMaxPair
  <2> QED BY ONLY <2>1, <2>2
<1>6. PICK fits : fits = {s \in Sizes : s >= need}
  OBVIOUS
<1>7. PICK n : n = RingFor(bytes)
  OBVIOUS
<1>8. n = IF size = Window \/ fits = {} THEN Window ELSE Min(fits)
  BY <1>2, <1>4, <1>6, <1>7 DEF RingFor
<1>9. n \in Sizes /\ n >= MinRing /\ n >= size /\ (size = Window => n = Window)
  <2>1. CASE size = Window \/ fits = {}
    BY ONLY <1>1, <1>8, <2>1, RingConstants, RingSizes
  <2>2. CASE ~(size = Window \/ fits = {})
    <3>1. fits \in SUBSET Nat
      BY ONLY <1>6, RingSizes
    <3>2. Min(fits) \in fits
      BY ONLY <2>2, <3>1, LeastIsMin
    <3>3. n = Min(fits)
      BY ONLY <1>8, <2>2
    <3>4. n \in Sizes /\ n >= need
      BY ONLY <1>6, <3>2, <3>3
    <3> QED BY ONLY <1>1, <1>3, <1>5, <2>2, <3>4, RingConstants, RingSizes
  <2> QED BY <2>1, <2>2
<1>10. size > 0 /\ n # size => n >= 2 * size
  BY ONLY <1>1, <1>9, RingSizes
<1> QED BY <1>7, <1>9, <1>10

-----------------------------------------------------------------------------
(* The ring *)

(* The variables' types, as the arithmetic needs them. *)
LEMMA Numbers ==
    ASSUME Core
    PROVE  /\ size \in Nat /\ size <= Window /\ pos \in Nat /\ rt \in Nat
           /\ partial \in Nat /\ maxDist \in Nat /\ sent \in Nat /\ Len(out) \in Nat
           /\ Base \in Nat /\ (rt = 0 => Base = 0) /\ (rt > 0 => Base >= size)
           /\ (rt + 1) * size = Base + size /\ Total = Base + pos
           /\ Slots = 0 .. Window + Slack - 1 /\ ring \in [Slots -> Int]
           /\ (rt > 0 => size = Window)
<1>1. /\ size \in Nat /\ size <= Window /\ pos \in Nat /\ rt \in Nat
      /\ partial \in Nat /\ maxDist \in Nat /\ sent \in Nat /\ Len(out) \in Nat
      /\ ring \in [Slots -> Int]
  BY RingConstants, RingSizes DEF Core, Types
<1>2. /\ Base \in Nat /\ (rt = 0 => Base = 0) /\ (rt > 0 => Base >= size)
      /\ (rt + 1) * size = Base + size
  BY <1>1, LapArithmetic DEF Base
<1> QED BY <1>1, <1>2 DEF Core, Wrapped, Total, Base, Slots

(* A reference reaches what is decoded, at most the window without the gap. *)
LEMMA Distance ==
    ASSUME Core
    PROVE  /\ MaxDistance \in Nat
           /\ rt > 0 => MaxDistance = MaxBackward
           /\ rt = 0 => MaxDistance = IF pos <= MaxBackward THEN pos ELSE MaxBackward
<1>1. pos \in Nat /\ MaxBackward \in Nat /\ maxDist \in Nat /\ rt \in Nat
  BY Numbers, RingConstants
<1>2. Min({pos, MaxBackward}) = IF pos <= MaxBackward THEN pos ELSE MaxBackward
  BY ONLY <1>1, MinMaxPair
<1>3. /\ rt > 0 => maxDist = MaxBackward
      /\ rt = 0 => maxDist <= pos /\ maxDist <= MaxBackward
  BY DEF Core, Reach
<1>4. MaxDistance = IF maxDist # MaxBackward THEN Min({pos, MaxBackward}) ELSE maxDist
  BY DEF MaxDistance
<1> QED BY ONLY <1>1, <1>2, <1>3, <1>4

(* What a command may do to the variables that only control reads. *)
Control ==
    /\ state \in States /\ remaining \in Int
    /\ left \in Nat /\ dist \in Nat /\ word \in Nat

(* Writing at the position keeps both laps: the bytes are those that       *)
(* follow, and what a wide store leaves behind stays inside the gap.       *)
LEMMA PutKeeps ==
    ASSUME Core, Sound, NEW n \in Nat, NEW g \in Nat, Put(n, g),
           g < Eager, pos + n <= size + MaxWord, g = 0 \/ rt > 0 \/ pos + n >= 2,
           UNCHANGED <<size, rt, partial, out, sent>>,
           maxDist' \in {maxDist, MaxDistance}, Control'
    PROVE  Core' /\ Sound' /\ pos' = pos + n
<1>1. /\ size \in Nat /\ size <= Window /\ pos \in Nat /\ rt \in Nat
      /\ Base \in Nat /\ Total = Base + pos /\ Slots = 0 .. Window + Slack - 1
      /\ ring \in [Slots -> Int] /\ sent \in Nat /\ Len(out) \in Nat
      /\ size >= MinRing /\ partial \in Nat
  BY Numbers DEF Sound
<1>2. pos' = pos + n /\ size' = size /\ rt' = rt /\ Base' = Base
  BY DEF Put, Base
<1>3. /\ DOMAIN ring = Slots
      /\ ring' = [k \in Slots |->
           IF k \in pos .. pos + n - 1 THEN Base + k
           ELSE IF k \in pos + n .. pos + n + g - 1 THEN Stale ELSE ring[k]]
  <2>1. DOMAIN ring = Slots
    BY <1>1
  <2>2. \A k \in Slots : Total + (k - pos) = Base + k
    BY ONLY <1>1, RingConstants
  <2>3. ring' = [k \in Slots |->
           IF k \in pos .. pos + n - 1 THEN Total + (k - pos)
           ELSE IF k \in pos + n .. pos + n + g - 1 THEN Stale ELSE ring[k]]
    BY <2>1, Zenon DEF Put
  <2> QED BY ONLY <2>1, <2>2, <2>3
<1>4. /\ \A k \in Slots : k \in pos .. pos + n - 1 => ring'[k] = Base + k
      /\ \A k \in Slots : k < pos \/ k >= pos + n + g => ring'[k] = ring[k]
  BY ONLY <1>1, <1>3, RingConstants, n \in Nat, g \in Nat
<1>5. ring' \in [Slots -> Int]
  BY ONLY <1>1, <1>3, RingConstants DEF Stale
<1>6. Slots' = Slots
  BY DEF Slots
<1>7. ThisLap'
  <2> SUFFICES ASSUME NEW k \in 0 .. pos' - 1 PROVE ring'[k] = Base' + k
    BY DEF ThisLap
  <2>0. k \in 0 .. pos + n - 1
    BY <1>1, <1>2
  <2>1. k \in Slots
    BY ONLY <1>1, <2>0, RingConstants, n \in Nat, pos + n <= size + MaxWord
  <2>2. CASE k < pos
    <3>1. ring[k] = Base + k
      BY <1>1, <2>0, <2>2 DEF Sound, ThisLap
    <3> QED BY <1>2, <1>4, <2>1, <2>2, <3>1
  <2>3. CASE k >= pos
    <3>1. k \in pos .. pos + n - 1
      BY <1>1, <2>0, <2>3
    <3> QED BY <1>2, <1>4, <2>1, <3>1
  <2> QED BY <1>1, <2>0, <2>2, <2>3
<1>8. LastLap'
  <2> SUFFICES ASSUME rt > 0, NEW k \in pos + n + WindowGap .. size - 1
               PROVE  ring'[k] = Base - size + k
    BY <1>2 DEF LastLap
  <2>1. k \in Slots /\ k >= pos + n + g /\ k \in pos + WindowGap .. size - 1
    BY ONLY <1>1, RingConstants, n \in Nat, g \in Nat, g < Eager,
            k \in pos + n + WindowGap .. size - 1
  <2>2. ring[k] = Base - size + k
    BY <2>1 DEF Sound, LastLap
  <2> QED BY <1>4, <2>1, <2>2
<1>9. Zeros'
  <2>1. ASSUME rt = 0, pos + n <= 1 PROVE ring'[size - 1] = Zero
    <3>1. g = 0 /\ pos <= 1
      BY <1>1, <2>1
    <3>2. size - 1 \in Slots /\ size - 1 >= pos + n + g
      BY ONLY <1>1, <2>1, <3>1, RingConstants, n \in Nat
    <3> QED BY <1>4, <2>1, <3>1, <3>2 DEF Sound, Zeros
  <2>2. ASSUME rt = 0, pos + n = 0 PROVE ring'[size - 2] = Zero
    <3>1. g = 0 /\ pos = 0 /\ n = 0
      BY <1>1, <2>2
    <3>2. size - 2 \in Slots /\ size - 2 >= pos + n + g
      BY ONLY <1>1, <3>1, RingConstants
    <3> QED BY <1>4, <2>2, <3>1, <3>2 DEF Sound, Zeros
  <2> QED BY <1>2, <2>1, <2>2 DEF Zeros
<1>10. Handed'
  <2>1. partial = sent + Len(out) /\ Base <= partial /\ partial <= Base + pos
        /\ partial <= Base + size
    BY DEF Sound, Handed
  <2>2. partial <= Base + (pos + n)
    BY ONLY <1>1, <2>1, n \in Nat
  <2> QED BY <1>2, <2>1, <2>2 DEF Handed
<1>11. Reach'
  <2>1. maxDist \in Nat /\ MaxBackward \in Nat
    BY Numbers, RingConstants
  <2>2. /\ rt > 0 => maxDist = MaxBackward
        /\ rt = 0 => maxDist <= pos /\ maxDist <= MaxBackward
    BY DEF Core, Reach
  <2>3. /\ rt > 0 => maxDist' = MaxBackward
        /\ rt = 0 => maxDist' <= pos /\ maxDist' <= MaxBackward
    BY ONLY <1>1, <2>1, <2>2, Distance, Core, maxDist' \in {maxDist, MaxDistance}
  <2>4. maxDist' \in Nat
    BY <2>1, Distance
  <2>5. rt = 0 => maxDist' <= pos + n
    BY ONLY <1>1, <2>3, <2>4, n \in Nat
  <2> QED BY <1>2, <2>3, <2>5 DEF Reach, MaxBackward
<1>12. maxDist' \in Nat /\ pos + n \in Nat
  BY <1>1, Numbers, Distance
<1>13. Core'
  BY <1>2, <1>5, <1>6, <1>11, <1>12 DEF Core, Types, Control, Wrapped, Ordered
<1> QED BY <1>1, <1>2, <1>7, <1>8, <1>9, <1>10, <1>13 DEF Sound

(* Neither the ring nor the queues change. *)
LEMMA StillKeeps ==
    ASSUME Core, UNCHANGED <<size, pos, rt, partial, maxDist, ring, out, sent>>, Control'
    PROVE  Core' /\ (Sound => Sound')
<1>1. Core'
  BY DEF Core, Types, Wrapped, Reach, Ordered, Control, Slots, MaxBackward
<1>2. Sound => Sound'
  BY DEF Sound, ThisLap, LastLap, Zeros, Handed, Base
<1> QED BY <1>1, <1>2

(* The bytes of a lap, from the first that was not handed out, appended to *)
(* what waits to be served.                                                *)
LEMMA AppendRun ==
    ASSUME NEW s \in Seq(Int), NEW f \in Int, NEW m \in Nat, NEW t \in Seq(Int),
           Len(t) = m,
           \A k \in 1 .. Len(s) : s[k] = f + k - 1,
           \A k \in 1 .. m : t[k] = f + Len(s) + k - 1
    PROVE  /\ s \o t \in Seq(Int) /\ Len(s \o t) = Len(s) + m
           /\ \A k \in 1 .. Len(s \o t) : (s \o t)[k] = f + k - 1
<1>1. s \o t \in Seq(Int) /\ Len(s \o t) = Len(s) + m /\ Len(s) \in Nat
  <2>1. s \o t \in Seq(Int) /\ Len(s) \in Nat
    BY ONLY s \in Seq(Int), t \in Seq(Int)
  <2>2. Len(s \o t) = Len(s) + Len(t)
    BY ONLY s \in Seq(Int), t \in Seq(Int)
  <2> QED BY ONLY <2>1, <2>2, Len(t) = m
<1>2. ASSUME NEW k \in 1 .. Len(s \o t) PROVE (s \o t)[k] = f + k - 1
  <2>1. CASE k <= Len(s)
    <3>1. k \in 1 .. Len(s) /\ (s \o t)[k] = s[k]
      BY <1>1, <2>1
    <3> QED BY <3>1
  <2>2. CASE k > Len(s)
    <3>1. (s \o t)[k] = t[k - Len(s)]
      BY <1>1, <2>2
    <3>2. k - Len(s) \in 1 .. m
      BY <1>1, <2>2
    <3>3. t[k - Len(s)] = f + Len(s) + (k - Len(s)) - 1
      BY <3>2
    <3> QED BY <1>1, <3>1, <3>3
  <2> QED BY <1>1, <2>1, <2>2
<1> QED BY <1>1, <1>2

(* Growing keeps the bytes before the position and makes room for it. *)
LEMMA GrowKeeps ==
    ASSUME Core, Sound, pos >= size, Grow, sent' = sent, Control'
    PROVE  Core' /\ Sound' /\ pos' < size' /\ pos' = pos
<1>1. /\ size \in Nat /\ size < Window /\ pos \in Nat /\ rt = 0
      /\ Base = 0 /\ Slots = 0 .. Window + Slack - 1
      /\ ring \in [Slots -> Int] /\ sent \in Nat /\ Len(out) \in Nat
      /\ size >= MinRing /\ partial \in Nat
  BY Numbers DEF Sound, Grow
<1>2. /\ pos' = pos /\ rt' = rt /\ partial' = partial /\ maxDist' = maxDist
      /\ out' = out /\ size' \in Sizes /\ size' > pos
  BY DEF Grow
<1>3. size' \in Nat
  BY <1>2, RingSizes
<1>4. Base' = 0
  BY <1>1, <1>2, <1>3, LapArithmetic DEF Base
<1>5. ring' = [k \in Slots |-> IF k < pos THEN ring[k] ELSE Stale]
  BY <1>1 DEF Grow, Realloc
<1>6. ring' \in [Slots -> Int] /\ \A k \in Slots : k < pos => ring'[k] = ring[k]
  BY ONLY <1>1, <1>5, RingConstants DEF Stale
<1>7. ThisLap'
  <2> SUFFICES ASSUME NEW k \in 0 .. pos - 1 PROVE ring'[k] = Base' + k
    BY <1>2 DEF ThisLap
  <2>1. k \in Slots
    BY ONLY <1>1, <1>2, <1>3, RingConstants, RingSizes, k \in 0 .. pos - 1
  <2> QED BY <1>1, <1>4, <1>6, <2>1 DEF Sound, ThisLap
<1>8. LastLap' /\ Zeros'
  <2>1. pos > 1
    BY ONLY <1>1, RingConstants, pos >= size
  <2> QED BY <1>1, <1>2, <2>1 DEF LastLap, Zeros
<1>9. Handed'
  <2>1. /\ partial = sent + Len(out) /\ Base <= partial /\ partial <= Base + pos
        /\ partial <= Base + size
    BY DEF Sound, Handed
  <2> QED BY <1>1, <1>2, <1>3, <1>4, <2>1 DEF Handed
<1>10. Core'
  <2>1. Types'
    BY <1>1, <1>2, <1>6 DEF Core, Types, Control, Slots
  <2>2. Wrapped' /\ Reach' /\ Ordered'
    BY <1>1, <1>2 DEF Core, Wrapped, Reach, Ordered, MaxBackward
  <2> QED BY <2>1, <2>2 DEF Core
<1>11. size' >= MinRing
  BY ONLY <1>1, <1>2, <1>3, RingConstants, pos >= size
<1> QED BY <1>2, <1>7, <1>8, <1>9, <1>10, <1>11 DEF Sound

(* Wrapping hands out the rest of the lap and keeps it as the last one;    *)
(* what stood in the slack begins the next.                                *)
LEMMA WrapKeeps ==
    ASSUME Core, Sound, pos >= size, pos <= size + MaxWord, Wrap, sent' = sent, Control'
    PROVE  Core' /\ Sound' /\ pos' < size' /\ rt' > 0
<1>1. /\ size \in Nat /\ size = Window /\ pos \in Nat /\ rt \in Nat
      /\ Base \in Nat /\ Slots = 0 .. Window + Slack - 1
      /\ ring \in [Slots -> Int] /\ sent \in Nat /\ Len(out) \in Nat
      /\ partial \in Nat /\ (rt + 1) * size = Base + size
  BY Numbers DEF Wrap
<1>2. /\ pos' = pos - size /\ rt' = rt + 1 /\ partial' = (rt + 1) * size
      /\ maxDist' = MaxBackward /\ size' = size
      /\ out' = out \o [k \in 1 .. size - Flushed |-> ring[Flushed + k - 1]]
  BY DEF Wrap
<1>3. Base' = Base + size
  BY <1>1, <1>2 DEF Base
<1>4. ring' = [k \in Slots |-> IF k < pos - size THEN ring[size + k] ELSE ring[k]]
  BY <1>1 DEF Wrap
<1>5. \A k \in 0 .. pos - 1 : ring[k] = Base + k
  BY DEF Sound, ThisLap
<1>6. ring' \in [Slots -> Int]
  <2>1. \A k \in Slots : k < pos - size => size + k \in Slots
    BY ONLY <1>1, RingConstants, pos <= size + MaxWord
  <2> QED BY ONLY <1>1, <1>4, <2>1
<1>7. ThisLap'
  <2> SUFFICES ASSUME NEW k \in 0 .. pos' - 1 PROVE ring'[k] = Base' + k
    BY DEF ThisLap
  <2>1. k \in Slots /\ k < pos - size /\ size + k \in 0 .. pos - 1 /\ k \in Int
    BY ONLY <1>1, <1>2, RingConstants, pos <= size + MaxWord, k \in 0 .. pos' - 1
  <2>2. ring'[k] = ring[size + k]
    BY ONLY <1>4, <2>1
  <2>3. ring[size + k] = Base + (size + k)
    BY ONLY <1>5, <2>1
  <2> QED BY ONLY <1>1, <1>3, <2>1, <2>2, <2>3
<1>8. LastLap'
  <2> SUFFICES ASSUME NEW k \in pos' + WindowGap .. size' - 1
               PROVE  ring'[k] = Base' - size' + k
    BY DEF LastLap
  <2>1. k \in Slots /\ ~(k < pos - size) /\ k \in 0 .. pos - 1 /\ k \in Int
    BY ONLY <1>1, <1>2, RingConstants, pos >= size, k \in pos' + WindowGap .. size' - 1
  <2>2. ring'[k] = ring[k] /\ ring[k] = Base + k
    BY ONLY <1>4, <1>5, <2>1
  <2> QED BY ONLY <1>1, <1>2, <1>3, <2>1, <2>2
<1>9. Zeros'
  BY <1>1, <1>2 DEF Zeros
<1>10. out' \in Seq(Int) /\ Ordered' /\ Handed'
  <2>1. /\ partial = sent + Len(out) /\ Base <= partial /\ partial <= Base + size
    BY DEF Sound, Handed
  <2>2. PICK fl \in Int : fl = Flushed /\ fl = partial - Base
    BY <1>1 DEF Flushed, Base
  <2>3. fl \in 0 .. size
    BY ONLY <1>1, <2>1, <2>2
  <2>4. PICK t : t = [k \in 1 .. size - fl |-> ring[fl + k - 1]]
    OBVIOUS
  <2>5. \A k \in 1 .. size - fl : fl + k - 1 \in 0 .. pos - 1 /\ fl + k - 1 \in Slots
    BY ONLY <1>1, <2>3, RingConstants, pos >= size
  <2>6. t \in Seq(Int) /\ Len(t) = size - fl /\ size - fl \in Nat
    <3>1. size - fl \in Nat
      BY ONLY <1>1, <2>3
    <3>2. \A k \in 1 .. size - fl : ring[fl + k - 1] \in Int
      BY ONLY <1>1, <2>5
    <3> QED BY ONLY <2>4, <3>1, <3>2
  <2>7. ASSUME NEW k \in 1 .. size - fl PROVE t[k] = sent + Len(out) + k - 1
    <3>1. t[k] = ring[fl + k - 1]
      BY ONLY <2>4, k \in 1 .. size - fl
    <3>2. ring[fl + k - 1] = Base + (fl + k - 1)
      BY ONLY <1>5, <2>5, k \in 1 .. size - fl
    <3> QED BY ONLY <1>1, <2>1, <2>2, <3>1, <3>2, k \in 1 .. size - fl, <2>3
  <2>8. out \in Seq(Int) /\ \A k \in 1 .. Len(out) : out[k] = sent + k - 1
    BY DEF Core, Types, Ordered
  <2>9. /\ out \o t \in Seq(Int) /\ Len(out \o t) = Len(out) + (size - fl)
        /\ \A k \in 1 .. Len(out \o t) : (out \o t)[k] = sent + k - 1
    <3>1. sent \in Int /\ \A k \in 1 .. size - fl : t[k] = sent + Len(out) + k - 1
      BY <1>1, <2>7
    <3> QED BY ONLY <2>6, <2>8, <3>1, AppendRun
  <2>10. out' = out \o t
    BY <1>2, <2>2, <2>4
  <2>11. partial' = sent + Len(out')
    BY ONLY <1>1, <1>2, <2>1, <2>2, <2>9, <2>10
  <2>12. /\ Base' <= partial' /\ partial' <= Base' + pos' /\ partial' <= Base' + size'
    BY ONLY <1>1, <1>2, <1>3, pos >= size
  <2>13. sent' = sent
    OBVIOUS
  <2> QED BY ONLY <2>9, <2>10, <2>11, <2>12, <2>13 DEF Ordered, Handed
<1>11. Core'
  <2>1. pos' \in Nat /\ rt' \in Nat /\ rt' > 0 /\ partial' \in Nat /\ maxDist' \in Nat
    BY <1>1, <1>2, RingConstants
  <2>2. Types'
    BY <1>2, <1>6, <1>10, <2>1 DEF Core, Types, Control, Slots
  <2>3. Wrapped' /\ Reach'
    BY <1>1, <1>2, <2>1 DEF Wrapped, Reach, MaxBackward
  <2> QED BY <1>10, <2>2, <2>3 DEF Core
<1>12. size' >= MinRing /\ pos' < size' /\ rt' > 0
  BY ONLY <1>1, <1>2, RingConstants, pos <= size + MaxWord
<1> QED BY <1>7, <1>8, <1>9, <1>10, <1>11, <1>12 DEF Sound

(* writeRingBuffer leaves the write position inside the ring. *)
LEMMA WriteKeeps ==
    ASSUME Core, Sound, pos <= size + MaxWord, WriteRingBuffer, sent' = sent, Control'
    PROVE  /\ Core' /\ Sound' /\ pos' < size'
           /\ pos > 0 \/ rt > 0 => pos' > 0 \/ rt' > 0
<1>1. CASE pos < size /\ UNCHANGED <<size, pos, rt, partial, maxDist, ring, out>>
  <2>1. UNCHANGED <<size, pos, rt, partial, maxDist, ring, out, sent>>
    BY <1>1
  <2> QED BY <1>1, <2>1, StillKeeps
<1>2. CASE pos >= size /\ Grow
  BY <1>2, GrowKeeps DEF Grow
<1>3. CASE pos >= size /\ Wrap
  BY <1>3, WrapKeeps
<1> QED BY <1>1, <1>2, <1>3 DEF WriteRingBuffer

-----------------------------------------------------------------------------
(* Every step keeps the invariant *)

(* A decoder that has read a metablock header has a ring. *)
LEMMA Live ==
    ASSUME RingInv, state \notin {"header", "error"}
    PROVE  Core /\ Sound /\ Placed /\ Control
BY DEF RingInv, Blank, Core, Types, Control

(* A step out of a live state that leaves ring, queues and position alone  *)
(* and stays on the same side of the ring's end.                           *)
LEMMA StillStep ==
    ASSUME Core, Sound, Placed, Control',
           UNCHANGED <<size, pos, rt, partial, maxDist, ring, out, sent>>,
           state' \in Settled => state \in Settled,
           state' \notin {"wrapCopy", "postWrite2"},
           state' = "done" => remaining' >= 0
    PROVE  RingInv'
<1>1. Core' /\ Sound'
  BY StillKeeps
<1>2. Placed'
  BY DEF Placed, Settled
<1> QED BY <1>1, <1>2 DEF RingInv

(* ensureRingBuffer before the first byte of a metablock: a new ring is    *)
(* larger by more than the two context bytes it is given.                  *)
LEMMA BeginStep ==
    ASSUME RingInv, NEW bytes \in 1 .. MaxTotal, NEW kind \in Kinds, BeginMetablock(bytes, kind)
    PROVE  RingInv'
<1>1. Core /\ state = "header" /\ (Blank \/ (Sound /\ Placed))
  BY DEF RingInv, BeginMetablock
<1>2. /\ size \in Nat /\ size <= Window /\ pos \in Nat /\ rt \in Nat /\ partial \in Nat
      /\ Base \in Nat /\ (rt = 0 => Base = 0) /\ Slots = 0 .. Window + Slack - 1
      /\ ring \in [Slots -> Int] /\ sent \in Nat /\ Len(out) \in Nat
      /\ (rt > 0 => size = Window)
  BY <1>1, Numbers
<1>3. bytes \in Nat
  BY DecoderRingAssumption
<1>4. (size = 0 /\ pos = 0) \/ (size >= MinRing /\ pos < size)
  BY <1>1 DEF Blank, Sound, Placed, Settled
<1>5. PICK n : n = RingFor(bytes)
  OBVIOUS
<1>6. /\ n \in Sizes /\ n >= MinRing /\ n >= size
      /\ size > 0 /\ n # size => n >= 2 * size
      /\ size = Window => n = Window
  BY <1>1, <1>3, <1>4, <1>5, RingForGrows
<1>7. n \in Nat /\ n <= Window
  BY <1>6, RingSizes
<1>8. /\ size' = n /\ UNCHANGED <<pos, rt, partial, maxDist, left, dist, word, out, sent>>
      /\ ring' = IF n = size THEN ring
                 ELSE [Realloc EXCEPT ![n - 2] = Zero, ![n - 1] = Zero]
      /\ remaining' = bytes /\ state' = kind
  BY <1>5 DEF BeginMetablock, EnsureRing
<1>9. Control' /\ state' \in {"body", "uncompressed"}
  BY <1>1, <1>3, <1>8 DEF Core, Types, Control, Kinds, States
<1>10. CASE n = size
  <2>1. Sound /\ Placed
    BY <1>1, <1>6, <1>10, RingConstants DEF Blank
  <2>2. UNCHANGED <<size, pos, rt, partial, maxDist, ring, out, sent>>
    BY <1>8, <1>10
  <2> QED BY <1>1, <1>9, <2>1, <2>2, StillStep DEF Settled
<1>11. CASE n # size
  <2>1. rt = 0 /\ pos <= n - 2 /\ Base = 0
    BY ONLY <1>2, <1>4, <1>6, <1>7, <1>11, RingConstants
  <2>2. n - 2 \in Slots /\ n - 1 \in Slots /\ n - 1 # n - 2
    BY ONLY <1>2, <1>6, <1>7, RingConstants
  <2>3. Realloc = [k \in Slots |-> IF k < pos THEN ring[k] ELSE Stale]
    BY <1>2 DEF Realloc
  <2>4. ring' = [[k \in Slots |-> IF k < pos THEN ring[k] ELSE Stale]
                    EXCEPT ![n - 2] = Zero, ![n - 1] = Zero]
    BY <1>8, <1>11, <2>3
  <2>5. /\ ring' \in [Slots -> Int]
        /\ ring'[n - 2] = Zero /\ ring'[n - 1] = Zero
        /\ \A k \in Slots : k < pos => ring'[k] = ring[k]
    <3>1. PICK kept : kept = [k \in Slots |-> IF k < pos THEN ring[k] ELSE Stale]
      OBVIOUS
    <3>2. kept \in [Slots -> Int] /\ \A k \in Slots : k < pos => kept[k] = ring[k]
      BY ONLY <1>2, <3>1 DEF Stale
    <3>3. ring' = [kept EXCEPT ![n - 2] = Zero, ![n - 1] = Zero]
      BY <2>4, <3>1
    <3>4. ring' \in [Slots -> Int] /\ ring'[n - 2] = Zero /\ ring'[n - 1] = Zero
      BY ONLY <2>2, <3>2, <3>3 DEF Zero
    <3>5. \A k \in Slots : k # n - 2 /\ k # n - 1 => ring'[k] = kept[k]
      BY ONLY <2>2, <3>2, <3>3
    <3>6. \A k \in Slots : k < pos => k # n - 2 /\ k # n - 1
      BY ONLY <1>2, <1>7, <2>1, RingConstants
    <3> QED BY ONLY <3>2, <3>4, <3>5, <3>6
  <2>6. Base' = 0
    BY <1>7, <1>8, <2>1, LapArithmetic DEF Base
  <2>7. ThisLap'
    <3> SUFFICES ASSUME NEW k \in 0 .. pos - 1 PROVE ring'[k] = Base' + k
      BY <1>8 DEF ThisLap
    <3>1. Sound
      BY <1>1, <1>2 DEF Blank
    <3>2. k \in Slots /\ k < pos
      BY ONLY <1>2, <1>7, <2>1, RingConstants, k \in 0 .. pos - 1
    <3>3. ring[k] = Base + k
      BY <3>1 DEF Sound, ThisLap
    <3> QED BY <2>1, <2>5, <2>6, <3>2, <3>3
  <2>8. LastLap' /\ Zeros'
    BY <1>8, <2>1, <2>5 DEF LastLap, Zeros
  <2>9. Handed'
    <3>1. partial = sent + Len(out) /\ 0 <= partial /\ partial <= pos
      <4>1. CASE Blank
        BY <4>1 DEF Blank
      <4>2. CASE Sound
        BY <1>2, <2>1, <4>2 DEF Sound, Handed
      <4> QED BY <1>1, <4>1, <4>2
    <3> QED BY <1>2, <1>7, <1>8, <2>1, <2>6, <3>1 DEF Handed
  <2>10. Core'
    <3>1. Types'
      BY <1>1, <1>6, <1>8, <1>9, <2>5 DEF Core, Types, Control, Slots
    <3>2. Wrapped' /\ Reach' /\ Ordered'
      BY <1>1, <1>8, <2>1 DEF Core, Wrapped, Reach, Ordered, MaxBackward
    <3> QED BY <3>1, <3>2 DEF Core
  <2>11. Placed'
    <3>1. pos < n /\ pos <= n + MaxWord
      BY <1>2, <1>7, <2>1, RingConstants
    <3> QED BY <1>8, <1>9, <3>1 DEF Placed
  <2>12. Sound'
    BY <1>6, <1>8, <2>7, <2>8, <2>9 DEF Sound
  <2> QED BY <2>10, <2>11, <2>12 DEF RingInv
<1> QED BY <1>10, <1>11

(* A write that ends inside the ring, or at its end with a suspension. *)
LEMMA PutStep ==
    ASSUME Core, Sound, pos < size, NEW n \in Nat, NEW g \in Nat, Put(n, g),
           g < Eager, pos + n <= size + MaxWord, g = 0 \/ rt > 0 \/ pos + n >= 2,
           UNCHANGED <<size, rt, partial, out, sent>>,
           maxDist' \in {maxDist, MaxDistance}, Control',
           state' \in Settled => pos + n < size,
           state' \in {"wrapCopy", "postWrite2"} => pos + n > 0,
           state' # "done"
    PROVE  RingInv'
<1>1. Core' /\ Sound' /\ pos' = pos + n /\ size' = size
  BY PutKeeps
<1>2. Placed'
  BY <1>1 DEF Placed
<1> QED BY <1>1, <1>2 DEF RingInv

(* Writing out brings the decoder back into the ring. *)
LEMMA WriteStep ==
    ASSUME Core, Sound, Placed, WriteRingBuffer, sent' = sent, Control',
           state' \in {"wrapCopy", "postWrite2"} => pos > 0 \/ rt > 0,
           state' # "done"
    PROVE  RingInv'
<1>1. /\ Core' /\ Sound' /\ pos' < size'
      /\ pos > 0 \/ rt > 0 => pos' > 0 \/ rt' > 0
  <2>1. pos <= size + MaxWord
    BY DEF Placed
  <2> QED BY <2>1, WriteKeeps
<1>2. pos' \in Nat /\ size' \in Nat
  <2>1. size' \in {0} \cup Sizes /\ pos' \in Nat
    BY <1>1 DEF Core, Types
  <2> QED BY <2>1, RingSizes
<1>3. Placed'
  <2>1. pos' <= size' + MaxWord
    <3>1. pos' < size' /\ MaxWord \in Nat
      BY <1>1, RingConstants
    <3>2. \A a, b, c \in Nat : a < b => a <= b + c
      OBVIOUS
    <3> QED BY ONLY <1>2, <3>1, <3>2
  <2>2. state' \in {"wrapCopy", "postWrite2"} => pos' > 0 \/ rt' > 0
    BY <1>1
  <2>3. pos' < size' /\ state' # "done"
    BY <1>1
  <2> QED BY ONLY <2>1, <2>2, <2>3 DEF Placed
<1> QED BY <1>1, <1>3 DEF RingInv

(* Copies *)

LEMMA CopyFromRingStep ==
    ASSUME RingInv, NEW c \in 2 .. MaxCopy, NEW d \in 1 .. MaxBackward, CopyFromRing(c, d)
    PROVE  RingInv'
<1>1. Core /\ Sound /\ Placed /\ Control
  BY Live DEF CopyFromRing
<1>2. c \in Nat /\ 2 <= c /\ d \in Nat /\ 1 <= d /\ d <= MaxDistance
  BY DecoderRingAssumption, RingConstants DEF CopyFromRing
<1>3. /\ size \in Nat /\ pos \in Nat /\ rt \in Nat /\ pos < size /\ size >= MinRing
      /\ ring \in [Slots -> Int] /\ Slots = 0 .. Window + Slack - 1 /\ size <= Window
      /\ MaxDistance \in Nat
  <2>1. pos < size
    BY <1>1 DEF CopyFromRing, Placed, Settled
  <2> QED BY <1>1, <2>1, Numbers, Distance DEF Sound
<1>4. pos > 0 \/ rt > 0
  BY ONLY <1>1, <1>2, <1>3, Distance, RingConstants
<1>5. /\ maxDist' = MaxDistance /\ remaining' = remaining - c
      /\ UNCHANGED <<size, rt, partial, word, out, sent>>
  BY DEF CopyFromRing
<1>6. CASE /\ pos + c < size /\ Put(c, Eager - 1)
           /\ state' = CommandDone(remaining - c) /\ UNCHANGED <<left, dist>>
  <2>1. state' \in {"metaDone", "body"}
    BY <1>6 DEF CommandDone
  <2>2. Control'
    BY <1>1, <1>2, <1>5, <1>6, <2>1 DEF Control, States
  <2>3. Eager - 1 \in Nat /\ Eager - 1 < Eager /\ pos + c <= size + MaxWord /\ pos + c >= 2
    BY <1>2, <1>3, <1>6, RingConstants
  <2> QED BY <1>1, <1>2, <1>3, <1>5, <1>6, <2>1, <2>2, <2>3, PutStep
<1>7. CASE /\ ring' = [k \in DOMAIN ring |->
                         IF k \in pos .. pos + Eager - 1 THEN Stale ELSE ring[k]]
           /\ left' = c /\ dist' = d /\ state' = "wrapCopy" /\ UNCHANGED pos
  <2>1. Control'
    BY <1>1, <1>2, <1>5, <1>7 DEF Control, States
  <2>2. Base' = Base /\ size' = size /\ pos' = pos /\ rt' = rt
    BY <1>5, <1>7 DEF Base
  <2>3. ring' = [k \in Slots |-> IF k \in pos .. pos + Eager - 1 THEN Stale ELSE ring[k]]
    BY <1>3, <1>7
  <2>4. /\ ring' \in [Slots -> Int]
        /\ \A k \in Slots : k < pos \/ k >= pos + Eager => ring'[k] = ring[k]
    BY ONLY <1>3, <2>3, RingConstants DEF Stale
  <2>5. ThisLap'
    <3> SUFFICES ASSUME NEW k \in 0 .. pos - 1 PROVE ring'[k] = Base + k
      BY <2>2 DEF ThisLap
    <3>1. k \in Slots /\ k < pos
      BY ONLY <1>3, RingConstants, k \in 0 .. pos - 1
    <3> QED BY <1>1, <2>4, <3>1 DEF Sound, ThisLap
  <2>6. LastLap'
    <3> SUFFICES ASSUME rt > 0, NEW k \in pos + WindowGap .. size - 1
                 PROVE  ring'[k] = Base - size + k
      BY <2>2 DEF LastLap
    <3>1. k \in Slots /\ k >= pos + Eager
      BY ONLY <1>3, RingConstants, k \in pos + WindowGap .. size - 1
    <3> QED BY <1>1, <2>4, <3>1 DEF Sound, LastLap
  <2>7. Zeros'
    <3>1. ASSUME rt = 0, pos <= 1 PROVE ring'[size - 1] = Zero
      <4>1. size - 1 \in Slots /\ size - 1 >= pos + Eager
        BY ONLY <1>3, <3>1, RingConstants
      <4> QED BY <1>1, <2>4, <3>1, <4>1 DEF Sound, Zeros
    <3> QED BY <1>3, <1>4, <2>2, <3>1 DEF Zeros
  <2>8. Handed'
    BY <1>1, <1>5, <2>2 DEF Sound, Handed
  <2>9. Core'
    <3>1. Types'
      BY <1>1, <1>3, <1>5, <2>1, <2>2, <2>4 DEF Core, Types, Control, Slots
    <3>2. Reach'
      BY <1>1, <1>3, <1>5, <2>2, Distance, RingConstants DEF Reach, MaxBackward
    <3>3. Wrapped' /\ Ordered'
      BY <1>1, <1>5, <2>2 DEF Core, Wrapped, Ordered
    <3> QED BY <3>1, <3>2, <3>3 DEF Core
  <2>10. Sound' /\ Placed'
    <3>1. Sound'
      BY <1>3, <2>2, <2>5, <2>6, <2>7, <2>8 DEF Sound
    <3>2. pos <= size + MaxWord
      BY <1>1 DEF Placed
    <3>3. Placed'
      BY <1>3, <1>4, <1>7, <2>2, <3>2 DEF Placed
    <3> QED BY <3>1, <3>3
  <2> QED BY <2>9, <2>10 DEF RingInv
<1> QED BY <1>6, <1>7 DEF CopyFromRing

LEMMA WrapCopyChunkStep ==
    ASSUME RingInv, WrapCopyChunk
    PROVE  RingInv'
<1>1. Core /\ Sound /\ Placed /\ Control /\ state = "wrapCopy" /\ left > 0
  BY Live DEF WrapCopyChunk
<1>2. /\ size \in Nat /\ pos \in Nat /\ rt \in Nat /\ pos < size /\ size >= MinRing
      /\ left \in Nat /\ dist \in Nat /\ (pos > 0 \/ rt > 0)
  <2>1. pos < size /\ (pos > 0 \/ rt > 0)
    BY <1>1 DEF Placed, Settled
  <2> QED BY <1>1, <2>1, Numbers DEF Sound, Control
<1>3. PICK src : src = Slot(dist)
  OBVIOUS
<1> src \in Int
  BY <1>2, <1>3 DEF Slot
<1>4. PICK n : n = IF src < pos THEN Min({left, size - pos, size - src}) ELSE 1
  OBVIOUS
<1>5. PICK g : g = IF src < pos /\ pos - src < n THEN Eager - 1 ELSE 0
  OBVIOUS
<1>6. /\ Put(n, g) /\ left' = left - n
      /\ state' = IF pos + n = size THEN Suspend("postWrite2", remaining)
                  ELSE IF left - n > 0 THEN "wrapCopy"
                  ELSE CommandDone(remaining)
      /\ UNCHANGED <<size, rt, partial, maxDist, remaining, dist, word, out, sent>>
  BY <1>3, <1>4, <1>5 DEF WrapCopyChunk
<1>7. n \in Nat /\ 1 <= n /\ n <= left /\ pos + n <= size
  <2>1. CASE src < pos
    <3>1. PICK a, b : a = size - pos /\ b = size - src
      OBVIOUS
    <3>2. a \in Int /\ b \in Int /\ 1 <= a /\ 1 <= b /\ left \in Int /\ 1 <= left
      BY ONLY <1>1, <1>2, <2>1, <3>1, src \in Int
    <3>3. n = Min({left, a, b})
      BY ONLY <1>4, <2>1, <3>1
    <3>4. n \in {left, a, b} /\ n <= left /\ n <= a
      BY ONLY <3>2, <3>3, MinTriple
    <3> QED BY ONLY <1>2, <3>1, <3>2, <3>4
  <2>2. CASE ~(src < pos)
    BY ONLY <1>1, <1>2, <1>4, <2>2
  <2> QED BY <2>1, <2>2
<1>8. g \in Nat /\ g < Eager
  BY ONLY <1>5, RingConstants
<1>9. rt > 0 \/ pos + n >= 2
  BY ONLY <1>2, <1>7
<1>10. state' \in {"postWrite2", "error", "wrapCopy", "metaDone", "body"}
  BY <1>6 DEF Suspend, CommandDone
<1>11. state' \in Settled => pos + n < size
  <2>1. pos + n = size => state' \in {"postWrite2", "error"}
    BY <1>6 DEF Suspend
  <2>2. pos + n = size => state' \notin Settled
    BY <2>1 DEF Settled
  <2> QED BY <1>2, <1>7, <2>2
<1>12. Control'
  BY <1>1, <1>2, <1>6, <1>7, <1>10 DEF Control, States
<1>13. pos + n <= size + MaxWord /\ pos + n > 0
  BY ONLY <1>2, <1>7, RingConstants
<1> QED BY <1>1, <1>2, <1>6, <1>7, <1>8, <1>9, <1>10, <1>11, <1>12, <1>13, PutStep

(* Literals, words, compound copies and stored bytes *)

LEMMA CommandBeginStep ==
    ASSUME RingInv, NEW i \in 0 .. MaxInsert, CommandBegin(i)
    PROVE  RingInv'
<1>1. Core /\ Sound /\ Placed /\ Control
  BY Live DEF CommandBegin
<1>2. i \in Nat
  BY DecoderRingAssumption
<1>3. /\ UNCHANGED <<size, pos, rt, partial, maxDist, ring, out, sent>>
      /\ state = "body" /\ state' \in {"distance", "literals"}
  BY DEF CommandBegin
<1>4. Control'
  BY <1>1, <1>2, <1>3 DEF CommandBegin, Control, States
<1> QED BY <1>1, <1>3, <1>4, StillStep DEF Settled

LEMMA CommandInnerStep ==
    ASSUME RingInv, NEW n \in 1 .. MaxInsert, CommandInner(n)
    PROVE  RingInv'
<1>1. Core /\ Sound /\ Placed /\ Control
  BY Live DEF CommandInner
<1>2. n \in Nat /\ n <= left /\ pos + n <= size
  BY DecoderRingAssumption DEF CommandInner
<1>3. size \in Nat /\ pos \in Nat /\ pos < size
  BY <1>1, Numbers DEF CommandInner, Placed, Settled
<1>4. /\ Put(n, 0) /\ left' = left - n
      /\ state' = IF pos + n = size THEN Suspend("innerWrite", remaining)
                  ELSE IF left - n > 0 THEN "literals"
                  ELSE IF remaining <= 0 THEN "metaDone" ELSE "distance"
      /\ UNCHANGED <<size, rt, partial, maxDist, remaining, dist, word, out, sent>>
  BY DEF CommandInner
<1>5. /\ state' \in {"innerWrite", "error", "literals", "metaDone", "distance"}
      /\ pos + n = size => state' \in {"innerWrite", "error"}
  BY <1>4 DEF Suspend
<1>6. state' \in Settled => pos + n < size
  <2>1. pos + n = size => state' \notin Settled
    BY <1>5 DEF Settled
  <2> QED BY <1>2, <1>3, <2>1
<1>7. Control'
  BY <1>1, <1>2, <1>4, <1>5 DEF Control, States
<1>8. pos + n <= size + MaxWord /\ 0 \in Nat /\ 0 < Eager
  BY <1>2, <1>3, RingConstants
<1> QED BY <1>1, <1>2, <1>3, <1>4, <1>5, <1>6, <1>7, <1>8, PutStep

LEMMA CopyDictionaryWordStep ==
    ASSUME RingInv, NEW w \in 0 .. MaxWord, CopyDictionaryWord(w)
    PROVE  RingInv'
<1>1. Core /\ Sound /\ Placed /\ Control
  BY Live DEF CopyDictionaryWord
<1>2. w \in Nat /\ w <= MaxWord
  BY RingConstants
<1>3. size \in Nat /\ pos \in Nat /\ pos < size
  BY <1>1, Numbers DEF CopyDictionaryWord, Placed, Settled
<1>4. /\ Put(w, 0) /\ maxDist' = MaxDistance /\ remaining' = remaining - w
      /\ state' = IF pos + w >= size THEN Suspend("postWrite1", remaining - w)
                  ELSE CommandDone(remaining - w)
      /\ UNCHANGED <<size, rt, partial, left, dist, word, out, sent>>
  BY DEF CopyDictionaryWord
<1>5. /\ state' \in {"postWrite1", "error", "metaDone", "body"}
      /\ pos + w >= size => state' \in {"postWrite1", "error"}
  BY <1>4 DEF Suspend, CommandDone
<1>6. state' \in Settled => pos + w < size
  <2>1. pos + w >= size => state' \notin Settled
    BY <1>5 DEF Settled
  <2> QED BY <1>2, <1>3, <2>1
<1>7. Control'
  BY <1>1, <1>2, <1>4, <1>5 DEF Control, States
<1>8. pos + w <= size + MaxWord /\ 0 \in Nat /\ 0 < Eager
  BY <1>2, <1>3, RingConstants
<1> QED BY <1>1, <1>2, <1>3, <1>4, <1>5, <1>6, <1>7, <1>8, PutStep

(* What a compound copy writes before the end of the ring. *)
LEMMA UpToEnd ==
    ASSUME NEW c \in Nat, size \in Nat, pos \in Nat, pos < size, NEW n,
           n = Min({c, size - pos})
    PROVE  n \in Nat /\ n <= c /\ pos + n <= size
<1>1. size - pos \in Int /\ c \in Int
  OBVIOUS
<1>2. n = IF c <= size - pos THEN c ELSE size - pos
  BY ONLY <1>1, MinMaxPair, n = Min({c, size - pos})
<1> QED BY <1>2

LEMMA CopyCompoundStep ==
    ASSUME RingInv, NEW c \in 2 .. MaxCopy, CopyCompound(c)
    PROVE  RingInv'
<1>1. Core /\ Sound /\ Placed /\ Control
  BY Live DEF CopyCompound
<1>2. c \in Nat
  BY DecoderRingAssumption
<1>3. size \in Nat /\ pos \in Nat /\ pos < size
  BY <1>1, Numbers DEF CopyCompound, Placed, Settled
<1>4. PICK n : n = Min({c, size - pos})
  OBVIOUS
<1>5. n \in Nat /\ n <= c /\ pos + n <= size
  BY ONLY <1>2, <1>3, <1>4, UpToEnd
<1>6. /\ Put(n, 0) /\ maxDist' = MaxDistance /\ remaining' = remaining - c /\ word' = c - n
      /\ state' = IF pos + n >= size THEN Suspend("postWrite1", remaining - c)
                  ELSE CommandDone(remaining - c)
      /\ UNCHANGED <<size, rt, partial, left, dist, out, sent>>
  BY <1>4 DEF CopyCompound
<1>7. /\ state' \in {"postWrite1", "error", "metaDone", "body"}
      /\ pos + n >= size => state' \in {"postWrite1", "error"}
  BY <1>6 DEF Suspend, CommandDone
<1>8. state' \in Settled => pos + n < size
  <2>1. pos + n >= size => state' \notin Settled
    BY <1>7 DEF Settled
  <2> QED BY <1>3, <1>5, <2>1
<1>9. Control'
  BY <1>1, <1>2, <1>5, <1>6, <1>7 DEF Control, States
<1>10. pos + n <= size + MaxWord /\ 0 \in Nat /\ 0 < Eager
  BY <1>3, <1>5, RingConstants
<1> QED BY <1>1, <1>3, <1>5, <1>6, <1>7, <1>8, <1>9, <1>10, PutStep

LEMMA CompoundRestStep ==
    ASSUME RingInv, CompoundRest
    PROVE  RingInv'
<1>1. Core /\ Sound /\ Placed /\ Control
  BY Live DEF CompoundRest
<1>2. size \in Nat /\ pos \in Nat /\ pos < size /\ word \in Nat
  BY <1>1, Numbers DEF CompoundRest, Placed, Settled, Control
<1>3. PICK n : n = Min({word, size - pos})
  OBVIOUS
<1>4. n \in Nat /\ n <= word /\ pos + n <= size
  BY ONLY <1>2, <1>3, UpToEnd
<1>5. /\ Put(n, 0) /\ word' = word - n
      /\ state' = IF word > 0 /\ pos + n >= size THEN "postWrite1Again"
                  ELSE CommandDone(remaining)
      /\ UNCHANGED <<size, rt, partial, maxDist, remaining, left, dist, out, sent>>
  BY <1>3 DEF CompoundRest
<1>6. /\ state' \in {"postWrite1Again", "metaDone", "body"}
      /\ pos + n >= size => state' = "postWrite1Again"
  BY <1>2, <1>4, <1>5 DEF CommandDone
<1>7. state' \in Settled => pos + n < size
  <2>1. pos + n >= size => state' \notin Settled
    BY <1>6 DEF Settled
  <2> QED BY <1>2, <1>4, <2>1
<1>8. Control'
  BY <1>1, <1>2, <1>4, <1>5, <1>6 DEF Control, States
<1>9. pos + n <= size + MaxWord /\ 0 \in Nat /\ 0 < Eager
  BY <1>2, <1>4, RingConstants
<1> QED BY <1>1, <1>2, <1>4, <1>5, <1>6, <1>7, <1>8, <1>9, PutStep

LEMMA CopyUncompressedStep ==
    ASSUME RingInv, NEW n \in 1 .. MaxTotal, CopyUncompressed(n)
    PROVE  RingInv'
<1>1. Core /\ Sound /\ Placed /\ Control
  BY Live DEF CopyUncompressed
<1>2. n \in Nat /\ pos + n <= size
  BY DecoderRingAssumption DEF CopyUncompressed
<1>3. size \in Nat /\ pos \in Nat /\ pos < size
  BY <1>1, Numbers DEF CopyUncompressed, Placed, Settled
<1>4. /\ Put(n, 0) /\ remaining' = remaining - n
      /\ state' = IF pos + n = size THEN "uncWrite"
                  ELSE IF remaining = n THEN "metaDone" ELSE "uncompressed"
      /\ UNCHANGED <<size, rt, partial, maxDist, left, dist, word, out, sent>>
  BY DEF CopyUncompressed
<1>5. /\ state' \in {"uncWrite", "metaDone", "uncompressed"}
      /\ pos + n = size => state' = "uncWrite"
  BY <1>4
<1>6. state' \in Settled => pos + n < size
  <2>1. pos + n = size => state' \notin Settled
    BY <1>5 DEF Settled
  <2> QED BY <1>2, <1>3, <2>1
<1>7. Control'
  BY <1>1, <1>2, <1>4, <1>5 DEF Control, States
<1>8. pos + n <= size + MaxWord /\ 0 \in Nat /\ 0 < Eager
  BY <1>2, <1>3, RingConstants
<1> QED BY <1>1, <1>2, <1>3, <1>4, <1>5, <1>6, <1>7, <1>8, PutStep

(* The four actions that write the ring out. *)
LEMMA WritingOut ==
    ASSUME RingInv, InnerWrite \/ PostWrite1 \/ PostWrite2 \/ UncompressedWrite
    PROVE  RingInv'
<1>1. /\ WriteRingBuffer /\ UNCHANGED <<remaining, left, dist, word, sent>>
      /\ state \notin {"header", "error"}
      /\ state' \in {"literals", "metaDone", "distance", "compound", "wrapCopy",
                     "uncompressed"}
      /\ state' = "wrapCopy" => state = "postWrite2"
  BY DEF InnerWrite, PostWrite1, PostWrite2, UncompressedWrite
<1>2. Core /\ Sound /\ Placed /\ Control
  BY <1>1, Live
<1>3. Control'
  BY <1>1, <1>2 DEF Control, States
<1>4. state' \in {"wrapCopy", "postWrite2"} => pos > 0 \/ rt > 0
  BY <1>1, <1>2 DEF Placed
<1> QED BY <1>1, <1>2, <1>3, <1>4, WriteStep

LEMMA EndOfCommand ==
    ASSUME RingInv, WrapCopyDone \/ MetablockDone
    PROVE  RingInv'
<1>1. /\ UNCHANGED <<size, pos, rt, partial, maxDist, ring, remaining, left, dist,
                     word, out, sent>>
      /\ state \in {"wrapCopy", "metaDone"}
      /\ state' \in {"metaDone", "body", "error", "header", "done"}
      /\ state' = "done" => remaining >= 0
  BY DEF WrapCopyDone, MetablockDone, CommandDone
<1>2. Core /\ Sound /\ Placed /\ Control
  BY <1>1, Live
<1>3. Control'
  BY <1>1, <1>2 DEF Control, States
<1> QED BY <1>1, <1>2, <1>3, StillStep DEF Settled

-----------------------------------------------------------------------------
(* The caller *)

(* Until it fails, a decoder has handed out a prefix of what it decoded. *)
LEMMA HandedOut ==
    ASSUME RingInv, state # "error"
    PROVE  Core /\ Handed
<1>1. Core /\ (Blank \/ Sound)
  BY DEF RingInv
<1>2. CASE Blank
  <2>1. partial = 0 /\ sent = 0 /\ Len(out) = 0 /\ pos = 0 /\ size = 0 /\ rt = 0
    BY <1>2 DEF Blank
  <2>2. Base = 0
    BY <1>1, <2>1, Numbers
  <2> QED BY <1>1, <2>1, <2>2 DEF Handed
<1>3. CASE Sound
  BY <1>1, <1>3 DEF Sound
<1> QED BY <1>1, <1>2, <1>3

(* What is pending follows what was handed out and ends with the bytes of  *)
(* this lap; after an overrun nothing is.                                  *)
LEMMA PendingBytes ==
    ASSUME Core, Handed
    PROVE  /\ Cardinality(Pending) \in Nat
           /\ partial + Cardinality(Pending) <= Base + pos
           /\ partial + Cardinality(Pending) <= Base + size
           /\ remaining >= 0 /\ pos <= size => partial + Cardinality(Pending) = Base + pos
           /\ \A k \in Pending : k \in 0 .. pos - 1
           /\ Flushed \in Nat /\ partial = Base + Flushed
<1>1. /\ size \in Nat /\ pos \in Nat /\ partial \in Nat /\ Base \in Nat
      /\ Base <= partial /\ partial <= Base + pos /\ partial <= Base + size
  BY Numbers DEF Handed
<1>2. PICK fl, m : fl = Flushed /\ m = Min({pos, size})
  OBVIOUS
<1>3. fl \in Nat /\ partial = Base + fl
  BY <1>1, <1>2 DEF Flushed, Base
<1>4. m = IF pos <= size THEN pos ELSE size
  <2>1. pos \in Int /\ size \in Int
    BY <1>1
  <2> QED BY ONLY <1>2, <2>1, MinMaxPair
<1>5. fl <= m /\ m \in Nat
  BY ONLY <1>1, <1>3, <1>4
<1>6. Pending = IF remaining < 0 \/ m <= fl THEN {} ELSE fl .. m - 1
  BY <1>2 DEF Pending
<1>7. CASE remaining < 0 \/ m <= fl
  <2>1. Pending = {}
    BY <1>6, <1>7
  <2>2. Cardinality(Pending) = 0
    BY <2>1, FS_EmptySet
  <2>3. remaining >= 0 /\ pos <= size => fl = pos
    <3>1. remaining \in Int
      BY DEF Core, Types
    <3> QED BY ONLY <1>1, <1>3, <1>4, <1>5, <1>7, <3>1
  <2> QED BY <1>1, <1>2, <1>3, <2>1, <2>2, <2>3
<1>8. CASE ~(remaining < 0 \/ m <= fl)
  <2>1. Pending = fl .. m - 1
    BY <1>6, <1>8
  <2>2. Cardinality(fl .. m - 1) = m - fl
    <3>1. fl \in Int /\ m - 1 \in Int /\ ~(fl > m - 1)
      BY ONLY <1>3, <1>5, <1>8
    <3>2. Cardinality(fl .. m - 1) = m - 1 - fl + 1
      BY ONLY <3>1, FS_Interval
    <3> QED BY ONLY <1>3, <1>5, <3>2
  <2>3. PICK c : c = Cardinality(Pending)
    OBVIOUS
  <2>4. c = m - fl
    BY <2>1, <2>2, <2>3
  <2>5. /\ c \in Nat /\ partial + c <= Base + pos /\ partial + c <= Base + size
        /\ pos <= size => partial + c = Base + pos
    BY ONLY <1>1, <1>3, <1>4, <1>5, <2>4
  <2>6. \A k \in Pending : k \in 0 .. pos - 1
    BY ONLY <1>1, <1>3, <1>4, <2>1
  <2> QED BY <1>2, <1>3, <2>3, <2>5, <2>6
<1> QED BY <1>7, <1>8

LEMMA ServeOutStep ==
    ASSUME RingInv, NEW n \in 1 .. MaxTotal, ServeOut(n)
    PROVE  RingInv'
<1>1. /\ UNCHANGED <<size, pos, rt, partial, maxDist, ring, state, remaining, left,
                     dist, word>>
      /\ sent' = sent + n /\ out' = SubSeq(out, n + 1, Len(out)) /\ n <= Len(out)
      /\ out # <<>> /\ state # "error"
  BY DEF ServeOut, Suspended
<1>2. Core /\ Sound /\ Placed
  BY <1>1 DEF RingInv, Blank
<1>3. n \in Nat /\ 1 <= n /\ sent \in Nat /\ Len(out) \in Nat /\ out \in Seq(Int)
  BY <1>2, DecoderRingAssumption, Numbers DEF Core, Types
<1>4. /\ out' \in Seq(Int) /\ Len(out') = Len(out) - n
      /\ \A k \in 1 .. Len(out) - n : out'[k] = out[n + k]
  BY ONLY <1>1, <1>3
<1>5. Ordered'
  <2> SUFFICES ASSUME NEW k \in 1 .. Len(out') PROVE out'[k] = sent' + k - 1
    BY DEF Ordered
  <2>1. k \in 1 .. Len(out) - n /\ n + k \in 1 .. Len(out) /\ k \in Int
    BY ONLY <1>3, <1>4, k \in 1 .. Len(out')
  <2>2. out[n + k] = sent + (n + k) - 1
    BY <1>2, <2>1 DEF Core, Ordered
  <2>3. out'[k] = out[n + k]
    BY ONLY <1>4, <2>1
  <2> QED BY ONLY <1>1, <1>3, <2>1, <2>2, <2>3
<1>6. Types'
  BY <1>1, <1>2, <1>3, <1>4 DEF Core, Types, Slots
<1>7. Core'
  BY <1>1, <1>2, <1>5, <1>6 DEF Core, Wrapped, Reach, MaxBackward
<1>8. Handed'
  <2>1. /\ partial = sent + Len(out) /\ Base <= partial /\ partial <= Base + pos
        /\ partial <= Base + size
    BY <1>2 DEF Sound, Handed
  <2>2. sent + Len(out) = (sent + n) + (Len(out) - n)
    BY ONLY <1>3
  <2>3. partial' = sent' + Len(out') /\ Base' = Base
    BY <1>1, <1>4, <2>1, <2>2 DEF Base
  <2> QED BY <1>1, <2>1, <2>3 DEF Handed
<1>9. Sound' /\ Placed'
  BY <1>1, <1>2, <1>8 DEF Sound, ThisLap, LastLap, Zeros, Base, Placed
<1> QED BY <1>7, <1>9 DEF RingInv

LEMMA ServePendingStep ==
    ASSUME RingInv, NEW n \in 1 .. MaxTotal, ServePending(n)
    PROVE  RingInv'
<1>1. /\ UNCHANGED <<size, pos, rt, maxDist, ring, state, remaining, left, dist,
                     word, out>>
      /\ sent' = sent + n /\ partial' = partial + n /\ out = <<>>
      /\ n <= Cardinality(Pending) /\ state # "error"
  BY DEF ServePending, Suspended
<1>2. Core /\ Handed
  BY <1>1, HandedOut
<1>3. /\ n \in Nat /\ 1 <= n /\ sent \in Nat /\ partial \in Nat /\ Base \in Nat
      /\ pos \in Nat /\ size \in Nat
  BY <1>2, DecoderRingAssumption, Numbers
<1>4. PICK c : c = Cardinality(Pending)
  OBVIOUS
<1>5. c \in Nat /\ partial + c <= Base + pos /\ partial + c <= Base + size /\ n <= c
  BY <1>1, <1>2, <1>4, PendingBytes
<1>6. partial + n <= Base + pos /\ partial + n <= Base + size
  BY ONLY <1>3, <1>5
<1>7. Sound /\ Placed
  <2>1. ~Blank
    <3>1. CASE Blank
      <4>1. partial = 0 /\ pos = 0 /\ rt = 0
        BY <3>1 DEF Blank
      <4>2. Base = 0
        BY <1>2, <4>1, Numbers
      <4> QED BY ONLY <1>3, <1>6, <4>1, <4>2
    <3> QED BY <3>1
  <2> QED BY <1>1, <2>1 DEF RingInv
<1>8. Core'
  <2>1. Types'
    BY <1>1, <1>2, <1>3 DEF Core, Types, Slots
  <2>2. Ordered'
    BY <1>1 DEF Ordered
  <2> QED BY <1>1, <1>2, <2>1, <2>2 DEF Core, Wrapped, Reach, MaxBackward
<1>9. Handed'
  <2>1. partial = sent + Len(out) /\ Base <= partial /\ Len(out) = 0
    BY <1>1, <1>2 DEF Handed
  <2>2. partial + n = (sent + n) + Len(out) /\ Base <= partial + n
    BY ONLY <1>3, <2>1
  <2>3. Base' = Base
    BY <1>1 DEF Base
  <2> QED BY <1>1, <1>6, <2>2, <2>3 DEF Handed
<1>10. Sound' /\ Placed'
  BY <1>1, <1>7, <1>9 DEF Sound, ThisLap, LastLap, Zeros, Base, Placed
<1> QED BY <1>8, <1>10 DEF RingInv

LEMMA FailStep ==
    ASSUME RingInv, Fail
    PROVE  RingInv'
<1>1. /\ UNCHANGED <<size, pos, rt, maxDist, ring, remaining, left, dist, word, sent>>
      /\ state' = "error" /\ out' = <<>> /\ state # "error"
      /\ partial' = partial + Cardinality(Pending)
  BY DEF Fail
<1>2. Core /\ Handed
  BY <1>1, HandedOut
<1>3. partial' \in Nat
  <2>1. partial \in Nat /\ Cardinality(Pending) \in Nat
    BY <1>2, Numbers, PendingBytes
  <2> QED BY <1>1, <2>1
<1>4. Types'
  BY <1>1, <1>2, <1>3 DEF Core, Types, Slots, States
<1>5. Ordered'
  BY <1>1 DEF Ordered
<1>6. Core'
  BY <1>1, <1>2, <1>4, <1>5 DEF Core, Wrapped, Reach, MaxBackward
<1> QED BY <1>1, <1>6 DEF RingInv

-----------------------------------------------------------------------------
(* The theorems *)

LEMMA InitRing == Init => RingInv
<1> SUFFICES ASSUME Init PROVE RingInv
  OBVIOUS
<1>1. /\ size = 0 /\ pos = 0 /\ rt = 0 /\ partial = 0 /\ maxDist = 0
      /\ ring = [k \in Slots |-> Stale] /\ state = "header" /\ remaining = 0
      /\ left = 0 /\ dist = 0 /\ word = 0 /\ out = <<>> /\ sent = 0
  BY DEF Init, Slots
<1>2. ring \in [Slots -> Int]
  BY <1>1 DEF Stale
<1>3. Types
  BY <1>1, <1>2 DEF Types, States
<1>4. Wrapped /\ Reach /\ Ordered
  BY <1>1, RingConstants DEF Wrapped, Reach, Ordered
<1>5. Blank
  BY <1>1 DEF Blank
<1> QED BY <1>3, <1>4, <1>5 DEF RingInv, Core

(* A decoder that is used again is a new one. *)
LEMMA ReuseStep ==
    ASSUME Reuse
    PROVE  RingInv'
<1>1. /\ size' = 0 /\ pos' = 0 /\ rt' = 0 /\ partial' = 0 /\ maxDist' = 0
      /\ ring' = [k \in Slots |-> Stale] /\ state' = "header" /\ remaining' = 0
      /\ left' = 0 /\ dist' = 0 /\ word' = 0 /\ out' = <<>> /\ sent' = 0
  BY DEF Reuse, Fresh, Slots
<1>2. ring' \in [Slots -> Int] /\ Slots' = Slots
  BY <1>1 DEF Stale, Slots
<1>3. Types'
  BY <1>1, <1>2 DEF Types, States
<1>4. Wrapped' /\ Reach' /\ Ordered'
  BY <1>1, RingConstants DEF Wrapped, Reach, Ordered, MaxBackward
<1>5. Blank'
  BY <1>1 DEF Blank
<1> QED BY <1>3, <1>4, <1>5 DEF RingInv, Core

LEMMA RingStep == RingInv /\ [Next]_vars => RingInv'
<1> SUFFICES ASSUME RingInv, [Next]_vars PROVE RingInv'
  OBVIOUS
<1>1. CASE UNCHANGED vars
  BY <1>1 DEF vars, RingInv, Core, Types, Wrapped, Reach, Ordered, Sound, ThisLap,
              LastLap, Zeros, Handed, Placed, Blank, Base, Slots, MaxBackward
<1>2. ASSUME NEW bytes \in 1 .. MaxTotal, NEW kind \in Kinds, BeginMetablock(bytes, kind)
      PROVE  RingInv'
  BY <1>2, BeginStep
<1>3. ASSUME NEW i \in 0 .. MaxInsert, CommandBegin(i) PROVE RingInv'
  BY <1>3, CommandBeginStep
<1>4. ASSUME NEW n \in 1 .. MaxInsert, CommandInner(n) PROVE RingInv'
  BY <1>4, CommandInnerStep
<1>5. CASE InnerWrite \/ PostWrite1 \/ PostWrite2 \/ UncompressedWrite
  BY <1>5, WritingOut
<1>6. ASSUME NEW c \in 2 .. MaxCopy, NEW d \in 1 .. MaxBackward, CopyFromRing(c, d)
      PROVE  RingInv'
  BY <1>6, CopyFromRingStep
<1>7. CASE WrapCopyChunk
  BY <1>7, WrapCopyChunkStep
<1>8. CASE WrapCopyDone \/ MetablockDone
  BY <1>8, EndOfCommand
<1>9. ASSUME NEW w \in 0 .. MaxWord, CopyDictionaryWord(w) PROVE RingInv'
  BY <1>9, CopyDictionaryWordStep
<1>10. ASSUME NEW c \in 2 .. MaxCopy, CopyCompound(c) PROVE RingInv'
  BY <1>10, CopyCompoundStep
<1>11. CASE CompoundRest
  BY <1>11, CompoundRestStep
<1>12. ASSUME NEW n \in 1 .. MaxTotal, CopyUncompressed(n) PROVE RingInv'
  BY <1>12, CopyUncompressedStep
<1>13. ASSUME NEW n \in 1 .. MaxTotal, ServeOut(n) \/ ServePending(n) PROVE RingInv'
  BY <1>13, ServeOutStep, ServePendingStep
<1>14. CASE Fail
  BY <1>14, FailStep
<1>15. CASE Reuse
  BY <1>15, ReuseStep
<1> QED
  BY <1>1, <1>2, <1>3, <1>4, <1>5, <1>6, <1>7, <1>8, <1>9, <1>10, <1>11, <1>12,
     <1>13, <1>14, <1>15 DEF Next

(* The inductive invariant: between any two steps of the decoder the ring  *)
(* holds this lap up to the write position and the last lap from the gap   *)
(* on, the bytes handed out are a prefix of those decoded, and a write has *)
(* room in the slack.                                                      *)
THEOREM RingInvHolds == Spec => []RingInv
<1>1. Init => RingInv
  BY InitRing
<1>2. RingInv /\ [Next]_vars => RingInv'
  BY RingStep
<1> QED BY <1>1, <1>2, PTL DEF Spec

(* Every distance the decoder accepts (processCommands) reaches the byte   *)
(* it means, however the ring has grown and wrapped and whatever the wide  *)
(* stores left behind; no write passes the slack.                          *)
THEOREM HistoryKept == Spec => []HistoryIntact
<1>1. ASSUME RingInv PROVE HistoryIntact
  <2> SUFFICES ASSUME size > 0, state # "error"
               PROVE  /\ RingBounds
                      /\ \A d \in 1 .. MaxDistance : ring[Slot(d)] = Total - d
                      /\ Total = 0 => ring[size - 2] = Zero
                      /\ Total <= 1 => ring[size - 1] = Zero
    BY DEF HistoryIntact
  <2>1. Core /\ Sound /\ Placed
    BY <1>1 DEF RingInv, Blank
  <2>2. /\ size \in Nat /\ pos \in Nat /\ rt \in Nat /\ Base \in Nat
        /\ (rt > 0 => Base >= size) /\ (rt > 0 => size = Window)
        /\ Total = Base + pos /\ size >= MinRing
    BY <2>1, Numbers DEF Sound
  <2>3. RingBounds
    <3>1. pos <= size + MaxWord /\ (state \in Settled => pos < size)
      BY <2>1 DEF Placed
    <3>2. pos < size + MaxWord + 1
      BY ONLY <2>2, <3>1, RingConstants
    <3> QED BY <2>2, <3>1, <3>2 DEF RingBounds, Settled
  <2>4. ASSUME NEW d \in 1 .. MaxDistance PROVE ring[Slot(d)] = Total - d
    <3>1. MaxDistance \in Nat
      BY <2>1, Distance
    <3>2. d \in Nat /\ 1 <= d /\ d <= MaxDistance
      BY ONLY <3>1, d \in 1 .. MaxDistance
    <3>3. CASE d <= pos
      <4>1. Slot(d) = pos - d
        BY <3>3 DEF Slot
      <4>2. pos - d \in 0 .. pos - 1
        BY ONLY <2>2, <3>2, <3>3
      <4>3. ring[pos - d] = Base + (pos - d)
        BY <2>1, <4>2 DEF Sound, ThisLap
      <4> QED BY ONLY <2>2, <3>2, <4>1, <4>3
    <3>4. CASE ~(d <= pos)
      <4>1. Slot(d) = pos - d + size
        BY <3>4 DEF Slot
      <4>2. rt > 0 /\ MaxDistance = MaxBackward
        BY ONLY <2>1, <2>2, <3>2, <3>4, Distance, RingConstants
      <4>3. pos - d + size \in pos + WindowGap .. size - 1
        BY ONLY <2>2, <3>2, <3>4, <4>2, RingConstants
      <4>4. ring[pos - d + size] = Base - size + (pos - d + size)
        BY <2>1, <4>2, <4>3 DEF Sound, LastLap
      <4> QED BY ONLY <2>2, <3>2, <4>1, <4>4
    <3> QED BY <3>3, <3>4
  <2>5. Total <= 1 => rt = 0 /\ pos <= 1
    BY ONLY <2>2, RingConstants
  <2>6. Total = 0 => rt = 0 /\ pos = 0
    BY ONLY <2>2, RingConstants
  <2>7. /\ Total = 0 => ring[size - 2] = Zero
        /\ Total <= 1 => ring[size - 1] = Zero
    BY <2>1, <2>5, <2>6 DEF Sound, Zeros
  <2> QED BY <2>3, <2>4, <2>7
<1> QED BY <1>1, RingInvHolds, PTL

(* A reference goes to the dictionary exactly when it reaches behind the   *)
(* decoded bytes or the window: writeRingBuffer sets maxDistance to the    *)
(* full window only when a lap is over.                                    *)
THEOREM DistanceExact == Spec => []MaxDistanceExact
<1>1. ASSUME RingInv PROVE MaxDistanceExact
  <2> SUFFICES ASSUME size > 0, pos < size
               PROVE  MaxDistance = Min({Total, MaxBackward})
    BY DEF MaxDistanceExact
  <2>1. Core
    BY <1>1 DEF RingInv
  <2>2. /\ size \in Nat /\ pos \in Nat /\ rt \in Nat /\ Base \in Nat
        /\ (rt > 0 => Base >= size) /\ (rt > 0 => size = Window)
        /\ Total = Base + pos /\ (rt = 0 => Base = 0)
    BY <2>1, Numbers
  <2>3. /\ rt > 0 => MaxDistance = MaxBackward
        /\ rt = 0 => MaxDistance = IF pos <= MaxBackward THEN pos ELSE MaxBackward
    BY <2>1, Distance
  <2>4. Min({Total, MaxBackward}) = IF Total <= MaxBackward THEN Total ELSE MaxBackward
    <3>1. Total \in Int /\ MaxBackward \in Int
      BY ONLY <2>2, RingConstants
    <3> QED BY ONLY <3>1, MinMaxPair
  <2>5. CASE rt > 0
    <3>1. Total >= MaxBackward /\ Total \in Int
      BY ONLY <2>2, <2>5, RingConstants
    <3> QED BY ONLY <2>3, <2>4, <2>5, <3>1, RingConstants
  <2>6. CASE rt = 0
    BY ONLY <2>2, <2>3, <2>4, <2>6
  <2> QED BY ONLY <2>2, <2>5, <2>6
<1> QED BY <1>1, RingInvHolds, PTL

(* The caller of Reader and Decompress receives every byte once and in     *)
(* order, by whichever of the two routes, and all of them when the stream  *)
(* has ended.                                                              *)
THEOREM OutputOrdered == Spec => []OutputInOrder
<1>1. ASSUME RingInv PROVE OutputInOrder
  <2>1. Core
    BY <1>1 DEF RingInv
  <2>2. \A k \in 1 .. Len(out) : out[k] = sent + k - 1
    BY <2>1 DEF Core, Ordered
  <2>3. ASSUME state # "error"
        PROVE  /\ partial = sent + Len(out)
               /\ \A k \in Pending : ring[k] = partial + (k - Flushed)
    <3>1. Handed
      BY <1>1, <2>3, HandedOut
    <3>2. pos \in Nat /\ Base \in Nat
      BY <2>1, Numbers
    <3>3. /\ \A k \in Pending : k \in 0 .. pos - 1
          /\ Flushed \in Nat /\ partial = Base + Flushed
      BY <2>1, <3>1, PendingBytes
    <3>4. ASSUME NEW k \in Pending PROVE ring[k] = partial + (k - Flushed)
      <4>1. k \in 0 .. pos - 1
        BY <3>3
      <4>2. pos > 0
        BY ONLY <3>2, <4>1
      <4>3. Sound
        BY <1>1, <2>3, <4>2 DEF RingInv, Blank
      <4>4. ring[k] = Base + k
        BY <4>1, <4>3 DEF Sound, ThisLap
      <4> QED BY ONLY <3>2, <3>3, <4>1, <4>4
    <3> QED BY <3>1, <3>4 DEF Handed
  <2>4. ASSUME state = "done" PROVE sent + Len(out) + Cardinality(Pending) = Total
    <3>1. Sound /\ Placed
      BY <1>1, <2>4, Live
    <3>2. remaining >= 0 /\ pos < size /\ Handed
      BY <2>4, <3>1 DEF Placed, Settled, Sound
    <3>3. /\ size \in Nat /\ pos \in Nat /\ Total = Base + pos
      BY <2>1, Numbers
    <3>4. partial + Cardinality(Pending) = Base + pos
      <4>1. pos <= size
        BY ONLY <3>2, <3>3
      <4> QED BY <2>1, <3>2, <4>1, PendingBytes
    <3> QED BY <3>2, <3>3, <3>4 DEF Handed
  <2> QED BY <2>2, <2>3, <2>4 DEF OutputInOrder
<1> QED BY <1>1, RingInvHolds, PTL

-----------------------------------------------------------------------------
(* The input ring of the encoder *)

(* The window that ends at i is in place in d. *)
WindowUpTo(d, i) ==
    \A q \in Nat : q < i /\ i <= q + Size =>
        /\ d[q % Size] = q
        /\ q >= Size /\ q % Size < TailSize => d[Size + (q % Size)] = q

(* ringBufPos is the input position until it wraps; its flag says that it  *)
(* did, and the masked position is always that of the input.               *)
Masked ==
    /\ rbPos < HighBit => rbPos = inputPos
    /\ rbPos >= HighBit => inputPos >= HighBit
    /\ rbPos % Size = inputPos % Size

(* A small allocation holds a first write that is smaller than a block. *)
SmallFirst ==
    len < Full => inputPos = 0 \/ (inputPos < TailSize /\ inputPos + Quiet <= len)

InputRingInv ==
    /\ TypeOK /\ Masked /\ SmallFirst /\ WindowUpTo(data, inputPos) /\ QuietAfterInput

-----------------------------------------------------------------------------
(* Masking *)

(* Division with remainder. *)
LEMMA Remainder ==
    ASSUME NEW s \in Nat \ {0}, NEW a \in Nat
    PROVE  a = s * (a \div s) + (a % s) /\ a % s \in 0 .. s - 1 /\ a \div s \in Int
OBVIOUS

(* A masked position is one of the ring. *)
LEMMA ModRange ==
    ASSUME NEW s \in Nat \ {0}, NEW a \in Nat
    PROVE  a % s \in Nat /\ a % s < s /\ a % s \in 0 .. s - 1
<1>1. a % s \in 0 .. s - 1
  BY Remainder
<1> QED BY ONLY <1>1, s \in Nat \ {0}

(* The remainder is the only number below the divisor at a whole number of *)
(* divisors.                                                               *)
LEMMA RemainderUnique ==
    ASSUME NEW s \in Nat \ {0}, NEW q \in Int, NEW p \in Int,
           NEW r \in 0 .. s - 1, NEW t \in 0 .. s - 1, s * q + r = s * p + t
    PROVE  r = t
<1>1. s * (q - p) = t - r
  OBVIOUS
<1>2. CASE q - p >= 1
  <2>1. s * (q - p) >= s
    BY <1>2
  <2> QED BY <1>1, <2>1
<1>3. CASE q - p <= -1
  <2>1. s * (q - p) <= -s
    BY <1>3
  <2> QED BY <1>1, <2>1
<1>4. CASE q - p = 0
  BY <1>1, <1>4
<1> QED BY <1>2, <1>3, <1>4

(* A number below the divisor masks to itself. *)
LEMMA ModSmall ==
    ASSUME NEW s \in Nat \ {0}, NEW a \in 0 .. s - 1
    PROVE  a % s = a
<1>1. a = s * (a \div s) + (a % s) /\ a % s \in 0 .. s - 1 /\ a \div s \in Int
  BY Remainder
<1>2. s * (a \div s) + (a % s) = s * 0 + a
  BY <1>1
<1> QED BY <1>1, <1>2, RemainderUnique

(* A step of at most one lap wraps at most once. *)
LEMMA ModAdd ==
    ASSUME NEW s \in Nat \ {0}, NEW a \in Nat, NEW n \in 0 .. s
    PROVE  (a + n) % s = IF (a % s) + n < s THEN (a % s) + n ELSE (a % s) + n - s
<1>1. PICK q \in Int, r \in 0 .. s - 1 : a = s * q + r /\ r = a % s
  BY Remainder
<1>2. PICK b \in Nat : b = a + n
  OBVIOUS
<1>3. PICK p \in Int, t \in 0 .. s - 1 : b = s * p + t /\ t = b % s
  BY Remainder
<1>4. CASE r + n < s
  <2>1. PICK u \in 0 .. s - 1 : u = r + n
    BY <1>4
  <2>2. s * p + t = s * q + u
    BY <1>1, <1>2, <1>3, <2>1
  <2>3. t = u
    BY <2>2, RemainderUnique
  <2> QED BY <1>1, <1>2, <1>3, <1>4, <2>1, <2>3
<1>5. CASE ~(r + n < s)
  <2>1. PICK u \in 0 .. s - 1 : u = r + n - s
    BY <1>5
  <2>2. PICK z \in Int : z = q + 1
    OBVIOUS
  <2>3. s * z = s * q + s
    BY <2>2
  <2>4. s * p + t = s * z + u
    BY <1>1, <1>2, <1>3, <2>1, <2>3
  <2>5. t = u
    BY <2>4, RemainderUnique
  <2> QED BY <1>1, <1>2, <1>3, <1>5, <2>1, <2>5
<1> QED BY <1>4, <1>5

(* The flag of the position is a whole number of laps. *)
LEMMA ModShift ==
    ASSUME NEW s \in Nat \ {0}, NEW h \in Nat, h % s = 0, NEW a \in Nat
    PROVE  (a + h) % s = a % s
<1>1. PICK q \in Int, r \in 0 .. s - 1 : a = s * q + r /\ r = a % s
  BY Remainder
<1>2. PICK w \in Int : h = s * w
  BY Remainder
<1>3. PICK b \in Nat : b = a + h
  OBVIOUS
<1>4. PICK p \in Int, t \in 0 .. s - 1 : b = s * p + t /\ t = b % s
  BY Remainder
<1>5. PICK z \in Int : z = q + w
  OBVIOUS
<1>6. s * z = s * q + s * w
  BY <1>5
<1>7. s * p + t = s * z + r
  <2>1. PICK x \in Int, y \in Int, v \in Int, c \in Int :
           x = s * q /\ y = s * w /\ v = s * z /\ c = s * p
    OBVIOUS
  <2>2. v = x + y /\ a = x + r /\ h = y /\ b = a + h /\ b = c + t
    BY <1>1, <1>2, <1>3, <1>4, <1>6, <2>1
  <2>3. c + t = v + r
    BY <2>2
  <2> QED BY <2>1, <2>3
<1>8. t = r
  BY <1>7, RemainderUnique
<1> QED BY <1>1, <1>3, <1>4, <1>8

-----------------------------------------------------------------------------
(* Positions *)

(* The sizes, without the assumption's structure. *)
LEMMA InputSizes ==
    /\ Size \in Nat \ {0} /\ TailSize \in Nat \ {0} /\ TailSize < Size /\ 2 * TailSize <= Size
    /\ Quiet \in Nat /\ Quiet <= Size /\ HighBit \in Nat \ {0}
    /\ HighBit % Size = 0 /\ HighBit > Size /\ MaxInput \in Nat
    /\ Full = Size + TailSize + Quiet /\ Full \in Nat
<1>1. /\ Size \in Nat \ {0} /\ TailSize \in Nat \ {0} /\ 2 * TailSize <= Size
      /\ Quiet \in Nat /\ Quiet <= Size /\ HighBit \in Nat
      /\ HighBit % Size = 0 /\ HighBit > Size /\ MaxInput \in Nat
  BY EncoderRingAssumption
<1>2. TailSize < Size /\ HighBit \in Nat \ {0} /\ Full \in Nat
  BY <1>1 DEF Full
<1> QED BY <1>1, <1>2 DEF Full

(* ringBufPos moves by n, less the flag's worth when it wraps again. *)
LEMMA AdvanceValue ==
    ASSUME TypeOK, NEW n \in 1 .. TailSize
    PROVE  /\ Advance(n) = rbPos + n \/ Advance(n) + HighBit = rbPos + n
           /\ Advance(n) < HighBit => rbPos < HighBit /\ Advance(n) = rbPos + n
           /\ Advance(n) \in 0 .. 2 * HighBit - 1
<1>1. /\ HighBit \in Nat \ {0} /\ n \in Nat /\ n < HighBit /\ n > 0
      /\ rbPos \in Nat /\ rbPos < 2 * HighBit
  BY InputSizes DEF TypeOK
<1>2. CASE rbPos < HighBit
  <2>1. rbPos % HighBit = rbPos
    BY <1>1, <1>2, ModSmall
  <2>2. Advance(n) = rbPos + n
    BY <1>1, <1>2, <2>1 DEF Advance
  <2> QED BY <1>1, <1>2, <2>2
<1>3. CASE ~(rbPos < HighBit)
  <2>1. PICK b \in 0 .. HighBit - 1 : rbPos = HighBit + b
    <3>1. rbPos - HighBit \in 0 .. HighBit - 1 /\ rbPos = HighBit + (rbPos - HighBit)
      BY <1>1, <1>3
    <3> QED BY <3>1
  <2>2. rbPos % HighBit = b
    <3>1. HighBit % HighBit = 0
      <4>1. 0 % HighBit = 0
        BY <1>1, ModSmall
      <4>2. (0 + HighBit) % HighBit = IF (0 % HighBit) + HighBit < HighBit
                                      THEN (0 % HighBit) + HighBit
                                      ELSE (0 % HighBit) + HighBit - HighBit
        BY <1>1, ModAdd
      <4> QED BY <1>1, <4>1, <4>2
    <3>2. (b + HighBit) % HighBit = b % HighBit
      <4>1. b \in Nat /\ HighBit \in Nat /\ HighBit \in Nat \ {0}
        BY <1>1
      <4> QED BY ONLY <4>1, <3>1, ModShift
    <3>3. b % HighBit = b
      BY <1>1, ModSmall
    <3> QED BY <1>1, <2>1, <3>2, <3>3
  <2>3. Advance(n) = IF b + n < HighBit THEN b + n + HighBit ELSE b + n
    BY <1>1, <1>3, <2>2 DEF Advance
  <2> HIDE DEF Advance
  <2> QED BY <1>1, <1>3, <2>1, <2>3
<1> QED BY <1>2, <1>3

(* So the masked position moves with the input. *)
LEMMA AdvanceMasked ==
    ASSUME InputRingInv, NEW n \in 1 .. TailSize
    PROVE  /\ Advance(n) % Size = (inputPos + n) % Size
           /\ Advance(n) < HighBit => Advance(n) = inputPos + n
           /\ Advance(n) >= HighBit => inputPos + n >= HighBit
<1>1. /\ HighBit \in Nat \ {0} /\ n \in Nat /\ n <= Size /\ n \in 0 .. Size
      /\ rbPos \in Nat /\ inputPos \in Nat /\ Size \in Nat \ {0} /\ HighBit % Size = 0
  BY InputSizes DEF TypeOK, InputRingInv
<1>2. PICK a \in Nat : /\ a = Advance(n)
                       /\ a = rbPos + n \/ a + HighBit = rbPos + n
                       /\ a < HighBit => rbPos < HighBit /\ a = rbPos + n
  BY <1>1, AdvanceValue, InputSizes DEF InputRingInv
<1>3. /\ rbPos < HighBit => rbPos = inputPos
      /\ rbPos >= HighBit => inputPos >= HighBit
      /\ rbPos % Size = inputPos % Size
  BY DEF InputRingInv, Masked
<1>4. (rbPos + n) % Size = (inputPos + n) % Size
  <2>1. (rbPos + n) % Size = IF (rbPos % Size) + n < Size THEN (rbPos % Size) + n
                             ELSE (rbPos % Size) + n - Size
    BY ONLY <1>1, ModAdd
  <2>2. (inputPos + n) % Size = IF (inputPos % Size) + n < Size THEN (inputPos % Size) + n
                                ELSE (inputPos % Size) + n - Size
    BY ONLY <1>1, ModAdd
  <2> QED BY ONLY <1>3, <2>1, <2>2
<1>5. a % Size = (rbPos + n) % Size
  <2>1. (a + HighBit) % Size = a % Size
    BY <1>1, ModShift
  <2> QED BY <1>2, <2>1
<1>6. a < HighBit => a = inputPos + n
  BY <1>2, <1>3
<1>7. a >= HighBit => inputPos + n >= HighBit
  BY <1>1, <1>2, <1>3
<1> QED BY <1>2, <1>4, <1>5, <1>6, <1>7

-----------------------------------------------------------------------------
(* Contents *)

(* The smaller and the larger of two integers. *)
LEMMA MinMaxTwo ==
    ASSUME NEW a \in Int, NEW b \in Int
    PROVE  /\ Min({a, b}) = IF a <= b THEN a ELSE b
           /\ Max({a, b}) = IF a >= b THEN a ELSE b
<1>1. PICK lo \in {a, b} : lo = (IF a <= b THEN a ELSE b) /\ \A y \in {a, b} : lo <= y
  OBVIOUS
<1>2. PICK hi \in {a, b} : hi = (IF a >= b THEN a ELSE b) /\ \A y \in {a, b} : hi >= y
  OBVIOUS
<1>3. \A x \in {a, b} : (\A y \in {a, b} : x <= y) => x = lo
  BY <1>1
<1>4. \A x \in {a, b} : (\A y \in {a, b} : x >= y) => x = hi
  BY <1>2
<1>5. Min({a, b}) = lo
  BY <1>1, <1>3 DEF Min
<1>6. Max({a, b}) = hi
  BY <1>2, <1>4 DEF Max
<1> QED BY <1>1, <1>2, <1>5, <1>6

(* What a write of n bytes at m leaves at k: the input, its part that ran  *)
(* over the end, the copy of its part at the front, or what was there.     *)
StoredByte(d, m, n, k) ==
    IF m <= k /\ k < m + n /\ k < Size + TailSize THEN inputPos + (k - m)
    ELSE IF m <= k + Size /\ k + Size < m + n THEN inputPos + (k + Size - m)
    ELSE IF m <= k - Size /\ k - Size < m + n /\ k - Size < TailSize
    THEN inputPos + (k - Size - m)
    ELSE d[k]

(* That is what Stored does, byte by byte. *)
LEMMA StoredAt ==
    ASSUME NEW d \in [0 .. Full - 1 -> Int], NEW m \in 0 .. Size - 1, NEW n \in 1 .. TailSize,
           inputPos \in Nat, NEW k \in 0 .. Full - 1
    PROVE  Stored(d, m, n)[k] = StoredByte(d, m, n, k)
<1>1. /\ Size \in Nat /\ TailSize \in Nat /\ Full \in Nat /\ m \in Int /\ n \in Int
      /\ k \in Int /\ m + n \in Int
  BY InputSizes
<1>2. Min({m + n, TailSize}) = IF m + n <= TailSize THEN m + n ELSE TailSize
  BY <1>1, MinMaxTwo
<1>3. k \in DOMAIN d
  OBVIOUS
<1>4. Stored(d, m, n)[k] =
       IF k \in m .. m + n - 1 /\ k < Size + TailSize THEN inputPos + (k - m)
       ELSE IF k + Size \in m .. m + n - 1 THEN inputPos + (k + Size - m)
       ELSE IF m < TailSize /\ k - Size \in m .. (IF m + n <= TailSize THEN m + n ELSE TailSize) - 1
       THEN inputPos + (k - Size - m)
       ELSE d[k]
  BY <1>2, <1>3 DEF Stored
<1>5. /\ k \in m .. m + n - 1 <=> m <= k /\ k < m + n
      /\ k + Size \in m .. m + n - 1 <=> m <= k + Size /\ k + Size < m + n
      /\ m < TailSize /\ k - Size \in m .. (IF m + n <= TailSize THEN m + n ELSE TailSize) - 1
           <=> m <= k - Size /\ k - Size < m + n /\ k - Size < TailSize
  BY <1>1
<1> QED BY ONLY <1>4, <1>5 DEF StoredByte

(* It stays an array of bytes. *)
LEMMA StoredType ==
    ASSUME NEW d \in [0 .. Full - 1 -> Int], NEW m \in 0 .. Size - 1, NEW n \in 1 .. TailSize,
           inputPos \in Nat
    PROVE  Stored(d, m, n) \in [0 .. Full - 1 -> Int]
<1>1. Size \in Nat /\ TailSize \in Nat /\ Full \in Nat /\ m \in Int
  BY InputSizes
<1> QED BY <1>1 DEF Stored

(* The window moves on by n bytes. *)
LEMMA StoredWindow ==
    ASSUME NEW d \in [0 .. Full - 1 -> Int], NEW n \in 1 .. TailSize, inputPos \in Nat,
           WindowUpTo(d, inputPos), NEW m, m = inputPos % Size
    PROVE  WindowUpTo(Stored(d, m, n), inputPos + n)
<1>1. /\ Size \in Nat \ {0} /\ Size \in Nat /\ TailSize \in Nat /\ TailSize < Size /\ 2 * TailSize <= Size
      /\ Quiet \in Nat /\ Full = Size + TailSize + Quiet /\ n \in Nat /\ n > 0 /\ n <= TailSize
  BY InputSizes
<1>2. m \in 0 .. Size - 1 /\ m \in Nat /\ m < Size
  BY <1>1, ModRange
<1> SUFFICES ASSUME NEW q \in Nat, q < inputPos + n, inputPos + n <= q + Size
             PROVE  /\ Stored(d, m, n)[q % Size] = q
                    /\ q >= Size /\ q % Size < TailSize => Stored(d, m, n)[Size + (q % Size)] = q
  BY DEF WindowUpTo
<1>3. PICK x \in Nat : x = q % Size /\ x < Size
  BY <1>1, ModRange
<1>4. x \in 0 .. Full - 1 /\ (x < TailSize => Size + x \in 0 .. Full - 1)
  BY <1>1, <1>3
<1>5. /\ Stored(d, m, n)[x] = StoredByte(d, m, n, x)
      /\ x < TailSize => Stored(d, m, n)[Size + x] = StoredByte(d, m, n, Size + x)
  BY <1>2, <1>4, StoredAt
<1>6. CASE q >= inputPos
  <2>1. PICK i \in Nat : q = inputPos + i /\ i < n /\ i \in 0 .. Size
    <3>1. q - inputPos \in Nat /\ q = inputPos + (q - inputPos) /\ q - inputPos < n
          /\ q - inputPos \in 0 .. Size
      BY <1>1, <1>6
    <3> QED BY <3>1
  <2>2. x = IF m + i < Size THEN m + i ELSE m + i - Size
    <3>1. (inputPos + i) % Size = IF (inputPos % Size) + i < Size THEN (inputPos % Size) + i
                                  ELSE (inputPos % Size) + i - Size
      BY <1>1, <2>1, ModAdd
    <3> QED BY ONLY <3>1, <1>3, <2>1, m = inputPos % Size
  <2>3. inputPos \in Nat /\ q \in Nat /\ x \in Nat /\ i \in Nat
    OBVIOUS
  <2>4. StoredByte(d, m, n, x) = q
    BY ONLY <1>1, <1>2, <2>1, <2>2, <2>3 DEF StoredByte
  <2>5. x < TailSize => StoredByte(d, m, n, Size + x) = q
    BY ONLY <1>1, <1>2, <2>1, <2>2, <2>3 DEF StoredByte
  <2> QED BY <1>3, <1>5, <2>4, <2>5
<1>7. CASE q < inputPos
  <2>1. PICK j \in Nat : inputPos = q + j /\ j > 0 /\ j + n <= Size /\ j \in 0 .. Size
    <3>1. /\ inputPos - q \in Nat /\ inputPos = q + (inputPos - q) /\ inputPos - q > 0
          /\ (inputPos - q) + n <= Size /\ inputPos - q \in 0 .. Size
      BY <1>1, <1>7
    <3> QED BY <3>1
  <2>2. m = IF x + j < Size THEN x + j ELSE x + j - Size
    <3>1. (q + j) % Size = IF (q % Size) + j < Size THEN (q % Size) + j
                           ELSE (q % Size) + j - Size
      BY <1>1, <2>1, ModAdd
    <3> QED BY ONLY <3>1, <1>3, <2>1, m = inputPos % Size
  <2>3. StoredByte(d, m, n, x) = d[x] /\ (x < TailSize => StoredByte(d, m, n, Size + x) = d[Size + x])
    BY <1>1, <1>2, <1>3, <2>1, <2>2 DEF StoredByte
  <2>4. inputPos <= q + Size
    BY <1>1
  <2>5. d[x] = q /\ (q >= Size /\ x < TailSize => d[Size + x] = q)
    BY <1>3, <1>7, <2>4 DEF WindowUpTo
  <2> QED BY <1>3, <1>5, <2>3, <2>5
<1> QED BY <1>6, <1>7

(* Growing the buffer keeps a small first write where it is. *)
LEMMA GrownWindow ==
    ASSUME InputRingInv, len < Full, NEW junk \in Int, NEW b,
           b = [Grown(Size + TailSize, junk) EXCEPT ![Size - 2] = Cleared, ![Size - 1] = Cleared]
    PROVE  b \in [0 .. Full - 1 -> Int] /\ WindowUpTo(b, inputPos)
<1>1. /\ Size \in Nat \ {0} /\ Size \in Nat /\ TailSize \in Nat /\ TailSize < Size /\ 2 * TailSize <= Size
      /\ Quiet \in Nat /\ Full = Size + TailSize + Quiet
  BY InputSizes
<1>2. /\ data \in [0 .. Full - 1 -> Int] /\ inputPos \in Nat /\ len \in Nat
      /\ inputPos = 0 \/ (inputPos < TailSize /\ inputPos + Quiet <= len)
  BY InputSizes DEF InputRingInv, TypeOK, SmallFirst
<1>3. Grown(Size + TailSize, junk) \in [0 .. Full - 1 -> Int]
  BY <1>1, <1>2 DEF Grown, Cleared
<1>4. b \in [0 .. Full - 1 -> Int]
  <2>1. PICK g \in [0 .. Full - 1 -> Int] : g = Grown(Size + TailSize, junk)
    BY <1>3
  <2>2. Cleared \in Int
    BY DEF Cleared
  <2>3. [g EXCEPT ![Size - 2] = Cleared] \in [0 .. Full - 1 -> Int]
    BY ONLY <2>2, g \in [0 .. Full - 1 -> Int]
  <2>4. [[g EXCEPT ![Size - 2] = Cleared] EXCEPT ![Size - 1] = Cleared] \in [0 .. Full - 1 -> Int]
    BY ONLY <2>2, <2>3
  <2> QED BY <2>1, <2>4
<1> SUFFICES ASSUME NEW q \in Nat, q < inputPos, inputPos <= q + Size
             PROVE  /\ b[q % Size] = q
                    /\ q >= Size /\ q % Size < TailSize => b[Size + (q % Size)] = q
  BY <1>4 DEF WindowUpTo
<1>5. q < TailSize /\ q < len /\ q < Size - 2 /\ q \in 0 .. Full - 1 /\ q \in 0 .. Size - 1
  BY <1>1, <1>2
<1>6. q % Size = q
  BY <1>1, <1>5, ModSmall
<1>7. data[q] = q
  BY <1>6 DEF InputRingInv, WindowUpTo
<1>8. Grown(Size + TailSize, junk)[q] = data[q]
  BY <1>1, <1>2, <1>5 DEF Grown
<1>9. b[q] = q
  BY <1>1, <1>3, <1>5, <1>7, <1>8
<1>10. ~(q >= Size)
  BY <1>1, <1>5
<1> QED BY ONLY <1>6, <1>9, <1>10

(* Clearing behind the input does not touch it. *)
LEMMA QuietedWindow ==
    ASSUME NEW d \in [0 .. Full - 1 -> Int], NEW i \in Nat, NEW p \in Nat,
           WindowUpTo(d, i), p < Size => p = i
    PROVE  /\ Quieted(d, p) \in [0 .. Full - 1 -> Int] /\ WindowUpTo(Quieted(d, p), i)
           /\ p < Size => \A k \in p .. p + Quiet - 1 : Quieted(d, p)[k] = Cleared
<1>1. /\ Size \in Nat \ {0} /\ Size \in Nat /\ TailSize \in Nat /\ TailSize < Size
      /\ Quiet \in Nat /\ Full = Size + TailSize + Quiet
  BY InputSizes
<1>2. CASE ~(p < Size)
  BY <1>2 DEF Quieted
<1>3. CASE p < Size
  <2>1. Quieted(d, p) = [k \in 0 .. Full - 1 |-> IF k \in p .. p + Quiet - 1 THEN Cleared ELSE d[k]]
    BY <1>3 DEF Quieted
  <2>2. Quieted(d, p) \in [0 .. Full - 1 -> Int]
    BY <2>1 DEF Cleared
  <2>3. \A k \in p .. p + Quiet - 1 : Quieted(d, p)[k] = Cleared
    <3>1. \A k \in p .. p + Quiet - 1 : k \in 0 .. Full - 1
      BY <1>1, <1>3
    <3> QED BY <2>1, <3>1
  <2>4. ASSUME NEW q \in Nat, q < i, i <= q + Size
        PROVE  /\ Quieted(d, p)[q % Size] = q
               /\ q >= Size /\ q % Size < TailSize => Quieted(d, p)[Size + (q % Size)] = q
    <3>1. q \in 0 .. Size - 1 /\ q \in 0 .. Full - 1 /\ q \notin p .. p + Quiet - 1
      BY <1>1, <1>3, <2>4
    <3>2. q % Size = q
      BY <1>1, <3>1, ModSmall
    <3>3. d[q] = q
      BY <2>4, <3>2 DEF WindowUpTo
    <3>4. Quieted(d, p)[q] = q
      BY <2>1, <3>1, <3>3
    <3>5. ~(q >= Size)
      BY <1>1, <3>1
    <3> QED BY ONLY <3>2, <3>4, <3>5
  <2> QED BY <2>2, <2>3, <2>4 DEF WindowUpTo
<1> QED BY <1>2, <1>3

-----------------------------------------------------------------------------
(* The steps *)

(* A small first write. *)
LEMMA CopySmallStep ==
    ASSUME InputRingInv, NEW n \in 1 .. TailSize, NEW junk \in {Cleared, OldByte},
           NEW r \in Quiet .. Full, inputPos + n <= MaxInput, CopySmall(n, junk, r)
    PROVE  InputRingInv'
<1>1. /\ Size \in Nat \ {0} /\ Size \in Nat /\ TailSize \in Nat /\ TailSize < Size
      /\ Quiet \in Nat /\ Full = Size + TailSize + Quiet /\ HighBit \in Nat /\ HighBit > Size
      /\ n \in Nat /\ n > 0 /\ n < TailSize /\ MaxInput \in Nat
  BY InputSizes DEF CopySmall
<1>2. inputPos = 0
  BY <1>1 DEF CopySmall, InputRingInv, Masked
<1>3. /\ rbPos' = n /\ len' = n + Quiet /\ room' = r /\ inputPos' = n
      /\ data' = [k \in 0 .. Full - 1 |-> IF k < n THEN k ELSE Grown(n, junk)[k]]
  BY <1>1, <1>2 DEF CopySmall, InputRingInv, TypeOK
<1>4. /\ data \in [0 .. Full - 1 -> Int] /\ junk \in Int /\ len \in 0 .. Full
      /\ room \in len .. Full
  BY DEF InputRingInv, TypeOK, Cleared, OldByte
<1>5. /\ Grown(n, junk) \in [0 .. Full - 1 -> Int]
      /\ \A k \in n .. n + Quiet - 1 : Grown(n, junk)[k] = Cleared
  <2>1. \A k \in n .. n + Quiet - 1 : k \in 0 .. Full - 1
    BY <1>1
  <2> QED BY <1>1, <1>4, <2>1 DEF Grown, Cleared
<1>6. data' \in [0 .. Full - 1 -> Int]
  BY <1>3, <1>5, <1>1
<1>7. r \in n + Quiet .. Full
  BY <1>1, <1>4 DEF CopySmall, GrownRoom
<1>8. TypeOK'
  BY <1>1, <1>3, <1>6, <1>7, <1>2 DEF TypeOK
<1>9. Masked' /\ SmallFirst'
  BY <1>1, <1>3 DEF Masked, SmallFirst
<1>10. WindowUpTo(data', inputPos')
  <2> SUFFICES ASSUME NEW q \in Nat, q < n, n <= q + Size
               PROVE  /\ data'[q % Size] = q
                      /\ q >= Size /\ q % Size < TailSize => data'[Size + (q % Size)] = q
    BY <1>3 DEF WindowUpTo
  <2>1. q \in 0 .. Size - 1 /\ q \in 0 .. Full - 1 /\ q < Size
    BY <1>1
  <2>2. q % Size = q
    BY <1>1, <2>1, ModSmall
  <2>3. data'[q] = q
    BY <1>3, <2>1
  <2>4. ~(q >= Size)
    BY <1>1, <2>1
  <2> QED BY ONLY <2>2, <2>3, <2>4
<1>11. QuietAfterInput'
  <2> SUFFICES ASSUME NEW k \in n .. n + Quiet - 1 PROVE k < n + Quiet /\ data'[k] = Cleared
    BY <1>3 DEF QuietAfterInput
  <2>1. k \in 0 .. Full - 1 /\ ~(k < n) /\ k < n + Quiet
    BY <1>1
  <2> QED BY <1>3, <1>5, <2>1
<1> QED BY <1>8, <1>9, <1>10, <1>11 DEF InputRingInv, WindowUpTo

(* Every other write. *)
LEMMA CopyFullStep ==
    ASSUME InputRingInv, NEW n \in 1 .. TailSize, NEW junk \in {Cleared, OldByte},
           NEW r \in Quiet .. Full, inputPos + n <= MaxInput, CopyFull(n, junk, r)
    PROVE  InputRingInv'
<1>1. /\ Size \in Nat \ {0} /\ Size \in Nat /\ TailSize \in Nat /\ TailSize < Size
      /\ Quiet \in Nat /\ Full = Size + TailSize + Quiet /\ HighBit \in Nat /\ HighBit > Size
      /\ n \in Nat /\ n > 0 /\ MaxInput \in Nat
  BY InputSizes
<1>2. /\ inputPos \in Nat /\ data \in [0 .. Full - 1 -> Int] /\ rbPos \in Nat
      /\ len \in 0 .. Full /\ room \in len .. Full /\ junk \in Int
      /\ rbPos % Size = inputPos % Size
  BY InputSizes DEF InputRingInv, TypeOK, Masked, Cleared, OldByte
<1>3. PICK b \in [0 .. Full - 1 -> Int] :
         /\ WindowUpTo(b, inputPos)
         /\ data' = Quieted(Stored(b, rbPos % Size, n), Advance(n))
  <2>1. CASE len < Full
    BY <1>2, <2>1, GrownWindow DEF CopyFull
  <2>2. CASE ~(len < Full)
    BY <1>2, <2>2 DEF CopyFull, InputRingInv
  <2> QED BY <2>1, <2>2
<1>4. PICK m \in 0 .. Size - 1 : m = inputPos % Size /\ m = rbPos % Size
  BY <1>1, <1>2, ModRange
<1>5. PICK s \in [0 .. Full - 1 -> Int] :
         s = Stored(b, rbPos % Size, n) /\ WindowUpTo(s, inputPos + n)
  BY <1>2, <1>3, <1>4, StoredWindow, StoredType
<1>6. PICK p \in Nat : /\ p = Advance(n) /\ p \in 0 .. 2 * HighBit - 1
                       /\ p % Size = (inputPos + n) % Size
                       /\ p < HighBit => p = inputPos + n
                       /\ p >= HighBit => inputPos + n >= HighBit
  <2>1. Advance(n) \in 0 .. 2 * HighBit - 1
    BY AdvanceValue DEF InputRingInv
  <2>2. Advance(n) \in Nat
    BY <1>1, <2>1
  <2>3. /\ Advance(n) % Size = (inputPos + n) % Size
        /\ Advance(n) < HighBit => Advance(n) = inputPos + n
        /\ Advance(n) >= HighBit => inputPos + n >= HighBit
    BY AdvanceMasked
  <2> QED BY ONLY <2>1, <2>2, <2>3
<1>7. /\ rbPos' = p /\ len' = Full /\ room' = r /\ inputPos' = inputPos + n
      /\ data' = Quieted(s, p)
  BY <1>3, <1>5, <1>6 DEF CopyFull
<1>8. p < Size => p = inputPos + n
  BY <1>1, <1>6
<1>9. inputPos + n \in Nat
  BY <1>1, <1>2
<1>10. /\ data' \in [0 .. Full - 1 -> Int] /\ WindowUpTo(data', inputPos + n)
       /\ p < Size => \A k \in p .. p + Quiet - 1 : data'[k] = Cleared
  BY <1>5, <1>7, <1>8, <1>9, QuietedWindow
<1>11. r \in Full .. Full
  BY <1>1, <1>2 DEF CopyFull, GrownRoom
<1>12. TypeOK'
  BY <1>1, <1>2, <1>6, <1>7, <1>10, <1>11 DEF TypeOK
<1>13. Masked'
  BY <1>6, <1>7 DEF Masked
<1>14. SmallFirst'
  BY <1>1, <1>7 DEF SmallFirst
<1>15. QuietAfterInput'
  <2> SUFFICES ASSUME inputPos + n < Size, NEW k \in inputPos + n .. inputPos + n + Quiet - 1
               PROVE  k < Full /\ data'[k] = Cleared
    BY <1>7 DEF QuietAfterInput
  <2>1. /\ p < HighBit => p = inputPos + n
        /\ p >= HighBit => inputPos + n >= HighBit
    BY <1>6
  <2>2. inputPos + n < HighBit
    BY <1>1, <1>9
  <2>3. p = inputPos + n
    BY ONLY <1>1, <1>9, <2>1, <2>2, p \in Nat
  <2> QED BY <1>1, <1>9, <1>10, <2>3
<1> QED BY <1>7, <1>10, <1>12, <1>13, <1>14, <1>15 DEF InputRingInv, WindowUpTo

(* A new stream has no window yet. *)
LEMMA InputBeginning ==
    ASSUME NEW d \in [0 .. Full - 1 -> Int], NEW l \in 0 .. Full, NEW r \in l .. Full,
           data' = d, len' = l, room' = r, rbPos' = 0, inputPos' = 0
    PROVE  InputRingInv'
<1>1. HighBit \in Nat /\ HighBit > 0 /\ MaxInput \in Nat
  BY InputSizes
<1>2. TypeOK'
  BY <1>1 DEF TypeOK
<1>3. Masked' /\ SmallFirst'
  BY <1>1 DEF Masked, SmallFirst
<1>4. WindowUpTo(data', inputPos') /\ QuietAfterInput'
  BY DEF WindowUpTo, QuietAfterInput
<1> QED BY <1>2, <1>3, <1>4 DEF InputRingInv, WindowUpTo

(* Every step keeps the invariant. *)
LEMMA InputNextInv == InputRingInv /\ [InputNext]_inputVars => InputRingInv'
<1> SUFFICES ASSUME InputRingInv, [InputNext]_inputVars PROVE InputRingInv'
  OBVIOUS
<1>1. /\ Full \in Nat /\ data \in [0 .. Full - 1 -> Int] /\ Cleared \in Int /\ OldByte \in Int
      /\ len \in 0 .. Full /\ room \in len .. Full
  BY InputSizes DEF InputRingInv, TypeOK, Cleared, OldByte
<1>2. ASSUME NEW n \in 1 .. TailSize, NEW junk \in {Cleared, OldByte}, NEW r \in Quiet .. Full,
             CopyInput(n, junk, r)
      PROVE  InputRingInv'
  BY <1>2, CopySmallStep, CopyFullStep DEF CopyInput
<1>3. CASE Reset
  <2>1. CASE data' = Old /\ UNCHANGED <<len, room>>
    <3>1. Old \in [0 .. Full - 1 -> Int]
      BY <1>1 DEF Old
    <3> QED BY <1>1, <1>3, <2>1, <3>1, InputBeginning DEF Reset
  <2>2. CASE /\ room' = Full /\ len' = 0
             /\ \E junk \in {Cleared, OldByte} : data' = [k \in DOMAIN data |-> junk]
    <3>1. data' \in [0 .. Full - 1 -> Int]
      BY <1>1, <2>2
    <3>2. 0 \in 0 .. Full /\ Full \in 0 .. Full
      BY <1>1
    <3> QED BY <1>3, <2>2, <3>1, <3>2, InputBeginning DEF Reset
  <2> QED BY <1>3, <2>1, <2>2 DEF Reset
<1>4. CASE Release
  <2>1. [k \in DOMAIN data |-> OldByte] \in [0 .. Full - 1 -> Int]
    BY <1>1
  <2>2. 0 \in 0 .. Full
    BY <1>1
  <2> QED BY <1>4, <2>1, <2>2, InputBeginning DEF Release
<1>5. CASE UNCHANGED inputVars
  BY <1>5 DEF inputVars, InputRingInv, TypeOK, Masked, SmallFirst, WindowUpTo, QuietAfterInput
<1> QED BY <1>2, <1>3, <1>4, <1>5 DEF InputNext

-----------------------------------------------------------------------------
(* What holds of the ring buffer (ringbuffer.go) whatever is written: the  *)
(* position is that of the input with its flag, a small allocation holds   *)
(* only a small first write, and the window and the cleared bytes are in   *)
(* place.                                                                  *)
THEOREM InputRingHolds == InputSpec => []InputRingInv
<1>1. InputInit => InputRingInv
  <2> SUFFICES ASSUME InputInit PROVE InputRingInv
    OBVIOUS
  <2>1. HighBit \in Nat /\ HighBit > 0 /\ MaxInput \in Nat /\ Full \in Nat
    BY InputSizes
  <2>2. TypeOK
    BY <2>1 DEF InputInit, TypeOK, OldByte
  <2>3. Masked /\ SmallFirst
    BY <2>1 DEF InputInit, Masked, SmallFirst
  <2>4. WindowUpTo(data, inputPos) /\ QuietAfterInput
    BY DEF InputInit, WindowUpTo, QuietAfterInput
  <2> QED BY <2>2, <2>3, <2>4 DEF InputRingInv
<1>2. InputRingInv /\ [InputNext]_inputVars => InputRingInv'
  BY InputNextInv
<1> QED BY <1>1, <1>2, PTL DEF InputSpec

(* The last Size bytes of input are where copyInputToRingBuffer's mask     *)
(* says, and those at the front of the ring also behind its end, for       *)
(* every size of ring, tail and chunk, across growth, laps, resets and the *)
(* wrap of ringBufPos.                                                     *)
THEOREM WindowHolds == InputSpec => []WindowIntact
<1>1. InputRingInv => WindowIntact
  <2> SUFFICES ASSUME InputRingInv, NEW q \in First .. inputPos - 1
               PROVE  /\ data[q % Size] = q
                      /\ q >= Size /\ q % Size < TailSize => data[Size + (q % Size)] = q
    BY DEF WindowIntact
  <2>1. inputPos \in Nat /\ Size \in Nat
    BY InputSizes DEF InputRingInv, TypeOK
  <2>2. inputPos - Size \in Int /\ 0 \in Int
    BY <2>1
  <2>3. First = IF 0 >= inputPos - Size THEN 0 ELSE inputPos - Size
    BY <2>2, MinMaxTwo DEF First
  <2>4. q \in Nat /\ q < inputPos /\ inputPos <= q + Size
    BY <2>1, <2>3
  <2> QED BY <2>4 DEF InputRingInv, WindowUpTo
<1> QED BY <1>1, InputRingHolds, PTL

(* On the first lap the bytes after the input are zero, so that hashing    *)
(* that loads past it never depends on the memory's earlier contents.      *)
THEOREM QuietHolds == InputSpec => []QuietAfterInput
<1>1. InputRingInv => QuietAfterInput
  BY DEF InputRingInv
<1> QED BY <1>1, InputRingHolds, PTL
=============================================================================
