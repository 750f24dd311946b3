--------------------------- MODULE MatchersProofs ---------------------------
(***************************************************************************)
(* Proofs about the hash-table matchers of levels 2 to 9, for every size   *)
(* of table, bucket, bank, ring and window that meets the assumptions of   *)
(* Matchers, every input and every split of it into blocks: what the       *)
(* tables hold is in order, a search meets positions before its own from   *)
(* newer to older, and a matcher's own table of distances is in step with  *)
(* the stream's cache.                                                     *)
(***************************************************************************)
EXTENDS MatcherLemmas

-----------------------------------------------------------------------------
(* What the constants of the matchers have in common. *)
ParamFields == {"htl", "jump4", "jump2", "window", "eager", "histo", "cached",
                "pushed", "counting", "compound"}

(* The constants of a matcher. *)
Constants(P, htls, jumps4, jumps2, counts) ==
    /\ DOMAIN P = ParamFields
    /\ P.htl \in htls /\ P.jump4 \in jumps4 /\ P.jump2 \in jumps2
    /\ P.counting = counts /\ P.window \in Nat /\ P.eager \in BOOLEAN
    /\ P.compound \in BOOLEAN /\ P.histo \in BOOLEAN

(* Constants with some fields named. *)
LEMMA ParamsKept ==
  ASSUME NEW P, NEW htls, NEW jumps4, NEW jumps2, NEW counts,
         Constants(P, htls, jumps4, jumps2, counts)
  PROVE  /\ \A v : Constants([P EXCEPT !.cached = v], htls, jumps4, jumps2, counts)
         /\ \A v : Constants([P EXCEPT !.pushed = v], htls, jumps4, jumps2, counts)
         /\ \A v \in Nat : Constants([P EXCEPT !.window = v], htls, jumps4, jumps2, counts)
         /\ \A v \in BOOLEAN : Constants([P EXCEPT !.compound = v], htls, jumps4, jumps2, counts)
         /\ \A v \in BOOLEAN : Constants([P EXCEPT !.histo = v], htls, jumps4, jumps2, counts)
         /\ \A v : Constants([P EXCEPT !.counting = v], htls, jumps4, jumps2, v)
BY DEF Constants, ParamFields

LEMMA TwoKept ==
  ASSUME NEW P, NEW htls, NEW jumps4, NEW jumps2, NEW counts,
         Constants(P, htls, jumps4, jumps2, counts), NEW v, NEW w
  PROVE  /\ [P EXCEPT !.cached = v, !.pushed = w] = [[P EXCEPT !.cached = v] EXCEPT !.pushed = w]
         /\ [P EXCEPT !.cached = v, !.window = w] = [[P EXCEPT !.cached = v] EXCEPT !.window = w]
BY DEF Constants, ParamFields

(* The constants of the matchers of each family. *)
LEMMA QuickConstants ==
  ASSUME NEW P \in {QuickParams, Params2, Params3, Params4}
  PROVE  Constants(P, {8}, {7}, {7}, FALSE)
<1>1. RandomWindow \in Nat
  BY MatchLoopAssumption
<1>2. Constants(QuickParams, {8}, {7}, {7}, FALSE)
  BY <1>1 DEF QuickParams, Constants, ParamFields
<1>3. Constants(Params2, {8}, {7}, {7}, FALSE)
  BY <1>2, ParamsKept DEF Params2
<1>4. Constants(Params3, {8}, {7}, {7}, FALSE)
  BY <1>3, ParamsKept DEF Params3
<1>5. Constants(Params4, {8}, {7}, {7}, FALSE)
  BY <1>2, ParamsKept DEF Params4
<1> QED
  BY <1>2, <1>3, <1>4, <1>5

LEMMA FourConstants ==
  ASSUME NEW P \in {Params5, Params5b, Params5b8, Params5b8NoWrap, Params40, Params41, Params42}
  PROVE  Constants(P, {4}, {4}, {3}, FALSE)
<1>1. RandomWindow \in Nat /\ 8 * RandomWindow \in Nat
  BY MatchLoopAssumption
<1>2. Constants(Params5, {4}, {4}, {3}, FALSE)
  BY <1>1 DEF Params5, Constants, ParamFields
<1>3. Constants(Params5b, {4}, {4}, {3}, FALSE)
  <2>1. Constants([Params5 EXCEPT !.cached = 10], {4}, {4}, {3}, FALSE)
    BY <1>2, ParamsKept
  <2> QED
    BY <1>2, <2>1, TwoKept, ParamsKept DEF Params5b
<1>4. Constants(Params5b8, {4}, {4}, {3}, FALSE)
  <2>1. Constants([Params5 EXCEPT !.cached = 16], {4}, {4}, {3}, FALSE)
    BY <1>2, ParamsKept
  <2> QED
    BY <1>1, <1>2, <2>1, TwoKept, ParamsKept DEF Params5b8
<1>5. Constants(Params5b8NoWrap, {4}, {4}, {3}, FALSE)
  BY <1>4, ParamsKept DEF Params5b8NoWrap
<1>6. Params40 = Params5 /\ Params42 = Params5b8
  BY DEF Params40, Params42, Params5b8
<1>7. Constants(Params41, {4}, {4}, {3}, FALSE)
  BY <1>2, <1>6, ParamsKept DEF Params41
<1> QED
  BY <1>2, <1>3, <1>4, <1>5, <1>6, <1>7

LEMMA FiveConstants ==
  /\ \A P \in {Params6, Params6b, Params6b8} : Constants(P, {8}, {7}, {7}, FALSE)
  /\ Constants(Params6u, {8}, {7}, {7}, TRUE)
<1>1. RandomWindow \in Nat /\ 8 * RandomWindow \in Nat
  BY MatchLoopAssumption
<1>2. Constants(Params6, {8}, {7}, {7}, FALSE)
  <2>1. Constants(Params5, {4}, {4}, {3}, FALSE)
    BY FourConstants
  <2> QED
    BY <2>1 DEF Params6, Constants, ParamFields
<1>3. Constants(Params6u, {8}, {7}, {7}, TRUE)
  BY <1>2, ParamsKept DEF Params6u
<1>4. Constants(Params6b, {8}, {7}, {7}, FALSE)
  BY <1>2, ParamsKept DEF Params6b
<1>5. Constants(Params6b8, {8}, {7}, {7}, FALSE)
  <2>1. Constants([Params6 EXCEPT !.cached = 16], {8}, {7}, {7}, FALSE)
    BY <1>2, ParamsKept
  <2> QED
    BY <1>1, <1>2, <2>1, TwoKept, ParamsKept DEF Params6b8
<1> QED
  BY <1>2, <1>3, <1>4, <1>5

(* The constants of the matcher of a profile. *)
Fits(P, kind) ==
    /\ Constants(P, {4, 8}, {4, 7}, {3, 7}, P.counting)
    /\ P.counting \in BOOLEAN /\ (P.counting => kind \in CountedKinds)

LEMMA ConstantsFit ==
  ASSUME NEW P, NEW kind, NEW counts \in BOOLEAN, counts => kind \in CountedKinds,
         Constants(P, {8}, {7}, {7}, counts) \/ Constants(P, {4}, {4}, {3}, counts)
  PROVE  Fits(P, kind)
BY DEF Constants, Fits

LEMMA ProfileFits ==
  ASSUME NEW P, NEW fam, NEW kind, Profile(P, fam, kind) PROVE Fits(P, kind)
<1>1. CASE P \in {QuickParams, Params2, Params3, Params4}
  BY <1>1, QuickConstants, ConstantsFit
<1>2. CASE P \in {Params5, Params5b, Params5b8, Params5b8NoWrap, Params40, Params41, Params42}
  BY <1>2, FourConstants, ConstantsFit
<1>3. CASE P \in {Params6, Params6b, Params6b8}
  BY <1>3, FiveConstants, ConstantsFit
<1>4. CASE P = Params6u /\ kind \in CountedKinds
  BY <1>4, FiveConstants, ConstantsFit
<1> QED
  BY <1>1, <1>2, <1>3, <1>4 DEF Profile

-----------------------------------------------------------------------------
(* A new matcher *)
LEMMA QuickNew ==
  ASSUME NEW kind \in QuickKinds, NEW init \in Nat
  PROVE  QuickTable(kind, init) \in QuickRec(kind) /\ QuickTable(kind, init).ready = FALSE
BY DEF QuickTable, QuickRec

LEMMA BucketNew ==
  ASSUME NEW kind \in BucketKinds, NEW n \in 0 .. CounterSize - 1, NEW pos \in Int
  PROVE  BucketTable(kind, n, pos) \in BucketRec(kind) /\ BucketTable(kind, n, pos).ready = FALSE
<1>1. n \in Int /\ 0 \in Int
  OBVIOUS
<1>2. /\ [key \in 0 .. BucketKeys - 1 |-> n] \in [0 .. BucketKeys - 1 -> 0 .. CounterSize - 1]
      /\ [key \in 0 .. BucketKeys - 1 |-> [k \in Slots |-> pos]]
           \in [0 .. BucketKeys - 1 -> [Slots -> Int]]
      /\ [key \in 0 .. BucketKeys - 1 |-> [k \in Slots |-> 0]]
           \in [0 .. BucketKeys - 1 -> [Slots -> Int]]
  BY <1>1
<1> QED
  BY <1>1, <1>2 DEF BucketTable, BucketRec

LEMMA ChainRecord ==
  ASSUME NEW kind, NEW b, NEW n, NEW addr \in [0 .. ChainKeys - 1 -> Int],
         NEW head \in [0 .. ChainKeys - 1 -> 0 .. n - 1],
         NEW tiny \in [0 .. U16Size - 1 -> Int], NEW banks \in [0 .. b - 1 -> BankOf(n)],
         NEW free \in [0 .. b - 1 -> Nat], NEW hops \in Nat
  PROVE  [kind |-> kind, ready |-> FALSE, everWrapped |-> FALSE, addr |-> addr,
          head |-> head, tinyHash |-> tiny, banks |-> banks, freeSlotIdx |-> free,
          maxHops |-> hops] \in ChainRec(kind, b, n)
BY DEF ChainRec

LEMMA ChainNew ==
  ASSUME NEW kind \in ChainKinds, NEW init \in Nat, NEW hops \in Nat,
         NEW b \in {1, NumBanks}, NEW n \in {U16Size, BankSize},
         NEW y, y = ChainTable(kind, init - 1, hops, b, n)
  PROVE  y \in ChainRec(kind, b, n) /\ y.ready = FALSE /\ Linked(y)
<1> DEFINE B == [c \in 0 .. b - 1 |-> [k \in 0 .. n - 1 |-> [delta |-> init, next |-> 0]]]
<1>1. init - 1 \in Int /\ init - 1 + 1 = init /\ 0 \in Nat /\ 0 \in Int
  OBVIOUS
<1>2. 0 \in 0 .. n - 1
  BY ChainSizes
<1>3. y.banks = B /\ y.ready = FALSE
  BY <1>1 DEF ChainTable
<1>4. B \in [0 .. b - 1 -> BankOf(n)]
  BY <1>2 DEF BankOf
<1>5. y \in ChainRec(kind, b, n)
  <2>1. /\ [key \in 0 .. ChainKeys - 1 |-> init - 1] \in [0 .. ChainKeys - 1 -> Int]
        /\ [key \in 0 .. ChainKeys - 1 |-> 0] \in [0 .. ChainKeys - 1 -> 0 .. n - 1]
        /\ [p \in 0 .. U16Size - 1 |-> 0] \in [0 .. U16Size - 1 -> Int]
        /\ [c \in 0 .. b - 1 |-> 0] \in [0 .. b - 1 -> Nat]
    BY <1>1, <1>2
  <2> HIDE DEF B
  <2>2. y = [kind |-> kind, ready |-> FALSE, everWrapped |-> FALSE,
             addr |-> [key \in 0 .. ChainKeys - 1 |-> init - 1],
             head |-> [key \in 0 .. ChainKeys - 1 |-> 0],
             tinyHash |-> [p \in 0 .. U16Size - 1 |-> 0], banks |-> B,
             freeSlotIdx |-> [c \in 0 .. b - 1 |-> 0], maxHops |-> hops]
    BY <1>1 DEF ChainTable, B
  <2> QED
    BY ONLY <1>4, <2>1, <2>2, ChainRecord, hops \in Nat, SMTT(20)
<1>6. Linked(y)
  <2>1. \A c \in 0 .. b - 1 : DOMAIN B[c] = 0 .. n - 1
                              /\ \A k \in 0 .. n - 1 : B[c][k].delta = init /\ B[c][k].next = 0
    OBVIOUS
  <2>2. DOMAIN B = 0 .. b - 1
    OBVIOUS
  <2> HIDE DEF B
  <2> QED
    <3>0. SUFFICES ASSUME NEW c \in DOMAIN y.banks, NEW k \in DOMAIN y.banks[c],
                          y.banks[c][k].delta >= 1
                   PROVE  y.banks[c][y.banks[c][k].next].delta >= 1
      BY Zenon DEF Linked
    <3>1. c \in 0 .. b - 1 /\ k \in 0 .. n - 1 /\ B[c][k].delta >= 1 /\ y.banks = B
      BY ONLY <1>3, <2>1, <2>2, <3>0
    <3>2. B[c][k].next = 0 /\ B[c][k].delta = init /\ B[c][0].delta = init
      BY ONLY <1>2, <2>1, <3>1
    <3> QED
      BY ONLY <3>0, <3>1, <3>2
<1> QED
  BY <1>3, <1>5, <1>6

(* What chooseHasher may choose. *)
AllKinds == QuickKinds \cup BucketKinds \cup ChainKinds

(* Only kinds of matchers are chosen. *)
LEMMA ChoiceKinds ==
  ASSUME NEW quality \in 2 .. 9, NEW hint, NEW lgwin, NEW last, NEW kind,
         kind = Choice(quality, hint, lgwin, last)
  PROVE  kind \in AllKinds /\ (kind \in {"h40", "h41"} => quality \in 5 .. 8)
<1>1. CASE quality = 2
  BY <1>1 DEF Choice, AllKinds, QuickKinds
<1>2. CASE quality = 3
  BY <1>2 DEF Choice, AllKinds, QuickKinds
<1>3. CASE quality = 4
  BY <1>3 DEF Choice, AllKinds, QuickKinds
<1>4. CASE quality = 5
  BY <1>4 DEF Choice, AllKinds, ChainKinds, BucketKinds, CountedKinds, Bucket4Kinds
<1>5. CASE quality = 6
  BY <1>5 DEF Choice, AllKinds, ChainKinds, BucketKinds, CountedKinds, Bucket4Kinds
<1>6. CASE quality = 7
  BY <1>6 DEF Choice, AllKinds, ChainKinds, BucketKinds, PlainKinds, Bucket4Kinds
<1>7. CASE quality = 8
  BY <1>7 DEF Choice, AllKinds, ChainKinds, BucketKinds, PlainKinds, Bucket4Kinds
<1>8. CASE quality = 9
  BY <1>8 DEF Choice, AllKinds, ChainKinds, BucketKinds, PlainKinds, Bucket4Kinds
<1> QED
  BY <1>1, <1>2, <1>3, <1>4, <1>5, <1>6, <1>7, <1>8

(* The matcher chosen. *)
New(kind, y) ==
    /\ kind \in AllKinds /\ Table(kind, y) /\ y.kind = kind /\ y.ready = FALSE
    /\ kind \in ChainKinds => Linked(y)

(* The matcher chosen is not ready; one that is kept stays as it is. *)
LEMMA NewNeat ==
  ASSUME NEW quality \in 2 .. 9, NEW hint, NEW lgwin, NEW last, NEW init \in Nat, NEW kind,
         kind = Choice(quality, hint, lgwin, last), NEW y, y = NewMatcher(kind, quality, init)
  PROVE  New(kind, y)
<1> SUFFICES /\ kind \in AllKinds /\ Table(kind, y) /\ y.kind = kind /\ y.ready = FALSE
             /\ kind \in ChainKinds => Linked(y)
  BY DEF New
<1>0. kind \in AllKinds /\ (kind \in {"h40", "h41"} => quality \in 5 .. 8)
  BY ChoiceKinds
<1>1. CASE kind \in QuickKinds
  <2>1. y = QuickTable(kind, init)
    BY <1>1, KindsApart DEF NewMatcher, ChainKinds
  <2>2. y \in QuickRec(kind) /\ y.ready = FALSE
    BY <1>1, <2>1, QuickNew
  <2>3. y.kind = kind
    BY <2>2 DEF QuickRec
  <2> QED
    BY <1>0, <1>1, <2>2, <2>3, KindsApart DEF Table
<1>2. CASE kind \in BucketKinds
  <2>1. y = BucketTable(kind, init % BlockSize, init) /\ init \in Int
    BY <1>2, KindsApart DEF NewMatcher, ChainKinds
  <2>2. init % BlockSize \in 0 .. CounterSize - 1
    <3>1. init % BlockSize \in 0 .. BlockSize - 1
      BY BucketSizes, Remainder
    <3> QED
      BY <3>1, BucketSizes
  <2>3. y \in BucketRec(kind) /\ y.ready = FALSE
    BY ONLY <1>2, <2>1, <2>2, BucketNew, Zenon
  <2>4. y.kind = kind
    BY <2>3 DEF BucketRec
  <2> QED
    BY <1>0, <1>2, <2>3, <2>4, KindsApart DEF Table
<1>3. CASE kind \in ChainKinds
  <2>1. \E hops \in Nat, b \in {1, NumBanks}, n \in {U16Size, BankSize} :
          y = ChainTable(kind, init - 1, hops, b, n)
    <3>1. CASE kind = "h42"
      <4>1. y = ChainTable(kind, init - 1, Hops[9], NumBanks, BankSize)
        BY <1>3, <3>1, KindsApart DEF NewMatcher
      <4> QED
        BY <4>1, HashChainsAssumption
    <3>2. CASE kind # "h42"
      <4>1. y = ChainTable(kind, init - 1, Hops[quality], 1, U16Size)
        BY <1>3, <3>2, KindsApart DEF NewMatcher
      <4>2. quality \in 5 .. 9
        BY <1>0, <1>3, <3>2 DEF ChainKinds
      <4> QED
        BY <4>1, <4>2, HashChainsAssumption
    <3> QED
      BY <3>1, <3>2
  <2>2. PICK hops \in Nat, b \in {1, NumBanks}, n \in {U16Size, BankSize} :
          y = ChainTable(kind, init - 1, hops, b, n)
    BY <2>1
  <2>3. y \in ChainRec(kind, b, n) /\ y.ready = FALSE /\ Linked(y)
    BY ONLY <1>3, <2>2, ChainNew, init \in Nat, hops \in Nat, b \in {1, NumBanks},
            n \in {U16Size, BankSize}, ZenonT(40)
  <2>4. y.kind = kind
    BY <2>3 DEF ChainRec
  <2> QED
    BY <1>0, <1>3, <2>3, <2>4 DEF Table
<1> QED
  BY <1>0, <1>1, <1>2, <1>3 DEF AllKinds

-----------------------------------------------------------------------------
(* What a search of each family finds, if the table and the cache yield    *)
(* nothing but members of M.                                               *)
BucketTaken(masked, entries, cur, rest, M) ==
    /\ Takes(masked, cur, rest, MaxDistance(cur), M)
    /\ EntriesTaken(masked, entries, cur, rest, MaxDistance(cur), M)

Taken(fam, cur, rest, M) ==
    /\ fam = "quick" => \A masked \in Maskings :
         /\ LastTaken(masked, FALSE, cur, rest, MaxDistance(cur), M)
              \/ h.kind \notin {"h2", "h2u16"}
         /\ LastTaken(masked, h.kind # "h54", cur, rest, MaxDistance(cur), M)
         /\ \A k \in 0 .. QuickSlots - 1 : SlotTaken(masked, k, cur, rest, MaxDistance(cur), M)
    /\ fam = "four" => \A masked \in Maskings :
         BucketTaken(masked, Newest(h, Key4(IndexOf(masked, cur))), cur, rest, M)
    /\ fam = "five" => \A masked \in Maskings :
         BucketTaken(masked, Newest(h, Key5(IndexOf(masked, cur))), cur, rest, M)
    /\ fam = "tagged" => \A masked \in Maskings :
         BucketTaken(masked, NewestTagged(h, Key5(IndexOf(masked, cur))), cur, rest, M)
    /\ fam = "chain" =>
         /\ Takes(TRUE, cur, rest, MaxDistance(cur), M)
         /\ \A hh \in {h, ChainStore(h, cur)} : WalkTaken(hh, cur, rest, MaxDistance(cur), M)

(* Distances and the entries of the cache that are tried. *)
LEMMA MaxDistanceNat ==
  ASSUME NEW pos \in Nat
  PROVE  /\ MaxDistance(pos) \in Nat /\ MaxDistance(pos) <= pos /\ MaxDistance(pos) <= Window
         /\ MaxDistance(pos) = IF pos <= Window THEN pos ELSE Window
<1>1. Window \in Nat
  BY RingSizes
<1>2. Min({pos, Window}) = IF pos <= Window THEN pos ELSE Window
  BY <1>1, MinTwo
<1> QED
  BY <1>1, <1>2 DEF MaxDistance

(* What the cache finds. *)
LEMMA TriedFinds ==
  ASSUME NEW masked, NEW cur \in Nat, NEW rest \in Nat, NEW best, NEW M, NEW c,
         Takes(masked, cur, rest, MaxDistance(cur), M), Tried(masked, cur, rest, best, c)
  PROVE  c \in {best} \cup M
<1>1. MaxDistance(cur) \in Int
  BY MaxDistanceNat
<1>2. PICK c1, c2 :
        /\ c1 = TryCache(masked, 1, 4, cur, rest, MaxDistance(cur), best)
        /\ c2 = c1 \/ c2 = TryCache(masked, 5, 10, cur, rest, MaxDistance(cur), c1)
        /\ c = c2 \/ c = TryCache(masked, 11, 16, cur, rest, MaxDistance(cur), c2)
  BY DEF Tried
<1>3. 1 \in 1 .. 16 /\ 4 \in 1 .. 16 /\ 5 \in 1 .. 16 /\ 10 \in 5 .. 16 /\ 11 \in 1 .. 16
      /\ 16 \in 11 .. 16
  OBVIOUS
<1>4. c1 \in {best} \cup M
  BY <1>1, <1>2, <1>3, TryCacheFinds
<1>5. TryCache(masked, 5, 10, cur, rest, MaxDistance(cur), c1) \in {c1} \cup M
  BY <1>1, <1>3, TryCacheFinds, Zenon
<1>6. TryCache(masked, 11, 16, cur, rest, MaxDistance(cur), c2) \in {c2} \cup M
  BY <1>1, <1>3, TryCacheFinds, Zenon
<1> QED
  BY <1>2, <1>4, <1>5, <1>6

LEMMA TriedTinyFinds ==
  ASSUME NEW cur \in Nat, NEW rest \in Nat, NEW best, NEW M, NEW c,
         Takes(TRUE, cur, rest, MaxDistance(cur), M), TriedTiny(cur, rest, best, c)
  PROVE  c \in {best} \cup M
<1>1. MaxDistance(cur) \in Int
  BY MaxDistanceNat
<1>2. 1 \in 1 .. 16 /\ 5 \in 1 .. 16 /\ 10 \in 5 .. 16 /\ \A last \in {4, 10, 16} : last \in 1 .. 16
  OBVIOUS
<1>3. \A last \in {4, 10, 16} :
        TryCacheTiny(1, last, cur, rest, MaxDistance(cur), best) \in {best} \cup M
  <2> TAKE last \in {4, 10, 16}
  <2>1. last \in 1 .. 16
    BY <1>2
  <2> QED
    BY <1>1, <1>2, <2>1, TryCacheTinyFinds, Zenon
<1>4. CASE \E last \in {4, 10, 16} :
         c = TryCacheTiny(1, last, cur, rest, MaxDistance(cur), best)
  BY <1>3, <1>4
<1>5. CASE \E c1 : /\ c1 = TryCacheTiny(1, 4, cur, rest, MaxDistance(cur), best)
                   /\ c = TryCacheTiny(5, 10, cur, rest, MaxDistance(cur), c1)
  <2>1. PICK c1 : /\ c1 = TryCacheTiny(1, 4, cur, rest, MaxDistance(cur), best)
                  /\ c = TryCacheTiny(5, 10, cur, rest, MaxDistance(cur), c1)
    BY <1>5
  <2>2. c1 \in {best} \cup M
    BY <1>3, <2>1
  <2>3. TryCacheTiny(5, 10, cur, rest, MaxDistance(cur), c1) \in {c1} \cup M
    BY <1>1, <1>2, TryCacheTinyFinds, Zenon
  <2> QED
    BY <2>1, <2>2, <2>3
<1> QED
  BY <1>4, <1>5 DEF TriedTiny

Finds(m, best, M) == m.sr \in {best} \cup M /\ m.words \in {0, 1, 2}

(* A search of each family finds a member of M, or leaves the best so far. *)
LEMMA QuickFinds ==
  ASSUME DataOK, NEW cur \in Nat, NEW rest \in Nat, NEW best, NEW M, NEW m,
         Taken("quick", cur, rest, M), QuickFound(cur, rest, best, m)
  PROVE  Finds(m, best, M)
<1>1. PICK masked \in Maskings, narrow \in BOOLEAN :
        \/ /\ h.kind \in {"h2", "h2u16"}
           /\ m = FindOne(masked, narrow, cur, rest, MaxDistance(cur), best)
        \/ \E n \in {5, 7}, sweep \in {2, 4}, words \in {0, 1} :
             m = FindSweep(masked, narrow, n, sweep, h.kind # "h54", words,
                           cur, rest, MaxDistance(cur), best)
  BY DEF QuickFound
<1>2. /\ LastTaken(masked, FALSE, cur, rest, MaxDistance(cur), M)
           \/ h.kind \notin {"h2", "h2u16"}
      /\ LastTaken(masked, h.kind # "h54", cur, rest, MaxDistance(cur), M)
      /\ \A k \in 0 .. QuickSlots - 1 : SlotTaken(masked, k, cur, rest, MaxDistance(cur), M)
  BY DEF Taken
<1>3. QuickSlots \in Nat \ {0}
  BY HashQuickAssumption
<1>4. masked \in BOOLEAN /\ IndexOf(masked, cur) \in Int
  BY IndexInt DEF Maskings
<1>5. \A n \in {5, 7} : HashAt(IndexOf(masked, cur), n, QuickSlots) \in 0 .. QuickSlots - 1
  BY <1>3, <1>4, HashRange
<1>6. CASE /\ h.kind \in {"h2", "h2u16"}
           /\ m = FindOne(masked, narrow, cur, rest, MaxDistance(cur), best)
  <2>1. FindOne(masked, narrow, cur, rest, MaxDistance(cur), best).sr \in {best} \cup M
    <3>1. LastTaken(masked, FALSE, cur, rest, MaxDistance(cur), M)
      BY <1>2, <1>6
    <3>2. SlotTaken(masked, HashAt(IndexOf(masked, cur), 5, QuickSlots), cur, rest,
                    MaxDistance(cur), M)
      BY <1>2, <1>5
    <3> QED
      BY <3>1, <3>2, FindOneFinds, Zenon
  <2>2. FindOne(masked, narrow, cur, rest, MaxDistance(cur), best).words \in {0, 1}
    BY DEF FindOne
  <2> QED
    BY <1>6, <2>1, <2>2 DEF Finds
<1>7. CASE \E n \in {5, 7}, sweep \in {2, 4}, words \in {0, 1} :
             m = FindSweep(masked, narrow, n, sweep, h.kind # "h54", words,
                           cur, rest, MaxDistance(cur), best)
  <2>1. PICK n \in {5, 7}, sweep \in {2, 4}, words \in {0, 1} :
             m = FindSweep(masked, narrow, n, sweep, h.kind # "h54", words,
                           cur, rest, MaxDistance(cur), best)
    BY <1>7
  <2>2. \A j \in 1 .. sweep :
          SlotTaken(masked, (HashAt(IndexOf(masked, cur), n, QuickSlots) + 8 * (j - 1))
                              % QuickSlots, cur, rest, MaxDistance(cur), M)
    <3> TAKE j \in 1 .. sweep
    <3>1. PICK a \in Int : a = HashAt(IndexOf(masked, cur), n, QuickSlots) + 8 * (j - 1)
      BY <1>3, <1>5
    <3>2. a % QuickSlots \in 0 .. QuickSlots - 1
      BY <1>3, Remainder
    <3> QED
      BY <1>2, <3>1, <3>2
  <2>3. sweep \in Nat
    OBVIOUS
  <2>4. LastTaken(masked, h.kind # "h54", cur, rest, MaxDistance(cur), M)
    BY <1>2
  <2>5. FindSweep(masked, narrow, n, sweep, h.kind # "h54", words,
                  cur, rest, MaxDistance(cur), best).sr \in {best} \cup M
    BY <2>2, <2>3, <2>4, FindSweepFinds, Zenon
  <2>6. FindSweep(masked, narrow, n, sweep, h.kind # "h54", words,
                  cur, rest, MaxDistance(cur), best).words = words
    BY DEF FindSweep
  <2> QED
    BY <2>1, <2>5, <2>6 DEF Finds
<1> QED
  BY <1>1, <1>6, <1>7

(* What a bucket finds, all of it or the entries sampled. *)
LEMMA BucketFinds ==
  ASSUME NEW masked, NEW entries, NEW cur \in Nat, NEW rest \in Nat, NEW best, NEW M, NEW c,
         BucketTaken(masked, entries, cur, rest, M), Tried(masked, cur, rest, best, c), NEW tried
  PROVE  ScanBucket(masked, entries, tried, cur, rest, MaxDistance(cur), c) \in {best} \cup M
<1>1. MaxDistance(cur) \in Int /\ cur \in Int
  BY MaxDistanceNat
<1>2. c \in {best} \cup M
  BY TriedFinds DEF BucketTaken
<1>3. ScanBucket(masked, entries, tried, cur, rest, MaxDistance(cur), c) \in {c} \cup M
  BY <1>1, ScanBucketFinds, Zenon DEF BucketTaken
<1> QED
  BY <1>2, <1>3

LEMMA InBucketFinds ==
  ASSUME NEW masked, NEW entries, NEW cur \in Nat, NEW rest \in Nat, NEW best, NEW M, NEW c,
         BucketTaken(masked, entries, cur, rest, M), Tried(masked, cur, rest, best, c), NEW after,
         NEW m, m = FindInBucket(after, masked, entries, cur, rest, MaxDistance(cur), c)
  PROVE  Finds(m, best, M) /\ m.h = after /\ DOMAIN m = {"sr", "words", "h"}
<1>1. ScanBucket(masked, entries, 1 .. Len(entries), cur, rest, MaxDistance(cur), c)
        \in {best} \cup M
  BY BucketFinds
<1>2. /\ m.sr = ScanBucket(masked, entries, 1 .. Len(entries), cur, rest, MaxDistance(cur), c)
      /\ m.words = 2 /\ m.h = after /\ DOMAIN m = {"sr", "words", "h"}
  BY DEF FindInBucket
<1> QED
  BY <1>1, <1>2 DEF Finds

LEMMA SampledFinds ==
  ASSUME NEW r, DOMAIN r = {"sr", "words", "h"}, NEW best, NEW M, Finds(r, best, M), NEW cur
  PROVE  Finds(Sampled(r, cur), best, M)
<1>1. Sampled(r, cur).sr = r.sr /\ Sampled(r, cur).words = r.words
  BY DEF Sampled
<1> QED
  BY <1>1 DEF Finds

(* A search of any family. *)
LEMMA SearchedFinds ==
  ASSUME DataOK, NEW fam, NEW cur \in Nat, NEW rest \in Nat, NEW best, NEW M, NEW m,
         Taken(fam, cur, rest, M), Searched(fam, cur, rest, best, m)
  PROVE  Finds(m, best, M)
<1>1. CASE fam = "quick" /\ QuickFound(cur, rest, best, m)
  BY <1>1, QuickFinds
<1>2. CASE fam = "four" /\ FourFound(cur, rest, best, m)
  <2>1. PICK masked, c :
          /\ masked \in Maskings /\ Tried(masked, cur, rest, best, c)
          /\ m = FindInBucket(Bucket4Store(h, cur, masked, h.kind = "h5b6u16"), masked,
                              Newest(h, Key4(IndexOf(masked, cur))),
                              cur, rest, MaxDistance(cur), c)
    BY <1>2 DEF FourFound
  <2>2. BucketTaken(masked, Newest(h, Key4(IndexOf(masked, cur))), cur, rest, M)
    BY <2>1, <1>2 DEF Taken
  <2> QED
    BY <2>1, <2>2, InBucketFinds
<1>3. CASE fam = "five" /\ FiveFound(cur, rest, best, m)
  <2>1. PICK masked, other, c, r :
          /\ masked \in Maskings /\ Tried(masked, cur, rest, best, c)
          /\ r = FindInBucket(Bucket5Store(h, cur, other), masked,
                              Newest(h, Key5(IndexOf(masked, cur))),
                              cur, rest, MaxDistance(cur), c)
          /\ m = r \/ m = Sampled(r, cur)
    BY <1>3 DEF FiveFound
  <2>2. BucketTaken(masked, Newest(h, Key5(IndexOf(masked, cur))), cur, rest, M)
    BY <2>1, <1>3 DEF Taken
  <2>3. Finds(r, best, M) /\ DOMAIN r = {"sr", "words", "h"}
    BY <2>1, <2>2, InBucketFinds
  <2> QED
    BY <2>1, <2>3, SampledFinds
<1>4. CASE fam = "tagged" /\ TaggedFound(cur, rest, best, m)
  <2>1. PICK masked, c :
          /\ masked \in Maskings /\ Tried(masked, cur, rest, best, c)
          /\ m = FindTagged(TaggedStore(h, cur, masked), masked, IndexOf(masked, cur),
                            cur, rest, MaxDistance(cur), c)
    BY <1>4 DEF TaggedFound
  <2> DEFINE key == Key5(IndexOf(masked, cur))
             tag == Tag5(IndexOf(masked, cur))
  <2>2. BucketTaken(masked, NewestTagged(h, key), cur, rest, M)
    BY <2>1, <1>4 DEF Taken
  <2>3. ScanBucket(masked, NewestTagged(h, key), WithTag(h, key, tag), cur, rest,
                   MaxDistance(cur), c) \in {best} \cup M
    BY <2>1, <2>2, BucketFinds, Zenon
  <2>4. m.sr = ScanBucket(masked, NewestTagged(h, key), WithTag(h, key, tag), cur, rest,
                          MaxDistance(cur), c) /\ m.words = 2
    BY <2>1 DEF FindTagged
  <2> QED
    BY <2>3, <2>4 DEF Finds
<1>5. CASE fam = "chain" /\ ChainFound(cur, rest, best, m)
  <2>1. PICK hh, c :
          /\ hh \in {h, ChainStore(h, cur)} /\ TriedTiny(cur, rest, best, c)
          /\ m = FoundInChain(hh, cur, rest, MaxDistance(cur), c)
    BY <1>5 DEF ChainFound
  <2>2. Takes(TRUE, cur, rest, MaxDistance(cur), M)
        /\ WalkTaken(hh, cur, rest, MaxDistance(cur), M)
    BY <2>1, <1>5 DEF Taken
  <2>3. c \in {best} \cup M
    BY <2>1, <2>2, TriedTinyFinds
  <2>4. WalkChain(hh, cur, rest, MaxDistance(cur), c) \in {c} \cup M
    BY <2>2 DEF WalkTaken
  <2>5. m.sr = WalkChain(hh, cur, rest, MaxDistance(cur), c) /\ m.words = 2
    BY <2>1 DEF FoundInChain
  <2> QED
    BY <2>3, <2>4, <2>5 DEF Finds
<1> QED
  BY <1>1, <1>2, <1>3, <1>4, <1>5 DEF Searched

-----------------------------------------------------------------------------
(* Whatever the table, a search finds a match of at most the rest.         *)
LEMMA EntriesAny ==
  ASSUME NEW masked, NEW entries, NEW cur \in Nat, NEW rest \in Nat,
         \E t \in Nat : entries \in [1 .. t -> Int]
  PROVE  BucketTaken(masked, entries, cur, rest, Matches(rest))
<1>1. PICK t \in Nat : entries \in [1 .. t -> Int]
  OBVIOUS
<1>2. Takes(masked, cur, rest, MaxDistance(cur), Matches(rest))
  BY TakesAny, Zenon
<1>3. \A k \in 1 .. t : \A ml \in 2 .. rest, sc \in Int :
        Match(ml, cur - entries[k], sc) \in Matches(rest)
  <2> TAKE k \in 1 .. t
  <2> TAKE ml \in 2 .. rest, sc \in Int
  <2>1. cur - entries[k] \in Int
    BY <1>1
  <2> QED
    BY <2>1, AnyMatch, Zenon
<1> QED
  BY <1>1, <1>2, <1>3 DEF BucketTaken, EntriesTaken

(* The position searched is stored in a chain table as it should be. *)
Storable(cur) ==
    \A b \in Nat \ {0}, n \in Nat \ {0} :
      h \in ChainRec(h.kind, b, n) => ChainStore(h, cur) \in ChainRec(h.kind, b, n)

(* A search of any table finds a match of at most the rest of the block. *)
LEMMA TakenAny ==
  ASSUME DataOK, NEW P, NEW fam, Profile(P, fam, h.kind), Table(h.kind, h),
         s.distCache[1] \in Int, NEW cur \in Nat, NEW rest \in Nat,
         h.kind \in ChainKinds => Storable(cur)
  PROVE  Taken(fam, cur, rest, Matches(rest))
<1>0. cur \in Int /\ \A masked \in Maskings : masked \in BOOLEAN /\ IndexOf(masked, cur) \in Int
  BY IndexInt DEF Maskings
<1>1. CASE fam = "quick"
  <2>1. h \in QuickRec(h.kind)
    BY <1>1, KindsApart DEF Profile, Table, QuickKinds
  <2>2. \A k \in 0 .. QuickSlots - 1 : h.buckets[k] \in Int
    BY <2>1 DEF QuickRec
  <2>3. \A masked : \A k \in 0 .. QuickSlots - 1 :
          SlotTaken(masked, k, cur, rest, MaxDistance(cur), Matches(rest))
    <3> TAKE masked
    <3> TAKE k \in 0 .. QuickSlots - 1
    <3> QED
      BY <1>0, <2>2, TrySlotAny, Zenon
  <2>4. \A masked, within : LastTaken(masked, within, cur, rest, MaxDistance(cur), Matches(rest))
    BY TryLastAny, Zenon
  <2> QED
    BY <1>1, <2>3, <2>4 DEF Taken
<1>2. ASSUME h.kind \in BucketKinds, NEW key \in 0 .. BucketKeys - 1
      PROVE  /\ \E t \in Nat : Newest(h, key) \in [1 .. t -> Int]
             /\ \E t \in Nat : NewestTagged(h, key) \in [1 .. t -> Int]
  <2>1. h \in BucketRec(h.kind)
    BY <1>2, KindsApart DEF Table
  <2> QED
    BY <2>1, NewestTyped, Zenon
<1>3. CASE fam = "four"
  <2>1. h.kind \in BucketKinds
    BY <1>3, KindsApart DEF Profile
  <2>2. \A masked \in Maskings :
          BucketTaken(masked, Newest(h, Key4(IndexOf(masked, cur))), cur, rest, Matches(rest))
    <3> TAKE masked \in Maskings
    <3>1. Key4(IndexOf(masked, cur)) \in 0 .. BucketKeys - 1
      BY <1>0, FourKey
    <3> QED
      BY <1>2, <2>1, <3>1, EntriesAny, Zenon
  <2> QED
    BY <1>3, <2>2 DEF Taken
<1>4. CASE fam = "five" \/ fam = "tagged"
  <2>1. h.kind \in BucketKinds
    BY <1>4, KindsApart DEF Profile
  <2>2. \A masked \in Maskings :
          /\ BucketTaken(masked, Newest(h, Key5(IndexOf(masked, cur))), cur, rest, Matches(rest))
          /\ BucketTaken(masked, NewestTagged(h, Key5(IndexOf(masked, cur))), cur, rest,
                         Matches(rest))
    <3> TAKE masked \in Maskings
    <3>1. Key5(IndexOf(masked, cur)) \in 0 .. BucketKeys - 1
      BY <1>0, FiveKey
    <3> QED
      BY <1>2, <2>1, <3>1, EntriesAny, Zenon
  <2> QED
    BY <1>4, <2>2 DEF Taken
<1>5. CASE fam = "chain"
  <2>1. h.kind \in ChainKinds
    BY <1>5 DEF Profile
  <2>2. PICK b \in Nat \ {0}, n \in Nat \ {0} : h \in ChainRec(h.kind, b, n)
    BY <2>1, KindsApart, ChainSizes DEF Table
  <2>3. ChainKey(Masked(cur)) \in 0 .. ChainKeys - 1 /\ Masked(cur) \in Int
    <3>1. Masked(cur) \in Int
      BY <1>0, IndexInt DEF IndexOf
    <3> QED
      BY <3>1, ChainKeyRange
  <2>4. PICK key \in 0 .. ChainKeys - 1 : key = ChainKey(Masked(cur))
    BY <2>3
  <2>5. h.addr[key] \in Int /\ h.head[key] \in 0 .. n - 1 /\ key % b \in 0 .. b - 1
    BY <2>2, HeadFields, Zenon
  <2>6. ASSUME NEW hh \in {h, ChainStore(h, cur)}
        PROVE  hh.banks[key % Cardinality(DOMAIN hh.banks)] \in BankOf(n)
    <3>1. hh \in ChainRec(h.kind, b, n)
      <4>1. ChainStore(h, cur) \in ChainRec(h.kind, b, n)
        BY <2>1, <2>2 DEF Storable
      <4> QED
        BY <2>2, <2>6, <4>1
    <3>2. hh.banks \in [0 .. b - 1 -> BankOf(n)] /\ Cardinality(DOMAIN hh.banks) = b
      BY <3>1, BanksAre, Zenon
    <3> QED
      BY <2>5, <3>2
  <2>7. \A hh \in {h, ChainStore(h, cur)} :
          WalkTaken(hh, cur, rest, MaxDistance(cur), Matches(rest))
    <3> TAKE hh \in {h, ChainStore(h, cur)}
    <3>1. hh.banks[key % Cardinality(DOMAIN hh.banks)] \in BankOf(n)
      BY <2>6
    <3>2. U16Size \in Nat /\ h.maxHops \in Nat /\ n \in Nat
      BY <2>2, ChainSizes DEF ChainRec
    <3> QED
      BY <1>0, <2>4, <2>5, <3>1, <3>2, WalkChainAny, Zenon
  <2>8. Takes(TRUE, cur, rest, MaxDistance(cur), Matches(rest))
    BY TakesAny, Zenon
  <2> QED
    BY <1>5, <2>7, <2>8 DEF Taken
<1> QED
  BY <1>1, <1>3, <1>4, <1>5 DEF Profile

-----------------------------------------------------------------------------
(* The table after a search. *)
LEMMA QuickSearchNeat ==
  ASSUME DataOK, NEW K, NEW cur \in Nat, NEW rest, NEW best, NEW m, NEW limit, NEW ready,
         h.kind \in QuickKinds, Neat(h.kind, h, ready, K, limit), QuickFound(cur, rest, best, m)
  PROVE  Neat(h.kind, m.h, ready, K, cur + 1)
<1>1. h \in NeatTable(QuickRec(h.kind), ready, K, limit)
  BY KindsApart DEF Neat, NeatTable, Table
<1>2. \E masked \in BOOLEAN, narrow \in BOOLEAN, n \in {5, 7}, sweep \in {1, 2, 4} :
        m.h = QuickStore(h, cur, masked, narrow, n, sweep)
  <2>1. PICK masked, narrow :
          /\ masked \in Maskings /\ narrow \in BOOLEAN
          /\ \/ m = FindOne(masked, narrow, cur, rest, MaxDistance(cur), best)
             \/ \E n \in {5, 7}, sweep \in {2, 4}, words \in {0, 1} :
                  m = FindSweep(masked, narrow, n, sweep, h.kind # "h54", words,
                                cur, rest, MaxDistance(cur), best)
    BY DEF QuickFound
  <2>2. masked \in BOOLEAN
    BY <2>1 DEF Maskings
  <2>3. FindOne(masked, narrow, cur, rest, MaxDistance(cur), best).h
          = QuickStore(h, cur, masked, narrow, 5, 1)
    BY DEF FindOne
  <2>4. \A n, sweep, words :
          FindSweep(masked, narrow, n, sweep, h.kind # "h54", words,
                    cur, rest, MaxDistance(cur), best).h
            = QuickStore(h, cur, masked, narrow, n, sweep)
    BY DEF FindSweep
  <2>5. CASE m = FindOne(masked, narrow, cur, rest, MaxDistance(cur), best)
    BY <2>1, <2>2, <2>3, <2>5
  <2>6. CASE \E n \in {5, 7}, sweep \in {2, 4}, words \in {0, 1} :
               m = FindSweep(masked, narrow, n, sweep, h.kind # "h54", words,
                             cur, rest, MaxDistance(cur), best)
    <3>1. PICK n, sweep, words :
            /\ n \in {5, 7} /\ sweep \in {2, 4}
            /\ m = FindSweep(masked, narrow, n, sweep, h.kind # "h54", words,
                             cur, rest, MaxDistance(cur), best)
      BY <2>6
    <3>2. m.h = QuickStore(h, cur, masked, narrow, n, sweep)
      BY <2>4, <3>1
    <3> QED
      BY <2>1, <2>2, <3>1, <3>2
  <2> QED
    BY <2>1, <2>5, <2>6
<1>3. PICK masked \in BOOLEAN, narrow \in BOOLEAN, n \in {5, 7}, sweep \in {1, 2, 4} :
        m.h = QuickStore(h, cur, masked, narrow, n, sweep)
  BY <1>2
<1>4. cur \in Int
  OBVIOUS
<1>5. QuickStore(h, cur, masked, narrow, n, sweep)
        \in NeatTable(QuickRec(h.kind), ready, K, cur + 1)
  <2>1. DataOK /\ h.kind \in QuickKinds
    BY <1>1
  <2>2. h \in NeatTable(QuickRec(h.kind), ready, K, limit)
    BY <1>1
  <2> QED
    BY ONLY <1>4, <2>1, <2>2, QuickStoreNeat, masked \in BOOLEAN,
            narrow \in BOOLEAN, n \in {5, 7}, sweep \in {1, 2, 4}, ZenonT(40)
<1>6. m.h \in NeatTable(QuickRec(h.kind), ready, K, cur + 1)
  BY <1>3, <1>5
<1> QED
  BY <1>6 DEF NeatTable, Neat, Table

(* The table after a search that stores the position searched. *)
LEMMA FourSearchNeat ==
  ASSUME DataOK, NEW K, NEW cur \in Nat, NEW rest, NEW best, NEW m, NEW limit \in Int, NEW ready,
         h.kind \in Bucket4Kinds, K \in SUBSET (0 .. BucketKeys - 1), cur >= limit,
         h.kind = "h5b6u16" => cur < U16Size,
         Neat(h.kind, h, ready, K, limit), FourFound(cur, rest, best, m)
  PROVE  Neat(h.kind, m.h, ready, K, cur + 1)
<1>1. h \in NeatTable(BucketRec(h.kind), ready, K, limit)
  BY KindsApart DEF Neat, NeatTable, Table
<1>2. PICK masked \in Maskings : m.h = Bucket4Store(h, cur, masked, h.kind = "h5b6u16")
  BY DEF FourFound, FindInBucket
<1>3. IndexOf(masked, cur) \in Int /\ cur \in Int
  BY IndexInt DEF Maskings
<1>4. Key4(IndexOf(masked, cur)) \in 0 .. BucketKeys - 1
  BY <1>3, FourKey
<1>5. Fit(h.kind = "h5b6u16", cur) = cur
  <2>1. h.kind = "h5b6u16" => cur % U16Size = cur
    BY ChainSizes, OwnRemainder
  <2> QED
    BY <2>1 DEF Fit, Narrow, Wide
<1>6. m.h = BucketStore(h, Key4(IndexOf(masked, cur)), cur)
  BY <1>2, <1>5 DEF Bucket4Store
<1>7. h.kind \in BucketKinds \ TaggedKinds /\ h.kind \in BucketKinds
  BY KindsApart
<1>8. m.h \in NeatTable(BucketRec(h.kind), ready, K, cur + 1)
  BY <1>1, <1>3, <1>4, <1>6, <1>7, BucketStoreNeat, Zenon
<1> QED
  BY <1>7, <1>8 DEF NeatTable, Neat, Table

LEMMA RejectsInt ==
  ASSUME DataOK, h \in BucketRec(h.kind), NEW i \in Int PROVE Rejects(i) \in Int
<1>1. Key5(i) \in 0 .. BucketKeys - 1
  BY FiveKey
<1> DEFINE entries == Newest(h, Key5(i))
           S == {j \in DOMAIN entries : Tag5(Masked(entries[j])) # Tag5(i)}
<1>2. PICK t \in Nat : entries \in [1 .. t -> Int]
  BY <1>1, NewestTyped, Zenon
<1>3. IsFiniteSet(1 .. t)
  BY FS_Interval
<1>4. S \subseteq 1 .. t
  BY <1>2
<1>5. Cardinality(S) \in Nat
  BY <1>3, <1>4, FS_Subset, FS_CardinalityType
<1>6. SampleRate \in Nat
  BY HashLongBucketsAssumption
<1> HIDE DEF S
<1>7. SampleRate * Cardinality(S) \in Int
  BY <1>5, <1>6
<1> QED
  BY <1>7 DEF Rejects, S

LEMMA FiveSearchNeat ==
  ASSUME DataOK, NEW K, NEW cur \in Nat, NEW rest, NEW best, NEW m, NEW limit \in Int, NEW ready,
         h.kind \in PlainKinds \cup CountedKinds, K \in SUBSET (0 .. BucketKeys - 1),
         cur >= limit, Neat(h.kind, h, ready, K, limit), FiveFound(cur, rest, best, m)
  PROVE  Neat(h.kind, m.h, ready, K, cur + 1)
<1>1. h \in NeatTable(BucketRec(h.kind), ready, K, limit)
  BY KindsApart DEF Neat, NeatTable, Table
<1>2. PICK masked, other, c, r :
        /\ other \in Maskings
        /\ r = FindInBucket(Bucket5Store(h, cur, other), masked,
                            Newest(h, Key5(IndexOf(masked, cur))),
                            cur, rest, MaxDistance(cur), c)
        /\ m = r \/ m = Sampled(r, cur)
  BY DEF FiveFound
<1>3. IndexOf(other, cur) \in Int /\ cur \in Int /\ Masked(cur) \in Int
  <2>1. other \in BOOLEAN
    BY <1>2 DEF Maskings
  <2> QED
    BY <2>1, IndexInt, RingSizes, Remainder DEF Masked
<1>4. Key5(IndexOf(other, cur)) \in 0 .. BucketKeys - 1
  BY <1>3, FiveKey
<1>5. r.h = BucketStore(h, Key5(IndexOf(other, cur)), cur) /\ DOMAIN r = {"sr", "words", "h"}
  BY <1>2 DEF Bucket5Store, FindInBucket
<1>6. h.kind \in BucketKinds \ TaggedKinds /\ h.kind \in BucketKinds
  BY KindsApart
<1>7. r.h \in NeatTable(BucketRec(h.kind), ready, K, cur + 1)
  <2>1. BucketStore(h, Key5(IndexOf(other, cur)), cur)
          \in NeatTable(BucketRec(h.kind), ready, K, cur + 1)
    BY <1>1, <1>3, <1>4, <1>6, BucketStoreNeat
  <2> QED
    BY <1>5, <2>1
<1>8. Neat(h.kind, r.h, ready, K, cur + 1)
  BY <1>6, <1>7 DEF NeatTable, Neat, Table
<1>9. CASE m = r
  BY <1>8, <1>9
<1>10. CASE m = Sampled(r, cur)
  <2>1. CASE cur % SampleRate # 0
    BY <1>8, <1>10, <2>1 DEF Sampled
  <2>2. CASE cur % SampleRate = 0
    <3>1. PICK n \in Int : n = r.h.rejects + Rejects(Masked(cur))
      <4>1. Rejects(Masked(cur)) \in Int
        BY <1>1, <1>3, RejectsInt DEF NeatTable
      <4>2. r.h.rejects \in Int
        BY <1>7 DEF NeatTable, BucketRec
      <4> QED
        BY <4>1, <4>2
    <3>2. m.h = [r.h EXCEPT !.rejects = n]
      BY <1>5, <1>10, <2>2, <3>1 DEF Sampled
    <3> QED
      BY <1>6, <1>8, <3>2, CountedNeat, Zenon
  <2> QED
    BY <2>1, <2>2
<1> QED
  BY <1>2, <1>9, <1>10

LEMMA TaggedSearchNeat ==
  ASSUME DataOK, NEW K, NEW cur \in Nat, NEW rest, NEW best, NEW m, NEW limit \in Int, NEW ready,
         h.kind \in TaggedKinds, K \in SUBSET (0 .. BucketKeys - 1), cur >= limit,
         Neat(h.kind, h, ready, K, limit), TaggedFound(cur, rest, best, m)
  PROVE  Neat(h.kind, m.h, ready, K, cur + 1)
<1>1. h \in NeatTable(BucketRec(h.kind), ready, K, limit)
  BY KindsApart DEF Neat, NeatTable, Table
<1>2. PICK masked \in Maskings : m.h = TaggedStore(h, cur, masked)
  BY DEF TaggedFound, FindTagged
<1>3. masked \in BOOLEAN /\ cur \in Int /\ h.kind \in BucketKinds
  BY KindsApart DEF Maskings
<1>4. m.h \in NeatTable(BucketRec(h.kind), ready, K, cur + 1)
  BY <1>1, <1>2, <1>3, TaggedStoreNeat, Zenon
<1> QED
  BY <1>3, <1>4 DEF NeatTable, Neat, Table

LEMMA ChainSearchNeat ==
  ASSUME DataOK, NEW K, NEW cur \in Nat, NEW limit \in Int, NEW ready,
         h.kind \in ChainKinds, K \in SUBSET (0 .. ChainKeys - 1), cur >= limit,
         Neat(h.kind, h, ready, K, limit), ChainKey(Masked(cur)) \in K
  PROVE  /\ Storable(cur)
         /\ Neat(h.kind, ChainStore(h, cur), ready, K, cur + 1)
<1>1. ASSUME NEW b \in Nat \ {0}, NEW n \in Nat \ {0}, h \in ChainRec(h.kind, b, n)
      PROVE  ChainStore(h, cur) \in NeatTable(ChainRec(h.kind, b, n), ready, K, cur + 1)
  <2>1. h \in NeatTable(ChainRec(h.kind, b, n), ready, K, limit)
    BY <1>1 DEF Neat, NeatTable
  <2> QED
    BY <2>1, ChainStoreNeat, Zenon
<1>2. Storable(cur)
  BY <1>1 DEF Storable, NeatTable
<1>3. PICK b \in {1, NumBanks}, n \in {U16Size, BankSize} : h \in ChainRec(h.kind, b, n)
  BY KindsApart DEF Neat, Table
<1>4. b \in Nat \ {0} /\ n \in Nat \ {0}
  BY ChainSizes
<1>5. ChainStore(h, cur) \in NeatTable(ChainRec(h.kind, b, n), ready, K, cur + 1)
  BY <1>1, <1>3, <1>4
<1> QED
  BY <1>2, <1>3, <1>5 DEF NeatTable, Neat, Table

(* A table of any family after a search. *)
LEMMA SearchedNeat ==
  ASSUME DataOK, NEW P, NEW fam, Profile(P, fam, h.kind), NEW K,
         h.kind \in BucketKinds \cup ChainKinds => K \in SUBSET KeysOf(h.kind),
         NEW cur \in Nat, NEW rest \in Nat, NEW best, NEW m, NEW limit \in Int, cur >= limit,
         Neat(h.kind, h, TRUE, K, limit), h.kind = "h5b6u16" => cur < U16Size,
         h.kind \in ChainKinds => ChainKey(Masked(cur)) \in K,
         s.distCache[1] \in Int, Searched(fam, cur, rest, best, m)
  PROVE  Neat(h.kind, m.h, TRUE, K, cur + 1) /\ Finds(m, best, Matches(rest))
<1>0. Table(h.kind, h)
  BY DEF Neat
<1>1. CASE fam = "quick"
  <2>1. h.kind \in QuickKinds /\ h.kind \notin ChainKinds
    BY <1>1, KindsApart DEF Profile, QuickKinds
  <2>2. QuickFound(cur, rest, best, m)
    BY <1>1 DEF Searched
  <2>3. Neat(h.kind, m.h, TRUE, K, cur + 1)
    BY <2>1, <2>2, QuickSearchNeat, Zenon
  <2>4. Taken(fam, cur, rest, Matches(rest))
    BY <1>0, <2>1, TakenAny, Zenon
  <2> QED
    BY <2>3, <2>4, SearchedFinds, Zenon
<1>2. CASE fam = "four"
  <2>1. h.kind \in Bucket4Kinds /\ h.kind \notin ChainKinds
    BY <1>2, KindsApart DEF Profile
  <2>2. FourFound(cur, rest, best, m)
    BY <1>2 DEF Searched
  <2>3. K \in SUBSET (0 .. BucketKeys - 1)
    BY <2>1, KindsApart DEF KeysOf
  <2>4. Neat(h.kind, m.h, TRUE, K, cur + 1)
    BY <2>1, <2>2, <2>3, FourSearchNeat, Zenon
  <2>5. Taken(fam, cur, rest, Matches(rest))
    BY <1>0, <2>1, TakenAny, Zenon
  <2> QED
    BY <2>4, <2>5, SearchedFinds, Zenon
<1>3. CASE fam = "five"
  <2>1. h.kind \in PlainKinds \cup CountedKinds /\ h.kind \notin ChainKinds
    BY <1>3, KindsApart DEF Profile
  <2>2. FiveFound(cur, rest, best, m)
    BY <1>3 DEF Searched
  <2>3. K \in SUBSET (0 .. BucketKeys - 1)
    BY <2>1, KindsApart DEF KeysOf
  <2>4. Neat(h.kind, m.h, TRUE, K, cur + 1)
    BY <2>1, <2>2, <2>3, FiveSearchNeat, Zenon
  <2>5. Taken(fam, cur, rest, Matches(rest))
    BY <1>0, <2>1, TakenAny, Zenon
  <2> QED
    BY <2>4, <2>5, SearchedFinds, Zenon
<1>4. CASE fam = "tagged"
  <2>1. h.kind \in TaggedKinds /\ h.kind \notin ChainKinds
    BY <1>4, KindsApart DEF Profile
  <2>2. TaggedFound(cur, rest, best, m)
    BY <1>4 DEF Searched
  <2>3. K \in SUBSET (0 .. BucketKeys - 1)
    BY <2>1, KindsApart DEF KeysOf
  <2>4. Neat(h.kind, m.h, TRUE, K, cur + 1)
    BY <2>1, <2>2, <2>3, TaggedSearchNeat, Zenon
  <2>5. Taken(fam, cur, rest, Matches(rest))
    BY <1>0, <2>1, TakenAny, Zenon
  <2> QED
    BY <2>4, <2>5, SearchedFinds, Zenon
<1>5. CASE fam = "chain"
  <2>1. h.kind \in ChainKinds
    BY <1>5 DEF Profile
  <2>2. ChainFound(cur, rest, best, m)
    BY <1>5 DEF Searched
  <2>3. K \in SUBSET (0 .. ChainKeys - 1)
    BY <2>1 DEF KeysOf
  <2>4. Storable(cur) /\ Neat(h.kind, ChainStore(h, cur), TRUE, K, cur + 1)
    BY <2>1, <2>3, ChainSearchNeat, Zenon
  <2>5. m.h = ChainStore(h, cur)
    BY <2>2 DEF ChainFound, FoundInChain
  <2>6. Taken(fam, cur, rest, Matches(rest))
    BY <1>0, <2>4, TakenAny, Zenon
  <2>7. Finds(m, best, Matches(rest))
    BY <2>6, SearchedFinds, Zenon
  <2> QED
    BY <2>4, <2>5, <2>7
<1> QED
  BY <1>1, <1>2, <1>3, <1>4, <1>5 DEF Profile

-----------------------------------------------------------------------------
(* The keys of a block do not change while it is compressed. *)
SameBlock ==
    /\ input' = input /\ l'.posEnd = l.posEnd /\ l'.last = l.last
    /\ s'.processed = s.processed /\ s'.flushed = s.flushed

(* The bytes and the keys of a block. *)
LEMMA SameBytes ==
  ASSUME input' = input, l'.posEnd = l.posEnd
  PROVE  \A i : /\ ByteAt(i)' = ByteAt(i) /\ ChainKey(i)' = ChainKey(i)
                /\ Key4(i)' = Key4(i) /\ Key5(i)' = Key5(i)
<1>1. \A i : ByteAt(i)' = ByteAt(i)
  BY DEF ByteAt, Data
<1>2. \A i, n, m : HashAt(i, n, m)' = HashAt(i, n, m)
  BY <1>1 DEF HashAt, HashOf
<1> QED
  BY <1>1, <1>2 DEF ChainKey, Key4, Key5

LEMMA SameKeys ==
  ASSUME SameBlock, h'.kind = h.kind PROVE LiveKeys' = LiveKeys
<1>1. \A i : KeyAt(h.kind, i)' = KeyAt(h.kind, i)
  BY SameBytes DEF KeyAt, SameBlock
<1> QED
  BY <1>1 DEF SameBlock, LiveKeys, KeyAt

-----------------------------------------------------------------------------
(* A tidy table stays so when the limit is raised. *)
LEMMA NeatGrows ==
  ASSUME NEW kind, NEW x, NEW ready, NEW K,
         kind \in BucketKinds \cup ChainKinds => K \in SUBSET KeysOf(kind),
         NEW a \in Int, NEW b \in Int, a <= b, Neat(kind, x, ready, K, a)
  PROVE  Neat(kind, x, ready, K, b)
<1>0. Table(kind, x) /\ x.ready = ready /\ Tidy(x, K, a)
  BY DEF Neat
<1>1. CASE kind \in QuickKinds /\ x \in QuickRec(kind)
  <2>1. Tidy(x, K, b)
    BY <1>1, QuickTidy
  <2> QED
    BY <1>0, <2>1 DEF Neat
<1>2. CASE kind \in BucketKinds /\ x \in BucketRec(kind)
  <2>1. K \in SUBSET (0 .. BucketKeys - 1)
    BY <1>2, KindsApart DEF KeysOf
  <2>2. x \in NeatTable(BucketRec(kind), ready, K, a)
    BY <1>0, <1>2 DEF NeatTable
  <2>3. x \in NeatTable(BucketRec(kind), ready, K, b)
    BY <1>2, <2>1, <2>2, BucketGrows
  <2> QED
    BY <1>0, <2>3 DEF Neat, NeatTable
<1>3. CASE kind \in ChainKinds /\ \E m \in {1, NumBanks}, n \in {U16Size, BankSize} :
                                    x \in ChainRec(kind, m, n)
  <2>1. K \in SUBSET (0 .. ChainKeys - 1)
    BY <1>3 DEF KeysOf
  <2>2. PICK m \in {1, NumBanks}, n \in {U16Size, BankSize} : x \in ChainRec(kind, m, n)
    BY <1>3
  <2>3. x \in NeatTable(ChainRec(kind, m, n), ready, K, a)
    BY <1>0, <2>2 DEF NeatTable
  <2>4. NeatTable(ChainRec(kind, m, n), ready, K, a)
          \subseteq NeatTable(ChainRec(kind, m, n), ready, K, b)
    BY <1>3, <2>1, ChainGrows, Zenon
  <2> QED
    BY <1>0, <2>3, <2>4 DEF Neat, NeatTable
<1> QED
  BY <1>0, <1>1, <1>2, <1>3 DEF Table

(* The kind of a table. *)
LEMMA TableKind ==
  ASSUME NEW kind, NEW x, Table(kind, x)
  PROVE  /\ x.kind = kind /\ kind \in AllKinds /\ kind # "none"
<1>1. kind \in AllKinds
  BY DEF Table, AllKinds
<1>2. kind # "none"
  BY <1>1 DEF AllKinds, QuickKinds, BucketKinds, Bucket4Kinds, PlainKinds, CountedKinds,
              TaggedKinds, ChainKinds
<1>3. x.kind = kind
  BY DEF Table, QuickRec, BucketRec, ChainRec
<1> QED
  BY <1>1, <1>2, <1>3

LEMMA LoopData == ASSUME OrderInv PROVE DataOK
<1>1. Data \in Seq(Int) /\ Chunks \in Seq(Seq(Int)) /\ l.posEnd \in Nat /\ l.posEnd <= Len(Data)
  BY DEF OrderInv, Typed, Placed
<1>2. Len(Data) \in Nat
  BY <1>1, LenProperties
<1> QED
  BY <1>1, <1>2 DEF DataOK

(* What is known of the table in the loop. *)
InBlock == {"begin"} \cup Inside

(* In the loop the table is of its kind, ready and tidy. *)
LEMMA LoopTable ==
  ASSUME OrderInv, pc \in Inside
  PROVE  /\ Neat(h.kind, h, TRUE, LiveKeys, Limit)
         /\ Neat(h.kind, h, TRUE, LiveKeys, l.posEnd - 3)
         /\ h.kind \in BucketKinds \cup ChainKinds => LiveKeys \in SUBSET KeysOf(h.kind)
<1>1. pc \notin {"idle", "choose"} /\ pc \notin Before
  BY DEF Inside, Before
<1>2. h.kind # "none" /\ h.ready /\ pc # "idle"
  BY <1>1 DEF OrderInv, Ready
<1>3. Table(h.kind, h)
  BY <1>2 DEF OrderInv, Typed
<1>4. h.ready = TRUE
  BY <1>2, <1>3 DEF Table, QuickRec, BucketRec, ChainRec
<1>5. Tidy(h, LiveKeys, Limit) /\ Tidy(h, LiveKeys, l.posEnd - 3)
  BY <1>2 DEF OrderInv, Ready
<1> QED
  BY <1>3, <1>4, <1>5, LoopData, LiveKeysIn DEF Neat

(* The part of the invariant about the table after a step of the loop. *)
LEMMA LoopReady ==
  ASSUME OrderInv, SameBlock, pc \in InBlock, pc' \in Inside \cup After,
         Neat(h.kind, h', TRUE, LiveKeys, Limit'),
         Neat(h.kind, h', TRUE, LiveKeys, l.posEnd - 3)
  PROVE  Ready' /\ Table(h'.kind, h')
<1>1. Table(h.kind, h') /\ h'.ready = TRUE
  BY DEF Neat
<1>2. h'.kind = h.kind /\ h.kind # "none"
  BY <1>1, TableKind
<1>3. LiveKeys' = LiveKeys
  BY <1>2, SameKeys
<1>4. pc' \notin Before /\ pc' # "idle" /\ pc' # "begin"
  BY DEF Before, Inside, After
<1>5. h.kind \in ChainKinds => Linked(h')
  BY <1>1, <1>2 DEF Neat, Tidy, Chained
<1>6. h.kind = "h5b6u16" => "h5b6u16" \in Kinds /\ l.posEnd <= U16Size
  BY DEF OrderInv, Ready, InBlock
<1>7. Tidy(h', LiveKeys', Limit') /\ Tidy(h', LiveKeys', l'.posEnd - 3)
  BY <1>3 DEF Neat, SameBlock
<1>8. Ready'
  BY <1>1, <1>2, <1>4, <1>5, <1>6, <1>7 DEF Ready, SameBlock
<1> QED
  BY <1>1, <1>2, <1>8

(* The parts of the invariant that a step of the loop has to keep. *)
Locals ==
    /\ DOMAIN l = LocalFields
    /\ l.position \in Nat /\ l.insertLength \in Int /\ l.apply \in Int /\ l.storeEnd \in Int
    /\ l.noWrap \in BOOLEAN /\ l.ahead \in {0, 1} /\ l.words \in {0, 1, 2} /\ l.delayed \in Int
    /\ l.compound \in BOOLEAN

Streams ==
    /\ DOMAIN s = StreamFields
    /\ s.d \in [lookups : Int, matches : Int] /\ s.lastInsertLen \in Int
    /\ s.distCache \in Seq(Int) /\ Len(s.distCache) = 4

Cursor ==
    /\ s.processed <= l.position /\ l.position <= l.posEnd
    /\ pc \in Inside \ {"search", "emit"} => l.position + 4 < l.posEnd
    /\ pc \in Inside \ {"search"} => 4 < l.posEnd
    /\ pc \in Inside => l.storeEnd <= l.posEnd - 3 \/ (pc = "search" /\ l.position + 4 > l.posEnd)

Results ==
    /\ (pc \in {"lazy", "emit"} \/ Ahead) =>
         l.sr \in Matches(l.posEnd - l.position) /\ l.sr.score > MinScore
    /\ pc \in {"dict", "found"} => Plausible(l.found, l.posEnd - l.position - l.ahead)

(* The parts hold where the invariant does, and give it back after a step. *)
LEMMA LoopParts == ASSUME OrderInv PROVE Locals /\ Streams /\ Results
BY DEF OrderInv, Typed, Placed, Locals, Streams, Results

LEMMA LoopCursor == ASSUME OrderInv, pc \in InBlock PROVE Cursor /\ l.posEnd > 0
<1>1. pc # "idle"
  BY DEF InBlock, Inside
<1> QED
  BY <1>1 DEF OrderInv, Placed, Cursor

LEMMA BlockSizesNat ==
  ASSUME OrderInv
  PROVE  /\ s.processed \in Nat /\ s.flushed \in Nat /\ l.posEnd \in Nat /\ l.position \in Nat
         /\ l.storeEnd \in Int /\ l.insertLength \in Int /\ l.apply \in Int
BY DEF OrderInv, Typed

LEMMA LoopKeeps ==
  ASSUME OrderInv, SameBlock, pc \in InBlock, pc' \in Inside \cup {"merge"},
         Locals', Streams', Cursor', Results',
         Neat(h.kind, h', TRUE, LiveKeys, Limit'),
         Neat(h.kind, h', TRUE, LiveKeys, l.posEnd - 3)
  PROVE  OrderInv'
<1>1. Ready' /\ Table(h'.kind, h')
  <2>1. pc' \in Inside \cup After
    BY DEF After
  <2> QED
    BY <2>1, LoopReady
<1>2. Data' = Data /\ Chunks' = Chunks
  BY DEF SameBlock, Data, Chunks
<1>3. pc # "idle" /\ pc' # "idle" /\ pc' # "choose"
  BY DEF InBlock, Inside
<1>4. Typed'
  <2>1. pc' \in {"idle"} \cup Before \cup Inside \cup After
    BY DEF After
  <2>2. /\ Data \in Seq(Int) /\ Chunks \in Seq(Seq(Int))
        /\ s.processed \in Nat /\ s.flushed \in Nat /\ l.posEnd \in Nat /\ l.last \in BOOLEAN
    BY DEF OrderInv, Typed
  <2> QED
    BY <1>1, <1>2, <2>1, <2>2 DEF Typed, Locals, Streams, SameBlock
<1>5. Placed'
  <2>1. /\ s.flushed <= s.processed /\ s.processed <= l.posEnd /\ l.posEnd <= Len(Data)
        /\ l.posEnd > 0 /\ l.posEnd <= s.processed + RingTail
        /\ l.posEnd - s.flushed <= RingSize
        /\ l.last => l.posEnd = Len(Data)
    BY <1>3 DEF OrderInv, Placed
  <2>2. /\ s'.flushed <= s'.processed /\ s'.processed <= l'.posEnd /\ l'.posEnd <= Len(Data')
        /\ l'.posEnd > 0 /\ l'.posEnd <= s'.processed + RingTail
        /\ l'.posEnd - s'.flushed <= RingSize
        /\ l'.last => l'.posEnd = Len(Data')
    BY <2>1, <1>2 DEF SameBlock
  <2> QED
    BY <1>3, <2>2 DEF Placed, Cursor, Results
<1> QED
  BY <1>1, <1>4, <1>5 DEF OrderInv

(* The keys of the positions of a block. *)
LEMMA BlockKeys ==
  ASSUME OrderInv, pc \in InBlock, h.kind \in ChainKinds, NEW pos \in 0 .. l.posEnd - 1
  PROVE  ChainKey(Masked(pos)) \in LiveKeys
<1>1. pc # "idle"
  BY DEF InBlock, Inside
<1>2. s.processed \in Nat /\ l.posEnd <= s.processed + RingTail
  BY <1>1 DEF OrderInv, Typed, Placed
<1>3. KeyAt(h.kind, Masked(pos)) \in LiveKeys
  BY <1>2, LoopData, LiveKey
<1> QED
  BY <1>3 DEF KeyAt

(* The match that stands for none. *)
LEMMA NoMatchFields == NoMatch.score = MinScore /\ NoMatch.len \in Int
BY DEF NoMatch

(* A search at a position that is still to be stored. *)
LEMMA SearchNeat ==
  ASSUME OrderInv, NEW P, NEW fam, Profile(P, fam, h.kind), pc \in Inside,
         NEW cur \in Nat, Limit <= cur, Limit \in Int, cur + 1 <= l.posEnd - 3,
         NEW best, best.score = MinScore, best.len \in Int,
         NEW m, Searched(fam, cur, l.posEnd - cur, best, m)
  PROVE  /\ Neat(h.kind, m.h, TRUE, LiveKeys, cur + 1)
         /\ Neat(h.kind, m.h, TRUE, LiveKeys, l.posEnd - 3)
         /\ Plausible(m.sr, l.posEnd - cur) /\ m.words \in {0, 1, 2}
<1>0. l.posEnd \in Nat /\ l.posEnd - cur \in Nat /\ cur + 1 \in Int /\ l.posEnd - 3 \in Int
      /\ cur < l.posEnd
  BY BlockSizesNat
<1>1. DataOK
  BY LoopData
<1>2. /\ Neat(h.kind, h, TRUE, LiveKeys, Limit)
      /\ h.kind \in BucketKinds \cup ChainKinds => LiveKeys \in SUBSET KeysOf(h.kind)
  BY LoopTable
<1>3. h.kind = "h5b6u16" => cur < U16Size
  <2>1. h.kind = "h5b6u16" => l.posEnd <= U16Size
    BY DEF OrderInv, Ready, InBlock
  <2>2. U16Size \in Int
    BY ChainSizes
  <2> QED
    BY <2>1, <2>2, <1>0
<1>4. h.kind \in ChainKinds => ChainKey(Masked(cur)) \in LiveKeys
  <2>1. pc \in InBlock /\ cur \in 0 .. l.posEnd - 1
    BY <1>0 DEF InBlock
  <2> QED
    BY <2>1, BlockKeys
<1>5. s.distCache[1] \in Int
  BY DEF OrderInv, Typed
<1>6. cur >= Limit
  OBVIOUS
<1>7. Neat(h.kind, m.h, TRUE, LiveKeys, cur + 1) /\ Finds(m, best, Matches(l.posEnd - cur))
  BY <1>0, <1>1, <1>2, <1>3, <1>4, <1>5, <1>6, SearchedNeat, Zenon
<1>8. Neat(h.kind, m.h, TRUE, LiveKeys, l.posEnd - 3)
  BY <1>0, <1>2, <1>7, NeatGrows, Zenon
<1> QED
  BY <1>7, <1>8 DEF Finds, Plausible

(* The search at the current position. *)
LEMMA OrderLook ==
  ASSUME OrderInv, NEW P, NEW fam, Profile(P, fam, h.kind),
         NEW m, Searched(fam, l.position, l.posEnd - l.position, NoMatch, m), Looking(P, 0, m)
  PROVE  OrderInv'
<1>1. /\ pc = "search" /\ l.position + P.htl < l.posEnd
      /\ pc' = IF m.words > 0 \/ P.compound THEN "dict" ELSE "found"
      /\ l' = [l EXCEPT !.found = m.sr, !.ahead = 0, !.words = m.words, !.compound = P.compound]
      /\ h' = m.h /\ UNCHANGED <<input, s>>
  BY DEF Looking, Look
<1>2. P.htl \in {4, 8} /\ P.compound \in BOOLEAN
  BY ProfileFits DEF Fits, Constants
<1>3. l.position \in Nat /\ l.posEnd \in Nat /\ l.storeEnd \in Int
  BY BlockSizesNat
<1>4. Limit = l.position /\ pc \in Inside /\ pc \in InBlock
  BY <1>1 DEF Limit, Inside, InBlock, Before
<1>5. /\ Neat(h.kind, m.h, TRUE, LiveKeys, l.position + 1)
      /\ Neat(h.kind, m.h, TRUE, LiveKeys, l.posEnd - 3)
      /\ Plausible(m.sr, l.posEnd - l.position) /\ m.words \in {0, 1, 2}
  <2>1. l.position + 1 <= l.posEnd - 3 /\ Limit <= l.position /\ Limit \in Int
    BY <1>1, <1>2, <1>3, <1>4
  <2>2. NoMatch.score = MinScore /\ NoMatch.len \in Int
    BY NoMatchFields
  <2> HIDE DEF NoMatch
  <2> QED
    BY <1>3, <1>4, <2>1, <2>2, SearchNeat, Zenon
<1>6. DOMAIN l = LocalFields
  BY LoopParts DEF Locals
<1>7. /\ l'.found = m.sr /\ l'.ahead = 0 /\ l'.words = m.words /\ l'.compound = P.compound
      /\ l'.position = l.position /\ l'.posEnd = l.posEnd /\ l'.last = l.last
      /\ l'.storeEnd = l.storeEnd /\ l'.insertLength = l.insertLength /\ l'.apply = l.apply
      /\ l'.noWrap = l.noWrap /\ l'.delayed = l.delayed /\ l'.sr = l.sr
      /\ DOMAIN l' = LocalFields
  BY <1>1, <1>6 DEF LocalFields
<1>8. SameBlock /\ pc' \in {"dict", "found"} /\ pc' \in Inside \cup {"merge"}
  BY <1>1, <1>7 DEF SameBlock, Inside
<1>9. Locals' /\ Streams'
  BY <1>1, <1>2, <1>5, <1>7, LoopParts DEF Locals, Streams
<1>10. Cursor'
  <2>1. Cursor /\ s.processed \in Nat
    BY <1>4, LoopCursor, BlockSizesNat
  <2>2. l.storeEnd <= l.posEnd - 3
    BY <2>1, <1>1, <1>2, <1>3, <1>4 DEF Cursor
  <2> QED
    BY <2>1, <2>2, <1>1, <1>2, <1>3, <1>7, <1>8 DEF Cursor, SameBlock
<1>11. Results' /\ Limit' = l.position + 1
  <2>1. ~Ahead' /\ pc' \notin {"lazy", "emit"}
    BY <1>7, <1>8 DEF Ahead
  <2>2. l'.posEnd - l'.position - l'.ahead = l.posEnd - l.position
    BY <1>3, <1>7
  <2>3. Results'
    BY <2>1, <2>2, <1>5, <1>7 DEF Results
  <2>4. Limit' = l.position + 1
    BY <2>1, <1>7, <1>8 DEF Limit, Before, After
  <2> QED
    BY <2>3, <2>4
<1> QED
  BY <1>1, <1>4, <1>5, <1>8, <1>9, <1>10, <1>11, LoopKeeps

(* What the searches one byte ahead begin with. *)
LEMMA LazyFields ==
  ASSUME NEW P, P.eager \in BOOLEAN, l.sr.len \in Int, l.posEnd \in Int, l.position \in Int
  PROVE  LazyBest(P).score = MinScore /\ LazyBest(P).len \in Int
<1> DEFINE n == Min({l.sr.len - 1, l.posEnd - l.position - 1})
<1>1. n \in Int
  <2>1. l.sr.len - 1 \in Int /\ l.posEnd - l.position - 1 \in Int
    OBVIOUS
  <2> QED
    BY <2>1, MinTwo
<1> HIDE DEF n
<1>2. LazyBest(P) = IF ~P.eager THEN NoMatch ELSE [NoMatch EXCEPT !.len = n]
  BY DEF LazyBest, n
<1>3. "len" \in DOMAIN NoMatch /\ [NoMatch EXCEPT !.len = n].score = NoMatch.score
      /\ [NoMatch EXCEPT !.len = n].len = n
  BY DEF NoMatch
<1> QED
  BY <1>1, <1>2, <1>3, NoMatchFields

(* The search one byte ahead. *)
LEMMA OrderLookAhead ==
  ASSUME OrderInv, NEW P, NEW fam, Profile(P, fam, h.kind),
         NEW m, Searched(fam, l.position + 1, l.posEnd - l.position - 1, LazyBest(P), m),
         Looking(P, 1, m)
  PROVE  OrderInv'
<1>1. /\ pc = "lazy"
      /\ pc' = IF m.words > 0 \/ P.compound THEN "dict" ELSE "found"
      /\ l' = [l EXCEPT !.found = m.sr, !.ahead = 1, !.words = m.words, !.compound = P.compound]
      /\ h' = m.h /\ UNCHANGED <<input, s>>
  BY DEF Looking, Look
<1>2. P.compound \in BOOLEAN /\ P.eager \in BOOLEAN
  BY ProfileFits DEF Fits, Constants
<1>3. l.position \in Nat /\ l.posEnd \in Nat /\ l.storeEnd \in Int
  BY BlockSizesNat
<1>4. Limit = l.position + 1 /\ pc \in Inside /\ pc \in InBlock
  BY <1>1 DEF Limit, Inside, InBlock, Before, After, Ahead
<1>5. Cursor /\ s.processed \in Nat
  BY <1>4, LoopCursor, BlockSizesNat
<1>6. l.position + 4 < l.posEnd /\ l.storeEnd <= l.posEnd - 3
  BY <1>1, <1>3, <1>4, <1>5 DEF Cursor
<1>7. l.sr \in Matches(l.posEnd - l.position) /\ l.sr.score > MinScore
  BY <1>1, LoopParts DEF Results
<1>8. /\ Neat(h.kind, m.h, TRUE, LiveKeys, l.position + 1 + 1)
      /\ Neat(h.kind, m.h, TRUE, LiveKeys, l.posEnd - 3)
      /\ Plausible(m.sr, l.posEnd - (l.position + 1)) /\ m.words \in {0, 1, 2}
  <2> DEFINE cur == l.position + 1
             best == LazyBest(P)
  <2>1. cur \in Nat /\ cur + 1 <= l.posEnd - 3 /\ Limit <= cur /\ Limit \in Int
    BY <1>3, <1>4, <1>6
  <2>2. best.score = MinScore /\ best.len \in Int
    <3>1. l.sr.len \in Int
      BY <1>7, <1>3 DEF Matches
    <3> QED
      BY <1>2, <1>3, <3>1, LazyFields
  <2>3. l.posEnd - l.position - 1 = l.posEnd - cur
    BY <1>3
  <2>4. Searched(fam, cur, l.posEnd - cur, best, m)
    BY <2>3
  <2> HIDE DEF cur, best
  <2>5. /\ Neat(h.kind, m.h, TRUE, LiveKeys, cur + 1)
        /\ Neat(h.kind, m.h, TRUE, LiveKeys, l.posEnd - 3)
        /\ Plausible(m.sr, l.posEnd - cur) /\ m.words \in {0, 1, 2}
    BY <1>4, <2>1, <2>2, <2>4, SearchNeat, Zenon
  <2> QED
    BY <2>5 DEF cur
<1>9. DOMAIN l = LocalFields
  BY LoopParts DEF Locals
<1>10. /\ l'.found = m.sr /\ l'.ahead = 1 /\ l'.words = m.words /\ l'.compound = P.compound
       /\ l'.position = l.position /\ l'.posEnd = l.posEnd /\ l'.last = l.last
       /\ l'.storeEnd = l.storeEnd /\ l'.insertLength = l.insertLength /\ l'.apply = l.apply
       /\ l'.noWrap = l.noWrap /\ l'.delayed = l.delayed /\ l'.sr = l.sr
       /\ DOMAIN l' = LocalFields
  BY <1>1, <1>9 DEF LocalFields
<1>11. SameBlock /\ pc' \in {"dict", "found"} /\ pc' \in Inside \cup {"merge"}
  BY <1>1, <1>10 DEF SameBlock, Inside
<1>12. Locals' /\ Streams'
  BY <1>1, <1>2, <1>8, <1>10, LoopParts DEF Locals, Streams
<1>13. Cursor'
  BY <1>1, <1>3, <1>5, <1>6, <1>10, <1>11 DEF Cursor, SameBlock
<1>14. Results' /\ Limit' = l.position + 1 + 1
  <2>1. Ahead'
    BY <1>10, <1>11 DEF Ahead
  <2>2. l'.posEnd - l'.position - l'.ahead = l.posEnd - (l.position + 1)
        /\ l'.posEnd - l'.position = l.posEnd - l.position
    BY <1>3, <1>10
  <2>3. Results'
    BY <2>2, <1>7, <1>8, <1>10 DEF Results
  <2>4. Limit' = l.position + 2
    BY <2>1, <1>10, <1>11 DEF Limit, Before, After
  <2> QED
    BY <2>3, <2>4, <1>3
<1> QED
  BY <1>1, <1>4, <1>8, <1>11, <1>12, <1>13, <1>14, LoopKeeps

-----------------------------------------------------------------------------
(* What is found. *)
LEMMA PlausibleBetter ==
  ASSUME NEW m, NEW n, Plausible(m, n), m.score > MinScore PROVE m \in Matches(n)
BY DEF Plausible, MinScore

(* The steps of the loop keep the invariant: what is found at the position *)
(* and one byte ahead.                                                     *)
LEMMA OrderFirst == ASSUME OrderInv, FoundFirst PROVE OrderInv'
<1>1. /\ pc = "found" /\ l.ahead = 0
      /\ pc' = IF l.found.score > MinScore THEN "lazy" ELSE "literal"
      /\ l' = [l EXCEPT !.sr = l.found, !.delayed = 0]
      /\ UNCHANGED <<input, s, h>>
  BY DEF FoundFirst
<1>2. l.position \in Nat /\ l.posEnd \in Nat /\ l.storeEnd \in Int /\ s.processed \in Nat
  BY BlockSizesNat
<1>3. Limit = l.position + 1 /\ pc \in Inside /\ pc \in InBlock
  BY <1>1 DEF Limit, Inside, InBlock, Before, After, Ahead
<1>4. Cursor /\ l.position + 4 < l.posEnd /\ l.storeEnd <= l.posEnd - 3
  BY <1>1, <1>2, <1>3, LoopCursor DEF Cursor
<1>5. DOMAIN l = LocalFields
  BY LoopParts DEF Locals
<1>6. /\ l'.sr = l.found /\ l'.delayed = 0 /\ l'.ahead = 0 /\ l'.words = l.words
      /\ l'.compound = l.compound /\ l'.found = l.found
      /\ l'.position = l.position /\ l'.posEnd = l.posEnd /\ l'.last = l.last
      /\ l'.storeEnd = l.storeEnd /\ l'.insertLength = l.insertLength /\ l'.apply = l.apply
      /\ l'.noWrap = l.noWrap /\ DOMAIN l' = LocalFields
  BY <1>1, <1>5 DEF LocalFields
<1>7. SameBlock /\ pc' \in {"lazy", "literal"} /\ pc' \in Inside \cup {"merge"}
  BY <1>1, <1>6 DEF SameBlock, Inside
<1>8. Locals' /\ Streams'
  BY <1>1, <1>6, LoopParts DEF Locals, Streams
<1>9. Cursor'
  BY <1>1, <1>2, <1>4, <1>6, <1>7 DEF Cursor, SameBlock
<1>10. Limit' = l.position + 1 /\ ~Ahead'
  BY <1>6, <1>7 DEF Limit, Before, After, Ahead
<1>11. Results'
  <2>1. pc' # "emit" /\ pc' # "dict" /\ pc' # "found"
    BY <1>7
  <2>2. CASE pc' = "lazy"
    <3>1. l.found.score > MinScore
      BY <1>1, <2>2
    <3>2. Plausible(l.found, l.posEnd - l.position)
      <4>1. Plausible(l.found, l.posEnd - l.position - l.ahead)
        BY <1>1, LoopParts DEF Results
      <4>2. l.posEnd - l.position - l.ahead = l.posEnd - l.position
        BY <1>1, <1>2
      <4> QED
        BY <4>1, <4>2
    <3>3. l.found \in Matches(l.posEnd - l.position)
      BY <3>1, <3>2, PlausibleBetter
    <3> QED
      BY <2>1, <3>1, <3>3, <1>6 DEF Results
  <2> QED
    BY <2>1, <2>2, <1>10 DEF Results
<1> QED
  BY <1>1, <1>3, <1>7, <1>8, <1>9, <1>10, <1>11, LoopTable, LoopKeeps

(* What was found one byte ahead. *)
LEMMA OrderNext ==
  ASSUME OrderInv, NEW P, P.htl \in {4, 8}, FoundNext(P) PROVE OrderInv'
<1>1. /\ pc = "found" /\ l.ahead = 1
      /\ pc' = IF /\ Better /\ l.delayed + 1 < 4
                  /\ l.position + 1 + P.htl < l.posEnd
               THEN "lazy" ELSE "emit"
      /\ l' = IF ~Better THEN l
              ELSE [l EXCEPT !.position = @ + 1, !.insertLength = @ + 1,
                             !.sr = l.found, !.delayed = @ + 1]
      /\ UNCHANGED <<input, s, h>>
  BY DEF FoundNext
<1>2. l.position \in Nat /\ l.posEnd \in Nat /\ l.storeEnd \in Int /\ s.processed \in Nat
      /\ l.insertLength \in Int
  BY BlockSizesNat
<1>3. Ahead /\ Limit = l.position + 2 /\ pc \in Inside /\ pc \in InBlock
  BY <1>1 DEF Limit, Inside, InBlock, Before, After, Ahead
<1>4. Cursor /\ l.position + 4 < l.posEnd /\ l.storeEnd <= l.posEnd - 3
  BY <1>1, <1>2, <1>3, LoopCursor DEF Cursor
<1>5. DOMAIN l = LocalFields /\ Locals /\ Streams
  BY LoopParts DEF Locals
<1>6. /\ l.sr \in Matches(l.posEnd - l.position) /\ l.sr.score > MinScore
      /\ Plausible(l.found, l.posEnd - l.position - 1)
  BY <1>1, <1>3, LoopParts DEF Results
<1>7. /\ Neat(h.kind, h, TRUE, LiveKeys, l.position + 2)
      /\ Neat(h.kind, h, TRUE, LiveKeys, l.posEnd - 3)
      /\ h.kind \in BucketKinds \cup ChainKinds => LiveKeys \in SUBSET KeysOf(h.kind)
  BY <1>3, LoopTable
<1>8. pc' \in {"lazy", "emit"} /\ pc' \in Inside \cup {"merge"}
  BY <1>1 DEF Inside
<1>9. CASE ~Better
  <2>1. l' = l /\ s' = s /\ h' = h /\ pc' = "emit" /\ input' = input
    BY <1>1, <1>9
  <2>2. SameBlock
    BY <2>1 DEF SameBlock
  <2>3. Locals' /\ Streams'
    BY <2>1, <1>5 DEF Locals, Streams
  <2>4. Cursor'
    BY <2>1, <1>2, <1>4 DEF Cursor
  <2>5. Results' /\ Limit' = l.position + 2
    BY <2>1, <1>6 DEF Results, Limit, Before, After, Ahead
  <2> QED
    BY <2>1, <2>2, <2>3, <2>4, <2>5, <1>3, <1>7, <1>8, LoopKeeps
<1>10. CASE Better
  <2>1. /\ l'.sr = l.found /\ l'.delayed = l.delayed + 1 /\ l'.ahead = l.ahead
        /\ l'.words = l.words /\ l'.compound = l.compound /\ l'.found = l.found
        /\ l'.position = l.position + 1 /\ l'.posEnd = l.posEnd /\ l'.last = l.last
        /\ l'.storeEnd = l.storeEnd /\ l'.insertLength = l.insertLength + 1
        /\ l'.apply = l.apply /\ l'.noWrap = l.noWrap /\ DOMAIN l' = LocalFields
    BY <1>1, <1>5, <1>10 DEF LocalFields
  <2>2. SameBlock
    BY <1>1, <2>1 DEF SameBlock
  <2>3. Locals' /\ Streams'
    <3>1. l.position + 1 \in Nat /\ l.insertLength + 1 \in Int /\ l.delayed + 1 \in Int
      BY <1>2, <1>5 DEF Locals
    <3>2. Locals'
      BY <2>1, <3>1, <1>5 DEF Locals
    <3>3. s' = s
      BY <1>1
    <3> QED
      BY <3>2, <3>3, <1>5 DEF Streams
  <2>4. Cursor'
    <3>1. pc' = "lazy" => l.position + 1 + P.htl < l.posEnd
      BY <1>1
    <3> QED
      BY <1>1, <3>1, <2>1, <1>2, <1>4, <1>8 DEF Cursor
  <2>5. l.found \in Matches(l.posEnd - l.position - 1) /\ l.found.score > MinScore
    <3>1. l.sr.score \in Int
      BY <1>6 DEF Matches
    <3>2. l.found.score \in Int
      BY <1>6 DEF Plausible, Matches, MinScore
    <3>3. l.found.score > MinScore
      BY <3>1, <3>2, <1>6, <1>10 DEF Better, MinScore, CostDiffLazy
    <3> QED
      BY <1>6, <3>3, PlausibleBetter
  <2>6. Results'
    <3>1. l.posEnd - l.position - 1 = l'.posEnd - l'.position
      BY <1>2, <2>1
    <3> QED
      BY <2>1, <2>5, <3>1, <1>8 DEF Results
  <2>7. Limit' \in Int /\ l.position + 2 <= Limit'
    BY <1>2, <1>8, <2>1 DEF Limit, Before, After, Ahead
  <2>8. Neat(h.kind, h, TRUE, LiveKeys, Limit')
    <3>1. l.position + 2 \in Int
      BY <1>2
    <3> QED
      BY <3>1, <2>7, <1>7, NeatGrows, Zenon
  <2> QED
    BY <1>1, <2>2, <2>3, <2>4, <2>6, <2>8, <1>3, <1>7, <1>8, LoopKeeps
<1> QED
  BY <1>9, <1>10

-----------------------------------------------------------------------------
(* The dictionaries. *)
LEMMA WordsPlausible ==
  ASSUME OrderInv, NEW cur \in Nat, cur <= l.posEnd, Plausible(l.found, l.posEnd - cur)
  PROVE  /\ Plausible(FoundWord(cur).sr, l.posEnd - cur)
         /\ FoundWord(cur).d \in [lookups : Int, matches : Int]
<1>0. l.posEnd \in Nat /\ l.posEnd - cur \in Nat /\ DataOK
      /\ s.d \in [lookups : Int, matches : Int] /\ l.words \in {0, 1, 2}
  <2>1. l.posEnd \in Nat /\ l.words \in {0, 1, 2}
    BY LoopParts, LoopData, SMTT(20) DEF Locals, OrderInv, Typed
  <2>2. s.d \in [lookups : Int, matches : Int]
    BY LoopParts DEF Streams
  <2>3. l.posEnd - cur \in Nat
    BY ONLY <2>1, cur \in Nat, cur <= l.posEnd
  <2> QED
    BY <2>1, <2>2, <2>3, LoopData
<1> DEFINE i == IF l.noWrap THEN Direct(cur) ELSE Masked(cur)
           n == l.posEnd - cur
           far == MaxDistance(cur) + Gap
           W(k) == SearchWords(k, i, n, far, l.found, s.d)
<1>1. i \in Int /\ far \in Nat /\ n \in Nat
  <2>1. Masked(cur) \in Int
    BY RingSizes, Remainder DEF Masked
  <2>2. MaxDistance(cur) \in Nat /\ Gap \in Nat
    BY <1>0, MaxDistanceNat, GapNat
  <2> QED
    BY <2>1, <2>2, <1>0 DEF Direct
<1>2. CASE l.found.score # MinScore \/ l.words = 0
  <2>1. FoundWord(cur) = [sr |-> l.found, d |-> s.d]
    BY <1>0, <1>2 DEF FoundWord
  <2> QED
    BY <2>1, <1>0
<1>3. CASE l.found.score = MinScore /\ l.words \in {1, 2}
  <2>1. FoundWord(cur) = W(l.words)
    BY <1>3 DEF FoundWord, SearchStaticDictionary, SearchStaticDictionaryDeep
  <2>2. MinScore \in Int
    BY DEF MinScore
  <2> HIDE DEF i, n, far
  <2>3. l.found.score \in Int /\ l.found.score >= MinScore /\ s.d \in Counters
    BY <1>0, <1>3, <2>2 DEF Counters
  <2>4. /\ W(l.words).sr \in {l.found} \cup WordMatches(i, n, far)
        /\ W(l.words).d \in Counters
    BY <1>0, <1>1, <1>3, <2>3, SearchWordsFinds
  <2>5. WordMatches(i, n, far) \subseteq Matches(n)
    BY DEF WordMatches
  <2>6. Plausible(W(l.words).sr, n)
    <3>1. Plausible(l.found, n)
      BY DEF n
    <3> QED
      BY <2>4, <2>5, <3>1 DEF Plausible
  <2> QED
    BY <2>1, <2>4, <2>6 DEF n, Counters
<1> QED
  BY <1>0, <1>2, <1>3

LEMMA LookupPlausible ==
  ASSUME OrderInv, NEW cur \in Nat, cur <= l.posEnd, NEW best, Plausible(best, l.posEnd - cur)
  PROVE  Plausible(LookupMatch(Masked(cur), l.posEnd - cur, MaxDistance(cur), best),
                   l.posEnd - cur)
<1>0. l.posEnd \in Nat /\ l.posEnd - cur \in Nat /\ DataOK
  BY BlockSizesNat, LoopData
<1>1. CacheInts
  <2>1. s.distCache \in Seq(Int) /\ Len(s.distCache) = 4
    BY DEF OrderInv, Typed
  <2>2. \A k \in 1 .. 4 : s.distCache[k] \in Int
    BY <2>1
  <2> QED
    BY <2>2 DEF CacheInts
<1>2. best.len \in Int
  BY <1>0 DEF Plausible, Matches
<1>3. MaxDistance(cur) \in Int
  BY MaxDistanceNat
<1> DEFINE n == l.posEnd - cur
           i == Masked(cur)
           max == MaxDistance(cur)
<1>4. n \in Nat /\ max \in Int
  BY <1>0, <1>3
<1>5. Plausible(best, n)
  OBVIOUS
<1> HIDE DEF n, i, max
<1>6. LookupMatch(i, n, max, best) \in {best} \cup CompoundMatches(i, n, max)
  BY <1>0, <1>1, <1>2, <1>4, LookupFinds, Zenon
<1>7. CompoundMatches(i, n, max) \subseteq Matches(n)
  BY DEF CompoundMatches, FromChunk
<1>8. Plausible(LookupMatch(i, n, max, best), n)
  BY <1>5, <1>6, <1>7 DEF Plausible
<1> QED
  BY <1>8 DEF n, i, max

(* A look-up in the dictionaries keeps the invariant. *)
LEMMA OrderConsult == ASSUME OrderInv, Consult PROVE OrderInv'
<1> DEFINE cur == l.position + l.ahead
           w == FoundWord(cur)
           r == IF ~l.compound THEN w.sr
                ELSE LookupMatch(Masked(cur), l.posEnd - cur, MaxDistance(cur), w.sr)
<1>1. /\ pc = "dict" /\ pc' = "found"
      /\ l' = [l EXCEPT !.found = r] /\ s' = [s EXCEPT !.d = w.d]
      /\ UNCHANGED <<input, h>>
  BY DEF Consult
<1>2. l.position \in Nat /\ l.posEnd \in Nat /\ l.storeEnd \in Int /\ s.processed \in Nat
  BY BlockSizesNat
<1>3. Limit' = Limit /\ pc \in Inside /\ pc \in InBlock /\ Ahead' = Ahead
  <2>1. l'.ahead = l.ahead /\ l'.position = l.position
    BY <1>1, LoopParts DEF Locals, LocalFields
  <2> QED
    BY <1>1, <2>1 DEF Limit, Inside, InBlock, Before, After, Ahead
<1>4. Cursor /\ l.position + 4 < l.posEnd /\ l.storeEnd <= l.posEnd - 3
  BY <1>1, <1>2, <1>3, LoopCursor DEF Cursor
<1>5. DOMAIN l = LocalFields /\ DOMAIN s = StreamFields /\ Locals /\ Streams /\ Results
      /\ l.ahead \in {0, 1}
  BY LoopParts DEF Locals, Streams
<1>6. cur \in Nat /\ cur <= l.posEnd /\ l.posEnd - l.position - l.ahead = l.posEnd - cur
  BY <1>2, <1>4, <1>5
<1>7. Plausible(l.found, l.posEnd - cur)
  BY <1>1, <1>5, <1>6 DEF Results
<1>8. Plausible(w.sr, l.posEnd - cur) /\ w.d \in [lookups : Int, matches : Int]
  BY <1>6, <1>7, WordsPlausible
<1>9. Plausible(r, l.posEnd - cur)
  <2>1. Plausible(LookupMatch(Masked(cur), l.posEnd - cur, MaxDistance(cur), w.sr),
                  l.posEnd - cur)
    BY <1>6, <1>8, LookupPlausible
  <2> QED
    BY <1>8, <2>1
<1> HIDE DEF w, r
<1>10. /\ l'.found = r /\ l'.sr = l.sr /\ l'.delayed = l.delayed /\ l'.ahead = l.ahead
       /\ l'.words = l.words /\ l'.compound = l.compound
       /\ l'.position = l.position /\ l'.posEnd = l.posEnd /\ l'.last = l.last
       /\ l'.storeEnd = l.storeEnd /\ l'.insertLength = l.insertLength
       /\ l'.apply = l.apply /\ l'.noWrap = l.noWrap /\ DOMAIN l' = LocalFields
  BY <1>1, <1>5 DEF LocalFields
<1>11. /\ s'.d = w.d /\ DOMAIN s' = StreamFields /\ s'.lastInsertLen = s.lastInsertLen
       /\ s'.distCache = s.distCache /\ s'.processed = s.processed /\ s'.flushed = s.flushed
  BY <1>1, <1>5 DEF StreamFields
<1>12. SameBlock /\ pc' \in Inside \cup {"merge"}
  BY <1>1, <1>10, <1>11 DEF SameBlock, Inside
<1>13. Locals' /\ Streams'
  BY <1>5, <1>8, <1>10, <1>11 DEF Locals, Streams
<1>14. Cursor'
  BY <1>1, <1>2, <1>4, <1>10, <1>12 DEF Cursor, SameBlock
<1>15. Results'
  <2>1. l'.posEnd - l'.position - l'.ahead = l.posEnd - cur
        /\ l'.posEnd - l'.position = l.posEnd - l.position
    BY <1>6, <1>10
  <2> QED
    BY <2>1, <1>1, <1>3, <1>5, <1>9, <1>10 DEF Results
<1> QED
  BY <1>1, <1>3, <1>12, <1>13, <1>14, <1>15, LoopTable, LoopKeeps

(* The table of distances a matcher keeps for itself. *)

(* A concatenation begins with its first part. *)
LEMMA ConcatFirst ==
  ASSUME NEW T, NEW a \in Seq(T), NEW b \in Seq(T)
  PROVE  /\ a \o b \in Seq(T) /\ Len(a \o b) = Len(a) + Len(b)
         /\ \A k \in 1 .. Len(a) : (a \o b)[k] = a[k]
<1>1. /\ a \o b \in Seq(T) /\ Len(a \o b) = Len(a) + Len(b)
      /\ \A k \in 1 .. Len(a) + Len(b) :
           (a \o b)[k] = IF k <= Len(a) THEN a[k] ELSE b[k - Len(a)]
  BY ConcatProperties, Zenon
<1> QED
  BY <1>1

(* The sequence Expand takes a part of. *)
LEMMA ExpandElements ==
  ASSUME NEW c, Len(c) = 4, c \in Seq({c[1], c[2], c[3], c[4]}), NEW n \in 0 .. 16
  PROVE  /\ Len(Expand(c, n)) = n
         /\ n >= 4 => \A k \in 1 .. 4 : Expand(c, n)[k] = c[k]
<1> DEFINE T == {c[1], c[2], c[3], c[4]} \cup
               {c[1] - 1, c[1] + 1, c[1] - 2, c[1] + 2, c[1] - 3, c[1] + 3} \cup
               {c[2] - 1, c[2] + 1, c[2] - 2, c[2] + 2, c[2] - 3, c[2] + 3}
           near1 == Neighbours(c[1])
           near2 == Neighbours(c[2])
           all == c \o near1 \o near2
<1>1. c \in Seq(T) /\ near1 \in Seq(T) /\ near2 \in Seq(T)
  BY DEF Neighbours
<1>2. Len(near1) = 6 /\ Len(near2) = 6
  BY DEF Neighbours
<1> HIDE DEF T, near1, near2
<1> DEFINE ten == c \o near1
<1> HIDE DEF ten
<1>3. ten \in Seq(T) /\ Len(ten) = 10 /\ \A k \in 1 .. 4 : ten[k] = c[k]
  <2>1. /\ ten \in Seq(T) /\ Len(ten) = Len(c) + Len(near1)
        /\ \A k \in 1 .. Len(c) : ten[k] = c[k]
    BY <1>1, ConcatFirst, Zenon DEF ten
  <2> QED
    BY <2>1, <1>2
<1>4. all = ten \o near2
  BY DEF ten, all
<1> HIDE DEF all
<1>5. all \in Seq(T) /\ Len(all) = 16 /\ \A k \in 1 .. 4 : all[k] = ten[k]
  <2>0. ten \in Seq(T) /\ near2 \in Seq(T)
    BY <1>1, <1>3
  <2>1. /\ ten \o near2 \in Seq(T) /\ Len(ten \o near2) = Len(ten) + Len(near2)
        /\ \A k \in 1 .. Len(ten) : (ten \o near2)[k] = ten[k]
    BY ONLY <2>0, ConcatFirst, Zenon
  <2>2. all = ten \o near2 /\ Len(ten) = 10 /\ Len(near2) = 6
    BY <1>2, <1>3, <1>4
  <2> QED
    <3>1. /\ all \in Seq(T) /\ Len(all) = 10 + 6
          /\ \A k \in 1 .. 10 : all[k] = ten[k]
      BY ONLY <2>1, <2>2, Zenon
    <3> QED
      BY ONLY <3>1
<1>6. Expand(c, n) = SubSeq(all, 1, n)
  BY DEF Expand, all, ten, near1, near2
<1> QED
  BY <1>3, <1>5, <1>6
Quad(c) == Len(c) = 4 /\ c \in Seq({c[1], c[2], c[3], c[4]})

(* The first four are the cache itself. *)
LEMMA ExpandFour == ASSUME NEW c, Quad(c) PROVE Expand(c, 4) = c
<1> DEFINE T == {c[1], c[2], c[3], c[4]} \cup
               {c[1] - 1, c[1] + 1, c[1] - 2, c[1] + 2, c[1] - 3, c[1] + 3} \cup
               {c[2] - 1, c[2] + 1, c[2] - 2, c[2] + 2, c[2] - 3, c[2] + 3}
           near1 == Neighbours(c[1])
           near2 == Neighbours(c[2])
<1>1. c \in Seq(T) /\ near1 \in Seq(T) /\ near2 \in Seq(T)
  BY DEF Neighbours, Quad
<1> HIDE DEF T, near1, near2
<1>2. c \o near1 \in Seq(T) /\ Len(c \o near1) = Len(c) + Len(near1)
  BY <1>1, ConcatFirst, Zenon
<1>3. /\ (c \o near1) \o near2 \in Seq(T)
      /\ Len((c \o near1) \o near2) = Len(c \o near1) + Len(near2)
  BY <1>1, <1>2, ConcatFirst, Zenon
<1>4. Expand(c, 4) = SubSeq((c \o near1) \o near2, 1, 4)
  BY DEF Expand, near1, near2
<1>5. Expand(c, 4) \in Seq(T)
  <2>1. Len(c) = 4 /\ Len(near1) \in Nat /\ Len(near2) \in Nat
    BY <1>1, LenProperties DEF Quad
  <2>2. 4 <= Len((c \o near1) \o near2)
    BY <1>2, <1>3, <2>1
  <2> DEFINE w == (c \o near1) \o near2
  <2>3. w \in Seq(T) /\ 4 <= Len(w) /\ Expand(c, 4) = SubSeq(w, 1, 4)
    BY <1>3, <1>4, <2>2
  <2> HIDE DEF w
  <2>4. 1 \in Int /\ 4 \in Int /\ \A i \in 1 .. 4 : w[i] \in T
    BY <2>3
  <2>5. SubSeq(w, 1, 4) \in Seq(T)
    BY <2>3, <2>4, SubSeqProperties, Zenon
  <2> QED
    BY <2>3, <2>5
<1>6. Len(Expand(c, 4)) = 4 /\ \A k \in 1 .. 4 : Expand(c, 4)[k] = c[k]
  BY ExpandElements DEF Quad
<1> QED
  BY <1>1, <1>5, <1>6 DEF Quad

(* Expanding four distances. *)
LEMMA ExpandQuad ==
  ASSUME NEW c, Quad(c), NEW n \in {4, 10, 16}
  PROVE  /\ Len(Expand(c, n)) = n
         /\ Expand(c, n)[1] = c[1] /\ Expand(c, n)[2] = c[2]
         /\ Expand(c, n)[3] = c[3] /\ Expand(c, n)[4] = c[4]
<1>1. Len(c) = 4 /\ c \in Seq({c[1], c[2], c[3], c[4]}) /\ n \in 0 .. 16
  BY DEF Quad
<1>2. /\ Len(Expand(c, n)) = n
      /\ n >= 4 => \A k \in 1 .. 4 : Expand(c, n)[k] = c[k]
  BY <1>1, ExpandElements, Zenon
<1> QED
  BY <1>2

(* One distance more, in the cache and in a table of it. *)
LEMMA PushInStep ==
  ASSUME NEW c, Quad(c), NEW d, NEW n \in {4, 10, 16}
  PROVE  /\ Quad(Push(c, d)) /\ Push(Expand(c, n), d) = Expand(Push(c, d), n)
         /\ Push(c, d) = <<d, c[1], c[2], c[3]>>
<1> DEFINE q == <<d, c[1], c[2], c[3]>>
<1>1. Quad(q)
  BY DEF Quad
<1>2. Push(c, d) = Expand(q, 4)
  BY DEF Push, Quad
<1>3. Push(c, d) = q
  BY <1>1, <1>2, ExpandFour
<1>4. /\ Len(Expand(c, n)) = n
      /\ Expand(c, n)[1] = c[1] /\ Expand(c, n)[2] = c[2] /\ Expand(c, n)[3] = c[3]
  BY ExpandQuad
<1>5. Push(Expand(c, n), d) = Expand(q, n)
  BY <1>4 DEF Push
<1> QED
  BY <1>1, <1>3, <1>5

-----------------------------------------------------------------------------
(* The beginning of a block: the table is cleared if it is not ready, and  *)
(* the positions before the block are stored.                              *)
LEMMA CleanedNeat ==
  ASSUME OrderInv, pc = "begin", NEW P, NEW fam, Profile(P, fam, h.kind), NEW r,
         Cleaned(fam, r)
  PROVE  /\ Neat(h.kind, r, TRUE, LiveKeys, s.processed - 3)
         /\ Neat(h.kind, r, TRUE, LiveKeys, l.posEnd - 3)
<1>1. Limit = s.processed - 3 /\ s.processed - 3 \in Int /\ l.posEnd - 3 \in Int
  BY BlockSizesNat DEF Limit, Before
<1>2. h.kind # "none" /\ (h.kind \in ChainKinds => Linked(h))
  BY DEF OrderInv, Ready
<1>3. Table(h.kind, h)
  BY <1>2 DEF OrderInv, Typed
<1>4. CASE h.ready
  <2>1. r = h /\ h.ready = TRUE
    BY <1>3, <1>4 DEF Cleaned, Table, QuickRec, BucketRec, ChainRec
  <2>2. Tidy(h, LiveKeys, Limit) /\ Tidy(h, LiveKeys, l.posEnd - 3)
    BY <1>2, <1>4 DEF OrderInv, Ready
  <2> QED
    BY <1>1, <1>3, <2>1, <2>2 DEF Neat
<1>5. CASE ~h.ready
  <2>1. Cleared(fam, r)
    BY <1>5 DEF Cleaned
  <2>2. \A limit \in Int : Neat(h.kind, r, TRUE, LiveKeys, limit)
    BY <1>2, <1>3, <2>1, LoopData, ClearedNeat
  <2> QED
    BY <1>1, <2>2
<1> QED
  BY <1>4, <1>5

(* The positions stitched to the block before are those that could not be  *)
(* hashed there.                                                           *)
LEMMA StitchedNeat ==
  ASSUME OrderInv, pc = "begin", NEW P, NEW fam, Profile(P, fam, h.kind), NEW r, NEW hh,
         Cleaned(fam, r), Stitched(P, fam, r, hh)
  PROVE  /\ Neat(h.kind, hh, TRUE, LiveKeys, l.position)
         /\ Neat(h.kind, hh, TRUE, LiveKeys, l.posEnd - 3)
<1>1. P.htl \in {4, 8}
  BY ProfileFits DEF Fits, Constants
<1>2. s.processed \in Nat /\ l.posEnd \in Nat /\ l.position \in Nat
  BY BlockSizesNat
<1>3. s.processed <= l.position /\ l.position <= l.posEnd /\ pc \in InBlock
  BY LoopCursor DEF InBlock, Cursor
<1>4. h.kind # "none"
  BY DEF OrderInv, Ready
<1>5. /\ DataOK
      /\ h.kind \in BucketKinds \cup ChainKinds => LiveKeys \in SUBSET KeysOf(h.kind)
  BY LoopData, LiveKeysIn
<1>6. /\ Neat(h.kind, r, TRUE, LiveKeys, s.processed - 3)
      /\ Neat(h.kind, r, TRUE, LiveKeys, l.posEnd - 3)
  BY CleanedNeat
<1>7. CASE l.posEnd - s.processed >= P.htl - 1 /\ s.processed >= 3
  <2> DEFINE low == s.processed - 3
             ps == From(low, s.processed, 1)
  <2>1. Stored(fam, r, ps, hh)
    BY <1>7 DEF Stitched
  <2>2. low \in Nat /\ s.processed \in Int /\ s.processed <= s.processed /\ low <= s.processed
        /\ low \in Int /\ 1 \in {1, 2, 4}
    BY <1>2, <1>7
  <2> HIDE DEF low
  <2>3. Rises(ps, low, s.processed)
    BY <2>2, FromRises
  <2> HIDE DEF ps
  <2>4. h.kind = "h5b6u16" => low >= 0 /\ s.processed <= U16Size
    <3>1. h.kind = "h5b6u16" => l.posEnd <= U16Size
      BY <1>3 DEF OrderInv, Ready, InBlock
    <3>2. U16Size \in Int
      BY ChainSizes
    <3> QED
      BY <1>2, <1>3, <2>2, <3>1, <3>2
  <2>5. h.kind \in ChainKinds =>
          \A k \in 1 .. Len(ps) : ps[k] >= 0 /\ ChainKey(Masked(ps[k])) \in LiveKeys
    <3> SUFFICES ASSUME h.kind \in ChainKinds, NEW k \in 1 .. Len(ps)
                 PROVE  ps[k] >= 0 /\ ChainKey(Masked(ps[k])) \in LiveKeys
      OBVIOUS
    <3>1. ps[k] \in Int /\ low <= ps[k] /\ ps[k] < s.processed
      BY <2>3 DEF Rises
    <3>2. ps[k] \in 0 .. l.posEnd - 1 /\ ps[k] >= 0
      BY <3>1, <2>2, <1>2, <1>3
    <3> QED
      BY <3>2, <1>3, BlockKeys
  <2>6. Neat(h.kind, r, TRUE, LiveKeys, low)
    BY <1>6 DEF low
  <2>7. Neat(h.kind, hh, TRUE, LiveKeys, s.processed)
    BY <1>5, <2>1, <2>2, <2>3, <2>4, <2>5, <2>6, StoredNeat, Zenon
  <2>8. s.processed \in Int /\ l.position \in Int /\ l.posEnd - 3 \in Int
        /\ s.processed <= l.posEnd - 3
    BY <1>1, <1>2, <1>7
  <2>9. Neat(h.kind, hh, TRUE, LiveKeys, l.position)
    BY <1>3, <1>5, <2>7, <2>8, NeatGrows, Zenon
  <2>10. Neat(h.kind, hh, TRUE, LiveKeys, l.posEnd - 3)
    BY <1>5, <2>7, <2>8, NeatGrows, Zenon
  <2> QED
    BY <2>9, <2>10
<1>8. CASE ~(l.posEnd - s.processed >= P.htl - 1 /\ s.processed >= 3)
  <2>1. hh = r
    BY <1>8 DEF Stitched
  <2>2. s.processed - 3 \in Int /\ l.position \in Int /\ s.processed - 3 <= l.position
    BY <1>2, <1>3
  <2>3. Neat(h.kind, r, TRUE, LiveKeys, l.position)
    BY <1>5, <1>6, <2>2, NeatGrows, Zenon
  <2> QED
    BY <1>6, <2>1, <2>3
<1> QED
  BY <1>7, <1>8

(* Entering the loop keeps the invariant. *)
LEMMA OrderEnter ==
  ASSUME OrderInv, NEW P, NEW fam, Profile(P, fam, h.kind), NEW r, NEW hh,
         NEW noWrap \in BOOLEAN, Cleaned(fam, r), Stitched(P, fam, r, hh),
         Enter(P, WithWrap(hh, noWrap), noWrap)
  PROVE  OrderInv'
<1>1. /\ pc = "begin" /\ pc' = "search" /\ h' = WithWrap(hh, noWrap)
      /\ l' = [l EXCEPT !.insertLength = s.lastInsertLen,
                        !.apply = l.position + P.window,
                        !.storeEnd = IF l.posEnd - l.position >= P.htl
                                     THEN l.posEnd - P.htl + 1 ELSE l.position,
                        !.noWrap = noWrap,
                        !.cache = Expand(s.distCache, P.cached)]
      /\ UNCHANGED <<input, s>>
  BY DEF Enter
<1>2. P.htl \in {4, 8} /\ P.window \in Nat
  BY ProfileFits DEF Fits, Constants
<1>3. l.position \in Nat /\ l.posEnd \in Nat /\ s.processed \in Nat
  BY BlockSizesNat
<1>4. pc \in InBlock /\ s.processed <= l.position /\ l.position <= l.posEnd
  BY <1>1, LoopCursor DEF InBlock, Cursor
<1>5. DOMAIN l = LocalFields /\ Locals /\ Streams /\ s.lastInsertLen \in Int
  BY LoopParts DEF Locals, Streams
<1>6. /\ l'.insertLength = s.lastInsertLen /\ l'.apply = l.position + P.window
      /\ l'.storeEnd = IF l.posEnd - l.position >= P.htl
                       THEN l.posEnd - P.htl + 1 ELSE l.position
      /\ l'.noWrap = noWrap /\ l'.position = l.position /\ l'.posEnd = l.posEnd
      /\ l'.last = l.last /\ l'.ahead = l.ahead /\ l'.words = l.words
      /\ l'.compound = l.compound /\ l'.delayed = l.delayed
      /\ DOMAIN l' = LocalFields
  BY <1>1, <1>5 DEF LocalFields
<1>7. SameBlock /\ pc' \in Inside \cup {"merge"}
  BY <1>1, <1>6 DEF SameBlock, Inside
<1>8. l'.storeEnd \in Int /\ l'.apply \in Int
  BY <1>2, <1>3, <1>6
<1>9. Locals' /\ Streams'
  BY <1>1, <1>5, <1>6, <1>8 DEF Locals, Streams
<1>10. Cursor'
  BY <1>1, <1>2, <1>3, <1>4, <1>6, <1>7 DEF Cursor, SameBlock, Inside
<1>11. Results' /\ Limit' = l.position
  BY <1>1, <1>6 DEF Results, Limit, Ahead, Before
<1>12. /\ Neat(h.kind, h', TRUE, LiveKeys, l.position)
       /\ Neat(h.kind, h', TRUE, LiveKeys, l.posEnd - 3)
  <2>1. /\ Neat(h.kind, hh, TRUE, LiveKeys, l.position)
        /\ Neat(h.kind, hh, TRUE, LiveKeys, l.posEnd - 3)
    BY <1>1, StitchedNeat
  <2>2. /\ Neat(h.kind, WithWrap(hh, noWrap), TRUE, LiveKeys, l.position)
        /\ Neat(h.kind, WithWrap(hh, noWrap), TRUE, LiveKeys, l.posEnd - 3)
    BY <2>1, WrapNeat, Zenon
  <2> QED
    BY <1>1, <2>2
<1> QED
  BY <1>4, <1>7, <1>9, <1>10, <1>11, <1>12, LoopKeeps

-----------------------------------------------------------------------------
(* Positions of the block stored in the loop. *)
LEMMA BlockStored ==
  ASSUME OrderInv, pc \in Inside, NEW P, NEW fam, Profile(P, fam, h.kind),
         NEW low \in Nat, NEW high \in Int, low <= high, high <= l.posEnd,
         Neat(h.kind, h, TRUE, LiveKeys, low), NEW ps, Rises(ps, low, high),
         NEW hh, Stored(fam, h, ps, hh)
  PROVE  Neat(h.kind, hh, TRUE, LiveKeys, high)
<1>1. /\ DataOK /\ l.posEnd \in Nat /\ pc \in InBlock
      /\ h.kind \in BucketKinds \cup ChainKinds => LiveKeys \in SUBSET KeysOf(h.kind)
  BY LoopData, LoopTable, BlockSizesNat DEF InBlock
<1>2. h.kind = "h5b6u16" => low >= 0 /\ high <= U16Size
  <2>1. h.kind = "h5b6u16" => l.posEnd <= U16Size
    BY <1>1 DEF OrderInv, Ready
  <2>2. U16Size \in Int
    BY ChainSizes
  <2> QED
    BY <1>1, <2>1, <2>2
<1>3. h.kind \in ChainKinds =>
        \A k \in 1 .. Len(ps) : ps[k] >= 0 /\ ChainKey(Masked(ps[k])) \in LiveKeys
  <2> SUFFICES ASSUME h.kind \in ChainKinds, NEW k \in 1 .. Len(ps)
               PROVE  ps[k] >= 0 /\ ChainKey(Masked(ps[k])) \in LiveKeys
    OBVIOUS
  <2>1. ps[k] \in Int /\ low <= ps[k] /\ ps[k] < high
    BY DEF Rises
  <2>2. ps[k] \in 0 .. l.posEnd - 1 /\ ps[k] >= 0
    BY <2>1, <1>1
  <2> QED
    BY <2>2, <1>1, BlockKeys
<1>4. low \in Int
  OBVIOUS
<1> QED
  BY <1>1, <1>2, <1>3, <1>4, StoredNeat, Zenon

(* The positions of a match. *)
LEMMA RangeBounds ==
  ASSUME l.position \in Int, l.storeEnd \in Int, l.sr.len \in Int, l.sr.distance \in Int
  PROVE  /\ RangeStart \in Int /\ RangeEnd \in Int
         /\ RangeEnd <= l.position + l.sr.len /\ RangeEnd <= l.storeEnd
         /\ RangeStart < RangeEnd => l.position + 2 <= RangeStart
<1>1. PICK e \in Int : /\ e = RangeEnd /\ e <= l.position + l.sr.len /\ e <= l.storeEnd
  <2>1. l.position + l.sr.len \in Int
    OBVIOUS
  <2> QED
    BY <2>1, MinTwo DEF RangeEnd
<1>2. PICK a \in Int : /\ a = Max({l.position + 2, l.position + l.sr.len - 4 * l.sr.distance})
                       /\ l.position + 2 <= a
  <2>1. l.position + 2 \in Int /\ l.position + l.sr.len - 4 * l.sr.distance \in Int
    OBVIOUS
  <2> QED
    BY <2>1, MaxTwo
<1>3. Min({e, a}) = IF e <= a THEN e ELSE a
  BY MinTwo
<1>4. RangeStart = IF l.sr.distance < l.sr.len \div 4 THEN Min({e, a}) ELSE l.position + 2
  BY <1>1, <1>2 DEF RangeStart
<1>5. PICK b \in Int : b = RangeStart /\ (b < e => l.position + 2 <= b)
  BY <1>2, <1>3, <1>4
<1> QED
  BY <1>1, <1>5

(* No position stored. *)
LEMMA RisesNone ==
  ASSUME NEW start \in Int, NEW end \in Int, end <= start, NEW low \in Int
  PROVE  Rises(From(start, end, 1), low, low)
<1>0. 1 \in {1, 2, 4}
  OBVIOUS
<1>1. PICK m \in Nat : /\ From(start, end, 1) = [k \in 1 .. m |-> start + (k - 1) * 1]
                       /\ end <= start => m = 0
  BY <1>0, FromIs
<1>2. From(start, end, 1) = <<>>
  BY <1>1
<1> DEFINE ps == From(start, end, 1)
<1>a. ps = <<>>
  BY <1>2 DEF ps
<1> HIDE DEF ps
<1>3. ps \in Seq(Int) /\ Len(ps) = 0
  BY <1>a
<1>4. Rises(ps, low, low)
  BY <1>3 DEF Rises
<1> QED
  BY <1>4 DEF ps

(* The positions of a match stored, however many of them the matcher       *)
(* takes.                                                                  *)
LEMMA RangeNeat ==
  ASSUME OrderInv, pc = "emit", NEW P, NEW fam, Profile(P, fam, h.kind),
         NEW st, Stored(fam, h, From(RangeStart, RangeEnd, 1), st)
  PROVE  /\ Neat(h.kind, st, TRUE, LiveKeys, l.position + l.sr.len)
         /\ Neat(h.kind, st, TRUE, LiveKeys, l.posEnd - 3)
<1>1. /\ l.position \in Nat /\ l.posEnd \in Nat /\ l.storeEnd \in Int
      /\ pc \in Inside /\ pc \in InBlock
  BY BlockSizesNat DEF Inside, InBlock
<1>2. l.sr \in Matches(l.posEnd - l.position)
  BY LoopParts DEF Results
<1>3. /\ l.sr.len \in Int /\ l.sr.distance \in Int
      /\ 2 <= l.sr.len /\ l.sr.len <= l.posEnd - l.position
  BY <1>1, <1>2 DEF Matches
<1>4. l.storeEnd <= l.posEnd - 3 /\ 4 < l.posEnd
  BY <1>1, LoopCursor DEF Cursor
<1>5. Limit = l.position + 2
  BY DEF Limit, Before, After, Inside
<1>6. /\ Neat(h.kind, h, TRUE, LiveKeys, l.position + 2)
      /\ Neat(h.kind, h, TRUE, LiveKeys, l.posEnd - 3)
      /\ h.kind \in BucketKinds \cup ChainKinds => LiveKeys \in SUBSET KeysOf(h.kind)
  BY <1>1, <1>5, LoopTable
<1>7. PICK a \in Int, e \in Int : /\ a = RangeStart /\ e = RangeEnd
                                  /\ e <= l.position + l.sr.len /\ e <= l.storeEnd
                                  /\ a < e => l.position + 2 <= a
  BY <1>1, <1>3, RangeBounds
<1> DEFINE ps == From(a, e, 1)
<1>8. Stored(fam, h, ps, st)
  BY <1>7
<1> HIDE DEF ps
<1>9. /\ l.position + 2 \in Nat /\ l.position + 2 \in Int /\ l.posEnd - 3 \in Nat
      /\ l.posEnd - 3 \in Int /\ l.position + 2 <= l.posEnd /\ l.posEnd - 3 <= l.posEnd
      /\ l.position + l.sr.len \in Int /\ l.position + 2 <= l.position + l.sr.len
  BY <1>1, <1>3, <1>4
<1>10. CASE a < e
  <2>1. l.position + 2 <= e /\ e <= l.posEnd /\ e <= l.posEnd - 3
    BY <1>1, <1>3, <1>4, <1>7, <1>10
  <2>2. Rises(ps, l.position + 2, e)
    <3>1. e <= e /\ 1 \in {1, 2, 4}
      OBVIOUS
    <3>2. Rises(ps, a, e)
      BY <3>1, FromRises DEF ps
    <3> QED
      BY <3>2, <1>1, <1>7, <1>10 DEF Rises
  <2>3. Neat(h.kind, st, TRUE, LiveKeys, e)
    BY <1>1, <1>6, <1>8, <1>9, <2>1, <2>2, BlockStored, Zenon
  <2>4. e \in Int /\ e <= l.position + l.sr.len
    BY <1>7
  <2>5. Neat(h.kind, st, TRUE, LiveKeys, l.position + l.sr.len)
    BY <1>6, <1>9, <2>3, <2>4, NeatGrows, Zenon
  <2>6. Neat(h.kind, st, TRUE, LiveKeys, l.posEnd - 3)
    BY <1>6, <1>9, <2>1, <2>3, <2>4, NeatGrows, Zenon
  <2> QED
    BY <2>5, <2>6
<1>11. CASE ~(a < e)
  <2>1. \A low \in Int : Rises(ps, low, low)
    BY <1>11, RisesNone DEF ps
  <2>2. Neat(h.kind, st, TRUE, LiveKeys, l.position + 2)
    <3>1. Rises(ps, l.position + 2, l.position + 2) /\ l.position + 2 <= l.position + 2
      BY <2>1, <1>9
    <3> QED
      BY <1>1, <1>6, <1>8, <1>9, <3>1, BlockStored, Zenon
  <2>3. Neat(h.kind, st, TRUE, LiveKeys, l.posEnd - 3)
    <3>1. Rises(ps, l.posEnd - 3, l.posEnd - 3) /\ l.posEnd - 3 <= l.posEnd - 3
      BY <2>1, <1>9
    <3> QED
      BY <1>1, <1>6, <1>8, <1>9, <3>1, BlockStored, Zenon
  <2>4. Neat(h.kind, st, TRUE, LiveKeys, l.position + l.sr.len)
    BY <1>6, <1>9, <2>2, NeatGrows, Zenon
  <2> QED
    BY <2>3, <2>4
<1> QED
  BY <1>10, <1>11

(* The cache stays one of four numbers. *)
LEMMA CacheFour ==
  ASSUME s.distCache \in Seq(Int), Len(s.distCache) = 4, l.sr.distance \in Int
  PROVE  CacheAfter \in Seq(Int) /\ Len(CacheAfter) = 4
<1> DEFINE c == s.distCache
<1>1. c[1] \in Int /\ c[2] \in Int /\ c[3] \in Int /\ c[4] \in Int
  <2>1. \A k \in 1 .. 4 : c[k] \in Int
    OBVIOUS
  <2> QED
    BY <2>1
<1>2. Quad(c)
  <2> DEFINE q == <<c[1], c[2], c[3], c[4]>>
  <2>1. q \in Seq(Int) /\ Len(q) = 4 /\ \A k \in 1 .. 4 : c[k] = q[k]
    BY <1>1
  <2>2. c = q
    <3> DEFINE x == s.distCache
    <3>1. x \in Seq(Int) /\ Len(x) = 4 /\ \A k \in 1 .. 4 : x[k] = q[k]
      BY <2>1
    <3> HIDE DEF x, q
    <3>2. x = q
      BY <2>1, <3>1, SeqEqual
    <3> QED
      BY <3>2 DEF x
  <2>3. Quad(q)
    BY DEF Quad
  <2> QED
    BY <2>2, <2>3, Zenon
<1>3. Push(c, l.sr.distance) = <<l.sr.distance, c[1], c[2], c[3]>>
  <2>1. 4 \in {4, 10, 16}
    OBVIOUS
  <2> QED
    BY <1>2, <2>1, PushInStep
<1>4. Push(c, l.sr.distance) \in Seq(Int) /\ Len(Push(c, l.sr.distance)) = 4
  BY <1>1, <1>3
<1> QED
  BY <1>4 DEF CacheAfter

(* The positions stored are counted. *)
Counts(P, st, n) == IF P.counting THEN [st EXCEPT !.stores = @ + n] ELSE st

(* Counting the stores changes nothing else. *)
LEMMA CountsNeat ==
  ASSUME NEW P, NEW fam, Profile(P, fam, h.kind), NEW st, NEW K, NEW limit, NEW n \in Int,
         Neat(h.kind, st, TRUE, K, limit)
  PROVE  Neat(h.kind, Counts(P, st, n), TRUE, K, limit)
<1> DEFINE y == Counts(P, st, n)
<1> SUFFICES Neat(h.kind, y, TRUE, K, limit)
  OBVIOUS
<1>1. CASE ~P.counting
  BY <1>1 DEF Counts
<1>2. CASE P.counting
  <2>1. h.kind \in CountedKinds
    BY <1>2, ProfileFits DEF Fits
  <2>2. h.kind \in BucketKinds /\ h.kind \notin ChainKinds /\ h.kind \notin QuickKinds
    BY <2>1, KindsApart
  <2>3. st \in BucketRec(h.kind)
    BY <2>2 DEF Neat, Table
  <2>4. st.stores + n \in Int
    BY <2>3 DEF BucketRec
  <2>5. y = [st EXCEPT !.stores = st.stores + n]
    BY <1>2 DEF Counts
  <2>6. \E k \in Int : y = [st EXCEPT !.stores = k]
    BY <2>4, <2>5
  <2> HIDE DEF y
  <2> QED
    BY <2>2, <2>6, CountedNeat
<1> QED
  BY <1>1, <1>2

(* A command emitted, with the positions of its match stored, keeps the    *)
(* invariant.                                                              *)
LEMMA OrderEmit ==
  ASSUME OrderInv, NEW P, NEW fam, Profile(P, fam, h.kind), NEW st, NEW masked,
         Stored(fam, h, From(RangeStart, RangeEnd, 1), st), Emitted(P, masked, st)
  PROVE  OrderInv'
<1> DEFINE hist == IF P.histo THEN CountLiterals(masked) ELSE s.histo
           y == IF P.counting THEN [st EXCEPT !.stores = @ + RangeEnd - RangeStart] ELSE st
           code == [ins |-> l.insertLength, copy |-> l.sr.len, delta |-> l.sr.delta,
                    code |-> Code]
           after == IF ~P.pushed THEN Expand(CacheAfter, P.cached)
                    ELSE IF Pushes THEN Push(l.cache, l.sr.distance) ELSE l.cache
<1>1. /\ pc = "emit" /\ pc' = "search" /\ h' = y /\ UNCHANGED input
      /\ s' = [s EXCEPT !.distCache = CacheAfter, !.commands = Append(@, code),
                        !.numLiterals = @ + l.insertLength, !.histo = hist]
      /\ l' = [l EXCEPT !.position = @ + l.sr.len, !.insertLength = 0,
                        !.apply = l.position + 2 * l.sr.len + P.window,
                        !.sr = NoMatch, !.found = NoMatch, !.cache = after]
  BY DEF Emitted, Emitting
<1>2. P.window \in Nat
  BY ProfileFits DEF Fits, Constants
<1>3. /\ l.position \in Nat /\ l.posEnd \in Nat /\ l.storeEnd \in Int /\ s.processed \in Nat
      /\ pc \in Inside /\ pc \in InBlock
  BY <1>1, BlockSizesNat DEF Inside, InBlock
<1>4. l.sr \in Matches(l.posEnd - l.position)
  BY <1>1, LoopParts DEF Results
<1>5. /\ l.sr.len \in Int /\ l.sr.distance \in Int
      /\ 2 <= l.sr.len /\ l.sr.len <= l.posEnd - l.position
  BY <1>3, <1>4 DEF Matches
<1>6. l.storeEnd <= l.posEnd - 3 /\ s.processed <= l.position
  BY <1>1, <1>3, LoopCursor DEF Cursor
<1>7. DOMAIN l = LocalFields /\ DOMAIN s = StreamFields /\ Locals /\ Streams
  BY LoopParts DEF Locals, Streams
<1>8. CacheAfter \in Seq(Int) /\ Len(CacheAfter) = 4
  BY <1>5, <1>7, CacheFour DEF Streams
<1> HIDE DEF hist, code, after
<1>9. /\ s'.distCache = CacheAfter /\ DOMAIN s' = StreamFields /\ s'.d = s.d
      /\ s'.lastInsertLen = s.lastInsertLen /\ s'.processed = s.processed
      /\ s'.flushed = s.flushed
  BY <1>1, <1>7 DEF StreamFields
<1>10. /\ l'.position = l.position + l.sr.len /\ l'.insertLength = 0
       /\ l'.apply = l.position + 2 * l.sr.len + P.window
       /\ l'.storeEnd = l.storeEnd /\ l'.noWrap = l.noWrap /\ l'.posEnd = l.posEnd
       /\ l'.last = l.last /\ l'.ahead = l.ahead /\ l'.words = l.words
       /\ l'.compound = l.compound /\ l'.delayed = l.delayed
       /\ DOMAIN l' = LocalFields
  BY <1>1, <1>7 DEF LocalFields
<1>11. SameBlock /\ pc' \in Inside \cup {"merge"}
  BY <1>1, <1>9, <1>10 DEF SameBlock, Inside
<1>12. Locals' /\ Streams'
  <2>1. l'.position \in Nat /\ l'.apply \in Int /\ l'.insertLength \in Int
    BY <1>2, <1>3, <1>5, <1>10
  <2>2. Locals'
    BY <1>7, <1>10, <2>1 DEF Locals
  <2> QED
    BY <1>7, <1>8, <1>9, <2>2 DEF Streams
<1>13. Cursor'
  BY <1>1, <1>3, <1>5, <1>6, <1>10, <1>11 DEF Cursor, SameBlock, Inside
<1>14. Results' /\ Limit' = l.position + l.sr.len
  BY <1>1, <1>10 DEF Results, Limit, Ahead, Before
<1>15. /\ Neat(h.kind, y, TRUE, LiveKeys, l.position + l.sr.len)
       /\ Neat(h.kind, y, TRUE, LiveKeys, l.posEnd - 3)
  <2>1. RangeStart \in Int /\ RangeEnd \in Int
    BY <1>3, <1>5, RangeBounds
  <2>2. y = IF P.counting THEN [st EXCEPT !.stores = @ + (RangeEnd - RangeStart)] ELSE st
    <3>1. CASE P.counting
      <4>1. h.kind \in CountedKinds
        BY <3>1, ProfileFits DEF Fits
      <4>2. h.kind \notin ChainKinds /\ h.kind \notin QuickKinds
        BY <4>1, KindsApart
      <4>3. st \in BucketRec(h.kind)
        BY <1>1, <4>2, RangeNeat DEF Neat, Table
      <4>4. st.stores \in Int
        BY <4>3 DEF BucketRec
      <4>5. st.stores + RangeEnd - RangeStart = st.stores + (RangeEnd - RangeStart)
        BY <2>1, <4>4
      <4> QED
        BY <3>1, <4>5
    <3> QED
      BY <3>1
  <2>3. /\ Neat(h.kind, st, TRUE, LiveKeys, l.position + l.sr.len)
        /\ Neat(h.kind, st, TRUE, LiveKeys, l.posEnd - 3)
    BY <1>1, RangeNeat
  <2> DEFINE n == RangeEnd - RangeStart
  <2>4. n \in Int /\ y = Counts(P, st, n)
    BY <2>1, <2>2 DEF Counts
  <2> HIDE DEF y, n
  <2>5. \A limit : Neat(h.kind, st, TRUE, LiveKeys, limit)
                     => Neat(h.kind, y, TRUE, LiveKeys, limit)
    BY <2>4, CountsNeat, Zenon
  <2> QED
    BY <2>3, <2>5
<1> QED
  BY <1>1, <1>3, <1>11, <1>12, <1>13, <1>14, <1>15, LoopKeeps

-----------------------------------------------------------------------------
(* The strides over literals. *)
StrideStep(P) == IF l.position + 1 > l.apply + 4 * P.window THEN 4 ELSE 2

Strides(ps, step, from, limit, end) ==
    /\ Len(ps) \in Nat /\ from + step * Len(ps) <= end
    /\ Rises(ps, from, from + step * Len(ps)) /\ Rises(ps, from, limit)

(* The positions of a stride. *)
LEMMA FromStrides ==
  ASSUME NEW from \in Int, NEW to \in Int, NEW step \in {2, 4}, NEW limit \in Int,
         NEW end \in Int, to <= limit, to + step - 1 <= end, from <= end
  PROVE  Strides(From(from, to, step), step, from, limit, end)
<1>1. step \in {1, 2, 4} /\ step \in Int
  OBVIOUS
<1>2. /\ Len(From(from, to, step)) \in Nat
      /\ from + step * Len(From(from, to, step)) <= (IF to > from THEN to + step - 1 ELSE from)
      /\ Rises(From(from, to, step), from, from + step * Len(From(from, to, step)))
  BY <1>1, FromEnds, Zenon
<1>3. Rises(From(from, to, step), from, limit)
  BY <1>1, FromRises, Zenon
<1> DEFINE ps == From(from, to, step)
<1> HIDE DEF ps
<1>4. PICK n \in Nat : n = Len(ps)
  BY <1>2 DEF ps
<1>5. from + step * n <= end
  <2>1. from + step * n <= (IF to > from THEN to + step - 1 ELSE from)
    BY <1>2, <1>4 DEF ps
  <2>2. step * n \in Int
    BY <1>1
  <2> QED
    BY <1>1, <2>1, <2>2
<1> QED
  BY <1>2, <1>3, <1>4, <1>5 DEF ps, Strides

(* The strides end where a position can still be hashed. *)
LEMMA StrideBounds ==
  ASSUME NEW P, P.jump4 \in {4, 7}, P.jump2 \in {3, 7}, P.window \in Nat,
         l.position \in Nat, l.posEnd \in Nat, l.apply \in Int, l.position + 4 < l.posEnd
  PROVE  Strides(Stride(P), StrideStep(P), l.position + 1, l.posEnd - 3, l.posEnd)
<1> DEFINE pos == l.position + 1
<1>1. pos \in Int /\ l.posEnd - 3 \in Int /\ l.posEnd \in Int /\ pos <= l.posEnd
  OBVIOUS
<1>2. CASE pos > l.apply + 4 * P.window
  <2> DEFINE to == Min({pos + 16, l.posEnd - P.jump4})
  <2>1. pos + 16 \in Int /\ l.posEnd - P.jump4 \in Int
    OBVIOUS
  <2>2. to \in Int /\ to <= l.posEnd - P.jump4
    BY <2>1, MinTwo
  <2>3. Stride(P) = From(pos, to, 4) /\ StrideStep(P) = 4
    BY <1>2 DEF Stride, StrideStep
  <2> HIDE DEF to, pos
  <2>4. to <= l.posEnd - 3 /\ to + 4 - 1 <= l.posEnd /\ 4 \in {2, 4}
    BY <2>2
  <2>5. Strides(From(pos, to, 4), 4, pos, l.posEnd - 3, l.posEnd)
    BY <1>1, <2>2, <2>4, FromStrides, Zenon
  <2> QED
    BY <2>3, <2>5 DEF pos
<1>3. CASE ~(pos > l.apply + 4 * P.window) /\ pos > l.apply
  <2> DEFINE to == Min({pos + 8, l.posEnd - P.jump2})
  <2>1. pos + 8 \in Int /\ l.posEnd - P.jump2 \in Int
    OBVIOUS
  <2>2. to \in Int /\ to <= l.posEnd - P.jump2
    BY <2>1, MinTwo
  <2>3. Stride(P) = From(pos, to, 2) /\ StrideStep(P) = 2
    BY <1>3 DEF Stride, StrideStep
  <2> HIDE DEF to, pos
  <2>4. to <= l.posEnd - 3 /\ to + 2 - 1 <= l.posEnd /\ 2 \in {2, 4}
    BY <2>2
  <2>5. Strides(From(pos, to, 2), 2, pos, l.posEnd - 3, l.posEnd)
    BY <1>1, <2>2, <2>4, FromStrides, Zenon
  <2> QED
    BY <2>3, <2>5 DEF pos
<1>4. CASE ~(pos > l.apply + 4 * P.window) /\ ~(pos > l.apply)
  <2>1. Stride(P) = <<>> /\ StrideStep(P) = 2
    BY <1>4 DEF Stride, StrideStep
  <2> DEFINE ps == Stride(P)
  <2>2. ps \in Seq(Int) /\ Len(ps) = 0
    BY <2>1
  <2> HIDE DEF ps
  <2>3. Strides(ps, 2, pos, l.posEnd - 3, l.posEnd)
    BY <1>1, <2>2 DEF Strides, Rises
  <2> QED
    BY <2>1, <2>3 DEF ps
<1> QED
  BY <1>2, <1>3, <1>4

(* A literal, or a stride over literals that do not seem to repeat, keeps  *)
(* the invariant.                                                          *)
LEMMA OrderLiteral ==
  ASSUME OrderInv, NEW P, NEW fam, Profile(P, fam, h.kind), NEW hh,
         Stored(fam, h, Stride(P), hh), Striding(P, hh)
  PROVE  OrderInv'
<1> DEFINE n == StrideStep(P) * Len(Stride(P))
           next == l.position + 1 + n
<1>1. /\ pc = "literal" /\ pc' = "search" /\ h' = hh
      /\ l' = [l EXCEPT !.position = next,
                        !.insertLength = @ + 1 + n]
      /\ UNCHANGED <<input, s>>
  BY DEF Striding, StrideStep
<1>2. P.window \in Nat /\ P.jump4 \in {4, 7} /\ P.jump2 \in {3, 7}
  BY ProfileFits DEF Fits, Constants
<1>3. /\ l.position \in Nat /\ l.posEnd \in Nat /\ l.storeEnd \in Int /\ s.processed \in Nat
      /\ l.apply \in Int /\ l.insertLength \in Int /\ pc \in Inside /\ pc \in InBlock
  BY <1>1, BlockSizesNat DEF Inside, InBlock
<1>4. l.position + 4 < l.posEnd /\ l.storeEnd <= l.posEnd - 3 /\ s.processed <= l.position
  BY <1>1, <1>3, LoopCursor DEF Cursor
<1>5. DOMAIN l = LocalFields /\ Locals /\ Streams
  BY LoopParts DEF Locals
<1>6. Strides(Stride(P), StrideStep(P), l.position + 1, l.posEnd - 3, l.posEnd)
  BY <1>2, <1>3, <1>4, StrideBounds
<1>7. n \in Nat /\ next <= l.posEnd /\ next \in Int
      /\ Rises(Stride(P), l.position + 1, next) /\ Rises(Stride(P), l.position + 1, l.posEnd - 3)
  <2>1. PICK k \in Nat : k = Len(Stride(P))
    BY <1>6 DEF Strides
  <2>2. StrideStep(P) * k \in Nat
    BY DEF StrideStep
  <2> QED
    BY <1>3, <1>6, <2>1, <2>2 DEF Strides
<1> HIDE DEF n
<1>8. /\ l'.position = next /\ l'.insertLength = l.insertLength + 1 + n
      /\ l'.apply = l.apply /\ l'.storeEnd = l.storeEnd /\ l'.noWrap = l.noWrap
      /\ l'.posEnd = l.posEnd /\ l'.last = l.last /\ l'.ahead = l.ahead
      /\ l'.words = l.words /\ l'.compound = l.compound /\ l'.delayed = l.delayed
      /\ DOMAIN l' = LocalFields
  BY <1>1, <1>5 DEF LocalFields
<1>9. SameBlock /\ pc' \in Inside \cup {"merge"}
  BY <1>1, <1>8 DEF SameBlock, Inside
<1>10. Locals' /\ Streams'
  <2>1. next \in Nat /\ l.insertLength + 1 + n \in Int
    BY <1>3, <1>7
  <2>2. Locals'
    BY <1>5, <1>8, <2>1 DEF Locals
  <2>3. s' = s
    BY <1>1
  <2> QED
    BY <1>5, <2>2, <2>3 DEF Streams
<1>11. Cursor'
  <2>1. l.position <= next
    BY <1>3, <1>7
  <2> QED
    BY <2>1, <1>1, <1>3, <1>4, <1>7, <1>8, <1>9 DEF Cursor, SameBlock, Inside
<1>12. Results' /\ Limit' = next
  BY <1>1, <1>8 DEF Results, Limit, Ahead, Before
<1>13. /\ Neat(h.kind, hh, TRUE, LiveKeys, next)
       /\ Neat(h.kind, hh, TRUE, LiveKeys, l.posEnd - 3)
  <2>1. Limit = l.position + 1
    BY <1>1 DEF Limit, Ahead, Before, Inside, After
  <2>2. Neat(h.kind, h, TRUE, LiveKeys, l.position + 1)
    BY <2>1, <1>3, LoopTable
  <2>3. /\ l.position + 1 \in Nat /\ l.position + 1 <= next /\ l.posEnd - 3 \in Int
        /\ l.position + 1 <= l.posEnd - 3 /\ l.posEnd - 3 <= l.posEnd
    BY <1>3, <1>4, <1>7
  <2> HIDE DEF next
  <2>4. Neat(h.kind, hh, TRUE, LiveKeys, next)
    BY <1>3, <1>7, <2>2, <2>3, BlockStored, Zenon
  <2>5. Neat(h.kind, hh, TRUE, LiveKeys, l.posEnd - 3)
    BY <1>3, <1>7, <2>2, <2>3, BlockStored, Zenon
  <2> QED
    BY <2>4, <2>5
<1> QED
  BY <1>1, <1>3, <1>9, <1>10, <1>11, <1>12, <1>13, LoopKeeps

-----------------------------------------------------------------------------
(* The end of a block. *)
Finished(hh) == hh = h \/ (h.kind \in CountedKinds /\ hh = CountBusyCall(h))

FinishStep == \E P, hh : Finished(hh) /\ Finishing(P, hh)

(* The last step of the loop. *)
LEMMA FinishShape ==
  ASSUME QuickFinish \/ Bucket4Finish \/ Bucket6Finish \/ CountedFinish \/ ChainFinish
  PROVE  FinishStep
<1>0. Finished(h) /\ (h.kind \in CountedKinds => Finished(CountBusyCall(h)))
  BY DEF Finished
<1>1. ASSUME QuickFinish PROVE Finishing(QuickParams, h)
  BY <1>1 DEF QuickFinish, Finish, Finishing, Same
<1>2. ASSUME Bucket4Finish PROVE Finishing(Params5, h)
  BY <1>2 DEF Bucket4Finish, Finish, Finishing, Same
<1>3. ASSUME Bucket6Finish PROVE Finishing(Params6, h)
  BY <1>3 DEF Bucket6Finish, Finish, Finishing, Same
<1>4. ASSUME CountedFinish
      PROVE  h.kind \in CountedKinds /\ Finishing(Params6u, CountBusyCall(h))
  BY <1>4 DEF CountedFinish, Finish, Finishing
<1>5. ASSUME ChainFinish PROVE Finishing(Params40, h)
  BY <1>5 DEF ChainFinish, Finish, Finishing, Same
<1> QED
  BY <1>0, <1>1, <1>2, <1>3, <1>4, <1>5 DEF FinishStep

(* The table at the end of the loop. *)
LEMMA FinishedNeat ==
  ASSUME NEW hh, Finished(hh), NEW K, NEW limit, Neat(h.kind, h, TRUE, K, limit)
  PROVE  Neat(h.kind, hh, TRUE, K, limit)
<1>1. CASE hh = h
  BY <1>1
<1>2. CASE h.kind \in CountedKinds /\ hh = CountBusyCall(h)
  <2>1. h.kind \in BucketKinds /\ h.kind \notin ChainKinds /\ h.kind \notin QuickKinds
    BY <1>2, KindsApart
  <2>2. h \in BucketRec(h.kind)
    BY <2>1 DEF Neat, Table
  <2> DEFINE n == IF h.stores >= 0 /\ h.rejects > BusyRatio * h.stores
                  THEN h.busyCalls + 1 ELSE 0
  <2>3. n \in Int
    BY <2>2 DEF BucketRec
  <2>4. hh = [h EXCEPT !.busyCalls = n, !.rejects = 0, !.stores = 0]
    BY <1>2 DEF CountBusyCall
  <2> HIDE DEF n
  <2>5. \E k \in Int : hh = [h EXCEPT !.busyCalls = k, !.rejects = 0, !.stores = 0]
    BY <2>3, <2>4
  <2> QED
    BY <2>1, <2>5, CountedNeat
<1> QED
  BY <1>1, <1>2 DEF Finished

(* Leaving the loop keeps the invariant. *)
LEMMA OrderFinish == ASSUME OrderInv, NEW P, NEW hh, Finished(hh), Finishing(P, hh) PROVE OrderInv'
<1>1. /\ pc = "search" /\ pc' = "merge" /\ h' = hh /\ UNCHANGED input
      /\ s' = [s EXCEPT !.lastInsertLen = l.insertLength + l.posEnd - l.position]
      /\ l' = [l EXCEPT !.position = l.posEnd, !.insertLength = 0, !.apply = 0,
                        !.storeEnd = 0, !.noWrap = FALSE,
                        !.found = NoMatch, !.ahead = 0, !.words = 0, !.compound = FALSE]
  BY DEF Finishing
<1>2. /\ l.position \in Nat /\ l.posEnd \in Nat /\ s.processed \in Nat
      /\ l.insertLength \in Int /\ pc \in Inside /\ pc \in InBlock
  BY <1>1, BlockSizesNat DEF Inside, InBlock
<1>3. s.processed <= l.position /\ l.position <= l.posEnd
  BY <1>2, LoopCursor DEF Cursor
<1>4. DOMAIN l = LocalFields /\ DOMAIN s = StreamFields /\ Locals /\ Streams
  BY LoopParts DEF Locals, Streams
<1>5. /\ l'.position = l.posEnd /\ l'.insertLength = 0 /\ l'.apply = 0 /\ l'.storeEnd = 0
      /\ l'.noWrap = FALSE /\ l'.posEnd = l.posEnd /\ l'.last = l.last /\ l'.ahead = 0
      /\ l'.words = 0 /\ l'.compound = FALSE /\ l'.delayed = l.delayed
      /\ DOMAIN l' = LocalFields
  BY <1>1, <1>4 DEF LocalFields
<1>6. /\ s'.lastInsertLen = l.insertLength + l.posEnd - l.position
      /\ s'.distCache = s.distCache /\ DOMAIN s' = StreamFields /\ s'.d = s.d
      /\ s'.processed = s.processed /\ s'.flushed = s.flushed
  BY <1>1, <1>4 DEF StreamFields
<1>7. SameBlock /\ pc' \in Inside \cup {"merge"}
  BY <1>1, <1>5, <1>6 DEF SameBlock
<1>8. Locals'
  <2>1. /\ l'.position \in Nat /\ l'.insertLength \in Int /\ l'.apply \in Int
        /\ l'.storeEnd \in Int /\ l'.ahead \in {0, 1} /\ l'.words \in {0, 1, 2}
    BY <1>2, <1>5
  <2>2. l'.noWrap \in BOOLEAN /\ l'.compound \in BOOLEAN
    BY <1>5
  <2>3. l'.delayed \in Int
    BY <1>4, <1>5 DEF Locals
  <2> QED
    BY <1>5, <2>1, <2>2, <2>3 DEF Locals
<1>9. Streams'
  <2>1. s'.lastInsertLen \in Int
    BY <1>2, <1>6
  <2> QED
    BY <2>1, <1>4, <1>6 DEF Streams
<1>10. Cursor'
  <2>1. pc' \notin Inside
    BY <1>1 DEF Inside
  <2>2. s'.processed <= l'.position /\ l'.position <= l'.posEnd
    BY <1>2, <1>3, <1>5, <1>6
  <2> QED
    BY <2>1, <2>2 DEF Cursor
<1>11. Results' /\ Limit' = l.posEnd - 3
  BY <1>1, <1>5 DEF Results, Limit, Ahead, Before, After
<1>12. Neat(h.kind, hh, TRUE, LiveKeys, l.posEnd - 3)
  BY <1>2, LoopTable, FinishedNeat
<1> QED
  BY <1>1, <1>2, <1>7, <1>8, <1>9, <1>10, <1>11, <1>12, LoopKeeps

-----------------------------------------------------------------------------
(* The loop. *)
LEMMA OrderLoop ==
  ASSUME OrderInv, NEW P, NEW fam, Profile(P, fam, h.kind), LoopStep(P, fam) PROVE OrderInv'
<1>1. ASSUME NEW r, NEW hh, NEW noWrap \in BOOLEAN, Cleaned(fam, r), Stitched(P, fam, r, hh),
             Enter(P, WithWrap(hh, noWrap), noWrap)
      PROVE  OrderInv'
  BY <1>1, OrderEnter
<1>2. ASSUME NEW m, Searched(fam, l.position, l.posEnd - l.position, NoMatch, m),
             Looking(P, 0, m)
      PROVE  OrderInv'
  BY <1>2, OrderLook
<1>3. ASSUME NEW m,
             Searched(fam, l.position + 1, l.posEnd - l.position - 1, LazyBest(P), m),
             Looking(P, 1, m)
      PROVE  OrderInv'
  BY <1>3, OrderLookAhead
<1>4. ASSUME FoundNext(P) PROVE OrderInv'
  <2>1. P.htl \in {4, 8}
    BY ProfileFits DEF Fits, Constants
  <2> QED
    BY <1>4, <2>1, OrderNext
<1>5. ASSUME NEW st, NEW masked, Stored(fam, h, From(RangeStart, RangeEnd, 1), st),
             Emitted(P, masked, st)
      PROVE  OrderInv'
  BY <1>5, OrderEmit
<1>6. ASSUME NEW hh, Stored(fam, h, Stride(P), hh), Striding(P, hh) PROVE OrderInv'
  BY <1>6, OrderLiteral
<1> QED
  BY <1>1, <1>2, <1>3, <1>4, <1>5, <1>6, OrderFirst DEF LoopStep

-----------------------------------------------------------------------------
(* The steps of the stream. *)
LEMMA OrderInit == ASSUME Init PROVE OrderInv
<1>1. Data \in Seq(Int) /\ Chunks \in Seq(Seq(Int))
  BY CasesAssumption DEF Init, Data, Chunks
<1>2. Len(Data) \in Nat
  BY <1>1, LenProperties
<1>3. /\ pc = "idle" /\ h.kind = "none" /\ s.processed = 0 /\ s.flushed = 0
      /\ l.position = 0 /\ l.posEnd = 0 /\ l.last = FALSE /\ l.insertLength = 0
      /\ l.apply = 0 /\ l.storeEnd = 0 /\ l.noWrap = FALSE /\ l.ahead = 0 /\ l.words = 0
      /\ l.delayed = 0 /\ l.compound = FALSE /\ s.d = [lookups |-> 0, matches |-> 0]
      /\ s.lastInsertLen = 0 /\ s.distCache = <<4, 11, 15, 16>>
      /\ DOMAIN s = StreamFields /\ DOMAIN l = LocalFields
  BY DEF Init, StreamFields, LocalFields
<1>4. pc \notin Inside /\ ~Ahead /\ pc \notin {"lazy", "emit", "dict", "found"}
      /\ pc # "choose" /\ pc \notin Before
  BY <1>3 DEF Inside, Ahead, Before
<1>5. Typed
  <2>1. s.distCache \in Seq(Int) /\ Len(s.distCache) = 4
    BY <1>3
  <2>2. s.d \in [lookups : Int, matches : Int]
    BY <1>3
  <2>3. l.noWrap \in BOOLEAN /\ l.compound \in BOOLEAN /\ l.last \in BOOLEAN
    BY <1>3
  <2> QED
    BY <1>1, <1>3, <2>1, <2>2, <2>3 DEF Typed
<1>6. Placed
  BY <1>2, <1>3, <1>4, RingSizes DEF Placed
<1>7. Ready
  <2>1. "none" \notin ChainKinds
    BY DEF ChainKinds
  <2> QED
    BY <1>3, <2>1 DEF Ready
<1> QED
  BY <1>5, <1>6, <1>7 DEF OrderInv

(* A step between two blocks or at the beginning of one. *)
Outside == {"idle"} \cup Before \cup After

Bounds ==
    /\ s.flushed <= s.processed /\ s.processed <= l.posEnd /\ l.posEnd <= Len(Data)
    /\ pc = "idle" => s.processed - s.flushed + RingTail <= RingSize
    /\ pc # "idle" => /\ l.posEnd > 0 /\ l.posEnd <= s.processed + RingTail
                      /\ l.posEnd - s.flushed <= RingSize
                      /\ s.processed <= l.position /\ l.position <= l.posEnd
    /\ pc = "choose" => l.position = s.processed
    /\ l.last => l.posEnd = Len(Data)

(* What is known outside the loop. *)
LEMMA BoundsHold == ASSUME OrderInv PROVE Bounds
BY DEF OrderInv, Placed, Bounds

LEMMA OutsideKeeps ==
  ASSUME pc' \in Outside, Typed', Ready', Bounds'
  PROVE  OrderInv'
<1>1. pc' \notin Inside /\ ~Ahead' /\ pc' \notin {"lazy", "emit", "dict", "found"}
  BY DEF Outside, Inside, Ahead, Before, After
<1>2. Placed'
  BY <1>1 DEF Placed, Bounds
<1> QED
  BY <1>2 DEF OrderInv

LEMMA DataSame == ASSUME input' = input PROVE Data' = Data /\ Chunks' = Chunks
BY DEF Data, Chunks

(* A block taken keeps the invariant: what was stored below the end of the *)
(* last block is below the beginning of this one.                          *)
LEMMA OrderBlock ==
  ASSUME OrderInv, NEW n \in BlockSizes, NextBlock(n) PROVE OrderInv'
<1> DEFINE end == Min({s.processed + n, Len(Data)})
<1>1. /\ pc = "idle" /\ pc' = "choose" /\ UNCHANGED <<input, s, h>>
      /\ s.processed < end \/ s.flushed < s.processed
  BY DEF NextBlock
<1>2. PICK last \in {FALSE, end = Len(Data)} :
        l' = [l EXCEPT !.position = s.processed, !.posEnd = end, !.last = last]
  BY DEF NextBlock
<1>3. /\ Data \in Seq(Int) /\ Len(Data) \in Nat
      /\ s.processed \in Nat /\ s.flushed \in Nat /\ l.posEnd \in Nat
      /\ s.flushed <= s.processed /\ s.processed <= l.posEnd /\ l.posEnd <= Len(Data)
      /\ s.processed - s.flushed + RingTail <= RingSize
  <2>1. Data \in Seq(Int)
    BY DEF OrderInv, Typed
  <2>2. Len(Data) \in Nat
    BY <2>1, LenProperties
  <2> QED
    BY <1>1, <2>1, <2>2 DEF OrderInv, Typed, Placed
<1>4. n \in Nat /\ n <= RingTail /\ RingTail \in Nat /\ RingSize \in Nat
  BY BlockAssumption, RingSizes
<1>5. /\ end \in Nat /\ s.processed <= end /\ end <= Len(Data) /\ end > 0
      /\ end <= s.processed + RingTail /\ end - s.flushed <= RingSize
  <2>1. s.processed + n \in Int /\ Len(Data) \in Int
    BY <1>3, <1>4
  <2>2. end = IF s.processed + n <= Len(Data) THEN s.processed + n ELSE Len(Data)
    BY <2>1, MinTwo
  <2> HIDE DEF end
  <2>3. s.processed < end \/ s.flushed < s.processed
    BY <1>1
  <2>4. end \in Nat /\ s.processed <= end /\ end <= Len(Data)
        /\ end <= s.processed + RingTail
    BY ONLY <1>3, <1>4, <2>2
  <2>5. end > 0
    BY <1>3, <2>3, <2>4
  <2>6. end - s.flushed <= RingSize
    BY <1>3, <1>4, <2>4
  <2> QED
    BY <2>4, <2>5, <2>6
<1> HIDE DEF end
<1>6. DOMAIN l = LocalFields /\ Locals /\ Streams /\ last \in BOOLEAN
  BY LoopParts DEF Locals
<1>7. /\ l'.position = s.processed /\ l'.posEnd = end /\ l'.last = last
      /\ l'.insertLength = l.insertLength /\ l'.apply = l.apply /\ l'.storeEnd = l.storeEnd
      /\ l'.noWrap = l.noWrap /\ l'.ahead = l.ahead /\ l'.words = l.words
      /\ l'.delayed = l.delayed /\ l'.compound = l.compound /\ DOMAIN l' = LocalFields
  BY <1>2, <1>6 DEF LocalFields
<1>8. Data' = Data /\ Chunks' = Chunks
  BY <1>1, DataSame
<1>9. Typed'
  <2>1. pc' \in {"idle"} \cup Before \cup Inside \cup After
    BY <1>1 DEF Before
  <2> QED
    BY <1>1, <1>3, <1>5, <1>6, <1>7, <1>8, <2>1 DEF OrderInv, Typed, Locals
<1>10. Ready'
  <2>1. /\ h.kind = "h5b6u16" => "h5b6u16" \in Kinds
        /\ h.kind \in ChainKinds => Linked(h)
    BY DEF OrderInv, Ready
  <2>2. ASSUME h.kind # "none", h.ready
        PROVE  /\ s.processed > 0
               /\ Tidy(h, LiveKeys', s.processed - 3) /\ Tidy(h, LiveKeys', end - 3)
    <3>1. s.processed > 0
      BY <1>1, <2>2 DEF OrderInv, Ready
    <3>2. LiveKeys = KeysOf(h.kind) /\ LiveKeys' = KeysOf(h.kind)
      BY <1>1, <1>3, <3>1 DEF LiveKeys
    <3>3. s.flushed # Len(Data)
      BY <1>1, <1>3, <1>5
    <3>4. Limit = s.processed - 3
      BY <1>1 DEF Limit
    <3>5. Tidy(h, LiveKeys, s.processed - 3)
      BY <1>1, <2>2, <3>3, <3>4 DEF OrderInv, Ready
    <3>6. Table(h.kind, h)
      BY <2>2 DEF OrderInv, Typed
    <3>7. Neat(h.kind, h, h.ready, LiveKeys, s.processed - 3)
      BY <3>5, <3>6 DEF Neat
    <3>8. s.processed - 3 \in Int /\ end - 3 \in Int /\ s.processed - 3 <= end - 3
      BY <1>3, <1>5
    <3>9. h.kind \in BucketKinds \cup ChainKinds => LiveKeys \in SUBSET KeysOf(h.kind)
      BY <3>2
    <3>10. Neat(h.kind, h, h.ready, LiveKeys, end - 3)
      BY <3>7, <3>8, <3>9, NeatGrows, Zenon
    <3> QED
      BY <3>1, <3>2, <3>5, <3>10 DEF Neat
  <2>3. Limit' = s.processed - 3
    BY <1>1 DEF Limit, Before
  <2>4. pc' \in Before /\ pc' \notin Inside /\ pc' # "begin" /\ pc' # "idle"
    BY <1>1 DEF Before, Inside
  <2> QED
    BY <1>1, <1>7, <2>1, <2>2, <2>3, <2>4 DEF Ready
<1>11. pc' \in Outside
  BY <1>1 DEF Outside, Before
<1>12. /\ s'.flushed <= s'.processed /\ s'.processed <= l'.posEnd /\ l'.posEnd <= Len(Data')
       /\ pc' # "idle"
       /\ l'.posEnd > 0 /\ l'.posEnd <= s'.processed + RingTail
       /\ l'.posEnd - s'.flushed <= RingSize
       /\ s'.processed <= l'.position /\ l'.position <= l'.posEnd
       /\ l'.position = s'.processed
  BY <1>1, <1>3, <1>5, <1>7, <1>8
<1>13. l'.last => l'.posEnd = Len(Data')
  BY <1>2, <1>7, <1>8
<1>14. Bounds'
  BY <1>12, <1>13 DEF Bounds
<1> QED
  BY <1>9, <1>10, <1>11, <1>14, OutsideKeeps

(* What is known when a block has been taken. *)
LEMMA BlockFacts ==
  ASSUME OrderInv
  PROVE  /\ Data \in Seq(Int) /\ Chunks \in Seq(Seq(Int)) /\ Locals /\ Streams /\ Bounds
         /\ DOMAIN s = StreamFields /\ DOMAIN l = LocalFields
         /\ s.processed \in Nat /\ s.flushed \in Nat /\ l.posEnd \in Nat /\ l.position \in Nat
         /\ l.last \in BOOLEAN /\ (h.kind = "none" \/ Table(h.kind, h))
BY LoopParts, BoundsHold DEF OrderInv, Typed

(* What the steps outside the loop leave of the types. *)
LEMMA OutsideTyped ==
  ASSUME OrderInv, input' = input, Locals', Streams',
         pc' \in Outside, s'.processed \in Nat, s'.flushed \in Nat,
         l'.posEnd \in Nat, l'.last \in BOOLEAN, h'.kind = "none" \/ Table(h'.kind, h')
  PROVE  Typed'
<1>1. Data' = Data /\ Chunks' = Chunks
  BY DataSame
<1>2. pc' \in {"idle"} \cup Before \cup Inside \cup After
  BY DEF Outside
<1>3. Data \in Seq(Int) /\ Chunks \in Seq(Seq(Int))
  BY BlockFacts
<1> QED
  BY <1>1, <1>2, <1>3 DEF Typed, Locals, Streams

(* Choosing a matcher keeps the invariant. *)
LEMMA OrderChoose == ASSUME OrderInv, ChooseHasher PROVE OrderInv'
<1>1. pc = "choose" /\ pc' = "choose" /\ UNCHANGED <<input, s, l>>
  BY DEF ChooseHasher
<1>2. PICK quality \in 2 .. 9, hint \in {"none", "small", "large"},
           lgwin \in {16, 18, 22}, init \in {0, StalePos} :
        LET kind == Choice(quality, hint, lgwin, l.last)
        IN kind \in Kinds /\ h' = NewMatcher(kind, quality, init)
  BY DEF ChooseHasher
<1> DEFINE kind == Choice(quality, hint, lgwin, l.last)
<1>3. init \in Nat
  BY CasesAssumption
<1>4. kind \in Kinds /\ h' = NewMatcher(kind, quality, init)
  BY <1>2
<1> HIDE DEF kind
<1>5. /\ Table(kind, h') /\ h'.kind = kind /\ h'.ready = FALSE
      /\ kind \in ChainKinds => Linked(h')
  <2>1. kind = Choice(quality, hint, lgwin, l.last)
    BY DEF kind
  <2>2. New(kind, h')
    BY <1>3, <1>4, <2>1, NewNeat
  <2> QED
    BY <2>2 DEF New
<1>6. pc' \in Outside /\ pc' \in Before /\ pc' \notin Inside /\ pc' # "begin" /\ pc' # "idle"
  BY <1>1 DEF Outside, Before, Inside
<1>7. Locals' /\ Streams' /\ Bounds'
  <2>1. Data' = Data
    BY <1>1, DataSame
  <2>2. Bounds'
    BY <1>1, <2>1, BlockFacts DEF Bounds
  <2> QED
    BY <1>1, <2>2, BlockFacts DEF Locals, Streams
<1>8. Typed'
  <2>1. /\ s'.processed \in Nat /\ s'.flushed \in Nat /\ l'.posEnd \in Nat
        /\ l'.last \in BOOLEAN /\ input' = input
    BY <1>1, BlockFacts
  <2> QED
    BY <1>5, <1>6, <1>7, <2>1, OutsideTyped
<1>9. Ready'
  BY <1>1, <1>4, <1>5, <1>6 DEF Ready
<1> QED
  BY <1>6, <1>7, <1>8, <1>9, OutsideKeeps

(* A copy goes on into the block for at most the whole of it. *)
LEMMA ExtensionRange ==
  ASSUME NEW c, l.posEnd - s.processed \in Nat
  PROVE  Extension(c) \in 0 .. l.posEnd - s.processed
<1> DEFINE n == l.posEnd - s.processed
<1>1. \A d : Continues(c, d) \in 0 .. n
  <2> SUFFICES ASSUME NEW d PROVE Continues(c, d) \in 0 .. n
    OBVIOUS
  <2> DEFINE max == MaxDistance(s.processed - c.copy)
             address == max + Gap - d + c.copy
             Goes(k) ==
               \/ /\ d <= max
                  /\ ByteAt(Masked(s.processed + k)) = ByteAt(Masked(s.processed + k - d))
               \/ /\ d \in max + 1 .. max + Gap /\ address + k < Gap
                  /\ ByteAt(Masked(s.processed + k)) = CompoundByte(address + k)
             A == {k \in 0 .. n - 1 : ~Goes(k)}
  <2>1. Continues(c, d) = Min(A \cup {n})
    BY DEF Continues
  <2>2. A \in SUBSET (0 .. n - 1)
    OBVIOUS
  <2> HIDE DEF A, n
  <2>3. n \in Nat
    BY DEF n
  <2> QED
    BY <2>1, <2>2, <2>3, MinBelow
<1> QED
  BY <1>1 DEF Extension

(* Extending the last command into the block keeps the invariant: what it  *)
(* copies is not stored.                                                   *)
LEMMA OrderExtend == ASSUME OrderInv, ExtendLastCommand PROVE OrderInv'
<1> DEFINE last == Len(s.commands)
           n == IF last > 0 /\ s.lastInsertLen = 0 THEN Extension(s.commands[last]) ELSE 0
<1>1. /\ pc = "choose" /\ pc' = "promote" /\ h.kind # "none" /\ UNCHANGED <<input, h>>
      /\ s' = IF n = 0 THEN s ELSE [s EXCEPT !.commands[last].copy = @ + n]
      /\ l' = [l EXCEPT !.position = @ + n]
  BY DEF ExtendLastCommand
<1>2. /\ s.processed \in Nat /\ l.posEnd \in Nat /\ l.position \in Nat
      /\ s.processed <= l.posEnd /\ l.position = s.processed
      /\ DOMAIN s = StreamFields /\ DOMAIN l = LocalFields
      /\ Locals /\ Streams /\ Bounds
  BY <1>1, BlockFacts DEF Bounds
<1>3. n \in 0 .. l.posEnd - s.processed
  <2>1. l.posEnd - s.processed \in Nat
    BY <1>2
  <2> QED
    BY <2>1, ExtensionRange
<1> HIDE DEF n, last
<1>4. /\ s'.processed = s.processed /\ s'.flushed = s.flushed /\ s'.d = s.d
      /\ s'.lastInsertLen = s.lastInsertLen /\ s'.distCache = s.distCache
      /\ DOMAIN s' = StreamFields
  BY <1>1, <1>2 DEF StreamFields
<1>5. /\ l'.position = l.position + n /\ l'.posEnd = l.posEnd /\ l'.last = l.last
      /\ l'.insertLength = l.insertLength /\ l'.apply = l.apply /\ l'.storeEnd = l.storeEnd
      /\ l'.noWrap = l.noWrap /\ l'.ahead = l.ahead /\ l'.words = l.words
      /\ l'.delayed = l.delayed /\ l'.compound = l.compound /\ DOMAIN l' = LocalFields
  BY <1>1, <1>2 DEF LocalFields
<1>6. l.position + n \in Nat /\ l.position + n <= l.posEnd /\ s.processed <= l.position + n
  BY <1>2, <1>3
<1>7. Locals'
  BY <1>2, <1>5, <1>6 DEF Locals
<1>8. Streams'
  BY <1>2, <1>4 DEF Streams
<1>9. Data' = Data
  BY <1>1, DataSame
<1>10. Bounds'
  BY <1>1, <1>2, <1>4, <1>5, <1>6, <1>9 DEF Bounds
<1>11. pc' \in Outside /\ pc' \in Before /\ pc' \notin Inside /\ pc' # "begin" /\ pc' # "idle"
       /\ pc \in Before /\ pc # "idle"
  BY <1>1 DEF Outside, Before, Inside
<1>12. Typed'
  <2>1. /\ s'.processed \in Nat /\ s'.flushed \in Nat /\ l'.posEnd \in Nat
        /\ l'.last \in BOOLEAN /\ input' = input
        /\ h'.kind = "none" \/ Table(h'.kind, h')
    BY <1>1, <1>4, <1>5, BlockFacts
  <2> QED
    BY <1>7, <1>8, <1>11, <2>1, OutsideTyped
<1>13. Ready'
  <2>1. SameBlock /\ h' = h
    BY <1>1, <1>4, <1>5 DEF SameBlock
  <2>2. LiveKeys' = LiveKeys
    BY <2>1, SameKeys
  <2>3. Limit = s.processed - 3 /\ Limit' = s.processed - 3
    BY <1>4, <1>11 DEF Limit
  <2>4. Ready
    BY DEF OrderInv
  <2> QED
    BY <1>1, <1>4, <1>5, <1>11, <2>1, <2>2, <2>3, <2>4 DEF Ready
<1> QED
  BY <1>10, <1>11, <1>12, <1>13, OutsideKeeps

-----------------------------------------------------------------------------
(* y is a promoted table. *)
Promotes(y, n) ==
    /\ Table(y.kind, y) /\ y.ready = h.ready
    /\ h.kind \in ChainKinds \/ y.kind \in ChainKinds => y = h
    /\ y.kind = "h5b6u16" => h.kind = "h5b6u16" /\ ~(n > U16Size)
    /\ h.kind \in BucketKinds => y.kind \in BucketKinds /\ KeysOf(y.kind) = KeysOf(h.kind)
    /\ h.kind \in QuickKinds => y.kind \in QuickKinds
    /\ \A K \in SUBSET KeysOf(h.kind) : \A limit \in Int :
         Tidy(h, K, limit) => Tidy(y, K, limit)

(* What a promotion makes of a table. *)
LEMMA PromotedIs ==
  ASSUME DataOK, Table(h.kind, h), NEW n, NEW pooled \in BOOLEAN
  PROVE  Promotes(Promoted(h, n, pooled), n)
BY PromotedNeat DEF Promotes

LEMMA QuickTidyAll ==
  ASSUME NEW x, x.kind \in QuickKinds, NEW K, NEW limit PROVE Tidy(x, K, limit)
BY KindsApart DEF Tidy

(* Promoting a matcher keeps the invariant. *)
LEMMA OrderPromote == ASSUME OrderInv, MaybePromoteHasher PROVE OrderInv'
<1>1. /\ pc = "promote" /\ pc' = "begin"
      /\ \E pooled \in BOOLEAN : h' = Promoted(h, l.posEnd, pooled)
      /\ input' = input /\ s' = s /\ l' = l
  BY DEF MaybePromoteHasher
<1>2. /\ Data \in Seq(Int) /\ Chunks \in Seq(Seq(Int)) /\ Locals /\ Streams /\ Bounds
      /\ s.processed \in Nat /\ s.flushed \in Nat /\ l.posEnd \in Nat /\ l.last \in BOOLEAN
  BY BlockFacts
<1>3. h.kind # "none" /\ Table(h.kind, h)
  BY <1>1, BlockFacts DEF OrderInv, Ready
<1>4. Promotes(h', l.posEnd)
  BY <1>1, <1>3, LoopData, PromotedIs
<1>5. Data' = Data
  BY <1>1, DataSame
<1>6. Locals' /\ Streams'
  BY <1>1, <1>2 DEF Locals, Streams
<1>7. Bounds'
  BY <1>1, <1>2, <1>5 DEF Bounds
<1>8. /\ pc' \in Outside /\ pc' \in Before /\ pc' \notin Inside /\ pc' # "idle"
      /\ pc \in Before /\ pc # "idle" /\ pc' # "choose"
  BY <1>1 DEF Outside, Before, Inside
<1>9. Table(h'.kind, h') /\ h'.ready = h.ready
  BY <1>4 DEF Promotes
<1>10. Typed'
  BY <1>1, <1>2, <1>6, <1>8, <1>9, OutsideTyped
<1>11. ASSUME h'.ready
       PROVE  /\ s.processed > 0
              /\ Tidy(h', LiveKeys', s.processed - 3) /\ Tidy(h', LiveKeys', l.posEnd - 3)
  <2>1. h.ready /\ s.processed > 0
    BY <1>1, <1>3, <1>8, <1>9, <1>11 DEF OrderInv, Ready
  <2>2. LiveKeys = KeysOf(h.kind) /\ LiveKeys' = KeysOf(h'.kind)
    BY <1>1, <2>1 DEF LiveKeys
  <2>3. Limit = s.processed - 3
    BY <1>8 DEF Limit
  <2>4. Tidy(h, LiveKeys, s.processed - 3) /\ Tidy(h, LiveKeys, l.posEnd - 3)
    BY <1>3, <1>8, <2>1, <2>3 DEF OrderInv, Ready
  <2>5. CASE h.kind \in QuickKinds
    BY <1>4, <2>1, <2>5, QuickTidyAll DEF Promotes
  <2>6. CASE h.kind \in ChainKinds
    BY <1>4, <2>1, <2>2, <2>4, <2>6 DEF Promotes
  <2>7. CASE h.kind \in BucketKinds
    <3>1. LiveKeys' = LiveKeys /\ LiveKeys \in SUBSET KeysOf(h.kind)
      BY <1>4, <2>2, <2>7 DEF Promotes
    <3>2. s.processed - 3 \in Int /\ l.posEnd - 3 \in Int
      BY <1>2
    <3> QED
      BY <1>4, <2>1, <2>4, <3>1, <3>2 DEF Promotes
  <2> QED
    BY <1>3, <2>5, <2>6, <2>7 DEF Table
<1>12. Ready'
  <2>1. h'.kind # "none"
    BY <1>9, TableKind
  <2>2. h'.kind = "h5b6u16" => "h5b6u16" \in Kinds /\ ~(l.posEnd > U16Size)
    BY <1>4 DEF Promotes, OrderInv, Ready
  <2>3. h'.kind \in ChainKinds => Linked(h')
    BY <1>4 DEF Promotes, OrderInv, Ready
  <2>4. Limit' = s.processed - 3
    BY <1>1, <1>8 DEF Limit
  <2>5. l.posEnd \in Nat /\ U16Size \in Nat
    BY <1>2, HashQuickAssumption DEF HashQuickAssumption
  <2>6. h'.kind = "h5b6u16" => l.posEnd <= U16Size
    BY <2>2, <2>5
  <2> QED
    BY <1>1, <1>8, <1>11, <2>1, <2>2, <2>3, <2>4, <2>6 DEF Ready
<1> QED
  BY <1>7, <1>8, <1>10, <1>12, OutsideKeeps

-----------------------------------------------------------------------------
(* What is known of the table after the loop. *)
LEMMA AfterTable ==
  ASSUME OrderInv, pc \in After
  PROVE  /\ h.kind # "none" /\ h.ready /\ Tidy(h, LiveKeys, l.posEnd - 3)
         /\ h.kind \in ChainKinds => Linked(h)
         /\ h.kind = "h5b6u16" => "h5b6u16" \in Kinds
<1>1. pc \notin Before /\ pc # "idle" /\ pc # "choose"
  BY DEF After, Before
<1> QED
  BY <1>1 DEF OrderInv, Ready

(* Leaving the steps after the loop. *)
LEMMA AfterOutside ==
  ASSUME pc \in After
  PROVE  pc \in Outside /\ pc \notin Before /\ pc \notin Inside /\ pc # "idle"
         /\ pc # "choose" /\ pc # "begin"
BY DEF After, Outside, Before, Inside

LEMMA BlockEnd ==
  ASSUME OrderInv, pc \in After, pc' = "idle", input' = input, h' = h, l' = l, Streams',
         s'.processed = l.posEnd, s'.flushed \in Nat, s'.flushed <= l.posEnd,
         l.posEnd - s'.flushed + RingTail <= RingSize,
         ~l.last \/ s'.flushed = l.posEnd
  PROVE  OrderInv'
<1>1. Locals /\ Bounds /\ l.posEnd \in Nat /\ l.last \in BOOLEAN
  BY BlockFacts
<1>2. /\ h.kind # "none" /\ h.ready /\ Tidy(h, LiveKeys, l.posEnd - 3)
      /\ h.kind \in ChainKinds => Linked(h)
      /\ h.kind = "h5b6u16" => "h5b6u16" \in Kinds
  BY AfterTable
<1>3. pc # "idle"
  BY AfterOutside
<1>4. l.posEnd > 0 /\ l.posEnd <= Len(Data) /\ (l.last => l.posEnd = Len(Data))
  BY <1>1, <1>3 DEF Bounds
<1>5. Data' = Data
  BY DataSame
<1>6. pc' \in Outside /\ pc' \notin Before /\ pc' \notin Inside
  BY DEF Outside, Before, Inside
<1>7. Typed'
  <2>1. Locals'
    BY <1>1 DEF Locals
  <2>2. h'.kind = "none" \/ Table(h'.kind, h')
    BY BlockFacts
  <2>3. s'.processed \in Nat /\ l'.posEnd \in Nat /\ l'.last \in BOOLEAN
    BY <1>1
  <2> QED
    BY <1>6, <2>1, <2>2, <2>3, OutsideTyped
<1>8. Bounds'
  BY <1>1, <1>4, <1>5 DEF Bounds
<1>9. Ready'
  <2>1. Limit' = l.posEnd - 3
    BY DEF Limit
  <2>2. ASSUME ~l.last PROVE LiveKeys' = LiveKeys
    <3>1. LiveKeys = KeysOf(h.kind) /\ LiveKeys' = KeysOf(h.kind)
      BY <2>2 DEF LiveKeys
    <3> QED
      BY <3>1
  <2>3. l.last => s'.flushed = Len(Data')
    BY <1>4, <1>5
  <2> QED
    BY <1>2, <1>4, <1>6, <2>1, <2>2, <2>3 DEF Ready
<1> QED
  BY <1>6, <1>7, <1>8, <1>9, OutsideKeeps

(* Merging, writing and closing a metablock keep the invariant. *)
LEMMA OrderMerge == ASSUME OrderInv, Merge PROVE OrderInv'
<1>1. /\ pc = "merge" /\ ~l.last /\ l.posEnd - s.flushed + RingTail <= RingSize
      /\ pc' = "idle" /\ s' = [s EXCEPT !.processed = l.posEnd]
      /\ input' = input /\ h' = h /\ l' = l
  BY DEF Merge
<1>2. Streams /\ Bounds /\ s.flushed \in Nat /\ s.processed \in Nat /\ l.posEnd \in Nat
  BY BlockFacts
<1>3. DOMAIN s = StreamFields
  BY <1>2 DEF Streams
<1>4. /\ s'.processed = l.posEnd /\ s'.flushed = s.flushed /\ s'.d = s.d
      /\ s'.lastInsertLen = s.lastInsertLen /\ s'.distCache = s.distCache
      /\ DOMAIN s' = StreamFields
  BY <1>1, <1>3 DEF StreamFields
<1>5. Streams'
  BY <1>2, <1>4 DEF Streams
<1>6. s.flushed <= l.posEnd
  BY <1>2 DEF Bounds
<1>7. pc \in After
  BY <1>1 DEF After
<1> QED
  BY <1>1, <1>2, <1>4, <1>5, <1>6, <1>7, BlockEnd

LEMMA OrderWrite == ASSUME OrderInv, WriteMetablock PROVE OrderInv'
<1>1. /\ pc = "write" /\ pc' = "idle"
      /\ s' = [s EXCEPT !.decoder = Replay, !.commands = <<>>, !.numLiterals = 0,
                        !.histo = [b \in DOMAIN @ |-> 0],
                        !.processed = l.posEnd, !.flushed = l.posEnd]
      /\ input' = input /\ h' = h /\ l' = l
  BY DEF WriteMetablock
<1>2. Streams /\ l.posEnd \in Nat
  BY BlockFacts
<1>3. DOMAIN s = StreamFields
  BY <1>2 DEF Streams
<1>4. /\ s'.processed = l.posEnd /\ s'.flushed = l.posEnd /\ s'.d = s.d
      /\ s'.lastInsertLen = s.lastInsertLen /\ s'.distCache = s.distCache
      /\ DOMAIN s' = StreamFields
  BY <1>1, <1>3 DEF StreamFields
<1>5. Streams'
  BY <1>2, <1>4 DEF Streams
<1>6. pc \in After
  BY <1>1 DEF After
<1>7. s'.flushed \in Nat /\ s'.flushed <= l.posEnd /\ l.posEnd - s'.flushed + RingTail <= RingSize
  BY <1>2, <1>4, RingSizes
<1> QED
  BY <1>1, <1>4, <1>5, <1>6, <1>7, BlockEnd

LEMMA OrderClose == ASSUME OrderInv, CloseMetablock PROVE OrderInv'
<1> DEFINE n == s.lastInsertLen
<1>1. /\ pc = "merge" /\ pc' = "write"
      /\ s' = IF n = 0 THEN s
              ELSE [s EXCEPT
                 !.commands = Append(@, [ins |-> n, copy |-> 0, delta |-> 0, code |-> 0]),
                 !.numLiterals = @ + n, !.histo = TrailingHisto(n),
                 !.lastInsertLen = 0]
      /\ input' = input /\ h' = h /\ l' = l
  BY DEF CloseMetablock
<1>2. /\ Streams /\ Locals /\ Bounds /\ s.flushed \in Nat /\ s.processed \in Nat
      /\ l.posEnd \in Nat /\ l.last \in BOOLEAN
  BY BlockFacts
<1>3. DOMAIN s = StreamFields
  BY <1>2 DEF Streams
<1>4. /\ s'.processed = s.processed /\ s'.flushed = s.flushed /\ s'.d = s.d
      /\ s'.lastInsertLen \in {n, 0} /\ s'.distCache = s.distCache
      /\ DOMAIN s' = StreamFields
  <2>1. CASE n = 0
    BY <1>1, <1>3, <2>1
  <2>2. CASE n # 0
    BY <1>1, <1>3, <2>2 DEF StreamFields
  <2> QED
    BY <2>1, <2>2
<1>5. Streams'
  BY <1>2, <1>4 DEF Streams
<1>6. pc \in After /\ pc' \in Outside /\ pc' \notin Before /\ pc' \notin Inside
      /\ pc' \in After
  BY <1>1 DEF After, Outside, Before, Inside
<1>7. /\ h.kind # "none" /\ h.ready /\ Tidy(h, LiveKeys, l.posEnd - 3)
      /\ h.kind \in ChainKinds => Linked(h)
      /\ h.kind = "h5b6u16" => "h5b6u16" \in Kinds
  BY <1>6, AfterTable
<1>8. Data' = Data
  BY <1>1, DataSame
<1>9. Bounds'
  BY <1>1, <1>2, <1>4, <1>8 DEF Bounds
<1>10. Typed'
  <2>1. Locals'
    BY <1>1, <1>2 DEF Locals
  <2>2. h'.kind = "none" \/ Table(h'.kind, h')
    BY <1>1, BlockFacts
  <2>3. s'.processed \in Nat /\ s'.flushed \in Nat /\ l'.posEnd \in Nat /\ l'.last \in BOOLEAN
    BY <1>1, <1>2, <1>4
  <2> QED
    BY <1>1, <1>5, <1>6, <2>1, <2>2, <2>3, OutsideTyped
<1>11. Ready'
  <2>1. SameBlock
    BY <1>1, <1>4 DEF SameBlock
  <2>2. LiveKeys' = LiveKeys
    BY <1>1, <2>1, SameKeys
  <2>3. Limit' = l.posEnd - 3
    BY <1>1, <1>6 DEF Limit
  <2> QED
    BY <1>1, <1>6, <1>7, <2>2, <2>3 DEF Ready
<1> QED
  BY <1>6, <1>9, <1>10, <1>11, OutsideKeeps

-----------------------------------------------------------------------------
(* The steps of the stream, outside the matchers' loops. *)
StreamStep ==
    \/ \E n \in BlockSizes : NextBlock(n)
    \/ ChooseHasher \/ ExtendLastCommand \/ MaybePromoteHasher
    \/ Merge \/ CloseMetablock \/ WriteMetablock

(* Every step is one of the stream or of a matcher. *)
LEMMA NextShape ==
  ASSUME Next
  PROVE  StreamStep \/ Consult \/ MatcherStep \/ FinishStep \/ UNCHANGED vars
<1>1. ASSUME QuickNext PROVE MatcherStep \/ FinishStep
  BY <1>1, H2Shape, H2u16Shape, H3Shape, H3u16Shape, H4Shape, H4u16Shape,
     H54Shape, FinishShape DEF QuickNext
<1>2. ASSUME BucketNext PROVE MatcherStep \/ FinishStep
  BY <1>2, H5Shape, H5b5Shape, H5bShape, H5b6u16Shape, H5b8Shape, H6Shape,
     H6uShape, H6b5Shape, H6b5uShape, H6bShape, H6b8Shape, FinishShape
     DEF BucketNext, Bucket4Next
<1>3. ASSUME ChainNext PROVE MatcherStep \/ FinishStep
  BY <1>3, H40Shape, H41Shape, H42Shape, FinishShape DEF ChainNext
<1> QED
  BY <1>1, <1>2, <1>3 DEF Next, StreamStep, Done

(* Every step keeps the invariant. *)
LEMMA OrderStep == OrderInv /\ [Next]_vars => OrderInv'
<1> SUFFICES ASSUME OrderInv, [Next]_vars PROVE OrderInv'
  OBVIOUS
<1>1. CASE StreamStep
  BY <1>1, OrderBlock, OrderChoose, OrderExtend, OrderPromote, OrderMerge, OrderClose,
     OrderWrite DEF StreamStep
<1>2. CASE Consult
  BY <1>2, OrderConsult
<1>3. CASE MatcherStep
  BY <1>3, OrderLoop DEF MatcherStep
<1>4. CASE FinishStep
  BY <1>4, OrderFinish DEF FinishStep
<1>5. CASE UNCHANGED vars
  <2>1. input' = input /\ h' = h /\ s' = s /\ pc' = pc /\ l' = l
    BY <1>5 DEF vars, loopVars
  <2>2. Data' = Data /\ Chunks' = Chunks
    BY <2>1, DataSame
  <2>3. Typed'
    BY <2>1, <2>2 DEF OrderInv, Typed
  <2>4. Placed'
    BY <2>1, <2>2 DEF OrderInv, Placed, Ahead
  <2>5. LiveKeys' = LiveKeys /\ Limit' = Limit
    <3>1. SameBlock
      BY <2>1 DEF SameBlock
    <3> QED
      BY <2>1, <3>1, SameKeys DEF Limit, Ahead
  <2>6. Ready'
    BY <2>1, <2>2, <2>5 DEF OrderInv, Ready
  <2> QED
    BY <2>3, <2>4, <2>6 DEF OrderInv
<1> QED
  BY <1>1, <1>2, <1>3, <1>4, <1>5, NextShape

(* What the tables hold is in order, for every size of table, bucket,      *)
(* bank, ring and window, every input and every split of it into blocks:   *)
(* for each key, positions of this stream below the next position to       *)
(* store, newer ones before older ones, and chains whose links have a      *)
(* distance of at least 1. Searches, Store, StoreRange,                    *)
(* StitchToPreviousBlock, Prepare, the promotion from h5 to h6 and a reset *)
(* keep it so (the hashers of matchfinder and encodeState).                *)
THEOREM OrderStays == Spec => []OrderInv
<1>1. Init => OrderInv
  BY OrderInit
<1> QED
  BY <1>1, OrderStep, PTL DEF Spec

-----------------------------------------------------------------------------
(* Candidates that fall from below a limit on. *)
Descend(c, limit) ==
    /\ \A k \in 2 .. Len(c) : c[k] < c[k - 1]
    /\ c # <<>> => c[1] < limit

(* What falls below a limit descends. *)
LEMMA FallsDescend ==
  ASSUME NEW n \in Nat, NEW c \in [1 .. n -> Int], NEW limit, Falls(c, limit)
  PROVE  Descend(c, limit)
<1>1. c \in Seq(Int) /\ Len(c) = n
  BY SeqDef
<1>2. \A k \in 2 .. Len(c) : c[k] < c[k - 1]
  BY <1>1 DEF Falls
<1>3. ASSUME c # <<>> PROVE c[1] < limit
  <2>1. n # 0
    BY <1>1, <1>3, EmptySeq
  <2>2. 1 \in DOMAIN c
    BY <2>1
  <2> QED
    BY <2>2 DEF Falls
<1> QED
  BY <1>2, <1>3 DEF Descend

(* Numbers that begin with one and leave none out. *)
LEMMA Prefix ==
  ASSUME NEW n \in Nat, NEW A \in SUBSET (1 .. n),
         \A k \in A : k > 1 => k - 1 \in A
  PROVE  Cardinality(A) \in Nat /\ A = 1 .. Cardinality(A)
<1> DEFINE F == {j \in Nat : j + 1 \notin A}
<1>1. n \in F
  OBVIOUS
<1>2. PICK m \in F : \A y \in F : m <= y
  BY <1>1, Least
<1>3. \A j \in 1 .. m : j \in A
  <2> TAKE j \in 1 .. m
  <2>1. j - 1 \in Nat /\ j - 1 < m /\ (j - 1) + 1 = j
    BY <1>2
  <2>2. j - 1 \notin F
    BY <1>2, <2>1
  <2> QED
    BY <2>1, <2>2
<1>2a. m \in Nat /\ \A k \in A : k \in Int /\ 1 <= k /\ k <= n
  BY <1>2
<1>4. \A k \in A : k <= m
  <2> SUFFICES ASSUME NEW k \in A, k > m PROVE FALSE
    BY <1>2a
  <2> DEFINE B == {j \in A : j > m}
  <2>1. B \in SUBSET Nat /\ B # {} /\ m \in Nat /\ m + 1 \notin A
    <3>1. k \in B
      OBVIOUS
    <3>2. B \in SUBSET Nat
      <4>1. \A y \in B : y \in A
        OBVIOUS
      <4>2. \A y \in A : y \in Nat
        BY <1>2a
      <4> QED
        BY <4>1, <4>2
    <3> HIDE DEF B
    <3> QED
      BY <1>2, <3>1, <3>2
  <2>2. PICK x \in B : \A y \in B : x <= y
    BY <2>1, Least
  <2>3. x \in A /\ x > m /\ x # m + 1 /\ x \in Nat
    BY <2>1
  <2>4. x - 1 \in A /\ x - 1 > m
    BY <2>1, <2>3
  <2>5. x - 1 \in B /\ ~(x <= x - 1)
    BY <2>3, <2>4
  <2> QED
    BY <2>2, <2>5
<1>5. A = 1 .. m
  <2> HIDE DEF F
  <2>1. \A k \in A : k \in 1 .. m
    BY <1>2a, <1>4
  <2> QED
    BY <1>3, <2>1
<1>6. Cardinality(1 .. m) = m
  <2>1. 1 \in Int /\ m \in Int /\ m >= 0
    BY <1>2
  <2> QED
    BY <2>1, FS_Interval
<1> QED
  BY <1>2, <1>5, <1>6

-----------------------------------------------------------------------------
(* The chain of a key: every entry in the window is a distance of at least *)
(* one further back than the entry before.                                 *)
SlotsLinked(slots) ==
    \A k \in DOMAIN slots :
      (slots[k].delta >= 1 /\ slots[k].delta < U16Size - 1)
        => slots[slots[k].next].delta >= 1

HeadLinked(key, limit) ==
    \/ h.addr[key] = Never
    \/ /\ h.addr[key] >= 0 /\ h.addr[key] < limit
       /\ BankSlots(h, key)[h.head[key]].delta >= 1

(* The positions along a chain fall. *)
LEMMA ChainOfFalls ==
  ASSUME NEW key, NEW n \in Nat \ {0}, NEW slots, slots = BankSlots(h, key), slots \in BankOf(n),
         SlotsLinked(slots), NEW here \in Int, here = NextPosition,
         h.addr[key] \in Int, h.head[key] \in 0 .. n - 1, h.maxHops \in Nat,
         HeadLinked(key, here)
  PROVE  \E m \in Nat : ChainOf(key) \in [1 .. m -> Int] /\ Falls(ChainOf(key), here)
<1> DEFINE hops == h.maxHops
           Body(r) == IF r.pos < here - Window THEN r
                      ELSE [pos  |-> r.pos - slots[r.slot].delta,
                            slot |-> slots[r.slot].next]
           Near(r) == r.pos >= here - Window /\ r.pos >= 0
           T == {r \in [pos : Int, slot : 0 .. n - 1] :
                   Near(r) => r.pos < here /\ slots[r.slot].delta >= 1}
           start == [pos |-> h.addr[key], slot |-> h.head[key]]
           Walk == CHOOSE f : f = [k \in 1 .. hops |->
                                     IF k = 1 THEN start ELSE Body(f[k - 1])]
           near == {k \in 1 .. hops : Walk[k].pos >= here - Window /\ Walk[k].pos >= 0}
<1>1. ChainOf(key) = [k \in 1 .. Cardinality(near) |-> Walk[k].pos]
  BY DEF ChainOf, BankSlots
<1>2. start \in T
  BY DEF HeadLinked, Never
<1>3. \A k \in 0 .. n - 1 : slots[k].delta \in Nat /\ slots[k].next \in 0 .. n - 1
  BY DEF BankOf
<1>4. ASSUME NEW r \in T PROVE Body(r) \in T
  <2>1. CASE r.pos < here - Window
    BY <2>1
  <2>2. CASE ~(r.pos < here - Window)
    <3>1. slots[r.slot].delta \in Nat /\ slots[r.slot].next \in 0 .. n - 1 /\ r.pos \in Int
          /\ r.slot \in 0 .. n - 1
      BY <1>3
    <3> DEFINE y == [pos |-> r.pos - slots[r.slot].delta, slot |-> slots[r.slot].next]
    <3>2. y \in [pos : Int, slot : 0 .. n - 1]
      BY <3>1
    <3>3. ASSUME Near(y) PROVE y.pos < here /\ slots[y.slot].delta >= 1
      <4>1. Near(r)
        BY <2>2, <3>1, <3>3, ChainSizes
      <4>2. r.pos < here /\ slots[r.slot].delta >= 1
        BY <4>1
      <4>3. slots[r.slot].delta < U16Size - 1
        BY <3>1, <3>3, <4>2, ChainSizes
      <4>4. slots[slots[r.slot].next].delta >= 1
        <5>1. r.slot \in DOMAIN slots
          BY <3>1 DEF BankOf
        <5> QED
          BY <4>2, <4>3, <5>1 DEF SlotsLinked
      <4> QED
        BY <3>1, <4>2, <4>4
    <3>4. y \in T
      BY <3>2, <3>3
    <3> QED
      BY <2>2, <3>4
  <2> QED
    BY <2>1, <2>2
<1>5. ASSUME NEW r \in T, Near(Body(r)) PROVE Near(r) /\ Body(r).pos < r.pos
  <2>1. ~(r.pos < here - Window)
    BY <1>5, ChainSizes
  <2>2. Body(r).pos = r.pos - slots[r.slot].delta
    BY <2>1
  <2>3. slots[r.slot].delta \in Nat /\ r.pos \in Int
    BY <1>3
  <2>4. Near(r)
    BY <1>5, <2>1, <2>2, <2>3, ChainSizes
  <2> QED
    BY <2>2, <2>3, <2>4
<1>6. \A r \in T : r.pos \in Int /\ (Near(r) => r.pos < here)
  OBVIOUS
<1>7. hops \in Nat
  OBVIOUS
<1> HIDE DEF Body, T, start, hops
<1>8. PICK lo \in Int : lo = 1 /\ hops \in Int
  BY <1>7
<1> DEFINE G == [x \in (lo + 1 .. hops) \X T |-> Body(x[2])]
<1>9. G \in [(lo + 1 .. hops) \X T -> T]
  BY <1>4, <1>8
<1>10. \A k \in lo + 1 .. hops : \A r \in T : G[<<k, r>>] = Body(r)
  OBVIOUS
<1> HIDE DEF G
<1>11. \E f \in [lo .. hops -> T] : Recurs(f, lo, hops, start, G)
  BY <1>2, <1>8, <1>9, RecursionExists, Zenon
<1>12. PICK f \in [lo .. hops -> T] : Recurs(f, lo, hops, start, G)
  BY <1>11
<1>13. f = [k \in lo .. hops |-> IF k = lo THEN start ELSE Body(f[k - 1])]
  <2>1. ASSUME NEW k \in lo .. hops, k # lo
        PROVE  f[k] = Body(f[k - 1])
    <3>1. k \in lo + 1 .. hops /\ k - 1 \in lo .. hops
      BY <1>8, <2>1
    <3> QED
      BY <1>10, <1>12, <2>1, <3>1 DEF Recurs
  <2> QED
    BY <1>12, <2>1 DEF Recurs
<1>14. Walk = [k \in lo .. hops |-> IF k = lo THEN start ELSE Body(Walk[k - 1])]
  BY ONLY <1>8, <1>13
<1> HIDE DEF Walk
<1>15. \A k \in lo .. hops : Walk[k] \in T
  <2>1. CASE hops < lo
    BY <1>8, <2>1
  <2>2. CASE lo <= hops
    <3>1. Walk[lo] \in T
      BY <1>2, <1>8, <1>14, <2>2
    <3>2. \A k \in lo + 1 .. hops : Walk[k - 1] \in T => Walk[k] \in T
      BY <1>4, <1>8, <1>14
    <3> QED
      BY <1>8, <3>1, <3>2, RecursionKeeps, Zenon
  <2> QED
    BY <1>8, <2>1, <2>2
<1>16. \A k \in 1 .. hops : Walk[k] \in T /\ (k > 1 => Walk[k] = Body(Walk[k - 1]))
  BY <1>8, <1>14, <1>15
<1> HIDE DEF Near
<1>17. \A k \in 1 .. hops : k \in near <=> Near(Walk[k])
  BY DEF Near
<1>18. near \in SUBSET (1 .. hops)
  OBVIOUS
<1> HIDE DEF near
<1>19. ASSUME NEW k \in near, k > 1
       PROVE  k - 1 \in near /\ Walk[k].pos < Walk[k - 1].pos
  <2>1. k \in 1 .. hops /\ k - 1 \in 1 .. hops
    BY <1>7, <1>18, <1>19
  <2>2. Walk[k] = Body(Walk[k - 1]) /\ Walk[k - 1] \in T /\ Near(Walk[k])
    BY <1>16, <1>17, <1>19, <2>1
  <2>3. Near(Walk[k - 1]) /\ Walk[k].pos < Walk[k - 1].pos
    BY <1>5, <2>2
  <2> QED
    BY <1>17, <2>1, <2>3
<1>20. Cardinality(near) \in Nat /\ near = 1 .. Cardinality(near)
  BY <1>7, <1>18, <1>19, Prefix
<1>21. \A k \in near : Walk[k].pos \in Int /\ Walk[k].pos < here
  BY <1>6, <1>16, <1>17, <1>18
<1>22. PICK m \in Nat : m = Cardinality(near) /\ near = 1 .. m
  BY <1>20
<1>22a. near = 1 .. m
  BY <1>22
<1> DEFINE c == [k \in 1 .. m |-> Walk[k].pos]
<1>23. c \in [1 .. m -> Int]
  BY <1>21, <1>22
<1>24. Falls(c, here)
  <2>1. \A k \in 1 .. m : c[k] < here
    BY <1>21, <1>22
  <2>2. ASSUME NEW k \in 1 .. m, k >= 2 PROVE c[k] < c[k - 1]
    <3>1. k - 1 \in 1 .. m
      BY <2>2
    <3>2. k \in near /\ k > 1
      <4>1. k > 1
        BY <1>22, <2>2
      <4>2. k \in near
        BY <1>22a
      <4> QED
        BY <4>1, <4>2
    <3>3. Walk[k].pos < Walk[k - 1].pos
      BY <1>19, <3>2
    <3> QED
      BY <2>2, <3>1, <3>3
  <2> QED
    BY <2>1, <2>2 DEF Falls
<1>25. ChainOf(key) = c
  BY <1>1, <1>22
<1> QED
  BY <1>23, <1>24, <1>25

-----------------------------------------------------------------------------
(* What the table offers for the keys of the rest of the block. *)
LEMMA RestTidy ==
  ASSUME OrderInv, pc \in {"search", "lazy"}
  PROVE  /\ Tidy(h, LiveKeys, NextPosition) /\ Table(h.kind, h)
         /\ NextPosition \in Nat /\ DataOK
         /\ s.processed \in Nat /\ l.posEnd \in Nat /\ l.posEnd <= s.processed + RingTail
<1>1. pc \in Inside /\ pc # "idle" /\ pc \notin Before /\ pc \notin After /\ ~Ahead
  BY DEF Inside, Before, After, Ahead
<1>2. Neat(h.kind, h, TRUE, LiveKeys, Limit)
  BY <1>1, LoopTable
<1>3. Limit = NextPosition
  BY <1>1 DEF Limit, NextPosition
<1>4. NextPosition \in Nat
  BY BlockSizesNat DEF NextPosition
<1>5. s.processed \in Nat /\ l.posEnd \in Nat /\ l.posEnd <= s.processed + RingTail
  BY <1>1 DEF OrderInv, Typed, Placed
<1> QED
  BY <1>2, <1>3, <1>4, <1>5, LoopData DEF Neat

(* The keys of the rest of the block. *)
Rest == {Masked(pos) : pos \in NextPosition .. l.posEnd - 1}

(* They are live. *)
LEMMA RestKeys ==
  ASSUME OrderInv, pc \in {"search", "lazy"}, h.kind \in BucketKinds \cup ChainKinds
  PROVE  /\ \A i \in Rest : KeyAt(h.kind, i) \in LiveKeys
         /\ LiveKeys \in SUBSET KeysOf(h.kind)
<1>1. /\ NextPosition \in Nat /\ DataOK
      /\ s.processed \in Nat /\ l.posEnd <= s.processed + RingTail
  BY RestTidy
<1>2. ASSUME NEW pos \in NextPosition .. l.posEnd - 1
      PROVE  KeyAt(h.kind, Masked(pos)) \in LiveKeys
  <2>1. pos \in 0 .. l.posEnd - 1
    BY <1>1, <1>2 DEF DataOK
  <2> QED
    BY <1>1, <2>1, LiveKey
<1> QED
  BY <1>1, <1>2, LiveKeysIn DEF Rest

(* The chain of a key of the block. *)
LEMMA ChainCandidates ==
  ASSUME OrderInv, pc \in {"search", "lazy"}, h.kind \in ChainKinds, NEW key \in LiveKeys
  PROVE  Descend(ChainOf(key), NextPosition)
<1>1. /\ Tidy(h, LiveKeys, NextPosition) /\ Table(h.kind, h)
      /\ NextPosition \in Nat
  BY RestTidy
<1>2. PICK b \in Nat \ {0}, n \in Nat \ {0} : h \in ChainRec(h.kind, b, n)
  BY <1>1, KindsApart, ChainSizes DEF Table
<1>3. key \in 0 .. ChainKeys - 1
  BY RestKeys DEF KeysOf
<1>4. h.addr[key] \in Int /\ h.head[key] \in 0 .. n - 1 /\ key % b \in 0 .. b - 1
  BY <1>2, <1>3, HeadFields, Zenon
<1>5. h.banks \in [0 .. b - 1 -> BankOf(n)] /\ Cardinality(DOMAIN h.banks) = b
  BY <1>2, BanksAre, Zenon
<1>6. PICK slots \in BankOf(n) : slots = BankSlots(h, key) /\ slots = h.banks[key % b]
  BY <1>4, <1>5 DEF BankSlots
<1>7. Chained(h, LiveKeys, NextPosition)
  BY <1>1 DEF Tidy
<1>8. SlotsLinked(slots)
  <2>1. key % b \in DOMAIN h.banks
    BY <1>4, <1>5
  <2> QED
    BY <1>6, <1>7, <2>1 DEF Chained, Linked, SlotsLinked
<1>9. HeadLinked(key, NextPosition)
  BY <1>7 DEF Chained, HeadLinked
<1>10. h.maxHops \in Nat
  BY <1>2 DEF ChainRec
<1>11. PICK here \in Int : here = NextPosition
  BY <1>1
<1>12. HeadLinked(key, here)
  BY <1>9, <1>11
<1>13. \E m \in Nat : ChainOf(key) \in [1 .. m -> Int] /\ Falls(ChainOf(key), here)
  BY <1>4, <1>6, <1>8, <1>10, <1>11, <1>12, ChainOfFalls
<1> QED
  BY <1>11, <1>13, FallsDescend

(* The bucket of a key of the block. *)
LEMMA BucketCandidates ==
  ASSUME OrderInv, pc \in {"search", "lazy"}, h.kind \in BucketKinds, NEW key \in LiveKeys
  PROVE  /\ h.kind \notin TaggedKinds => Descend(Newest(h, key), NextPosition)
         /\ h.kind \in TaggedKinds => Descend(NewestTagged(h, key), NextPosition)
<1>1. Tidy(h, LiveKeys, NextPosition) /\ Table(h.kind, h)
  BY RestTidy
<1>2. h \in BucketRec(h.kind)
  BY <1>1, KindsApart DEF Table
<1>3. key \in 0 .. BucketKeys - 1
  BY RestKeys, KindsApart DEF KeysOf
<1>4. /\ \E t \in Nat : Newest(h, key) \in [1 .. t -> Int]
      /\ \E t \in Nat : NewestTagged(h, key) \in [1 .. t -> Int]
  BY <1>2, <1>3, NewestTyped
<1>5. ASSUME h.kind \notin TaggedKinds PROVE Descend(Newest(h, key), NextPosition)
  <2>1. Falls(Newest(h, key), NextPosition)
    BY <1>1, <1>5 DEF Tidy
  <2> QED
    BY <1>4, <2>1, FallsDescend
<1>6. ASSUME h.kind \in TaggedKinds PROVE Descend(NewestTagged(h, key), NextPosition)
  <2>1. Falls(NewestTagged(h, key), NextPosition)
    BY <1>1, <1>6 DEF Tidy
  <2> QED
    BY <1>4, <2>1, FallsDescend
<1> QED
  BY <1>5, <1>6

(* The invariant implies what is checked of the candidates. *)
LEMMA OrderShows == ASSUME OrderInv PROVE CandidatesDescend
<1> SUFFICES ASSUME h.kind \in BucketKinds \cup ChainKinds, pc \in {"search", "lazy"},
                    NEW c \in Candidates
             PROVE  Descend(c, NextPosition)
  BY DEF CandidatesDescend, Descend
<1>1. \A i \in Rest : KeyAt(h.kind, i) \in LiveKeys
  BY RestKeys
<1>2. CASE h.kind \in ChainKinds
  <2>1. c \in {ChainOf(key) : key \in {ChainKey(i) : i \in Rest}}
    BY <1>2, KindsApart DEF Candidates, Rest
  <2>2. \A i \in Rest : ChainKey(i) \in LiveKeys
    BY <1>1, <1>2 DEF KeyAt
  <2> QED
    BY <1>2, <2>1, <2>2, ChainCandidates
<1>3. CASE h.kind \in TaggedKinds
  <2>1. h.kind \in BucketKinds /\ h.kind \notin ChainKinds /\ h.kind \notin Bucket4Kinds
    BY <1>3, KindsApart
  <2>2. c \in {NewestTagged(h, key) : key \in {Key5(i) : i \in Rest}}
    BY <1>3, <2>1 DEF Candidates, Rest
  <2>3. \A i \in Rest : Key5(i) \in LiveKeys
    BY <1>1, <2>1 DEF KeyAt
  <2> QED
    BY <1>3, <2>1, <2>2, <2>3, BucketCandidates
<1>4. CASE h.kind \in Bucket4Kinds
  <2>1. h.kind \in BucketKinds /\ h.kind \notin ChainKinds /\ h.kind \notin TaggedKinds
    BY <1>4, KindsApart
  <2>2. c \in {Newest(h, key) : key \in {Key4(i) : i \in Rest}}
    BY <1>4, <2>1 DEF Candidates, Rest
  <2>3. \A i \in Rest : Key4(i) \in LiveKeys
    BY <1>1, <1>4, <2>1 DEF KeyAt
  <2> QED
    BY <2>1, <2>2, <2>3, BucketCandidates
<1>5. CASE h.kind \notin ChainKinds \cup TaggedKinds \cup Bucket4Kinds
  <2>1. h.kind \in BucketKinds
    BY <1>5
  <2>2. c \in {Newest(h, key) : key \in {Key5(i) : i \in Rest}}
    BY <1>5 DEF Candidates, Rest
  <2>3. \A i \in Rest : Key5(i) \in LiveKeys
    BY <1>1, <1>5 DEF KeyAt
  <2> QED
    BY <1>5, <2>1, <2>2, <2>3, BucketCandidates
<1> QED
  BY <1>2, <1>3, <1>4, <1>5

(* A search of a bucket or a chain meets positions before its own, from    *)
(* newer to older: "backward == 0 is impossible here" (hash6.go), and the  *)
(* loops that end at the first candidate outside of the window lose none   *)
(* within it.                                                              *)
THEOREM CandidatesStayInOrder == Spec => []CandidatesDescend
<1>1. OrderInv => CandidatesDescend
  BY OrderShows
<1> QED
  BY <1>1, OrderStays, PTL

(* The matchers' constants. *)
AllParams ==
    {QuickParams, Params2, Params3, Params4, Params5, Params5b, Params5b8,
     Params5b8NoWrap, Params6, Params6u, Params6b, Params6b8,
     Params40, Params41, Params42}

(* The constants of a profile are one of the matchers'. *)
LEMMA ProfileParams ==
  ASSUME NEW P, NEW fam, NEW kind, Profile(P, fam, kind) PROVE P \in AllParams
BY DEF Profile, AllParams

LEMMA ParamsCached == ASSUME NEW P \in AllParams PROVE P.cached \in {4, 10, 16}
<1>a. QuickParams.cached = 4 /\ "cached" \in DOMAIN QuickParams
  BY DEF QuickParams
<1>b. Params2.cached = 4 /\ "cached" \in DOMAIN Params2
  BY <1>a DEF Params2
<1>1. Params3.cached = 4 /\ Params4.cached = 4
  BY <1>a, <1>b DEF Params3, Params4
<1>2. Params5.cached = 4 /\ "cached" \in DOMAIN Params5
  BY DEF Params5
<1>3. Params5b.cached = 10
  BY <1>2 DEF Params5b
<1>3a. Params5b8.cached = 16
  BY <1>2 DEF Params5b8
<1>3b. "cached" \in DOMAIN Params5b8
  BY <1>2 DEF Params5b8
<1>4. Params5b8NoWrap.cached = 16
  BY <1>3a, <1>3b DEF Params5b8NoWrap
<1>5. Params40.cached = 4 /\ Params41.cached = 10 /\ Params42.cached = 16
  BY <1>2 DEF Params40, Params41, Params42
<1>6. Params6.cached = 4 /\ "cached" \in DOMAIN Params6
  BY <1>2 DEF Params6
<1>7. Params6u.cached = 4 /\ Params6b.cached = 10 /\ Params6b8.cached = 16
  BY <1>6 DEF Params6u, Params6b, Params6b8
<1> QED
  BY <1>1, <1>2, <1>a, <1>b, <1>3, <1>3a, <1>4, <1>5, <1>6, <1>7 DEF AllParams

-----------------------------------------------------------------------------
(* The table of distances a matcher keeps is the expansion of the cache as *)
(* long as it is in its loop.                                              *)
Fields == DOMAIN s = StreamFields /\ DOMAIN l = LocalFields

CacheInv ==
    /\ Fields
    /\ Quad(s.distCache)
    /\ pc \in Inside => \E n \in {4, 10, 16} : l.cache = Expand(s.distCache, n)

(* The table of distances at the beginning. *)
LEMMA CacheInit == ASSUME Init PROVE CacheInv
BY DEF Init, CacheInv, Fields, StreamFields, LocalFields, Quad, Inside

(* What a step leaves alone. *)
Kept == /\ s'.distCache = s.distCache /\ l'.cache = l.cache
        /\ DOMAIN s' = DOMAIN s /\ DOMAIN l' = DOMAIN l

(* A step that leaves both alone. *)
LEMMA CacheKept ==
  ASSUME CacheInv, Kept, pc' \in Inside => pc \in Inside
  PROVE  CacheInv'
BY DEF CacheInv, Kept, Fields, StreamFields, LocalFields, Quad, Inside

(* The steps of the stream, the look-up in the dictionaries, a command,    *)
(* the rest of the loop and its end keep the two in step.                  *)
LEMMA CacheStream == ASSUME CacheInv, StreamStep PROVE CacheInv'
<1>0. Fields
  BY DEF CacheInv
<1>1. ASSUME NEW n \in BlockSizes, NextBlock(n) PROVE Kept /\ pc' \notin Inside
  BY <1>0, <1>1 DEF NextBlock, Kept, Inside, Fields, StreamFields, LocalFields
<1>2. ASSUME ChooseHasher PROVE Kept /\ pc' \notin Inside
  BY <1>2 DEF ChooseHasher, Kept, Inside
<1>3. ASSUME ExtendLastCommand PROVE Kept /\ pc' \notin Inside
  BY <1>0, <1>3 DEF ExtendLastCommand, Kept, Inside, Fields, StreamFields, LocalFields
<1>4. ASSUME MaybePromoteHasher PROVE Kept /\ pc' \notin Inside
  BY <1>4 DEF MaybePromoteHasher, Kept, Inside
<1>5. ASSUME Merge PROVE Kept /\ pc' \notin Inside
  BY <1>0, <1>5 DEF Merge, Kept, Inside, Fields, StreamFields
<1>6. ASSUME CloseMetablock PROVE Kept /\ pc' \notin Inside
  BY <1>0, <1>6 DEF CloseMetablock, Kept, Inside, Fields, StreamFields
<1>7. ASSUME WriteMetablock PROVE Kept /\ pc' \notin Inside
  BY <1>0, <1>7 DEF WriteMetablock, Kept, Inside, Fields, StreamFields
<1> QED
  BY <1>1, <1>2, <1>3, <1>4, <1>5, <1>6, <1>7, CacheKept DEF StreamStep

LEMMA CacheConsult == ASSUME CacheInv, Consult PROVE CacheInv'
<1>1. Fields /\ pc \in Inside
  BY DEF CacheInv, Consult, Inside
<1>2. PICK w : /\ s' = [s EXCEPT !.d = w]
               /\ \E r : l' = [l EXCEPT !.found = r]
  BY DEF Consult
<1>3. Kept
  BY <1>1, <1>2 DEF Kept, Fields, StreamFields, LocalFields
<1> QED
  BY <1>1, <1>3, CacheKept

LEMMA CacheEmit ==
  ASSUME CacheInv, NEW P \in AllParams, NEW histo, NEW hh, Emitting(P, histo, hh)
  PROVE  CacheInv'
<1>1. PICK n \in {4, 10, 16} : l.cache = Expand(s.distCache, n)
  BY DEF CacheInv, Emitting, Inside
<1>2. Quad(s.distCache) /\ Fields
  BY DEF CacheInv
<1>3. P.cached \in {4, 10, 16}
  BY ParamsCached
<1> DEFINE after == IF ~P.pushed THEN Expand(CacheAfter, P.cached)
                    ELSE IF Pushes THEN Push(l.cache, l.sr.distance) ELSE l.cache
<1>4. s'.distCache = CacheAfter /\ l'.cache = after /\ Fields'
  BY <1>2 DEF Emitting, Fields, StreamFields, LocalFields
<1>5. Quad(CacheAfter)
  BY <1>2, PushInStep DEF CacheAfter
<1>6. CASE ~P.pushed
  BY <1>3, <1>4, <1>5, <1>6 DEF CacheInv
<1>7. CASE P.pushed /\ Pushes
  <2>1. Push(l.cache, l.sr.distance) = Expand(Push(s.distCache, l.sr.distance), n)
    BY <1>1, <1>2, PushInStep
  <2> QED
    BY <1>4, <1>5, <1>7, <2>1 DEF CacheInv, CacheAfter
<1>8. CASE P.pushed /\ ~Pushes
  BY <1>1, <1>4, <1>5, <1>8 DEF CacheInv, CacheAfter
<1> QED
  BY <1>6, <1>7, <1>8

LEMMA CacheLoop ==
  ASSUME CacheInv, NEW P \in AllParams, NEW fam, LoopStep(P, fam) PROVE CacheInv'
<1>0. Fields
  BY DEF CacheInv
<1>1. ASSUME NEW hh, NEW noWrap, Enter(P, hh, noWrap) PROVE CacheInv'
  <2>1. l'.cache = Expand(s.distCache, P.cached) /\ s' = s /\ Fields'
    BY <1>0, <1>1 DEF Enter, Fields, StreamFields, LocalFields
  <2> QED
    BY <2>1, ParamsCached DEF CacheInv
<1>2. ASSUME NEW ahead, NEW m, Looking(P, ahead, m) PROVE CacheInv'
  <2>1. Kept /\ pc \in Inside
    BY <1>0, <1>2 DEF Looking, Look, Kept, Fields, StreamFields, LocalFields, Inside
  <2> QED
    BY <2>1, CacheKept
<1>3. ASSUME FoundFirst PROVE CacheInv'
  <2>1. Kept /\ pc \in Inside
    BY <1>0, <1>3 DEF FoundFirst, Kept, Fields, StreamFields, LocalFields, Inside
  <2> QED
    BY <2>1, CacheKept
<1>4. ASSUME FoundNext(P) PROVE CacheInv'
  <2>1. Kept /\ pc \in Inside
    BY <1>0, <1>4 DEF FoundNext, Kept, Fields, StreamFields, LocalFields, Inside
  <2> QED
    BY <2>1, CacheKept
<1>5. ASSUME NEW histo, NEW hh, Emitting(P, histo, hh) PROVE CacheInv'
  BY <1>5, CacheEmit
<1>6. ASSUME NEW hh, Striding(P, hh) PROVE CacheInv'
  <2>1. Kept /\ pc \in Inside
    BY <1>0, <1>6 DEF Striding, Kept, Fields, StreamFields, LocalFields, Inside
  <2> QED
    BY <2>1, CacheKept
<1> QED
  BY <1>1, <1>2, <1>3, <1>4, <1>5, <1>6 DEF LoopStep, Emitted

LEMMA CacheFinish ==
  ASSUME CacheInv, NEW P, NEW hh, Finishing(P, hh) PROVE CacheInv'
<1>1. Kept /\ pc \in Inside
  BY DEF CacheInv, Finishing, Kept, Fields, StreamFields, LocalFields, Inside
<1> QED
  BY <1>1, CacheKept

(* Every step keeps the two in step. *)
LEMMA CacheNext == CacheInv /\ [Next]_vars => CacheInv'
<1> SUFFICES ASSUME CacheInv, [Next]_vars PROVE CacheInv'
  OBVIOUS
<1>1. CASE UNCHANGED vars
  BY <1>1 DEF vars, loopVars, CacheInv, Fields, StreamFields, LocalFields, Quad
<1>2. CASE Next
  <2>1. CASE MatcherStep
    BY <2>1, ProfileParams, CacheLoop DEF MatcherStep
  <2>2. CASE FinishStep
    BY <2>2, CacheFinish DEF FinishStep
  <2> QED
    BY <1>1, <1>2, <2>1, <2>2, NextShape, CacheStream, CacheConsult
<1> QED
  BY <1>1, <1>2

(* The table of four, ten or sixteen distances a matcher keeps, pushed to  *)
(* on the way or built anew, is the expansion of the cache of the stream   *)
(* at every search (TryCache and updateDistanceCache in the hashers).      *)
THEOREM CacheStaysInSync == Spec => []LocalCacheInSync
<1>1. CacheInv => LocalCacheInSync
  <2> SUFFICES ASSUME CacheInv, pc \in {"search", "lazy"}
               PROVE  l.cache = Expand(s.distCache, Len(l.cache))
    BY DEF LocalCacheInSync
  <2>1. PICK n \in {4, 10, 16} : l.cache = Expand(s.distCache, n)
    BY DEF CacheInv, Inside
  <2>2. Len(Expand(s.distCache, n)) = n
    BY ExpandQuad DEF CacheInv
  <2> QED
    BY <2>1, <2>2
<1> QED
  BY <1>1, CacheInit, CacheNext, PTL DEF Spec
===============================================================================
