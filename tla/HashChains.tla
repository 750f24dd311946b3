----------------------------- MODULE HashChains -----------------------------
(***************************************************************************)
(* The chain matchers of levels 5 to 9 for windows of at most 64 KiB: a    *)
(* key has the position stored last (addr) and the slot of that position   *)
(* (head), and a slot the distance to the position before with the same    *)
(* key and that one's slot.  Slots are used in turn and forget: a chain    *)
(* may run into slots written for another key, and a table of the pool is  *)
(* never cleared as a whole.  What ends a walk is the sum of the distances *)
(* that outgrows the window, so none of them may be zero.                  *)
(***************************************************************************)
EXTENDS HashLongBuckets

CONSTANTS
    ChainKeys,     \* bucketSize
    TinyHashes,    \* 1 << 8
    ChainPartial,  \* bucketSize >> 6, for h41 bucketSize >> 3
    NumBanks,      \* h42NumBanks, 512
    BankSize,      \* h42BankSize, 512
    Hops           \* maxHops of a level

ASSUME HashChainsAssumption ==
    /\ ChainKeys \in Nat \ {0} /\ TinyHashes \in Nat \ {0} /\ ChainPartial \in Nat
    /\ NumBanks \in Nat \ {0} /\ BankSize \in Nat \ {0} /\ BankSize <= U16Size
    /\ \A level \in 5 .. 9 : Hops[level] \in Nat
    /\ Window < U16Size - 1

(* A zeroed addr is the one's complement of a position farther than all. *)
Never == -1
Since(pos, addr) == IF addr = Never THEN 2 * U16Size ELSE pos - addr

(* A table of the pool, its chains those of another stream. *)
ChainTable(kind, addr, maxHops, banks, size) ==
    [kind     |-> kind, ready |-> FALSE, everWrapped |-> FALSE,
     addr     |-> [key \in 0 .. ChainKeys - 1 |-> addr],
     head     |-> [key \in 0 .. ChainKeys - 1 |-> 0],
     tinyHash |-> [p \in 0 .. U16Size - 1 |-> 0],
     banks    |-> [b \in 0 .. banks - 1 |->
                     [k \in 0 .. size - 1 |-> [delta |-> addr + 1, next |-> 0]]],
     freeSlotIdx |-> [b \in 0 .. banks - 1 |-> 0],
     maxHops  |-> maxHops]

ChainKey(i) == HashAt(i, 4, ChainKeys)

ChainStore(hh, pos) ==
    LET key  == ChainKey(Masked(pos))
        bank == key % Cardinality(DOMAIN hh.banks)
        idx  == hh.freeSlotIdx[bank] % Cardinality(DOMAIN hh.banks[bank])
    IN [hh EXCEPT !.banks[bank][idx] =
                     [delta |-> Min({Since(pos, hh.addr[key]), U16Size - 1}),
                      next  |-> hh.head[key]],
                  !.freeSlotIdx[bank] = (@ + 1) % U16Size,
                  !.tinyHash[pos % U16Size] = key % TinyHashes,
                  !.addr[key] = pos,
                  !.head[key] = idx]

(* A short one-shot input leaves the heads. *)
ChainReset(hh, threshold) ==
    LET partial == s.processed = 0 /\ l.last /\ l.posEnd <= threshold
        keys    == {ChainKey(i) : i \in 0 .. l.posEnd - 1}
    IN [hh EXCEPT !.ready = TRUE,
                  !.addr = [key \in DOMAIN @ |->
                              IF partial /\ key \notin keys THEN @[key] ELSE Never],
                  !.head = [key \in DOMAIN @ |-> IF partial THEN @[key] ELSE 0],
                  !.tinyHash = [p \in DOMAIN @ |-> 0],
                  !.freeSlotIdx = [b \in DOMAIN @ |-> 0]]

-----------------------------------------------------------------------------
(* The entries of the distance cache; but for the first, the position must *)
(* have been stored with a like hash.                                      *)
TryCacheTiny(first, last, cur, maxLength, maxDistance, best) ==
    LET i == Masked(cur)
        Try[k \in first - 1 .. last] ==
          IF k = first - 1 THEN best
          ELSE LET r  == Try[k - 1]
                   d  == l.cache[k]
                   ml == MatchLen(Masked(cur - d), i, maxLength)
                   sc == ScoreUsingLast(ml) - (IF k = 1 THEN 0 ELSE Penalty(k - 1))
               IN IF /\ d \in 1 .. maxDistance
                     /\ k > 1 => h.tinyHash[(cur - d) % U16Size]
                                   = ChainKey(i) % TinyHashes
                     /\ ml >= 2 /\ sc > r.score
                  THEN Match(ml, d, sc) ELSE r
    IN Try[last]

(* The chain of the key as it was before cur, read from the slots of hh. *)
WalkChain(hh, cur, maxLength, maxDistance, best) ==
    LET i     == Masked(cur)
        key   == ChainKey(i)
        slots == hh.banks[key % Cardinality(DOMAIN hh.banks)]
        Walk[k \in 0 .. h.maxHops] ==
          IF k = 0
          THEN [sr |-> best, len |-> Max({best.len, 3}), slot |-> h.head[key],
                backward |-> 0, delta |-> Since(cur, h.addr[key])]
          ELSE LET r    == Walk[k - 1]
                   back == r.backward + r.delta
                   p    == Masked(cur - back)
                   on   == [r EXCEPT !.backward = back,
                                     !.slot  = slots[r.slot].next,
                                     !.delta = slots[r.slot].delta]
                   ml   == MatchLen(p, i, maxLength)
                   sc   == Score(ml, back)
               IN IF back > maxDistance THEN r
                  ELSE IF /\ i + r.len < RingSize /\ p + r.len < RingSize
                          /\ SameEnd(p, i, r.len) /\ ml >= 4 /\ sc > r.sr.score
                  THEN [on EXCEPT !.sr = Match(ml, back, sc), !.len = ml]
                  ELSE on
    IN Walk[h.maxHops].sr

(* The first write, while it is short, has a buffer of its own size. *)
SmallBuf == s.processed = 0 /\ l.posEnd < RingTail

(* The table after a search, from the slots of hh. *)
FoundInChain(hh, cur, maxLength, maxDistance, best) ==
    [sr |-> WalkChain(hh, cur, maxLength, maxDistance, best),
     words |-> 2, h |-> ChainStore(h, cur)]

Params40 == Params5
Params41 == [Params40 EXCEPT !.cached = 10]
Params42 == [Params40 EXCEPT !.cached = 16, !.window = 8 * RandomWindow]

-----------------------------------------------------------------------------
(* h40, levels 5 and 6.  The position is stored before the walk, which     *)
(* reads the old chain; the version for a short buffer stores it after.    *)
H40Store(hh, pos) == ChainStore(hh, pos)
H40Reset(hh) == ChainReset(hh, ChainPartial)
H40Begin == h.kind = "h40" /\ Begin(Params40, H40Reset, H40Store, FALSE)
H40TryLast(cur, maxLength, maxDistance, best) ==
    TryCacheTiny(1, 4, cur, maxLength, maxDistance, best)
H40FindSmallBuf(cur, maxLength, maxDistance, best) ==
    FoundInChain(h, cur, maxLength, maxDistance,
        TryCacheTiny(1, 4, cur, maxLength, maxDistance, best))
H40Find(cur, maxLength, maxDistance, best) ==
    IF SmallBuf THEN H40FindSmallBuf(cur, maxLength, maxDistance, best)
    ELSE FoundInChain(H40Store(h, cur), cur, maxLength, maxDistance,
        H40TryLast(cur, maxLength, maxDistance, best))
H40Search == h.kind = "h40" /\ Search(Params40, H40Find)
H40Lazy == h.kind = "h40" /\ Lazy(Params40, H40Find)
H40Emit == h.kind = "h40" /\ Emit(Params40, TRUE, H40Store)
H40Literal == h.kind = "h40" /\ Literal(Params40, H40Store)

H40Next == H40Begin \/ H40Search \/ H40Lazy \/ H40Emit \/ H40Literal

-----------------------------------------------------------------------------
(* h41, levels 7 and 8. *)
H41Store(hh, pos) == ChainStore(hh, pos)
H41Reset(hh) == ChainReset(hh, 8 * ChainPartial)
H41Begin == h.kind = "h41" /\ Begin(Params41, H41Reset, H41Store, FALSE)
H41TryLast(cur, maxLength, maxDistance, best) ==
    TryCacheTiny(1, 4, cur, maxLength, maxDistance, best)
H41TryNear(cur, maxLength, maxDistance, best) ==
    TryCacheTiny(5, 10, cur, maxLength, maxDistance, best)
H41FindSmallBuf(cur, maxLength, maxDistance, best) ==
    FoundInChain(H41Store(h, cur), cur, maxLength, maxDistance,
        TryCacheTiny(1, 10, cur, maxLength, maxDistance, best))
H41Find(cur, maxLength, maxDistance, best) ==
    IF SmallBuf THEN H41FindSmallBuf(cur, maxLength, maxDistance, best)
    ELSE FoundInChain(H41Store(h, cur), cur, maxLength, maxDistance,
        H41TryNear(cur, maxLength, maxDistance,
        H41TryLast(cur, maxLength, maxDistance, best)))
H41Search == h.kind = "h41" /\ Search(Params41, H41Find)
H41Lazy == h.kind = "h41" /\ Lazy(Params41, H41Find)
H41Emit == h.kind = "h41" /\ Emit(Params41, TRUE, H41Store)
H41Literal == h.kind = "h41" /\ Literal(Params41, H41Store)

H41Next == H41Begin \/ H41Search \/ H41Lazy \/ H41Emit \/ H41Literal

-----------------------------------------------------------------------------
(* h42, level 9: the keys share banks of slots, and a walk may enter slots *)
(* written since for another key.                                          *)
H42Store(hh, pos) == ChainStore(hh, pos)
H42Reset(hh) == ChainReset(hh, ChainPartial)
H42Begin == h.kind = "h42" /\ Begin(Params42, H42Reset, H42Store, FALSE)
H42TryCache(cur, maxLength, maxDistance, best) ==
    TryCacheTiny(1, 16, cur, maxLength, maxDistance, best)
H42Find(cur, maxLength, maxDistance, best) ==
    FoundInChain(h, cur, maxLength, maxDistance,
                 H42TryCache(cur, maxLength, maxDistance, best))
H42Search == h.kind = "h42" /\ Search(Params42, H42Find)
H42Lazy == h.kind = "h42" /\ Lazy(Params42, H42Find)
H42Emit == h.kind = "h42" /\ Emit(Params42, TRUE, H42Store)
H42Literal == h.kind = "h42" /\ Literal(Params42, H42Store)

H42Next == H42Begin \/ H42Search \/ H42Lazy \/ H42Emit \/ H42Literal

-----------------------------------------------------------------------------
ChainKinds == {"h40", "h41", "h42"}

ChainFinish == h.kind \in ChainKinds /\ Finish(Params40, Same)

ChainNext == H40Next \/ H41Next \/ H42Next \/ ChainFinish
=============================================================================
