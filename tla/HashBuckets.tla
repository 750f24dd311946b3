---------------------------- MODULE HashBuckets ----------------------------
(***************************************************************************)
(* The bucket matchers of levels 5 to 9: a bucket is a ring of the latest  *)
(* positions with one hash key and a 16-bit count of the positions ever    *)
(* stored in it.  A search tries the distances used last, then the bucket, *)
(* newest position first, until one is out of the window; then the         *)
(* dictionaries.  The matchers here hash four bytes; HashLongBuckets has   *)
(* those of long streams.                                                  *)
(***************************************************************************)
EXTENDS HashQuick

CONSTANTS
    BucketKeys,     \* bucketSize
    BlockSize,      \* slots of a bucket: 16 to 256
    CounterSize,    \* 1 << 16, where a count wraps
    BucketPartial   \* bucketSize >> 6

ASSUME HashBucketsAssumption ==
    /\ BucketKeys \in Nat \ {0} /\ BucketPartial \in Nat
    /\ BlockSize \in Nat \ {0} /\ CounterSize \in Nat
    /\ CounterSize % BlockSize = 0 /\ CounterSize > BlockSize

Slots == 0 .. BlockSize - 1

(* A table of the pool: n positions in every bucket, all the same. *)
BucketTable(kind, n, pos) ==
    [kind   |-> kind, ready |-> FALSE, everWrapped |-> FALSE,
     num    |-> [key \in 0 .. BucketKeys - 1 |-> n],
     slots  |-> [key \in 0 .. BucketKeys - 1 |-> [k \in Slots |-> pos]],
     tags   |-> [key \in 0 .. BucketKeys - 1 |-> [k \in Slots |-> 0]],
     stores |-> 0, rejects |-> 0, busyCalls |-> n]

-----------------------------------------------------------------------------
Key4(i) == HashAt(i, 4, BucketKeys)

BucketStore(hh, key, pos) ==
    LET n == hh.num[key]
    IN [hh EXCEPT !.slots[key][n % BlockSize] = pos,
                  !.num[key] = (n + 1) % CounterSize]

Bucket4Store(hh, pos, masked, narrow) ==
    BucketStore(hh, Key4(IndexOf(masked, pos)), Fit(narrow, pos))

(* The slots keep the positions of the stream before, only the counts are  *)
(* cleared; for a short one-shot input, those of its own keys.             *)
BucketReset(hh, keys, empty) ==
    LET partial == s.processed = 0 /\ l.last /\ l.posEnd <= BucketPartial
    IN [hh EXCEPT !.ready = TRUE, !.everWrapped = FALSE,
                  !.stores = 0, !.rejects = 0, !.busyCalls = 0,
                  !.num = [key \in DOMAIN @ |->
                             IF partial /\ key \notin keys THEN @[key] ELSE empty]]

(* The positions of a bucket, newest first. *)
Newest(hh, key) ==
    LET n == hh.num[key]
    IN [j \in 1 .. Min({n, BlockSize}) |-> hh.slots[key][(n - j) % BlockSize]]

-----------------------------------------------------------------------------
(* The entries first to last of the distance cache.  With the mask, a      *)
(* match is passed over whose probe lies behind the end of the ring.       *)
TryCache(masked, first, last, cur, maxLength, maxDistance, best) ==
    LET i == IndexOf(masked, cur)
        Try[k \in first - 1 .. last] ==
          IF k = first - 1 THEN best
          ELSE LET r  == Try[k - 1]
                   d  == l.cache[k]
                   p  == IndexOf(masked, cur - d)
                   ml == MatchLen(p, i, maxLength)
                   sc == ScoreUsingLast(ml) - (IF k = 1 THEN 0 ELSE Penalty(k - 1))
               IN IF /\ d \in 1 .. maxDistance
                     /\ masked => p < RingLimit(i, r.len)
                     /\ ByteAt(p + r.len) = ByteAt(i + r.len)
                     /\ ml >= (IF k <= 2 THEN 2 ELSE 3)
                     /\ sc > r.score
                  THEN Match(ml, d, sc) ELSE r
    IN Try[last]

(* The positions of the bucket, those at the indices tried, until one is   *)
(* out of the window.                                                      *)
ScanBucket(masked, entries, tried, cur, maxLength, maxDistance, best) ==
    LET i == IndexOf(masked, cur)
        Over(j, len) == masked /\ j + len >= RingSize
        Scan[k \in 0 .. Len(entries)] ==
          IF k = 0 THEN [sr |-> best, len |-> Max({best.len, 3}), stop |-> FALSE]
          ELSE LET r    == Scan[k - 1]
                   prev == entries[k]
                   p    == IndexOf(masked, prev)
                   ml   == MatchLen(p, i, maxLength)
                   sc   == Score(ml, cur - prev)
               IN IF k \notin tried THEN r
                  ELSE IF r.stop \/ Over(i, r.len) \/ prev < cur - maxDistance
                  THEN [r EXCEPT !.stop = TRUE]
                  ELSE IF /\ ~Over(p, r.len) /\ SameEnd(p, i, r.len)
                          /\ ml >= 4 /\ sc > r.sr.score
                  THEN [r EXCEPT !.sr = Match(ml, cur - prev, sc), !.len = ml]
                  ELSE r
    IN Scan[Len(entries)].sr

(* The bucket after the cache; the position searched is stored last, in    *)
(* the matcher after.                                                      *)
FindInBucket(after, masked, entries, cur, maxLength, maxDistance, best) ==
    [sr |-> ScanBucket(masked, entries, 1 .. Len(entries), cur,
                       maxLength, maxDistance, best),
     words |-> 2, h |-> after]

-----------------------------------------------------------------------------
WithinRing == l.posEnd <= RingSize - 1

Params5   == [htl |-> 4, jump4 |-> 4, jump2 |-> 3, window |-> RandomWindow,
              eager |-> FALSE, histo |-> FALSE,
              cached |-> 4, pushed |-> FALSE, counting |-> FALSE, compound |-> TRUE]
Params5b  == [Params5 EXCEPT !.cached = 10, !.pushed = TRUE]
Params5b8 == [Params5 EXCEPT !.cached = 16, !.window = 8 * RandomWindow]
Params5b8NoWrap == [Params5b8 EXCEPT !.pushed = TRUE]

-----------------------------------------------------------------------------
(* h5, level 5. *)
H5Store(hh, pos) == Bucket4Store(hh, pos, TRUE, FALSE)
H5Reset(hh) == BucketReset(hh, {Key4(i) : i \in 0 .. l.posEnd - 1}, 0)
H5Begin ==
    h.kind = "h5" /\ Begin(Params5, H5Reset, H5Store, WithinRing)
H5TryLast(cur, maxLength, maxDistance, best) ==
    TryCache(TRUE, 1, 4, cur, maxLength, maxDistance, best)
H5Find(cur, maxLength, maxDistance, best) ==
    LET c1 == H5TryLast(cur, maxLength, maxDistance, best)
    IN FindInBucket(H5Store(h, cur), TRUE, Newest(h, Key4(Masked(cur))),
                    cur, maxLength, maxDistance, c1)
H5Search == Running("h5", FALSE) /\ Search(Params5, H5Find)
H5Lazy == Running("h5", FALSE) /\ Lazy(Params5, H5Find)
H5Emit == Running("h5", FALSE) /\ Emit(Params5, TRUE, H5Store)
H5Literal == Running("h5", FALSE) /\ Literal(Params5, H5Store)

H5StoreNoWrap(hh, pos) == Bucket4Store(hh, pos, FALSE, FALSE)
H5TryLastNoWrap(cur, maxLength, maxDistance, best) ==
    TryCache(FALSE, 1, 4, cur, maxLength, maxDistance, best)
H5FindNoWrap(cur, maxLength, maxDistance, best) ==
    LET c1 == H5TryLastNoWrap(cur, maxLength, maxDistance, best)
    IN FindInBucket(H5StoreNoWrap(h, cur), FALSE, Newest(h, Key4(Direct(cur))),
                    cur, maxLength, maxDistance, c1)
H5SearchNoWrap == Running("h5", TRUE) /\ Search(Params5, H5FindNoWrap)
H5LazyNoWrap == Running("h5", TRUE) /\ Lazy(Params5, H5FindNoWrap)
H5EmitNoWrap == Running("h5", TRUE) /\ Emit(Params5, FALSE, H5StoreNoWrap)
H5LiteralNoWrap == Running("h5", TRUE) /\ Literal(Params5, H5StoreNoWrap)

H5Next ==
    \/ H5Begin \/ H5Search \/ H5Lazy \/ H5Emit \/ H5Literal
    \/ H5SearchNoWrap \/ H5LazyNoWrap \/ H5EmitNoWrap \/ H5LiteralNoWrap

-----------------------------------------------------------------------------
(* h5b5, level 6. *)
H5b5Store(hh, pos) == Bucket4Store(hh, pos, TRUE, FALSE)
H5b5Reset(hh) == BucketReset(hh, {Key4(i) : i \in 0 .. l.posEnd - 1}, 0)
H5b5Begin ==
    h.kind = "h5b5" /\ Begin(Params5, H5b5Reset, H5b5Store, WithinRing)
H5b5TryLast(cur, maxLength, maxDistance, best) ==
    TryCache(TRUE, 1, 4, cur, maxLength, maxDistance, best)
H5b5Find(cur, maxLength, maxDistance, best) ==
    LET c1 == H5b5TryLast(cur, maxLength, maxDistance, best)
    IN FindInBucket(H5b5Store(h, cur), TRUE, Newest(h, Key4(Masked(cur))),
                    cur, maxLength, maxDistance, c1)
H5b5Search == Running("h5b5", FALSE) /\ Search(Params5, H5b5Find)
H5b5Lazy == Running("h5b5", FALSE) /\ Lazy(Params5, H5b5Find)
H5b5Emit == Running("h5b5", FALSE) /\ Emit(Params5, TRUE, H5b5Store)
H5b5Literal == Running("h5b5", FALSE) /\ Literal(Params5, H5b5Store)

H5b5StoreNoWrap(hh, pos) == Bucket4Store(hh, pos, FALSE, FALSE)
H5b5TryLastNoWrap(cur, maxLength, maxDistance, best) ==
    TryCache(FALSE, 1, 4, cur, maxLength, maxDistance, best)
H5b5FindNoWrap(cur, maxLength, maxDistance, best) ==
    LET c1 == H5b5TryLastNoWrap(cur, maxLength, maxDistance, best)
    IN FindInBucket(H5b5StoreNoWrap(h, cur), FALSE, Newest(h, Key4(Direct(cur))),
                    cur, maxLength, maxDistance, c1)
H5b5SearchNoWrap == Running("h5b5", TRUE) /\ Search(Params5, H5b5FindNoWrap)
H5b5LazyNoWrap == Running("h5b5", TRUE) /\ Lazy(Params5, H5b5FindNoWrap)
H5b5EmitNoWrap ==
    Running("h5b5", TRUE) /\ Emit(Params5, FALSE, H5b5StoreNoWrap)
H5b5LiteralNoWrap == Running("h5b5", TRUE) /\ Literal(Params5, H5b5StoreNoWrap)

H5b5Next ==
    \/ H5b5Begin \/ H5b5Search \/ H5b5Lazy \/ H5b5Emit \/ H5b5Literal
    \/ H5b5SearchNoWrap \/ H5b5LazyNoWrap \/ H5b5EmitNoWrap \/ H5b5LiteralNoWrap

-----------------------------------------------------------------------------
(* h5b6 and h5b7, levels 7 and 8: one type with two sizes of a bucket.    *)
(* The table of ten distances is kept up to date on the way.              *)
H5bStore(hh, pos) == Bucket4Store(hh, pos, TRUE, FALSE)
H5bReset(hh) == BucketReset(hh, {Key4(i) : i \in 0 .. l.posEnd - 1}, 0)
H5bBegin ==
    h.kind = "h5b" /\ Begin(Params5b, H5bReset, H5bStore, WithinRing)
H5bTryLast(cur, maxLength, maxDistance, best) ==
    TryCache(TRUE, 1, 4, cur, maxLength, maxDistance, best)
H5bTryNear(cur, maxLength, maxDistance, best) ==
    TryCache(TRUE, 5, 10, cur, maxLength, maxDistance, best)
H5bFind(cur, maxLength, maxDistance, best) ==
    LET c1 == H5bTryLast(cur, maxLength, maxDistance, best)
        c2 == H5bTryNear(cur, maxLength, maxDistance, c1)
    IN FindInBucket(H5bStore(h, cur), TRUE, Newest(h, Key4(Masked(cur))),
                    cur, maxLength, maxDistance, c2)
H5bSearch == Running("h5b", FALSE) /\ Search(Params5b, H5bFind)
H5bLazy == Running("h5b", FALSE) /\ Lazy(Params5b, H5bFind)
H5bEmit == Running("h5b", FALSE) /\ Emit(Params5b, TRUE, H5bStore)
H5bLiteral == Running("h5b", FALSE) /\ Literal(Params5b, H5bStore)

H5bStoreNoWrap(hh, pos) == Bucket4Store(hh, pos, FALSE, FALSE)
H5bTryLastNoWrap(cur, maxLength, maxDistance, best) ==
    TryCache(FALSE, 1, 4, cur, maxLength, maxDistance, best)
H5bTryNearNoWrap(cur, maxLength, maxDistance, best) ==
    TryCache(FALSE, 5, 10, cur, maxLength, maxDistance, best)
H5bFindNoWrap(cur, maxLength, maxDistance, best) ==
    LET c1 == H5bTryLastNoWrap(cur, maxLength, maxDistance, best)
        c2 == H5bTryNearNoWrap(cur, maxLength, maxDistance, c1)
    IN FindInBucket(H5bStoreNoWrap(h, cur), FALSE, Newest(h, Key4(Direct(cur))),
                    cur, maxLength, maxDistance, c2)
H5bSearchNoWrap == Running("h5b", TRUE) /\ Search(Params5b, H5bFindNoWrap)
H5bLazyNoWrap == Running("h5b", TRUE) /\ Lazy(Params5b, H5bFindNoWrap)
H5bEmitNoWrap == Running("h5b", TRUE) /\ Emit(Params5b, FALSE, H5bStoreNoWrap)
H5bLiteralNoWrap == Running("h5b", TRUE) /\ Literal(Params5b, H5bStoreNoWrap)

H5bNext ==
    \/ H5bBegin \/ H5bSearch \/ H5bLazy \/ H5bEmit \/ H5bLiteral
    \/ H5bSearchNoWrap \/ H5bLazyNoWrap \/ H5bEmitNoWrap \/ H5bLiteralNoWrap

-----------------------------------------------------------------------------
(* h5b6u16, level 7 for short streams: 16-bit slots, and one loop, which   *)
(* has no mask because the matcher is replaced before the ring can wrap.   *)
H5b6u16Store(hh, pos) == Bucket4Store(hh, pos, TRUE, TRUE)
H5b6u16Reset(hh) == BucketReset(hh, {Key4(i) : i \in 0 .. l.posEnd - 1}, 0)
H5b6u16Begin ==
    h.kind = "h5b6u16" /\ Begin(Params5b, H5b6u16Reset, H5b6u16Store, TRUE)

H5b6u16StoreNoWrap(hh, pos) == Bucket4Store(hh, pos, FALSE, TRUE)
H5b6u16TryLastNoWrap(cur, maxLength, maxDistance, best) ==
    TryCache(FALSE, 1, 4, cur, maxLength, maxDistance, best)
H5b6u16TryNearNoWrap(cur, maxLength, maxDistance, best) ==
    TryCache(FALSE, 5, 10, cur, maxLength, maxDistance, best)
H5b6u16FindNoWrap(cur, maxLength, maxDistance, best) ==
    LET c1 == H5b6u16TryLastNoWrap(cur, maxLength, maxDistance, best)
        c2 == H5b6u16TryNearNoWrap(cur, maxLength, maxDistance, c1)
    IN FindInBucket(H5b6u16StoreNoWrap(h, cur), FALSE, Newest(h, Key4(Direct(cur))),
                    cur, maxLength, maxDistance, c2)
H5b6u16SearchNoWrap ==
    Running("h5b6u16", TRUE) /\ Search(Params5b, H5b6u16FindNoWrap)
H5b6u16LazyNoWrap ==
    Running("h5b6u16", TRUE) /\ Lazy(Params5b, H5b6u16FindNoWrap)
H5b6u16EmitNoWrap ==
    Running("h5b6u16", TRUE) /\ Emit(Params5b, FALSE, H5b6u16StoreNoWrap)
H5b6u16LiteralNoWrap ==
    Running("h5b6u16", TRUE) /\ Literal(Params5b, H5b6u16StoreNoWrap)

H5b6u16Next ==
    \/ H5b6u16Begin \/ H5b6u16SearchNoWrap \/ H5b6u16LazyNoWrap
    \/ H5b6u16EmitNoWrap \/ H5b6u16LiteralNoWrap

-----------------------------------------------------------------------------
(* h5b8, level 9. *)
H5b8Store(hh, pos) == Bucket4Store(hh, pos, TRUE, FALSE)
H5b8Reset(hh) == BucketReset(hh, {Key4(i) : i \in 0 .. l.posEnd - 1}, 0)
H5b8Begin ==
    h.kind = "h5b8" /\ Begin(Params5b8, H5b8Reset, H5b8Store, WithinRing)
H5b8TryLast(cur, maxLength, maxDistance, best) ==
    TryCache(TRUE, 1, 4, cur, maxLength, maxDistance, best)
H5b8TryNear(cur, maxLength, maxDistance, best) ==
    TryCache(TRUE, 5, 10, cur, maxLength, maxDistance, best)
H5b8TryNearSecond(cur, maxLength, maxDistance, best) ==
    TryCache(TRUE, 11, 16, cur, maxLength, maxDistance, best)
H5b8Find(cur, maxLength, maxDistance, best) ==
    LET c1 == H5b8TryLast(cur, maxLength, maxDistance, best)
        c2 == H5b8TryNear(cur, maxLength, maxDistance, c1)
        c3 == H5b8TryNearSecond(cur, maxLength, maxDistance, c2)
    IN FindInBucket(H5b8Store(h, cur), TRUE, Newest(h, Key4(Masked(cur))),
                    cur, maxLength, maxDistance, c3)
H5b8Search == Running("h5b8", FALSE) /\ Search(Params5b8, H5b8Find)
H5b8Lazy == Running("h5b8", FALSE) /\ Lazy(Params5b8, H5b8Find)
H5b8Emit == Running("h5b8", FALSE) /\ Emit(Params5b8, TRUE, H5b8Store)
H5b8Literal == Running("h5b8", FALSE) /\ Literal(Params5b8, H5b8Store)

H5b8StoreNoWrap(hh, pos) == Bucket4Store(hh, pos, FALSE, FALSE)
H5b8TryLastNoWrap(cur, maxLength, maxDistance, best) ==
    TryCache(FALSE, 1, 4, cur, maxLength, maxDistance, best)
H5b8TryNearNoWrap(cur, maxLength, maxDistance, best) ==
    TryCache(FALSE, 5, 10, cur, maxLength, maxDistance, best)
H5b8TryNearSecondNoWrap(cur, maxLength, maxDistance, best) ==
    TryCache(FALSE, 11, 16, cur, maxLength, maxDistance, best)
H5b8FindNoWrap(cur, maxLength, maxDistance, best) ==
    LET c1 == H5b8TryLastNoWrap(cur, maxLength, maxDistance, best)
        c2 == H5b8TryNearNoWrap(cur, maxLength, maxDistance, c1)
        c3 == H5b8TryNearSecondNoWrap(cur, maxLength, maxDistance, c2)
    IN FindInBucket(H5b8StoreNoWrap(h, cur), FALSE, Newest(h, Key4(Direct(cur))),
                    cur, maxLength, maxDistance, c3)
H5b8SearchNoWrap ==
    Running("h5b8", TRUE) /\ Search(Params5b8NoWrap, H5b8FindNoWrap)
H5b8LazyNoWrap == Running("h5b8", TRUE) /\ Lazy(Params5b8NoWrap, H5b8FindNoWrap)
H5b8EmitNoWrap ==
    Running("h5b8", TRUE) /\ Emit(Params5b8NoWrap, FALSE, H5b8StoreNoWrap)
H5b8LiteralNoWrap ==
    Running("h5b8", TRUE) /\ Literal(Params5b8NoWrap, H5b8StoreNoWrap)

H5b8Next ==
    \/ H5b8Begin \/ H5b8Search \/ H5b8Lazy \/ H5b8Emit \/ H5b8Literal
    \/ H5b8SearchNoWrap \/ H5b8LazyNoWrap \/ H5b8EmitNoWrap \/ H5b8LiteralNoWrap

-----------------------------------------------------------------------------
Bucket4Kinds == {"h5", "h5b5", "h5b", "h5b6u16", "h5b8"}

Bucket4Finish == h.kind \in Bucket4Kinds /\ Finish(Params5, Same)

Bucket4Next ==
    \/ H5Next \/ H5b5Next \/ H5bNext \/ H5b6u16Next \/ H5b8Next
    \/ Bucket4Finish
=============================================================================
