-------------------------- MODULE HashLongBuckets --------------------------
(***************************************************************************)
(* The bucket matchers of long streams, which hash five bytes.  h6 and     *)
(* h6b5 keep a tag, more bits of the hash, beside a position, and their    *)
(* counts run down.  A stream starts with the plain h6u or h6b5u, and a    *)
(* call of it that met too many positions a tag would have rejected hands  *)
(* the table over.                                                         *)
(***************************************************************************)
EXTENDS HashBuckets

CONSTANTS
    Tags,        \* 1 << 8
    SampleRate,  \* h6uSampleRate, 256
    BusyRatio    \* h6uBusyRatio

ASSUME HashLongBucketsAssumption ==
    Tags \in Nat \ {0} /\ SampleRate \in Nat \ {0} /\ BusyRatio \in Nat

Key5(i) == HashAt(i, 5, BucketKeys * Tags) \div Tags
Tag5(i) == HashAt(i, 5, BucketKeys * Tags) % Tags

Bucket5Store(hh, pos, masked) ==
    BucketStore(hh, Key5(IndexOf(masked, pos)), pos)

TaggedStore(hh, pos, masked) ==
    LET i   == IndexOf(masked, pos)
        key == Key5(i)
        n   == hh.num[key]
    IN [hh EXCEPT !.slots[key][n % BlockSize] = pos,
                  !.tags[key][n % BlockSize] = Tag5(i),
                  !.num[key] = (n - 1) % CounterSize]

(* The slots in use of a bucket whose count runs down from 0xFFFF. *)
LiveTagged(hh, key) == 1 .. Min({CounterSize - 1 - hh.num[key], BlockSize})

NewestTagged(hh, key) ==
    [j \in LiveTagged(hh, key) |-> hh.slots[key][(hh.num[key] + j) % BlockSize]]

WithTag(hh, key, tag) ==
    {j \in LiveTagged(hh, key) : hh.tags[key][(hh.num[key] + j) % BlockSize] = tag}

(* The search of a bucket of the table h with tags. *)
FindTagged(after, masked, i, cur, maxLength, maxDistance, best) ==
    [sr |-> ScanBucket(masked, NewestTagged(h, Key5(i)), WithTag(h, Key5(i), Tag5(i)),
                       cur, maxLength, maxDistance, best),
     words |-> 2, h |-> after]

-----------------------------------------------------------------------------
(* sampleRejects: the entries a tag would have rejected, at one position   *)
(* in SampleRate.                                                          *)
Rejects(i) ==
    LET entries == Newest(h, Key5(i))
    IN SampleRate * Cardinality({j \in DOMAIN entries :
                                   Tag5(Masked(entries[j])) # Tag5(i)})

Sampled(r, cur) ==
    IF cur % SampleRate # 0 THEN r
    ELSE [r EXCEPT !.h.rejects = @ + Rejects(Masked(cur))]

(* countBusyCall.  The count of positions stored is unsigned: one below    *)
(* zero is beyond any number of rejects.                                   *)
CountBusyCall(hh) ==
    [hh EXCEPT !.busyCalls = IF hh.stores >= 0 /\ hh.rejects > BusyRatio * hh.stores
                             THEN @ + 1 ELSE 0,
               !.rejects = 0, !.stores = 0]

(* Mutant: the slots are copied in the order they have. *)
CopyToUnmirrored(hh, kind) ==
    [hh EXCEPT !.kind = kind,
               !.num  = [key \in DOMAIN @ |-> CounterSize - 1 - @[key]],
               !.tags = [key \in DOMAIN @ |->
                           [k \in Slots |-> Tag5(Masked(hh.slots[key][k]))]],
               !.stores = 0, !.rejects = 0, !.busyCalls = 0]

(* copyTo: the tagged matcher counts down and fills its slots in the other *)
(* direction.  The tags come from the ring, where the bytes of a position  *)
(* outside the window may be others by now.                                *)
CopyTo(hh, kind) ==
    LET Mirror(k) == BlockSize - 1 - k
    IN [hh EXCEPT !.kind  = kind,
                  !.num   = [key \in DOMAIN @ |-> CounterSize - 1 - @[key]],
                  !.slots = [key \in DOMAIN @ |-> [k \in Slots |-> @[key][Mirror(k)]]],
                  !.tags  = [key \in DOMAIN @ |->
                     [k \in Slots |-> Tag5(Masked(hh.slots[key][Mirror(k)]))]],
                  !.stores = 0, !.rejects = 0, !.busyCalls = 0]

-----------------------------------------------------------------------------
Params6   == [Params5 EXCEPT !.htl = 8, !.jump4 = 7, !.jump2 = 7]
Params6u  == [Params6 EXCEPT !.counting = TRUE]
Params6b  == [Params6 EXCEPT !.cached = 10]
Params6b8 == [Params6 EXCEPT !.cached = 16, !.window = 8 * RandomWindow]

-----------------------------------------------------------------------------
(* h6, level 5 for long streams, with tags. *)
H6Store(hh, pos) == TaggedStore(hh, pos, TRUE)
H6Reset(hh) == BucketReset(hh, {Key5(i) : i \in 0 .. l.posEnd - 1}, CounterSize - 1)
H6Begin ==
    h.kind = "h6" /\ Begin(Params6, H6Reset, H6Store, WithinRing)
H6TryLast(cur, maxLength, maxDistance, best) ==
    TryCache(TRUE, 1, 4, cur, maxLength, maxDistance, best)
H6Find(cur, maxLength, maxDistance, best) ==
    LET c1 == H6TryLast(cur, maxLength, maxDistance, best)
    IN FindTagged(H6Store(h, cur), TRUE, Masked(cur), cur, maxLength, maxDistance, c1)
H6Search == Running("h6", FALSE) /\ Search(Params6, H6Find)
H6Lazy == Running("h6", FALSE) /\ Lazy(Params6, H6Find)
H6Emit == Running("h6", FALSE) /\ Emit(Params6, TRUE, H6Store)
H6Literal == Running("h6", FALSE) /\ Literal(Params6, H6Store)

H6StoreNoWrap(hh, pos) == TaggedStore(hh, pos, FALSE)
H6TryLastNoWrap(cur, maxLength, maxDistance, best) ==
    TryCache(FALSE, 1, 4, cur, maxLength, maxDistance, best)
H6FindNoWrap(cur, maxLength, maxDistance, best) ==
    LET c1 == H6TryLastNoWrap(cur, maxLength, maxDistance, best)
    IN FindTagged(H6StoreNoWrap(h, cur), FALSE, Direct(cur), cur, maxLength, maxDistance, c1)
H6SearchNoWrap == Running("h6", TRUE) /\ Search(Params6, H6FindNoWrap)
H6LazyNoWrap == Running("h6", TRUE) /\ Lazy(Params6, H6FindNoWrap)
H6EmitNoWrap == Running("h6", TRUE) /\ Emit(Params6, FALSE, H6StoreNoWrap)
H6LiteralNoWrap == Running("h6", TRUE) /\ Literal(Params6, H6StoreNoWrap)

H6Next ==
    \/ H6Begin \/ H6Search \/ H6Lazy \/ H6Emit \/ H6Literal
    \/ H6SearchNoWrap \/ H6LazyNoWrap \/ H6EmitNoWrap \/ H6LiteralNoWrap

-----------------------------------------------------------------------------
(* h6u, level 5 for long streams, without tags: with or without the mask,  *)
(* positions are stored the same way.                                      *)
H6uStore(hh, pos) == Bucket5Store(hh, pos, TRUE)
H6uReset(hh) == BucketReset(hh, {Key5(i) : i \in 0 .. l.posEnd - 1}, 0)
H6uBegin ==
    h.kind = "h6u" /\ Begin(Params6u, H6uReset, H6uStore, WithinRing)
H6uTryLast(cur, maxLength, maxDistance, best) ==
    TryCache(TRUE, 1, 4, cur, maxLength, maxDistance, best)
H6uFind(cur, maxLength, maxDistance, best) ==
    LET c1 == H6uTryLast(cur, maxLength, maxDistance, best)
    IN FindInBucket(H6uStore(h, cur), TRUE, Newest(h, Key5(Masked(cur))),
                    cur, maxLength, maxDistance, c1)
H6uSampledFind(cur, maxLength, maxDistance, best) ==
    Sampled(H6uFind(cur, maxLength, maxDistance, best), cur)
H6uSearch == Running("h6u", FALSE) /\ Search(Params6u, H6uSampledFind)
H6uLazy == Running("h6u", FALSE) /\ Lazy(Params6u, H6uFind)
H6uEmit == Running("h6u", FALSE) /\ Emit(Params6u, TRUE, H6uStore)
H6uLiteral == Running("h6u", FALSE) /\ Literal(Params6u, H6uStore)

H6uTryLastNoWrap(cur, maxLength, maxDistance, best) ==
    TryCache(FALSE, 1, 4, cur, maxLength, maxDistance, best)
H6uFindNoWrap(cur, maxLength, maxDistance, best) ==
    LET c1 == H6uTryLastNoWrap(cur, maxLength, maxDistance, best)
    IN FindInBucket(H6uStore(h, cur), FALSE, Newest(h, Key5(Direct(cur))),
                    cur, maxLength, maxDistance, c1)
H6uSampledFindNoWrap(cur, maxLength, maxDistance, best) ==
    Sampled(H6uFindNoWrap(cur, maxLength, maxDistance, best), cur)
H6uSearchNoWrap ==
    Running("h6u", TRUE) /\ Search(Params6u, H6uSampledFindNoWrap)
H6uLazyNoWrap == Running("h6u", TRUE) /\ Lazy(Params6u, H6uFindNoWrap)
H6uEmitNoWrap == Running("h6u", TRUE) /\ Emit(Params6u, FALSE, H6uStore)
H6uLiteralNoWrap == Running("h6u", TRUE) /\ Literal(Params6u, H6uStore)

H6uNext ==
    \/ H6uBegin \/ H6uSearch \/ H6uLazy \/ H6uEmit \/ H6uLiteral
    \/ H6uSearchNoWrap \/ H6uLazyNoWrap \/ H6uEmitNoWrap \/ H6uLiteralNoWrap

-----------------------------------------------------------------------------
(* h6b5, level 6 for long streams, with tags. *)
H6b5Store(hh, pos) == TaggedStore(hh, pos, TRUE)
H6b5Reset(hh) == BucketReset(hh, {Key5(i) : i \in 0 .. l.posEnd - 1}, CounterSize - 1)
H6b5Begin ==
    h.kind = "h6b5" /\ Begin(Params6, H6b5Reset, H6b5Store, WithinRing)
H6b5TryLast(cur, maxLength, maxDistance, best) ==
    TryCache(TRUE, 1, 4, cur, maxLength, maxDistance, best)
H6b5Find(cur, maxLength, maxDistance, best) ==
    LET c1 == H6b5TryLast(cur, maxLength, maxDistance, best)
    IN FindTagged(H6b5Store(h, cur), TRUE, Masked(cur), cur, maxLength, maxDistance, c1)
H6b5Search == Running("h6b5", FALSE) /\ Search(Params6, H6b5Find)
H6b5Lazy == Running("h6b5", FALSE) /\ Lazy(Params6, H6b5Find)
H6b5Emit == Running("h6b5", FALSE) /\ Emit(Params6, TRUE, H6b5Store)
H6b5Literal == Running("h6b5", FALSE) /\ Literal(Params6, H6b5Store)

H6b5StoreNoWrap(hh, pos) == TaggedStore(hh, pos, FALSE)
H6b5TryLastNoWrap(cur, maxLength, maxDistance, best) ==
    TryCache(FALSE, 1, 4, cur, maxLength, maxDistance, best)
H6b5FindNoWrap(cur, maxLength, maxDistance, best) ==
    LET c1 == H6b5TryLastNoWrap(cur, maxLength, maxDistance, best)
    IN FindTagged(H6b5StoreNoWrap(h, cur), FALSE, Direct(cur), cur, maxLength, maxDistance, c1)
H6b5SearchNoWrap == Running("h6b5", TRUE) /\ Search(Params6, H6b5FindNoWrap)
H6b5LazyNoWrap == Running("h6b5", TRUE) /\ Lazy(Params6, H6b5FindNoWrap)
H6b5EmitNoWrap ==
    Running("h6b5", TRUE) /\ Emit(Params6, FALSE, H6b5StoreNoWrap)
H6b5LiteralNoWrap == Running("h6b5", TRUE) /\ Literal(Params6, H6b5StoreNoWrap)

H6b5Next ==
    \/ H6b5Begin \/ H6b5Search \/ H6b5Lazy \/ H6b5Emit \/ H6b5Literal
    \/ H6b5SearchNoWrap \/ H6b5LazyNoWrap \/ H6b5EmitNoWrap \/ H6b5LiteralNoWrap

-----------------------------------------------------------------------------
(* h6b5u, level 6 for long streams, without tags. *)
H6b5uStore(hh, pos) == Bucket5Store(hh, pos, TRUE)
H6b5uReset(hh) == BucketReset(hh, {Key5(i) : i \in 0 .. l.posEnd - 1}, 0)
H6b5uBegin ==
    h.kind = "h6b5u" /\ Begin(Params6u, H6b5uReset, H6b5uStore, WithinRing)
H6b5uTryLast(cur, maxLength, maxDistance, best) ==
    TryCache(TRUE, 1, 4, cur, maxLength, maxDistance, best)
H6b5uFind(cur, maxLength, maxDistance, best) ==
    LET c1 == H6b5uTryLast(cur, maxLength, maxDistance, best)
    IN FindInBucket(H6b5uStore(h, cur), TRUE, Newest(h, Key5(Masked(cur))),
                    cur, maxLength, maxDistance, c1)
H6b5uSampledFind(cur, maxLength, maxDistance, best) ==
    Sampled(H6b5uFind(cur, maxLength, maxDistance, best), cur)
H6b5uSearch == Running("h6b5u", FALSE) /\ Search(Params6u, H6b5uSampledFind)
H6b5uLazy == Running("h6b5u", FALSE) /\ Lazy(Params6u, H6b5uFind)
H6b5uEmit == Running("h6b5u", FALSE) /\ Emit(Params6u, TRUE, H6b5uStore)
H6b5uLiteral == Running("h6b5u", FALSE) /\ Literal(Params6u, H6b5uStore)

H6b5uStoreNoWrap(hh, pos) == Bucket5Store(hh, pos, FALSE)
H6b5uTryLastNoWrap(cur, maxLength, maxDistance, best) ==
    TryCache(FALSE, 1, 4, cur, maxLength, maxDistance, best)
H6b5uFindNoWrap(cur, maxLength, maxDistance, best) ==
    LET c1 == H6b5uTryLastNoWrap(cur, maxLength, maxDistance, best)
    IN FindInBucket(H6b5uStoreNoWrap(h, cur), FALSE, Newest(h, Key5(Direct(cur))),
                    cur, maxLength, maxDistance, c1)
H6b5uSampledFindNoWrap(cur, maxLength, maxDistance, best) ==
    Sampled(H6b5uFindNoWrap(cur, maxLength, maxDistance, best), cur)
H6b5uSearchNoWrap ==
    Running("h6b5u", TRUE) /\ Search(Params6u, H6b5uSampledFindNoWrap)
H6b5uLazyNoWrap == Running("h6b5u", TRUE) /\ Lazy(Params6u, H6b5uFindNoWrap)
H6b5uEmitNoWrap ==
    Running("h6b5u", TRUE) /\ Emit(Params6u, FALSE, H6b5uStoreNoWrap)
H6b5uLiteralNoWrap ==
    Running("h6b5u", TRUE) /\ Literal(Params6u, H6b5uStoreNoWrap)

H6b5uNext ==
    \/ H6b5uBegin \/ H6b5uSearch \/ H6b5uLazy \/ H6b5uEmit \/ H6b5uLiteral
    \/ H6b5uSearchNoWrap \/ H6b5uLazyNoWrap \/ H6b5uEmitNoWrap
    \/ H6b5uLiteralNoWrap

-----------------------------------------------------------------------------
(* h6b6 and h6b7, levels 7 and 8 for long streams. *)
H6bStore(hh, pos) == Bucket5Store(hh, pos, TRUE)
H6bReset(hh) == BucketReset(hh, {Key5(i) : i \in 0 .. l.posEnd - 1}, 0)
H6bBegin ==
    h.kind = "h6b" /\ Begin(Params6b, H6bReset, H6bStore, WithinRing)
H6bTryLast(cur, maxLength, maxDistance, best) ==
    TryCache(TRUE, 1, 4, cur, maxLength, maxDistance, best)
H6bTryNear(cur, maxLength, maxDistance, best) ==
    TryCache(TRUE, 5, 10, cur, maxLength, maxDistance, best)
H6bFind(cur, maxLength, maxDistance, best) ==
    LET c1 == H6bTryLast(cur, maxLength, maxDistance, best)
        c2 == H6bTryNear(cur, maxLength, maxDistance, c1)
    IN FindInBucket(H6bStore(h, cur), TRUE, Newest(h, Key5(Masked(cur))),
                    cur, maxLength, maxDistance, c2)
H6bSearch == Running("h6b", FALSE) /\ Search(Params6b, H6bFind)
H6bLazy == Running("h6b", FALSE) /\ Lazy(Params6b, H6bFind)
H6bEmit == Running("h6b", FALSE) /\ Emit(Params6b, TRUE, H6bStore)
H6bLiteral == Running("h6b", FALSE) /\ Literal(Params6b, H6bStore)

H6bTryLastNoWrap(cur, maxLength, maxDistance, best) ==
    TryCache(FALSE, 1, 4, cur, maxLength, maxDistance, best)
H6bTryNearNoWrap(cur, maxLength, maxDistance, best) ==
    TryCache(FALSE, 5, 10, cur, maxLength, maxDistance, best)
H6bFindNoWrap(cur, maxLength, maxDistance, best) ==
    LET c1 == H6bTryLastNoWrap(cur, maxLength, maxDistance, best)
        c2 == H6bTryNearNoWrap(cur, maxLength, maxDistance, c1)
    IN FindInBucket(H6bStore(h, cur), FALSE, Newest(h, Key5(Direct(cur))),
                    cur, maxLength, maxDistance, c2)
H6bSearchNoWrap == Running("h6b", TRUE) /\ Search(Params6b, H6bFindNoWrap)
H6bLazyNoWrap == Running("h6b", TRUE) /\ Lazy(Params6b, H6bFindNoWrap)
H6bEmitNoWrap == Running("h6b", TRUE) /\ Emit(Params6b, FALSE, H6bStore)
H6bLiteralNoWrap == Running("h6b", TRUE) /\ Literal(Params6b, H6bStore)

H6bNext ==
    \/ H6bBegin \/ H6bSearch \/ H6bLazy \/ H6bEmit \/ H6bLiteral
    \/ H6bSearchNoWrap \/ H6bLazyNoWrap \/ H6bEmitNoWrap \/ H6bLiteralNoWrap

-----------------------------------------------------------------------------
(* h6b8, level 9 for long streams. *)
H6b8Store(hh, pos) == Bucket5Store(hh, pos, TRUE)
H6b8Reset(hh) == BucketReset(hh, {Key5(i) : i \in 0 .. l.posEnd - 1}, 0)
H6b8Begin ==
    h.kind = "h6b8" /\ Begin(Params6b8, H6b8Reset, H6b8Store, WithinRing)
H6b8TryLast(cur, maxLength, maxDistance, best) ==
    TryCache(TRUE, 1, 4, cur, maxLength, maxDistance, best)
H6b8TryNear(cur, maxLength, maxDistance, best) ==
    TryCache(TRUE, 5, 10, cur, maxLength, maxDistance, best)
H6b8TryNearSecond(cur, maxLength, maxDistance, best) ==
    TryCache(TRUE, 11, 16, cur, maxLength, maxDistance, best)
H6b8Find(cur, maxLength, maxDistance, best) ==
    LET c1 == H6b8TryLast(cur, maxLength, maxDistance, best)
        c2 == H6b8TryNear(cur, maxLength, maxDistance, c1)
        c3 == H6b8TryNearSecond(cur, maxLength, maxDistance, c2)
    IN FindInBucket(H6b8Store(h, cur), TRUE, Newest(h, Key5(Masked(cur))),
                    cur, maxLength, maxDistance, c3)
H6b8Search == Running("h6b8", FALSE) /\ Search(Params6b8, H6b8Find)
H6b8Lazy == Running("h6b8", FALSE) /\ Lazy(Params6b8, H6b8Find)
H6b8Emit == Running("h6b8", FALSE) /\ Emit(Params6b8, TRUE, H6b8Store)
H6b8Literal == Running("h6b8", FALSE) /\ Literal(Params6b8, H6b8Store)

H6b8StoreNoWrap(hh, pos) == Bucket5Store(hh, pos, FALSE)
H6b8TryLastNoWrap(cur, maxLength, maxDistance, best) ==
    TryCache(FALSE, 1, 4, cur, maxLength, maxDistance, best)
H6b8TryNearNoWrap(cur, maxLength, maxDistance, best) ==
    TryCache(FALSE, 5, 10, cur, maxLength, maxDistance, best)
H6b8TryNearSecondNoWrap(cur, maxLength, maxDistance, best) ==
    TryCache(FALSE, 11, 16, cur, maxLength, maxDistance, best)
H6b8FindNoWrap(cur, maxLength, maxDistance, best) ==
    LET c1 == H6b8TryLastNoWrap(cur, maxLength, maxDistance, best)
        c2 == H6b8TryNearNoWrap(cur, maxLength, maxDistance, c1)
        c3 == H6b8TryNearSecondNoWrap(cur, maxLength, maxDistance, c2)
    IN FindInBucket(H6b8StoreNoWrap(h, cur), FALSE, Newest(h, Key5(Direct(cur))),
                    cur, maxLength, maxDistance, c3)
H6b8SearchNoWrap == Running("h6b8", TRUE) /\ Search(Params6b8, H6b8FindNoWrap)
H6b8LazyNoWrap == Running("h6b8", TRUE) /\ Lazy(Params6b8, H6b8FindNoWrap)
H6b8EmitNoWrap ==
    Running("h6b8", TRUE) /\ Emit(Params6b8, FALSE, H6b8StoreNoWrap)
H6b8LiteralNoWrap ==
    Running("h6b8", TRUE) /\ Literal(Params6b8, H6b8StoreNoWrap)

H6b8Next ==
    \/ H6b8Begin \/ H6b8Search \/ H6b8Lazy \/ H6b8Emit \/ H6b8Literal
    \/ H6b8SearchNoWrap \/ H6b8LazyNoWrap \/ H6b8EmitNoWrap \/ H6b8LiteralNoWrap

-----------------------------------------------------------------------------
PlainKinds   == {"h6b", "h6b8"}
TaggedKinds  == {"h6", "h6b5"}
CountedKinds == {"h6u", "h6b5u"}
BucketKinds  == Bucket4Kinds \cup PlainKinds \cup TaggedKinds \cup CountedKinds

Bucket6Finish == h.kind \in PlainKinds \cup TaggedKinds /\ Finish(Params6, Same)
CountedFinish == h.kind \in CountedKinds /\ Finish(Params6u, CountBusyCall)

BucketNext ==
    \/ Bucket4Next
    \/ H6Next \/ H6uNext \/ H6b5Next \/ H6b5uNext \/ H6bNext \/ H6b8Next
    \/ Bucket6Finish \/ CountedFinish
=============================================================================
