----------------------------- MODULE HashQuick -----------------------------
(***************************************************************************)
(* The quick matchers of levels 2 to 4: h2 with one slot per key, h3 with  *)
(* two, h4 and h54 with four, and their versions with 16-bit slots for     *)
(* streams of at most 64 KiB.  A slot holds the latest position stored in  *)
(* it, older ones are forgotten; a search tries the last distance and the  *)
(* slots of its key, and writes the position searched into one of them.    *)
(*                                                                         *)
(* Every loop exists twice in the code: with the ring's mask on every      *)
(* index, and without it for blocks that end before the ring does.         *)
(***************************************************************************)
EXTENDS MatchLoop

CONSTANTS
    QuickSlots,    \* bucketSize
    QuickPartial,  \* bucketSize >> 5: a shorter one-shot input clears its keys only
    U16Size        \* 1 << 16, what a 16-bit slot can tell apart

ASSUME HashQuickAssumption ==
    /\ QuickSlots \in Nat /\ QuickSlots % 8 = 0 /\ QuickSlots >= 32
    /\ QuickPartial \in Nat /\ U16Size \in Nat \ {0}

QuickTable(kind, init) ==
    [kind |-> kind, ready |-> FALSE, everWrapped |-> FALSE,
     buckets |-> [k \in 0 .. QuickSlots - 1 |-> init]]

Wide(pos)   == pos
Narrow(pos) == pos % U16Size
Fit(narrow, pos) == IF narrow THEN Narrow(pos) ELSE Wide(pos)

QuickParams == [htl |-> 8, jump4 |-> 7, jump2 |-> 7, window |-> RandomWindow,
                eager |-> TRUE, histo |-> FALSE,
                cached |-> 4, pushed |-> FALSE, counting |-> FALSE, compound |-> FALSE]
Params2 == [QuickParams EXCEPT !.histo = TRUE]
Params3 == [Params2 EXCEPT !.compound = TRUE]
Params4 == [QuickParams EXCEPT !.compound = TRUE]

Running(kind, noWrap) == h.kind = kind /\ l.noWrap = noWrap

-----------------------------------------------------------------------------
(* Sweep: the slots of a key are 8 apart, and the position says which one  *)
(* is written.                                                             *)
KeySlots(key, sweep) == {(key + 8 * j) % QuickSlots : j \in 0 .. sweep - 1}
KeyOut(key, sweep, pos) == (key + 8 * ((pos \div 8) % sweep)) % QuickSlots

QuickStore(hh, pos, masked, narrow, n, sweep) ==
    LET key == HashAt(IndexOf(masked, pos), n, QuickSlots)
    IN [hh EXCEPT !.buckets[KeyOut(key, sweep, pos)] = Fit(narrow, pos)]

(* The table of a pool is that of an earlier stream.  pair is 2 where the  *)
(* 16-bit slots are cleared two at a time.                                 *)
QuickReset(hh, n, sweep, pair) ==
    LET keys  == {HashAt(i, n, QuickSlots) : i \in 0 .. l.posEnd - 1}
        slots == UNION {KeySlots(pair * (key \div pair) + p, sweep) :
                          key \in keys, p \in 0 .. pair - 1}
    IN [hh EXCEPT !.ready = TRUE, !.everWrapped = FALSE,
                  !.buckets = [k \in DOMAIN @ |->
                     IF /\ s.processed = 0 /\ l.last /\ l.posEnd <= QuickPartial
                        /\ k \notin slots
                     THEN @[k] ELSE 0]]

(* stitchHasher and the head of createBackwardReferences: a matcher from   *)
(* the pool is reset, the end of the previous block is stored, and fits    *)
(* says whether the block can do without the mask.                         *)
Begin(P, Reset(_), Store(_, _), fits) ==
    LET hh == Stitch(Store, P.htl, IF h.ready THEN h ELSE Reset(h))
        noWrap == fits /\ ~hh.everWrapped
    IN Enter(P, [hh EXCEPT !.everWrapped = @ \/ ~noWrap], noWrap)

(* Mutant: only the length of the block is compared. *)
BeforeEndLoose == l.posEnd - s.processed <= RingSize

BeforeEnd == l.posEnd <= RingSize

-----------------------------------------------------------------------------
(* The last distance.  Only h3 and h4 ask whether it is in the window;     *)
(* the other matchers never use a distance of the compound dictionary.     *)
TryLast(masked, within, cur, maxLength, maxDistance, best) ==
    LET d  == s.distCache[1]
        i  == IndexOf(masked, cur)
        p  == IndexOf(masked, cur - d)
        ml == MatchLen(p, i, maxLength)
    IN IF /\ d <= cur /\ (within => d <= maxDistance)
          /\ ByteAt(p + best.len) = ByteAt(i + best.len)
          /\ ml >= 4 /\ ScoreUsingLast(ml) > best.score
       THEN Match(ml, d, ScoreUsingLast(ml)) ELSE best

NearHit(masked, prev, cur, maxDistance, best) ==
    /\ ByteAt(IndexOf(masked, prev) + best.len) = ByteAt(IndexOf(masked, cur) + best.len)
    /\ cur - prev \in 1 .. maxDistance

TrySlot(masked, prev, cur, maxLength, maxDistance, best) ==
    LET ml == MatchLen(IndexOf(masked, prev), IndexOf(masked, cur), maxLength)
        sc == Score(ml, cur - prev)
    IN IF NearHit(masked, prev, cur, maxDistance, best) /\ ml >= 4 /\ sc > best.score
       THEN Match(ml, cur - prev, sc) ELSE best

(* h2: the last distance or the one slot; the static dictionary where the  *)
(* slot was a near hit.                                                    *)
FindOne(masked, narrow, cur, maxLength, maxDistance, best) ==
    LET i    == IndexOf(masked, cur)
        key  == HashAt(i, 5, QuickSlots)
        prev == h.buckets[key]
        last == TryLast(masked, FALSE, cur, maxLength, maxDistance, best)
        sr   == IF last # best THEN last
                ELSE TrySlot(masked, prev, cur, maxLength, maxDistance, best)
        near == last = best /\ NearHit(masked, prev, cur, maxDistance, best)
    IN [sr |-> sr, words |-> IF near THEN 1 ELSE 0,
        h  |-> QuickStore(h, cur, masked, narrow, 5, 1)]

(* h3, h4, h54: the last distance, then every slot of the key.  Of them    *)
(* h4 goes on in the static dictionary.                                    *)
FindSweep(masked, narrow, n, sweep, within, words, cur, maxLength, maxDistance, best) ==
    LET key == HashAt(IndexOf(masked, cur), n, QuickSlots)
        Try[j \in 0 .. sweep] ==
          IF j = 0 THEN TryLast(masked, within, cur, maxLength, maxDistance, best)
          ELSE TrySlot(masked, h.buckets[(key + 8 * (j - 1)) % QuickSlots],
                       cur, maxLength, maxDistance, Try[j - 1])
    IN [sr |-> Try[sweep], words |-> words,
        h  |-> QuickStore(h, cur, masked, narrow, n, sweep)]

Same(hh) == hh

-----------------------------------------------------------------------------
(* h2, level 2. *)
H2Store(hh, pos) == QuickStore(hh, pos, TRUE, FALSE, 5, 1)
H2Reset(hh) == QuickReset(hh, 5, 1, 1)
H2Begin ==
    h.kind = "h2" /\ Begin(Params2, H2Reset, H2Store, BeforeEnd)
H2Find(cur, maxLength, maxDistance, best) ==
    FindOne(TRUE, FALSE, cur, maxLength, maxDistance, best)
H2Search == Running("h2", FALSE) /\ Search(Params2, H2Find)
H2Lazy == Running("h2", FALSE) /\ Lazy(Params2, H2Find)
H2Emit == Running("h2", FALSE) /\ Emit(Params2, TRUE, H2Store)
H2Literal == Running("h2", FALSE) /\ Literal(Params2, H2Store)

H2StoreNoWrap(hh, pos) == QuickStore(hh, pos, FALSE, FALSE, 5, 1)
H2FindNoWrap(cur, maxLength, maxDistance, best) ==
    FindOne(FALSE, FALSE, cur, maxLength, maxDistance, best)
H2SearchNoWrap == Running("h2", TRUE) /\ Search(Params2, H2FindNoWrap)
H2LazyNoWrap == Running("h2", TRUE) /\ Lazy(Params2, H2FindNoWrap)
H2EmitNoWrap == Running("h2", TRUE) /\ Emit(Params2, FALSE, H2StoreNoWrap)
H2LiteralNoWrap == Running("h2", TRUE) /\ Literal(Params2, H2StoreNoWrap)

H2Next ==
    \/ H2Begin \/ H2Search \/ H2Lazy \/ H2Emit \/ H2Literal
    \/ H2SearchNoWrap \/ H2LazyNoWrap \/ H2EmitNoWrap \/ H2LiteralNoWrap

-----------------------------------------------------------------------------
(* h2u16, level 2 for short streams. *)
H2u16Store(hh, pos) == QuickStore(hh, pos, TRUE, TRUE, 5, 1)
H2u16Reset(hh) == QuickReset(hh, 5, 1, 2)
H2u16Begin ==
    h.kind = "h2u16" /\ Begin(Params2, H2u16Reset, H2u16Store, BeforeEnd)
H2u16Find(cur, maxLength, maxDistance, best) ==
    FindOne(TRUE, TRUE, cur, maxLength, maxDistance, best)
H2u16Search == Running("h2u16", FALSE) /\ Search(Params2, H2u16Find)
H2u16Lazy == Running("h2u16", FALSE) /\ Lazy(Params2, H2u16Find)
H2u16Emit == Running("h2u16", FALSE) /\ Emit(Params2, TRUE, H2u16Store)
H2u16Literal == Running("h2u16", FALSE) /\ Literal(Params2, H2u16Store)

H2u16StoreNoWrap(hh, pos) == QuickStore(hh, pos, FALSE, TRUE, 5, 1)
H2u16FindNoWrap(cur, maxLength, maxDistance, best) ==
    FindOne(FALSE, TRUE, cur, maxLength, maxDistance, best)
H2u16SearchNoWrap == Running("h2u16", TRUE) /\ Search(Params2, H2u16FindNoWrap)
H2u16LazyNoWrap == Running("h2u16", TRUE) /\ Lazy(Params2, H2u16FindNoWrap)
H2u16EmitNoWrap ==
    Running("h2u16", TRUE) /\ Emit(Params2, FALSE, H2u16StoreNoWrap)
H2u16LiteralNoWrap ==
    Running("h2u16", TRUE) /\ Literal(Params2, H2u16StoreNoWrap)

H2u16Next ==
    \/ H2u16Begin \/ H2u16Search \/ H2u16Lazy \/ H2u16Emit \/ H2u16Literal
    \/ H2u16SearchNoWrap \/ H2u16LazyNoWrap \/ H2u16EmitNoWrap
    \/ H2u16LiteralNoWrap

-----------------------------------------------------------------------------
(* h3, level 3. *)
H3Store(hh, pos) == QuickStore(hh, pos, TRUE, FALSE, 5, 2)
H3Reset(hh) == QuickReset(hh, 5, 2, 1)
H3Begin ==
    /\ h.kind = "h3"
    /\ Begin(Params3, H3Reset, H3Store, BeforeEnd /\ Chunks = <<>>)
H3Find(cur, maxLength, maxDistance, best) ==
    FindSweep(TRUE, FALSE, 5, 2, TRUE, 0, cur, maxLength, maxDistance, best)
H3Search == Running("h3", FALSE) /\ Search(Params3, H3Find)
H3Lazy == Running("h3", FALSE) /\ Lazy(Params3, H3Find)
H3Emit == Running("h3", FALSE) /\ Emit(Params3, TRUE, H3Store)
H3Literal == Running("h3", FALSE) /\ Literal(Params3, H3Store)

H3StoreNoWrap(hh, pos) == QuickStore(hh, pos, FALSE, FALSE, 5, 2)
H3FindNoWrap(cur, maxLength, maxDistance, best) ==
    FindSweep(FALSE, FALSE, 5, 2, TRUE, 0, cur, maxLength, maxDistance, best)
H3SearchNoWrap == Running("h3", TRUE) /\ Search(Params3, H3FindNoWrap)
H3LazyNoWrap == Running("h3", TRUE) /\ Lazy(Params3, H3FindNoWrap)
H3EmitNoWrap == Running("h3", TRUE) /\ Emit(Params3, FALSE, H3StoreNoWrap)
H3LiteralNoWrap == Running("h3", TRUE) /\ Literal(Params3, H3StoreNoWrap)

H3Next ==
    \/ H3Begin \/ H3Search \/ H3Lazy \/ H3Emit \/ H3Literal
    \/ H3SearchNoWrap \/ H3LazyNoWrap \/ H3EmitNoWrap \/ H3LiteralNoWrap

-----------------------------------------------------------------------------
(* h3u16, level 3 for short streams: there is one loop, with the mask. *)
H3u16Store(hh, pos) == QuickStore(hh, pos, TRUE, TRUE, 5, 2)
H3u16Reset(hh) == QuickReset(hh, 5, 2, 2)
H3u16Begin ==
    h.kind = "h3u16" /\ Begin(Params3, H3u16Reset, H3u16Store, FALSE)
H3u16Find(cur, maxLength, maxDistance, best) ==
    FindSweep(TRUE, TRUE, 5, 2, TRUE, 0, cur, maxLength, maxDistance, best)
H3u16Search == Running("h3u16", FALSE) /\ Search(Params3, H3u16Find)
H3u16Lazy == Running("h3u16", FALSE) /\ Lazy(Params3, H3u16Find)
H3u16Emit == Running("h3u16", FALSE) /\ Emit(Params3, TRUE, H3u16Store)
H3u16Literal == Running("h3u16", FALSE) /\ Literal(Params3, H3u16Store)

H3u16Next ==
    \/ H3u16Begin \/ H3u16Search \/ H3u16Lazy \/ H3u16Emit \/ H3u16Literal

-----------------------------------------------------------------------------
(* h4, level 4. *)
H4Store(hh, pos) == QuickStore(hh, pos, TRUE, FALSE, 5, 4)
H4Reset(hh) == QuickReset(hh, 5, 4, 1)
H4Begin ==
    /\ h.kind = "h4"
    /\ Begin(Params4, H4Reset, H4Store, BeforeEnd /\ Chunks = <<>>)
H4Find(cur, maxLength, maxDistance, best) ==
    FindSweep(TRUE, FALSE, 5, 4, TRUE, 1, cur, maxLength, maxDistance, best)
H4Search == Running("h4", FALSE) /\ Search(Params4, H4Find)
H4Lazy == Running("h4", FALSE) /\ Lazy(Params4, H4Find)
H4Emit == Running("h4", FALSE) /\ Emit(Params4, TRUE, H4Store)
H4Literal == Running("h4", FALSE) /\ Literal(Params4, H4Store)

H4StoreNoWrap(hh, pos) == QuickStore(hh, pos, FALSE, FALSE, 5, 4)
H4FindNoWrap(cur, maxLength, maxDistance, best) ==
    FindSweep(FALSE, FALSE, 5, 4, TRUE, 1, cur, maxLength, maxDistance, best)
H4SearchNoWrap == Running("h4", TRUE) /\ Search(Params4, H4FindNoWrap)
H4LazyNoWrap == Running("h4", TRUE) /\ Lazy(Params4, H4FindNoWrap)
H4EmitNoWrap == Running("h4", TRUE) /\ Emit(Params4, FALSE, H4StoreNoWrap)
H4LiteralNoWrap == Running("h4", TRUE) /\ Literal(Params4, H4StoreNoWrap)

H4Next ==
    \/ H4Begin \/ H4Search \/ H4Lazy \/ H4Emit \/ H4Literal
    \/ H4SearchNoWrap \/ H4LazyNoWrap \/ H4EmitNoWrap \/ H4LiteralNoWrap

-----------------------------------------------------------------------------
(* h4u16, level 4 for short streams: the loop without the mask keeps the   *)
(* compound dictionary.                                                    *)
H4u16Store(hh, pos) == QuickStore(hh, pos, TRUE, TRUE, 5, 4)
H4u16Reset(hh) == QuickReset(hh, 5, 4, 2)
H4u16Begin ==
    h.kind = "h4u16" /\ Begin(Params4, H4u16Reset, H4u16Store, BeforeEnd)
H4u16Find(cur, maxLength, maxDistance, best) ==
    FindSweep(TRUE, TRUE, 5, 4, TRUE, 1, cur, maxLength, maxDistance, best)
H4u16Search == Running("h4u16", FALSE) /\ Search(Params4, H4u16Find)
H4u16Lazy == Running("h4u16", FALSE) /\ Lazy(Params4, H4u16Find)
H4u16Emit == Running("h4u16", FALSE) /\ Emit(Params4, TRUE, H4u16Store)
H4u16Literal == Running("h4u16", FALSE) /\ Literal(Params4, H4u16Store)

H4u16StoreNoWrap(hh, pos) == QuickStore(hh, pos, FALSE, TRUE, 5, 4)
H4u16FindNoWrap(cur, maxLength, maxDistance, best) ==
    FindSweep(FALSE, TRUE, 5, 4, TRUE, 1, cur, maxLength, maxDistance, best)
H4u16SearchNoWrap == Running("h4u16", TRUE) /\ Search(Params4, H4u16FindNoWrap)
H4u16LazyNoWrap == Running("h4u16", TRUE) /\ Lazy(Params4, H4u16FindNoWrap)
H4u16EmitNoWrap ==
    Running("h4u16", TRUE) /\ Emit(Params4, FALSE, H4u16StoreNoWrap)
H4u16LiteralNoWrap ==
    Running("h4u16", TRUE) /\ Literal(Params4, H4u16StoreNoWrap)

H4u16Next ==
    \/ H4u16Begin \/ H4u16Search \/ H4u16Lazy \/ H4u16Emit \/ H4u16Literal
    \/ H4u16SearchNoWrap \/ H4u16LazyNoWrap \/ H4u16EmitNoWrap
    \/ H4u16LiteralNoWrap

-----------------------------------------------------------------------------
(* h54, level 4 for long streams: seven bytes are hashed, and there is no  *)
(* dictionary.                                                             *)
H54Store(hh, pos) == QuickStore(hh, pos, TRUE, FALSE, 7, 4)
H54Reset(hh) == QuickReset(hh, 7, 4, 1)
H54Begin ==
    h.kind = "h54" /\ Begin(QuickParams, H54Reset, H54Store, BeforeEnd)
H54Find(cur, maxLength, maxDistance, best) ==
    FindSweep(TRUE, FALSE, 7, 4, FALSE, 0, cur, maxLength, maxDistance, best)
H54Search == Running("h54", FALSE) /\ Search(QuickParams, H54Find)
H54Lazy == Running("h54", FALSE) /\ Lazy(QuickParams, H54Find)
H54Emit == Running("h54", FALSE) /\ Emit(QuickParams, TRUE, H54Store)
H54Literal == Running("h54", FALSE) /\ Literal(QuickParams, H54Store)

H54StoreNoWrap(hh, pos) == QuickStore(hh, pos, FALSE, FALSE, 7, 4)
H54FindNoWrap(cur, maxLength, maxDistance, best) ==
    FindSweep(FALSE, FALSE, 7, 4, FALSE, 0, cur, maxLength, maxDistance, best)
H54SearchNoWrap == Running("h54", TRUE) /\ Search(QuickParams, H54FindNoWrap)
H54LazyNoWrap == Running("h54", TRUE) /\ Lazy(QuickParams, H54FindNoWrap)
H54EmitNoWrap ==
    Running("h54", TRUE) /\ Emit(QuickParams, FALSE, H54StoreNoWrap)
H54LiteralNoWrap == Running("h54", TRUE) /\ Literal(QuickParams, H54StoreNoWrap)

H54Next ==
    \/ H54Begin \/ H54Search \/ H54Lazy \/ H54Emit \/ H54Literal
    \/ H54SearchNoWrap \/ H54LazyNoWrap \/ H54EmitNoWrap \/ H54LiteralNoWrap

-----------------------------------------------------------------------------
QuickKinds == {"h2", "h2u16", "h3", "h3u16", "h4", "h4u16", "h54"}

QuickFinish == h.kind \in QuickKinds /\ Finish(QuickParams, Same)

QuickNext ==
    \/ H2Next \/ H2u16Next \/ H3Next \/ H3u16Next
    \/ H4Next \/ H4u16Next \/ H54Next \/ QuickFinish
=============================================================================
