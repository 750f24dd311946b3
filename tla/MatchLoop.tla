----------------------------- MODULE MatchLoop -----------------------------
(***************************************************************************)
(* What the hash-table matchers of levels 2 to 9 share: the bytes they     *)
(* read through the ring, the score of a match, the two dictionaries they  *)
(* fall back to, and the loop of createBackwardReferences that turns the   *)
(* matches of one block into commands: search, look one byte ahead while   *)
(* that is better, emit, or give up the byte as a literal and stride over  *)
(* data that does not compress.                                            *)
(*                                                                         *)
(* Every matcher's own loop (HashQuick, HashBuckets, HashLongBuckets,      *)
(* HashChains) is an instance of the actions below.  Bytes are small       *)
(* numbers and a hash is a weighted sum of them, so that keys collide;     *)
(* scores are exact.                                                       *)
(***************************************************************************)
EXTENDS Integers, Sequences, FiniteSetsExt, FiniteSets

CONSTANTS
    Inputs,        \* the byte sequences of the streams
    Dictionaries,  \* the compound dictionaries: each a sequence of chunks
    Words,         \* the static dictionary: Words[len][index + 1]
    WordTable,     \* staticDictHashEntries: key -> [first, len, word]
    DictKeys,      \* half the number of its keys
    Window,        \* maxBackwardLimit
    RingSize,      \* mask + 1
    RingTail,      \* bytes mirrored behind the ring: one input block
    RandomWindow,  \* randomHeuristicsWindowSize (64, or 512 at level 9)
    ChunkLimit,    \* bucketLimit, positions a chunk's table keeps per key
    LookupShift,   \* 7: a search per 2^7 look-ups must succeed
    Farthest       \* maxBackwardDistance

ASSUME MatchLoopAssumption ==
    /\ Window \in Nat /\ Window >= 16 /\ RingTail \in Nat /\ RingTail >= 8
    /\ RingSize \in Nat /\ RingSize >= 2 * Window /\ RingSize >= 2 * RingTail
    /\ RandomWindow \in Nat \ {0} /\ ChunkLimit \in Nat \ {0}
    /\ DictKeys \in Nat \ {0} /\ LookupShift \in Nat /\ Farthest \in Nat
    /\ DOMAIN WordTable = 0 .. 2 * DictKeys - 1
    /\ \A key \in DOMAIN WordTable :
         LET e == WordTable[key]
         IN /\ e.len \in Nat /\ e.word \in Nat
            /\ e.len > 0 => /\ e.len >= 4 /\ e.len \in DOMAIN Words
                           /\ Len(Words[e.len]) \in Nat
                           /\ e.word < Len(Words[e.len])

VARIABLES
    input,   \* which of Inputs is compressed, and against which dictionary
    h,       \* the matcher: its kind and its table
    s,       \* the fields of encodeState the matchers use
    pc,      \* where createBackwardReferences is
    l        \* its local variables

loopVars == <<input, h, s, pc, l>>

Data   == Inputs[input.data]
Chunks == Dictionaries[input.dict]

-----------------------------------------------------------------------------
(* The byte at an index of data, the latest written to it: the ring holds  *)
(* the input up to the end of the block, and what lies behind its end      *)
(* mirrors the front.  Nothing is there beyond the mirror.                 *)
Nothing == -1

ByteAt(i) ==
    LET c == i % RingSize
    IN IF i >= RingSize + RingTail THEN Nothing
       ELSE IF c >= l.posEnd THEN 0
       ELSE Data[1 + c + RingSize * ((l.posEnd - 1 - c) \div RingSize)]

(* With and without the mask. *)
Masked(pos) == pos % RingSize
Direct(pos) == pos
IndexOf(masked, pos) == IF masked THEN Masked(pos) ELSE Direct(pos)

(* The hash of n bytes, 4, 5 or 7, one of m keys. *)
HashOf(b, n, m) ==
    (b[0] + 2 * b[1] + 5 * b[2] + 11 * b[3]
       + (IF n > 4 THEN 17 * b[4] ELSE 0)
       + (IF n > 5 THEN 23 * b[5] + 31 * b[6] ELSE 0)) % m

HashAt(i, n, m) == HashOf([k \in 0 .. 6 |-> ByteAt(i + k)], n, m)

(* matchLenAt and the unrolled comparisons the matchers use instead. *)
MatchLen(a, b, limit) ==
    Min({k \in 0 .. limit - 1 : ByteAt(a + k) # ByteAt(b + k)} \cup {limit})

(* The four-byte probe: a longer match agrees there as well. *)
SameEnd(a, b, len) == \A k \in len - 3 .. len : ByteAt(a + k) = ByteAt(b + k)

-----------------------------------------------------------------------------
(* Scores. *)
MinScore == 2020
CostDiffLazy == 175

(* No distance has more than 26 bits. *)
Log2Floor(d) == Cardinality({k \in 1 .. 25 : 2^k <= d})

Score(len, distance) == 1920 + 135 * len - 30 * Log2Floor(distance)

ScoreUsingLast(len) == 135 * len + 1935

(* The table 0x1CA10 holds one even number for each pair of short codes. *)
Penalty(i) == 39 + 2 * <<0, 2, 0, 4, 5, 1, 6, 3>>[1 + (i \div 2)]

NoMatch == [len |-> 0, distance |-> 0, score |-> MinScore, delta |-> 0]

Match(len, distance, score) ==
    [len |-> len, distance |-> distance, score |-> score, delta |-> 0]

MaxDistance(pos) == Min({pos, Window})

(* The bytes of the compound dictionary lie between the window and the     *)
(* static dictionary.                                                      *)
SizeOf(chunks) == LET F[k \in 0 .. Len(chunks)] ==
                          IF k = 0 THEN 0 ELSE F[k - 1] + Len(chunks[k])
                  IN F[Len(chunks)]
Gap == SizeOf(Chunks)

-----------------------------------------------------------------------------
(* The static dictionary: a word whose end may be cut off by up to nine    *)
(* bytes.  d holds the counters of encodeState, and a search is given up   *)
(* when too few of the earlier ones succeeded.                             *)
Cutoffs == <<0, 12, 27, 23, 42, 63, 56, 48, 59, 64>>

WordDistance(len, word, cut, maxBackward) ==
    maxBackward + 1 + word + Cutoffs[cut + 1] * Len(Words[len])

MatchWord(i, e, maxBackward, best) ==
    LET word == Words[e.len][e.word + 1]
        ml   == Min({k \in 0 .. e.len - 1 : ByteAt(i + k) # word[k + 1]} \cup {e.len})
    IN IF ml + 10 <= e.len \/ ml = 0 THEN best
       ELSE LET backward == WordDistance(e.len, e.word, e.len - ml, maxBackward)
            IN IF backward > Farthest \/ Score(ml, backward) < best.score THEN best
               ELSE [Match(ml, backward, Score(ml, backward))
                       EXCEPT !.delta = e.len - ml]

TryWord(i, key, maxLength, maxBackward, r) ==
    LET e  == WordTable[key]
        sr == IF e.len = 0 \/ e.len > maxLength \/ e.first # ByteAt(i) THEN r.sr
              ELSE MatchWord(i, e, maxBackward, r.sr)
    IN [sr |-> sr,
        d  |-> IF sr = r.sr THEN r.d ELSE [r.d EXCEPT !.matches = @ + 1]]

GivesUp(d) == d.matches < d.lookups \div 2^LookupShift

SearchWords(n, i, maxLength, maxBackward, best, d) ==
    LET Try[k \in 0 .. n] ==
          IF k = 0 THEN [sr |-> best, d |-> [d EXCEPT !.lookups = @ + n]]
          ELSE TryWord(i, 2 * HashAt(i, 4, DictKeys) + k - 1,
                       maxLength, maxBackward, Try[k - 1])
    IN IF GivesUp(d) THEN [sr |-> best, d |-> d] ELSE Try[n]

SearchStaticDictionary(i, maxLength, maxBackward, best, d) ==
    SearchWords(1, i, maxLength, maxBackward, best, d)

SearchStaticDictionaryDeep(i, maxLength, maxBackward, best, d) ==
    SearchWords(2, i, maxLength, maxBackward, best, d)

-----------------------------------------------------------------------------
(* The compound dictionary.  A chunk of less than 8 bytes has no table;    *)
(* another keeps the newest positions of each key.                         *)
ChunkKey(chunk, j) == HashOf([k \in 0 .. 4 |-> chunk[1 + j + k]], 5, 8)

ChunkMatchLen(chunk, j, i, maxLength) ==
    LET limit == Min({Len(chunk) - j, maxLength})
    IN Min({k \in 0 .. limit - 1 : chunk[1 + j + k] # ByteAt(i + k)} \cup {limit})

(* First the distances used last, where they point into the chunk. *)
TryChunkCache(chunk, offset, i, maxLength, best) ==
    LET Try[k \in 0 .. 4] ==
          IF k = 0 THEN [sr |-> best, len |-> best.len]
          ELSE LET r  == Try[k - 1]
                   d  == s.distCache[k]
                   ml == ChunkMatchLen(chunk, offset - d, i, maxLength)
                   sc == ScoreUsingLast(ml) - (IF k = 1 THEN 0 ELSE Penalty(k - 1))
               IN IF /\ d > offset - Len(chunk) /\ d <= offset
                     /\ ml >= 2 /\ sc > r.sr.score
                  THEN [sr |-> Match(ml, d, sc), len |-> Max({ml, r.len})]
                  ELSE r
    IN Try[4]

(* Then the positions with the key, while a longer match is possible. *)
WalkChunk(chunk, offset, i, maxLength, start) ==
    LET size == Len(chunk)
        Full(len) == len >= maxLength \/ i + len >= RingSize \/ size <= len
        Walk[k \in 0 .. size - 7] ==
          IF k = 0 THEN [sr |-> start.sr, len |-> Max({start.len, 3}), seen |-> 0]
          ELSE LET r  == Walk[k - 1]
                   j  == size - 7 - k
                   w  == [r EXCEPT !.seen = @ + 1]
                   ml == ChunkMatchLen(chunk, j, i, maxLength)
                   sc == Score(ml, offset - j)
               IN IF Full(r.len) \/ r.seen = ChunkLimit
                       \/ ChunkKey(chunk, j) # HashAt(i, 5, 8) THEN r
                  ELSE IF /\ j + r.len < size
                          /\ \A n \in r.len - 3 .. r.len :
                                chunk[1 + j + n] = ByteAt(i + n)
                          /\ offset - j <= Farthest
                          /\ ml >= 4 /\ sc > r.sr.score
                  THEN [w EXCEPT !.sr = Match(ml, offset - j, sc), !.len = ml]
                  ELSE w
    IN Walk[size - 7].sr

FindCompoundMatch(chunk, offset, i, maxLength, best) ==
    LET r == TryChunkCache(chunk, offset, i, maxLength, best)
    IN IF Len(chunk) < 8 THEN r.sr ELSE WalkChunk(chunk, offset, i, maxLength, r)

LookupMatch(i, maxLength, maxDistance, best) ==
    LET Sizes[k \in 0 .. Len(Chunks)] ==
          IF k = 0 THEN 0 ELSE Sizes[k - 1] + Len(Chunks[k])
        Find[k \in 0 .. Len(Chunks)] ==
          IF k = 0 THEN best
          ELSE FindCompoundMatch(Chunks[k], maxDistance + Gap - Sizes[k - 1],
                                 i, maxLength, Find[k - 1])
    IN Find[Len(Chunks)]

-----------------------------------------------------------------------------
(* computeDistanceCode: the sixteen short codes for the distances used     *)
(* last and their neighbours, else the distance itself.                    *)
DistanceCode(distance, max, cache) ==
    LET off0 == distance + 3 - cache[1]
        off1 == distance + 3 - cache[2]
    IN IF distance > max THEN distance + 15
       ELSE IF distance = cache[1] THEN 0
       ELSE IF distance = cache[2] THEN 1
       ELSE IF off0 \in 0 .. 6 THEN <<8, 6, 4, 0, 5, 7, 9>>[off0 + 1]
       ELSE IF off1 \in 0 .. 6 THEN <<14, 12, 10, 1, 11, 13, 15>>[off1 + 1]
       ELSE IF distance = cache[3] THEN 2
       ELSE IF distance = cache[4] THEN 3
       ELSE distance + 15

-----------------------------------------------------------------------------
(* The distances a search tries first: those used last and, from level 7   *)
(* on, the neighbours of the last one or two of them.                      *)
Neighbours(d) == <<d - 1, d + 1, d - 2, d + 2, d - 3, d + 3>>

Expand(cache, n) ==
    SubSeq(cache \o Neighbours(cache[1]) \o Neighbours(cache[2]), 1, n)

(* Mutant: the neighbours stay those of the distance before. *)
PushStale(cache, distance) ==
    <<distance, cache[1], cache[2], cache[3]>> \o SubSeq(cache, 5, Len(cache))

(* The table of ten kept up to date one distance at a time. *)
Push(cache, distance) ==
    Expand(<<distance, cache[1], cache[2], cache[3]>>, Len(cache))

-----------------------------------------------------------------------------
(* createBackwardReferences.  P holds the constants of a matcher: the      *)
(* bytes its hash loads (htl), how far from the end it may stride by four  *)
(* and by two, the window of the random heuristics, whether the search one *)
(* byte ahead has to beat the length already found (eager), whether the    *)
(* literals are counted on the way (histo), how many distances are tried   *)
(* first and whether their table is kept up to date or built anew (cached, *)
(* pushed), whether the positions stored are counted (counting), and       *)
(* whether every search goes on in the compound dictionary (compound).     *)
(* Store(hh, i) is the matcher hh with position i in its table, and        *)
(* Find(cur, maxLength, maxDistance, best) a search of the table: what it  *)
(* found, sr, how many words of the static dictionary are tried where that *)
(* is nothing, and the matcher h after it.                                 *)

StoreAll(Store(_, _), hh, positions) ==
    LET F[k \in 0 .. Len(positions)] ==
          IF k = 0 THEN hh
          ELSE LET before == F[k - 1] IN Store(before, positions[k])
    IN F[Len(positions)]

From(start, end, step) ==
    [k \in 1 .. (Max({0, end - start}) + step - 1) \div step |-> start + (k - 1) * step]

(* ringLimit: where a match of this length would reach the ring's end. *)
RingLimit(i, len) == IF i < RingSize - len THEN RingSize - len ELSE 0

(* The three positions whose hash reached into this block. *)
Stitch(Store(_, _), htl, hh) ==
    IF l.posEnd - s.processed >= htl - 1 /\ s.processed >= 3
    THEN StoreAll(Store, hh, From(s.processed - 3, s.processed, 1))
    ELSE hh

(* The prologue; extendLastCommand may have taken the first bytes. *)
Enter(P, hh, noWrap) ==
    /\ pc = "begin"
    /\ pc' = "search"
    /\ h' = hh
    /\ l' = [l EXCEPT !.insertLength = s.lastInsertLen,
                     !.apply = l.position + P.window,
                     !.storeEnd = IF l.posEnd - l.position >= P.htl
                                  THEN l.posEnd - P.htl + 1 ELSE l.position,
                     !.noWrap = noWrap,
                     !.cache = Expand(s.distCache, P.cached)]
    /\ UNCHANGED <<input, s>>

(* What a search found in the table; the dictionaries come next, where the *)
(* matcher uses them: one or two words, and the chunks.                    *)
Look(P, ahead, result) ==
    \E m \in {result} :
      /\ pc' = IF m.words > 0 \/ P.compound THEN "dict" ELSE "found"
      /\ l' = [l EXCEPT !.found = m.sr, !.ahead = ahead,
                       !.words = m.words, !.compound = P.compound]
      /\ h' = m.h
      /\ UNCHANGED <<input, s>>

(* The dictionaries, the same way for every matcher: the static one where  *)
(* nothing was found, and the compound one in any case.                    *)
FoundWord(cur) ==
    LET i == IF l.noWrap THEN Direct(cur) ELSE Masked(cur)
        maxLength   == l.posEnd - cur
        maxBackward == MaxDistance(cur) + Gap
    IN CASE l.found.score # MinScore \/ l.words = 0 -> [sr |-> l.found, d |-> s.d]
         [] l.found.score = MinScore /\ l.words = 1 ->
              SearchStaticDictionary(i, maxLength, maxBackward, l.found, s.d)
         [] l.found.score = MinScore /\ l.words = 2 ->
              SearchStaticDictionaryDeep(i, maxLength, maxBackward, l.found, s.d)

Consult ==
    LET cur == l.position + l.ahead
    IN /\ pc = "dict"
       /\ pc' = "found"
       /\ \E w \in {FoundWord(cur)} :
            /\ l' = [l EXCEPT !.found =
                       IF ~l.compound THEN w.sr
                       ELSE LookupMatch(Masked(cur), l.posEnd - cur, MaxDistance(cur),
                                        w.sr)]
            /\ s' = [s EXCEPT !.d = w.d]
       /\ UNCHANGED <<input, h>>

(* A search at the current position. *)
Search(P, Find(_, _, _, _)) ==
    \/ /\ pc = "search" /\ l.position + P.htl < l.posEnd
       /\ Look(P, 0, Find(l.position, l.posEnd - l.position,
                          MaxDistance(l.position), NoMatch))
    \/ /\ pc = "found" /\ l.ahead = 0
       /\ pc' = IF l.found.score > MinScore THEN "lazy" ELSE "literal"
       /\ l' = [l EXCEPT !.sr = l.found, !.delayed = 0]
       /\ UNCHANGED <<input, s, h>>

(* Another at the next one, taken when it is clearly better; at most four  *)
(* times in a row.                                                         *)
LazyBest(P) ==
    IF ~P.eager THEN NoMatch
    ELSE [NoMatch EXCEPT !.len = Min({l.sr.len - 1, l.posEnd - l.position - 1})]

Lazy(P, Find(_, _, _, _)) ==
    LET better == l.found.score >= l.sr.score + CostDiffLazy
        again  == /\ better /\ l.delayed + 1 < 4
                  /\ l.position + 1 + P.htl < l.posEnd
    IN \/ /\ pc = "lazy"
          /\ Look(P, 1, Find(l.position + 1, l.posEnd - l.position - 1,
                             MaxDistance(l.position + 1), LazyBest(P)))
       \/ /\ pc = "found" /\ l.ahead = 1
          /\ pc' = IF again THEN "lazy" ELSE "emit"
          /\ l' = IF ~better THEN l
                  ELSE [l EXCEPT !.position = @ + 1, !.insertLength = @ + 1,
                                 !.sr = l.found, !.delayed = @ + 1]
          /\ UNCHANGED <<input, s, h>>

(* The positions of a match that go into the table: not those of a run     *)
(* that repeats itself.                                                    *)
RangeEnd == Min({l.position + l.sr.len, l.storeEnd})

(* Mutant: the position after the match found is stored a second time. *)
RangeStartEarly == l.position + 1

RangeStart ==
    IF l.sr.distance < l.sr.len \div 4
    THEN Min({RangeEnd, Max({l.position + 2,
                             l.position + l.sr.len - 4 * l.sr.distance})})
    ELSE l.position + 2

CountLiterals(masked) ==
    [b \in DOMAIN s.histo |->
       s.histo[b] + Cardinality({k \in l.position - l.insertLength .. l.position - 1 :
                                   ByteAt(IndexOf(masked, k)) = b})]

(* The command, the distance cache, and the positions of the match. *)
Emit(P, masked, Store(_, _)) ==
    LET max  == MaxDistance(l.position) + Gap
        code == DistanceCode(l.sr.distance, max, s.distCache)
        push == l.sr.distance <= max /\ code > 0
        distCache == IF push THEN Push(s.distCache, l.sr.distance) ELSE s.distCache
        stored == StoreAll(Store, h, From(RangeStart, RangeEnd, 1))
    IN /\ pc = "emit"
       /\ pc' = "search"
       /\ s' = [s EXCEPT
             !.distCache = distCache,
             !.commands = Append(@, [ins |-> l.insertLength, copy |-> l.sr.len,
                                     delta |-> l.sr.delta, code |-> code]),
             !.numLiterals = @ + l.insertLength,
             !.histo = IF P.histo THEN CountLiterals(masked) ELSE @]
       /\ h' = IF P.counting
               THEN [stored EXCEPT !.stores = @ + RangeEnd - RangeStart] ELSE stored
       /\ l' = [l EXCEPT !.position = @ + l.sr.len, !.insertLength = 0,
                        !.apply = l.position + 2 * l.sr.len + P.window,
                        !.sr = NoMatch, !.found = NoMatch,
                        !.cache = IF ~P.pushed THEN Expand(distCache, P.cached)
                                  ELSE IF push THEN Push(@, l.sr.distance) ELSE @]
       /\ UNCHANGED input

(* A literal; where nothing matches, several, and only some positions are  *)
(* stored.                                                                 *)
Literal(P, Store(_, _)) ==
    LET pos    == l.position + 1
        stride == IF pos > l.apply + 4 * P.window
                  THEN From(pos, Min({pos + 16, l.posEnd - P.jump4}), 4)
                  ELSE IF pos > l.apply
                  THEN From(pos, Min({pos + 8, l.posEnd - P.jump2}), 2)
                  ELSE <<>>
        step == IF pos > l.apply + 4 * P.window THEN 4 ELSE 2
    IN /\ pc = "literal"
       /\ pc' = "search"
       /\ h' = StoreAll(Store, h, stride)
       /\ l' = [l EXCEPT !.position = pos + step * Len(stride),
                        !.insertLength = @ + 1 + step * Len(stride)]
       /\ UNCHANGED <<input, s>>

(* What is left of the block are literals of the next command.  AtEnd is   *)
(* what the matcher does last.                                             *)
Finish(P, AtEnd(_)) ==
    /\ pc = "search" /\ l.position + P.htl >= l.posEnd
    /\ pc' = "merge"
    /\ s' = [s EXCEPT !.lastInsertLen = l.insertLength + l.posEnd - l.position]
    /\ h' = AtEnd(h)
    /\ l' = [l EXCEPT !.position = l.posEnd, !.insertLength = 0, !.apply = 0,
                      !.storeEnd = 0, !.noWrap = FALSE,
                      !.found = NoMatch, !.ahead = 0, !.words = 0, !.compound = FALSE]
    /\ UNCHANGED input
=============================================================================
