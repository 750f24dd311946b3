---------------------------- MODULE DecoderRing ----------------------------
(***************************************************************************)
(* The output side of the decoder (decode.go): the ring buffer that is     *)
(* history window and output queue at once.  It starts small, grows while  *)
(* the window is not reached, wraps once it is, and is read by the caller  *)
(* whenever decompressStream is suspended.  Bytes are represented by their *)
(* index in the decompressed stream, so a slot of the ring tells which     *)
(* byte it holds; what the byte's value is does not matter here.           *)
(*                                                                         *)
(* The compressed stream is whatever it is: lengths and distances of the   *)
(* commands are chosen freely, commands that overrun the metablock         *)
(* included.  The caller takes any number of pending bytes at any          *)
(* suspension; Reader and Decompress take all of them before they resume.  *)
(***************************************************************************)
EXTENDS Integers, Sequences, FiniteSetsExt

CONSTANTS
    Window,      \* 1 << windowBits
    Sizes,       \* the sizes a ring may have: the window and its halvings
    MinRing,     \* 1024, the smallest ring
    Slack,       \* ringBufferWriteAheadSlack
    WindowGap,   \* core.WindowGap
    Eager,       \* bytes one wide store covers (16)
    MaxWord,     \* longest transformed dictionary word
    MaxInsert,   \* bound: literals of a command
    MaxCopy,     \* bound: copy length
    MaxTotal     \* bound: declared bytes of a stream

ASSUME DecoderRingAssumption ==
    /\ Window \in Nat /\ MinRing \in Nat \ {0} /\ Slack \in Nat
    /\ WindowGap \in Nat /\ Eager \in Nat \ {0} /\ MaxWord \in Nat
    /\ Sizes \subseteq 1 .. Window /\ Window \in Sizes
    /\ \A s, t \in Sizes : s < t => 2 * s <= t
    /\ MinRing <= Window
    /\ WindowGap < MinRing
    /\ Eager <= WindowGap /\ Eager + 2 <= MinRing
    /\ MaxWord + Eager <= Slack /\ MaxWord < MinRing
    /\ MaxInsert \in Nat /\ MaxCopy \in Nat /\ MaxTotal \in Nat

VARIABLES
    size,       \* ringbufferSize, 0 before the first allocation
    pos,        \* write position, may run into the slack
    rt,         \* rbRoundtrips
    partial,    \* partialPosOut, bytes handed out
    maxDist,    \* maxDistance
    ring,       \* which byte each slot holds
    state,      \* decoderState
    remaining,  \* metaBlockRemainingLen
    left,       \* loopCounter: literals or copy bytes still to write
    dist,       \* distanceCode of a copy that was suspended
    word,       \* bytes of a compound-dictionary copy still to write
    out,        \* output appended by writeRingBuffer, not yet served
    sent        \* bytes the caller has received

vars == <<size, pos, rt, partial, maxDist, ring, state, remaining, left, dist,
          word, out, sent>>

MaxBackward == Window - WindowGap
Stale == -2   \* leftovers of another stream or of a wide store
Zero  == -1   \* a zero byte written by ensureRingBuffer

(* Bytes decoded so far. *)
Total == rt * size + pos

(* The slot of the byte d before the next one: (pos - d) & ringbufferMask, *)
(* or beyond the mask while pos is in the slack.                           *)
Slot(d) == IF d <= pos THEN pos - d ELSE pos - d + size

(* maxDistance as the next backward reference computes it. *)
MaxDistance == IF maxDist # MaxBackward THEN Min({pos, MaxBackward}) ELSE maxDist

(* Offset of the first byte that was not handed out. *)
Flushed == partial - rt * size

(* pendingOutput: nothing after an overrun. *)
Pending == IF remaining < 0 \/ Min({pos, size}) <= Flushed THEN {}
           ELSE Flushed .. Min({pos, size}) - 1

States == {"header", "body", "literals", "distance", "innerWrite", "postWrite1",
           "compound", "postWrite1Again", "postWrite2", "wrapCopy",
           "uncompressed", "uncWrite", "metaDone", "done", "error"}

(* Where decompressStream has returned to its caller: the ring is full, the *)
(* input is used up, or the stream has ended.                               *)
Suspended ==
    /\ remaining >= 0
    /\ state \in {"header", "body", "literals", "distance", "innerWrite",
                  "postWrite1", "postWrite2", "uncompressed", "uncWrite", "done"}

Fresh ==
    /\ size' = 0 /\ pos' = 0 /\ rt' = 0 /\ partial' = 0 /\ maxDist' = 0
    /\ ring' = [k \in 0 .. Window + Slack - 1 |-> Stale]
    /\ state' = "header" /\ remaining' = 0 /\ left' = 0 /\ dist' = 0 /\ word' = 0
    /\ out' = <<>> /\ sent' = 0

Init ==
    /\ size = 0 /\ pos = 0 /\ rt = 0 /\ partial = 0 /\ maxDist = 0
    /\ ring = [k \in 0 .. Window + Slack - 1 |-> Stale]
    /\ state = "header" /\ remaining = 0 /\ left = 0 /\ dist = 0 /\ word = 0
    /\ out = <<>> /\ sent = 0

-----------------------------------------------------------------------------
(* Sizing *)

(* calculateRingBufferSize: the smallest halving of the window that holds  *)
(* what there is and what the metablock adds, the window if none does.     *)
RingFor(len) ==
    LET need == Max({IF size = 0 THEN MinRing ELSE size, pos + len})
        fits == {s \in Sizes : s >= need}
    IN IF size = Window \/ fits = {} THEN Window ELSE Min(fits)

(* A larger buffer, from the pool or by reslicing: the bytes before pos    *)
(* are kept, the others are whatever the memory held.                      *)
Realloc == [k \in DOMAIN ring |-> IF k < pos THEN ring[k] ELSE Stale]

(* ensureRingBuffer: the last two slots are zero because the first         *)
(* literals take their context from them.                                  *)
EnsureRing(n) ==
    /\ size' = n
    /\ ring' = IF n = size THEN ring
               ELSE [Realloc EXCEPT ![n - 2] = Zero, ![n - 1] = Zero]

(* writeRingBuffer.  Too small for the window: grow past pos and keep      *)
(* everything.  Full: hand out the rest of the lap, start the next one     *)
(* with the bytes that ran into the slack.                                 *)
Grow ==
    /\ size < Window
    /\ \E s \in {t \in Sizes : t > pos} :
          /\ \A t \in Sizes : t > pos => s <= t
          /\ size' = s
    /\ ring' = Realloc
    /\ UNCHANGED <<pos, rt, partial, maxDist, out>>

(* Mutant: the bytes in the slack are not moved to the front. *)
WrapDropsSlack ==
    /\ size = Window
    /\ out' = out \o [k \in 1 .. size - Flushed |-> ring[Flushed + k - 1]]
    /\ partial' = (rt + 1) * size
    /\ pos' = pos - size
    /\ rt' = rt + 1
    /\ maxDist' = MaxBackward
    /\ UNCHANGED <<size, ring>>

(* Mutant: the whole lap is written, whatever the caller has taken. *)
WrapResends ==
    /\ size = Window
    /\ out' = out \o [k \in 1 .. size |-> ring[k - 1]]
    /\ partial' = (rt + 1) * size
    /\ pos' = pos - size
    /\ rt' = rt + 1
    /\ ring' = [k \in DOMAIN ring |->
                  IF k < pos - size THEN ring[size + k] ELSE ring[k]]
    /\ maxDist' = MaxBackward
    /\ UNCHANGED size

Wrap ==
    /\ size = Window
    /\ out' = out \o [k \in 1 .. size - Flushed |-> ring[Flushed + k - 1]]
    /\ partial' = (rt + 1) * size
    /\ pos' = pos - size
    /\ rt' = rt + 1
    /\ ring' = [k \in DOMAIN ring |->
                  IF k < pos - size THEN ring[size + k] ELSE ring[k]]
    /\ maxDist' = MaxBackward
    /\ UNCHANGED size

(* Mutant: growing declares the whole window reachable. *)
WriteRingBufferFullDistance ==
    \/ /\ pos < size
       /\ UNCHANGED <<size, pos, rt, partial, maxDist, ring, out>>
    \/ /\ pos >= size /\ size < Window
       /\ \E s \in {t \in Sizes : t > pos} :
             /\ \A t \in Sizes : t > pos => s <= t
             /\ size' = s
       /\ maxDist' = MaxBackward
       /\ ring' = Realloc
       /\ UNCHANGED <<pos, rt, partial, out>>
    \/ pos >= size /\ Wrap

WriteRingBuffer ==
    \/ /\ pos < size
       /\ UNCHANGED <<size, pos, rt, partial, maxDist, ring, out>>
    \/ pos >= size /\ Grow
    \/ pos >= size /\ Wrap

-----------------------------------------------------------------------------
(* Writing n bytes at pos; a wide store leaves up to g stale bytes behind. *)
Put(n, g) ==
    /\ ring' = [k \in DOMAIN ring |->
          IF k \in pos .. pos + n - 1 THEN Total + (k - pos)
          ELSE IF k \in pos + n .. pos + n + g - 1 THEN Stale ELSE ring[k]]
    /\ pos' = pos + n

(* A command that has filled the ring suspends decompressStream, which     *)
(* refuses to go on when the metablock was overrun.                        *)
Suspend(s, rem) == IF rem < 0 THEN "error" ELSE s

(* Where a command that is complete goes. *)
CommandDone(rem) == IF rem <= 0 THEN "metaDone" ELSE "body"

(* A metablock header of len bytes; ensureRingBuffer comes before the first *)
(* byte of either kind.                                                     *)
BeginMetablock(len, kind) ==
    /\ state = "header"
    /\ Total + len <= MaxTotal
    /\ EnsureRing(RingFor(len))
    /\ remaining' = len
    /\ state' = kind
    /\ UNCHANGED <<pos, rt, partial, maxDist, left, dist, word, out, sent>>

CommandBegin(i) ==
    /\ state = "body"
    /\ remaining' = remaining - i
    /\ left' = i
    /\ state' = IF i = 0 THEN "distance" ELSE "literals"
    /\ UNCHANGED <<size, pos, rt, partial, maxDist, ring, dist, word, out, sent>>

(* Literals up to the end of the ring; the input may run out in between. *)
CommandInner(n) ==
    /\ state = "literals"
    /\ n <= left /\ pos + n <= size
    /\ Put(n, 0)
    /\ left' = left - n
    /\ state' = IF pos + n = size THEN Suspend("innerWrite", remaining)
                ELSE IF left - n > 0 THEN "literals"
                ELSE IF remaining <= 0 THEN "metaDone" ELSE "distance"
    /\ UNCHANGED <<size, rt, partial, maxDist, remaining, dist, word, out, sent>>

InnerWrite ==
    /\ state = "innerWrite"
    /\ WriteRingBuffer
    /\ state' = IF left > 0 THEN "literals"
                ELSE IF remaining = 0 THEN "metaDone" ELSE "distance"
    /\ UNCHANGED <<remaining, left, dist, word, sent>>

(* A backward reference.  Without wrap or an overlap from ahead it is one  *)
(* run of wide stores, which leave at most Eager - 1 bytes behind the copy *)
(* (copyOverlappingPattern); otherwise one store and then the chunk loop.  *)
CopyFromRing(c, d) ==
    /\ state = "distance"
    /\ d <= MaxDistance
    /\ maxDist' = MaxDistance
    /\ remaining' = remaining - c
    /\ LET src     == Slot(d)
           straight == /\ pos + c < size /\ src + c < size
                       /\ src < pos \/ src >= pos + c
       IN \/ /\ straight
             /\ Put(c, Eager - 1)
             /\ state' = CommandDone(remaining - c)
             /\ UNCHANGED <<left, dist>>
          \/ /\ ~straight
             /\ ring' = [k \in DOMAIN ring |->
                           IF k \in pos .. pos + Eager - 1 THEN Stale ELSE ring[k]]
             /\ left' = c /\ dist' = d
             /\ state' = "wrapCopy"
             /\ UNCHANGED pos
    /\ UNCHANGED <<size, rt, partial, word, out, sent>>

(* One round of the chunk loop: neither cursor wraps inside a chunk, and a *)
(* source ahead of pos is copied byte by byte.                             *)
WrapCopyChunk ==
    /\ state = "wrapCopy" /\ left > 0
    /\ LET src == Slot(dist)
           n   == IF src < pos THEN Min({left, size - pos, size - src}) ELSE 1
           g   == IF src < pos /\ pos - src < n THEN Eager - 1 ELSE 0
       IN /\ Put(n, g)
          /\ left' = left - n
          /\ state' = IF pos + n = size THEN Suspend("postWrite2", remaining)
                      ELSE IF left - n > 0 THEN "wrapCopy"
                      ELSE CommandDone(remaining)
    /\ UNCHANGED <<size, rt, partial, maxDist, remaining, dist, word, out, sent>>

WrapCopyDone ==
    /\ state = "wrapCopy" /\ left = 0
    /\ state' = CommandDone(remaining)
    /\ UNCHANGED <<size, pos, rt, partial, maxDist, ring, remaining, left, dist,
                   word, out, sent>>

PostWrite2 ==
    /\ state = "postWrite2"
    /\ WriteRingBuffer
    /\ state' = "wrapCopy"
    /\ UNCHANGED <<remaining, left, dist, word, sent>>

(* A static-dictionary word goes in whole, into the slack if need be. *)
CopyDictionaryWord(w) ==
    /\ state = "distance"
    /\ maxDist' = MaxDistance
    /\ Put(w, 0)
    /\ remaining' = remaining - w
    /\ state' = IF pos + w >= size THEN Suspend("postWrite1", remaining - w)
                ELSE CommandDone(remaining - w)
    /\ UNCHANGED <<size, rt, partial, left, dist, word, out, sent>>

(* A compound-dictionary reference stops at the end of the ring. *)
CopyCompound(c) ==
    /\ state = "distance"
    /\ maxDist' = MaxDistance
    /\ remaining' = remaining - c
    /\ LET n == Min({c, size - pos})
       IN /\ Put(n, 0)
          /\ word' = c - n
          /\ state' = IF pos + n >= size THEN Suspend("postWrite1", remaining - c)
                      ELSE CommandDone(remaining - c)
    /\ UNCHANGED <<size, rt, partial, left, dist, out, sent>>

PostWrite1 ==
    /\ state \in {"postWrite1", "postWrite1Again"}
    /\ WriteRingBuffer
    /\ state' = "compound"
    /\ UNCHANGED <<remaining, left, dist, word, sent>>

(* The rest of a compound copy.  It may fill the ring again, and is written *)
(* out without going back to the caller.                                    *)
CompoundRest ==
    /\ state = "compound"
    /\ LET n == Min({word, size - pos})
       IN /\ Put(n, 0)
          /\ word' = word - n
          /\ state' = IF word > 0 /\ pos + n >= size THEN "postWrite1Again"
                      ELSE CommandDone(remaining)
    /\ UNCHANGED <<size, rt, partial, maxDist, remaining, left, dist, out, sent>>

(* copyUncompressedBlock *)
CopyUncompressed(n) ==
    /\ state = "uncompressed"
    /\ n <= remaining /\ pos + n <= size
    /\ Put(n, 0)
    /\ remaining' = remaining - n
    /\ state' = IF pos + n = size THEN "uncWrite"
                ELSE IF remaining = n THEN "metaDone" ELSE "uncompressed"
    /\ UNCHANGED <<size, rt, partial, maxDist, left, dist, word, out, sent>>

UncompressedWrite ==
    /\ state = "uncWrite"
    /\ WriteRingBuffer
    /\ state' = IF remaining = 0 THEN "metaDone" ELSE "uncompressed"
    /\ UNCHANGED <<remaining, left, dist, word, sent>>

MetablockDone ==
    /\ state = "metaDone"
    /\ \/ remaining < 0 /\ state' = "error"
       \/ remaining >= 0 /\ Total < MaxTotal /\ state' = "header"
       \/ remaining >= 0 /\ state' = "done"
    /\ UNCHANGED <<size, pos, rt, partial, maxDist, ring, remaining, left, dist,
                   word, out, sent>>

-----------------------------------------------------------------------------
(* The caller: first what writeRingBuffer appended, then the ring itself   *)
(* (Reader.serve, and decodeAll, whose sink receives both in that order).  *)
ServeOut(n) ==
    /\ Suspended
    /\ out # <<>> /\ n <= Len(out)
    /\ sent' = sent + n
    /\ out' = SubSeq(out, n + 1, Len(out))
    /\ UNCHANGED <<size, pos, rt, partial, maxDist, ring, state, remaining,
                   left, dist, word>>

ServePending(n) ==
    /\ Suspended
    /\ out = <<>> /\ n <= Cardinality(Pending)
    /\ sent' = sent + n
    /\ partial' = partial + n
    /\ UNCHANGED <<size, pos, rt, maxDist, ring, state, remaining, left, dist,
                   word, out>>

(* A bad code, reference or length, or a stream that ends too early.  It   *)
(* also stands for an overrun noticed while waiting for input.  Reader     *)
(* discards what it has not served.                                        *)
Fail ==
    /\ state \in {"header", "body", "literals", "distance", "uncompressed"}
    /\ state' = "error"
    /\ out' = <<>>
    /\ partial' = partial + Cardinality(Pending)
    /\ UNCHANGED <<size, pos, rt, maxDist, ring, remaining, left, dist, word, sent>>

(* initForReuse: the ring keeps its memory and whatever is in it. *)
Reuse ==
    /\ state \in {"done", "error"}
    /\ Fresh

Kinds == {"body", "uncompressed"}

Next ==
    \/ \E len \in 1 .. MaxTotal, kind \in Kinds : BeginMetablock(len, kind)
    \/ \E i \in 0 .. MaxInsert : CommandBegin(i)
    \/ \E n \in 1 .. MaxInsert : CommandInner(n)
    \/ InnerWrite
    \/ \E c \in 2 .. MaxCopy, d \in 1 .. MaxBackward : CopyFromRing(c, d)
    \/ WrapCopyChunk \/ WrapCopyDone \/ PostWrite2
    \/ \E w \in 0 .. MaxWord : CopyDictionaryWord(w)
    \/ \E c \in 2 .. MaxCopy : CopyCompound(c)
    \/ PostWrite1 \/ CompoundRest
    \/ \E n \in 1 .. MaxTotal : CopyUncompressed(n)
    \/ UncompressedWrite
    \/ MetablockDone
    \/ \E n \in 1 .. MaxTotal : ServeOut(n) \/ ServePending(n)
    \/ Fail \/ Reuse

Spec == Init /\ [][Next]_vars

-----------------------------------------------------------------------------
(* The ring wraps only at the size of the window, and a write never goes   *)
(* past the slack.                                                         *)
RingBounds ==
    /\ rt > 0 => size = Window
    /\ size > 0 => pos < size + MaxWord + 1
    /\ state \in {"header", "body", "distance", "literals", "uncompressed"}
          /\ size > 0 => pos < size

(* Every distance the decoder accepts reaches the byte it means: growing,  *)
(* wrapping, slack and the stray bytes of wide stores never disturb the    *)
(* part of the window a backward reference can use.  The two context bytes *)
(* before the start of the stream are zero, and no write has gone past the *)
(* slack.                                                                  *)
HistoryIntact ==
    size > 0 /\ state # "error" =>
        /\ RingBounds
        /\ \A d \in 1 .. MaxDistance : ring[Slot(d)] = Total - d
        /\ Total = 0 => ring[size - 2] = Zero
        /\ Total <= 1 => ring[size - 1] = Zero

(* writeRingBuffer's comment: jumping to the full window would set         *)
(* maxDistance too early and "corrupt static dictionary address            *)
(* computation".  A reference is to the dictionary exactly when it reaches *)
(* behind the decoded bytes or the window.                                 *)
MaxDistanceExact ==
    size > 0 /\ pos < size => MaxDistance = Min({Total, MaxBackward})

(* The caller receives byte 0, 1, 2, ...: what was appended on wraps comes *)
(* next, then the bytes pending in the ring; none is lost or sent twice,   *)
(* however servings, growth and wraps are interleaved.  At the end of the  *)
(* stream everything decoded is served or still pending.                   *)
OutputInOrder ==
    /\ \A k \in 1 .. Len(out) : out[k] = sent + k - 1
    /\ state # "error" =>
         /\ partial = sent + Len(out)
         /\ \A k \in Pending : ring[k] = partial + (k - Flushed)
    /\ state = "done" => sent + Len(out) + Cardinality(Pending) = Total

=============================================================================
