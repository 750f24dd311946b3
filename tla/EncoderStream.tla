--------------------------- MODULE EncoderStream ---------------------------
(***************************************************************************)
(* The streaming compressor of levels 2 to 11 under its Writer             *)
(* (writer.go, streaming_compressor.go, encoder.go, encode_state.go): how  *)
(* input is taken block by block, when blocks are merged, emitted or       *)
(* stored, which bits are carried between the pieces of output, and how    *)
(* the cache of recent distances follows what the decoder will have.       *)
(*                                                                         *)
(* Left open, as any choice is a valid encoding: what the match search     *)
(* finds, whether a block is worth compressing, how many bits it takes,    *)
(* and whether the heuristics ask for a metablock before it is full.       *)
(* The destination may fail at any call.                                   *)
(***************************************************************************)
EXTENDS Integers, FiniteSetsExt

CONSTANTS
    BlockSize,   \* 1 << lgblock
    Window,      \* 1 << lgwin
    MlenLimit,   \* 1 << 24, the largest metablock of the format
    HeaderBits,  \* bits of the stream header for the window sizes
    StoredBits,  \* bits of the header of a stored metablock
    CompBits,    \* bound: sizes of compressed metablocks, in bits
    MaxInput,    \* bound: bytes of a stream
    MaxBits      \* bound: no Flush of nothing beyond this many bits

ASSUME EncoderStreamAssumption ==
    /\ BlockSize \in Nat \ {0} /\ Window \in Nat \ {0}
    /\ MlenLimit \in Nat /\ MlenLimit >= BlockSize
    /\ HeaderBits \subseteq 1 .. 14 /\ StoredBits \in Nat \ {0}
    /\ CompBits \subseteq Nat \ {0} /\ MaxInput \in Nat /\ MaxBits \in Nat

VARIABLES
    inputPos,   \* bytes copied into the ring buffer
    procPos,    \* lastProcessedPos
    flushPos,   \* lastFlushPos
    insertLen,  \* lastInsertLen, literals not in a command yet
    cache,      \* distCache, by version
    saved,      \* savedDistCache
    decCache,   \* the cache a decoder has after the output so far
    carry,      \* lastBytesBits
    written,    \* bytes the destination has accepted
    produced,   \* bits of the stream so far, as a decoder counts them
    ended,      \* the last metablock is out
    todo,       \* rest of the Write in progress
    err, closed, \* Writer
    last        \* the last call that succeeded

vars == <<inputPos, procPos, flushPos, insertLen, cache, saved,
          decCache, carry, written, produced, ended, todo, err, closed, last>>

RingSize     == 2 * Max({Window, BlockSize})
MaxMetablock == Min({RingSize, MlenLimit})

TypeOK ==
    /\ inputPos \in Nat /\ procPos \in Nat /\ flushPos \in Nat
    /\ flushPos <= procPos /\ procPos <= inputPos
    /\ insertLen \in Nat
    /\ cache \in Nat /\ saved \in Nat /\ decCache \in Nat
    /\ carry \in 0 .. 14
    /\ written \in Nat /\ produced \in Nat
    /\ ended \in BOOLEAN /\ err \in BOOLEAN /\ closed \in BOOLEAN
    /\ todo \in 0 .. MaxInput
    /\ last \in {"none", "write", "flush", "close"}

Init ==
    /\ inputPos = 0 /\ procPos = 0 /\ flushPos = 0 /\ insertLen = 0
    /\ cache = 0 /\ saved = 0 /\ decCache = 0
    /\ carry \in HeaderBits /\ written = 0 /\ produced = carry
    /\ ended = FALSE /\ todo = 0 /\ err = FALSE /\ closed = FALSE /\ last = "none"

-----------------------------------------------------------------------------
AlignUp(bits) == 8 * ((bits + 7) \div 8)

Delta == inputPos - procPos

(* remainingInputBlockSize *)
Remaining == Max({0, BlockSize - Delta})

(* Bits of the stream, counted from offset, after a metablock of n bytes:  *)
(* stored, or compressed to b bits.  The last one ends on a byte.          *)
StoredEnd(offset, n, isLast) ==
    AlignUp(offset + StoredBits) + 8 * n + (IF isLast THEN 8 ELSE 0)
CompressedEnd(offset, b, isLast) ==
    IF isLast THEN AlignUp(offset + b) ELSE offset + b

(* What createBackwardReferences and extendLastCommand may come back with: *)
(* i trailing literals, and a new distance at the front of the cache if    *)
(* they made a command.                                                    *)
Found(i, d) ==
    /\ i \in 0 .. insertLen + Delta
    /\ d = cache \/ (d = cache + 1 /\ i < insertLen + Delta)

(* Mutant: a merge counts the next block as if it were already flushed. *)
MergeUnbounded(i, d) ==
    /\ procPos' = inputPos
    /\ insertLen' = i
    /\ cache' = d
    /\ UNCHANGED <<inputPos, flushPos, saved, decCache, carry, written, produced,
                   ended, todo, err, closed, last>>

(* prepareMetaBlock: the block joins the next one if that still fits. *)
Merge(i, d) ==
    /\ inputPos - flushPos + BlockSize <= MaxMetablock
    /\ procPos' = inputPos
    /\ insertLen' = i
    /\ cache' = d
    /\ UNCHANGED <<inputPos, flushPos, saved, decCache, carry, written, produced,
                   ended, todo, err, closed, last>>

(* Mutant: a stored metablock leaves the distances of its commands behind. *)
CachesKept(d, stored) ==
    /\ decCache' = IF stored THEN decCache ELSE d
    /\ cache' = d
    /\ saved' = d

(* A stored metablock does not touch the decoder's cache, so the encoder's *)
(* goes back to where it was at the last metablock.                        *)
Caches(d, stored) ==
    /\ decCache' = IF stored THEN decCache ELSE d
    /\ cache' = IF stored THEN saved ELSE d
    /\ saved' = cache'

(* Mutant: the attempt that is given up stays in the output. *)
OffsetKept(stored, b, isLast) ==
    LET n == inputPos - flushPos
    IN IF stored THEN StoredEnd(carry + b, n, isLast)
       ELSE CompressedEnd(carry, b, isLast)

(* bitOffset after writeMetaBlockInternal.  A block that is not worth      *)
(* compressing, or has grown by it, is stored from where it began.         *)
Offset(stored, b, isLast) ==
    LET n == inputPos - flushPos
    IN IF stored THEN StoredEnd(carry, n, isLast)
       ELSE CompressedEnd(carry, b, isLast)

(* finishMetaBlock, and what the metablock means to a decoder. *)
Emit(d, stored, b, isLast) ==
    /\ stored \/ inputPos - flushPos > 2
    /\ Caches(d, stored)
    /\ insertLen' = 0
    /\ procPos' = inputPos /\ flushPos' = inputPos
    /\ ended' = isLast

(* The bits of the same metablock in the stream. *)
ProducedBy(stored, b, isLast) ==
    IF stored THEN StoredEnd(produced, inputPos - flushPos, isLast)
    ELSE CompressedEnd(produced, b, isLast)

(* dst.Write(out) of n bytes: nothing is called for n = 0. *)
Writes(n, ok) == ok \/ n > 0

-----------------------------------------------------------------------------
(* Write *)

Open == ~err /\ ~closed /\ todo = 0

Write(n) ==
    /\ Open /\ n > 0 /\ inputPos + n <= MaxInput
    /\ todo' = n
    /\ last' = "none"
    /\ UNCHANGED <<inputPos, procPos, flushPos, insertLen, cache, saved,
                   decCache, carry, written, produced, ended, err, closed>>

(* Mutant: input that does not fill the block is left for later. *)
WriteChunkWhole ==
    /\ todo > 0 /\ Remaining > 0 /\ todo >= Remaining
    /\ inputPos' = inputPos + Remaining
    /\ todo' = todo - Remaining
    /\ last' = IF todo = Remaining THEN "write" ELSE last
    /\ UNCHANGED <<procPos, flushPos, insertLen, cache, saved, decCache,
                   carry, written, produced, ended, err, closed>>

(* streamWrite: fill the block, or encode it when it is full. *)
WriteChunk ==
    /\ todo > 0 /\ Remaining > 0
    /\ LET chunk == Min({todo, Remaining})
       IN /\ inputPos' = inputPos + chunk
          /\ todo' = todo - chunk
          /\ last' = IF todo = chunk THEN "write" ELSE last
    /\ UNCHANGED <<procPos, flushPos, insertLen, cache, saved, decCache,
                   carry, written, produced, ended, err, closed>>

WriteMerge(i, d) ==
    /\ todo > 0 /\ Remaining = 0
    /\ Found(i, d)
    /\ Merge(i, d)

WriteEmit(i, d, stored, b, ok) ==
    /\ todo > 0 /\ Remaining = 0
    /\ Found(i, d)
    /\ Emit(d, stored, b, FALSE)
    /\ LET end == Offset(stored, b, FALSE)
       IN /\ Writes(end \div 8, ok)
          /\ carry' = end % 8
          /\ written' = IF ok THEN written + end \div 8 ELSE written
    /\ produced' = ProducedBy(stored, b, FALSE)
    /\ err' = ~ok
    /\ todo' = IF ok THEN todo ELSE 0
    /\ UNCHANGED <<inputPos, closed, last>>

-----------------------------------------------------------------------------
(* Flush *)

(* The seal: an empty metadata block of 6 bits after the carried ones. *)
Seal(c) ==
    /\ carry' = 0
    /\ written' = written + AlignUp(c + 6) \div 8
    /\ produced' = AlignUp(produced + 6)

(* Mutant: with nothing to emit nothing is written. *)
FlushEmptySkips(ok) ==
    /\ Open /\ inputPos = flushPos /\ ok
    /\ last' = "flush"
    /\ UNCHANGED <<inputPos, procPos, flushPos, insertLen, cache, saved,
                   decCache, carry, written, produced, ended, todo, err, closed>>

(* streamFlush with nothing to emit. *)
FlushEmpty(ok) ==
    /\ Open /\ inputPos = flushPos /\ produced <= MaxBits
    /\ IF ok THEN Seal(carry)
       ELSE carry' = 0 /\ produced' = AlignUp(produced + 6) /\ UNCHANGED written
    /\ err' = ~ok
    /\ last' = IF ok THEN "flush" ELSE "none"
    /\ UNCHANGED <<inputPos, procPos, flushPos, insertLen, cache, saved,
                   decCache, ended, todo, closed>>

(* streamFlush with a metablock; either of its two writes may fail. *)
Flush(i, d, stored, b, ok1, ok2) ==
    /\ Open /\ inputPos # flushPos
    /\ Found(i, d)
    /\ Emit(d, stored, b, FALSE)
    /\ LET end == Offset(stored, b, FALSE)
           seal == AlignUp((end % 8) + 6) \div 8
       IN /\ Writes(end \div 8, ok1)
          /\ carry' = IF ok1 THEN 0 ELSE end % 8
          /\ written' = written + (IF ok1 THEN end \div 8 ELSE 0)
                                + (IF ok1 /\ ok2 THEN seal ELSE 0)
    /\ produced' = AlignUp(ProducedBy(stored, b, FALSE) + 6)
    /\ err' = ~(ok1 /\ ok2)
    /\ last' = IF ok1 /\ ok2 THEN "flush" ELSE "none"
    /\ UNCHANGED <<inputPos, todo, closed>>

-----------------------------------------------------------------------------
(* Close *)

(* An empty last metablock of 2 bits. *)
CloseEmpty(ok) ==
    /\ Open /\ inputPos = flushPos
    /\ carry' = 0
    /\ written' = IF ok THEN written + AlignUp(carry + 2) \div 8 ELSE written
    /\ produced' = AlignUp(produced + 2)
    /\ ended' = TRUE /\ closed' = TRUE /\ err' = ~ok
    /\ last' = IF ok THEN "close" ELSE "none"
    /\ UNCHANGED <<inputPos, procPos, flushPos, insertLen, cache, saved,
                   decCache, todo>>

(* streamClose.  The last metablock ends on a byte, so that nothing is     *)
(* left for the code that writes trailing bits.                            *)
Close(i, d, stored, b, ok) ==
    /\ Open /\ inputPos # flushPos
    /\ Found(i, d)
    /\ Emit(d, stored, b, TRUE)
    /\ LET end == Offset(stored, b, TRUE)
       IN /\ Writes(end \div 8, ok)
          /\ carry' = end % 8
          /\ written' = IF ok THEN written + end \div 8 ELSE written
    /\ produced' = ProducedBy(stored, b, TRUE)
    /\ closed' = TRUE /\ err' = ~ok
    /\ last' = IF ok THEN "close" ELSE "none"
    /\ UNCHANGED <<inputPos, todo>>

-----------------------------------------------------------------------------
(* Writer.Reset: encodeState.reset, or a compressor from the pool. *)
Reset ==
    /\ todo = 0
    /\ inputPos' = 0 /\ procPos' = 0 /\ flushPos' = 0 /\ insertLen' = 0
    /\ cache' = 0 /\ saved' = 0 /\ decCache' = 0
    /\ carry' \in HeaderBits /\ written' = 0 /\ produced' = carry'
    /\ ended' = FALSE /\ err' = FALSE /\ closed' = FALSE /\ last' = "none"
    /\ UNCHANGED todo

Running ==
    \/ WriteChunk
    \/ \E i \in 0 .. MaxInput, d \in {cache, cache + 1} :
          \/ WriteMerge(i, d)
          \/ \E stored, ok \in BOOLEAN, b \in CompBits : WriteEmit(i, d, stored, b, ok)

Caller ==
    \/ \E n \in 1 .. MaxInput : Write(n)
    \/ \E ok \in BOOLEAN : FlushEmpty(ok) \/ CloseEmpty(ok)
    \/ \E i \in 0 .. MaxInput, d \in {cache, cache + 1},
          stored, ok \in BOOLEAN, b \in CompBits :
          \/ \E ok2 \in BOOLEAN : Flush(i, d, stored, b, ok, ok2)
          \/ Close(i, d, stored, b, ok)
    \/ Reset

Next == Running \/ Caller

(* The goroutine inside Write keeps running. *)
Spec == Init /\ [][Next]_vars /\ WF_vars(Running)

-----------------------------------------------------------------------------
(* savedDistCache's comment: a stored metablock leaves the cache alone "so *)
(* the decoder's cache stays in sync".  Short distance codes mean the same *)
(* distance to both sides at the start of every metablock, whatever was    *)
(* merged, stored or reset before.                                         *)
DistCacheInSync ==
    /\ saved = decCache
    /\ procPos = flushPos => cache = decCache

(* A metablock never outgrows the format or the ring buffer, and what a    *)
(* match may refer to is still in the ring while the block is searched.    *)
MetablockFits ==
    /\ inputPos - flushPos <= MaxMetablock
    /\ inputPos - Max({0, procPos - Window}) <= RingSize

(* As long as the destination takes what it is given, its bytes and the    *)
(* carried bits are the stream, no bit missing or written twice.           *)
BitsConserved == ~err => 8 * written + carry = produced

(* After a Flush, a reader of the destination can decode all input so far; *)
(* after a Close it has the end of the stream as well.                     *)
Delivered ==
    last \in {"flush", "close"} =>
        /\ flushPos = inputPos
        /\ carry = 0
        /\ last = "close" => ended

(* Every Write returns. *)
WriteReturns == todo > 0 ~> todo = 0
=============================================================================
