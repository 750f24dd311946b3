------------------------ MODULE EncoderStreamProofs ------------------------
(***************************************************************************)
(* Proofs about EncoderStream: the output of levels 2 to 11 is one stream  *)
(* without gaps, its metablocks fit, and the decoder's distance cache      *)
(* follows the encoder's, for every size of block, window and metablock.   *)
(***************************************************************************)
EXTENDS EncoderStream, TLAPS

(* What MetablockFits rests on: there is always room for the rest of the   *)
(* block being filled.                                                     *)
RoomForBlock ==
    /\ inputPos - procPos <= BlockSize
    /\ procPos - flushPos + BlockSize <= MaxMetablock

(* A Write in progress has met no error, and no call has succeeded since   *)
(* it began.                                                               *)
WriteInProgress == todo > 0 => ~err /\ last = "none"

StreamInv ==
    /\ TypeOK /\ DistCacheInSync /\ RoomForBlock /\ BitsConserved /\ Delivered
    /\ WriteInProgress

Numbers ==
    /\ inputPos \in Nat /\ procPos \in Nat /\ flushPos \in Nat
    /\ flushPos <= procPos /\ procPos <= inputPos
    /\ insertLen \in Nat
    /\ cache \in Nat /\ saved \in Nat /\ decCache \in Nat
    /\ carry \in 0 .. 14
    /\ written \in Nat /\ produced \in Nat
    /\ todo \in 0 .. MaxInput

Flags ==
    /\ ended \in BOOLEAN /\ err \in BOOLEAN /\ closed \in BOOLEAN
    /\ last \in {"none", "write", "flush", "close"}

-----------------------------------------------------------------------------
(* The community module's Max of two integers. *)
LEMMA MaxTwo ==
    ASSUME NEW a \in Int, NEW b \in Int
    PROVE  Max({a, b}) = IF a >= b THEN a ELSE b
<1> DEFINE m == IF a >= b THEN a ELSE b
<1>1. m \in {a, b} /\ \A y \in {a, b} : m >= y
  OBVIOUS
<1>2. ASSUME NEW x \in {a, b}, \A y \in {a, b} : x >= y
      PROVE  x = m
  BY <1>2
<1> QED
  BY <1>1, <1>2 DEF Max

(* And its Min. *)
LEMMA MinTwo ==
    ASSUME NEW a \in Int, NEW b \in Int
    PROVE  Min({a, b}) = IF a <= b THEN a ELSE b
<1> DEFINE m == IF a <= b THEN a ELSE b
<1>1. m \in {a, b} /\ \A y \in {a, b} : m <= y
  OBVIOUS
<1>2. ASSUME NEW x \in {a, b}, \A y \in {a, b} : x <= y
      PROVE  x = m
  BY <1>2
<1> QED
  BY <1>1, <1>2 DEF Min

(* A metablock has room for a block, and the ring for a block and the      *)
(* window behind it.                                                       *)
LEMMA Sizes ==
    /\ MaxMetablock \in Int /\ RingSize \in Int
    /\ BlockSize <= MaxMetablock /\ MaxMetablock <= RingSize
    /\ BlockSize + Window <= RingSize
<1>1. /\ BlockSize \in Int /\ Window \in Int /\ MlenLimit \in Int
      /\ BlockSize > 0 /\ Window > 0 /\ MlenLimit >= BlockSize
  BY EncoderStreamAssumption
<1>2. RingSize = 2 * (IF Window >= BlockSize THEN Window ELSE BlockSize)
  BY <1>1, MaxTwo DEF RingSize
<1>3. RingSize \in Int
  BY <1>1, <1>2
<1>4. MaxMetablock = IF RingSize <= MlenLimit THEN RingSize ELSE MlenLimit
  BY <1>1, <1>3, MinTwo DEF MaxMetablock
<1> QED
  BY <1>1, <1>2, <1>3, <1>4

(* Bits are rounded up the same way from any byte on. *)
LEMMA Rounding ==
    ASSUME NEW w \in Nat, NEW c \in Nat
    PROVE  /\ AlignUp(c) \in Nat /\ AlignUp(c) % 8 = 0
           /\ 8 * (AlignUp(c) \div 8) = AlignUp(c)
           /\ AlignUp(8 * w + c) = 8 * w + AlignUp(c)
BY DEF AlignUp

(* remainingInputBlockSize leaves the block at most full. *)
LEMMA Room ==
    ASSUME Numbers
    PROVE  /\ Remaining \in Int
           /\ Remaining > 0 => Remaining = BlockSize - (inputPos - procPos)
           /\ Remaining = 0 => inputPos > procPos
<1>1. BlockSize \in Int /\ BlockSize > 0 /\ Delta \in Int
  BY EncoderStreamAssumption DEF Numbers, Delta
<1>2. Remaining = IF 0 >= BlockSize - Delta THEN 0 ELSE BlockSize - Delta
  BY <1>1, MaxTwo DEF Remaining
<1> QED
  BY <1>1, <1>2 DEF Delta, Numbers

(* A type-correct state has numbers and flags, and the other way round.    *)
LEMMA Types == TypeOK <=> Numbers /\ Flags
BY DEF TypeOK, Numbers, Flags

-----------------------------------------------------------------------------
(* The bits of a metablock in the output buffer are its bits in the        *)
(* stream, and a last one ends on a byte.                                  *)
LEMMA EmittedBits ==
    ASSUME Numbers, NEW stored \in BOOLEAN, NEW isLast \in BOOLEAN,
           NEW b \in CompBits
    PROVE  /\ Offset(stored, b, isLast) \in Nat
           /\ ProducedBy(stored, b, isLast) \in Nat
           /\ isLast => Offset(stored, b, isLast) % 8 = 0
           /\ 8 * written + carry = produced =>
                ProducedBy(stored, b, isLast)
                  = 8 * written + Offset(stored, b, isLast)
<1> DEFINE n == inputPos - flushPos
<1>1. /\ b \in Nat /\ StoredBits \in Nat /\ n \in Nat
      /\ carry \in Nat /\ written \in Nat /\ produced \in Nat
  BY EncoderStreamAssumption DEF Numbers
<1> HIDE DEF n
<1>2. \A c \in Nat :
        /\ AlignUp(c) \in Nat /\ AlignUp(c) % 8 = 0
        /\ AlignUp(8 * written + c) = 8 * written + AlignUp(c)
  BY <1>1, Rounding
<1>3. /\ StoredEnd(carry, n, isLast) \in Nat
      /\ StoredEnd(produced, n, isLast) \in Nat
      /\ StoredEnd(carry, n, isLast) % 8 = 0
  <2>1. carry + StoredBits \in Nat /\ produced + StoredBits \in Nat
    BY <1>1
  <2>2. PICK x \in Nat : x = AlignUp(carry + StoredBits) /\ x % 8 = 0
    BY <1>2, <2>1
  <2>3. PICK y \in Nat : y = AlignUp(produced + StoredBits)
    BY <1>2, <2>1
  <2>4. PICK e \in {0, 8} : e = IF isLast THEN 8 ELSE 0
    OBVIOUS
  <2>5. /\ StoredEnd(carry, n, isLast) = x + 8 * n + e
        /\ StoredEnd(produced, n, isLast) = y + 8 * n + e
    BY <2>2, <2>3, <2>4 DEF StoredEnd
  <2>6. x + 8 * n + e \in Nat /\ y + 8 * n + e \in Nat
    BY <1>1
  <2>7. (x + 8 * n + e) % 8 = 0
    <3>1. \A k \in Nat : (x + 8 * k) % 8 = 0
      BY <2>2
    <3>2. PICK k \in Nat : x + 8 * n + e = x + 8 * k
      <4>1. n \in Nat /\ n + 1 \in Nat
        BY <1>1
      <4>2. x + 8 * n + 0 = x + 8 * n /\ x + 8 * n + 8 = x + 8 * (n + 1)
        BY <1>1
      <4> QED
        BY <4>1, <4>2
    <3> QED
      BY <3>1, <3>2
  <2> QED
    BY <2>5, <2>6, <2>7
<1>4. 8 * written + carry = produced =>
        StoredEnd(produced, n, isLast)
          = 8 * written + StoredEnd(carry, n, isLast)
  <2> SUFFICES ASSUME 8 * written + carry = produced
               PROVE  StoredEnd(produced, n, isLast)
                        = 8 * written + StoredEnd(carry, n, isLast)
    OBVIOUS
  <2>1. carry + StoredBits \in Nat
        /\ produced + StoredBits = 8 * written + (carry + StoredBits)
    BY <1>1
  <2>2. PICK x \in Nat : x = AlignUp(carry + StoredBits)
                         /\ AlignUp(produced + StoredBits) = 8 * written + x
    BY <1>2, <2>1
  <2> QED
    BY <1>1, <2>2 DEF StoredEnd
<1>5. /\ CompressedEnd(carry, b, isLast) \in Nat
      /\ CompressedEnd(produced, b, isLast) \in Nat
      /\ isLast => CompressedEnd(carry, b, isLast) % 8 = 0
  <2>1. carry + b \in Nat /\ produced + b \in Nat
    BY <1>1
  <2>2. CASE isLast
    BY <1>2, <2>1, <2>2 DEF CompressedEnd
  <2>3. CASE ~isLast
    BY <2>1, <2>3 DEF CompressedEnd
  <2> QED
    BY <2>2, <2>3
<1>6. 8 * written + carry = produced =>
        CompressedEnd(produced, b, isLast)
          = 8 * written + CompressedEnd(carry, b, isLast)
  <2> SUFFICES ASSUME 8 * written + carry = produced
               PROVE  CompressedEnd(produced, b, isLast)
                        = 8 * written + CompressedEnd(carry, b, isLast)
    OBVIOUS
  <2>1. carry + b \in Nat /\ produced + b = 8 * written + (carry + b)
    BY <1>1
  <2>2. CASE isLast
    BY <1>2, <2>1, <2>2 DEF CompressedEnd
  <2>3. CASE ~isLast
    BY <2>1, <2>3 DEF CompressedEnd
  <2> QED
    BY <2>2, <2>3
<1>7. CASE stored
  <2>1. /\ Offset(stored, b, isLast) = StoredEnd(carry, n, isLast)
        /\ ProducedBy(stored, b, isLast) = StoredEnd(produced, n, isLast)
    BY <1>7 DEF Offset, ProducedBy, n
  <2> QED
    BY <2>1, <1>3, <1>4
<1>8. CASE ~stored
  <2>1. /\ Offset(stored, b, isLast) = CompressedEnd(carry, b, isLast)
        /\ ProducedBy(stored, b, isLast) = CompressedEnd(produced, b, isLast)
    BY <1>8 DEF Offset, ProducedBy
  <2> QED
    BY <2>1, <1>5, <1>6
<1> QED
  BY <1>7, <1>8

(* After a metablock, stored or not, the caches agree and there is room    *)
(* for the next block.                                                     *)
LEMMA EmitStep ==
    ASSUME Numbers, DistCacheInSync, NEW d \in Nat, NEW b, NEW stored \in BOOLEAN,
           NEW isLast, Emit(d, stored, b, isLast), inputPos' = inputPos
    PROVE  /\ inputPos' \in Nat /\ procPos' = inputPos' /\ flushPos' = inputPos'
           /\ insertLen' = 0 /\ ended' = isLast
           /\ cache' \in Nat /\ saved' \in Nat /\ decCache' \in Nat
           /\ DistCacheInSync' /\ RoomForBlock'
<1>1. /\ inputPos' \in Nat /\ procPos' = inputPos' /\ flushPos' = inputPos'
      /\ insertLen' = 0 /\ ended' = isLast
  BY DEF Emit, Numbers
<1>2. CASE stored
  <2>1. decCache' = decCache /\ cache' = saved /\ saved' = saved
    BY <1>2 DEF Emit, Caches
  <2> QED
    BY <1>1, <2>1, Sizes, EncoderStreamAssumption
       DEF Numbers, DistCacheInSync, RoomForBlock, MaxMetablock, RingSize
<1>3. CASE ~stored
  <2>1. decCache' = d /\ cache' = d /\ saved' = d
    BY <1>3 DEF Emit, Caches
  <2> QED
    BY <1>1, <2>1, Sizes, EncoderStreamAssumption
       DEF DistCacheInSync, RoomForBlock, MaxMetablock, RingSize
<1> QED
  BY <1>2, <1>3

-----------------------------------------------------------------------------
(* Filling a block. *)
LEMMA ChunkStep == StreamInv /\ WriteChunk => StreamInv'
<1> SUFFICES ASSUME StreamInv, WriteChunk PROVE StreamInv'
  OBVIOUS
<1>1. Numbers /\ Flags
  BY Types DEF StreamInv
<1>2. PICK chunk \in Nat :
        /\ chunk > 0 /\ chunk <= todo /\ chunk <= BlockSize - (inputPos - procPos)
        /\ inputPos' = inputPos + chunk /\ todo' = todo - chunk
        /\ last' = IF todo = chunk THEN "write" ELSE last
  <2>1. /\ Remaining \in Int /\ Remaining > 0 /\ todo \in Int /\ todo > 0
        /\ Remaining = BlockSize - (inputPos - procPos)
    BY <1>1, Room DEF WriteChunk, Numbers
  <2>2. Min({todo, Remaining}) = IF todo <= Remaining THEN todo ELSE Remaining
    BY <2>1, MinTwo
  <2>3. Min({todo, Remaining}) \in Nat /\ Min({todo, Remaining}) > 0
        /\ Min({todo, Remaining}) <= todo /\ Min({todo, Remaining}) <= Remaining
    BY <2>1, <2>2
  <2> QED
    BY <2>1, <2>3 DEF WriteChunk
<1>3. UNCHANGED <<procPos, flushPos, insertLen, cache, saved, decCache, carry,
                  written, produced, ended, err, closed>>
  BY DEF WriteChunk
<1>4. last = "none" /\ ~err
  BY <1>1, <1>2 DEF StreamInv, WriteInProgress, Numbers
<1>5. Numbers'
  BY <1>1, <1>2, <1>3, EncoderStreamAssumption DEF Numbers
<1>6. Flags'
  BY <1>1, <1>2, <1>3 DEF Flags
<1>7. RoomForBlock'
  BY <1>1, <1>2, <1>3, Sizes, EncoderStreamAssumption
     DEF StreamInv, RoomForBlock, Numbers, MaxMetablock, RingSize
<1>8. DistCacheInSync' /\ BitsConserved'
  BY <1>3 DEF StreamInv, DistCacheInSync, BitsConserved
<1>9. Delivered'
  BY <1>2, <1>4 DEF Delivered
<1>10. WriteInProgress'
  BY <1>1, <1>2, <1>3, <1>4 DEF WriteInProgress, Numbers
<1> QED
  BY <1>5, <1>6, <1>7, <1>8, <1>9, <1>10 DEF StreamInv, TypeOK, Numbers, Flags

(* A block that is merged is not empty, so that its distances are not      *)
(* taken for the decoder's.                                                *)
LEMMA MergeStep ==
    ASSUME StreamInv, NEW i \in Nat, NEW d \in {cache, cache + 1}, WriteMerge(i, d)
    PROVE  StreamInv'
<1>1. Numbers /\ Flags
  BY Types DEF StreamInv
<1>2. /\ procPos' = inputPos /\ insertLen' = i /\ cache' = d
      /\ inputPos - flushPos + BlockSize <= MaxMetablock
      /\ inputPos > procPos
      /\ UNCHANGED <<inputPos, flushPos, saved, decCache, carry, written, produced,
                     ended, todo, err, closed, last>>
  BY <1>1, Room DEF WriteMerge, Merge
<1>3. d \in Nat
  BY <1>1 DEF Numbers
<1>4. Numbers'
  BY <1>1, <1>2, <1>3 DEF Numbers
<1>5. Flags' /\ BitsConserved' /\ Delivered' /\ WriteInProgress'
  BY <1>1, <1>2 DEF StreamInv, Flags, BitsConserved, Delivered, WriteInProgress
<1>6. RoomForBlock'
  BY <1>1, <1>2, EncoderStreamAssumption
     DEF RoomForBlock, Numbers, MaxMetablock, RingSize
<1>7. DistCacheInSync'
  BY <1>1, <1>2 DEF StreamInv, DistCacheInSync, Numbers
<1> QED
  BY <1>4, <1>5, <1>6, <1>7 DEF StreamInv, TypeOK, Numbers, Flags

(* A metablock inside a Write. *)
LEMMA WriteEmitStep ==
    ASSUME StreamInv, NEW i \in Nat, NEW d \in {cache, cache + 1},
           NEW stored \in BOOLEAN, NEW ok \in BOOLEAN, NEW b \in CompBits,
           WriteEmit(i, d, stored, b, ok)
    PROVE  StreamInv'
<1> DEFINE end == Offset(stored, b, FALSE)
           bits == ProducedBy(stored, b, FALSE)
<1>1. Numbers /\ Flags /\ DistCacheInSync
  BY Types DEF StreamInv
<1>2. /\ end \in Nat /\ bits \in Nat
      /\ 8 * written + carry = produced => bits = 8 * written + end
  BY <1>1, EmittedBits
<1>3. /\ carry' = end % 8
      /\ written' = IF ok THEN written + end \div 8 ELSE written
      /\ produced' = bits /\ todo' = IF ok THEN todo ELSE 0
      /\ todo > 0 /\ UNCHANGED <<inputPos, closed, last>>
  BY DEF WriteEmit
<1>4. err' = ~ok /\ ~err /\ last = "none"
  BY <1>3 DEF WriteEmit, StreamInv, WriteInProgress
<1> HIDE DEF end, bits
<1>5. d \in Nat
  BY <1>1 DEF Numbers
<1>6. /\ inputPos' \in Nat /\ procPos' = inputPos' /\ flushPos' = inputPos'
      /\ insertLen' = 0 /\ ended' = FALSE
      /\ cache' \in Nat /\ saved' \in Nat /\ decCache' \in Nat
      /\ DistCacheInSync' /\ RoomForBlock'
  BY <1>1, <1>3, <1>5, EmitStep DEF WriteEmit
<1>7. Numbers'
  BY <1>1, <1>2, <1>3, <1>6, EncoderStreamAssumption DEF Numbers
<1>8. Flags'
  BY <1>1, <1>3, <1>4, <1>6 DEF Flags
<1>9. BitsConserved'
  <2> SUFFICES ASSUME ok PROVE 8 * written' + carry' = produced'
    BY <1>4 DEF BitsConserved
  <2>1. 8 * written + carry = produced
    BY <1>4 DEF StreamInv, BitsConserved
  <2> QED
    BY <2>1, <1>1, <1>2, <1>3 DEF Numbers
<1>10. Delivered'
  BY <1>3, <1>4 DEF Delivered
<1>11. WriteInProgress'
  <2>1. CASE ok
    BY <2>1, <1>3, <1>4 DEF WriteInProgress
  <2>2. CASE ~ok
    BY <2>2, <1>3 DEF WriteInProgress
  <2> QED
    BY <2>1, <2>2
<1> QED
  BY <1>6, <1>7, <1>8, <1>9, <1>10, <1>11 DEF StreamInv, TypeOK, Numbers, Flags

-----------------------------------------------------------------------------
(* A Flush with nothing to emit: the seal ends on a byte. *)
LEMMA FlushEmptyStep ==
    ASSUME StreamInv, NEW ok \in BOOLEAN, FlushEmpty(ok)
    PROVE  StreamInv'
<1>1. Numbers /\ Flags
  BY Types DEF StreamInv
<1>2. /\ carry' = 0 /\ produced' = AlignUp(produced + 6)
      /\ written' = IF ok THEN written + AlignUp(carry + 6) \div 8 ELSE written
      /\ last' = IF ok THEN "flush" ELSE "none"
      /\ inputPos = flushPos /\ todo = 0
      /\ UNCHANGED <<inputPos, procPos, flushPos, insertLen, cache, saved,
                     decCache, ended, todo, closed>>
  BY DEF FlushEmpty, Seal, Open
<1>3. err' = ~ok /\ ~err
  BY DEF FlushEmpty, Open
<1>4. /\ AlignUp(carry + 6) \in Nat /\ AlignUp(produced + 6) \in Nat
      /\ 8 * (AlignUp(carry + 6) \div 8) = AlignUp(carry + 6)
      /\ AlignUp(8 * written + (carry + 6)) = 8 * written + AlignUp(carry + 6)
  BY <1>1, Rounding DEF Numbers
<1>5. Numbers'
  BY <1>1, <1>2, <1>4 DEF Numbers
<1>6. Flags'
  BY <1>1, <1>2, <1>3 DEF Flags
<1>7. DistCacheInSync' /\ RoomForBlock'
  BY <1>2 DEF StreamInv, DistCacheInSync, RoomForBlock, MaxMetablock, RingSize
<1>8. BitsConserved'
  <2> SUFFICES ASSUME ok PROVE 8 * written' + carry' = produced'
    BY <1>3 DEF BitsConserved
  <2>1. produced + 6 = 8 * written + (carry + 6)
    BY <1>1, <1>3 DEF StreamInv, BitsConserved, Numbers
  <2>2. PICK x \in Nat : x = AlignUp(carry + 6) \div 8
    BY <1>1, <1>4 DEF Numbers
  <2>3. produced' = 8 * written + 8 * x /\ written' = written + x
    BY <1>2, <1>4, <2>1, <2>2
  <2> QED
    BY <1>1, <1>2, <2>3 DEF Numbers
<1>9. Delivered'
  BY <1>2 DEF Delivered
<1>10. WriteInProgress'
  BY <1>2 DEF WriteInProgress
<1> QED
  BY <1>5, <1>6, <1>7, <1>8, <1>9, <1>10 DEF StreamInv, TypeOK, Numbers, Flags

(* A Flush with a metablock, and either of its writes failing. *)
LEMMA FlushStep ==
    ASSUME StreamInv, NEW i \in Nat, NEW d \in {cache, cache + 1},
           NEW stored \in BOOLEAN, NEW b \in CompBits, NEW ok1 \in BOOLEAN,
           NEW ok2 \in BOOLEAN, Flush(i, d, stored, b, ok1, ok2)
    PROVE  StreamInv'
<1> DEFINE end  == Offset(stored, b, FALSE)
           bits == ProducedBy(stored, b, FALSE)
           seal == AlignUp((end % 8) + 6) \div 8
<1>1. Numbers /\ Flags /\ DistCacheInSync
  BY Types DEF StreamInv
<1>2. /\ end \in Nat /\ bits \in Nat
      /\ 8 * written + carry = produced => bits = 8 * written + end
  BY <1>1, EmittedBits
<1>3. /\ carry' = IF ok1 THEN 0 ELSE end % 8
      /\ written' = written + (IF ok1 THEN end \div 8 ELSE 0)
                            + (IF ok1 /\ ok2 THEN seal ELSE 0)
      /\ produced' = AlignUp(bits + 6)
      /\ last' = IF ok1 /\ ok2 THEN "flush" ELSE "none"
      /\ todo = 0 /\ UNCHANGED <<inputPos, todo, closed>>
  BY DEF Flush, Open
<1>4. err' = ~(ok1 /\ ok2) /\ ~err
  BY DEF Flush, Open
<1>5. d \in Nat
  BY <1>1 DEF Numbers
<1>6. /\ inputPos' \in Nat /\ procPos' = inputPos' /\ flushPos' = inputPos'
      /\ insertLen' = 0 /\ ended' = FALSE
      /\ cache' \in Nat /\ saved' \in Nat /\ decCache' \in Nat
      /\ DistCacheInSync' /\ RoomForBlock'
  BY <1>1, <1>3, <1>5, EmitStep DEF Flush
<1>7. /\ end \div 8 \in Nat /\ end % 8 \in 0 .. 7 /\ (end % 8) + 6 \in Nat
      /\ 8 * (end \div 8) + (end % 8) = end /\ bits + 6 \in Nat
  <2> HIDE DEF end, bits
  <2> QED
    BY <1>2
<1>8. seal \in Nat /\ 8 * seal = AlignUp((end % 8) + 6) /\ AlignUp(bits + 6) \in Nat
  <2>1. /\ AlignUp((end % 8) + 6) \in Nat /\ AlignUp(bits + 6) \in Nat
        /\ 8 * (AlignUp((end % 8) + 6) \div 8) = AlignUp((end % 8) + 6)
    BY <1>7, Rounding
  <2>2. \A x \in Nat : x \div 8 \in Nat
    OBVIOUS
  <2> QED
    BY <2>1, <2>2
<1>9. 8 * written + carry = produced =>
        AlignUp(bits + 6) = 8 * (written + end \div 8 + seal)
  <2> SUFFICES ASSUME 8 * written + carry = produced
               PROVE  AlignUp(bits + 6) = 8 * (written + end \div 8 + seal)
    OBVIOUS
  <2>1. bits = 8 * written + end /\ written \in Nat
    BY <1>1, <1>2 DEF Numbers
  <2>2. /\ written + end \div 8 \in Nat
        /\ bits + 6 = 8 * (written + end \div 8) + ((end % 8) + 6)
    <3> HIDE DEF end, bits
    <3> QED
      BY <1>2, <1>7, <2>1
  <2>3. AlignUp(bits + 6) = 8 * (written + end \div 8) + AlignUp((end % 8) + 6)
    <3>1. PICK w \in Nat, c \in Nat :
             /\ w = written + end \div 8 /\ c = (end % 8) + 6
             /\ bits + 6 = 8 * w + c
      BY <1>7, <2>2
    <3>2. AlignUp(8 * w + c) = 8 * w + AlignUp(c)
      BY Rounding
    <3> QED
      BY <3>1, <3>2
  <2> HIDE DEF end, bits, seal
  <2> QED
    BY <1>7, <1>8, <2>1, <2>3
<1> HIDE DEF end, bits, seal
<1>10. Numbers'
  <2>1. carry' \in 0 .. 14
    BY <1>3, <1>7
  <2>2. written' \in Nat
    BY <1>1, <1>3, <1>7, <1>8 DEF Numbers
  <2> QED
    BY <1>1, <1>3, <1>6, <1>8, <2>1, <2>2 DEF Numbers
<1>11. Flags'
  BY <1>1, <1>3, <1>4, <1>6 DEF Flags
<1>12. BitsConserved'
  <2> SUFFICES ASSUME ok1, ok2 PROVE 8 * written' + carry' = produced'
    BY <1>4 DEF BitsConserved
  <2>1. 8 * written + carry = produced
    BY <1>4 DEF StreamInv, BitsConserved
  <2>2. carry' = 0 /\ written' = written + end \div 8 + seal /\ written' \in Nat
    BY <1>3, <1>10 DEF Numbers
  <2> QED
    BY <2>1, <2>2, <1>3, <1>9
<1>13. Delivered'
  BY <1>3, <1>6 DEF Delivered
<1>14. WriteInProgress'
  BY <1>3 DEF WriteInProgress
<1> QED
  BY <1>6, <1>10, <1>11, <1>12, <1>13, <1>14 DEF StreamInv, TypeOK, Numbers, Flags

(* A Close with nothing to emit: an empty last metablock. *)
LEMMA CloseEmptyStep ==
    ASSUME StreamInv, NEW ok \in BOOLEAN, CloseEmpty(ok)
    PROVE  StreamInv'
<1>1. Numbers /\ Flags
  BY Types DEF StreamInv
<1>2. /\ carry' = 0 /\ produced' = AlignUp(produced + 2)
      /\ written' = IF ok THEN written + AlignUp(carry + 2) \div 8 ELSE written
      /\ last' = IF ok THEN "close" ELSE "none"
      /\ inputPos = flushPos /\ todo = 0
      /\ UNCHANGED <<inputPos, procPos, flushPos, insertLen, cache, saved,
                     decCache, todo>>
  BY DEF CloseEmpty, Open
<1>3. err' = ~ok /\ ~err /\ ended' = TRUE /\ closed' = TRUE
  BY DEF CloseEmpty, Open
<1>4. /\ AlignUp(carry + 2) \in Nat /\ AlignUp(produced + 2) \in Nat
      /\ 8 * (AlignUp(carry + 2) \div 8) = AlignUp(carry + 2)
      /\ AlignUp(8 * written + (carry + 2)) = 8 * written + AlignUp(carry + 2)
  BY <1>1, Rounding DEF Numbers
<1>5. Numbers'
  BY <1>1, <1>2, <1>4 DEF Numbers
<1>6. Flags'
  BY <1>1, <1>2, <1>3 DEF Flags
<1>7. DistCacheInSync' /\ RoomForBlock'
  BY <1>2 DEF StreamInv, DistCacheInSync, RoomForBlock, MaxMetablock, RingSize
<1>8. BitsConserved'
  <2> SUFFICES ASSUME ok PROVE 8 * written' + carry' = produced'
    BY <1>3 DEF BitsConserved
  <2>1. produced + 2 = 8 * written + (carry + 2)
    BY <1>1, <1>3 DEF StreamInv, BitsConserved, Numbers
  <2>2. PICK x \in Nat : x = AlignUp(carry + 2) \div 8
    BY <1>1, <1>4 DEF Numbers
  <2>3. produced' = 8 * written + 8 * x /\ written' = written + x
    BY <1>2, <1>4, <2>1, <2>2
  <2> QED
    BY <1>1, <1>2, <2>3 DEF Numbers
<1>9. Delivered'
  BY <1>2, <1>3 DEF Delivered
<1>10. WriteInProgress'
  BY <1>2 DEF WriteInProgress
<1> QED
  BY <1>5, <1>6, <1>7, <1>8, <1>9, <1>10 DEF StreamInv, TypeOK, Numbers, Flags

(* A Close with a metablock, which ends on a byte. *)
LEMMA CloseStep ==
    ASSUME StreamInv, NEW i \in Nat, NEW d \in {cache, cache + 1},
           NEW stored \in BOOLEAN, NEW b \in CompBits, NEW ok \in BOOLEAN,
           Close(i, d, stored, b, ok)
    PROVE  StreamInv'
<1> DEFINE end  == Offset(stored, b, TRUE)
           bits == ProducedBy(stored, b, TRUE)
<1>1. Numbers /\ Flags /\ DistCacheInSync
  BY Types DEF StreamInv
<1>2. /\ end \in Nat /\ bits \in Nat /\ end % 8 = 0
      /\ 8 * written + carry = produced => bits = 8 * written + end
  BY <1>1, EmittedBits
<1>3. /\ carry' = end % 8
      /\ written' = IF ok THEN written + end \div 8 ELSE written
      /\ produced' = bits /\ last' = IF ok THEN "close" ELSE "none"
      /\ todo = 0 /\ UNCHANGED <<inputPos, todo>>
  BY DEF Close, Open
<1>4. err' = ~ok /\ ~err /\ closed' = TRUE
  BY DEF Close, Open
<1> HIDE DEF end, bits
<1>5. d \in Nat
  BY <1>1 DEF Numbers
<1>6. /\ inputPos' \in Nat /\ procPos' = inputPos' /\ flushPos' = inputPos'
      /\ insertLen' = 0 /\ ended' = TRUE
      /\ cache' \in Nat /\ saved' \in Nat /\ decCache' \in Nat
      /\ DistCacheInSync' /\ RoomForBlock'
  BY <1>1, <1>3, <1>5, EmitStep DEF Close
<1>7. Numbers'
  BY <1>1, <1>2, <1>3, <1>6 DEF Numbers
<1>8. Flags'
  BY <1>1, <1>3, <1>4, <1>6 DEF Flags
<1>9. BitsConserved'
  <2> SUFFICES ASSUME ok PROVE 8 * written' + carry' = produced'
    BY <1>4 DEF BitsConserved
  <2>1. 8 * written + carry = produced
    BY <1>4 DEF StreamInv, BitsConserved
  <2> QED
    BY <2>1, <1>1, <1>2, <1>3 DEF Numbers
<1>10. Delivered'
  BY <1>2, <1>3, <1>6 DEF Delivered
<1>11. WriteInProgress'
  BY <1>3 DEF WriteInProgress
<1> QED
  BY <1>6, <1>7, <1>8, <1>9, <1>10, <1>11 DEF StreamInv, TypeOK, Numbers, Flags

(* A call of Write begins. *)
LEMMA WriteStep ==
    ASSUME StreamInv, NEW n \in 1 .. MaxInput, Write(n)
    PROVE  StreamInv'
<1>1. Numbers /\ Flags
  BY Types DEF StreamInv
<1>2. /\ todo' = n /\ last' = "none"
      /\ UNCHANGED <<inputPos, procPos, flushPos, insertLen, cache, saved,
                     decCache, carry, written, produced, ended, err, closed>>
  BY DEF Write
<1>3. ~err /\ ~err'
  BY DEF Write, Open
<1>4. Numbers'
  BY <1>1, <1>2, EncoderStreamAssumption DEF Numbers
<1>5. Flags'
  BY <1>1, <1>2 DEF Flags
<1>6. DistCacheInSync' /\ RoomForBlock' /\ BitsConserved'
  BY <1>2 DEF StreamInv, DistCacheInSync, RoomForBlock, BitsConserved, MaxMetablock,
              RingSize
<1>7. Delivered' /\ WriteInProgress'
  BY <1>2, <1>3 DEF Delivered, WriteInProgress
<1> QED
  BY <1>4, <1>5, <1>6, <1>7 DEF StreamInv, TypeOK, Numbers, Flags

(* A stream that begins, at first or after a Reset. *)
LEMMA Beginning ==
    ASSUME inputPos = 0, procPos = 0, flushPos = 0, insertLen = 0, cache = 0,
           saved = 0, decCache = 0, carry \in HeaderBits, written = 0,
           produced = carry, ended = FALSE, err = FALSE, closed = FALSE,
           last = "none", todo = 0
    PROVE  StreamInv
<1>1. Numbers
  BY EncoderStreamAssumption DEF Numbers
<1>2. Flags
  BY DEF Flags
<1>3. DistCacheInSync /\ Delivered /\ WriteInProgress
  BY DEF DistCacheInSync, Delivered, WriteInProgress
<1>4. BitsConserved
  BY EncoderStreamAssumption DEF BitsConserved
<1>5. RoomForBlock
  BY Sizes, EncoderStreamAssumption DEF RoomForBlock
<1> QED
  BY <1>1, <1>2, <1>3, <1>4, <1>5, Types DEF StreamInv

(* Reset begins a stream whatever state the one before was left in. *)
LEMMA ResetStep == StreamInv /\ Reset => StreamInv'
<1> SUFFICES ASSUME StreamInv, Reset PROVE StreamInv'
  OBVIOUS
<1>1. /\ inputPos' = 0 /\ procPos' = 0 /\ flushPos' = 0 /\ insertLen' = 0
      /\ cache' = 0 /\ saved' = 0 /\ decCache' = 0 /\ carry' \in HeaderBits
      /\ written' = 0 /\ produced' = carry' /\ last' = "none" /\ todo' = 0
  BY DEF Reset
<1>2. ended' = FALSE /\ err' = FALSE /\ closed' = FALSE
  BY DEF Reset
<1>3. Numbers'
  BY <1>1, EncoderStreamAssumption DEF Numbers
<1>4. Flags'
  BY <1>1, <1>2 DEF Flags
<1>5. DistCacheInSync' /\ Delivered' /\ WriteInProgress'
  BY <1>1 DEF DistCacheInSync, Delivered, WriteInProgress
<1>6. BitsConserved'
  <2>1. \A x \in Nat : 8 * 0 + x = x
    OBVIOUS
  <2>2. carry' \in Nat
    BY <1>3 DEF Numbers
  <2>3. 8 * written' + carry' = produced'
    BY <1>1, <2>1, <2>2
  <2> QED
    BY <2>3 DEF BitsConserved
<1>7. RoomForBlock'
  BY <1>1, Sizes, EncoderStreamAssumption DEF RoomForBlock, MaxMetablock, RingSize
<1> QED
  BY <1>3, <1>4, <1>5, <1>6, <1>7 DEF StreamInv, TypeOK, Numbers, Flags

-----------------------------------------------------------------------------
(* The streaming encoder and its Writer start in order and stay so,        *)
(* whatever is found, merged or stored, and wherever the destination       *)
(* fails.                                                                  *)
THEOREM StreamInvHolds == Spec => []StreamInv
<1>1. Init => StreamInv
  BY Beginning DEF Init
<1>2. StreamInv /\ [Next]_vars => StreamInv'
  <2> SUFFICES ASSUME StreamInv, [Next]_vars PROVE StreamInv'
    OBVIOUS
  <2>1. 0 .. MaxInput \subseteq Nat
    BY EncoderStreamAssumption
  <2>2. CASE Running
    BY <2>1, <2>2, ChunkStep, MergeStep, WriteEmitStep DEF Running
  <2>3. CASE Caller
    BY <2>1, <2>3, WriteStep, FlushEmptyStep, CloseEmptyStep, FlushStep, CloseStep,
       ResetStep DEF Caller
  <2>4. CASE UNCHANGED vars
    BY <2>4 DEF vars, StreamInv, TypeOK, DistCacheInSync, RoomForBlock, BitsConserved,
       Delivered, WriteInProgress, MaxMetablock, RingSize
  <2> QED
    BY <2>2, <2>3, <2>4 DEF Next
<1> QED
  BY <1>1, <1>2, PTL DEF Spec

(* TypeOK: the three positions stay in order, and at most 14 bits are      *)
(* carried.                                                                *)
THEOREM TypesHold == Spec => []TypeOK
<1>1. StreamInv => TypeOK
  BY DEF StreamInv
<1> QED
  BY <1>1, StreamInvHolds, PTL

(* DistCacheInSync: restoring savedDistCache when a metablock is stored    *)
(* keeps both sides' recent distances the same.                            *)
THEOREM CachesInSync == Spec => []DistCacheInSync
<1>1. StreamInv => DistCacheInSync
  BY DEF StreamInv
<1> QED
  BY <1>1, StreamInvHolds, PTL

(* BitsConserved: carried bits and bytes written are the stream.           *)
THEOREM StreamIsGapless == Spec => []BitsConserved
<1>1. StreamInv => BitsConserved
  BY DEF StreamInv
<1> QED
  BY <1>1, StreamInvHolds, PTL

(* Delivered: a Flush leaves nothing undecodable behind, a Close ends the  *)
(* stream.                                                                 *)
THEOREM FlushDelivers == Spec => []Delivered
<1>1. StreamInv => Delivered
  BY DEF StreamInv
<1> QED
  BY <1>1, StreamInvHolds, PTL

(* MetablockFits: merging stops before a metablock outgrows the format or  *)
(* the ring.                                                               *)
THEOREM MetablocksFit == Spec => []MetablockFits
<1>1. StreamInv => MetablockFits
  <2> SUFFICES ASSUME StreamInv PROVE MetablockFits
    OBVIOUS
  <2>1. /\ inputPos \in Nat /\ procPos \in Nat /\ flushPos \in Nat
        /\ procPos <= inputPos /\ flushPos <= procPos
        /\ inputPos - procPos <= BlockSize
        /\ procPos - flushPos + BlockSize <= MaxMetablock
    BY DEF StreamInv, TypeOK, RoomForBlock
  <2>2. BlockSize \in Int /\ Window \in Int /\ Window > 0
    BY EncoderStreamAssumption
  <2>3. Max({0, procPos - Window}) = IF 0 >= procPos - Window THEN 0
                                     ELSE procPos - Window
    BY <2>1, <2>2, MaxTwo
  <2> QED
    BY <2>1, <2>2, <2>3, Sizes DEF MetablockFits
<1> QED
  BY <1>1, StreamInvHolds, PTL

=============================================================================
