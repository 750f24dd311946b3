---------------------------- MODULE EncoderRing ----------------------------
(***************************************************************************)
(* The input ring buffer of the streaming compressor (ringbuffer.go): a    *)
(* small allocation for a small first write, the full one from the second  *)
(* write on, a copy of the front kept behind the end so that reads may run *)
(* over it, and a position that wraps but remembers that it did.  Bytes    *)
(* are represented by their index in the input.                            *)
(*                                                                         *)
(* The two bytes in front of the buffer are left out: they are written     *)
(* and never read.                                                         *)
(***************************************************************************)
EXTENDS Integers, FiniteSetsExt

CONSTANTS
    Size,     \* ringBufSize
    TailSize, \* also the largest chunk: one input block
    Quiet,    \* 7, the bytes after the input that hashing may load
    HighBit,  \* 1 << 31, the flag in ringBufPos
    MaxInput  \* bound: bytes of a stream

ASSUME EncoderRingAssumption ==
    /\ Size \in Nat \ {0} /\ TailSize \in Nat \ {0} /\ 2 * TailSize <= Size
    /\ Quiet \in 0 .. Size
    /\ HighBit \in Nat /\ HighBit % Size = 0 /\ HighBit > Size
    /\ MaxInput \in Nat

VARIABLES
    len,       \* bytes of data in use: len(ringBufAlloc) without the prefix
    room,      \* bytes there is capacity for
    data,
    rbPos,     \* ringBufPos
    inputPos

inputVars == <<len, room, data, rbPos, inputPos>>

Cleared == -1
OldByte == -2   \* memory of another stream
Full    == Size + TailSize + Quiet

TypeOK ==
    /\ len \in 0 .. Full /\ room \in len .. Full
    /\ data \in [0 .. Full - 1 -> Int]
    /\ rbPos \in 0 .. 2 * HighBit - 1
    /\ inputPos \in 0 .. MaxInput

InputInit ==
    /\ len = 0 /\ room = 0
    /\ data = [k \in 0 .. Full - 1 |-> OldByte]
    /\ rbPos = 0 /\ inputPos = 0

-----------------------------------------------------------------------------
(* initRingBuffer: the same memory with the new part cleared, or a larger  *)
(* one, cleared or with old contents, into which the input so far is       *)
(* copied.                                                                 *)
Grown(buflen, junk) ==
    LET needed == buflen + Quiet
    IN [k \in DOMAIN data |->
          IF k \in buflen .. needed - 1 THEN Cleared
          ELSE IF k < len THEN data[k]
          ELSE IF room < needed THEN junk
          ELSE IF k < needed THEN Cleared
          ELSE data[k]]

(* The capacity it leaves: what was there, or what the new memory has. *)
GrownRoom(buflen, r) ==
    IF room >= buflen + Quiet THEN r = room ELSE r \in buflen + Quiet .. Full

(* Input of n bytes at the masked position m, the copy behind the end      *)
(* included.                                                               *)
Stored(d, m, n) ==
    [k \in DOMAIN d |->
       IF k \in m .. m + n - 1 /\ k < Size + TailSize THEN inputPos + (k - m)
       ELSE IF k + Size \in m .. m + n - 1 THEN inputPos + (k + Size - m)
       ELSE IF m < TailSize /\ k - Size \in m .. Min({m + n, TailSize}) - 1
       THEN inputPos + (k - Size - m)
       ELSE d[k]]

(* Mutant: the position wraps without a trace. *)
AdvancePlain(n) == (rbPos + n) % HighBit

(* ringBufPos keeps its high bit once it has been set. *)
Advance(n) ==
    LET p == (rbPos % HighBit) + n
    IN IF rbPos >= HighBit /\ p < HighBit THEN p + HighBit ELSE p

(* Mutant: nothing is cleared behind the input. *)
QuietedNot(d, p) == d

(* On the first lap the bytes after the input are cleared. *)
Quieted(d, p) ==
    IF p < Size
    THEN [k \in DOMAIN d |-> IF k \in p .. p + Quiet - 1 THEN Cleared ELSE d[k]]
    ELSE d

(* copyInputToRingBuffer, a first write smaller than a block: only as much *)
(* memory as it needs.                                                     *)
CopySmall(n, junk, r) ==
    /\ rbPos = 0 /\ n < TailSize /\ room < Full
    /\ GrownRoom(n, r)
    /\ rbPos' = n
    /\ data' = [k \in DOMAIN data |->
                  IF k < n THEN inputPos + k ELSE Grown(n, junk)[k]]
    /\ len' = n + Quiet
    /\ room' = r
    /\ inputPos' = inputPos + n

(* Every other write: the full buffer. *)
CopyFull(n, junk, r) ==
    /\ rbPos # 0 \/ n = TailSize \/ room = Full
    /\ GrownRoom(Size + TailSize, r)
    /\ LET base == IF len < Full
                   THEN [Grown(Size + TailSize, junk)
                           EXCEPT ![Size - 2] = Cleared, ![Size - 1] = Cleared]
                   ELSE data
       IN data' = Quieted(Stored(base, rbPos % Size, n), Advance(n))
    /\ rbPos' = Advance(n)
    /\ len' = Full
    /\ room' = r
    /\ inputPos' = inputPos + n

CopyInput(n, junk, r) ==
    /\ inputPos + n <= MaxInput
    /\ CopySmall(n, junk, r) \/ CopyFull(n, junk, r)

Old == [k \in DOMAIN data |-> IF data[k] = Cleared THEN Cleared ELSE OldByte]

(* encodeState.reset keeps the memory; for the two highest levels it makes *)
(* sure that there is enough of it, cleared or from the pool.              *)
Reset ==
    /\ rbPos' = 0 /\ inputPos' = 0
    /\ \/ data' = Old /\ UNCHANGED <<len, room>>
       \/ /\ room < Full
          /\ room' = Full /\ len' = 0
          /\ \E junk \in {Cleared, OldByte} : data' = [k \in DOMAIN data |-> junk]

(* releaseRingBuffer, after which only a reset can follow. *)
Release ==
    /\ len' = 0 /\ room' = 0
    /\ data' = [k \in DOMAIN data |-> OldByte]
    /\ rbPos' = 0 /\ inputPos' = 0

InputNext ==
    \/ \E n \in 1 .. TailSize, junk \in {Cleared, OldByte}, r \in Quiet .. Full :
          CopyInput(n, junk, r)
    \/ Reset \/ Release

InputSpec == InputInit /\ [][InputNext]_inputVars

-----------------------------------------------------------------------------
First == Max({0, inputPos - Size})

(* The last Size bytes of input are where their masked position says,      *)
(* after growth, laps, resets and the wrap of ringBufPos; and a read that  *)
(* starts among them may run over the end of the ring, where it finds the  *)
(* same bytes as at its front.                                             *)
WindowIntact ==
    \A q \in First .. inputPos - 1 :
        /\ data[q % Size] = q
        /\ q >= Size /\ q % Size < TailSize => data[Size + (q % Size)] = q

(* "On the first lap, zero 7 bytes after written data": hashing that loads *)
(* past the input never sees bytes of another stream.                      *)
QuietAfterInput ==
    0 < inputPos /\ inputPos < Size =>
        \A k \in inputPos .. inputPos + Quiet - 1 : k < len /\ data[k] = Cleared
=============================================================================
