----------------------------- MODULE FastStream -----------------------------
(***************************************************************************)
(* The compressor of levels 0 and 1 under its Writer (fast_compressor.go,  *)
(* compress_fragment_fast.go, compress_fragment_two_pass.go, writer.go):   *)
(* input is gathered into fragments of one window, every fragment becomes  *)
(* metablocks in a scratch buffer, whole bytes go to the destination and   *)
(* the bits of the unfinished byte seed the next fragment.  Level 0 opens  *)
(* a metablock before it knows its length: it extends it by writing the    *)
(* length field anew, and goes back to its first bit to store it instead.  *)
(*                                                                         *)
(* Left open: where matches are found, which blocks are worth merging or   *)
(* storing, and how many bits prefix codes and commands take.  The         *)
(* destination may fail at any call.                                       *)
(*                                                                         *)
(* A decoder reads the scratch buffer along with the encoder (decAt).      *)
(* Bits and bytes are counted from where the buffers begin, so that a      *)
(* stream may go on for ever.                                              *)
(***************************************************************************)
EXTENDS Integers, FiniteSetsExt

CONSTANTS
    Qualities,         \* levels, among 0 and 1
    Fragments,         \* 1 << lgwin, for the window sizes
    FirstBlockSize,    \* of a metablock of level 0
    MergeBlockSize,    \* of the blocks it is extended by
    TwoPassBlockSize,  \* of level 1
    MergeCap,          \* 1 << 20, the longest extended metablock
    Mlen16, Mlen20,    \* 1 << 16 and 1 << 20: lengths of 4 and of 5 nibbles
    InputMargin,       \* bytes of a block too short to be searched
    LongInsert,        \* literals from which storing is considered
    Offers,            \* bound: bytes to be compressed once a Write begins
    CodeBits,          \* bound: bits of prefix codes and of short commands
    Gaps,              \* bound: bytes after the last match of a block
    Runs               \* bound: bytes of a block before a late match

(* The last line is what merging relies on: "the current size and the new  *)
(* size both have 5 nibbles".                                              *)
ASSUME FastStreamAssumption ==
    /\ Qualities \subseteq {0, 1} /\ Fragments \subseteq Nat \ {0}
    /\ FirstBlockSize \in Nat \ {0} /\ MergeBlockSize \in Nat \ {0}
    /\ TwoPassBlockSize \in Nat \ {0}
    /\ MergeCap \in Nat /\ Mlen16 \in Nat /\ Mlen20 \in Nat \ {0}
    /\ InputMargin \in Nat /\ LongInsert \in Nat
    /\ Offers \subseteq Nat /\ CodeBits \subseteq Nat \ {0}
    /\ Gaps \subseteq Nat /\ Runs \subseteq Nat
    /\ FirstBlockSize > Mlen16 /\ FirstBlockSize <= Mlen20 /\ MergeCap <= Mlen20

VARIABLES
    quality,
    blockSizeLimit,  \* 1 << c.lgwin
    \* fastCompressor
    buf,         \* bytes of len(c.buf)
    carryBits, wroteHeader,
    codeFresh,   \* arena.cmdCode describes arena.cmdDepth and cmdBits
    \* the fragment being compressed
    pc,          \* what comes next in it
    fragLen, isLast,
    inPlace,     \* its bytes are the caller's and not those of buf
    start,       \* initialBitOffset
    off,         \* bitOffset
    pos, blockSize, total, mlenPos, nextEmit, metaStart,  \* fragmentCompressor
    headAt, mlen, width, code,  \* header of the open metablock, as it is read
    \* a decoder of the scratch buffer
    from,        \* where the fragment begins for it
    decAt, decBytes,  \* how far it has come, in bits and in bytes
    decOk,       \* it has met what it expects
    \* the stream
    lag,         \* bits of it beyond the bytes delivered
    behind,      \* bytes of input beyond the metablocks delivered
    began,       \* the decoder is past the stream header
    ended,       \* the last metablock is out
    \* Writer
    todo,        \* rest of the Write in progress
    op,          \* the call in progress
    err, closed,
    last         \* the last call that succeeded

config    == <<quality, blockSizeLimit>>
fragment  == <<fragLen, isLast, inPlace, start, from>>
metablock == <<blockSize, total, mlenPos, metaStart, headAt, mlen, width, code>>
decoder   == <<decAt, decBytes, decOk>>
header    == <<wroteHeader, began>>
writer    == <<op, err, closed, last>>
stream    == <<buf, carryBits, header, lag, behind, ended, todo, writer>>
inside    == <<config, fragment, stream>>  \* constant inside a fragment
vars      == <<inside, codeFresh, pc, off, pos, nextEmit, metablock, decoder>>

HeaderBits == 4   \* encodeWindowBits(max(lgwin, 18))

NoFragment ==
    /\ pc = "none" /\ fragLen = 0 /\ isLast = FALSE /\ inPlace = FALSE
    /\ start = 0 /\ off = 0 /\ pos = 0 /\ blockSize = 0 /\ total = 0
    /\ mlenPos = 0 /\ nextEmit = 0 /\ metaStart = 0
    /\ headAt = 0 /\ mlen = 0 /\ width = 0 /\ code = FALSE
    /\ from = 0 /\ decAt = 0 /\ decBytes = 0

Init ==
    /\ quality \in Qualities /\ blockSizeLimit \in Fragments
    /\ buf = 0 /\ carryBits = 0 /\ wroteHeader = FALSE /\ codeFresh = TRUE
    /\ NoFragment /\ decOk = TRUE
    /\ lag = 0 /\ behind = 0 /\ began = FALSE /\ todo = 0 /\ op = "none"
    /\ ended = FALSE /\ err = FALSE /\ closed = FALSE /\ last = "none"

-----------------------------------------------------------------------------
(* Metablocks in the scratch buffer *)

AlignUp(bits) == 8 * ((bits + 7) \div 8)

(* encodeMlen *)
Nibbles(n) == IF n <= Mlen16 THEN 4 ELSE IF n <= Mlen20 THEN 5 ELSE 6

(* writeMetaBlockHeader for one that is not the last *)
HeadBits(n) == 4 + 4 * Nibbles(n)

StoredEnd(at, n) == AlignUp(at + HeadBits(n)) + 8 * n

(* What n bytes of literals and copies may take: little, or more than they *)
(* are themselves.                                                         *)
BitsOf(n) == CodeBits \union {15 * n}

(* The decoder reads a metablock from at to end, whose header says m bytes *)
(* and whose commands make n.                                              *)
Reads(at, end, m, n, c) ==
    /\ decAt' = end
    /\ decBytes' = decBytes + n
    /\ decOk' = (decOk /\ decAt = at /\ m = n /\ c)

(* Header, 13 bits for no splits and no contexts, prefix codes of b bits;  *)
(* c says whether they are the ones the commands will use.                 *)
OpenMetablock(b, c) ==
    LET n == Min({fragLen - pos, FirstBlockSize})
    IN /\ blockSize' = n /\ total' = n /\ metaStart' = pos
       /\ mlenPos' = off + 3
       /\ headAt' = off /\ mlen' = n /\ width' = 4 * Nibbles(n) /\ code' = c
       /\ off' = off + HeadBits(n) + 13 + b
       /\ pc' = "commands"

(* Mutant: the length field of an extended metablock is left as it was. *)
UpdateBitsNot(t) == mlen

(* updateBits(buf, 20, t - 1, mlenPos): the length a decoder finds         *)
(* afterwards, 0 for a wrong one.                                          *)
UpdateBits(t) ==
    IF width = 20 /\ t <= Mlen20 /\ mlenPos = headAt + 3 THEN t ELSE 0

-----------------------------------------------------------------------------
(* compressFragmentFast (level 0) *)

IpEnd == pos + blockSize

(* compress: the first metablock uses the prefix code left by the fragment *)
(* before.  Only a last fragment may be empty.                             *)
Compress(b) ==
    /\ pc = "compress" /\ quality = 0
    /\ IF fragLen = 0 THEN pc' = "last" /\ UNCHANGED <<off, metablock>>
       ELSE OpenMetablock(b, codeFresh)
    /\ UNCHANGED <<inside, codeFresh, pos, nextEmit, decoder>>

(* writeCommands, up to its last match, which ends at e. *)
WriteCommands(e, b) ==
    /\ pc = "commands"
    /\ \/ e = nextEmit
       \/ blockSize >= InputMargin /\ e > nextEmit /\ e > pos /\ e <= IpEnd
    /\ nextEmit' = e
    /\ off' = off + (IF e = nextEmit THEN 0 ELSE b)
    /\ pc' = "rest"
    /\ UNCHANGED <<inside, codeFresh, pos, metablock, decoder>>

(* shouldUseUncompressedMode, for data its entropy does not speak against. *)
MayStore(insert) ==
    insert >= LongInsert /\ (nextEmit - metaStart) * 50 <= insert

(* The metablock so far, up to end, is stored from where its header was. *)
StoreFrom(at, end) ==
    LET n == end - metaStart
    IN /\ off' = StoredEnd(at, n) /\ pos' = end /\ nextEmit' = end
       /\ pc' = "next"
       /\ Reads(at, off', n, n, TRUE)

(* writeCommands meets a match after a long run of literals at base. *)
StoreRun(base) ==
    /\ pc = "rest" /\ blockSize >= InputMargin
    /\ base > pos /\ base < IpEnd - 5 /\ base < fragLen - InputMargin
    /\ MayStore(base - nextEmit)
    /\ StoreFrom(mlenPos - 3, base)
    /\ UNCHANGED <<inside, codeFresh, metablock>>

(* writeRemainder: continue the metablock with the next block ... *)
MergeBlock ==
    /\ pc = "rest" /\ IpEnd < fragLen
    /\ LET n == Min({fragLen - IpEnd, MergeBlockSize})
       IN /\ total + n <= MergeCap
          /\ pos' = IpEnd /\ blockSize' = n /\ total' = total + n
          /\ mlen' = UpdateBits(total + n)
    /\ pc' = "commands"
    /\ UNCHANGED <<inside, codeFresh, off, nextEmit, mlenPos, metaStart, headAt,
                   width, code, decoder>>

(* ... or end it with the literals that are left ... *)
WriteRemainder(b) ==
    /\ pc = "rest"
    /\ off' = off + (IF nextEmit < IpEnd THEN b ELSE 0)
    /\ pos' = IpEnd /\ nextEmit' = IpEnd /\ pc' = "next"
    /\ Reads(headAt, off', mlen, IpEnd - metaStart, code)
    /\ UNCHANGED <<inside, codeFresh, metablock>>

(* ... or store it after all. *)
StoreRemainder ==
    /\ pc = "rest" /\ nextEmit < IpEnd /\ MayStore(IpEnd - nextEmit)
    /\ StoreFrom(mlenPos - 3, IpEnd)
    /\ UNCHANGED <<inside, codeFresh, metablock>>

(* nextBlock: the next metablock gets the prefix code its predecessor's    *)
(* histogram asks for; after the last one that code is kept in cmdCode for *)
(* the next fragment.                                                      *)
NextBlock(b) ==
    /\ pc = "next"
    /\ IF pos < fragLen
       THEN OpenMetablock(b, TRUE) /\ codeFresh' = FALSE
       ELSE /\ pc' = "fallback" /\ codeFresh' = (codeFresh \/ ~isLast)
            /\ UNCHANGED <<off, metablock>>
    /\ UNCHANGED <<inside, pos, nextEmit, decoder>>

-----------------------------------------------------------------------------
(* compressFragmentTwoPass (level 1): every block is a metablock, which is *)
(* stored if it does not seem to compress.                                 *)
TwoPassBlock(stored, b) ==
    /\ pc = "compress" /\ quality = 1 /\ pos < fragLen
    /\ LET n == Min({fragLen - pos, TwoPassBlockSize})
       IN /\ off' = IF stored THEN StoredEnd(off, n)
                    ELSE off + HeadBits(n) + 13 + b
          /\ pos' = pos + n
          /\ Reads(off, off', n, n, TRUE)
    /\ UNCHANGED <<inside, codeFresh, pc, nextEmit, metablock>>

TwoPassEnd ==
    /\ pc = "compress" /\ quality = 1 /\ pos = fragLen
    /\ pc' = "fallback"
    /\ UNCHANGED <<inside, codeFresh, off, pos, nextEmit, metablock, decoder>>

(* The end of both compress functions: a fragment that has grown becomes   *)
(* one stored metablock ...                                                *)
Fallback ==
    /\ pc = "fallback" /\ pc' = "last"
    /\ IF off - start > 31 + 8 * fragLen
       THEN /\ off' = StoredEnd(start, fragLen)
            /\ decAt' = off' /\ decBytes' = fragLen
            /\ decOk' = (decOk /\ from = start)
       ELSE UNCHANGED <<off, decoder>>
    /\ UNCHANGED <<inside, codeFresh, pos, nextEmit, metablock>>

(* ... and the last fragment is followed by an empty last metablock.       *)
LastBlock ==
    /\ pc = "last" /\ pc' = "write"
    /\ off' = IF isLast THEN AlignUp(off + 2) ELSE off
    /\ decAt' = IF isLast THEN AlignUp(decAt + 2) ELSE decAt
    /\ UNCHANGED <<inside, codeFresh, pos, nextEmit, metablock, decBytes,
                   decOk>>

-----------------------------------------------------------------------------
(* emitFragment, up to the compression of its n bytes. *)
BeginFragment(n, l, direct) ==
    /\ pc' = "compress" /\ fragLen' = n /\ isLast' = l /\ inPlace' = direct
    /\ start' = carryBits + (IF wroteHeader THEN 0 ELSE HeaderBits)
    /\ from' = lag + (IF began THEN 0 ELSE HeaderBits)
    /\ off' = start' /\ decAt' = from'
    /\ wroteHeader' = TRUE /\ began' = TRUE
    /\ UNCHANGED <<pos, nextEmit, metablock, decBytes, decOk>>

EndFragment ==
    /\ pc' = "none" /\ fragLen' = 0 /\ isLast' = FALSE /\ inPlace' = FALSE
    /\ start' = 0 /\ off' = 0 /\ pos' = 0 /\ blockSize' = 0 /\ total' = 0
    /\ mlenPos' = 0 /\ nextEmit' = 0 /\ metaStart' = 0
    /\ headAt' = 0 /\ mlen' = 0 /\ width' = 0 /\ code' = FALSE
    /\ from' = 0 /\ decAt' = 0 /\ decBytes' = 0

(* Its end, with what the three callers do after it. *)
EmitFragment(ok) ==
    /\ pc = "write"
    /\ ok \/ off >= 8
    /\ EndFragment
    /\ err' = ~ok
    /\ IF ok
       THEN /\ carryBits' = off % 8
            /\ lag' = decAt - 8 * (off \div 8)
            /\ behind' = behind - decBytes
            /\ buf' = IF inPlace THEN buf ELSE 0
            /\ todo' = IF inPlace THEN todo - fragLen ELSE todo
            /\ ended' = isLast
            /\ op' = CASE op = "write" -> "write" [] op = "flush" -> "pad"
                       [] OTHER -> "none"
            /\ last' = IF op = "close" THEN "close" ELSE last
       ELSE /\ todo' = 0 /\ op' = "none"
            /\ UNCHANGED <<carryBits, lag, behind, buf, ended, last>>
    /\ UNCHANGED <<config, codeFresh, decOk, header, closed>>

-----------------------------------------------------------------------------
(* Write *)

Open  == ~err /\ ~closed /\ op = "none"
Quiet == <<fragment, pc, off, pos, nextEmit, metablock, decoder, header>>

Write(n) ==
    /\ Open /\ n > 0
    /\ todo' = n /\ behind' = behind + n
    /\ op' = "write" /\ last' = "none"
    /\ UNCHANGED <<config, codeFresh, Quiet, buf, carryBits, lag, ended, err,
                   closed>>

(* More than a fragment and nothing buffered: straight from the caller. *)
WriteInPlace ==
    /\ op = "write" /\ pc = "none"
    /\ buf = 0 /\ todo > blockSizeLimit
    /\ BeginFragment(blockSizeLimit, FALSE, TRUE)
    /\ UNCHANGED <<config, codeFresh, buf, carryBits, lag, behind, ended, todo,
                   writer>>

(* Fill the buffer; a full one is compressed once more input follows. *)
WriteFill ==
    /\ op = "write" /\ pc = "none" /\ todo > 0
    /\ ~(buf = 0 /\ todo > blockSizeLimit)
    /\ LET take == Min({blockSizeLimit - buf, todo})
       IN buf' = buf + take /\ todo' = todo - take
    /\ IF buf' = blockSizeLimit /\ todo' > 0
       THEN BeginFragment(blockSizeLimit, FALSE, FALSE)
       ELSE UNCHANGED Quiet
    /\ UNCHANGED <<config, codeFresh, carryBits, lag, behind, ended, writer>>

WriteReturn ==
    /\ op = "write" /\ pc = "none" /\ todo = 0
    /\ op' = "none" /\ last' = "write"
    /\ UNCHANGED <<config, codeFresh, Quiet, buf, carryBits, lag, behind, ended,
                   todo, err, closed>>

-----------------------------------------------------------------------------
(* Flush, Close and Reset *)

Flush ==
    /\ Open
    /\ last' = "none"
    /\ IF buf > 0
       THEN op' = "flush" /\ BeginFragment(buf, FALSE, FALSE)
       ELSE op' = "pad" /\ UNCHANGED Quiet
    /\ UNCHANGED <<config, codeFresh, buf, carryBits, lag, behind, ended, todo,
                   err, closed>>

(* padToByteBoundary: an empty metadata block of 6 bits seals the stream. *)
PadToByteBoundary(ok) ==
    /\ op = "pad"
    /\ ok \/ carryBits > 0
    /\ op' = "none" /\ err' = ~ok
    /\ last' = IF ok THEN "flush" ELSE last
    /\ IF ok /\ carryBits > 0
       THEN /\ carryBits' = 0
            /\ lag' = AlignUp(lag + 6) - 8 * ((carryBits + 13) \div 8)
       ELSE UNCHANGED <<carryBits, lag>>
    /\ UNCHANGED <<config, codeFresh, Quiet, buf, behind, ended, todo, closed>>

Close ==
    /\ Open
    /\ closed' = TRUE /\ op' = "close" /\ last' = "none"
    /\ BeginFragment(buf, TRUE, FALSE)
    /\ UNCHANGED <<config, codeFresh, buf, carryBits, lag, behind, ended, todo,
                   err>>

(* Writer.Reset: ResetSizeHint, or a compressor from the pool, which       *)
(* Release left in the same state.                                         *)
Reset ==
    /\ op = "none"
    /\ buf' = 0 /\ carryBits' = 0 /\ wroteHeader' = FALSE /\ codeFresh' = TRUE
    /\ lag' = 0 /\ behind' = 0 /\ began' = FALSE /\ ended' = FALSE
    /\ err' = FALSE /\ closed' = FALSE /\ last' = "none"
    /\ UNCHANGED <<config, fragment, pc, off, pos, nextEmit, metablock, decoder,
                   todo, op>>

-----------------------------------------------------------------------------
Level0 ==
    \/ \E b \in CodeBits : Compress(b) \/ NextBlock(b)
    \/ \E b \in BitsOf(blockSize) :
          \/ \E e \in {nextEmit} \union {IpEnd - g : g \in Gaps} :
                WriteCommands(e, b)
          \/ WriteRemainder(b)
    \/ \E n \in Runs : StoreRun(pos + n)
    \/ MergeBlock
    \/ StoreRemainder

Level1 ==
    \/ \E stored \in BOOLEAN, b \in BitsOf(TwoPassBlockSize) :
          TwoPassBlock(stored, b)
    \/ TwoPassEnd

Running ==
    \/ Level0 \/ Level1
    \/ Fallback \/ LastBlock
    \/ \E ok \in BOOLEAN : EmitFragment(ok) \/ PadToByteBoundary(ok)
    \/ WriteInPlace \/ WriteFill \/ WriteReturn

Caller ==
    \/ \E n \in {t - buf : t \in Offers} : Write(n)
    \/ Flush \/ Close \/ Reset

Next == Running \/ Caller

Spec == Init /\ [][Next]_vars

-----------------------------------------------------------------------------
(* As long as the destination takes what it is given, the stream can be    *)
(* decoded to the input: metablocks follow each other bit by bit, through  *)
(* merging, storing and going back, their length fields say what their     *)
(* commands make, and the codes in their headers are the ones the commands *)
(* use; the bits beyond the bytes delivered are the carried ones, none     *)
(* missing or written twice, and the input beyond the metablocks is what   *)
(* is buffered.  padToByteBoundary's and Write's comments: after a Flush   *)
(* "everything written so far is decodable", after a Close the stream has  *)
(* ended, and between calls at most one fragment is retained.              *)
FragmentsDecodable ==
    ~err =>
        /\ decOk
        /\ pc = "write" => decAt = off /\ decBytes = fragLen
        /\ pc = "none" =>
              lag = carryBits /\ behind = buf + todo /\ buf <= blockSizeLimit
        /\ last \in {"flush", "close"} => behind = 0 /\ lag = 0
        /\ last = "close" => ended
=============================================================================
