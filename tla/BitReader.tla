----------------------------- MODULE BitReader -----------------------------
(***************************************************************************)
(* The bit reader of the decoder (bitreader.go) and the prefix codes it    *)
(* is read with.  A reader is a record: the bytes it was given, the next   *)
(* one to load, the accumulator as a sequence of bits (first bit first)    *)
(* and bitPos, how many of them count.  The wide loads leave bits above    *)
(* bitPos behind; they are kept here, because only normalize and the fact  *)
(* that they repeat the bytes to come make them harmless.  A load that     *)
(* runs past the input picks up whatever memory holds: Unknown bits.       *)
(***************************************************************************)
EXTENDS Integers, Sequences, SequencesExt, FiniteSetsExt, TLC

CONSTANT FastInputSlack   \* fastInputSlack: input a fast path asks for

Unknown  == 2
MaxCode  == 15   \* core.HuffmanMaxCodeLength
RootBits == 8    \* huffmanTableBits
Word     == 64   \* bits of the accumulator

NewReader(bytes) == [input |-> bytes, pos |-> 0, val |-> <<>>, bitPos |-> 0]

(* setInput keeps what the accumulator holds. *)
SetInput(r, bytes) == [r EXCEPT !.input = bytes, !.pos = 0]

AvailIn(r) == Len(r.input) - r.pos
RemainingBytes(r) == AvailIn(r) + r.bitPos \div 8
CheckInputAmount(r) == r.pos <= Len(r.input) - FastInputSlack

(* n bytes of the input from pos on, as bits. *)
InputBits(r, n) ==
    [k \in 1 .. 8 * n |->
        LET b == r.pos + 1 + (k - 1) \div 8
        IN IF b \in DOMAIN r.input THEN (r.input[b] \div 2^((k - 1) % 8)) % 2
                                   ELSE Unknown]

(* val |= bits << bitPos: what is there already is not cleared first. *)
OrAbove(r, bits) ==
    [k \in 1 .. Min({Word, Max({Len(r.val), r.bitPos + Len(bits)})}) |->
        LET new == IF k - r.bitPos \in DOMAIN bits THEN bits[k - r.bitPos] ELSE 0
            old == IF k \in DOMAIN r.val THEN r.val[k] ELSE 0
        IN Max({new, old})]

(* n times pullByte. *)
PullBytes(r, n) ==
    [r EXCEPT !.val = OrAbove(r, InputBits(r, n)),
              !.bitPos = @ + 8 * n,
              !.pos = @ + n]

(* The loop of safeGetBits: bytes are pulled until n bits are there or the *)
(* input is used up; what was pulled stays.                                *)
SafeGetBits(r, n) ==
    LET missing == IF r.bitPos >= n THEN 0 ELSE (n - r.bitPos + 7) \div 8
    IN PullBytes(r, Min({missing, AvailIn(r)}))

Value(r, n) ==
    LET low[k \in 0 .. n] ==
          IF k = 0 THEN 0
          ELSE low[k - 1] + (IF k \in DOMAIN r.val THEN r.val[k] * 2^(k - 1) ELSE 0)
    IN low[n]

DropBits(r, n) ==
    [r EXCEPT !.val = SubSeq(@, n + 1, Len(@)), !.bitPos = @ - n]

(* Mutant: bits above bitPos survive. *)
NormalizeNothing(r) == r

Normalize(r) == [r EXCEPT !.val = SubSeq(@, 1, Min({r.bitPos, Len(@)}))]

(* Whole bytes of the accumulator go back to the input. *)
Unload(r) ==
    LET unused == r.bitPos \div 8
    IN Normalize([r EXCEPT !.pos = @ - unused, !.bitPos = @ - 8 * unused])

PadBits(r) == Value(r, r.bitPos % 8)
JumpToByteBoundary(r) == Normalize(DropBits(r, r.bitPos % 8))

Warmup(r) ==
    IF r.bitPos = 0 THEN PullBytes([r EXCEPT !.val = <<>>], Min({1, AvailIn(r)}))
                    ELSE r

(* The wide loads: four bytes below 32 bits, or eight of which as many     *)
(* count as fit whole.                                                     *)
FillBitWindow(r) == IF r.bitPos < 32 THEN PullBytes(r, 4) ELSE r

Refill64(r) ==
    LET whole == (63 - r.bitPos) \div 8
    IN [r EXCEPT !.val = OrAbove(r, InputBits(r, 8)),
                 !.bitPos = @ + 8 * whole,
                 !.pos = @ + whole]

(* skipMetadataBlock: n bytes from the accumulator first, then from input. *)
SkipBytes(r, n) ==
    LET buffered == Min({n, r.bitPos \div 8})
    IN [DropBits(r, 8 * buffered) EXCEPT !.pos = @ + n - buffered]

(* copyBytes: the same bytes, read. *)
CopiedBytes(r, n) ==
    LET buffered == Min({n, r.bitPos \div 8})
    IN [k \in 1 .. n |->
          IF k <= buffered THEN Value(DropBits(r, 8 * (k - 1)), 8)
                           ELSE r.input[r.pos + k - buffered]]
AfterCopyBytes(r, n) ==
    LET buffered == Min({n, r.bitPos \div 8})
    IN [Normalize(DropBits(r, 8 * buffered)) EXCEPT !.pos = @ + n - buffered]

-----------------------------------------------------------------------------
(* Prefix codes: a code is a function from symbols to the bits they are    *)
(* written as.  The lookup tables of core/huffman.go hold the canonical    *)
(* code of the given lengths; a single symbol takes no bits.               *)

Canonical(lengths) ==
    LET Syms == DOMAIN lengths
        Of(l) == {a \in Syms : lengths[a] = l}
        first[l \in 1 .. MaxCode] ==   \* first key of a length, in MaxCode bits
            IF l = 1 THEN 0
            ELSE first[l - 1] + Cardinality(Of(l - 1)) * 2^(MaxCode - l + 1)
        Key(a) == LET l == lengths[a]
                  IN first[l] + Cardinality({b \in Of(l) : b < a}) * 2^(MaxCode - l)
    IN [a \in Syms |->
          IF Syms = {a} THEN <<>>
          ELSE LET key == Key(a)
               IN [k \in 1 .. lengths[a] |-> (key \div 2^(MaxCode - k)) % 2]]

(* Lengths of a simple code of 1 to 4 symbols; num = 4 stands for the      *)
(* second shape of four.                                                   *)
SimpleLengths(num, syms) ==
    LET shape == CASE num = 0 -> <<1>>
                   [] num = 1 -> <<1, 1>>
                   [] num = 2 -> <<1, 2, 2>>
                   [] num = 3 -> <<2, 2, 2, 2>>
                   [] num = 4 -> <<1, 2, 3, 3>>
    IN [a \in {syms[k] : k \in DOMAIN shape} |->
          shape[CHOOSE k \in DOMAIN shape : syms[k] = a]]

(* The symbols the valid bits begin with: one at most, none while the bits *)
(* do not reach.                                                           *)
Matching(r, code) ==
    {a \in DOMAIN code : /\ Len(code[a]) <= r.bitPos
                         /\ \A k \in DOMAIN code[a] : code[a][k] = r.val[k]}
SymbolOf(r, code) == CHOOSE a \in Matching(r, code) : TRUE
AfterSymbol(r, code) == DropBits(r, Len(code[SymbolOf(r, code)]))

(* safeReadSymbol asks for `ahead' bits and makes do with what there is. *)
PeekSymbol(r, ahead) ==
    LET got == SafeGetBits(r, ahead)
    IN IF got.bitPos \in 1 .. ahead - 1 THEN Normalize(got) ELSE got
=============================================================================
