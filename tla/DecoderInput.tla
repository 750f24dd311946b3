---------------------------- MODULE DecoderInput ----------------------------
(***************************************************************************)
(* The input side of the decoder (decode.go): decompressStream and the     *)
(* functions it calls, as far as they read the compressed stream.  Input   *)
(* arrives in chunks cut anywhere, so every read may find too little.      *)
(* The call then returns and all its locals are gone; the next call finds  *)
(* its way back by what was saved in decodeState.                          *)
(*                                                                         *)
(* pc is the place inside a call: "top" where the place follows from the   *)
(* state and the substates, "starved" after a return for lack of input.    *)
(* loc holds the locals.  s and h are decodeState and its headerArena.     *)
(* The output is a plain sequence: the ring that holds it is DecoderRing.  *)
(***************************************************************************)
EXTENDS BitReader

CONSTANTS
    Streams,   \* compressed streams and what they stand for
    Chunks     \* bytes one read of the source may return

ASSUME DecoderInputAssumption ==
    /\ FastInputSlack \in Nat /\ Chunks \subseteq Nat \ {0}
    /\ \A t \in Streams : /\ \A k \in DOMAIN t.bytes : t.bytes[k] \in 0 .. 255
                          /\ t.used \in 0 .. Len(t.bytes)

VARIABLES
    stream,   \* the stream being decoded
    given,    \* bytes the source has returned
    br, s, h, pc, loc,
    out,      \* decoded bytes
    result    \* what Read ended with, "none" while it has not

vars == <<stream, given, br, s, h, pc, loc, out, result>>

Lit  == 0   \* the three kinds of blocks, trees and block lengths
Cmd  == 1
Dist == 2
Kinds == {Lit, Cmd, Dist}
BlockSizeCap == 2^24
MaxAllowedDistance == 2147483644
NoCode == -1    \* 0xFFFF in h.code: no run is pending
NoLoc == [i |-> 0, code |-> 0, num |-> 0, space |-> 0]
Each(v) == [k \in Kinds |-> v]

Init ==
    /\ stream \in Streams
    /\ given = 0
    /\ br = NewReader(<<>>)
    /\ s = [state |-> "Uninited", windowBits |-> 0, isLast |-> FALSE,
            isUncompressed |-> FALSE, isMetadata |-> FALSE, remaining |-> 0,
            sizeNibbles |-> 0, loopCounter |-> 0,
            subHeader |-> "None", subUint8 |-> "None", subBlockLength |-> "None",
            blockLengthIndex |-> 0, numBlockTypes |-> Each(1),
            blockLength |-> Each(0), blockTypeRB |-> Each(<<1, 0>>),
            typeTrees |-> Each(<<>>), lenTrees |-> Each(<<>>),
            groups |-> Each(<<>>), numTrees |-> Each(1),
            postfix |-> 0, direct |-> 0, contextModes |-> <<>>,
            contextMap |-> Each(<<>>), blockType |-> Each(0), distTree |-> 0,
            distanceCode |-> 0, distanceContext |-> 0, copyLength |-> 0,
            distRB |-> <<16, 15, 11, 4>>, distRBIdx |-> 0]
    /\ h = [subTreeGroup |-> "None", subContextMap |-> "None",
            subHuffman |-> "None", subLoopCounter |-> 0, symbol |-> 0,
            repeat |-> 0, space |-> 0, repeatCodeLen |-> 0, prevCodeLen |-> 0,
            symbols |-> <<>>, lengths |-> <<>>, table |-> <<>>, htreeIndex |-> 0,
            contextIndex |-> 0, maxRun |-> 0, code |-> 0]
    /\ pc = "starved" /\ loc = NoLoc /\ out = <<>> /\ result = "none"

-----------------------------------------------------------------------------
(* Going on, running out of input, failing *)

Go(r, s1, h1, pc1, loc1) ==
    /\ br' = r /\ s' = s1 /\ h' = h1 /\ pc' = pc1 /\ loc' = loc1
    /\ UNCHANGED <<out, result>>

GoTop(r, s1, h1) == Go(r, s1, h1, "top", NoLoc)

(* The call returns decoderResultNeedsMoreInput. *)
Starve(r, s1, h1) == Go(r, s1, h1, "starved", NoLoc)

Fail(r, err) ==
    /\ br' = r /\ result' = err
    /\ UNCHANGED <<s, h, pc, loc, out>>

(* safeReadBits(n) and what follows: the rest of the handler with the bits *)
(* taken, or the return with what the handler saves before it.             *)
Reading(n, Then(_, _), s1, h1) ==
    LET r == SafeGetBits(br, n)
    IN IF r.bitPos >= n THEN Then(DropBits(r, n), Value(r, n))
                        ELSE Starve(r, s1, h1)

(* safeReadSymbol and what follows. *)
ReadingSymbol(code, ahead, Then(_, _), s1, h1) ==
    LET r == PeekSymbol(br, ahead)
    IN IF Matching(r, code) # {} THEN Then(AfterSymbol(r, code), SymbolOf(r, code))
                                 ELSE Starve(r, s1, h1)

At(st) == result = "none" /\ pc = "top" /\ s.state = st
In(label) == result = "none" /\ pc = label

-----------------------------------------------------------------------------
(* Window bits and the metablock header *)

Uninited ==
    /\ At("Uninited")
    /\ LET r     == Warmup(br)
           one   == Value(r, 1)
           three == Value(DropBits(r, 1), 3)
           more  == Value(DropBits(r, 4), 3)
           Window(n, bits) ==
               GoTop(DropBits(r, n),
                     [s EXCEPT !.windowBits = bits, !.state = "MetablockBegin"], h)
       IN CASE r.bitPos = 0 -> Starve(r, s, h)
            [] r.bitPos # 0 /\ one = 0 -> Window(1, 16)
            [] r.bitPos # 0 /\ one # 0 /\ three # 0 -> Window(4, 17 + three)
            [] r.bitPos # 0 /\ one # 0 /\ three = 0 /\ more = 1 -> Fail(r, "window bits")
            [] r.bitPos # 0 /\ one # 0 /\ three = 0 /\ more = 0 -> Window(7, 17)
            [] OTHER -> Window(7, 8 + more)

MetablockBegin ==
    /\ At("MetablockBegin")
    /\ GoTop(br, [s EXCEPT !.state = "MetablockHeader", !.remaining = 0,
                           !.blockLength = Each(BlockSizeCap),
                           !.numBlockTypes = Each(1),
                           !.blockTypeRB = Each(<<1, 0>>), !.blockType = Each(0)], h)

(* After decodeMetaBlockLength: padding is checked before bytes follow. *)
HeaderDone(r, s1) ==
    LET aligned == s1.isMetadata \/ s1.isUncompressed
        next == CASE s1.isMetadata -> "Metadata"
                  [] ~s1.isMetadata /\ s1.remaining = 0 -> "MetablockDone"
                  [] ~s1.isMetadata /\ s1.remaining # 0 /\ s1.isUncompressed -> "Uncompressed"
                  [] OTHER -> "BeforeCompressedMetablockHeader"
    IN IF aligned /\ PadBits(r) # 0 THEN Fail(r, "padding")
       ELSE GoTop(IF aligned THEN JumpToByteBoundary(r) ELSE r,
                  [s1 EXCEPT !.subHeader = "None", !.state = next], h)

InHeader(sub) == At("MetablockHeader") /\ s.subHeader = sub
ToHeader(r, s1, sub) == GoTop(r, [s1 EXCEPT !.subHeader = sub], h)

HeaderNone ==
    /\ InHeader("None")
    /\ Reading(1, LAMBDA r, b :
           ToHeader(r, [s EXCEPT !.isLast = (b = 1), !.remaining = 0,
                                 !.isUncompressed = FALSE, !.isMetadata = FALSE],
                    IF b = 1 THEN "Empty" ELSE "Nibbles"), s, h)

HeaderEmpty ==
    /\ InHeader("Empty")
    /\ Reading(1, LAMBDA r, b : IF b = 1 THEN HeaderDone(r, s)
                                ELSE ToHeader(r, s, "Nibbles"), s, h)

HeaderNibbles ==
    /\ InHeader("Nibbles")
    /\ Reading(2, LAMBDA r, b :
           ToHeader(r, [s EXCEPT !.sizeNibbles = b + 4, !.loopCounter = 0,
                                 !.isMetadata = (b = 3)],
                    IF b = 3 THEN "Reserved" ELSE "Size"), s, h)

(* One unit of the length, of 4 bits or of 8: the counter is a local of    *)
(* the loop, saved on the way out; a last unit of zero is refused.         *)
LengthUnit(sub, width, least, Done(_, _), err) ==
    /\ \/ InHeader(sub) /\ pc = "top"
       \/ In("unit") /\ s.subHeader = sub
    /\ LET i == IF pc = "top" THEN s.loopCounter ELSE loc.i
       IN IF i >= s.sizeNibbles THEN Done(br, s)
          ELSE Reading(width, LAMBDA r, b :
                 IF i + 1 = s.sizeNibbles /\ s.sizeNibbles > least /\ b = 0
                 THEN Fail(r, err)
                 ELSE Go(r, [s EXCEPT !.remaining = @ + b * 2^(width * i)], h,
                         "unit", [NoLoc EXCEPT !.i = i + 1]),
                 [s EXCEPT !.loopCounter = i], h)

HeaderSize ==
    LengthUnit("Size", 4, 4, LAMBDA r, s1 : ToHeader(r, s1, "Uncompressed"),
               "exuberant nibble")

(* The bit is there only before the last metablock. *)
HeaderUncompressed ==
    /\ InHeader("Uncompressed")
    /\ IF s.isLast THEN HeaderDone(br, [s EXCEPT !.remaining = @ + 1])
       ELSE Reading(1, LAMBDA r, b :
              HeaderDone(r, [s EXCEPT !.isUncompressed = (b = 1),
                                      !.remaining = @ + 1]), s, h)

HeaderReserved ==
    /\ InHeader("Reserved")
    /\ Reading(1, LAMBDA r, b : IF b = 1 THEN Fail(r, "reserved bit")
                                ELSE ToHeader(r, s, "Bytes"), s, h)

HeaderBytes ==
    /\ InHeader("Bytes")
    /\ Reading(2, LAMBDA r, b :
           IF b = 0 THEN HeaderDone(r, s)
           ELSE ToHeader(r, [s EXCEPT !.sizeNibbles = b, !.loopCounter = 0],
                         "Metadata"), s, h)

HeaderMetadata ==
    LengthUnit("Metadata", 8, 1,
               LAMBDA r, s1 : HeaderDone(r, [s1 EXCEPT !.remaining = @ + 1]),
               "exuberant metadata nibble")

SkipMetadata ==
    /\ At("Metadata")
    /\ LET n == Min({RemainingBytes(br), s.remaining})
       IN IF s.remaining > 0 /\ n = 0 THEN Starve(br, s, h)
          ELSE GoTop(SkipBytes(br, n),
                     [s EXCEPT !.remaining = @ - n,
                               !.state = IF n = s.remaining THEN "MetablockDone" ELSE @], h)

CopyUncompressed ==
    /\ At("Uncompressed")
    /\ LET n == Min({RemainingBytes(br), s.remaining})
       IN IF s.remaining > 0 /\ n = 0 THEN Starve(br, s, h)
          ELSE /\ br' = AfterCopyBytes(br, n)
               /\ out' = out \o CopiedBytes(br, n)
               /\ s' = [s EXCEPT !.remaining = @ - n,
                                 !.state = IF n = s.remaining THEN "MetablockDone" ELSE @]
               /\ UNCHANGED <<h, pc, loc, result>>

MetablockDone ==
    /\ At("MetablockDone")
    /\ CASE s.remaining < 0 -> Fail(br, "negative length")
         [] s.remaining >= 0 /\ ~s.isLast ->
               GoTop(br, [s EXCEPT !.state = "MetablockBegin"], h)
         [] s.remaining >= 0 /\ s.isLast /\ PadBits(br) # 0 -> Fail(br, "padding")
         [] OTHER -> GoTop(JumpToByteBoundary(br), [s EXCEPT !.state = "Done"], h)

-----------------------------------------------------------------------------
(* The header of a compressed metablock *)

BeforeCompressedMetablockHeader ==
    /\ At("BeforeCompressedMetablockHeader")
    /\ GoTop(br, [s EXCEPT !.state = "HuffmanCode0", !.loopCounter = 0],
             [h EXCEPT !.subLoopCounter = 0, !.subHuffman = "None",
                       !.subTreeGroup = "None", !.subContextMap = "None"])

InContextMap(sub) ==
    /\ result = "none" /\ pc = "top"
    /\ s.state \in {"ContextMap1", "ContextMap2"}
    /\ h.subContextMap = sub
MapKind == IF s.state = "ContextMap1" THEN Lit ELSE Dist
MapSize == s.numBlockTypes[MapKind] * (IF MapKind = Lit THEN 64 ELSE 4)

(* decodeVarLenUint8 is called for a number of block types and for a       *)
(* number of trees; it keeps an unfinished value where the result goes.    *)
CallsUint8 ==
    \/ At("HuffmanCode0") /\ s.loopCounter < 3
    \/ InContextMap("None")
UintValue == IF s.state = "HuffmanCode0" THEN s.numBlockTypes[s.loopCounter]
             ELSE s.numTrees[MapKind]
SetUint(v) ==
    IF s.state = "HuffmanCode0" THEN [s EXCEPT !.numBlockTypes[s.loopCounter] = v]
    ELSE [s EXCEPT !.numTrees[MapKind] = v]

(* The caller adds one.  A single block type needs no codes, a single tree *)
(* no map.                                                                 *)
ContextMapDone(r, s1) ==
    GoTop(r, IF s.state = "ContextMap1" THEN [s1 EXCEPT !.state = "ContextMap2"]
             ELSE [s1 EXCEPT !.state = "TreeGroup", !.loopCounter = 0,
                             !.groups = Each(<<>>)],
          [h EXCEPT !.subContextMap = "None"])

Uint8Done(r, v) ==
    LET s1 == [SetUint(v + 1) EXCEPT !.subUint8 = "None"]
    IN CASE s.state = "HuffmanCode0" /\ v = 0 ->
              GoTop(r, [s1 EXCEPT !.loopCounter = @ + 1], h)
         [] s.state = "HuffmanCode0" /\ v # 0 ->
              GoTop(r, [s1 EXCEPT !.state = "HuffmanCode1"], h)
         [] s.state # "HuffmanCode0" /\ v = 0 ->
              ContextMapDone(r, [s1 EXCEPT !.contextMap[MapKind] =
                                             [k \in 1 .. MapSize |-> 0]])
         [] OTHER -> GoTop(r, s1, [h EXCEPT !.subContextMap = "ReadPrefix"])

Uint8None ==
    /\ CallsUint8 /\ s.subUint8 = "None"
    /\ Reading(1, LAMBDA r, b : IF b = 0 THEN Uint8Done(r, 0)
                                ELSE Go(r, s, h, "Short", NoLoc), s, h)

Uint8Short ==
    /\ In("Short") \/ (CallsUint8 /\ s.subUint8 = "Short")
    /\ Reading(3, LAMBDA r, b : IF b = 0 THEN Uint8Done(r, 1)
                                ELSE Go(r, SetUint(b), h, "Long", NoLoc),
               [s EXCEPT !.subUint8 = "Short"], h)

Uint8Long ==
    /\ In("Long") \/ (CallsUint8 /\ s.subUint8 = "Long")
    /\ LET n == UintValue
       IN Reading(n, LAMBDA r, b : Uint8Done(r, 2^n + b),
                  [s EXCEPT !.subUint8 = "Long"], h)

BlockTypesDone ==
    /\ At("HuffmanCode0") /\ s.loopCounter >= 3
    /\ GoTop(br, [s EXCEPT !.state = "MetablockHeader2"], h)

BlockLengthOffset ==
    <<1, 5, 9, 13, 17, 25, 33, 41, 49, 65, 81, 97, 113, 145, 177, 209, 241,
      305, 369, 497, 753, 1265, 2289, 4337, 8433, 16625>>
BlockLengthNBits ==
    <<2, 2, 2, 2, 3, 3, 3, 3, 4, 4, 4, 4, 5, 5, 5, 5, 6, 6, 7, 8, 9, 10, 11,
      12, 13, 24>>

(* safeReadBlockLength for the first block of a kind: the symbol survives  *)
(* a return in blockLengthIndex.                                           *)
FirstBlockSymbol ==
    /\ At("HuffmanCode3") /\ s.subBlockLength = "None"
    /\ ReadingSymbol(s.lenTrees[s.loopCounter], MaxCode,
                     LAMBDA r, a : Go(r, s, h, "Suffix", [NoLoc EXCEPT !.code = a]),
                     s, h)

FirstBlockLength ==
    /\ In("Suffix") \/ (At("HuffmanCode3") /\ s.subBlockLength = "Suffix")
    /\ LET a == IF pc = "top" THEN s.blockLengthIndex ELSE loc.code
       IN Reading(BlockLengthNBits[a + 1], LAMBDA r, b :
            GoTop(r, [s EXCEPT !.subBlockLength = "None",
                               !.blockLength[s.loopCounter] = BlockLengthOffset[a + 1] + b,
                               !.loopCounter = @ + 1, !.state = "HuffmanCode0"], h),
            [s EXCEPT !.subBlockLength = "Suffix", !.blockLengthIndex = a], h)

MetablockHeader2 ==
    /\ At("MetablockHeader2")
    /\ Reading(6, LAMBDA r, b :
           GoTop(r, [s EXCEPT !.postfix = b % 4, !.direct = (b \div 4) * 2^(b % 4),
                              !.contextModes = [k \in 1 .. s.numBlockTypes[Lit] |-> 0],
                              !.loopCounter = 0, !.state = "ContextModes"], h), s, h)

ReadContextModes ==
    /\ At("ContextModes") \/ In("modes")
    /\ LET i == IF pc = "top" THEN s.loopCounter ELSE loc.i
       IN IF i >= s.numBlockTypes[Lit]
          THEN GoTop(br, [s EXCEPT !.loopCounter = i, !.state = "ContextMap1"], h)
          ELSE Reading(2, LAMBDA r, b :
                 Go(r, [s EXCEPT !.contextModes[i + 1] = b], h, "modes",
                    [NoLoc EXCEPT !.i = i + 1]),
                 [s EXCEPT !.loopCounter = i], h)

(* Five bits are looked at, one or all of them taken. *)
ContextMapPrefix ==
    /\ InContextMap("ReadPrefix")
    /\ LET r == SafeGetBits(br, 5)
           runs == IF Value(r, 1) = 1 THEN Value(r, 5) \div 2 + 1 ELSE 0
       IN IF r.bitPos < 5 THEN Starve(r, s, h)
          ELSE GoTop(DropBits(r, IF runs > 0 THEN 5 ELSE 1),
                     [s EXCEPT !.contextMap[MapKind] = [k \in 1 .. MapSize |-> 0]],
                     [h EXCEPT !.maxRun = runs, !.code = runs,
                               !.subHuffman = "None", !.subContextMap = "Huffman"])

ContextMapSymbol ==
    /\ InContextMap("Decode") \/ In("map")
    /\ pc = "top" => h.code = NoCode
    /\ IF h.contextIndex >= MapSize
       THEN GoTop(br, s, [h EXCEPT !.subContextMap = "Transform"])
       ELSE ReadingSymbol(h.table, MaxCode, LAMBDA r, a :
              IF a \in 1 .. h.maxRun
              THEN Go(r, s, h, "run", [NoLoc EXCEPT !.code = a])
              ELSE Go(r, [s EXCEPT !.contextMap[MapKind][h.contextIndex + 1] =
                                     IF a = 0 THEN 0 ELSE a - h.maxRun],
                      [h EXCEPT !.contextIndex = @ + 1], "map", NoLoc),
              s, [h EXCEPT !.code = NoCode])

(* A run of zeros; its symbol survives a return in h.code. *)
ContextMapRun ==
    /\ In("run") \/ (InContextMap("Decode") /\ h.code # NoCode)
    /\ LET a == IF pc = "top" THEN h.code ELSE loc.code
       IN Reading(a, LAMBDA r, b :
            LET reps == 2^a + b
            IN IF h.contextIndex + reps > MapSize THEN Fail(r, "context map repeat")
               ELSE Go(r, [s EXCEPT !.contextMap[MapKind] =
                             [k \in DOMAIN @ |->
                                IF k - h.contextIndex \in 1 .. reps THEN 0 ELSE @[k]]],
                       [h EXCEPT !.contextIndex = @ + reps], "map", NoLoc),
            s, [h EXCEPT !.code = a])

(* inverseMoveToFrontTransform: every index moves its value to the front.  *)
InverseMoveToFront(v) ==
    LET done[k \in 0 .. Len(v)] ==
          IF k = 0 THEN [list |-> [j \in 1 .. 256 |-> j - 1], v |-> <<>>]
          ELSE LET acc == done[k - 1]
                   val == acc.list[v[k] + 1]
               IN [list |-> <<val>> \o SubSeq(acc.list, 1, v[k])
                                    \o SubSeq(acc.list, v[k] + 2, 256),
                   v |-> Append(acc.v, val)]
    IN done[Len(v)].v

ContextMapTransform ==
    /\ InContextMap("Transform")
    /\ Reading(1, LAMBDA r, b :
           ContextMapDone(r, IF b = 0 THEN s
                             ELSE [s EXCEPT !.contextMap[MapKind] = InverseMoveToFront(@)]),
           s, h)

-----------------------------------------------------------------------------
(* Prefix codes *)

NumTrees(k) == IF k = Cmd THEN s.numBlockTypes[Cmd] ELSE s.numTrees[k]
GroupAlphabet(k) ==
    CASE k = Lit -> 256
      [] k = Cmd -> 704
      [] k = Dist -> 16 + s.direct + 24 * 2^(s.postfix + 1)

(* huffmanTreeGroupDecode: the three groups in turn, tree after tree. *)
TreeGroupBegin ==
    /\ At("TreeGroup") /\ h.subTreeGroup = "None"
    /\ GoTop(br, s, [h EXCEPT !.subTreeGroup = "Loop", !.htreeIndex = 0])

TreeGroupDone ==
    /\ At("TreeGroup") /\ h.subTreeGroup = "Loop"
    /\ h.htreeIndex >= NumTrees(s.loopCounter)
    /\ GoTop(br, [s EXCEPT !.loopCounter = @ + 1,
                           !.state = IF s.loopCounter + 1 < 3 THEN @
                                     ELSE "BeforeCompressedMetablockBody"],
             [h EXCEPT !.subTreeGroup = "None"])

CallsHuffman ==
    \/ At("HuffmanCode1") \/ At("HuffmanCode2") \/ InContextMap("Huffman")
    \/ At("TreeGroup") /\ h.subTreeGroup = "Loop" /\ h.htreeIndex < NumTrees(s.loopCounter)
Alphabet ==
    CASE s.state = "HuffmanCode1" -> s.numBlockTypes[s.loopCounter] + 2
      [] s.state = "HuffmanCode2" -> 26
      [] s.state = "TreeGroup" -> GroupAlphabet(s.loopCounter)
      [] OTHER -> s.numTrees[MapKind] + h.code

(* The code goes to whoever asked for it. *)
HuffmanDone(r, h0, code) ==
    LET h1 == [h0 EXCEPT !.subHuffman = "None"]
    IN CASE s.state = "HuffmanCode1" ->
              GoTop(r, [s EXCEPT !.typeTrees[s.loopCounter] = code,
                                 !.state = "HuffmanCode2"], h1)
         [] s.state = "HuffmanCode2" ->
              GoTop(r, [s EXCEPT !.lenTrees[s.loopCounter] = code,
                                 !.state = "HuffmanCode3"], h1)
         [] s.state = "TreeGroup" ->
              GoTop(r, [s EXCEPT !.groups[s.loopCounter] = Append(@, code)],
                    [h1 EXCEPT !.htreeIndex = @ + 1])
         [] OTHER ->
              GoTop(r, s, [h1 EXCEPT !.table = code, !.contextIndex = 0,
                                     !.code = NoCode, !.subContextMap = "Decode"])

HuffmanNone ==
    /\ CallsHuffman /\ h.subHuffman = "None"
    /\ Reading(2, LAMBDA r, b :
           IF b = 1 THEN Go(r, s, [h EXCEPT !.subLoopCounter = b], "SimpleSize", NoLoc)
           ELSE GoTop(r, s, [h EXCEPT !.subLoopCounter = b, !.space = 32, !.repeat = 0,
                                      !.lengths = <<>>, !.subHuffman = "Complex"]), s, h)

SimpleSize ==
    /\ In("SimpleSize") \/ (CallsHuffman /\ h.subHuffman = "SimpleSize")
    /\ Reading(2, LAMBDA r, b :
           Go(r, s, [h EXCEPT !.symbol = b, !.subLoopCounter = 0, !.symbols = <<>>],
              "SimpleRead", NoLoc), s, [h EXCEPT !.subHuffman = "SimpleSize"])

SymbolWidth == Min({w \in 0 .. 10 : Alphabet <= 2^w})

SimpleRead ==
    /\ In("SimpleRead") \/ (CallsHuffman /\ h.subHuffman = "SimpleRead")
    /\ LET i == IF pc = "top" THEN h.subLoopCounter ELSE loc.i
           repeated == Cardinality({h.symbols[k] : k \in 1 .. i}) < i
       IN CASE i > h.symbol /\ repeated -> Fail(br, "duplicate symbols")
            [] i > h.symbol /\ ~repeated -> Go(br, s, h, "SimpleBuild", NoLoc)
            [] OTHER ->
                 Reading(SymbolWidth, LAMBDA r, b :
                   IF b >= Alphabet THEN Fail(r, "alphabet overflow")
                   ELSE Go(r, s, [h EXCEPT !.symbols = Append(SubSeq(@, 1, i), b)],
                           "SimpleRead", [NoLoc EXCEPT !.i = i + 1]),
                   s, [h EXCEPT !.subHuffman = "SimpleRead", !.subLoopCounter = i])

SimpleBuild ==
    /\ In("SimpleBuild") \/ (CallsHuffman /\ h.subHuffman = "SimpleBuild")
    /\ LET Build(r, n) ==
             HuffmanDone(r, [h EXCEPT !.symbol = n], Canonical(SimpleLengths(n, h.symbols)))
       IN IF h.symbol # 3 THEN Build(br, h.symbol)
          ELSE Reading(1, LAMBDA r, b : Build(r, 3 + b),
                       s, [h EXCEPT !.subHuffman = "SimpleBuild"])

CodeLengthCodeOrder == <<1, 2, 3, 4, 0, 5, 17, 6, 16, 7, 8, 9, 10, 11, 12, 13, 14, 15>>
CodeLengthPrefix ==   \* codeLengthPrefixLength and codeLengthPrefixValue
    [v \in 0 .. 5 |-> CASE v = 0 -> <<0, 0>>    [] v = 4 -> <<1, 0>>
                        [] v = 3 -> <<0, 1>>    [] v = 2 -> <<1, 1, 0>>
                        [] v = 1 -> <<1, 1, 1, 0>> [] v = 5 -> <<1, 1, 1, 1>>]

(* readCodeLengthCodeLengths: the lengths are kept as they come, counter,  *)
(* number and space left only on the way out.                              *)
CodeLengthCode ==
    /\ In("Complex") \/ (CallsHuffman /\ h.subHuffman = "Complex")
    /\ LET l == IF pc = "top" THEN [i |-> h.subLoopCounter, code |-> 0,
                                    num |-> h.repeat, space |-> h.space]
                ELSE loc
           full == l.i >= 18 \/ l.space <= 0
       IN CASE full /\ l.num # 1 /\ l.space # 0 -> Fail(br, "code length code space")
            [] full /\ ~(l.num # 1 /\ l.space # 0) ->
                 GoTop(br, s, [h EXCEPT !.table = Canonical(h.lengths), !.lengths = <<>>,
                                        !.symbol = 0, !.prevCodeLen = 8, !.repeat = 0,
                                        !.repeatCodeLen = 0, !.space = 32768,
                                        !.subHuffman = "LengthSymbols"])
            [] OTHER ->
                 ReadingSymbol(CodeLengthPrefix, 4, LAMBDA r, v :
                   Go(r, s, IF v = 0 THEN h
                            ELSE [h EXCEPT !.lengths = (CodeLengthCodeOrder[l.i + 1] :> v) @@ @],
                      "Complex",
                      IF v = 0 THEN [l EXCEPT !.i = @ + 1]
                      ELSE [l EXCEPT !.i = @ + 1, !.num = @ + 1, !.space = @ - 32 \div 2^v]),
                   s, [h EXCEPT !.subHuffman = "Complex", !.subLoopCounter = l.i,
                                !.repeat = l.num, !.space = l.space])

(* One symbol of the code that is being described: a length, or a repeat   *)
(* of the last one or of zero.                                             *)
SingleLength(a) ==
    [h EXCEPT !.repeat = 0, !.symbol = @ + 1,
              !.lengths = IF a = 0 THEN @ ELSE (h.symbol :> a) @@ @,
              !.prevCodeLen = IF a = 0 THEN @ ELSE a,
              !.space = IF a = 0 THEN @ ELSE @ - 2^(MaxCode - a)]

(* A repeat after a repeat of the same length scales what was counted. *)
RepeatedLength(a, delta) ==
    LET newLen == IF a = 16 THEN h.prevCodeLen ELSE 0
        old    == IF h.repeatCodeLen = newLen THEN h.repeat ELSE 0
        new    == delta + 3 + (IF old > 0 THEN (old - 2) * 2^(a - 14) ELSE 0)
        h1     == [h EXCEPT !.repeat = new, !.repeatCodeLen = newLen]
        span   == h.symbol .. h.symbol + new - old - 1
    IN IF h.symbol + new - old > Alphabet
       THEN [h1 EXCEPT !.symbol = Alphabet, !.space = 1048575]
       ELSE [h1 EXCEPT !.symbol = @ + new - old,
                       !.lengths = IF newLen = 0 THEN @ ELSE [k \in span |-> newLen] @@ @,
                       !.space = IF newLen = 0 THEN @
                                 ELSE @ - (new - old) * 2^(MaxCode - newLen)]

ExtraBits(a) == IF a < 16 THEN 0 ELSE a - 14
HasLength(r) ==
    /\ Matching(r, h.table) # {}
    /\ LET a == SymbolOf(r, h.table)
       IN r.bitPos >= Len(h.table[a]) + ExtraBits(a)

(* readSymbolCodeLengths is entered anew after every return; with input    *)
(* enough it starts with the loop that loads four bytes at a time.         *)
LengthSymbolsBegin ==
    /\ CallsHuffman /\ h.subHuffman = "LengthSymbols"
    /\ LET r == Warmup(br)
       IN Go(r, s, h, IF CheckInputAmount(r) THEN "batchLengths" ELSE "lengths", NoLoc)

LengthSymbol ==
    /\ In("batchLengths") \/ In("lengths")
    /\ h.symbol < Alphabet /\ h.space # 0
    /\ LET batch == pc = "batchLengths"
           fast  == CheckInputAmount(br) \/ (batch /\ br.bitPos >= 32)
           Pulled(n) == LET r == PullBytes(br, n)
                        IN IF r.bitPos > 0 THEN Normalize(r) ELSE r
           enough == {n \in 0 .. Min({3, AvailIn(br)}) : HasLength(Pulled(n))}
           Take(r, next) ==
             LET a == SymbolOf(r, h.table)
                 r1 == AfterSymbol(r, h.table)
                 r2 == DropBits(r1, ExtraBits(a))
             IN Go(r2, s, IF a < 16 THEN SingleLength(a)
                          ELSE RepeatedLength(a, Value(r1, ExtraBits(a))),
                   IF next = "batchLengths" /\ a >= 16 /\ ~CheckInputAmount(r2)
                   THEN "lengths" ELSE next, NoLoc)
       IN CASE fast -> Take(FillBitWindow(br), pc)
            [] ~fast /\ batch -> Go(br, s, h, "lengths", NoLoc)
            [] ~fast /\ ~batch /\ enough # {} -> Take(Pulled(Min(enough)), pc)
            [] OTHER -> Starve(Pulled(AvailIn(br)), s, h)

LengthSymbolsDone ==
    /\ In("batchLengths") \/ In("lengths")
    /\ h.symbol >= Alphabet \/ h.space = 0
    /\ IF h.space # 0 THEN Fail(br, "huffman space")
       ELSE HuffmanDone(br, h, Canonical(h.lengths))

-----------------------------------------------------------------------------
(* Commands *)

BeforeCompressedMetablockBody ==
    /\ At("BeforeCompressedMetablockBody")
    /\ GoTop(br, [s EXCEPT !.blockType = [k \in Kinds |->
                                IF k = Lit THEN s.blockTypeRB[Lit][2] ELSE 0],
                           !.state = "CommandBegin"], h)

CommandStates == {"CommandBegin", "CommandInner", "CommandPostDecodeLiterals"}

(* processCommands finds its place and its counter again. *)
ProcessCommands ==
    /\ result = "none" /\ pc = "top" /\ s.state \in CommandStates
    /\ Go(br, s, h, s.state, [NoLoc EXCEPT !.i = s.loopCounter])

(* Returning for input; a command that has overrun the metablock fails     *)
(* instead.                                                                *)
StarveAt(r, s1) ==
    IF s.remaining < 0 THEN Fail(r, "negative length")
    ELSE Starve(r, [s1 EXCEPT !.state = pc,
                              !.loopCounter = IF pc = "CommandBegin" THEN @ ELSE loc.i], h)

BlockKind == CASE pc = "CommandBegin" -> Cmd [] pc = "CommandInner" -> Lit
               [] OTHER -> Dist

(* What a block switch reads, by the wide loads or with care: a length     *)
(* that is not all there undoes the type.                                  *)
FastSwitch(k) ==
    LET r1 == FillBitWindow(br)
        r2 == FillBitWindow(AfterSymbol(r1, s.typeTrees[k]))
        a  == SymbolOf(r2, s.lenTrees[k])
        r3 == FillBitWindow(AfterSymbol(r2, s.lenTrees[k]))
        n  == BlockLengthNBits[a + 1]
    IN [ok |-> TRUE, r |-> DropBits(r3, n), type |-> SymbolOf(r1, s.typeTrees[k]),
        len |-> BlockLengthOffset[a + 1] + Value(r3, n)]

Undone(r) == [ok |-> FALSE, r |-> r, type |-> 0, len |-> 0]

SafeSwitch(k) ==
    LET r1 == PeekSymbol(br, MaxCode)
        r2 == PeekSymbol(AfterSymbol(r1, s.typeTrees[k]), MaxCode)
        a  == SymbolOf(r2, s.lenTrees[k])
        n  == BlockLengthNBits[a + 1]
        r3 == SafeGetBits(AfterSymbol(r2, s.lenTrees[k]), n)
    IN IF Matching(r1, s.typeTrees[k]) = {} THEN Undone(r1)
       ELSE IF Matching(r2, s.lenTrees[k]) = {} THEN Undone(br)
       ELSE IF r3.bitPos < n THEN Undone(br)
       ELSE [ok |-> TRUE, r |-> DropBits(r3, n), type |-> SymbolOf(r1, s.typeTrees[k]),
             len |-> BlockLengthOffset[a + 1] + Value(r3, n)]

DistTree(type, context) == s.contextMap[Dist][type * 4 + context + 1] + 1

BlockSwitch ==
    /\ result = "none" /\ pc \in CommandStates
    /\ pc = "CommandInner" => loc.i > 0
    /\ pc = "CommandPostDecodeLiterals" => s.distanceCode < 0
    /\ s.blockLength[BlockKind] = 0
    /\ LET k   == BlockKind
           num == s.numBlockTypes[k]
           sw  == IF CheckInputAmount(br) THEN FastSwitch(k) ELSE SafeSwitch(k)
           rb  == s.blockTypeRB[k]
           raw == CASE sw.type = 1 -> rb[2] + 1 [] sw.type = 0 -> rb[1]
                    [] OTHER -> sw.type - 2
           type == IF raw >= num THEN raw - num ELSE raw
       IN IF num <= 1 THEN Fail(br, "block switch")
          ELSE IF ~sw.ok THEN StarveAt(sw.r, s)
          ELSE Go(sw.r,
                  [s EXCEPT !.blockLength[k] = sw.len, !.blockTypeRB[k] = <<rb[2], type>>,
                            !.blockType[k] = type,
                            !.distTree = IF k = Dist THEN DistTree(type, s.distanceContext)
                                         ELSE @], h, pc, loc)

(* core.CmdLut: insert and copy code of a command, their ranges, and       *)
(* whether the last distance is used again.                                *)
InsertBase == <<0, 0, 0, 0, 8, 8, 0, 16, 8, 16, 16>>
CopyBase   == <<0, 8, 0, 8, 0, 8, 16, 0, 16, 8, 16>>
InsertLenOffset == <<0, 1, 2, 3, 4, 5, 6, 8, 10, 14, 18, 26, 34, 50, 66, 98, 130,
                     194, 322, 578, 1090, 2114, 6210, 22594>>
InsertLenExtraBits == <<0, 0, 0, 0, 0, 0, 1, 1, 2, 2, 3, 3, 4, 4, 5, 5, 6, 7, 8, 9,
                        10, 12, 14, 24>>
CopyLenOffset == <<2, 3, 4, 5, 6, 7, 8, 9, 10, 12, 14, 18, 22, 30, 38, 54, 70, 102,
                   134, 198, 326, 582, 1094, 2118>>
CopyLenExtraBits == <<0, 0, 0, 0, 0, 0, 0, 0, 1, 1, 2, 2, 3, 3, 4, 4, 5, 5, 6, 7, 8,
                      9, 10, 24>>
CmdLut(a) ==
    LET cell == a \div 64 + 1
        ins  == InsertBase[cell] + ((a \div 8) % 8) + 1
        cpy  == CopyBase[cell] + (a % 8) + 1
    IN [insert |-> InsertLenOffset[ins], insertBits |-> InsertLenExtraBits[ins],
        copy |-> CopyLenOffset[cpy], copyBits |-> CopyLenExtraBits[cpy],
        context |-> Min({cpy - 1, 3}), distance |-> IF a < 128 THEN 0 ELSE -1]

CommandTree == s.groups[Cmd][s.blockType[Cmd] + 1]

(* Reading a command, by two wide loads or with care. *)
FastCommand ==
    LET r1 == Refill64(br)
        v  == CmdLut(SymbolOf(r1, CommandTree))
        r2 == AfterSymbol(r1, CommandTree)
        r3 == IF v.insertBits = 0 THEN r2 ELSE Refill64(DropBits(r2, v.insertBits))
    IN [r |-> DropBits(r3, v.copyBits), v |-> v, insert |-> Value(r2, v.insertBits),
        copy |-> Value(r3, v.copyBits)]

(* Mutant: a command that is not all there keeps what was read of it. *)
SafeCommandKeeps(r1) ==
    LET v  == CmdLut(SymbolOf(r1, CommandTree))
        r2 == SafeGetBits(AfterSymbol(r1, CommandTree), v.insertBits)
        r3 == SafeGetBits(DropBits(r2, v.insertBits), v.copyBits)
    IN IF r2.bitPos < v.insertBits \/ r3.bitPos < v.copyBits
       THEN [r |-> r2, v |-> v, insert |-> 0, copy |-> -1]
       ELSE [r |-> DropBits(r3, v.copyBits), v |-> v,
             insert |-> Value(r2, v.insertBits), copy |-> Value(r3, v.copyBits)]

SafeCommand(r1) ==
    LET v  == CmdLut(SymbolOf(r1, CommandTree))
        r2 == SafeGetBits(AfterSymbol(r1, CommandTree), v.insertBits)
        r3 == SafeGetBits(DropBits(r2, v.insertBits), v.copyBits)
    IN IF r2.bitPos < v.insertBits \/ r3.bitPos < v.copyBits
       THEN [r |-> br, v |-> v, insert |-> 0, copy |-> -1]
       ELSE [r |-> DropBits(r3, v.copyBits), v |-> v,
             insert |-> Value(r2, v.insertBits), copy |-> Value(r3, v.copyBits)]

(* Distance code and context are set before the extra bits are known to    *)
(* be there.                                                               *)
CommandBegin ==
    /\ In("CommandBegin") /\ s.blockLength[Cmd] # 0
    /\ LET fast == CheckInputAmount(br) /\ br.bitPos >= RootBits
           r1   == PeekSymbol(br, MaxCode)
           c    == IF fast THEN FastCommand ELSE SafeCommand(r1)
           s1   == [s EXCEPT !.distanceCode = c.v.distance,
                             !.distanceContext = c.v.context,
                             !.distTree = DistTree(s.blockType[Dist], c.v.context)]
           i    == c.v.insert + c.insert
       IN IF ~fast /\ Matching(r1, CommandTree) = {} THEN StarveAt(r1, s)
          ELSE IF c.copy < 0 THEN StarveAt(c.r, s1)
          ELSE Go(c.r, [s1 EXCEPT !.copyLength = c.v.copy + c.copy,
                                  !.blockLength[Cmd] = @ - 1,
                                  !.remaining = @ - i], h,
                  IF i = 0 THEN "CommandPostDecodeLiterals" ELSE "CommandInner",
                  [NoLoc EXCEPT !.i = i])

(* The tree of the next literal: its block type and the two bytes before   *)
(* it choose it.  Context modes LSB6 and MSB6.                             *)
Context(mode, p1) == IF mode = 0 THEN p1 % 64 ELSE p1 \div 4
LiteralMap == SubSeq(s.contextMap[Lit], 64 * s.blockType[Lit] + 1,
                     64 * s.blockType[Lit] + 64)
Trivial == \A k \in 1 .. 64 : LiteralMap[k] = LiteralMap[1]
LiteralTree ==
    LET p1 == IF out = <<>> THEN 0 ELSE Last(out)
        context == Context(s.contextModes[s.blockType[Lit] + 1], p1)
    IN s.groups[Lit][LiteralMap[context + 1] + 1]

(* How many literals a batch takes without looking at the input again. *)
BatchSize == Min({loc.i, s.blockLength[Lit], (AvailIn(br) - 8) \div 2})

(* decodeLiteralsBatch and decodeLiteralsContextBatch load eight bytes     *)
(* whenever a code might not fit any more.                                 *)
BatchLoad(r) == IF r.bitPos < MaxCode THEN Refill64(r) ELSE r

(* loc.num: literals left of the batch that is running. *)
Literal ==
    /\ In("CommandInner") /\ loc.i > 0 /\ s.blockLength[Lit] # 0
    /\ LET n == IF loc.num > 0 THEN loc.num ELSE BatchSize
           batch == loc.num > 0 \/ n > (IF Trivial THEN 1 ELSE 0)
           r == CASE batch -> BatchLoad(br)
                  [] ~batch /\ (n = 1 \/ CheckInputAmount(br)) -> FillBitWindow(br)
                  [] OTHER -> PeekSymbol(br, MaxCode)
       IN IF Matching(r, LiteralTree) = {} THEN StarveAt(r, s)
          ELSE /\ br' = AfterSymbol(r, LiteralTree)
               /\ out' = Append(out, SymbolOf(r, LiteralTree))
               /\ s' = [s EXCEPT !.blockLength[Lit] = @ - 1]
               /\ loc' = [loc EXCEPT !.i = @ - 1, !.num = IF batch THEN n - 1 ELSE 0]
               /\ UNCHANGED <<h, pc, result>>

LiteralsDone ==
    /\ In("CommandInner") /\ loc.i = 0
    /\ IF s.remaining <= 0 THEN GoTop(br, [s EXCEPT !.state = "MetablockDone"], h)
       ELSE Go(br, s, h, "CommandPostDecodeLiterals", loc)

(* Distances *)

ImplicitDistance ==
    /\ In("CommandPostDecodeLiterals") /\ s.distanceCode >= 0
    /\ Go(br, [s EXCEPT !.distanceContext = IF s.distanceCode = 0 THEN 1 ELSE 0,
                        !.distRBIdx = @ - 1,
                        !.distanceCode = s.distRB[((s.distRBIdx - 1) % 4) + 1]],
          h, "copy", loc)

(* takeDistanceFromRingBuffer *)
ShortDistance(a) ==
    LET last(k) == s.distRB[((s.distRBIdx + k) % 4) + 1]
        delta   == <<-1, 1, -2, 2, -3, 3>>
        d == CASE a <= 3 -> last(3 - a)
               [] a \in 4 .. 9 -> last(3) + delta[a - 3]
               [] OTHER -> last(2) + delta[a - 9]
    IN IF d <= 0 THEN 2147483647 ELSE d

(* calculateDistanceLut: offset and extra bits of a distance code. *)
DistanceRange(a) ==
    LET k     == a - 16 - s.direct
        high  == k \div (2^s.postfix)
        bits  == 1 + high \div 2
    IN IF a < 16 + s.direct THEN [bits |-> 0, offset |-> a - 15]
       ELSE [bits |-> bits,
             offset |-> ((2 + (high % 2)) * 2^bits - 4) * 2^s.postfix
                        + (k % (2^s.postfix)) + s.direct + 1]

(* readDistance, for short input or an almost empty accumulator: what is   *)
(* there for the symbol, and for the n bits after it of a distance code    *)
(* that is not a short one; readBits32 fills the window even for n = 0.    *)
SymbolLoad == IF CheckInputAmount(br) THEN FillBitWindow(br) ELSE PeekSymbol(br, MaxCode)
ExtraLoad(r, n) == IF CheckInputAmount(br) THEN FillBitWindow(r) ELSE SafeGetBits(r, n)

(* The distance itself: after the symbol and its bits, or nothing at all. *)
ReadDistance ==
    /\ In("CommandPostDecodeLiterals") /\ s.distanceCode < 0 /\ s.blockLength[Dist] # 0
    /\ LET tree == s.groups[Dist][s.distTree]
           wide == CheckInputAmount(br) /\ br.bitPos >= RootBits
           r1 == IF wide THEN Refill64(br) ELSE SymbolLoad
           a  == SymbolOf(r1, tree)
           r2 == AfterSymbol(r1, tree)
           x  == IF a < 16 THEN [bits |-> 0, offset |-> 0] ELSE DistanceRange(a)
           r3 == IF wide \/ a < 16 THEN r2 ELSE ExtraLoad(r2, x.bits)
           s1 == [s EXCEPT !.blockLength[Dist] = @ - 1, !.distanceContext = 0]
       IN IF Matching(r1, tree) = {} THEN StarveAt(r1, s)
          ELSE IF r3.bitPos < x.bits
          THEN StarveAt(br, [s EXCEPT !.distanceContext = 0])
          ELSE Go(DropBits(r3, x.bits),
                  IF a < 16
                  THEN [s1 EXCEPT !.distanceCode = ShortDistance(a),
                                  !.distanceContext = IF a = 0 THEN 1 ELSE 0,
                                  !.distRBIdx = IF a = 0 THEN @ - 1 ELSE @]
                  ELSE [s1 EXCEPT !.distanceCode = x.offset
                                      + Value(r3, x.bits) * 2^s.postfix],
                  h, "copy", loc)

(* A distance beyond the history is one of the static dictionary; a length *)
(* no word has is refused.                                                 *)
Copy ==
    /\ In("copy")
    /\ LET d == s.distanceCode
           n == s.copyLength
           from == Len(out) - d
           maxDistance == Min({Len(out), 2^s.windowBits - 16})
       IN IF d > maxDistance
          THEN IF d > MaxAllowedDistance THEN Fail(br, "distance")
               ELSE n \notin 4 .. 24 /\ Fail(br, "word length")
          ELSE /\ out' = out \o [k \in 1 .. n |-> out[from + 1 + ((k - 1) % d)]]
               /\ s' = [s EXCEPT !.distRB[(s.distRBIdx % 4) + 1] = d,
                                 !.distRBIdx = @ + 1, !.remaining = @ - n,
                                 !.state = IF s.remaining - n <= 0 THEN "MetablockDone" ELSE @]
               /\ pc' = IF s.remaining - n <= 0 THEN "top" ELSE "CommandBegin"
               /\ loc' = NoLoc
               /\ UNCHANGED <<br, h, result>>

-----------------------------------------------------------------------------
(* The Reader around it *)

(* fill: what was not used goes to the front of the buffer, n bytes more   *)
(* follow, and decompressStream is called again.                           *)
Fill(n) ==
    /\ In("starved") /\ given + n <= Len(stream.bytes)
    /\ LET r == Unload(br)
       IN br' = SetInput(r, SubSeq(r.input, r.pos + 1, Len(r.input))
                            \o SubSeq(stream.bytes, given + 1, given + n))
    /\ given' = given + n
    /\ pc' = "top"
    /\ UNCHANGED <<stream, s, h, loc, out, result>>

(* The source ends, at its end or before. *)
SourceEnds ==
    /\ In("starved")
    /\ result' = "truncated"
    /\ UNCHANGED <<stream, given, br, s, h, pc, loc, out>>

(* terminalReadError: bytes left after the stream. *)
StreamEnds ==
    /\ At("Done")
    /\ br' = Unload(br)
    /\ result' = IF AvailIn(Unload(br)) > 0 THEN "excessive" ELSE "eof"
    /\ UNCHANGED <<stream, given, s, h, pc, loc, out>>

DecompressStream ==
    \/ Uninited \/ MetablockBegin \/ HeaderNone \/ HeaderEmpty \/ HeaderNibbles
    \/ HeaderSize \/ HeaderUncompressed \/ HeaderReserved \/ HeaderBytes
    \/ HeaderMetadata \/ SkipMetadata \/ CopyUncompressed \/ MetablockDone
    \/ BeforeCompressedMetablockHeader \/ Uint8None \/ Uint8Short \/ Uint8Long
    \/ BlockTypesDone \/ FirstBlockSymbol \/ FirstBlockLength \/ MetablockHeader2
    \/ ReadContextModes \/ ContextMapPrefix \/ ContextMapSymbol \/ ContextMapRun
    \/ ContextMapTransform \/ TreeGroupBegin \/ TreeGroupDone \/ HuffmanNone
    \/ SimpleSize \/ SimpleRead \/ SimpleBuild \/ CodeLengthCode
    \/ LengthSymbolsBegin \/ LengthSymbol \/ LengthSymbolsDone
    \/ BeforeCompressedMetablockBody \/ ProcessCommands \/ BlockSwitch
    \/ CommandBegin \/ Literal \/ LiteralsDone \/ ImplicitDistance
    \/ ReadDistance \/ Copy

Ended == result # "none" /\ UNCHANGED vars

Next ==
    \/ DecompressStream /\ UNCHANGED <<stream, given>>
    \/ \E n \in Chunks \cup {Len(stream.bytes) - given} : n > 0 /\ Fill(n)
    \/ SourceEnds
    \/ StreamEnds
    \/ Ended

Spec == Init /\ [][Next]_vars

-----------------------------------------------------------------------------
(* Properties *)

(* However the input is cut, the decoder produces what the stream stands   *)
(* for: its output is always a beginning of the stream's (beyond the       *)
(* metablock it is withheld), it ends with the stream's own error or with  *)
(* none, never calls a complete stream truncated, and has then used        *)
(* exactly the stream's bytes.  A substate or counter that is not saved,   *)
(* or a rollback that undoes too little (decode.go:541-1054, 1697-1731,    *)
(* 2221-2243), breaks it for some cut.                                     *)
DecodesAnyChunking ==
    /\ s.remaining >= 0 => IsPrefix(out, stream.out)
    /\ result \notin {"none", "truncated", "eof", "excessive"} => result = stream.err
    /\ result = "truncated" => given < Len(stream.bytes)
    /\ result \in {"eof", "excessive"} =>
          /\ stream.err = "none" /\ out = stream.out
          /\ s.windowBits = stream.windowBits
          /\ given - AvailIn(br) = stream.used /\ br.bitPos = 0

(* The accumulator holds the bits of the stream that end at the read       *)
(* position, and above them nothing but what the stream continues with:    *)
(* the next load is added by OR, so a leftover from a wide load, from      *)
(* bytes skipped past it or from memory after the input would corrupt it   *)
(* (bitreader.go:107-118, 122-126, 239-296).                               *)
AccumulatorHonest ==
    LET first == 8 * (given - Len(br.input) + br.pos) - br.bitPos
        bit(k) == LET b == (first + k - 1) \div 8 + 1
                  IN IF b \in 1 .. given
                     THEN (stream.bytes[b] \div 2^((first + k - 1) % 8)) % 2 ELSE 0
    IN /\ first >= 0
       /\ \A k \in 1 .. Len(br.val) :
             br.val[k] = bit(k) \/ (k > br.bitPos /\ br.val[k] = 0)
=============================================================================
