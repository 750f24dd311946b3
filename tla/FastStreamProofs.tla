-------------------------- MODULE FastStreamProofs --------------------------
(***************************************************************************)
(* FastStream, for every fragment size, every block size and every length  *)
(* of prefix codes and commands: the stream of levels 0 and 1 decodes to   *)
(* the input.  The inductive invariant says, for every place in the        *)
(* compression of a fragment, how far the decoder has come, and what is    *)
(* known of the header of the metablock that is still open.                *)
(***************************************************************************)
EXTENDS FastStream, TLAPS

Places ==
    {"none", "compress", "commands", "rest", "next", "fallback", "last", "write"}

(* The type invariant: of the calls and the stream, ... *)
StreamTypeOK ==
    /\ quality \in Qualities /\ blockSizeLimit \in Fragments
    /\ buf \in Nat /\ carryBits \in 0 .. 7 /\ lag \in Int /\ behind \in Int
    /\ todo \in Nat
    /\ wroteHeader \in BOOLEAN /\ began \in BOOLEAN /\ codeFresh \in BOOLEAN
    /\ ended \in BOOLEAN /\ err \in BOOLEAN /\ closed \in BOOLEAN
    /\ op \in {"none", "write", "flush", "pad", "close"}
    /\ last \in {"none", "write", "flush", "close"}

(* ... and of the fragment. *)
FragmentTypeOK ==
    /\ pc \in Places
    /\ fragLen \in Nat /\ isLast \in BOOLEAN /\ inPlace \in BOOLEAN
    /\ start \in Int /\ from \in Int /\ off \in Int /\ pos \in Int
    /\ blockSize \in Int /\ total \in Int /\ mlenPos \in Int
    /\ nextEmit \in Int /\ metaStart \in Int
    /\ headAt \in Int /\ mlen \in Int /\ width \in Int /\ code \in BOOLEAN
    /\ decAt \in Int /\ decBytes \in Int /\ decOk \in BOOLEAN

(* A metablock is open: its header, the decoder before it, and its length  *)
(* field, which has room to grow if there is more input.                   *)
MetablockOpen ==
    /\ decAt = headAt /\ decBytes = metaStart
    /\ mlenPos = headAt + 3
    /\ code
    /\ mlen = total /\ total = IpEnd - metaStart
    /\ IpEnd <= fragLen /\ nextEmit <= IpEnd
    /\ IpEnd < fragLen => width = 20

(* What holds at each place in the compression of a fragment: before and   *)
(* between metablocks the decoder stands where the next one will begin.    *)
PlaceInv ==
    /\ pc \in {"compress", "next"} =>
           decAt = off /\ decBytes = pos /\ pos <= fragLen
    /\ pc = "compress" =>
           codeFresh /\ (quality = 0 => pos = 0) /\ nextEmit = 0
    /\ pc = "next" => nextEmit = pos
    /\ pc \in {"commands", "rest"} => MetablockOpen
    /\ pc \in {"fallback", "last", "write"} =>
           decAt = off /\ decBytes = fragLen /\ (codeFresh \/ isLast)
    /\ pc = "write" /\ isLast => off % 8 = 0
    /\ pc = "none" => pos = 0 /\ nextEmit = 0 /\ decBytes = 0

(* Which fragment is being compressed, for which call. *)
FragmentInv ==
    pc # "none" =>
        /\ ~err
        /\ op \in {"write", "flush", "close"}
        /\ from = start
        /\ isLast <=> op = "close"
        /\ fragLen = IF inPlace THEN blockSizeLimit ELSE buf
        /\ inPlace => op = "write" /\ todo > blockSizeLimit

(* The calls and the stream between fragments. *)
CallInv ==
    /\ began = wroteHeader
    /\ lag = carryBits
    /\ buf <= blockSizeLimit
    /\ op \in {"none", "pad"} => pc = "none"
    /\ op \in {"flush", "close"} => pc # "none"
    /\ op # "write" => todo = 0
    /\ op = "pad" => buf = 0
    /\ err => op = "none"
    /\ ~err => behind = buf + todo
    /\ ~err /\ ~closed /\ pc = "none" => codeFresh
    /\ closed => op \in {"none", "close"}
    /\ op = "close" => closed
    /\ last # "none" => op = "none"
    /\ ~err /\ last \in {"flush", "close"} => buf = 0 /\ carryBits = 0
    /\ ~err /\ last = "close" => ended

FastInv ==
    /\ StreamTypeOK /\ FragmentTypeOK
    /\ decOk /\ PlaceInv /\ FragmentInv /\ CallInv

-----------------------------------------------------------------------------
(* The community module's Min of two integers. *)
LEMMA MinTwo ==
    ASSUME NEW a \in Int, NEW b \in Int
    PROVE  Min({a, b}) = IF a <= b THEN a ELSE b
<1> DEFINE m == IF a <= b THEN a ELSE b
<1>1. m \in {a, b} /\ \A y \in {a, b} : m <= y
  OBVIOUS
<1>2. ASSUME NEW x \in {a, b}, \A y \in {a, b} : x <= y
      PROVE  x = m
  BY <1>2
<1> QED
  BY <1>1, <1>2 DEF Min

(* The end of a last fragment is the end of a byte. *)
LEMMA Aligned ==
    ASSUME NEW x \in Int
    PROVE  AlignUp(x) \in Int /\ AlignUp(x) % 8 = 0
BY DEF AlignUp

(* The lengths of headers and of stored metablocks are integers. *)
LEMMA Lengths ==
    ASSUME NEW at \in Int, NEW n \in Int
    PROVE  HeadBits(n) \in Int /\ StoredEnd(at, n) \in Int
BY Aligned DEF HeadBits, Nibbles, StoredEnd

(* So are the numbers of bits commands may take. *)
LEMMA BitsOfInt ==
    ASSUME NEW n \in Int, NEW b \in BitsOf(n)
    PROVE  b \in Int
BY FastStreamAssumption DEF BitsOf

(* A step inside a fragment has to keep what is known of the place it is   *)
(* at; the rest of the invariant is about what such a step leaves alone.   *)
LEMMA InsideStep ==
    ASSUME FastInv, pc # "none", pc' # "none", UNCHANGED inside,
           codeFresh' \in BOOLEAN, FragmentTypeOK', decOk', PlaceInv'
    PROVE  FastInv'
<1> USE DEF FastInv, inside, config, fragment, stream, header, writer
<1>1. StreamTypeOK'
  BY DEF StreamTypeOK
<1>2. FragmentInv'
  BY DEF FragmentInv
<1>3. CallInv'
  BY DEF CallInv, FragmentInv
<1> QED
  BY <1>1, <1>2, <1>3

(* Opening a metablock at the decoder's place: the length field of one     *)
(* that ends before its fragment does has 5 nibbles.                       *)
LEMMA OpenStep ==
    ASSUME FastInv, pc \in {"compress", "next"}, NEW b \in CodeBits,
           OpenMetablock(b, TRUE), codeFresh' \in BOOLEAN,
           nextEmit = pos, UNCHANGED <<inside, pos, nextEmit, decoder>>
    PROVE  FastInv'
<1> USE DEF inside, config, fragment, stream, header, writer, decoder
<1> DEFINE n == Min({fragLen - pos, FirstBlockSize})
<1>1. /\ FragmentTypeOK /\ pos <= fragLen /\ decAt = off /\ decBytes = pos
      /\ decOk
  BY DEF FastInv, PlaceInv
<1>2. FirstBlockSize \in Int /\ fragLen - pos \in Int /\ b \in Int
  BY <1>1, FastStreamAssumption DEF FragmentTypeOK
<1>3. n = IF fragLen - pos <= FirstBlockSize THEN fragLen - pos
          ELSE FirstBlockSize
  BY <1>2, MinTwo
<1>4. /\ blockSize' = n /\ total' = n /\ metaStart' = pos /\ mlenPos' = off + 3
      /\ headAt' = off /\ mlen' = n /\ width' = 4 * Nibbles(n) /\ code' = TRUE
      /\ off' = off + HeadBits(n) + 13 + b
      /\ pc' = "commands"
  BY DEF OpenMetablock
<1> HIDE DEF n
<1>5. n \in Int /\ Nibbles(n) \in Int /\ HeadBits(n) \in Int
  BY <1>2, <1>3 DEF Nibbles, HeadBits
<1>6. pos + n < fragLen => 4 * Nibbles(n) = 20
  BY <1>1, <1>3, FastStreamAssumption DEF Nibbles, FragmentTypeOK
<1>7. FragmentTypeOK'
  BY <1>1, <1>2, <1>4, <1>5 DEF FragmentTypeOK, Places
<1>8. MetablockOpen'
  BY <1>1, <1>3, <1>4, <1>5, <1>6, FastStreamAssumption
     DEF MetablockOpen, IpEnd, FragmentTypeOK
<1>9. PlaceInv' /\ decOk' /\ pc' # "none"
  BY <1>1, <1>4, <1>8 DEF PlaceInv
<1> QED
  BY <1>7, <1>9, InsideStep

(* Storing the open metablock from its first bit, up to end. *)
LEMMA StoreStep ==
    ASSUME FastInv, pc = "rest", NEW end \in Int, end <= fragLen,
           StoreFrom(mlenPos - 3, end), UNCHANGED <<inside, codeFresh, metablock>>
    PROVE  FastInv'
<1> USE DEF metablock
<1> DEFINE n == end - metaStart
<1>1. FragmentTypeOK /\ MetablockOpen /\ decOk /\ codeFresh \in BOOLEAN
  BY DEF FastInv, PlaceInv, StreamTypeOK
<1>2. fragLen' = fragLen /\ isLast' = isLast /\ inPlace' = inPlace
      /\ start' = start /\ from' = from
  BY DEF inside, fragment
<1>3. /\ off' = StoredEnd(mlenPos - 3, n) /\ pos' = end /\ nextEmit' = end
      /\ pc' = "next" /\ decAt' = off' /\ decBytes' = decBytes + n
      /\ decOk' = (decOk /\ decAt = mlenPos - 3 /\ n = n /\ TRUE)
  BY DEF StoreFrom, Reads
<1>4. mlenPos - 3 \in Int /\ n \in Int /\ off' \in Int
  BY <1>1, <1>3, Lengths DEF FragmentTypeOK
<1>5. FragmentTypeOK'
  BY <1>1, <1>2, <1>3, <1>4 DEF FragmentTypeOK, Places
<1>6. decOk' /\ pc' # "none" /\ pc # "none"
  <2>1. decAt = mlenPos - 3
    BY <1>1 DEF MetablockOpen, FragmentTypeOK
  <2>2. decOk'
    BY <1>1, <1>3, <2>1, Zenon
  <2> QED
    BY <1>3, <2>2
<1>7. PlaceInv'
  BY <1>1, <1>2, <1>3 DEF PlaceInv, MetablockOpen, FragmentTypeOK
<1> QED
  BY <1>1, <1>5, <1>6, <1>7, InsideStep

-----------------------------------------------------------------------------
(* Every step of level 0 inside a fragment. *)
LEMMA Level0Step == FastInv /\ Level0 => FastInv'
<1> SUFFICES ASSUME FastInv, Level0 PROVE FastInv'
  OBVIOUS
<1> USE DEF FastInv
<1>1. ASSUME NEW b \in CodeBits, Compress(b)
      PROVE  FastInv'
  <2>1. CASE fragLen = 0
    <3>1. PlaceInv' /\ FragmentTypeOK' /\ pc' # "none" /\ pc # "none"
      BY <1>1, <2>1 DEF Compress, PlaceInv, FragmentTypeOK, Places, inside, config,
         fragment, metablock, decoder
    <3> QED
      BY <1>1, <3>1, InsideStep DEF Compress, decoder, StreamTypeOK
  <2>2. CASE fragLen # 0
    <3>1. codeFresh = TRUE /\ nextEmit = pos /\ pc \in {"compress", "next"}
      BY <1>1 DEF Compress, PlaceInv, StreamTypeOK
    <3>2. OpenMetablock(b, TRUE) /\ codeFresh' = codeFresh
      BY <1>1, <2>2, <3>1 DEF Compress
    <3> QED
      BY <1>1, <3>1, <3>2, OpenStep DEF Compress, StreamTypeOK
  <2> QED
    BY <2>1, <2>2
<1>2. ASSUME NEW b \in CodeBits, NextBlock(b)
      PROVE  FastInv'
  <2>1. CASE pos < fragLen
    <3>1. nextEmit = pos /\ pc \in {"compress", "next"}
      BY <1>2 DEF NextBlock, PlaceInv
    <3> QED
      BY <1>2, <2>1, <3>1, OpenStep DEF NextBlock
  <2>2. CASE ~(pos < fragLen)
    <3>1. pos = fragLen /\ decAt = off /\ decBytes = pos
      BY <1>2, <2>2 DEF NextBlock, PlaceInv, FragmentTypeOK
    <3>2. PlaceInv' /\ FragmentTypeOK' /\ pc' # "none" /\ pc # "none"
      BY <1>2, <2>2, <3>1 DEF NextBlock, PlaceInv, FragmentTypeOK, Places, inside,
         config, fragment, metablock, decoder, StreamTypeOK
    <3> QED
      BY <1>2, <2>2, <3>2, InsideStep DEF NextBlock, decoder, StreamTypeOK
  <2> QED
    BY <2>1, <2>2
<1>3. ASSUME NEW b \in BitsOf(blockSize), NEW e \in Int, WriteCommands(e, b)
      PROVE  FastInv'
  <2>1. b \in Int
    BY BitsOfInt DEF FragmentTypeOK
  <2>2. e <= IpEnd /\ MetablockOpen
    BY <1>3 DEF WriteCommands, PlaceInv, MetablockOpen
  <2>3. FragmentTypeOK' /\ pc' # "none" /\ pc # "none" /\ decOk'
    BY <1>3, <2>1 DEF WriteCommands, FragmentTypeOK, Places, inside, fragment,
       metablock, decoder
  <2>4. PlaceInv'
    BY <1>3, <2>2 DEF WriteCommands, PlaceInv, MetablockOpen, IpEnd, inside,
       fragment, metablock, decoder
  <2> QED
    BY <1>3, <2>3, <2>4, InsideStep DEF WriteCommands, StreamTypeOK
<1>4. ASSUME NEW b \in BitsOf(blockSize), WriteRemainder(b)
      PROVE  FastInv'
  <2>1. b \in Int
    BY BitsOfInt DEF FragmentTypeOK
  <2>2. MetablockOpen
    BY <1>4 DEF WriteRemainder, PlaceInv
  <2>3. decOk'
    <3>1. decAt = headAt /\ mlen = IpEnd - metaStart /\ code
      BY <2>2 DEF MetablockOpen
    <3> QED
      BY <1>4, <3>1, Zenon DEF WriteRemainder, Reads
  <2>4. FragmentTypeOK' /\ pc' # "none" /\ pc # "none"
    BY <1>4, <2>1, <2>3 DEF WriteRemainder, Reads, FragmentTypeOK, Places, inside,
       fragment, metablock, IpEnd
  <2>5. PlaceInv'
    BY <1>4, <2>2 DEF WriteRemainder, Reads, PlaceInv, MetablockOpen, IpEnd,
       FragmentTypeOK, inside, fragment, metablock
  <2> QED
    BY <1>4, <2>3, <2>4, <2>5, InsideStep DEF WriteRemainder, StreamTypeOK
<1>5. ASSUME NEW base \in Int, StoreRun(base)
      PROVE  FastInv'
  <2>1. base <= fragLen /\ pc = "rest"
    BY <1>5 DEF StoreRun, PlaceInv, MetablockOpen, IpEnd, FragmentTypeOK
  <2> QED
    BY <1>5, <2>1, StoreStep DEF StoreRun
<1>6. ASSUME MergeBlock
      PROVE  FastInv'
  <2> DEFINE n == Min({fragLen - IpEnd, MergeBlockSize})
  <2>1. /\ IpEnd \in Int /\ fragLen \in Int /\ MergeBlockSize \in Nat
        /\ total \in Int /\ MergeCap <= Mlen20 /\ MergeCap \in Int
        /\ Mlen20 \in Int
    BY FastStreamAssumption DEF FragmentTypeOK, IpEnd
  <2>2. n \in Int /\ n <= fragLen - IpEnd
    BY <2>1, MinTwo
  <2>3. /\ pos' = IpEnd /\ blockSize' = n /\ total' = total + n
        /\ mlen' = UpdateBits(total + n) /\ total + n <= MergeCap
        /\ IpEnd < fragLen /\ pc = "rest" /\ pc' = "commands"
    BY <1>6 DEF MergeBlock
  <2> HIDE DEF n
  <2>4. MetablockOpen /\ width = 20
    BY <2>3 DEF PlaceInv, MetablockOpen
  <2>5. mlen' = total + n
    BY <2>1, <2>2, <2>3, <2>4 DEF UpdateBits, MetablockOpen
  <2>6. FragmentTypeOK' /\ pc' # "none" /\ pc # "none" /\ decOk'
    BY <1>6, <2>1, <2>2, <2>3, <2>5 DEF MergeBlock, FragmentTypeOK, Places, inside,
       fragment, decoder
  <2>7. MetablockOpen'
    <3>1. IpEnd' = IpEnd + n /\ n >= 0 /\ nextEmit <= IpEnd + n
      BY <2>1, <2>2, <2>3, <2>4, MinTwo, FastStreamAssumption
         DEF IpEnd, MetablockOpen, FragmentTypeOK, n
    <3> QED
      BY <1>6, <2>1, <2>2, <2>3, <2>4, <2>5, <3>1 DEF MetablockOpen, MergeBlock,
         FragmentTypeOK, inside, fragment, decoder
  <2>8. PlaceInv'
    BY <2>3, <2>7 DEF PlaceInv
  <2> QED
    BY <1>6, <2>6, <2>8, InsideStep DEF MergeBlock, StreamTypeOK
<1>7. ASSUME StoreRemainder
      PROVE  FastInv'
  <2>1. IpEnd \in Int /\ IpEnd <= fragLen /\ pc = "rest"
    BY <1>7 DEF StoreRemainder, PlaceInv, MetablockOpen, IpEnd, FragmentTypeOK
  <2> QED
    BY <1>7, <2>1, StoreStep DEF StoreRemainder
<1>8. nextEmit \in Int /\ IpEnd \in Int /\ pos \in Int
  BY DEF FragmentTypeOK, IpEnd
<1>9. /\ \A e \in {nextEmit} \union {IpEnd - g : g \in Gaps} : e \in Int
      /\ \A n \in Runs : pos + n \in Int
  BY <1>8, FastStreamAssumption
<1> QED
  BY <1>1, <1>2, <1>3, <1>4, <1>5, <1>6, <1>7, <1>9 DEF Level0

(* Every step of level 1 inside a fragment. *)
LEMMA Level1Step == FastInv /\ Level1 => FastInv'
<1> SUFFICES ASSUME FastInv, Level1 PROVE FastInv'
  OBVIOUS
<1> USE DEF FastInv
<1>1. ASSUME NEW stored \in BOOLEAN, NEW b \in BitsOf(TwoPassBlockSize),
             TwoPassBlock(stored, b)
      PROVE  FastInv'
  <2> DEFINE n == Min({fragLen - pos, TwoPassBlockSize})
  <2>1. /\ b \in Int /\ TwoPassBlockSize \in Int /\ fragLen - pos \in Int
        /\ pos \in Int /\ off \in Int /\ fragLen \in Int
    BY BitsOfInt, FastStreamAssumption DEF FragmentTypeOK
  <2>2. n \in Int /\ n <= fragLen - pos
    BY <2>1, MinTwo
  <2>3. /\ off' = IF stored THEN StoredEnd(off, n) ELSE off + HeadBits(n) + 13 + b
        /\ pos' = pos + n
        /\ decAt' = off' /\ decBytes' = decBytes + n
        /\ decOk' = (decOk /\ decAt = off /\ n = n /\ TRUE)
        /\ pc = "compress" /\ pc' = pc /\ quality = 1 /\ codeFresh' = codeFresh
    BY <1>1 DEF TwoPassBlock, Reads
  <2> HIDE DEF n
  <2>4. off' \in Int
    <3>1. HeadBits(n) \in Int /\ StoredEnd(off, n) \in Int
      BY <2>1, <2>2, Lengths
    <3> QED
      BY <2>1, <2>3, <3>1
  <2>5. decAt = off /\ decBytes = pos /\ codeFresh /\ nextEmit = 0
    BY <2>3 DEF PlaceInv
  <2>6. decOk'
    BY <2>3, <2>5, Zenon
  <2>7. FragmentTypeOK' /\ pc' # "none" /\ pc # "none"
    BY <1>1, <2>1, <2>2, <2>3, <2>4, <2>6 DEF TwoPassBlock, FragmentTypeOK, inside,
       fragment, metablock
  <2>8. PlaceInv'
    BY <1>1, <2>1, <2>2, <2>3, <2>5 DEF TwoPassBlock, PlaceInv, inside, config,
       fragment
  <2> QED
    BY <1>1, <2>3, <2>6, <2>7, <2>8, InsideStep DEF TwoPassBlock, StreamTypeOK
<1>2. ASSUME TwoPassEnd
      PROVE  FastInv'
  <2>1. FragmentTypeOK' /\ pc' # "none" /\ pc # "none" /\ decOk' /\ PlaceInv'
    BY <1>2 DEF TwoPassEnd, FragmentTypeOK, Places, PlaceInv, inside, config,
       fragment, metablock, decoder
  <2> QED
    BY <1>2, <2>1, InsideStep DEF TwoPassEnd, StreamTypeOK
<1> QED
  BY <1>1, <1>2 DEF Level1

(* The end of a fragment. *)
LEMMA FallbackStep == FastInv /\ Fallback => FastInv'
<1> SUFFICES ASSUME FastInv, Fallback PROVE FastInv'
  OBVIOUS
<1> USE DEF FastInv
<1>1. /\ pc = "fallback" /\ pc' = "last" /\ codeFresh' = codeFresh
      /\ UNCHANGED <<inside, pos, nextEmit, metablock>>
  BY DEF Fallback
<1>2. /\ decAt = off /\ decBytes = fragLen /\ (codeFresh \/ isLast)
      /\ from = start /\ start \in Int /\ fragLen \in Int
  BY <1>1 DEF PlaceInv, FragmentInv, FragmentTypeOK
<1>3. decOk' /\ decOk' \in BOOLEAN
  BY <1>2, Zenon DEF Fallback, decoder
<1>4. StoredEnd(start, fragLen) \in Int
  BY <1>2, Lengths
<1>5. off' \in Int /\ decAt' = off' /\ decBytes' = fragLen
  BY <1>2, <1>4 DEF Fallback, decoder, FragmentTypeOK
<1>6. FragmentTypeOK' /\ PlaceInv'
  BY <1>1, <1>2, <1>3, <1>5 DEF FragmentTypeOK, Places, PlaceInv, inside, fragment,
     metablock
<1> QED
  BY <1>1, <1>3, <1>6, InsideStep DEF StreamTypeOK

(* The empty last metablock ends with its byte. *)
LEMMA LastBlockStep == FastInv /\ LastBlock => FastInv'
<1> SUFFICES ASSUME FastInv, LastBlock PROVE FastInv'
  OBVIOUS
<1> USE DEF FastInv
<1>1. decAt = off /\ off + 2 \in Int
  BY DEF LastBlock, PlaceInv, FragmentTypeOK
<1>2. AlignUp(off + 2) \in Int /\ AlignUp(off + 2) % 8 = 0
  BY <1>1, Aligned
<1>3. FragmentTypeOK' /\ pc' # "none" /\ pc # "none" /\ decOk'
  BY <1>1, <1>2 DEF LastBlock, FragmentTypeOK, Places, inside, fragment, metablock
<1>4. PlaceInv'
  BY <1>1, <1>2 DEF LastBlock, PlaceInv, inside, fragment
<1> QED
  BY <1>3, <1>4, InsideStep DEF LastBlock, StreamTypeOK

(* Its bytes go to the destination, and the rest is carried. *)
LEMMA EmitStep == ASSUME FastInv, NEW ok \in BOOLEAN, EmitFragment(ok)
                  PROVE  FastInv'
<1> USE DEF FastInv
<1>1. /\ pc = "write" /\ decAt = off /\ decBytes = fragLen
      /\ (codeFresh \/ isLast) /\ (isLast => off % 8 = 0)
      /\ op \in {"write", "flush", "close"} /\ (isLast <=> op = "close") /\ ~err
      /\ fragLen = (IF inPlace THEN blockSizeLimit ELSE buf)
      /\ (inPlace => op = "write" /\ todo > blockSizeLimit)
  BY DEF EmitFragment, PlaceInv, FragmentInv
<1>2. /\ off \in Int /\ off % 8 \in 0 .. 7 /\ off - 8 * (off \div 8) = off % 8
      /\ blockSizeLimit \in Nat
  BY FastStreamAssumption DEF FragmentTypeOK, StreamTypeOK
<1>3. FragmentTypeOK' /\ PlaceInv' /\ FragmentInv' /\ decOk'
  <2>1. EndFragment /\ decOk' = decOk
    BY DEF EmitFragment
  <2>2. FragmentTypeOK'
    <3>1. /\ isLast' \in BOOLEAN /\ inPlace' \in BOOLEAN /\ code' \in BOOLEAN
          /\ decOk' \in BOOLEAN
      BY <2>1, Zenon DEF EndFragment, FragmentTypeOK
    <3> QED
      BY <2>1, <3>1 DEF EndFragment, FragmentTypeOK, Places
  <2>3. PlaceInv' /\ FragmentInv'
    BY <2>1 DEF EndFragment, PlaceInv, FragmentInv
  <2> QED
    BY <2>1, <2>2, <2>3
<1>4. CASE ok
  <2>1. /\ carryBits' = off % 8 /\ lag' = off % 8
        /\ behind' = behind - fragLen
        /\ buf' = (IF inPlace THEN buf ELSE 0)
        /\ todo' = (IF inPlace THEN todo - fragLen ELSE todo)
        /\ ended' = isLast
        /\ op' = (IF op = "write" THEN "write"
                  ELSE IF op = "flush" THEN "pad" ELSE "none")
        /\ last' = (IF op = "close" THEN "close" ELSE last)
        /\ err' = FALSE /\ pc' = "none"
    BY <1>1, <1>2, <1>4 DEF EmitFragment, EndFragment
  <2>2. UNCHANGED <<config, codeFresh, header, closed>>
    BY DEF EmitFragment
  <2>3. StreamTypeOK'
    <3>1. /\ buf' \in Nat /\ carryBits' \in 0 .. 7 /\ lag' \in Int
          /\ behind' \in Int /\ todo' \in Nat
      BY <1>1, <1>2, <2>1 DEF StreamTypeOK, FragmentTypeOK
    <3>2. /\ op' \in {"none", "write", "flush", "pad", "close"}
          /\ last' \in {"none", "write", "flush", "close"}
      BY <2>1 DEF StreamTypeOK
    <3>3. ended' \in BOOLEAN /\ err' \in BOOLEAN
      BY <2>1, Zenon DEF FragmentTypeOK
    <3> QED
      BY <2>2, <3>1, <3>2, <3>3 DEF StreamTypeOK, config, header
  <2>4. CallInv'
    BY <1>1, <1>2, <2>1, <2>2 DEF CallInv, StreamTypeOK, config, header
  <2> QED
    BY <1>3, <2>3, <2>4
<1>5. CASE ~ok
  <2>1. /\ err' = TRUE /\ todo' = 0 /\ op' = "none" /\ pc' = "none"
        /\ UNCHANGED <<carryBits, lag, behind, buf, ended, last>>
        /\ UNCHANGED <<config, codeFresh, header, closed>>
    BY <1>5 DEF EmitFragment, EndFragment
  <2>2. StreamTypeOK' /\ CallInv'
    BY <2>1 DEF StreamTypeOK, CallInv, config, header
  <2> QED
    BY <1>3, <2>2
<1> QED
  BY <1>4, <1>5

(* The beginning of a fragment: the calls and the stream have to be in     *)
(* order after the step, and its length the one the call asks for.         *)
LEMMA BeginStep ==
    ASSUME FastInv, pc = "none", codeFresh, NEW n \in Nat, NEW l \in BOOLEAN,
           NEW direct \in BOOLEAN,
           BeginFragment(n, l, direct), codeFresh' = codeFresh,
           carryBits' = carryBits, lag' = lag,
           ~err', op' \in {"write", "flush", "close"}, l <=> op' = "close",
           n = IF direct THEN blockSizeLimit' ELSE buf',
           direct => op' = "write" /\ todo' > blockSizeLimit'
    PROVE  /\ FragmentTypeOK' /\ decOk' /\ PlaceInv' /\ FragmentInv'
           /\ pc' = "compress" /\ began' = TRUE /\ wroteHeader' = TRUE
<1> USE DEF FastInv
<1>1. /\ carryBits \in Int /\ lag = carryBits /\ began = wroteHeader
      /\ pos = 0 /\ nextEmit = 0 /\ decBytes = 0 /\ decOk
  BY DEF StreamTypeOK, CallInv, PlaceInv
<1>2. /\ pc' = "compress" /\ fragLen' = n /\ inPlace' = direct
      /\ UNCHANGED <<pos, nextEmit, metablock, decBytes, decOk>>
      /\ began' = TRUE /\ wroteHeader' = TRUE /\ off' = start' /\ decAt' = from'
  BY DEF BeginFragment
<1>3. isLast' = l
  BY DEF BeginFragment
<1>4. start' \in Int /\ from' = start'
  <2>1. CASE wroteHeader
    BY <1>1, <2>1 DEF BeginFragment, HeaderBits
  <2>2. CASE ~wroteHeader
    BY <1>1, <2>2 DEF BeginFragment, HeaderBits
  <2> QED
    BY <2>1, <2>2
<1>5. FragmentTypeOK'
  <2>1. isLast' \in BOOLEAN /\ inPlace' \in BOOLEAN /\ decOk' \in BOOLEAN
    BY <1>2, <1>3, Zenon DEF FragmentTypeOK
  <2> QED
    BY <1>2, <1>4, <2>1 DEF FragmentTypeOK, Places, metablock
<1>6. PlaceInv'
  BY <1>1, <1>2, <1>4 DEF PlaceInv
<1>7. FragmentInv'
  BY <1>2, <1>3, <1>4 DEF FragmentInv
<1> QED
  BY <1>1, <1>2, <1>5, <1>6, <1>7

(* A step that leaves the fragment alone between two fragments. *)
LEMMA QuietStep ==
    ASSUME FastInv, pc = "none", UNCHANGED Quiet
    PROVE  FragmentTypeOK' /\ decOk' /\ PlaceInv' /\ FragmentInv'
BY DEF FastInv, Quiet, fragment, metablock, decoder, FragmentTypeOK, PlaceInv,
   FragmentInv

-----------------------------------------------------------------------------
(* The loop of Write and the seal of Flush. *)
LEMMA WriteStep ==
    FastInv /\ (WriteInPlace \/ WriteFill \/ WriteReturn) => FastInv'
<1> SUFFICES ASSUME FastInv, WriteInPlace \/ WriteFill \/ WriteReturn
             PROVE  FastInv'
  OBVIOUS
<1> USE DEF FastInv
<1>1. blockSizeLimit \in Nat /\ blockSizeLimit > 0 /\ buf \in Nat /\ todo \in Nat
      /\ buf <= blockSizeLimit
  BY FastStreamAssumption DEF StreamTypeOK, CallInv
<1>2. op = "write" /\ pc = "none" /\ ~err /\ ~closed /\ codeFresh
  BY DEF WriteInPlace, WriteFill, WriteReturn, CallInv
<1>3. CASE WriteInPlace
  <2>1. BeginFragment(blockSizeLimit, FALSE, TRUE) /\ todo > blockSizeLimit
        /\ UNCHANGED <<config, codeFresh, buf, carryBits, lag, behind, ended, todo,
                       op, err, closed, last>>
    BY <1>3 DEF WriteInPlace, writer
  <2>2. /\ FragmentTypeOK' /\ decOk' /\ PlaceInv' /\ FragmentInv'
        /\ pc' = "compress" /\ began' = TRUE /\ wroteHeader' = TRUE
    BY <1>1, <1>2, <2>1, BeginStep DEF config
  <2>3. StreamTypeOK' /\ CallInv'
    BY <1>2, <2>1, <2>2 DEF StreamTypeOK, CallInv, config
  <2> QED
    BY <2>2, <2>3
<1>4. CASE WriteFill
  <2> DEFINE take == Min({blockSizeLimit - buf, todo})
  <2>1. take = IF blockSizeLimit - buf <= todo THEN blockSizeLimit - buf ELSE todo
    BY <1>1, MinTwo
  <2>2. /\ buf' = buf + take /\ todo' = todo - take /\ todo > 0
        /\ UNCHANGED <<config, codeFresh, carryBits, lag, behind, ended, op, err,
                       closed, last>>
    BY <1>4 DEF WriteFill, writer
  <2> HIDE DEF take
  <2>3. /\ buf' \in Nat /\ todo' \in Nat /\ buf' <= blockSizeLimit
        /\ buf' + todo' = buf + todo
    BY <1>1, <2>1, <2>2
  <2>4. CASE buf' = blockSizeLimit /\ todo' > 0
    <3>1. BeginFragment(blockSizeLimit, FALSE, FALSE)
      BY <1>4, <2>4 DEF WriteFill
    <3>2. /\ FragmentTypeOK' /\ decOk' /\ PlaceInv' /\ FragmentInv'
          /\ pc' = "compress" /\ began' = TRUE /\ wroteHeader' = TRUE
      BY <1>1, <1>2, <2>2, <2>4, <3>1, BeginStep
    <3>3. StreamTypeOK' /\ CallInv'
      BY <1>2, <2>2, <2>3, <3>2 DEF StreamTypeOK, CallInv, config
    <3> QED
      BY <3>2, <3>3
  <2>5. CASE ~(buf' = blockSizeLimit /\ todo' > 0)
    <3>1. UNCHANGED Quiet
      BY <1>4, <2>5 DEF WriteFill
    <3>2. FragmentTypeOK' /\ decOk' /\ PlaceInv' /\ FragmentInv'
      BY <1>2, <3>1, QuietStep
    <3>3. StreamTypeOK' /\ CallInv'
      BY <1>2, <2>2, <2>3, <3>1 DEF StreamTypeOK, CallInv, config, Quiet, header
    <3> QED
      BY <3>2, <3>3
  <2> QED
    BY <2>4, <2>5
<1>5. CASE WriteReturn
  <2>1. FragmentTypeOK' /\ decOk' /\ PlaceInv' /\ FragmentInv'
    BY <1>2, <1>5, QuietStep DEF WriteReturn
  <2>2. StreamTypeOK' /\ CallInv'
    BY <1>2, <1>5 DEF WriteReturn, StreamTypeOK, CallInv, config, Quiet, header
  <2> QED
    BY <2>1, <2>2
<1> QED
  BY <1>3, <1>4, <1>5

(* The seal leaves no bits of the data undelivered. *)
LEMMA PadStep ==
    ASSUME FastInv, NEW ok \in BOOLEAN, PadToByteBoundary(ok)
    PROVE  FastInv'
<1> USE DEF FastInv
<1>1. /\ op = "pad" /\ pc = "none" /\ ~err /\ buf = 0 /\ todo = 0
      /\ lag = carryBits /\ carryBits \in 0 .. 7
  BY DEF PadToByteBoundary, CallInv, StreamTypeOK
<1>2. UNCHANGED <<config, codeFresh, Quiet, buf, behind, ended, todo, closed>>
  BY DEF PadToByteBoundary
<1>3. FragmentTypeOK' /\ decOk' /\ PlaceInv' /\ FragmentInv'
  BY <1>1, <1>2, QuietStep
<1>4. CASE ok
  <2>1. lag' = 0 /\ carryBits' = 0
    <3>1. CASE carryBits > 0
      BY <1>1, <1>4, <3>1 DEF PadToByteBoundary, AlignUp
    <3>2. CASE ~(carryBits > 0)
      BY <1>1, <1>4, <3>2 DEF PadToByteBoundary
    <3> QED
      BY <3>1, <3>2
  <2>2. op' = "none" /\ last' = "flush" /\ err' \in BOOLEAN /\ ~err'
    <3>1. err' = ~ok /\ op' = "none" /\ last' = "flush"
      BY <1>4 DEF PadToByteBoundary
    <3> QED
      BY <1>4, <3>1, Zenon
  <2>3. StreamTypeOK' /\ CallInv'
    <3>1. UNCHANGED <<wroteHeader, began, pc>>
      BY <1>2 DEF Quiet, header
    <3>2. StreamTypeOK'
      BY <1>2, <2>1, <2>2, <3>1 DEF StreamTypeOK, config
    <3>3. CallInv'
      BY <1>1, <1>2, <2>1, <2>2, <3>1 DEF CallInv, config
    <3> QED
      BY <3>2, <3>3
  <2> QED
    BY <1>3, <2>3
<1>5. CASE ~ok
  <2>1. op' = "none" /\ err' = TRUE /\ UNCHANGED <<last, carryBits, lag>>
    BY <1>5 DEF PadToByteBoundary
  <2>2. StreamTypeOK' /\ CallInv'
    BY <1>1, <1>2, <2>1 DEF StreamTypeOK, CallInv, config, Quiet, header
  <2> QED
    BY <1>3, <2>2
<1> QED
  BY <1>4, <1>5

(* The calls. *)
LEMMA CallerStep == FastInv /\ Caller => FastInv'
<1> SUFFICES ASSUME FastInv, Caller PROVE FastInv'
  OBVIOUS
<1> USE DEF FastInv
<1>1. ASSUME NEW n \in Int, Write(n)
      PROVE  FastInv'
  <2>1. pc = "none" /\ ~err /\ todo = 0 /\ behind = buf
    BY <1>1 DEF Write, Open, CallInv, StreamTypeOK
  <2>2. FragmentTypeOK' /\ decOk' /\ PlaceInv' /\ FragmentInv'
    BY <1>1, <2>1, QuietStep DEF Write
  <2>3. StreamTypeOK' /\ CallInv'
    BY <1>1, <2>1 DEF Write, Open, StreamTypeOK, CallInv, config, Quiet, header
  <2> QED
    BY <2>2, <2>3
<1>2. CASE Flush
  <2>1. /\ pc = "none" /\ ~err /\ ~closed /\ todo = 0 /\ codeFresh /\ buf \in Nat
        /\ UNCHANGED <<config, codeFresh, buf, carryBits, lag, behind, ended, todo,
                       err, closed>>
        /\ last' = "none"
    BY <1>2 DEF Flush, Open, CallInv, StreamTypeOK
  <2>2. CASE buf > 0
    <3>1. op' = "flush" /\ BeginFragment(buf, FALSE, FALSE)
      BY <1>2, <2>2 DEF Flush
    <3>2. /\ FragmentTypeOK' /\ decOk' /\ PlaceInv' /\ FragmentInv'
          /\ pc' = "compress" /\ began' = TRUE /\ wroteHeader' = TRUE
      BY <2>1, <3>1, BeginStep
    <3>3. StreamTypeOK' /\ CallInv'
      BY <2>1, <3>1, <3>2 DEF StreamTypeOK, CallInv, config
    <3> QED
      BY <3>2, <3>3
  <2>3. CASE ~(buf > 0)
    <3>1. op' = "pad" /\ UNCHANGED Quiet /\ buf = 0
      BY <1>2, <2>1, <2>3 DEF Flush
    <3>2. FragmentTypeOK' /\ decOk' /\ PlaceInv' /\ FragmentInv'
      BY <2>1, <3>1, QuietStep
    <3>3. StreamTypeOK' /\ CallInv'
      BY <2>1, <3>1 DEF StreamTypeOK, CallInv, config, Quiet, header
    <3> QED
      BY <3>2, <3>3
  <2> QED
    BY <2>2, <2>3
<1>3. CASE Close
  <2>1. /\ pc = "none" /\ ~err /\ todo = 0 /\ codeFresh /\ buf \in Nat
        /\ UNCHANGED <<config, codeFresh, buf, carryBits, lag, behind, ended, todo,
                       err>>
        /\ last' = "none" /\ op' = "close" /\ closed' = TRUE
        /\ BeginFragment(buf, TRUE, FALSE)
    BY <1>3 DEF Close, Open, CallInv, StreamTypeOK
  <2>2. /\ FragmentTypeOK' /\ decOk' /\ PlaceInv' /\ FragmentInv'
        /\ pc' = "compress" /\ began' = TRUE /\ wroteHeader' = TRUE
    BY <2>1, BeginStep
  <2>3. StreamTypeOK' /\ CallInv'
    BY <2>1, <2>2 DEF StreamTypeOK, CallInv, config
  <2> QED
    BY <2>2, <2>3
<1>4. CASE Reset
  <2>1. pc = "none" /\ todo = 0
    BY <1>4 DEF Reset, CallInv
  <2>2. FragmentTypeOK' /\ decOk' /\ PlaceInv' /\ FragmentInv'
    BY <1>4, <2>1 DEF Reset, fragment, metablock, decoder, FragmentTypeOK, PlaceInv,
       FragmentInv
  <2>3. StreamTypeOK' /\ CallInv'
    <3>1. /\ buf' = 0 /\ carryBits' = 0 /\ lag' = 0 /\ behind' = 0
          /\ last' = "none" /\ UNCHANGED <<config, pc, todo, op>> /\ op = "none"
      BY <1>4 DEF Reset
    <3>2. /\ wroteHeader' \in BOOLEAN /\ began' \in BOOLEAN
          /\ codeFresh' \in BOOLEAN /\ ended' \in BOOLEAN /\ err' \in BOOLEAN
          /\ closed' \in BOOLEAN
          /\ wroteHeader' = began' /\ codeFresh' /\ ~err' /\ ~closed'
      BY <1>4, Zenon DEF Reset
    <3>3. 0 <= blockSizeLimit
      BY FastStreamAssumption DEF StreamTypeOK
    <3>4. StreamTypeOK'
      BY <3>1, <3>2 DEF StreamTypeOK, config
    <3> QED
      BY <2>1, <3>1, <3>2, <3>3, <3>4 DEF CallInv, config
  <2> QED
    BY <2>2, <2>3
<1>5. \A t \in Offers : t - buf \in Int
  BY FastStreamAssumption DEF StreamTypeOK
<1> QED
  BY <1>1, <1>2, <1>3, <1>4, <1>5 DEF Caller

-----------------------------------------------------------------------------
(* The compressor of levels 0 and 1 starts in order and stays so, whatever *)
(* is merged, stored or rewound, and wherever the destination fails.       *)
THEOREM FastInvHolds == Spec => []FastInv
<1>1. Init => FastInv
  <2> SUFFICES ASSUME Init PROVE FastInv
    OBVIOUS
  <2>1. /\ wroteHeader \in BOOLEAN /\ began \in BOOLEAN /\ codeFresh \in BOOLEAN
        /\ ended \in BOOLEAN /\ err \in BOOLEAN /\ closed \in BOOLEAN
        /\ wroteHeader = began /\ codeFresh /\ ~err /\ ~closed
        /\ isLast \in BOOLEAN /\ inPlace \in BOOLEAN /\ code \in BOOLEAN
        /\ decOk \in BOOLEAN /\ decOk
    BY Zenon DEF Init, NoFragment
  <2>2. /\ quality \in Qualities /\ blockSizeLimit \in Fragments
        /\ buf = 0 /\ carryBits = 0 /\ lag = 0 /\ behind = 0 /\ todo = 0
        /\ op = "none" /\ last = "none" /\ pc = "none"
        /\ fragLen = 0 /\ start = 0 /\ off = 0 /\ pos = 0 /\ blockSize = 0
        /\ total = 0 /\ mlenPos = 0 /\ nextEmit = 0 /\ metaStart = 0
        /\ headAt = 0 /\ mlen = 0 /\ width = 0
        /\ from = 0 /\ decAt = 0 /\ decBytes = 0
    BY DEF Init, NoFragment
  <2>3. StreamTypeOK
    BY ONLY <2>1, <2>2 DEF StreamTypeOK
  <2>4. FragmentTypeOK
    BY ONLY <2>1, <2>2 DEF FragmentTypeOK, Places
  <2>5. 0 <= blockSizeLimit
    BY <2>2, FastStreamAssumption
  <2>6. PlaceInv /\ FragmentInv /\ CallInv
    BY ONLY <2>1, <2>2, <2>5 DEF PlaceInv, FragmentInv, CallInv
  <2> QED
    BY <2>1, <2>3, <2>4, <2>6 DEF FastInv
<1>2. FastInv /\ [Next]_vars => FastInv'
  <2> SUFFICES ASSUME FastInv, [Next]_vars PROVE FastInv'
    OBVIOUS
  <2>1. CASE Running
    BY <2>1, Level0Step, Level1Step, FallbackStep, LastBlockStep, EmitStep, PadStep,
       WriteStep DEF Running
  <2>2. CASE Caller
    BY <2>2, CallerStep
  <2>3. CASE UNCHANGED vars
    BY <2>3 DEF vars, inside, config, fragment, metablock, decoder, header, writer,
       stream, FastInv, StreamTypeOK, FragmentTypeOK, PlaceInv, FragmentInv, CallInv,
       MetablockOpen, IpEnd
  <2> QED
    BY <2>1, <2>2, <2>3 DEF Next
<1> QED
  BY <1>1, <1>2, PTL DEF Spec

(* FragmentsDecodable, for every size of fragment and block the assumption *)
(* allows and any number of bits: fast_compressor.go's output decodes to   *)
(* its input, fragment by fragment, and completely after Flush and Close.  *)
THEOREM Decodable == Spec => []FragmentsDecodable
<1>1. FastInv => FragmentsDecodable
  BY DEF FastInv, FragmentsDecodable, StreamTypeOK, PlaceInv, FragmentInv, CallInv
<1> QED
  BY <1>1, FastInvHolds, PTL

=============================================================================
