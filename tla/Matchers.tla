------------------------------ MODULE Matchers ------------------------------
(***************************************************************************)
(* The hash-table matchers of levels 2 to 9 on a stream: the choice of a   *)
(* matcher, its replacement by one with wider slots or with tags, the      *)
(* calls of createBackwardReferences block by block, and a decoder that    *)
(* replays the commands.                                                   *)
(***************************************************************************)
EXTENDS HashChains

CONSTANTS
    BlockSizes,  \* bytes of a call, 0 for a flush
    StalePos,    \* a position of the stream a pooled table was used for
    Cases,       \* bound: the streams and dictionaries of the instance
    Kinds        \* bound: the matchers of the instance

(* A ring for a window of more than 64 KiB holds what 16 bits can tell     *)
(* apart.                                                                  *)
ASSUME BlockAssumption ==
    /\ BlockSizes \subseteq 0 .. RingTail
    /\ "h5b6u16" \in Kinds => U16Size <= RingSize

ASSUME CasesAssumption ==
    /\ StalePos \in Nat
    /\ \A c \in Cases : Inputs[c.data] \in Seq(Int) /\ Dictionaries[c.dict] \in Seq(Seq(Int))

vars == loopVars

(* A matcher as chooseHasher gets it, new (init = 0) or with the table of  *)
(* an earlier stream, of the pool or of this encoder before its reset.     *)
NewMatcher(kind, quality, init) ==
    CASE kind \in QuickKinds  -> QuickTable(kind, init)
      [] kind \in BucketKinds -> BucketTable(kind, init % BlockSize, init)
      [] kind = "h42" -> ChainTable(kind, init - 1, Hops[9], NumBanks, BankSize)
      [] OTHER -> ChainTable(kind, init - 1, Hops[quality], 1, U16Size)

-----------------------------------------------------------------------------
(* chooseHasher.  hint is the size the caller announced, "none", "small"   *)
(* (at most 64 KiB) or "large" (1 MiB or more).                            *)
Choice(quality, hint, lgwin, last) ==
    LET u16  == hint = "small" \/ (last /\ l.posEnd <= U16Size)
        long == hint = "large" /\ lgwin >= 19
        Of(chain, wide, plain) ==
          IF lgwin <= 16 THEN chain ELSE IF long THEN wide ELSE plain
    IN CASE quality = 2 -> IF u16 THEN "h2u16" ELSE "h2"
         [] quality = 3 -> IF u16 THEN "h3u16" ELSE "h3"
         [] quality = 4 -> IF hint = "large" THEN "h54"
                           ELSE IF u16 THEN "h4u16" ELSE "h4"
         [] quality = 5 -> Of("h40", "h6u", "h5")
         [] quality = 6 -> Of("h40", "h6b5u", "h5b5")
         [] quality = 7 -> Of("h41", "h6b", IF u16 THEN "h5b6u16" ELSE "h5b")
         [] quality = 8 -> Of("h41", "h6b", "h5b")
         [] quality = 9 -> Of("h42", "h6b8", "h5b8")

(* maybePromoteHasher: 16-bit slots are widened as soon as the input does  *)
(* not fit them, and the plain matcher of a long stream gets tags when its *)
(* calls were busy.  The wide matcher comes from a pool: its everWrapped   *)
(* is set, but for h2, which keeps the one it has there (pooled).          *)
Wider == [h2u16 |-> "h2", h3u16 |-> "h3", h4u16 |-> "h4", h5b6u16 |-> "h5b"]

Promoted(hh, inputPos, pooled) ==
    CASE hh.kind = "h6u" /\ hh.ready /\ hh.busyCalls >= 1 -> CopyTo(hh, "h6")
      [] hh.kind = "h6b5u" /\ hh.ready /\ hh.busyCalls >= 3 -> CopyTo(hh, "h6b5")
      [] hh.kind \in DOMAIN Wider /\ inputPos > U16Size ->
           [hh EXCEPT !.kind = Wider[hh.kind],
                      !.everWrapped = hh.kind = "h2u16" /\ pooled]
      [] OTHER -> hh

-----------------------------------------------------------------------------
(* A decoder: the distance of a code, and the bytes a command yields. *)
DistanceOf(code, ring) ==
    CASE code \in 0 .. 3  -> ring[code + 1]
      [] code \in 4 .. 9  -> ring[1] + <<-1, 1, -2, 2, -3, 3>>[code - 3]
      [] code \in 10 .. 15 -> ring[2] + <<-1, 1, -2, 2, -3, 3>>[code - 9]
      [] OTHER -> code - 15

CompoundByte(address) ==
    LET Sizes[k \in 0 .. Len(Chunks)] ==
          IF k = 0 THEN 0 ELSE Sizes[k - 1] + Len(Chunks[k])
        k == Min({j \in 1 .. Len(Chunks) : address < Sizes[j]})
    IN Chunks[k][1 + address - Sizes[k - 1]]

DecodesCopy(c, pos, distance) ==
    LET max == MaxDistance(pos)
        address == max + Gap - distance
        len  == c.copy + c.delta
        count == Len(Words[len])
        cuts == {cut \in 0 .. 9 : Cutoffs[cut + 1] = (-address - 1) \div count}
    IN CASE distance <= max ->
              c.delta = 0 /\ \A k \in 0 .. c.copy - 1 :
                               Data[1 + pos + k] = Data[1 + pos + k - distance]
         [] distance > max /\ address >= 0 ->
              /\ c.delta = 0 /\ address + c.copy <= Gap
              /\ \A k \in 0 .. c.copy - 1 :
                   Data[1 + pos + k] = CompoundByte(address + k)
         [] OTHER ->
              len \in DOMAIN Words /\ \E cut \in cuts :
                /\ len - cut = c.copy
                /\ \A k \in 0 .. c.copy - 1 :
                     Data[1 + pos + k] =
                       Words[len][1 + ((-address - 1) % count)][k + 1]

Decode(c, st) ==
    LET pos      == st.pos + c.ins
        distance == DistanceOf(c.code, st.ring)
    IN IF c.copy = 0 THEN [st EXCEPT !.pos = pos]
       ELSE
       [pos  |-> pos + c.copy,
        ring |-> IF c.code = 0 \/ distance > MaxDistance(pos) + Gap THEN st.ring
                 ELSE <<distance, st.ring[1], st.ring[2], st.ring[3]>>,
        ok   |-> /\ st.ok /\ distance > 0 /\ pos + c.copy <= Len(Data)
                 /\ DecodesCopy(c, pos, distance)]

Replay ==
    LET F[k \in 0 .. Len(s.commands)] ==
          IF k = 0 THEN s.decoder
          ELSE Decode(s.commands[k], F[k - 1])
    IN F[Len(s.commands)]

-----------------------------------------------------------------------------
(* encodeData with n bytes of input, or with none, to flush or to close a  *)
(* metablock of merged blocks.                                             *)
NextBlock(n) ==
    LET end == Min({s.processed + n, Len(Data)})
    IN /\ pc = "idle"
       /\ s.processed < end \/ (n = 0 /\ s.flushed < s.processed)
       /\ pc' = "choose"
       /\ \E last \in {FALSE, end = Len(Data)} :
            l' = [l EXCEPT !.position = s.processed, !.posEnd = end, !.last = last]
       /\ UNCHANGED <<input, s, h>>

(* The first call chooses the matcher. *)
ChooseHasher ==
    /\ pc = "choose" /\ h.kind = "none"
    /\ \E quality \in 2 .. 9, hint \in {"none", "small", "large"},
          lgwin \in {16, 18, 22}, init \in {0, StalePos} :
         LET kind == Choice(quality, hint, lgwin, l.last)
         IN kind \in Kinds /\ h' = NewMatcher(kind, quality, init)
    /\ UNCHANGED <<input, s, pc, l>>

(* extendLastCommand: where the metablock ends with a copy so far, the     *)
(* copy goes on into the new block, from the window or from the chunks of  *)
(* the compound dictionary.  The code of a word is not that of the last    *)
(* distance.                                                               *)

(* The bytes of the block that continue a copy at this distance. *)
Continues(c, distance) ==
    LET max     == MaxDistance(s.processed - c.copy)
        address == max + Gap - distance + c.copy
        Goes(k) ==
          \/ /\ distance <= max
             /\ ByteAt(Masked(s.processed + k))
                  = ByteAt(Masked(s.processed + k - distance))
          \/ /\ distance \in max + 1 .. max + Gap /\ address + k < Gap
             /\ ByteAt(Masked(s.processed + k)) = CompoundByte(address + k)
        n == l.posEnd - s.processed
    IN Min({k \in 0 .. n - 1 : ~Goes(k)} \cup {n})

(* Mutant: a word of the static dictionary is continued as well. *)
ExtensionOfWords(c) == Continues(c, s.distCache[1])

Extension(c) ==
    IF c.code < 16 \/ c.code - 15 = s.distCache[1]
    THEN Continues(c, s.distCache[1]) ELSE 0

ExtendLastCommand ==
    LET last == Len(s.commands)
        n    == IF last > 0 /\ s.lastInsertLen = 0 THEN Extension(s.commands[last])
                ELSE 0
    IN /\ pc = "choose" /\ h.kind # "none"
       /\ pc' = "promote"
       /\ s' = IF n = 0 THEN s ELSE [s EXCEPT !.commands[last].copy = @ + n]
       /\ l' = [l EXCEPT !.position = @ + n]
       /\ UNCHANGED <<input, h>>

(* The head of stitchHasher. *)
MaybePromoteHasher ==
    /\ pc = "promote"
    /\ pc' = "begin"
    /\ \E pooled \in BOOLEAN : h' = Promoted(h, l.posEnd, pooled)
    /\ UNCHANGED <<input, s, l>>

(* After the call, a metablock that may grow by another block is continued *)
(* (the counts that also decide are left open); a full one, and the last,  *)
(* is written, with the literals left over as a command of their own.      *)
Merge ==
    /\ pc = "merge" /\ ~l.last /\ s.processed < l.posEnd
    /\ l.posEnd - s.flushed + RingTail <= RingSize
    /\ pc' = "idle"
    /\ s' = [s EXCEPT !.processed = l.posEnd]
    /\ UNCHANGED <<input, h, l>>

(* Mutant: the literals left over are not counted. *)
TrailingHistoMissing(n) == s.histo

(* The histogram h2 and h3 keep, with the literals left over. *)
TrailingHisto(n) ==
    IF h.kind \notin {"h2", "h2u16", "h3", "h3u16"} THEN s.histo
    ELSE [b \in DOMAIN s.histo |->
            s.histo[b] + Cardinality({k \in l.posEnd - n .. l.posEnd - 1 :
                                        ByteAt(Masked(k)) = b})]

CloseMetablock ==
    LET n == s.lastInsertLen
    IN /\ pc = "merge"
       /\ pc' = "write"
       /\ s' = IF n = 0 THEN s
               ELSE [s EXCEPT
                 !.commands = Append(@, [ins |-> n, copy |-> 0, delta |-> 0, code |-> 0]),
                 !.numLiterals = @ + n, !.histo = TrailingHisto(n),
                 !.lastInsertLen = 0]
       /\ UNCHANGED <<input, h, l>>

(* The decoder reads what is written. *)
WriteMetablock ==
    /\ pc = "write"
    /\ pc' = "idle"
    /\ s' = [s EXCEPT !.decoder = Replay, !.commands = <<>>, !.numLiterals = 0,
                      !.histo = [b \in DOMAIN @ |-> 0],
                      !.processed = l.posEnd, !.flushed = l.posEnd]
    /\ UNCHANGED <<input, h, l>>

Init ==
    /\ input \in Cases
    /\ h = [kind |-> "none"]
    /\ s = [distCache |-> <<4, 11, 15, 16>>, commands |-> <<>>, numLiterals |-> 0,
            histo |-> [b \in 0 .. 3 |-> 0], d |-> [lookups |-> 0, matches |-> 0],
            lastInsertLen |-> 0, processed |-> 0, flushed |-> 0,
            decoder |-> [pos |-> 0, ring |-> <<4, 11, 15, 16>>, ok |-> TRUE]]
    /\ pc = "idle"
    /\ l = [position |-> 0, posEnd |-> 0, insertLength |-> 0, apply |-> 0,
            storeEnd |-> 0, noWrap |-> FALSE, last |-> FALSE,
            sr |-> NoMatch, found |-> NoMatch, ahead |-> 0, words |-> 0,
            compound |-> FALSE, delayed |-> 0, cache |-> <<>>]

Done == pc = "idle" /\ s.flushed = Len(Data) /\ UNCHANGED vars

Next ==
    \/ \E n \in BlockSizes : NextBlock(n)
    \/ ChooseHasher \/ ExtendLastCommand \/ MaybePromoteHasher
    \/ Consult
    \/ QuickNext \/ BucketNext \/ ChainNext
    \/ Merge \/ CloseMetablock \/ WriteMetablock
    \/ Done

Spec == Init /\ [][Next]_vars

-----------------------------------------------------------------------------
(* The commands of every matcher reproduce the input: a decoder that       *)
(* replays them, with its own ring of distances, copies the bytes of the   *)
(* stream, whatever the stale table of the pool, the collisions of a key,  *)
(* the wrapping of the ring and of a 16-bit slot or count, the change of   *)
(* the matcher between two calls and the three sources of a match have     *)
(* led to; and its ring of distances is the encoder's.                     *)
CommandsReproduceInput ==
    pc = "idle" =>
      /\ Replay.ok /\ Replay.ring = s.distCache
      /\ Replay.pos + s.lastInsertLen = s.processed

(* The position a search is about to look at. *)
NextPosition == IF pc = "lazy" THEN l.position + 1 ELSE l.position

(* The positions a walk over the chain of a key meets in the window. *)
ChainOf(key) ==
    LET slots == h.banks[key % Cardinality(DOMAIN h.banks)]
        Walk[k \in 1 .. h.maxHops] ==
          IF k = 1 THEN [pos |-> h.addr[key], slot |-> h.head[key]]
          ELSE LET r == Walk[k - 1]
               IN IF r.pos < NextPosition - Window THEN r
                  ELSE [pos  |-> r.pos - slots[r.slot].delta,
                        slot |-> slots[r.slot].next]
        near == {k \in 1 .. h.maxHops : Walk[k].pos >= NextPosition - Window
                                          /\ Walk[k].pos >= 0}
    IN [k \in 1 .. Cardinality(near) |-> Walk[k].pos]

(* Those a bucket or a chain offers for the keys of the rest of the block: *)
(* the table of a short one-shot input keeps the buckets of other keys as  *)
(* an earlier stream left them.                                            *)
Candidates ==
    LET rest == {Masked(pos) : pos \in NextPosition .. l.posEnd - 1}
    IN CASE h.kind \in ChainKinds ->
              {ChainOf(key) : key \in {ChainKey(i) : i \in rest}}
         [] h.kind \in TaggedKinds ->
              {NewestTagged(h, key) : key \in {Key5(i) : i \in rest}}
         [] h.kind \in Bucket4Kinds ->
              {Newest(h, key) : key \in {Key4(i) : i \in rest}}
         [] OTHER -> {Newest(h, key) : key \in {Key5(i) : i \in rest}}

(* "backward == 0 is impossible here: cur is stored after this scan"       *)
(* (hash6.go): the candidates a bucket or a chain offers lie before every  *)
(* position still to be searched, each before the one tried earlier.  No   *)
(* position is stored twice, by the search one byte ahead, the range of a  *)
(* match, the strides over literals or the stitching of two blocks: a      *)
(* match at distance zero would reach the stream, and the scan, which      *)
(* stops at the first position outside the window, would miss nearer ones. *)
CandidatesDescend ==
    (h.kind \in BucketKinds \cup ChainKinds /\ pc \in {"search", "lazy"}) =>
      \A c \in Candidates :
        /\ \A k \in 2 .. Len(c) : c[k] < c[k - 1]
        /\ c # <<>> => c[1] < NextPosition

(* The tag of a candidate in the window is that of the bytes the ring has  *)
(* there, although copyTo computes the tags of a whole table afterwards,   *)
(* from a ring that has gone on: a match is never passed over for its tag. *)
TagsHonest ==
    (h.kind \in TaggedKinds /\ h.ready) =>
      \A key \in DOMAIN h.num : \A j \in LiveTagged(h, key) :
        LET slot == (h.num[key] + j) % BlockSize
            pos  == h.slots[key][slot]
        IN pos >= l.posEnd - Window =>
             h.tags[key][slot] = Tag5(Masked(pos)) /\ Key5(Masked(pos)) = key

(* The table of ten or sixteen distances a matcher keeps for itself is the *)
(* expansion of the distance cache of the stream at every search, whether  *)
(* it is updated on the way or built anew after each command.              *)
LocalCacheInSync ==
    pc \in {"search", "lazy"} => l.cache = Expand(s.distCache, Len(l.cache))

(* The literals are counted once each on the way to the commands: the      *)
(* histogram h2 and h3 keep for the entropy code, over the masked and the  *)
(* unmasked loop and the change from 16-bit slots, and their total, are    *)
(* those of the bytes the commands insert.                                 *)
Inserted ==
    LET F[k \in 0 .. Len(s.commands)] ==
          IF k = 0 THEN [pos |-> s.decoder.pos, at |-> {}]
          ELSE LET c == s.commands[k]
                   p == F[k - 1].pos
               IN [pos |-> p + c.ins + c.copy,
                   at  |-> F[k - 1].at \cup p .. p + c.ins - 1]
    IN F[Len(s.commands)].at

LiteralsCounted ==
    /\ s.numLiterals = Cardinality(Inserted)
    /\ h.kind \in {"h2", "h2u16", "h3", "h3u16"} =>
         \A b \in DOMAIN s.histo :
           s.histo[b] = Cardinality({i \in Inserted : Data[1 + i] = b})
=============================================================================
