-------------------------- MODULE MCDecoderInput --------------------------
(***************************************************************************)
(* Streams for DecoderInput, written field by field the way RFC 7932 lays  *)
(* them out, each with what it stands for.                                 *)
(***************************************************************************)
EXTENDS DecoderInput

(* A number of n bits, least significant first. *)
F(n, v) == [k \in 1 .. n |-> (v \div 2^(k - 1)) % 2]

(* Bits to bytes, the last one filled up with zeros. *)
Pack(bits) ==
    LET bit(b, k) == IF 8 * (b - 1) + k \in DOMAIN bits THEN bits[8 * (b - 1) + k] * 2^(k - 1)
                     ELSE 0
    IN [b \in 1 .. (Len(bits) + 7) \div 8 |->
          bit(b, 1) + bit(b, 2) + bit(b, 3) + bit(b, 4) + bit(b, 5) + bit(b, 6)
          + bit(b, 7) + bit(b, 8)]
Padded(bits) == bits \o [k \in 1 .. (8 - (Len(bits) % 8)) % 8 |-> 0]
Bytes(v) == FlattenSeq([k \in DOMAIN v |-> F(8, v[k])])

Stream(fields, w, plain, err, tail) ==
    LET bytes == Pack(FlattenSeq(fields))
    IN [bytes |-> bytes \o tail, used |-> Len(bytes), windowBits |-> w, out |-> plain,
        err |-> err]
Good(fields, w, plain) == Stream(fields, w, plain, "none", <<>>)
Bad(fields, plain, err) == Stream(fields, 0, plain, err, <<>>)

W16  == F(1, 0)                         \* window of 16 bits
Last0 == F(2, 3)                        \* last metablock, empty
Size(n) == F(2, 0) \o F(16, n - 1)      \* four nibbles
LastOf(n) == F(2, 1) \o Size(n)         \* last metablock of n bytes
More(n) == F(1, 0) \o Size(n) \o F(1, 0)
Raw(n)  == F(1, 0) \o Size(n) \o F(1, 1)
One(n, a) == F(2, 1) \o F(2, 0) \o F(n, a)              \* simple codes
Two(n, a, b) == F(2, 1) \o F(2, 1) \o F(n, a) \o F(n, b)
Four(n, v, shape) ==
    F(2, 1) \o F(2, 3) \o F(n, v[1]) \o F(n, v[2]) \o F(n, v[3]) \o F(n, v[4]) \o F(1, shape)

-----------------------------------------------------------------------------
(* Window bits, empty streams, trailing bytes, padding *)
Tiny == {
    Good(<<W16, Last0>>, 16, <<>>),
    Good(<<F(1, 1), F(3, 5), Last0>>, 22, <<>>),
    Good(<<F(1, 1), F(3, 0), F(3, 0), Last0>>, 17, <<>>),
    Good(<<F(1, 1), F(3, 0), F(3, 4), Last0>>, 12, <<>>),
    Bad(<<F(1, 1), F(3, 0), F(3, 1), Last0>>, <<>>, "window bits"),
    Bad(<<W16, Last0, F(1, 1)>>, <<>>, "padding"),
    Stream(<<W16, Last0>>, 16, <<>>, "none", <<7, 255>>)}

(* Metadata and stored metablocks *)
Meta(bytes) == F(1, 0) \o F(2, 3) \o F(1, 0) \o F(2, 1) \o F(8, Len(bytes) - 1)
NoMeta == F(1, 0) \o F(2, 3) \o F(1, 0) \o F(2, 0)
Plain == {
    Good(<<Padded(W16 \o Meta(<<9, 9, 9>>)), Bytes(<<201, 202, 203>>),
           Padded(NoMeta), Padded(Raw(5)), Bytes(<<11, 12, 13, 14, 255>>),
           Padded(Raw(1)), Bytes(<<77>>), Last0>>,
         16, <<11, 12, 13, 14, 255, 77>>),
    Bad(<<W16, F(1, 0), F(2, 3), F(1, 1)>>, <<>>, "reserved bit"),
    Bad(<<W16, F(1, 0), F(2, 3), F(1, 0), F(2, 2), F(8, 3), F(8, 0)>>, <<>>,
        "exuberant metadata nibble"),
    Bad(<<W16, F(1, 0), F(2, 1), F(20, 5), F(1, 1)>>, <<>>, "exuberant nibble"),
    Bad(<<W16, Raw(5), F(1, 1)>>, <<>>, "padding")}

-----------------------------------------------------------------------------
(* Compressed metablocks *)

(* One block type of each kind, no direct distances, LSB6, one literal     *)
(* tree and one distance tree.                                             *)
Simple == F(3, 0) \o F(6, 0) \o F(2, 0) \o F(1, 0) \o F(1, 0)

(* Literals only: four of them, by a code of the second shape of four.     *)
Literals == Good(<<W16, LastOf(4), Simple,
                   Four(8, <<97, 98, 99, 100>>, 1), One(10, 160), One(6, 0),
                   <<0>>, <<1, 0>>, <<1, 1, 1>>, <<1, 1, 0>>>>,
                 16, <<97, 98, 100, 99>>)

(* A code length code of one symbol, which takes no bits: the 16 literals  *)
(* below 16 get 4 bits each.                                               *)
ZeroBits == Good(<<W16, LastOf(3), Simple,
                   F(2, 3), <<1, 0>>, F(28, 0), One(10, 152), One(6, 0),
                   <<0, 0, 0, 1>>, <<1, 1, 1, 1>>, <<0, 1, 0, 0>>>>,
                 16, <<1, 15, 4>>)

(* Three block types of commands, two of literals with contexts, two of    *)
(* distances; maps with runs, move-to-front and without; complex codes     *)
(* with repeats; distances with extra bits, short and implicit.            *)
MixedHeader == <<
    F(1, 1), F(3, 0), Two(2, 0, 1), Two(5, 0, 1), <<0>>, F(2, 1),   \* literals: 2 types
    F(1, 1), F(3, 1), F(1, 0), Two(3, 1, 2), One(5, 0), F(2, 1),    \* commands: 3 types
    F(1, 1), F(3, 0), One(2, 1), One(5, 0), F(2, 0),                \* distances: 2 types
    F(2, 1), F(4, 1),                                               \* postfix 1, direct 2
    F(2, 0), F(2, 1),                                               \* LSB6, MSB6
    \* Literal map: 3 trees, runs up to 2^6, a complex code of 5 symbols.
    F(1, 1), F(3, 1), F(1, 0), F(1, 1), F(4, 4),
    F(2, 0), <<0, 0>>, <<1, 1, 1, 0>>, <<1, 1, 0>>, <<0, 0>>, <<0, 0>>, <<0, 0>>, <<1, 1, 0>>,
    <<0>>, <<1, 1>>, F(3, 0), <<0>>, <<0>>, <<1, 0>>, <<1, 0>>,
    <<1, 0>>, F(5, 31), <<0, 0>>,                                   \* type 0: tree 0
    <<0, 1>>, F(4, 8), <<1, 1, 0>>, <<1, 1, 1>>, <<1, 0>>, F(5, 6), \* type 1: 0 ... 0, 1, 2, 0 ... 0
    F(1, 0),
    \* Distance map: 2 trees, no runs.
    F(1, 1), F(3, 0), F(1, 0), Two(1, 0, 1),
    <<0, 0, 0, 1>>, <<0, 0, 0, 1>>, F(1, 1),           \* 0 0 0 1, 1 1 1 0 by move-to-front
    \* Literal trees: {a, b}, {c, d}, and a to d by lengths and repeats.
    Two(8, 97, 98), Two(8, 99, 100),
    F(2, 0), <<0, 0>>, <<1, 1, 0>>, <<0, 0>>, <<0, 0>>, <<1, 1, 0>>, <<0, 0>>, <<1, 1, 0>>,
    <<0, 0>>, <<1, 1, 0>>,
    <<1, 1>>, F(3, 7), <<1, 1>>, F(3, 7), <<0, 0>>, <<1, 1>>, F(3, 1), <<1, 1>>, F(3, 3),
    <<0, 1>>, <<1, 0>>, F(2, 0),
    \* Command trees, distance trees.
    Two(10, 154, 240), Two(10, 8, 9), One(10, 0),
    Two(7, 4, 18), One(7, 0)>>

MixedBody == <<
    <<0>>, <<0>>, <<1>>,                      \* insert 3, copy 4: a b
    <<1>>, <<1>>, F(2, 2), <<0>>,             \* literals of type 1, 7 of them: c
    <<1>>, F(1, 0),                           \* distance 3
    <<1>>, F(1, 0), F(1, 1),                  \* insert 6, copy 11
    <<1>>, <<0, 0>>, <<0>>, <<1>>, <<1, 1>>, <<0, 1>>,   \* d a c d d b
    F(2, 3), <<0>>,                           \* distances of type 1; one less: 2
    <<0>>, F(2, 0), <<0>>,                    \* commands of type 1: insert 1, copy 2
    <<0>>, <<0>>, F(2, 3), <<0>>,             \* literals of type 0, 4 of them: a
    <<1>>, F(2, 3), <<0>>,                    \* commands of type 0: insert 3
    <<0>>, <<1>>, <<0>>>>                     \* a b a, and the metablock ends

MixedOut == <<97, 98, 99, 97, 98, 99, 97, 100, 97, 99, 100, 100, 98, 100, 98, 100, 98,
              100, 98, 100, 98, 100, 98, 100, 97, 100, 97, 97, 98, 97>>

RawTail == [k \in 1 .. 36 |-> (37 * k) % 256]
Mixed == Good(<<Padded(FlattenSeq(<<W16, More(30)>> \o MixedHeader \o MixedBody \o <<Raw(36)>>)),
                Bytes(RawTail), Last0>>, 16, MixedOut \o RawTail)

(* Distances of three extra bits and a block switch before each of them,   *)
(* so that every part of both is cut somewhere; then the same with bytes   *)
(* after the end, which keeps the wide loads going.                        *)
FarFields == <<
    W16, LastOf(31), F(2, 0),
    F(1, 1), F(3, 0), Two(2, 0, 1), Two(5, 0, 1), <<0>>, F(2, 0),   \* distances: 2 types
    F(6, 0), F(2, 0), F(1, 0), F(1, 0),
    Two(8, 97, 98), Two(10, 128, 256), Two(6, 12, 20),
    <<1>>, F(2, 3), <<0, 1, 1, 0, 1, 0, 0, 0, 1, 1, 1, 0, 1>>,      \* insert 13, copy 2
    <<1>>, F(3, 0)>>                                                \* distance 13
FarCopy(type, dist) == <<0>> \o <<type>> \o <<0>> \o F(2, 0) \o dist
FarCopies == << FarCopy(1, <<1>> \o F(3, 2)), FarCopy(0, <<1>> \o F(3, 4)),
                FarCopy(1, <<1>> \o F(3, 1)), FarCopy(0, <<1>> \o F(3, 7)),
                FarCopy(1, <<1>> \o F(3, 3)), FarCopy(0, <<1>> \o F(3, 5)),
                FarCopy(1, <<1>> \o F(3, 6)), FarCopy(0, <<0>>)>>
FarOut == <<97, 98, 98, 97, 98, 97, 97, 97, 98, 98, 98, 97, 98, 97, 98, 97,
            98, 97, 98, 97, 97, 98, 98, 97, 98, 97, 98, 98, 98, 97, 98>>
Far == Good(FarFields \o FarCopies, 16, FarOut)
FarAhead == Stream(FarFields \o FarCopies, 16, FarOut, "none", RawTail)

-----------------------------------------------------------------------------
(* Streams a decoder has to refuse *)
A == 97
Refused == {
    Bad(<<W16, LastOf(4), Simple, Two(8, A, A)>>, <<>>, "duplicate symbols"),
    Bad(<<W16, LastOf(4), Simple, One(8, A), One(10, 800)>>, <<>>, "alphabet overflow"),
    Bad(<<W16, LastOf(4), Simple, F(2, 0), F(18, 0), F(18, 0)>>, <<>>, "code length code space"),
    Bad(<<W16, LastOf(4), Simple, F(2, 3), F(6, 0), <<0, 1>>, F(22, 0),
          F(3, 7), F(3, 7), F(3, 7)>>, <<>>, "huffman space"),
    Bad(<<W16, LastOf(4), F(3, 0), F(6, 0), F(2, 0), F(1, 1), F(3, 0), F(1, 1), F(4, 5),
          One(3, 6), F(6, 63)>>, <<>>, "context map repeat"),
    Bad(<<W16, LastOf(2), Simple, Two(8, A, A + 1), One(10, 160), One(6, 0),
          <<0>>, <<1>>, <<1>>, <<1>>>>, <<>>, "negative length"),
    Bad(<<W16, LastOf(6), Simple, Two(8, A, A + 1), One(10, 136), One(6, 0), <<0>>>>,
        <<A>>, "word length"),
    Bad(<<W16, LastOf(9), Simple, Two(8, A, A + 1), One(10, 136), One(6, 8), <<0>>, <<1>>>>,
        <<A, A, A, A + 1>>, "distance")}

MCStreams == Tiny \cup Plain \cup Refused \cup {Literals, ZeroBits, Mixed, Far, FarAhead}
=============================================================================
