--------------------------- MODULE HqZopfliProofs ---------------------------
(***************************************************************************)
(* The collector and the DP of levels 10 and 11, proved for every length   *)
(* of block, every set of long matches and every bound of the protocol:    *)
(* who searches the dictionary, which matches the DP reads, and what a     *)
(* call leaves behind.                                                     *)
(***************************************************************************)
EXTENDS HqZopfli, WellFoundedInduction, TLAPS

(* Positions the collector has written. *)
Written == IF col.pc = "publish" THEN col.i + 1 ELSE col.i

(* Where a parse that looks at p looks next. *)
Follow(p) == IF p \in long THEN p + MatchLen(p) ELSE p + 1

ColTypes ==
    [pc : ColPC, i : 0 .. NumBytes, owns : BOOLEAN, handoffs : Nat,
     nextPublish : Nat]
MainTypes ==
    [pc : MainPC, i : Nat, skip : Nat, owns : BOOLEAN, handoffs : Nat,
     nextDPPos : Nat, pass : Nat, feed : BOOLEAN, gen : Nat]

Types ==
    /\ parallel \in BOOLEAN /\ hq \in BOOLEAN /\ compound \in BOOLEAN
    /\ long \in SUBSET Positions
    /\ ready \in Nat /\ aborted \in BOOLEAN
    /\ dpPos \in Nat /\ request \in BOOLEAN /\ count \in 0 .. MaxHandoffs
    /\ at \in [0 .. MaxHandoffs - 1 -> Nat]
    /\ matches \in [Positions -> [gen : Nat, dict : BOOLEAN]]
    /\ bufGen \in Nat /\ skipDict \in BOOLEAN
    /\ stored \in [Hashed -> Nat]
    /\ col \in ColTypes
    /\ busy \in BOOLEAN
    /\ main \in MainTypes
    /\ out \in Nat

(* Where the collector is in its loop; a collector that has ended has      *)
(* covered every position with a hash.                                     *)
ColPlaces ==
    /\ col.pc \in {"handoff", "clear", "grow", "find"} => col.i < LoopEnd
    /\ col.pc = "handoff" => col.handoffs < MaxHandoffs
    /\ col.pc = "publish" => ~aborted /\ col.i < NumBytes
    /\ col.pc \in {"done", "idle"} /\ main.pc # "idle" => col.i >= LoopEnd

(* Who runs with whom: a collector of its own goroutine is busy until it   *)
(* is joined, and a DP without a feed is alone.                            *)
Alone ==
    /\ busy <=> (parallel /\ col.pc # "idle")
    /\ main.feed => parallel
    /\ main.pc = "inline" => ~parallel
    /\ ~main.feed /\ main.pc # "inline" => col.pc = "idle"
    /\ main.pc \in {"idle", "return"} => col.pc = "idle"

(* What was published has been written, and into the first buffer. *)
Published ==
    /\ ready <= Written \/ (col.pc \in {"done", "idle"} /\ Written >= LoopEnd)
    /\ ~aborted => bufGen = 0
    /\ \A p \in Positions : p < Written =>
          /\ matches[p].gen <= bufGen
          /\ p < ready => matches[p].gen = 0

(* The DP has waited for the position it looks at, and holds a buffer that *)
(* contains its matches.                                                   *)
Waited ==
    /\ main.pc \in {"count", "step", "skip", "skipRead"} =>
          main.i < LoopEnd /\ (main.feed => ready > main.i)
    /\ main.pc \in {"dpPos", "reqReady", "reqLoad", "reqStore", "wait"} =>
          main.i < LoopEnd
    /\ main.pc = "skipRead" => main.skip > 0
    /\ main.feed => main.gen = 0
    /\ main.feed /\ main.pc \in {"create", "passJoin", "finalJoin"} =>
          ready >= LoopEnd
    /\ ~main.feed /\ main.pc \notin {"idle", "inline"} =>
          \A p \in Positions : p < LoopEnd => matches[p].gen <= main.gen

(* The hasher is given every position up to storeEnd once, and searches    *)
(* the dictionary unless it was handed to the DP.                          *)
Hasher ==
    /\ main.pc # "return" =>
          \A p \in Hashed : stored[p] = IF p < Written THEN 1 ELSE 0
    /\ main.pc = "return" => \A p \in Hashed : stored[p] = 1
    /\ skipDict <=> main.pc \notin {"idle", "return"} /\ col.owns

(* Results of one DP, when there are any. *)
OneResult ==
    out = IF main.pc \in {"passJoin", "finalJoin", "return"} THEN 1 ELSE 0

(* n handoffs are at or before p. *)
HandoffsBy(n, p) ==
    /\ n \in 0 .. count
    /\ \A h \in 0 .. n - 1 : at[h] <= p
    /\ \A h \in n .. count - 1 : at[h] > p

(* The positions the collector searched: its parse from 0 to its cursor. *)
Parse(S) ==
    /\ S \subseteq 0 .. Written /\ 0 \in S /\ Written \in S
    /\ \A p \in S : p < Written => Follow(p) \in S
    /\ \A p, q \in S : p < q => Follow(p) <= q

(* Handoffs alternate, and the collector's matches say who had the         *)
(* dictionary at the position.                                             *)
Recorded ==
    /\ count = col.handoffs
    /\ col.pc # "clear" => (col.owns <=> count % 2 = 1)
    /\ col.pc = "clear" => count > 0 /\ (col.owns <=> count % 2 = 0)
    /\ \A h \in 0 .. count - 1 : at[h] <= col.i
    /\ main.handoffs <= count
    /\ main.owns <=> main.handoffs % 2 = 1
    /\ \A h \in 0 .. main.handoffs - 1 : at[h] <= main.i

(* What the collector wrote for a position it searched includes the        *)
(* dictionary's matches when the number of handoffs up to it is even.      *)
Honest(S) ==
    \A p \in S : p < Written =>
        \E n : HandoffsBy(n, p) /\ (matches[p].dict <=> n % 2 = 0)

(* The DP looks at positions the collector searched. *)
OnPath(S) ==
    /\ main.pc \in {"dpPos", "reqReady", "reqLoad", "reqStore", "wait",
                    "count", "step"} => main.i \in S
    /\ main.pc = "skip" => main.i + main.skip + 1 \in S
    /\ main.pc = "skipRead" => main.i + main.skip \in S

Dictionary ==
    DictHandoff =>
        /\ \E S : Parse(S) /\ Honest(S) /\ OnPath(S)
        /\ main.pc = "step" => (main.owns <=> ~matches[main.i].dict)

HqInv ==
    /\ Types /\ ColPlaces /\ Alone /\ Published /\ Waited /\ Hasher /\ OneResult
    /\ Recorded /\ Dictionary

-----------------------------------------------------------------------------
(* Facts about the block *)

(* There is a position with a hash, and every one of them is in the block. *)
LEMMA LoopRange == LoopEnd \in Nat /\ 0 < LoopEnd /\ LoopEnd <= NumBytes
BY HqAssumption DEF LoopEnd

(* The collector's loop covers all positions the hasher takes. *)
LEMMA HashedRange == \A p \in Hashed : p \in Nat /\ p < LoopEnd
BY HqAssumption DEF Hashed, StoreEnd, LoopEnd

(* The smaller of two integers. *)
LEMMA MinTwo ==
    ASSUME NEW a \in Int, NEW b \in Int
    PROVE  Min({a, b}) = IF a <= b THEN a ELSE b
<1>1. Min({a, b}) = CHOOSE x \in {a, b} : \A y \in {a, b} : x <= y
  BY DEF Min
<1>2. \A x \in {a, b} : (\A y \in {a, b} : x <= y) => x = IF a <= b THEN a ELSE b
  OBVIOUS
<1>3. \E x \in {a, b} : \A y \in {a, b} : x <= y
  OBVIOUS
<1> QED BY <1>1, <1>2, <1>3

(* A set of naturals that is not empty has a least element. *)
LEMMA Least ==
    ASSUME NEW T \in SUBSET Nat, T # {}
    PROVE  \E x \in T : \A y \in T : x <= y
<1> DEFINE R == {ss \in Nat \X Nat : ss[1] < ss[2]}
<1>1. IsWellFoundedOn(R, Nat)
  BY NatLessThanWellFounded DEF OpToRel
<1> HIDE DEF R
<1>2. PICK x \in T : \A y \in T : ~(<<y, x>> \in R)
  BY <1>1, WFMin
<1>3. ASSUME NEW y \in T PROVE x <= y
  <2>1. x \in Nat /\ y \in Nat
    OBVIOUS
  <2>2. y < x => <<y, x>> \in R
    BY <2>1 DEF R
  <2> QED BY <1>2, <2>1, <2>2
<1> QED BY <1>3

(* The greatest element of a bounded set of naturals. *)
LEMMA MaxBounded ==
    ASSUME NEW n \in Nat, NEW T \in SUBSET (0 .. n), T # {}
    PROVE  Max(T) \in T /\ \A y \in T : y <= Max(T)
<1> DEFINE D == {m \in Nat : \E y \in T : m = n - y}
<1>0. \A y \in T : y \in Int /\ n - y \in D
  OBVIOUS
<1>1. D \in SUBSET Nat /\ D # {}
  BY <1>0
<1>2. PICK d \in D : \A e \in D : d <= e
  BY <1>1, Least
<1>3. PICK x \in T : d = n - x
  BY <1>2
<1>4. \A y \in T : x >= y
  <2> TAKE y \in T
  <2>1. n - y \in D /\ x \in 0 .. n /\ y \in 0 .. n
    BY <1>0
  <2>2. n - x <= n - y
    BY <1>2, <1>3, <2>1
  <2> QED BY <2>1, <2>2
<1>5. \E z \in T : \A y \in T : z >= y
  BY <1>4
<1>6. Max(T) \in T /\ \A y \in T : Max(T) >= y
  BY <1>5 DEF Max
<1> HIDE DEF D
<1> QED BY <1>0, <1>6

(* A long match is not empty and ends with the block. *)
LEMMA MatchRange ==
    ASSUME NEW p \in Positions
    PROVE  MatchLen(p) \in 1 .. NumBytes - p
<1>1. /\ LongLen \in Nat /\ LongLen >= 1 /\ NumBytes \in Nat
      /\ p \in Nat /\ p < NumBytes
  BY HqAssumption DEF Positions
<1>2. MatchLen(p) = IF LongLen <= NumBytes - p THEN LongLen ELSE NumBytes - p
  BY <1>1, MinTwo DEF MatchLen
<1> QED BY <1>1, <1>2

LEMMA FollowRange ==
    ASSUME NEW p \in Positions
    PROVE  Follow(p) \in p + 1 .. NumBytes
<1>1. p \in Nat /\ p < NumBytes /\ NumBytes \in Nat
  BY HqAssumption DEF Positions
<1> QED BY <1>1, MatchRange DEF Follow

-----------------------------------------------------------------------------
(* Initial states *)

LEMMA InitInv == Init => HqInv
<1> SUFFICES ASSUME Init PROVE HqInv
  OBVIOUS
<1>1. /\ NumBytes \in Nat /\ MaxHandoffs \in Nat /\ MaxGrow \in Nat
      /\ LongSets \subseteq SUBSET Positions
  BY HqAssumption DEF Positions
<1>2. /\ col = ColInit("idle") /\ main = IterateInit("idle", 0, FALSE, 0)
      /\ ready = 0 /\ count = 0 /\ bufGen = 0 /\ out = 0 /\ ~skipDict /\ ~busy
      /\ matches = [p \in Positions |-> None] /\ stored = [p \in Hashed |-> 0]
      /\ at = [h \in 0 .. MaxHandoffs - 1 |-> 0] /\ ~aborted /\ ~request
      /\ skipDict \in BOOLEAN /\ busy \in BOOLEAN /\ dpPos = 0
      /\ parallel \in BOOLEAN /\ hq \in BOOLEAN /\ compound \in BOOLEAN
      /\ long \in LongSets
  BY DEF Init
<1>3. Types
  <2>1. None \in [gen : Nat, dict : BOOLEAN]
    BY <1>1 DEF None
  <2>2. col \in ColTypes
    BY <1>1, <1>2 DEF ColInit, ColPC, ColTypes
  <2>3. main \in MainTypes
    BY <1>2 DEF IterateInit, MainPC, MainTypes
  <2>4. matches \in [Positions -> [gen : Nat, dict : BOOLEAN]]
    BY <1>2, <2>1
  <2>5. at \in [0 .. MaxHandoffs - 1 -> Nat] /\ stored \in [Hashed -> Nat]
    BY <1>2
  <2>6. /\ aborted \in BOOLEAN /\ request \in BOOLEAN
        /\ skipDict \in BOOLEAN /\ busy \in BOOLEAN
    BY DEF Init
  <2>7. /\ ready \in Nat /\ dpPos \in Nat /\ count \in 0 .. MaxHandoffs
        /\ bufGen \in Nat /\ out \in Nat
    BY <1>1, <1>2
  <2>8. /\ parallel \in BOOLEAN /\ hq \in BOOLEAN /\ compound \in BOOLEAN
        /\ long \in SUBSET Positions
    BY <1>1, <1>2
  <2> QED BY ONLY <2>2, <2>3, <2>4, <2>5, <2>6, <2>7, <2>8 DEF Types
<1>4. ColPlaces /\ Alone /\ OneResult /\ Recorded
  BY <1>2 DEF ColPlaces, Alone, OneResult, Recorded, ColInit, IterateInit
<1>5. Written = 0 /\ 0 \in Nat
  BY <1>2 DEF Written, ColInit
<1>6. Published /\ Waited /\ Hasher
  <2>1. Published /\ Waited
    BY <1>2, <1>5 DEF Published, Waited, IterateInit, ColInit, Positions
  <2>2. \A p \in Hashed : stored[p] = 0 /\ ~(p < 0)
    BY ONLY <1>2, HashedRange
  <2> QED BY <1>2, <1>5, <2>1, <2>2 DEF Hasher, IterateInit
<1>7. Parse({0}) /\ Honest({0}) /\ OnPath({0})
  BY <1>2, <1>5 DEF Parse, Honest, OnPath, IterateInit
<1>8. Dictionary
  BY <1>2, <1>7 DEF Dictionary, IterateInit
<1> QED BY <1>3, <1>4, <1>6, <1>8 DEF HqInv

-----------------------------------------------------------------------------
(* Steps of the DP that leave the collector's side alone *)

(* Where the DP is inside a pass. *)
InPass == main.pc \notin {"idle", "return", "inline"}

Theirs == <<parallel, hq, compound, long, ready, aborted, matches, bufGen, col, count, at,
            skipDict, stored, busy>>

LEMMA SameParse ==
    ASSUME UNCHANGED <<long, count, at, matches>>, Written' = Written,
           NEW S, Parse(S), Honest(S)
    PROVE  Parse(S)' /\ Honest(S)'
<1>1. Written' = Written
  OBVIOUS
<1>2. \A q : Follow(q)' = Follow(q)
  BY DEF Follow, MatchLen
<1>3. \A n, q : HandoffsBy(n, q)' <=> HandoffsBy(n, q)
  BY DEF HandoffsBy
<1>4. Parse(S)'
  BY <1>1, <1>2 DEF Parse
<1>5. Honest(S)'
  BY <1>1, <1>3 DEF Honest
<1> QED BY <1>4, <1>5

LEMMA DPFrame ==
    ASSUME HqInv, UNCHANGED Theirs, InPass, InPass', main'.feed = main.feed
    PROVE  ColPlaces' /\ Alone' /\ Published' /\ Hasher' /\ Written' = Written
<1> USE DEF HqInv, Theirs, InPass
<1>1. Written' = Written
  BY DEF Written
<1>2. ColPlaces'
  BY DEF ColPlaces
<1>3. Alone'
  BY DEF Alone
<1>4. Published'
  BY <1>1 DEF Published
<1>5. Hasher'
  BY <1>1 DEF Hasher
<1> QED BY <1>1, <1>2, <1>3, <1>4, <1>5

(* The DP is behind the collector. *)
LEMMA Behind ==
    ASSUME HqInv, main.pc \in {"count", "step", "skip", "skipRead"}
    PROVE  /\ main.i \in Nat /\ main.i < LoopEnd /\ main.i < Written
           /\ Written \in Nat /\ main.i \in Positions
           /\ matches[main.i].gen <= main.gen
           /\ ~main.feed => col.pc = "idle"
<1> USE LoopRange DEF HqInv
<1>1. /\ main.i \in Nat /\ main.i < LoopEnd /\ col.i \in Nat /\ Written \in Nat
      /\ NumBytes \in Nat /\ ready \in Nat /\ main.gen \in Nat
      /\ main.feed \in BOOLEAN
  BY HqAssumption DEF Types, Waited, Written, ColTypes, MainTypes
<1>2. main.i \in Positions
  BY <1>1 DEF Positions
<1>3. CASE main.feed
  <2>1. ready > main.i /\ main.gen = 0
    BY <1>3 DEF Waited
  <2>2. main.i < Written
    BY <1>1, <2>1 DEF Published
  <2> QED BY <1>1, <1>2, <1>3, <2>1, <2>2 DEF Published
<1>4. CASE ~main.feed
  <2>1. col.pc = "idle"
    BY <1>4 DEF Alone
  <2>2. Written >= LoopEnd
    BY <2>1 DEF ColPlaces, Written
  <2> QED BY <1>1, <1>2, <1>4, <2>1, <2>2 DEF Waited
<1> QED BY <1>1, <1>3, <1>4

(* Most steps of the DP change its place and no more than its position. *)
LEMMA DPKeeps ==
    ASSUME HqInv, UNCHANGED Theirs, InPass, InPass',
           main'.feed = main.feed, main'.gen = main.gen,
           main'.handoffs = main.handoffs, main'.owns = main.owns,
           main' \in MainTypes, main'.i >= main.i,
           dpPos' \in Nat, request' \in BOOLEAN, out' \in Nat
    PROVE  Types' /\ ColPlaces' /\ Alone' /\ Published' /\ Hasher' /\ Recorded'
<1>1. Types'
  BY DEF Types, HqInv, Theirs
<1>2. ColPlaces' /\ Alone' /\ Published' /\ Hasher'
  BY DPFrame
<1>3. main.i \in Nat /\ main'.i \in Nat /\ main.handoffs \in Nat
  BY DEF HqInv, Types, MainTypes
<1>4. Recorded'
  <2>1. /\ count \in Nat /\ at \in [0 .. MaxHandoffs - 1 -> Nat]
        /\ count <= MaxHandoffs /\ MaxHandoffs \in Nat
    BY HqAssumption DEF HqInv, Types
  <2>2. \A h \in 0 .. main.handoffs - 1 : at[h] \in Nat /\ at[h] <= main.i
    <3>1. main.handoffs <= count
      BY DEF HqInv, Recorded
    <3>2. \A h \in 0 .. main.handoffs - 1 : h \in 0 .. MaxHandoffs - 1
      BY ONLY <1>3, <2>1, <3>1
    <3>3. \A h \in 0 .. main.handoffs - 1 : at[h] <= main.i
      BY DEF HqInv, Recorded
    <3> QED BY ONLY <2>1, <3>2, <3>3
  <2>3. \A h \in 0 .. main'.handoffs - 1 : at[h] <= main'.i
    BY <1>3, <2>2
  <2> QED BY <2>3 DEF HqInv, Recorded, Theirs
<1> QED BY <1>1, <1>2, <1>4

(* The DP stays on the path, when its next position is on it. *)
LEMMA DPDictionary ==
    ASSUME HqInv, UNCHANGED Theirs, main'.pc # "step",
           \A S : Parse(S) /\ OnPath(S) => OnPath(S)'
    PROVE  Dictionary'
<1> SUFFICES ASSUME DictHandoff' PROVE \E S : (Parse(S) /\ Honest(S) /\ OnPath(S))'
  BY DEF Dictionary
<1>1. DictHandoff
  BY DEF DictHandoff, Theirs
<1>2. PICK S : Parse(S) /\ Honest(S) /\ OnPath(S)
  BY <1>1 DEF HqInv, Dictionary
<1>3. Parse(S)' /\ Honest(S)'
  BY <1>2, SameParse DEF Theirs, Written
<1> QED BY <1>2, <1>3

(* Only the place changes. *)
LEMMA MovePC ==
    ASSUME main \in MainTypes, NEW c \in MainPC, main' = [main EXCEPT !.pc = c]
    PROVE  /\ main'.feed = main.feed /\ main'.gen = main.gen /\ main'.i = main.i
           /\ main'.handoffs = main.handoffs /\ main'.owns = main.owns
           /\ main'.skip = main.skip /\ main'.pc = c /\ main' \in MainTypes
BY DEF MainTypes

LEMMA PlainMove ==
    ASSUME HqInv, UNCHANGED Theirs, InPass, NEW c \in MainPC,
           main' = [main EXCEPT !.pc = c], c \notin {"idle", "return", "inline"},
           dpPos' \in Nat, request' \in BOOLEAN, out' \in Nat
    PROVE  /\ Types' /\ ColPlaces' /\ Alone' /\ Published' /\ Hasher' /\ Recorded'
           /\ main'.feed = main.feed /\ main'.gen = main.gen /\ main'.i = main.i
           /\ main'.handoffs = main.handoffs /\ main'.owns = main.owns
           /\ main'.skip = main.skip /\ main'.pc = c /\ main' \in MainTypes
           /\ main.i \in Nat
<1>1. main \in MainTypes
  BY DEF HqInv, Types
<1>2. /\ main'.feed = main.feed /\ main'.gen = main.gen /\ main'.i = main.i
      /\ main'.handoffs = main.handoffs /\ main'.owns = main.owns
      /\ main'.skip = main.skip /\ main'.pc = c /\ main' \in MainTypes
  BY <1>1, MovePC
<1>3. main.i \in Nat /\ main'.i >= main.i /\ InPass'
  BY <1>1, <1>2 DEF MainTypes, InPass
<1> QED BY <1>2, <1>3, DPKeeps

LEMMA StorePosStep == HqInv /\ DPStorePos => HqInv'
<1> SUFFICES ASSUME HqInv, DPStorePos PROVE HqInv'
  OBVIOUS
<1>1. /\ main.pc = "dpPos" /\ UNCHANGED Theirs /\ UNCHANGED <<request, out>>
      /\ main'.pc \in {"reqReady", "wait"}
  BY DEF DPStorePos, MainKeeps, config, Theirs, HqInv, Types, MainTypes
<1>2. /\ main'.feed = main.feed /\ main'.gen = main.gen /\ main'.i = main.i
      /\ main'.handoffs = main.handoffs /\ main'.owns = main.owns
      /\ main' \in MainTypes /\ dpPos' \in Nat
  <2>1. main \in MainTypes /\ PublishBatch \in Nat /\ dpPos \in Nat
    BY HqAssumption DEF HqInv, Types
  <2>2. \/ /\ dpPos' = main.i
           /\ main' = [main EXCEPT !.pc = "reqReady", !.nextDPPos = main.i + PublishBatch]
        \/ /\ dpPos' = dpPos
           /\ \E c \in {"reqReady", "wait"} : main' = [main EXCEPT !.pc = c]
    BY DEF DPStorePos
  <2>3. "reqReady" \in MainPC /\ "wait" \in MainPC
    BY DEF MainPC
  <2>4. main.i \in Nat /\ main.i + PublishBatch \in Nat
    BY <2>1 DEF MainTypes
  <2>5. CASE /\ dpPos' = main.i
             /\ main' = [main EXCEPT !.pc = "reqReady", !.nextDPPos = main.i + PublishBatch]
    BY ONLY <2>1, <2>3, <2>4, <2>5 DEF MainTypes
  <2>6. ASSUME dpPos' = dpPos, NEW c \in MainPC, main' = [main EXCEPT !.pc = c]
        PROVE  /\ main'.feed = main.feed /\ main'.gen = main.gen /\ main'.i = main.i
               /\ main'.handoffs = main.handoffs /\ main'.owns = main.owns
               /\ main' \in MainTypes /\ dpPos' \in Nat
    BY <2>1, <2>6, MovePC
  <2> QED BY <2>2, <2>3, <2>5, <2>6
<1>3. request' \in BOOLEAN /\ out' \in Nat /\ main'.i >= main.i /\ InPass /\ InPass'
  BY <1>1, <1>2 DEF HqInv, Types, MainTypes, InPass
<1>4. Types' /\ ColPlaces' /\ Alone' /\ Published' /\ Hasher' /\ Recorded'
  BY <1>1, <1>2, <1>3, DPKeeps
<1>5. Waited'
  BY <1>1, <1>2 DEF HqInv, Waited, Theirs
<1>6. OneResult'
  BY <1>1 DEF HqInv, OneResult
<1>7. Dictionary'
  BY <1>1, <1>2, DPDictionary DEF OnPath
<1> QED BY <1>4, <1>5, <1>6, <1>7 DEF HqInv

(* The steps before the wait. *)
LEMMA RequestStep == HqInv /\ (DPRequestReady \/ DPRequestLoad \/ DPRequestStore) => HqInv'
<1> SUFFICES ASSUME HqInv, DPRequestReady \/ DPRequestLoad \/ DPRequestStore
             PROVE  HqInv'
  OBVIOUS
<1>1. /\ main.pc \in {"reqReady", "reqLoad", "reqStore"} /\ UNCHANGED Theirs
      /\ UNCHANGED <<dpPos, out>> /\ request' \in {request, TRUE}
  BY DEF DPRequestReady, DPRequestLoad, DPRequestStore, MainKeeps, config, dict, Theirs
<1>2. PICK c \in {"reqLoad", "reqStore", "wait"} : main' = [main EXCEPT !.pc = c]
  BY DEF DPRequestReady, DPRequestLoad, DPRequestStore
<1>3. c \in MainPC /\ c \notin {"idle", "return", "inline"}
  BY DEF MainPC
<1>4. dpPos' \in Nat /\ request' \in BOOLEAN /\ out' \in Nat /\ InPass
  BY <1>1 DEF HqInv, Types, InPass
<1>5. /\ Types' /\ ColPlaces' /\ Alone' /\ Published' /\ Hasher' /\ Recorded'
      /\ main'.feed = main.feed /\ main'.gen = main.gen /\ main'.i = main.i
      /\ main'.pc = c
  BY <1>1, <1>2, <1>3, <1>4, PlainMove
<1>6. Waited'
  BY <1>1, <1>5 DEF HqInv, Waited, Theirs
<1>7. OneResult'
  BY <1>1, <1>5 DEF HqInv, OneResult
<1>8. Dictionary'
  BY <1>1, <1>5, DPDictionary DEF OnPath
<1> QED BY <1>5, <1>6, <1>7, <1>8 DEF HqInv

(* A wait that succeeds has seen the position published, one that fails    *)
(* leaves the pass.                                                        *)
LEMMA WaitStep == HqInv /\ DPWait => HqInv'
<1> SUFFICES ASSUME HqInv, DPWait PROVE HqInv'
  OBVIOUS
<1>1. /\ main.pc = "wait" /\ UNCHANGED Theirs /\ UNCHANGED <<dpPos, request, out>>
  BY DEF DPWait, MainKeeps, config, dict, Theirs
<1>2. PICK c \in {"count", "abortJoin"} :
          /\ main' = [main EXCEPT !.pc = c]
          /\ c = "count" /\ main.feed => ready > main.i
  BY DEF DPWait
<1>3. c \in MainPC /\ c \notin {"idle", "return", "inline"}
  BY DEF MainPC
<1>4. dpPos' \in Nat /\ request' \in BOOLEAN /\ out' \in Nat /\ InPass
  BY <1>1 DEF HqInv, Types, InPass
<1>5. /\ Types' /\ ColPlaces' /\ Alone' /\ Published' /\ Hasher' /\ Recorded'
      /\ main'.feed = main.feed /\ main'.gen = main.gen /\ main'.i = main.i
      /\ main'.pc = c
  BY <1>1, <1>2, <1>3, <1>4, PlainMove
<1>6. Waited'
  BY <1>1, <1>2, <1>5 DEF HqInv, Waited, Theirs
<1>7. OneResult'
  BY <1>1, <1>5 DEF HqInv, OneResult
<1>8. Dictionary'
  BY <1>1, <1>5, DPDictionary DEF OnPath
<1> QED BY <1>5, <1>6, <1>7, <1>8 DEF HqInv

(* Applying the recorded handoffs stops at the first that lies ahead. *)
LEMMA AppliedUpTo ==
    ASSUME HqInv, NEW from \in 0 .. count, NEW i \in Nat
    PROVE  LET k == Applied(count, from, i)
           IN /\ k \in from .. count
              /\ \A h \in from .. k - 1 : at[h] <= i
              /\ k < count => at[k] > i
<1> DEFINE T == {k \in from .. count : \A h \in from .. k - 1 : at[h] <= i}
           k == Max(T)
<1>1. /\ count \in Nat /\ from \in Nat /\ from <= count /\ MaxHandoffs \in Nat
      /\ count <= MaxHandoffs /\ at \in [0 .. MaxHandoffs - 1 -> Nat]
  BY HqAssumption DEF HqInv, Types
<1>2. from \in T /\ T \in SUBSET (0 .. count)
  BY <1>1
<1>3. k \in T /\ \A y \in T : y <= k
  BY <1>1, <1>2, MaxBounded
<1>4. k = Applied(count, from, i)
  BY DEF Applied
<1>5. k \in from .. count /\ \A h \in from .. k - 1 : at[h] <= i
  BY <1>3
<1> HIDE DEF k
<1>6. ASSUME k < count PROVE at[k] > i
  <2>1. k + 1 \notin T
    <3>1. k \in Nat
      BY <1>1, <1>5
    <3> HIDE DEF T
    <3> QED BY <1>3, <3>1
  <2>2. PICK h \in from .. k : ~(at[h] <= i)
    BY <1>1, <1>5, <1>6, <2>1
  <2>3. h = k /\ at[k] \in Nat
    BY <1>1, <1>5, <1>6, <2>2
  <2> QED BY <2>2, <2>3
<1> QED BY <1>4, <1>5, <1>6

(* The number of handoffs up to a position is unique, and what the DP has  *)
(* applied is that number.                                                 *)
LEMMA CountUnique ==
    ASSUME HqInv, NEW i \in Nat, NEW n, HandoffsBy(n, i), NEW k \in 0 .. count,
           \A h \in 0 .. k - 1 : at[h] <= i, k < count => at[k] > i
    PROVE  k = n
<1>1. /\ count \in Nat /\ n \in Nat /\ n <= count /\ MaxHandoffs \in Nat
      /\ count <= MaxHandoffs /\ at \in [0 .. MaxHandoffs - 1 -> Nat]
  BY HqAssumption DEF HqInv, Types, HandoffsBy
<1>2. CASE k < n
  <2>1. at[k] <= i /\ at[k] > i /\ at[k] \in Nat
    BY <1>1, <1>2 DEF HandoffsBy
  <2> QED BY <2>1
<1>3. CASE n < k
  <2>1. at[n] > i /\ at[n] <= i /\ at[n] \in Nat
    BY <1>1, <1>3 DEF HandoffsBy
  <2> QED BY <2>1
<1> QED BY <1>1, <1>2, <1>3

(* Parity of a difference. *)
LEMMA ParityDiff ==
    ASSUME NEW a \in Nat, NEW b \in Nat, a <= b
    PROVE  (b - a) % 2 = 1 <=> ~(b % 2 = 1 <=> a % 2 = 1)
<1>1. a = 2 * (a \div 2) + (a % 2) /\ a % 2 \in 0 .. 1 /\ a \div 2 \in Int
  OBVIOUS
<1>2. b = 2 * (b \div 2) + (b % 2) /\ b % 2 \in 0 .. 1 /\ b \div 2 \in Int
  OBVIOUS
<1> QED BY <1>1, <1>2

(* The DP applies the handoffs up to its position: it then searches the    *)
(* dictionary itself exactly where the collector did not.                  *)
LEMMA CountStep == HqInv /\ DPCount => HqInv'
<1> SUFFICES ASSUME HqInv, DPCount PROVE HqInv'
  OBVIOUS
<1> DEFINE k == IF DictHandoff /\ main.handoffs < count
                THEN Applied(count, main.handoffs, main.i)
                ELSE main.handoffs
<1>1. /\ main.pc = "count" /\ UNCHANGED Theirs /\ UNCHANGED <<dpPos, request, out>>
      /\ main' = [main EXCEPT !.pc = "step", !.handoffs = k,
                     !.owns = IF (k - main.handoffs) % 2 = 1 THEN ~@ ELSE @]
  BY DEF DPCount, MainKeeps, config, dict, Theirs
<1>2. /\ main \in MainTypes /\ main.i \in Nat /\ main.handoffs \in Nat
      /\ main.owns \in BOOLEAN /\ count \in Nat /\ main.handoffs <= count
      /\ MaxHandoffs \in Nat /\ count <= MaxHandoffs
      /\ at \in [0 .. MaxHandoffs - 1 -> Nat]
  BY HqAssumption DEF HqInv, Types, MainTypes, Recorded
<1>3. /\ k \in main.handoffs .. count
      /\ \A h \in main.handoffs .. k - 1 : at[h] <= main.i
      /\ DictHandoff /\ k < count => at[k] > main.i
  <2>1. CASE DictHandoff /\ main.handoffs < count
    <3>1. main.handoffs \in 0 .. count /\ k = Applied(count, main.handoffs, main.i)
      BY <1>2, <2>1
    <3> HIDE DEF k
    <3> QED BY <1>2, <3>1, AppliedUpTo
  <2>2. CASE ~(DictHandoff /\ main.handoffs < count)
    BY <1>2, <2>2
  <2> QED BY <2>1, <2>2
<1> HIDE DEF k
<1>4. k \in Nat /\ k <= count /\ main.handoffs <= k
  BY <1>2, <1>3
<1>5. \A h \in 0 .. k - 1 : at[h] <= main.i
  <2>1. \A h \in 0 .. main.handoffs - 1 : at[h] <= main.i
    BY DEF HqInv, Recorded
  <2>2. \A h \in 0 .. k - 1 :
            h \in 0 .. main.handoffs - 1 \/ h \in main.handoffs .. k - 1
    BY <1>2, <1>4
  <2> QED BY <1>3, <2>1, <2>2
<1>6. /\ main'.pc = "step" /\ main'.handoffs = k /\ main'.i = main.i
      /\ main'.feed = main.feed /\ main'.gen = main.gen /\ main' \in MainTypes
      /\ main'.owns = IF (k - main.handoffs) % 2 = 1 THEN ~main.owns ELSE main.owns
  <2>1. "step" \in MainPC
    BY DEF MainPC
  <2> QED BY <1>1, <1>2, <1>4, <2>1 DEF MainTypes
<1>7. main'.owns <=> k % 2 = 1
  <2>1. main.owns <=> main.handoffs % 2 = 1
    BY DEF HqInv, Recorded
  <2>2. (k - main.handoffs) % 2 = 1 <=> ~(k % 2 = 1 <=> main.handoffs % 2 = 1)
    BY <1>2, <1>4, ParityDiff
  <2> QED BY <1>2, <1>6, <2>1, <2>2
<1>8. InPass /\ InPass'
  BY <1>1, <1>6 DEF InPass
<1>9. ColPlaces' /\ Alone' /\ Published' /\ Hasher' /\ Written' = Written
  BY <1>1, <1>6, <1>8, DPFrame
<1>10. Types'
  BY <1>1, <1>6 DEF HqInv, Types, Theirs
<1>11. Waited'
  BY <1>1, <1>6 DEF HqInv, Waited, Theirs
<1>12. OneResult'
  BY <1>1, <1>6 DEF HqInv, OneResult
<1>13. Recorded'
  BY <1>1, <1>4, <1>5, <1>6, <1>7 DEF HqInv, Recorded, Theirs
<1>14. Dictionary'
  <2> SUFFICES ASSUME DictHandoff'
               PROVE  /\ \E S : (Parse(S) /\ Honest(S) /\ OnPath(S))'
                      /\ main'.owns <=> ~matches'[main'.i].dict
    BY DEF Dictionary
  <2>1. DictHandoff
    BY <1>1 DEF DictHandoff, Theirs
  <2>2. PICK S : Parse(S) /\ Honest(S) /\ OnPath(S)
    BY <2>1 DEF HqInv, Dictionary
  <2>3. Parse(S)' /\ Honest(S)'
    BY <1>1, <1>9, <2>2, SameParse DEF Theirs
  <2>4. OnPath(S)' /\ main.i \in S
    BY <1>1, <1>6, <2>2 DEF OnPath
  <2>5. main.i < Written
    BY <1>1, Behind
  <2>6. PICK n : HandoffsBy(n, main.i) /\ (matches[main.i].dict <=> n % 2 = 0)
    BY <2>2, <2>4, <2>5 DEF Honest
  <2>7. k = n
    BY <1>2, <1>3, <1>4, <1>5, <2>1, <2>6, CountUnique
  <2>8. main'.owns <=> ~(k % 2 = 0)
    BY <1>4, <1>7
  <2>9. matches' = matches /\ main'.i = main.i
    BY <1>1, <1>6 DEF Theirs
  <2> QED BY <2>3, <2>4, <2>6, <2>7, <2>8, <2>9
<1> QED BY <1>9, <1>10, <1>11, <1>12, <1>13, <1>14 DEF HqInv

(* The head of the loop: on to the next position, or to the end. *)
LEMMA TopFields ==
    ASSUME NEW m \in MainTypes
    PROVE  /\ Top(m) \in MainTypes /\ Top(m).i = m.i /\ Top(m).skip = m.skip
           /\ Top(m).owns = m.owns /\ Top(m).handoffs = m.handoffs
           /\ Top(m).feed = m.feed /\ Top(m).gen = m.gen
           /\ Top(m).pc \in {"create", "dpPos", "wait"}
           /\ Top(m).pc = "create" <=> m.i >= LoopEnd
<1>1. PICK c \in {"create", "dpPos", "wait"} :
          Top(m) = [m EXCEPT !.pc = c] /\ (c = "create" <=> m.i >= LoopEnd)
  BY DEF Top
<1>2. c \in MainPC
  BY DEF MainPC
<1> QED BY ONLY m \in MainTypes, <1>1, <1>2 DEF MainTypes

(* A step inside a pass that goes to a position or a place that is safe. *)
LEMMA PassStep ==
    ASSUME HqInv, UNCHANGED Theirs, UNCHANGED <<dpPos, request, out>>,
           main.pc \in {"step", "skip", "skipRead"},
           main' \in MainTypes, main'.feed = main.feed, main'.gen = main.gen,
           main'.handoffs = main.handoffs, main'.owns = main.owns,
           main'.i >= main.i,
           main'.pc \in {"create", "dpPos", "wait", "skip", "skipRead", "divergeJoin",
                         "abortJoin"},
           main'.pc \in {"dpPos", "wait", "skip", "skipRead"} => main'.i < LoopEnd,
           main'.pc \in {"skip", "skipRead"} /\ main.feed => ready > main'.i,
           main'.pc = "skipRead" => main'.skip > 0,
           main'.pc = "create" /\ main.feed => ready >= LoopEnd,
           DictHandoff => \A S : Parse(S) /\ OnPath(S) => OnPath(S)'
    PROVE  HqInv'
<1>1. InPass /\ InPass' /\ dpPos' \in Nat /\ request' \in BOOLEAN /\ out' \in Nat
  BY DEF HqInv, Types, InPass
<1>2. Types' /\ ColPlaces' /\ Alone' /\ Published' /\ Hasher' /\ Recorded'
  BY <1>1, DPKeeps
<1>3. Waited'
  BY DEF HqInv, Waited, Theirs
<1>4. OneResult'
  BY DEF HqInv, OneResult
<1>5. Dictionary'
  <2>1. DictHandoff' <=> DictHandoff
    BY DEF DictHandoff, Theirs
  <2>2. CASE DictHandoff
    BY <2>2, DPDictionary
  <2> QED BY <2>1, <2>2 DEF Dictionary
<1> QED BY <1>2, <1>3, <1>4, <1>5 DEF HqInv

(* From a position of the parse, a step or a long match leads to the next. *)
LEMMA StepStep == HqInv /\ DPStep => HqInv'
<1> SUFFICES ASSUME HqInv, DPStep PROVE HqInv'
  OBVIOUS
<1>1. main.pc = "step" /\ UNCHANGED Theirs /\ UNCHANGED <<dpPos, request, out>>
  BY DEF DPStep, MainKeeps, config, dict, Theirs
<1>2. /\ main \in MainTypes /\ main.i \in Nat /\ main.i < LoopEnd /\ main.i < Written
      /\ main.i \in Positions
      /\ main.feed => ready > main.i
  BY <1>1, Behind DEF HqInv, Types, Waited
<1>3. /\ MatchLen(main.i) \in Nat /\ MatchLen(main.i) >= 1 /\ LoopEnd \in Nat
      /\ ready \in Nat
  <2>1. NumBytes \in Nat
    BY HqAssumption
  <2>2. MatchLen(main.i) \in 1 .. NumBytes - main.i
    BY <1>2, MatchRange
  <2>3. ready \in Nat
    BY DEF HqInv, Types
  <2> QED BY <1>2, <2>1, <2>2, <2>3, LoopRange
<1>4. ASSUME NEW S, Parse(S), OnPath(S) PROVE Follow(main.i) \in S
  BY <1>1, <1>2, <1>4 DEF Parse, OnPath
<1>5. CASE /\ main.i \in long \/ hq
           /\ main' = [main EXCEPT !.pc = "skip", !.skip = MatchLen(main.i) - 1]
  <2>1. MatchLen(main.i) - 1 \in Nat /\ "skip" \in MainPC
    BY <1>3 DEF MainPC
  <2>2. /\ main' \in MainTypes /\ main'.feed = main.feed /\ main'.gen = main.gen
        /\ main'.handoffs = main.handoffs /\ main'.owns = main.owns
        /\ main'.i = main.i /\ main'.pc = "skip" /\ main'.skip = MatchLen(main.i) - 1
    BY ONLY <1>2, <1>5, <2>1 DEF MainTypes
  <2>3. ASSUME DictHandoff, NEW S, Parse(S), OnPath(S) PROVE OnPath(S)'
    <3>1. main.i \in long
      BY <1>5, <2>3 DEF DictHandoff
    <3>2. main.i + MatchLen(main.i) \in S
      BY <1>4, <2>3, <3>1 DEF Follow
    <3>3. main'.i + main'.skip + 1 = main.i + MatchLen(main.i)
      BY <1>2, <1>3, <2>2
    <3> QED BY <2>2, <3>2, <3>3 DEF OnPath
  <2>4. main'.i >= main.i
    BY <1>2, <2>2
  <2> QED BY <1>1, <1>2, <2>2, <2>3, <2>4, PassStep
<1>6. CASE main.i \notin long /\ main' = Top([main EXCEPT !.i = @ + 1])
  <2> DEFINE m == [main EXCEPT !.i = @ + 1]
  <2>1. /\ m \in MainTypes /\ m.i = main.i + 1 /\ m.feed = main.feed
        /\ m.gen = main.gen /\ m.handoffs = main.handoffs /\ m.owns = main.owns
    BY <1>2 DEF MainTypes
  <2>2. /\ main' \in MainTypes /\ main'.feed = main.feed /\ main'.gen = main.gen
        /\ main'.handoffs = main.handoffs /\ main'.owns = main.owns
        /\ main'.i = main.i + 1 /\ main'.pc \in {"create", "dpPos", "wait"}
        /\ main'.pc = "create" <=> main.i + 1 >= LoopEnd
    <3> HIDE DEF m
    <3>1. main' = Top(m)
      BY <1>6 DEF m
    <3> QED BY <2>1, <3>1, TopFields
  <2>3. ASSUME NEW S, Parse(S), OnPath(S) PROVE OnPath(S)'
    <3>1. main.i + 1 \in S
      BY <1>4, <1>6, <2>3 DEF Follow
    <3> QED BY <2>2, <3>1 DEF OnPath
  <2>4. /\ main'.i >= main.i
        /\ main'.pc # "create" => main'.i < LoopEnd
        /\ main'.pc = "create" /\ main.feed => ready >= LoopEnd
    BY <1>2, <1>3, <2>2
  <2> QED BY <1>1, <2>2, <2>3, <2>4, PassStep
<1>7. CASE main' = [main EXCEPT !.pc = "divergeJoin"]
  <2>1. "divergeJoin" \in MainPC
    BY DEF MainPC
  <2>2. /\ main' \in MainTypes /\ main'.feed = main.feed /\ main'.gen = main.gen
        /\ main'.handoffs = main.handoffs /\ main'.owns = main.owns
        /\ main'.i = main.i /\ main'.pc = "divergeJoin"
    BY <1>2, <1>7, <2>1, MovePC
  <2>3. main'.i >= main.i /\ \A S : OnPath(S)'
    BY <1>2, <2>2 DEF OnPath
  <2> QED BY <1>1, <2>2, <2>3, PassStep
<1> QED BY <1>5, <1>6, <1>7 DEF DPStep

(* Skipping: each covered position is waited for, and the end of the long  *)
(* match is the next position of the parse.                                *)
LEMMA SkipStep == HqInv /\ DPSkip => HqInv'
<1> SUFFICES ASSUME HqInv, DPSkip PROVE HqInv'
  OBVIOUS
<1>1. main.pc = "skip" /\ UNCHANGED Theirs /\ UNCHANGED <<dpPos, request, out>>
  BY DEF DPSkip, MainKeeps, config, dict, Theirs
<1>2. /\ main \in MainTypes /\ main.i \in Nat /\ main.i < LoopEnd /\ main.skip \in Nat
      /\ main.feed => ready > main.i
  BY <1>1 DEF HqInv, Types, Waited, MainTypes
<1>3. LoopEnd \in Nat /\ ready \in Nat
  BY LoopRange DEF HqInv, Types
<1>4. CASE /\ main.skip = 0 \/ main.i + 1 >= LoopEnd
           /\ main' = Top([main EXCEPT !.i = @ + 1, !.skip = 0])
  <2> DEFINE m == [main EXCEPT !.i = @ + 1, !.skip = 0]
  <2>1. /\ m \in MainTypes /\ m.i = main.i + 1 /\ m.feed = main.feed
        /\ m.gen = main.gen /\ m.handoffs = main.handoffs /\ m.owns = main.owns
    <3>1. main.i + 1 \in Nat
      BY <1>2
    <3> QED BY ONLY <1>2, <3>1 DEF MainTypes
  <2>2. /\ main' \in MainTypes /\ main'.feed = main.feed /\ main'.gen = main.gen
        /\ main'.handoffs = main.handoffs /\ main'.owns = main.owns
        /\ main'.i = main.i + 1 /\ main'.pc \in {"create", "dpPos", "wait"}
        /\ main'.pc = "create" <=> main.i + 1 >= LoopEnd
    <3> HIDE DEF m
    <3>1. main' = Top(m)
      BY <1>4 DEF m
    <3> QED BY <2>1, <3>1, TopFields
  <2>3. ASSUME NEW S, Parse(S), OnPath(S) PROVE OnPath(S)'
    <3>1. main'.pc # "create" => main.i + 1 \in S
      BY <1>1, <1>2, <1>4, <2>2, <2>3 DEF OnPath
    <3> QED BY <2>2, <3>1 DEF OnPath
  <2>4. /\ main'.i >= main.i
        /\ main'.pc # "create" => main'.i < LoopEnd
        /\ main'.pc = "create" /\ main.feed => ready >= LoopEnd
    BY <1>2, <1>3, <2>2
  <2> QED BY <1>1, <2>2, <2>3, <2>4, PassStep
<1>5. CASE /\ ~(main.skip = 0 \/ main.i + 1 >= LoopEnd)
           /\ ~main.feed \/ ready > main.i + 1
           /\ main' = [main EXCEPT !.pc = "skipRead", !.i = @ + 1]
  <2>1. "skipRead" \in MainPC /\ main.i + 1 \in Nat
    BY <1>2 DEF MainPC
  <2>2. /\ main' \in MainTypes /\ main'.feed = main.feed /\ main'.gen = main.gen
        /\ main'.handoffs = main.handoffs /\ main'.owns = main.owns
        /\ main'.i = main.i + 1 /\ main'.pc = "skipRead" /\ main'.skip = main.skip
    BY ONLY <1>2, <1>5, <2>1 DEF MainTypes
  <2>3. ASSUME NEW S, Parse(S), OnPath(S) PROVE OnPath(S)'
    <3>1. main.i + main.skip + 1 = main'.i + main'.skip
      BY <1>2, <2>2
    <3> QED BY <1>1, <2>2, <2>3, <3>1 DEF OnPath
  <2>4. main'.i >= main.i /\ main'.i < LoopEnd /\ main'.skip > 0
    BY <1>2, <1>3, <1>5, <2>2
  <2>5. main.feed => ready > main'.i
    BY <1>5, <2>2
  <2> QED BY <1>1, <2>2, <2>3, <2>4, <2>5, PassStep
<1>6. CASE main' = [main EXCEPT !.pc = "abortJoin"]
  <2>1. "abortJoin" \in MainPC
    BY DEF MainPC
  <2>2. /\ main' \in MainTypes /\ main'.feed = main.feed /\ main'.gen = main.gen
        /\ main'.handoffs = main.handoffs /\ main'.owns = main.owns
        /\ main'.i = main.i /\ main'.pc = "abortJoin"
    BY <1>2, <1>6, <2>1, MovePC
  <2>3. main'.i >= main.i /\ \A S : OnPath(S)'
    BY <1>2, <2>2 DEF OnPath
  <2> QED BY <1>1, <2>2, <2>3, PassStep
<1> QED BY <1>4, <1>5, <1>6 DEF DPSkip

LEMMA SkipReadStep == HqInv /\ DPSkipRead => HqInv'
<1> SUFFICES ASSUME HqInv, DPSkipRead PROVE HqInv'
  OBVIOUS
<1>1. /\ main.pc = "skipRead" /\ UNCHANGED Theirs /\ UNCHANGED <<dpPos, request, out>>
      /\ main' = [main EXCEPT !.pc = "skip", !.skip = @ - 1]
  BY DEF DPSkipRead, MainKeeps, config, dict, Theirs
<1>2. /\ main \in MainTypes /\ main.i \in Nat /\ main.i < LoopEnd /\ main.skip \in Nat
      /\ main.feed => ready > main.i
      /\ main.skip > 0
  BY <1>1 DEF HqInv, Types, Waited, MainTypes
<1>3. main.skip - 1 \in Nat /\ "skip" \in MainPC
  BY <1>2 DEF MainPC
<1>4. /\ main' \in MainTypes /\ main'.feed = main.feed /\ main'.gen = main.gen
      /\ main'.handoffs = main.handoffs /\ main'.owns = main.owns
      /\ main'.i = main.i /\ main'.pc = "skip" /\ main'.skip = main.skip - 1
  BY ONLY <1>1, <1>2, <1>3 DEF MainTypes
<1>5. ASSUME NEW S, Parse(S), OnPath(S) PROVE OnPath(S)'
  <2>1. main.i + main.skip = main'.i + main'.skip + 1
    BY <1>2, <1>4
  <2> QED BY <1>1, <1>4, <1>5, <2>1 DEF OnPath
<1>6. main'.i >= main.i
  BY <1>2, <1>4
<1> QED BY <1>1, <1>2, <1>4, <1>5, <1>6, PassStep

(* The commands of the pass: from here on there is one result. *)
LEMMA CreateStep == HqInv /\ CreateCommands => HqInv'
<1> SUFFICES ASSUME HqInv, CreateCommands PROVE HqInv'
  OBVIOUS
<1>1. /\ main.pc = "create" /\ UNCHANGED Theirs /\ UNCHANGED <<dpPos, request>>
      /\ out' = out + 1
  BY DEF CreateCommands, MainKeeps, config, dict, Theirs
<1>2. PICK c \in {"passJoin", "finalJoin"} : main' = [main EXCEPT !.pc = c]
  BY DEF CreateCommands
<1>3. c \in MainPC /\ c \notin {"idle", "return", "inline"}
  BY DEF MainPC
<1>4. out = 0
  BY <1>1 DEF HqInv, OneResult
<1>5. dpPos' \in Nat /\ request' \in BOOLEAN /\ out' = 1 /\ out' \in Nat /\ InPass
  BY <1>1, <1>4 DEF HqInv, Types, InPass
<1>6. /\ Types' /\ ColPlaces' /\ Alone' /\ Published' /\ Hasher' /\ Recorded'
      /\ main'.feed = main.feed /\ main'.gen = main.gen /\ main'.i = main.i
      /\ main'.pc = c
  BY <1>1, <1>2, <1>3, <1>5, PlainMove
<1>7. Waited'
  BY <1>1, <1>6 DEF HqInv, Waited, Theirs
<1>8. OneResult'
  BY <1>5, <1>6 DEF OneResult
<1>9. Dictionary'
  BY <1>1, <1>6, DPDictionary DEF OnPath
<1> QED BY <1>6, <1>7, <1>8, <1>9 DEF HqInv

-----------------------------------------------------------------------------
(* Joining the collector *)

(* A collector that has been waited for is at its end. *)
LEMMA JoinedCollector ==
    ASSUME HqInv, ColWait, col' = Joined, InPass
    PROVE  /\ col' \in ColTypes /\ col'.pc = "idle" /\ col'.i = col.i
           /\ col'.owns = col.owns /\ col'.handoffs = col.handoffs
           /\ col.pc \in {"done", "idle"} /\ col.i >= LoopEnd
<1>1. col \in ColTypes /\ "idle" \in ColPC
  BY DEF HqInv, Types, ColPC
<1>2. col.pc \in {"done", "idle"}
  BY DEF HqInv, Alone, ColWait, InPass
<1>3. col.i >= LoopEnd
  BY <1>2 DEF HqInv, ColPlaces, InPass
<1>4. CASE busy
  BY <1>1, <1>2, <1>3, <1>4 DEF Joined, ColTypes
<1>5. CASE ~busy
  <2>1. col.pc = "idle"
    BY <1>5 DEF HqInv, Alone, InPass
  <2> QED BY <1>1, <1>2, <1>3, <1>5, <2>1 DEF Joined
<1> QED BY <1>4, <1>5

(* A pass without a feed starts from the first position, over every match  *)
(* and every recorded handoff.                                             *)
LEMMA Replay ==
    ASSUME HqInv, main.pc # "idle", main.pc # "return",
           col' \in ColTypes, col'.pc = "idle", col'.i = col.i, col'.owns = col.owns,
           col'.handoffs = col.handoffs, col.pc \in {"done", "idle"}, col.i >= LoopEnd,
           UNCHANGED <<config, ready, aborted, dict, matches, bufGen, skipDict, stored>>,
           busy' = FALSE, out' = 0, NEW pass \in Nat, NEW g \in Nat,
           main' = Top(IterateInit("wait", pass, FALSE, g)),
           \A p \in Positions : p < LoopEnd => matches[p].gen <= g
    PROVE  HqInv'
<1> DEFINE m == IterateInit("wait", pass, FALSE, g)
<1>1. /\ m \in MainTypes /\ m.i = 0 /\ m.handoffs = 0 /\ m.owns = FALSE
      /\ m.feed = FALSE /\ m.gen = g
  BY DEF MainTypes, IterateInit, MainPC
<1> HIDE DEF m
<1>2. /\ main' \in MainTypes /\ main'.i = 0 /\ main'.handoffs = 0
      /\ main'.owns = FALSE /\ main'.feed = FALSE /\ main'.gen = g
      /\ main'.pc \in {"dpPos", "wait"}
  <2>1. main' = Top(m)
    BY DEF m
  <2>2. ~(m.i >= LoopEnd)
    BY <1>1, LoopRange
  <2> QED BY ONLY <1>1, <2>1, <2>2, TopFields
<1>3. Written' = Written /\ Written = col.i /\ Written' >= LoopEnd
  BY DEF Written
<1>4. Types'
  BY <1>2 DEF HqInv, Types, config, dict
<1>5. ColPlaces'
  BY <1>2, LoopRange DEF ColPlaces
<1>6. Alone'
  BY <1>2, <1>4 DEF Alone
<1>7. Published'
  BY <1>3 DEF HqInv, Published, config, dict
<1>8. Waited'
  BY <1>2, LoopRange DEF Waited
<1>9. Hasher'
  BY <1>2, <1>3 DEF HqInv, Hasher
<1>10. OneResult'
  BY <1>2 DEF OneResult
<1>11. Recorded'
  <2>1. count' = count /\ at' = at /\ count \in Nat
    BY DEF HqInv, Types, dict
  <2>2. /\ count = col.handoffs /\ (col.owns <=> count % 2 = 1)
        /\ \A h \in 0 .. count - 1 : at[h] <= col.i
    BY DEF HqInv, Recorded
  <2>3. main'.handoffs <= count' /\ (main'.owns <=> main'.handoffs % 2 = 1)
    BY ONLY <1>2, <2>1
  <2>4. \A h \in 0 .. main'.handoffs - 1 : at'[h] <= main'.i
    BY ONLY <1>2
  <2> QED BY <2>1, <2>2, <2>3, <2>4 DEF Recorded
<1>12. Dictionary'
  <2> SUFFICES ASSUME DictHandoff' PROVE \E S : (Parse(S) /\ Honest(S) /\ OnPath(S))'
    BY <1>2 DEF Dictionary
  <2>1. DictHandoff
    BY DEF DictHandoff, config
  <2>2. PICK S : Parse(S) /\ Honest(S) /\ OnPath(S)
    BY <2>1 DEF HqInv, Dictionary
  <2>3. Parse(S)' /\ Honest(S)'
    BY <1>3, <2>2, SameParse DEF config, dict
  <2>4. OnPath(S)'
    BY <1>2, <2>2 DEF OnPath, Parse
  <2> QED BY <2>3, <2>4
<1> QED
  BY <1>4, <1>5, <1>6, <1>7, <1>8, <1>9, <1>10, <1>11, <1>12 DEF HqInv

LEMMA InlineStep == HqInv /\ InlineCollected => HqInv'
<1> SUFFICES ASSUME HqInv, InlineCollected PROVE HqInv'
  OBVIOUS
<1>1. /\ main.pc = "inline" /\ col.pc = "done" /\ col' = [col EXCEPT !.pc = "idle"]
      /\ main' = Top(IterateInit("wait", 0, FALSE, bufGen))
      /\ UNCHANGED <<config, ready, aborted, dict, matches, bufGen, skipDict, stored>>
      /\ busy' = busy /\ out' = out
  BY DEF InlineCollected
<1>2. /\ col \in ColTypes /\ "idle" \in ColPC /\ bufGen \in Nat /\ NumBytes \in Nat
      /\ busy \in BOOLEAN
  BY HqAssumption DEF HqInv, Types, ColPC
<1>3. /\ col' \in ColTypes /\ col'.pc = "idle" /\ col'.i = col.i /\ col'.owns = col.owns
      /\ col'.handoffs = col.handoffs
  BY <1>1, <1>2 DEF ColTypes
<1>4. col.i >= LoopEnd /\ Written = col.i /\ col.i \in Nat
  BY <1>1, <1>2 DEF HqInv, ColPlaces, Written, ColTypes
<1>5. busy' = FALSE /\ out' = 0
  BY <1>1, <1>2 DEF HqInv, Alone, OneResult
<1>6. \A p \in Positions : p < LoopEnd => matches[p].gen <= bufGen
  BY <1>2, <1>4, LoopRange DEF HqInv, Published, Positions
<1>7. main.pc # "idle" /\ main.pc # "return" /\ col.pc \in {"done", "idle"} /\ 0 \in Nat
  BY <1>1
<1> QED BY <1>1, <1>2, <1>3, <1>4, <1>5, <1>6, <1>7, Replay

(* The second pass of quality 11 keeps the slice of the first: whatever    *)
(* pass 0 went through, the slice holds the matches of every position.     *)
LEMMA SecondPassStep == HqInv /\ SecondPass => HqInv'
<1> SUFFICES ASSUME HqInv, SecondPass PROVE HqInv'
  OBVIOUS
<1>1. /\ main.pc = "passJoin" /\ ColWait /\ col' = Joined
      /\ main' = Top(IterateInit("wait", 1, FALSE, main.gen))
      /\ UNCHANGED <<config, ready, aborted, dict, matches, bufGen, skipDict, stored>>
      /\ busy' = FALSE /\ out' = 0
  BY DEF SecondPass
<1>2. InPass /\ main.pc # "idle" /\ main.pc # "return"
  BY <1>1 DEF InPass
<1>3. /\ col' \in ColTypes /\ col'.pc = "idle" /\ col'.i = col.i
      /\ col'.owns = col.owns /\ col'.handoffs = col.handoffs
      /\ col.pc \in {"done", "idle"} /\ col.i >= LoopEnd
  BY <1>1, <1>2, JoinedCollector
<1>4. main.gen \in Nat /\ main.feed \in BOOLEAN /\ ready \in Nat /\ 1 \in Nat
  BY DEF HqInv, Types, MainTypes
<1>5. ASSUME NEW p \in Positions, p < LoopEnd PROVE matches[p].gen <= main.gen
  <2>1. CASE main.feed
    <3>1. ready >= LoopEnd /\ main.gen = 0
      BY <1>1, <2>1 DEF HqInv, Waited
    <3>2. p < Written /\ p < ready
      <4>1. Written = col.i /\ col.i \in Nat /\ p \in Nat
        BY <1>3, HqAssumption DEF Written, HqInv, Types, ColTypes, Positions
      <4> QED BY <1>3, <1>4, <1>5, <3>1, <4>1, LoopRange
    <3>3. matches[p].gen = 0
      BY <3>2 DEF HqInv, Published
    <3> QED BY <3>1, <3>3
  <2>2. CASE ~main.feed
    BY <1>1, <1>5, <2>2 DEF HqInv, Waited
  <2> QED BY <1>4, <2>1, <2>2
<1> QED BY <1>1, <1>2, <1>3, <1>4, <1>5, Replay

(* An aborted pass restarts over the buffer the collector ended with. *)
LEMMA RestartStep == HqInv /\ Restart => HqInv'
<1> SUFFICES ASSUME HqInv, Restart PROVE HqInv'
  OBVIOUS
<1>1. /\ main.pc = "abortJoin" /\ ColWait /\ col' = Joined
      /\ main' = Top(IterateInit("wait", main.pass, FALSE, bufGen))
      /\ UNCHANGED <<config, ready, aborted, dict, matches, bufGen, skipDict, stored>>
      /\ busy' = FALSE /\ out' = 0
  BY DEF Restart
<1>2. InPass /\ main.pc # "idle" /\ main.pc # "return"
  BY <1>1 DEF InPass
<1>3. /\ col' \in ColTypes /\ col'.pc = "idle" /\ col'.i = col.i
      /\ col'.owns = col.owns /\ col'.handoffs = col.handoffs
      /\ col.pc \in {"done", "idle"} /\ col.i >= LoopEnd
  BY <1>1, <1>2, JoinedCollector
<1>4. main.pass \in Nat /\ bufGen \in Nat
  BY DEF HqInv, Types, MainTypes
<1>5. ASSUME NEW p \in Positions, p < LoopEnd PROVE matches[p].gen <= bufGen
  <2>1. Written = col.i /\ col.i \in Nat /\ p \in Nat
    BY <1>3, HqAssumption DEF Written, HqInv, Types, ColTypes, Positions
  <2>2. p < Written
    BY <1>3, <1>5, <2>1, LoopRange
  <2> QED BY <2>2 DEF HqInv, Published
<1> QED BY <1>1, <1>2, <1>3, <1>4, <1>5, Replay

(* The end of a call, after the join. *)
LEMMA ReturnStep ==
    ASSUME HqInv, InPass, ColWait, col' = Joined, busy' = FALSE, skipDict' = FALSE,
           main' = [main EXCEPT !.pc = "return"], out' = 1,
           UNCHANGED <<config, ready, aborted, dict, matches, bufGen>>,
           stored' \in [Hashed -> Nat],
           \A p \in Hashed : stored'[p] = 1
    PROVE  HqInv'
<1>1. /\ col' \in ColTypes /\ col'.pc = "idle" /\ col'.i = col.i
      /\ col'.owns = col.owns /\ col'.handoffs = col.handoffs
      /\ col.pc \in {"done", "idle"} /\ col.i >= LoopEnd
  BY JoinedCollector
<1>2. /\ main'.feed = main.feed /\ main'.gen = main.gen /\ main'.i = main.i
      /\ main'.handoffs = main.handoffs /\ main'.owns = main.owns
      /\ main'.pc = "return" /\ main' \in MainTypes
  <2>1. "return" \in MainPC /\ main \in MainTypes
    BY DEF HqInv, Types, MainPC
  <2> QED BY <2>1, MovePC
<1>3. Written' = Written
  BY <1>1 DEF Written
<1>4. Types'
  BY <1>1, <1>2 DEF HqInv, Types, config, dict
<1>5. ColPlaces'
  BY <1>1 DEF ColPlaces
<1>6. Alone'
  BY <1>1, <1>2 DEF HqInv, Alone, config
<1>7. Published'
  BY <1>1, <1>3 DEF HqInv, Published, config, dict
<1>8. Waited'
  BY <1>2 DEF HqInv, Waited, InPass
<1>9. Hasher'
  BY <1>2 DEF Hasher
<1>10. OneResult'
  BY <1>2 DEF OneResult
<1>11. Recorded'
  BY <1>1, <1>2 DEF HqInv, Recorded, dict
<1>12. Dictionary'
  <2> SUFFICES ASSUME DictHandoff' PROVE \E S : (Parse(S) /\ Honest(S) /\ OnPath(S))'
    BY <1>2 DEF Dictionary
  <2>1. DictHandoff
    BY DEF DictHandoff, config
  <2>2. PICK S : Parse(S) /\ Honest(S) /\ OnPath(S)
    BY <2>1 DEF HqInv, Dictionary
  <2>3. Parse(S)' /\ Honest(S)'
    BY <1>3, <2>2, SameParse DEF config, dict
  <2>4. OnPath(S)'
    BY <1>2 DEF OnPath
  <2> QED BY <2>3, <2>4
<1> QED
  BY <1>4, <1>5, <1>6, <1>7, <1>8, <1>9, <1>10, <1>11, <1>12 DEF HqInv

LEMMA RedoStep == HqInv /\ RedoSerially => HqInv'
<1> SUFFICES ASSUME HqInv, RedoSerially PROVE HqInv'
  OBVIOUS
<1>1. /\ InPass /\ ColWait /\ col' = Joined /\ busy' = FALSE /\ skipDict' = FALSE
      /\ main' = [main EXCEPT !.pc = "return"] /\ out' = 1
      /\ UNCHANGED <<config, ready, aborted, dict, matches, bufGen>>
      /\ stored' = [p \in Hashed |-> 1]
  BY DEF RedoSerially, InPass
<1>2. stored' \in [Hashed -> Nat] /\ \A p \in Hashed : stored'[p] = 1
  BY <1>1
<1> QED BY <1>1, <1>2, ReturnStep

LEMMA FinalJoinStep == HqInv /\ FinalJoin => HqInv'
<1> SUFFICES ASSUME HqInv, FinalJoin PROVE HqInv'
  OBVIOUS
<1>1. /\ main.pc = "finalJoin" /\ ColWait /\ col' = Joined /\ busy' = FALSE
      /\ skipDict' = FALSE /\ main' = [main EXCEPT !.pc = "return"]
      /\ UNCHANGED <<config, ready, aborted, dict, matches, bufGen>>
      /\ stored' = stored /\ out' = out
  BY DEF FinalJoin
<1>2. InPass /\ out' = 1 /\ stored \in [Hashed -> Nat]
  BY <1>1 DEF HqInv, OneResult, InPass, Types
<1>3. col.pc \in {"done", "idle"} /\ col.i >= LoopEnd
  BY <1>1, <1>2, JoinedCollector
<1>4. ASSUME NEW p \in Hashed PROVE stored[p] = 1
  <2>1. Written = col.i /\ col.i \in Nat /\ p \in Nat /\ p < LoopEnd
    BY <1>3, HashedRange DEF Written, HqInv, Types, ColTypes
  <2>2. p < Written
    BY <1>3, <2>1, LoopRange
  <2> QED BY <1>1, <2>2 DEF HqInv, Hasher
<1> QED BY <1>1, <1>2, <1>4, ReturnStep

(* A new call. *)
LEMMA BeginStep == HqInv /\ Begin => HqInv'
<1> SUFFICES ASSUME HqInv, Begin PROVE HqInv'
  OBVIOUS
<1>1. /\ main.pc \in {"idle", "return"} /\ hq' \in BOOLEAN /\ compound' \in BOOLEAN
      /\ long' \in LongSets
      /\ parallel' = parallel /\ ready' = 0 /\ aborted' = FALSE /\ dpPos' = 0
      /\ request' = FALSE /\ count' = 0 /\ at' = at
      /\ matches' = [p \in Positions |-> None] /\ bufGen' = 0
      /\ stored' = [p \in Hashed |-> 0] /\ col' = ColInit("check")
      /\ busy' = parallel /\ out' = 0 /\ skipDict' = skipDict
      /\ main' = IterateInit(IF parallel THEN "dpPos" ELSE "inline", 0, parallel, 0)
  BY DEF Begin
<1>2. /\ NumBytes \in Nat /\ MaxHandoffs \in Nat /\ MaxGrow \in Nat
      /\ LongSets \subseteq SUBSET Positions
  BY HqAssumption DEF Positions
<1>3. /\ col' \in ColTypes /\ col'.pc = "check" /\ col'.i = 0 /\ col'.owns = FALSE
      /\ col'.handoffs = 0
  BY <1>1, <1>2 DEF ColInit, ColTypes, ColPC
<1>4. /\ main' \in MainTypes /\ main'.i = 0 /\ main'.handoffs = 0 /\ main'.gen = 0
      /\ main'.owns = FALSE /\ main'.feed = parallel
      /\ main'.pc = IF parallel THEN "dpPos" ELSE "inline"
  <2>1. parallel \in BOOLEAN /\ (IF parallel THEN "dpPos" ELSE "inline") \in MainPC
    BY DEF HqInv, Types, MainPC
  <2> QED BY <1>1, <2>1 DEF IterateInit, MainTypes
<1>5. Types'
  <2>1. matches' \in [Positions -> [gen : Nat, dict : BOOLEAN]]
    <3>1. None \in [gen : Nat, dict : BOOLEAN]
      BY <1>2 DEF None
    <3> QED BY <1>1, <3>1
  <2>2. /\ stored' \in [Hashed -> Nat] /\ at' \in [0 .. MaxHandoffs - 1 -> Nat]
        /\ parallel' \in BOOLEAN /\ busy' \in BOOLEAN /\ skipDict' \in BOOLEAN
    BY <1>1 DEF HqInv, Types
  <2>3. /\ count' \in 0 .. MaxHandoffs
        /\ ready' \in Nat /\ dpPos' \in Nat /\ bufGen' \in Nat /\ out' \in Nat
    BY <1>1, <1>2
  <2>4. long' \in SUBSET Positions
    BY ONLY <1>1, <1>2
  <2>5. aborted' \in BOOLEAN /\ request' \in BOOLEAN /\ hq' \in BOOLEAN
        /\ compound' \in BOOLEAN
    BY ONLY <1>1
  <2> QED BY ONLY <1>3, <1>4, <2>1, <2>2, <2>3, <2>4, <2>5 DEF Types
<1>6. Written' = 0
  BY <1>3 DEF Written
<1>7. ColPlaces' /\ OneResult'
  BY <1>1, <1>3, <1>4 DEF ColPlaces, OneResult
<1>8. Alone'
  BY <1>1, <1>3, <1>4 DEF Alone
<1>9. Published' /\ Waited'
  BY <1>1, <1>4, <1>6, LoopRange DEF Published, Waited, Positions
<1>10. Hasher'
  <2>1. \A p \in Hashed : stored'[p] = 0 /\ ~(p < 0)
    BY ONLY <1>1, HashedRange
  <2>2. skipDict' = FALSE
    BY <1>1 DEF HqInv, Hasher
  <2>3. ~col'.owns /\ main'.pc # "return"
    BY ONLY <1>3, <1>4
  <2> QED BY ONLY <1>6, <2>1, <2>2, <2>3 DEF Hasher
<1>11. Recorded'
  BY ONLY <1>1, <1>3, <1>4 DEF Recorded
<1>12. Dictionary'
  <2>1. (Parse({0}) /\ Honest({0}) /\ OnPath({0}))'
    BY <1>4, <1>6 DEF Parse, Honest, OnPath
  <2> QED BY <1>4, <2>1 DEF Dictionary
<1> QED
  BY <1>5, <1>7, <1>8, <1>9, <1>10, <1>11, <1>12 DEF HqInv

-----------------------------------------------------------------------------
(* Steps of the collector *)

(* Where a collector runs, the caller is inside a call: at work with a     *)
(* feed, or waiting for the collector it runs in place.                    *)
LEMMA Collecting ==
    ASSUME HqInv, col.pc \notin {"idle", "done"}
    PROVE  /\ main.pc \notin {"idle", "return"}
           /\ main.feed \/ main.pc = "inline"
           /\ ready <= Written
BY DEF HqInv, Alone, Published

LEMMA ColFrame ==
    ASSUME HqInv, col.pc \notin {"idle", "done"}, col'.pc # "idle",
           UNCHANGED <<config, main, busy, out>>, ready' \in Nat, ready' >= ready
    PROVE  Alone' /\ Waited' /\ OneResult'
<1>1. main.pc \notin {"idle", "return"} /\ (main.feed \/ main.pc = "inline")
  BY Collecting
<1>2. /\ main.i \in Nat /\ LoopEnd \in Nat /\ ready \in Nat /\ main.feed \in BOOLEAN
  BY LoopRange DEF HqInv, Types, MainTypes
<1>3. Alone'
  BY <1>1 DEF HqInv, Alone, config
<1>4. Waited'
  BY <1>1, <1>2 DEF HqInv, Waited
<1>5. OneResult'
  BY DEF HqInv, OneResult
<1> QED BY <1>3, <1>4, <1>5

(* Steps that leave the matches and the record of handoffs alone. *)
LEMMA ColDictionary ==
    ASSUME HqInv, UNCHANGED <<config, main, count, at, matches>>, Written' = Written
    PROVE  Dictionary'
<1> SUFFICES ASSUME DictHandoff'
             PROVE  /\ \E S : (Parse(S) /\ Honest(S) /\ OnPath(S))'
                    /\ main'.pc = "step" => (main'.owns <=> ~matches'[main'.i].dict)
  BY DEF Dictionary
<1>1. DictHandoff
  BY DEF DictHandoff, config
<1>2. PICK S : Parse(S) /\ Honest(S) /\ OnPath(S)
  BY <1>1 DEF HqInv, Dictionary
<1>3. Parse(S)' /\ Honest(S)'
  BY <1>2, SameParse DEF config
<1>4. OnPath(S)'
  BY <1>2 DEF OnPath
<1> QED BY <1>1, <1>3, <1>4 DEF HqInv, Dictionary

LEMMA CheckStep == HqInv /\ ColCheck => HqInv'
<1> SUFFICES ASSUME HqInv, ColCheck PROVE HqInv'
  OBVIOUS
<1>1. /\ col.pc = "check" /\ col.i < LoopEnd
      /\ UNCHANGED <<config, ready, aborted, dict, matches, bufGen, skipDict,
                     stored, busy, main, out>>
  BY DEF ColCheck
<1>2. PICK c \in {"handoff", "grow"} :
          /\ col' = [col EXCEPT !.pc = c]
          /\ c = "handoff" => col.handoffs < MaxHandoffs
  BY DEF ColCheck
<1>3. col \in ColTypes /\ c \in ColPC
  BY DEF HqInv, Types, ColPC
<1>4. /\ col' \in ColTypes /\ col'.pc = c /\ col'.i = col.i /\ col'.owns = col.owns
      /\ col'.handoffs = col.handoffs
  BY ONLY <1>2, <1>3 DEF ColTypes
<1>5. Written' = Written
  BY <1>1, <1>4 DEF Written
<1>6. Types'
  BY <1>1, <1>4 DEF HqInv, Types, config, dict
<1>7. Alone' /\ Waited' /\ OneResult'
  BY <1>1, <1>4, <1>6, ColFrame DEF Types
<1>8. ColPlaces'
  BY <1>1, <1>2, <1>4 DEF ColPlaces
<1>9. Published'
  BY <1>1, <1>4, <1>5 DEF HqInv, Published
<1>10. Hasher'
  BY <1>1, <1>4, <1>5 DEF HqInv, Hasher
<1>11. Recorded'
  BY <1>1, <1>4 DEF HqInv, Recorded, dict
<1>12. Dictionary'
  BY <1>1, <1>5, ColDictionary DEF dict
<1> QED
  BY <1>6, <1>7, <1>8, <1>9, <1>10, <1>11, <1>12 DEF HqInv

(* A handoff is recorded at the position the collector is about to search, *)
(* behind every position it has searched.                                  *)
LEMMA HandoffStep == HqInv /\ ColHandoff => HqInv'
<1> SUFFICES ASSUME HqInv, ColHandoff PROVE HqInv'
  OBVIOUS
<1>1. /\ col.pc = "handoff" /\ at' = [at EXCEPT ![col.handoffs] = col.i]
      /\ count' = col.handoffs + 1
      /\ col' = [col EXCEPT !.pc = "clear", !.handoffs = @ + 1]
      /\ UNCHANGED <<config, ready, aborted, dpPos, request, matches, bufGen,
                     skipDict, stored, busy, main, out>>
  BY DEF ColHandoff
<1>2. /\ col \in ColTypes /\ "clear" \in ColPC /\ col.handoffs \in Nat
      /\ NumBytes \in Nat /\ MaxHandoffs \in Nat /\ col.i \in Nat
      /\ at \in [0 .. MaxHandoffs - 1 -> Nat] /\ count = col.handoffs
      /\ col.handoffs < MaxHandoffs /\ col.i < LoopEnd
  BY <1>1, HqAssumption DEF HqInv, Types, ColTypes, ColPC, Recorded, ColPlaces
<1>3. /\ col' \in ColTypes /\ col'.pc = "clear" /\ col'.i = col.i
      /\ col'.owns = col.owns /\ col'.handoffs = col.handoffs + 1
  <2>1. col.handoffs + 1 \in Nat
    BY <1>2
  <2>2. col \in ColTypes /\ "clear" \in ColPC
    BY <1>2
  <2>3. col' = [col EXCEPT !.pc = "clear", !.handoffs = @ + 1]
    BY <1>1
  <2> QED BY ONLY <2>1, <2>2, <2>3 DEF ColTypes
<1>4. Written' = Written /\ Written = col.i
  BY <1>1, <1>3 DEF Written
<1>5. /\ at' \in [0 .. MaxHandoffs - 1 -> Nat] /\ at'[count] = col.i
      /\ \A h \in 0 .. count - 1 : at'[h] = at[h]
  BY ONLY <1>1, <1>2
<1>6. Types'
  <2>1. count' \in 0 .. MaxHandoffs
    BY <1>1, <1>2
  <2> QED BY <1>1, <1>3, <1>5, <2>1 DEF HqInv, Types, config
<1>7. Alone' /\ Waited' /\ OneResult'
  BY <1>1, <1>3, <1>6, ColFrame DEF Types
<1>8. ColPlaces'
  BY <1>2, <1>3 DEF ColPlaces
<1>9. Published'
  BY <1>1, <1>3, <1>4 DEF HqInv, Published
<1>10. Hasher'
  BY <1>1, <1>3, <1>4 DEF HqInv, Hasher
<1>11. Recorded'
  <2>1. /\ main.handoffs \in Nat /\ main.handoffs <= count
        /\ main.owns <=> main.handoffs % 2 = 1
        /\ \A h \in 0 .. main.handoffs - 1 : at[h] <= main.i
    BY DEF HqInv, Types, MainTypes, Recorded
  <2>2. \A h \in 0 .. main.handoffs - 1 : at'[h] <= main.i
    <3>1. \A h \in 0 .. main.handoffs - 1 : h \in 0 .. count - 1
      BY <1>2, <2>1
    <3> QED BY <1>5, <2>1, <3>1
  <2>3. \A h \in 0 .. count' - 1 : at'[h] <= col.i
    <3>1. \A h \in 0 .. count - 1 : at[h] <= col.i
      BY DEF HqInv, Recorded
    <3>2. \A h \in 0 .. count' - 1 : h \in 0 .. count - 1 \/ h = count
      BY <1>1, <1>2
    <3>3. col.i <= col.i
      BY <1>2
    <3> QED BY <1>5, <3>1, <3>2, <3>3
  <2>4. col.owns <=> count % 2 = 1
    BY <1>1 DEF HqInv, Recorded
  <2>5. count' > 0 /\ (col.owns <=> count' % 2 = 0)
    <3>1. count' = count + 1 /\ count \in Nat
      BY <1>1, <1>2
    <3>2. (count + 1) % 2 = 0 <=> count % 2 = 1
      BY ONLY <3>1
    <3> QED BY <2>4, <3>1, <3>2
  <2>6. main.handoffs <= count'
    BY <1>1, <1>2, <2>1
  <2> QED BY <1>1, <1>3, <2>1, <2>2, <2>3, <2>5, <2>6 DEF HqInv, Recorded
<1>12. Dictionary'
  <2> SUFFICES ASSUME DictHandoff'
               PROVE  /\ \E S : (Parse(S) /\ Honest(S) /\ OnPath(S))'
                      /\ main'.pc = "step" => (main'.owns <=> ~matches'[main'.i].dict)
    BY DEF Dictionary
  <2>1. DictHandoff
    BY <1>1 DEF DictHandoff, config
  <2>2. PICK S : Parse(S) /\ Honest(S) /\ OnPath(S)
    BY <2>1 DEF HqInv, Dictionary
  <2>3. Parse(S)'
    BY <1>1, <1>4, <2>2 DEF Parse, Follow, MatchLen, config
  <2>4. OnPath(S)'
    BY <1>1, <2>2 DEF OnPath
  <2>5. ASSUME NEW p \in S, p < Written
        PROVE  \E n : HandoffsBy(n, p)' /\ (matches'[p].dict <=> n % 2 = 0)
    <3>1. PICK n : HandoffsBy(n, p) /\ (matches[p].dict <=> n % 2 = 0)
      BY <2>2, <2>5 DEF Honest
    <3>2. n \in 0 .. count' /\ n \in Nat /\ n <= count
      BY <1>1, <1>2, <3>1 DEF HandoffsBy
    <3>3. \A h \in 0 .. n - 1 : at'[h] <= p
      <4>1. \A h \in 0 .. n - 1 : h \in 0 .. count - 1
        BY <1>2, <3>2
      <4> QED BY <1>5, <3>1, <4>1 DEF HandoffsBy
    <3>4. \A h \in n .. count' - 1 : at'[h] > p
      <4>1. \A h \in n .. count' - 1 : h \in n .. count - 1 \/ h = count
        BY <1>1, <1>2, <3>2
      <4>2. \A h \in n .. count - 1 : h \in 0 .. count - 1 /\ at[h] > p
        BY <1>2, <3>1, <3>2 DEF HandoffsBy
      <4> QED BY <1>4, <1>5, <2>5, <4>1, <4>2
    <3>5. HandoffsBy(n, p)'
      BY <3>2, <3>3, <3>4 DEF HandoffsBy
    <3> QED BY <1>1, <3>1, <3>5
  <2>6. Honest(S)'
    BY <1>4, <2>5 DEF Honest
  <2> QED BY <1>1, <2>1, <2>3, <2>4, <2>6 DEF HqInv, Dictionary
<1> QED
  BY <1>6, <1>7, <1>8, <1>9, <1>10, <1>11, <1>12 DEF HqInv

LEMMA ClearStep == HqInv /\ ColClearRequest => HqInv'
<1> SUFFICES ASSUME HqInv, ColClearRequest PROVE HqInv'
  OBVIOUS
<1>1. /\ col.pc = "clear" /\ request' = FALSE /\ skipDict' = ~col.owns
      /\ col' = [col EXCEPT !.pc = "grow", !.owns = ~@]
      /\ UNCHANGED <<config, ready, aborted, dpPos, count, at, matches, bufGen,
                     stored, busy, main, out>>
  BY DEF ColClearRequest
<1>2. col \in ColTypes /\ "grow" \in ColPC /\ col.owns \in BOOLEAN /\ count \in Nat
  BY HqAssumption DEF HqInv, Types, ColTypes, ColPC
<1>3. /\ col' \in ColTypes /\ col'.pc = "grow" /\ col'.i = col.i
      /\ col'.owns = ~col.owns /\ col'.handoffs = col.handoffs
  BY ONLY <1>1, <1>2 DEF ColTypes
<1>4. Written' = Written
  BY <1>1, <1>3 DEF Written
<1>5. Types'
  <2>1. request' \in BOOLEAN /\ skipDict' \in BOOLEAN
    BY <1>1, <1>2
  <2> QED BY <1>1, <1>3, <2>1 DEF HqInv, Types, config
<1>6. Alone' /\ Waited' /\ OneResult'
  BY <1>1, <1>3, <1>5, ColFrame DEF Types
<1>7. ColPlaces'
  BY <1>1, <1>3 DEF HqInv, ColPlaces
<1>8. Published'
  BY <1>1, <1>3, <1>4 DEF HqInv, Published
<1>9. Hasher'
  <2>1. main.pc \notin {"idle", "return"}
    BY <1>1, Collecting
  <2> QED BY <1>1, <1>3, <1>4, <2>1 DEF HqInv, Hasher
<1>10. Recorded'
  <2>1. col.owns <=> count % 2 = 0
    BY <1>1 DEF HqInv, Recorded
  <2>2. col'.owns <=> count % 2 = 1
    <3>1. count % 2 = 0 <=> ~(count % 2 = 1)
      BY ONLY <1>2
    <3> QED BY <1>2, <1>3, <2>1, <3>1
  <2> QED BY <1>1, <1>3, <2>2 DEF HqInv, Recorded
<1>11. Dictionary'
  BY <1>1, <1>4, ColDictionary
<1> QED
  BY <1>5, <1>6, <1>7, <1>8, <1>9, <1>10, <1>11 DEF HqInv

(* A reallocation aborts the feed before anything is written into the new  *)
(* buffer.                                                                 *)
LEMMA GrowStep == HqInv /\ ColGrow => HqInv'
<1> SUFFICES ASSUME HqInv, ColGrow PROVE HqInv'
  OBVIOUS
<1>1. /\ col.pc = "grow" /\ col' = [col EXCEPT !.pc = "find"]
      /\ (bufGen' = bufGen + 1 /\ aborted' = TRUE) \/ UNCHANGED <<bufGen, aborted>>
      /\ UNCHANGED <<config, ready, dict, matches, skipDict, stored, busy, main, out>>
  BY DEF ColGrow
<1>2. col \in ColTypes /\ "find" \in ColPC /\ bufGen \in Nat /\ aborted \in BOOLEAN
  BY DEF HqInv, Types, ColPC
<1>3. /\ col' \in ColTypes /\ col'.pc = "find" /\ col'.i = col.i
      /\ col'.owns = col.owns /\ col'.handoffs = col.handoffs
  BY ONLY <1>1, <1>2 DEF ColTypes
<1>4. Written' = Written
  BY <1>1, <1>3 DEF Written
<1>5. bufGen' \in Nat /\ bufGen' >= bufGen /\ aborted' \in BOOLEAN
  <2>1. CASE bufGen' = bufGen + 1 /\ aborted' = TRUE
    BY ONLY <1>2, <2>1
  <2>2. CASE UNCHANGED <<bufGen, aborted>>
    BY ONLY <1>2, <2>2
  <2> QED BY <1>1, <2>1, <2>2
<1>6. Types'
  BY <1>1, <1>3, <1>5 DEF HqInv, Types, config, dict
<1>7. Alone' /\ Waited' /\ OneResult'
  BY <1>1, <1>3, <1>6, ColFrame DEF Types
<1>8. ColPlaces'
  BY <1>1, <1>3 DEF HqInv, ColPlaces
<1>9. Published'
  <2>1. ASSUME NEW p \in Positions, p < Written
        PROVE  matches[p].gen <= bufGen' /\ (p < ready => matches[p].gen = 0)
    <3>1. matches[p].gen \in Nat
      BY DEF HqInv, Types
    <3>2. matches[p].gen <= bufGen /\ (p < ready => matches[p].gen = 0)
      BY <2>1 DEF HqInv, Published
    <3> QED BY <1>2, <1>5, <3>1, <3>2
  <2>2. ~aborted' => bufGen' = 0
    BY <1>1 DEF HqInv, Published
  <2>3. ready <= Written
    BY <1>1, Collecting
  <2> QED BY <1>1, <1>4, <2>1, <2>2, <2>3 DEF Published
<1>10. Hasher'
  BY <1>1, <1>3, <1>4 DEF HqInv, Hasher
<1>11. Recorded'
  BY <1>1, <1>3 DEF HqInv, Recorded, dict
<1>12. Dictionary'
  BY <1>1, <1>4, ColDictionary DEF dict
<1> QED
  BY <1>6, <1>7, <1>8, <1>9, <1>10, <1>11, <1>12 DEF HqInv

(* The collector searches its position: the parse grows by one, every      *)
(* position up to the next is written, and given to the hasher for the     *)
(* first time.                                                             *)
LEMMA FindStep == HqInv /\ ColFind => HqInv'
<1> SUFFICES ASSUME HqInv, ColFind PROVE HqInv'
  OBVIOUS
<1> DEFINE i    == col.i
           last == IF i \in long THEN i + MatchLen(i) - 1 ELSE i
           due  == ~aborted /\ last + 1 >= col.nextPublish
<1>1. /\ col.pc = "find"
      /\ matches' = [p \in Positions |->
            IF p = i THEN [gen |-> bufGen, dict |-> ~skipDict]
            ELSE IF p \in i + 1 .. last THEN [gen |-> bufGen, dict |-> FALSE]
            ELSE matches[p]]
      /\ stored' = [p \in Hashed |->
            IF p \in i .. last THEN stored[p] + 1 ELSE stored[p]]
      /\ col' = [col EXCEPT !.pc = IF due THEN "publish" ELSE "check",
                            !.i = IF due THEN last ELSE last + 1]
      /\ UNCHANGED <<config, ready, aborted, dict, bufGen, skipDict, busy, main, out>>
  BY DEF ColFind
<1>2. /\ col \in ColTypes /\ i \in Nat /\ i < LoopEnd /\ NumBytes \in Nat
      /\ LoopEnd \in Nat /\ LoopEnd <= NumBytes /\ bufGen \in Nat /\ ready \in Nat
      /\ skipDict \in BOOLEAN /\ aborted \in BOOLEAN
  BY <1>1, HqAssumption, LoopRange DEF HqInv, Types, ColTypes, ColPlaces
<1>3. i \in Positions
  BY <1>2 DEF Positions
<1>4. last \in Nat /\ i <= last /\ last < NumBytes /\ last + 1 = Follow(i)
  <2>1. MatchLen(i) \in 1 .. NumBytes - i
    BY <1>3, MatchRange
  <2> QED BY <1>2, <2>1 DEF Follow
<1>5. /\ col' \in ColTypes /\ col'.owns = col.owns /\ col'.handoffs = col.handoffs
      /\ \/ col'.pc = "publish" /\ col'.i = last /\ ~aborted
         \/ col'.pc = "check" /\ col'.i = last + 1
  <2> HIDE DEF last
  <2>1. last \in 0 .. NumBytes /\ last + 1 \in 0 .. NumBytes
    BY <1>2, <1>4
  <2>2. "publish" \in ColPC /\ "check" \in ColPC
    BY DEF ColPC
  <2>3. CASE due
    <3>1. col' = [col EXCEPT !.pc = "publish", !.i = last]
      BY <1>1, <2>3
    <3> QED BY <1>2, <2>1, <2>2, <2>3, <3>1 DEF ColTypes
  <2>4. CASE ~due
    <3>1. col' = [col EXCEPT !.pc = "check", !.i = last + 1]
      BY <1>1, <2>4
    <3> QED BY <1>2, <2>1, <2>2, <3>1 DEF ColTypes
  <2> QED BY <2>3, <2>4
<1> HIDE DEF last, due
<1>6. Written = i /\ Written' = last + 1
  BY <1>1, <1>5 DEF Written
<1>7. ready <= i
  BY <1>1, <1>6, Collecting
<1>8. /\ \A p \in Positions : p < i => matches'[p] = matches[p]
      /\ \A p \in Hashed : stored'[p] = IF i <= p /\ p <= last THEN stored[p] + 1
                                                              ELSE stored[p]
      /\ \A p \in Positions : i <= p /\ p <= last => matches'[p].gen = bufGen
      /\ matches'[i].dict = ~skipDict
      /\ matches' \in [Positions -> [gen : Nat, dict : BOOLEAN]]
      /\ stored' \in [Hashed -> Nat]
  <2>1. /\ matches \in [Positions -> [gen : Nat, dict : BOOLEAN]]
        /\ stored \in [Hashed -> Nat]
    BY DEF HqInv, Types
  <2>2. \A p \in Positions : p \in Nat
    BY <1>2 DEF Positions
  <2>3. [gen |-> bufGen, dict |-> ~skipDict] \in [gen : Nat, dict : BOOLEAN]
    BY <1>2
  <2>4. [gen |-> bufGen, dict |-> FALSE] \in [gen : Nat, dict : BOOLEAN]
    BY <1>2
  <2>5. matches' \in [Positions -> [gen : Nat, dict : BOOLEAN]]
    BY ONLY <1>1, <2>1, <2>3, <2>4
  <2>6. stored' \in [Hashed -> Nat]
    BY ONLY <1>1, <2>1
  <2>7. \A p \in Positions : p < i => matches'[p] = matches[p]
    BY ONLY <1>1, <1>2, <1>4, <2>2
  <2>8. \A p \in Hashed : stored'[p] = IF i <= p /\ p <= last THEN stored[p] + 1
                                                             ELSE stored[p]
    <3>1. \A p \in Hashed : p \in Nat
      BY HashedRange
    <3> QED BY ONLY <1>1, <1>2, <1>4, <3>1
  <2>9. \A p \in Positions : i <= p /\ p <= last => matches'[p].gen = bufGen
    BY ONLY <1>1, <1>2, <1>4, <2>2
  <2>10. matches'[i].dict = ~skipDict
    BY ONLY <1>1, <1>3
  <2> QED BY <2>5, <2>6, <2>7, <2>8, <2>9, <2>10
<1>9. Types'
  BY <1>1, <1>5, <1>8 DEF HqInv, Types, config, dict
<1>10. Alone' /\ Waited' /\ OneResult'
  <2>1. col.pc \notin {"idle", "done"} /\ col'.pc # "idle" /\ ready' >= ready
    BY <1>1, <1>2, <1>5
  <2>2. UNCHANGED <<config, main, busy, out>> /\ ready' \in Nat
    BY <1>1, <1>2
  <2> QED BY <2>1, <2>2, ColFrame
<1>11. ColPlaces'
  BY <1>1, <1>4, <1>5 DEF ColPlaces
<1>12. Published'
  <2>1. ready' <= Written'
    BY <1>1, <1>2, <1>4, <1>6, <1>7
  <2>2. ~aborted' => bufGen' = 0
    BY <1>1 DEF HqInv, Published
  <2>3. ASSUME NEW p \in Positions, p < Written'
        PROVE  matches'[p].gen <= bufGen /\ (p < ready => matches'[p].gen = 0)
    <3>1. p \in Nat
      BY <1>2 DEF Positions
    <3>2. CASE p < i
      BY <1>6, <1>8, <3>2 DEF HqInv, Published
    <3>3. CASE i <= p
      BY <1>2, <1>4, <1>6, <1>7, <1>8, <2>3, <3>1, <3>3
    <3> QED BY <1>2, <3>1, <3>2, <3>3
  <2> QED BY <1>1, <2>1, <2>2, <2>3 DEF Published
<1>13. Hasher'
  <2>1. main.pc \notin {"idle", "return"}
    BY <1>1, Collecting
  <2>2. ASSUME NEW p \in Hashed PROVE stored'[p] = IF p < Written' THEN 1 ELSE 0
    <3>1. p \in Nat /\ stored[p] = IF p < i THEN 1 ELSE 0
      BY <1>6, <2>1, HashedRange DEF HqInv, Hasher
    <3>2. stored'[p] = IF i <= p /\ p <= last THEN stored[p] + 1 ELSE stored[p]
      BY <1>8
    <3> QED BY <1>2, <1>4, <1>6, <3>1, <3>2
  <2> QED BY <1>1, <1>5, <2>1, <2>2 DEF HqInv, Hasher
<1>14. Recorded'
  <2>1. /\ count' = count /\ at' = at /\ main' = main /\ count \in Nat
        /\ MaxHandoffs \in Nat /\ count <= MaxHandoffs
        /\ at \in [0 .. MaxHandoffs - 1 -> Nat]
    BY <1>1, HqAssumption DEF dict, HqInv, Types
  <2>2. \A h \in 0 .. count - 1 : at[h] \in Nat /\ at[h] <= i
    BY <2>1 DEF HqInv, Recorded
  <2>3. col'.i \in Nat /\ i <= col'.i
    BY <1>2, <1>4, <1>5
  <2>4. \A h \in 0 .. count - 1 : at[h] <= col'.i
    BY ONLY <1>2, <2>2, <2>3
  <2> QED BY <1>1, <1>5, <2>1, <2>4 DEF HqInv, Recorded
<1>15. Dictionary'
  <2> SUFFICES ASSUME DictHandoff'
               PROVE  /\ \E S : (Parse(S) /\ Honest(S) /\ OnPath(S))'
                      /\ main'.pc = "step" => (main'.owns <=> ~matches'[main'.i].dict)
    BY DEF Dictionary
  <2>1. DictHandoff
    BY <1>1 DEF DictHandoff, config
  <2>2. PICK S : Parse(S) /\ Honest(S) /\ OnPath(S)
    BY <2>1 DEF HqInv, Dictionary
  <2>12. PICK S2 : S2 = S \cup {last + 1}
    OBVIOUS
  <2>3. /\ S \subseteq 0 .. i /\ 0 \in S /\ i \in S
        /\ \A p \in S : p < i => Follow(p) \in S
        /\ \A p, q \in S : p < q => Follow(p) <= q
    BY <1>6, <2>2 DEF Parse
  <2>4. \A p : Follow(p)' = Follow(p)
    BY <1>1 DEF Follow, MatchLen, config
  <2>5. Parse(S2)'
    <3>1. S2 \subseteq 0 .. last + 1 /\ 0 \in S2 /\ last + 1 \in S2
      BY <1>2, <1>4, <2>3, <2>12
    <3>2. ASSUME NEW p \in S2, p < last + 1 PROVE Follow(p) \in S2
      <4>1. p \in S /\ p \in Nat /\ p <= i
        BY <1>2, <1>4, <2>3, <2>12, <3>2
      <4>2. CASE p < i
        BY <2>3, <2>12, <4>1, <4>2
      <4>3. CASE p = i
        BY <1>4, <2>12, <4>3
      <4> QED BY <1>2, <4>1, <4>2, <4>3
    <3>3. ASSUME NEW p \in S2, NEW q \in S2, p < q PROVE Follow(p) <= q
      <4>1. p \in S /\ p \in Nat /\ p <= i
        <5>1. p \in S \/ p = last + 1
          BY <2>12
        <5>2. q \in Nat /\ q <= last + 1
          BY <1>2, <1>4, <2>3, <2>12
        <5> QED BY <1>2, <1>4, <2>3, <3>3, <5>1, <5>2
      <4>2. CASE q \in S
        BY <2>3, <3>3, <4>1, <4>2
      <4>3. CASE q = last + 1 /\ p < i
        <5>1. Follow(p) <= i /\ Follow(p) \in Nat
          <6>1. Follow(p) \in S
            BY <2>3, <4>1, <4>3
          <6>2. Follow(p) <= i
            BY <2>3, <4>1, <4>3
          <6>3. Follow(p) \in 0 .. i
            BY <2>3, <6>1
          <6> QED BY <1>2, <6>2, <6>3
        <5> QED BY <1>2, <1>4, <4>3, <5>1
      <4>4. CASE q = last + 1 /\ p = i
        BY <1>4, <4>4
      <4>5. q \in S \/ q = last + 1
        BY <2>12
      <4> QED BY <1>2, <4>1, <4>2, <4>3, <4>4, <4>5
    <3> QED BY <1>6, <2>4, <3>1, <3>2, <3>3 DEF Parse
  <2>6. \A n, p : HandoffsBy(n, p)' <=> HandoffsBy(n, p)
    BY <1>1 DEF HandoffsBy, dict
  <2>7. ASSUME NEW p \in S2, p < last + 1
        PROVE  \E n : HandoffsBy(n, p)' /\ (matches'[p].dict <=> n % 2 = 0)
    <3>1. p \in S /\ p \in Nat /\ p <= i /\ p \in Positions
      BY <1>2, <1>4, <2>3, <2>7, <2>12 DEF Positions
    <3>2. CASE p < i
      <4>1. PICK n : HandoffsBy(n, p) /\ (matches[p].dict <=> n % 2 = 0)
        BY <1>6, <2>2, <3>1, <3>2 DEF Honest
      <4> QED BY <1>8, <2>6, <3>1, <3>2, <4>1
    <3>3. CASE p = i
      <4>1. /\ count \in Nat /\ (col.owns <=> count % 2 = 1)
            /\ \A h \in 0 .. count - 1 : at[h] <= i
        BY <1>1 DEF HqInv, Types, Recorded
      <4>2. HandoffsBy(count, i)
        BY <4>1 DEF HandoffsBy
      <4>3. skipDict <=> col.owns
        BY <1>1, Collecting DEF HqInv, Hasher
      <4>4. count % 2 = 0 <=> ~(count % 2 = 1)
        BY ONLY <4>1
      <4>5. matches'[i].dict <=> count % 2 = 0
        BY <1>2, <1>8, <4>1, <4>3, <4>4
      <4> QED BY <2>6, <3>3, <4>2, <4>5
    <3> QED BY <1>2, <3>1, <3>2, <3>3
  <2>8. Honest(S2)'
    BY <1>6, <2>7 DEF Honest
  <2>9. OnPath(S2)'
    BY <1>1, <2>2, <2>12 DEF OnPath
  <2>10. ASSUME main.pc = "step" PROVE matches'[main.i] = matches[main.i]
    BY <1>6, <1>8, <2>10, Behind
  <2>11. main'.pc = "step" => (main'.owns <=> ~matches'[main'.i].dict)
    BY <1>1, <2>1, <2>10 DEF HqInv, Dictionary
  <2> QED BY <2>5, <2>8, <2>9, <2>11
<1> QED
  BY <1>9, <1>10, <1>11, <1>12, <1>13, <1>14, <1>15 DEF HqInv

LEMMA PublishStep == HqInv /\ ColPublish => HqInv'
<1> SUFFICES ASSUME HqInv, ColPublish PROVE HqInv'
  OBVIOUS
<1>1. /\ col.pc = "publish" /\ ready' = col.i + 1
      /\ col' = [col EXCEPT !.pc = "check", !.i = @ + 1,
                            !.nextPublish = col.i + 1 + PublishBatch]
      /\ UNCHANGED <<config, aborted, dict, matches, bufGen, skipDict, stored,
                     busy, main, out>>
  BY DEF ColPublish
<1>2. /\ col \in ColTypes /\ "check" \in ColPC /\ col.i \in Nat /\ col.i < NumBytes
      /\ NumBytes \in Nat /\ PublishBatch \in Nat /\ ready \in Nat /\ ~aborted
  BY <1>1, HqAssumption DEF HqInv, Types, ColTypes, ColPC, ColPlaces
<1>3. /\ col' \in ColTypes /\ col'.pc = "check" /\ col'.i = col.i + 1
      /\ col'.owns = col.owns /\ col'.handoffs = col.handoffs
  <2>1. col.i + 1 \in 0 .. NumBytes /\ col.i + 1 + PublishBatch \in Nat
    BY <1>2
  <2>2. col \in ColTypes /\ "check" \in ColPC
    BY <1>2
  <2>3. col' = [col EXCEPT !.pc = "check", !.i = @ + 1,
                           !.nextPublish = col.i + 1 + PublishBatch]
    BY <1>1
  <2> QED BY ONLY <2>1, <2>2, <2>3 DEF ColTypes
<1>4. Written' = Written /\ Written = col.i + 1
  BY <1>1, <1>3 DEF Written
<1>5. ready' \in Nat /\ ready <= Written /\ ready' >= ready
  BY <1>1, <1>2, <1>4, Collecting
<1>6. Types'
  BY <1>1, <1>3, <1>5 DEF HqInv, Types, config, dict
<1>7. Alone' /\ Waited' /\ OneResult'
  BY <1>1, <1>3, <1>5, ColFrame
<1>8. ColPlaces'
  BY <1>3 DEF ColPlaces
<1>9. Published'
  <2>1. ASSUME NEW p \in Positions, p < Written PROVE matches[p].gen = 0
    <3>1. matches[p].gen \in Nat /\ matches[p].gen <= bufGen /\ bufGen = 0
      BY <1>2, <2>1 DEF HqInv, Types, Published
    <3> QED BY <3>1
  <2>2. bufGen' = 0 /\ matches' = matches /\ ready' <= Written'
    BY <1>1, <1>2, <1>4 DEF HqInv, Published
  <2> QED BY <1>4, <2>1, <2>2 DEF Published
<1>10. Hasher'
  BY <1>1, <1>3, <1>4 DEF HqInv, Hasher
<1>11. Recorded'
  <2>1. /\ count' = count /\ at' = at /\ main' = main /\ count \in Nat
        /\ MaxHandoffs \in Nat /\ count <= MaxHandoffs
        /\ at \in [0 .. MaxHandoffs - 1 -> Nat]
    BY <1>1, HqAssumption DEF dict, HqInv, Types
  <2>2. \A h \in 0 .. count - 1 : at[h] \in Nat /\ at[h] <= col.i
    BY <2>1 DEF HqInv, Recorded
  <2>3. \A h \in 0 .. count - 1 : at[h] <= col.i + 1
    BY ONLY <1>2, <2>2
  <2> QED BY <1>1, <1>3, <2>1, <2>3 DEF HqInv, Recorded
<1>12. Dictionary'
  BY <1>1, <1>4, ColDictionary DEF dict
<1> QED
  BY <1>6, <1>7, <1>8, <1>9, <1>10, <1>11, <1>12 DEF HqInv

LEMMA FinishStep == HqInv /\ ColFinish => HqInv'
<1> SUFFICES ASSUME HqInv, ColFinish PROVE HqInv'
  OBVIOUS
<1>1. /\ col.pc = "check" /\ col.i >= LoopEnd
      /\ ready' = (IF aborted THEN ready ELSE NumBytes)
      /\ col' = [col EXCEPT !.pc = "done"]
      /\ UNCHANGED <<config, aborted, dict, matches, bufGen, skipDict, stored,
                     busy, main, out>>
  BY DEF ColFinish
<1>2. /\ col \in ColTypes /\ "done" \in ColPC /\ col.i \in Nat /\ col.i <= NumBytes
      /\ NumBytes \in Nat /\ ready \in Nat /\ aborted \in BOOLEAN
  BY HqAssumption DEF HqInv, Types, ColTypes, ColPC
<1>3. /\ col' \in ColTypes /\ col'.pc = "done" /\ col'.i = col.i
      /\ col'.owns = col.owns /\ col'.handoffs = col.handoffs
  BY ONLY <1>1, <1>2 DEF ColTypes
<1>4. Written' = Written /\ Written = col.i
  BY <1>1, <1>3 DEF Written
<1>5. ready' \in Nat /\ ready <= Written /\ ready' >= ready
  BY <1>1, <1>2, <1>4, Collecting
<1>6. Types'
  BY <1>1, <1>3, <1>5 DEF HqInv, Types, config, dict
<1>7. Alone' /\ Waited' /\ OneResult'
  BY <1>1, <1>3, <1>5, ColFrame
<1>8. ColPlaces'
  BY <1>1, <1>3 DEF ColPlaces
<1>9. Published'
  <2>1. ASSUME NEW p \in Positions, p < Written, p < ready' PROVE matches[p].gen = 0
    <3>1. CASE aborted
      BY <1>1, <2>1, <3>1 DEF HqInv, Published
    <3>2. CASE ~aborted
      <4>1. matches[p].gen \in Nat /\ matches[p].gen <= bufGen /\ bufGen = 0
        BY <2>1, <3>2 DEF HqInv, Types, Published
      <4> QED BY <4>1
    <3> QED BY <3>1, <3>2
  <2> QED BY <1>1, <1>3, <1>4, <2>1 DEF HqInv, Published
<1>10. Hasher'
  BY <1>1, <1>3, <1>4 DEF HqInv, Hasher
<1>11. Recorded'
  BY <1>1, <1>3 DEF HqInv, Recorded, dict
<1>12. Dictionary'
  BY <1>1, <1>4, ColDictionary DEF dict
<1> QED
  BY <1>6, <1>7, <1>8, <1>9, <1>10, <1>11, <1>12 DEF HqInv

-----------------------------------------------------------------------------
(* The results *)

LEMMA StutterStep == HqInv /\ UNCHANGED vars => HqInv'
<1> SUFFICES ASSUME HqInv, UNCHANGED vars PROVE HqInv'
  OBVIOUS
<1> USE DEF vars
<1>1. Written' = Written
  BY DEF Written
<1>2. Types' /\ ColPlaces' /\ Alone' /\ OneResult' /\ Recorded'
  BY DEF HqInv, Types, ColPlaces, Alone, OneResult, Recorded
<1>3. Published' /\ Waited' /\ Hasher'
  BY <1>1 DEF HqInv, Published, Waited, Hasher
<1>4. Dictionary'
  BY <1>1, ColDictionary DEF config
<1> QED BY <1>2, <1>3, <1>4 DEF HqInv

(* HqInv is inductive: it holds through every interleaving of collector    *)
(* and DP, of reallocations, handoffs, restarts and calls.                 *)
THEOREM HqInvHolds == Spec => []HqInv
<1>1. Init => HqInv
  BY InitInv
<1>2. HqInv /\ [Next]_vars => HqInv'
  <2> SUFFICES ASSUME HqInv, [Next]_vars PROVE HqInv'
    OBVIOUS
  <2>1. CASE Begin
    BY <2>1, BeginStep
  <2>2. CASE Collector
    BY <2>2, CheckStep, HandoffStep, ClearStep, GrowStep, FindStep, PublishStep,
       FinishStep DEF Collector
  <2>3. CASE Caller
    BY <2>3, StorePosStep, RequestStep, WaitStep, CountStep, StepStep, SkipStep,
       SkipReadStep, InlineStep, CreateStep, SecondPassStep, RestartStep, RedoStep,
       FinalJoinStep DEF Caller
  <2>4. CASE UNCHANGED vars
    BY <2>4, StutterStep
  <2> QED BY <2>1, <2>2, <2>3, <2>4 DEF Next
<1> QED BY <1>1, <1>2, PTL DEF Spec

(* "The DP sees all handoffs through each published position" (the comment *)
(* of dictOwnership): for every block, every set of long matches and every *)
(* number of handoffs, the static dictionary is searched exactly once at   *)
(* each position the DP evaluates.                                         *)
THEOREM DictionarySearchedOnce == Spec => []DictSearchedOnce
<1>1. HqInv => DictSearchedOnce
  <2> SUFFICES ASSUME HqInv PROVE DictSearchedOnce
    OBVIOUS
  <2>1. count <= MaxHandoffs
    BY HqAssumption DEF HqInv, Types
  <2>2. ASSUME DictHandoff, main.pc = "step" PROVE main.owns # matches[main.i].dict
    <3>1. main.owns <=> ~matches[main.i].dict
      BY <2>2 DEF HqInv, Dictionary
    <3>2. main.owns \in BOOLEAN /\ main.i \in Positions
      BY <2>2, Behind DEF HqInv, Types, MainTypes
    <3>3. matches[main.i].dict \in BOOLEAN
      BY <3>2 DEF HqInv, Types
    <3> QED BY <3>1, <3>2, <3>3
  <2> QED BY <2>1, <2>2 DEF DictSearchedOnce
<1> QED BY <1>1, HqInvHolds, PTL

(* updateNodes reads the matches of a position only when collect has       *)
(* written them, into the buffer the DP holds, however often the buffer    *)
(* was reallocated under it.                                               *)
THEOREM DPReadsWritten == Spec => []ReadsValidMatches
<1>1. HqInv => ReadsValidMatches
  BY Behind DEF ReadsValidMatches
<1> QED BY <1>1, HqInvHolds, PTL

(* However createHqZopfliBackwardReferences ends (one pass or two,         *)
(* restarted, redone serially), it leaves no collector behind, the hasher  *)
(* given every position up to storeEnd once, and the commands of one DP.   *)
THEOREM CallsEndClean == Spec => []CallEndsClean
<1>1. HqInv => CallEndsClean
  <2> SUFFICES ASSUME HqInv, main.pc = "return"
               PROVE  /\ col.pc = "idle" /\ ~busy /\ ~skipDict /\ out = 1
                      /\ \A p \in Hashed : stored[p] = 1
    BY DEF CallEndsClean
  <2>1. col.pc = "idle" /\ ~busy /\ ~skipDict /\ out = 1
    BY DEF HqInv, Alone, Hasher, OneResult
  <2>2. \A p \in Hashed : stored[p] = 1
    BY DEF HqInv, Hasher
  <2> QED BY <2>1, <2>2
<1> QED BY <1>1, HqInvHolds, PTL
=============================================================================
