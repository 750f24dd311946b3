------------------------------ MODULE HqZopfli ------------------------------
(***************************************************************************)
(* One call after another of createHqZopfliBackwardReferences              *)
(* (internal/encoder/zopfli_hq.go): the collector finds the matches of     *)
(* every position, the DP (zopfliIterate of zopfli.go) consumes them,      *)
(* behind the collector through the matchFeed when the encoder is          *)
(* parallel.  The two also pass the static-dictionary search back and      *)
(* forth (dictOwnership), the match buffer can be reallocated under the    *)
(* DP, and at quality 10 the DP can find out that it must redo the block   *)
(* serially.                                                               *)
(*                                                                         *)
(* matchFeed.wait is one step here, as FeedContract allows: MatchFeed      *)
(* shows that the parking protocol implements it.                          *)
(***************************************************************************)
EXTENDS Naturals, FiniteSetsExt

CONSTANTS
    NumBytes,        \* bytes of a block
    HashTypeLength,  \* h10HashTypeLength
    TreeCompLength,  \* h10MaxTreeCompLength
    LongLen,         \* length of a match longer than maxZopfliLen
    PublishBatch,    \* feedPublishBatch
    HandoffMinPos,   \* dictHandoffMinPos
    ReclaimLead,     \* dictReclaimLead
    MaxHandoffs,     \* maxDictHandoffs
    MaxGrow,         \* bound: reallocations of the match buffer in a block
    LongSets         \* bound: sets of positions that have a long match

ASSUME HqAssumption ==
    /\ NumBytes \in Nat /\ HashTypeLength \in Nat \ {0}
    /\ NumBytes >= HashTypeLength
    /\ TreeCompLength \in Nat /\ TreeCompLength >= HashTypeLength
    /\ LongLen \in Nat \ {0, 1} /\ PublishBatch \in Nat \ {0}
    /\ HandoffMinPos \in Nat /\ ReclaimLead \in Nat
    /\ MaxHandoffs \in Nat /\ MaxGrow \in Nat
    /\ LongSets \subseteq SUBSET (0 .. NumBytes - 1)

VARIABLES
    parallel,  \* q10Bufs.parallel
    hq,        \* quality >= hqZopflificationQuality: two passes, no handoff
    compound,  \* a compound dictionary is attached: no handoff either
    long,      \* positions of the block with a match of LongLen
    ready, aborted,           \* matchFeed
    dpPos, request, count, at, \* dictOwnership
    matches,   \* what the collector wrote for a position, or None
    bufGen,    \* how often bufs.hqMatches was reallocated
    skipDict,  \* h10.skipDict
    stored,    \* how often a position was given to the hasher
    col,       \* collector: program counter, position and locals
    busy,      \* hqCollector.busy
    main,      \* caller: program counter, position and locals
    out        \* DP results appended to commands by this call

vars == <<parallel, hq, compound, long, ready, aborted, dpPos, request, count, at,
          matches, bufGen, skipDict, stored, col, busy, main, out>>

config == <<parallel, hq, compound, long>>
dict   == <<dpPos, request, count, at>>

Positions == 0 .. NumBytes - 1
(* The loops of collect and zopfliIterate run while i + 3 < numBytes. *)
LoopEnd == NumBytes - (HashTypeLength - 1)

(* The hasher takes positions with TreeCompLength bytes left (storeEnd). *)
StoreEnd == IF NumBytes >= TreeCompLength THEN NumBytes - TreeCompLength + 1 ELSE 0
Hashed == 0 .. StoreEnd - 1

None == [gen |-> MaxGrow + 1, dict |-> FALSE]

(* feed.dictHandoff *)
DictHandoff == parallel /\ ~hq /\ ~compound

Passes == IF hq THEN 2 ELSE 1

(* Length of the long match at p: a match ends with the block. *)
MatchLen(p) == Min({LongLen, NumBytes - p})

(* Locals of collect and of zopfliIterate. *)
ColInit(pc) == [pc |-> pc, i |-> 0, owns |-> FALSE, handoffs |-> 0,
                nextPublish |-> 0]
IterateInit(pc, pass, useFeed, gen) ==
    [pc |-> pc, i |-> 0, skip |-> 0, owns |-> FALSE, handoffs |-> 0,
     nextDPPos |-> 0, pass |-> pass, feed |-> useFeed, gen |-> gen]

ColPC == {"idle", "check", "handoff", "clear", "grow", "find", "publish",
          "final", "done"}
MainPC == {"idle", "inline", "dpPos", "reqReady", "reqLoad", "reqStore",
           "wait", "count", "step", "skip", "skipRead", "create", "passJoin",
           "abortJoin", "divergeJoin", "finalJoin", "return"}

Init ==
    /\ parallel \in BOOLEAN /\ hq \in BOOLEAN /\ compound \in BOOLEAN
    /\ long \in LongSets
    /\ ready = 0 /\ aborted = FALSE
    /\ dpPos = 0 /\ request = FALSE /\ count = 0
    /\ at = [h \in 0 .. MaxHandoffs - 1 |-> 0]
    /\ matches = [p \in Positions |-> None]
    /\ bufGen = 0 /\ skipDict = FALSE
    /\ stored = [p \in Hashed |-> 0]
    /\ col = ColInit("idle") /\ busy = FALSE
    /\ main = IterateInit("idle", 0, FALSE, 0)
    /\ out = 0

-----------------------------------------------------------------------------
(* The caller up to the first pass: buffers and snapshot are prepared, the *)
(* feed is reset (at is not: count guards it), the collector is started or *)
(* run in place.  stored counts from the snapshot of the hasher on.        *)
Begin ==
    /\ main.pc \in {"idle", "return"}
    /\ hq' \in BOOLEAN /\ compound' \in BOOLEAN /\ long' \in LongSets
    /\ UNCHANGED parallel
    /\ ready' = 0 /\ aborted' = FALSE
    /\ dpPos' = 0 /\ request' = FALSE /\ count' = 0 /\ UNCHANGED at
    /\ matches' = [p \in Positions |-> None]
    /\ bufGen' = 0
    /\ stored' = [p \in Hashed |-> 0]
    /\ col' = ColInit("check")
    /\ busy' = parallel
    /\ main' = IterateInit(IF parallel THEN "dpPos" ELSE "inline", 0, parallel, 0)
    /\ out' = 0
    /\ UNCHANGED skipDict

-----------------------------------------------------------------------------
(* hqCollector.collect *)

(* The test at the head of the loop: request.Load() or dpPos.Load(). *)
ColCheck ==
    /\ col.pc = "check" /\ col.i < LoopEnd
    /\ LET take == /\ DictHandoff /\ col.handoffs < MaxHandoffs
                   /\ \/ ~col.owns /\ request
                      \/ col.owns /\ col.i > dpPos + ReclaimLead
       IN col' = [col EXCEPT !.pc = IF take THEN "handoff" ELSE "grow"]
    /\ UNCHANGED <<config, ready, aborted, dict, matches, bufGen, skipDict,
                   stored, busy, main, out>>

(* at[handoffs] is written, then count makes it visible. *)
ColHandoff ==
    /\ col.pc = "handoff"
    /\ at' = [at EXCEPT ![col.handoffs] = col.i]
    /\ count' = col.handoffs + 1
    /\ col' = [col EXCEPT !.pc = "clear", !.handoffs = @ + 1]
    /\ UNCHANGED <<config, ready, aborted, dpPos, request, matches, bufGen,
                   skipDict, stored, busy, main, out>>

ColClearRequest ==
    /\ col.pc = "clear"
    /\ request' = FALSE
    /\ skipDict' = ~col.owns
    /\ col' = [col EXCEPT !.pc = "grow", !.owns = ~@]
    /\ UNCHANGED <<config, ready, aborted, dpPos, count, at, matches, bufGen,
                   stored, busy, main, out>>

(* Capacity: enough, or a reallocation, which copies what was collected    *)
(* and aborts the feed the first time.                                     *)
ColGrow ==
    /\ col.pc = "grow"
    /\ \/ bufGen < MaxGrow /\ bufGen' = bufGen + 1 /\ aborted' = TRUE
       \/ UNCHANGED <<bufGen, aborted>>
    /\ col' = [col EXCEPT !.pc = "find"]
    /\ UNCHANGED <<config, ready, dict, matches, skipDict, stored, busy,
                   main, out>>

(* findAllMatches writes the matches of position i, with the dictionary's  *)
(* unless skipDict, and gives i to the hasher.  A long match stands for    *)
(* all positions it covers: storeRange takes them, up to storeEnd, and     *)
(* keeps a sample of them when they are many.                              *)
ColFind ==
    /\ col.pc = "find"
    /\ LET i    == col.i
           last == IF i \in long THEN i + MatchLen(i) - 1 ELSE i
           due  == ~aborted /\ last + 1 >= col.nextPublish
       IN /\ matches' = [p \in Positions |->
                IF p = i THEN [gen |-> bufGen, dict |-> ~skipDict]
                ELSE IF p \in i + 1 .. last THEN [gen |-> bufGen, dict |-> FALSE]
                ELSE matches[p]]
          /\ stored' = [p \in Hashed |->
                IF p \in i .. last THEN stored[p] + 1 ELSE stored[p]]
          /\ col' = [col EXCEPT !.pc = IF due THEN "publish" ELSE "check",
                                !.i = IF due THEN last ELSE last + 1]
    /\ UNCHANGED <<config, ready, aborted, dict, bufGen, skipDict, busy, main,
                   out>>

ColPublish ==
    /\ col.pc = "publish"
    /\ ready' = col.i + 1
    /\ col' = [col EXCEPT !.pc = "check", !.i = @ + 1,
                          !.nextPublish = col.i + 1 + PublishBatch]
    /\ UNCHANGED <<config, aborted, dict, matches, bufGen, skipDict, stored,
                   busy, main, out>>

(* Mutant: the publish after the loop is missing. *)
ColFinishUnpublished ==
    /\ col.pc = "check" /\ col.i >= LoopEnd
    /\ col' = [col EXCEPT !.pc = "done"]
    /\ UNCHANGED <<config, ready, aborted, dict, matches, bufGen, skipDict,
                   stored, busy, main, out>>

(* The loop has ended: publish(numBytes) unless aborted; serve sends done. *)
ColFinish ==
    /\ col.pc = "check" /\ col.i >= LoopEnd
    /\ ready' = IF aborted THEN ready ELSE NumBytes
    /\ col' = [col EXCEPT !.pc = "done"]
    /\ UNCHANGED <<config, aborted, dict, matches, bufGen, skipDict, stored,
                   busy, main, out>>

Collector ==
    \/ ColCheck \/ ColHandoff \/ ColClearRequest \/ ColGrow \/ ColFind
    \/ ColPublish \/ ColFinish

-----------------------------------------------------------------------------
(* zopfliIterate *)

MainKeeps == UNCHANGED <<config, ready, aborted, matches, bufGen, col>>

(* Head of the loop, or the end of the block.  The dictionary bookkeeping  *)
(* is for a DP that runs behind the collector.                             *)
Top(m) ==
    IF m.i >= LoopEnd THEN [m EXCEPT !.pc = "create"]
    ELSE [m EXCEPT !.pc = IF m.feed /\ DictHandoff THEN "dpPos" ELSE "wait"]

DPStorePos ==
    /\ main.pc = "dpPos"
    /\ IF DictHandoff /\ main.i >= main.nextDPPos
       THEN /\ dpPos' = main.i
            /\ main' = [main EXCEPT !.pc = "reqReady",
                                    !.nextDPPos = main.i + PublishBatch]
       ELSE /\ main' = [main EXCEPT !.pc = IF DictHandoff THEN "reqReady" ELSE "wait"]
            /\ UNCHANGED dpPos
    /\ MainKeeps /\ UNCHANGED <<request, count, at, skipDict, stored, busy, out>>

(* The three operands of the request test that are not local: the DP has   *)
(* caught up, and no request is pending.                                   *)
DPRequestReady ==
    /\ main.pc = "reqReady"
    /\ main' = [main EXCEPT !.pc =
          IF ~main.owns /\ main.i >= HandoffMinPos /\ ready <= main.i
          THEN "reqLoad" ELSE "wait"]
    /\ MainKeeps /\ UNCHANGED <<dict, skipDict, stored, busy, out>>

DPRequestLoad ==
    /\ main.pc = "reqLoad"
    /\ main' = [main EXCEPT !.pc = IF request THEN "wait" ELSE "reqStore"]
    /\ MainKeeps /\ UNCHANGED <<dict, skipDict, stored, busy, out>>

DPRequestStore ==
    /\ main.pc = "reqStore"
    /\ request' = TRUE
    /\ main' = [main EXCEPT !.pc = "wait"]
    /\ MainKeeps /\ UNCHANGED <<dpPos, count, at, skipDict, stored, busy, out>>

(* feed.wait(i): true at once without a feed, else when published; false   *)
(* after an abort.                                                         *)
DPWait ==
    /\ main.pc = "wait"
    /\ \/ /\ ~main.feed \/ ready > main.i
          /\ main' = [main EXCEPT !.pc = "count"]
       \/ /\ main.feed /\ aborted
          /\ main' = [main EXCEPT !.pc = "abortJoin"]
    /\ MainKeeps /\ UNCHANGED <<dict, skipDict, stored, busy, out>>

(* Handoffs the DP has to apply before it looks at position i: the longest *)
(* prefix, from its own count on, of recorded handoffs at or before i.     *)
Applied(n, from, i) ==
    Max({k \in from .. n : \A h \in from .. k - 1 : at[h] <= i})

(* Mutant: a handoff takes effect one position late. *)
DPCountLate ==
    /\ main.pc = "count"
    /\ LET k == IF DictHandoff /\ main.handoffs < count /\ main.i > 0
                THEN Applied(count, main.handoffs, main.i - 1)
                ELSE main.handoffs
       IN main' = [main EXCEPT !.pc = "step", !.handoffs = k,
                     !.owns = IF (k - main.handoffs) % 2 = 1 THEN ~@ ELSE @]
    /\ MainKeeps /\ UNCHANGED <<dict, skipDict, stored, busy, out>>

DPCount ==
    /\ main.pc = "count"
    /\ LET k == IF DictHandoff /\ main.handoffs < count
                THEN Applied(count, main.handoffs, main.i)
                ELSE main.handoffs
       IN main' = [main EXCEPT !.pc = "step", !.handoffs = k,
                     !.owns = IF (k - main.handoffs) % 2 = 1 THEN ~@ ELSE @]
    /\ MainKeeps /\ UNCHANGED <<dict, skipDict, stored, busy, out>>

(* updateNodes at i.  A long match, or at quality 11 a long copy the DP    *)
(* found itself, skips the positions it covers; at quality 10 a long copy  *)
(* that is not the single match of i means the collector went another way. *)
DPStep ==
    /\ main.pc = "step"
    /\ \/ /\ main.i \in long
          /\ main' = [main EXCEPT !.pc = "skip", !.skip = MatchLen(main.i) - 1]
       \/ /\ main.i \notin long
          /\ main' = Top([main EXCEPT !.i = @ + 1])
       \/ /\ main.i \notin long /\ hq
          /\ main' = [main EXCEPT !.pc = "skip", !.skip = MatchLen(main.i) - 1]
       \/ /\ ~hq
          /\ main' = [main EXCEPT !.pc = "divergeJoin"]
    /\ MainKeeps /\ UNCHANGED <<dict, skipDict, stored, busy, out>>

(* The loop over skipped positions, each with its own wait. *)
DPSkip ==
    /\ main.pc = "skip"
    /\ IF main.skip = 0 \/ main.i + 1 >= LoopEnd
       THEN main' = Top([main EXCEPT !.i = @ + 1, !.skip = 0])
       ELSE \/ /\ ~main.feed \/ ready > main.i + 1
               /\ main' = [main EXCEPT !.pc = "skipRead", !.i = @ + 1]
            \/ /\ main.feed /\ aborted
               /\ main' = [main EXCEPT !.pc = "abortJoin"]
    /\ MainKeeps /\ UNCHANGED <<dict, skipDict, stored, busy, out>>

DPSkipRead ==
    /\ main.pc = "skipRead"
    /\ main' = [main EXCEPT !.pc = "skip", !.skip = @ - 1]
    /\ MainKeeps /\ UNCHANGED <<dict, skipDict, stored, busy, out>>

-----------------------------------------------------------------------------
(* createHqZopfliBackwardReferences around the DP *)

(* hqCollector.wait: returns at once when no job is running. *)
ColWait == busy => col.pc = "done"
Joined == IF busy THEN [col EXCEPT !.pc = "idle"] ELSE col

(* bufs.parallel is off: collect runs to its end first. *)
InlineCollected ==
    /\ main.pc = "inline" /\ col.pc = "done"
    /\ col' = [col EXCEPT !.pc = "idle"]
    /\ main' = Top(IterateInit("wait", 0, FALSE, bufGen))
    /\ UNCHANGED <<config, ready, aborted, dict, matches, bufGen, skipDict,
                   stored, busy, out>>

CreateCommands ==
    /\ main.pc = "create"
    /\ out' = out + 1
    /\ main' = [main EXCEPT !.pc = IF main.pass + 1 < Passes
                                   THEN "passJoin" ELSE "finalJoin"]
    /\ MainKeeps /\ UNCHANGED <<dict, skipDict, stored, busy>>

(* The second pass needs every match; it keeps the slice of the first. *)
SecondPass ==
    /\ main.pc = "passJoin" /\ ColWait
    /\ col' = Joined /\ busy' = FALSE
    /\ out' = 0
    /\ main' = Top(IterateInit("wait", 1, FALSE, main.gen))
    /\ UNCHANGED <<config, ready, aborted, dict, matches, bufGen, skipDict,
                   stored>>

(* Mutant: the restart keeps the match slice of the aborted attempt. *)
RestartKeepsSlice ==
    /\ main.pc = "abortJoin" /\ ColWait
    /\ col' = Joined /\ busy' = FALSE
    /\ out' = 0
    /\ main' = Top(IterateInit("wait", main.pass, FALSE, main.gen))
    /\ UNCHANGED <<config, ready, aborted, dict, matches, bufGen, skipDict,
                   stored>>

(* zopfliIterateAborted: wait for the collector, take the new buffer, run  *)
(* the pass again without a feed.                                          *)
Restart ==
    /\ main.pc = "abortJoin" /\ ColWait
    /\ col' = Joined /\ busy' = FALSE
    /\ out' = 0
    /\ main' = Top(IterateInit("wait", main.pass, FALSE, bufGen))
    /\ UNCHANGED <<config, ready, aborted, dict, matches, bufGen, skipDict,
                   stored>>

(* Mutant: the hasher is restored while the collector may still be running. *)
RedoSeriallyEarly ==
    /\ main.pc = "divergeJoin"
    /\ skipDict' = FALSE
    /\ stored' = [p \in Hashed |-> 1]
    /\ out' = 1
    /\ main' = [main EXCEPT !.pc = "finalJoin"]
    /\ UNCHANGED <<config, ready, aborted, dict, matches, bufGen, col, busy>>

(* zopfliIterateDiverged: the snapshot of the hasher is put back and       *)
(* createZopfliBackwardReferences does the whole block.                    *)
RedoSerially ==
    /\ main.pc = "divergeJoin" /\ ColWait
    /\ col' = Joined /\ busy' = FALSE
    /\ skipDict' = FALSE
    /\ stored' = [p \in Hashed |-> 1]
    /\ out' = 1
    /\ main' = [main EXCEPT !.pc = "return"]
    /\ UNCHANGED <<config, ready, aborted, dict, matches, bufGen>>

FinalJoin ==
    /\ main.pc = "finalJoin" /\ ColWait
    /\ col' = Joined /\ busy' = FALSE
    /\ skipDict' = FALSE
    /\ main' = [main EXCEPT !.pc = "return"]
    /\ UNCHANGED <<config, ready, aborted, dict, matches, bufGen, stored, out>>

Caller ==
    \/ DPStorePos \/ DPRequestReady \/ DPRequestLoad \/ DPRequestStore
    \/ DPWait \/ DPCount \/ DPStep \/ DPSkip \/ DPSkipRead
    \/ InlineCollected \/ CreateCommands \/ SecondPass \/ Restart
    \/ RedoSerially \/ FinalJoin

Next == Begin \/ Collector \/ Caller

(* Goroutines that can run do run; another call is the caller's choice. *)
Fairness == WF_vars(Collector) /\ WF_vars(Caller)

Spec == Init /\ [][Next]_vars /\ Fairness

-----------------------------------------------------------------------------
(* The comment of dictOwnership: "the DP sees all handoffs through each    *)
(* published position".  At every position the DP evaluates, the static    *)
(* dictionary is searched exactly once: by the collector or by the DP,     *)
(* whatever requests and reclaims crossed each other, and again when an    *)
(* aborted pass is replayed from the recorded handoffs, of which at holds  *)
(* no more than it has places.                                             *)
DictSearchedOnce ==
    /\ count <= MaxHandoffs
    /\ DictHandoff /\ main.pc = "step" => main.owns # matches[main.i].dict

(* The DP reads the matches of a position only when the collector has      *)
(* written them, into the buffer the DP holds, and a DP without a feed     *)
(* only when no collector is running.                                      *)
ReadsValidMatches ==
    main.pc \in {"step", "skipRead"} =>
        /\ matches[main.i].gen <= main.gen
        /\ ~main.feed => col.pc = "idle"

(* Whichever way a call ends (one pass, two, restarted, redone), it leaves *)
(* no collector behind, the hasher searching the dictionary again and      *)
(* given every position up to storeEnd once, and the commands of exactly   *)
(* one DP.                                                                 *)
CallEndsClean ==
    main.pc = "return" =>
        /\ col.pc = "idle" /\ ~busy
        /\ ~skipDict
        /\ out = 1
        /\ \A p \in Hashed : stored[p] = 1

(* Every call returns. *)
CallReturns == main.pc \notin {"idle", "return"} ~> main.pc = "return"
=============================================================================
