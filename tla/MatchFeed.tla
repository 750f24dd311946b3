------------------------------ MODULE MatchFeed ------------------------------
(***************************************************************************)
(* matchFeed of internal/encoder/zopfli_hq.go: how the match collector     *)
(* (a worker goroutine) hands collected positions to the first pass of the *)
(* DP (the goroutine of the caller).  One action is one atomic operation   *)
(* on ready, aborted, parked or on the wake channel, in program order, so  *)
(* every interleaving the two goroutines can have is a behaviour.          *)
(* sync/atomic is sequentially consistent, which is TLA+'s memory.         *)
(***************************************************************************)
EXTENDS Naturals

CONSTANTS
    NumBytes,        \* bytes of the input block
    HashTypeLength,  \* h10HashTypeLength, bytes a hash needs
    SpinBeforePark   \* feedSpinBeforePark

ASSUME MatchFeedAssumption ==
    /\ HashTypeLength \in Nat \ {0}
    /\ NumBytes \in Nat
    /\ NumBytes >= HashTypeLength
    /\ SpinBeforePark \in Nat

VARIABLES
    ready,    \* matchFeed.ready, an atomic.Uint64
    aborted,  \* matchFeed.aborted, an atomic.Bool
    parked,   \* matchFeed.parked, an atomic.Bool
    wake,     \* a token is in the one-place channel matchFeed.wake
    col,      \* program counter of the collector
    final,    \* the collector is in its last publish
    dp,       \* program counter of the DP
    i,        \* position the DP asks for
    spin      \* rounds of waitSlow, counted up to SpinBeforePark

feedVars == <<ready, aborted, parked, wake, col, final, dp, i, spin>>
feed == <<ready, aborted, parked, wake>>

(* The DP asks for every i with i + 3 < numBytes. *)
DPEnd == NumBytes - (HashTypeLength - 1)

CollectorPC == {"idle", "run", "load", "cas", "send", "done"}
DPPC == {"idle", "fast", "ready1", "abort1", "park", "ready2", "abort2",
         "unpark", "recv", "use", "join"}

FeedTypeOK ==
    /\ ready \in 0 .. NumBytes
    /\ aborted \in BOOLEAN /\ parked \in BOOLEAN /\ wake \in BOOLEAN
    /\ col \in CollectorPC /\ final \in BOOLEAN
    /\ dp \in DPPC /\ i \in 0 .. NumBytes /\ spin \in 0 .. SpinBeforePark

FeedInit ==
    /\ ready = 0 /\ aborted = FALSE /\ parked = FALSE /\ wake = FALSE
    /\ col = "idle" /\ final = FALSE
    /\ dp = "idle" /\ i = 0 /\ spin = 0

-----------------------------------------------------------------------------
(* A block: feed.reset, which also drains a token left by the block        *)
(* before, then the start of the collector and of the DP.  The collector   *)
(* is not running, so the stores of reset are one step.                    *)
FeedReset ==
    /\ dp = "idle" /\ col = "idle"
    /\ ready' = 0 /\ aborted' = FALSE /\ parked' = FALSE /\ wake' = FALSE
    /\ col' = "run" /\ final' = FALSE
    /\ dp' = "fast" /\ i' = 0 /\ spin' = 0

-----------------------------------------------------------------------------
(* The collector: publish(n), abort() and their common tail unpark().      *)

(* A publish inside the loop always covers at least one position more;     *)
(* the batching of collect only chooses which n are published.             *)
PublishStore(n) ==
    /\ col = "run" /\ ~aborted
    /\ ready < n
    /\ ready' = n
    /\ col' = "load"
    /\ UNCHANGED <<aborted, parked, wake, final, dp, i, spin>>

(* The publish(numBytes) after the loop. *)
FinalPublishStore ==
    /\ col = "run" /\ ~aborted
    /\ ready' = NumBytes
    /\ final' = TRUE
    /\ col' = "load"
    /\ UNCHANGED <<aborted, parked, wake, dp, i, spin>>

(* Mutant: abort forgets its unpark. *)
AbortStoreNoUnpark ==
    /\ col = "run" /\ ~aborted
    /\ aborted' = TRUE
    /\ UNCHANGED <<ready, parked, wake, col, final, dp, i, spin>>

(* The match buffer had to be reallocated. *)
AbortStore ==
    /\ col = "run" /\ ~aborted
    /\ aborted' = TRUE
    /\ col' = "load"
    /\ UNCHANGED <<ready, parked, wake, final, dp, i, spin>>

(* After an abort the loop runs on without publishing. *)
CollectorDone ==
    /\ col = "run" /\ aborted
    /\ col' = "done"
    /\ UNCHANGED <<feed, final, dp, i, spin>>

UnparkReturn == IF final THEN "done" ELSE "run"

(* Mutant: the parked flag is cleared but the wake is never sent. *)
UnparkCASNoSend ==
    /\ col = "cas"
    /\ col' = UnparkReturn
    /\ parked' = FALSE
    /\ UNCHANGED <<ready, aborted, wake, final, dp, i, spin>>

UnparkLoad ==
    /\ col = "load"
    /\ col' = IF parked THEN "cas" ELSE UnparkReturn
    /\ UNCHANGED <<feed, final, dp, i, spin>>

UnparkCAS ==
    /\ col = "cas"
    /\ col' = IF parked THEN "send" ELSE UnparkReturn
    /\ parked' = FALSE
    /\ UNCHANGED <<ready, aborted, wake, final, dp, i, spin>>

(* A non-blocking send: with a token already there it is dropped. *)
UnparkSend ==
    /\ col = "send"
    /\ wake' = TRUE
    /\ col' = UnparkReturn
    /\ UNCHANGED <<ready, aborted, parked, final, dp, i, spin>>

Collector ==
    \/ \E n \in 1 .. NumBytes : PublishStore(n)
    \/ FinalPublishStore
    \/ AbortStore
    \/ CollectorDone
    \/ UnparkLoad
    \/ UnparkCAS
    \/ UnparkSend

-----------------------------------------------------------------------------
(* The DP: wait(i) and waitSlow(i).                                        *)

WaitFast ==
    /\ dp = "fast"
    /\ dp' = IF ready > i THEN "use" ELSE "ready1"
    /\ spin' = 0
    /\ UNCHANGED <<feed, col, final, i>>

(* Mutant: an off-by-one comparison lets the DP in one position early. *)
LoopReadyOffByOne ==
    /\ dp = "ready1"
    /\ dp' = IF ready >= i THEN "use" ELSE "abort1"
    /\ UNCHANGED <<feed, col, final, i, spin>>

LoopReady ==
    /\ dp = "ready1"
    /\ dp' = IF ready > i THEN "use" ELSE "abort1"
    /\ UNCHANGED <<feed, col, final, i, spin>>

(* spin++ of a continue; the count matters only up to SpinBeforePark. *)
NextSpin == IF spin < SpinBeforePark THEN spin + 1 ELSE spin

LoopAborted ==
    /\ dp = "abort1"
    /\ \/ aborted /\ dp' = "join" /\ UNCHANGED spin
       \/ ~aborted /\ spin < SpinBeforePark /\ dp' = "ready1" /\ spin' = NextSpin
       \/ ~aborted /\ spin >= SpinBeforePark /\ dp' = "park" /\ UNCHANGED spin
    /\ UNCHANGED <<feed, col, final, i>>

ParkStore ==
    /\ dp = "park"
    /\ parked' = TRUE
    /\ dp' = "ready2"
    /\ UNCHANGED <<ready, aborted, wake, col, final, i, spin>>

(* Mutant: the DP parks and blocks without looking at ready again. *)
RecheckReadySkipped ==
    /\ dp = "ready2"
    /\ dp' = "abort2"
    /\ UNCHANGED <<feed, col, final, i, spin>>

RecheckReady ==
    /\ dp = "ready2"
    /\ dp' = IF ready > i THEN "unpark" ELSE "abort2"
    /\ UNCHANGED <<feed, col, final, i, spin>>

RecheckAborted ==
    /\ dp = "abort2"
    /\ dp' = IF aborted THEN "unpark" ELSE "recv"
    /\ UNCHANGED <<feed, col, final, i, spin>>

(* The re-check succeeded.  A wake sent from here on stays in the channel. *)
UnparkSelf ==
    /\ dp = "unpark"
    /\ parked' = FALSE
    /\ dp' = "ready1" /\ spin' = NextSpin
    /\ UNCHANGED <<ready, aborted, wake, col, final, i>>

(* The blocking receive, then spin = 0 and the spin++ of the loop. *)
Receive ==
    /\ dp = "recv" /\ wake
    /\ wake' = FALSE
    /\ dp' = "ready1"
    /\ spin' = IF SpinBeforePark > 0 THEN 1 ELSE 0
    /\ UNCHANGED <<ready, aborted, parked, col, final, i>>

(* zopfliIterate uses the matches of position i and moves on, reaches the  *)
(* end of the block, or leaves because the DP diverged.                    *)
Use ==
    /\ dp = "use"
    /\ \/ i + 1 < DPEnd /\ i' = i + 1 /\ dp' = "fast"
       \/ dp' = "join" /\ UNCHANGED i
    /\ UNCHANGED <<feed, col, final, spin>>

(* hqCollector.wait: the block is over when the collector has finished. *)
JoinCollector ==
    /\ dp = "join" /\ col = "done"
    /\ dp' = "idle" /\ col' = "idle"
    /\ UNCHANGED <<feed, final, i, spin>>

DPStep ==
    \/ WaitFast \/ LoopReady \/ LoopAborted \/ ParkStore \/ RecheckReady
    \/ RecheckAborted \/ UnparkSelf \/ Receive \/ Use \/ JoinCollector

FeedNext == FeedReset \/ Collector \/ DPStep

(* Both goroutines are scheduled by a preemptive runtime: a goroutine that *)
(* can run runs.  Nothing forces the caller to start another block.        *)
FeedFairness == WF_feedVars(Collector) /\ WF_feedVars(DPStep)

FeedSpec == FeedInit /\ [][FeedNext]_feedVars /\ FeedFairness

-----------------------------------------------------------------------------
Waiting == {"fast", "ready1", "abort1", "park", "ready2", "abort2",
            "unpark", "recv"}
(* The collector is about to look at parked, or about to send. *)
WillUnpark == col = "send" \/ (col \in {"load", "cas"} /\ parked)

(* The comment in waitSlow: "either this goroutine sees the producer's     *)
(* store, or the producer sees parked and sends a wake".  A DP blocked on  *)
(* the channel although its position is published or the feed is aborted   *)
(* has a token to receive or a collector that is going to send one.        *)
NoLostWakeup ==
    dp = "recv" /\ (ready > i \/ aborted) => wake \/ WillUnpark

(* Between its Store(true) and the receive the DP is covered: the flag is  *)
(* still up, or whoever took it down sends or has sent a token.            *)
ParkCovered ==
    dp \in {"ready2", "abort2", "recv"} => parked \/ wake \/ col = "send"

(* Between its two re-checks the DP may miss a publish, but not one that   *)
(* no unpark follows.                                                      *)
RecheckCovered ==
    dp = "abort2" /\ ready > i => wake \/ WillUnpark

(* The DP touches the matches of a position (plain memory, written by the  *)
(* collector without a lock) only after they were published, whichever of  *)
(* the return paths of wait it took.                                       *)
ReadsOnlyPublished == dp = "use" => i < ready

(* The invariant that is inductive: the three stages of parking, what a    *)
(* grant means, and that the last publish covers the block.                *)
FeedInv ==
    /\ FeedTypeOK
    /\ ParkCovered
    /\ RecheckCovered
    /\ NoLostWakeup
    /\ ReadsOnlyPublished
    /\ final => ready = NumBytes

-----------------------------------------------------------------------------
(* The wait protocol implements the contract of a feed, its liveness       *)
(* included: grants and refusals happen exactly where the DP leaves wait.  *)
Contract == INSTANCE FeedContract WITH
    collecting <- col \notin {"idle", "done"},
    dp <- IF dp \in Waiting THEN "waiting"
          ELSE IF dp = "use" THEN "reading"
          ELSE IF dp = "join" THEN "joining" ELSE "idle",
    pos <- i

FeedImplementsContract == Contract!Spec
=============================================================================
