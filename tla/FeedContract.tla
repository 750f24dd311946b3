---------------------------- MODULE FeedContract ----------------------------
(***************************************************************************)
(* What a matchFeed promises to its two users, with no word about how the  *)
(* waiting is done: the collector publishes a growing prefix of positions  *)
(* or aborts; the dynamic program (DP) is let through at a position only   *)
(* once that position is published, is turned away only after an abort,    *)
(* and is never left waiting once one of the two has happened for good.    *)
(***************************************************************************)
EXTENDS Naturals

CONSTANTS NumBytes,  \* bytes of the input block
          DPEnd      \* the DP asks for the positions 0 .. DPEnd - 1

VARIABLES ready,       \* published prefix
          aborted,     \* the collector gave up on the feed
          collecting,  \* the collector is still running
          dp,          \* what the DP is doing
          pos          \* the position it is at

vars == <<ready, aborted, collecting, dp, pos>>

Init ==
    /\ ready = 0 /\ aborted = FALSE /\ collecting = FALSE
    /\ dp = "idle" /\ pos = 0

(* A new block: the feed is emptied and both sides start. *)
Open ==
    /\ dp = "idle" /\ ~collecting
    /\ ready' = 0 /\ aborted' = FALSE /\ collecting' = TRUE
    /\ dp' = "waiting" /\ pos' = 0

(* The published prefix never shrinks and never grows after an abort. *)
Publish ==
    /\ collecting /\ ~aborted
    /\ ready' \in ready .. NumBytes
    /\ UNCHANGED <<aborted, collecting, dp, pos>>

Abort ==
    /\ collecting /\ ~aborted
    /\ aborted' = TRUE
    /\ UNCHANGED <<ready, collecting, dp, pos>>

(* The collector leaves only when everything is published or aborted. *)
Finish ==
    /\ collecting
    /\ aborted \/ ready = NumBytes
    /\ collecting' = FALSE
    /\ UNCHANGED <<ready, aborted, dp, pos>>

Grant ==
    /\ dp = "waiting" /\ ready > pos
    /\ dp' = "reading"
    /\ UNCHANGED <<ready, aborted, collecting, pos>>

Refuse ==
    /\ dp = "waiting" /\ aborted
    /\ dp' = "joining"
    /\ UNCHANGED <<ready, aborted, collecting, pos>>

Advance ==
    /\ dp = "reading"
    /\ \/ /\ pos + 1 < DPEnd
          /\ pos' = pos + 1 /\ dp' = "waiting"
       \/ /\ dp' = "joining" /\ UNCHANGED pos
    /\ UNCHANGED <<ready, aborted, collecting>>

Close ==
    /\ dp = "joining" /\ ~collecting
    /\ dp' = "idle"
    /\ UNCHANGED <<ready, aborted, collecting, pos>>

Next ==
    \/ Open \/ Publish \/ Abort \/ Finish
    \/ Grant \/ Refuse \/ Advance \/ Close

(* The promise of the feed itself: no waiter is forgotten. *)
Fairness == WF_vars(Grant \/ Refuse)

SafeSpec == Init /\ [][Next]_vars
Spec == SafeSpec /\ Fairness
=============================================================================
