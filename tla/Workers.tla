------------------------------ MODULE Workers ------------------------------
(***************************************************************************)
(* Writers of levels 10 and 11, the encoders they borrow from              *)
(* poolEncoderSplit, and the two worker goroutines of an encoder           *)
(* (hqCollector and hqHelper of q10Bufs): how jobs are handed over in      *)
(* createHqZopfliBackwardReferences, splitBlockParallel and buildMetaBlock *)
(* and how workers are stopped when an encoder is released.                *)
(*                                                                         *)
(* The buffers are the parts of q10Bufs and metaBlockSplit that activities *)
(* read and write.  The commands are two of them, because jobs that run at *)
(* once touch different fields of a command: "commands" is insertLen,      *)
(* copyLen and cmdPrefix, "distPrefixes" is distPrefix and distExtra.      *)
(*                                                                         *)
(* What the collector and the DP share while both run is the subject of    *)
(* MatchFeed and HqZopfli and left out here.                               *)
(***************************************************************************)
EXTENDS Naturals

CONSTANTS
    Writers,   \* Writer values
    Parallel,  \* those whose encoder gets parallel = TRUE
    Encs,      \* *encoderSplit values
    NoEnc,     \* nil
    MaxOld     \* bound: goroutines of a worker that have yet to exit

ASSUME WorkersAssumption ==
    /\ Parallel \subseteq Writers /\ NoEnc \notin Encs
    /\ MaxOld \in Nat \ {0}

VARIABLES
    writer,  \* Writer: life cycle, flags, the call in progress
    enc,     \* Writer.c
    pool,    \* poolEncoderSplit
    work,    \* hqCollector: channel, busy, where its goroutine is, its job
    made     \* what has been computed for the metablock being built; the
             \* rest of the buffers holds what earlier metablocks left

vars == <<writer, enc, pool, work, made>>

Workers == {"collector", "helper"}
Jobs == {"collect", "splitCommands", "splitDistances", "clusterDistances"}
Scratch == {"mainScratch", "collectorScratch", "helperScratch"}
Products == {"commands", "distPrefixes", "literals", "litSplit", "cmdSplit", "distSplit",
             "distParams", "litHist", "distHist", "litOut", "distOut"}

(* Steps of the caller: those at which it works, and those at which it     *)
(* hands a job over or waits for one.                                      *)
Activities == {"dp", "prepare", "lits", "hist", "clusterLits", "maps"}
PC == Activities \cup {"idle", "call", "collect", "joinCollect", "splitCmds",
                       "splitDists", "joinCmds", "joinDists", "cluster",
                       "joinCluster"}

Idle == [open |-> FALSE, busy |-> FALSE, at |-> "none", job |-> "collect",
         old |-> 0]

(* busy says whether a job is out, start whether there is a goroutine. *)
WorkerOK(r) ==
    /\ r.busy <=> r.at \in {"work", "send"}
    /\ r.open <=> r.at # "none"

WriterType == [life : {"none", "live", "gone"}, closed : BOOLEAN,
               failed : BOOLEAN, reused : BOOLEAN, closing : BOOLEAN, pc : PC]
WorkerType == [open : BOOLEAN, busy : BOOLEAN, job : Jobs,
               at : {"none", "recv", "work", "send"}, old : 0 .. MaxOld]

TypeOK ==
    /\ writer \in [Writers -> WriterType]
    /\ enc \in [Writers -> Encs \cup {NoEnc}]
    /\ pool \subseteq Encs
    /\ work \in [Encs -> [Workers -> WorkerType]]
    /\ made \in [Encs -> SUBSET Products]
    /\ \A e \in Encs, k \in Workers : WorkerOK(work[e][k])

Absent == [life |-> "none", closed |-> FALSE, failed |-> FALSE,
           reused |-> FALSE, closing |-> FALSE, pc |-> "idle"]

Init ==
    /\ writer = [w \in Writers |-> Absent]
    /\ enc = [w \in Writers |-> NoEnc]
    /\ pool = {}
    /\ work = [e \in Encs |-> [k \in Workers |-> Idle]]
    /\ made = [e \in Encs |-> {}]

-----------------------------------------------------------------------------
(* hqCollector: begin, wait and stop. Both channels are unbuffered.        *)

CanBegin(r) == ~r.open \/ r.at = "recv"
Begun(r, j) == [r EXCEPT !.open = TRUE, !.busy = TRUE, !.at = "work",
                         !.job = j]

CanWait(r) == r.busy => r.at = "send"

Waited(r) ==
    IF r.busy THEN [r EXCEPT !.busy = FALSE, !.at = "recv", !.job = "collect"]
    ELSE r

Stopped(r) ==
    LET q == Waited(r)
    IN IF q.open
       THEN [q EXCEPT !.open = FALSE, !.at = "none", !.old = @ + 1]
       ELSE q

(* What a job computes, and the memory it writes and reads besides.        *)
(* splitDistances chooses distance parameters and re-encodes the distances *)
(* of the commands for them, in place.                                     *)
Output(j) ==
    CASE j = "collect" -> {}
      [] j = "splitCommands" -> {"cmdSplit"}
      [] j = "splitDistances" -> {"distSplit", "distParams", "distPrefixes"}
      [] j = "clusterDistances" -> {"distOut"}

(* Mutant: the distance split uses the encoder's own scratch memory. *)
JobWritesShared(j) ==
    Output(j) \cup
    (CASE j \in {"splitCommands", "collect"} -> {"collectorScratch"}
       [] j = "splitDistances" -> {"mainScratch"}
       [] j = "clusterDistances" -> {"helperScratch"})

JobWrites(j) ==
    Output(j) \cup
    (CASE j \in {"splitCommands", "collect"} -> {"collectorScratch"}
       [] j \in {"splitDistances", "clusterDistances"} -> {"helperScratch"})

(* Mutant: splitCommands looks at the distances of the commands. *)
JobReadsPrefixes(j) ==
    CASE j = "collect" -> {}
      [] j \in {"splitCommands", "splitDistances"} ->
            {"commands", "distPrefixes"}
      [] j = "clusterDistances" -> {"distHist"}

JobReads(j) ==
    CASE j = "collect" -> {}
      [] j = "splitCommands" -> {"commands"}
      [] j = "splitDistances" -> {"commands", "distPrefixes"}
      [] j = "clusterDistances" -> {"distHist"}

(* serve: the goroutine finishes its job and offers done. *)
Serve(e, k) ==
    /\ work[e][k].at = "work"
    /\ work' = [work EXCEPT ![e][k].at = "send"]
    /\ made' = [made EXCEPT ![e] = @ \cup Output(work[e][k].job)]
    /\ UNCHANGED <<writer, enc, pool>>

(* serve: the channel is closed, the loop and the goroutine end. *)
Exit(e, k) ==
    /\ work[e][k].old > 0
    /\ work' = [work EXCEPT ![e][k].old = @ - 1]
    /\ UNCHANGED <<writer, enc, pool, made>>

-----------------------------------------------------------------------------
(* The caller's part of an encode.                                         *)

ActWrites(a) ==
    CASE a = "dp" -> {"commands", "distPrefixes"}
      [] a = "prepare" -> {"literals", "litSplit", "cmdSplit", "distSplit"}
      [] a = "lits" -> {"litSplit", "mainScratch"}
      [] a = "hist" -> {"litHist", "distHist"}
      [] a = "clusterLits" -> {"litOut", "mainScratch"}
      [] a = "maps" -> {}

ActReads(a) ==
    CASE a = "dp" -> {}
      [] a = "prepare" -> {"commands"}
      [] a = "lits" -> {"literals"}
      [] a = "hist" -> {"commands", "distPrefixes", "litSplit", "cmdSplit",
                        "distSplit", "distParams"}
      [] a = "clusterLits" -> {"litHist"}
      [] a = "maps" -> {"litOut", "distOut", "distParams"}

At(w, pc) == writer[w].pc = pc
Goto(w, pc) == writer' = [writer EXCEPT ![w].pc = pc]

Begin(w, k, j, from, to) ==
    LET e == enc[w]
    IN /\ At(w, from) /\ CanBegin(work[e][k])
       /\ work' = [work EXCEPT ![e][k] = Begun(@, j)]
       /\ Goto(w, to)
       /\ UNCHANGED <<enc, pool, made>>

Join(w, k, from, to) ==
    LET e == enc[w]
    IN /\ At(w, from) /\ CanWait(work[e][k])
       /\ work' = [work EXCEPT ![e][k] = Waited(@)]
       /\ Goto(w, to)
       /\ UNCHANGED <<enc, pool, made>>

(* The caller works by itself and adds to what is made. *)
Act(w, a, to) ==
    /\ At(w, a)
    /\ made' = [made EXCEPT ![enc[w]] = @ \cup (ActWrites(a) \ Scratch)]
    /\ Goto(w, to)
    /\ UNCHANGED <<enc, pool, work>>

(* encodeData takes a block: collect, on the worker or inline. *)
Block(w) == /\ At(w, "call")
            /\ Goto(w, IF w \in Parallel THEN "collect" ELSE "dp")
            /\ UNCHANGED <<enc, pool, work, made>>
BeginCollect(w) == Begin(w, "collector", "collect", "collect", "dp")
DP(w) == Act(w, "dp", "joinCollect")

(* Afterwards the block is kept for a larger metablock, or one is built. *)
JoinCollect(w) == \E to \in {"call", "prepare"} :
                     Join(w, "collector", "joinCollect", to)

(* buildMetaBlock starts over: the splits are reset. With few commands, or *)
(* without workers, it builds everything itself.                           *)
Prepare(w) ==
    LET e == enc[w]
    IN /\ At(w, "prepare")
       /\ \/ /\ w \in Parallel
             /\ made' = [made EXCEPT ![e] = {"commands", "distPrefixes",
                                             "literals"}]
             /\ Goto(w, "splitCmds")
          \/ made' = [made EXCEPT ![e] = {}] /\ Goto(w, "call")
       /\ UNCHANGED <<enc, pool, work>>

(* splitBlockParallel *)
BeginCommands(w) ==
    Begin(w, "collector", "splitCommands", "splitCmds", "splitDists")
BeginDistances(w) ==
    Begin(w, "helper", "splitDistances", "splitDists", "lits")
Literals(w) == Act(w, "lits", "joinCmds")
JoinCommands(w) == Join(w, "collector", "joinCmds", "joinDists")

(* Mutant: splitBlockParallel does not wait for the distances. *)
JoinDistancesNot(w) ==
    /\ At(w, "joinDists") /\ Goto(w, "hist")
    /\ UNCHANGED <<enc, pool, work, made>>

JoinDistances(w) == Join(w, "helper", "joinDists", "hist")

(* buildMetaBlock: histograms, then the two clusterings side by side. *)
Histograms(w) == Act(w, "hist", "cluster")
BeginCluster(w) ==
    Begin(w, "helper", "clusterDistances", "cluster", "clusterLits")
ClusterLiterals(w) == Act(w, "clusterLits", "joinCluster")

(* Mutant: the result is used without receiving from done. *)
JoinClusterPeek(w) ==
    /\ At(w, "joinCluster") /\ work[enc[w]]["helper"].at = "send"
    /\ Goto(w, "maps")
    /\ UNCHANGED <<enc, pool, work, made>>

JoinCluster(w) == Join(w, "helper", "joinCluster", "maps")
ContextMaps(w) ==
    /\ At(w, "maps")
    /\ made' = [made EXCEPT ![enc[w]] = {}]
    /\ Goto(w, "call")
    /\ UNCHANGED <<enc, pool, work>>

-----------------------------------------------------------------------------
(* Writers.                                                                *)

Held == {enc[w] : w \in Writers}

(* NewCompressor: an encoder of the pool or a new one. *)
Acquire(w) ==
    \E e \in Encs \ Held :
        /\ enc' = [enc EXCEPT ![w] = e]
        /\ pool' = pool \ {e}

CanRelease(e) == \A k \in Workers :
                    CanWait(work[e][k]) /\ work[e][k].old < MaxOld

(* Mutant: the helper keeps running. *)
ReleasedHelper(e) ==
    work' = [work EXCEPT ![e]["collector"] = Stopped(@)]

(* releaseBuffers stops both workers. *)
Released(e) ==
    work' = [work EXCEPT ![e] = [k \in Workers |-> Stopped(@[k])]]

(* Release, and the Writer's pointer set to nil. *)
Release(w) ==
    /\ CanRelease(enc[w])
    /\ Released(enc[w])
    /\ pool' = pool \cup {enc[w]}
    /\ enc' = [enc EXCEPT ![w] = NoEnc]
    /\ made' = [made EXCEPT ![enc[w]] = {}]

NewWriter(w) ==
    /\ writer[w].life = "none"
    /\ writer' = [writer EXCEPT ![w] = [Absent EXCEPT !.life = "live"]]
    /\ Acquire(w)
    /\ UNCHANGED <<work, made>>

(* Write, Flush or Close goes into the encoder. *)
Call(w, closing) ==
    /\ writer[w].life = "live" /\ At(w, "idle")
    /\ ~writer[w].failed /\ ~writer[w].closed
    /\ writer' = [writer EXCEPT ![w].pc = "call", ![w].closing = closing,
                                ![w].closed = closing]
    /\ UNCHANGED <<enc, pool, work, made>>

(* Mutant: Close releases the encoder and keeps the pointer. *)
ReturnKeeps(w, ok) ==
    LET r == writer[w] IN
    /\ At(w, "call")
    /\ writer' = [writer EXCEPT ![w].pc = "idle", ![w].closing = FALSE,
                                ![w].failed = ~ok]
    /\ IF r.closing /\ ~r.reused
       THEN CanRelease(enc[w]) /\ Released(enc[w])
            /\ pool' = pool \cup {enc[w]} /\ UNCHANGED enc
       ELSE UNCHANGED <<enc, pool, work>>
    /\ UNCHANGED made

(* The call returns, with the destination's error or without; Close        *)
(* returns an encoder that was never reset for reuse.                      *)
Return(w, ok) ==
    LET r == writer[w] IN
    /\ At(w, "call")
    /\ writer' = [writer EXCEPT ![w].pc = "idle", ![w].closing = FALSE,
                                ![w].failed = ~ok]
    /\ IF r.closing /\ ~r.reused THEN Release(w)
       ELSE UNCHANGED <<enc, pool, work, made>>

(* Mutant: a released encoder is not acquired again. *)
ResetKeeps(w) ==
    /\ writer[w].life = "live" /\ At(w, "idle")
    /\ writer' = [writer EXCEPT ![w].failed = FALSE, ![w].closed = FALSE,
                                ![w].reused = TRUE]
    /\ UNCHANGED <<enc, pool, work, made>>

Reset(w) ==
    /\ writer[w].life = "live" /\ At(w, "idle")
    /\ writer' = [writer EXCEPT ![w].failed = FALSE, ![w].closed = FALSE,
                                ![w].reused = TRUE]
    /\ IF enc[w] = NoEnc THEN Acquire(w) ELSE UNCHANGED <<enc, pool>>
    /\ UNCHANGED <<work, made>>

(* The program drops the Writer; without workers it has no finalizer and   *)
(* its encoder goes with it.                                               *)
Abandon(w) ==
    /\ writer[w].life = "live" /\ At(w, "idle")
    /\ IF w \in Parallel
       THEN writer' = [writer EXCEPT ![w].life = "gone"] /\ UNCHANGED enc
       ELSE /\ writer' = [writer EXCEPT ![w] = Absent]
            /\ enc' = [enc EXCEPT ![w] = NoEnc]
    /\ UNCHANGED <<pool, work, made>>

(* Mutant: no finalizer. *)
FinalizeNot(w) ==
    /\ writer[w].life = "gone"
    /\ writer' = [writer EXCEPT ![w] = Absent]
    /\ enc' = [enc EXCEPT ![w] = NoEnc]
    /\ UNCHANGED <<pool, work, made>>

(* The finalizer: the method release of Writer. *)
Finalize(w) ==
    /\ writer[w].life = "gone"
    /\ writer' = [writer EXCEPT ![w] = Absent]
    /\ IF enc[w] = NoEnc THEN UNCHANGED <<enc, pool, work, made>>
       ELSE Release(w)

-----------------------------------------------------------------------------
Encode(w) ==
    \/ BeginCollect(w) \/ DP(w) \/ JoinCollect(w) \/ Prepare(w)
    \/ BeginCommands(w) \/ BeginDistances(w) \/ Literals(w)
    \/ JoinCommands(w) \/ JoinDistances(w) \/ Histograms(w)
    \/ BeginCluster(w) \/ ClusterLiterals(w) \/ JoinCluster(w)
    \/ ContextMaps(w)

Ends(w) == \E ok \in BOOLEAN : Return(w, ok)

Next ==
    \/ \E w \in Writers :
          \/ NewWriter(w) \/ Reset(w) \/ Abandon(w) \/ Finalize(w)
          \/ \E closing \in BOOLEAN : Call(w, closing)
          \/ Block(w) \/ Encode(w) \/ Ends(w)
    \/ \E e \in Encs, k \in Workers : Serve(e, k) \/ Exit(e, k)

(* A call keeps running and its input is finite (Block is enabled whenever *)
(* Return is, hence SF); so do the goroutines of the workers; the garbage  *)
(* collector finds an abandoned Writer.                                    *)
Fairness ==
    /\ \A w \in Writers : /\ WF_vars(Encode(w)) /\ SF_vars(Ends(w))
                          /\ WF_vars(Finalize(w))
    /\ \A e \in Encs, k \in Workers : WF_vars(Serve(e, k)) /\ WF_vars(Exit(e, k))

Spec == Init /\ [][Next]_vars /\ Fairness

-----------------------------------------------------------------------------
Working(e) == {k \in Workers : work[e][k].at = "work"}
InCall(e) == {w \in Writers : enc[w] = e /\ writer[w].pc \in Activities}

(* No two goroutines touch the same memory while one of them writes it:    *)
(* the job of a worker, the other worker's, and what the caller does.  The *)
(* two splits of splitBlockParallel share the commands, one of them writes *)
(* them (recomputeDistancePrefixes): there is no race because              *)
(* splitCommands reads no field of a command that is written.              *)
RaceFree ==
    \A e \in Encs : \A k \in Working(e) :
        LET j == work[e][k].job
        IN /\ \A l \in Working(e) \ {k} :
                 JobWrites(j) \cap (JobWrites(work[e][l].job)
                                    \cup JobReads(work[e][l].job)) = {}
           /\ \A w \in InCall(e) :
                 LET a == writer[w].pc
                 IN /\ JobWrites(j) \cap (ActWrites(a) \cup ActReads(a)) = {}
                    /\ JobReads(j) \cap ActWrites(a) = {}

(* Every step of buildMetaBlock, and every job it hands over, reads what   *)
(* was computed for this metablock, never a leftover of the one before.    *)
(* The distance prefixes are there from the start, but distParams, which   *)
(* the histograms need too, comes with those encoded for it.               *)
FreshInputs ==
    /\ \A w \in Writers :
          writer[w].pc \in Activities =>
              ActReads(writer[w].pc) \subseteq made[enc[w]]
    /\ \A e \in Encs : \A k \in Working(e) :
          JobReads(work[e][k].job) \subseteq made[e]

(* An encoder is driven by one Writer, and a pooled one by none. *)
OneOwner ==
    \A w \in Writers : enc[w] # NoEnc =>
        enc[w] \notin pool /\ \A v \in Writers \ {w} : enc[v] # enc[w]

(* A Writer that would pass a call on has an encoder to pass it to. *)
NoUseAfterRelease ==
    \A w \in Writers :
        writer[w].life = "live" /\ (writer[w].pc # "idle"
              \/ (~writer[w].closed /\ ~writer[w].failed)) => enc[w] # NoEnc

(* Between calls no job is out, so Reset and release may touch what jobs   *)
(* use, and an encoder nobody holds has no goroutine to keep it alive.     *)
QuietBetweenCalls ==
    \A e \in Encs, k \in Workers :
        /\ (\A w \in Writers : enc[w] = e => writer[w].pc = "idle") =>
               ~work[e][k].busy
        /\ e \notin Held => ~work[e][k].open

(* Every call returns: no worker and caller wait for each other. *)
CallReturns == \A w \in Writers : writer[w].pc # "idle" ~> writer[w].pc = "idle"

(* The goroutines of an encoder that only abandoned Writers hold, or none, *)
(* end.                                                                    *)
Orphan(e) == \A w \in Writers : enc[w] = e => writer[w].life = "gone"
Running(e) == \E k \in Workers : work[e][k].open \/ work[e][k].old > 0
NoLeak == \A e \in Encs : Orphan(e) /\ Running(e) ~> ~(Orphan(e) /\ Running(e))
=============================================================================
