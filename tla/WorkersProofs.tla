--------------------------- MODULE WorkersProofs ---------------------------
(***************************************************************************)
(* Proofs about Workers, for every set of Writers and encoders.            *)
(* Proofs about MatchFeed, for every block size, hash length and spin      *)
(* count: no wakeup is lost, the DP reads published positions only, and    *)
(* the wait protocol implements the safety part of FeedContract.           *)
(***************************************************************************)
EXTENDS Workers, MatchFeed, TLAPS

(* begin, wait, stop, serve and the end of a goroutine keep a worker in    *)
(* shape.                                                                  *)
LEMMA WorkerSteps ==
    ASSUME NEW r \in WorkerType, WorkerOK(r)
    PROVE  /\ \A j \in Jobs : Begun(r, j) \in WorkerType /\ WorkerOK(Begun(r, j))
           /\ Waited(r) \in WorkerType /\ WorkerOK(Waited(r))
           /\ r.old < MaxOld => Stopped(r) \in WorkerType /\ WorkerOK(Stopped(r))
<1> USE WorkersAssumption DEF WorkerType, WorkerOK, Jobs
<1>1. \A j \in Jobs : Begun(r, j) \in WorkerType /\ WorkerOK(Begun(r, j))
  BY DEF Begun
<1>2. Waited(r) \in WorkerType /\ WorkerOK(Waited(r)) /\ Waited(r).old = r.old
  BY DEF Waited
<1>3. ASSUME r.old < MaxOld
      PROVE  Stopped(r) \in WorkerType /\ WorkerOK(Stopped(r))
  <2> DEFINE q == Waited(r)
  <2>1. q \in WorkerType /\ WorkerOK(q) /\ q.old + 1 \in 0 .. MaxOld
    BY <1>2, <1>3
  <2> HIDE DEF q
  <2>2. CASE q.open
    <3>1. Stopped(r) = [q EXCEPT !.open = FALSE, !.at = "none",
                                 !.old = q.old + 1]
      BY <2>2 DEF Stopped, q
    <3>2. ~q.busy => ~Stopped(r).busy
      BY <2>1, <3>1
    <3>3. ~q.busy
      BY <2>1 DEF q, Waited
    <3> QED
      BY <2>1, <3>1, <3>2, <3>3
  <2>3. CASE ~q.open
    BY <2>1, <2>3 DEF Stopped, q
  <2> QED
    BY <2>2, <2>3
<1> QED
  BY <1>1, <1>2, <1>3

(* The memory of a job and of an activity is memory of the encoder. *)
LEMMA Outputs ==
    /\ \A j \in Jobs : Output(j) \subseteq Products
    /\ \A a \in Activities : ActWrites(a) \ Scratch \subseteq Products
BY DEF Output, Jobs, Products, ActWrites, Activities, Scratch

-----------------------------------------------------------------------------
(* Who holds what: an absent or abandoned Writer is in no call, an absent  *)
(* one has no encoder, and only Close sets closing.                        *)
Lives ==
    \A w \in Writers :
        /\ writer[w].life # "live" => writer[w].pc = "idle"
        /\ writer[w].life = "none" => enc[w] = NoEnc
        /\ writer[w].closing => writer[w].closed /\ writer[w].pc # "idle"

OwnerInv == TypeOK /\ Lives /\ OneOwner /\ NoUseAfterRelease

(* A Writer in a call holds an encoder. *)
LEMMA InCallHolds ==
    ASSUME OwnerInv, NEW w \in Writers, writer[w].pc # "idle"
    PROVE  enc[w] \in Encs /\ writer[w].life = "live"
BY DEF OwnerInv, TypeOK, Lives, NoUseAfterRelease, WriterType

(* A worker that changes into one in shape leaves the types intact. *)
LEMMA OneWorker ==
    ASSUME TypeOK, NEW e \in Encs, NEW k \in Workers,
           NEW r \in WorkerType, WorkerOK(r),
           work' = [work EXCEPT ![e][k] = r]
    PROVE  /\ work' \in [Encs -> [Workers -> WorkerType]]
           /\ \A f \in Encs, l \in Workers : WorkerOK(work'[f][l])
<1>1. \A f \in Encs : work[f] \in [Workers -> WorkerType]
  BY DEF TypeOK
<1>2. \A f \in Encs, l \in Workers :
         work'[f][l] = IF f = e /\ l = k THEN r ELSE work[f][l]
  BY <1>1 DEF TypeOK
<1>3. \A f \in Encs, l \in Workers : WorkerOK(work'[f][l])
  BY <1>2 DEF TypeOK
<1>4. work' \in [Encs -> [Workers -> WorkerType]]
  BY DEF TypeOK
<1> QED
  BY <1>3, <1>4

(* The shape of a step inside a call: only the caller's place, a worker of *)
(* its encoder and what is made change.                                    *)
CallStep(w) ==
    /\ writer[w].pc # "idle"
    /\ \E to \in PC \ {"idle"} : Goto(w, to)
    /\ UNCHANGED <<enc, pool>>
    /\ work' \in [Encs -> [Workers -> WorkerType]]
    /\ \A f \in Encs, l \in Workers : WorkerOK(work'[f][l])
    /\ made' \in [Encs -> SUBSET Products]

(* begin gives a job to a worker of the caller's encoder. *)
LEMMA BeginIsCallStep ==
    ASSUME OwnerInv, NEW w \in Writers, NEW k \in Workers, NEW j \in Jobs,
           NEW from \in PC \ {"idle"}, NEW to \in PC \ {"idle"},
           Begin(w, k, j, from, to)
    PROVE  CallStep(w)
<1>1. enc[w] \in Encs
  BY InCallHolds DEF Begin, At
<1> DEFINE e == enc[w]
           r == Begun(work[e][k], j)
<1>2. work[e][k] \in WorkerType /\ WorkerOK(work[e][k])
  BY <1>1 DEF OwnerInv, TypeOK
<1>3. r \in WorkerType /\ WorkerOK(r)
  BY <1>2, WorkerSteps
<1>4. work' = [work EXCEPT ![e][k] = r]
  BY DEF Begin
<1> HIDE DEF e, r
<1>5. /\ work' \in [Encs -> [Workers -> WorkerType]]
      /\ \A f \in Encs, l \in Workers : WorkerOK(work'[f][l])
  BY <1>1, <1>3, <1>4, OneWorker DEF OwnerInv, e
<1> QED
  BY <1>5 DEF CallStep, Begin, At, OwnerInv, TypeOK

(* wait takes a finished job back. *)
LEMMA JoinIsCallStep ==
    ASSUME OwnerInv, NEW w \in Writers, NEW k \in Workers,
           NEW from \in PC \ {"idle"}, NEW to \in PC \ {"idle"},
           Join(w, k, from, to)
    PROVE  CallStep(w)
<1>1. enc[w] \in Encs
  BY InCallHolds DEF Join, At
<1> DEFINE e == enc[w]
           r == Waited(work[e][k])
<1>2. work[e][k] \in WorkerType /\ WorkerOK(work[e][k])
  BY <1>1 DEF OwnerInv, TypeOK
<1>3. r \in WorkerType /\ WorkerOK(r)
  BY <1>2, WorkerSteps
<1>4. work' = [work EXCEPT ![e][k] = r]
  BY DEF Join
<1> HIDE DEF e, r
<1>5. /\ work' \in [Encs -> [Workers -> WorkerType]]
      /\ \A f \in Encs, l \in Workers : WorkerOK(work'[f][l])
  BY <1>1, <1>3, <1>4, OneWorker DEF OwnerInv, e
<1> QED
  BY <1>5 DEF CallStep, Join, At, OwnerInv, TypeOK

(* The caller's own work only adds to what is made. *)
LEMMA ActIsCallStep ==
    ASSUME OwnerInv, NEW w \in Writers, NEW a \in Activities,
           NEW to \in PC \ {"idle"}, Act(w, a, to)
    PROVE  CallStep(w)
<1>1. enc[w] \in Encs /\ writer[w].pc # "idle"
  BY InCallHolds DEF Act, At, Activities
<1>2. made' \in [Encs -> SUBSET Products]
  BY <1>1, Outputs DEF Act, OwnerInv, TypeOK
<1> QED
  BY <1>1, <1>2 DEF CallStep, Act, OwnerInv, TypeOK

(* Every step of an encode has the shape of CallStep. *)
LEMMA EncodeIsCallStep ==
    ASSUME OwnerInv, NEW w \in Writers, Encode(w) \/ Block(w)
    PROVE  CallStep(w)
<1> USE DEF PC, Activities, Workers, Jobs
<1>1. CASE \/ BeginCollect(w) \/ BeginCommands(w) \/ BeginDistances(w)
           \/ BeginCluster(w)
  BY <1>1, BeginIsCallStep
     DEF BeginCollect, BeginCommands, BeginDistances, BeginCluster
<1>2. CASE \/ JoinCollect(w) \/ JoinCommands(w) \/ JoinDistances(w)
           \/ JoinCluster(w)
  BY <1>2, JoinIsCallStep
     DEF JoinCollect, JoinCommands, JoinDistances, JoinCluster
<1>3. CASE DP(w) \/ Literals(w) \/ Histograms(w) \/ ClusterLiterals(w)
  BY <1>3, ActIsCallStep DEF DP, Literals, Histograms, ClusterLiterals
<1>4. CASE Prepare(w)
  BY <1>4 DEF Prepare, At, CallStep, OwnerInv, TypeOK, Products
<1>5. CASE ContextMaps(w)
  BY <1>5 DEF ContextMaps, At, CallStep, OwnerInv, TypeOK, Products
<1>6. CASE Block(w)
  BY <1>6 DEF Block, At, CallStep, OwnerInv, TypeOK
<1> QED
  BY <1>1, <1>2, <1>3, <1>4, <1>5, <1>6 DEF Encode

(* Release stops both workers and gives the encoder up. *)
LEMMA ReleaseTypes ==
    ASSUME OwnerInv, NEW w \in Writers, enc[w] \in Encs, Release(w)
    PROVE  /\ work' \in [Encs -> [Workers -> WorkerType]]
           /\ \A f \in Encs, l \in Workers : WorkerOK(work'[f][l])
           /\ made' \in [Encs -> SUBSET Products]
           /\ enc' \in [Writers -> Encs \cup {NoEnc}]
           /\ pool' \subseteq Encs
<1> DEFINE e == enc[w]
           s == [k \in Workers |-> Stopped(work[e][k])]
<1>1. \A k \in Workers : work[e][k] \in WorkerType /\ WorkerOK(work[e][k])
                           /\ work[e][k].old < MaxOld
  BY DEF OwnerInv, TypeOK, Release, CanRelease
<1>2. \A k \in Workers : Stopped(work[e][k]) \in WorkerType
                           /\ WorkerOK(Stopped(work[e][k]))
  BY <1>1, WorkerSteps
<1>3. s \in [Workers -> WorkerType] /\ \A k \in Workers : WorkerOK(s[k])
  BY <1>2
<1>4. work' = [work EXCEPT ![e] = s]
  BY DEF Release, Released
<1> HIDE DEF s
<1>5. work' \in [Encs -> [Workers -> WorkerType]]
  BY <1>3, <1>4 DEF OwnerInv, TypeOK
<1>6. \A f \in Encs, l \in Workers : WorkerOK(work'[f][l])
  BY <1>3, <1>4 DEF OwnerInv, TypeOK
<1>7. /\ made' \in [Encs -> SUBSET Products]
      /\ enc' \in [Writers -> Encs \cup {NoEnc}]
      /\ pool' \subseteq Encs
  BY DEF OwnerInv, TypeOK, Release
<1> QED
  BY <1>5, <1>6, <1>7

(* At the start nobody holds an encoder. *)
LEMMA OwnerInit == Init => OwnerInv
BY WorkersAssumption
   DEF Init, OwnerInv, TypeOK, Lives, OneOwner, NoUseAfterRelease, Absent, Idle,
       WriterType, WorkerType, WorkerOK, PC, Jobs, Products

(* What a step must show when it replaces the state of one Writer and      *)
(* possibly its encoder.                                                   *)
LEMMA WriterFrame ==
    ASSUME OwnerInv, NEW w \in Writers, NEW n \in WriterType,
           NEW c \in Encs \cup {NoEnc}, NEW p \in SUBSET Encs,
           writer' = [writer EXCEPT ![w] = n],
           enc' = [enc EXCEPT ![w] = c], pool' = p,
           work' \in [Encs -> [Workers -> WorkerType]],
           \A f \in Encs, l \in Workers : WorkerOK(work'[f][l]),
           made' \in [Encs -> SUBSET Products],
           n.life # "live" => n.pc = "idle",
           n.life = "none" => c = NoEnc,
           n.closing => n.closed /\ n.pc # "idle",
           n.life = "live" /\ (n.pc # "idle" \/ (~n.closed /\ ~n.failed))
              => c # NoEnc,
           c # NoEnc => c \notin p /\ \A v \in Writers \ {w} : enc[v] # c,
           \A v \in Writers \ {w} : enc[v] # NoEnc => enc[v] \notin p
    PROVE  OwnerInv'
<1>1. TypeOK'
  BY DEF OwnerInv, TypeOK
<1>2. \A v \in Writers :
         /\ writer'[v] = IF v = w THEN n ELSE writer[v]
         /\ enc'[v] = IF v = w THEN c ELSE enc[v]
  BY DEF OwnerInv, TypeOK
<1>3. Lives'
  BY <1>2 DEF OwnerInv, Lives
<1>4. OneOwner'
  BY <1>2 DEF OwnerInv, OneOwner
<1>5. NoUseAfterRelease'
  BY <1>2 DEF OwnerInv, NoUseAfterRelease
<1> QED
  BY <1>1, <1>3, <1>4, <1>5 DEF OwnerInv

(* Every step keeps each encoder with at most one Writer. *)
LEMMA OwnerStep == OwnerInv /\ [Next]_vars => OwnerInv'
<1> SUFFICES ASSUME OwnerInv, [Next]_vars PROVE OwnerInv'
  OBVIOUS
<1> USE WorkersAssumption
<1>1. ASSUME NEW w \in Writers, Encode(w) \/ Block(w) PROVE OwnerInv'
  <2>1. CallStep(w) /\ enc[w] \in Encs /\ writer[w].life = "live"
    BY <1>1, EncodeIsCallStep, InCallHolds DEF CallStep
  <2>2. PICK to \in PC \ {"idle"} : writer' = [writer EXCEPT ![w].pc = to]
    BY <2>1 DEF CallStep, Goto
  <2>3. TypeOK'
    BY <2>1, <2>2 DEF CallStep, OwnerInv, TypeOK, WriterType
  <2> QED
    BY <2>1, <2>2, <2>3
       DEF CallStep, OwnerInv, TypeOK, Lives, OneOwner, NoUseAfterRelease,
           WriterType
<1> DEFINE T == /\ work \in [Encs -> [Workers -> WorkerType]]
                /\ \A f \in Encs, l \in Workers : WorkerOK(work[f][l])
                /\ made \in [Encs -> SUBSET Products]
                /\ pool \in SUBSET Encs
<1>t. T /\ \A v \in Writers : writer[v] \in WriterType
                                /\ enc[v] \in Encs \cup {NoEnc}
  BY DEF OwnerInv, TypeOK
<1>2. ASSUME NEW w \in Writers, NewWriter(w) PROVE OwnerInv'
  <2> DEFINE n == [Absent EXCEPT !.life = "live"]
  <2>1. /\ n \in WriterType /\ n.life = "live" /\ n.pc = "idle" /\ ~n.closing
        /\ writer' = [writer EXCEPT ![w] = n]
    BY <1>2 DEF NewWriter, Absent, WriterType, PC
  <2>2. PICK e \in Encs \ Held : enc' = [enc EXCEPT ![w] = e]
                                /\ pool' = pool \ {e}
    BY <1>2 DEF NewWriter, Acquire
  <2>3. e # NoEnc /\ \A v \in Writers : enc[v] # e
    BY <2>2 DEF Held
  <2>4. \A v \in Writers : enc[v] # NoEnc => enc[v] \notin pool
    BY DEF OwnerInv, OneOwner
  <2>5. T'
    BY <1>t, <1>2, <2>2 DEF NewWriter
  <2> HIDE DEF n
  <2> QED
    BY <2>1, <2>2, <2>3, <2>4, <2>5, WriterFrame
<1>3. ASSUME NEW w \in Writers, Reset(w) PROVE OwnerInv'
  <2> DEFINE n == [writer[w] EXCEPT !.failed = FALSE, !.closed = FALSE,
                                    !.reused = TRUE]
  <2>0. ~writer[w].closing
    BY <1>3 DEF Reset, At, OwnerInv, Lives
  <2>1. /\ n \in WriterType /\ n.life = "live" /\ n.pc = "idle" /\ ~n.closing
        /\ writer' = [writer EXCEPT ![w] = n]
    BY <1>t, <1>3, <2>0 DEF Reset, At, WriterType
  <2>4. \A v \in Writers : enc[v] # NoEnc => enc[v] \notin pool
    BY DEF OwnerInv, OneOwner
  <2>5. work' = work /\ made' = made
    BY <1>3 DEF Reset
  <2>6. CASE enc[w] = NoEnc
    <3>1. PICK e \in Encs \ Held : enc' = [enc EXCEPT ![w] = e]
                                  /\ pool' = pool \ {e}
      BY <1>3, <2>6 DEF Reset, Acquire
    <3>2. e # NoEnc /\ \A v \in Writers : enc[v] # e
      BY <3>1 DEF Held
    <3>3. T'
      BY <1>t, <2>5, <3>1
    <3> HIDE DEF n
    <3> QED
      BY <2>1, <2>4, <3>1, <3>2, <3>3, WriterFrame
  <2>7. CASE enc[w] # NoEnc
    <3>1. enc' = [enc EXCEPT ![w] = enc[w]] /\ pool' = pool
      BY <1>3, <2>7 DEF Reset, OwnerInv, TypeOK
    <3>2. \A v \in Writers \ {w} : enc[v] # enc[w]
      BY <2>7 DEF OwnerInv, OneOwner
    <3>3. T'
      BY <1>t, <2>5, <3>1
    <3> HIDE DEF n
    <3> QED
      BY <1>t, <2>1, <2>4, <2>7, <3>1, <3>2, <3>3, WriterFrame
  <2> QED
    BY <2>6, <2>7
<1>4. ASSUME NEW w \in Writers, Abandon(w) PROVE OwnerInv'
  <2>4. \A v \in Writers : enc[v] # NoEnc =>
           enc[v] \notin pool /\ \A u \in Writers \ {v} : enc[u] # enc[v]
    BY DEF OwnerInv, OneOwner
  <2>5. T' /\ pool' = pool
    BY <1>t, <1>4 DEF Abandon
  <2>6. CASE w \in Parallel
    <3> DEFINE n == [writer[w] EXCEPT !.life = "gone"]
    <3>1. /\ n \in WriterType /\ n.life = "gone" /\ n.pc = "idle"
          /\ n.closing = writer[w].closing
          /\ writer' = [writer EXCEPT ![w] = n]
      BY <1>t, <1>4, <2>6 DEF Abandon, At, WriterType
    <3>2. enc' = [enc EXCEPT ![w] = enc[w]]
      BY <1>4, <2>6 DEF Abandon, OwnerInv, TypeOK
    <3>3. ~n.closing
      BY <1>4, <3>1 DEF Abandon, At, OwnerInv, Lives
    <3> HIDE DEF n
    <3> QED
      BY <1>t, <2>4, <2>5, <3>1, <3>2, <3>3, WriterFrame
  <2>7. CASE w \notin Parallel
    <3> DEFINE n == Absent
    <3>1. /\ n \in WriterType /\ n.life = "none" /\ n.pc = "idle" /\ ~n.closing
          /\ writer' = [writer EXCEPT ![w] = n]
      BY <1>4, <2>7 DEF Abandon, Absent, WriterType, PC
    <3>2. enc' = [enc EXCEPT ![w] = NoEnc]
      BY <1>4, <2>7 DEF Abandon
    <3> HIDE DEF n
    <3> QED
      BY <1>t, <2>4, <2>5, <3>1, <3>2, WriterFrame
  <2> QED
    BY <2>6, <2>7
<1>5. ASSUME NEW w \in Writers, Finalize(w) PROVE OwnerInv'
  <2> DEFINE n == Absent
  <2>1. /\ n \in WriterType /\ n.life = "none" /\ n.pc = "idle" /\ ~n.closing
        /\ writer' = [writer EXCEPT ![w] = n]
    BY <1>5 DEF Finalize, Absent, WriterType, PC
  <2>4. \A v \in Writers : enc[v] # NoEnc =>
           enc[v] \notin pool /\ \A u \in Writers \ {v} : enc[u] # enc[v]
    BY DEF OwnerInv, OneOwner
  <2>5. CASE enc[w] = NoEnc
    <3>1. enc' = [enc EXCEPT ![w] = NoEnc] /\ pool' = pool /\ T'
      BY <1>t, <1>5, <2>5 DEF Finalize, OwnerInv, TypeOK
    <3> HIDE DEF n
    <3> QED
      BY <1>t, <2>1, <2>4, <3>1, WriterFrame
  <2>6. CASE enc[w] \in Encs
    <3>1. Release(w)
      BY <1>5, <2>6 DEF Finalize
    <3>2. enc' = [enc EXCEPT ![w] = NoEnc] /\ pool' = pool \cup {enc[w]} /\ T'
      BY <2>6, <3>1, ReleaseTypes DEF Release
    <3> HIDE DEF n
    <3> QED
      BY <1>t, <2>1, <2>4, <2>6, <3>2, WriterFrame
  <2> QED
    BY <1>t, <2>5, <2>6
<1>6. ASSUME NEW w \in Writers, NEW closing \in BOOLEAN, Call(w, closing)
      PROVE  OwnerInv'
  <2> DEFINE n == [writer[w] EXCEPT !.pc = "call", !.closing = closing,
                                    !.closed = closing]
  <2>1. /\ n \in WriterType /\ n.life = "live" /\ n.pc = "call"
        /\ n.closing = n.closed
        /\ writer' = [writer EXCEPT ![w] = n]
    BY <1>t, <1>6 DEF Call, At, WriterType, PC
  <2>2. enc' = [enc EXCEPT ![w] = enc[w]] /\ pool' = pool /\ T'
    BY <1>t, <1>6 DEF Call, OwnerInv, TypeOK
  <2>3. enc[w] # NoEnc
    BY <1>6 DEF Call, OwnerInv, NoUseAfterRelease
  <2>4. \A v \in Writers : enc[v] # NoEnc =>
           enc[v] \notin pool /\ \A u \in Writers \ {v} : enc[u] # enc[v]
    BY DEF OwnerInv, OneOwner
  <2> HIDE DEF n
  <2> QED
    BY <1>t, <2>1, <2>2, <2>3, <2>4, WriterFrame
<1>7. ASSUME NEW w \in Writers, NEW ok \in BOOLEAN, Return(w, ok)
      PROVE  OwnerInv'
  <2> DEFINE n == [writer[w] EXCEPT !.pc = "idle", !.closing = FALSE,
                                    !.failed = ~ok]
  <2>1. enc[w] \in Encs /\ writer[w].life = "live"
    BY <1>7, InCallHolds DEF Return, At
  <2>2. /\ n \in WriterType /\ n.life = "live" /\ n.pc = "idle" /\ ~n.closing
        /\ n.closed = writer[w].closed
        /\ writer' = [writer EXCEPT ![w] = n]
    BY <1>t, <1>7, <2>1 DEF Return, WriterType, PC
  <2>4. \A v \in Writers : enc[v] # NoEnc =>
           enc[v] \notin pool /\ \A u \in Writers \ {v} : enc[u] # enc[v]
    BY DEF OwnerInv, OneOwner
  <2>5. CASE writer[w].closing /\ ~writer[w].reused
    <3>1. Release(w)
      BY <1>7, <2>5 DEF Return
    <3>2. enc' = [enc EXCEPT ![w] = NoEnc] /\ pool' = pool \cup {enc[w]} /\ T'
      BY <2>1, <3>1, ReleaseTypes DEF Release
    <3>3. n.closed
      BY <2>2, <2>5 DEF OwnerInv, Lives
    <3> HIDE DEF n
    <3> QED
      BY <1>t, <2>1, <2>2, <2>4, <3>2, <3>3, WriterFrame
  <2>6. CASE ~(writer[w].closing /\ ~writer[w].reused)
    <3>1. enc' = [enc EXCEPT ![w] = enc[w]] /\ pool' = pool /\ T'
      BY <1>t, <1>7, <2>6 DEF Return, OwnerInv, TypeOK
    <3> HIDE DEF n
    <3> QED
      BY <1>t, <2>1, <2>2, <2>4, <3>1, WriterFrame
  <2> QED
    BY <2>5, <2>6
<1>8. ASSUME NEW e \in Encs, NEW k \in Workers, Serve(e, k) \/ Exit(e, k)
      PROVE  OwnerInv'
  <2> DEFINE q == work[e][k]
  <2>1. q \in WorkerType /\ WorkerOK(q)
    BY DEF OwnerInv, TypeOK
  <2>2. CASE Serve(e, k)
    <3> DEFINE r == [q EXCEPT !.at = "send"]
    <3>1. r \in WorkerType /\ WorkerOK(r) /\ work' = [work EXCEPT ![e][k] = r]
      BY <2>1, <2>2 DEF Serve, WorkerType, WorkerOK, OwnerInv, TypeOK
    <3>2. made' \in [Encs -> SUBSET Products]
      BY <2>1, <2>2, Outputs DEF Serve, OwnerInv, TypeOK, WorkerType
    <3> HIDE DEF r
    <3>3. TypeOK'
      BY <2>2, <3>1, <3>2, OneWorker DEF Serve, OwnerInv, TypeOK
    <3> QED
      BY <2>2, <3>3 DEF Serve, OwnerInv, Lives, OneOwner, NoUseAfterRelease
  <2>3. CASE Exit(e, k)
    <3> DEFINE r == [q EXCEPT !.old = q.old - 1]
    <3>1. q.old - 1 \in 0 .. MaxOld
      BY <2>1, <2>3 DEF Exit, WorkerType
    <3>2. r \in WorkerType /\ WorkerOK(r) /\ work' = [work EXCEPT ![e][k] = r]
      BY <2>1, <2>3, <3>1 DEF Exit, WorkerType, WorkerOK, OwnerInv, TypeOK
    <3> HIDE DEF r
    <3>3. TypeOK'
      BY <2>3, <3>2, OneWorker DEF Exit, OwnerInv, TypeOK
    <3> QED
      BY <2>3, <3>3 DEF Exit, OwnerInv, Lives, OneOwner, NoUseAfterRelease
  <2> QED
    BY <1>8, <2>2, <2>3
<1>9. CASE UNCHANGED vars
  BY <1>9 DEF vars, OwnerInv, TypeOK, Lives, OneOwner, NoUseAfterRelease
<1> QED
  BY <1>1, <1>2, <1>3, <1>4, <1>5, <1>6, <1>7, <1>8, <1>9 DEF Next, Ends

(* Types, who holds which encoder, and the shape of a worker, for any      *)
(* number of Writers and encoders.                                         *)
THEOREM Ownership == Spec => []OwnerInv
BY OwnerInit, OwnerStep, PTL DEF Spec

(* Every step keeps the types, and a worker is busy exactly while a job of *)
(* it is out.                                                              *)
THEOREM TypesHold == Spec => []TypeOK
<1>1. OwnerInv => TypeOK
  BY DEF OwnerInv
<1> QED
  BY Ownership, <1>1, PTL

(* newWriter, Reset, Close and the finalizer never let two Writers share   *)
(* an encoder, or one be used while it is in the pool.                     *)
THEOREM EncoderHasOneOwner == Spec => []OneOwner
<1>1. OwnerInv => OneOwner
  BY DEF OwnerInv
<1> QED
  BY Ownership, <1>1, PTL

(* A Writer that passes a call on has an encoder. *)
THEOREM EncoderNotUsedAfterRelease == Spec => []NoUseAfterRelease
<1>1. OwnerInv => NoUseAfterRelease
  BY DEF OwnerInv
<1> QED
  BY Ownership, <1>1, PTL

-----------------------------------------------------------------------------
(* Places that only a caller with workers reaches. *)
ParallelPC == {"collect", "splitCmds", "splitDists", "lits", "joinCmds",
               "joinDists", "hist", "cluster", "clusterLits", "joinCluster",
               "maps"}

(* The job that is out while Writer w is at pc, if there is one. *)
JobOut(w, pc, k) ==
    IF k = "collector"
    THEN \/ pc \in {"dp", "joinCollect"} /\ w \in Parallel
         \/ pc \in {"splitDists", "lits", "joinCmds"}
    ELSE pc \in {"lits", "joinCmds", "joinDists", "clusterLits", "joinCluster"}

JobOf(pc, k) ==
    IF k = "collector"
    THEN IF pc \in {"dp", "joinCollect"} THEN "collect" ELSE "splitCommands"
    ELSE IF pc \in {"clusterLits", "joinCluster"} THEN "clusterDistances"
         ELSE "splitDistances"

(* What the metablock has by the time its builder is at pc. *)
MadeBy(x, pc) ==
    \/ x \in {"commands", "distPrefixes"} /\ pc \in {"joinCollect", "prepare"}
    \/ x \in {"commands", "distPrefixes", "literals"}
          /\ pc \in ParallelPC \ {"collect"}
    \/ x = "litSplit" /\ pc \in ParallelPC \ {"collect", "splitCmds",
                                              "splitDists", "lits"}
    \/ x = "cmdSplit" /\ pc \in {"joinDists", "hist", "cluster", "clusterLits",
                                 "joinCluster", "maps"}
    \/ x \in {"distSplit", "distParams"}
          /\ pc \in {"hist", "cluster", "clusterLits", "joinCluster", "maps"}
    \/ x \in {"litHist", "distHist"}
          /\ pc \in {"cluster", "clusterLits", "joinCluster", "maps"}
    \/ x = "litOut" /\ pc \in {"joinCluster", "maps"}
    \/ x = "distOut" /\ pc = "maps"

(* The workers of an encoder fit the place of the Writer that drives it. *)
Fit(w, pc, row, m) ==
    /\ pc \in ParallelPC => w \in Parallel
    /\ \A k \in Workers :
          /\ row[k].busy <=> JobOut(w, pc, k)
          /\ row[k].busy => row[k].job = JobOf(pc, k)
          /\ row[k].at = "send" => Output(row[k].job) \subseteq m
          /\ w \notin Parallel => ~row[k].open
    /\ \A x \in Products : MadeBy(x, pc) => x \in m

JobInv ==
    /\ OwnerInv
    /\ \A w \in Writers : enc[w] \in Encs =>
          Fit(w, writer[w].pc, work[enc[w]], made[enc[w]])
    /\ \A e \in Encs \ Held, k \in Workers : ~work[e][k].open

(* A worker without a goroutine has no job. *)
LEMMA ClosedWorker ==
    ASSUME TypeOK, NEW e \in Encs, NEW k \in Workers, ~work[e][k].open
    PROVE  ~work[e][k].busy /\ work[e][k].at = "none"
BY DEF TypeOK, WorkerType, WorkerOK

(* A step inside a call concerns one Writer and one encoder. *)
LEMMA CallFrame ==
    ASSUME JobInv, OwnerInv', NEW w \in Writers, writer[w].pc # "idle",
           NEW to \in PC, writer' = [writer EXCEPT ![w].pc = to],
           enc' = enc,
           \A e \in Encs : e # enc[w] => work'[e] = work[e] /\ made'[e] = made[e],
           Fit(w, to, work'[enc[w]], made'[enc[w]])
    PROVE  JobInv'
<1>1. OwnerInv /\ enc[w] \in Encs
  BY InCallHolds DEF JobInv
<1>2. writer'[w].pc = to /\ \A v \in Writers \ {w} : writer'[v] = writer[v]
  BY <1>1 DEF OwnerInv, TypeOK, WriterType
<1>3. ASSUME NEW v \in Writers, enc'[v] \in Encs
      PROVE  Fit(v, writer'[v].pc, work'[enc'[v]], made'[enc'[v]])
  <2>1. CASE v = w
    BY <1>2, <2>1
  <2>2. CASE v # w
    <3>1. enc[v] # enc[w]
      BY <1>1, <2>2, WorkersAssumption DEF OwnerInv, OneOwner
    <3>2. enc[v] \in Encs /\ Fit(v, writer[v].pc, work[enc[v]], made[enc[v]])
      BY <1>3 DEF JobInv
    <3>3. /\ writer'[v].pc = writer[v].pc /\ enc'[v] = enc[v]
          /\ work'[enc[v]] = work[enc[v]] /\ made'[enc[v]] = made[enc[v]]
      BY <1>2, <2>2, <3>1, <3>2
    <3> QED
      BY <3>2, <3>3 DEF Fit
  <2> QED
    BY <2>1, <2>2
<1>4. ASSUME NEW e \in Encs \ Held', NEW k \in Workers
      PROVE  ~work'[e][k].open
  <2>1. e \notin Held /\ e # enc[w]
    BY DEF Held
  <2> QED
    BY <2>1 DEF JobInv
<1> QED
  BY <1>3, <1>4 DEF JobInv

(* The state of a caller's encoder before its step. *)
LEMMA CallerFits ==
    ASSUME JobInv, NEW w \in Writers, writer[w].pc # "idle"
    PROVE  /\ enc[w] \in Encs
           /\ Fit(w, writer[w].pc, work[enc[w]], made[enc[w]])
           /\ \A k \in Workers : /\ work[enc[w]][k] \in WorkerType
                                   /\ WorkerOK(work[enc[w]][k])
BY InCallHolds DEF JobInv, OwnerInv, TypeOK

(* begin: the job that is now out is the one the next place expects, and   *)
(* the other worker's job is still right there.                            *)
LEMMA BeginFits ==
    ASSUME JobInv, OwnerInv', NEW w \in Writers, NEW k \in Workers,
           NEW j \in Jobs, NEW from \in PC \ {"idle"}, NEW to \in PC,
           Begin(w, k, j, from, to),
           from \in ParallelPC, to \in ParallelPC \cup {"dp"},
           JobOut(w, to, k), JobOf(to, k) = j,
           \A l \in Workers \ {k} :
              /\ JobOut(w, from, l) <=> JobOut(w, to, l)
              /\ JobOut(w, from, l) => JobOf(from, l) = JobOf(to, l),
           \A x \in Products : MadeBy(x, to) => MadeBy(x, from)
    PROVE  JobInv'
<1> DEFINE e == enc[w]
           r == work[e][k]
<1>1. writer[w].pc = from /\ from # "idle"
  BY DEF Begin, At
<1>2. e \in Encs /\ Fit(w, from, work[e], made[e])
      /\ \A l \in Workers : work[e][l] \in WorkerType
  BY <1>1, CallerFits
<1>3. /\ work' = [work EXCEPT ![e][k] = Begun(r, j)]
      /\ writer' = [writer EXCEPT ![w].pc = to] /\ enc' = enc /\ made' = made
  BY DEF Begin, Goto
<1>4. /\ \A f \in Encs : f # e => work'[f] = work[f]
      /\ work'[e][k] = Begun(r, j)
      /\ \A l \in Workers \ {k} : work'[e][l] = work[e][l]
  BY <1>2, <1>3 DEF JobInv, OwnerInv, TypeOK
<1>5. /\ Begun(r, j).busy /\ Begun(r, j).job = j
      /\ Begun(r, j).at = "work" /\ w \in Parallel
  BY <1>2 DEF Begun, WorkerType, Fit
<1>6. Fit(w, to, work'[e], made'[e])
  BY <1>2, <1>3, <1>4, <1>5 DEF Fit
<1> QED
  BY <1>1, <1>3, <1>4, <1>6, CallFrame

(* wait: the job is no longer out, and what the next place relies on is    *)
(* made, by the job if not before.                                         *)
LEMMA JoinFits ==
    ASSUME JobInv, OwnerInv', NEW w \in Writers, NEW k \in Workers,
           NEW from \in PC \ {"idle"}, NEW to \in PC,
           Join(w, k, from, to),
           to \in ParallelPC => from \in ParallelPC,
           ~JobOut(w, to, k),
           \A l \in Workers \ {k} :
              /\ JobOut(w, from, l) <=> JobOut(w, to, l)
              /\ JobOut(w, from, l) => JobOf(from, l) = JobOf(to, l),
           \A x \in Products : MadeBy(x, to) =>
              MadeBy(x, from) \/ (JobOut(w, from, k) /\ x \in Output(JobOf(from, k)))
    PROVE  JobInv'
<1> DEFINE e == enc[w]
           r == work[e][k]
<1>1. writer[w].pc = from /\ from # "idle"
  BY DEF Join, At
<1>2. /\ e \in Encs /\ Fit(w, from, work[e], made[e])
      /\ \A l \in Workers : work[e][l] \in WorkerType /\ WorkerOK(work[e][l])
  BY <1>1, CallerFits
<1>3. /\ work' = [work EXCEPT ![e][k] = Waited(r)] /\ CanWait(r)
      /\ writer' = [writer EXCEPT ![w].pc = to] /\ enc' = enc /\ made' = made
  BY DEF Join, Goto
<1>4. /\ \A f \in Encs : f # e => work'[f] = work[f]
      /\ work'[e][k] = Waited(r)
      /\ \A l \in Workers \ {k} : work'[e][l] = work[e][l]
  BY <1>2, <1>3 DEF JobInv, OwnerInv, TypeOK
<1>5. /\ ~Waited(r).busy /\ Waited(r).at # "send"
      /\ Waited(r).open = r.open
  BY <1>2 DEF Waited, WorkerType, WorkerOK
<1>6. \A x \in Products : MadeBy(x, to) => x \in made[e]
  BY <1>2, <1>3 DEF Fit, CanWait
<1>7. Fit(w, to, work'[e], made'[e])
  BY <1>2, <1>3, <1>4, <1>5, <1>6 DEF Fit
<1> QED
  BY <1>1, <1>3, <1>4, <1>7, CallFrame

(* The caller's own work: no job comes or goes, and what the next place    *)
(* relies on is made.                                                      *)
LEMMA ActFits ==
    ASSUME JobInv, OwnerInv', NEW w \in Writers, NEW a \in Activities,
           NEW to \in PC, Act(w, a, to),
           to \in ParallelPC => a \in ParallelPC,
           \A k \in Workers :
              /\ JobOut(w, a, k) <=> JobOut(w, to, k)
              /\ JobOut(w, a, k) => JobOf(a, k) = JobOf(to, k),
           \A x \in Products : MadeBy(x, to) =>
              MadeBy(x, a) \/ x \in ActWrites(a) \ Scratch
    PROVE  JobInv'
<1> DEFINE e == enc[w]
<1>1. writer[w].pc = a /\ a # "idle"
  BY DEF Act, At, Activities
<1>2. e \in Encs /\ Fit(w, a, work[e], made[e])
  BY <1>1, CallerFits
<1>3. /\ made' = [made EXCEPT ![e] = made[e] \cup (ActWrites(a) \ Scratch)]
      /\ writer' = [writer EXCEPT ![w].pc = to] /\ enc' = enc /\ work' = work
  BY DEF Act, Goto
<1>4. /\ \A f \in Encs : f # e => made'[f] = made[f]
      /\ made'[e] = made[e] \cup (ActWrites(a) \ Scratch)
  BY <1>2, <1>3 DEF JobInv, OwnerInv, TypeOK
<1>5. Fit(w, to, work'[e], made'[e])
  BY <1>2, <1>3, <1>4 DEF Fit
<1> QED
  BY <1>1, <1>3, <1>4, <1>5, CallFrame

(* Steps that start a metablock, end one or begin a block: no job is out. *)
LEMMA AloneFits ==
    ASSUME JobInv, OwnerInv', NEW w \in Writers,
           writer[w].pc # "idle", NEW to \in PC,
           writer' = [writer EXCEPT ![w].pc = to], enc' = enc, work' = work,
           \A e \in Encs : e # enc[w] => made'[e] = made[e],
           \A k \in Workers : ~JobOut(w, writer[w].pc, k) /\ ~JobOut(w, to, k),
           to \in ParallelPC => w \in Parallel,
           \A x \in Products : MadeBy(x, to) => x \in made'[enc[w]]
    PROVE  JobInv'
<1> DEFINE e == enc[w]
<1>1. /\ e \in Encs /\ Fit(w, writer[w].pc, work[e], made[e])
      /\ \A l \in Workers : work[e][l] \in WorkerType /\ WorkerOK(work[e][l])
  BY CallerFits
<1>2. \A k \in Workers : ~work[e][k].busy /\ work[e][k].at # "send"
  BY <1>1 DEF Fit, WorkerOK, WorkerType
<1>3. Fit(w, to, work'[e], made'[e])
  BY <1>1, <1>2 DEF Fit
<1> QED
  BY <1>3, CallFrame

(* Every step of an encode leads from a place the workers fit to another.  *)
LEMMA EncodeFits ==
    ASSUME JobInv, OwnerInv', NEW w \in Writers, Encode(w) \/ Block(w)
    PROVE  JobInv'
<1> USE DEF PC, Activities, ParallelPC, Workers, Jobs, JobOut, JobOf
<1>1. CASE BeginCollect(w)
  <2>1. \A x \in Products : MadeBy(x, "dp") => MadeBy(x, "collect")
    BY DEF MadeBy
  <2>2. w \in Parallel
    BY <1>1, CallerFits DEF BeginCollect, Begin, At, Fit
  <2> QED
    BY <1>1, <2>1, <2>2, BeginFits DEF BeginCollect
<1>2. CASE BeginCommands(w)
  <2>1. \A x \in Products : MadeBy(x, "splitDists") => MadeBy(x, "splitCmds")
    BY DEF MadeBy
  <2> QED
    BY <1>2, <2>1, BeginFits DEF BeginCommands
<1>3. CASE BeginDistances(w)
  <2>1. \A x \in Products : MadeBy(x, "lits") => MadeBy(x, "splitDists")
    BY DEF MadeBy
  <2> QED
    BY <1>3, <2>1, BeginFits DEF BeginDistances
<1>4. CASE BeginCluster(w)
  <2>1. \A x \in Products : MadeBy(x, "clusterLits") => MadeBy(x, "cluster")
    BY DEF MadeBy
  <2> QED
    BY <1>4, <2>1, BeginFits DEF BeginCluster
<1>5. CASE JoinCollect(w)
  <2>1. \A x \in Products, to \in {"call", "prepare"} :
           MadeBy(x, to) => MadeBy(x, "joinCollect")
    BY DEF MadeBy
  <2> QED
    BY <1>5, <2>1, JoinFits DEF JoinCollect
<1>6. CASE JoinCommands(w)
  <2>1. \A x \in Products : MadeBy(x, "joinDists") =>
           MadeBy(x, "joinCmds") \/ x \in Output("splitCommands")
    BY DEF MadeBy, Output
  <2> QED
    BY <1>6, <2>1, JoinFits DEF JoinCommands
<1>7. CASE JoinDistances(w)
  <2>1. \A x \in Products : MadeBy(x, "hist") =>
           MadeBy(x, "joinDists") \/ x \in Output("splitDistances")
    BY DEF MadeBy, Output
  <2> QED
    BY <1>7, <2>1, JoinFits DEF JoinDistances
<1>8. CASE JoinCluster(w)
  <2>1. \A x \in Products : MadeBy(x, "maps") =>
           MadeBy(x, "joinCluster") \/ x \in Output("clusterDistances")
    BY DEF MadeBy, Output
  <2> QED
    BY <1>8, <2>1, JoinFits DEF JoinCluster
<1>9. CASE DP(w)
  <2>1. \A x \in Products : MadeBy(x, "joinCollect") =>
           MadeBy(x, "dp") \/ x \in ActWrites("dp") \ Scratch
    BY DEF MadeBy, ActWrites, Scratch
  <2> QED
    BY <1>9, <2>1, ActFits DEF DP
<1>10. CASE Literals(w)
  <2>1. \A x \in Products : MadeBy(x, "joinCmds") =>
           MadeBy(x, "lits") \/ x \in ActWrites("lits") \ Scratch
    BY DEF MadeBy, ActWrites, Scratch
  <2> QED
    BY <1>10, <2>1, ActFits DEF Literals
<1>11. CASE Histograms(w)
  <2>1. \A x \in Products : MadeBy(x, "cluster") =>
           MadeBy(x, "hist") \/ x \in ActWrites("hist") \ Scratch
    BY DEF MadeBy, ActWrites, Scratch
  <2> QED
    BY <1>11, <2>1, ActFits DEF Histograms
<1>12. CASE ClusterLiterals(w)
  <2>1. \A x \in Products : MadeBy(x, "joinCluster") =>
           MadeBy(x, "clusterLits") \/ x \in ActWrites("clusterLits") \ Scratch
    BY DEF MadeBy, ActWrites, Scratch
  <2> QED
    BY <1>12, <2>1, ActFits DEF ClusterLiterals
<1>13. CASE Prepare(w) \/ ContextMaps(w) \/ Block(w)
  <2>1. /\ \A x \in Products : MadeBy(x, "splitCmds") =>
                                x \in {"commands", "distPrefixes", "literals"}
        /\ \A x \in Products : ~MadeBy(x, "call") /\ ~MadeBy(x, "dp")
                                /\ ~MadeBy(x, "collect")
    BY DEF MadeBy
  <2>2. enc[w] \in Encs /\ made \in [Encs -> SUBSET Products]
    BY <1>13, CallerFits DEF Prepare, ContextMaps, Block, At, JobInv, OwnerInv,
                             TypeOK
  <2> QED
    BY <1>13, <2>1, <2>2, AloneFits DEF Prepare, ContextMaps, Block, At, Goto
<1> QED
  BY <1>1, <1>2, <1>3, <1>4, <1>5, <1>6, <1>7, <1>8, <1>9, <1>10, <1>11,
     <1>12, <1>13 DEF Encode

(* An encoder nobody drives fits an idle Writer. *)
LEMMA FreeFits ==
    ASSUME JobInv, NEW e \in Encs \ Held, NEW w \in Writers
    PROVE  Fit(w, "idle", work[e], made[e])
<1>1. \A k \in Workers : ~work[e][k].open /\ ~work[e][k].busy
                          /\ work[e][k].at = "none"
  BY ClosedWorker DEF JobInv, OwnerInv
<1> QED
  BY <1>1 DEF Fit, ParallelPC, JobOut, MadeBy, Workers

(* Steps between calls: one Writer, its encoder acquired, kept, or given   *)
(* up with its workers stopped.                                            *)
LEMMA IdleFrame ==
    ASSUME JobInv, OwnerInv', NEW w \in Writers,
           \A v \in Writers \ {w} : writer'[v] = writer[v] /\ enc'[v] = enc[v],
           \A e \in Encs : e # enc[w] => work'[e] = work[e] /\ made'[e] = made[e],
           enc'[w] \in Encs =>
              Fit(w, writer'[w].pc, work'[enc'[w]], made'[enc'[w]]),
           enc[w] \in Encs /\ enc'[w] # enc[w] =>
              \A k \in Workers : ~work'[enc[w]][k].open
    PROVE  JobInv'
<1>1. ASSUME NEW v \in Writers, enc'[v] \in Encs
      PROVE  Fit(v, writer'[v].pc, work'[enc'[v]], made'[enc'[v]])
  <2>1. CASE v = w
    BY <1>1, <2>1
  <2>2. CASE v # w
    <3>1. enc[v] \in Encs /\ enc[v] # enc[w]
      BY <1>1, <2>2, WorkersAssumption DEF JobInv, OwnerInv, OneOwner
    <3>2. Fit(v, writer[v].pc, work[enc[v]], made[enc[v]])
      BY <3>1 DEF JobInv
    <3>3. /\ writer'[v].pc = writer[v].pc /\ enc'[v] = enc[v]
          /\ work'[enc[v]] = work[enc[v]] /\ made'[enc[v]] = made[enc[v]]
      BY <2>2, <3>1
    <3> QED
      BY <3>2, <3>3 DEF Fit
  <2> QED
    BY <2>1, <2>2
<1>2. ASSUME NEW e \in Encs \ Held', NEW k \in Workers
      PROVE  ~work'[e][k].open
  <2>1. \A v \in Writers : enc'[v] # e
    BY DEF Held
  <2>2. CASE e = enc[w]
    BY <2>1, <2>2
  <2>3. CASE e # enc[w]
    <3>1. e \notin Held
      BY <2>1, <2>3 DEF Held
    <3> QED
      BY <2>3, <3>1 DEF JobInv
  <2> QED
    BY <2>2, <2>3
<1> QED
  BY <1>1, <1>2 DEF JobInv

(* A Writer's step that leaves workers alone and no call under way. *)
LEMMA QuietFits ==
    ASSUME JobInv, NEW w \in Writers, enc[w] \in Encs,
           writer[w].pc \in {"idle", "call"}, NEW to \in {"idle", "call"}
    PROVE  Fit(w, to, work[enc[w]], made[enc[w]])
<1>1. Fit(w, writer[w].pc, work[enc[w]], made[enc[w]])
  BY DEF JobInv
<1>2. /\ \A k \in Workers : ~JobOut(w, writer[w].pc, k) /\ ~JobOut(w, to, k)
      /\ \A x \in Products : ~MadeBy(x, to)
      /\ to \notin ParallelPC
  BY DEF JobOut, MadeBy, ParallelPC
<1> QED
  BY <1>1, <1>2 DEF Fit

(* A stopped worker has no goroutine to give jobs to. *)
LEMMA StoppedClosed ==
    ASSUME NEW r \in WorkerType
    PROVE  ~Stopped(r).open
<1> DEFINE q == Waited(r)
<1>1. q \in [open : BOOLEAN, busy : BOOLEAN, job : Jobs,
             at : {"none", "recv", "work", "send"}, old : 0 .. MaxOld]
  BY DEF Waited, WorkerType, Jobs
<1>2. Stopped(r) = IF q.open
                   THEN [q EXCEPT !.open = FALSE, !.at = "none", !.old = @ + 1]
                   ELSE q
  BY DEF Stopped
<1> HIDE DEF q
<1> QED
  BY <1>1, <1>2

(* Release leaves an encoder nobody drives and no worker of it runs for. *)
LEMMA ReleaseFits ==
    ASSUME JobInv, OwnerInv', NEW w \in Writers, enc[w] \in Encs, Release(w),
           \A v \in Writers \ {w} : writer'[v] = writer[v]
    PROVE  JobInv'
<1>1. TypeOK
  BY DEF JobInv, OwnerInv
<1>2. /\ enc'[w] = NoEnc /\ \A v \in Writers \ {w} : enc'[v] = enc[v]
      /\ \A e \in Encs : e # enc[w] => work'[e] = work[e] /\ made'[e] = made[e]
      /\ \A k \in Workers : work'[enc[w]][k] = Stopped(work[enc[w]][k])
  BY <1>1 DEF TypeOK, Release, Released
<1>3. \A k \in Workers : work[enc[w]][k] \in WorkerType
  BY <1>1 DEF TypeOK
<1>4. \A k \in Workers : ~work'[enc[w]][k].open
  BY <1>2, <1>3, StoppedClosed
<1>5. enc'[w] \notin Encs
  BY <1>2, WorkersAssumption
<1> QED
  BY <1>2, <1>4, <1>5, IdleFrame

(* A worker that finishes its job leaves its product behind. *)
LEMMA ServeFits ==
    ASSUME JobInv, OwnerInv', NEW e \in Encs, NEW k \in Workers, Serve(e, k)
    PROVE  JobInv'
<1> DEFINE r == work[e][k]
<1>1. TypeOK /\ r \in WorkerType /\ WorkerOK(r) /\ r.at = "work"
  BY DEF JobInv, OwnerInv, TypeOK, Serve
<1>2. r.busy /\ r.open
  BY <1>1 DEF WorkerOK, WorkerType
<1>3. /\ \A f \in Encs : f # e => work'[f] = work[f] /\ made'[f] = made[f]
      /\ made'[e] = made[e] \cup Output(r.job)
      /\ \A l \in Workers \ {k} : work'[e][l] = work[e][l]
      /\ work'[e][k] = [r EXCEPT !.at = "send"]
      /\ writer' = writer /\ enc' = enc
  BY <1>1 DEF Serve, TypeOK
<1>4. /\ work'[e][k].busy = r.busy /\ work'[e][k].open = r.open
      /\ work'[e][k].job = r.job /\ work'[e][k].at = "send"
  BY <1>1, <1>3 DEF WorkerType
<1>5. ASSUME NEW v \in Writers, enc'[v] \in Encs
      PROVE  Fit(v, writer'[v].pc, work'[enc'[v]], made'[enc'[v]])
  <2>1. Fit(v, writer[v].pc, work[enc[v]], made[enc[v]])
    BY <1>3, <1>5 DEF JobInv
  <2>2. CASE enc[v] = e
    <3>1. Fit(v, writer[v].pc, work[e], made[e])
      BY <2>1, <2>2
    <3>2. Fit(v, writer[v].pc, work'[e], made'[e])
      BY <1>3, <1>4, <3>1 DEF Fit
    <3> QED
      BY <1>3, <2>2, <3>2
  <2>3. CASE enc[v] # e
    BY <1>3, <1>5, <2>1, <2>3 DEF Fit
  <2> QED
    BY <2>2, <2>3
<1>6. ASSUME NEW f \in Encs \ Held', NEW l \in Workers
      PROVE  ~work'[f][l].open
  <2>1. f \notin Held
    BY <1>3 DEF Held
  <2>2. f # e
    BY <1>2, <2>1 DEF JobInv
  <2> QED
    BY <1>3, <2>1, <2>2 DEF JobInv
<1> QED
  BY <1>5, <1>6 DEF JobInv

(* A goroutine that ends changes nothing of the worker it belonged to. *)
LEMMA ExitFits ==
    ASSUME JobInv, OwnerInv', NEW e \in Encs, NEW k \in Workers, Exit(e, k)
    PROVE  JobInv'
<1> DEFINE r == work[e][k]
<1>1. TypeOK /\ r \in WorkerType
  BY DEF JobInv, OwnerInv, TypeOK
<1>3. /\ \A f \in Encs : f # e => work'[f] = work[f]
      /\ \A l \in Workers \ {k} : work'[e][l] = work[e][l]
      /\ work'[e][k] = [r EXCEPT !.old = @ - 1]
      /\ writer' = writer /\ enc' = enc /\ made' = made
  BY <1>1 DEF Exit, TypeOK
<1>4. /\ work'[e][k].busy = r.busy /\ work'[e][k].open = r.open
      /\ work'[e][k].job = r.job /\ work'[e][k].at = r.at
  BY <1>1, <1>3 DEF WorkerType
<1>5. ASSUME NEW v \in Writers, enc'[v] \in Encs
      PROVE  Fit(v, writer'[v].pc, work'[enc'[v]], made'[enc'[v]])
  <2>1. Fit(v, writer[v].pc, work[enc[v]], made[enc[v]])
    BY <1>3, <1>5 DEF JobInv
  <2>2. CASE enc[v] = e
    <3>1. Fit(v, writer[v].pc, work[e], made[e])
      BY <2>1, <2>2
    <3>2. \A l \in Workers :
             /\ work'[e][l].busy = work[e][l].busy
             /\ work'[e][l].open = work[e][l].open
             /\ work'[e][l].job = work[e][l].job
             /\ work'[e][l].at = work[e][l].at
      BY <1>3, <1>4
    <3>3. Fit(v, writer[v].pc, work'[e], made[e])
      BY <3>1, <3>2 DEF Fit
    <3> QED
      BY <1>3, <2>2, <3>3
  <2>3. CASE enc[v] # e
    BY <1>3, <1>5, <2>1, <2>3 DEF Fit
  <2> QED
    BY <2>2, <2>3
<1>6. ASSUME NEW f \in Encs \ Held', NEW l \in Workers
      PROVE  ~work'[f][l].open
  <2>1. f \notin Held /\ ~work[f][l].open
    BY <1>3 DEF Held, JobInv
  <2>2. CASE f = e /\ l = k
    BY <1>4, <2>1, <2>2
  <2>3. CASE f = e /\ l # k
    BY <1>3, <2>1, <2>3
  <2>4. CASE f # e
    BY <1>3, <2>1, <2>4
  <2> QED
    BY <2>2, <2>3, <2>4
<1> QED
  BY <1>5, <1>6 DEF JobInv

(* At the start no encoder is held and no worker has been started. *)
LEMMA JobInit == Init => JobInv
<1> SUFFICES ASSUME Init PROVE JobInv
  OBVIOUS
<1>1. OwnerInv
  BY OwnerInit
<1>2. \A w \in Writers : enc[w] \notin Encs
  BY WorkersAssumption DEF Init
<1>3. \A e \in Encs, k \in Workers : ~work[e][k].open
  BY DEF Init, Idle
<1> QED
  BY <1>1, <1>2, <1>3 DEF JobInv

(* Every step keeps the workers in step with the Writer that drives them. *)
LEMMA JobStep == JobInv /\ [Next]_vars => JobInv'
<1> SUFFICES ASSUME JobInv, [Next]_vars PROVE JobInv'
  OBVIOUS
<1>o. OwnerInv'
  BY OwnerStep DEF JobInv
<1>t. /\ writer \in [Writers -> WriterType]
      /\ enc \in [Writers -> Encs \cup {NoEnc}] /\ NoEnc \notin Encs
  BY WorkersAssumption DEF JobInv, OwnerInv, TypeOK
<1>1. ASSUME NEW w \in Writers, Encode(w) \/ Block(w) PROVE JobInv'
  BY <1>o, <1>1, EncodeFits
<1>2. ASSUME NEW w \in Writers, NewWriter(w) PROVE JobInv'
  <2>1. PICK e \in Encs \ Held : enc' = [enc EXCEPT ![w] = e]
    BY <1>2 DEF NewWriter, Acquire
  <2>2. /\ writer'[w].pc = "idle" /\ work' = work /\ made' = made
        /\ \A v \in Writers \ {w} : writer'[v] = writer[v] /\ enc'[v] = enc[v]
        /\ enc'[w] = e
    BY <1>t, <1>2, <2>1 DEF NewWriter, Absent
  <2>3. enc[w] = NoEnc
    BY <1>2 DEF NewWriter, JobInv, OwnerInv, Lives
  <2>4. Fit(w, "idle", work[e], made[e])
    BY FreeFits
  <2>5. Fit(w, writer'[w].pc, work'[enc'[w]], made'[enc'[w]])
    BY <2>2, <2>4
  <2> QED
    BY <1>o, <1>t, <2>2, <2>3, <2>5, IdleFrame
<1>3. ASSUME NEW w \in Writers, Reset(w) PROVE JobInv'
  <2>1. /\ writer'[w].pc = "idle" /\ work' = work /\ made' = made
        /\ \A v \in Writers \ {w} : writer'[v] = writer[v]
        /\ writer[w].pc = "idle"
    BY <1>t, <1>3 DEF Reset, At, WriterType
  <2>2. CASE enc[w] = NoEnc
    <3>1. PICK e \in Encs \ Held : enc' = [enc EXCEPT ![w] = e]
      BY <1>3, <2>2 DEF Reset, Acquire
    <3>2. enc'[w] = e /\ \A v \in Writers \ {w} : enc'[v] = enc[v]
      BY <1>t, <3>1
    <3>3. Fit(w, "idle", work[e], made[e])
      BY FreeFits
    <3>4. Fit(w, writer'[w].pc, work'[enc'[w]], made'[enc'[w]])
      BY <2>1, <3>2, <3>3
    <3> QED
      BY <1>o, <1>t, <2>1, <2>2, <3>2, <3>4, IdleFrame
  <2>3. CASE enc[w] # NoEnc
    <3>1. enc' = enc /\ enc[w] \in Encs
      BY <1>t, <1>3, <2>3 DEF Reset
    <3>2. Fit(w, "idle", work[enc[w]], made[enc[w]])
      BY <2>1, <3>1, QuietFits
    <3>3. Fit(w, writer'[w].pc, work'[enc'[w]], made'[enc'[w]])
      BY <2>1, <3>1, <3>2
    <3> QED
      BY <1>o, <2>1, <3>1, <3>3, IdleFrame
  <2> QED
    BY <2>2, <2>3
<1>4. ASSUME NEW w \in Writers, Abandon(w) PROVE JobInv'
  <2>1. /\ writer[w].pc = "idle" /\ work' = work /\ made' = made
        /\ \A v \in Writers \ {w} : writer'[v] = writer[v] /\ enc'[v] = enc[v]
    BY <1>t, <1>4 DEF Abandon, At
  <2>2. CASE w \in Parallel
    <3>1. writer'[w].pc = "idle" /\ enc' = enc
      BY <1>t, <1>4, <2>1, <2>2 DEF Abandon, WriterType
    <3>2. ASSUME enc[w] \in Encs
          PROVE  Fit(w, writer'[w].pc, work'[enc'[w]], made'[enc'[w]])
      <4>1. Fit(w, "idle", work[enc[w]], made[enc[w]])
        BY <2>1, <3>2, QuietFits
      <4> QED
        BY <2>1, <3>1, <4>1
    <3> QED
      BY <1>o, <2>1, <3>1, <3>2, IdleFrame
  <2>3. CASE w \notin Parallel
    <3>1. enc'[w] = NoEnc
      BY <1>t, <1>4, <2>3 DEF Abandon
    <3>2. enc[w] \in Encs => \A k \in Workers : ~work[enc[w]][k].open
      BY <2>3 DEF JobInv, Fit
    <3> QED
      BY <1>o, <1>t, <2>1, <3>1, <3>2, IdleFrame
  <2> QED
    BY <2>2, <2>3
<1>5. ASSUME NEW w \in Writers, Finalize(w) PROVE JobInv'
  <2>1. \A v \in Writers \ {w} : writer'[v] = writer[v]
    BY <1>t, <1>5 DEF Finalize
  <2>2. CASE enc[w] = NoEnc
    <3>1. enc' = enc /\ work' = work /\ made' = made
      BY <1>5, <2>2 DEF Finalize
    <3> QED
      BY <1>o, <1>t, <2>1, <2>2, <3>1, IdleFrame
  <2>3. CASE enc[w] \in Encs
    <3>1. Release(w)
      BY <1>t, <1>5, <2>3 DEF Finalize
    <3> QED
      BY <1>o, <2>1, <2>3, <3>1, ReleaseFits
  <2> QED
    BY <1>t, <2>2, <2>3
<1>6. ASSUME NEW w \in Writers, NEW closing \in BOOLEAN, Call(w, closing)
      PROVE  JobInv'
  <2>1. /\ writer[w].pc = "idle" /\ writer'[w].pc = "call"
        /\ work' = work /\ made' = made /\ enc' = enc
        /\ \A v \in Writers \ {w} : writer'[v] = writer[v]
    BY <1>t, <1>6 DEF Call, At, WriterType
  <2>2. ASSUME enc[w] \in Encs
        PROVE  Fit(w, writer'[w].pc, work'[enc'[w]], made'[enc'[w]])
    <3>1. Fit(w, "call", work[enc[w]], made[enc[w]])
      BY <2>1, <2>2, QuietFits
    <3> QED
      BY <2>1, <3>1
  <2> QED
    BY <1>o, <2>1, <2>2, IdleFrame
<1>7. ASSUME NEW w \in Writers, NEW ok \in BOOLEAN, Return(w, ok)
      PROVE  JobInv'
  <2>1. /\ writer[w].pc = "call" /\ writer'[w].pc = "idle"
        /\ \A v \in Writers \ {w} : writer'[v] = writer[v]
    BY <1>t, <1>7 DEF Return, At, WriterType
  <2>2. enc[w] \in Encs
    BY <2>1, InCallHolds DEF JobInv
  <2>3. CASE writer[w].closing /\ ~writer[w].reused
    <3>1. Release(w)
      BY <1>7, <2>3 DEF Return
    <3> QED
      BY <1>o, <2>1, <2>2, <3>1, ReleaseFits
  <2>4. CASE ~(writer[w].closing /\ ~writer[w].reused)
    <3>1. enc' = enc /\ work' = work /\ made' = made
      BY <1>7, <2>4 DEF Return
    <3>2. Fit(w, "idle", work[enc[w]], made[enc[w]])
      BY <2>1, <2>2, QuietFits
    <3>3. Fit(w, writer'[w].pc, work'[enc'[w]], made'[enc'[w]])
      BY <2>1, <3>1, <3>2
    <3> QED
      BY <1>o, <2>1, <3>1, <3>3, IdleFrame
  <2> QED
    BY <2>3, <2>4
<1>8. ASSUME NEW e \in Encs, NEW k \in Workers, Serve(e, k) \/ Exit(e, k)
      PROVE  JobInv'
  BY <1>o, <1>8, ServeFits, ExitFits
<1>9. CASE UNCHANGED vars
  <2>1. writer' = writer /\ enc' = enc /\ work' = work /\ made' = made
        /\ Held' = Held
    BY <1>9 DEF vars, Held
  <2> QED
    BY <1>o, <2>1 DEF JobInv, Fit
<1> QED
  BY <1>1, <1>2, <1>3, <1>4, <1>5, <1>6, <1>7, <1>8, <1>9 DEF Next, Ends

(* The workers of an encoder are always in step with the Writer that       *)
(* drives it: the inductive invariant behind the theorems below.           *)
THEOREM JobsFit == Spec => []JobInv
BY JobInit, JobStep, PTL DEF Spec

-----------------------------------------------------------------------------
(* An encoder in use has one Writer, which its workers fit. *)
LEMMA BusyIsDriven ==
    ASSUME JobInv, NEW e \in Encs, NEW k \in Workers, work[e][k].busy
    PROVE  \E w \in Writers : enc[w] = e /\ writer[w].pc # "idle"
                                /\ JobOut(w, writer[w].pc, k)
                                /\ work[e][k].job = JobOf(writer[w].pc, k)
<1>1. e \in Held
  BY ClosedWorker DEF JobInv, OwnerInv
<1>2. PICK w \in Writers : enc[w] = e
  BY <1>1 DEF Held
<1>3. JobOut(w, writer[w].pc, k) /\ work[e][k].job = JobOf(writer[w].pc, k)
  BY <1>2 DEF JobInv, Fit
<1> QED
  BY <1>2, <1>3 DEF JobOut

(* Two jobs that are out at one place of the caller, and what the caller   *)
(* does there, do not meet in memory.                                      *)
LEMMA PlacesDisjoint ==
    ASSUME NEW w, NEW pc \in PC, NEW k \in Workers, JobOut(w, pc, k)
    PROVE  /\ \A l \in Workers \ {k} : JobOut(w, pc, l) =>
                 JobWrites(JobOf(pc, k)) \cap
                    (JobWrites(JobOf(pc, l)) \cup JobReads(JobOf(pc, l))) = {}
           /\ pc \in Activities =>
                 /\ JobWrites(JobOf(pc, k)) \cap (ActWrites(pc) \cup ActReads(pc)) = {}
                 /\ JobReads(JobOf(pc, k)) \cap ActWrites(pc) = {}
<1> USE DEF JobOut, JobOf, Workers
<1>1. ASSUME NEW l \in Workers \ {k}, JobOut(w, pc, l)
      PROVE  JobWrites(JobOf(pc, k)) \cap
                (JobWrites(JobOf(pc, l)) \cup JobReads(JobOf(pc, l))) = {}
  <2>1. pc \in {"lits", "joinCmds"}
    BY <1>1
  <2>2. {JobOf(pc, k), JobOf(pc, l)} = {"splitCommands", "splitDistances"}
        /\ JobOf(pc, k) # JobOf(pc, l)
    BY <1>1, <2>1
  <2>3. JobWrites("splitCommands") = {"cmdSplit", "collectorScratch"}
    BY DEF JobWrites, Output
  <2>4. JobWrites("splitDistances") =
           {"distSplit", "distParams", "distPrefixes", "helperScratch"}
    BY DEF JobWrites, Output
  <2>5. JobReads("splitCommands") = {"commands"}
        /\ JobReads("splitDistances") = {"commands", "distPrefixes"}
    BY DEF JobReads
  <2>6. CASE JobOf(pc, k) = "splitCommands" /\ JobOf(pc, l) = "splitDistances"
    BY <2>3, <2>4, <2>5, <2>6
  <2>7. CASE JobOf(pc, k) = "splitDistances" /\ JobOf(pc, l) = "splitCommands"
    BY <2>3, <2>4, <2>5, <2>7
  <2> QED
    BY <2>2, <2>6, <2>7
<1>2. ASSUME pc \in Activities
      PROVE  /\ JobWrites(JobOf(pc, k)) \cap (ActWrites(pc) \cup ActReads(pc)) = {}
             /\ JobReads(JobOf(pc, k)) \cap ActWrites(pc) = {}
  <2>1. CASE pc = "dp"
    <3>1. JobOf(pc, k) = "collect"
      BY <2>1
    <3> QED
      BY <2>1, <3>1 DEF JobWrites, JobReads, Output, ActWrites, ActReads
  <2>2. CASE pc = "lits"
    <3>1. ActWrites(pc) = {"litSplit", "mainScratch"} /\ ActReads(pc) = {"literals"}
      BY <2>2 DEF ActWrites, ActReads
    <3>2. JobOf(pc, k) \in {"splitCommands", "splitDistances"}
      BY <2>2
    <3> QED
      BY <3>1, <3>2 DEF JobWrites, JobReads, Output
  <2>3. CASE pc = "clusterLits"
    <3>1. ActWrites(pc) = {"litOut", "mainScratch"} /\ ActReads(pc) = {"litHist"}
      BY <2>3 DEF ActWrites, ActReads
    <3>2. JobOf(pc, k) = "clusterDistances"
      BY <2>3
    <3> QED
      BY <3>1, <3>2 DEF JobWrites, JobReads, Output
  <2> QED
    BY <1>2, <2>1, <2>2, <2>3 DEF Activities
<1> QED
  BY <1>1, <1>2

(* No two goroutines of an encoder touch the same memory while one of them *)
(* writes it.                                                              *)
THEOREM NoDataRace == Spec => []RaceFree
<1>1. ASSUME JobInv PROVE RaceFree
  <2> SUFFICES ASSUME NEW e \in Encs, NEW k \in Working(e)
        PROVE  /\ \A l \in Working(e) \ {k} :
                     JobWrites(work[e][k].job) \cap
                        (JobWrites(work[e][l].job) \cup JobReads(work[e][l].job)) = {}
               /\ \A w \in InCall(e) :
                     /\ JobWrites(work[e][k].job) \cap
                           (ActWrites(writer[w].pc) \cup ActReads(writer[w].pc)) = {}
                     /\ JobReads(work[e][k].job) \cap ActWrites(writer[w].pc) = {}
    BY DEF RaceFree
  <2>1. \A l \in Working(e) : l \in Workers /\ work[e][l].busy
    BY <1>1 DEF Working, JobInv, OwnerInv, TypeOK, WorkerOK
  <2>2. PICK w \in Writers : /\ enc[w] = e /\ JobOut(w, writer[w].pc, k)
                             /\ work[e][k].job = JobOf(writer[w].pc, k)
    BY <1>1, <2>1, BusyIsDriven
  <2>3. \A v \in Writers : enc[v] = e => v = w
    BY <1>1, <2>2, WorkersAssumption DEF JobInv, OwnerInv, OneOwner
  <2>4. writer[w].pc \in PC
    BY <1>1 DEF JobInv, OwnerInv, TypeOK, WriterType
  <2>5. \A l \in Working(e) : JobOut(w, writer[w].pc, l)
                                /\ work[e][l].job = JobOf(writer[w].pc, l)
    BY <1>1, <2>1, <2>3, BusyIsDriven
  <2>6. \A v \in InCall(e) : v = w /\ writer[w].pc \in Activities
    BY <2>3 DEF InCall
  <2> QED
    BY <2>1, <2>2, <2>4, <2>5, <2>6, PlacesDisjoint
<1> QED
  BY <1>1, JobsFit, PTL

(* What a job reads is made by the time it is out. *)
LEMMA JobInputsMade ==
    ASSUME NEW w, NEW pc \in PC, NEW k \in Workers, JobOut(w, pc, k),
           NEW x \in JobReads(JobOf(pc, k))
    PROVE  x \in Products /\ MadeBy(x, pc)
<1> USE DEF JobOut, JobOf, Workers, MadeBy, Products, ParallelPC
<1>1. CASE JobOf(pc, k) = "collect"
  BY <1>1 DEF JobReads
<1>2. CASE JobOf(pc, k) = "splitCommands"
  BY <1>2 DEF JobReads
<1>3. CASE JobOf(pc, k) = "splitDistances"
  BY <1>3 DEF JobReads
<1>4. CASE JobOf(pc, k) = "clusterDistances"
  BY <1>4 DEF JobReads
<1> QED
  BY <1>1, <1>2, <1>3, <1>4

(* Each step and each job of buildMetaBlock reads what was computed for    *)
(* this metablock.                                                         *)
THEOREM InputsAreFresh == Spec => []FreshInputs
<1>1. ASSUME JobInv PROVE FreshInputs
  <2>1. ASSUME NEW w \in Writers, writer[w].pc \in Activities
        PROVE  ActReads(writer[w].pc) \subseteq made[enc[w]]
    <3>1. Fit(w, writer[w].pc, work[enc[w]], made[enc[w]])
      BY <1>1, <2>1, CallerFits DEF Activities
    <3>2. \A x \in ActReads(writer[w].pc) : x \in Products /\ MadeBy(x, writer[w].pc)
      BY <2>1 DEF Activities, ActReads, MadeBy, Products, ParallelPC
    <3> QED
      BY <3>1, <3>2 DEF Fit
  <2>2. ASSUME NEW e \in Encs, NEW k \in Working(e)
        PROVE  JobReads(work[e][k].job) \subseteq made[e]
    <3>1. k \in Workers /\ work[e][k].busy
      BY <1>1 DEF Working, JobInv, OwnerInv, TypeOK, WorkerOK
    <3>2. PICK w \in Writers : /\ enc[w] = e /\ JobOut(w, writer[w].pc, k)
                               /\ work[e][k].job = JobOf(writer[w].pc, k)
      BY <1>1, <3>1, BusyIsDriven
    <3>3. writer[w].pc \in PC /\ Fit(w, writer[w].pc, work[e], made[e])
      BY <1>1, <3>2 DEF JobInv, OwnerInv, TypeOK, WriterType
    <3>4. \A x \in JobReads(work[e][k].job) :
             x \in Products /\ MadeBy(x, writer[w].pc)
      BY <3>1, <3>2, <3>3, JobInputsMade
    <3> QED
      BY <3>3, <3>4 DEF Fit
  <2> QED
    BY <2>1, <2>2 DEF FreshInputs
<1> QED
  BY <1>1, JobsFit, PTL

(* Between calls no job is out, and an encoder nobody holds has no         *)
(* goroutine waiting for jobs.                                             *)
THEOREM QuietWhenNotCalled == Spec => []QuietBetweenCalls
<1>1. ASSUME JobInv PROVE QuietBetweenCalls
  <2>1. ASSUME NEW e \in Encs, NEW k \in Workers,
               \A w \in Writers : enc[w] = e => writer[w].pc = "idle"
        PROVE  ~work[e][k].busy
    BY <1>1, <2>1, BusyIsDriven
  <2>2. \A e \in Encs, k \in Workers : e \notin Held => ~work[e][k].open
    BY <1>1 DEF JobInv
  <2> QED
    BY <2>1, <2>2 DEF QuietBetweenCalls
<1> QED
  BY <1>1, JobsFit, PTL
-----------------------------------------------------------------------------
(* The feed between the collector and the DP of one encoder.               *)

(* The initial state of the feed satisfies the inductive invariant. *)
LEMMA FeedInitInv == FeedInit => FeedInv
<1> SUFFICES ASSUME FeedInit PROVE FeedInv
  OBVIOUS
<1>1. ready \in 0 .. NumBytes /\ i \in 0 .. NumBytes /\ spin \in 0 .. SpinBeforePark
  BY MatchFeedAssumption DEF FeedInit
<1>2. FeedTypeOK
  BY <1>1 DEF FeedInit, FeedTypeOK, CollectorPC, DPPC
<1>3. dp = "idle" /\ final = FALSE
  BY DEF FeedInit
<1> QED
  BY <1>2, <1>3
     DEF FeedInv, ParkCovered, RecheckCovered, NoLostWakeup, ReadsOnlyPublished

(* Every atomic step of the collector or the DP preserves it. *)
LEMMA FeedStepInv == FeedInv /\ [FeedNext]_feedVars => FeedInv'
<1> SUFFICES ASSUME FeedInv, [FeedNext]_feedVars PROVE FeedInv'
  OBVIOUS
<1> USE MatchFeedAssumption
    DEF FeedInv, FeedTypeOK, ParkCovered, RecheckCovered, NoLostWakeup,
        ReadsOnlyPublished, WillUnpark, CollectorPC, DPPC, feed
<1>1. CASE FeedReset
  <2>1. /\ ready' \in 0 .. NumBytes /\ i' \in 0 .. NumBytes
        /\ spin' \in 0 .. SpinBeforePark
    BY <1>1 DEF FeedReset
  <2>2. FeedTypeOK'
    BY <1>1, <2>1 DEF FeedReset
  <2>3. dp' = "fast" /\ final' = FALSE
    BY <1>1 DEF FeedReset
  <2> QED
    BY <2>2, <2>3
<1>2. CASE Collector
  <2>1. ASSUME NEW n \in 1 .. NumBytes, PublishStore(n) PROVE FeedInv'
    BY <2>1 DEF PublishStore
  <2>2. CASE FinalPublishStore
    BY <2>2 DEF FinalPublishStore
  <2>3. CASE AbortStore
    BY <2>3 DEF AbortStore
  <2>4. CASE CollectorDone
    BY <2>4 DEF CollectorDone
  <2>5. CASE UnparkLoad
    BY <2>5 DEF UnparkLoad, UnparkReturn
  <2>6. CASE UnparkCAS
    BY <2>6 DEF UnparkCAS, UnparkReturn
  <2>7. CASE UnparkSend
    BY <2>7 DEF UnparkSend, UnparkReturn
  <2> QED
    BY <1>2, <2>1, <2>2, <2>3, <2>4, <2>5, <2>6, <2>7 DEF Collector
<1>3. CASE DPStep
  <2>1. CASE WaitFast
    BY <2>1 DEF WaitFast
  <2>2. CASE LoopReady
    BY <2>2 DEF LoopReady
  <2>3. CASE LoopAborted
    BY <2>3 DEF LoopAborted, NextSpin
  <2>4. CASE ParkStore
    BY <2>4 DEF ParkStore
  <2>5. CASE RecheckReady
    BY <2>5 DEF RecheckReady
  <2>6. CASE RecheckAborted
    BY <2>6 DEF RecheckAborted
  <2>7. CASE UnparkSelf
    <3>1. spin' \in 0 .. SpinBeforePark
      BY <2>7 DEF UnparkSelf, NextSpin
    <3>2. FeedTypeOK' /\ dp' = "ready1"
      BY <2>7, <3>1 DEF UnparkSelf
    <3>3. (final => ready = NumBytes)'
      BY <2>7 DEF UnparkSelf
    <3> QED
      BY <3>2, <3>3
  <2>8. CASE Receive
    <3>1. spin' \in 0 .. SpinBeforePark
      BY <2>8 DEF Receive
    <3>2. FeedTypeOK' /\ dp' = "ready1"
      BY <2>8, <3>1 DEF Receive
    <3>3. (final => ready = NumBytes)'
      BY <2>8 DEF Receive
    <3> QED
      BY <3>2, <3>3
  <2>9. CASE Use
    BY <2>9 DEF Use, DPEnd
  <2>10. CASE JoinCollector
    BY <2>10 DEF JoinCollector
  <2> QED
    BY <1>3, <2>1, <2>2, <2>3, <2>4, <2>5, <2>6, <2>7, <2>8, <2>9, <2>10
       DEF DPStep
<1>4. CASE UNCHANGED feedVars
  BY <1>4 DEF feedVars
<1> QED
  BY <1>1, <1>2, <1>3, <1>4 DEF FeedNext

(* The inductive invariant of the feed holds throughout. *)
THEOREM FeedInvariant == FeedSpec => []FeedInv
BY FeedInitInv, FeedStepInv, PTL DEF FeedSpec

(* A DP blocked on the wake channel whose position is published, or whose  *)
(* feed is aborted, has a token or a collector about to send one.          *)
THEOREM NoWakeupIsLost == FeedSpec => []NoLostWakeup
<1>1. FeedInv => NoLostWakeup
  BY DEF FeedInv
<1> QED
  BY FeedInvariant, <1>1, PTL

(* wait never lets the DP at a position the collector has not published.   *)
THEOREM DPReadsPublished == FeedSpec => []ReadsOnlyPublished
<1>1. FeedInv => ReadsOnlyPublished
  BY DEF FeedInv
<1> QED
  BY FeedInvariant, <1>1, PTL

-----------------------------------------------------------------------------
(* The initial state of the feed is one of the contract. *)
LEMMA ContractInit == FeedInit => Contract!Init
BY DEF FeedInit, Contract!Init, Waiting

(* Every atomic step is a step of the contract or changes nothing of it.   *)
LEMMA ContractStep == FeedInv /\ [FeedNext]_feedVars => [Contract!Next]_(Contract!vars)
<1> SUFFICES ASSUME FeedInv, [FeedNext]_feedVars
             PROVE  [Contract!Next]_(Contract!vars)
  OBVIOUS
<1> USE MatchFeedAssumption
    DEF FeedInv, FeedTypeOK, CollectorPC, DPPC, feed, Waiting, Contract!vars,
        Contract!Next
<1>1. CASE FeedReset
  BY <1>1 DEF FeedReset, Contract!Open
<1>2. CASE Collector
  <2>1. ASSUME NEW n \in 1 .. NumBytes, PublishStore(n)
        PROVE  Contract!Publish
    BY <2>1 DEF PublishStore, Contract!Publish
  <2>2. CASE FinalPublishStore
    BY <2>2 DEF FinalPublishStore, Contract!Publish
  <2>3. CASE AbortStore
    BY <2>3 DEF AbortStore, Contract!Abort
  <2>4. CASE CollectorDone
    BY <2>4 DEF CollectorDone, Contract!Finish
  <2>5. CASE UnparkLoad
    BY <2>5 DEF UnparkLoad, UnparkReturn, Contract!Finish
  <2>6. CASE UnparkCAS
    BY <2>6 DEF UnparkCAS, UnparkReturn, Contract!Finish
  <2>7. CASE UnparkSend
    BY <2>7 DEF UnparkSend, UnparkReturn, Contract!Finish
  <2> QED
    BY <1>2, <2>1, <2>2, <2>3, <2>4, <2>5, <2>6, <2>7 DEF Collector
<1>3. CASE DPStep
  <2>1. CASE WaitFast
    BY <2>1 DEF WaitFast, Contract!Grant
  <2>2. CASE LoopReady
    BY <2>2 DEF LoopReady, Contract!Grant
  <2>3. CASE LoopAborted
    BY <2>3 DEF LoopAborted, Contract!Refuse
  <2>4. CASE ParkStore
    BY <2>4 DEF ParkStore
  <2>5. CASE RecheckReady
    BY <2>5 DEF RecheckReady
  <2>6. CASE RecheckAborted
    BY <2>6 DEF RecheckAborted
  <2>7. CASE UnparkSelf
    BY <2>7 DEF UnparkSelf
  <2>8. CASE Receive
    BY <2>8 DEF Receive
  <2>9. CASE Use
    BY <2>9 DEF Use, Contract!Advance
  <2>10. CASE JoinCollector
    BY <2>10 DEF JoinCollector, Contract!Close
  <2> QED
    BY <1>3, <2>1, <2>2, <2>3, <2>4, <2>5, <2>6, <2>7, <2>8, <2>9, <2>10
       DEF DPStep
<1>4. CASE UNCHANGED feedVars
  BY <1>4 DEF feedVars
<1> QED
  BY <1>1, <1>2, <1>3, <1>4 DEF FeedNext

(* waitSlow, publish, abort and unpark together implement the safety part  *)
(* of the feed's contract.                                                 *)
THEOREM FeedRefinesContract == FeedSpec => Contract!SafeSpec
<1>1. FeedInit => Contract!Init
  BY ContractInit
<1>2. FeedInv /\ [FeedNext]_feedVars => [Contract!Next]_(Contract!vars)
  BY ContractStep
<1> QED
  BY <1>1, <1>2, FeedInvariant, PTL DEF FeedSpec, Contract!SafeSpec
=============================================================================
