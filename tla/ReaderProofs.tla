----------------------------- MODULE ReaderProofs -----------------------------
(***************************************************************************)
(* What Reader promises its caller, proved for every block size, buffer    *)
(* size, limit and sequence of answers of the source.                      *)
(***************************************************************************)
EXTENDS Reader, TLAPS

(* s holds the bytes of the stream that follow its first f. *)
IsRun(s, f) == s \in Seq(Int) /\ \A k \in 1 .. Len(s) : s[k] = f + k

Numbers ==
    /\ limit \in Nat /\ delivered \in Nat /\ decoded \in Nat /\ declared \in Nat
    /\ remaining \in Int /\ want \in Nat
    /\ pc # "idle" => want > 0

(* What the header check keeps: declared sizes stay within the limit, and  *)
(* no more is decoded than was declared.                                   *)
Declared ==
    /\ limit # 0 => declared <= limit /\ delivered <= limit
    /\ decoded <= declared
    /\ remaining >= 0 => decoded + remaining <= declared

(* Before the first Read of a stream there is nothing but a stale ring. *)
Fresh ==
    ~started => /\ got = <<>> /\ out = <<>> /\ delivered = 0
                /\ srcErr = NoErr /\ seen = NoErr /\ err = NoErr /\ pc = "idle"

(* The caller's bytes, Reader.out and the ring follow each other. *)
Aligned ==
    /\ IsRun(got, 0) /\ delivered = Len(got)
    /\ started => IsRun(out, Len(got))
    /\ started /\ remaining >= 0 => IsRun(pend, Len(got) + Len(out))

(* The errors that leave decoded bytes to be served. *)
Intact == {NoErr, "EOF", "fail", "truncated", "excessive"}

(* Nothing decoded is lost, unless an error has discarded all of it. *)
Counted ==
    started /\ pc # "error" =>
       IF err \in Intact
       THEN remaining >= 0 /\ Len(got) + Len(out) + Len(pend) = decoded
       ELSE out = <<>> /\ Pending = <<>>

(* Where the decoder is, seen from the place in Read. *)
Places ==
    /\ pc \in {"idle", "decode", "needOutput", "success", "error"}
    /\ err # NoErr => pc = "idle"
    /\ pc = "success" => phase = "done"
    /\ pc = "error" => phase \in {"corrupt", "limit"}
    /\ started /\ err = NoErr /\ pc \notin {"success", "error"} =>
          phase \in {"header", "body"}
    /\ started /\ err = NoErr => srcErr = seen
    /\ seen \in {NoErr, "EOF", "fail"}

(* What is known of the stream when an error has been recorded. *)
Ended ==
    /\ err = "EOF" => phase = "done" /\ buf = <<>> /\ seen # "fail"
    /\ err = "truncated" => phase # "done" /\ seen = "EOF"
    /\ err = "fail" => seen = "fail"
    /\ err = "excessive" => phase = "done" /\ seen # "fail"
    /\ err = "limit" => phase = "limit"

(* A returned error is the recorded one, and nothing is left to serve. *)
Reported ==
    ret.e # NoErr =>
       /\ started /\ ret = [n |-> 0, e |-> err]
       /\ out = <<>> /\ Pending = <<>>

ReaderInv ==
    /\ Numbers /\ Declared /\ Fresh /\ Aligned /\ Counted /\ Places /\ Ended
    /\ Reported

-----------------------------------------------------------------------------
(* Facts about runs of bytes *)

(* The smaller of two integers, as the code's min computes it. *)
LEMMA MinTwo ==
    ASSUME NEW a \in Int, NEW b \in Int
    PROVE  Min({a, b}) = IF a <= b THEN a ELSE b
<1>1. Min({a, b}) = CHOOSE x \in {a, b} : \A y \in {a, b} : x <= y
  BY DEF Min
<1>2. \A x \in {a, b} : (\A y \in {a, b} : x <= y) => x = IF a <= b THEN a ELSE b
  OBVIOUS
<1>3. \E x \in {a, b} : \A y \in {a, b} : x <= y
  OBVIOUS
<1> QED BY <1>1, <1>2, <1>3

(* No bytes are a run from anywhere. *)
LEMMA RunEmpty ==
    ASSUME NEW f PROVE IsRun(<<>>, f) /\ Len(<<>>) = 0
BY DEF IsRun

(* The first k bytes of a run, and the rest of it, are runs. *)
LEMMA RunSplit ==
    ASSUME NEW s, NEW f \in Nat, IsRun(s, f), NEW k \in 0 .. Len(s)
    PROVE  /\ IsRun(SubSeq(s, 1, k), f) /\ Len(SubSeq(s, 1, k)) = k
           /\ IsRun(SubSeq(s, k + 1, Len(s)), f + k)
           /\ Len(SubSeq(s, k + 1, Len(s))) = Len(s) - k
<1>1. s \in Seq(Int) /\ Len(s) \in Nat
  BY DEF IsRun
<1>2. SubSeq(s, 1, k) \in Seq(Int) /\ Len(SubSeq(s, 1, k)) = k
  BY <1>1
<1>3. SubSeq(s, k + 1, Len(s)) \in Seq(Int) /\ Len(SubSeq(s, k + 1, Len(s))) = Len(s) - k
  BY <1>1
<1>4. \A i \in 1 .. k : SubSeq(s, 1, k)[i] = s[i]
  BY <1>1
<1>5. \A i \in 1 .. Len(s) - k : SubSeq(s, k + 1, Len(s))[i] = s[k + i]
  BY <1>1
<1> QED BY <1>1, <1>2, <1>3, <1>4, <1>5 DEF IsRun

(* A run continued by the run that follows it. *)
LEMMA RunConcat ==
    ASSUME NEW s, NEW t, NEW f \in Nat, IsRun(s, f), IsRun(t, f + Len(s))
    PROVE  IsRun(s \o t, f) /\ Len(s \o t) = Len(s) + Len(t)
<1>1. s \in Seq(Int) /\ t \in Seq(Int) /\ Len(s) \in Nat /\ Len(t) \in Nat
  BY DEF IsRun
<1>2. s \o t \in Seq(Int) /\ Len(s \o t) = Len(s) + Len(t)
  BY <1>1
<1>3. ASSUME NEW i \in 1 .. Len(s \o t) PROVE (s \o t)[i] = f + i
  <2>1. CASE i <= Len(s)
    BY <1>1, <1>2, <2>1 DEF IsRun
  <2>2. CASE i > Len(s)
    <3>1. (s \o t)[i] = t[i - Len(s)]
      BY <1>1, <1>2, <2>2
    <3>2. i - Len(s) \in 1 .. Len(t)
      BY <1>1, <1>2, <2>2
    <3> QED BY <1>1, <3>1, <3>2 DEF IsRun
  <2> QED BY <1>1, <1>2, <2>1, <2>2
<1> QED BY <1>2, <1>3 DEF IsRun

(* The bytes a unit yields are the ones that follow those decoded before. *)
LEMMA RunBytes ==
    ASSUME NEW f \in Nat, NEW n \in Nat
    PROVE  LET b == [i \in 1 .. n |-> f + i] IN IsRun(b, f) /\ Len(b) = n
<1> DEFINE b == [i \in 1 .. n |-> f + i]
<1>1. b \in Seq(Int) /\ Len(b) = n
  OBVIOUS
<1> QED BY <1>1 DEF IsRun

-----------------------------------------------------------------------------
(* Serving *)

(* When nothing can be served nothing is left: at the limit everything     *)
(* decoded has been served, for no more than the limit was declared.       *)
LEMMA NothingLeft ==
    ReaderInv /\ pc # "error" /\ started /\ NothingServed => out = <<>> /\ Pending = <<>>
<1> SUFFICES ASSUME ReaderInv, pc # "error", started, AtLimit,
                    out # <<>> \/ Pending # <<>>
             PROVE  FALSE
  BY DEF NothingServed
<1>1. err \in Intact
  BY DEF ReaderInv, Counted
<1>2. remaining >= 0 /\ Len(got) + Len(out) + Len(pend) = decoded /\ Pending = pend
  BY <1>1 DEF ReaderInv, Counted, Pending, Numbers
<1>3. IsRun(out, Len(got)) /\ IsRun(pend, Len(got) + Len(out)) /\ delivered = Len(got)
  BY <1>2 DEF ReaderInv, Aligned
<1>4. /\ Len(out) \in Nat /\ Len(pend) \in Nat
      /\ Len(out) > 0 \/ Len(pend) > 0
  BY <1>2, <1>3 DEF IsRun
<1> HIDE DEF Intact
<1>5. decoded <= declared /\ declared <= limit /\ delivered = limit
  BY DEF ReaderInv, Declared, AtLimit
<1> QED BY <1>2, <1>3, <1>4, <1>5 DEF ReaderInv, Numbers

(* So the limit never ends a stream from within serve. *)
LEMMA LimitNeverBites ==
    ReaderInv /\ pc # "error" => ErrAfterServe = err
BY NothingLeft DEF ErrAfterServe, NothingServed, ReaderInv, Fresh

(* What is served is taken from the front of what is left to serve. *)
LEMMA ServeRuns ==
    ASSUME ReaderInv, pc # "error", NEW n \in Nat, n > 0, Serve(n)
    PROVE  /\ started /\ started' /\ err \in Intact /\ remaining >= 0
           /\ IsRun(got', 0) /\ delivered' = Len(got') /\ delivered' \in Nat
           /\ IsRun(out', Len(got')) /\ IsRun(pend', Len(got') + Len(out'))
           /\ Len(got') + Len(out') + Len(pend') = decoded
           /\ limit # 0 => delivered' <= limit
           /\ ret'.e = NoErr /\ pc' = "idle" /\ ret.e = NoErr
<1>1. started
  BY DEF Serve, NothingServed, ReaderInv, Fresh
<1>2. out # <<>> \/ Pending # <<>>
  BY DEF Serve, NothingServed
<1>3. err \in Intact
  BY <1>1, <1>2 DEF ReaderInv, Counted
<1>4. remaining >= 0 /\ Len(got) + Len(out) + Len(pend) = decoded /\ Pending = pend
  BY <1>1, <1>3 DEF ReaderInv, Counted, Pending, Numbers
<1>5. /\ IsRun(got, 0) /\ delivered = Len(got)
      /\ IsRun(out, Len(got)) /\ IsRun(pend, Len(got) + Len(out))
  BY <1>1, <1>4 DEF ReaderInv, Aligned
<1>6. Len(got) \in Nat /\ Len(out) \in Nat /\ Len(pend) \in Nat
  BY <1>5 DEF IsRun
<1> DEFINE queue == IF out # <<>> THEN out ELSE Pending
           k     == Min({Room(n), Len(queue)})
<1>7. /\ out # <<>> => out' = SubSeq(out, k + 1, Len(out)) /\ pend' = pend
      /\ out = <<>> => pend' = SubSeq(pend, k + 1, Len(pend)) /\ out' = out
      /\ delivered' = delivered + k /\ got' = got \o SubSeq(queue, 1, k)
      /\ ret' = [n |-> k, e |-> NoErr] /\ pc' = "idle" /\ started' = started
  BY DEF Serve
<1>8. ~AtLimit
  BY DEF Serve, NothingServed
<1>9. /\ limit \in Nat /\ delivered \in Nat
      /\ limit # 0 => delivered < limit
  BY <1>8 DEF ReaderInv, Numbers, Declared, AtLimit
<1>10. /\ Room(n) \in Nat
       /\ limit # 0 => Room(n) <= limit - delivered
  BY <1>9, MinTwo DEF Room
<1>11. Len(queue) \in Nat
  BY <1>4, <1>6
<1>12. k \in 0 .. Len(queue) /\ (limit # 0 => k <= limit - delivered)
  <2> HIDE DEF queue
  <2>1. k = IF Room(n) <= Len(queue) THEN Room(n) ELSE Len(queue)
    BY <1>10, <1>11, MinTwo
  <2> HIDE DEF k
  <2> QED BY <2>1, <1>9, <1>10, <1>11
<1>13. ret.e = NoErr
  BY <1>2 DEF ReaderInv, Reported
<1> HIDE DEF k
<1>14. limit # 0 => delivered' <= limit
  BY <1>7, <1>9, <1>12, <1>11
<1> DEFINE Goal == /\ IsRun(got', 0) /\ delivered' = Len(got') /\ delivered' \in Nat
                  /\ IsRun(out', Len(got')) /\ IsRun(pend', Len(got') + Len(out'))
                  /\ Len(got') + Len(out') + Len(pend') = decoded
<1>15. ASSUME out # <<>> PROVE Goal
  <2>1. queue = out
    BY <1>15
  <2>2. /\ IsRun(SubSeq(out, 1, k), Len(got)) /\ Len(SubSeq(out, 1, k)) = k
        /\ IsRun(SubSeq(out, k + 1, Len(out)), Len(got) + k)
        /\ Len(SubSeq(out, k + 1, Len(out))) = Len(out) - k
    BY <1>5, <1>6, <1>12, <2>1, RunSplit
  <2>3. IsRun(got \o SubSeq(out, 1, k), 0) /\ Len(got \o SubSeq(out, 1, k)) = Len(got) + k
    <3>1. 0 + Len(got) = Len(got)
      BY <1>6
    <3> QED BY <1>5, <2>2, <3>1, RunConcat
  <2>4. got' = got \o SubSeq(out, 1, k) /\ out' = SubSeq(out, k + 1, Len(out)) /\ pend' = pend
    BY <1>7, <1>15, <2>1
  <2>5. Len(got') = Len(got) + k /\ Len(out') = Len(out) - k /\ k \in Nat
    BY <2>2, <2>3, <2>4, <1>12, <1>11
  <2>6. Len(got') + Len(out') = Len(got) + Len(out)
    BY <2>5, <1>6
  <2>7. IsRun(got', 0)
    BY <2>3, <2>4
  <2>8. IsRun(out', Len(got'))
    BY <2>2, <2>4, <2>5
  <2>9. IsRun(pend', Len(got') + Len(out'))
    BY <1>5, <2>4, <2>6
  <2>10. delivered' = Len(got') /\ delivered' \in Nat
    BY <1>5, <1>6, <1>7, <2>5
  <2>11. Len(got') + Len(out') + Len(pend') = decoded
    BY <1>4, <2>4, <2>6
  <2> QED BY <2>7, <2>8, <2>9, <2>10, <2>11
<1>16. ASSUME out = <<>> PROVE Goal
  <2>1. queue = pend /\ Len(out) = 0
    BY <1>4, <1>16
  <2>2. IsRun(pend, Len(got))
    BY <1>5, <1>6, <2>1
  <2>3. /\ IsRun(SubSeq(pend, 1, k), Len(got)) /\ Len(SubSeq(pend, 1, k)) = k
        /\ IsRun(SubSeq(pend, k + 1, Len(pend)), Len(got) + k)
        /\ Len(SubSeq(pend, k + 1, Len(pend))) = Len(pend) - k
    BY <1>6, <1>12, <2>1, <2>2, RunSplit
  <2>4. IsRun(got \o SubSeq(pend, 1, k), 0) /\ Len(got \o SubSeq(pend, 1, k)) = Len(got) + k
    <3>1. 0 + Len(got) = Len(got)
      BY <1>6
    <3> QED BY <1>5, <2>3, <3>1, RunConcat
  <2>5. got' = got \o SubSeq(pend, 1, k) /\ pend' = SubSeq(pend, k + 1, Len(pend)) /\ out' = <<>>
    BY <1>7, <1>16, <2>1
  <2>6. Len(got') = Len(got) + k /\ Len(pend') = Len(pend) - k /\ k \in Nat /\ Len(out') = 0
    BY <2>1, <2>3, <2>4, <2>5, <1>12, <1>11, <1>16
  <2>7. /\ Len(got') + Len(out') = Len(got) + k
        /\ Len(got') + Len(out') + Len(pend') = decoded
    BY <2>6, <2>1, <1>4, <1>6
  <2>8. IsRun(out', Len(got'))
    BY <2>5, RunEmpty
  <2>9. IsRun(got', 0)
    BY <2>4, <2>5
  <2>10. IsRun(pend', Len(got') + Len(out'))
    BY <2>3, <2>5, <2>7
  <2>11. delivered' = Len(got') /\ delivered' \in Nat
    BY <1>5, <1>6, <1>7, <2>6
  <2> QED BY <2>7, <2>8, <2>9, <2>10, <2>11
<1>17. Goal
  BY <1>15, <1>16
<1>18. ret'.e = NoErr /\ pc' = "idle" /\ started'
  BY <1>1, <1>7
<1> QED BY <1>1, <1>3, <1>4, <1>13, <1>14, <1>17, <1>18

(* A Read that returns bytes, with or without recording how the stream ends. *)
LEMMA ServeStep ==
    ASSUME ReaderInv, pc # "error", NEW n \in Nat, n > 0, Serve(n), limit' = limit,
           err' \in Intact, Ended',
           err' = NoErr => err = NoErr /\ pc # "success" /\ srcErr' = srcErr
    PROVE  ReaderInv'
<1>1. /\ started /\ started' /\ remaining >= 0
      /\ IsRun(got', 0) /\ delivered' = Len(got') /\ delivered' \in Nat
      /\ IsRun(out', Len(got')) /\ IsRun(pend', Len(got') + Len(out'))
      /\ Len(got') + Len(out') + Len(pend') = decoded
      /\ limit # 0 => delivered' <= limit
      /\ ret'.e = NoErr /\ pc' = "idle"
  BY ServeRuns
<1>2. /\ remaining' = remaining /\ declared' = declared /\ decoded' = decoded
      /\ phase' = phase /\ buf' = buf /\ seen' = seen /\ want' = want
  BY DEF Serve, source
<1>3. Numbers'
  BY <1>1, <1>2 DEF ReaderInv, Numbers
<1>4. Declared'
  BY <1>1, <1>2 DEF ReaderInv, Declared
<1>5. Fresh'
  BY <1>1 DEF Fresh
<1>6. Aligned'
  BY <1>1, <1>2 DEF Aligned
<1>7. Counted'
  BY <1>1, <1>2 DEF Counted
<1>8. Places'
  BY <1>1, <1>2 DEF ReaderInv, Places
<1>9. Reported'
  BY <1>1 DEF Reported
<1> QED BY <1>3, <1>4, <1>5, <1>6, <1>7, <1>8, <1>9 DEF ReaderInv

(* A Read that returns an error: a new one at the end of the input or of   *)
(* the stream, or the recorded one.                                        *)
LEMMA ReturnStep ==
    ASSUME ReaderInv, pc # "error", started, NothingServed, NEW e, Return(e),
           e # NoErr, e = err \/ (err = NoErr /\ e \in Intact),
           UNCHANGED <<started, out, delivered, limit, decoder, source>>,
           Ended'
    PROVE  ReaderInv'
<1>1. out = <<>> /\ Pending = <<>>
  BY NothingLeft
<1>2. /\ err' = e /\ ret' = [n |-> 0, e |-> e] /\ pc' = "idle" /\ want' = want
      /\ got' = got /\ started' = started /\ out' = out /\ delivered' = delivered
      /\ limit' = limit /\ buf' = buf /\ phase' = phase /\ remaining' = remaining
      /\ declared' = declared /\ pend' = pend /\ decoded' = decoded /\ seen' = seen
  BY DEF Return, decoder, source
<1>3. Numbers'
  BY <1>2 DEF ReaderInv, Numbers
<1>4. Declared'
  BY <1>2 DEF ReaderInv, Declared
<1>5. Fresh'
  BY <1>2 DEF Fresh
<1>6. Aligned'
  BY <1>2 DEF ReaderInv, Aligned
<1>7. Pending' = <<>>
  BY <1>1, <1>2 DEF Pending
<1>8. Counted'
  <2>1. CASE e = err
    BY <1>2, <1>7, <1>1, <2>1 DEF ReaderInv, Counted
  <2>2. CASE err = NoErr /\ e \in Intact
    <3>1. remaining >= 0 /\ Len(got) + Len(out) + Len(pend) = decoded
      BY <2>2 DEF ReaderInv, Counted, Intact
    <3> QED BY <1>2, <3>1, <2>2 DEF Counted
  <2> QED BY <2>1, <2>2
<1>9. Places'
  BY <1>2 DEF ReaderInv, Places
<1>10. Reported'
  BY <1>1, <1>2, <1>7 DEF Reported
<1> QED BY <1>3, <1>4, <1>5, <1>6, <1>8, <1>9, <1>10 DEF ReaderInv

-----------------------------------------------------------------------------
(* The steps of a Read *)

(* Read serves what is left over from the call before. *)
LEMMA ReadServeStep ==
    ASSUME ReaderInv, NEW n \in 1 .. MaxP, ReadServe(n), limit' = limit
    PROVE  ReaderInv'
<1>1. n \in Nat /\ n > 0
  BY ReaderAssumption
<1>2. Serve(n) /\ pc = "idle" /\ err' = err /\ srcErr' = srcErr
  BY DEF ReadServe
<1>3. err \in Intact
  BY <1>1, <1>2, ServeRuns
<1>4. phase' = phase /\ buf' = buf /\ seen' = seen
  BY <1>2 DEF Serve, source
<1>5. Ended'
  BY <1>2, <1>4 DEF ReaderInv, Ended
<1> QED BY <1>1, <1>2, <1>3, <1>5, ServeStep

(* Read returns the recorded error again. *)
LEMMA ReadStickyStep ==
    ASSUME ReaderInv, ReadSticky, limit' = limit
    PROVE  ReaderInv'
<1>1. ErrAfterServe = err /\ pc = "idle" /\ err # NoErr
  BY LimitNeverBites DEF ReadSticky
<1>2. started
  BY <1>1 DEF ReaderInv, Fresh
<1>3. /\ Return(err) /\ NothingServed /\ srcErr' = srcErr
      /\ UNCHANGED <<started, out, delivered, decoder, source>>
  BY <1>1 DEF ReadSticky
<1>4. Ended'
  BY <1>3 DEF ReaderInv, Ended, Return, decoder, source
<1> QED BY <1>1, <1>2, <1>3, <1>4, ReturnStep

(* Read has nothing to serve and goes on decoding. *)
LEMMA ReadAgainStep ==
    ASSUME ReaderInv, NEW n \in 1 .. MaxP, ReadAgain(n), limit' = limit
    PROVE  ReaderInv'
<1>1. ErrAfterServe = err /\ pc = "idle" /\ err = NoErr /\ started
  BY LimitNeverBites DEF ReadAgain
<1>2. /\ pc' = "decode" /\ want' = n /\ n \in Nat /\ n > 0
      /\ UNCHANGED <<started, err, srcErr, out, delivered, buf, phase, remaining,
                     declared, pend, decoded, seen, ret, got>>
  BY ReaderAssumption DEF ReadAgain, reader, decoder, source
<1>3. Numbers'
  BY <1>2 DEF ReaderInv, Numbers
<1>4. Declared'
  BY <1>2 DEF ReaderInv, Declared
<1>5. Fresh'
  BY <1>1, <1>2 DEF Fresh
<1>6. Aligned'
  BY <1>2 DEF ReaderInv, Aligned
<1>7. Counted' /\ Pending' = Pending
  BY <1>1, <1>2 DEF ReaderInv, Counted, Pending
<1>8. Places'
  BY <1>1, <1>2 DEF ReaderInv, Places
<1>9. Reported' /\ Ended'
  BY <1>2, <1>7 DEF ReaderInv, Reported, Ended
<1> QED BY <1>3, <1>4, <1>5, <1>6, <1>7, <1>8, <1>9 DEF ReaderInv

(* fill, when everything decoded has been served. *)
LEMMA FillStep ==
    ASSUME NEW left, NEW u, NEW e \in SrcErrors \cup {NoErr}, Fill(left, u, e),
           err = NoErr, srcErr = NoErr, ret.e = NoErr,
           IsRun(got, 0), delivered' = Len(got), Len(got) = decoded',
           started', out' = <<>>, pend' = <<>>, phase' \in {"header", "body"},
           limit' \in Nat, delivered' \in Nat, decoded' \in Nat, declared' \in Nat,
           remaining' \in Nat, want' \in Nat, want' > 0, Declared'
    PROVE  ReaderInv'
<1> DEFINE Given == /\ srcErr' = e \/ (e = NoErr /\ srcErr' = srcErr)
                    /\ pc' = "decode" /\ err' = err /\ ret' = ret
           Failed == /\ e # NoErr /\ err' = Wrapped(e) /\ pc' = "idle"
                     /\ ret' = [n |-> 0, e |-> Wrapped(e)]
<1>1. seen' = e /\ got' = got /\ (Given \/ Failed)
  BY DEF Fill, Answers
<1>2. /\ e = "EOF" => Wrapped(e) = "truncated"
      /\ e = "fail" => Wrapped(e) = "fail"
      /\ e = "EOF" \/ e = "fail" \/ e = NoErr
  BY DEF Wrapped, SrcErrors
<1>3. Numbers'
  BY DEF Numbers
<1>4. Fresh'
  BY DEF Fresh
<1>5. IsRun(out', Len(got')) /\ IsRun(pend', Len(got') + Len(out')) /\ Len(<<>>) = 0
  BY RunEmpty
<1>6. Aligned'
  BY <1>1, <1>5 DEF Aligned
<1>7. Pending' = <<>>
  BY DEF Pending
<1>8. err' \in Intact
  <2>1. CASE Given
    BY <2>1 DEF Intact
  <2>2. CASE Failed
    BY <1>2, <2>2 DEF Intact, NoErr
  <2> QED BY <1>1, <2>1, <2>2
<1>9. Len(got') + Len(out') + Len(pend') = decoded'
  BY <1>1, <1>5
<1>10. Counted'
  BY <1>8, <1>9 DEF Counted
<1>11. Places'
  <2>1. CASE Given
    BY <1>1, <1>2, <2>1 DEF Places, NoErr
  <2>2. CASE Failed
    BY <1>1, <1>2, <2>2 DEF Places, NoErr
  <2> QED BY <1>1, <2>1, <2>2
<1>12. Ended'
  <2>1. CASE Given
    BY <2>1 DEF Ended, NoErr
  <2>2. CASE Failed
    BY <1>1, <1>2, <2>2 DEF Ended, NoErr
  <2> QED BY <1>1, <2>1, <2>2
<1>13. Reported'
  <2>1. CASE Given
    BY <2>1 DEF Reported
  <2>2. CASE Failed
    BY <1>7, <2>2 DEF Reported
  <2> QED BY <1>1, <2>1, <2>2
<1> QED BY <1>3, <1>4, <1>6, <1>10, <1>11, <1>12, <1>13 DEF ReaderInv

(* The first Read of a stream: initForReuse and fill. *)
LEMMA ReadFirstStep ==
    ASSUME ReaderInv, NEW n \in 1 .. MaxP, NEW u, NEW e \in SrcErrors \cup {NoErr},
           ReadFirst(n, u, e), limit' = limit
    PROVE  ReaderInv'
<1>1. /\ err = NoErr /\ srcErr = NoErr /\ got = <<>> /\ out = <<>> /\ delivered = 0
      /\ Len(<<>>) = 0
  BY RunEmpty DEF ReadFirst, ReaderInv, Fresh
<1>2. ret.e = NoErr
  BY DEF ReadFirst, ReaderInv, Reported
<1>3. /\ started' /\ phase' = "header" /\ remaining' = 0 /\ declared' = 0
      /\ pend' = <<>> /\ decoded' = 0 /\ want' = n /\ Fill(<<>>, u, e)
      /\ out' = out /\ delivered' = delivered
  BY DEF ReadFirst
<1>4. n \in Nat /\ n > 0 /\ limit \in Nat
  BY ReaderAssumption DEF ReaderInv, Numbers
<1>5. Declared'
  BY <1>1, <1>3, <1>4 DEF Declared
<1>6. IsRun(got, 0)
  BY DEF ReaderInv, Aligned
<1> QED BY <1>1, <1>2, <1>3, <1>4, <1>5, <1>6, FillStep

(* The decoder needs input, and everything decoded has been served. *)
LEMMA InputFillStep ==
    ASSUME ReaderInv, NEW u, NEW e \in SrcErrors \cup {NoErr}, InputFill(u, e),
           limit' = limit
    PROVE  ReaderInv'
<1>1. pc = "decode" /\ ErrAfterServe = err /\ err = NoErr /\ started
  BY LimitNeverBites DEF InputFill, ReaderInv, Places, Fresh
<1>2. srcErr = NoErr
  BY <1>1 DEF InputFill, InputErr, Wrapped, NoErr
<1>3. ret.e = NoErr
  BY <1>1 DEF ReaderInv, Reported
<1>4. /\ Fill(buf, u, e) /\ started' = started /\ out' = out /\ delivered' = delivered
      /\ phase' = phase /\ remaining' = remaining /\ declared' = declared
      /\ pend' = pend /\ decoded' = decoded /\ want' = want
  BY DEF InputFill
<1>5. remaining >= 0 /\ Len(got) + Len(out) + Len(pend) = decoded
  BY <1>1 DEF ReaderInv, Counted, Intact
<1>6. out = <<>> /\ pend = <<>>
  BY <1>1, <1>5, NothingLeft DEF InputFill, Pending, ReaderInv, Numbers
<1>7. Len(got) = decoded /\ IsRun(got, 0) /\ delivered = Len(got)
  BY <1>5, <1>6, RunEmpty DEF ReaderInv, Aligned, IsRun
<1>8. phase \in {"header", "body"}
  BY <1>1 DEF ReaderInv, Places
<1>9. /\ want \in Nat /\ want > 0 /\ remaining \in Nat /\ limit \in Nat
      /\ declared \in Nat /\ decoded \in Nat /\ delivered \in Nat
  BY <1>1, <1>5 DEF ReaderInv, Numbers
<1>10. Declared'
  BY <1>4 DEF ReaderInv, Declared
<1> QED BY <1>1, <1>2, <1>3, <1>4, <1>6, <1>7, <1>8, <1>9, <1>10, FillStep

(* The decoder needs input, and there is output to serve first. *)
LEMMA InputServeStep ==
    ASSUME ReaderInv, InputServe, limit' = limit
    PROVE  ReaderInv'
<1>1. Serve(want) /\ pc = "decode" /\ err' = err /\ srcErr' = srcErr
  BY DEF InputServe
<1>2. want \in Nat /\ want > 0 /\ err = NoErr
  BY <1>1 DEF ReaderInv, Numbers, Places
<1>3. Ended'
  BY <1>1, <1>2 DEF Ended, NoErr
<1> QED BY <1>1, <1>2, <1>3, ServeStep DEF Intact

(* The decoder needs input, and the source has ended or failed. *)
LEMMA InputErrorStep ==
    ASSUME ReaderInv, InputError, limit' = limit
    PROVE  ReaderInv'
<1>1. pc = "decode" /\ ErrAfterServe = err /\ err = NoErr /\ started
  BY LimitNeverBites DEF InputError, ReaderInv, Places, Fresh
<1>2. srcErr = seen /\ phase \in {"header", "body"} /\ seen \in {NoErr, "EOF", "fail"}
  BY <1>1 DEF ReaderInv, Places
<1>3. InputErr = Wrapped(seen) /\ InputErr # NoErr
  BY <1>1, <1>2 DEF InputError, InputErr
<1>4. /\ NothingServed /\ Return(InputErr)
      /\ UNCHANGED <<started, out, delivered, decoder, source>>
  BY DEF InputError
<1>5. \/ seen = "EOF" /\ InputErr = "truncated"
      \/ seen = "fail" /\ InputErr = "fail"
  BY <1>2, <1>3 DEF Wrapped, NoErr
<1>6. err' = InputErr /\ phase' = phase /\ seen' = seen
  BY <1>4 DEF Return, decoder, source
<1>7. Ended'
  BY <1>2, <1>5, <1>6 DEF Ended
<1>8. InputErr \in Intact
  BY <1>5 DEF Intact
<1> QED BY <1>1, <1>3, <1>4, <1>7, <1>8, ReturnStep

(* The decoder needs room for output. *)
LEMMA NeedsOutputStep ==
    ASSUME ReaderInv, NeedsOutput, limit' = limit
    PROVE  ReaderInv'
<1>1. pc = "needOutput" /\ ErrAfterServe = err /\ err = NoErr /\ started
  BY LimitNeverBites DEF NeedsOutput, ReaderInv, Places, Fresh
<1>2. CASE ~NothingServed
  <2>1. Serve(want) /\ err' = err /\ srcErr' = srcErr
    BY <1>2 DEF NeedsOutput
  <2>2. want \in Nat /\ want > 0
    BY <1>1 DEF ReaderInv, Numbers
  <2>3. Ended'
    BY <1>1, <2>1 DEF Ended, NoErr
  <2> QED BY <1>1, <2>1, <2>2, <2>3, ServeStep DEF Intact
<1>3. CASE NothingServed
  <2>1. /\ pc' = "decode"
        /\ UNCHANGED <<started, err, srcErr, out, delivered, buf, phase, remaining,
                       declared, pend, decoded, seen, want, ret, got>>
    BY <1>1, <1>3 DEF NeedsOutput, decoder, source
  <2>2. Numbers' /\ Declared'
    BY <1>1, <2>1 DEF ReaderInv, Numbers, Declared
  <2>3. Fresh' /\ Aligned'
    BY <1>1, <2>1 DEF ReaderInv, Fresh, Aligned
  <2>4. Counted' /\ Pending' = Pending
    BY <1>1, <2>1 DEF ReaderInv, Counted, Pending
  <2>5. Places' /\ Ended'
    BY <1>1, <2>1 DEF ReaderInv, Places, Ended
  <2>6. Reported'
    BY <2>1, <2>4 DEF ReaderInv, Reported
  <2> QED BY <2>2, <2>3, <2>4, <2>5, <2>6 DEF ReaderInv
<1> QED BY <1>2, <1>3

(* The stream is complete: the terminal error is recorded. *)
LEMMA SuccessStep ==
    ASSUME ReaderInv, Success, limit' = limit
    PROVE  ReaderInv'
<1>1. pc = "success" /\ ErrAfterServe = err /\ err = NoErr /\ started
  BY LimitNeverBites DEF Success, ReaderInv, Places, Fresh
<1>2. phase = "done" /\ srcErr = seen
  BY <1>1 DEF ReaderInv, Places
<1>3. \/ TerminalError = "fail" /\ seen = "fail"
      \/ TerminalError = "excessive" /\ seen # "fail"
      \/ TerminalError = "EOF" /\ seen # "fail" /\ buf = <<>>
  BY <1>2 DEF TerminalError
<1>4. TerminalError # NoErr /\ TerminalError \in Intact
  BY <1>3 DEF Intact, NoErr
<1>5. ASSUME err' = TerminalError, phase' = phase, seen' = seen, buf' = buf
      PROVE  Ended'
  BY <1>2, <1>3, <1>5 DEF Ended
<1>6. CASE Serve(want) /\ err' = TerminalError
  <2>1. want \in Nat /\ want > 0
    BY <1>1 DEF ReaderInv, Numbers
  <2>2. Ended'
    BY <1>5, <1>6 DEF Serve, source
  <2> QED BY <1>1, <1>4, <1>6, <2>1, <2>2, ServeStep
<1>7. CASE /\ NothingServed
           /\ Return(IF ErrAfterServe = "limit" THEN "limit" ELSE TerminalError)
           /\ UNCHANGED <<started, out, delivered, decoder, source>>
  <2>1. Return(TerminalError)
    BY <1>1, <1>7 DEF NoErr
  <2>2. Ended'
    BY <1>5, <1>7, <2>1 DEF Return, decoder, source
  <2> QED BY <1>1, <1>4, <1>7, <2>1, <2>2, ReturnStep
<1> QED BY <1>6, <1>7 DEF Success

(* The stream is corrupt or too long: what was not served is discarded. *)
LEMMA ErrorStep ==
    ASSUME ReaderInv, Error, limit' = limit
    PROVE  ReaderInv'
<1>1. pc = "error" /\ err = NoErr /\ started /\ phase \in {"corrupt", "limit"}
  BY DEF Error, ReaderInv, Places, Fresh
<1>2. /\ err' = phase /\ ret' = [n |-> 0, e |-> phase] /\ pc' = "idle" /\ out' = <<>>
      /\ pend' = IF remaining < 0 THEN pend ELSE <<>>
      /\ UNCHANGED <<started, srcErr, delivered, buf, phase, remaining, declared,
                     decoded, seen, want, got>>
  BY DEF Error, Return, source
<1>3. Numbers'
  BY <1>2 DEF ReaderInv, Numbers
<1>4. Declared'
  BY <1>2 DEF ReaderInv, Declared
<1>5. Fresh'
  BY <1>1, <1>2 DEF Fresh
<1>6. Pending' = <<>>
  BY <1>2 DEF Pending
<1>7. Aligned'
  <2>1. remaining >= 0 => pend' = <<>>
    BY <1>2 DEF ReaderInv, Numbers
  <2>2. IsRun(out', Len(got')) /\ (remaining >= 0 => IsRun(pend', Len(got') + Len(out')))
    BY <1>2, <2>1, RunEmpty
  <2> QED BY <1>2, <2>2 DEF ReaderInv, Aligned
<1>8. Counted'
  BY <1>1, <1>2, <1>6 DEF Counted, Intact, NoErr
<1>9. Places'
  BY <1>1, <1>2 DEF ReaderInv, Places, NoErr
<1>10. Ended'
  BY <1>1, <1>2 DEF Ended
<1>11. Reported'
  BY <1>1, <1>2, <1>6 DEF Reported
<1> QED BY <1>3, <1>4, <1>5, <1>7, <1>8, <1>9, <1>10, <1>11 DEF ReaderInv

-----------------------------------------------------------------------------
(* Decoding *)

(* What a step of the decoder has to keep, everything else being unchanged. *)
LEMMA DecodeFrame ==
    ASSUME ReaderInv, pc = "decode", limit' = limit,
           UNCHANGED <<started, err, srcErr, delivered, seen, want, ret, got>>,
           Declared', decoded' \in Nat, declared' \in Nat, remaining' \in Int,
           pc' \in {"decode", "needOutput", "success", "error"},
           pc' = "success" => phase' = "done",
           pc' = "error" => phase' \in {"corrupt", "limit"},
           pc' \in {"decode", "needOutput"} => phase' \in {"header", "body"},
           IsRun(out', Len(got)),
           remaining' >= 0 => IsRun(pend', Len(got) + Len(out')),
           pc' # "error" => /\ remaining' >= 0
                            /\ Len(got) + Len(out') + Len(pend') = decoded'
    PROVE  ReaderInv'
<1>1. err = NoErr /\ started
  BY DEF ReaderInv, Places, Fresh
<1>2. ret.e = NoErr
  BY <1>1 DEF ReaderInv, Reported
<1>3. Numbers'
  BY DEF ReaderInv, Numbers
<1>4. Fresh'
  BY <1>1 DEF Fresh
<1>5. Aligned'
  BY DEF ReaderInv, Aligned
<1>6. Counted'
  BY <1>1 DEF Counted, Intact
<1>7. Places'
  BY <1>1 DEF ReaderInv, Places
<1>8. Ended' /\ Reported'
  BY <1>1, <1>2 DEF Ended, Reported, NoErr
<1> QED BY <1>3, <1>4, <1>5, <1>6, <1>7, <1>8 DEF ReaderInv

(* What is known when decompressStream runs. *)
LEMMA Decoding ==
    ASSUME ReaderInv, pc = "decode"
    PROVE  /\ started /\ phase \in {"header", "body"}
           /\ remaining \in Nat /\ decoded \in Nat /\ declared \in Nat
           /\ Len(got) \in Nat /\ Len(out) \in Nat /\ Len(pend) \in Nat
           /\ IsRun(out, Len(got)) /\ IsRun(pend, Len(got) + Len(out))
           /\ Len(got) + Len(out) + Len(pend) = decoded
<1>1. err = NoErr /\ started
  BY DEF ReaderInv, Places, Fresh
<1>2. remaining >= 0 /\ Len(got) + Len(out) + Len(pend) = decoded
  BY <1>1 DEF ReaderInv, Counted, Intact
<1>3. IsRun(got, 0) /\ IsRun(out, Len(got)) /\ IsRun(pend, Len(got) + Len(out))
  BY <1>1, <1>2 DEF ReaderInv, Aligned
<1>4. Len(got) \in Nat /\ Len(out) \in Nat /\ Len(pend) \in Nat
  BY <1>3 DEF IsRun
<1>5. remaining \in Nat /\ decoded \in Nat /\ declared \in Nat
  BY <1>2 DEF ReaderInv, Numbers
<1>6. phase \in {"header", "body"}
  BY <1>1 DEF ReaderInv, Places
<1> QED BY <1>1, <1>2, <1>3, <1>4, <1>5, <1>6

(* n bytes: into the ring, past it into Reader.out, or too many of them. *)
LEMMA YieldStep ==
    ASSUME ReaderInv, pc = "decode", limit' = limit, NEW n \in Nat, Yield(n),
           declared' = declared,
           UNCHANGED <<started, err, srcErr, delivered, seen, want, ret, got>>
    PROVE  ReaderInv'
<1> DEFINE bytes == [i \in 1 .. n |-> decoded + i]
<1>1. /\ remaining \in Nat /\ decoded \in Nat /\ declared \in Nat
      /\ Len(got) \in Nat /\ Len(out) \in Nat /\ Len(pend) \in Nat
      /\ IsRun(out, Len(got)) /\ IsRun(pend, Len(got) + Len(out))
      /\ Len(got) + Len(out) + Len(pend) = decoded
  BY Decoding
<1>2. IsRun(bytes, decoded) /\ Len(bytes) = n
  BY <1>1, RunBytes
<1>3. IsRun(pend \o bytes, Len(got) + Len(out)) /\ Len(pend \o bytes) = Len(pend) + n
  <2>1. IsRun(bytes, (Len(got) + Len(out)) + Len(pend)) /\ Len(got) + Len(out) \in Nat
    BY <1>1, <1>2
  <2> HIDE DEF bytes
  <2> QED BY <1>1, <1>2, <2>1, RunConcat
<1>4. remaining' = remaining - n /\ remaining' \in Int
  BY <1>1 DEF Yield
<1>5. /\ limit # 0 => declared <= limit /\ delivered <= limit
      /\ decoded <= declared /\ decoded + remaining <= declared
  BY <1>1 DEF ReaderInv, Declared
<1>6. CASE remaining - n < 0
  <2>1. phase' = "corrupt" /\ pc' = "error" /\ out' = out /\ decoded' = decoded
    BY <1>6 DEF Yield
  <2>2. Declared' /\ ~(remaining' >= 0)
    BY <1>1, <1>4, <1>5, <1>6, <2>1 DEF Declared
  <2> QED BY <1>1, <1>4, <2>1, <2>2, DecodeFrame
<1>7. CASE ~(remaining - n < 0)
  <2>1. /\ phase' \in {"header", "body"} /\ pc' \in {"decode", "needOutput"}
        /\ decoded' = decoded + n
        /\ \/ pend' = pend \o bytes /\ out' = out
           \/ out' = out \o pend \o bytes /\ pend' = <<>>
    BY <1>7 DEF Yield
  <2> HIDE DEF bytes
  <2>2. remaining' >= 0 /\ decoded' \in Nat
    BY <1>1, <1>4, <1>7, <2>1
  <2>3. Declared'
    <3>1. decoded' + remaining' = decoded + remaining
      BY <1>1, <1>4, <2>1
    <3>2. decoded' <= declared
      <4>1. decoded + remaining <= declared /\ declared \in Nat
        BY <1>1, <1>5
      <4> QED BY <1>4, <2>2, <3>1, <4>1
    <3> QED BY <1>1, <1>4, <1>5, <2>1, <3>1, <3>2 DEF Declared
  <2>4. CASE pend' = pend \o bytes /\ out' = out
    <3>1. IsRun(pend', Len(got) + Len(out'))
      BY <1>3, <2>4
    <3>2. Len(got) + Len(out') + Len(pend') = decoded'
      <4>1. Len(pend') = Len(pend) + n /\ Len(out') = Len(out)
        BY <1>3, <2>4
      <4>2. /\ Len(got) + Len(out) + Len(pend) = decoded /\ decoded' = decoded + n
            /\ Len(got) \in Nat /\ Len(out) \in Nat /\ Len(pend) \in Nat
        BY <1>1, <2>1
      <4> QED BY <4>1, <4>2
    <3> QED BY <1>1, <1>4, <2>1, <2>2, <2>3, <2>4, <3>1, <3>2, DecodeFrame
  <2>5. CASE out' = out \o pend \o bytes /\ pend' = <<>>
    <3>1. /\ IsRun(out \o pend, Len(got))
          /\ Len(out \o pend) = Len(out) + Len(pend)
      BY <1>1, RunConcat
    <3>2. IsRun(bytes, Len(got) + Len(out \o pend))
      <4>1. Len(got) + Len(out \o pend) = decoded
        BY <1>1, <3>1
      <4> QED BY <1>2, <4>1
    <3>3. /\ IsRun((out \o pend) \o bytes, Len(got))
          /\ Len((out \o pend) \o bytes) = Len(out \o pend) + Len(bytes)
      BY <1>1, <3>1, <3>2, RunConcat
    <3>4. IsRun(out', Len(got)) /\ Len(out') = Len(out) + Len(pend) + n
      BY <1>1, <1>2, <2>5, <3>1, <3>3
    <3>5. IsRun(pend', Len(got) + Len(out')) /\ Len(pend') = 0
      BY <2>5, RunEmpty
    <3>6. Len(got) + Len(out') + Len(pend') = decoded'
      BY <1>1, <2>1, <3>4, <3>5
    <3> QED BY <1>4, <2>1, <2>2, <2>3, <3>4, <3>5, <3>6, <1>1, DecodeFrame
  <2> QED BY <2>1, <2>4, <2>5
<1> QED BY <1>6, <1>7

(* One unit of input. *)
LEMMA DecodeStep ==
    ASSUME ReaderInv, Decode, limit' = limit
    PROVE  ReaderInv'
<1>1. /\ pc = "decode"
      /\ UNCHANGED <<started, err, srcErr, delivered, seen, want, ret, got>>
  BY DEF Decode, source
<1>2. /\ remaining \in Nat /\ decoded \in Nat /\ declared \in Nat
      /\ phase \in {"header", "body"}
      /\ IsRun(out, Len(got)) /\ IsRun(pend, Len(got) + Len(out))
      /\ Len(got) + Len(out) + Len(pend) = decoded
  BY <1>1, Decoding
<1>3. /\ limit \in Nat
      /\ limit # 0 => declared <= limit /\ delivered <= limit
      /\ decoded <= declared /\ decoded + remaining <= declared
  BY <1>2 DEF ReaderInv, Declared, Numbers
<1>4. CASE DecodeHeader
  <2>1. pend' = pend /\ decoded' = decoded /\ out' = out
    BY <1>4 DEF DecodeHeader
  <2>2. CASE limit # 0 /\ BlockLen > limit - declared
    <3>1. phase' = "limit" /\ pc' = "error" /\ remaining' = remaining /\ declared' = declared
      BY <1>4, <2>2 DEF DecodeHeader
    <3>2. Declared'
      BY <1>1, <1>3, <2>1, <3>1 DEF Declared
    <3> QED BY <1>1, <1>2, <2>1, <3>1, <3>2, DecodeFrame
  <2>3. CASE ~(limit # 0 /\ BlockLen > limit - declared)
    <3>1. /\ phase' = "body" /\ remaining' = BlockLen
          /\ declared' = declared + BlockLen /\ pc' = pc
      BY <1>4, <2>3 DEF DecodeHeader
    <3>2. BlockLen \in Nat
      BY ReaderAssumption
    <3>3. limit # 0 => declared + BlockLen <= limit
      BY <1>2, <1>3, <2>3, <3>2
    <3>4. Declared' /\ declared' \in Nat /\ remaining' \in Int /\ remaining' >= 0
      BY <1>1, <1>2, <1>3, <2>1, <3>1, <3>2, <3>3 DEF Declared
    <3> QED BY <1>1, <1>2, <2>1, <3>1, <3>4, DecodeFrame
  <2> QED BY <2>2, <2>3
<1>5. CASE DecodeByte
  BY <1>1, <1>5, YieldStep DEF DecodeByte
<1>6. CASE DecodeReference
  BY <1>1, <1>6, YieldStep DEF DecodeReference
<1>7. CASE DecodeEnd \/ DecodeInvalid
  <2>1. /\ pend' = pend /\ decoded' = decoded /\ out' = out
        /\ remaining' = remaining /\ declared' = declared
        /\ \/ phase' = "done" /\ pc' = "success"
           \/ phase' = "corrupt" /\ pc' = "error"
    BY <1>7 DEF DecodeEnd, DecodeInvalid
  <2>2. Declared'
    BY <1>1, <1>3, <2>1 DEF Declared
  <2> QED BY <1>1, <1>2, <2>1, <2>2, DecodeFrame
<1> QED BY <1>4, <1>5, <1>6, <1>7 DEF Decode

-----------------------------------------------------------------------------
(* Between streams *)

(* Reset: the ring becomes stale, and is hidden until the next Read. *)
LEMMA ResetStep ==
    ASSUME ReaderInv, Reset, limit' = limit
    PROVE  ReaderInv'
<1>1. /\ pc = "idle" /\ pc' = "idle" /\ err' = NoErr /\ srcErr' = NoErr /\ out' = <<>>
      /\ delivered' = 0 /\ ~started' /\ seen' = NoErr
      /\ ret' = [n |-> 0, e |-> NoErr] /\ got' = <<>>
      /\ UNCHANGED <<buf, phase, remaining, declared, decoded, want>>
  BY DEF Reset, NoReturn
<1>2. Numbers' /\ Declared'
  BY <1>1 DEF ReaderInv, Numbers, Declared
<1>3. Fresh' /\ Counted'
  BY <1>1 DEF Fresh, Counted
<1>4. Aligned'
  BY <1>1, RunEmpty DEF Aligned
<1>5. Places' /\ Ended'
  BY <1>1 DEF Places, Ended, NoErr
<1>6. Reported'
  BY <1>1 DEF Reported
<1> QED BY <1>2, <1>3, <1>4, <1>5, <1>6 DEF ReaderInv

(* Close drops everything and records an error. *)
LEMMA CloseStep ==
    ASSUME ReaderInv, Close, limit' = limit
    PROVE  ReaderInv'
<1>1. /\ pc = "idle" /\ pc' = "idle" /\ err' = "closed" /\ out' = <<>> /\ pend' = <<>>
      /\ started' /\ ret' = [n |-> 0, e |-> NoErr] /\ remaining' = 0 /\ declared' = 0
      /\ decoded' = 0
      /\ UNCHANGED <<delivered, seen, want, got>>
  BY DEF Close, NoReturn, source
<1>2. Numbers' /\ Declared'
  BY <1>1 DEF ReaderInv, Numbers, Declared
<1>3. Fresh'
  BY <1>1 DEF Fresh
<1>4. Aligned'
  BY <1>1, RunEmpty DEF ReaderInv, Aligned
<1>5. Counted'
  BY <1>1 DEF Counted, Pending, Intact, NoErr
<1>6. Places' /\ Ended'
  BY <1>1 DEF ReaderInv, Places, Ended, NoErr
<1>7. Reported'
  BY <1>1 DEF Reported
<1> QED BY <1>2, <1>3, <1>4, <1>5, <1>6, <1>7 DEF ReaderInv

(* A new Reader. *)
LEMMA InitInv == Init => ReaderInv
<1> SUFFICES ASSUME Init PROVE ReaderInv
  OBVIOUS
<1>1. Numbers /\ Declared
  BY ReaderAssumption DEF Init, Numbers, Declared
<1>2. Fresh /\ Counted
  BY DEF Init, Fresh, Counted
<1>3. Aligned
  BY RunEmpty DEF Init, Aligned
<1>4. Places /\ Ended
  BY DEF Init, Places, Ended, NoErr
<1>5. Reported
  BY DEF Init, Reported, NoReturn
<1> QED BY <1>1, <1>2, <1>3, <1>4, <1>5 DEF ReaderInv

(* Every step keeps the invariant, one case per action. *)
LEMMA NextInv == ReaderInv /\ [Next]_vars => ReaderInv'
<1> SUFFICES ASSUME ReaderInv, [Next]_vars PROVE ReaderInv'
  OBVIOUS
<1>1. CASE Running
  <2>1. limit' = limit
    BY <1>1 DEF Running
  <2>2. CASE Decode
    BY <2>1, <2>2, DecodeStep
  <2>3. CASE InputServe
    BY <2>1, <2>3, InputServeStep
  <2>4. CASE InputError
    BY <2>1, <2>4, InputErrorStep
  <2>5. CASE \E u \in Answer, e \in SrcErrors \cup {NoErr} : InputFill(u, e)
    BY <2>1, <2>5, InputFillStep
  <2>6. CASE NeedsOutput
    BY <2>1, <2>6, NeedsOutputStep
  <2>7. CASE Success
    BY <2>1, <2>7, SuccessStep
  <2>8. CASE Error
    BY <2>1, <2>8, ErrorStep
  <2> QED BY <1>1, <2>2, <2>3, <2>4, <2>5, <2>6, <2>7, <2>8 DEF Running
<1>2. CASE Caller
  <2>1. limit' = limit
    BY <1>2 DEF Caller
  <2>2. ASSUME NEW n \in 1 .. MaxP, ReadServe(n) PROVE ReaderInv'
    BY <2>1, <2>2, ReadServeStep
  <2>3. ASSUME NEW n \in 1 .. MaxP, ReadAgain(n) PROVE ReaderInv'
    BY <2>1, <2>3, ReadAgainStep
  <2>4. CASE ReadSticky
    BY <2>1, <2>4, ReadStickyStep
  <2>5. ASSUME NEW n \in 1 .. MaxP, NEW u \in Answer, NEW e \in SrcErrors \cup {NoErr},
               ReadFirst(n, u, e)
        PROVE  ReaderInv'
    BY <2>1, <2>5, ReadFirstStep
  <2>6. CASE Reset
    BY <2>1, <2>6, ResetStep
  <2>7. CASE Close
    BY <2>1, <2>7, CloseStep
  <2> QED BY <1>2, <2>2, <2>3, <2>4, <2>5, <2>6, <2>7 DEF Caller
<1>3. CASE UNCHANGED vars
  <2>1. /\ UNCHANGED <<started, err, srcErr, out, delivered, limit, buf, phase>>
        /\ UNCHANGED <<remaining, declared, pend, decoded, seen, pc, want, ret, got>>
    BY <1>3 DEF vars, reader, decoder, source, call
  <2>2. Numbers' /\ Declared' /\ Fresh' /\ Aligned' /\ Pending' = Pending
    BY <2>1 DEF ReaderInv, Numbers, Declared, Fresh, Aligned, Pending
  <2>3. Counted' /\ Places' /\ Ended' /\ Reported'
    BY <2>1, <2>2 DEF ReaderInv, Counted, Places, Ended, Reported
  <2> QED BY <2>2, <2>3 DEF ReaderInv
<1> QED BY <1>1, <1>2, <1>3 DEF Next

-----------------------------------------------------------------------------
(* What holds at every step of Read (Reader.Read, fill, serve): the bytes  *)
(* handed out, Reader.out and the ring are consecutive pieces of the       *)
(* stream, declared sizes respect the limit, and a returned error is the   *)
(* recorded one with nothing left behind it.                               *)
THEOREM ReaderInvHolds == Spec => []ReaderInv
<1>1. Init => ReaderInv
  BY InitInv
<1>2. ReaderInv /\ [Next]_vars => ReaderInv'
  BY NextInv
<1> QED BY <1>1, <1>2, PTL DEF Spec

(* The caller of Read gets the bytes of the stream in order, none lost,    *)
(* repeated or left over from the stream before a Reset.                   *)
THEOREM BytesInOrder == Spec => []InOrder
<1>1. ReaderInv => InOrder
  <2> SUFFICES ASSUME ReaderInv, NEW k \in 1 .. Len(got) PROVE got[k] = k
    BY DEF InOrder
  <2>1. got \in Seq(Int) /\ got[k] = 0 + k
    BY DEF ReaderInv, Aligned, IsRun
  <2> QED BY <2>1
<1> QED BY <1>1, ReaderInvHolds, PTL

(* Read returns an error of the end of the input or of the stream only     *)
(* after it has handed out everything that was decoded.                    *)
THEOREM AllServedBeforeError == Spec => []DataBeforeError
<1>1. ReaderInv => DataBeforeError
  <2> SUFFICES ASSUME ReaderInv, ret.e \in {"EOF", "fail", "truncated", "excessive"}
               PROVE  Len(got) = decoded
    BY DEF DataBeforeError
  <2>1. ret.e # NoErr
    BY DEF NoErr
  <2>2. started /\ ret = [n |-> 0, e |-> err] /\ out = <<>> /\ Pending = <<>>
    BY <2>1 DEF ReaderInv, Reported
  <2>3. ret.e = err
    BY <2>2
  <2>4. err \in Intact /\ pc = "idle"
    BY <2>1, <2>3 DEF Intact, ReaderInv, Places
  <2>5. remaining >= 0 /\ Len(got) + Len(out) + Len(pend) = decoded
    BY <2>2, <2>4 DEF ReaderInv, Counted
  <2>6. Len(out) = 0 /\ Len(pend) = 0
    BY <2>2, <2>5 DEF Pending, ReaderInv, Numbers
  <2>7. Len(got) \in Nat
    BY DEF ReaderInv, Aligned, IsRun
  <2> QED BY <2>5, <2>6, <2>7
<1> QED BY <1>1, ReaderInvHolds, PTL

(* MaxDecodedBytes bounds what Read hands out, and only the check of a     *)
(* metablock header fails for it, never serve.                             *)
THEOREM LimitIsExact == Spec => []LimitExact
<1>1. ReaderInv => LimitExact
  BY DEF ReaderInv, Declared, Aligned, Ended, LimitExact
<1> QED BY <1>1, ReaderInvHolds, PTL

(* Which error ends a stream: what terminalReadError and wrapInputError    *)
(* report is true of the stream and of the source.                         *)
THEOREM EndIsHonest == Spec => []HonestEnd
<1>1. ReaderInv => HonestEnd
  <2> SUFFICES ASSUME ReaderInv, ret.e # NoErr PROVE HonestEnd
    BY DEF HonestEnd, NoErr
  <2>1. ret = [n |-> 0, e |-> err]
    BY DEF ReaderInv, Reported
  <2>2. ret.e = err
    BY <2>1
  <2> QED BY <2>2 DEF ReaderInv, Ended, HonestEnd
<1> QED BY <1>1, ReaderInvHolds, PTL

(* "Later calls return the same error": once Read has returned one, only   *)
(* Reset and Close change what it returns.                                 *)
THEOREM ErrorsStick == Spec => StickyError
<1>1. ASSUME ReaderInv, [Next]_vars, ret.e # NoErr, ret' # ret
      PROVE  ret' = NoReturn
  <2>1. started /\ ret = [n |-> 0, e |-> err] /\ out = <<>> /\ Pending = <<>>
    BY <1>1 DEF ReaderInv, Reported
  <2>2. ret.e = err
    BY <2>1
  <2>3. pc = "idle" /\ NothingServed /\ ErrAfterServe = err
    BY <1>1, <2>1, <2>2, LimitNeverBites DEF ReaderInv, Places, NothingServed
  <2>4. ~Running
    BY <2>3 DEF Running, Decode, InputServe, InputError, InputFill, NeedsOutput,
                Success, Error
  <2>5. ASSUME NEW n \in 1 .. MaxP PROVE ~ReadServe(n) /\ ~ReadAgain(n)
    BY <1>1, <2>2, <2>3 DEF ReadServe, ReadAgain, Serve
  <2>6. ~ReadSticky
    BY <1>1, <2>1, <2>3 DEF ReadSticky, Return
  <2>7. ASSUME NEW n, NEW u, NEW e PROVE ~ReadFirst(n, u, e)
    BY <2>1 DEF ReadFirst
  <2>8. Reset \/ Close
    <3>1. ~(UNCHANGED vars)
      BY <1>1 DEF vars, call
    <3> QED BY <1>1, <2>4, <2>5, <2>6, <2>7, <3>1 DEF Next, Caller
  <2> QED BY <2>8 DEF Reset, Close
<1>2. ReaderInv /\ [Next]_vars => [ret.e # NoErr /\ ret' # ret => ret' = NoReturn]_vars
  BY <1>1
<1> QED BY <1>2, ReaderInvHolds, PTL DEF Spec, StickyError
=============================================================================
