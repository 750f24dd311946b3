------------------------------- MODULE Reader -------------------------------
(***************************************************************************)
(* Reader (reader.go) between its caller, the source and the decoder.      *)
(*                                                                         *)
(* The source is external: it answers a Read with some input, an error or  *)
(* both, as io.Reader allows.  Input is made of units: "h" a metablock     *)
(* header that declares BlockLen bytes, "d" one byte of data, "w" the      *)
(* first half of a reference that yields two bytes (any unit completes     *)
(* it), "end" the end of the stream, "bad" something invalid.              *)
(*                                                                         *)
(* Of the decoder this module keeps what Reader can see: which results     *)
(* decompressStream returns, what is in the ring, what was appended to     *)
(* Reader.out, and the declared sizes.  DecoderRing has the details.       *)
(* Bytes are represented by their index in the decompressed stream.        *)
(***************************************************************************)
EXTENDS Integers, Sequences, FiniteSetsExt

CONSTANTS
    BlockLen,   \* bytes a metablock declares
    Cap,        \* units that fit in Reader.buf
    Limits,     \* values of MaxDecodedBytes, 0 for none
    MaxP,       \* bound: size of the caller's buffer
    MaxInput    \* bound: units and empty answers of the source

ASSUME ReaderAssumption ==
    /\ BlockLen \in Nat \ {0} /\ Cap \in Nat /\ Cap >= 2
    /\ Limits \subseteq Nat /\ MaxP \in Nat \ {0} /\ MaxInput \in Nat

VARIABLES
    (* Reader *)
    started, err, srcErr, out, delivered,
    limit,  \* maxDecodedBytes
    (* decoder *)
    buf, phase, remaining, declared, pend, decoded,
    (* source *)
    budget, seen,
    (* the call in progress, its last answer, and what the caller has *)
    pc, want, ret, got

reader == <<started, err, srcErr, out, delivered>>
decoder == <<buf, phase, remaining, declared, pend, decoded>>
source == <<budget, seen>>
call == <<pc, want, ret, got>>
vars == <<reader, limit, decoder, source, call>>

Units == {"h", "d", "w", "end", "bad"}
SrcErrors == {"EOF", "fail"}
Errors == {"EOF", "fail", "truncated", "corrupt", "limit", "excessive", "closed"}
NoErr == "nil"
Stale == -1
NoReturn == [n |-> 0, e |-> NoErr]

Init ==
    /\ started = FALSE /\ err = NoErr /\ srcErr = NoErr /\ out = <<>> /\ delivered = 0
    /\ limit \in Limits
    /\ buf = <<>> /\ phase = "header" /\ remaining = 0 /\ declared = 0
    /\ pend = <<>> /\ decoded = 0
    /\ budget = MaxInput /\ seen = NoErr
    /\ pc = "idle" /\ want = 0 /\ ret = NoReturn /\ got = <<>>

-----------------------------------------------------------------------------
(* Serving *)

(* pendingOutput shows nothing after an overrun. *)
Pending == IF remaining < 0 THEN <<>> ELSE pend

(* The bytes serve may still hand out of a buffer of n. *)
Room(n) == IF limit = 0 THEN n ELSE Min({n, limit - delivered})
AtLimit == limit # 0 /\ delivered = limit

(* serve finds nothing to hand out. *)
NothingServed ==
    \/ AtLimit
    \/ out = <<>> /\ (~started \/ Pending = <<>>)

(* At the limit, output that is left over is an error. *)
ErrAfterServe ==
    IF AtLimit /\ (out # <<>> \/ (started /\ Pending # <<>>)) THEN "limit" ELSE err

(* Mutant: Reset's stale ring counters are not guarded by started. *)
ServeUnguarded(n) ==
    /\ ~AtLimit
    /\ LET queue == IF out # <<>> THEN out ELSE Pending
           k     == Min({Room(n), Len(queue)})
       IN /\ k > 0
          /\ IF out # <<>>
             THEN out' = SubSeq(out, k + 1, Len(out)) /\ UNCHANGED pend
             ELSE pend' = SubSeq(pend, k + 1, Len(pend)) /\ UNCHANGED out
          /\ delivered' = delivered + k
          /\ got' = got \o SubSeq(queue, 1, k)
          /\ ret' = [n |-> k, e |-> NoErr]
    /\ pc' = "idle"
    /\ UNCHANGED <<started, buf, phase, remaining, declared, decoded, source, want>>

(* serve hands out k > 0 bytes and Read returns them: first what           *)
(* writeRingBuffer appended, then the ring.                                *)
Serve(n) ==
    /\ ~NothingServed
    /\ LET queue == IF out # <<>> THEN out ELSE Pending
           k     == Min({Room(n), Len(queue)})
       IN /\ IF out # <<>>
             THEN out' = SubSeq(out, k + 1, Len(out)) /\ UNCHANGED pend
             ELSE pend' = SubSeq(pend, k + 1, Len(pend)) /\ UNCHANGED out
          /\ delivered' = delivered + k
          /\ got' = got \o SubSeq(queue, 1, k)
          /\ ret' = [n |-> k, e |-> NoErr]
    /\ pc' = "idle"
    /\ UNCHANGED <<started, buf, phase, remaining, declared, decoded, source, want>>

(* Read returns no bytes and the error it has recorded. *)
Return(e) ==
    /\ err' = e
    /\ ret' = [n |-> 0, e |-> e]
    /\ pc' = "idle"
    /\ UNCHANGED <<want, got>>

(* wrapInputError *)
Wrapped(e) == IF e = "EOF" THEN "truncated" ELSE e

-----------------------------------------------------------------------------
(* The source: k units and an error or none.  It has ended once it has     *)
(* reported an error, and it does not answer with nothing for ever.        *)
Answers(k, u, e) ==
    /\ u \in [1 .. k -> Units]
    /\ k <= budget /\ (e # NoErr \/ k < budget)
    /\ budget' = IF e = NoErr THEN budget - k - 1 ELSE budget - k
    /\ seen' = e

(* fill appends what the source gives to what is left in buf.  Its error   *)
(* is kept for later if there is anything to decode.                       *)
Fill(left, u, e) ==
    /\ Len(left) + Len(u) <= Cap
    /\ Answers(Len(u), u, e)
    /\ buf' = left \o u
    /\ IF buf' # <<>>
       THEN /\ srcErr' = e
            /\ pc' = "decode"
            /\ UNCHANGED <<err, ret, got>>
       ELSE IF e = NoErr
       THEN pc' = "decode" /\ UNCHANGED <<srcErr, err, ret, got>>
       ELSE /\ err' = Wrapped(e)
            /\ ret' = [n |-> 0, e |-> Wrapped(e)]
            /\ pc' = "idle"
            /\ UNCHANGED <<srcErr, got>>

Answer == {<<>>} \cup [1 .. 1 -> Units] \cup [1 .. 2 -> Units]

-----------------------------------------------------------------------------
(* Read, up to the loop *)

ReadServe(n) ==
    /\ pc = "idle"
    /\ Serve(n)
    /\ UNCHANGED <<err, srcErr>>

ReadSticky ==
    /\ pc = "idle" /\ NothingServed
    /\ ErrAfterServe # NoErr
    /\ Return(ErrAfterServe)
    /\ UNCHANGED <<started, srcErr, out, delivered, decoder, source>>

(* The first Read of a stream: initForReuse, then fill.  Attaching the     *)
(* dictionaries cannot fail: NewReaderOptions has checked their number and *)
(* that none is empty, and initForReuse has detached those of the stream   *)
(* before.                                                                 *)
ReadFirst(n, u, e) ==
    /\ pc = "idle" /\ NothingServed /\ err = NoErr /\ ~started
    /\ started' = TRUE
    /\ phase' = "header" /\ remaining' = 0 /\ declared' = 0 /\ pend' = <<>> /\ decoded' = 0
    /\ want' = n
    /\ Fill(<<>>, u, e)
    /\ UNCHANGED <<out, delivered>>

ReadAgain(n) ==
    /\ pc = "idle" /\ NothingServed /\ ErrAfterServe = NoErr /\ started
    /\ pc' = "decode" /\ want' = n
    /\ UNCHANGED <<reader, decoder, source, ret, got>>

-----------------------------------------------------------------------------
(* decompressStream, one unit at a time *)

Incomplete == buf \in {<<>>, <<"w">>}

(* Yield n bytes, into the ring or past it into out: a long copy may fill  *)
(* the ring several times within one call.  The ring may be full after it. *)
Yield(n) ==
    /\ remaining' = remaining - n
    /\ IF remaining - n < 0
       THEN /\ phase' = "corrupt" /\ pc' = "error"
            /\ pend' = pend \o [i \in 1 .. n |-> decoded + i]
            /\ UNCHANGED <<out, decoded>>
       ELSE /\ phase' = IF remaining = n THEN "header" ELSE "body"
            /\ pc' \in {"decode", "needOutput"}
            /\ decoded' = decoded + n
            /\ LET bytes == [i \in 1 .. n |-> decoded + i]
               IN \/ pend' = pend \o bytes /\ UNCHANGED out
                  \/ out' = out \o pend \o bytes /\ pend' = <<>>

(* Mutant: the limit counts each metablock on its own. *)
DecodeHeaderNoTotal ==
    /\ phase = "header" /\ Head(buf) = "h"
    /\ IF limit # 0 /\ BlockLen > limit
       THEN phase' = "limit" /\ pc' = "error" /\ UNCHANGED <<remaining, declared>>
       ELSE /\ phase' = "body" /\ remaining' = BlockLen
            /\ declared' = declared + BlockLen
            /\ UNCHANGED pc
    /\ UNCHANGED <<pend, decoded, out>>

(* A metablock header: the declared total is checked before anything is    *)
(* allocated.                                                              *)
DecodeHeader ==
    /\ phase = "header" /\ Head(buf) = "h"
    /\ IF limit # 0 /\ BlockLen > limit - declared
       THEN phase' = "limit" /\ pc' = "error" /\ UNCHANGED <<remaining, declared>>
       ELSE /\ phase' = "body" /\ remaining' = BlockLen
            /\ declared' = declared + BlockLen
            /\ UNCHANGED pc
    /\ UNCHANGED <<pend, decoded, out>>

DecodeByte ==
    /\ phase = "body" /\ Head(buf) = "d"
    /\ Yield(1)
    /\ UNCHANGED declared

DecodeReference ==
    /\ phase = "body" /\ Head(buf) = "w"
    /\ Yield(2)
    /\ UNCHANGED declared

DecodeEnd ==
    /\ phase = "header" /\ Head(buf) = "end"
    /\ phase' = "done" /\ pc' = "success"
    /\ UNCHANGED <<remaining, declared, pend, decoded, out>>

Invalid == \/ phase = "header" /\ Head(buf) \notin {"h", "end"}
           \/ phase = "body" /\ Head(buf) \notin {"d", "w"}

DecodeInvalid ==
    /\ Invalid
    /\ phase' = "corrupt" /\ pc' = "error"
    /\ UNCHANGED <<remaining, declared, pend, decoded, out>>

Decode ==
    /\ pc = "decode" /\ ~Incomplete
    /\ buf' = SubSeq(buf, IF Head(buf) = "w" /\ phase = "body" THEN 3 ELSE 2, Len(buf))
    /\ \/ DecodeHeader \/ DecodeByte \/ DecodeReference \/ DecodeEnd \/ DecodeInvalid
    /\ UNCHANGED <<started, err, srcErr, delivered, source, want, ret, got>>

-----------------------------------------------------------------------------
(* The results of decompressStream *)

(* decoderResultNeedsMoreInput: output first, then the deferred error of   *)
(* the source, then more input.                                            *)
InputServe ==
    /\ pc = "decode" /\ Incomplete
    /\ Serve(want)
    /\ UNCHANGED <<err, srcErr>>

(* What ends Read then: the limit, or else the source. *)
InputErr == IF ErrAfterServe # NoErr THEN ErrAfterServe ELSE Wrapped(srcErr)

(* Mutant: the source's error is dropped, so that Read asks again. *)
InputErrorDropped ==
    /\ pc = "decode" /\ Incomplete /\ NothingServed /\ InputErr # NoErr
    /\ UNCHANGED <<reader, decoder, source, call>>

InputError ==
    /\ pc = "decode" /\ Incomplete /\ NothingServed /\ InputErr # NoErr
    /\ Return(InputErr)
    /\ srcErr' = IF ErrAfterServe # NoErr THEN srcErr ELSE NoErr
    /\ UNCHANGED <<started, out, delivered, decoder, source>>

InputFill(u, e) ==
    /\ pc = "decode" /\ Incomplete /\ NothingServed /\ InputErr = NoErr
    /\ Fill(buf, u, e)
    /\ UNCHANGED <<started, out, delivered, phase, remaining, declared, pend,
                   decoded, want>>

(* decoderResultNeedsMoreOutput: the ring is full, so there is something to *)
(* serve; otherwise Read would go on decoding.                              *)
NeedsOutput ==
    /\ pc = "needOutput"
    /\ IF ~NothingServed
       THEN Serve(want) /\ UNCHANGED <<err, srcErr>>
       ELSE /\ IF ErrAfterServe # NoErr
               THEN Return(ErrAfterServe)
               ELSE pc' = "decode" /\ UNCHANGED <<err, want, ret, got>>
            /\ UNCHANGED <<started, srcErr, out, delivered, decoder, source>>

(* Mutant: a tail in the buffer is reported before the source's error. *)
TerminalErrorTailFirst ==
    IF buf # <<>> THEN "excessive"
    ELSE IF srcErr = "fail" THEN "fail" ELSE "EOF"

(* terminalReadError: a failure of the source comes before a buffered tail. *)
TerminalError ==
    IF srcErr = "fail" THEN "fail"
    ELSE IF buf # <<>> THEN "excessive" ELSE "EOF"

(* Mutant: the terminal error is returned at once. *)
SuccessReturnsError ==
    /\ pc = "success"
    /\ srcErr' = NoErr
    /\ Return(TerminalError)
    /\ UNCHANGED <<started, out, delivered, decoder, source>>

(* decoderResultSuccess: the terminal error is recorded, and returned only *)
(* if there is nothing left to serve.                                      *)
Success ==
    /\ pc = "success"
    /\ srcErr' = NoErr
    /\ \/ Serve(want) /\ err' = TerminalError
       \/ /\ NothingServed
          /\ Return(IF ErrAfterServe = "limit" THEN "limit" ELSE TerminalError)
          /\ UNCHANGED <<started, out, delivered, decoder, source>>

(* Mutant: what was decoded before the error is still served after it. *)
ErrorKeepsOutput ==
    /\ pc = "error"
    /\ Return(phase)
    /\ UNCHANGED <<started, srcErr, out, delivered, decoder, source>>

(* decoderResultError: everything that was not served is discarded. *)
Error ==
    /\ pc = "error"
    /\ Return(phase)
    /\ out' = <<>>
    /\ pend' = IF remaining < 0 THEN pend ELSE <<>>
    /\ UNCHANGED <<started, srcErr, delivered, buf, phase, remaining, declared,
                   decoded, source>>

-----------------------------------------------------------------------------
(* Reset leaves the decoder as it is until the next Read, its ring full of *)
(* bytes of the previous stream.                                           *)
Reset ==
    /\ pc = "idle"
    /\ err' = NoErr /\ srcErr' = NoErr /\ out' = <<>> /\ delivered' = 0
    /\ started' = FALSE
    /\ pend' = [k \in DOMAIN pend |-> Stale]
    /\ budget' = MaxInput /\ seen' = NoErr
    /\ ret' = NoReturn /\ got' = <<>>
    /\ UNCHANGED <<buf, phase, remaining, declared, decoded, pc, want>>

Close ==
    /\ pc = "idle"
    /\ buf' = <<>> /\ phase' = "header" /\ remaining' = 0 /\ declared' = 0
    /\ pend' = <<>> /\ decoded' = 0
    /\ out' = <<>> /\ srcErr' = NoErr /\ err' = "closed" /\ started' = TRUE
    /\ ret' = NoReturn
    /\ UNCHANGED <<delivered, source, pc, want, got>>

-----------------------------------------------------------------------------
(* A call runs on its own once it has begun. *)
Running ==
    /\ \/ Decode
       \/ InputServe \/ InputError
       \/ \E u \in Answer, e \in SrcErrors \cup {NoErr} : InputFill(u, e)
       \/ NeedsOutput
       \/ Success \/ Error
    /\ UNCHANGED limit

Caller ==
    /\ \/ \E n \in 1 .. MaxP : ReadServe(n) \/ ReadAgain(n)
       \/ ReadSticky
       \/ \E n \in 1 .. MaxP, u \in Answer, e \in SrcErrors \cup {NoErr} :
             ReadFirst(n, u, e)
       \/ Reset \/ Close
    /\ UNCHANGED limit

Next == Running \/ Caller

(* The goroutine that called Read keeps running; the source answers. *)
Spec == Init /\ [][Next]_vars /\ WF_vars(Running)

-----------------------------------------------------------------------------
(* The caller receives the bytes of this stream in order, none of them     *)
(* lost or repeated, and none left over from the stream before a Reset.    *)
InOrder == \A k \in 1 .. Len(got) : got[k] = k

(* "After decode success, Read serves all decoded bytes before it returns  *)
(* a terminal error" (Read's comment); the same holds when the source ends *)
(* or fails early.                                                         *)
DataBeforeError ==
    ret.e \in {"EOF", "fail", "truncated", "excessive"} => Len(got) = decoded

(* "Later calls return the same error": only Reset and Close end it. *)
StickyError ==
    [][ret.e # NoErr /\ ret' # ret => ret' = NoReturn]_vars

(* The limit on decoded bytes holds, and a stream that declares no more    *)
(* than the limit never fails for it: the error comes from the header      *)
(* check, before any of the metablock is decoded.                          *)
LimitExact ==
    /\ limit # 0 => Len(got) <= limit
    /\ err = "limit" => phase = "limit"

(* Which error ends a stream: io.EOF only for a complete stream with no    *)
(* buffered tail and no failure of the source, a truncation only for an    *)
(* incomplete one, and a failure of the source wins over a buffered tail.  *)
HonestEnd ==
    /\ ret.e = "EOF" => phase = "done" /\ buf = <<>> /\ seen # "fail"
    /\ ret.e = "truncated" => phase # "done" /\ seen = "EOF"
    /\ ret.e = "fail" => seen = "fail"
    /\ ret.e = "excessive" => phase = "done" /\ seen # "fail"

(* Every Read returns, if the source does not answer with nothing for ever. *)
ReadReturns == pc # "idle" ~> pc = "idle"
=============================================================================
