# A TLA+ model of go-brrr

go-brrr is a pure Go implementation of the Brotli format: a streaming
compressor (`Writer`, levels 0 to 11), a streaming decompressor (`Reader`), and
one-shot `Compress` / `Decompress`.  This directory models the parts of it whose
correctness depends on the order of steps: goroutines sharing buffers, a
decoder that stops and resumes between any two bytes, ring buffers that grow and
wrap, matchers whose tables outlive what they describe, metablocks that are
rewritten after the fact, state that survives errors, resets and pooling.

`PROJECT.json` maps every definition to the lines it models, and lists the
runs, their mutants, the hazards and the theorems.

## Inventory

| part | source | state | operations | what is hard | what makes it correct |
|---|---|---|---|---|---|
| match feed | `internal/encoder/zopfli_hq.go` | `ready`, `aborted`, `parked`, `wake` | `reset`, `publish`, `abort`, `unpark`, `wait` | lost wakeups, stale tokens, an abort racing a park | a waiter is never forgotten; only published positions are read |
| collector / DP pipeline (levels 10, 11) | `zopfli_hq.go`, `zopfli.go` | match buffer, dictionary ownership, hasher, DP nodes | `collect`, `zopfliIterate`, `createHqZopfliBackwardReferences` | handoffs seen in the wrong order, a buffer reallocated under its reader, restart and redo | each position's dictionary search is done once; every way out leaves the same state |
| worker goroutines, encoder pool | `zopfli_hq.go`, `block_splitter.go`, `metablock.go`, `compressor.go`, `writer.go` | `start`/`done`, `busy`, job, pool, Writer flags | `begin`, `serve`, `wait`, `stop`; `NewWriter`, `Write`, `Flush`, `Close`, `Reset`, finalizer | deadlock on unbuffered channels, memory shared with a running job, use after release, leaked goroutines | no data race, fresh inputs, one owner per encoder, every call returns |
| streaming encoder (levels 2 to 11) | `streaming_compressor.go`, `encode_state.go`, `encoder.go` | input / processed / flushed positions, carried bits, distance caches | `streamWrite`, `streamFlush`, `streamClose`, `encodeData` | fallback to a stored metablock, merged blocks, carried bits, failing destination | the output is one gapless stream whose decoder keeps the same distance cache |
| input ring buffer | `ringbuffer.go` | ring, mirrored tail, wrapping position | `copyInputToRingBuffer` | lazy growth, wrap at 2 GiB, recycled memory | the window is where the masked position says; nothing stale is hashed |
| decoder output ring | `decode.go`, `decode_mem.go` | `pos`, `ringbufferSize`, `rbRoundtrips`, `partialPosOut` | `writeRingBuffer`, `ensureRingBuffer`, `pendingOutput`, `consumeOutput`, the copies of `processCommands` | growth in the middle of a copy, stores that overrun, suspension | every accepted distance reaches its byte; output in order, once |
| Reader | `reader.go` | pending output, source error, limit, sticky error | `Read`, `Reset`, `Close` | which of several errors wins, data before errors, limit, reuse | all data, then one honest error |
| decoder states, bit reader | `decode.go`, `decode_state.go`, `bitreader.go`, `internal/core` | `state`, substates, counters, accumulator | `decompressStream` with all it calls; save, restore, unload, normalize | each field may straddle two inputs; rollback; bits left above the count | decoding does not depend on how the input is cut |
| matchers (levels 2 to 9) | `hash*.go`, `static_dict.go`, `compound_dict.go`, `encoder.go` | buckets, chains, tags, distance caches, counters | greedy and lazy parsing loops, promotion, `copyTo`, extension of the last command | stale tables, counts that wrap, a ring that has gone on, positions stored twice | a decoder that replays the commands gets the input |
| fast compressor (levels 0, 1) | `fast_compressor.go`, `compress_fragment_*.go` | pending fragment, carried bits, open metablock, prefix code kept for the next fragment | `Write`, `Flush`, `Close`, `emitFragment`, `nextBlock`, `writeRemainder` | a length field written before the length is known, rewinding, carry across fragments | one gapless stream with honest headers |
| one-shot functions | `decode.go`, `output_chunks.go`, `writer.go` | chunk list, pools | `Compress`, `Decompress`, `chunkWriter` | chunk boundary | output complete and in order |
| tree matcher (levels 10, 11) | `hash10.go`, `static_dict_all.go` | binary tree of positions | `findAllMatches` | | any match found is verified before use |
| heuristics and data | `cluster.go`, `*_cost*.go`, `block_splitter.go`, ... | tables | search, estimates | none: any choice is a valid encoding | |

How the parts meet: `Writer` owns one encoder at a time and calls it on the
caller's goroutine; the encoder copies input into its ring, and for each block
calls a match search and, when a metablock is due, the block splitter and the
bit writer.  At levels 10 and 11 with more than one CPU the encoder also has two
worker goroutines, which share its scratch memory with the caller.  At levels 2
to 9 the match search is one of 21 matchers, chosen by level, window and size
hint and exchanged once in the middle of a stream; levels 0 and 1 have an encoder
of their own, which needs none of this and works on fragments.  `Reader`
owns a decoder, feeds it from the source and serves output both from the slice
the decoder appends to and from the decoder's ring.  Encoders, decoders and
buffers come from `sync.Pool`s and carry old contents.

## Modules

| module | models | composed with |
|---|---|---|
| `FeedContract` | abstract specification of a feed | |
| `MatchFeed` | `matchFeed`, one action per atomic operation | refines `FeedContract` |
| `HqZopfli` | one call of `createHqZopfliBackwardReferences` after another | uses `wait` as `FeedContract` grants it |
| `HqZopfliProofs` | proofs about `HqZopfli` | |
| `Workers` | both workers of an encoder, their jobs, the pool, the Writers | takes the collect job as one step: `HqZopfli` is its inside |
| `WorkersProofs` | proofs about `Workers` and about `MatchFeed`, which share no state | |
| `EncoderStream` | Writer and streaming encoder, positions, bits and caches | |
| `EncoderStreamProofs` | proofs about `EncoderStream` | |
| `FastStream` | Writer and compressor of levels 0 and 1, with a decoder of its bits | |
| `FastStreamProofs` | proofs about `FastStream` | |
| `MatchLoop` | what the matchers share: bytes of the ring, scores, both dictionaries, the parsing loop | |
| `HashQuick`, `HashBuckets`, `HashLongBuckets`, `HashChains` | the matchers of levels 2 to 4, and of 5 to 9 for ordinary streams, long ones and small windows, as instances of the loop | each extends the one before |
| `Matchers` | a stream: choice and exchange of the matcher, blocks, metablocks, a decoder | extends them all; its blocks are the ones `EncoderStream` takes |
| `MatcherLemmas`, `MatchersProofs` | lemmas and proofs about `Matchers` | the second extends the first |
| `EncoderRing` | input ring buffer | its `CopyInput` is what `EncoderStream` calls taking a block |
| `BitReader` | bit reader and prefix codes, as operators | |
| `DecoderInput` | the input side of the decoder: `decompressStream` to the last command | extends `BitReader` |
| `DecoderRing` | the output side of the decoder | takes the commands `DecoderInput` reads as free |
| `RingProofs` | proofs about `DecoderRing` and `EncoderRing`, which share no state | |
| `Reader` | Reader, source and what Reader sees of the decoder | abstracts `DecoderRing` to what is pending |
| `ReaderProofs` | proofs about `Reader` | |
| `MC...` | TLC instances | |

Each action keeps the control of the code it models; data is what the
properties tell apart.  In particular:

* **MatchFeed.** One action is one load, store, compare-and-swap or channel
  operation, in program order.  `sync/atomic` is sequentially consistent, so
  interleaving is the memory model.  The collector publishes any larger prefix
  at a time.  A spin round of `waitSlow` is `spin`, counted to its limit.
* **HqZopfli.** A position's matches are a record of the buffer generation they
  were written to and whether the dictionary was searched for them.  Where the
  long matches are is a constant set; the DP's choice to ask for or give back
  the dictionary search, and to diverge, is free.  Whether a compound dictionary
  is attached is chosen per call: it rules a handoff out.  `stored` counts, for
  each position up to `storeEnd`, how often the hasher was given it; which of the
  positions of a long range the hasher samples is left out.
* **Workers.** `work[e][k]` is worker k of encoder e: whether its channel
  exists, `busy`, where its goroutine is (`recv`, `work`, `send`), its job, and
  goroutines of earlier channels that have yet to exit.  `made` is a ghost: the
  buffers that hold products of the metablock being built.  Each activity of
  caller or worker has the sets of buffers it reads and writes.  The commands are
  two buffers, by field: the helper's job re-encodes `distPrefix` and `distExtra`
  in place (`recomputeDistancePrefixes`) while the collector's `splitCommands`
  reads `cmdPrefix` of the same slice, and `RaceFree` says that such sharing is by
  disjoint fields only.  `parallel` is
  set on every acquire and thus a property of the Writer.  The one-shot
  compressors never start workers and are left out; what collector and DP share
  while both run is in `HqZopfli` and `MatchFeed`.
* **EncoderStream.** Positions are counts of input bytes, output is a count of
  bits.  The distance cache is a version number: what matters is whether the
  decoder has the same one.  Some paths of the code cannot be reached from
  its callers and have no action: merged blocks with no new input, a length of
  zero, and trailing bits after the last metablock in `streamClose`.
* **FastStream.** `pc` is the place inside a fragment; the recursion of
  `writeCommands`, `writeRemainder` and `nextBlock` is a cycle of places.  A
  decoder (`decAt`, `decBytes`, `decOk`) reads each metablock when it is closed,
  with the header as it stands then.  `UpdateBits` gives the length a decoder
  finds after 20 bits were overwritten: the right one only if the field has 20
  bits and is where it is written.  `codeFresh` says whether the stored prefix
  code is the one in use.  Where matches end, what is merged or stored, and how
  many bits anything takes is free.  Positions are relative to the scratch
  buffer (`lag`, `behind`), so a stream may go on for ever.  The capacity of the
  scratch buffer and the prefix-code corrections of its histograms are left out.
* **MatchLoop, HashQuick, HashBuckets, HashLongBuckets, HashChains, Matchers.**
  Bytes are 0 to 3, a hash is a weighted sum of them modulo a few keys, so keys collide all the time;
  scores are the code's integers.  The loop is a set of parameterised actions
  (search, consult the dictionaries, look one byte ahead, emit, literal, finish),
  and each matcher instantiates it with its own search, store and parameters.
  Loops with and without the ring mask are told apart: an index without mask
  reads the mirrored tail or nothing.  A matcher starts with a cleared table or
  with that of an earlier stream.  The static dictionary is four words with the
  transforms that cut a word off; a prepared dictionary is what its table holds.
  `findLongestMatchSmallBuf` of the bucket matchers cannot be reached from their
  loops, and positions beyond 2^30 are left to `EncoderRing`.
* **BitReader, DecoderInput.** A stream is real bytes, and a reader has the bits of
  the accumulator, also those above `bitPos`; a load past the input yields
  `Unknown`.  Every state and substate of `decompressStream` is an action, and a
  starved one keeps exactly what the code saves.  Wide and careful paths of
  `processCommands` are alternatives chosen as the code does, by the input left.
  Lookup tables are prefix codes and not their two-level layout.  Of the four
  context modes LSB6 and MSB6 are there.  Suspensions for a full ring,
  dictionary words and transforms belong to `DecoderRing`, the size limit to
  `Reader`.  `safeReadBits32Slow` needs more than 24 bits at once, which windows
  of at most 24 bits never ask for; `stashTail` and `useStashedTail` are called
  by tests only; the error for an invalid block switch cannot occur.
* **EncoderRing.** Bytes are their index in the input.  Memory from the pool has
  any capacity and is zero or stale.  The two-byte prefix is written and never
  read, so it is left out.
* **DecoderRing.** Bytes are their index in the output.  Lengths and distances
  are free, commands that overrun the metablock included.  The caller takes any
  number of pending bytes at any suspension, more than `Reader` and `Decompress`
  do.  Metadata and empty metablocks do not touch the ring.  The sizes a ring may
  have are a parameter, of which only is used that each is at least twice the one
  before: `1 << windowBits` and its halvings are such sizes.
* **Reader.** Input is made of units (header, data byte, first half of a
  two-byte reference, end, garbage) that the source delivers in any pieces, with
  or without an error, as `io.Reader` allows.  Reads into an empty slice are left
  out.  The limit branch of `serve` and its case of nothing to serve cannot be
  reached, and dictionaries were validated by the options.

## Runs

| run | question | size |
|---|---|---|
| `match_feed` | Can the DP sleep for ever, read an unpublished position, or break the contract? Includes refinement of `FeedContract` with its liveness. | 6 bytes, 3 positions, 2 spins: two parks and stale tokens across blocks |
| `hq_zopfli` | Do collector and DP agree on who searches the dictionary, on the buffer, and on what a call leaves behind? | 8 bytes, 5 positions, batches of 2, 2 handoffs (one past the limit is tried), 1 reallocation, long match absent, inside, at the end |
| `workers` | Data races, stale inputs, ownership of encoders. | 2 Writers, one with workers, 2 encoders, symmetric |
| `workers_live` | Does every call return, does every orphaned goroutine end? | 1 Writer, 2 encoders, no symmetry |
| `encoder_stream` | Is the output one gapless stream and the decoder's cache in sync, also after stored and merged metablocks, flushes, errors? | blocks of 2, window 4, metablock at most 6, input 9 |
| `encoder_ring` | Is the window intact through growth, laps and the wrap of the position? | ring 8, tail 4, high bit 16, input 44: five laps, two wraps |
| `matchers` | Do the commands of every matcher decode to the input, are its tables, tags, caches and counts consistent? | all 21 matchers, streams of 89 and 81 bytes with and without a compound dictionary and an input of 18 bytes in one call, window 16, ring 48 with a tail of 24, blocks of 17 and 24 and empty flushes, stale tables |
| `matchers_narrow` | The same where 16-bit slots outlive a turn of the ring, and a busy matcher is exchanged early. | ring 64, tail 16, 16-bit slots of 80, blocks of 13 and 15 |
| `fast_stream` | Can what levels 0 and 1 deliver be decoded, after merges, stored metablocks, rewinds, flushes, errors, resets? | fragments of 2 and 26, first block 9, merged blocks 6, length fields that end at 4 and at 16, both levels |
| `decoder_input` | Does the decoder's result depend on how its input is cut? | 25 streams, pieces of 1, 2, 3, 7, 33 and all bytes, every truncation, slack of 32 as in the code |
| `decoder_ring` | Do distances reach their bytes, does output come in order? | window 8, ring from 4, slack 5, copies to 10, streams to 18: growth, wraps, a copy longer than the ring |
| `reader` | Are data and errors delivered in order, is the limit exact, does Read return? | metablocks of 2, buffer of 2 units, limits 0, 2, 3, 11 units |

All of them pass.  Every property has a mutant in `PROJECT.json`: an operator
defined before the one it replaces, commented `Mutant:`, that breaks it.

**Why the bounds are enough.**  Ratios, not sizes, produce the cases: a ring that
is smaller than the window, a tail smaller than the ring, a batch smaller than
the block, a metablock limit smaller than the ring, a position flag a small
multiple of the ring.  The assumptions of each module keep the order relations
of the real constants (e.g. `MaxWord + Eager <= Slack`, or `FirstBlockSize > Mlen16`).
The streams of `decoder_input` have every header form, three kinds of block
switches, context maps with runs and move-to-front, simple and complex codes
with repeats, all kinds of distances, and each way to be refused; they are cut
at every byte, and the longer ones also so that both wide and careful paths
run.  Each stream is long
enough for what happens once to happen twice (a second lap, a second park, a
second metablock), and every action fires.  The bounds that are not parameters
of the code are `MaxGrow`, `LongSets` (HqZopfli), `MaxOld` (Workers), `CompBits`,
`MaxInput`, `MaxBits` (EncoderStream), `MaxInput` (EncoderRing, Reader), `MaxP`
(Reader), `MaxInsert`, `MaxCopy`, `MaxTotal` (DecoderRing), `Offers`, `CodeBits`,
`Gaps`, `Runs` (FastStream), `Cases`, `Kinds` (Matchers), `Streams`, `Chunks`
(DecoderInput).

**Fairness.**  Go's scheduler is preemptive: a goroutine that can run runs, so
the collector, the DP, the workers and the goroutine inside a call are weakly
fair.  Nothing obliges the program to make another call.  `Reader` assumes the
source does not answer `(0, nil)` for ever (the bound on its answers says so).
`Workers` has strong fairness on the end of a call, because the input of a
call is finite while the model could otherwise take block after block, and
weak fairness on the finalizer: the collector of garbage does run.

## Proofs

Proved by TLAPS for every value of the constants.

**The feed** (first part of WorkersProofs), from `MatchFeedAssumption` (a block is at
least as long as a hash needs).  `NoLostWakeup` alone is not inductive: a DP that is about to
receive may have been missed earlier, between its re-checks.  `FeedInv` adds the
stages of parking: while the flag is up or was taken down by somebody who sends
(`ParkCovered`), and between the two re-checks a missed publish is always followed
by an unpark (`RecheckCovered`).  From it: `NoWakeupIsLost`, `DPReadsPublished`,
and `FeedRefinesContract`, every step is a step of `FeedContract` or a stutter
(its safety part).

**HqZopfliProofs**, from `HqAssumption`, for any block, any set of long matches and
any bound on handoffs and batches.  None of the three safety properties is
inductive: each looks at the DP at one place, and depends on what the collector
did long before.  `HqInv` has a part for each thing the two goroutines rely on:
where the collector is in its loop (`ColPlaces`), who may run at the same time
(`Alone`), that what is published was written and into the first buffer
(`Published`), that the DP has waited for the position it is at (`Waited`), that
the hasher was given every position up to `storeEnd` once and the dictionary is off exactly while it is
handed over (`Hasher`), and the recorded handoffs (`Recorded`).  The hard part is
`Dictionary`: the DP skips over long matches and so must look only at positions
the collector searched, although both compute their path on their own, the DP
again in every pass and after a restart.  It says that there is a set of
positions, closed under the next step of a parse (`Parse`), which holds the DP's
position and the end of a skip in progress (`OnPath`), and at each of which the
collector searched the dictionary exactly when the number of handoffs up to it is
even (`Honest`).  A DP that counts the handoffs up to the same position
(`CountUnique`) arrives at the same parity.  `FindStep` extends the set,
`DPKeeps` and `Replay` move the DP along it, `JoinedCollector` gives it to a DP
that runs alone, `ReturnStep` gives it up.  Results: `HqInvHolds`,
`DictionarySearchedOnce`, `DPReadsWritten`, `CallsEndClean`.

**The output ring** (first part of RingProofs), from `DecoderRingAssumption`, for any window, gap, slack, store
width and word length and streams of any length.  The assumption on sizes keeps
the context bytes of a larger ring clear of what is decoded; that two bytes and a
wide store fit the smallest ring (`Eager + 2 <= MinRing`, 16 and 1024 in the code)
keeps the store of a copy after one byte off the last context byte.  `RingInv` says
what every slot holds and not only what a reference may reach: this lap up to
the position (`ThisLap`), the lap before it from the gap on (`LastLap`), zeros at the
end until two bytes are decoded (`Zeros`); that what was handed out ends in this lap
(`Handed`); and in which states the position may be behind the ring (`Placed`).
After a failure only types, the bound on distances and the order of what waits
remain (`Core`).  `PutKeeps` is the one lemma about writing, for every writer:
the bytes a store leaves behind are fewer than the gap is wide.  `GrowKeeps` and
`WrapKeeps` are the two ways of `writeRingBuffer`, `BeginStep` is
`ensureRingBuffer`, and `PendingBytes` counts what the caller may still take.
Results: `RingInvHolds`, `HistoryKept`, `DistanceExact`, `OutputOrdered`.

**WorkersProofs**, from `WorkersAssumption`, for any sets of Writers and encoders.
Two layers.  `OwnerInv` is about Writers: only a live Writer is in a call, an
absent one has no encoder, `closing` implies `closed`; with `TypeOK` it makes
`OneOwner` and `NoUseAfterRelease` inductive (`Ownership`).  `JobInv` adds that an
encoder *fits* its Writer (`Fit`): the caller's place determines which jobs are
out (`JobOut`, `JobOf`) and which products exist (`MadeBy`), a job that has been
offered back has left its output, and an encoder without Writer has no open
worker.  `Fit` is carried by one lemma per kind of step (`BeginFits`, `JoinFits`,
`ActFits`, `AloneFits` inside a call, `IdleFrame` and `ReleaseFits` between
calls, `ServeFits` and `ExitFits` for the workers).  `NoDataRace`,
`InputsAreFresh` and `QuietWhenNotCalled` follow from it by looking at each place.

**EncoderStreamProofs**, from `EncoderStreamAssumption`, for any block and metablock
size and any sequence of calls.  `StreamInv` is `DistCacheInSync`,
`BitsConserved` and `Delivered` with `TypeOK` and two strengthenings.
`RoomForBlock`: the input not yet processed is at most a block, and what is
processed but not emitted leaves room for one more block in a metablock, so
`MetablockFits` holds when it is emitted.  `WriteInProgress`: while a Write has
bytes left there is neither an error nor a final metablock.  Two lemmas carry the weight:
`EmittedBits`, rounding up to bytes commutes with moving whole bytes to the
destination, and `EmitStep`, each way of emitting leaves the distance caches of
encoder and decoder equal, because a merged block is never empty and so its
distances are restored exactly when the metablock is stored uncompressed.
Results: `StreamInvHolds`, `TypesHold`, `CachesInSync`, `StreamIsGapless`,
`FlushDelivers`, `MetablocksFit`.

**FastStreamProofs**, from `FastStreamAssumption`, for any window and block sizes,
any outcome of the heuristics and any number of bits.  `FragmentsDecodable` looks
only at the ends of fragments and calls.  `FastInv` says what holds at every place
in between: the decoder is at the first bit of the open metablock (or at the
encoder's bit when none is open), its bytes are those before it, the position of
the length field is the header's, the length read is the total so far, and if
input remains behind the block the field has 20 bits.  That last part needs the
assumption: a first block that does not reach the end of its fragment is longer
than what 16 bits can say, and neither it nor the merged whole exceeds 20 bits.
Between fragments the carry is what the decoder lacks, the buffer is what it has
not seen, and each call has left its promise.  `InsideStep`, `OpenStep`,
`StoreStep`, `BeginStep` and `QuietStep` carry the parts that most steps leave
alone.  Results: `FastInvHolds` and `Decodable`.

**ReaderProofs**, from `ReaderAssumption`, for any reads, any source and any limit.
`ReaderInv` says that what was handed out, what `Reader.out` holds and what the
ring holds are consecutive runs of the decoded bytes (`Aligned`), and that
together they are all of them unless an error discarded the rest (`Counted`).
`Declared` bounds the declared sizes by the limit: so the limit in `serve` never
bites (`LimitNeverBites`), and its error comes from the header alone.  `Places`,
`Ended` and `Reported` say what holds at each place of a call and relate the error
recorded to the one returned.  `RunSplit` and `RunConcat` are the facts about runs
that `ServeStep`, `ReturnStep`, `FillStep` and `YieldStep` rest on.  Results:
`BytesInOrder`, `AllServedBeforeError`, `LimitIsExact`, `EndIsHonest`, `ErrorsStick`.

**The input ring** (second part of RingProofs), from `EncoderRingAssumption`, for any size
of ring, tail and wrap of the position.  `InputRingInv` adds to `WindowIntact` and `QuietAfterInput` how the
32-bit position and its first-lap flag relate to the length of the input
(`Masked`), and that an allocation smaller than the ring holds only a short first
write (`SmallFirst`).  `AdvanceMasked` keeps the former past the wrap;
`StoredWindow`, `GrownWindow` and `QuietedWindow` say what one store, one growth and
the zeroing leave of the window.  The prover knows little of `%`: `Remainder`,
`RemainderUnique`, `ModAdd` and `ModShift` prove masking from division.  Results:
`WindowHolds`, `QuietHolds`.

**MatcherLemmas and MatchersProofs**, from the assumptions of `MatchLoop`, of the four
modules of matchers and of `Matchers` (a window of at least 16, words of the dictionary
of at least 4 bytes, 16-bit slots that hold a ring where `h5b6u16` is used), for any
input, any prepared dictionary and any sizes.  All 21 matchers are one argument: a
lemma per matcher (`H2Shape` to `H42Shape`) shows that its next-state relation is the
common loop (`MatcherStep`) with the constants, the stores and the search of its
family.

`LocalCacheInSync` says that a matcher that expands its distance cache on its own
(4, 10 or 16 entries, as its parameters say) has the entries the stream's cache
would expand to, wherever it is in its loop.  `CacheInv` adds that the stream's
cache always is four integers and that the loop's copy starts with them.
`ExpandElements`, `ExpandFour` and `PushInStep` say that expanding after a push is
what the loop does when it emits a command.  Result: `CacheStaysInSync`.

`CandidatesDescend` looks at the keys of what is left of a block, and at two places.
`OrderInv` says it of the whole table and everywhere.  `Tidy`: for each key a bucket's
positions are below `Limit` and fall, and a chain begins below it; its links are
at least 1 (`Linked`).  `Limit` is the position the loop is about to store; between
blocks it is three bytes before the input processed, because these are stored
only when the next block can hash them.  `LiveKeys` are the keys this
holds for: after a partial reset, which clears only the keys of a first and last
block, the others may hold positions of an earlier stream.  `Placed` keeps the
loop inside the block and matches inside what is left of it, without which a
range stored after a match would reach into the next block and be stored
twice.  `Ready` says when the table may be relied on, and that 16-bit slots are used
only while a position fits them.  The weight is in the lemmas about stores:
`PushFalls` and `PushFallsDown` for buckets whose counts run up or down and wrap,
`ChainStoreNeat` for chains whose slots are taken from others, `RunsNeat` for ranges,
strides and stitches (a recursion over a sequence of positions, its function shown to
exist by `RunsExists`), `SearchedNeat` for the store inside a search, `ClearedNeat`,
`CopyNeat` for h5 becoming h6, and `NeatGrows`.  What a search returns is needed too:
`SearchedFinds` and `LookupPlausible` bound the length of a match, in both dictionaries as well.
Results: `OrderStays`, `CandidatesStayInOrder`.

**Only model-checked.**  Liveness (`CallReturns`, `NoLeak`, `ReadReturns`,
`WriteReturns`, the fairness of `FeedContract`) is beyond TLAPS's ENABLED support.
`DecodesAnyChunking` and `AccumulatorHonest` of `DecoderInput` rest on facts about
prefix codes (that the lengths the decoder accepts make a complete code, so that
every bit string has exactly one reading), a sum over a recursion whose depth is
data.  Of `Matchers`, `TagsHonest`, `LiteralsCounted` and `CommandsReproduceInput`, which
are about the bytes under a position and the commands a decoder replays, are
checked on the instances only.  Their runs, and that of
`FastStream`, check safety; they have no liveness property, for a call of each is
a loop over a finite block or a finite input.

## Not modelled

* One-shot `Compress` and `Decompress`: sequential wrappers.  `decodeAll` gives the
  decoder all input at once, the largest piece of `decoder_input`; `chunkWriter`
  appends to a list of buffers nobody else has.
* What the tree matcher of levels 10 and 11, cost models, block splitting,
  clustering and context modelling choose: any choice is a valid encoding, so the
  models leave it free.  `lookupAllMatches` of compound dictionaries belongs here.
* The bits of a compressed metablock on the encoder's side: counted in
  `EncoderStream` and `FastStream`, not modelled.  Their prefix codes come from
  histograms by heuristics with floating-point costs.
* The two-level layout of the decoder's tables and of the prepared dictionary.
* Word-sized memory access and assembly kernels, except the over-long stores of
  the decoder (`DecoderRing`) and its over-long loads (`BitReader`).
* Generators, C reference bindings, benchmarks.

## Plan

The order in which the modules were written, which is also that of their
weight: feed and its contract; pipeline; decoder ring; Reader; streaming
encoder; input ring; workers, with the proofs of feed and workers; the matchers
of levels 2 to 9; the decoder's input side; levels 0 and 1 with their proofs; the
proofs of the streaming encoder, of Reader and of the input ring; those of the
pipeline and of the decoder ring; those of the matchers.

Worth adding, most important first: proofs of the commands of `Matchers`
(`CommandsReproduceInput`), its tags and its counts (`TagsHonest`, `LiteralsCounted`),
with `MatcherStep` as the frame and `OrderInv` as the start; the remaining context modes of `DecoderInput`; `chunkWriter`
with its pools.
