# DEQR: a verification development

DEQR sends a file from a desktop to a phone with nothing between them but a
screen and a camera. The desktop (Electron, `src/src/main`, `src/src/renderer`)
shows the file as a stream of QR codes; the phone (a web app,
`src/mobile-web`) scans them, decodes a fountain code (`src/src/core`), writes
the file to its private file system, verifies it and hands it to the user.
There is no way back from the phone to the desktop, except a code of forty to
sixty-four characters that a person may read aloud to resume a transfer. The
desktop also serves the web app to the phone, and an older protocol (v1) is
still there beside the new one.

This directory models that program in TLA+, checks the models with TLC, and
proves, with TLAPS, the safety properties of eight of them, and that the decoder
implements its abstract specification, for every value of their constants. Paths
start at `src/`, the root of the repository; a bare file name is one of the
table below.

- [The system](#the-system)
- [The modules](#the-modules)
- [What each run shows](#what-each-run-shows)
- [Abstractions, bounds and fairness](#abstractions-bounds-and-fairness)
- [What is proved](#what-is-proved)
- [Where code and words part](#where-code-and-words-part)
- [What is not modelled](#what-is-not-modelled)
- [Plan](#plan)
- [Running it](#running-it)

## The system

The parts of a transfer, the state each keeps and what it does:

| Part | Code | State | Operations |
|---|---|---|---|
| Frame generator | `src/src/main/streaming-sender.ts` | segment and symbol cursor, phase (pass, recovery), recovery targets and batch, next fresh repair id of each segment, frame count | `take`/`produce`, `beginRecovery`, `dispose`, `open` with a resume code |
| Session registry | `src/src/main/streaming-session-registry.ts`, `ipc-handlers.ts` | session id to generator and abort controller | `select`, `nextFrame`, `progress`, `beginRecovery`, `cancel`, `disposeAll` |
| Sender screen | `src/src/renderer/App.tsx`, `sender-state.ts`, `sender-model.ts` | machine state and epoch, the session held, samples of two meters | taps, effects per state, polls |
| View and scheduler | `src/src/renderer/qr-frame-scheduler.ts`, `components/StreamTransferView.tsx`, `TwoCodeTransferView.tsx`, `FourCodeTransferView.tsx` | one scheduler for each code: its queue, its flags, its wake-up; whether recovery was begun | prefetch, paint, hold, the recovery tail |
| Protocol v2 | `src/src/core/protocol-v2.ts`, `transport-profiles.ts`, `adaptive-profiles.ts`, `filename-sanitizer.ts` | none: plans of segments, symbols and windows; frames; profiles | plan, write, read, choose |
| Resume code | `src/src/core/resume-token.ts`, `components/ResumeTokenEntry.tsx` | none: ids, digest, restart point, missing ranges | encode from a bitmap, type, decode into targets |
| Receiver screen | `src/mobile-web/src/App.tsx`, `receiver-state.ts`, `receiver-view-model.ts`, `camera.ts` | machine state, camera, verified file, exports under way | taps, page visibility, effects per state, capture |
| Receiver client | `receiver-client.ts`, `worker-protocol.ts` | epoch, frames in flight, the worker | `open`, `submit`, `verify`, `close`, `onMessage` |
| Receive worker | `receive-worker-core.ts`, `receive-worker.ts` | the current epoch and its pipeline | one handler a message |
| Receive pipeline | `receive-pipeline.ts`, `frame-dedupe.ts` | fingerprints of frames answered, the provisioning flag, the session, its fault | `submit`, `onProvisioned`, `verify`, `resumeToken`, `reset` |
| Segmented receiver | `src/src/core/segmented-receiver.ts` | decoders by recency, committed bitmap and count | `accept`, `adopt`, evict, commit |
| Segment decoder | `src/src/core/segment-decoder.ts` | solved blocks, pending equations, index, counters | `accept`, `ripple`, `detach`, `release` |
| Segment store | `opfs-segment-store.ts`, `opfs.ts`, `opfs-original-sink.ts` | data file, checkpoint, committed bits, handles | `open`, `write`, checkpoint, `seal`, `dispose`, sweep |
| Memory store | `segment-store.ts`, `receiver-storage.ts` | the segments in memory, a budget | choose a store, `write`, `seal`, hand over |
| Window container | `window-compressor.ts`, `inflate-verify.ts` | the record under the cursor | compress and seek; inflate and hash |
| Telemetry | `metrics.ts`, `src/src/core/diagnostics.ts` | windows of rates and latencies, counters, a timeline | record, summarise, validate |

And what is around a transfer:

| Part | Code | State | Operations |
|---|---|---|---|
| Receiver host | `src/src/main/pwa-host-lifecycle.ts`, `pwa-host.ts`, `pwa-certificate.ts`, `components/PwaHostCard.tsx` | one promise in flight, the server, its status, the certificate's two files | `start`, `stop`, the card's buttons, requests |
| Receiver shell | `src/mobile-web/public/sw.js`, `boot.js`, `main.tsx` | caches of each build, the recovery flag, the page | install, activate, fetch, precache, watchdog |
| Host probe | `host-status.ts` | a generation, a timer | check, refresh, publish |
| Protocol v1 sender | `src/src/main/session-manager.ts`, `ipc-handlers.ts`, `components/LoopbackView.tsx` | session table, intervals | start, pause, resume, cancel, loopback |
| Protocol v1 receivers | `src/mobile-web/src/protocol.ts`, `components/CameraReceiver.tsx`, `src/src/core/fountain-decoder.ts` | a decoder and a session, the camera | take a frame, verify, save |

How they touch: the sender's renderer pulls frames from its main process over
IPC and paints them; the phone's screen posts images to its worker, with at most
`maxInFlight` unanswered; the worker decodes an image, drops it if its
fingerprint is known, and gives a symbol to the decoder of its segment; a
segment that completes is written, flushed and recorded in a checkpoint; when
all are, the screen asks for verification, the worker hashes (and decompresses)
what is stored and hands the file over, and the screen offers it for saving.

What is hard:

- *Algebra under any order.* Symbols arrive reordered, lost and repeated, and
  the decoder keeps its equations, their index and a counter of references by
  hand through a ripple that frees and changes them.
- *Crashes.* The tab may be killed between any two of: write, flush, bit,
  checkpoint, removal. What the checkpoint claims is believed when the next
  session opens. A desktop that dies between two writes leaves half a
  certificate.
- *Awaits.* `open`, `seal`, `dispose`, `verify`, `share`, `discard`, `select`,
  `start` and `getUserMedia` all await while what they serve may end.
- *Two sessions.* Messages of a closed session arrive in the next one; epochs
  tell them apart, where they are compared. Protocol v1 numbers its sessions
  from one again with each launch.
- *Caches with different lifetimes.* Fingerprints outlive the decoder that took
  the symbol; a resume code outlives the bitmap it was minted from; the caches
  of a phone outlive the build of the desktop that filled them.
- *One session, several askers.* What `take()` does is interrupted where it
  awaits the disk: by a cancel, by another recovery, by the scheduler of another
  code.
- *Two programs, one format.* Both sides derive lengths, offsets, windows and
  names apart, and have to agree at every short end.
- *No back channel.* Recovery must finish a segment whatever the receiver still
  holds of it, and must not skip one it needs.

`PROJECT.json` lists such places with their lines under `hazards`, and the
properties that cover them, or why none does.

What makes each part correct: the decoder holds only right blocks and all that
peeling can give; the store's checkpoint claims only what the device has; a
screen that says a thing (scanning, complete, ended, published, online) is
backed by a camera, a file, a released session, a server, a host; a transfer that
is called complete is stored; a code skips nothing; a batch seen whole finishes
its segment; a frame is read as it was written or refused; a session that is
gone holds no descriptor, no timer and no camera.

## The modules

Ten runs that hold and two that TLC refutes, over the modules below. A pure module has no
variables; its checks are conjuncts of a property of the module that extends it.

| Group | Modules | What extends what |
|---|---|---|
| Recovery of a segment | `Peeling`, `SegmentRecovery`, `SegmentDecoder` | the decoder implements `SegmentRecovery` |
| The phone | `OpfsSegmentStore`; `WorkerWire` < `ReceiverTelemetry` < `ReceiverSession` < `ReceiverScreen` | device below the pipeline; screen, client and worker above it |
| The transfer | `OpticalTransfer` | sender, display, pipeline and segmented receiver; uses what `SegmentRecovery` promises |
| The desktop | `WindowContainer`, `SenderFigures` < `SenderStream`; `SenderSession` | below the display; around a stream |
| What both sides derive | `Filenames` < `FramesV2` < `TransportProfiles`, `Checkpoint` < `ReceiverAdmission`; `ResumeCode`; `SegmentedProgress`; all < `Exchange` | a desktop and a phone with real sizes |
| How the phone gets its receiver | `ReceiverHost`; `ReceiverShell` < `HostMonitor` | the desktop's server; the web app it serves |
| Protocol v1 | `FountainV1` < `LegacySender`, `LegacyReceiver`, `DesktopReceiver`; `ContainerV1`; all < `LegacyTransfer` | the desktop and who watches it |

A module `MProofs` extends `M` with its theorems: there is one for
`SegmentDecoder`, `OpfsSegmentStore`, `ReceiverSession` (through `ReceiverScreen`),
`OpticalTransfer`, `SenderStream`, `SenderSession`, `ReceiverHost` and `HostMonitor` (with
`ReceiverShell`). A proof does not follow a recursive operator, so the helpers of
these modules recur as functions (`PushesAmong` of `ReceiverHost`, `RecordStart` of
`WindowContainer`) or are a least fixed point (`Solvable` of `Peeling`), and a choice
among several guards is an `IF` chain wherever two of them can hold: TLA+ leaves open
which arm of a `CASE` is then taken, and TLC takes the first.

The modules meet at the pipeline and at the display: `OpticalTransfer` sees the
store as a `commit` that may be refused and a checkpoint that keeps some of it,
and the decoder as the promise it implements; `ReceiverSession` sees the pipeline
as `pipe`; `SenderStream` sees frames as right or wrong and `OpticalTransfer`
the order they come in; `SenderSession` sees a stream as two events, and
`Exchange` the symbol that completes a segment as its commit.

### Peeling, SegmentRecovery, SegmentDecoder

`Peeling.tla` has no state: `K`, the repair ids, their neighbour sets, and
`Solvable(taken)`, the blocks that peeling recovers from a set of symbols.
Bytes are replaced by what they are the XOR of, so XOR is symmetric difference
and a wrong elimination shows as a slot that holds something other than its
block.

`SegmentRecovery.tla` is the abstract specification. One `accept()` is one step;
the answer (`source-placed`, `repair-pending`, `duplicate`, ...) and the blocks
recovered are functions of the set of symbols taken. The neighbour sets are a
constant: any degree distribution is an instance.

`SegmentDecoder.tla` is `segment-decoder.ts`. One action per outcome of
`accept()`, with the guards in the order of the code's early returns; the ripple
is a stack of solved blocks, `RippleTake` pops one and `VisitReduced`,
`VisitSpent`, `VisitSolving` treat one equation that names it. `solved`,
`store`, `pending`, `equation`, `dependents`, `refs` and `seen` are the fields
`solvedBits`, `segment`, `pending`, the equation's `neighbors` and `payload`,
`dependents`, `pendingNeighborRefs` and `seenRepairIds`. The order in which a
ripple visits equations is left open, which the code fixes by insertion order.

### OpfsSegmentStore

`open()` to `dispose()` of the store, checkpoint writes, `verify()` of the
pipeline, and crashes. A step is what runs between two awaits. `file` is
`data.part` as the process sees it and `stable` what the device would keep;
`Write` flushes before it sets the bit, as the code does. A checkpoint write
passes `begun` (scheduled), `open` (a writable exists, and an empty
`checkpoint.json` may) and then lands or fails. `Crash` lets each unflushed cell
go either way and lets a directory removal stop after either file. A session
that ends during `open()` is `stale`, and its store is released when it arrives.

Several stores share one directory: the *plans* of the model are manifests sent
under the same ids, so a checkpoint of one may be found by the other.

### ReceiverSession, WorkerWire, ReceiverTelemetry, ReceiverScreen

`ReceiverSession.tla` is the screen's machine, the client and the worker.
`Listed` is the transition table of `receiver-state.ts`; `Reduce` drops an event
that is not listed. `state` is what the machine has reduced, `shown` what React
has committed: effects (`Commit...`) run for `shown`, and events may come in
between. A tap is committed before anything else happens (`urgent`), which is
what React does with discrete events; others may pile up. Messages travel in two
first-in first-out queues; a worker that is lost takes both with it. The pipeline
is reduced to what a frame can make of it: nothing yet, active, complete, faulted.

`WorkerWire.tla` has what those messages are made of and the two guards that drop
one in silence, and the square of the video that is captured (with the worker's
pixel limit); `NothingIsRefused` says that neither guard ever drops one that was
made here. `ReceiverTelemetry.tla` is `metrics.ts`, the tally of refusals and the
diagnostics report; its figures are functions of a history of happenings and are
compared with the plain definition over that history. `ReceiverScreen.tla` is
`receiver-view-model.ts` and what `App.tsx` renders: which controls a state
offers, what each fault is said to be, and what the summaries claim; sentences are
reduced to their claims, and `ScreenIsTrue` compares them with the state.

### OpticalTransfer

The sender's `produce()` as `ShowManifest`, `ShowPassSymbol`,
`ShowRecoverySymbol`; `beginRecovery`; `dispose`; and `open` with a code. The
display holds one frame. The camera may catch it any number of times or never,
so loss, repetition and every cadence of capture are the same nondeterminism. The
receiver's `submit()` is `Suppress` (known fingerprint), `CatchManifest`,
`CatchPending` (no session to give the frame to), `CatchCommitted` and
`CatchSymbol`; storage answers with `Provisioned` or `ProvisionFails`. `committed`
and `committedCount` are the receiver's; `stored` is what the store took.
`ReceiverEnds` leaves any subset of `stored`: cancelled, nothing; interrupted or
killed, what the last checkpoint names. That a checkpoint names only what the
device has is `ResumeIsTrue` of `OpfsSegmentStore`.

The fingerprint set is a bounded sequence. The code keeps a ring buffer and a set
instead; they are a section of the module, which shows that they forget what the
sequence forgets (`ForgetsTheOldest`).

### WindowContainer, SenderFigures, SenderStream

`WindowContainer.tla` has no state: the records of a container, their offsets,
and what the cursor of `window-compressor.ts` becomes when it is asked for an
offset. A byte of the stream is its own offset, so a buffer filled from the wrong
record is seen to be wrong.

`SenderStream.tla` is one transfer on the desktop, from the moment frames are
shown. In the main process: `HandleTake`, `HandleRecovery` and `HandleCancel`
take requests from one queue; `Produce` are the steps of `take()` between two
awaits, for as long as which nothing else runs there (`Quiet`); `Read` are the
awaits of the disk. `call[l]` is the `nextFrame()` of scheduler `l`, with the
local variables of `take()`. `ReadLands` is the disk writing into the buffer it
was given, before the await returns. In the renderer: `lane[l]` is a
`QrFrameScheduler`, `StartLane`, `Tick`, `PaintEnds` and the `Receive...` actions
its steps and those of the frame source; `state` is what the machine has reduced
and `shown` what React has committed, as in `ReceiverSession`. The states that
clear the session (`IDLE`, `PREFLIGHTING`, `CANCELLED`, `FAILED`, `RESUME_ENTRY`)
are one, `OVER`, because nothing here tells them apart.

`Lanes = 1` is `StreamTransferView`, which profiles without an entry of
`ADAPTIVE_PROFILES` with several codes get (Reliable); two and four are the other
views, whose source knows neither recovery nor errors. `OpticalTransfer` models
the view of one code.

`SenderFigures.tla` is `sender-model.ts`: the two meters, what they keep of their
samples, when they withhold a figure, and how the view polls and resets them. A
transfer is the history of its polls; a figure shown is compared with what the
history says.

### SenderSession

The screen before and after a stream, with the whole table of `sender-state.ts`,
and the registry behind it. `streamTransfer.select()` is one call that passes
`dialog`, `preflight` (a file is open and read whole) and then `ready`, where it
registers: only then can a `cancel()` or a `disposeAll()` reach it. Its answer is
delivered (`Deliver`) to whatever the screen has become. `WindowGone`, `Activate`
and `Quit` are the window that closes, crashes, is opened again, and the process
that ends.

### Exchange and the modules under it

What a desktop and a phone agree on, with the sizes of the program. `FramesV2` is
`protocol-v2.ts`: the plan of segments, symbols and windows, and every refusal of writing
and reading a frame, in the code's order. A frame is its fields, its length and what its
checksum was computed over, so a frame can be cut, lengthened or altered.
`TransportProfiles` is the table of profiles, its validation, and whether a view can draw
a frame. `ResumeCode` is `resume-token.ts` and the screen that takes a code: gaps, their
packing into bytes, what may be mistyped. `Checkpoint` is what is kept of a session on a
device, as text and as bits: what is malformed in it, and what a sweep keeps.
`ReceiverAdmission` is the choice of a store and the room it asks for, the memory store
with both sinks, whether a manifest is accepted, and the SHA-256 over chunks, up to the
compression function. `SegmentedProgress` is the bitmap of `segmented-receiver.ts`, its
counter, and which decoder a frame goes to. `Filenames` is the sanitizer of both sides.

`Exchange.tla` composes them: `Open` (with a profile, whether to compress, and the
file's plan), `OpenWithCode`, `CatchManifest`, `CatchSymbol`, `CatchOther` (frames
damaged or of another transfer), `Interrupt`, `Finish`, `DiscardRetained`, `ReadCode`.
A file may not be a regular one, or change while it is read: `open()` then fails.

### ReceiverHost

`start()` answers at once and works on; `stop()` answers when it is done, and
chains behind a start. `inFlight` is the one promise of the lifecycle, `sockets`
the servers that listen, `host` the handle to close them by; `files` the two files
of the certificate. One action is what one macrotask does, its microtasks
included. The card (`card`, `toMain`, `toCard`) subscribes, asks, presses and is
unmounted. `Killed` may come between the two files.

### ReceiverShell, HostMonitor

`ReceiverShell` is the service worker, the watchdog of
`boot.js` and `main.tsx`, with one cache for each build (the code names them by a number
that is raised by hand, `sw.js:21`; builds released under one number would share theirs,
which is not modelled), and what the server answers to a path (`HandleRequest`); a page asks for its
document, its boot script, its module and later its worker chunk, each from cache
or host as `sw.js` decides, while the host goes, comes back, and is upgraded.
`HostMonitor` adds the badge: probes in flight, of which one is current, and a timer.

### Protocol v1

`LegacySender` has the session table, and `timers` as a set of its own, because
an interval belongs to no window and ends only when it is cleared. `LegacyReceiver`
is the phone's pipeline as v1 sees it, with the digest it awaits; `DesktopReceiver`
the camera screen of another desktop and the save in its main process.
`FountainV1` is the decoder of both, and says of each half block whether it holds the
file's digest and bytes, the container's label (name, type, time: `Label`) or padding:
what a receiver hashes is the file, not its label. `LegacyTransfer` composes them: a display,
and a phone, a desktop or the loopback that watches it. `ContainerV1` is the
container and the frames field by field, written by the desktop and read by both.

## What each run shows

`(mutant)` in a comment marks an operator that is not part of the model: it is
a plausible bug in the code a definition stands for, and substituting it makes
TLC find the property violated. There is at least one for every property below.

| Run | Expect | Question |
|---|---|---|
| `decoder_invariants` | pass | Is the decoder right for every order, loss and repeat, with its caps in reach, and does it implement `SegmentRecovery`? |
| `store_durability` | pass | Does a checkpoint ever claim what the device does not hold; is anything held or left after a session; does a resume point go back; do `dispose()` and `verify()` end? |
| `receiver_session` | pass | Is every screen backed by what it says, across visibility, stalls, dead workers and late messages? |
| `transfer` | pass | Is a complete transfer stored, does a code skip nothing, does a batch caught whole finish its segment? |
| `sender_stream` | pass | Is what the desktop shows right, still when held, going on when not, and disposed of in the end? |
| `sender_session` | pass | Is the session a screen holds there, does every open file have an owner, is every wait answered? |
| `exchange` | pass | Do both sides read one format, and does what is kept, or coded, bring back exactly what was missing? |
| `receiver_host` | pass | Is what the desktop advertises served, and does a press of either button take effect? |
| `receiver_shell` | pass | Does the web app come up where it can, and say so where it cannot? |
| `legacy_transfer` | pass | Is what v1 reports as received one file that was sent, and does everything it started end? |
| `sender_lanes` | violation | Does the desktop go on showing where the screen has several codes? |
| `resume_code` | violation | Can the code a phone shows be entered? |

**`decoder_invariants`**. `EquationsSound`: slots and equations hold what they
should, in the middle of a ripple too, the hand-kept index agrees with the
equations, and a ripple leaves nothing behind. `CapsCostNothingElse`: the counter
that gates repair symbols is exact, every block that peels is recovered, and an id
the capped set has forgotten carries nothing when it comes again. `KeepsPromise`:
the refinement of `SegmentRecovery`, with `recovered` mapped to what the ripple
under way will give. `RippleEnds`.

**`store_durability`**. Two plans of equal length under the same ids, one
compressed; two stores one after the other, one crash, every fault.
`ResumeIsTrue`: what a checkpoint or an open store claims is on the device.
`NothingHeldAfterwards`: no lock outlives its session. `EndsAsTold`: a file handed
to the export route survives whatever ends the session; a discarded transfer that
was sent as it is leaves nothing. `ResumePointStays`: a resume point never goes back, a
coalesced checkpoint has caught up when it lands, and an interruption is not
turned into a discard. `EveryCallEnds`: `dispose()` ends, `verify()` answers, and every
session that was abandoned or released comes to its end, so the cleanup that
`receive-worker-core.ts:180` waits for does.

**`receiver_session`**. `SessionSound`: no frame slot leaks, every scanning state
has a live camera, a hidden page has none, and an ended session holds no file.
`FileIsKept`: no step parts a complete screen from the file of its session, except
an export that settles where it is not the one shown (`StrayExport`). `ScreenSound`: what
the screen says and offers is so, no message is dropped by the guard it is read through,
and rates, quantiles, counters, faults and summaries are what they say. `SessionsEnd`:
verification ends and an ended session is released. Two exports may be pending, over
resets and over the end of the session they were started in. That the exception is real
(`CompleteHoldsFile` is violated) is among the divergences.

**`transfer`**. `CompletionIsReal`: the counter that `isComplete` compares is
exact, and complete means stored (with a store that may refuse any write and sessions
that adopt). `ResumeSkipsNothing`:
while the receiver still has what it had when the code was minted, pass and recovery
cover all that is missing. `RecoveryWorks`: a batch caught to the last frame leaves
its segment committed, whatever its decoder held, had refused or had lost, unless
the fingerprint set suppressed a symbol the evicted decoder took with it; the ring of
fingerprints forgets what it should and nothing else; and no repair id is shown twice
by one sender session.

**`sender_stream`**. `ShownIsRight`: every frame painted or ready carries the bytes
its header names, through backward and forward seeks of the container, reads
that fail and are tried again by a recovery, and a `dispose()` under a `take()`
(which may then fill a buffer that was wiped: its frame is dropped by a schedule
that has stopped); and figures beside it are right or withheld. `KeepsShowing`: a
screen in `TRANSFERRING` paints again and again or says something else.
`ControlsAreObeyed`: no paint begins on a held screen, and every end reaches the
session in the main process. `TypeOK` has the bounds of both queues.

**`sender_session`**. Two selections, each with or without a code.
`SessionsAccountedFor`: the session a screen holds is registered; every open file
belongs to a session or to a preflight that reads it; and with one selection at a
time nothing is left behind.
`WaitingEnds`: the screen leaves `PREFLIGHTING` and `PREPARING`.

**`exchange`**. `ReadsWhatWasWritten`: a frame is read as it was written, a damaged
one not at all, the receiver of its session takes it and no other does, and the
segments, symbols and windows that both sides derive lie end to end.
`SegmentsAreOfTheFile`: no segment the phone holds is of another file or another
cutting, whatever it kept; the memory store hands over what it was given; and a
streamed hash is of the padded whole. `ResumeIsExact`: a code names what was
missing, a checkpoint is read as it was written and matched to its own transfer,
a sweep has an end, the bitmap and its counter agree.

**`receiver_host`**. `HostIsAsShown`: no server that nobody can close, no address
advertised without one, a certificate that covers it with its own key, and a card
that has heard everything shows it. `PressesTakeEffect`: when `stop()` answers
nothing listens and nothing is about to, and a pending label ends.

**`receiver_shell`**. `ReloadsOnce`: recovery does not loop. `ShellServes`: a page
whose host stays mounts; a failure is shown; a mounted shell becomes able to open
without a host, through an upgrade of its worker; the host's answers can be told
apart; one round of polling at a time; and the badge follows the host.

**`legacy_transfer`**. `VerdictsAreTrue`: whoever reports a file has the bytes of one
file that was sent, not a mixture of two launches that reuse a session id, nor misread
ones; the phone's are of frames this reception caught; and its name is that of the file
unless a frame was misread (the label of a container is under no digest, see the
divergences). `NothingOutlives`: no interval without its session, no camera without its
screen, and the intervals of a lost window end.

## Abstractions, bounds and fairness

**Decoder.** `K = 4` with repair symbols of degree 2, 2, 2, 3, 4 and one that
is empty. Four blocks are enough for ripples of length three, for two equations
that meet in the same last unknown, and for an equation that shrinks twice; the
caps (3 equations, 6 references, 2 remembered ids) are all reached. Weak fairness
of `Ripple`: it is a synchronous loop.

**Store.** Two segments, so that a checkpoint can have one and not the other; two stores,
so that one can adopt, mistrust or clear what another left; one crash, which may fall
anywhere, a second session opening over what it left. In the run a session settles before
the next opens (`Overlap = FALSE`): the code does not enforce that, its comment says that
it holds in practice (`receive-worker-core.ts:173`); the divergences say what happens
otherwise. `open()` resumes (`ResumeFlags = {TRUE}`, the only value that `App.tsx:261`
asks for). Weak fairness of `open()`'s steps, the checkpoint writer, `verify()` and
`dispose()`: promises settle. A session is not obliged to end, nor bytes to arrive.

**Receiver.** `MaxInFlight` 1, with epochs up to 3 for a session, its close and one more;
two exports under way at once (`MaxExports`), each of which may settle in any state, since
nothing keeps the page behind a sheet (a download has none). Telemetry: every history of a
few happenings, with short windows. Weak fairness of React's commits, of the client's and
the worker's event loops. Users, page visibility and camera owe nothing.

**Transfer.** Three equal segments of two source symbols, one repair symbol in
the pass and one in each batch (ids 2 and 3); a manifest every five frames, one
range in a code, two fingerprints, one decoder, one pending equation; two
sender and two receiver sessions: about five million states. Three segments are
needed for a gap that a restart point cannot describe and for two gaps that do
not fit in the code; one decoder makes every second segment evict.
The repair ids run out in the model and not in the program, so the run stops
there (`CHECK_DEADLOCK FALSE`). The ready queue of the generator and the
scheduler's prefetch are first-in first-out, so frames reach the display in the
order `produce()` makes them, and the queues are left out; so is
`beginRecovery(targets)`, which the view never calls with targets. The last segment
of a file may be shorter, which changes only its `K`. The fingerprint ring is checked
over every history of five frames and resets, for rings of one to three.

**Sender stream.** Three segments of two source symbols and one repair symbol, in records
of one, three and two bytes: a record inside a segment, one that covers a whole
segment and more, and ends that meet, so that a read takes one record or two and
recovery's return to the first segment seeks back. A manifest every four frames,
queues of three and three (32 and 3 in the program; the pass is longer than the
queue either way), two failed reads, holds and releases without bound. Compressed and
not. Two codes in the violation run, with a prefetch of one. Read-ahead
(`readAheadSegments`) is 0 in the program's configuration and left out; a
recovery has every segment for target, which is what it has unless the transfer
was opened with a code. Requests are handled in the order they were sent. Weak
fairness of React's commits, of the main process, of each scheduler's timers and of
the disk; people owe nothing. The meters are checked over every history of a few polls
with small windows, and over one long history with the program's.

**Sender session.** Two selections, so that one can overtake the other. Weak
fairness of the dialog (a picker is answered or dismissed), of preflight, of the
main process and of the delivery of answers. No stream has to end.

**Exchange.** Five files at their real sizes: a note, a log that compresses, a
program whose extension is refused, and two photographs of one size whose sample
promises more than the whole keeps (four segments under Reliable, two under
Balanced), so that a code, a checkpoint and a manifest can be taken for the
other's. Two phones, with and without origin private files. One session with ids of the
sender's own and those opened with a code; one kept session besides; two ranges in a
code and four bytes of packed gaps, so that gaps fit, overflow and fall back. A
base of two for the varints makes short numbers take several bytes. `MaxU32`,
`MaxSize` and `MaxSafe` are lowered to what TLC's integers hold; `MaxSegments` to 20.
The two photographs are interchangeable (`SYMMETRY`). The purely functional parts
(checkpoint, storage, hash, bitmap) are checked over the small inputs named in their
modules by `\* bound:`.

**Host.** Two addresses, so that a certificate covers one and not the other; requests
and messages in queues of two; launches without bound. Weak fairness of the main
process, of signing, binding, closing and of the card's messages. Deadlock is
checked.

**Shell.** Two builds. Weak fairness of what a browser does without being asked: fetches end,
scripts run, the watchdog fires. For the badge `HostMonitor` also takes that a host
that can be reached for good is not too slow for ever, and that nobody looks away and
back before every answer of either kind (strong fairness of an answer to the
probe that is current): a person who did that would never be told anything. Deadlock
is checked.

**Protocol v1.** Containers of two blocks and one repair symbol; two files of the same
shape, so that only bytes tell them apart; half of the first block is the label, half of the
second padding. Every block holds something of the file besides its label
(`FountainAssumption`): a name of some 480 bytes, which would fill the first block, is
outside the model. one session of a launch shown to the phone two at most,
two launches, two windows, one misread or new reception in all. Weak fairness of an
interval only: a timer calls until it is cleared.

`transfer` has no fairness: its properties are of safety. `CHECK_DEADLOCK FALSE` is
set where all sessions of the bound may be over (`store_durability`,
`receiver_session`, `sender_*`, `legacy_transfer`, `exchange`) or ids spent
(`transfer`).

## What is proved

With TLAPS, for every value of the constants that meets the modules' named
assumptions (each module's `ASSUME`, which TLC evaluates in the runs). A theorem of the
right column states the property of a run that it names; the others are parts of one.

| Module | Theorems | State |
|---|---|---|
| `SegmentDecoderProofs` | `DecoderTypeCorrect`, `EquationsAreSound` and its parts `SolvedBlocksAreRight`, `PendingEquationsAreRight`, `IndexAgrees`, `RippleLeavesNothing`; `CapsCostNoMore`, `DecoderKeepsPromise` | `TypeOK`, `EquationsSound`, `CapsCostNothingElse`, `KeepsPromise` |
| `OpfsSegmentStoreProofs` | `StoreTypeCorrect`, `ResumesAreTrue` and its parts `CheckpointsAreSound`, `CommittedIsDurable`; `NothingIsHeldAfterwards`, `SessionsEndAsTold`, `ResumePointsStay` | `TypeOK`, `ResumeIsTrue`, `NothingHeldAfterwards`, `EndsAsTold`, `ResumePointStays` |
| `OpticalTransferProofs` | `TransferTypeCorrect`, `CompletionsAreReal` and its parts `CountsAreExact`, `CompleteIsStored`; `ResumesSkipNothing`, `RecoveryStaysFresh`, `WholeBatchesCommit` | `TypeOK`, `CompletionIsReal`, `ResumeSkipsNothing`, and `RecoveryIsFresh` and `BatchCommits` of `RecoveryWorks` |
| `SenderStreamProofs` | `SenderTypes`, `FramesStayRight`, `ShownStaysRight`, `HeldStaysStill` | `TypeOK`, `ShownIsRight`, and `HeldIsStill` of `ControlsAreObeyed` |
| `ReceiverSessionProofs` | `SessionTypeCorrect`, `SessionsAreSound`, `FilesAreKept`; `ScreensAreTrue`, `WhatIsSaidIsSo`, `EveryCaptureIsDecoded`, `EverySummaryIsHonest` | `TypeOK`, `SessionSound`, `FileIsKept`, and `ScreenSound` but for the telemetry's figures |
| `SenderSessionProofs` | `SenderTypeCorrect`, `SessionsAreAccountedFor`, `StreamsKeepTheirFiles` | `TypeOK`, `SessionsAccountedFor` |
| `ReceiverHostProofs` | `HostTypeCorrect`, `HostIsShown`, `StopsHold` | `TypeOK`, `HostIsAsShown`, and `StopHolds` of `PressesTakeEffect` |
| `HostMonitorProofs` | `ShellTypeCorrect`, `ShellReloadsOnce`, `OneRoundAtATime` | `TypeOK`, `ReloadsOnce`, and `OneRound` of `ShellServes` |

Two modules have hypotheses besides, which the theorems state.

`OpfsSegmentStoreProofs`: `StoreTypeCorrect` and `NothingIsHeldAfterwards` have none; they
hold of sessions that overlap. The other five are of behaviours in which sessions take
turns (`Spec /\ InTurn`: none opens while another has not settled) and `open()`
resumes (`ResumeFlags = {TRUE}`). The code does not guarantee the first. The worker
releases the outgoing store and opens the next pipeline without waiting; what keeps them
apart is that a handle is closed at once and that a manifest must come through a camera
that has just been started (`receive-worker-core.ts:171`). An `open()` that was abandoned
half-way is not released by that, and where it lags behind, the five are false (TLC, with
`Overlap = TRUE`). No weaker hypothesis was found to do: the bytes of a
directory belong to whoever is still writing there. `TurnsAreTaken` is the link to the runs
(`Overlap = FALSE` implies `InTurn`).

`SenderStreamProofs`: `OneCode`, one code on the screen, and a queue no longer than one
batch of a recovery (32 frames; a profile has 2048 symbols to a segment, so a batch is
shorter only when the file is one short segment, which no other can be mistaken for). The
divergences say what happens without. `ShownStaysRight` assumes `FiguresAreRight` too, a
formula without variables that TLC evaluates in `sender_stream`: of the figures it says no
more than the run does, and `FramesStayRight` is the half of it that needs no such
assumption.

`ReceiverSessionProofs` has none: an export may settle at any time and in any number.
What such an export can do to the file is the exception that `FilesAreKept` names.

Each invariant was checked by TLC as an invariant of the run of its component before it
was proved, over all the run's states; `AccountInv` with three selections too (966,612
states), and `StreamInv` on four instances that differ in the records, the queues and
the manifests.

*Decoder* (`DecoderInv`). A block is written from an equation's payload, so
equations must be sound; eliminating a block is sound only if the equation names
it, so the index must be exact, except for the block being walked; and its bytes
must be there, so what is on the ripple's stack must be solved (`RippleSound`).
That nothing resolvable is left needs that each equation naming a solved block is
about to be visited (`NoneOverdue`).

*Decoder and promise* (`PeelInv`, on top of `DecoderInv`). What the decoder has solved it
had to: every block known lies in `Solvable(taken)`, the least set that contains the
source symbols taken and is closed under peeling, because a ripple only solves the last
unknown of an equation taken. Between calls it has solved all of it: nothing pending could
be reduced, so what is known is closed under peeling, and the least such set is within
it. That is `CapsCostNothingElse`, and it makes `recovered` of `SegmentRecovery` a
function of the symbols taken. `RefsInv` adds up the references of the pending equations,
so the cap is reached in the decoder exactly when it is in the promise, and each action
is then a step of `SegmentRecovery` or a stutter, in the middle of a ripple included.

*What a store holds* (`LocksInv`). For each store apart, whatever others do: who of
`open()`, `verify()`, `dispose()` and the checkpoint writers may still be running with
what is held. A session is over when none is, so nothing is held.

*Store, of sessions that take turns* (`SessionInv`). A checkpoint under way may land, so
what it will claim must be on the device; it claims what its store had committed
(`WriterBehind`), and what a store that still answers for the directory counts is on the
device (`Claims`, `Right`); the checkpoint on disk is behind that store
(`CheckpointBehind`); before `open()` has answered it adopts exactly the checkpoint's bits
or there is none (`OpeningInv`); a removal only runs when nobody claims (`EndingInv`); and
there is one such store (`Alone`). A step of one store leaves the others, all settled,
alone (`StepOfOne`), and there is one lemma for each action.

*How a store's session ends* (`EndsInv`, on top of `SessionInv`). Stores are opened
one after another (`InOrder`), so what a session left is nobody else's until it has
settled; the file of the last one is there and whole from the moment it is handed over
(`FileStays`), and gone when the policy said so (`PolicyKept`); the policy can only be
disregarded where there is a second file, which a transfer sent as it is has not
(`AsItIs`). A checkpoint only lands over one it contains, and one that is written last
has all that was committed (`WriterAhead`).

*Transfer* (`TransferInv`). `committedCount` is the size of `committed`, and without a
fault what is committed is stored (`ReceiverInv`): a refusal by the store leaves the
fault that forbids completion. A code says what the receiver had (`TokenInv`); the runs
of missing segments it names and the restart point cover all that was missing
(`CodeCovers`, by the least and greatest member of a run); and from there on what the
sender will show covers what was missing when it was opened (`SenderInv`). `Fresh` bounds
what was shown of a segment by the counter recovery draws from. No fairness and no bound
on losses, repeats, sessions or segments.

*A batch caught whole* (`BatchPart`, on top of `TransferInv`). A batch is followed frame by
frame: each one caught is in the decoder, in the fingerprints, refused, or lost with a
decoder, and the history variables (`lost`, `deprived`) say which (`BatchInv`,
`RememberedInv`). At its end all of the segment's source symbols are in what its decoder
was given, so all of its blocks are in `Solvable` of it, and a decoder in which they
were would have been committed on the spot (`NoneComplete`).

*Receiver's session* (`SessionInv`). A slot taken is one an answer of this epoch is still
to come for (`SlotsInv`, counted over both queues and the worker), which needs that
nothing under way is of a later epoch (`EpochsInv`). A verification is asked for once and
finds the session open (`VerdictInv`); the screen and camera lag behind the machine, state
by state (`ScreenInv`); a session that ended holds no file (`EndedHoldsNoFile`). The file
is followed step by step (`FileStep`): that a complete screen has its own is no invariant.
What the screen says of messages and reports is about functions of them, and proved as
such, of any video, any quota and any number of units (`EveryCaptureIsDecoded`,
`EveryReportIsHeard`, `EverySummaryIsHonest`): the formulas TLC evaluates are instances.

*Sender's stream* (`StreamInv`). There is one call at a time, so a buffer that is being
filled has one reader (`ScreenInv`, `WireInv`). The buffer holds the segment `loaded` names,
or is being filled for the segment of the call, or nobody will read it again, because the
session is disposed of (`MemoryInv`). The record of the compressor is the one the cursor's
offset says, or the next take begins with the first segment, which rewinds it
(`CursorInv`). A read that fails leaves a pass that cannot go on: the next thing asked is
a recovery, whose first batch begins with the first segment (`PassInv`, `TailInv`). What is
then written over, and what still trusts it, meet only in a queue longer than a batch.
`FramesInv` carries what was produced to the screen.

*Sender's session* (`AccountInv`). What is on the screen, or about to be, is registered
and not about to be cancelled (`ShownInv`); every session was registered by a call that
is over (`FilesInv`); and while no selection has overtaken another, every session is on
the screen, on its way there, or being cancelled (`AloneInv`).

*Host* (`HostInv`). A socket is that of the handle or of a stop under way
(`ServerInv`); what is offered is backed by a pair of key and certificate from the time a
server binds (`OfferInv`); a card that shows another status has the answer or the push
still to come (`CardInv`). The pushes in a queue are a function on the naturals;
that it returns messages is shown of the least length at which it would not.

*Shell* (`ReceiverInv`). A recovery is remembered before it reloads, so a page that
recovers has written the flag, and while there is no flag nothing was reloaded
(`WatchdogInv`); the watchdog does one thing (`PageInv`); of the probes of a monitor one
can be heard (`MonitorInv`).

Writing the proofs showed three weaknesses of the models. Several operators chose with a
`CASE` whose guards could hold together (`Install`, `AssetFrom`, `OnProgress`,
`FaultCopy`, the readings of `SenderFigures`), so they were left open where the code
decides in order. They are `IF` chains in the code's order now. `lost` of
`OpticalTransfer`, the symbols of a segment that went with an evicted decoder, left out the
blocks that decoder had solved from repair symbols: with more symbols to a segment than the
run has, `BatchCommits` fails with it (TLC), because a replayed source symbol answered as a
duplicate before the eviction is then lost too. And `Fails` of `SenderStream` had no failure
between two reads that fill one buffer. Two of the divergences below, on the
length of the sender's queue and on a recovery that does not begin at the first segment,
are hypotheses the proof of `StreamInv` asked for.

Model-checked only, and why:

- *What a recursion computes.* The library's induction theorems take an operator as a
  parameter, which no installed prover instantiates; an argument by the least
  counterexample does for a function on the naturals (`PushesAreMessages`,
  `LeastOfNaturals`, `StartsAdd`) but not for the encoders, readers and packers of
  `Exchange` and the modules under it.
- *Pure modules.* `Exchange` and the modules under it, `ForgetsTheOldest` of
  `OpticalTransfer`, and the figures in `ScreenSound` (the telemetry, `FiguresAreTrue`) and
  `ShownIsRight` (the meters, `FiguresAreRight`) are statements about functions, evaluated
  over the bounded inputs named there.
- *Liveness*: `RippleEnds`, `EveryCallEnds`, `SessionsEnd`, `KeepsShowing`,
  `ControlsAreObeyed`, `WaitingEnds`, `NothingOutlives`, and the parts of
  `PressesTakeEffect` and `ShellServes` that say something happens in the end.
- *`LegacyTransfer`* reaches recursive operators and `Bitwise`, with which the prover does
  not work. *`SenderStream` with several codes* is what `sender_lanes` refutes.

## Where code and words part

Two divergences are kept as runs that TLC must find violated; `PROJECT.json`
quotes the lines under `findings`:

1. `sender_lanes`: the views of two and four codes, which the default profile
   uses, have no recovery tail and report no end (`TwoCodeTransferView.tsx:27`).
2. `resume_code`: the desktop's screen cuts what is typed at forty characters, and so
   refuses the code of sixty-four a phone shows for scattered gaps
   (`ResumeTokenEntry.tsx:74`).

Others were met while modelling. Those marked (TLC) were found violated by TLC
in a variant of a run kept here; the properties of the runs state what holds
beside them, and say under which condition.

*The store and the pipeline*

- (TLC) `receive-pipeline.ts:1178`: a compressed transfer cancelled while it is hashed
  keeps its directory, because the removal is refused while `original.part` is held
  (`:1038`, and `opfs.ts:356`, which swallows the refusal). `opfs-segment-store.ts:618`
  says that everything unsealed follows the policy. `EndsAsTold` therefore speaks of
  transfers sent as they are.
- (TLC) `receive-pipeline.ts:1061`: one interrupted during decompression is discarded,
  because a cancelled inflation is taken for a bad container, against `:155`.
- (TLC) `receive-pipeline.ts:482`: a recovery batch's replayed source symbols can be
  suppressed by fingerprints that outlived the decoder which took them, so that a batch
  seen whole does not rebuild it (`streaming-sender.ts:1000`,
  `segmented-receiver.ts:519`). Symbols of a segment (3584 with repair) nearly fill the
  fingerprint set (4096). `RecoveryWorks` excepts it (`deprived`).
- (TLC) `receive-pipeline.ts:510`: a v1 frame seen in the middle of a v2 reception sets
  the pipeline's protocol, and the v2 transfer that completes is answered
  `TRANSFER_INCOMPLETE`.
- `receive-pipeline.ts:151` against `opfs-segment-store.ts:570`: a cancel between
  the awaits of `seal()` keeps a file nobody will be handed.
- (TLC) `receive-worker-core.ts:171`: a session may open before the previous one has
  disposed of its store, which the comment calls possible in principle and not in
  practice. With `Overlap = TRUE` an abandoned `open()` that is still in `creating`
  clears or pre-sizes the file a later session in the same directory has written and
  recorded: `ResumeIsTrue` and `ResumePointStays` fail, and a hand-over or a removal
  (`EndsAsTold`) can be undone. With one segment and no crash (388,787 states) what is held
  is still let go of and every session still comes to its end: `NothingHeldAfterwards` and
  `SessionsSettle` hold of sessions that overlap, and the former is proved of them.
- `segmented-receiver.ts:543`: the committed bit is set before the store has
  answered, so a code read in between counts a segment that may be refused.
- `segmented-receiver.ts:379`: a manifest of another session is counted both as a
  manifest and as rejected.
- `segment-decoder.ts:585`: `repairObsoleted` is counted in a branch an equation
  cannot reach, since an equation that had one unknown left has already gone.
- `receiver-storage.ts:151` asks for room before `opfs-segment-store.ts:238` sweeps what
  would have given it, and for the whole of it when most is already on the device.
- `opfs-segment-store.ts:350` says a transfer resumed three times still ages out on the
  clock of when it started; the sweep (`opfs.ts:814`) goes by `updatedAt`. A session
  adopted with every segment goes on writing checkpoints that say "receiving".

*The receiver's screen*

- (TLC) `App.tsx:490`: what follows the await of an export asks neither for the file nor for
  the session it was started for. One that is pending when its session is reset settles
  under the next: its failure (`:506`) puts `COMPLETE` on a screen whose file is still
  being verified (`receiver-state.ts:252`), against `receiver-state.ts:336`; its success
  (`:497`) takes the file of a later session from a screen that is complete or exports.
  `CompleteHoldsFile` is violated as an invariant, with one export; `FileIsKept` says that
  nothing but such an export (`StrayExport`) does it.
- `receiver-client.ts:354`: the answer to a frame of a closed session gives back
  a slot `close()` and `open()` have given back already, so more than
  `maxInFlight` frames of the next session may wait (line 6 says they may not).
- `App.tsx:331`: hidden and shown again before React commits, a session is closed
  as `cancelled` and its bytes are discarded, not kept as `interrupted`.
- `receiver-state.ts:291`: `INTERRUPTED` is only entered while the page is hidden
  and left when it is shown, so its resume card is never seen (`App.tsx:699`).
- `App.tsx:476`: `discard()` resets, when its await settles, whichever session
  is on the screen by then.
- `receiver-view-model.ts:534` says of a failure "If it kept part of the file, this
  screen shows a resume code"; a failed session discards its data and is offered none.
- `receiver-view-model.ts:266`: the live text of `INCOMPLETE` says to enter the code
  below, and no card shows when nothing was recovered; `App.tsx:888` colours the camera
  panel idle in two states whose copy says "Camera active".
- `App.tsx:182`: during the hashing pass of a compressed file no "Step 2 of 2" shows,
  against `receiver-view-model.ts:205`.
- `metrics.ts:196`: reporting unsupported when `observe()` throws is called the truthful
  outcome; `supported` (`:179`) reads only the constructor. `redundantFecSymbols`,
  `cropScans` and `completionLatencyMs` are never recorded; frames answered
  pending are in no class; `App.tsx:346` restarts the report's timeline with every change
  of the camera's state; the timeline runs on `Date.now()`, so a clock that is set back stops it.
- A phone without origin private files is offered a code though it loses everything with
  the page.

*Formats and codes*

- `streaming-sender.ts:1203`: a code is held against the count of segments alone, so
  it is accepted for the same file under another profile that cuts it into as many
  (`:1174`, `resume-token.ts:17`). The phone then clears what it kept
  (`opfs-segment-store.ts:271`), and one that still runs takes the manifest by its ids,
  though `segmented-receiver.ts:363` calls it verified. `ResumeIsExact` asks for
  the same cutting.
- `protocol-v2.ts:777` says a frame of a newer build is told apart; it is reported
  `NOT_DEQR` and so shown by `App.tsx:751`.
- `filename-sanitizer.ts`: the sanitizer is not idempotent (a first pass can leave two dots
  together), and the blocked extension is looked up in the name of the first pass; two
  passes settle. `mobile-web/src/protocol.ts:51` has one of its own.
- `StreamTransferView.tsx:244` takes every frame of a pass to be of one length; manifests
  are not. The view of two codes pins version 18 (718 bytes), which a manifest with a name
  of some two hundred three-byte characters exceeds: it is never painted.
- `FourCodeTransferView.tsx:31`: 110 CSS pixels for a code of version 24 (121 modules)
  leave no whole pixel for a module on a display of one to one, and
  `planQrGeometry` throws, against line 3.
- `compression-policy.ts:66` says a saving of exactly a tenth is accepted; in floating
  point 1 - 0.9 is less than 0.1, and it is refused.
- v1: the digest of a container is of its file alone (`mobile-web/src/protocol.ts:140`,
  `ipc-handlers.ts:366`), and a frame has no checksum of its payload. A frame that a camera
  misreads in the name, the type or the time is parsed, passes, and is reported complete, or
  proposed for saving, under what was misread. `VerdictsAreTrue` speaks of the file's bytes,
  and of its name where nothing was misread.
- v1: a flag byte above one, or text that is not UTF-8, is refused by the phone and read
  as unset, or replaced, by the desktop.

*The desktop*

- (TLC) `window-compressor.ts:246`: the schedulers of a view of several codes pull from one
  session at once, and two reads of a compressed file share one cursor. An
  uncompressed file has the same hazard in `segmentBuffer`, where it takes a read
  that lasts longer than a segment is shown.
- `window-compressor.ts:244`: after a read that failed, the cursor has moved and
  the old record has not. A transfer opened with a resume code recovers its
  missing segments only; if the first read of one fails, the view takes it for
  the end (`StreamTransferView.tsx:225`), and asking for recovery again reads the
  same segment from that cursor. Without a code recovery begins at the first
  segment, which rewinds.
- (TLC) `streaming-sender.ts:1055`: `ensureSegmentLoaded()` trusts `loadedSegmentIndex`, which a
  read that fails half way does not clear though it has written over the buffer. With a
  queue longer than a batch of a recovery, the first `take()` of the tail can fail while it
  reads its second segment and the next recovery replays the first one from the bytes
  of the second. `resolveStreamingSenderConfig` accepts queues of up to 4096 (`:293`) and
  segments of a few symbols; no shipped profile has such a pair.
- `StreamTransferView.tsx:225`: an error on the first frame of a recovery ends in
  `STREAM_COMPLETE` where any other ends in `FAILED`; and `STREAM_COMPLETE`
  unmounts the view with up to three frames ready, though it stands for "Every
  frame of this pass has been displayed" (`sender-state.ts:63`).
- `TwoCodeTransferView.tsx:46`: the effect depends on an array that is new on
  every render, so a render of the shell (a dialog) stops the schedulers and drops
  what they had ready.
- (TLC) `renderer/App.tsx:182` says the epoch is how a stale result is recognised; it is
  captured and never compared (`:213`). A selection that was cancelled and made
  again can answer into the next, whose session is then replaced, and the one replaced
  stays registered. `StreamKeepsItsFile` and the last part of `SessionsAccountedFor` are
  for one selection at a time. A selection that a closed window started registers a
  session that nobody will cancel until the application quits.
- `renderer/App.tsx:316`: a refused recovery resets whichever session is on the
  screen by then.
- `streaming-sender.ts:1015`: repair ids of recovery start again when a sender
  is opened with a code, under the same session id; a receiver that kept
  running has seen them. `RecoveryWorks` speaks of one sender session.
- `StreamTransferView.tsx:333`: polls go on during a hold and only its start resets the
  meters, so the rate reads low for a window after a release, against
  `sender-model.ts:266`. A resumed pass counts `transportBytesCovered` from zero
  (`streaming-sender.ts:867`): its fraction never reaches one hundred. `NO_SAMPLE` has no
  answer of its own in `summarizeCompression` (`sender-model.ts:354`). The note beside a
  resumed file says the receiver holds everything before it, which a code of scattered gaps
  does not say.
- v1: the payload of a paused or idle session is kept after its window closes, and a
  cancelled loopback keeps its session until the end; the last figures of a loopback
  are lost when it ends before its view subscribes. Leaving the camera
  screen while the cameras are listed leaves its frame loop running, which finds nothing to do. A
  conflicting duplicate of a block fails the whole session.

*How the phone gets its receiver*

- (TLC) `main.tsx:116`: `DEQR_SHELL_STALE` asks for one reload (`:110`), and
  `boot.fail()` does nothing once the screen has mounted (`boot.js:98`): a
  worker that finds a mounted shell stale is not heard.
- `boot.js`: a shell that mounts while the recovery is under way is reloaded all the same,
  and its flag cleared; a document cached just before the host goes makes the
  recovery purge a shell that was complete.
- `pwa-host-lifecycle.ts:121`: "Leave `host` null so a retry re-runs the whole sequence";
  when a server fails after it had started, its handle stays, and the retry returns at once.
- `pwa-certificate.ts:176`: a process that ends between the two files leaves a key and a
  certificate that are not a pair, under a date and addresses that are still good. Nothing
  compares the two, so `createServer()` throws and every later start fails, until the
  certificate expires or the addresses change. The step is in the model; no property says that
  it cannot happen, and `HostIsAsShown` says only that nothing is advertised meanwhile.
- `App.tsx:410` and `host-status.ts:59` say polling stops while the page is hidden; the timer
  goes on, and a page that is shown again asks at once besides.

## What is not modelled

`PROJECT.json` gives the reason for each component. In short: bytes, checksums,
the compression function, gzip, certificates and QR matrices (pure functions of
bytes); decoding an image (a capture that does not decode is a frame that was not
caught); the C# port of v1; scripts, benches and packaging; what nothing in
the application constructs (`worker-pool.ts`, `two-code-sender.ts`, `SenderRasterEngine`,
`region-tracker.ts`, `progress-model.ts`; of `multiplexer.ts` the views take the layout of
their codes and nothing else).

Partly modelled: the camera's capture loop and its watchdog; the routes of an export;
rebuilding a view that renders again; read-ahead and the sender's ready queue; what
several stores on one directory at once do to its bytes; `beginRecovery(targets)`; the
throughput estimates and the downgrade advice of profiles; the degree distributions, whose
floating point no module computes: neighbour sets are constants.

## Plan

Done: everything above. Of the proofs planned, those of the decoder with its refinement,
the store, the transfer, the sender's stream and session, the receiver's session, the host
and the shell are there.

Next:

1. `LegacySender`: every interval is a session's (`TimersAreOwned`). It needs the
   sender apart from `LegacyTransfer`, which reaches recursive operators.
2. `OpticalTransfer`: the ring of fingerprints and its set stand for the sequence of the last fingerprints
   (`ForgetsTheOldest`), for every capacity.
3. `SenderStream` opened with a code (`rememberResumeTargets`): the recovery then begins
   with the first missing segment, and `CursorInv` fails after a read that failed.

Then, of the model: the camera's capture loop as a module of its own.

## Running it

```
tlc -workers 2 -config MCOpticalTransfer.cfg MCOpticalTransfer
tlapm OpfsSegmentStoreProofs.tla
```

| Run | Module | Configuration | Distinct states (about) |
|---|---|---|---|
| `decoder_invariants` | `MCSegmentDecoder` | `MCSegmentDecoder.cfg` | 8,992 |
| `store_durability` | `MCOpfsSegmentStore` | `MCOpfsSegmentStore.cfg` | 236,973 |
| `receiver_session` | `ReceiverScreen` | `ReceiverScreen.cfg` | 477,831 |
| `transfer` | `MCOpticalTransfer` | `MCOpticalTransfer.cfg` | 4,982,021 |
| `sender_stream` | `MCSenderStream` | `MCSenderStream.cfg` | 16,982 |
| `sender_session` | `SenderSession` | `SenderSession.cfg` | 27,475 |
| `exchange` | `MCExchange` | `MCExchange.cfg` | 59,749 |
| `receiver_host` | `ReceiverHost` | `ReceiverHost.cfg` | 506,004 |
| `receiver_shell` | `HostMonitor` | `HostMonitor.cfg` | 83,860 |
| `legacy_transfer` | `MCLegacyTransfer` | `MCLegacyTransfer.cfg` | 550,380 |
| `sender_lanes` | `MCSenderStream` | `MCSenderStreamLanes.cfg` | counterexample |
| `resume_code` | `MCExchange` | `MCExchangeCode.cfg` | counterexample |
