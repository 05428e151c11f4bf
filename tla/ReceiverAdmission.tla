------------------------- MODULE ReceiverAdmission -------------------------
(***************************************************************************)
(* Where a session's bytes go on a phone (receiver-storage.ts, opfs.ts) and *)
(* whether a receiver opens a session for a manifest it has read: whether   *)
(* there is room, which store it is given, the store that keeps everything  *)
(* in memory (segment-store.ts) up to the bytes it hands over, what the     *)
(* receiver's own policy refuses, and whether what an earlier run kept on   *)
(* the device is taken over.  The store on the device's own files is       *)
(* OpfsSegmentStore's subject.                                             *)
(*                                                                         *)
(* A byte of a file is its offset; Wiped is one that was zeroed.  A device  *)
(* is [opfs, decompress, quota]: whether the browser has origin private     *)
(* files, can inflate, and what it reports this origin may hold (-1 when it *)
(* reports nothing).                                                       *)
(***************************************************************************)
EXTENDS FramesV2, FiniteSets, Checkpoint

CONSTANTS
  MaxSegments,        \* bound: RECEIVER_POLICY.maxSegmentCount (2^24 in the code)
  MinMargin,          \* bound: MIN_STORAGE_MARGIN_BYTES (4 MiB in the code)
  FallbackBudget,     \* bound: RECEIVER_POLICY.fallbackSegmentBudgetBytes
  MaxRetained         \* bound: RECEIVER_POLICY.maxRetainedSessions (3 in the code)

ASSUME AdmissionAssumption ==
  /\ {MaxSegments, MinMargin, FallbackBudget} \subseteq Nat
  /\ MaxRetained \in Nat

-----------------------------------------------------------------------------
(***************************************************************************)
(* The SHA-256 that never sees the whole message at once                   *)
(* (sha256-stream.ts), up to the compression function: a hash is the list   *)
(* of the blocks it was computed over, in their order.                     *)
(*                                                                         *)
(* A byte of a message is a positive number; a length word is written as    *)
(* one cell above them all.  `threw' is whether a call ended in an error.   *)
(***************************************************************************)
Block == 8          \* bound: cells of a block (64 bytes in the code)
LengthCells == 2    \* bound: cells of the length (two 32-bit words, of 8 bytes)
WordBits == 5       \* bound: bits of a length word (32 in the code)
Stop == -1          \* the byte 0x80
Zero == 0
LengthWord(n) == 1000 + n

\* Sha256Stream.  Of `tail`, the first tailBytes cells are the message's.
FreshHash ==
  [blocks |-> <<>>, tail |-> [i \in 1..Block |-> Zero], tailBytes |-> 0, total |-> 0,
   finished |-> FALSE, threw |-> FALSE]

\* A stream that has given its digest takes no more calls.
Spent(h) == [h EXCEPT !.threw = TRUE]

PutAt(cells, at, piece) ==
  [i \in DOMAIN cells |-> IF i - at \in DOMAIN piece THEN piece[i - at] ELSE cells[i]]

\* compress(): the state becomes what it was and this block.
Compress(h, cells) == [h EXCEPT !.blocks = Append(@, cells)]

\* The part of a chunk that starts on a block boundary.
Absorb(h, chunk) ==
  LET whole    == Len(chunk) \div Block
      remain   == SubSeq(chunk, whole * Block + 1, Len(chunk))
      after[b \in 0..whole] ==
        IF b = 0 THEN h ELSE Compress(after[b - 1], SubSeq(chunk, (b - 1) * Block + 1, b * Block))
  IN  [after[whole] EXCEPT !.tail = PutAt(@, 0, remain), !.tailBytes = Len(remain)]

\* (mutant)
UpdateFromTheBoundary(h, chunk) == Absorb([h EXCEPT !.total = @ + Len(chunk)], chunk)

\* update(): a carried block is topped up first.
Update(h, chunk) ==
  LET counted == [h EXCEPT !.total = @ + Len(chunk)]
      wanted  == IF Block - h.tailBytes < Len(chunk) THEN Block - h.tailBytes ELSE Len(chunk)
      topped  == [counted EXCEPT !.tail      = PutAt(@, h.tailBytes, SubSeq(chunk, 1, wanted)),
                                 !.tailBytes = @ + wanted]
  IN  IF h.finished THEN Spent(h)
      ELSE IF chunk = <<>> THEN h
      ELSE IF h.tailBytes = 0 THEN Absorb(counted, chunk)
      ELSE IF topped.tailBytes < Block THEN topped
      ELSE Absorb(Compress(topped, topped.tail), SubSeq(chunk, wanted + 1, Len(chunk)))

\* The length in bits, in two words: the high one takes what 2^WordBits holds of
\* it, the low one is cut to its width.
BitsOf(total) ==
  LET unit == 2 ^ (WordBits - 3)
  IN  [high |-> total \div unit, low |-> ((total % unit) * 8) % 2 ^ WordBits]

\* (mutant) One cell too many fits beside the length.
PaddedLengthTight(tailBytes) ==
  IF tailBytes <= Block - LengthCells THEN Block ELSE 2 * Block

PaddedLength(tailBytes) ==
  IF tailBytes < Block - LengthCells THEN Block ELSE 2 * Block

\* digest(): what is left is padded and compressed, and nothing of the message
\* stays in the stream but how long it was.
FinishHash(h) ==
  LET size   == PaddedLength(h.tailBytes)
      bits   == BitsOf(h.total)
      begun  == PutAt([i \in 1..size |-> Zero], 0, Append(SubSeq(h.tail, 1, h.tailBytes), Stop))
      padded == PutAt(begun, size - LengthCells, <<LengthWord(bits.high), LengthWord(bits.low)>>)
  IN  IF h.finished THEN [digest |-> <<>>, stream |-> Spent(h)]
      ELSE [digest |-> Absorb(h, padded).blocks,
            stream |-> [FreshHash EXCEPT !.tailBytes = h.tailBytes, !.total = h.total, !.finished = TRUE]]

SameDigest(left, right) ==
  Len(left) = Len(right) /\ ~\E i \in DOMAIN left : left[i] # right[i]

\* Hex: a character is its value; one that is not a lower-case digit has none
\* below 16.
DigestToHex(digest) ==
  [i \in 1..(2 * Len(digest)) |->
     LET byte == digest[(i + 1) \div 2] IN IF i % 2 = 1 THEN byte \div 16 ELSE byte % 16]

DigestFromHex(hex) ==
  IF Len(hex) % 2 # 0 \/ \E i \in DOMAIN hex : hex[i] \notin 0..15 THEN {}
  ELSE {[i \in 1..(Len(hex) \div 2) |-> hex[2 * i - 1] * 16 + hex[2 * i]]}

(* What the stream promises *)

Lengths == {0, 1, 3, 5, 6, 8, 9, 16}     \* bound: lengths of a chunk
Cuttings == UNION {[1..n -> Lengths] : n \in 0..3}

\* A message of numbered bytes, in chunks of these lengths.
StreamHash(cuts) ==
  LET before[i \in 0..Len(cuts)] == IF i = 0 THEN 0 ELSE before[i - 1] + cuts[i]
      after[i \in 0..Len(cuts)] ==
        IF i = 0 THEN FreshHash
        ELSE Update(after[i - 1], [k \in 1..cuts[i] |-> before[i - 1] + k])
  IN  [stream |-> after[Len(cuts)], length |-> before[Len(cuts)]]

\* FIPS 180-4: the message, one bit, the fewest zeros that leave room for the
\* length, the length.
PaddedMessage(length, bits) ==
  LET zeros == CHOOSE z \in 0..(Block - 1) : (length + 1 + z + LengthCells) % Block = 0
  IN  [i \in 1..length |-> i] \o <<Stop>> \o [i \in 1..zeros |-> Zero]
        \o <<LengthWord(bits.high), LengthWord(bits.low)>>

Joined(blocks) ==
  [i \in 1..(Len(blocks) * Block) |-> blocks[(i + Block - 1) \div Block][((i - 1) % Block) + 1]]

\* Whatever lengths the chunks have, the blocks hashed are those of the padded
\* whole, the length is exact where it no longer fits one word, the spent stream
\* keeps nothing and takes no other call, and a digest survives its hex.
HashIsOfTheWhole ==
  /\ \A cuts \in Cuttings :
       LET hashed == StreamHash(cuts)
           done   == FinishHash(hashed.stream)
           bits   == BitsOf(hashed.length)
       IN  /\ Joined(done.digest) = PaddedMessage(hashed.length, bits)
           /\ bits.high * 2 ^ WordBits + bits.low = 8 * hashed.length
           /\ done.digest # <<>> /\ ~done.stream.threw
           /\ Update(done.stream, <<1>>) = Spent(done.stream)
           /\ FinishHash(done.stream) = [digest |-> <<>>, stream |-> Spent(done.stream)]
           /\ \A i \in 1..Block : done.stream.tail[i] = Zero
  /\ \A d \in [1..2 -> {0, 9, 16, 171, 255}] :
       /\ \A back \in DigestFromHex(DigestToHex(d)) : SameDigest(back, d)
       /\ DigestFromHex(DigestToHex(d)) # {}
       /\ DigestFromHex(Tail(DigestToHex(d))) = {}
       /\ DigestFromHex([DigestToHex(d) EXCEPT ![3] = 16]) = {}
-----------------------------------------------------------------------------
MaxFrameBytes == 4096 + DataOverhead

(***************************************************************************)
(* Room.  A browser is [opfs, syncAccess, estimate, quota, usage,           *)
(* directory, opens, memory]: estimate is "none" or "throws", "silent"      *)
(* about a quota, or "reported"; directory is whether the root is given;    *)
(* opens is what OpfsSegmentStore.open() comes to; memory is whether the    *)
(* receiver was made to fall back to it.                                   *)
(***************************************************************************)
MarginOf(bytes, least) ==
  LET share == CeilDiv(bytes * 3, 20) IN IF share > least THEN share ELSE least

AvailableBytes(b) == IF b.quota > b.usage THEN b.quota - b.usage ELSE 0

\* preflightStorage(): no answer is not a refusal.
PreflightStorage(b, bytes, least) ==
  IF b.estimate # "reported"
  THEN [ok |-> TRUE, confidence |-> "unknown"]
  ELSE [ok |-> AvailableBytes(b) >= bytes + MarginOf(bytes, least), confidence |-> "reported"]

\* estimateDeviceStorage(), for the screen before a session.
EstimateDeviceStorage(b) ==
  IF b.estimate = "reported" THEN [available |-> AvailableBytes(b), measured |-> TRUE]
  ELSE [available |-> 0, measured |-> FALSE]

\* (mutant)
OnlyTheContainer(transport, original, compressed) == transport

\* A compressed transfer needs the container and the file at once.
RequiredRoom(transport, original, compressed) ==
  IF compressed THEN transport + original ELSE transport

\* Of the sizes a number can hold.
NeededRoom(transport, original, compressed) ==
  Answer(Check(transport > MaxSafe \/ (compressed /\ original > MaxSafe), "STORAGE_OPEN_FAILED"),
         RequiredRoom(transport, original, compressed))

Fallback(b, bytes, budget) ==
  Answer(Check(~b.memory \/ bytes > budget, "STORAGE_UNAVAILABLE"), "memory")

\* What is answered when the store on the device's files opened, or did not.
AfterOpening(b, bytes, budget) ==
  CASE b.opens = "ok" -> Accepted("opfs")
    [] b.opens \in {"STORAGE_UNAVAILABLE", "STORAGE_UNSUPPORTED"} -> Fallback(b, bytes, budget)
    [] b.opens = "INSUFFICIENT_STORAGE" -> Refused(<<"INSUFFICIENT_STORAGE">>)
    [] b.opens = "STORAGE_OPEN_FAILED" -> Refused(<<"STORAGE_OPEN_FAILED">>)

\* ReceiverStorage.provision(), of what NeededRoom says.
Provision(b, needed, least, budget) ==
  IF ~needed.ok THEN needed
  ELSE LET bytes == needed.value
       IN  CASE ~(b.opfs /\ b.syncAccess) -> Fallback(b, bytes, budget)
             [] b.opfs /\ b.syncAccess /\ ~PreflightStorage(b, bytes, least).ok ->
                  Refused(<<"INSUFFICIENT_STORAGE">>)
             [] OTHER -> IF b.directory THEN AfterOpening(b, bytes, budget)
                         ELSE Fallback(b, bytes, budget)

(***************************************************************************)
(* BoundedMemorySegmentStore: segments [index, from, bytes], as they came,  *)
(* and in freed the arrays it has let go, as they were left.               *)
(***************************************************************************)
Wiped == -1
BytesFrom(from, length) == [i \in 1..length |-> from + i - 1]
WipedBytes(bytes) == [i \in DOMAIN bytes |-> Wiped]

NewStore(budget) ==
  [budget |-> budget, segments |-> <<>>, held |-> 0, extent |-> 0, refused |-> 0, freed |-> <<>>]

WriteRefusals(store, segment) ==
     Check(segment.from \notin 0..MaxSafe, "invalid")
  \o Check(\E i \in DOMAIN store.segments : store.segments[i].index = segment.index, "invalid")
  \o Check(store.held + Len(segment.bytes) > store.budget, "full")

Write(store, segment) ==
  IF WriteRefusals(store, segment) # <<>>
  THEN [store EXCEPT !.refused = @ + 1]
  ELSE LET to == segment.from + Len(segment.bytes)
       IN  [store EXCEPT !.segments = Append(@, segment),
                         !.held     = @ + Len(segment.bytes),
                         !.extent   = IF to > @ THEN to ELSE @]

Covers(segment, at) == segment.from <= at /\ at < segment.from + Len(segment.bytes)

\* read(): from segment to segment until there is none, or no more to fill.
ReadFrom(store, offset, room) ==
  LET held == DOMAIN store.segments
      has(at) == \E i \in held : Covers(store.segments[i], at)
      length == CHOOSE n \in 0..room :
                  /\ \A k \in 0..(n - 1) : has(offset + k)
                  /\ n = room \/ ~has(offset + n)
      at(k) == LET segment == store.segments[CHOOSE i \in held : Covers(store.segments[i], k)]
               IN  segment.bytes[k - segment.from + 1]
  IN  [k \in 1..length |-> at(offset + k - 1)]

\* seal(): one buffer of all the segments, with zeros where there is none.
SealStore(store) ==
  [k \in 1..store.extent |->
     LET from == {i \in DOMAIN store.segments : Covers(store.segments[i], k - 1)}
     IN  IF from = {} THEN Wiped
         ELSE LET segment == store.segments[CHOOSE i \in from : TRUE]
              IN  segment.bytes[k - segment.from]]

ReleaseStore(store) ==
  [NewStore(store.budget) EXCEPT
     !.freed = [i \in DOMAIN store.segments |-> WipedBytes(store.segments[i].bytes)]]

\* digestSegmentStore(): windows read one after another, from wherever the last
\* one came to, and given up when there is nothing there, or when the session
\* was cancelled by the time of a pause, of which there is none at the end.
\* reads[at, n] is what the store answers when it is asked for n bytes from at.
Digested(reads, size, window, pauses, cancelled) ==
  LET digest[at \in 0..size] ==
        IF at = size THEN Accepted(<<>>)
        ELSE LET want == IF size - at < window THEN size - at ELSE window
                 part == reads[at, want]
                 to   == at + Len(part)
             IN  CASE part = <<>> -> Refused(<<"STORE_INCOMPLETE">>)
                   [] part # <<>> /\ to \in pauses /\ to < size /\ to >= cancelled ->
                        Refused(<<"CANCELLED">>)
                   [] OTHER -> LET rest == digest[to]
                               IN  IF rest.ok THEN Accepted(part \o rest.value) ELSE rest
  IN  digest[0]

(***************************************************************************)
(* BoundedMemoryOriginalSink: the buffer is {} once it was let go, and what *)
(* the sink has handed over is not the sink's any more.                    *)
(***************************************************************************)
OpenOriginalSink(store, size) ==
  IF size < 1 \/ store.held + size > store.budget THEN {}
  ELSE {[size |-> size, buffer |-> {[k \in 1..size |-> Wiped]}, handed |-> {}]}

SinkWriteRefusals(sink, offset, bytes) ==
     Check(sink.buffer = {}, "failed")
  \o Check(offset + Len(bytes) > sink.size, "invalid")

SinkWrite(sink, offset, bytes) ==
  IF SinkWriteRefusals(sink, offset, bytes) # <<>> THEN sink
  ELSE [sink EXCEPT !.buffer = {[k \in DOMAIN b |-> IF k \in (offset + 1)..(offset + Len(bytes))
                                                    THEN bytes[k - offset] ELSE b[k]] : b \in @}]

\* (mutant)
SharingSealSink(sink) == [sink EXCEPT !.handed = sink.buffer]

SealSink(sink) ==
  [sink EXCEPT !.handed = IF sink.buffer = {} THEN {<<>>} ELSE sink.buffer, !.buffer = {}]

SinkRead(sink, offset, room) ==
  IF sink.buffer = {} \/ offset >= sink.size THEN <<>>
  ELSE LET bytes == CHOOSE b \in sink.buffer : TRUE
           take  == IF room < sink.size - offset THEN room ELSE sink.size - offset
       IN  SubSeq(bytes, offset + 1, offset + take)

\* A buffer that is still the sink's when it is released is zeroed, wherever
\* else it is known.
ReleaseSink(sink) ==
  [sink EXCEPT !.buffer = {}, !.handed = IF sink.buffer = @ THEN {WipedBytes(b) : b \in @} ELSE @]

(***************************************************************************)
(* OpfsOriginalSink: the same on a file of the session's directory, made at *)
(* its length when the session started; it may since have come to another.  *)
(* A disk is [gives, resizes, room, throws, reads]: whether it gives a      *)
(* handle on the file, whether that can be resized, where on the file it    *)
(* stops taking bytes, what a write beyond that throws ("none" is a short   *)
(* write), and whether it reads.                                           *)
(***************************************************************************)
\* truncate(): zeros where the file grows.
Resized(bytes, size) == [k \in 1..size |-> IF k <= Len(bytes) THEN bytes[k] ELSE Wiped]

\* reserve(), before anyone scans: the handle is let go again at once.
Reserve(file, size, disk) ==
  LET done == disk.gives /\ disk.resizes
  IN  [ok |-> done, file |-> IF done THEN Resized(file, size) ELSE file]

\* open(): the length is asserted again; {} is a disk that refuses.
OpenFileSink(file, size, disk) ==
  IF disk.gives /\ (Len(file) = size \/ disk.resizes)
  THEN {[size |-> size, file |-> Resized(file, size), open |-> TRUE, outcome |-> "ok", handed |-> {}]}
  ELSE {}

FileSinkWrite(sink, offset, bytes, disk) ==
  LET end     == offset + Len(bytes)
      outcome == CASE ~sink.open                       -> "failed"
                   [] sink.open /\ end > sink.size     -> "invalid"
                   [] sink.open /\ end <= sink.size    ->
                        IF end <= disk.room THEN "ok"
                        ELSE IF disk.throws = "other" THEN "failed" ELSE "full"
      to      == CASE outcome = "ok" -> end
                   [] outcome = "full" /\ disk.throws = "none" -> disk.room
                   [] OTHER -> offset
  IN  [sink EXCEPT !.file = [k \in DOMAIN @ |-> IF k > offset /\ k <= to THEN bytes[k - offset] ELSE @[k]],
                   !.outcome = outcome]

FileSinkRead(sink, offset, room, disk) ==
  IF ~sink.open \/ offset >= sink.size \/ ~disk.reads THEN <<>>
  ELSE SubSeq(sink.file, offset + 1, IF offset + room < sink.size THEN offset + room ELSE sink.size)

\* The handle goes before the path does: nobody else can open the file till then.
SealFileSink(sink) == [sink EXCEPT !.open = FALSE, !.handed = {sink.file}]

ReleaseFileSink(sink) == [sink EXCEPT !.open = FALSE]

\* Any of the fourteen extensions of the code's list is this one.
BlockedExtensions == {"exe"}

\* The name's last dot and what follows it.
IsBlocked(name) ==
  LET dots == {i \in 1..Len(name) : name[i] = "."}
      last == CHOOSE i \in dots : \A j \in dots : j <= i
  IN  dots # {} /\ last + 1 = Len(name) /\ name[last + 1] \in BlockedExtensions

(***************************************************************************)
(* The checks before any storage is touched.                               *)
(***************************************************************************)
\* manifestPolicyRefusal(): the size against the product of the two caps.
PolicyRefusals(m) ==
     Check(m.segmentCount > MaxSegments, "SEGMENT_COUNT_EXCEEDED")
  \o Check(CeilDiv(m.transportSize, MaxSegment) > MaxSegments, "TRANSFER_TOO_LARGE")
  \o Check(m.segmentSize > MaxSegment, "SEGMENT_TOO_LARGE")
  \o Check(CeilDiv(m.segmentSize, m.symbolSize) > MaxSegment \div MinSymbol, "SEGMENT_TOO_LARGE")

\* beginV2Session().
BeginRefusals(m, device) ==
     Check(m.mode # "NONE" /\ ~device.decompress, "UNSUPPORTED_COMPRESSION")
  \o Check(m.transportSize > MaxSafe \/ m.originalSize > MaxSafe, "INCONSISTENT_MANIFEST")
  \o PolicyRefusals(m)
  \o Check(IsBlocked(SanitizeFilename(m.filename)), "FILE_TYPE_BLOCKED")

(***************************************************************************)
(* What earlier runs kept: sessions [manifest, bytes], the one that wrote   *)
(* last first.  A byte of a segment came from a file, cut in symbols; the   *)
(* checkpoint of a session is Checkpoint's.                                *)
(***************************************************************************)
PlanOf(m) == SegmentPlan(m.transportSize, m.segmentSize, m.symbolSize)
SegmentsOf(m) == 0..(m.segmentCount - 1)

Missing == [file |-> "none", symbolSize |-> 0]
Committed(bytes) == {s \in DOMAIN bytes : bytes[s] # Missing}
NothingOf(m) == [s \in SegmentsOf(m) |-> Missing]

\* sessionDirectoryName()
DirectoryOf(m) == <<m.sessionId, m.fileId>>
SameSession(a, b) == DirectoryOf(a) = DirectoryOf(b)

IdentityOf(m) ==
  [sessionId |-> m.sessionId, fileId |-> m.fileId, sha256 |-> m.sha256,
   filename |-> m.filename, mimeType |-> m.mimeType, originalSize |-> m.originalSize]

OtherFields == 400     \* bound: characters of a checkpoint but its bitmap

EntryOf(k, at) ==
  OnDisk(Snapshot(IdentityOf(k.manifest), PlanOf(k.manifest), Committed(k.bytes), at, at, "receiving"),
         OtherFields)

\* A session was written before those that stand ahead of it.
ListingOf(kept) ==
  [i \in DOMAIN kept |-> [name   |-> DirectoryOf(kept[i].manifest),
                          entry  |-> EntryOf(kept[i], Len(kept) - i),
                          locked |-> FALSE]]

Without(kept, gone) ==
  LET left == SetToSortSeq(DOMAIN kept \ gone, <)
  IN  [i \in DOMAIN left |-> kept[left[i]]]

\* The sweep of a session that opens; none here is older than the retention.
Swept(kept, m) ==
  Without(kept, SweptAway(ListingOf(kept), {DirectoryOf(m)}, Len(kept), Len(kept), MaxRetained))

KeptFor(m, kept) == SelectSeq(kept, LAMBDA k : SameSession(k.manifest, m))
KeptOthers(m, kept) == SelectSeq(kept, LAMBDA k : ~SameSession(k.manifest, m))

\* OpfsSegmentStore.open(): what it adopts of its directory, which it clears of
\* anything that is not this session's.
Adopted(m, kept) ==
  LET own   == KeptFor(m, kept)
      match == MatchCheckpoint(ReadEntry(IF own = <<>> THEN {} ELSE EntryOf(own[1], 0)),
                               IdentityOf(m), PlanOf(m))
  IN  IF ~match.ok THEN NothingOf(m)
      ELSE [s \in SegmentsOf(m) |-> IF s \in match.value.committed THEN own[1].bytes[s] ELSE Missing]

(***************************************************************************)
(* The room a manifest's session takes.                                    *)
(***************************************************************************)
RequiredBytes(m) == RequiredRoom(m.transportSize, m.originalSize, m.mode # "NONE")

\* What the kept sessions take of the device: their files were pre-sized, the
\* one a compressed transfer expands into with the rest.
Usage(kept) == FoldLeft(LAMBDA sum, k : sum + RequiredBytes(k.manifest), 0, kept)

\* Of a device whose storage does what it says.
BrowserOf(device, usage) ==
  [opfs |-> device.opfs, syncAccess |-> TRUE, directory |-> TRUE, opens |-> "ok", memory |-> TRUE,
   estimate |-> IF device.quota < 0 THEN "silent" ELSE "reported",
   quota |-> device.quota, usage |-> usage]

ProvisionRefusals(m, device, usage) ==
  LET needed == NeededRoom(m.transportSize, m.originalSize, m.mode # "NONE")
      given  == Provision(BrowserOf(device, usage), needed, MinMargin, FallbackBudget)
  IN  IF given.ok THEN <<>> ELSE <<given.code>>
-----------------------------------------------------------------------------
(* Properties *)

Browsers ==
  [opfs : BOOLEAN, syncAccess : BOOLEAN, estimate : {"none", "throws", "silent", "reported"},
   quota : {0, 6, 40}, usage : {0, 7}, directory : BOOLEAN, memory : BOOLEAN,
   opens : {"ok", "STORAGE_UNAVAILABLE", "STORAGE_UNSUPPORTED", "INSUFFICIENT_STORAGE", "STORAGE_OPEN_FAILED"}]

\* bound: transfers of up to eight bytes in segments of three, and what they
\* are of: a file of as many bytes, or one that was compressed to them.
Transports == {1, 3, 7, 8}
Budget == 14
Cutting(size) == SegmentPlan(size, 3, 1)

SegmentAt(plan, s) ==
  LET r == SegmentRange(plan, s) IN [index |-> s, from |-> r.from, bytes |-> BytesFrom(r.from, r.to - r.from)]

\* A store that was given these segments in this order.
Filled(plan, order) ==
  LET after[n \in 0..Len(order)] ==
        IF n = 0 THEN NewStore(Budget) ELSE Write(after[n - 1], SegmentAt(plan, order[n]))
  IN  after[Len(order)]

Orders(plan) == UNION {[1..n -> 0..(plan.segmentCount - 1)] : n \in 0..4}

\* The original, decompressed into the sink a piece at a time.
Decompressed(sink, piece) ==
  LET after[at \in 0..sink.size] ==
        IF at = 0 THEN sink
        ELSE LET length == IF at % piece = 0 THEN piece ELSE at % piece
             IN  SinkWrite(after[at - length], at - length, BytesFrom(at - length, length))
  IN  after[sink.size]

\* The same into a file, a byte at a time, until a write is refused.
DecompressedToFile(sink, disk) ==
  LET after[at \in 0..sink.size] ==
        IF at = 0 THEN sink
        ELSE IF after[at - 1].outcome # "ok" THEN after[at - 1]
        ELSE FileSinkWrite(after[at - 1], at - 1, BytesFrom(at - 1, 1), disk)
  IN  after[sink.size]

FileDevices ==
  [gives : BOOLEAN, resizes : BOOLEAN, room : 0..4, throws : {"none", "quota", "other"}, reads : BOOLEAN]

\* On a file: the whole of it was written, is what the digest reads and is what
\* is handed over, or somebody was told that it is not there.
FilesServe ==
  \A size \in {1, 4}, was \in 0..5, disk \in FileDevices, reserved \in BOOLEAN :
    LET before == WipedBytes(BytesFrom(0, was))
        made   == Reserve(before, size, disk)
        file   == IF reserved THEN made.file ELSE before
    IN  /\ reserved /\ made.ok => OpenFileSink(file, size, [disk EXCEPT !.resizes = FALSE]) # {}
        /\ \A sink \in OpenFileSink(file, size, disk) :
             LET last == DecompressedToFile(sink, disk)
                 read == [offset \in 0..size, room \in 0..3 |-> FileSinkRead(last, offset, room, disk)]
             IN  CASE disk.room < size ->
                        last.outcome = IF disk.throws = "other" THEN "failed" ELSE "full"
                   [] disk.room >= size /\ ~disk.reads -> ~Digested(read, size, 3, {}, size).ok
                   [] OTHER -> /\ Digested(read, size, 3, {}, size) = Accepted(BytesFrom(0, size))
                               /\ ReleaseFileSink(SealFileSink(last)).handed = {BytesFrom(0, size)}

\* In memory, of a container that has all its segments.
ExpandsBeside(store, original) ==
  /\ OpenOriginalSink(store, original) # {}
  /\ \A sink \in OpenOriginalSink(store, original), piece \in {1, 3} :
       LET done == Decompressed(sink, piece)
           read == [offset \in 0..original, room \in 0..3 |-> SinkRead(done, offset, room)]
       IN  /\ Digested(read, original, 3, {}, original) = Accepted(BytesFrom(0, original))
           /\ ReleaseSink(SealSink(done)).handed = {BytesFrom(0, original)}
           /\ ReleaseSink(done).handed = {}

\* A transfer that is admitted to memory can be finished there: whatever order
\* its segments come in, and with some of them twice, each is taken once and
\* none is refused for want of room; what is hashed, in windows of any length,
\* is the file when every segment is there and is given up when one is not, or
\* when a pause finds the session cancelled; the expanded file has its place
\* beside the container; what is handed over stays what it was when the session
\* lets go of everything, and nothing else of the file is left in memory.
MemoryServes ==
  /\ FilesServe
  /\ \A size \in Transports, original \in {4, 8}, compressed \in BOOLEAN :
       LET plan    == Cutting(size)
           bytes   == RequiredRoom(size, original, compressed)
           all     == 0..(plan.segmentCount - 1)
       IN  bytes <= Budget =>
             \A order \in Orders(plan) :
               LET store == Filled(plan, order)
                   taken == {order[i] : i \in DOMAIN order}
                   whole == taken = all
                   read == [offset \in 0..size, room \in 0..8 |-> ReadFrom(store, offset, room)]
               IN  /\ Len(store.segments) = Cardinality(taken)
                   /\ store.refused = Len(order) - Cardinality(taken)
                   /\ store.held <= store.budget
                   /\ \A window \in {2, 3, 8} :
                        Digested(read, size, window, 0..size, size)
                          = IF whole THEN Accepted(BytesFrom(0, size)) ELSE Refused(<<"STORE_INCOMPLETE">>)
                   /\ whole => (Digested(read, size, 3, {3, 6}, 2) = Refused(<<"CANCELLED">>) <=> size > 3)
                   /\ whole => SealStore(store) = BytesFrom(0, size)
                   /\ \A i \in DOMAIN ReleaseStore(store).freed :
                        ReleaseStore(store).freed[i] = WipedBytes(SegmentAt(plan, store.segments[i].index).bytes)
                   /\ whole /\ compressed => ExpandsBeside(store, original)

\* A session is refused for the reason that holds, and not for one that does
\* not: a browser that reports too little is told so and is not given memory
\* instead, one that reports nothing is tried, and the screen that asks before
\* there is a manifest never promises room it was not told of.
ProvisionIsHonest ==
  \A b \in Browsers, bytes \in {3, 14, 15} :
    LET given == Provision(b, Accepted(bytes), 2, Budget)
        room  == AvailableBytes(b) >= bytes + MarginOf(bytes, 2)
        files == b.opfs /\ b.syncAccess
    IN  /\ given.ok =>
             IF given.value = "memory" THEN b.memory /\ bytes <= Budget /\ (files => ~(b.directory /\ b.opens = "ok"))
             ELSE files /\ b.opens = "ok" /\ (b.estimate = "reported" => room)
        /\ ~given.ok =>
             CASE given.code = "INSUFFICIENT_STORAGE" ->
                    files /\ (b.opens = given.code \/ (b.estimate = "reported" /\ ~room))
               [] given.code = "STORAGE_UNAVAILABLE" -> ~b.memory \/ bytes > Budget
               [] OTHER -> b.opens = "STORAGE_OPEN_FAILED"
        /\ EstimateDeviceStorage(b).measured =>
             (PreflightStorage(b, bytes, 2).ok <=> EstimateDeviceStorage(b).available >= bytes + MarginOf(bytes, 2))
============================================================================
