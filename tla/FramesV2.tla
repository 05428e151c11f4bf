------------------------------ MODULE FramesV2 ------------------------------
(***************************************************************************)
(* The frames of protocol v2: how a file is cut into segments, symbols and  *)
(* compression windows, how a manifest and a data frame are written and     *)
(* read, and the checks a frame meets in the order the code makes them.     *)
(*                                                                         *)
(* A frame is its fields, its length in bytes and what its CRC-32 was       *)
(* computed over: the checksum is taken to notice every change.  A name is  *)
(* the sequence of its characters' kinds, a digest is the file it is of.    *)
(***************************************************************************)
EXTENDS Filenames, Integers

CONSTANTS
  MaxU32,    \* bound: the largest 32-bit field (2^32 - 1 in the code)
  MaxSize,   \* bound: the largest size a field holds (2^64 - 1 in the code)
  MaxSafe    \* bound: the largest size a number holds (2^53 - 1 in the code)

ASSUME FramesAssumption ==
  /\ {MaxU32, MaxSize, MaxSafe} \subseteq Nat \ {0}
  /\ MaxSafe <= MaxSize

MinSymbol == 32
MaxSymbol == 4096
MinSegment == 65536
MaxSegment == 67108864
MaxName == 1024
MaxMime == 255
MinWindowLog2 == 16
MaxWindowLog2 == 26
WindowRecordFloor == 4 + 18     \* a length prefix and the smallest gzip member
ManifestFixed == 84
DataOverhead == 32

(***************************************************************************)
(* What a thing is refused for: the codes it meets, in the code's order.   *)
(***************************************************************************)
Check(bad, why) == IF bad THEN <<why>> ELSE <<>>

Refused(codes) == [ok |-> FALSE, code |-> Head(codes)]
Accepted(value) == [ok |-> TRUE, value |-> value]
Unless(codes, answer) == IF codes = <<>> THEN answer ELSE Refused(codes)
Answer(codes, value) == Unless(codes, Accepted(value))

CeilDiv(a, b) == (a + b - 1) \div b

(***************************************************************************)
(* Segmentation.                                                           *)
(***************************************************************************)
PlanRefusals(size, segment, symbol) ==
     Check(size \notin 1..MaxSize, "FIELD_OUT_OF_RANGE")
  \o Check(symbol \notin MinSymbol..MaxSymbol, "FIELD_OUT_OF_RANGE")
  \o Check(segment \notin MinSegment..MaxSegment, "FIELD_OUT_OF_RANGE")
  \o Check(symbol > 0 /\ segment % symbol # 0, "FIELD_OUT_OF_RANGE")
  \o Check(segment > 0 /\ CeilDiv(size, segment) > MaxU32, "FIELD_OUT_OF_RANGE")

\* planSegmentation(), of sizes it does not refuse.
SegmentPlan(size, segment, symbol) ==
  LET count == CeilDiv(size, segment)
      last  == size - segment * (count - 1)
  IN  [transportSize |-> size, segmentSize |-> segment, symbolSize |-> symbol,
       segmentCount |-> count, symbolsPerFull |-> segment \div symbol,
       lastBytes |-> last, symbolsInLast |-> CeilDiv(last, symbol)]

PlanSegmentation(size, segment, symbol) ==
  Answer(PlanRefusals(size, segment, symbol), SegmentPlan(size, segment, symbol))

\* Of a segment of the plan; a segment outside it is refused.
SourceSymbolCount(plan, s) ==
  IF s = plan.segmentCount - 1 THEN plan.symbolsInLast ELSE plan.symbolsPerFull

\* The transport bytes of a segment: from `from' up to and without `to'.
SegmentRange(plan, s) ==
  [from |-> plan.segmentSize * s,
   to   |-> IF s = plan.segmentCount - 1 THEN plan.transportSize
            ELSE plan.segmentSize * (s + 1)]

SymbolRange(plan, s, id) ==
  LET segment == SegmentRange(plan, s)
      from    == segment.from + plan.symbolSize * id
      to      == from + plan.symbolSize
  IN  [from |-> from, to |-> IF to > segment.to THEN segment.to ELSE to]

(***************************************************************************)
(* Compression windows, and what ties a manifest's four compression fields *)
(* together.                                                               *)
(***************************************************************************)
WindowBytes(param) == 2^param

WindowRefusals(size, param) ==
     Check(param \notin MinWindowLog2..MaxWindowLog2, "FIELD_OUT_OF_RANGE")
  \o Check(size \notin 1..MaxSize, "FIELD_OUT_OF_RANGE")

WindowPlan(size, param) ==
  LET window == WindowBytes(param)
      count  == CeilDiv(size, window)
  IN  [windowBytes |-> window, windowCount |-> count,
       lastBytes |-> size - window * (count - 1)]

WindowOriginalRange(plan, w) ==
  LET from == plan.windowBytes * w
  IN  [from |-> from,
       to   |-> from + IF w = plan.windowCount - 1 THEN plan.lastBytes
                       ELSE plan.windowBytes]

CompressionRefusals(m) ==
  CASE m.mode \notin {"NONE", "GZIP"} -> <<"UNSUPPORTED_COMPRESSION">>
    [] m.mode = "NONE" ->
         Check(m.transportSize # m.originalSize, "INCONSISTENT_MANIFEST")
         \o Check(m.param # 0, "INCONSISTENT_MANIFEST")
    [] m.mode = "GZIP" ->
         LET windows == WindowRefusals(m.originalSize, m.param)
         IN  Check(m.transportSize > m.originalSize, "INCONSISTENT_MANIFEST")
             \o windows
             \o Check(/\ windows = <<>>
                      /\ m.transportSize <
                           WindowPlan(m.originalSize, m.param).windowCount
                             * WindowRecordFloor,
                      "INCONSISTENT_MANIFEST")

(***************************************************************************)
(* Writing a frame.                                                        *)
(***************************************************************************)
Framed(type, body, length) ==
  LET head == [magic |-> "D2", version |-> 2, type |-> type]
  IN  [head |-> head, body |-> body, length |-> length, crc |-> <<head, body>>]

ManifestRefusals(m) ==
     Check(m.criticalFlags, "UNSUPPORTED_CRITICAL_FEATURE")
  \o Check(~({m.sessionId, m.fileId} \subseteq 0..MaxU32), "FIELD_OUT_OF_RANGE")
  \o Check(m.originalSize \notin 1..MaxSize, "FIELD_OUT_OF_RANGE")
  \o CompressionRefusals(m)
  \o Check(m.fec # "LT", "UNSUPPORTED_FEC_PROFILE")
  \o PlanRefusals(m.transportSize, m.segmentSize, m.symbolSize)

SerializeManifest(m) ==
  LET name  == SanitizeFilename(m.filename)
      late  == Check(m.segmentCount # CeilDiv(m.transportSize, m.segmentSize),
                     "INCONSISTENT_MANIFEST")
               \o Check(TextBytes(name) \notin 1..MaxName, "INVALID_FILENAME")
               \o Check(TextBytes(m.mimeType) > MaxMime, "FIELD_OUT_OF_RANGE")
               \o Check(m.transportProfileId \notin 0..255, "FIELD_OUT_OF_RANGE")
      body  == [m EXCEPT !.filename = name]
  IN  Unless(ManifestRefusals(m),
        Answer(late, Framed("MANIFEST",
                 [fields |-> body, nameLength |-> TextBytes(name),
                  mimeLength |-> TextBytes(m.mimeType)],
                 ManifestFixed + TextBytes(name) + TextBytes(m.mimeType))))

\* The role a symbol's identity gives it must be the frame's type.
RoleRefusals(type, id, count) ==
     Check(count < 1, "FIELD_OUT_OF_RANGE")
  \o Check(type = "SOURCE" /\ id >= count, "SYMBOL_OUT_OF_RANGE")
  \o Check(type = "REPAIR" /\ id < count, "SYMBOL_OUT_OF_RANGE")

SerializeData(type, d) ==
  Answer(   Check(type \notin {"SOURCE", "REPAIR"}, "UNKNOWN_FRAME_TYPE")
         \o Check(d.criticalFlags, "UNSUPPORTED_CRITICAL_FEATURE")
         \o Check(\E f \in {"sessionId", "fileId", "segmentIndex", "symbolId",
                            "sourceSymbolCount"} : d[f] \notin 0..MaxU32,
                  "FIELD_OUT_OF_RANGE")
         \o RoleRefusals(type, d.symbolId, d.sourceSymbolCount)
         \o Check(d.payloadBytes \notin 1..MaxSymbol, "FIELD_OUT_OF_RANGE"),
         Framed(type, [fields |-> d, payloadLength |-> d.payloadBytes],
                DataOverhead + d.payloadBytes))

(***************************************************************************)
(* Reading one.                                                            *)
(***************************************************************************)
\* Which protocol a payload claims to be of; 0 is none.
DetectProtocolVersion(frame) ==
  CASE frame.length >= 3 /\ frame.head.magic = "D2" ->
         IF frame.head.version = 2 THEN 2 ELSE 0
    [] frame.length >= 20 /\ frame.head.magic = "V1" -> 1
    [] OTHER -> 0

PrefixRefusals(frame) ==
     Check(frame.length < 4, "FRAME_TOO_SHORT")
  \o Check(frame.head.magic = "V1" /\ frame.length >= 20, "V1_FRAME")
  \o Check(frame.head.magic # "D2", "BAD_MAGIC")
  \o Check(frame.head.version # 2, "UNSUPPORTED_VERSION")
  \o Check(frame.head.type \notin {"MANIFEST", "SOURCE", "REPAIR"},
           "UNKNOWN_FRAME_TYPE")

LengthRefusals(frame, expected) ==
     Check(frame.length < expected, "FRAME_TOO_SHORT")
  \o Check(frame.length > expected, "TRAILING_BYTES")

\* (mutant)
CrcTrusted(frame) == <<>>

CrcRefusals(frame) ==
  Check(frame.crc # <<frame.head, frame.body>>, "CRC_MISMATCH")

ParseManifest(frame) ==
  LET b == frame.body
      m == b.fields
      shape ==
           Check(frame.head.type # "MANIFEST", "FRAME_TYPE_MISMATCH")
        \o Check(frame.length < ManifestFixed + 1, "FRAME_TOO_SHORT")
        \o Check(b.nameLength \notin 1..MaxName, "FIELD_OUT_OF_RANGE")
        \o Check(frame.length < ManifestFixed + b.nameLength, "FRAME_TOO_SHORT")
        \o Check(b.mimeLength > MaxMime, "FIELD_OUT_OF_RANGE")
        \o LengthRefusals(frame, ManifestFixed + b.nameLength + b.mimeLength)
        \o CrcRefusals(frame)
      fields ==
           Check(m.criticalFlags, "UNSUPPORTED_CRITICAL_FEATURE")
        \o Check(m.originalSize < 1 \/ m.transportSize < 1, "FIELD_OUT_OF_RANGE")
        \o CompressionRefusals(m)
        \o Check(m.fec # "LT", "UNSUPPORTED_FEC_PROFILE")
        \o PlanRefusals(m.transportSize, m.segmentSize, m.symbolSize)
      text ==
           Check(m.segmentCount # CeilDiv(m.transportSize, m.segmentSize),
                 "INCONSISTENT_MANIFEST")
        \o Check(~WellFormed(m.filename) \/ ~WellFormed(m.mimeType), "INVALID_UTF8")
  IN  Unless(PrefixRefusals(frame) \o shape,
        Unless(fields,
          Answer(text, [m EXCEPT !.filename = SanitizeFilename(m.filename)])))

ParseData(frame) ==
  LET b == frame.body
      d == b.fields
      shape ==
           Check(frame.head.type \notin {"SOURCE", "REPAIR"}, "FRAME_TYPE_MISMATCH")
        \o Check(frame.length < DataOverhead + 1, "FRAME_TOO_SHORT")
        \o Check(b.payloadLength \notin 1..MaxSymbol, "FIELD_OUT_OF_RANGE")
        \o LengthRefusals(frame, DataOverhead + b.payloadLength)
        \o CrcRefusals(frame)
        \o Check(d.criticalFlags, "UNSUPPORTED_CRITICAL_FEATURE")
        \o RoleRefusals(frame.head.type, d.symbolId, d.sourceSymbolCount)
  IN  Answer(PrefixRefusals(frame) \o shape, d)

\* parseFrame(): what a frame says, and which kind of frame said it.
ParseFrame(frame) ==
  LET Said(kind, read) ==
        IF read.ok THEN Accepted([kind |-> kind, fields |-> read.value]) ELSE read
  IN  Unless(PrefixRefusals(frame),
        IF frame.head.type = "MANIFEST" THEN Said("manifest", ParseManifest(frame))
        ELSE Said("data", ParseData(frame)))

\* A data frame against the manifest of the session it is offered to.
DataRefusals(d, m, plan) ==
  LET elsewhere ==
           Check(d.sessionId # m.sessionId, "SESSION_MISMATCH")
        \o Check(d.fileId # m.fileId, "SESSION_MISMATCH")
        \o Check(d.segmentIndex >= m.segmentCount, "SEGMENT_OUT_OF_RANGE")
  IN  IF elsewhere # <<>> THEN elsewhere
      ELSE Check(d.sourceSymbolCount # SourceSymbolCount(plan, d.segmentIndex),
                 "INCONSISTENT_MANIFEST")
           \o Check(d.payloadBytes # m.symbolSize, "FIELD_OUT_OF_RANGE")
=============================================================================
