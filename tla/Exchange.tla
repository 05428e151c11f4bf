------------------------------ MODULE Exchange ------------------------------
(***************************************************************************)
(* What a desktop and a phone agree on: a file opened under a profile, the  *)
(* frames made of it and drawn, what the phone reads in them and admits,    *)
(* what it keeps when it is interrupted, and the code a person carries back *)
(* so that the rest can be sent.  Sizes are the real ones.                  *)
(*                                                                         *)
(* How a segment is recovered from symbols, and how storage opens, writes   *)
(* and fails, are SegmentDecoder's and OpfsSegmentStore's: here the symbol  *)
(* that completes a segment commits it, and an opened session is a step.    *)
(***************************************************************************)
EXTENDS TransportProfiles, ReceiverAdmission, SegmentedProgress

CONSTANTS
  Files,         \* [content, name, size, regular, steady, sample, packed]
  Settings,      \* [enabled, sampling]: of compression
  Window,        \* [room, ratio]: what the sender's window leaves the symbol
  Devices,       \* the phones this may be
  MaxSessions    \* bound: sessions a sender opens with identifiers of its own

ASSUME ExchangeAssumption == MaxSessions \in Nat /\ Window.ratio \in Nat

VARIABLES
  sender,   \* what the desktop has open
  device,   \* the phone
  phone,    \* the session it has in memory, or why it has none
  kept,     \* what is on it of earlier sessions, newest first
  code,     \* the last code read from it, with what it was missing then
  opened    \* sessions opened with identifiers of their own

vars == <<sender, device, phone, kept, code, opened>>

(***************************************************************************)
(* A file is regular, and steady while it is hashed, or not.  It says how   *)
(* many bytes a hundred of its sampled ones become (sample), and what the   *)
(* whole of it becomes in windows, framing included (packed).               *)
(***************************************************************************)
MinCompressible == 65536
WindowLog2 == 20

\* A tenth of the file must go.  The gain is 1 - becomes / size in floating
\* point, where 1 - 0.9 falls short of 0.1: a tenth to the byte is not enough.
Worthwhile(size, becomes) == becomes < size - size \div 10

PredictedSize(f) ==
  CeilDiv(f.size * f.sample, 100) + CeilDiv(f.size, WindowBytes(WindowLog2)) * WindowRecordFloor

\* decideCompression() tries it, on what was sampled; confirmCompression() keeps it.
Compressed(f) ==
  /\ Settings.enabled /\ Settings.sampling
  /\ f.size >= MinCompressible
  /\ Worthwhile(f.size, PredictedSize(f))
  /\ Worthwhile(f.size, f.packed)

(***************************************************************************)
(* The sender.                                                             *)
(***************************************************************************)
Closed == [up |-> FALSE]
NoCode == [read |-> FALSE]

\* StreamingTransferSession.open(): the manifest of a file under a profile.
ManifestOf(f, p, ids) ==
  LET transport == IF Compressed(f) THEN f.packed ELSE f.size
  IN  [criticalFlags |-> FALSE, sessionId |-> ids, fileId |-> ids,
       originalSize |-> f.size, transportSize |-> transport,
       segmentSize |-> p.segmentSize, symbolSize |-> p.symbolSize,
       segmentCount |-> SegmentPlan(transport, p.segmentSize, p.symbolSize).segmentCount,
       fec |-> "LT", mode |-> IF Compressed(f) THEN "GZIP" ELSE "NONE",
       param |-> IF Compressed(f) THEN WindowLog2 ELSE 0,
       transportProfileId |-> p.id, sha256 |-> f.content,
       filename |-> SanitizeFilename(f.name), mimeType |-> <<"octet-stream">>]

OpenRefusals(f, p) ==
     Check(ProfileViolations(p) # <<>>, "INVALID_TRANSFER_STATE")
  \o Check(IsBlocked(SanitizeFilename(f.name)), "FILE_TYPE_BLOCKED")
  \o Check(~f.regular, "FILE_NOT_REGULAR")
  \o Check(f.size < 1, "FILE_EMPTY")
  \o Check(f.size > MaxSize, "FILE_TOO_LARGE")
  \o Check(~f.steady, "FILE_CHANGED_DURING_TRANSFER")

\* The manifest frame is made once, when the session opens.  `lacked' is what
\* the phone was missing when the code this session was opened with was read.
Session(p, m, from, targets, lacked) ==
  [up |-> TRUE, profile |-> p, manifest |-> m, frame |-> SerializeManifest(m).value,
   from |-> from, targets |-> targets, lacked |-> lacked]

\* (mutant)
RestartPastTheEnd(from, count) == from

\* Where a resumed pass starts: a code may say that nothing is missing.
Restart(from, count) == IF from < count THEN from ELSE count - 1

\* A session opens under a profile, if the file and the manifest allow it.
Opens(f, p, m, from, targets, lacked) ==
  /\ ~sender.up
  /\ OpenRefusals(f, p) = <<>>
  /\ SerializeManifest(m).ok
  /\ sender' = Session(p, m, from, targets, lacked)
  /\ UNCHANGED <<device, phone, kept, code>>

OpenAfresh(f, p, m) == Opens(f, p, m, 0, SegmentsOf(m), SegmentsOf(m))

Open(f, id) ==
  /\ opened < MaxSessions
  /\ OpenAfresh(f, ResolveProfile(id), ManifestOf(f, ResolveProfile(id), opened + 1))
  /\ opened' = opened + 1

\* The code as it was typed: what the screen lets through, the sender decodes
\* and holds against the file and the plan.
Resumes(f, p, m, applied) ==
  LET ids == applied.value.code
  IN  /\ applied.ok
      /\ Opens(f, p, [m EXCEPT !.sessionId = ids.sessionId, !.fileId = ids.fileId],
               Restart(ids.resumeFrom, m.segmentCount), Targets(applied.value), code.missing)

ResumesFrom(f, p, m, entered) ==
  entered.ok /\ Resumes(f, p, m, ApplyResume(entered.value, m.sha256, PlanOf(m)))

OpenWithCode(f, id, how) ==
  /\ code.read
  /\ ResumesFrom(f, ResolveProfile(id), ManifestOf(f, ResolveProfile(id), 0),
                 Entered(Typed(code.token, how)))
  /\ UNCHANGED opened

Close ==
  /\ sender.up
  /\ sender' = Closed
  /\ UNCHANGED <<device, phone, kept, code, opened>>

\* What a pass from the restart point and a recovery show of the file.
Shows == (sender.from..(sender.manifest.segmentCount - 1)) \cup sender.targets

DataFrame(m, s, id) ==
  LET count == SourceSymbolCount(PlanOf(m), s)
  IN  SerializeData(IF id < count THEN "SOURCE" ELSE "REPAIR",
        [criticalFlags |-> FALSE, sessionId |-> m.sessionId, fileId |-> m.fileId,
         segmentIndex |-> s, symbolId |-> id, sourceSymbolCount |-> count,
         payloadBytes |-> m.symbolSize])

\* A symbol's ends, and the first repair one.
SymbolIds(m, s) ==
  LET count == SourceSymbolCount(PlanOf(m), s) IN {0, count - 1, count}

(***************************************************************************)
(* The phone.                                                              *)
(***************************************************************************)
Idle == [status |-> "idle"]
Refusing(why) == [status |-> "refused", why |-> why]
Receiving(m, bytes) == [status |-> "receiving", manifest |-> m, bytes |-> bytes]

\* Where a segment's bytes came from: the file, and the symbols it was cut in.
Origin(m) == [file |-> m.sha256, symbolSize |-> m.symbolSize]

\* Provisioning: the room, the sweep, then what was kept of this session.
Admit(m) ==
  LET why == BeginRefusals(m, device) \o ProvisionRefusals(m, device, Usage(kept))
  IN  IF why # <<>>
      THEN /\ phone' = Refusing(Head(why))
           /\ UNCHANGED kept
      ELSE /\ phone' = Receiving(m, IF device.opfs THEN Adopted(m, kept) ELSE NothingOf(m))
           /\ kept' = IF device.opfs THEN KeptOthers(m, Swept(kept, m)) ELSE kept

\* A payload of a length and a protocol that reach the v2 parser.
ReachesParser(frame) ==
  frame.length <= MaxFrameBytes /\ DetectProtocolVersion(frame) = 2

\* submitV2(), of a payload the camera has decoded, from whoever showed it:
\* a session takes one manifest, and the symbols that fit it.
Takes(said, origin) ==
  \/ /\ phone.status = "idle"
     /\ said.kind = "manifest"
     /\ Admit(said.fields)
  \/ /\ phone.status = "receiving"
     /\ said.kind = "data"
     /\ DataRefusals(said.fields, phone.manifest, PlanOf(phone.manifest)) = <<>>
     /\ phone.bytes[said.fields.segmentIndex] = Missing
     /\ phone' = [phone EXCEPT !.bytes[said.fields.segmentIndex] = origin]
     /\ UNCHANGED kept

TakesRead(read, origin) == read.ok /\ Takes(read.value, origin)

Submit(frame, origin) ==
  /\ ReachesParser(frame)
  /\ TakesRead(ParseFrame(frame), origin)
  /\ UNCHANGED <<sender, device, code, opened>>

Draws(frame) == DrawnBy(sender.profile, frame.length, Window)

CatchManifest ==
  /\ sender.up
  /\ Draws(sender.frame)
  /\ Submit(sender.frame, Missing)

DataFrames(m, segments) ==
  {DataFrame(m, s[1], s[2]).value :
     s \in UNION {{s} \X SymbolIds(m, s) : s \in segments}}

CatchSymbol ==
  /\ sender.up
  /\ \E frame \in DataFrames(sender.manifest, Shows) :
       Draws(frame) /\ Submit(frame, Origin(sender.manifest))

(***************************************************************************)
(* Frames nobody here made: of another transfer, of a build that differs,   *)
(* or of this one's, misread.                                              *)
(***************************************************************************)
TypeFor == [MANIFEST |-> "none", SOURCE |-> "REPAIR", REPAIR |-> "SOURCE"]

Damaged(frame) ==
  {[frame EXCEPT !.length = @ - 1], [frame EXCEPT !.length = @ + 1],
   [frame EXCEPT !.head.magic = "noise"], [frame EXCEPT !.head.version = 3],
   [frame EXCEPT !.head.type = TypeFor[@]],
   [frame EXCEPT !.body.fields.sessionId = @ + 1],
   [frame EXCEPT !.crc = <<>>]}

Sealed(frame) == [frame EXCEPT !.crc = <<frame.head, frame.body>>]

\* Another desktop's transfer, of one short segment.
StrangerSize == 700
Strange(m) ==
  [m EXCEPT !.sessionId = @ + 50, !.sha256 = "another", !.mode = "NONE", !.param = 0,
            !.originalSize = StrangerSize, !.transportSize = StrangerSize, !.segmentCount = 1]

\* Made by something that computes the checksum, and means something else.
OtherManifests(m) ==
  {Strange(m), [m EXCEPT !.segmentCount = @ + 1],
   [m EXCEPT !.criticalFlags = TRUE], [m EXCEPT !.fec = "RAPTORQ"],
   [m EXCEPT !.mode = "ZSTD"], [m EXCEPT !.transportSize = m.originalSize + 1],
   [m EXCEPT !.filename = @ \o <<".", "exe">>],
   [m EXCEPT !.segmentSize = 65536, !.symbolSize = 32, !.segmentCount = CeilDiv(m.transportSize, 65536)]}

OtherData(d) ==
  {[d EXCEPT !.sessionId = @ + 50,
             !.sourceSymbolCount = CeilDiv(StrangerSize, d.payloadBytes)],
   [d EXCEPT !.segmentIndex = @ + 100],
   [d EXCEPT !.sourceSymbolCount = @ + 1], [d EXCEPT !.payloadBytes = @ - 1],
   [d EXCEPT !.criticalFlags = TRUE]}

WithFields(frame, fields) == Sealed([frame EXCEPT !.body.fields = fields])

Elsewhere == [file |-> "another", symbolSize |-> sender.manifest.symbolSize]

Forged(frame, contents) == Damaged(frame) \cup {WithFields(frame, c) : c \in contents}

OtherFrames(m, frame) ==
  Forged(frame, OtherManifests(m))
  \cup UNION {Forged(data, OtherData(data.body.fields)) :
                data \in {DataFrame(m, s, 0).value : s \in Shows}}

CatchOther ==
  /\ sender.up
  /\ \E frame \in OtherFrames(sender.manifest, sender.frame) : Submit(frame, Elsewhere)

(***************************************************************************)
(* Ends, and the code.                                                     *)
(***************************************************************************)
\* The page goes away: what was committed to origin private files stays.
Interrupt ==
  /\ phone.status # "idle"
  /\ phone' = Idle
  /\ kept' = IF phone.status = "receiving" /\ device.opfs
             THEN <<[manifest |-> phone.manifest, bytes |-> phone.bytes]>> \o kept
             ELSE kept
  /\ UNCHANGED <<sender, device, code, opened>>

\* The file is verified, handed over, and its session removed.
Finish ==
  /\ phone.status = "receiving"
  /\ Committed(phone.bytes) = SegmentsOf(phone.manifest)
  /\ phone' = Idle
  /\ UNCHANGED <<sender, device, kept, code, opened>>

\* discardRetainedSessions(), from the screen before a session.
DiscardRetained ==
  /\ phone.status = "idle"
  /\ kept # <<>>
  /\ kept' = Without(kept, Discarded(ListingOf(kept), Len(kept)))
  /\ UNCHANGED <<sender, device, phone, code, opened>>

ReadCode ==
  /\ phone.status = "receiving"
  /\ LET minted == EncodeTargeted(phone.manifest, Committed(phone.bytes))
     IN  /\ minted.ok
         /\ code' = [read |-> TRUE, manifest |-> phone.manifest, token |-> minted.value,
                     missing |-> SegmentsOf(phone.manifest) \ Committed(phone.bytes)]
  /\ UNCHANGED <<sender, device, phone, kept, opened>>

-----------------------------------------------------------------------------
Init ==
  /\ sender = Closed
  /\ device \in Devices
  /\ phone = Idle
  /\ kept = <<>>
  /\ code = NoCode
  /\ opened = 0

Next ==
  \/ \E f \in Files, id \in 0..4 : Open(f, id)
  \/ \E f \in Files, id \in 1..3, how \in Typings : OpenWithCode(f, id, how)
  \/ Close
  \/ CatchManifest
  \/ CatchSymbol
  \/ CatchOther
  \/ Interrupt
  \/ Finish
  \/ DiscardRetained
  \/ ReadCode

Spec == Init /\ [][Next]_vars

-----------------------------------------------------------------------------
(***************************************************************************)
(* Correctness.                                                            *)
(***************************************************************************)
TypeOK ==
  /\ sender.up => /\ sender.from \in SegmentsOf(sender.manifest)
                  /\ sender.targets \subseteq SegmentsOf(sender.manifest)
                  /\ sender.profile \in {Reliable, Balanced, Turbo}
  /\ device \in Devices
  /\ phone.status \in {"idle", "receiving", "refused"}
  /\ phone.status = "receiving" => DOMAIN phone.bytes = SegmentsOf(phone.manifest)
  /\ Len(kept) <= MaxRetained + 1
  /\ opened \in 0..MaxSessions

\* Whatever a session of the sender puts in a frame, the phone reads just that
\* from it, and reads nothing from one that was cut, lengthened or altered on
\* the way; the receiver of that session takes it and no other does; and the
\* plan it derives lays the symbols of the segments end to end over the transport
\* stream, as the windows of a compressed file lie over the file, so that no byte
\* belongs to two of them or to none.
ReadsBackAs(kind, fields, frame) ==
  /\ ParseFrame(frame) = Accepted([kind |-> kind, fields |-> fields])
  /\ \A other \in Damaged(frame) : DetectProtocolVersion(other) # 2 \/ ~ParseFrame(other).ok

LaysEndToEnd(plan) ==
  LET final == plan.segmentCount - 1
  IN  /\ SegmentRange(plan, 0).from = 0
      /\ SegmentRange(plan, final).to = plan.transportSize
      /\ \A s \in 0..final :
           LET last == SourceSymbolCount(plan, s) - 1
           IN  /\ s < final => SegmentRange(plan, s).to = SegmentRange(plan, s + 1).from
               /\ SymbolRange(plan, s, 0).from = SegmentRange(plan, s).from
               /\ SymbolRange(plan, s, last).to = SegmentRange(plan, s).to
               /\ SymbolRange(plan, s, last).from < SegmentRange(plan, s).to

WindowsLieEndToEnd(size, plan) ==
  /\ \A w \in 0..(plan.windowCount - 2) :
       WindowOriginalRange(plan, w).to = WindowOriginalRange(plan, w + 1).from
  /\ WindowOriginalRange(plan, plan.windowCount - 1).to = size

ReadsWhatWasWritten ==
  sender.up =>
    LET m    == sender.manifest
        name == sender.frame.body.fields.filename
    IN  /\ ReadsBackAs("manifest", [m EXCEPT !.filename = name], sender.frame)
        /\ RoutesRight(ParseFrame(sender.frame), m)
        /\ \A frame \in DataFrames(m, SegmentsOf(m)) :
             /\ ReadsBackAs("data", frame.body.fields, frame)
             /\ DataRefusals(frame.body.fields, m, PlanOf(m)) = <<>>
             /\ RoutesRight(ParseFrame(frame), m)
        /\ PlanOf(m).transportSize = m.transportSize /\ LaysEndToEnd(PlanOf(m))
        /\ m.mode = "GZIP" => WindowsLieEndToEnd(m.originalSize, WindowPlan(m.originalSize, m.param))

\* The bytes of a segment the phone holds, in memory or kept, are of the file
\* its manifest names, cut as its manifest cuts it: whatever other transfers
\* the camera saw, however often the page went away, and whichever file and
\* profile the code was entered for.  A phone without origin private files
\* finishes in memory whatever it admits there, and the hash that is streamed
\* over those bytes is of the padded whole, however they are chunked.
SegmentsAreOfTheFile ==
  /\ MemoryServes /\ ProvisionIsHonest /\ HashIsOfTheWhole
  /\ LET Sound(m, bytes) == \A s \in Committed(bytes) : bytes[s] = Origin(m)
     IN  /\ phone.status = "receiving" => Sound(phone.manifest, phone.bytes)
         /\ \A i \in 1..Len(kept) : Sound(kept[i].manifest, kept[i].bytes)

\* A code names what the phone was missing: read as it is it targets every one
\* of those segments (those alone when the gaps are packed), mistyped it is
\* refused.  A sender that took one has every segment the phone of that session
\* still needs among those it shows, as long as it cuts the file the same way
\* and the phone lost nothing of what the code says it has.  What a phone keeps
\* is what its next session finds and counts, and what it keeps has an end.
ResumeIsExact ==
  /\ CheckpointsCarry /\ SweepsHaveAnEnd /\ ProgressIsExact
  /\ code.read =>
       LET read == DecodeTargeted(Typed(code.token, "copied"))
       IN  /\ read.ok
           /\ code.missing \subseteq Targets(read.value)
           /\ code.token.version = 2 => Targets(read.value) = code.missing
           /\ \A how \in {"mistyped", "foreign", "cut"} :
                ~DecodeTargeted(Typed(code.token, how)).ok
  /\ (/\ sender.up
      /\ phone.status = "receiving"
      /\ SameSession(phone.manifest, sender.manifest)
      /\ phone.manifest.symbolSize = sender.manifest.symbolSize
      /\ SegmentsOf(phone.manifest) \ sender.lacked \subseteq Committed(phone.bytes))
       => SegmentsOf(phone.manifest) \ Committed(phone.bytes) \subseteq Shows

\* A phone in session whose sender is gone can be served again by typing what
\* its screen shows: the desktop's screen takes the code the phone made.
CodeCanBeEntered ==
  code.read => Entered(Typed(code.token, "copied")).ok

=============================================================================
