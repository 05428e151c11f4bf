----------------------------- MODULE ResumeCode -----------------------------
(***************************************************************************)
(* The code a person carries from the phone to the desktop: what the phone  *)
(* packs into it, what is left of it once it has been typed, and what the   *)
(* desktop's screen and its sender make of that.                            *)
(*                                                                         *)
(* A code is its fields and its length; base 32 and the groups it is shown  *)
(* in are not spelled out, its checksum is taken to notice every change,    *)
(* and the five bytes of a digest it carries to tell files apart.  The gaps *)
(* are packed into bytes as the code packs them, because whether they fit   *)
(* is the point.                                                           *)
(***************************************************************************)
EXTENDS FramesV2, FiniteSets

CONSTANTS
  MaxResumeRanges,   \* bound: gaps a code describes (7 in the code)
  RangeBlobBytes,    \* bound: bytes their packing may take (14 in the code)
  VarintBase         \* bound: values a byte of it holds (128 in the code)

ASSUME ResumeAssumption ==
  /\ {MaxResumeRanges, RangeBlobBytes, VarintBase} \subseteq Nat
  /\ MaxResumeRanges > 0 /\ VarintBase > 1

TokenChars == 40
TargetedChars == 64
MaxVarintBytes == 5

(***************************************************************************)
(* The gaps, and their packing.                                            *)
(***************************************************************************)
SumOf(numbers) == FoldLeft(LAMBDA sum, n : sum + n, 0, numbers)

\* The runs of segments without a bit, in order.
Gaps(committed, count) ==
  LET missing == (0..(count - 1)) \ committed
      starts  == {s \in missing : s - 1 \notin missing}
      end(s)  == CHOOSE e \in s..(count - 1) :
                   s..e \subseteq missing /\ e + 1 \notin missing
  IN  [i \in 1..Cardinality(starts) |->
         LET s == SetToSortSeq(starts, <)[i] IN [start |-> s, length |-> end(s) - s + 1]]

TrailingRun(gaps, count) ==
  \/ gaps = <<>>
  \/ Len(gaps) = 1 /\ gaps[1].start + gaps[1].length >= count

\* A number, low digits first; a byte of VarintBase or more says more follow.
Varint(value) ==
  LET digits == CHOOSE n \in 1..5 :
                  value < VarintBase^n /\ (n > 1 => value >= VarintBase^(n - 1))
  IN  [i \in 1..digits |->
         ((value \div VarintBase^(i - 1)) % VarintBase) + IF i < digits THEN VarintBase ELSE 0]

\* Each gap as its distance from the end of the one before and its length.
Packed(gaps) ==
  FlattenSeq([i \in 1..Len(gaps) |->
    LET behind == IF i = 1 THEN 0 ELSE gaps[i - 1].start + gaps[i - 1].length
    IN  Varint(gaps[i].start - behind) \o Varint(gaps[i].length - 1)])

Packs(gaps) ==
  /\ Len(gaps) \in 1..MaxResumeRanges
  /\ \A i \in DOMAIN gaps :
       /\ gaps[i].length >= 1
       /\ i > 1 => gaps[i].start >= gaps[i - 1].start + gaps[i - 1].length
  /\ Len(Packed(gaps)) <= RangeBlobBytes

\* Where the numbers of a packing end: at bytes that say no more follow.
Ends(blob) == SetToSortSeq({i \in 1..Len(blob) : blob[i] < VarintBase}, <)
NumberStart(blob, k) == IF k = 1 THEN 1 ELSE Ends(blob)[k - 1] + 1

Numbers(blob) ==
  LET ends == Ends(blob)
      from(k) == NumberStart(blob, k)
  IN  [k \in 1..Len(ends) |->
         SumOf([i \in 1..(ends[k] - from(k) + 1) |->
                  (blob[from(k) + i - 1] % VarintBase) * VarintBase^(i - 1)])]

\* (mutant)
UnpackedFromStarts(blob) ==
  LET n == Numbers(blob)
      start(k) == SumOf([i \in 1..k |-> n[2 * i - 1]])
  IN  [k \in 1..(Len(n) \div 2) |-> [start |-> start(k), length |-> n[2 * k] + 1]]

Unpacked(blob) ==
  LET n == Numbers(blob)
      start(k) == SumOf([i \in 1..(2 * k - 1) |-> n[i] + IF i % 2 = 0 THEN 1 ELSE 0])
  IN  [k \in 1..(Len(n) \div 2) |-> [start |-> start(k), length |-> n[2 * k] + 1]]

UnpackRefusals(blob, count) ==
  LET gaps == Unpacked(blob)
  IN  Check(\/ Len(blob) > RangeBlobBytes
            \/ blob # <<>> /\ blob[Len(blob)] >= VarintBase
            \/ \E k \in DOMAIN Ends(blob) : Ends(blob)[k] - NumberStart(blob, k) >= MaxVarintBytes
            \/ Len(Numbers(blob)) % 2 = 1
            \/ Len(gaps) > MaxResumeRanges
            \/ \E i \in 1..Len(gaps) : gaps[i].start + gaps[i].length > count,
            "RESUME_TOKEN_RANGE")

(***************************************************************************)
(* The phone's side.                                                       *)
(***************************************************************************)
FirstMissing(committed, count) ==
  CHOOSE s \in 0..count : s \notin committed /\ \A t \in 0..(s - 1) : t \in committed

\* What an encoder throws at: a manifest that was admitted has none of it.
EncodeRefusals(m, from) ==
     Check(~{m.sessionId, m.fileId} \subseteq 0..MaxU32, "not 32 bits")
  \o Check(m.segmentCount \notin 1..MaxU32, "segment count")
  \o Check(from \notin 0..m.segmentCount, "restart point")

\* encodeTargetedResumeToken(): what resumeToken() mints from the bitmap.
EncodeTargeted(m, committed) ==
  LET gaps     == Gaps(committed, m.segmentCount)
      from     == FirstMissing(committed, m.segmentCount)
      targeted == ~TrailingRun(gaps, m.segmentCount) /\ Packs(gaps)
  IN  Answer(EncodeRefusals(m, from),
        [version      |-> IF targeted THEN 2 ELSE 1,
         chars        |-> IF targeted THEN TargetedChars ELSE TokenChars,
         sessionId    |-> m.sessionId,
         fileId       |-> m.fileId,
         segmentCount |-> m.segmentCount,
         resumeFrom   |-> from,
         digest       |-> m.sha256,
         blob         |-> IF targeted THEN Packed(gaps) ELSE <<>>])

(***************************************************************************)
(* What is typed: the code as it is or with its separators, its case or a   *)
(* folded letter changed, one letter mistyped, one that no code uses, or    *)
(* its end missed.                                                          *)
(***************************************************************************)
Typings == {"copied", "folded", "mistyped", "foreign", "cut"}

Typed(code, how) ==
  [code   |-> code,
   chars  |-> IF how = "cut" THEN code.chars - 1 ELSE code.chars,
   sound  |-> how \in {"copied", "folded", "cut"},
   spelt  |-> how # "foreign"]

\* decodeResumeToken() and decodeTargetedResumeToken(), of what was typed.
DecodeRefusals(typed, version) ==
     Check(~typed.spelt, "RESUME_TOKEN_CHARSET")
  \o Check(~typed.sound \/ typed.chars # typed.code.chars, "RESUME_TOKEN_CHECKSUM")
  \o Check(typed.code.version # version, "RESUME_TOKEN_VERSION")
  \o Check(typed.code.segmentCount < 1
             \/ typed.code.resumeFrom > typed.code.segmentCount, "RESUME_TOKEN_RANGE")

DecodeShort(typed) ==
  IF typed.chars # TokenChars THEN Refused(<<"RESUME_TOKEN_LENGTH">>)
  ELSE Answer(DecodeRefusals(typed, 1), [code |-> typed.code, missing |-> <<>>])

DecodeTargeted(typed) ==
  CASE typed.chars = TokenChars -> DecodeShort(typed)
    [] typed.chars = TargetedChars ->
         Answer(DecodeRefusals(typed, 2)
                  \o UnpackRefusals(typed.code.blob, typed.code.segmentCount),
                [code |-> typed.code, missing |-> Unpacked(typed.code.blob)])
    [] OTHER -> Refused(<<"RESUME_TOKEN_LENGTH">>)

\* The desktop's screen keeps the first forty letters and digits it is given,
\* names what is wrong with them once it has forty, and hands them on if nothing
\* is; the main process takes up to 128 characters, which those never are.
Entered(typed) ==
  LET kept == [typed EXCEPT !.chars = IF @ > TokenChars THEN TokenChars ELSE @]
  IN  IF kept.chars # TokenChars THEN Refused(<<"RESUME_TOKEN_LENGTH">>)
      ELSE IF DecodeShort(kept).ok THEN Accepted(kept) ELSE DecodeShort(kept)

(***************************************************************************)
(* The sender's side.                                                      *)
(***************************************************************************)
Targets(token) ==
  IF token.missing # <<>>
  THEN UNION {g.start..(g.start + g.length - 1) : g \in ToSet(token.missing)}
  ELSE token.code.resumeFrom..(token.code.segmentCount - 1)

ResumeRefusals(token, sha256, plan) ==
     Check(token.code.digest # sha256, "RESUME_FILE_MISMATCH")
  \o Check(token.code.segmentCount # plan.segmentCount, "RESUME_PLAN_MISMATCH")

\* applyResume(), of what was typed.
ApplyResume(typed, sha256, plan) ==
  LET decoded == DecodeTargeted(typed)
  IN  IF ~decoded.ok THEN Refused(<<"RESUME_TOKEN_INVALID">>)
      ELSE Answer(ResumeRefusals(decoded.value, sha256, plan), decoded.value)
=============================================================================
