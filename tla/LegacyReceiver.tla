----------------------------- MODULE LegacyReceiver -----------------------------
(***************************************************************************)
(* The phone's pipeline as protocol v1 sees it: ReceivePipeline.submit(),   *)
(* verify() and reset() (receive-pipeline.ts) around the v1 ReceiverSession  *)
(* of mobile-web/src/protocol.ts.  A v2 session in the same pipeline is      *)
(* followed only as far as the two protocols share state; what happens       *)
(* inside it is OpticalTransfer.tla's subject.                             *)
(*                                                                         *)
(* A verification suspends while the browser digests, so the session it       *)
(* began in may have failed or been cancelled when the digest arrives.       *)
(***************************************************************************)
EXTENDS FountainV1, Integers

CONSTANT MaxResets     \* bound: receptions after the first

ASSUME LegacyReceiverAssumption == MaxResets \in Nat

VARIABLES
  pipe,       \* the pipeline's own fields
  v1,         \* the ReceiverSession; state "none" where there is none
  digests,    \* verifyOnce() calls that are waiting for the digest
  answer,     \* what the last verify() resolved to
  resets

receiverVars == <<pipe, v1, digests, answer, resets>>

NewPipe == [protocol |-> 0, complete |-> FALSE, fault |-> "none", dedupe |-> {},
            v2 |-> "none", v2Stored |-> FALSE]

NewSession == [state |-> "READY", active |-> 0, decoder |-> FreshDecoder,
               verifying |-> FALSE, verified |-> << >>, error |-> "none", generation |-> 0]

NoV1 == [NewSession EXCEPT !.state = "none"]

LegacyReceiverInit ==
  /\ pipe = NewPipe
  /\ v1 = NoV1
  /\ digests = {}
  /\ answer = "none"
  /\ resets = 0

-----------------------------------------------------------------------------
(* ReceiverSession *)

\* failed(): the generation moves, so that a digest on its way finds it moved.
FailedWith(s, error) ==
  [s EXCEPT !.generation = @ + 1, !.verifying = FALSE, !.decoder = FreshDecoder,
            !.verified = << >>, !.error = error, !.state = "FAILED"]

Refusals == {"INVALID_FRAME", "CONFLICTING_DUPLICATE", "RESOURCE_LIMIT_EXCEEDED"}

IsForeign(s, fr) == s.active \notin {0, fr.session}

\* (mutant) The state of the session is whatever the decoder answered.
ReceivedAsAnswered(s, fr) ==
  LET got == PhoneReceive(s.decoder, fr)
  IN  [s EXCEPT !.active = fr.session, !.decoder = got.decoder, !.state = got.outcome]

\* receive(), for a frame that parses.
Received(s, fr) ==
  LET got    == PhoneReceive(s.decoder, fr)
      opened == [s EXCEPT !.active = fr.session]
  IN  IF s.state \in {"COMPLETE", "FAILED", "CANCELLED"} \/ IsForeign(s, fr) THEN s
      ELSE IF got.outcome \in Refusals THEN FailedWith(opened, got.outcome)
      ELSE [opened EXCEPT !.decoder = got.decoder,
                          !.state = IF @ = "VERIFYING" \/ got.outcome = "complete"
                                      THEN "VERIFYING" ELSE "RECEIVING"]

\* cancel(): clear() moves the generation as well.
Cancelled(s) ==
  IF s.state = "none" THEN s
  ELSE [NewSession EXCEPT !.generation = s.generation + 1, !.state = "CANCELLED"]

-----------------------------------------------------------------------------
(* submit() *)

Unseen(fr) == ~pipe.complete /\ fr \notin pipe.dedupe

\* submitV1().  The protocol becomes v1 whatever was going on before.
SubmitV1(fr) ==
  /\ Unseen(fr)
  /\ LET before == IF v1.state = "none" THEN NewSession ELSE v1
         after  == Received(before, fr)
     IN  /\ v1' = after
         /\ pipe' = [pipe EXCEPT !.protocol = 1, !.dedupe = @ \cup {fr},
                       !.fault = IF after.state = "FAILED" THEN after.error ELSE @,
                       !.complete = after.state = "VERIFYING" /\ before.state # "VERIFYING"]
  /\ UNCHANGED <<digests, answer, resets>>

\* beginV2Session(): a manifest that is willing to be received.
SubmitManifest ==
  /\ ~pipe.complete
  /\ pipe.v2 = "none" /\ pipe.fault = "none"
  /\ pipe' = [pipe EXCEPT !.protocol = 2, !.v2 = "provisioning"]
  /\ UNCHANGED <<v1, digests, answer, resets>>

\* onProvisioned(): storage answers, or refuses.
Provisioned ==
  /\ pipe.v2 = "provisioning"
  /\ \/ pipe' = [pipe EXCEPT !.v2 = "open"]
     \/ pipe' = [pipe EXCEPT !.v2 = "none", !.fault = "STORAGE_OPEN_FAILED"]
  /\ UNCHANGED <<v1, digests, answer, resets>>

\* The v2 frame that completes the last segment.  A fault stops it short of
\* complete, whichever protocol it came from.
SubmitLastV2 ==
  /\ ~pipe.complete
  /\ pipe.v2 = "open" /\ ~pipe.v2Stored
  /\ pipe' = [pipe EXCEPT !.v2Stored = TRUE, !.complete = (pipe.fault = "none")]
  /\ UNCHANGED <<v1, digests, answer, resets>>

-----------------------------------------------------------------------------
(* verify() and reset() *)

Answer(what) == answer' = what

\* Verification is asked for once, when the transfer says it is complete.
AsksV2 ==
  /\ pipe.complete /\ answer = "none"
  /\ pipe.protocol = 2
  /\ Answer(IF pipe.fault # "none" THEN "failed"
            ELSE IF pipe.v2Stored THEN "v2 verified" ELSE "TRANSFER_INCOMPLETE")
  /\ UNCHANGED <<pipe, v1, digests, resets>>

\* The v1 session has nothing to verify.
AsksV1Early ==
  /\ pipe.complete /\ answer = "none"
  /\ pipe.protocol = 1 /\ v1.state # "VERIFYING"
  /\ Answer("TRANSFER_INCOMPLETE")
  /\ UNCHANGED <<pipe, v1, digests, resets>>

\* verifyOnce() up to the digest.  A container that does not parse, is encrypted
\* or names a blocked file fails at once; so may one whose name was misread.
AsksV1 ==
  /\ pipe.complete /\ answer = "none"
  /\ pipe.protocol = 1 /\ v1.state = "VERIFYING"
  /\ \/ /\ v1' = [v1 EXCEPT !.verifying = TRUE]
        /\ digests' = digests \cup {[session |-> resets, generation |-> v1.generation,
                                     blocks |-> v1.decoder.blocks]}
        /\ Answer("pending")
     \/ /\ v1' = FailedWith(v1, "INVALID_METADATA")
        /\ UNCHANGED digests
        /\ Answer("failed")
  /\ UNCHANGED <<pipe, resets>>

\* The container's SHA-256 is that of the container's payload.
DigestMatches(blocks) == Hashed(blocks) # {}

\* (mutant) The session the digest was started for is not asked after.
IsAnyones(job) == TRUE

IsCurrent(job) == job.session = resets /\ job.generation = v1.generation

\* The digest arrives.  When the generation moved it is thrown away.
DigestArrives(job) ==
  /\ job \in digests
  /\ digests' = digests \ {job}
  /\ IF ~IsCurrent(job)
       THEN UNCHANGED <<v1, answer>>
     ELSE IF ~DigestMatches(job.blocks)
       THEN /\ v1' = FailedWith(v1, "HASH_MISMATCH")
            /\ Answer("failed")
     ELSE /\ v1' = [v1 EXCEPT !.state = "COMPLETE", !.verified = job.blocks,
                              !.decoder = FreshDecoder, !.verifying = FALSE]
          /\ Answer("v1 verified")
  /\ UNCHANGED <<pipe, resets>>

\* (mutant) The v1 session is left out of the reset.
ResetKeepsV1 ==
  /\ resets < MaxResets
  /\ pipe # NewPipe
  /\ resets' = resets + 1
  /\ pipe' = NewPipe
  /\ answer' = "none"
  /\ UNCHANGED <<v1, digests>>

\* reset(): for the next reception, or because this one is cancelled.
Reset ==
  /\ resets < MaxResets
  /\ pipe # NewPipe
  /\ resets' = resets + 1
  /\ pipe' = NewPipe
  /\ v1' = NoV1
  /\ answer' = "none"
  /\ UNCHANGED digests

LegacyReceiverSteps ==
  \/ SubmitManifest \/ Provisioned \/ SubmitLastV2
  \/ AsksV2 \/ AsksV1Early \/ AsksV1
  \/ \E job \in digests : DigestArrives(job)
  \/ Reset

-----------------------------------------------------------------------------
LegacyReceiverTypeOK ==
  /\ pipe.protocol \in 0 .. 2 /\ pipe.complete \in BOOLEAN
  /\ pipe.v2 \in {"none", "provisioning", "open"} /\ pipe.v2Stored \in BOOLEAN
  /\ v1.state \in {"none", "READY", "RECEIVING", "VERIFYING", "COMPLETE", "FAILED", "CANCELLED"}
  /\ answer \in {"none", "pending", "failed", "v1 verified", "v2 verified", "TRANSFER_INCOMPLETE"}

\* What the camera made of a frame of this file, in whatever it misread.
IsFrameOf(f, fr) == {part \in fr.payload : part[1][1] = f} = SymbolOf(f, fr.seq)

\* A file is verified only for the reception that is going on, out of frames of its
\* container that this reception caught; and its name is its own, unless one of the
\* frames this reception caught was misread.
V1VerdictIsTrue ==
  v1.state = "COMPLETE" =>
    /\ pipe.complete
    /\ \E f \in Hashed(v1.verified) :
         /\ Solvable({fr.seq : fr \in {caught \in pipe.dedupe : IsFrameOf(f, caught)}}) = Blocks
         /\ f \in Spells(v1.verified) \/ \E fr \in pipe.dedupe : IsMisread(fr)

\* What the session's decoder has solved is what its symbols determine.
V1Recovers ==
  v1.state \in {"RECEIVING", "VERIFYING"} =>
    SolvedBlocks(v1.decoder) = Solvable({s.seq : s \in v1.decoder.seen})
=============================================================================
