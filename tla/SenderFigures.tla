---------------------------- MODULE SenderFigures ----------------------------
(***************************************************************************)
(* The figures on the sender's screen (sender-model.ts), and how            *)
(* StreamTransferView feeds them: it polls the session's counters at a      *)
(* fixed period, held or not, and forgets what it sampled when a hold       *)
(* begins.                                                                 *)
(*                                                                         *)
(* Both meters are functions of the samples they hold; a transfer is the    *)
(* history of its polls.  A rate is [moved, span], never divided, so that   *)
(* what is compared is exact.                                              *)
(***************************************************************************)
EXTENDS Integers, Sequences, FiniteSets

Tolerance == 35   \* ETA_STABILITY_TOLERANCE, in hundredths

\* What the two meters are built with; times are in polls of 500 ms.
EtaDefaults  == [window |-> 60, keep |-> 2, minSamples |-> 4,
                 minEtaSamples |-> 10, minEtaWindow |-> 12]
WireDefaults == [window |-> 20, keep |-> 1, minSamples |-> 3]

\* bound: the same meters, small enough for every history of a few polls.
SmallEta  == [window |-> 4, keep |-> 2, minSamples |-> 2, minEtaSamples |-> 3, minEtaWindow |-> 2]
SmallWire == [window |-> 3, keep |-> 1, minSamples |-> 2]

Newest(samples) == samples[Len(samples)]

\* What is older than the window goes, oldest first, down to the few kept.
Trimmed(samples, meter) ==
  LET cutoff == Newest(samples).at - meter.window
      stale  == {i \in 1..(Len(samples) - meter.keep) : samples[i].at < cutoff}
  IN  SubSeq(samples, Cardinality(stale) + 1, Len(samples))

\* observe(): time does not run backwards.
Observe(samples, sample, meter) ==
  IF samples # <<>> /\ sample.at <= Newest(samples).at THEN samples
  ELSE Trimmed(Append(samples, sample), meter)

Between(a, b) == [moved |-> b.bytes - a.bytes, span |-> b.at - a.at]

(***************************************************************************)
(* EtaEstimator.read()                                                     *)
(***************************************************************************)
\* The recent half, against the whole, differs by more than the tolerance.
Drifts(recent, whole) ==
  LET a == recent.moved * whole.span
      b == whole.moved * recent.span
  IN  100 * (IF a > b THEN a - b ELSE b - a) > Tolerance * b

Midpoint(samples) == samples[(Len(samples) \div 2) + 1]

\* (mutant)
UnquestionedEta(samples, total, meter) ==
  LET whole == Between(samples[1], Newest(samples))
  IN  IF Len(samples) < meter.minSamples \/ whole.moved <= 0
      THEN [rate |-> [moved |-> 0, span |-> 0], eta |-> {}, withheld |-> "NOT_MOVING"]
      ELSE [rate |-> whole, withheld |-> "no",
            eta |-> {[remaining |-> total - Newest(samples).bytes, at |-> whole]}]

\* The remaining time is what remains at the recent rate.
EtaReading(samples, total, meter) ==
  LET count  == Len(samples)
      whole  == Between(samples[1], Newest(samples))
      recent == Between(Midpoint(samples), Newest(samples))
      rest   == total - Newest(samples).bytes
      none   == [moved |-> 0, span |-> 0]
      withheld(rate, why) == [rate |-> rate, eta |-> {}, withheld |-> why]
  IN  IF count < meter.minSamples THEN withheld(none, "TOO_FEW_SAMPLES")
      ELSE IF whole.moved <= 0 THEN withheld(none, "NOT_MOVING")
      ELSE IF count < meter.minEtaSamples THEN withheld(whole, "TOO_FEW_SAMPLES")
      ELSE IF whole.span < meter.minEtaWindow THEN withheld(whole, "WINDOW_TOO_SHORT")
      ELSE IF recent.span <= 0 \/ Drifts(recent, whole) THEN withheld(whole, "RATE_UNSTABLE")
      ELSE [rate |-> whole, withheld |-> "no",
            eta |-> {[remaining |-> IF rest > 0 THEN rest ELSE 0, at |-> recent]}]

\* OpticalRateMeter.read(): a rate, or none.
WireRate(samples, meter) ==
  IF Len(samples) < meter.minSamples THEN {}
  ELSE {r \in {Between(samples[1], Newest(samples))} : r.span > 0 /\ r.moved > 0}

(***************************************************************************)
(* StreamTransferView                                                      *)
(***************************************************************************)
Rate == 10        \* bound: bytes of the file shown between two polls, while it streams
Overhead == 13    \* bound: bytes on the wire for them

Opened == [now |-> 0, held |-> FALSE, covered |-> 0, wire |-> 0, eta |-> <<>>, meter |-> <<>>]

\* The screen forgets when a hold begins, and goes on polling.
Held(view) == IF view.held THEN view ELSE [view EXCEPT !.held = TRUE, !.eta = <<>>, !.meter = <<>>]

Polled(view, etaMeter, wireMeter) ==
  [view EXCEPT !.eta   = Observe(@, [at |-> view.now, bytes |-> view.covered], etaMeter),
               !.meter = Observe(@, [at |-> view.now, bytes |-> view.wire], wireMeter)]

\* One poll period: streamed, or held from its start to its end, or streamed
\* with the poll's answer lost.
Step(view, how, etaMeter, wireMeter) ==
  LET on == IF how = "held" THEN [Held(view) EXCEPT !.now = @ + 1]
            ELSE [view EXCEPT !.held = FALSE, !.now = @ + 1,
                              !.covered = @ + Rate, !.wire = @ + Overhead]
  IN  IF how = "lost" THEN on ELSE Polled(on, etaMeter, wireMeter)

View(history, etaMeter, wireMeter) ==
  LET after[n \in 0..Len(history)] ==
        IF n = 0 THEN Polled(Opened, etaMeter, wireMeter)
        ELSE Step(after[n - 1], history[n], etaMeter, wireMeter)
  IN  after[Len(history)]

(***************************************************************************)
(* readTransfer() and what is said of it                                   *)
(***************************************************************************)
\* In hundredths, capped where a count overtakes its total.
RatioOf(part, whole) ==
  IF whole <= 0 THEN 0 ELSE IF part >= whole THEN 100 ELSE (100 * part) \div whole

Readout(p) ==
  [fraction |-> RatioOf(p.covered, p.transport),
   originalCovered |-> IF p.covered = p.transport THEN p.original
                       ELSE IF p.transport > 0 THEN (p.original * p.covered) \div p.transport ELSE 0,
   position |-> IF p.segments = 0 THEN 0
                ELSE IF p.segment + 1 > p.segments THEN p.segments ELSE p.segment + 1]

\* Either witness of the tail is enough.
RecoveringNow(told, polled) == told \/ polled

Remaining(recovering, reading) ==
  IF recovering THEN "awaiting receiver"
  ELSE IF reading.eta # {} THEN "a time"
  ELSE IF reading.withheld = "NOT_MOVING" THEN "waiting for frames" ELSE "measuring"
-----------------------------------------------------------------------------
(* Properties *)

LastAre(history, n, how) ==
  Len(history) >= n /\ \A i \in (Len(history) - n + 1)..Len(history) : history[i] \in how

\* Of a transfer that streams at a constant rate, a remaining time is right
\* or is not shown, however often it is held, although the polls of a hold are
\* samples like any other: the whole of the window and its recent half disagree
\* for as long as that would matter.  A lost poll makes the estimate coarser,
\* so it is about histories without.  And what a meter shows of a wire that
\* streams is the rate it streams at, once a window of it has passed: a hold is
\* in the reading until then.
FiguresOf(history, etaMeter, wireMeter) ==
  LET view    == View(history, etaMeter, wireMeter)
      total   == 1000
      reading == EtaReading(view.eta, total, etaMeter)
  IN  /\ (\A i \in 1..Len(history) : history[i] # "lost") =>
           \A given \in reading.eta :
             /\ given.remaining = total - view.covered
             /\ given.at.moved = Rate * given.at.span
      /\ \A rate \in WireRate(view.meter, wireMeter) : rate.moved <= Overhead * rate.span
      /\ LastAre(history, wireMeter.window + 1, {"streamed"}) =>
           WireRate(view.meter, wireMeter) # {}
             /\ \A rate \in WireRate(view.meter, wireMeter) : rate.moved = Overhead * rate.span
      /\ view.held => reading.eta = {} /\ WireRate(view.meter, wireMeter) = {}

Histories == UNION {[1..n -> {"streamed", "held", "lost"}] : n \in 0..7}   \* bound: polls

\* A start, a hold and what follows it, polled as the code polls.
LongHistory(a, b, c) ==
  [i \in 1..(a + b + c) |-> IF i > a /\ i <= a + b THEN "held" ELSE "streamed"]

\* The bar and the numbers beside it stay within the file and reach its end
\* together, and a screen that says recovery frames are sent names no time.
ReadoutsAgree ==
  /\ \A covered, transport, original \in 0..4, nth, count \in 0..3 :
       LET r == Readout([covered |-> covered, transport |-> transport, original |-> original,
                         segment |-> nth, segments |-> count])
       IN  covered <= transport =>
             /\ r.fraction \in 0..100 /\ r.originalCovered \in 0..original
             /\ r.position <= count
             /\ (transport > 0 /\ r.fraction = 100) => r.originalCovered = original
  /\ \A told, polled \in BOOLEAN, withheld \in {"NOT_MOVING", "no"} :
       RecoveringNow(told, polled) =>
         Remaining(RecoveringNow(told, polled), [eta |-> {}, withheld |-> withheld]) = "awaiting receiver"

FiguresAreRight ==
  /\ \A history \in Histories : FiguresOf(history, SmallEta, SmallWire)
  /\ \A a \in {0, 15}, b \in {0, 1, 15}, c \in 0..75 : FiguresOf(LongHistory(a, b, c), EtaDefaults, WireDefaults)
  /\ ReadoutsAgree
=============================================================================
