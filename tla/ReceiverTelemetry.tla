------------------------- MODULE ReceiverTelemetry -------------------------
(***************************************************************************)
(* What the receiver says of itself while it runs (metrics.ts): rates over  *)
(* a short window, quantiles of the latest latencies, and counters that the *)
(* camera and the client feed; the reasons the pipeline counts refusals by; *)
(* and the timeline and the summary of a diagnostics report.                *)
(*                                                                         *)
(* Times are milliseconds.  A value that may be missing is {} or {value}.   *)
(***************************************************************************)
EXTENDS WorkerWire, FiniteSetsExt

TotalOf(f) == MapThenSumSet(LAMBDA k : f[k], DOMAIN f)

(***************************************************************************)
(* RateWindow: a ring of buckets, each with the interval it counts in.      *)
(***************************************************************************)
BucketMs == 2   \* bound: for a quarter of a second
Buckets  == 3   \* bound: for eight
NoBucket == [stamp |-> -1, count |-> 0]

NewRate == [slot \in 0..(Buckets - 1) |-> NoBucket]

ResetRate(rate) == [slot \in DOMAIN rate |-> NoBucket]

\* (mutant)
CountAlways(rate, at) ==
  LET index == at \div BucketMs
  IN  [rate EXCEPT ![index % Buckets] = [stamp |-> index, count |-> @.count + 1]]

RecordRate(rate, at) ==
  LET index == at \div BucketMs
  IN  [rate EXCEPT ![index % Buckets] =
         [stamp |-> index, count |-> IF @.stamp = index THEN @.count + 1 ELSE 1]]

\* perSecond(), as the events in the window it divides by.
InWindow(rate, at) ==
  LET newest == at \div BucketMs
  IN  TotalOf([slot \in DOMAIN rate |->
                 IF rate[slot].stamp \in (newest - Buckets + 1)..newest THEN rate[slot].count ELSE 0])

(***************************************************************************)
(* LatencyReservoir: the most recent samples, in a ring.                    *)
(***************************************************************************)
Capacity == 3   \* bound: for 256

NewReservoir == [samples |-> [i \in 0..(Capacity - 1) |-> 0], head |-> 0, filled |-> 0]

RecordMs(r, ms) ==
  IF ~IsCount(ms) THEN r
  ELSE [samples |-> [r.samples EXCEPT ![r.head] = ms],
        head    |-> (r.head + 1) % Capacity,
        filled  |-> IF r.filled < Capacity THEN r.filled + 1 ELSE r.filled]

ResetReservoir(r) ==
  [samples |-> [i \in DOMAIN r.samples |-> 0], head |-> 0, filled |-> 0]

CeilShare(share, n) == (share * n + 99) \div 100

\* quantile(), of a share in hundredths: the sample at the nearest rank.
Quantile(r, share) ==
  LET held == 0..(r.filled - 1)
      up   == CeilShare(share, r.filled) - 1
      rank == IF up < 0 THEN 0 ELSE IF up > r.filled - 1 THEN r.filled - 1 ELSE up
  IN  {v \in {r.samples[i] : i \in held} :
         /\ Cardinality({i \in held : r.samples[i] < v}) <= rank
         /\ Cardinality({i \in held : r.samples[i] <= v}) > rank}

(***************************************************************************)
(* LongTaskMonitor, in a browser [observer, types, throws]: types is        *)
(* "unlisted" where the browser names none.                                *)
(***************************************************************************)
NewMonitor == [observers |-> 0, count |-> 0, longest |-> 0]

Supported(browser) == browser.observer /\ browser.types \in {"unlisted", "longtask"}

\* (mutant)
StartAgain(monitor, browser) ==
  IF ~Supported(browser) \/ browser.throws THEN monitor ELSE [monitor EXCEPT !.observers = @ + 1]

StartMonitor(monitor, browser) ==
  IF monitor.observers > 0 \/ ~Supported(browser) \/ browser.throws THEN monitor
  ELSE [monitor EXCEPT !.observers = 1]

StopMonitor(monitor) == [monitor EXCEPT !.observers = 0]

\* Every observer there is hears of the task.
LongTask(monitor, ms) ==
  [monitor EXCEPT !.count = @ + monitor.observers,
                  !.longest = IF monitor.observers > 0 /\ ms > @ THEN ms ELSE @]

ResetMonitor(monitor) == [monitor EXCEPT !.count = 0, !.longest = 0]

(***************************************************************************)
(* TelemetryCollector.                                                     *)
(***************************************************************************)
FreshTelemetry ==
  [captured |-> 0, callbacks |-> 0, attempts |-> 0, skipped |-> 0, recovered |-> 0,
   stale |-> 0, decoded |-> 0, successes |-> 0, duplicates |-> 0, fresh |-> 0,
   parse |-> 0, foreign |-> 0, solved |-> 0, optical |-> {},
   startedAt |-> {}, firstNewAt |-> {}, lastNewAt |-> {},
   captures |-> NewRate, decodes |-> NewRate, uniques |-> NewRate,
   decodeMs |-> NewReservoir, pipelineMs |-> NewReservoir]

First(known, at) == IF known = {} THEN {at} ELSE known

RecordCapture(t, at) ==
  [t EXCEPT !.captured = @ + 1, !.callbacks = @ + 1, !.attempts = @ + 1,
            !.captures = RecordRate(@, at), !.startedAt = First(@, at)]

RecordSkippedBusy(t) == [t EXCEPT !.skipped = @ + 1, !.callbacks = @ + 1]

RecordStalledRecovery(t) == [t EXCEPT !.recovered = @ + 1]

RecordDecoded(t, at, m, unique, duplicate) ==
  LET counted == [t EXCEPT !.decoded = @ + 1, !.decodes = RecordRate(@, at),
                           !.decodeMs = RecordMs(@, m.decodeMs),
                           !.pipelineMs = RecordMs(@, m.pipelineMs),
                           !.duplicates = IF duplicate THEN @ + 1 ELSE @]
  IN  IF ~unique THEN counted
      ELSE [counted EXCEPT !.uniques = RecordRate(@, at), !.fresh = @ + 1,
                           !.firstNewAt = First(@, at), !.lastNewAt = {at}]

\* (mutant)
RecordUnreadToo(t, m, reason, at) ==
  LET counts == CountedAs(m.outcome, reason)
      named  == [t EXCEPT !.stale = m.staleDropped]
      read   == RecordDecoded([named EXCEPT !.successes = @ + 1], at, m, "new" \in counts, "duplicate" \in counts)
  IN  IF m.outcome = "stale" THEN named
      ELSE [read EXCEPT !.parse   = IF "parse" \in counts THEN @ + 1 ELSE @,
                        !.foreign = IF "foreign" \in counts THEN @ + 1 ELSE @,
                        !.solved  = IF "new" \in counts THEN @ + 1 ELSE @]

\* recordFrame(), of the client: an answer of the session that runs.
RecordFrame(t, m, reason, at) ==
  LET counts == CountedAs(m.outcome, reason)
      named  == [t EXCEPT !.stale = m.staleDropped]
      seen   == IF m.outcome = "stale" THEN named ELSE [named EXCEPT !.optical = @ \cup m.observed]
      read   == RecordDecoded([seen EXCEPT !.successes = @ + 1], at, m, "new" \in counts, "duplicate" \in counts)
  IN  IF ~Read(m.outcome) THEN seen
      ELSE [read EXCEPT !.parse   = IF "parse" \in counts THEN @ + 1 ELSE @,
                        !.foreign = IF "foreign" \in counts THEN @ + 1 ELSE @,
                        !.solved  = IF "new" \in counts THEN @ + 1 ELSE @]

ResetTelemetry(t) ==
  [t EXCEPT !.captured = 0, !.callbacks = 0, !.attempts = 0, !.skipped = 0, !.recovered = 0,
            !.stale = 0, !.decoded = 0, !.successes = 0, !.duplicates = 0, !.fresh = 0,
            !.parse = 0, !.foreign = 0, !.solved = 0, !.optical = {},
            !.startedAt = {}, !.firstNewAt = {}, !.lastNewAt = {},
            !.captures = ResetRate(@), !.decodes = ResetRate(@), !.uniques = ResetRate(@),
            !.decodeMs = ResetReservoir(@), !.pipelineMs = ResetReservoir(@)]

\* snapshot(), of what is not one of the counters.
Snapshot(t, at) ==
  [captureRate |-> InWindow(t.captures, at), decodeRate |-> InWindow(t.decodes, at),
   uniqueRate  |-> InWindow(t.uniques, at),
   decodeP50   |-> Quantile(t.decodeMs, 50), decodeP95 |-> Quantile(t.decodeMs, 95),
   acquisition |-> {first - from : first \in t.firstNewAt, from \in t.startedAt}]

\* tallyRejection(): a reason that is new is counted while there is room.
MaxReasons == 2   \* bound: for MAX_REJECTION_REASONS
Tallied(tally, reason) ==
  IF reason \in DOMAIN tally THEN [tally EXCEPT ![reason] = @ + 1]
  ELSE IF Cardinality(DOMAIN tally) >= MaxReasons THEN tally
  ELSE [r \in DOMAIN tally \cup {reason} |-> IF r = reason THEN 1 ELSE tally[r]]

(***************************************************************************)
(* A diagnostics report: its timeline, by a clock that may be set back, and *)
(* what is computed of it.                                                 *)
(***************************************************************************)
IntervalMs == 500

NewTimeline == [startedAt |-> {}, samples |-> <<>>]

StartTimeline(at) == [startedAt |-> {at}, samples |-> <<>>]

\* (mutant)
SampleAlways(line, at, bytes) ==
  LET from == First(line.startedAt, at)
  IN  [startedAt |-> from,
       samples   |-> Append(line.samples, [elapsed |-> at - (CHOOSE x \in from : TRUE), bytes |-> bytes])]

Sample(line, at, bytes) ==
  LET from    == First(line.startedAt, at)
      elapsed == at - (CHOOSE x \in from : TRUE)
      count   == Len(line.samples)
  IN  [startedAt |-> from,
       samples   |-> IF count > 0 /\ 10 * (elapsed - line.samples[count].elapsed) < 8 * IntervalMs
                     THEN line.samples
                     ELSE Append(line.samples, [elapsed |-> elapsed, bytes |-> bytes])]

\* validateReport(), of the timeline: serializeReport() throws otherwise.
TimelineIsValid(samples) ==
  \A i \in 2..Len(samples) : samples[i].elapsed >= samples[i - 1].elapsed

\* Whether one rate, of bytes over milliseconds, is above another.
Faster(a, b) == a.bytes * b.ms > b.bytes * a.ms

Windows(samples) ==
  {[bytes |-> samples[p[2]].bytes - samples[p[1]].bytes,
    ms    |-> samples[p[2]].elapsed - samples[p[1]].elapsed] :
     p \in {ends \in (DOMAIN samples) \X (DOMAIN samples) : ends[1] < ends[2]}}

\* computeBestWindowGoodput()
BestWindow(samples) ==
  LET fit == {w \in Windows(samples) : w.ms >= 1000 /\ w.bytes >= 0}
  IN  {w \in fit : \A v \in fit : ~Faster(v, w)}

\* computeOpticalUsefulYield(), in hundredths.
UsefulYield(useful, presented) ==
  IF presented <= 0 \/ useful <= 0 THEN 0
  ELSE IF useful > presented THEN 100 ELSE (100 * useful) \div presented
-----------------------------------------------------------------------------
(* Properties *)

SequencesTo(n, S) == UNION {[1..k -> S] : k \in 0..n}

\* What a recorder comes to over a sequence.
Over(list, from, Take(_, _)) ==
  LET after[n \in 0..Len(list)] == IF n = 0 THEN from ELSE Take(after[n - 1], list[n])
  IN  after[Len(list)]

\* The gaps between events, added up.
Clocked(gaps) ==
  LET at[n \in 0..Len(gaps)] == IF n = 0 THEN 0 ELSE at[n - 1] + gaps[n] IN [i \in DOMAIN gaps |-> at[i]]

\* A rate is of the window that is open and of nothing before it, after bursts
\* and silences of any length, although no bucket is ever swept.
RatesAreRecent ==
  \A gaps \in SequencesTo(4, {0, 1, 2, 7}), later \in {0, 1, 3, 7} :
    LET times == Clocked(gaps)
        now   == later + (IF gaps = <<>> THEN 0 ELSE times[Len(gaps)])
        open  == {i \in DOMAIN times : times[i] \div BucketMs > now \div BucketMs - Buckets}
    IN  InWindow(Over(times, NewRate, RecordRate), now) = Cardinality(open)

\* A quantile is of the latest samples alone: that share of them is no longer,
\* and of what is shorter a smaller share would be.
QuantilesAreRecent ==
  \A all \in SequencesTo(5, {0, 1, 2, NotACount}), share \in {50, 95} :
    LET taken  == SelectSeq(all, IsCount)
        latest == SubSeq(taken, IF Len(taken) > Capacity THEN Len(taken) - Capacity + 1 ELSE 1, Len(taken))
        within(v) == Cardinality({i \in DOMAIN latest : latest[i] <= v})
        told   == Quantile(Over(all, NewReservoir, RecordMs), share)
    IN  IF taken = <<>> THEN told = {}
        ELSE /\ Cardinality(told) = 1
             /\ \A v \in told : /\ v \in {latest[i] : i \in DOMAIN latest}
                                /\ 100 * within(v) >= share * Len(latest)
                                /\ 100 * within(v - 1) < share * Len(latest)

\* A block of the main thread is counted once, however often the page starts
\* its monitor, and not at all by one that was stopped or never began, or before
\* the session that reads the count.
LongTasksCountOnce ==
  \A browser \in [observer : BOOLEAN, types : {"unlisted", "longtask", "other"}, throws : BOOLEAN],
     doing \in SequencesTo(4, {"start", "stop", "task", "reset"}) :
    LET step(m, what) == CASE what = "start" -> StartMonitor(m, browser)
                           [] what = "stop"  -> StopMonitor(m)
                           [] what = "reset" -> ResetMonitor(m)
                           [] OTHER          -> LongTask(m, 60)
        watched(i) == \E j \in 1..(i - 1) : /\ doing[j] = "start"
                                            /\ \A k \in j..(i - 1) : doing[k] # "stop"
    IN  Over(doing, NewMonitor, step).count =
          IF ~Supported(browser) \/ browser.throws THEN 0
          ELSE Cardinality({i \in DOMAIN doing : /\ doing[i] = "task" /\ watched(i)
                                                 /\ \A k \in i..Len(doing) : doing[k] # "reset"})

\* What a session may go through: the camera offers a frame, which is captured
\* or not, and the worker answers those it was given, in any of its ways.
Happenings ==
  {[what |-> w, outcome |-> "-", reason |-> "-"] : w \in {"capture", "busy", "recovered"}}
  \cup {[what |-> "answer", outcome |-> o, reason |-> "CRC_MISMATCH"] : o \in FrameOutcomes}
  \cup {[what |-> "answer", outcome |-> "rejected", reason |-> "SESSION_MISMATCH"]}

Count(list, Is(_)) == Cardinality({i \in DOMAIN list : Is(list[i])})

Told(h, what) == h.what = "answer" /\ h.outcome = what

Possible(list) ==
  \A n \in DOMAIN list :
    Count(SubSeq(list, 1, n), LAMBDA h : h.what = "answer")
      <= Count(SubSeq(list, 1, n), LAMBDA h : h.what = "capture")

\* A collector that an earlier session has left, until it is reset.
LeftBehind ==
  LET m == [outcome |-> "accepted", decodeMs |-> 9, pipelineMs |-> 9, observed |-> {1}, staleDropped |-> 2]
  IN  RecordSkippedBusy(RecordStalledRecovery(RecordFrame(RecordCapture(FreshTelemetry, 0), m, "-", 0)))

\* The books balance: every call of the camera is a capture or a skip, every
\* code that was read is of one kind and everything captured was read, had no
\* code, was too old or is still out; the first new frame came after the
\* first capture; no rate or yield says more was found than was tried; and
\* none of it is of the session before.
BooksBalance ==
  \A list \in SequencesTo(4, Happenings), gap \in {1, 3} :
    Possible(list) =>
      LET stale(n) == Count(SubSeq(list, 1, n), LAMBDA h : Told(h, "stale"))
          step(x, h) ==
            LET n == x.n + 1
                m == [outcome |-> h.outcome, decodeMs |-> 1, pipelineMs |-> 2, observed |-> {},
                      staleDropped |-> stale(n)]
            IN  [n |-> n,
                 t |-> CASE h.what = "capture"   -> RecordCapture(x.t, n * gap)
                         [] h.what = "busy"      -> RecordSkippedBusy(x.t)
                         [] h.what = "recovered" -> RecordStalledRecovery(x.t)
                         [] OTHER -> RecordFrame(x.t, m, h.reason, n * gap)]
          t    == Over(list, [n |-> 0, t |-> ResetTelemetry(LeftBehind)], step).t
          snap == Snapshot(t, Len(list) * gap)
          told(what) == Count(list, LAMBDA h : Told(h, what))
          waiting == told("pending-manifest") + told("pending-storage")
          out  == t.captured - Count(list, LAMBDA h : h.what = "answer")
      IN  /\ t.callbacks = t.captured + t.skipped
          /\ t.successes = t.decoded
          /\ t.decoded = t.duplicates + t.fresh + t.parse + t.foreign + waiting
          /\ t.captured = t.decoded + told("no-code") + t.stale + out
          /\ snap.acquisition = {} <=> t.fresh = 0
          /\ \A ms \in snap.acquisition : ms > 0
          /\ snap.uniqueRate <= snap.decodeRate
          /\ snap.decodeP50 = {} <=> t.decoded = 0
          /\ snap.decodeP50 \cup snap.decodeP95 \subseteq {1} /\ t.optical = {}
          /\ t.fresh <= t.attempts /\ UsefulYield(t.fresh, t.attempts) <= 100

\* A reason that is counted is counted exactly, and one that is not has found
\* the table full of others.
TalliesAreExact ==
  \A list \in SequencesTo(5, {"CRC_MISMATCH", "SESSION_MISMATCH", "V1_FRAME"}) :
    LET tally == Over(list, [r \in {} |-> 0], Tallied)
    IN  \A i \in DOMAIN list :
          IF list[i] \in DOMAIN tally
          THEN tally[list[i]] = Count(list, LAMBDA r : r = list[i])
          ELSE Cardinality(DOMAIN tally) = MaxReasons

\* A report can be written whatever the clock of the device was set to while it
\* was made, its samples are not crowded, and its best second is a second of
\* it: no window that has one is faster, and a session that replaced another
\* does not make one.
ReportsCanBeWritten ==
  \A list \in SequencesTo(4, {-700, 100, 400, 700} \X {-3, 0, 4}), started \in BOOLEAN :
    LET gaps  == [i \in DOMAIN list |-> list[i][1]]
        grown == [i \in DOMAIN list |-> list[i][2]]
        times == Clocked(gaps)
        bytes == Clocked(grown)
        step(line, i) == Sample(line, times[i], bytes[i])
        line  == Over([i \in DOMAIN list |-> i], IF started THEN StartTimeline(0) ELSE NewTimeline, step)
        best  == BestWindow(line.samples)
    IN  /\ TimelineIsValid(line.samples)
        /\ \A i \in 2..Len(line.samples) :
             line.samples[i].elapsed - line.samples[i - 1].elapsed >= 400
        /\ \A w \in best, v \in Windows(line.samples) : v.ms >= 1000 => ~Faster(v, w)
        /\ best = {} <=> \A v \in Windows(line.samples) : v.ms < 1000 \/ v.bytes < 0

\* The figures a person reads to find out what is wrong are of what happened.
FiguresAreTrue ==
  /\ RatesAreRecent /\ QuantilesAreRecent /\ LongTasksCountOnce
  /\ BooksBalance /\ TalliesAreExact /\ ReportsCanBeWritten
=============================================================================
