----------------------------- MODULE HelperLoop -----------------------------
(***************************************************************************)
(* The main loop of the telemetry helper (scripts/telemetry.py): it takes  *)
(* what the pipe delivers, cuts it into records, limits their rate,        *)
(* executes them and samples when a sample is due; and the cadence of the  *)
(* samples, which the engine (td_telemetry/engine.py) adapts to the time   *)
(* they take.                                                              *)
(*                                                                         *)
(* A record is a sequence of bytes.  A configure command is the one byte   *)
(* that is its base interval; every other record stands for the commands   *)
(* that leave the loop alone.  Times are relative to now, so that nothing  *)
(* bounds the clock.                                                       *)
(***************************************************************************)
EXTENDS Integers, Sequences, SequencesExt, FiniteSetsExt

CONSTANTS
  Bases,               \* base intervals of the profiles
  Records,             \* what the host may write: sequences over Bases
  MaxRecords,          \* bound: records written
  Limit,               \* bytes of a record (64 KiB)
  Rate, Window,        \* executed records per window of time (32 per second)
  Multipliers,         \* of the base interval, per throttle level, times two
  Ceiling,             \* longest interval (10 s)
  SlowRun, FastRun,    \* samples that move the throttle level (3 and 8)
  Durations            \* bound: times a sample may take

NL == 0    \* the newline

ASSUME LimitAssumption ==
  /\ Bases \subseteq Nat \ {NL} /\ Limit \in Nat /\ MaxRecords \in Nat /\ Durations \subseteq Nat
  /\ Rate \in Nat \ {0} /\ Window \in Nat \ {0} /\ Ceiling \in Nat \ {0}
  /\ SlowRun \in Nat \ {0, 1} /\ FastRun \in Nat \ {0, 1}

\* A record is written by JSON.stringify(), which leaves no newline in it.
ASSUME RecordAssumption == Records \subseteq Seq(Bases)

ASSUME MultiplierAssumption == Multipliers \in Seq(Nat) /\ Multipliers # <<>>

VARIABLES
  sent, wire,              \* the records written so far, the bytes in the pipe
  buffer, dropping,        \* an unfinished record, or its rest is to be dropped
  recent,                  \* ages of the records that the limiter remembers
  base, level,             \* the profile's interval, the throttle level
  slow, fast,              \* consecutive slow and fast samples
  dueIn,                   \* time to the next sample
  answers,                 \* history: what became of each record
  accepted,                \* history: ages of the records that reached the engine
  sampled,                 \* history: the base interval that the last sample reports, or 0
  trend                    \* history: the last verdict, and how many samples in a row
                           \* had it since the level moved

pipe    == <<sent, wire>>
framing == <<buffer, dropping, recent>>
cadence == <<level, slow, fast, trend>>
vars    == <<pipe, framing, base, cadence, dueIn, answers, accepted, sampled>>

Least(a, b) == IF a < b THEN a ELSE b

IntervalAt(b, l) == Least(Ceiling, (b * Multipliers[l + 1]) \div 2)

MaxLevel == Len(Multipliers) - 1

Init ==
  /\ sent = <<>> /\ wire = <<>>
  /\ buffer = <<>> /\ dropping = FALSE
  /\ recent = <<>>
  /\ base \in Bases /\ level = 0 /\ slow = 0 /\ fast = 0
  /\ dueIn = 0
  /\ answers = <<>> /\ accepted = <<>> /\ sampled = base
  /\ trend = [of |-> "fair", run |-> 0]

-----------------------------------------------------------------------------
(* Records. *)

\* One byte of what the loop has read; a newline completes a record.
Cut(split, byte) ==
  IF byte = NL THEN [lines |-> Append(split.lines, split.rest), rest |-> <<>>]
  ELSE [split EXCEPT !.rest = Append(@, byte)]

Unread == [lines |-> <<>>, rest |-> <<>>]

\* The complete records at the start of some bytes, and what follows the last of them.
Split(bytes) == FoldLeft(Cut, Unread, bytes)

\* Mutant: the window ends one unit early.
Remembered_Early(ages) ==
  LET young == {i \in DOMAIN ages : ages[i] < Window - 1}
  IN  IF young = {} THEN <<>> ELSE SubSeq(ages, Min(young), Len(ages))

\* SlidingWindowLimiter.allow(): what is older than the window is forgotten from the front.
Remembered(ages) ==
  LET young == {i \in DOMAIN ages : ages[i] < Window}
  IN  IF young = {} THEN <<>> ELSE SubSeq(ages, Min(young), Len(ages))

\* One record, as main() treats it.
Handle(state, line) ==
  LET remembered == Remembered(state.recent)
      refused(why) == [state EXCEPT !.answers = Append(@, why)]
  IN
  IF state.dropping \/ Len(line) > Limit
  THEN [refused("oversize") EXCEPT !.dropping = FALSE]
  ELSE IF Len(remembered) >= Rate
  THEN [refused("rate") EXCEPT !.recent = remembered]
  ELSE IF Len(line) # 1
  THEN [refused("error") EXCEPT !.recent = Append(remembered, 0), !.accepted = Append(@, 0)]
  ELSE [state EXCEPT !.recent = Append(remembered, 0), !.accepted = Append(@, 0),
                     !.answers = Append(@, "done"), !.base = line[1], !.asked = TRUE]

\* More than a record's worth of bytes without a newline.
Overfull(rest) == Len(rest) > Limit

\* Mutant: the bytes are dropped, the rest of their record is not.
Dropping_Forgets(before, rest) == before

Dropping(before, rest) == before \/ Overfull(rest)

\* What a chunk does: the records it completes, then the check of the unfinished one.
Taken(chunk) ==
  LET split == Split(buffer \o chunk)
      start == [dropping |-> dropping, recent |-> recent, accepted |-> accepted,
                answers |-> answers, base |-> base, asked |-> FALSE]
      end == FoldLeft(Handle, start, split.lines)
  IN  [state    |-> end,
       buffer   |-> IF Overfull(split.rest) THEN <<>> ELSE split.rest,
       dropping |-> Dropping(end.dropping, split.rest)]

-----------------------------------------------------------------------------
(* Cadence. *)

Verdict(duration, interval) ==
  IF 100 * duration >= 65 * interval THEN "slow"
  ELSE IF 100 * duration <= 20 * interval THEN "fast" ELSE "fair"

\* Mutant: a sample that is neither slow nor fast keeps the counts.
Counted_Kept(count, kind, verdict) ==
  IF verdict = kind THEN count + 1 ELSE IF verdict = "fair" THEN count ELSE 0

Counted(count, kind, verdict) == IF verdict = kind THEN count + 1 ELSE 0

\* observe_duration(): sustained slow samples raise the level, sustained fast ones lower it.
\* A count without effect, at the last level, is cut at its threshold.
Observed(verdict) ==
  LET s == Counted(slow, "slow", verdict)
      f == Counted(fast, "fast", verdict)
  IN  IF s >= SlowRun /\ level < MaxLevel THEN [level |-> level + 1, slow |-> 0, fast |-> f]
      ELSE IF f >= FastRun /\ level > 0 THEN [level |-> level - 1, slow |-> s, fast |-> 0]
      ELSE [level |-> level, slow |-> Least(s, SlowRun), fast |-> Least(f, FastRun)]

Aged(ages, time) == [i \in DOMAIN ages |-> Least(ages[i] + time, Window)]

RunAfter(verdict) ==
  [of |-> verdict, run |-> Least(SlowRun + FastRun, IF verdict = trend.of THEN trend.run + 1 ELSE 1)]

\* The outcome of a sample, or "failed", and what the cadence makes of it.
Sample(b, verdict) ==
  LET to == IF verdict = "failed" THEN [level |-> level, slow |-> slow, fast |-> fast] ELSE Observed(verdict)
  IN
  /\ level' = to.level /\ slow' = to.slow /\ fast' = to.fast
  /\ dueIn' = IntervalAt(b, to.level)
  /\ sampled' = IF verdict = "failed" THEN 0 ELSE b
  /\ trend' = IF verdict = "failed" THEN trend
              ELSE IF to.level # level THEN [of |-> "fair", run |-> 0] ELSE RunAfter(verdict)

-----------------------------------------------------------------------------

\* Telemetry.send() writes whole records, the pipe delivers any part of them.
Write(record) ==
  /\ Len(sent) < MaxRecords
  /\ sent' = Append(sent, record)
  /\ wire' = wire \o record \o <<NL>>
  /\ UNCHANGED <<framing, base, cadence, dueIn, answers, accepted, sampled>>

\* Mutant: a configuration waits for the next sample that is due.
Due_NotAsked(state) == dueIn = 0

\* configure and scope make a sample due.
Due(state) == state.asked \/ dueIn = 0

\* One pass of the loop: a chunk of n bytes, then a sample if one is due.
Pass(n, duration, fails) ==
  LET taken == Taken(SubSeq(wire, 1, n))
      state == taken.state
      time  == IF Due(state) THEN duration ELSE 0
  IN
  /\ wire' = SubSeq(wire, n + 1, Len(wire))
  /\ buffer' = taken.buffer /\ dropping' = taken.dropping
  /\ recent' = Aged(state.recent, time)
  /\ accepted' = Aged(state.accepted, time)
  /\ answers' = state.answers /\ base' = state.base
  /\ IF Due(state)
     THEN Sample(base', IF fails THEN "failed" ELSE Verdict(duration, IntervalAt(base', level)))
     ELSE UNCHANGED <<cadence, dueIn, sampled>>
  /\ UNCHANGED sent

Wait ==
  /\ dueIn' = IF dueIn = 0 THEN 0 ELSE dueIn - 1
  /\ recent' = Aged(recent, 1) /\ accepted' = Aged(accepted, 1)
  /\ UNCHANGED <<pipe, buffer, dropping, base, cadence, answers, sampled>>

Next ==
  \/ \E record \in Records : Write(record)
  \/ \E n \in 0..Len(wire), duration \in Durations, fails \in BOOLEAN : Pass(n, duration, fails)
  \/ Wait

Spec == Init /\ [][Next]_vars

-----------------------------------------------------------------------------
(* Properties. *)

\* DATA-MODEL.md, "Commands are at most 64 KiB": however the pipe cuts them, every record is
\* answered once and in order, an oversized one as such and no other, none is mistaken for a
\* configuration, and the last configuration that was not refused is the one in force.
FramingExact ==
  /\ Len(answers) + Len(Split(wire).lines) = Len(sent)
  /\ \A i \in DOMAIN answers :
       /\ answers[i] = "oversize" <=> Len(sent[i]) > Limit
       /\ answers[i] = "done" => Len(sent[i]) = 1
       /\ answers[i] = "done" /\ (\A j \in DOMAIN answers : j > i => answers[j] # "done")
            => base = sent[i][1]

\* DATA-MODEL.md, "a 32-record/second sliding window independent of pipe read chunking":
\* whatever the chunks, and however long the samples between them take, no window of time
\* holds more executed records than the rate.
RateBounded == Cardinality({i \in DOMAIN accepted : accepted[i] < Window}) <= Rate

\* main() samples at once after configure: between two passes the last sample shows the
\* configuration in force, unless that sample failed.
ConfiguredIsSampled == sampled \in {base, 0}

\* ARCHITECTURE.md, "After sustained high duty cycle ... after sustained low duty it recovers
\* gradually": the level moves by one, with the sample that completes an unbroken run of slow
\* or fast ones since its last move, also when the profile changes between these samples.
MovesWhenSustained ==
  [][ /\ level' > level => level' = level + 1 /\ trend.of = "slow" /\ trend.run + 1 >= SlowRun
      /\ level' < level => level' = level - 1 /\ trend.of = "fast" /\ trend.run + 1 >= FastRun ]_vars

=============================================================================
