---------------------------- MODULE ScheduleTime ----------------------------
(***************************************************************************)
(* When a scheduled job runs next (schedules/time.py), computed when a job *)
(* is created, changed or enabled and each time one of its runs is         *)
(* enqueued, and when a run of a sequential job ends.                      *)
(*                                                                         *)
(* Time is counted in units of the zone's daylight-saving shift.  A day    *)
(* has DayLength of them, a week WeekLength days, and months alternate     *)
(* between LongMonth and ShortMonth days.  The user's zone has one gap and *)
(* one overlap (a "fold").  The program compares two local times of one    *)
(* zone by their wall clock and converts a wall time with fold 0: a local  *)
(* time is its wall clock, counted in units from the first local midnight. *)
(***************************************************************************)
EXTENDS Integers, FiniteSets

CONSTANTS
  DayLength, WeekLength, LongMonth, ShortMonth,
  Shortest, Longest,   \* _schedule_minutes_min, _schedule_minutes_max
  Minutes,             \* minutes asked for
  Starts,             \* local start times of interval jobs
  Gaps, Folds,         \* UTC times at which the offset of a zone rises and falls
  Horizon,             \* bound of the clock
  Never                \* NULL

ASSUME TimeAssumption ==
  /\ {DayLength, WeekLength, LongMonth, ShortMonth, Shortest, Longest} \subseteq Nat \ {0}
  /\ ShortMonth <= LongMonth /\ Shortest <= Longest
  /\ Minutes \subseteq Nat /\ Starts \subseteq Nat
  /\ Gaps \cup Folds \subseteq Nat /\ Gaps \cap Folds = {}
  /\ Horizon \in Nat /\ Never \notin Int

VARIABLES
  zone,        \* the user's time zone: chosen at registration, then fixed
  now,
  job,         \* cycle_type and the normalized time_point
  enabled,
  active,      \* a run is pending or running
  nextRunAt,   \* next_run_at
  computedAt,  \* history: when next was computed, 0 without
  grid         \* history: when the grid of an interval job was laid, 0 for others

timeVars == <<zone, now, job, enabled, active, nextRunAt, computedAt, grid>>

Hours == 0..(DayLength - 1)

\* What a request may ask for, before its minutes are clamped.
Calendar ==
       [cycle: {"daily"}, hour: Hours]
  \cup [cycle: {"weekly"}, hour: Hours, day: 0..(WeekLength - 1)]
  \cup [cycle: {"monthly"}, hour: Hours, day: 1..LongMonth]
Periodic ==
       [cycle: {"interval"}, minutes: Minutes, start: Starts \cup {Never}]
  \cup [cycle: {"sequential"}, minutes: Minutes]

NoJob == [cycle |-> "none"]

\* Minutes out of range are moved to the nearest bound, when written and when read.
Lesser(x, y) == IF x <= y THEN x ELSE y
Greater(x, y) == IF x >= y THEN x ELSE y
Clamped(m) == Greater(Shortest, Lesser(Longest, m))

NormalizedPoint(j) ==
  IF j.cycle \in {"interval", "sequential"} THEN [j EXCEPT !.minutes = Clamped(@)] ELSE j

-----------------------------------------------------------------------------
(***************************************************************************)
(* The zone.  Its offset is 0 in winter and 1 in summer; its changes are   *)
(* more than a week apart.                                                 *)
(***************************************************************************)
TimeZones ==
  {z \in [gap: Gaps, fold: Folds] :
     Greater(z.gap, z.fold) - Lesser(z.gap, z.fold) > WeekLength * DayLength}

FirstOffset == IF zone.gap < zone.fold THEN 0 ELSE 1

\* UTC to wall clock.
Wall(u) ==
  u + FirstOffset + (IF u >= zone.gap THEN 1 ELSE 0) - (IF u >= zone.fold THEN 1 ELSE 0)

\* Wall clock to UTC with fold 0: a transition takes effect at the later of its two wall
\* times, so a time in the gap keeps the offset before, an ambiguous one is the first.
Utc(w) ==
  w - FirstOffset - (IF w >= zone.gap + 1 THEN 1 ELSE 0) + (IF w >= zone.fold + 1 THEN 1 ELSE 0)

\* A wall time in the gap is moved behind it.
ResolvedWall(w) == Wall(Utc(w))

DayOf(w) == w \div DayLength
LocalAt(d, hour) == d * DayLength + hour
MonthOf(d) ==
  LET two == LongMonth + ShortMonth
  IN  2 * (d \div two) + (IF (d % two) < LongMonth THEN 0 ELSE 1)
MonthStart(m) == (m \div 2) * (LongMonth + ShortMonth) + ((m % 2) * LongMonth)
LastDay(m) == IF m % 2 = 0 THEN LongMonth ELSE ShortMonth

MonthlyCandidate(m, j) == LocalAt(MonthStart(m) + Lesser(j.day, LastDay(m)) - 1, j.hour)

-----------------------------------------------------------------------------
(***************************************************************************)
(* The next run.                                                           *)
(***************************************************************************)
\* The first candidate, on the day, in the week or in the month of a local time.
Candidate(j, w) ==
  LET d == DayOf(w) IN
  CASE j.cycle = "daily" -> ResolvedWall(LocalAt(d, j.hour))
    [] j.cycle = "weekly" ->
         ResolvedWall(LocalAt(d + ((j.day - d) % WeekLength), j.hour))
    [] j.cycle = "monthly" -> ResolvedWall(MonthlyCandidate(MonthOf(d), j))

\* The one after it: a day or a week is added to the candidate, as resolved; the month's
\* is computed again.
FollowingCandidate(j, w) ==
  CASE j.cycle = "daily" -> ResolvedWall(Candidate(j, w) + DayLength)
    [] j.cycle = "weekly" -> ResolvedWall(Candidate(j, w) + WeekLength * DayLength)
    [] j.cycle = "monthly" -> ResolvedWall(MonthlyCandidate(MonthOf(DayOf(w)) + 1, j))

NextOccurrenceLocal(j, w) ==
  IF Candidate(j, w) > w THEN Candidate(j, w) ELSE FollowingCandidate(j, w)

CalendarNextUnguarded(j, after, guard) == Utc(NextOccurrenceLocal(j, Wall(after)))
CalendarNext(j, after, guard) ==
  LET From[w \in Nat] == IF Utc(w) > guard THEN w ELSE From[NextOccurrenceLocal(j, w)]
  IN  Utc(From[NextOccurrenceLocal(j, Wall(after))])

\* The first time past the guard on the grid through c.
PastGuard(c, step, guard) ==
  IF c > guard THEN c ELSE c + ((guard - c) \div step + 1) * step

\* The anchor is taken from its local form, in the zone, at each computation; before it
\* the guard does not count.
IntervalNext(j, after, guard) ==
  IF j.start = Never THEN PastGuard(after + j.minutes, j.minutes, guard)
  ELSE LET anchor == Utc(j.start) IN
       IF after < anchor THEN anchor
       ELSE PastGuard(anchor + ((after - anchor + j.minutes - 1) \div j.minutes) * j.minutes,
                      j.minutes, guard)

SequentialNext(j, after) == after + j.minutes

ComputeNextRunAt(j, after, guard) ==
  CASE j.cycle = "sequential" -> SequentialNext(j, Greater(after, guard))
    [] j.cycle = "interval" -> IntervalNext(j, after, guard)
    [] OTHER -> CalendarNext(j, after, guard)

-----------------------------------------------------------------------------
(***************************************************************************)
(* The operations.                                                         *)
(***************************************************************************)
TimeInit ==
  /\ zone \in TimeZones
  /\ now = 0
  /\ job = NoJob
  /\ enabled = FALSE /\ active = FALSE
  /\ nextRunAt = Never
  /\ computedAt = 0 /\ grid = 0

Computed == computedAt' = IF nextRunAt' = Never THEN 0 ELSE now

\* create_task, and update_task with a new schedule.
SetSchedule(j, on) ==
  LET point == NormalizedPoint(j) IN
  /\ job' = point
  /\ enabled' = on
  /\ nextRunAt' = IF on THEN ComputeNextRunAt(point, now, now) ELSE Never
  /\ Computed /\ grid' = IF point.cycle = "interval" /\ on THEN now ELSE 0
  /\ UNCHANGED <<zone, now, active>>

\* set_enabled, and update_task with "enabled" alone: enabling computes again.
ToggleJob(on) ==
  /\ job # NoJob
  /\ enabled' = on
  /\ nextRunAt' = IF on THEN ComputeNextRunAt(job, now, now) ELSE Never
  /\ Computed /\ grid' = IF job.cycle = "interval" /\ on THEN now ELSE 0
  /\ UNCHANGED <<zone, now, job, active>>

\* The dispatcher may be late: it counts from the time that was due, past the present.
EnqueueDue ==
  /\ enabled /\ ~active
  /\ nextRunAt # Never /\ nextRunAt <= now
  /\ active' = TRUE
  /\ nextRunAt' = IF job.cycle = "sequential" THEN Never ELSE ComputeNextRunAt(job, nextRunAt, now)
  /\ Computed
  /\ UNCHANGED <<zone, now, job, enabled, grid>>

\* The run ends, and may have been the last failure the threshold allows.
SettleRun(disable) ==
  /\ active
  /\ active' = FALSE
  /\ enabled' = (enabled /\ ~disable)
  /\ nextRunAt' = CASE ~enabled' -> Never
               [] enabled' /\ job.cycle = "sequential" -> SequentialNext(job, now)
               [] OTHER -> nextRunAt
  /\ IF nextRunAt' = nextRunAt THEN UNCHANGED computedAt ELSE Computed
  /\ UNCHANGED <<zone, now, job, grid>>

Elapse ==
  /\ now < Horizon
  /\ now' = now + 1
  /\ UNCHANGED <<zone, job, enabled, active, nextRunAt, computedAt, grid>>

TimeNext ==
  \/ \E j \in Calendar \cup Periodic, on \in BOOLEAN : SetSchedule(j, on)
  \/ \E on \in BOOLEAN : ToggleJob(on)
  \/ EnqueueDue
  \/ \E disable \in BOOLEAN : SettleRun(disable)
  \/ Elapse

TimeSpec == TimeInit /\ [][TimeNext]_timeVars

-----------------------------------------------------------------------------
(***************************************************************************)
(* Properties.                                                             *)
(***************************************************************************)
TimeTypeOK ==
  /\ zone \in TimeZones
  /\ now \in 0..Horizon
  /\ \/ job = NoJob
     \/ job \in Calendar
     \/ job.cycle \in {"interval", "sequential"} /\ job.minutes \in Shortest..Longest
  /\ enabled \in BOOLEAN /\ active \in BOOLEAN
  /\ nextRunAt \in Nat \cup {Never}
  /\ computedAt \in 0..now /\ grid \in 0..now

\* The days on which a calendar job is due, as far as one month behind the horizon.
DueDays(j) ==
  {d \in 0..(DayOf(Horizon) + 2 * LongMonth + WeekLength) :
     CASE j.cycle = "daily" -> TRUE
       [] j.cycle = "weekly" -> d % WeekLength = j.day
       [] j.cycle = "monthly" ->
            d = MonthStart(MonthOf(d)) + Lesser(j.day, LastDay(MonthOf(d))) - 1}

DueTimes(j) == {Utc(LocalAt(d, j.hour)) : d \in DueDays(j)}

\* Reference, written as a search instead of by steps: the next run of a calendar job
\* leaves out no due time after the moment of the computation, and is due itself or a
\* shift of the zone late; the runs of an interval stay on its grid and leave none out; a sequential job
\* waits its minutes.  None is in the past, whatever time the dispatcher was late
\* (time.py compute_next_run_at).
NextIsFirst ==
  nextRunAt # Never =>
    CASE job.cycle = "sequential" -> nextRunAt = computedAt + job.minutes
      [] job.cycle = "interval" ->
           LET origin == IF job.start = Never THEN grid ELSE Utc(job.start) IN
           /\ nextRunAt > computedAt
           /\ nextRunAt >= origin /\ (nextRunAt - origin) % job.minutes = 0
           /\ nextRunAt - job.minutes <= computedAt \/ nextRunAt = origin
      [] OTHER ->
           \E due \in DueTimes(job) :
             /\ nextRunAt > computedAt /\ nextRunAt \in {due, due + 1}
             /\ \A u \in DueTimes(job) : u <= computedAt \/ due <= u

\* A calendar job keeps its wall clock when the zone changes: it runs at its hour, or, on
\* a day that leaves this hour out, where that hour is moved to
\* (tests/schedules/test_a2a_schedule_timezone_semantics.py:29).
WallClockKept ==
  (nextRunAt # Never /\ job.cycle \in {"daily", "weekly", "monthly"}) =>
     Wall(nextRunAt) = ResolvedWall(LocalAt(DayOf(Wall(nextRunAt)), job.hour))
=============================================================================
