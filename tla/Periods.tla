------------------------------ MODULE Periods ------------------------------
(***************************************************************************)
(* The calendar of a goal (domain/period.go) and the loop with which the   *)
(* scheduler collects the completed periods of one (scheduler.go,          *)
(* completedPeriods), in time zones whose offset changes.                  *)
(*                                                                         *)
(* Instants are integers, a local day has DayLength of them, and a local   *)
(* time is the number of units since local day 0 began. A daily key is the *)
(* number of its day, a weekly key that of its ISO week.                   *)
(***************************************************************************)
EXTENDS Integers, Sequences, FiniteSets

CONSTANTS
  DayLength,    \* units of a day
  WeekDays,     \* days of a week; week w begins on day w * WeekDays
  Jan4,         \* the day of week 0 on which January 4th falls
  Zones,        \* time zones in play (see Zone)
  Cadences,     \* subset of {"daily", "weekly"}: custom is refused at creation
  Starts,       \* starts_at values
  Ends,         \* ends_at values; Forever stands for NULL
  MaxTime       \* bound: the scheduler runs at one of the instants 0 .. MaxTime

\* Later than every instant a run looks at.
Forever == MaxTime + 3 * DayLength * WeekDays

\* A zone keeps offsets[1] until at[1], offsets[2] from then to at[2], ...
Zone == [offsets: Seq(Int), at: Seq(Int)]

\* Of the zones: offsets are shorter than a day; clock changes are further apart
\* than any two offsets, that of UTC among them; none shifts the clock by more than
\* half a day, as moving the date line does.
ZonesAssumption ==
  \A z \in Zones :
    LET offsets == {0} \union {z.offsets[k] : k \in DOMAIN z.offsets}
    IN  /\ z \in Zone /\ Len(z.offsets) = Len(z.at) + 1
        /\ \A o \in offsets : -DayLength < o /\ o < DayLength
        /\ \A i, j \in DOMAIN z.at : i < j =>
             \A o, q \in offsets : z.at[i] + o - q < z.at[j]
        /\ \A i \in DOMAIN z.at :
             LET shift == z.offsets[i + 1] - z.offsets[i]
             IN  -DayLength <= 2 * shift /\ 2 * shift <= DayLength

ASSUME PeriodsAssumption ==
  /\ DayLength \in Nat \ {0} /\ WeekDays \in Nat \ {0, 1} /\ Jan4 \in 0 .. (WeekDays - 1)
  /\ ZonesAssumption
  /\ Cadences \subseteq {"daily", "weekly"}
  /\ MaxTime \in Nat /\ Starts \subseteq 0 .. MaxTime /\ Ends \subseteq 0 .. Forever

VARIABLES
  goal,      \* the goal: cadence, zone, startsAt, endsAt
  now,       \* when the scheduler runs
  at,        \* "loop" or "returned"
  period,    \* the loop's variable of that name
  periods    \* the periods collected

vars == <<goal, now, at, period, periods>>

-----------------------------------------------------------------------------
(* Package time: zones, local times and dates                              *)

\* Which of the zone's offsets holds at instant t.
Era(z, t) == Cardinality({i \in DOMAIN z.at : z.at[i] <= t}) + 1

\* Local(z)[t] is what a clock in the zone shows at instant t.
Local(z) == [t \in Int |-> t + z.offsets[Era(z, t)]]

\* time.Date, from local times to instants: the offset is looked up as if the
\* local time were an instant, and looked up again at the instant it leads to.
Date(z) == [local \in Int |-> local - z.offsets[Era(z, local - z.offsets[Era(z, local)])]]

\* Time.AddDate keeps the local clock time.
AddDate(z, days) == [t \in Int |-> Date(z)[Local(z)[t] + days * DayLength]]

Day(z) == [t \in Int |-> Local(z)[t] \div DayLength]

-----------------------------------------------------------------------------
(* domain/period.go                                                        *)

CurrentPeriod(g, t) ==
  IF g.cadence = "daily" THEN Day(g.zone)[t] ELSE Day(g.zone)[t] \div WeekDays

\* Mutant of From: every day is as long as the usual one.
FromFixed(z, start, days, ok) ==
  [start |-> start, end |-> start + days * DayLength, ok |-> ok]

\* The period that begins at start and lasts so many days.
From(z, start, days, ok) == [start |-> start, end |-> AddDate(z, days)[start], ok |-> ok]

DailyBounds(z, p) == From(z, Date(z)[p * DayLength], 1, TRUE)

\* From January 4th back to Monday, then forward by whole weeks.
IsoWeekStart(z, week) ==
  AddDate(z, week * WeekDays)[AddDate(z, -Jan4)[Date(z)[Jan4 * DayLength]]]

\* A key whose start falls into another week is refused.
WeeklyBounds(z, p) ==
  From(z, IsoWeekStart(z, p), WeekDays, Day(z)[IsoWeekStart(z, p)] \div WeekDays = p)

PeriodBounds(g, p) ==
  IF g.cadence = "daily" THEN DailyBounds(g.zone, p) ELSE WeeklyBounds(g.zone, p)

-----------------------------------------------------------------------------
(* completedPeriods                                                        *)

Init ==
  /\ goal \in [cadence: Cadences, zone: Zones, startsAt: Starts, endsAt: Ends]
  /\ now \in 0 .. MaxTime
  /\ at = "loop"
  /\ period = CurrentPeriod(goal, goal.startsAt)
  /\ periods = <<>>

Bounds == PeriodBounds(goal, period)
Successor == CurrentPeriod(goal, Bounds.end)

\* Mutant of Over: the tick is not looked at.
OverEndless == ~Bounds.ok \/ Bounds.start >= goal.endsAt

\* Mutant of Over: the period may still run at the tick.
OverUnended == ~Bounds.ok \/ Bounds.start > now \/ Bounds.start >= goal.endsAt

\* The loop ends: bad key, period not completed yet, or the goal ended before it.
Over == ~Bounds.ok \/ Bounds.end > now \/ Bounds.start >= goal.endsAt

\* Mutant of PeriodIntersectsGoal: a period must begin with or after the goal.
PeriodIntersectsGoalWhole == Bounds.start >= goal.startsAt

\* The other half of the test is part of Over.
PeriodIntersectsGoal == Bounds.end > goal.startsAt

Collect ==
  periods' = IF PeriodIntersectsGoal THEN Append(periods, period) ELSE periods

Break == at = "loop" /\ Over /\ at' = "returned" /\ UNCHANGED <<goal, now, period, periods>>

Advance ==
  /\ at = "loop" /\ ~Over /\ Successor # period
  /\ Collect
  /\ period' = Successor
  /\ UNCHANGED <<goal, now, at>>

\* Mutant of Stall: a successor that is the period itself is not noticed.
StallUnnoticed ==
  /\ at = "loop" /\ ~Over /\ Successor = period
  /\ Len(periods) < MaxTime
  /\ Collect
  /\ UNCHANGED <<goal, now, at, period>>

\* Mutant of Stall: continue for break.
StallForever ==
  /\ at = "loop" /\ ~Over /\ Successor = period
  /\ UNCHANGED vars

\* The end of a period belongs to that period: the loop gives up.
Stall ==
  /\ at = "loop" /\ ~Over /\ Successor = period
  /\ Collect
  /\ at' = "returned"
  /\ UNCHANGED <<goal, now, period>>

Next == Break \/ Advance \/ Stall

Spec == Init /\ [][Next]_vars /\ WF_vars(Next)

-----------------------------------------------------------------------------
(* Properties                                                              *)

\* The instants and keys the instance can meet, with room on both sides.
Window == (-2 * DayLength * WeekDays) .. (MaxTime + 2 * DayLength * WeekDays)
Keys   == {CurrentPeriod(goal, t) : t \in Window}
Span(p) == {t \in Window : CurrentPeriod(goal, t) = p}

TypeOK ==
  /\ goal \in [cadence: Cadences, zone: Zones, startsAt: Starts, endsAt: Ends]
  /\ now \in 0 .. MaxTime
  /\ at \in {"loop", "returned"}
  /\ period \in Keys
  /\ periods \in Seq(Keys)

\* Every instant of p is in the past, and p has to do with the goal.
Due(p) ==
  /\ \A t \in Span(p) : t < now
  /\ \E t \in Span(p) : t >= goal.startsAt
  /\ \E t \in Span(p) : t < goal.endsAt

\* No clock change of the goal's zone skips or repeats a midnight, as where clocks
\* change at two or three in the morning: the last instant before a change falls
\* on the same day by the old offset and by the new one.
SparesMidnight ==
  LET z == goal.zone
      DayBy(i, offset) == (z.at[i] - 1 + offset) \div DayLength
  IN  \A i \in DOMAIN z.at : DayBy(i, z.offsets[i]) = DayBy(i, z.offsets[i + 1])

\* The loop finds every period of the goal whose instants have all gone by
\* (scheduler.go:41), in every zone.
FindsAll ==
  at = "returned" =>
    \A p \in Keys : Due(p) => \E i \in DOMAIN periods : periods[i] = p

\* It does so through long and short days and weeks, as long as the clock changes
\* spare midnight.
FindsAllRegularly == SparesMidnight => FindsAll

\* There, the loop finds no period in which a check-in made now would still count:
\* what CurrentPeriod takes for today is not taken for completed.
OnlyOver == SparesMidnight => \A i \in DOMAIN periods : Due(periods[i])

\* There, the bounds tile time, as the calendar of Enforcement assumes: a period
\* ends where the next one begins (period.go:40-42).
BoundsTile ==
  SparesMidnight => \A p \in {q \in Keys : q + 1 \in Keys} :
    /\ PeriodBounds(goal, p).end = PeriodBounds(goal, p + 1).start
    /\ PeriodBounds(goal, p).start < PeriodBounds(goal, p).end

\* A period is found once, and earlier ones first, in any zone.
InOrder == \A i, j \in DOMAIN periods : i < j => periods[i] < periods[j]

\* The loop returns, in any zone: it neither stays at a period nor goes back.
Returns == <>(at = "returned")
=============================================================================
