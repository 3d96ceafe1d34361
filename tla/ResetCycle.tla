------------------------------ MODULE ResetCycle ------------------------------
(***************************************************************************)
(* One subscription through the months: the job that resets it when        *)
(* next_reset_at has come, however late it runs, and asks NextReset for    *)
(* the next instant (src/internal/domain/reset.go; the columns are those   *)
(* of migrations/0001_core.sql, the job is not in src/).                   *)
(***************************************************************************)
EXTENDS Calendar

CONSTANTS Zones,         \* billing timezones
          ResetPolicies, \* reset policies
          Signups,       \* instants at which the subscription may begin
          PeriodDays,    \* days bought
          LastInstant    \* bound: the last instant looked at

\* Offsets are whole buckets, and the calendar goes a month beyond what is
\* looked at.
ASSUME ResetCycleAssumption ==
    /\ Zones \subseteq [before : Int, after : Int, change : Int]
    /\ \A z \in Zones : z.before % BucketSize = 0 /\ z.after % BucketSize = 0
    /\ Signups \subseteq Int /\ LastInstant \in Int /\ PeriodDays \in Nat
    /\ \A z \in Zones, s \in Signups :
           \A t \in {s} \cup s .. LastInstant :
               DayOf(Local(z, t)) \in 0 .. FirstDay[Len(MonthLengths)] - 1

VARIABLES zone, policy, signup,
          today,        \* the instant
          asked,        \* the instant NextReset was last asked at
          next_reset_at,
          resets        \* how many times the allowance was replenished

settings == <<zone, policy, signup>>
cycleVars == <<zone, policy, signup, today, asked, next_reset_at, resets>>

CycleInit ==
    /\ zone \in Zones /\ policy \in ResetPolicies /\ signup \in Signups
    /\ today = signup
    /\ asked = signup
    /\ next_reset_at = NextReset(policy, zone, signup, signup)
    /\ resets = 0

Tick ==
    /\ today < LastInstant
    /\ today' = today + 1
    /\ UNCHANGED <<settings, asked, next_reset_at, resets>>

Reset ==
    /\ next_reset_at # NoReset /\ next_reset_at <= today
    /\ resets' = resets + 1
    /\ asked' = today
    /\ next_reset_at' = NextReset(policy, zone, signup, today)
    /\ UNCHANGED <<settings, today>>

CycleNext == Tick \/ Reset

CycleSpec == CycleInit /\ [][CycleNext]_cycleVars

-----------------------------------------------------------------------------
(* What the operator and the user count on.                                *)

LocalDay(t) == DayOf(Local(zone, t))
SignupDay == DayInMonth(LocalDay(signup))

\* The day of month m on which the user expects the reset.
AnchorDay(m) == FirstDay[m] - 1 + IF policy = "monthly_1st" THEN 1
                                  ELSE Min({SignupDay, MonthLengths[m]})

Shift == zone.after - zone.before

\* The clocks of the zone never showed the beginning of that day.
NoMidnight(day) == Skips(zone, day)

\* A reset that has been run leaves the next one in the future
\* (reset.go:30-31; reset_test.go, TestResetInstantsLandOnBucketBoundaries):
\* otherwise the job resets the allowance again each time it looks.
NextIsAhead == next_reset_at # NoReset => next_reset_at > asked

\* The next reset is on the anchor of the month, at local midnight (reset.go:
\* 34-37, 75) or, where the clocks jump over it, at the first instant of that
\* day; and no month is passed over, through short months and with a job that
\* comes late (reset.go:57-68).
LandsOnTheNextAnchor ==
    next_reset_at # NoReset =>
        LET day == LocalDay(next_reset_at)
        IN  /\ \E m \in Months :
                   \/ Local(zone, next_reset_at) = Midnight(AnchorDay(m))
                   \/ NoMidnight(AnchorDay(m)) /\ next_reset_at = zone.change
            /\ ~ \E m \in Months :
                   LocalDay(asked) < AnchorDay(m) /\ AnchorDay(m) < day

\* Days bought in the billing timezone are the days that are counted down, one
\* per local date, across a change of the clocks; bought in UTC they can come
\* out one off (plan.go:126-164, 184, 206).
DaysCountDown ==
    LET utc == [before |-> 0, after |-> 0, change |-> 0]
        bought == RemainingLocalDays(zone, today, AddLocalDays(zone, signup, PeriodDays))
        inUTC == RemainingLocalDays(zone, today, AddLocalDays(utc, signup, PeriodDays))
        days == Max({0, PeriodDays - (LocalDay(today) - LocalDay(signup))})
    IN  /\ ~NoMidnight(LocalDay(signup) + PeriodDays) => bought = days
        /\ inUTC \in days - 1 .. days + 1

\* Months shorter than the anchor day clamp to their own last day
\* (reset.go:57-59), give or take the change of the clocks.
ClampsToLastDay ==
    policy = "monthly_signup" =>
        LET day == DayOf(Local(zone, next_reset_at) + Max({0, Shift}))
        IN  SignupDay >= MonthLengths[MonthOf(day)] => day = FirstDay[MonthOf(day) + 1] - 1
=============================================================================
