------------------------------- MODULE Calendar -------------------------------
(***************************************************************************)
(* src/internal/domain/reset.go and RemainingDays of plan.go: the next     *)
(* reset of a subscription and the days left of it, in the operator's      *)
(* timezone.                                                               *)
(*                                                                         *)
(* An instant is a number of units since the start of the calendar, in     *)
(* UTC; a wall clock reading is the instant at which UTC shows it.  The    *)
(* calendar is a sequence of months of any lengths, so the turn of the     *)
(* year is like any other.  A timezone changes its offset once.  Date and  *)
(* AddDate are Go's time package, by what it documents and does for a gap. *)
(***************************************************************************)
EXTENDS Deduction

CONSTANTS MonthLengths,  \* the lengths of the months, in days
          UnitsPerDay    \* units in a day

ASSUME CalendarAssumption ==
    /\ MonthLengths \in Seq(Nat \ {0}) \ {<<>>}
    /\ UnitsPerDay \in Nat \ {0} /\ UnitsPerDay % BucketSize = 0

Months == DOMAIN MonthLengths

\* The day, counted from 0, on which a month begins.
FirstDay == [m \in 1 .. Len(MonthLengths) + 1 |-> SumFunctionOnSet(MonthLengths, 1 .. m - 1)]

MonthOf(day) == CHOOSE m \in Months : FirstDay[m] <= day /\ day < FirstDay[m + 1]
DayInMonth(day) == day - FirstDay[MonthOf(day)] + 1

-----------------------------------------------------------------------------
(* Package time.                                                           *)

OffsetAt(zone, t) == IF t < zone.change THEN zone.before ELSE zone.after
Local(zone, t) == t + OffsetAt(zone, t)
DayOf(wall) == wall \div UnitsPerDay
ClockOf(wall) == wall % UnitsPerDay
Midnight(day) == day * UnitsPerDay

\* The clocks never show the beginning of this day.
Skips(zone, day) ==
    zone.change + zone.before <= Midnight(day) /\ Midnight(day) < zone.change + zone.after

\* time.Date: the offset is first looked up as if the reading were UTC's, then
\* once more at the instant this gives.
Date(zone, wall) ==
    LET guess == OffsetAt(zone, wall)
    IN  IF guess = 0 THEN wall ELSE wall - OffsetAt(zone, wall - guess)

\* Time.AddDate, in months and days: the same reading on the same day of the
\* later month, a day that month lacks running over into the next.
AddMonths(zone, t, n) ==
    LET wall == Local(zone, t)
        day == DayOf(wall)
    IN  Date(zone, Midnight(FirstDay[MonthOf(day) + n] + DayInMonth(day) - 1) + ClockOf(wall))

AddLocalDays(zone, t, n) == Date(zone, Local(zone, t) + Midnight(n))

-----------------------------------------------------------------------------
(* reset.go                                                                *)

NoReset == -1

LastDay(zone, m) == DayInMonth(DayOf(Local(zone, Date(zone, Midnight(FirstDay[m + 1] - 1)))))

\* Mutant: the anchor day is not clamped and runs over.
monthlyAnchorMutant(zone, m, day) == Date(zone, Midnight(FirstDay[m] + day - 1))

monthlyAnchor(zone, m, day) ==
    Date(zone, Midnight(FirstDay[m] + Min({day, LastDay(zone, m)}) - 1))

NextMonthlyFirst(zone, now) ==
    LET first == Date(zone, Midnight(FirstDay[MonthOf(DayOf(Local(zone, now)))]))
    IN  AddMonths(zone, first, 1)

NextMonthlySignup(zone, signup, now) ==
    LET day == DayInMonth(DayOf(Local(zone, signup)))
        m == MonthOf(DayOf(Local(zone, now)))
        next == monthlyAnchor(zone, m, day)
    IN  IF next > now THEN next ELSE monthlyAnchor(zone, m + 1, day)

NextReset(policy, zone, signup, now) ==
    CASE policy = "monthly_1st"    -> AlignBucket(NextMonthlyFirst(zone, now))
      [] policy = "monthly_signup" -> AlignBucket(NextMonthlySignup(zone, signup, now))
      [] OTHER                     -> NoReset

-----------------------------------------------------------------------------
(* plan.go                                                                 *)

\* Mutant: the time between the two local midnights, in days.
RemainingLocalDaysMutant(zone, at, expiredAt) ==
    LET midnight(t) == Date(zone, Midnight(DayOf(Local(zone, t))))
    IN  Max({0, (midnight(expiredAt) - midnight(at)) \div UnitsPerDay})

RemainingLocalDays(zone, at, expiredAt) ==
    Max({0, DayOf(Local(zone, expiredAt)) - DayOf(Local(zone, at))})
=============================================================================
