------------------------------ MODULE PlanChange ------------------------------
(***************************************************************************)
(* src/internal/domain/plan.go: what a move from a live subscription to a  *)
(* plan costs and what it leaves.  Money is in minor units, instants are   *)
(* integers in UTC, DayLength of them to a day.                            *)
(*                                                                         *)
(* The caller is taken to pass its instants in UTC, so AddDate adds whole  *)
(* days, and the operator's timezone to have one offset all year.          *)
(***************************************************************************)
EXTENDS Integers, FiniteSetsExt

CONSTANTS Permanent,     \* a nil ExpiredAt
          DayLength,     \* instants in a day
          UTCOffset      \* of the billing timezone, in instants

ASSUME PlanChangeAssumption ==
    /\ Permanent \notin Int
    /\ DayLength \in Nat \ {0}
    /\ UTCOffset \in Int

PlanSnapshot == [ID : Nat, TransferBytes : Nat, PeriodDays : Int, Price : Nat]

LiveSubscription == [TransferBytes : Nat, UsedBytes : Nat,
                     ExpiredAt : Int \cup {Permanent}]

ChangeError(e) == [error |-> e]
Refused(out) == "error" \in DOMAIN out

-----------------------------------------------------------------------------
\* Mutant: rounds up, against the user.
floorDivMutant(a, b) == -((-a) \div b)
floorDiv(a, b) == a \div b

ceilDiv(a, b) == -((-a) \div b)

AddDays(t, days) == t + days * DayLength

\* The calendar date of an instant in the billing timezone, as a day number.
DateOf(t) == (t + UTCOffset) \div DayLength

RemainingDays(at, expiredAt) == Max({0, DateOf(expiredAt) - DateOf(at)})

-----------------------------------------------------------------------------
(* The policies.                                                           *)

StartOver(new, at) ==
    [Mode          |-> "replace",
     ExpiredAt     |-> AddDays(at, new.PeriodDays),
     TransferBytes |-> new.TransferBytes,
     UsedBytes     |-> 0,
     Charge        |-> new.Price,
     Credit        |-> 0]

\* Mutant: a lapsed subscription is extended from its stale expiry.
StackedExpiryMutant(current, new, at) ==
    IF current.ExpiredAt = Permanent
    THEN Permanent
    ELSE AddDays(current.ExpiredAt, new.PeriodDays)

\* Stacking measures from the expiry, or from now if that has passed.
StackedExpiry(current, new, at) ==
    IF current.ExpiredAt = Permanent
    THEN Permanent
    ELSE AddDays(Max({current.ExpiredAt, at}), new.PeriodDays)

Stacked(current, new, at) ==
    [Mode          |-> "extend",
     ExpiredAt     |-> StackedExpiry(current, new, at),
     TransferBytes |-> current.TransferBytes + new.TransferBytes,
     UsedBytes     |-> current.UsedBytes,
     Charge        |-> new.Price,
     Credit        |-> 0]

\* Mutant: the surrendered days are valued at the price of the new plan's
\* period.
PriceDifferenceMutant(old, new, remaining) ==
    floorDiv(new.Price * remaining, new.PeriodDays)
        - ceilDiv(old.Price * remaining, new.PeriodDays)

\* What the days that remain cost in the new plan, less what they are worth
\* in the old one.
PriceDifference(old, new, remaining) ==
    floorDiv(new.Price * remaining, new.PeriodDays)
        - ceilDiv(old.Price * remaining, old.PeriodDays)

Prorated(old, current, new, at) ==
    LET remaining == RemainingDays(at, current.ExpiredAt)
        diff == PriceDifference(old, new, remaining)
    IN  [Mode          |-> "replace",
         ExpiredAt     |-> current.ExpiredAt,
         TransferBytes |-> floorDiv(new.TransferBytes * remaining, new.PeriodDays),
         UsedBytes     |-> 0,
         Charge        |-> Max({diff, 0}),
         Credit        |-> Max({-diff, 0})]

Denied(current, at) == current.ExpiredAt = Permanent \/ current.ExpiredAt > at

ApplyChange(policy, old, new, current, at) ==
    CASE new.PeriodDays <= 0 -> ChangeError("ErrBadPeriod")
      [] new.PeriodDays > 0 /\ policy = "deny" ->
            IF Denied(current, at) THEN ChangeError("ErrChangeDenied")
                                   ELSE StartOver(new, at)
      [] new.PeriodDays > 0 /\ policy = "reset" -> StartOver(new, at)
      [] new.PeriodDays > 0 /\ policy = "stack" -> Stacked(current, new, at)
      [] new.PeriodDays > 0 /\ policy = "prorate" ->
            IF current.ExpiredAt = Permanent THEN ChangeError("ErrProratePermanent")
            ELSE IF old.PeriodDays <= 0 THEN ChangeError("ErrBadPeriod")
            ELSE Prorated(old, current, new, at)
      [] OTHER -> ChangeError("ErrUnknownPolicy")
=============================================================================
