------------------------------ MODULE Membership ------------------------------
(***************************************************************************)
(* One subscriber over the days: a plan is bought, its days pass, traffic  *)
(* is used, and the plan is changed again and again through ApplyChange    *)
(* (module PlanChange).  The service that applies an outcome is not        *)
(* written yet; it is taken to hold the row from the read of the           *)
(* subscription to the write of the outcome, and to keep the snapshot of   *)
(* the plan last bought.                                                   *)
(*                                                                         *)
(* The books are history: what was paid against the days it was paid for.  *)
(* A day is worth its share of the price, so values are kept in units of   *)
(* 1/Common of a minor unit, Common a multiple of every period.            *)
(***************************************************************************)
EXTENDS PlanChange

CONSTANTS Plans, Policies, Common,
          Mixed,         \* is a plan stacked onto another one?
          Horizon,       \* the last instant
          MaxChanges,    \* plan changes
          Bytes          \* sizes of the traffic used at once

ASSUME MembershipAssumption ==
    /\ Plans \subseteq PlanSnapshot
    /\ Common \in Nat \ {0}
    /\ \A p \in Plans : p.PeriodDays > 0 => Common % p.PeriodDays = 0
    /\ Mixed \in BOOLEAN
    /\ Horizon \in Nat /\ MaxChanges \in Nat /\ Bytes \subseteq Nat

VARIABLES now,
          sub,         \* the subscription row
          plan,        \* the snapshot of the plan it was last bought under
          changes,     \* changes made so far, the last one, and whether it
          last,        \* was refused
          paid,        \* charged less credited
          prorated,    \* prorated changes so far
          consumed,    \* value of the days that have passed
          forfeited    \* value given up by starting over

books == <<paid, prorated, consumed, forfeited>>
vars == <<now, sub, plan, changes, last, books>>

DayValue(p) == p.Price * (Common \div p.PeriodDays)

\* What the days ahead are worth.
Worth(s, p, t) ==
    IF s.ExpiredAt = Permanent THEN 0
    ELSE RemainingDays(t, s.ExpiredAt) * DayValue(p)

Saleable == {p \in Plans : p.PeriodDays > 0}

Bought(p, t) == [TransferBytes |-> p.TransferBytes, UsedBytes |-> 0, ExpiredAt |-> t]

\* A first purchase, or a subscription that was given away and never expires.
Init ==
    /\ now = 0 /\ changes = 0 /\ last = "none"
    /\ prorated = 0 /\ consumed = 0 /\ forfeited = 0
    /\ plan \in Saleable
    /\ \/ sub = Bought(plan, AddDays(0, plan.PeriodDays)) /\ paid = plan.Price
       \/ sub = Bought(plan, Permanent) /\ paid = 0

Pass ==
    /\ now < Horizon
    /\ now' = now + 1
    /\ consumed' = consumed + Worth(sub, plan, now) - Worth(sub, plan, now + 1)
    /\ UNCHANGED <<sub, plan, changes, last, paid, prorated, forfeited>>

Use ==
    /\ \E n \in Bytes :
          /\ sub.UsedBytes + n <= sub.TransferBytes
          /\ sub' = [sub EXCEPT !.UsedBytes = @ + n]
    /\ UNCHANGED <<now, plan, changes, last, books>>

\* Stacking renews a plan at its price; ApplyChange does not look at Old
\* there, so it also stacks another plan.
Offered(policy) == IF policy = "stack" /\ ~Mixed THEN {plan} ELSE Plans

Change(policy) ==
    /\ changes < MaxChanges
    /\ changes' = changes + 1
    /\ last' = policy
    /\ \E new \in Offered(policy) :
          LET out == ApplyChange(policy, plan, new, sub, now)
          IN  IF Refused(out)
              THEN UNCHANGED <<sub, plan, books>>
              ELSE /\ sub' = [TransferBytes |-> out.TransferBytes,
                              UsedBytes     |-> out.UsedBytes,
                              ExpiredAt     |-> out.ExpiredAt]
                   /\ plan' = new
                   /\ paid' = paid + out.Charge - out.Credit
                   /\ prorated' = prorated + IF policy = "prorate" THEN 1 ELSE 0
                   /\ forfeited' = forfeited +
                        IF policy \in {"deny", "reset"} THEN Worth(sub, plan, now)
                        ELSE IF sub.ExpiredAt = Permanent THEN out.Charge * Common
                        ELSE 0
                   /\ UNCHANGED consumed
    /\ UNCHANGED now

Next == Pass \/ Use \/ \E policy \in Policies : Change(policy)

Spec == Init /\ [][Next]_vars

-----------------------------------------------------------------------------
\* Everything paid for: days gone, days ahead and days given up.
Received == consumed + Worth(sub, plan, now) + forfeited

\* Rounding always favours the user: however often a plan is changed, nobody
\* pays more than the days were worth (plan.go:162-165).
RoundingFavoursUser == paid * Common <= Received

\* And the favour is bounded: a change gives away less than two minor units,
\* so no sequence of changes is a way to make money (plan.go:119-122).
FavourIsBounded == Received <= paid * Common + 2 * Common * prorated

\* Money is only ever taken for a subscription that is live afterwards, the
\* renewal of a lapsed one included (plan.go:210-216).
NothingSoldDead ==
    [][paid' > paid => sub'.ExpiredAt = Permanent \/ sub'.ExpiredAt > now]_vars

\* "A change must be priced against what was actually bought" (plan.go:44-45):
\* after a prorated change with no day used up, what lies ahead was paid for
\* but for the two minor units a change may round away.
WhatLiesAheadWasPaid ==
    last = "prorate" /\ now = 0 /\ forfeited = 0 =>
        Worth(sub, plan, now) <= (paid + 2 * prorated) * Common

\* A detour over another plan on the same day saves at most the one minor
\* unit its two roundings are worth, and never costs extra.
DetourSavesAtMostOne ==
    sub.ExpiredAt # Permanent =>
        \A b, c \in Saleable :
            LET remaining == RemainingDays(now, sub.ExpiredAt)
                direct == PriceDifference(plan, c, remaining)
                detour == PriceDifference(plan, b, remaining)
                              + PriceDifference(b, c, remaining)
            IN  detour \in {direct - 1, direct}

\* "Rounding always favours the user" (plan.go:162), said of the allowance:
\* a prorated allowance is at least its share of the plan's.
AllowanceFavoursUser ==
    last = "prorate" /\ changes = 1 /\ sub.UsedBytes = 0 /\ sub.ExpiredAt # Permanent =>
        sub.TransferBytes * plan.PeriodDays
            >= plan.TransferBytes * RemainingDays(now, sub.ExpiredAt)
=============================================================================
