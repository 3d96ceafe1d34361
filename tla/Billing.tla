-------------------------------- MODULE Billing --------------------------------
(***************************************************************************)
(* src/internal/domain/traffic.go: the check of a reported pair of byte    *)
(* counts and its conversion to billed bytes, in machine words; around it  *)
(* the accumulator that adds up the reports of one user on one node until  *)
(* a flush bills them (external).                                          *)
(*                                                                         *)
(* A word holds -Half .. Half - 1.  The code's values are Half = 2^63,     *)
(* MaxReportBytes = 2^47, RateMax = 2^15 - 1, RateBPUnit = 100; a run uses *)
(* a small word with the same proportions.                                 *)
(***************************************************************************)
EXTENDS Integers

CONSTANTS Half, MaxReportBytes, RateMax, RateBPUnit,
          Counts,            \* byte counts nodes report
          Rates,             \* multipliers of a node
          ReportsPerFlush,   \* reports the accumulator merges into one bill
          MaxFlushes

Word == -Half .. Half - 1

ASSUME BillingAssumption ==
    /\ {Half, MaxReportBytes, RateMax, RateBPUnit, ReportsPerFlush} \subseteq Nat \ {0}
    /\ MaxFlushes \in Nat
    /\ RateMax < Half /\ RateBPUnit < Half
    /\ 2 * MaxReportBytes < Half
    /\ Counts \subseteq Word
    /\ Rates \subseteq -RateMax - 1 .. RateMax

\* How far the bound on one report goes: so many of them, at the highest
\* rate, still fit a word.
ASSUME HeadroomAssumption == ReportsPerFlush * MaxReportBytes * RateMax < Half

-----------------------------------------------------------------------------
(* Machine arithmetic.                                                     *)

Wrap(n) == ((n + Half) % (2 * Half)) - Half

\* Division rounds toward zero.
Quotient(n, d) == IF n >= 0 THEN n \div d ELSE -((-n) \div d)

-----------------------------------------------------------------------------
(* traffic.go.                                                             *)

Valid(rate) == rate > 0

\* Mutant: the bound is on each direction, not on their sum.
ValidateDeltaMutant(up, down, rate) ==
    IF up < 0 \/ down < 0 THEN "negative"
    ELSE IF up > MaxReportBytes \/ down > MaxReportBytes THEN "implausible"
    ELSE IF ~Valid(rate) THEN "rate"
    ELSE "ok"

ValidateDelta(up, down, rate) ==
    IF up < 0 \/ down < 0 THEN "negative"
    ELSE IF \/ up > MaxReportBytes \/ down > MaxReportBytes
            \/ Wrap(up + down) > MaxReportBytes THEN "implausible"
    ELSE IF ~Valid(rate) THEN "rate"
    ELSE "ok"

BilledBytes(up, down, rate) ==
    Quotient(Wrap(Wrap(up + down) * rate), RateBPUnit)

-----------------------------------------------------------------------------
VARIABLES rate,      \* the node's multiplier
          up, down,  \* the accumulator, in words
          reports,   \* reports in it
          traffic,   \* every byte flushed, counted exactly
          billed,    \* every byte billed, counted exactly
          flushes

billingVars == <<rate, up, down, reports, traffic, billed, flushes>>

BillingTypeOK ==
    /\ rate \in Rates
    /\ up \in Word /\ down \in Word
    /\ reports \in 0 .. ReportsPerFlush
    /\ traffic \in Nat
    /\ billed \in Int
    /\ flushes \in 0 .. MaxFlushes

BillingInit ==
    /\ rate \in Rates
    /\ up = 0 /\ down = 0 /\ reports = 0
    /\ traffic = 0 /\ billed = 0
    /\ flushes = 0

\* A report comes in; one that does not validate is refused and changes
\* nothing.
Report ==
    /\ reports < ReportsPerFlush
    /\ \E u, d \in Counts :
          /\ ValidateDelta(u, d, rate) = "ok"
          /\ up' = Wrap(up + u) /\ down' = Wrap(down + d)
    /\ reports' = reports + 1
    /\ UNCHANGED <<rate, traffic, billed, flushes>>

\* What the accumulator holds becomes one bill.
Flush ==
    /\ reports > 0 /\ flushes < MaxFlushes
    /\ billed' = billed + BilledBytes(up, down, rate)
    /\ traffic' = traffic + (up + down)
    /\ up' = 0 /\ down' = 0 /\ reports' = 0
    /\ flushes' = flushes + 1
    /\ UNCHANGED rate

BillingNext == Report \/ Flush

BillingSpec == BillingInit /\ [][BillingNext]_billingVars

-----------------------------------------------------------------------------
\* However the traffic is split into reports and flushes, what is billed for
\* it is what it costs, less than one billed byte per flush in the user's
\* favour: no product wraps, nothing vanishes and nobody pays for a wrap
\* (traffic.go:38-45, 69-78).
BilledToTheByte ==
    LET owed == traffic * rate - billed * RateBPUnit
    IN  0 <= owed /\ owed <= flushes * (RateBPUnit - 1)

-----------------------------------------------------------------------------
(* Why: the inductive invariant proved in BillingProofs.                   *)

AccumulatorInv ==
    /\ up >= 0 /\ down >= 0
    /\ up + down <= reports * MaxReportBytes
    /\ reports > 0 => rate > 0

BilledInv == BillingTypeOK /\ AccumulatorInv /\ BilledToTheByte
=============================================================================
