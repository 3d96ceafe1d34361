------------------------------ MODULE MCAccounts ------------------------------
(***************************************************************************)
(* What is kept about one user, each account by rules of its own: traffic  *)
(* split over subscriptions, reports billed, ledger rows filed by month,   *)
(* allowances reset, plans changed, a balance moved.  The accounts share   *)
(* no state, so a behaviour works one of them and leaves the others at     *)
(* rest: side by side they would only multiply each other's states.        *)
(***************************************************************************)
EXTENDS Membership, Billing, Balance, BatchSplit, LedgerPartitions, ResetCycle

CONSTANTS s1, s2

VARIABLE account  \* the one at work

allVars == <<account, vars, billingVars, balanceVars, splitVars, cycleVars, partitionVars>>

SplitAtRest ==
    /\ input = <<>> /\ at = 0 /\ bills = <<>> /\ ordered = <<>>
    /\ ladder = <<>> /\ rows = <<>> /\ stage = "rest"

\* An allowance that is never reset.
CycleAtRest ==
    /\ zone = CHOOSE z \in Zones : TRUE
    /\ policy = "never" /\ signup = CHOOSE s \in Signups : TRUE
    /\ today = signup /\ asked = signup
    /\ next_reset_at = NoReset /\ resets = 0

\* No row is old enough to need a partition.
LedgerAtRest ==
    /\ clock = 0 /\ installed = 1
    /\ attached = <<>> /\ detached = {} /\ outage = 0

MCInit ==
    /\ account \in {"plan", "billing", "balance", "split", "reset", "ledger"}
    /\ Init /\ (account # "plan" => plan.ID = 1 /\ paid > 0)
    /\ BillingInit /\ (account # "billing" => rate = 1)
    /\ BalanceInit
    /\ IF account = "split" THEN SplitInit ELSE SplitAtRest
    /\ IF account = "reset" THEN CycleInit ELSE CycleAtRest
    /\ IF account = "ledger" THEN Bootstrap ELSE LedgerAtRest

\* Everything but one account stays as it is.
Others(own) ==
    /\ account = own
    /\ UNCHANGED account
    /\ own # "plan" => UNCHANGED vars
    /\ own # "billing" => UNCHANGED billingVars
    /\ own # "balance" => UNCHANGED balanceVars
    /\ own # "split" => UNCHANGED splitVars
    /\ own # "reset" => UNCHANGED cycleVars
    /\ own # "ledger" => UNCHANGED partitionVars

MCNext ==
    \/ Next /\ Others("plan")
    \/ BillingNext /\ Others("billing")
    \/ BalanceNext /\ Others("balance")
    \/ account = "split" /\ SplitNext /\ Others("split")
    \/ account = "reset" /\ CycleNext /\ Others("reset")
    \/ account = "ledger" /\ PartitionNext /\ Others("ledger")

MCSpec == MCInit /\ [][MCNext]_allVars

-----------------------------------------------------------------------------
(* The instances.                                                          *)

\* Two plans whose prices divide unevenly into days and a plan row with no
\* period, in a timezone half a day east.
Plan(id, transfer, days, price) ==
    [ID |-> id, TransferBytes |-> transfer, PeriodDays |-> days, Price |-> price]

MCPlans == { Plan(1, 2, 3, 10), Plan(2, 3, 2, 5), Plan(3, 1, 0, 1) }

\* An eight-bit word: the largest report times the largest rate takes half of
\* it, as 2^47 times 2^15 takes half of int64.  The counts are the bounds of
\* the word and of a report, and what lies next to them.
MCCounts == {-128, -1, 0, 1, 5, 8, 9, 64, 127}
MCRates == {-1, 0, 1, 2, 3, 4, 7}

MCSessions == {s1, s2}
MCAmounts == {-1, 0, 1, 2}

\* Two rows of one subscription as they may differ, packs that expire and
\* packs that do not, a kind the ladder does not know.
Sub(id, kind, transfer, used, expiry) ==
    [ID |-> id, Kind |-> kind, TransferBytes |-> transfer, UsedBytes |-> used,
     ExpiredAt |-> expiry, LastResetAt |-> NoTime, ResetEpoch |-> 0]

MCEntries == { Sub(1, "primary", 2, 0, 4), Sub(1, "primary", 2, 1, NoTime),
               Sub(2, "data_pack", 1, 0, 2), Sub(3, "data_pack", 2, 0, 2),
               Sub(4, "data_pack", 1, 0, NoTime), Sub(5, "data_pack", 1, 2, 4),
               Sub(6, "other", 1, 0, NoTime) }

\* Short months, a bucket of 2 units, a day of 6, and clock changes of one
\* bucket, where the offset of the zone and the local midnight they fall on
\* are what matters.  The months begin on days 0, 3, 8, 11, 16, 20 and 25.
MCMonths == <<3, 5, 3, 5, 4, 5, 3>>

Hour == 2
Fixed(o) == [before |-> o, after |-> o, change |-> 0]

\* The clocks jump over the midnight that begins the day, or are set back to
\* it, or are set back to the last hour before it.
Gap(o, day) == [before |-> o, after |-> o + Hour, change |-> day * UnitsPerDay - o]
Repeat(o, day) == [before |-> o + Hour, after |-> o, change |-> day * UnitsPerDay - o]
SetBack(o, day) ==
    [before |-> o + Hour, after |-> o, change |-> day * UnitsPerDay - o - Hour]

EastZones == {Gap(o, d) : o \in {0, Hour}, d \in {9, 10, 12, 15}}
WestZones == {Gap(-Hour, d) : d \in {13, 14}} \cup {Gap(-2 * Hour, d) : d \in {4, 9, 12}}
MCZones == {Fixed(o) : o \in {-Hour, 0, 2 * Hour}} \cup EastZones \cup WestZones
      \cup {Repeat(o, d) : o \in {-Hour, 0, Hour}, d \in {8, 10}}
      \cup {SetBack(o, d) : o \in {-Hour, 0, Hour}, d \in {8, 10}}

\* Paraguay, where summer time began at midnight on the first Sunday of
\* October: on 1 October in 2017 and 2023.
FirstOfMonthZones == {Gap(-2 * Hour, 11)}

\* Chile and Cuba, where summer time begins at midnight: on 8 September and on
\* 10 March in 2024, the anchors of who subscribed on an 8th or on a 10th.
WestAnchorZones == {Gap(o, d) : o \in {-Hour, -2 * Hour}, d \in {9, 12, 13}}

\* Syria, where it began at midnight on 1 April in 1999 to 2006 and in 2011.
EastFirstZones == {Gap(2 * Hour, 11)}

\* The Azores, where it begins at midnight on the last Sunday of March: on 31
\* March in 2024.
LastOfMonthZones == {Gap(-Hour, 15)}

MCResetPolicies == {"monthly_1st", "monthly_signup", "never"}
MCSignups == {21, 26, 45}

\* The start, the middle and the last unit of a month.
MCStart == {90, 130, 179}
=============================================================================
