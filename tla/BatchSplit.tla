----------------------------- MODULE BatchSplit ------------------------------
(***************************************************************************)
(* The pure functions of Deduction, checked on every list of at most three *)
(* entries drawn from a small set: a case is chosen in the initial state   *)
(* and worked through the way a flush does, two batches of the same bucket *)
(* one after the other.                                                    *)
(***************************************************************************)
EXTENDS Waterfall

CONSTANTS Entries,      \* subscriptions the input lists are made of
          Lengths,      \* lengths of the input lists
          Bills         \* billed amounts

ASSUME BatchSplitAssumption ==
    /\ Entries \subseteq SubQuota
    /\ Lengths \subseteq Nat
    /\ Bills \subseteq Int

VARIABLES input,        \* the list as the caller read it
          at,           \* the bucket
          bills,        \* two batches of the same user and bucket
          ordered,      \* the list after prepare
          ladder,       \* the ladder after the batches applied so far
          rows,         \* what each batch was split into
          stage

splitVars == <<input, at, bills, ordered, ladder, rows, stage>>

SplitInit ==
    /\ input \in UNION {[1 .. n -> Entries] : n \in Lengths}
    /\ at \in {e.ExpiredAt : e \in {e \in Entries : e.ExpiredAt # NoTime}}
    /\ bills \in Bills \X Bills
    /\ ordered = <<>> /\ ladder = <<>>
    /\ rows = <<>>
    /\ stage = "read"

Prepare ==
    /\ stage = "read"
    /\ ordered' \in Prepared(input)
    /\ ladder' = ordered'
    /\ stage' = "prepared"
    /\ UNCHANGED <<input, at, bills, rows>>

SplitBatch ==
    /\ stage = "prepared"
    /\ Len(rows) < 2
    /\ LET split == Attribute(bills[Len(rows) + 1], ladder, at)
       IN  /\ rows' = Append(rows, split)
           /\ ladder' = ApplyAttribution(ladder, split)
    /\ UNCHANGED <<input, at, bills, ordered, stage>>

SplitNext == Prepare \/ SplitBatch

SplitSpec == SplitInit /\ [][SplitNext]_splitVars

-----------------------------------------------------------------------------
IDsOf(list) == {list[i].ID : i \in DOMAIN list}

\* prepare keeps every subscription exactly once and its result does not
\* depend on the order the rows of the table arrived in (quota.go:76-79,
\* ladder.go:88-93).
OrderIndependent ==
    stage = "prepared" =>
        /\ IDsOf(ordered) = IDsOf(input)
        /\ Cardinality(IDsOf(ordered)) = Len(ordered)
        /\ Cardinality(IDsOf(input)) = Len(input) =>
              \A p \in {p \in [DOMAIN input -> DOMAIN input] :
                           IsInjective(p)} :
                 Prepared([i \in DOMAIN input |-> input[p[i]]]) = {ordered}

\* The loop computes the waterfall.
LoopIsWaterfall ==
    stage = "prepared" =>
        \A k \in DOMAIN rows :
            k = 1 => rows[k] = WaterfallRows(bills[k], ordered, at)

\* How the same traffic is cut into batches does not change who pays for it:
\* two batches of one bucket, applied in turn, bill every subscription and
\* overflow what one batch of their sum does, and leave the same counters.
BatchingDoesNotMatter ==
    (stage = "prepared" /\ Len(rows) = 2 /\ bills[1] >= 0 /\ bills[2] >= 0) =>
        LET once == Attribute(bills[1] + bills[2], ordered, at)
        IN  /\ \A id \in IDsOf(ordered) \cup {OverflowSubscriptionID} :
                  BilledTo(once, id) = BilledTo(rows[1], id) + BilledTo(rows[2], id)
            /\ ApplyAttribution(ordered, once) = ladder

\* The authorisation check and the split agree: once a byte has overflowed,
\* no subscription is left that the check would still admit in that bucket
\* (reset.go:99-107 against quota.go:164-183).
EntitlementAgreesWithOverflow ==
    (stage = "prepared" /\ Len(rows) >= 1) =>
        \A k \in DOMAIN rows :
            BilledTo(rows[k], OverflowSubscriptionID) > 0 =>
                \A i \in DOMAIN ladder : ~Entitled(ladder[i], at)
=============================================================================
