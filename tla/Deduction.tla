------------------------------ MODULE Deduction ------------------------------
(***************************************************************************)
(* The pure half of traffic accounting: src/internal/domain/quota.go and   *)
(* the period arithmetic of src/internal/domain/reset.go, together with    *)
(* the copy-and-order step of src/internal/metering/ladder.go (prepare).   *)
(*                                                                         *)
(* Instants are natural numbers, a nil timestamp is NoTime.  Byte counts   *)
(* are naturals: the schema's CHECKs keep both counters non-negative and   *)
(* the bound on one report (traffic.go, module Billing) keeps              *)
(* them far from the end of int64.                                         *)
(***************************************************************************)
EXTENDS Integers, SequencesExt

CONSTANTS NoTime,        \* a nil *time.Time
          BucketSize     \* five minutes, in the model's unit of time

ASSUME DeductionAssumption ==
    /\ NoTime \notin Int
    /\ BucketSize \in Nat \ {0}

\* The sentinel owner of traffic nobody had allowance for.
OverflowSubscriptionID == 0

Times == Nat
Kinds == {"data_pack", "primary", "other"}

\* SubQuota.  IDs are BIGSERIAL keys, hence never the overflow sentinel.
SubQuota ==
    [ID            : Nat \ {OverflowSubscriptionID},
     Kind          : Kinds,
     TransferBytes : Nat,
     UsedBytes     : Nat,
     ExpiredAt     : Times \cup {NoTime},
     LastResetAt   : Times \cup {NoTime},
     ResetEpoch    : Nat]

LedgerRow == [SubscriptionID : Nat, Billed : Nat \ {0}]

-----------------------------------------------------------------------------
(* One subscription at one instant.                                        *)

Available(s) ==
    IF s.UsedBytes >= s.TransferBytes THEN 0 ELSE s.TransferBytes - s.UsedBytes

ActiveAt(s, at) == s.ExpiredAt = NoTime \/ s.ExpiredAt > at

\* Mutant: the last byte of an allowance is given twice.
EntitledMutant(s, at) == ActiveAt(s, at) /\ s.UsedBytes <= s.TransferBytes
Entitled(s, at) == ActiveAt(s, at) /\ s.UsedBytes < s.TransferBytes

AlignBucket(t) == t - (t % BucketSize)

CountsTowardCurrentPeriod(bucketAt, lastResetAt) ==
    lastResetAt = NoTime \/ bucketAt >= AlignBucket(lastResetAt)

-----------------------------------------------------------------------------
(* The deduction order.                                                    *)

kindRank(k) == IF k = "data_pack" THEN 0 ELSE IF k = "primary" THEN 1 ELSE 2

ExpiresSooner(a, b) ==
    /\ a.ExpiredAt # NoTime
    /\ b.ExpiredAt = NoTime \/ a.ExpiredAt < b.ExpiredAt

\* Mutant: no tie-break on the ID.
BeforeMutant(a, b) ==
    \/ kindRank(a.Kind) < kindRank(b.Kind)
    \/ a.Kind = "data_pack" /\ b.Kind = "data_pack" /\ ExpiresSooner(a, b)

\* The comparator handed to sort.SliceStable.
Before(a, b) ==
    \/ kindRank(a.Kind) < kindRank(b.Kind)
    \/ /\ kindRank(a.Kind) = kindRank(b.Kind)
       /\ \/ a.Kind = "data_pack" /\ ExpiresSooner(a, b)
          \/ /\ a.Kind = "data_pack" => a.ExpiredAt = b.ExpiredAt
             /\ a.ID < b.ID

\* Entry i of list ends up in front of entry j: by the comparator, and in
\* input order where the comparator cannot tell them apart (a stable sort).
Precedes(list, i, j) ==
    \/ Before(list[i], list[j])
    \/ ~Before(list[j], list[i]) /\ i < j

\* The lists that sorting the entries of list at the indices I in deduction
\* order can produce.
SortForDeduction(list, I) ==
    LET n == 1 .. Cardinality(I)
        Ordered == {p \in [n -> I] :
                       \A i, j \in n : i < j => Precedes(list, p[i], p[j])}
    IN  {[k \in n |-> list[p[k]]] : p \in Ordered}

\* Mutant: prepare does not de-duplicate.
FirstOfIDMutant(list) == DOMAIN list

\* prepare keeps the first entry of every ID.
FirstOfID(list) ==
    {i \in DOMAIN list : \A j \in 1 .. i - 1 : list[j].ID # list[i].ID}

Prepared(list) == SortForDeduction(list, FirstOfID(list))

InDeductionOrder(list) ==
    \A i, j \in DOMAIN list :
        i < j => list[i].ID # list[j].ID /\ Before(list[i], list[j])

-----------------------------------------------------------------------------
(* Attribution.                                                            *)

\* add: a repeated ID accumulates in the row it already has.
AddRow(rows, id, amount) ==
    IF \E i \in DOMAIN rows : rows[i].SubscriptionID = id
    THEN [i \in DOMAIN rows |->
             IF rows[i].SubscriptionID = id
             THEN [rows[i] EXCEPT !.Billed = @ + amount]
             ELSE rows[i]]
    ELSE Append(rows, [SubscriptionID |-> id, Billed |-> amount])

Lesser(a, b) == IF a < b THEN a ELSE b

\* Mutant: an entry gives all it has.
AbsorbMutantAll(split, s, at) ==
    IF ActiveAt(s, at) /\ Available(s) > 0
    THEN [remaining |-> split.remaining - Available(s),
          rows      |-> AddRow(split.rows, s.ID, Available(s))]
    ELSE split

\* One turn of the loop over the subscriptions: split is the amount still to
\* place and the rows placed so far, s the subscription of this turn.
Absorb(split, s, at) ==
    LET take == Lesser(Available(s), split.remaining)
    IN  IF ActiveAt(s, at) /\ Available(s) > 0
        THEN [remaining |-> split.remaining - take,
              rows      |-> AddRow(split.rows, s.ID, take)]
        ELSE split

\* What is left when the loop ends becomes one overflow row.
Spill(split) ==
    IF split.remaining > 0
    THEN AddRow(split.rows, OverflowSubscriptionID, split.remaining)
    ELSE split.rows

Unsplit(billed) == [remaining |-> billed, rows |-> <<>>]

\* The loop breaks when nothing is left to place: the turns after that place
\* nothing.
Turn(split, s, at) == IF split.remaining = 0 THEN split ELSE Absorb(split, s, at)

Attribute(billed, subs, at) ==
    LET turn(split, s) == Turn(split, s, at)
    IN  IF billed <= 0
        THEN <<>>
        ELSE Spill(FoldLeft(turn, Unsplit(billed), subs))

\* The locals of Attribute after n turns.
SplitAfter(billed, subs, at, n) ==
    LET after[i \in 0 .. n] ==
            IF i = 0 THEN Unsplit(billed) ELSE Turn(after[i - 1], subs[i], at)
    IN  after[n]

\* The sum of the rows written for one ID.
BilledAt(rows) == [k \in DOMAIN rows |-> rows[k].Billed]
BilledTo(rows, id) ==
    SumFunctionOnSet(BilledAt(rows), {k \in DOMAIN rows : rows[k].SubscriptionID = id})

-----------------------------------------------------------------------------
(* Writing into a list: the loops that stop at the first entry of an ID.   *)

HasID(subs, id) == \E i \in DOMAIN subs : subs[i].ID = id

IsFirst(subs, id, i) == subs[i].ID = id /\ \A j \in 1 .. i - 1 : subs[j].ID # id

\* Mutant: the row replaces the counter.
ApplyRowMutant(subs, row) ==
    [i \in DOMAIN subs |->
        IF IsFirst(subs, row.SubscriptionID, i)
        THEN [subs[i] EXCEPT !.UsedBytes = row.Billed]
        ELSE subs[i]]

ApplyRow(subs, row) ==
    IF row.SubscriptionID = OverflowSubscriptionID
    THEN subs
    ELSE [i \in DOMAIN subs |->
             IF IsFirst(subs, row.SubscriptionID, i)
             THEN [subs[i] EXCEPT !.UsedBytes = @ + row.Billed]
             ELSE subs[i]]

ApplyAttribution(subs, rows) == FoldLeft(ApplyRow, subs, rows)
=============================================================================
