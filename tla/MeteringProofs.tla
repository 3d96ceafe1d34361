---------------------------- MODULE MeteringProofs ----------------------------
(***************************************************************************)
(* Proofs about module Metering, for every list of subscriptions, every    *)
(* batch size and every bound: no byte is billed twice or lost, whatever   *)
(* disturbs the Flusher; and, with the resets on time, no subscription is  *)
(* handed traffic back, no period is billed more than its allowance, and   *)
(* where nothing is replayed the ladder is the ledger to the byte.         *)
(*                                                                         *)
(* The argument: what a period costs is what the ledger has of it and what *)
(* the rows in hand will add (Owed).  Every counter covers that, and every *)
(* allowance, because Attribute takes from an entry what it has left and   *)
(* the ladder is charged the same rows the ledger gets.                    *)
(***************************************************************************)
EXTENDS Metering, DeductionProofs

-----------------------------------------------------------------------------
(* Buckets and sums over them.                                             *)

\* Dividing by the size of a bucket.
LEMMA Division ==
    ASSUME NEW n \in Nat \ {0}, NEW t \in Nat
    PROVE  /\ t = n * (t \div n) + (t % n)
           /\ t \div n \in Nat /\ t % n \in 0 .. n - 1
OBVIOUS

\* A multiple of it leaves no rest.
LEMMA Multiple ==
    ASSUME NEW n \in Nat \ {0}, NEW q \in Nat
    PROVE  (n * q) % n = 0
OBVIOUS

\* Alignment rounds down, and what is aligned stays where it is
\* (reset.go:40-45).
LEMMA AlignedStays ==
    ASSUME NEW t \in Nat
    PROVE  /\ AlignBucket(t) \in Nat /\ AlignBucket(t) <= t
           /\ AlignBucket(AlignBucket(t)) = AlignBucket(t)
<1>1. PICK n \in Nat \ {0} : n = BucketSize
    BY DeductionAssumption
<1>2. PICK q \in Nat, r \in Nat : t = n * q + r /\ r = t % n
    <2>1. /\ t = n * (t \div n) + (t % n)
          /\ t \div n \in Nat /\ t % n \in 0 .. n - 1
        BY Division
    <2>2. t % n \in Nat
        BY <2>1
    <2>3. QED
        BY <2>1, <2>2
<1>3. t - r = n * q /\ n * q \in Nat
    BY <1>2
<1>4. (n * q) % n = 0
    BY Multiple
<1>5. AlignBucket(t) = n * q
    BY <1>1, <1>2, <1>3 DEF AlignBucket
<1>6. AlignBucket(n * q) = n * q
    BY <1>1, <1>3, <1>4 DEF AlignBucket
<1>7. n * q <= t
    BY <1>2, <1>3
<1>8. QED
    BY <1>3, <1>5, <1>6, <1>7

\* There are finitely many buckets and owners.
LEMMA FiniteBooks ==
    /\ IsFiniteSet(Buckets) /\ Buckets \subseteq Nat
    /\ IsFiniteSet(Owners) /\ Owners \subseteq Nat
    /\ \A b \in Buckets : AlignBucket(b) = b
<1>1. MaxClock \in Nat /\ Plans \in Seq(SubQuota)
    BY MeteringAssumption
<1>2. Buckets \subseteq 0 .. MaxClock
    <2>1. ASSUME NEW t \in 0 .. MaxClock PROVE AlignBucket(t) \in 0 .. MaxClock
        BY <1>1, AlignedStays
    <2>2. QED
        BY <2>1 DEF Buckets
<1>3. IsFiniteSet(0 .. MaxClock)
    BY <1>1, FS_Interval
<1>4. IsFiniteSet(Buckets)
    BY <1>2, <1>3, FS_Subset
<1>5. IsFiniteSet(IDs) /\ IDs \subseteq Nat
    <2> DEFINE f == [i \in DOMAIN Plans |-> Plans[i].ID]
    <2>1. Len(Plans) \in Nat /\ DOMAIN Plans = 1 .. Len(Plans)
        BY <1>1
    <2>2. IsFiniteSet(DOMAIN Plans)
        BY <2>1, FS_Interval
    <2>3. f \in [DOMAIN Plans -> IDs] /\ \A o \in IDs : \E i \in DOMAIN Plans : f[i] = o
        BY DEF IDs
    <2>4. f \in Surjection(DOMAIN Plans, IDs)
        BY <2>3 DEF Surjection
    <2>5. IsFiniteSet(IDs)
        BY <2>2, <2>4, FS_Surjection
    <2>6. \A i \in DOMAIN Plans : Plans[i].ID \in Nat
        <3>1. \A i \in DOMAIN Plans : Plans[i] \in SubQuota
            BY <1>1
        <3>2. QED
            BY <3>1 DEF SubQuota
    <2>7. QED
        BY <2>5, <2>6 DEF IDs
<1>6. IsFiniteSet(Owners)
    BY <1>5, FS_AddElement DEF Owners
<1>7. Owners \subseteq Nat
    BY <1>5 DEF Owners, OverflowSubscriptionID
<1>8. ASSUME NEW b \in Buckets PROVE AlignBucket(b) = b
    <2>1. PICK t \in 0 .. MaxClock : b = AlignBucket(t)
        BY DEF Buckets
    <2>2. QED
        BY <1>1, <2>1, AlignedStays
<1>9. QED
    BY <1>1, <1>2, <1>4, <1>6, <1>7, <1>8

Ledgers == [Owners \X Buckets -> Nat]

\* What ledger l bills to id in the period since a reset.
PeriodSum(l, id, reset) ==
    SumFunctionOnSet([b \in Buckets |-> l[<<id, b>>]],
                     {b \in Buckets : CountsTowardCurrentPeriod(b, reset)})

\* l with the rows of an attribution added in one bucket.
Added(l, rs, at) ==
    [k \in DOMAIN l |-> IF k[2] = at THEN l[k] + BilledTo(rs, k[1]) ELSE l[k]]

\* The sum over the buckets of a period is a number of bytes.
LEMMA PeriodSumType ==
    ASSUME NEW l \in Ledgers, NEW id \in Owners, NEW reset
    PROVE  PeriodSum(l, id, reset) \in Nat
<1> DEFINE K == {b \in Buckets : CountsTowardCurrentPeriod(b, reset)}
           f == [b \in Buckets |-> l[<<id, b>>]]
<1>1. IsFiniteSet(K)
    BY FiniteBooks, FS_Subset
<1>2. \A b \in K : f[b] \in Nat
    BY DEF Ledgers
<1> HIDE DEF K, f
<1>3. SumFunctionOnSet(f, K) \in Nat
    BY <1>1, <1>2, SumType
<1>4. QED
    BY <1>3 DEF PeriodSum, K, f

\* A period without traffic sums to nothing.
LEMMA PeriodSumZero ==
    ASSUME NEW l \in Ledgers, NEW id \in Owners, NEW reset,
           \A b \in Buckets : CountsTowardCurrentPeriod(b, reset) => l[<<id, b>>] = 0
    PROVE  PeriodSum(l, id, reset) = 0
<1> DEFINE K == {b \in Buckets : CountsTowardCurrentPeriod(b, reset)}
           f == [b \in Buckets |-> l[<<id, b>>]]
<1>1. IsFiniteSet(K)
    BY FiniteBooks, FS_Subset
<1>2. \A b \in K : f[b] = 0
    OBVIOUS
<1> HIDE DEF K, f
<1>3. SumFunctionOnSet(f, K) = 0
    BY <1>1, <1>2, SumZero
<1>4. QED
    BY <1>3 DEF PeriodSum, K, f

\* Rows added in one bucket add to the periods that have the bucket, and to no
\* other.
LEMMA PeriodSumGrows ==
    ASSUME NEW l \in Ledgers, NEW id \in Owners, NEW reset, NEW at \in Buckets,
           NEW rs \in Seq(LedgerRow)
    PROVE  PeriodSum(Added(l, rs, at), id, reset) =
              PeriodSum(l, id, reset)
                 + IF CountsTowardCurrentPeriod(at, reset) THEN BilledTo(rs, id) ELSE 0
<1> DEFINE K == {b \in Buckets : CountsTowardCurrentPeriod(b, reset)}
           f == [b \in Buckets |-> l[<<id, b>>]]
           g == [b \in Buckets |-> Added(l, rs, at)[<<id, b>>]]
<1>1. IsFiniteSet(K)
    BY FiniteBooks, FS_Subset
<1>2. PICK n \in Nat : n = BilledTo(rs, id)
    <2>1. BilledAmong(rs, {id}) \in Nat /\ BilledAmong(rs, {id}) = BilledTo(rs, id)
        BY BilledAmongIs
    <2>2. QED
        BY <2>1
<1>3. ASSUME NEW b \in K
      PROVE  f[b] \in Nat /\ g[b] = IF b = at THEN f[b] + n ELSE f[b]
    <2>1. <<id, b>> \in DOMAIN l /\ l[<<id, b>>] \in Nat
        BY DEF Ledgers
    <2>2. Added(l, rs, at)[<<id, b>>] = IF b = at THEN l[<<id, b>>] + BilledTo(rs, id)
                                        ELSE l[<<id, b>>]
        BY <2>1 DEF Added
    <2>3. QED
        BY <1>2, <2>1, <2>2
<1>4. /\ PeriodSum(Added(l, rs, at), id, reset) = SumFunctionOnSet(g, K)
      /\ PeriodSum(l, id, reset) = SumFunctionOnSet(f, K)
    BY DEF PeriodSum
<1>5. at \in K <=> CountsTowardCurrentPeriod(at, reset)
    OBVIOUS
<1> HIDE DEF K, f, g
<1>6. SumFunctionOnSet(f, K) \in Nat
    BY <1>1, <1>3, SumType
<1>7. CASE at \in K
    <2>1. SumFunctionOnSet(g, K) = SumFunctionOnSet(f, K) + n
        BY <1>1, <1>3, <1>7, SumGrows
    <2>2. QED
        BY <1>2, <1>4, <1>5, <1>7, <2>1
<1>8. CASE at \notin K
    <2>1. \A b \in K : f[b] \in Nat /\ g[b] = f[b]
        BY <1>3, <1>8
    <2>2. SumFunctionOnSet(g, K) = SumFunctionOnSet(f, K)
        BY <1>1, <2>1, SumSame
    <2>3. QED
        BY <1>4, <1>5, <1>6, <1>8, <2>2
<1>9. QED
    BY <1>7, <1>8

\* Rows added in one bucket add what they bill to the total of that bucket,
\* and nothing to another.
LEMMA BucketSumGrows ==
    ASSUME NEW l \in Ledgers, NEW at \in Buckets, NEW b \in Buckets,
           NEW rs \in Seq(LedgerRow), RowOwners(rs) \subseteq Owners
    PROVE  /\ Added(l, rs, at) \in Ledgers
           /\ SumFunctionOnSet([o \in Owners |-> l[<<o, b>>]], Owners) \in Nat
           /\ SumFunctionOnSet([o \in Owners |-> Added(l, rs, at)[<<o, b>>]], Owners) =
                 SumFunctionOnSet([o \in Owners |-> l[<<o, b>>]], Owners)
                    + IF b = at THEN TotalBilled(rs) ELSE 0
<1> DEFINE f == [o \in Owners |-> l[<<o, b>>]]
           g == [o \in Owners |-> BilledTo(rs, o)]
           h == [o \in Owners |-> Added(l, rs, at)[<<o, b>>]]
<1>1. IsFiniteSet(Owners)
    BY FiniteBooks
<1>2. \A o : BilledTo(rs, o) \in Nat
    <2>1. \A o : BilledAmong(rs, {o}) \in Nat /\ BilledAmong(rs, {o}) = BilledTo(rs, o)
        BY BilledAmongIs
    <2>2. QED
        BY <2>1
<1>3. ASSUME NEW o \in Owners, NEW c \in Buckets
      PROVE  /\ l[<<o, c>>] \in Nat
             /\ Added(l, rs, at)[<<o, c>>] = l[<<o, c>>] + IF c = at THEN BilledTo(rs, o) ELSE 0
    <2>1. <<o, c>> \in DOMAIN l /\ l[<<o, c>>] \in Nat
        BY DEF Ledgers
    <2>2. QED
        BY <2>1 DEF Added
<1>4. Added(l, rs, at) \in Ledgers
    <2>1. DOMAIN l = Owners \X Buckets
        BY DEF Ledgers
    <2>2. ASSUME NEW k \in Owners \X Buckets
          PROVE  (IF k[2] = at THEN l[k] + BilledTo(rs, k[1]) ELSE l[k]) \in Nat
        <3>1. l[k] \in Nat /\ BilledTo(rs, k[1]) \in Nat
            BY <1>2 DEF Ledgers
        <3>2. QED
            BY <3>1
    <2>3. QED
        BY <2>1, <2>2 DEF Added, Ledgers
<1>5. \A o \in Owners : f[o] \in Nat /\ g[o] \in Nat /\ h[o] = f[o] + IF b = at THEN g[o] ELSE 0
    BY <1>2, <1>3
<1>6. SumFunctionOnSet(g, Owners) = TotalBilled(rs)
    <2> DEFINE c == [k \in DOMAIN rs |-> rs[k].SubscriptionID]
    <2>1. IsFiniteSet(DOMAIN rs) /\ \A k \in DOMAIN rs : BilledAt(rs)[k] \in Nat
        BY BilledAmongIs
    <2>2. \A k \in DOMAIN rs : c[k] \in Owners
        BY DEF RowOwners
    <2>3. \A o \in Owners : BilledTo(rs, o) = SumFunctionOnSet(BilledAt(rs), {k \in DOMAIN rs : c[k] = o})
        <3>1. ASSUME NEW o \in Owners
              PROVE  {k \in DOMAIN rs : c[k] = o} = {k \in DOMAIN rs : rs[k].SubscriptionID = o}
            OBVIOUS
        <3>2. QED
            BY <3>1 DEF BilledTo
    <2> HIDE DEF c
    <2>4. g = [o \in Owners |-> SumFunctionOnSet(BilledAt(rs), {k \in DOMAIN rs : c[k] = o})]
        BY <2>3
    <2>5. PICK D, F : D = DOMAIN rs /\ F = BilledAt(rs)
        OBVIOUS
    <2>6. IsFiniteSet(D) /\ (\A k \in D : F[k] \in Nat) /\ \A k \in D : c[k] \in Owners
        BY <2>1, <2>2, <2>5
    <2>7. SumFunctionOnSet([o \in Owners |-> SumFunctionOnSet(F, {k \in D : c[k] = o})], Owners)
              = SumFunctionOnSet(F, D)
        BY <1>1, <2>6, SumByKey
    <2>8. QED
        BY <2>4, <2>5, <2>7 DEF TotalBilled
<1> HIDE DEF f, g, h
<1>7. SumFunctionOnSet(f, Owners) \in Nat
    BY <1>1, <1>5, SumType
<1>8. CASE b = at
    <2>1. \A o \in Owners : f[o] \in Nat /\ g[o] \in Nat /\ h[o] = f[o] + g[o]
        BY <1>5, <1>8
    <2>2. SumFunctionOnSet(h, Owners) = SumFunctionOnSet(f, Owners) + SumFunctionOnSet(g, Owners)
        BY <1>1, <2>1, SumPlus
    <2>3. QED
        BY <1>4, <1>6, <1>7, <1>8, <2>2 DEF f, h
<1>9. CASE b # at
    <2>1. \A o \in Owners : f[o] \in Nat /\ h[o] = f[o]
        BY <1>5, <1>9
    <2>2. SumFunctionOnSet(h, Owners) = SumFunctionOnSet(f, Owners)
        BY <1>1, <2>1, SumSame
    <2>3. QED
        BY <1>4, <1>7, <1>9, <2>2 DEF f, h
<1>10. QED
    BY <1>8, <1>9

-----------------------------------------------------------------------------
(* Lists of the user's subscriptions, and what the jobs do to them.        *)

\* A list of the user's subscriptions, in the order of the table.
SameSubs(list) ==
    /\ DOMAIN list = DOMAIN Plans
    /\ \A i \in DOMAIN Plans : /\ list[i].ID = Plans[i].ID
                               /\ list[i].TransferBytes = Plans[i].TransferBytes

\* A ladder entry list as it may be: everything, or nothing where none is held.
LadderOK(list, has) ==
    /\ list \in Seq(SubQuota) /\ InDeductionOrder(list)
    /\ \A k \in DOMAIN list : \E i \in DOMAIN Plans :
          list[k].ID = Plans[i].ID /\ list[k].TransferBytes = Plans[i].TransferBytes
    /\ has \in BOOLEAN
    /\ IF has THEN \A i \in DOMAIN Plans : HasID(list, Plans[i].ID) ELSE list = <<>>

\* The rows of the table have an ID each.
LEMMA RowsAreDistinct ==
    ASSUME NEW list \in Seq(SubQuota), SameSubs(list)
    PROVE  DistinctIDs(list)
BY MeteringAssumption DEF SameSubs, DistinctIDs

\* What is in order has an ID each, too.
LEMMA OrderIsDistinct ==
    ASSUME NEW list \in Seq(SubQuota), InDeductionOrder(list)
    PROVE  DistinctIDs(list)
BY DEF InDeductionOrder, DistinctIDs

\* A ladder prepared from rows of the table has all of them.
LEMMA PreparedLadder ==
    ASSUME NEW list \in Seq(SubQuota), SameSubs(list), NEW out \in Prepared(list)
    PROVE  /\ LadderOK(out, TRUE)
           /\ \A k \in DOMAIN out : \E i \in DOMAIN list : out[k] = list[i]
<1>1. /\ out \in Seq(SubQuota) /\ InDeductionOrder(out)
      /\ \A k \in DOMAIN out : \E i \in DOMAIN list : out[k] = list[i]
    BY PreparedInOrder
<1>2. DistinctIDs(list)
    BY RowsAreDistinct
<1>3. \A i \in DOMAIN list : i \in FirstOfID(list)
    <2>1. ASSUME NEW i \in DOMAIN list, NEW j \in 1 .. i - 1 PROVE list[j].ID # list[i].ID
        <3>1. j \in DOMAIN list /\ j # i
            OBVIOUS
        <3>2. QED
            BY <1>2, <3>1 DEF DistinctIDs
    <2>2. QED
        BY <2>1 DEF FirstOfID
<1>4. ASSUME NEW i \in DOMAIN Plans PROVE HasID(out, Plans[i].ID)
    <2>1. i \in FirstOfID(list) /\ list[i].ID = Plans[i].ID
        BY <1>3 DEF SameSubs
    <2>2. PICK k \in DOMAIN out : out[k] = list[i]
        BY <2>1, PreparedHasAll
    <2>3. QED
        BY <2>1, <2>2 DEF HasID
<1>5. \A k \in DOMAIN out : \E i \in DOMAIN Plans :
         out[k].ID = Plans[i].ID /\ out[k].TransferBytes = Plans[i].TransferBytes
    BY <1>1 DEF SameSubs
<1>6. QED
    BY <1>1, <1>4, <1>5 DEF LadderOK

\* next is list with a period begun at instant for the subscription id.
Rolls(next, list, id, instant) ==
    /\ SameEntries(list, next)
    /\ \A i \in DOMAIN list :
          /\ next[i].TransferBytes = list[i].TransferBytes
          /\ next[i].LastResetAt = IF list[i].ID = id THEN instant ELSE list[i].LastResetAt
          /\ next[i].UsedBytes = IF list[i].ID = id THEN 0 ELSE list[i].UsedBytes

\* Where an ID occurs once, RolledOver resets that entry.
LEMMA RollsOne ==
    ASSUME NEW list \in Seq(SubQuota), DistinctIDs(list),
           NEW id, NEW epoch \in Nat, NEW instant \in Times
    PROVE  Rolls(RolledOver(list, id, epoch, instant), list, id, AlignBucket(instant))
<1> DEFINE next == RolledOver(list, id, epoch, instant)
           a == AlignBucket(instant)
<1>1. SameEntries(list, next)
    BY RolledOverResult
<1>2. ASSUME NEW i \in DOMAIN list
      PROVE  next[i] = IF list[i].ID = id
                       THEN [list[i] EXCEPT !.UsedBytes = 0, !.ResetEpoch = epoch, !.LastResetAt = a]
                       ELSE list[i]
    <2>1. IsFirst(list, id, i) <=> list[i].ID = id
        <3>1. ASSUME list[i].ID = id, NEW j \in 1 .. i - 1 PROVE list[j].ID # id
            <4>1. j \in DOMAIN list /\ j # i
                OBVIOUS
            <4>2. QED
                BY <3>1, <4>1 DEF DistinctIDs
        <3>2. QED
            BY <3>1 DEF IsFirst
    <2>2. QED
        BY <2>1 DEF RolledOver
<1> HIDE DEF next, a
<1>3. ASSUME NEW i \in DOMAIN list
      PROVE  /\ next[i].TransferBytes = list[i].TransferBytes
             /\ next[i].LastResetAt = IF list[i].ID = id THEN a ELSE list[i].LastResetAt
             /\ next[i].UsedBytes = IF list[i].ID = id THEN 0 ELSE list[i].UsedBytes
    <2>1. PICK s \in SubQuota : s = list[i]
        OBVIOUS
    <2>2. CASE s.ID = id
        <3>1. next[i] = [s EXCEPT !.UsedBytes = 0, !.ResetEpoch = epoch, !.LastResetAt = a]
            BY <1>2, <2>1, <2>2
        <3>2. next[i].TransferBytes = s.TransferBytes /\ next[i].LastResetAt = a /\ next[i].UsedBytes = 0
            BY <3>1 DEF SubQuota
        <3>3. QED
            BY <2>1, <2>2, <3>2
    <2>3. CASE s.ID # id
        BY <1>2, <2>1, <2>3
    <2>4. QED
        BY <2>2, <2>3
<1>4. QED
    BY <1>1, <1>3 DEF Rolls, next, a

\* next is list charged with the rows of one bucket.
Charges(next, list, rs, at) ==
    /\ SameEntries(list, next)
    /\ \A k \in DOMAIN list :
          /\ next[k].TransferBytes = list[k].TransferBytes
          /\ next[k].LastResetAt = list[k].LastResetAt
          /\ next[k].UsedBytes = list[k].UsedBytes
                + IF CountsTowardCurrentPeriod(at, list[k].LastResetAt)
                  THEN BilledTo(rs, list[k].ID) ELSE 0

\* A ladder is charged, entry by entry, what the rows bill to its period
\* (ladder.go:186-204).
LEMMA ChargesAll ==
    ASSUME NEW list \in Seq(SubQuota), DistinctIDs(list),
           NEW rs \in Seq(LedgerRow), NEW at \in Times
    PROVE  Charges(Charged(list, rs, at), list, rs, at)
<1> DEFINE next == Charged(list, rs, at)
           more(k) == IF CountsTowardCurrentPeriod(at, list[k].LastResetAt)
                      THEN BilledTo(rs, list[k].ID) ELSE 0
<1>1. next = [k \in DOMAIN list |-> [list[k] EXCEPT !.UsedBytes = @ + more(k)]]
    BY CountersFollowRows
<1>2. \A id : BilledTo(rs, id) \in Nat
    <2>1. \A o : BilledAmong(rs, {o}) \in Nat /\ BilledAmong(rs, {o}) = BilledTo(rs, o)
        BY BilledAmongIs
    <2>2. QED
        BY <2>1
<1>3. \A k : more(k) \in Nat
    BY <1>2
<1> HIDE DEF next, more
<1>4. ASSUME NEW k \in DOMAIN list
      PROVE  /\ next[k] \in SubQuota
             /\ next[k].ID = list[k].ID /\ next[k].Kind = list[k].Kind
             /\ next[k].ExpiredAt = list[k].ExpiredAt
             /\ next[k].TransferBytes = list[k].TransferBytes
             /\ next[k].LastResetAt = list[k].LastResetAt
             /\ next[k].UsedBytes = list[k].UsedBytes + more(k)
    <2>1. PICK s \in SubQuota, n \in Nat : s = list[k] /\ n = more(k)
        BY <1>3
    <2>2. s.UsedBytes + n \in Nat
        <3>1. PICK u \in Nat : u = s.UsedBytes
            BY DEF SubQuota
        <3>2. QED
            BY <3>1
    <2>3. next[k] = [s EXCEPT !.UsedBytes = s.UsedBytes + n]
        BY <1>1, <2>1
    <2>4. /\ next[k] \in SubQuota
          /\ next[k].ID = s.ID /\ next[k].Kind = s.Kind
          /\ next[k].ExpiredAt = s.ExpiredAt
          /\ next[k].TransferBytes = s.TransferBytes
          /\ next[k].LastResetAt = s.LastResetAt
          /\ next[k].UsedBytes = s.UsedBytes + n
        BY <2>2, <2>3 DEF SubQuota
    <2>5. QED
        BY <2>1, <2>4
<1>5. next = [k \in DOMAIN list |-> next[k]]
    BY <1>1
<1>6. next \in Seq(SubQuota) /\ DOMAIN next = DOMAIN list
    BY <1>4, <1>5, RewrittenList
<1>7. QED
    BY <1>4, <1>6 DEF Charges, SameEntries, next, more

-----------------------------------------------------------------------------
(* What the lists, the log and the ledger always look like.                *)

ListsOK ==
    /\ table \in Seq(SubQuota) /\ SameSubs(table)
    /\ inbox \in Seq(SubQuota) /\ (inbox # <<>> => SameSubs(inbox))
    /\ LadderOK(ladder, held)

Batch == [Billed : Nat \ {0}, At : Buckets]

LogOK ==
    /\ clock \in 0 .. MaxClock
    /\ ledger \in Ledgers
    /\ issued \in Seq(Batch) /\ wal \in 0 .. Len(issued) /\ gate \subseteq 1 .. Len(issued)
    /\ stage \in {"idle", "split", "committed", "down"}
    /\ faults \in Disturbances

\* Entries that are still the same subscriptions are still the ladder.
LEMMA LadderKept ==
    ASSUME NEW list, NEW next, NEW has, LadderOK(list, has), SameEntries(list, next),
           \A i \in DOMAIN list : next[i].TransferBytes = list[i].TransferBytes
    PROVE  LadderOK(next, has)
<1>1. /\ list \in Seq(SubQuota) /\ next \in Seq(SubQuota) /\ DOMAIN next = DOMAIN list
      /\ \A i \in DOMAIN list : next[i].ID = list[i].ID
    BY DEF LadderOK, SameEntries
<1>2. InDeductionOrder(next)
    BY <1>1, SameEntriesKeepOrder DEF LadderOK
<1>3. \A k \in DOMAIN next : \E i \in DOMAIN Plans :
         next[k].ID = Plans[i].ID /\ next[k].TransferBytes = Plans[i].TransferBytes
    BY <1>1 DEF LadderOK
<1>4. has \in BOOLEAN
    BY DEF LadderOK
<1>5. CASE has
    BY <1>1, <1>2, <1>3, <1>4, <1>5 DEF LadderOK, HasID
<1>6. CASE ~has
    <2>1. list = <<>>
        BY <1>6 DEF LadderOK
    <2>2. next = <<>>
        BY <1>1, <2>1
    <2>3. QED
        BY <1>1, <1>2, <1>3, <1>4, <1>6, <2>2 DEF LadderOK
<1>7. QED
    BY <1>4, <1>5, <1>6

\* SumOf is the sum of a period.
LEMMA SumOfIs ==
    ASSUME NEW s
    PROVE  SumOf(s) = PeriodSum(ledger, s.ID, s.LastResetAt)
BY DEF SumOf, PeriodSum

\* A row of the table is one of the owners.
LEMMA RowsAreOwners ==
    ASSUME NEW list, SameSubs(list), NEW i \in DOMAIN list
    PROVE  list[i].ID \in Owners
BY DEF SameSubs, Owners, IDs

\* list has the counters of the ledger.
Counted(list) ==
    /\ list \in Seq(SubQuota) /\ SameSubs(list) /\ DOMAIN list = DOMAIN table
    /\ \A i \in DOMAIN table :
          /\ list[i].ID = table[i].ID
          /\ list[i].LastResetAt = table[i].LastResetAt
          /\ list[i].UsedBytes = SumOf(table[i])

\* What Rebuild is given (quota.go:186-192, ladder.go:61-66).
LEMMA AuthoritativeIs ==
    ASSUME ListsOK, LogOK
    PROVE  Counted(Authoritative)
<1>1. table \in Seq(SubQuota) /\ SameSubs(table) /\ ledger \in Ledgers
    BY DEF ListsOK, LogOK
<1>2. \A i \in DOMAIN table : SumOf(table[i]) \in Nat
    <2>1. ASSUME NEW i \in DOMAIN table PROVE SumOf(table[i]) \in Nat
        <3>1. table[i].ID \in Owners
            BY <1>1, RowsAreOwners
        <3>2. QED
            BY <1>1, <3>1, PeriodSumType, SumOfIs
    <2>2. QED
        BY <2>1
<1> DEFINE next == Authoritative
<1>3. /\ next = [i \in DOMAIN table |-> next[i]]
      /\ \A i \in DOMAIN table : next[i] = [table[i] EXCEPT !.UsedBytes = SumOf(table[i])]
    BY DEF Authoritative
<1> HIDE DEF next
<1>4. ASSUME NEW i \in DOMAIN table
      PROVE  /\ next[i] \in SubQuota
             /\ next[i].ID = table[i].ID
             /\ next[i].LastResetAt = table[i].LastResetAt
             /\ next[i].TransferBytes = table[i].TransferBytes
             /\ next[i].UsedBytes = SumOf(table[i])
    <2>1. PICK s \in SubQuota : s = table[i]
        BY <1>1
    <2>2. PICK n \in Nat : n = SumOf(table[i])
        BY <1>2
    <2>3. next[i] = [s EXCEPT !.UsedBytes = n]
        BY <1>3, <2>1, <2>2
    <2>4. /\ next[i] \in SubQuota
          /\ next[i].ID = s.ID
          /\ next[i].LastResetAt = s.LastResetAt
          /\ next[i].TransferBytes = s.TransferBytes
          /\ next[i].UsedBytes = n
        BY <2>3 DEF SubQuota
    <2>5. QED
        BY <2>1, <2>2, <2>4
<1>5. next \in Seq(SubQuota) /\ DOMAIN next = DOMAIN table
    BY <1>1, <1>3, <1>4, RewrittenList
<1>6. SameSubs(next)
    BY <1>1, <1>4, <1>5 DEF SameSubs
<1>7. QED
    BY <1>4, <1>5, <1>6 DEF Counted, next

\* A Reset writes one row of the table, and the same subscription's entry.
ResetOf(i, at) ==
    /\ i \in DOMAIN table
    /\ table[i].LastResetAt # NoTime => table[i].LastResetAt < at
    /\ Rolls(table', table, table[i].ID, at)
    /\ Rolls(ladder', ladder, table[i].ID, at)

\* That is what Reset does (ladder.go:242-261).
LEMMA ResetIs ==
    ASSUME ListsOK, LogOK, Reset
    PROVE  \E i \in DOMAIN table : ResetOf(i, AlignBucket(clock))
<1>1. clock \in Nat
    BY MeteringAssumption DEF LogOK
<1>2. PICK at \in Times : at = AlignBucket(clock) /\ AlignBucket(at) = at
    BY <1>1, AlignedStays DEF Times
<1>3. PICK i \in DOMAIN table :
          /\ table[i].LastResetAt # NoTime => table[i].LastResetAt < at
          /\ table' = RolledOver(table, table[i].ID, table[i].ResetEpoch + 1, at)
          /\ ladder' = RolledOver(ladder, table[i].ID, table[i].ResetEpoch + 1, at)
    BY <1>2 DEF Reset
<1>4. /\ table \in Seq(SubQuota) /\ DistinctIDs(table)
      /\ ladder \in Seq(SubQuota) /\ DistinctIDs(ladder)
    BY RowsAreDistinct, OrderIsDistinct DEF ListsOK, LadderOK
<1>5. PICK epoch \in Nat : epoch = table[i].ResetEpoch + 1
    <2>1. table[i] \in SubQuota
        BY <1>4
    <2>2. table[i].ResetEpoch \in Nat
        BY <2>1 DEF SubQuota
    <2>3. QED
        BY <2>2
<1>6. Rolls(RolledOver(table, table[i].ID, epoch, at), table, table[i].ID, AlignBucket(at))
    BY <1>4, RollsOne
<1>7. Rolls(RolledOver(ladder, table[i].ID, epoch, at), ladder, table[i].ID, AlignBucket(at))
    BY <1>4, RollsOne
<1>8. ResetOf(i, at)
    BY <1>2, <1>3, <1>5, <1>6, <1>7 DEF ResetOf
<1>9. QED
    BY <1>2, <1>8

\* Attributing charges the ladder with a split of the batch.
LEMMA AttributeIs ==
    ASSUME ListsOK, LogOK, AttributeBatch
    PROVE  /\ issued[wal] \in Batch
           /\ IsSplitOf(rows', issued[wal].Billed, ladder)
           /\ IsWaterfallOf(rows', issued[wal].Billed, ladder, issued[wal].At)
           /\ Charges(ladder', ladder, rows', issued[wal].At)
<1>1. ladder \in Seq(SubQuota) /\ DistinctIDs(ladder)
    BY OrderIsDistinct DEF ListsOK, LadderOK
<1>2. (IF held THEN ladder ELSE <<>>) = ladder
    BY DEF ListsOK, LadderOK
<1>3. issued[wal] \in Batch
    BY DEF AttributeBatch, LogOK
<1>4. PICK n \in Nat \ {0}, t \in Buckets : n = issued[wal].Billed /\ t = issued[wal].At
    BY <1>3 DEF Batch
<1>5. rows' = Attribute(n, ladder, t) /\ ladder' = Charged(ladder, rows', t)
    BY <1>2, <1>4 DEF AttributeBatch
<1>6. IsSplitOf(Attribute(n, ladder, t), n, ladder)
    BY <1>1, SplitConserves
<1>7. IsWaterfallOf(Attribute(n, ladder, t), n, ladder, t)
    BY <1>1, LoopPours
<1>8. PICK rs \in Seq(LedgerRow) : rs = rows'
    BY <1>5, <1>6 DEF IsSplitOf
<1>9. t \in Times
    BY FiniteBooks DEF Times
<1>10. Charges(Charged(ladder, rs, t), ladder, rs, t)
    BY <1>1, <1>9, ChargesAll
<1>11. QED
    BY <1>3, <1>4, <1>5, <1>6, <1>7, <1>8, <1>10

\* The lists a behaviour begins with.
LEMMA ListsBegin == Init => ListsOK
<1> SUFFICES ASSUME Init PROVE ListsOK
    OBVIOUS
<1>1. Plans \in Seq(SubQuota) /\ SameSubs(Plans)
    BY MeteringAssumption DEF SameSubs
<1>2. ladder \in Prepared(Plans)
    BY DEF Init
<1>3. LadderOK(ladder, TRUE)
    BY <1>1, <1>2, PreparedLadder
<1>4. /\ table = Plans
      /\ held = TRUE /\ inbox = <<>>
    BY DEF Init
<1>5. <<>> \in Seq(SubQuota)
    OBVIOUS
<1>6. QED
    BY <1>1, <1>3, <1>4, <1>5 DEF ListsOK

\* No job, handler or crash leaves a list that is not one of the user's
\* subscriptions in the order they are deducted in.
LEMMA ListsStay == ListsOK /\ LogOK /\ [Next]_vars => ListsOK'
<1> SUFFICES ASSUME ListsOK, LogOK, [Next]_vars PROVE ListsOK'
    OBVIOUS
<1>1. /\ table \in Seq(SubQuota) /\ SameSubs(table)
      /\ inbox \in Seq(SubQuota) /\ (inbox # <<>> => SameSubs(inbox))
      /\ LadderOK(ladder, held)
    BY DEF ListsOK
<1>2. SUFFICES /\ table' \in Seq(SubQuota) /\ SameSubs(table')
               /\ inbox' \in Seq(SubQuota) /\ (inbox' # <<>> => SameSubs(inbox'))
               /\ LadderOK(ladder', held')
    BY DEF ListsOK
<1>3. Counted(Authoritative)
    BY AuthoritativeIs
<1>4. <<>> \in Seq(SubQuota) /\ LadderOK(<<>>, FALSE)
    <2>1. <<>> \in Seq(SubQuota) /\ DOMAIN <<>> = {}
        OBVIOUS
    <2>2. QED
        BY <2>1 DEF LadderOK, InDeductionOrder
<1>5. \A out \in Prepared(Authoritative) : LadderOK(out, TRUE)
    BY <1>3, PreparedLadder DEF Counted
<1>6. CASE Log
    BY <1>1, <1>6 DEF Log, dbVars, ladderVars
<1>7. CASE AttributeBatch
    <2>1. Charges(ladder', ladder, rows', issued[wal].At)
        BY <1>7, AttributeIs
    <2>2. LadderOK(ladder', held)
        BY <1>1, <2>1, LadderKept DEF Charges
    <2>3. QED
        BY <1>1, <1>7, <2>2 DEF AttributeBatch, dbVars
<1>8. CASE Commit
    BY <1>1, <1>8 DEF Commit, ladderVars
<1>9. CASE Ack
    BY <1>1, <1>9 DEF Ack, dbVars, ladderVars
<1>10. CASE Crash
    BY <1>1, <1>4, <1>10 DEF Crash, dbVars
<1>11. CASE Hydrate
    BY <1>1, <1>5, <1>11 DEF Hydrate, dbVars
<1>12. CASE Tick
    BY <1>1, <1>12 DEF Tick, dbVars, ladderVars
<1>13. CASE Rollup
    BY <1>1, <1>3, <1>13 DEF Rollup, ladderVars, Counted
<1>14. CASE Rebuild
    BY <1>1, <1>5, <1>14 DEF Rebuild, dbVars
<1>15. CASE ReadTable
    BY <1>1, <1>15 DEF ReadTable, dbVars, ladderVars
<1>16. CASE Sync
    <2>1. PICK list \in Prepared(inbox) : ladder' = KeepKnown(list, ladder)
        BY <1>16 DEF Sync
    <2>2. inbox # <<>> /\ held' = TRUE /\ inbox' = <<>> /\ table' = table
        BY <1>16 DEF Sync, dbVars
    <2>3. LadderOK(list, TRUE)
        BY <1>1, <2>1, <2>2, PreparedLadder
    <2>4. Keeps(KeepKnown(list, ladder), list, ladder)
        BY <1>1, <2>3, KeepsKnown DEF LadderOK
    <2>5. LadderOK(ladder', TRUE)
        BY <2>1, <2>3, <2>4, LadderKept DEF Keeps
    <2>6. QED
        BY <1>1, <1>4, <2>2, <2>5
<1>17. CASE Reset
    <2>1. PICK i \in DOMAIN table : ResetOf(i, AlignBucket(clock))
        BY <1>17, ResetIs
    <2>2. LadderOK(ladder', held)
        BY <1>1, <2>1, LadderKept DEF ResetOf, Rolls
    <2>3. table' \in Seq(SubQuota) /\ SameSubs(table')
        BY <1>1, <2>1 DEF ResetOf, Rolls, SameEntries, SameSubs
    <2>4. held' = held /\ inbox' = inbox
        BY <1>17 DEF Reset
    <2>5. QED
        BY <1>1, <2>2, <2>3, <2>4
<1>18. CASE Drop
    BY <1>1, <1>4, <1>18 DEF Drop, dbVars
<1>19. CASE UNCHANGED vars
    BY <1>1, <1>19 DEF vars, dbVars, ladderVars
<1>20. QED
    BY <1>6, <1>7, <1>8, <1>9, <1>10, <1>11, <1>12, <1>13, <1>14, <1>15, <1>16, <1>17, <1>18, <1>19
       DEF Next

-----------------------------------------------------------------------------
(* The batch gate.                                                         *)

\* What ledger l has in a bucket.
BucketSum(l, at) == SumFunctionOnSet([o \in Owners |-> l[<<o, at>>]], Owners)

\* What the batches of log s that passed gate g have in it.
GateSum(s, g, at) == SumFunctionOnSet([b \in g |-> s[b].Billed], {b \in g : s[b].At = at})

\* The rows in hand are a split of the logged batch.
RowsOK ==
    /\ wal # 0
    /\ rows \in Seq(LedgerRow)
    /\ RowOwners(rows) \subseteq Owners
    /\ TotalBilled(rows) = issued[wal].Billed

BatchInv ==
    /\ wal # 0 => wal = Len(issued)
    /\ stage = "committed" => wal \in gate
    /\ stage = "split" => RowsOK
    /\ LedgerExactlyOnce

\* LedgerExactlyOnce, with the names of this module.
LEMMA ExactlyOnceIs ==
    LedgerExactlyOnce <=>
       /\ \A b \in DOMAIN issued : b \in gate \/ b = wal
       /\ \A at \in Buckets : BucketSum(ledger, at) = GateSum(issued, gate, at)
BY DEF LedgerExactlyOnce, BucketSum, GateSum

\* A longer log changes nothing about the batches that passed.
LEMMA GateSumKeeps ==
    ASSUME NEW s, NEW t, NEW g, NEW at, \A b \in g : t[b] = s[b]
    PROVE  GateSum(t, g, at) = GateSum(s, g, at)
<1>1. [b \in g |-> t[b].Billed] = [b \in g |-> s[b].Billed]
    OBVIOUS
<1>2. {b \in g : t[b].At = at} = {b \in g : s[b].At = at}
    OBVIOUS
<1>3. QED
    BY <1>1, <1>2 DEF GateSum

\* A batch that passes adds what it bills to its bucket.
LEMMA GateSumGrows ==
    ASSUME NEW s \in Seq(Batch), NEW g, g \subseteq DOMAIN s, NEW b \in DOMAIN s, b \notin g,
           NEW at \in Buckets
    PROVE  /\ GateSum(s, g, at) \in Nat
           /\ GateSum(s, g \cup {b}, at) = GateSum(s, g, at) + IF s[b].At = at THEN s[b].Billed ELSE 0
<1> DEFINE f == [c \in g |-> s[c].Billed]
           h == [c \in g \cup {b} |-> s[c].Billed]
           K == {c \in g : s[c].At = at}
           L == {c \in g \cup {b} : s[c].At = at}
<1>1. \A c \in DOMAIN s : s[c].Billed \in Nat
    <2>1. ASSUME NEW c \in DOMAIN s PROVE s[c].Billed \in Nat
        <3>1. s[c] \in Batch
            OBVIOUS
        <3>2. QED
            BY <3>1 DEF Batch
    <2>2. QED
        BY <2>1
<1>2. IsFiniteSet(K)
    <2>1. Len(s) \in Nat /\ DOMAIN s = 1 .. Len(s)
        OBVIOUS
    <2>2. IsFiniteSet(DOMAIN s)
        BY <2>1, FS_Interval
    <2>3. QED
        BY <2>2, FS_Subset
<1>3. \A c \in K : f[c] \in Nat /\ h[c] = f[c]
    BY <1>1
<1>4. h[b] = s[b].Billed /\ h[b] \in Nat
    BY <1>1
<1>5. L = IF s[b].At = at THEN K \cup {b} ELSE K
    OBVIOUS
<1>6. b \notin K
    OBVIOUS
<1>7. GateSum(s, g, at) = SumFunctionOnSet(f, K) /\ GateSum(s, g \cup {b}, at) = SumFunctionOnSet(h, L)
    BY DEF GateSum
<1> HIDE DEF f, h, K, L
<1>8. SumFunctionOnSet(f, K) \in Nat
    BY <1>2, <1>3, SumType
<1>9. SumFunctionOnSet(h, K) = SumFunctionOnSet(f, K)
    BY <1>2, <1>3, SumSame
<1>10. \A c \in K : h[c] \in Nat
    BY <1>3
<1>11. SumFunctionOnSet(h, K \cup {b}) = h[b] + SumFunctionOnSet(h, K)
    BY <1>2, <1>4, <1>6, <1>10, SumAdd
<1>12. QED
    BY <1>4, <1>5, <1>7, <1>8, <1>9, <1>11

\* Where no batch of a bucket passed, no owner has traffic there.
LEMMA QuietBucket ==
    ASSUME NEW l \in Ledgers, NEW s, NEW g, NEW at \in Buckets,
           \A b \in g : s[b].At # at, BucketSum(l, at) = GateSum(s, g, at)
    PROVE  \A o \in Owners : l[<<o, at>>] = 0
<1>1. {b \in g : s[b].At = at} = {}
    OBVIOUS
<1>2. BucketSum(l, at) = 0
    BY <1>1, SumEmpty DEF GateSum
<1> DEFINE f == [o \in Owners |-> l[<<o, at>>]]
<1>3. IsFiniteSet(Owners) /\ \A o \in Owners : f[o] \in Nat /\ f[o] = l[<<o, at>>]
    BY FiniteBooks DEF Ledgers
<1>4. SumFunctionOnSet(f, Owners) = 0
    BY <1>2 DEF BucketSum
<1> HIDE DEF f
<1>5. ASSUME NEW o \in Owners PROVE f[o] = 0
    <2>1. SumFunctionOnSet(f, Owners) = f[o] + SumFunctionOnSet(f, Owners \ {o})
        BY <1>3, SumRemove
    <2>2. SumFunctionOnSet(f, Owners \ {o}) \in Nat
        BY <1>3, FS_Subset, SumType
    <2>3. f[o] \in Nat
        BY <1>3
    <2>4. QED
        BY <1>4, <2>1, <2>2, <2>3
<1>6. QED
    BY <1>3, <1>5

BookVars == <<issued, wal, stage, rows, ledger, gate>>

\* Where nothing is logged, committed or acknowledged, the books stay.
LEMMA BooksKept ==
    ASSUME BatchInv, UNCHANGED BookVars
    PROVE  BatchInv'
<1>1. /\ issued' = issued /\ wal' = wal /\ stage' = stage /\ rows' = rows
      /\ ledger' = ledger /\ gate' = gate
    BY DEF BookVars
<1>2. RowsOK' <=> RowsOK
    BY <1>1 DEF RowsOK
<1>3. LedgerExactlyOnce' <=> LedgerExactlyOnce
    BY <1>1 DEF LedgerExactlyOnce
<1>4. QED
    BY <1>1, <1>2, <1>3 DEF BatchInv

\* The Flusher stops, or comes back, without touching the books.
LEMMA BooksSurvive ==
    ASSUME BatchInv, UNCHANGED <<issued, wal, ledger, gate>>, stage' \in {"idle", "down"}
    PROVE  BatchInv'
<1>1. LedgerExactlyOnce' <=> LedgerExactlyOnce
    BY DEF LedgerExactlyOnce
<1>2. QED
    BY <1>1 DEF BatchInv

\* Committing adds the rows to the bucket, if the gate lets them through.
LEMMA CommitIs ==
    ASSUME LogOK, BatchInv, Commit
    PROVE  /\ wal \in DOMAIN issued /\ issued[wal] \in Batch
           /\ rows \in Seq(LedgerRow) /\ RowOwners(rows) \subseteq Owners
           /\ TotalBilled(rows) = issued[wal].Billed
           /\ ledger' = IF wal \in gate THEN ledger ELSE Added(ledger, rows, issued[wal].At)
           /\ ledger' \in Ledgers
<1>1. RowsOK
    BY DEF Commit, BatchInv
<1>2. wal \in DOMAIN issued /\ issued[wal] \in Batch
    BY <1>1 DEF RowsOK, LogOK
<1>3. ledger' = IF wal \in gate THEN ledger ELSE Added(ledger, rows, issued[wal].At)
    BY DEF Commit, Upserted, Added
<1>4. issued[wal].At \in Buckets /\ ledger \in Ledgers
    BY <1>2 DEF Batch, LogOK
<1>5. Added(ledger, rows, issued[wal].At) \in Ledgers
    BY <1>1, <1>4, BucketSumGrows DEF RowsOK
<1>6. QED
    BY <1>1, <1>2, <1>3, <1>4, <1>5 DEF RowsOK

\* The log and the books are well formed, from the start and for good.
LEMMA LogStays == LogOK /\ BatchInv /\ [Next]_vars => LogOK'
<1> SUFFICES ASSUME LogOK, BatchInv, [Next]_vars PROVE LogOK'
    OBVIOUS
<1>1. CASE Log
    <2>1. PICK n \in Bills, t \in {clock, clock - 1} \cap Nat :
              issued' = Append(issued, [Billed |-> n, At |-> AlignBucket(t)])
        BY <1>1 DEF Log
    <2>2. clock \in 0 .. MaxClock /\ MaxClock \in Nat
        BY MeteringAssumption DEF LogOK
    <2>3. t \in 0 .. MaxClock
        BY <2>1, <2>2
    <2>4. AlignBucket(t) \in Buckets /\ n \in Nat \ {0}
        BY <2>3, MeteringAssumption DEF Buckets
    <2>5. PICK b \in Batch : b = [Billed |-> n, At |-> AlignBucket(t)]
        BY <2>4 DEF Batch
    <2>6. issued \in Seq(Batch) /\ issued' = Append(issued, b)
        BY <2>1, <2>5 DEF LogOK
    <2>7. issued' \in Seq(Batch) /\ Len(issued') = Len(issued) + 1
        BY <2>6
    <2>8. QED
        BY <1>1, <2>6, <2>7 DEF Log, LogOK, dbVars, ladderVars
<1>2. CASE AttributeBatch
    BY <1>2 DEF AttributeBatch, LogOK, dbVars
<1>3. CASE Commit
    <2>1. ledger' \in Ledgers /\ wal \in 1 .. Len(issued)
        <3>1. issued \in Seq(Batch)
            BY DEF LogOK
        <3>2. QED
            BY <1>3, <3>1, CommitIs
    <2>2. QED
        BY <1>3, <2>1 DEF Commit, LogOK
<1>4. CASE Ack
    <2>1. 0 \in 0 .. Len(issued)
        BY DEF LogOK
    <2>2. QED
        BY <1>4, <2>1 DEF Ack, LogOK, dbVars, ladderVars
<1>5. CASE Crash
    BY <1>5 DEF Crash, LogOK, dbVars
<1>6. CASE Hydrate
    BY <1>6 DEF Hydrate, LogOK, dbVars
<1>7. CASE Tick
    BY <1>7, MeteringAssumption DEF Tick, LogOK, dbVars, flushVars
<1>8. CASE Rollup
    BY <1>8 DEF Rollup, LogOK, flushVars
<1>9. CASE Rebuild
    BY <1>9 DEF Rebuild, LogOK, dbVars, flushVars
<1>10. CASE ReadTable
    BY <1>10 DEF ReadTable, LogOK, dbVars, flushVars
<1>11. CASE Sync
    BY <1>11 DEF Sync, LogOK, dbVars, flushVars
<1>12. CASE Reset
    BY <1>12 DEF Reset, LogOK, flushVars
<1>13. CASE Drop
    BY <1>13 DEF Drop, LogOK, dbVars, flushVars
<1>14. CASE UNCHANGED vars
    BY <1>14 DEF LogOK, vars, dbVars, flushVars
<1>15. QED
    BY <1>1, <1>2, <1>3, <1>4, <1>5, <1>6, <1>7, <1>8, <1>9, <1>10, <1>11, <1>12, <1>13, <1>14
       DEF Next

\* They are so in the beginning, and nothing is billed.
LEMMA LogBegins == Init => LogOK /\ BatchInv
<1> SUFFICES ASSUME Init PROVE LogOK /\ BatchInv
    OBVIOUS
<1>1. ledger \in Ledgers /\ \A o \in Owners, at \in Buckets : ledger[<<o, at>>] = 0
    BY DEF Init, Ledgers
<1>2. issued = <<>> /\ issued \in Seq(Batch) /\ Len(issued) = 0 /\ DOMAIN issued = {}
    BY DEF Init
<1>3. LogOK
    BY <1>1, <1>2, MeteringAssumption DEF Init, LogOK
<1>4. ASSUME NEW at \in Buckets PROVE BucketSum(ledger, at) = GateSum(issued, gate, at)
    <2> DEFINE f == [o \in Owners |-> ledger[<<o, at>>]]
    <2>1. IsFiniteSet(Owners) /\ \A o \in Owners : f[o] = 0
        BY <1>1, FiniteBooks
    <2>2. BucketSum(ledger, at) = SumFunctionOnSet(f, Owners)
        BY DEF BucketSum
    <2> HIDE DEF f
    <2>3. SumFunctionOnSet(f, Owners) = 0
        BY <2>1, SumZero
    <2>4. {b \in gate : issued[b].At = at} = {}
        BY DEF Init
    <2>5. GateSum(issued, gate, at) = 0
        BY <2>4, SumEmpty DEF GateSum
    <2>6. QED
        BY <2>2, <2>3, <2>5
<1>5. LedgerExactlyOnce
    BY <1>2, <1>4, ExactlyOnceIs
<1>6. QED
    BY <1>3, <1>5 DEF Init, BatchInv

\* The gate keeps the books: a batch that is replayed finds its number there
\* (0001_core.sql:367-369).
LEMMA BooksStay == ListsOK /\ LogOK /\ BatchInv /\ [Next]_vars => BatchInv'
<1> SUFFICES ASSUME ListsOK, LogOK, BatchInv, [Next]_vars PROVE BatchInv'
    OBVIOUS
<1>1. /\ issued \in Seq(Batch) /\ gate \subseteq DOMAIN issued /\ wal \in 0 .. Len(issued)
      /\ ledger \in Ledgers /\ DOMAIN issued = 1 .. Len(issued) /\ Len(issued) \in Nat
    BY DEF LogOK
<1>2. /\ \A b \in DOMAIN issued : b \in gate \/ b = wal
      /\ \A at \in Buckets : BucketSum(ledger, at) = GateSum(issued, gate, at)
    BY ExactlyOnceIs DEF BatchInv
<1>3. LedgerExactlyOnce' <=>
         /\ \A b \in DOMAIN issued' : b \in gate' \/ b = wal'
         /\ \A at \in Buckets : BucketSum(ledger', at) = GateSum(issued', gate', at)
    BY DEF LedgerExactlyOnce, BucketSum, GateSum
<1>4. CASE Log
    <2>1. PICK b \in Batch : issued' = Append(issued, b)
        <3>1. PICK n \in Bills, t \in {clock, clock - 1} \cap Nat :
                  issued' = Append(issued, [Billed |-> n, At |-> AlignBucket(t)])
            BY <1>4 DEF Log
        <3>2. clock \in 0 .. MaxClock /\ MaxClock \in Nat
            BY MeteringAssumption DEF LogOK
        <3>3. t \in 0 .. MaxClock
            BY <3>1, <3>2
        <3>4. AlignBucket(t) \in Buckets /\ n \in Nat \ {0}
            BY <3>3, MeteringAssumption DEF Buckets
        <3>5. QED
            BY <3>1, <3>4 DEF Batch
    <2>2. /\ wal = 0 /\ stage = "idle" /\ stage' = "idle" /\ wal' = Len(issued')
          /\ ledger' = ledger /\ gate' = gate
        BY <1>4 DEF Log, dbVars
    <2>3. /\ Len(issued') = Len(issued) + 1 /\ DOMAIN issued' = 1 .. Len(issued) + 1
          /\ \A c \in DOMAIN issued : issued'[c] = issued[c]
        BY <1>1, <2>1
    <2>4. \A at \in Buckets : GateSum(issued', gate, at) = GateSum(issued, gate, at)
        BY <1>1, <2>3, GateSumKeeps
    <2>5. \A c \in DOMAIN issued' : c \in gate \/ c = wal'
        BY <1>1, <1>2, <2>2, <2>3
    <2>6. LedgerExactlyOnce'
        BY <1>2, <1>3, <2>2, <2>4, <2>5
    <2>7. QED
        BY <2>2, <2>6 DEF BatchInv
<1>5. CASE AttributeBatch
    <2>1. issued[wal] \in Batch /\ IsSplitOf(rows', issued[wal].Billed, ladder)
        BY <1>5, AttributeIs
    <2>2. PICK n \in Nat \ {0} : n = issued[wal].Billed
        BY <2>1 DEF Batch
    <2>3. /\ rows' \in Seq(LedgerRow)
          /\ RowOwners(rows') \subseteq {ladder[i].ID : i \in DOMAIN ladder} \cup {OverflowSubscriptionID}
          /\ TotalBilled(rows') = issued[wal].Billed
        BY <2>1, <2>2 DEF IsSplitOf
    <2>4. {ladder[i].ID : i \in DOMAIN ladder} \subseteq IDs
        BY DEF ListsOK, LadderOK, IDs
    <2>5. /\ wal # 0 /\ wal' = wal /\ issued' = issued /\ ledger' = ledger /\ gate' = gate
          /\ stage' = "split"
        BY <1>5 DEF AttributeBatch, dbVars
    <2>6. RowsOK'
        BY <2>3, <2>4, <2>5 DEF RowsOK, Owners
    <2>7. LedgerExactlyOnce'
        BY <1>2, <1>3, <2>5
    <2>8. QED
        BY <2>5, <2>6, <2>7 DEF BatchInv
<1>6. CASE Commit
    <2>1. /\ wal \in DOMAIN issued /\ issued[wal] \in Batch
          /\ rows \in Seq(LedgerRow) /\ RowOwners(rows) \subseteq Owners
          /\ TotalBilled(rows) = issued[wal].Billed
          /\ ledger' = IF wal \in gate THEN ledger ELSE Added(ledger, rows, issued[wal].At)
        BY <1>6, CommitIs
    <2>2. /\ gate' = gate \cup {wal} /\ wal' = wal /\ issued' = issued /\ stage' = "committed"
        BY <1>6 DEF Commit
    <2>3. ASSUME NEW at \in Buckets
          PROVE  BucketSum(ledger', at) = GateSum(issued, gate', at)
        <3>1. CASE wal \in gate
            <4>1. gate' = gate
                BY <2>2, <3>1
            <4>2. QED
                BY <1>2, <2>1, <3>1, <4>1
        <3>2. CASE wal \notin gate
            <4>1. PICK t \in Buckets, n \in Nat : t = issued[wal].At /\ n = issued[wal].Billed
                BY <2>1 DEF Batch
            <4>2. /\ BucketSum(ledger, at) \in Nat
                  /\ BucketSum(Added(ledger, rows, t), at) =
                        BucketSum(ledger, at) + IF at = t THEN TotalBilled(rows) ELSE 0
                BY <1>1, <2>1, BucketSumGrows DEF BucketSum
            <4>3. GateSum(issued, gate \cup {wal}, at) =
                      GateSum(issued, gate, at) + IF issued[wal].At = at THEN issued[wal].Billed ELSE 0
                BY <1>1, <2>1, <3>2, GateSumGrows
            <4>4. QED
                BY <1>2, <2>1, <2>2, <3>2, <4>1, <4>2, <4>3
        <3>3. QED
            BY <3>1, <3>2
    <2>4. LedgerExactlyOnce'
        BY <1>2, <1>3, <2>2, <2>3
    <2>5. QED
        BY <2>2, <2>4 DEF BatchInv
<1>7. CASE Ack
    <2>1. /\ wal \in gate /\ wal' = 0 /\ issued' = issued /\ ledger' = ledger /\ gate' = gate
          /\ stage' = "idle"
        BY <1>7 DEF Ack, dbVars, BatchInv
    <2>2. LedgerExactlyOnce'
        BY <1>2, <1>3, <2>1
    <2>3. QED
        BY <2>1, <2>2 DEF BatchInv
<1>8. CASE Crash
    BY <1>8, BooksSurvive DEF Crash, dbVars
<1>9. CASE Hydrate
    BY <1>9, BooksSurvive DEF Hydrate, dbVars
<1>10. CASE Tick
    BY <1>10, BooksKept DEF Tick, dbVars, flushVars, BookVars
<1>11. CASE Rollup
    BY <1>11, BooksKept DEF Rollup, flushVars, BookVars
<1>12. CASE Rebuild
    BY <1>12, BooksKept DEF Rebuild, dbVars, flushVars, BookVars
<1>13. CASE ReadTable
    BY <1>13, BooksKept DEF ReadTable, dbVars, flushVars, BookVars
<1>14. CASE Sync
    BY <1>14, BooksKept DEF Sync, dbVars, flushVars, BookVars
<1>15. CASE Reset
    BY <1>15, BooksKept DEF Reset, flushVars, BookVars
<1>16. CASE Drop
    BY <1>16, BooksKept DEF Drop, dbVars, flushVars, BookVars
<1>17. CASE UNCHANGED vars
    BY <1>17, BooksKept DEF vars, dbVars, flushVars, BookVars
<1>18. QED
    BY <1>4, <1>5, <1>6, <1>7, <1>8, <1>9, <1>10, <1>11, <1>12, <1>13, <1>14, <1>15, <1>16, <1>17
       DEF Next

\* The lists, the log and the books together are inductive.
Books == ListsOK /\ LogOK /\ BatchInv

\* So they hold for good.
LEMMA BooksInductive == Spec => []Books
<1>1. Init => Books
    BY ListsBegin, LogBegins DEF Books
<1>2. Books /\ [Next]_vars => Books'
    BY ListsStay, LogStays, BooksStay DEF Books
<1>3. QED
    BY <1>1, <1>2, PTL DEF Spec

\* Whatever crashes, replays, stale rows or late resets there are, every byte
\* of a batch that left the log is in the ledger once, in its own bucket
\* (0001_core.sql:253-256, 367-369; ladder.go:50-51).
THEOREM EveryByteOnce == Spec => []LedgerExactlyOnce
<1>1. Books => LedgerExactlyOnce
    BY DEF Books, BatchInv
<1>2. QED
    BY <1>1, BooksInductive, PTL

-----------------------------------------------------------------------------
(* The period of a subscription.                                           *)

\* What the current period of a subscription costs: what ledger l has, and
\* what the rows rs in hand will add in bucket at.
Owed(l, rs, at, id, reset) ==
    PeriodSum(l, id, reset) + IF CountsTowardCurrentPeriod(at, reset) THEN BilledTo(rs, id) ELSE 0

\* The rows that are not in the ledger yet, and their bucket.
InHand == IF stage = "split" /\ wal \notin gate THEN rows ELSE <<>>
HandAt == issued[wal].At

\* The period begun at a is not after the one begun at b.
NoLater(a, b) == a = NoTime \/ (b # NoTime /\ AlignBucket(a) <= AlignBucket(b))

\* No entry of list is ahead of the table t.
Follows(list, t) ==
    \A k \in DOMAIN list, i \in DOMAIN t :
        list[k].ID = t[i].ID => NoLater(list[k].LastResetAt, t[i].LastResetAt)

\* The counters of list cover what the periods of t cost.
Covers(list, t, l, rs, at) ==
    \A k \in DOMAIN list, i \in DOMAIN t :
        list[k].ID = t[i].ID => list[k].UsedBytes >= Owed(l, rs, at, t[i].ID, t[i].LastResetAt)

\* No period of t costs more than its allowance.
Within(t, l, rs, at) ==
    \A i \in DOMAIN t : Owed(l, rs, at, t[i].ID, t[i].LastResetAt) <= t[i].TransferBytes

PeriodInv ==
    /\ Follows(inbox, table) /\ Follows(ladder, table)
    /\ Covers(ladder, table, ledger, InHand, HandAt)
    /\ Within(table, ledger, InHand, HandAt)

\* What is owed is a number of bytes.
LEMMA OwedIs ==
    ASSUME NEW l \in Ledgers, NEW rs \in Seq(LedgerRow), NEW at, NEW id \in Owners, NEW reset
    PROVE  /\ PeriodSum(l, id, reset) \in Nat
           /\ BilledTo(rs, id) \in Nat
           /\ Owed(l, rs, at, id, reset) \in Nat
           /\ Owed(l, rs, at, id, reset) >= PeriodSum(l, id, reset)
<1>1. BilledAmong(rs, {id}) \in Nat /\ BilledAmong(rs, {id}) = BilledTo(rs, id)
    BY BilledAmongIs
<1>2. PeriodSum(l, id, reset) \in Nat
    BY PeriodSumType
<1>3. BilledTo(rs, id) \in Nat
    BY <1>1
<1>4. QED
    BY <1>2, <1>3 DEF Owed

\* With nothing in hand it is the sum of the period.
LEMMA OwedNothing ==
    ASSUME NEW l \in Ledgers, NEW at, NEW id \in Owners, NEW reset
    PROVE  Owed(l, <<>>, at, id, reset) = PeriodSum(l, id, reset)
<1>1. <<>> \in Seq(LedgerRow) /\ BilledTo(<<>>, id) = 0
    BY EmptyRows, BilledAmongIs
<1>2. PeriodSum(l, id, reset) \in Nat
    BY PeriodSumType
<1>3. QED
    BY <1>1, <1>2 DEF Owed

\* Moving the rows from the hand to the ledger changes nothing.
LEMMA OwedCommitted ==
    ASSUME NEW l \in Ledgers, NEW at \in Buckets, NEW rs \in Seq(LedgerRow),
           RowOwners(rs) \subseteq Owners, NEW id \in Owners, NEW reset
    PROVE  Owed(Added(l, rs, at), <<>>, at, id, reset) = Owed(l, rs, at, id, reset)
<1>1. Added(l, rs, at) \in Ledgers
    BY BucketSumGrows
<1>2. Owed(Added(l, rs, at), <<>>, at, id, reset) = PeriodSum(Added(l, rs, at), id, reset)
    BY <1>1, OwedNothing
<1>3. PeriodSum(Added(l, rs, at), id, reset) =
         PeriodSum(l, id, reset) + IF CountsTowardCurrentPeriod(at, reset) THEN BilledTo(rs, id) ELSE 0
    BY PeriodSumGrows
<1>4. QED
    BY <1>2, <1>3 DEF Owed

\* A later period has no bucket that an earlier one has not.
LEMMA LaterHasLess ==
    ASSUME NEW a \in Times \cup {NoTime}, NEW b \in Times \cup {NoTime}, NoLater(a, b),
           NEW at \in Nat, CountsTowardCurrentPeriod(at, b)
    PROVE  CountsTowardCurrentPeriod(at, a)
<1>1. CASE a = NoTime
    BY <1>1 DEF CountsTowardCurrentPeriod
<1>2. CASE a # NoTime
    <2>1. a \in Nat /\ b \in Nat /\ AlignBucket(a) <= AlignBucket(b)
        BY <1>2 DEF NoLater, Times
    <2>2. AlignBucket(a) \in Nat /\ AlignBucket(b) \in Nat
        BY <2>1, AlignedStays
    <2>3. b # NoTime
        BY <2>1, DeductionAssumption
    <2>4. at >= AlignBucket(b)
        BY <2>3 DEF CountsTowardCurrentPeriod
    <2>5. QED
        BY <2>1, <2>2, <2>4 DEF CountsTowardCurrentPeriod
<1>3. QED
    BY <1>1, <1>2

\* A period is not after itself.
LEMMA NotAfterItself ==
    ASSUME NEW a \in Times \cup {NoTime}
    PROVE  NoLater(a, a)
<1>1. CASE a \in Times
    <2>1. AlignBucket(a) \in Nat
        BY <1>1, AlignedStays DEF Times
    <2>2. QED
        BY <2>1 DEF NoLater
<1>2. QED
    BY <1>1 DEF NoLater

\* Lists with the table's rows, and what they have in common.
Fields(list) ==
    /\ list \in Seq(SubQuota)
    /\ \A i \in DOMAIN list : /\ list[i].ID \in Nat \ {OverflowSubscriptionID}
                              /\ list[i].UsedBytes \in Nat
                              /\ list[i].TransferBytes \in Nat
                              /\ list[i].LastResetAt \in Times \cup {NoTime}

\* What the entries of a list of subscriptions are made of.
LEMMA FieldsAre ==
    ASSUME NEW list \in Seq(SubQuota)
    PROVE  Fields(list)
<1>1. \A i \in DOMAIN list : list[i] \in SubQuota
    OBVIOUS
<1>2. QED
    BY <1>1 DEF Fields, SubQuota

\* The entries of out are in the table's periods, at what these cost when
\* nothing is in hand.
Fresh(out, t, l, at) ==
    \A k \in DOMAIN out, i \in DOMAIN t : out[k].ID = t[i].ID =>
        /\ out[k].LastResetAt = t[i].LastResetAt
        /\ NoLater(out[k].LastResetAt, t[i].LastResetAt)
        /\ out[k].UsedBytes = Owed(l, <<>>, at, t[i].ID, t[i].LastResetAt)

\* A ladder fresh from the ledger follows the table and covers it.
LEMMA FreshLadder ==
    ASSUME ListsOK, LogOK, NEW list, Counted(list), NEW out \in Prepared(list), NEW at
    PROVE  Fresh(out, table, ledger, at)
<1>1. /\ table \in Seq(SubQuota) /\ SameSubs(table) /\ ledger \in Ledgers
      /\ list \in Seq(SubQuota) /\ SameSubs(list) /\ DistinctIDs(table)
    BY RowsAreDistinct DEF ListsOK, LogOK, Counted
<1>2. SUFFICES ASSUME NEW k \in DOMAIN out, NEW i \in DOMAIN table, out[k].ID = table[i].ID
               PROVE  /\ out[k].LastResetAt = table[i].LastResetAt
                      /\ NoLater(out[k].LastResetAt, table[i].LastResetAt)
                      /\ out[k].UsedBytes = Owed(ledger, <<>>, at, table[i].ID, table[i].LastResetAt)
    BY DEF Fresh
<1>3. \A n \in DOMAIN out : \E m \in DOMAIN list : out[n] = list[m]
    BY <1>1, PreparedInOrder
<1>4. PICK m \in DOMAIN list : out[k] = list[m]
    BY <1>3
<1>5. m = i
    BY <1>1, <1>2, <1>4 DEF Counted, DistinctIDs
<1>6. table[i].ID \in Owners
    BY <1>1, RowsAreOwners
<1>7. Owed(ledger, <<>>, at, table[i].ID, table[i].LastResetAt) = SumOf(table[i])
    BY <1>1, <1>6, OwedNothing, SumOfIs
<1>8. out[k].LastResetAt = table[i].LastResetAt /\ out[k].UsedBytes = SumOf(table[i])
    BY <1>4, <1>5 DEF Counted
<1>9. table[i].LastResetAt \in Times \cup {NoTime}
    BY <1>1, FieldsAre DEF Fields
<1>10. NoLater(table[i].LastResetAt, table[i].LastResetAt)
    BY <1>9, NotAfterItself
<1>11. QED
    BY <1>7, <1>8, <1>10

\* What is in hand is a list of rows of the user's owners.
LEMMA HandIs ==
    ASSUME LogOK, BatchInv
    PROVE  /\ InHand \in Seq(LedgerRow) /\ RowOwners(InHand) \subseteq Owners
           /\ InHand # <<>> => /\ stage = "split" /\ wal \notin gate
                               /\ wal \in DOMAIN issued /\ HandAt \in Buckets
<1>1. <<>> \in Seq(LedgerRow) /\ RowOwners(<<>>) = {}
    BY EmptyRows
<1>2. CASE stage = "split" /\ wal \notin gate
    <2>1. RowsOK
        BY <1>2 DEF BatchInv
    <2>2. wal \in DOMAIN issued /\ issued[wal] \in Batch
        BY <2>1 DEF RowsOK, LogOK
    <2>3. QED
        BY <1>2, <2>1, <2>2 DEF RowsOK, InHand, HandAt, Batch
<1>3. CASE ~(stage = "split" /\ wal \notin gate)
    BY <1>1, <1>3 DEF InHand
<1>4. QED
    BY <1>2, <1>3

\* A split takes from an entry of the ladder no more than it has left, and
\* nothing from a subscription that is not there (quota.go:156-179).
LEMMA TakesWhatIsLeft ==
    ASSUME NEW list \in Seq(SubQuota), DistinctIDs(list), NEW n \in Nat \ {0}, NEW at, NEW rs,
           IsSplitOf(rs, n, list), IsWaterfallOf(rs, n, list, at)
    PROVE  /\ \A k \in DOMAIN list : BilledTo(rs, list[k].ID) > 0 =>
                 list[k].UsedBytes + BilledTo(rs, list[k].ID) <= list[k].TransferBytes
           /\ \A id \in Nat \ {OverflowSubscriptionID} : ~HasID(list, id) => BilledTo(rs, id) = 0
<1>1. ASSUME NEW k \in DOMAIN list, BilledTo(rs, list[k].ID) > 0
      PROVE  list[k].UsedBytes + BilledTo(rs, list[k].ID) <= list[k].TransferBytes
    <2>1. BilledTo(rs, list[k].ID) = Poured(n, list, at, k)
        BY DEF IsWaterfallOf
    <2>2. PICK s \in SubQuota : s = list[k]
        OBVIOUS
    <2>3. /\ k \in 1 .. Len(list) + 1 /\ TakenBefore(list, at, k) \in Nat
        <3>1. k \in 1 .. Len(list) + 1
            OBVIOUS
        <3>2. QED
            BY <3>1, TakenBeforeIs
    <2>4. Room(s, at) \in Nat /\ (Room(s, at) > 0 => s.UsedBytes + Room(s, at) = s.TransferBytes)
        BY AvailableBounds DEF Room
    <2>5. Poured(n, list, at, k) <= Room(s, at) /\ Poured(n, list, at, k) \in Nat
        BY <2>2, <2>3, <2>4 DEF Poured, Lesser
    <2>6. s.UsedBytes \in Nat /\ s.TransferBytes \in Nat
        BY DEF SubQuota
    <2>7. QED
        BY <1>1, <2>1, <2>2, <2>4, <2>5, <2>6
<1>2. ASSUME NEW id \in Nat \ {OverflowSubscriptionID}, ~HasID(list, id)
      PROVE  BilledTo(rs, id) = 0
    <2>1. {id} \cap RowOwners(rs) = {}
        BY <1>2 DEF IsSplitOf, HasID
    <2>2. BilledAmong(rs, {id}) = 0
        BY <2>1, NotAnOwner
    <2>3. rs \in Seq(LedgerRow)
        BY DEF IsSplitOf
    <2>4. QED
        BY <2>2, <2>3, BilledAmongIs
<1>3. QED
    BY <1>1, <1>2

\* No period costs more after a step than before it.
Lighter ==
    \A id \in Owners : \A reset :
        /\ Owed(ledger', InHand', HandAt', id, reset) \in Nat
        /\ Owed(ledger', InHand', HandAt', id, reset) <= Owed(ledger, InHand, HandAt, id, reset)

\* The table's rows keep their periods and allowances.
PeriodsStay ==
    /\ DOMAIN table' = DOMAIN table
    /\ \A i \in DOMAIN table : /\ table'[i].ID = table[i].ID
                               /\ table'[i].LastResetAt = table[i].LastResetAt
                               /\ table'[i].TransferBytes = table[i].TransferBytes

\* A step that puts nothing new in the hand costs no period anything.
LEMMA NothingNew ==
    ASSUME LogOK, BatchInv, ledger' = ledger,
           InHand' = <<>> \/ (InHand' = InHand /\ HandAt' = HandAt)
    PROVE  Lighter
<1>1. ledger \in Ledgers /\ InHand \in Seq(LedgerRow)
    BY HandIs DEF LogOK
<1>2. SUFFICES ASSUME NEW id \in Owners, NEW reset
               PROVE  /\ Owed(ledger', InHand', HandAt', id, reset) \in Nat
                      /\ Owed(ledger', InHand', HandAt', id, reset) <= Owed(ledger, InHand, HandAt, id, reset)
    BY DEF Lighter
<1>3. /\ PeriodSum(ledger, id, reset) \in Nat
      /\ Owed(ledger, InHand, HandAt, id, reset) \in Nat
      /\ Owed(ledger, InHand, HandAt, id, reset) >= PeriodSum(ledger, id, reset)
    BY <1>1, OwedIs
<1>4. CASE InHand' = <<>>
    <2>1. Owed(ledger, <<>>, HandAt', id, reset) = PeriodSum(ledger, id, reset)
        BY <1>1, OwedNothing
    <2>2. QED
        BY <1>3, <1>4, <2>1
<1>5. CASE InHand' = InHand /\ HandAt' = HandAt
    BY <1>3, <1>5
<1>6. QED
    BY <1>4, <1>5

\* Then the allowances still hold,
LEMMA WithinStays ==
    ASSUME ListsOK, LogOK, BatchInv, PeriodInv, Lighter, PeriodsStay
    PROVE  Within(table', ledger', InHand', HandAt')
<1>1. table \in Seq(SubQuota) /\ SameSubs(table) /\ ledger \in Ledgers /\ InHand \in Seq(LedgerRow)
    BY HandIs DEF ListsOK, LogOK
<1>2. SUFFICES ASSUME NEW i \in DOMAIN table
               PROVE  Owed(ledger', InHand', HandAt', table[i].ID, table[i].LastResetAt) <= table[i].TransferBytes
    BY DEF Within, PeriodsStay
<1>3. table[i].ID \in Owners /\ table[i].TransferBytes \in Nat
    BY <1>1, RowsAreOwners, FieldsAre DEF Fields
<1>4. /\ Owed(ledger', InHand', HandAt', table[i].ID, table[i].LastResetAt) \in Nat
      /\ Owed(ledger', InHand', HandAt', table[i].ID, table[i].LastResetAt)
             <= Owed(ledger, InHand, HandAt, table[i].ID, table[i].LastResetAt)
    BY <1>3 DEF Lighter
<1>5. Owed(ledger, InHand, HandAt, table[i].ID, table[i].LastResetAt) \in Nat
    BY <1>1, <1>3, OwedIs
<1>6. Owed(ledger, InHand, HandAt, table[i].ID, table[i].LastResetAt) <= table[i].TransferBytes
    BY DEF PeriodInv, Within
<1>7. QED
    BY <1>3, <1>4, <1>5, <1>6

\* the counters still cover,
LEMMA CoversStays ==
    ASSUME ListsOK, LogOK, BatchInv, PeriodInv, Lighter, PeriodsStay, ladder' = ladder
    PROVE  Covers(ladder', table', ledger', InHand', HandAt')
<1>1. /\ table \in Seq(SubQuota) /\ SameSubs(table) /\ ledger \in Ledgers /\ InHand \in Seq(LedgerRow)
      /\ ladder \in Seq(SubQuota)
    BY HandIs DEF ListsOK, LogOK, LadderOK
<1>2. SUFFICES ASSUME NEW k \in DOMAIN ladder, NEW i \in DOMAIN table, ladder[k].ID = table[i].ID
               PROVE  ladder[k].UsedBytes >= Owed(ledger', InHand', HandAt', table[i].ID, table[i].LastResetAt)
    BY DEF Covers, PeriodsStay
<1>3. table[i].ID \in Owners /\ ladder[k].UsedBytes \in Nat
    BY <1>1, RowsAreOwners, FieldsAre DEF Fields
<1>4. /\ Owed(ledger', InHand', HandAt', table[i].ID, table[i].LastResetAt) \in Nat
      /\ Owed(ledger', InHand', HandAt', table[i].ID, table[i].LastResetAt)
             <= Owed(ledger, InHand, HandAt, table[i].ID, table[i].LastResetAt)
    BY <1>3 DEF Lighter
<1>5. Owed(ledger, InHand, HandAt, table[i].ID, table[i].LastResetAt) \in Nat
    BY <1>1, <1>3, OwedIs
<1>6. ladder[k].UsedBytes >= Owed(ledger, InHand, HandAt, table[i].ID, table[i].LastResetAt)
    BY <1>2 DEF PeriodInv, Covers
<1>7. QED
    BY <1>3, <1>4, <1>5, <1>6

\* and with the lists as they were, emptied or read anew, so does the rest.
LEMMA PeriodsKept ==
    ASSUME ListsOK, LogOK, BatchInv, PeriodInv, Lighter, PeriodsStay,
           ladder' = ladder \/ ladder' = <<>>,
           inbox' = inbox \/ inbox' = <<>> \/ inbox' = table
    PROVE  PeriodInv'
<1>1. Within(table', ledger', InHand', HandAt')
    BY WithinStays
<1>2. DOMAIN <<>> = {}
    OBVIOUS
<1>3. Covers(ladder', table', ledger', InHand', HandAt')
    BY <1>2, CoversStays DEF Covers
<1>4. Follows(ladder', table')
    BY <1>2 DEF PeriodInv, Follows, PeriodsStay
<1>5. Follows(inbox', table')
    <2>1. CASE inbox' = table
        <3>1. table \in Seq(SubQuota) /\ SameSubs(table) /\ DistinctIDs(table)
            BY RowsAreDistinct DEF ListsOK
        <3>2. \A i \in DOMAIN table : NoLater(table[i].LastResetAt, table[i].LastResetAt)
            BY <3>1, FieldsAre, NotAfterItself DEF Fields
        <3>3. QED
            BY <2>1, <3>1, <3>2 DEF Follows, PeriodsStay, DistinctIDs
    <2>2. CASE inbox' = inbox \/ inbox' = <<>>
        BY <1>2, <2>2 DEF PeriodInv, Follows, PeriodsStay
    <2>3. QED
        BY <2>1, <2>2
<1>6. QED
    BY <1>1, <1>3, <1>4, <1>5 DEF PeriodInv

\* Attributing pours no more into a period than its allowance has left, and
\* the ladder is charged what the rows will add (quota.go:156-179,
\* ladder.go:186-204).
LEMMA AttributeKeepsPeriods ==
    ASSUME ListsOK, LogOK, BatchInv, PeriodInv, AttributeBatch
    PROVE  PeriodInv'
<1>1. /\ issued[wal] \in Batch
      /\ IsSplitOf(rows', issued[wal].Billed, ladder)
      /\ IsWaterfallOf(rows', issued[wal].Billed, ladder, issued[wal].At)
      /\ Charges(ladder', ladder, rows', issued[wal].At)
    BY AttributeIs
<1>2. /\ table' = table /\ ledger' = ledger /\ inbox' = inbox
      /\ stage = "idle" /\ stage' = "split" /\ issued' = issued /\ wal' = wal /\ gate' = gate
    BY DEF AttributeBatch, dbVars
<1>3. PICK n \in Nat \ {0}, at \in Buckets : n = issued[wal].Billed /\ at = issued[wal].At
    BY <1>1 DEF Batch
<1>4. PICK rs \in Seq(LedgerRow) : rs = rows'
    BY <1>1 DEF IsSplitOf
<1>5. /\ ladder \in Seq(SubQuota) /\ DistinctIDs(ladder) /\ InDeductionOrder(ladder)
      /\ table \in Seq(SubQuota) /\ SameSubs(table) /\ DistinctIDs(table)
      /\ ledger \in Ledgers
      /\ \A k \in DOMAIN ladder : \E i \in DOMAIN Plans :
            ladder[k].ID = Plans[i].ID /\ ladder[k].TransferBytes = Plans[i].TransferBytes
    BY OrderIsDistinct, RowsAreDistinct DEF ListsOK, LogOK, LadderOK
<1>6. at \in Nat
    BY FiniteBooks
<1>7. InHand = <<>> /\ InHand' = (IF wal \in gate THEN <<>> ELSE rs) /\ HandAt' = at
    BY <1>2, <1>3, <1>4 DEF InHand, HandAt
<1>8. \A i \in DOMAIN table : \E p \in Nat, m \in Nat :
         /\ p = PeriodSum(ledger, table[i].ID, table[i].LastResetAt)
         /\ m = BilledTo(rs, table[i].ID)
         /\ Owed(ledger, InHand, HandAt, table[i].ID, table[i].LastResetAt) = p
         /\ Owed(ledger, <<>>, at, table[i].ID, table[i].LastResetAt) = p
         /\ Owed(ledger, rs, at, table[i].ID, table[i].LastResetAt)
                = p + IF CountsTowardCurrentPeriod(at, table[i].LastResetAt) THEN m ELSE 0
    <2>1. SUFFICES ASSUME NEW i \in DOMAIN table
                   PROVE  /\ PeriodSum(ledger, table[i].ID, table[i].LastResetAt) \in Nat
                          /\ BilledTo(rs, table[i].ID) \in Nat
                          /\ Owed(ledger, InHand, HandAt, table[i].ID, table[i].LastResetAt)
                                 = PeriodSum(ledger, table[i].ID, table[i].LastResetAt)
                          /\ Owed(ledger, <<>>, at, table[i].ID, table[i].LastResetAt)
                                 = PeriodSum(ledger, table[i].ID, table[i].LastResetAt)
        BY DEF Owed
    <2>2. table[i].ID \in Owners
        BY <1>5, RowsAreOwners
    <2>3. PeriodSum(ledger, table[i].ID, table[i].LastResetAt) \in Nat /\ BilledTo(rs, table[i].ID) \in Nat
        BY <1>5, <2>2, OwedIs
    <2>4. Owed(ledger, <<>>, HandAt, table[i].ID, table[i].LastResetAt)
             = PeriodSum(ledger, table[i].ID, table[i].LastResetAt)
        BY <1>5, <2>2, OwedNothing
    <2>5. Owed(ledger, <<>>, at, table[i].ID, table[i].LastResetAt)
             = PeriodSum(ledger, table[i].ID, table[i].LastResetAt)
        BY <1>5, <2>2, OwedNothing
    <2>6. QED
        BY <1>7, <2>3, <2>4, <2>5
<1>9. /\ Fields(table) /\ Fields(ladder)
    BY <1>5, FieldsAre
<1>10. ladder' \in Seq(SubQuota) /\ DOMAIN ladder' = DOMAIN ladder
       /\ \A k \in DOMAIN ladder :
             /\ ladder'[k].ID = ladder[k].ID
             /\ ladder'[k].LastResetAt = ladder[k].LastResetAt
             /\ ladder'[k].UsedBytes = ladder[k].UsedBytes
                   + IF CountsTowardCurrentPeriod(at, ladder[k].LastResetAt)
                     THEN BilledTo(rs, ladder[k].ID) ELSE 0
    BY <1>1, <1>3, <1>4 DEF Charges, SameEntries
<1>11. Follows(inbox', table') /\ Follows(ladder', table')
    BY <1>2, <1>10 DEF PeriodInv, Follows
<1>12. Covers(ladder', table', ledger', InHand', HandAt')
    <2>1. SUFFICES ASSUME NEW k \in DOMAIN ladder, NEW i \in DOMAIN table, ladder[k].ID = table[i].ID
                   PROVE  ladder'[k].UsedBytes >= Owed(ledger, InHand', HandAt', table[i].ID, table[i].LastResetAt)
        BY <1>2, <1>10 DEF Covers
    <2>2. PICK p \in Nat, m \in Nat :
              /\ m = BilledTo(rs, table[i].ID)
              /\ Owed(ledger, InHand, HandAt, table[i].ID, table[i].LastResetAt) = p
              /\ Owed(ledger, <<>>, at, table[i].ID, table[i].LastResetAt) = p
              /\ Owed(ledger, rs, at, table[i].ID, table[i].LastResetAt)
                     = p + IF CountsTowardCurrentPeriod(at, table[i].LastResetAt) THEN m ELSE 0
        BY <1>8
    <2>3. PICK u \in Nat : u = ladder[k].UsedBytes /\ u >= p
        <3>1. ladder[k].UsedBytes \in Nat
            BY <1>9 DEF Fields
        <3>2. ladder[k].UsedBytes >= p
            BY <2>1, <2>2 DEF PeriodInv, Covers
        <3>3. QED
            BY <3>1, <3>2
    <2>4. CountsTowardCurrentPeriod(at, table[i].LastResetAt) => CountsTowardCurrentPeriod(at, ladder[k].LastResetAt)
        <3>1. /\ ladder[k].LastResetAt \in Times \cup {NoTime} /\ table[i].LastResetAt \in Times \cup {NoTime}
              /\ NoLater(ladder[k].LastResetAt, table[i].LastResetAt)
            BY <1>9, <2>1 DEF Fields, PeriodInv, Follows
        <3>2. QED
            BY <1>6, <3>1, LaterHasLess
    <2>5. ladder'[k].UsedBytes = u + IF CountsTowardCurrentPeriod(at, ladder[k].LastResetAt) THEN m ELSE 0
        BY <1>10, <2>1, <2>2, <2>3
    <2>6. QED
        BY <1>7, <2>2, <2>3, <2>4, <2>5
<1>13. Within(table', ledger', InHand', HandAt')
    <2>1. SUFFICES ASSUME NEW i \in DOMAIN table
                   PROVE  Owed(ledger, InHand', HandAt', table[i].ID, table[i].LastResetAt) <= table[i].TransferBytes
        BY <1>2 DEF Within
    <2>2. PICK p \in Nat, m \in Nat :
              /\ m = BilledTo(rs, table[i].ID)
              /\ Owed(ledger, InHand, HandAt, table[i].ID, table[i].LastResetAt) = p
              /\ Owed(ledger, <<>>, at, table[i].ID, table[i].LastResetAt) = p
              /\ Owed(ledger, rs, at, table[i].ID, table[i].LastResetAt)
                     = p + IF CountsTowardCurrentPeriod(at, table[i].LastResetAt) THEN m ELSE 0
        BY <1>8
    <2>3. p <= table[i].TransferBytes /\ table[i].TransferBytes \in Nat
        BY <1>9, <2>2 DEF PeriodInv, Within, Fields
    <2>4. m > 0 => p + m <= table[i].TransferBytes
        <3>1. SUFFICES ASSUME m > 0 PROVE p + m <= table[i].TransferBytes
            OBVIOUS
        <3>2. /\ \A k \in DOMAIN ladder : BilledTo(rs, ladder[k].ID) > 0 =>
                    ladder[k].UsedBytes + BilledTo(rs, ladder[k].ID) <= ladder[k].TransferBytes
              /\ \A id \in Nat \ {OverflowSubscriptionID} : ~HasID(ladder, id) => BilledTo(rs, id) = 0
            BY <1>1, <1>3, <1>4, <1>5, TakesWhatIsLeft
        <3>3. PICK k \in DOMAIN ladder : ladder[k].ID = table[i].ID
            <4>1. table[i].ID \in Nat \ {OverflowSubscriptionID}
                BY <1>9 DEF Fields
            <4>2. HasID(ladder, table[i].ID)
                BY <2>2, <3>1, <3>2, <4>1
            <4>3. QED
                BY <4>2 DEF HasID
        <3>4. PICK u \in Nat, tb \in Nat : u = ladder[k].UsedBytes /\ tb = ladder[k].TransferBytes
            BY <1>9 DEF Fields
        <3>5. u + m <= tb
            BY <2>2, <3>1, <3>2, <3>3, <3>4
        <3>6. u >= p
            BY <2>2, <3>3, <3>4 DEF PeriodInv, Covers
        <3>7. tb = table[i].TransferBytes
            <4>1. PICK j \in DOMAIN Plans : ladder[k].ID = Plans[j].ID /\ tb = Plans[j].TransferBytes
                BY <1>5, <3>4
            <4>2. j \in DOMAIN table /\ table[j].ID = table[i].ID /\ table[j].TransferBytes = tb
                BY <1>5, <3>3, <4>1 DEF SameSubs
            <4>3. j = i
                BY <1>5, <4>2 DEF DistinctIDs
            <4>4. QED
                BY <4>2, <4>3
        <3>8. QED
            BY <3>4, <3>5, <3>6, <3>7
    <2>5. QED
        BY <1>7, <2>2, <2>3, <2>4
<1>14. QED
    BY <1>11, <1>12, <1>13 DEF PeriodInv

\* The resets run on time, no Rebuild comes between a split and its commit,
\* and a Sync does not bring a dropped user back.
OnTime == \A d \in Disturbances : d \cap {"midBucket", "midFlush", "resync"} = {}

\* Rebuilding from the ledger, with nothing in hand.
LEMMA RebuildKeepsPeriods ==
    ASSUME ListsOK, LogOK, BatchInv, PeriodInv, ladder' \in Prepared(Authoritative),
           InHand' = <<>>, UNCHANGED <<table, ledger, inbox>>
    PROVE  PeriodInv'
<1>1. Lighter
    BY NothingNew
<1>2. PeriodsStay
    BY DEF PeriodsStay
<1>3. Within(table', ledger', InHand', HandAt')
    BY <1>1, <1>2, WithinStays
<1>4. PICK at : at = HandAt'
    OBVIOUS
<1>5. PICK list, out : out = ladder' /\ list = Authoritative /\ out \in Prepared(list)
    OBVIOUS
<1>6. \A k \in DOMAIN out, i \in DOMAIN table : out[k].ID = table[i].ID =>
         /\ NoLater(out[k].LastResetAt, table[i].LastResetAt)
         /\ out[k].UsedBytes = Owed(ledger, <<>>, at, table[i].ID, table[i].LastResetAt)
    <2>1. Counted(list)
        BY <1>5, AuthoritativeIs
    <2>2. out \in Prepared(list)
        BY <1>5
    <2>3. Fresh(out, table, ledger, at)
        BY <2>1, <2>2, FreshLadder
    <2>4. QED
        BY <2>3 DEF Fresh
<1>7. \A i \in DOMAIN table : Owed(ledger, <<>>, at, table[i].ID, table[i].LastResetAt) \in Nat
    <2>1. SameSubs(table) /\ ledger \in Ledgers /\ <<>> \in Seq(LedgerRow)
        BY EmptyRows DEF ListsOK, LogOK
    <2>2. QED
        BY <2>1, RowsAreOwners, OwedIs
<1>8. Covers(ladder', table', ledger', InHand', HandAt')
    BY <1>4, <1>5, <1>6, <1>7 DEF Covers
<1>9. Follows(ladder', table') /\ Follows(inbox', table')
    BY <1>5, <1>6 DEF Follows, PeriodInv
<1>10. QED
    BY <1>3, <1>8, <1>9 DEF PeriodInv

\* A Sync installs a table that may be behind, with the counters of the ladder.
LEMMA SyncKeepsPeriods ==
    ASSUME ListsOK, LogOK, BatchInv, PeriodInv, Sync, held
    PROVE  PeriodInv'
<1>1. PICK list \in Prepared(inbox) : ladder' = KeepKnown(list, ladder)
    BY DEF Sync
<1>2. /\ inbox # <<>> /\ inbox' = <<>> /\ table' = table /\ ledger' = ledger
      /\ stage' = stage /\ wal' = wal /\ gate' = gate /\ rows' = rows /\ issued' = issued
    BY DEF Sync, dbVars, flushVars
<1>3. /\ inbox \in Seq(SubQuota) /\ SameSubs(inbox) /\ ladder \in Seq(SubQuota)
      /\ InDeductionOrder(ladder) /\ \A i \in DOMAIN Plans : HasID(ladder, Plans[i].ID)
      /\ SameSubs(table)
    BY <1>2 DEF ListsOK, LadderOK
<1>4. /\ LadderOK(list, TRUE)
      /\ \A k \in DOMAIN list : \E m \in DOMAIN inbox : list[k] = inbox[m]
    BY <1>1, <1>3, PreparedLadder
<1>5. Keeps(KeepKnown(list, ladder), list, ladder)
    BY <1>3, <1>4, KeepsKnown DEF LadderOK
<1>6. /\ DOMAIN ladder' = DOMAIN list
      /\ \A k \in DOMAIN list :
            /\ ladder'[k].ID = list[k].ID
            /\ ladder'[k].LastResetAt = list[k].LastResetAt
            /\ HasID(ladder, list[k].ID) =>
                  \E j \in DOMAIN ladder : ladder[j].ID = list[k].ID /\ ladder'[k].UsedBytes = ladder[j].UsedBytes
    BY <1>1, <1>5 DEF Keeps, SameEntries
<1>7. Follows(ladder', table')
    <2>1. SUFFICES ASSUME NEW k \in DOMAIN list, NEW i \in DOMAIN table, list[k].ID = table[i].ID
                   PROVE  NoLater(list[k].LastResetAt, table[i].LastResetAt)
        BY <1>2, <1>6 DEF Follows
    <2>2. PICK m \in DOMAIN inbox : list[k] = inbox[m]
        BY <1>4
    <2>3. QED
        BY <2>1, <2>2 DEF PeriodInv, Follows
<1>8. InHand' = InHand /\ HandAt' = HandAt
    BY <1>2 DEF InHand, HandAt
<1>9. Covers(ladder', table', ledger', InHand', HandAt')
    <2>1. SUFFICES ASSUME NEW k \in DOMAIN list, NEW i \in DOMAIN table, list[k].ID = table[i].ID
                   PROVE  ladder'[k].UsedBytes >= Owed(ledger, InHand, HandAt, table[i].ID, table[i].LastResetAt)
        BY <1>2, <1>6, <1>8 DEF Covers
    <2>2. HasID(ladder, table[i].ID)
        BY <1>3 DEF SameSubs
    <2>3. PICK j \in DOMAIN ladder : ladder[j].ID = table[i].ID /\ ladder'[k].UsedBytes = ladder[j].UsedBytes
        BY <1>6, <2>1, <2>2
    <2>4. QED
        BY <2>3 DEF PeriodInv, Covers
<1>10. Within(table', ledger', InHand', HandAt')
    BY <1>2, <1>8 DEF PeriodInv, Within
<1>11. Follows(inbox', table')
    <2>1. DOMAIN <<>> = {}
        OBVIOUS
    <2>2. QED
        BY <1>2, <2>1 DEF Follows
<1>12. QED
    BY <1>7, <1>9, <1>10, <1>11 DEF PeriodInv

\* A period begins without traffic: nothing of its buckets was logged yet, in
\* the ledger or in hand.
LEMMA FreshPeriod ==
    ASSUME LogOK, BatchInv, NEW at \in Nat, AlignBucket(at) = at,
           \A b \in DOMAIN issued : issued[b].At < at, NEW id \in Owners
    PROVE  Owed(ledger, InHand, HandAt, id, at) = 0
<1>1. at # NoTime
    BY DeductionAssumption
<1>2. ledger \in Ledgers /\ gate \subseteq DOMAIN issued
    BY DEF LogOK
<1>3. ASSUME NEW b \in Buckets, CountsTowardCurrentPeriod(b, at) PROVE ledger[<<id, b>>] = 0
    <2>1. b \in Nat /\ b >= at
        BY <1>1, <1>3, FiniteBooks DEF CountsTowardCurrentPeriod
    <2>2. \A c \in gate : issued[c].At # b
        <3>1. ASSUME NEW c \in gate PROVE issued[c].At # b
            <4>1. issued[c].At < at
                BY <1>2
            <4>2. QED
                BY <2>1, <4>1
        <3>2. QED
            BY <3>1
    <2>3. BucketSum(ledger, b) = GateSum(issued, gate, b)
        BY ExactlyOnceIs DEF BatchInv
    <2>4. \A o \in Owners : ledger[<<o, b>>] = 0
        BY <1>2, <2>2, <2>3, QuietBucket
    <2>5. QED
        BY <2>4
<1>4. PeriodSum(ledger, id, at) = 0
    BY <1>2, <1>3, PeriodSumZero
<1>5. CASE InHand = <<>>
    BY <1>2, <1>4, <1>5, OwedNothing
<1>6. CASE InHand # <<>>
    <2>1. wal \in DOMAIN issued /\ HandAt \in Nat
        BY <1>6, HandIs, FiniteBooks
    <2>2. HandAt < at
        BY <2>1 DEF HandAt
    <2>3. ~CountsTowardCurrentPeriod(HandAt, at)
        BY <1>1, <2>1, <2>2 DEF CountsTowardCurrentPeriod
    <2>4. QED
        BY <1>4, <2>3 DEF Owed
<1>7. QED
    BY <1>5, <1>6

\* A reset on time begins a period of which nothing is owed, in the table and
\* the ladder alike (ladder.go:242-261).
LEMMA ResetKeepsPeriods ==
    ASSUME ListsOK, LogOK, BatchInv, PeriodInv, Reset, "midBucket" \notin faults
    PROVE  PeriodInv'
<1>1. clock \in Nat
    BY MeteringAssumption DEF LogOK
<1>2. PICK at \in Nat : at = AlignBucket(clock) /\ AlignBucket(at) = at
    BY <1>1, AlignedStays
<1>3. PICK r \in DOMAIN table : ResetOf(r, at)
    BY <1>2, ResetIs
<1>4. /\ inbox' = inbox /\ ledger' = ledger
      /\ stage' = stage /\ wal' = wal /\ gate' = gate /\ rows' = rows /\ issued' = issued
    BY DEF Reset, flushVars
<1>5. \A b \in DOMAIN issued : issued[b].At < at
    BY <1>2 DEF Reset
<1>6. PICK id : id = table[r].ID
    OBVIOUS
<1>7. /\ Rolls(table', table, id, at) /\ Rolls(ladder', ladder, id, at)
      /\ table[r].LastResetAt # NoTime => table[r].LastResetAt < at
    BY <1>3, <1>6 DEF ResetOf
<1>8. /\ table \in Seq(SubQuota) /\ SameSubs(table) /\ DistinctIDs(table) /\ Fields(table)
      /\ ladder \in Seq(SubQuota) /\ Fields(ladder) /\ inbox \in Seq(SubQuota) /\ Fields(inbox)
    BY RowsAreDistinct, FieldsAre DEF ListsOK, LadderOK
<1>9. /\ DOMAIN table' = DOMAIN table /\ DOMAIN ladder' = DOMAIN ladder
      /\ \A i \in DOMAIN table : table'[i].ID = table[i].ID
      /\ \A k \in DOMAIN ladder : ladder'[k].ID = ladder[k].ID
    BY <1>7 DEF Rolls, SameEntries
<1>10. InHand' = InHand /\ HandAt' = HandAt
    BY <1>4 DEF InHand, HandAt
<1>11. id \in Owners
    BY <1>6, <1>8, RowsAreOwners
<1>12. Owed(ledger, InHand, HandAt, id, at) = 0
    BY <1>2, <1>5, <1>11, FreshPeriod
<1>13. at \in Times /\ at # NoTime /\ NoLater(at, at)
    BY DeductionAssumption, NotAfterItself DEF Times
<1>14. \A a \in Times \cup {NoTime} : NoLater(a, table[r].LastResetAt) => NoLater(a, at)
    <2>1. SUFFICES ASSUME NEW a \in Times \cup {NoTime}, a # NoTime, NoLater(a, table[r].LastResetAt)
                   PROVE  NoLater(a, at)
        BY DEF NoLater
    <2>2. PICK b \in Nat : b = table[r].LastResetAt
        BY <1>8, <2>1 DEF NoLater, Fields, Times
    <2>3. b < at
        BY <1>7, <2>1, <2>2 DEF NoLater
    <2>4. AlignBucket(b) \in Nat /\ AlignBucket(b) <= b
        BY AlignedStays
    <2>5. a \in Nat /\ AlignBucket(a) \in Nat
        <3>1. a \in Nat
            BY <2>1 DEF Times
        <3>2. QED
            BY <3>1, AlignedStays
    <2>6. AlignBucket(a) <= AlignBucket(b)
        BY <2>1, <2>2 DEF NoLater
    <2>7. QED
        BY <1>2, <1>13, <2>3, <2>4, <2>5, <2>6 DEF NoLater
<1>15. ASSUME NEW i \in DOMAIN table, table[i].ID = id PROVE i = r
    BY <1>6, <1>8, <1>15 DEF DistinctIDs
<1>16. Follows(inbox', table')
    <2>1. SUFFICES ASSUME NEW k \in DOMAIN inbox, NEW i \in DOMAIN table, inbox[k].ID = table[i].ID
                   PROVE  NoLater(inbox[k].LastResetAt, table'[i].LastResetAt)
        BY <1>4, <1>9 DEF Follows
    <2>2. NoLater(inbox[k].LastResetAt, table[i].LastResetAt) /\ inbox[k].LastResetAt \in Times \cup {NoTime}
        BY <1>8, <2>1 DEF PeriodInv, Follows, Fields
    <2>3. QED
        BY <1>7, <1>14, <1>15, <2>2 DEF Rolls
<1>17. Follows(ladder', table')
    <2>1. SUFFICES ASSUME NEW k \in DOMAIN ladder, NEW i \in DOMAIN table, ladder[k].ID = table[i].ID
                   PROVE  NoLater(ladder'[k].LastResetAt, table'[i].LastResetAt)
        BY <1>9 DEF Follows
    <2>2. NoLater(ladder[k].LastResetAt, table[i].LastResetAt)
        BY <2>1 DEF PeriodInv, Follows
    <2>3. QED
        BY <1>7, <1>13, <2>1, <2>2 DEF Rolls
<1>18. Covers(ladder', table', ledger', InHand', HandAt')
    <2>1. SUFFICES ASSUME NEW k \in DOMAIN ladder, NEW i \in DOMAIN table, ladder[k].ID = table[i].ID
                   PROVE  ladder'[k].UsedBytes >= Owed(ledger, InHand, HandAt, table[i].ID, table'[i].LastResetAt)
        BY <1>4, <1>9, <1>10 DEF Covers
    <2>2. ladder[k].UsedBytes >= Owed(ledger, InHand, HandAt, table[i].ID, table[i].LastResetAt)
        BY <2>1 DEF PeriodInv, Covers
    <2>3. CASE table[i].ID = id
        BY <1>7, <1>12, <2>1, <2>3 DEF Rolls
    <2>4. CASE table[i].ID # id
        BY <1>7, <2>1, <2>2, <2>4 DEF Rolls
    <2>5. QED
        BY <2>3, <2>4
<1>19. Within(table', ledger', InHand', HandAt')
    <2>1. SUFFICES ASSUME NEW i \in DOMAIN table
                   PROVE  Owed(ledger, InHand, HandAt, table[i].ID, table'[i].LastResetAt) <= table[i].TransferBytes
        BY <1>4, <1>7, <1>9, <1>10 DEF Within, Rolls
    <2>2. Owed(ledger, InHand, HandAt, table[i].ID, table[i].LastResetAt) <= table[i].TransferBytes
        BY DEF PeriodInv, Within
    <2>3. table[i].TransferBytes \in Nat
        BY <1>8 DEF Fields
    <2>4. CASE table[i].ID = id
        BY <1>7, <1>12, <2>3, <2>4 DEF Rolls
    <2>5. CASE table[i].ID # id
        BY <1>7, <2>2, <2>5 DEF Rolls
    <2>6. QED
        BY <2>4, <2>5
<1>20. QED
    BY <1>16, <1>17, <1>18, <1>19 DEF PeriodInv

\* In the beginning nothing is owed.
LEMMA PeriodsBegin == Init => PeriodInv
<1> SUFFICES ASSUME Init PROVE PeriodInv
    OBVIOUS
<1>1. ListsOK /\ LogOK
    BY ListsBegin, LogBegins
<1>2. /\ table = Plans /\ ladder \in Prepared(Plans) /\ inbox = <<>> /\ stage = "idle"
      /\ ledger = [k \in Owners \X Buckets |-> 0]
    BY DEF Init
<1>3. /\ table \in Seq(SubQuota) /\ SameSubs(table) /\ ledger \in Ledgers /\ Fields(table)
    BY <1>1, FieldsAre DEF ListsOK, LogOK
<1>4. \A id \in Owners : \A reset : PeriodSum(ledger, id, reset) = 0
    <2>1. SUFFICES ASSUME NEW id \in Owners, NEW reset PROVE PeriodSum(ledger, id, reset) = 0
        OBVIOUS
    <2>2. \A b \in Buckets : ledger[<<id, b>>] = 0
        BY <1>2
    <2>3. QED
        BY <1>3, <2>2, PeriodSumZero
<1>5. \A i \in DOMAIN table : SumOf(table[i]) = 0 /\ table[i].ID \in Owners
    BY <1>3, <1>4, RowsAreOwners, SumOfIs
<1>6. Counted(Plans)
    BY <1>2, <1>3, <1>5, MeteringAssumption DEF Counted
<1>7. PICK out, at : out = ladder /\ out \in Prepared(Plans) /\ at = HandAt
    BY <1>2
<1>8. Fresh(out, table, ledger, at)
    BY <1>1, <1>6, <1>7, FreshLadder
<1>9. InHand = <<>>
    BY <1>2 DEF InHand
<1>10. \A i \in DOMAIN table : Owed(ledger, <<>>, at, table[i].ID, table[i].LastResetAt) = 0
    BY <1>3, <1>4, <1>5, OwedNothing
<1>11. Within(table, ledger, InHand, HandAt)
    BY <1>3, <1>7, <1>9, <1>10 DEF Within, Fields
<1>12. Covers(ladder, table, ledger, InHand, HandAt)
    BY <1>7, <1>8, <1>9, <1>10 DEF Fresh, Covers
<1>13. Follows(ladder, table)
    BY <1>7, <1>8 DEF Fresh, Follows
<1>14. Follows(inbox, table)
    <2>1. DOMAIN <<>> = {}
        OBVIOUS
    <2>2. QED
        BY <1>2, <2>1 DEF Follows
<1>15. QED
    BY <1>11, <1>12, <1>13, <1>14 DEF PeriodInv

\* Committing moves what is in hand to the ledger.
LEMMA CommitWeighsNothing ==
    ASSUME LogOK, BatchInv, Commit
    PROVE  /\ Lighter
           /\ wal \notin gate => \A id \in Owners : \A reset :
                 Owed(ledger', InHand', HandAt', id, reset) = Owed(ledger, InHand, HandAt, id, reset)
<1>1. /\ wal \in DOMAIN issued /\ issued[wal] \in Batch
      /\ rows \in Seq(LedgerRow) /\ RowOwners(rows) \subseteq Owners
      /\ ledger' = IF wal \in gate THEN ledger ELSE Added(ledger, rows, issued[wal].At)
      /\ ledger' \in Ledgers
    BY CommitIs
<1>2. stage = "split" /\ stage' = "committed" /\ wal' = wal /\ issued' = issued
    BY DEF Commit
<1>3. InHand' = <<>> /\ HandAt' = HandAt
    BY <1>2 DEF InHand, HandAt
<1>4. CASE wal \in gate
    <2>1. Lighter
        BY <1>1, <1>3, <1>4, NothingNew
    <2>2. QED
        BY <1>4, <2>1
<1>5. CASE wal \notin gate
    <2>1. InHand = rows
        BY <1>2, <1>5 DEF InHand
    <2>2. PICK at \in Buckets : at = HandAt /\ ledger' = Added(ledger, rows, at)
        BY <1>1, <1>5 DEF HandAt, Batch
    <2>3. ledger \in Ledgers /\ <<>> \in Seq(LedgerRow)
        BY EmptyRows DEF LogOK
    <2>4. ASSUME NEW id \in Owners, NEW reset
          PROVE  /\ Owed(ledger', InHand', HandAt', id, reset) = Owed(ledger, InHand, HandAt, id, reset)
                 /\ Owed(ledger, InHand, HandAt, id, reset) \in Nat
        <3>1. Owed(Added(ledger, rows, at), <<>>, at, id, reset) = Owed(ledger, rows, at, id, reset)
            BY <1>1, <2>3, OwedCommitted
        <3>2. Owed(ledger, rows, at, id, reset) \in Nat
            BY <1>1, <2>3, OwedIs
        <3>3. QED
            BY <1>3, <2>1, <2>2, <3>1, <3>2
    <2>5. QED
        BY <2>4 DEF Lighter
<1>6. QED
    BY <1>4, <1>5

\* No step takes a period past its allowance or its counter.
LEMMA PeriodsHold ==
    ASSUME OnTime, ListsOK, LogOK, BatchInv, PeriodInv, [Next]_vars
    PROVE  PeriodInv'
<1>1. "midBucket" \notin faults /\ "midFlush" \notin faults /\ "resync" \notin faults
    BY DEF OnTime, LogOK
<1>2. CASE Log
    <2>1. stage' = "idle" /\ UNCHANGED <<table, ledger, ladder, inbox>>
        BY <1>2 DEF Log, dbVars, ladderVars
    <2>2. InHand' = <<>>
        BY <2>1 DEF InHand
    <2>3. QED
        BY <2>1, <2>2, NothingNew, PeriodsKept DEF PeriodsStay
<1>3. CASE AttributeBatch
    BY <1>3, AttributeKeepsPeriods
<1>4. CASE Commit
    <2>1. UNCHANGED <<table, ladder, inbox>>
        BY <1>4 DEF Commit, ladderVars
    <2>2. Lighter
        BY <1>4, CommitWeighsNothing
    <2>3. QED
        BY <2>1, <2>2, PeriodsKept DEF PeriodsStay
<1>5. CASE Ack
    <2>1. stage' = "idle" /\ UNCHANGED <<table, ledger, ladder, inbox>>
        BY <1>5 DEF Ack, dbVars, ladderVars
    <2>2. InHand' = <<>>
        BY <2>1 DEF InHand
    <2>3. QED
        BY <2>1, <2>2, NothingNew, PeriodsKept DEF PeriodsStay
<1>6. CASE Crash
    <2>1. stage' = "down" /\ ladder' = <<>> /\ inbox' = <<>> /\ UNCHANGED <<table, ledger>>
        BY <1>6 DEF Crash, dbVars
    <2>2. InHand' = <<>>
        BY <2>1 DEF InHand
    <2>3. QED
        BY <2>1, <2>2, NothingNew, PeriodsKept DEF PeriodsStay
<1>7. CASE Hydrate
    <2>1. stage' = "idle" /\ ladder' \in Prepared(Authoritative) /\ UNCHANGED <<table, ledger, inbox>>
        BY <1>7 DEF Hydrate, dbVars
    <2>2. InHand' = <<>>
        BY <2>1 DEF InHand
    <2>3. QED
        BY <2>1, <2>2, RebuildKeepsPeriods
<1>8. CASE Tick
    <2>1. UNCHANGED <<table, ledger, ladder, inbox>> /\ InHand' = InHand /\ HandAt' = HandAt
        BY <1>8 DEF Tick, dbVars, flushVars, ladderVars, InHand, HandAt
    <2>2. QED
        BY <2>1, NothingNew, PeriodsKept DEF PeriodsStay
<1>9. CASE Rollup
    <2>1. /\ UNCHANGED <<ledger, ladder, inbox>> /\ InHand' = InHand /\ HandAt' = HandAt
          /\ table' = Authoritative
        BY <1>9 DEF Rollup, flushVars, ladderVars, InHand, HandAt
    <2>2. Counted(Authoritative) /\ SameSubs(table)
        BY AuthoritativeIs DEF ListsOK
    <2>3. PeriodsStay
        BY <2>1, <2>2 DEF PeriodsStay, Counted, SameSubs
    <2>4. QED
        BY <2>1, <2>3, NothingNew, PeriodsKept
<1>10. CASE Rebuild
    <2>1. /\ stage = "idle" /\ stage' = stage /\ ladder' \in Prepared(Authoritative)
          /\ UNCHANGED <<table, ledger, inbox>>
        BY <1>1, <1>10 DEF Rebuild, dbVars, flushVars
    <2>2. InHand' = <<>>
        BY <2>1 DEF InHand
    <2>3. QED
        BY <2>1, <2>2, RebuildKeepsPeriods
<1>11. CASE ReadTable
    <2>1. /\ UNCHANGED <<table, ledger, ladder>> /\ InHand' = InHand /\ HandAt' = HandAt
          /\ inbox' = table
        BY <1>11 DEF ReadTable, dbVars, flushVars, ladderVars, InHand, HandAt
    <2>2. QED
        BY <2>1, NothingNew, PeriodsKept DEF PeriodsStay
<1>12. CASE Sync
    <2>1. held
        BY <1>1, <1>12 DEF Sync
    <2>2. QED
        BY <1>12, <2>1, SyncKeepsPeriods
<1>13. CASE Reset
    BY <1>1, <1>13, ResetKeepsPeriods
<1>14. CASE Drop
    <2>1. /\ UNCHANGED <<table, ledger, inbox>> /\ InHand' = InHand /\ HandAt' = HandAt
          /\ ladder' = <<>>
        BY <1>14 DEF Drop, dbVars, flushVars, InHand, HandAt
    <2>2. QED
        BY <2>1, NothingNew, PeriodsKept DEF PeriodsStay
<1>15. CASE UNCHANGED vars
    <2>1. UNCHANGED <<table, ledger, ladder, inbox>> /\ InHand' = InHand /\ HandAt' = HandAt
        BY <1>15 DEF vars, dbVars, flushVars, ladderVars, InHand, HandAt
    <2>2. QED
        BY <2>1, NothingNew, PeriodsKept DEF PeriodsStay
<1>16. QED
    BY <1>2, <1>3, <1>4, <1>5, <1>6, <1>7, <1>8, <1>9, <1>10, <1>11, <1>12, <1>13, <1>14, <1>15
       DEF Next

\* So the periods hold for good.
LEMMA PeriodsInductive ==
    ASSUME OnTime
    PROVE  Spec => [](Books /\ PeriodInv)
<1>1. Init => PeriodInv
    BY PeriodsBegin
<1>2. Books /\ PeriodInv /\ [Next]_vars => PeriodInv'
    BY PeriodsHold DEF Books
<1>3. QED
    BY <1>1, <1>2, BooksInductive, PTL DEF Spec

\* With the resets on time, no subscription is handed traffic back: its
\* counter covers what the ledger bills to its period, whatever is replayed,
\* hydrated, dropped or synced from a table that trails (ladder.go:61-66,
\* 206-228).
THEOREM CounterCovers ==
    ASSUME OnTime
    PROVE  Spec => []CounterCoversTheLedger
<1>1. Books /\ PeriodInv => CounterCoversTheLedger
    <2> SUFFICES ASSUME Books, PeriodInv, NEW i \in DOMAIN table, HasID(ladder, table[i].ID)
                 PROVE  \E j \in DOMAIN ladder :
                           ladder[j].ID = table[i].ID /\ ladder[j].UsedBytes >= SumOf(table[i])
        BY DEF CounterCoversTheLedger
    <2>1. PICK j \in DOMAIN ladder : ladder[j].ID = table[i].ID
        BY DEF HasID
    <2>2. ladder[j].UsedBytes >= Owed(ledger, InHand, HandAt, table[i].ID, table[i].LastResetAt)
        BY <2>1 DEF PeriodInv, Covers
    <2>3. LogOK /\ BatchInv /\ SameSubs(table) /\ ladder \in Seq(SubQuota) /\ ledger \in Ledgers
        BY DEF Books, ListsOK, LogOK, LadderOK
    <2>4. InHand \in Seq(LedgerRow) /\ table[i].ID \in Owners
        BY <2>3, HandIs, RowsAreOwners
    <2>5. /\ Owed(ledger, InHand, HandAt, table[i].ID, table[i].LastResetAt) \in Nat
          /\ Owed(ledger, InHand, HandAt, table[i].ID, table[i].LastResetAt)
                 >= PeriodSum(ledger, table[i].ID, table[i].LastResetAt)
          /\ PeriodSum(ledger, table[i].ID, table[i].LastResetAt) \in Nat
        BY <2>3, <2>4, OwedIs
    <2>6. ladder[j].UsedBytes \in Nat
        BY <2>3, FieldsAre DEF Fields
    <2>7. QED
        BY <2>1, <2>2, <2>5, <2>6, SumOfIs
<1>2. QED
    BY <1>1, PeriodsInductive, PTL

\* With the resets on time, the ledger never bills a period more than its
\* allowance, in whatever order flushes, resets and restarts come
\* (ladder.go:161-164).
THEOREM NeverOverbilled ==
    ASSUME OnTime
    PROVE  Spec => []AllowanceNotOverbilled
<1>1. Books /\ PeriodInv => AllowanceNotOverbilled
    <2> SUFFICES ASSUME Books, PeriodInv, NEW i \in DOMAIN table
                 PROVE  SumOf(table[i]) <= table[i].TransferBytes
        BY DEF AllowanceNotOverbilled
    <2>1. Owed(ledger, InHand, HandAt, table[i].ID, table[i].LastResetAt) <= table[i].TransferBytes
        BY DEF PeriodInv, Within
    <2>2. /\ LogOK /\ BatchInv /\ SameSubs(table) /\ table \in Seq(SubQuota) /\ ledger \in Ledgers
        BY DEF Books, ListsOK, LogOK
    <2>3. InHand \in Seq(LedgerRow) /\ table[i].ID \in Owners
        BY <2>2, HandIs, RowsAreOwners
    <2>4. /\ Owed(ledger, InHand, HandAt, table[i].ID, table[i].LastResetAt) \in Nat
          /\ Owed(ledger, InHand, HandAt, table[i].ID, table[i].LastResetAt)
                 >= PeriodSum(ledger, table[i].ID, table[i].LastResetAt)
          /\ PeriodSum(ledger, table[i].ID, table[i].LastResetAt) \in Nat
        BY <2>2, <2>3, OwedIs
    <2>5. table[i].TransferBytes \in Nat
        BY <2>2, FieldsAre DEF Fields
    <2>6. QED
        BY <2>1, <2>4, <2>5, SumOfIs
<1>2. QED
    BY <1>1, PeriodsInductive, PTL

-----------------------------------------------------------------------------
(* To the byte, where nothing is replayed and nothing stale is installed.  *)

\* The entries of list are in the periods of the table t.
InStep(list, t) ==
    \A k \in DOMAIN list, i \in DOMAIN t :
        list[k].ID = t[i].ID => list[k].LastResetAt = t[i].LastResetAt

\* And at what these cost.
Exact(list, t, l, rs, at) ==
    \A k \in DOMAIN list, i \in DOMAIN t :
        list[k].ID = t[i].ID => list[k].UsedBytes = Owed(l, rs, at, t[i].ID, t[i].LastResetAt)

ExactNow ==
    /\ stage # "down"
    /\ wal # 0 /\ stage \in {"idle", "split"} => wal \notin gate
    /\ InStep(inbox, table) /\ InStep(ladder, table)
    /\ Exact(ladder, table, ledger, InHand, HandAt)

Undisturbed == faults \cap {"crash", "stale"} = {}

ExactInv == Undisturbed => ExactNow

\* Every period costs after a step what it cost before it.
AsHeavy ==
    \A id \in Owners : \A reset :
        Owed(ledger', InHand', HandAt', id, reset) = Owed(ledger, InHand, HandAt, id, reset)

\* As long as neither the ledger nor the hand changes.
LEMMA NothingMoved ==
    ASSUME LogOK, ledger' = ledger,
           (InHand = <<>> /\ InHand' = <<>>) \/ (InHand' = InHand /\ HandAt' = HandAt)
    PROVE  AsHeavy
<1>1. ledger \in Ledgers
    BY DEF LogOK
<1>2. SUFFICES ASSUME NEW id \in Owners, NEW reset
               PROVE  Owed(ledger', InHand', HandAt', id, reset) = Owed(ledger, InHand, HandAt, id, reset)
    BY DEF AsHeavy
<1>3. CASE InHand = <<>> /\ InHand' = <<>>
    <2>1. \A at : Owed(ledger, <<>>, at, id, reset) = PeriodSum(ledger, id, reset)
        BY <1>1, OwedNothing
    <2>2. QED
        BY <1>3, <2>1
<1>4. CASE InHand' = InHand /\ HandAt' = HandAt
    BY <1>4
<1>5. QED
    BY <1>3, <1>4

\* A step that leaves the lists, or empties or reads them, keeps them exact.
LEMMA ExactKept ==
    ASSUME ListsOK, ExactNow, AsHeavy, PeriodsStay,
           ladder' = ladder \/ ladder' = <<>>,
           inbox' = inbox \/ inbox' = <<>> \/ inbox' = table,
           stage' # "down", wal' # 0 /\ stage' \in {"idle", "split"} => wal' \notin gate'
    PROVE  ExactNow'
<1>1. DOMAIN <<>> = {}
    OBVIOUS
<1>2. SameSubs(table) /\ DistinctIDs(table)
    BY RowsAreDistinct DEF ListsOK
<1>3. InStep(ladder', table')
    BY <1>1 DEF ExactNow, InStep, PeriodsStay
<1>4. InStep(inbox', table')
    <2>1. CASE inbox' = table
        BY <1>2, <2>1 DEF InStep, PeriodsStay, DistinctIDs
    <2>2. CASE inbox' = inbox \/ inbox' = <<>>
        BY <1>1, <2>2 DEF ExactNow, InStep, PeriodsStay
    <2>3. QED
        BY <2>1, <2>2
<1>5. Exact(ladder', table', ledger', InHand', HandAt')
    <2>1. SUFFICES ASSUME ladder' = ladder, NEW k \in DOMAIN ladder, NEW i \in DOMAIN table,
                          ladder[k].ID = table[i].ID
                   PROVE  ladder[k].UsedBytes = Owed(ledger', InHand', HandAt', table[i].ID, table[i].LastResetAt)
        BY <1>1 DEF Exact, PeriodsStay
    <2>2. ladder[k].UsedBytes = Owed(ledger, InHand, HandAt, table[i].ID, table[i].LastResetAt)
        BY <2>1 DEF ExactNow, Exact
    <2>3. table[i].ID \in Owners
        BY <1>2, RowsAreOwners
    <2>4. QED
        BY <2>2, <2>3 DEF AsHeavy
<1>6. QED
    BY <1>3, <1>4, <1>5 DEF ExactNow

\* The ladder is charged what the rows will add to the ledger, to the byte.
LEMMA AttributeIsExact ==
    ASSUME ListsOK, LogOK, BatchInv, ExactNow, AttributeBatch
    PROVE  ExactNow'
<1>1. /\ issued[wal] \in Batch
      /\ IsSplitOf(rows', issued[wal].Billed, ladder)
      /\ Charges(ladder', ladder, rows', issued[wal].At)
    BY AttributeIs
<1>2. /\ table' = table /\ ledger' = ledger /\ inbox' = inbox
      /\ stage = "idle" /\ stage' = "split" /\ issued' = issued /\ wal' = wal /\ gate' = gate /\ wal # 0
    BY DEF AttributeBatch, dbVars
<1>3. wal \notin gate
    BY <1>2 DEF ExactNow
<1>4. PICK rs \in Seq(LedgerRow), at \in Buckets : rs = rows' /\ at = issued[wal].At
    BY <1>1 DEF IsSplitOf, Batch
<1>5. InHand = <<>> /\ InHand' = rs /\ HandAt' = at
    BY <1>2, <1>3, <1>4 DEF InHand, HandAt
<1>6. SameSubs(table) /\ ledger \in Ledgers
    BY DEF ListsOK, LogOK
<1>7. /\ DOMAIN ladder' = DOMAIN ladder
      /\ \A k \in DOMAIN ladder :
            /\ ladder'[k].ID = ladder[k].ID
            /\ ladder'[k].LastResetAt = ladder[k].LastResetAt
            /\ ladder'[k].UsedBytes = ladder[k].UsedBytes
                  + IF CountsTowardCurrentPeriod(at, ladder[k].LastResetAt)
                    THEN BilledTo(rs, ladder[k].ID) ELSE 0
    BY <1>1, <1>4 DEF Charges, SameEntries
<1>8. InStep(inbox', table') /\ InStep(ladder', table')
    BY <1>2, <1>7 DEF ExactNow, InStep
<1>9. Exact(ladder', table', ledger', InHand', HandAt')
    <2>1. SUFFICES ASSUME NEW k \in DOMAIN ladder, NEW i \in DOMAIN table, ladder[k].ID = table[i].ID
                   PROVE  ladder'[k].UsedBytes = Owed(ledger, rs, at, table[i].ID, table[i].LastResetAt)
        BY <1>2, <1>5, <1>7 DEF Exact
    <2>2. ladder[k].UsedBytes = Owed(ledger, InHand, HandAt, table[i].ID, table[i].LastResetAt)
        BY <2>1 DEF ExactNow, Exact
    <2>3. table[i].ID \in Owners
        BY <1>6, RowsAreOwners
    <2>4. Owed(ledger, <<>>, HandAt, table[i].ID, table[i].LastResetAt)
             = PeriodSum(ledger, table[i].ID, table[i].LastResetAt)
        BY <1>6, <2>3, OwedNothing
    <2>5. ladder[k].LastResetAt = table[i].LastResetAt
        BY <2>1 DEF ExactNow, InStep
    <2>6. QED
        BY <1>5, <1>7, <2>1, <2>2, <2>4, <2>5 DEF Owed
<1>10. QED
    BY <1>2, <1>3, <1>8, <1>9 DEF ExactNow

\* Sync keeps the counters, and the rows it read are those of the table.
LEMMA SyncIsExact ==
    ASSUME ListsOK, LogOK, ExactNow, Sync, held
    PROVE  ExactNow'
<1>1. PICK list \in Prepared(inbox) : ladder' = KeepKnown(list, ladder)
    BY DEF Sync
<1>2. /\ inbox # <<>> /\ inbox' = <<>> /\ table' = table /\ ledger' = ledger
      /\ stage' = stage /\ wal' = wal /\ gate' = gate /\ rows' = rows /\ issued' = issued
    BY DEF Sync, dbVars, flushVars
<1>3. /\ inbox \in Seq(SubQuota) /\ SameSubs(inbox) /\ ladder \in Seq(SubQuota)
      /\ InDeductionOrder(ladder) /\ \A i \in DOMAIN Plans : HasID(ladder, Plans[i].ID)
      /\ SameSubs(table)
    BY <1>2 DEF ListsOK, LadderOK
<1>4. /\ LadderOK(list, TRUE)
      /\ \A k \in DOMAIN list : \E m \in DOMAIN inbox : list[k] = inbox[m]
    BY <1>1, <1>3, PreparedLadder
<1>5. Keeps(KeepKnown(list, ladder), list, ladder)
    BY <1>3, <1>4, KeepsKnown DEF LadderOK
<1>6. /\ DOMAIN ladder' = DOMAIN list
      /\ \A k \in DOMAIN list :
            /\ ladder'[k].ID = list[k].ID
            /\ ladder'[k].LastResetAt = list[k].LastResetAt
            /\ HasID(ladder, list[k].ID) =>
                  \E j \in DOMAIN ladder : ladder[j].ID = list[k].ID /\ ladder'[k].UsedBytes = ladder[j].UsedBytes
    BY <1>1, <1>5 DEF Keeps, SameEntries
<1>7. InStep(ladder', table')
    <2>1. SUFFICES ASSUME NEW k \in DOMAIN list, NEW i \in DOMAIN table, list[k].ID = table[i].ID
                   PROVE  list[k].LastResetAt = table[i].LastResetAt
        BY <1>2, <1>6 DEF InStep
    <2>2. PICK m \in DOMAIN inbox : list[k] = inbox[m]
        BY <1>4
    <2>3. QED
        BY <2>1, <2>2 DEF ExactNow, InStep
<1>8. InHand' = InHand /\ HandAt' = HandAt
    BY <1>2 DEF InHand, HandAt
<1>9. Exact(ladder', table', ledger', InHand', HandAt')
    <2>1. SUFFICES ASSUME NEW k \in DOMAIN list, NEW i \in DOMAIN table, list[k].ID = table[i].ID
                   PROVE  ladder'[k].UsedBytes = Owed(ledger, InHand, HandAt, table[i].ID, table[i].LastResetAt)
        BY <1>2, <1>6, <1>8 DEF Exact
    <2>2. HasID(ladder, table[i].ID)
        BY <1>3 DEF SameSubs
    <2>3. PICK j \in DOMAIN ladder : ladder[j].ID = table[i].ID /\ ladder'[k].UsedBytes = ladder[j].UsedBytes
        BY <1>6, <2>1, <2>2
    <2>4. QED
        BY <2>3 DEF ExactNow, Exact
<1>10. InStep(inbox', table')
    <2>1. DOMAIN <<>> = {}
        OBVIOUS
    <2>2. QED
        BY <1>2, <2>1 DEF InStep
<1>11. QED
    BY <1>2, <1>7, <1>9, <1>10 DEF ExactNow

\* A Rebuild between two flushes finds in the ledger what the ladder has.
LEMMA RebuildIsExact ==
    ASSUME ListsOK, LogOK, ExactNow, Rebuild, "midFlush" \notin faults
    PROVE  ExactNow'
<1>1. /\ table' = table /\ ledger' = ledger /\ inbox' = inbox
      /\ stage = "idle" /\ stage' = stage /\ wal' = wal /\ gate' = gate
    BY DEF Rebuild, dbVars, flushVars
<1>2. PICK list, out, at : /\ out = ladder' /\ list = Authoritative /\ at = HandAt'
                           /\ out \in Prepared(list)
    BY DEF Rebuild
<1>3. Counted(list)
    BY <1>2, AuthoritativeIs
<1>4. out \in Prepared(list)
    BY <1>2
<1>5. Fresh(out, table, ledger, at)
    BY <1>3, <1>4, FreshLadder
<1>6. InHand' = <<>>
    BY <1>1 DEF InHand
<1>7. InStep(ladder', table') /\ Exact(ladder', table', ledger', InHand', HandAt')
    BY <1>1, <1>2, <1>5, <1>6 DEF Fresh, InStep, Exact
<1>8. QED
    BY <1>1, <1>7 DEF ExactNow

\* A reset writes the table and the ladder at one instant.
LEMMA ResetIsExact ==
    ASSUME ListsOK, LogOK, BatchInv, ExactNow, Reset,
           "midBucket" \notin faults, "stale" \notin faults
    PROVE  ExactNow'
<1>1. clock \in Nat
    BY MeteringAssumption DEF LogOK
<1>2. PICK at \in Nat : at = AlignBucket(clock) /\ AlignBucket(at) = at
    BY <1>1, AlignedStays
<1>3. PICK r \in DOMAIN table : ResetOf(r, at)
    BY <1>2, ResetIs
<1>4. /\ inbox = <<>> /\ inbox' = <<>> /\ ledger' = ledger
      /\ stage' = stage /\ wal' = wal /\ gate' = gate /\ rows' = rows /\ issued' = issued
    BY DEF Reset, flushVars
<1>5. \A b \in DOMAIN issued : issued[b].At < at
    BY <1>2 DEF Reset
<1>6. PICK id : id = table[r].ID
    OBVIOUS
<1>7. Rolls(table', table, id, at) /\ Rolls(ladder', ladder, id, at)
    BY <1>3, <1>6 DEF ResetOf
<1>8. /\ DOMAIN table' = DOMAIN table /\ DOMAIN ladder' = DOMAIN ladder
      /\ \A i \in DOMAIN table : table'[i].ID = table[i].ID
      /\ \A k \in DOMAIN ladder : ladder'[k].ID = ladder[k].ID
    BY <1>7 DEF Rolls, SameEntries
<1>9. InHand' = InHand /\ HandAt' = HandAt
    BY <1>4 DEF InHand, HandAt
<1>10. id \in Owners
    BY <1>6, RowsAreOwners DEF ListsOK
<1>11. Owed(ledger, InHand, HandAt, id, at) = 0
    BY <1>2, <1>5, <1>10, FreshPeriod
<1>12. InStep(inbox', table')
    <2>1. DOMAIN <<>> = {}
        OBVIOUS
    <2>2. QED
        BY <1>4, <2>1 DEF InStep
<1>13. InStep(ladder', table')
    BY <1>7, <1>8 DEF InStep, ExactNow, Rolls
<1>14. Exact(ladder', table', ledger', InHand', HandAt')
    <2>1. SUFFICES ASSUME NEW k \in DOMAIN ladder, NEW i \in DOMAIN table, ladder[k].ID = table[i].ID
                   PROVE  ladder'[k].UsedBytes = Owed(ledger, InHand, HandAt, table[i].ID, table'[i].LastResetAt)
        BY <1>4, <1>8, <1>9 DEF Exact
    <2>2. ladder[k].UsedBytes = Owed(ledger, InHand, HandAt, table[i].ID, table[i].LastResetAt)
        BY <2>1 DEF ExactNow, Exact
    <2>3. CASE table[i].ID = id
        BY <1>7, <1>11, <2>1, <2>3 DEF Rolls
    <2>4. CASE table[i].ID # id
        BY <1>7, <2>1, <2>2, <2>4 DEF Rolls
    <2>5. QED
        BY <2>3, <2>4
<1>15. QED
    BY <1>4, <1>12, <1>13, <1>14 DEF ExactNow

\* In the beginning the ladder is exact.
LEMMA ExactBegins == Init => ExactInv
<1> SUFFICES ASSUME Init PROVE ExactNow
    BY DEF ExactInv
<1>1. ListsOK /\ LogOK
    BY ListsBegin, LogBegins
<1>2. /\ table = Plans /\ ladder \in Prepared(Plans) /\ inbox = <<>> /\ stage = "idle" /\ wal = 0
      /\ ledger = [k \in Owners \X Buckets |-> 0]
    BY DEF Init
<1>3. SameSubs(table) /\ table \in Seq(SubQuota) /\ ledger \in Ledgers
    BY <1>1 DEF ListsOK, LogOK
<1>4. \A i \in DOMAIN table : SumOf(table[i]) = 0
    <2>1. SUFFICES ASSUME NEW i \in DOMAIN table PROVE SumOf(table[i]) = 0
        OBVIOUS
    <2>2. table[i].ID \in Owners
        BY <1>3, RowsAreOwners
    <2>3. \A b \in Buckets : ledger[<<table[i].ID, b>>] = 0
        BY <1>2, <2>2
    <2>4. PeriodSum(ledger, table[i].ID, table[i].LastResetAt) = 0
        BY <1>3, <2>2, <2>3, PeriodSumZero
    <2>5. QED
        BY <2>4, SumOfIs
<1>5. Counted(Plans)
    BY <1>2, <1>3, <1>4, MeteringAssumption DEF Counted
<1>6. PICK out, at : out = ladder /\ out \in Prepared(Plans) /\ at = HandAt
    BY <1>2
<1>7. Fresh(out, table, ledger, at)
    BY <1>1, <1>5, <1>6, FreshLadder
<1>8. InHand = <<>>
    BY <1>2 DEF InHand
<1>9. InStep(ladder, table) /\ Exact(ladder, table, ledger, InHand, HandAt)
    BY <1>6, <1>7, <1>8 DEF Fresh, InStep, Exact
<1>10. InStep(inbox, table)
    <2>1. DOMAIN <<>> = {}
        OBVIOUS
    <2>2. QED
        BY <1>2, <2>1 DEF InStep
<1>11. QED
    BY <1>2, <1>9, <1>10 DEF ExactNow

\* And every step keeps it so.
LEMMA ExactHolds ==
    ASSUME OnTime, ListsOK, LogOK, BatchInv, ExactInv, [Next]_vars
    PROVE  ExactInv'
<1>1. "midBucket" \notin faults /\ "midFlush" \notin faults /\ "resync" \notin faults
    BY DEF OnTime, LogOK
<1>2. faults' = faults
    BY DEF Next, Log, AttributeBatch, Commit, Ack, Crash, Hydrate, Tick, Rollup, Rebuild, ReadTable,
           Sync, Reset, Drop, vars
<1>3. SUFFICES ASSUME "crash" \notin faults, "stale" \notin faults, ExactNow
               PROVE  ExactNow'
    BY <1>2 DEF ExactInv, Undisturbed
<1>4. CASE Log
    <2>1. /\ stage = "idle" /\ stage' = "idle" /\ UNCHANGED <<table, ledger, ladder, inbox, gate>>
          /\ wal' = Len(issued')
        BY <1>4 DEF Log, dbVars, ladderVars
    <2>2. wal' \notin gate'
        <3>1. PICK b : issued' = Append(issued, b)
            BY <1>4 DEF Log
        <3>2. issued \in Seq(Batch) /\ gate \subseteq 1 .. Len(issued)
            BY DEF LogOK
        <3>3. Len(issued') = Len(issued) + 1 /\ Len(issued) \in Nat
            BY <3>1, <3>2
        <3>4. QED
            BY <2>1, <3>2, <3>3
    <2>3. InHand = <<>> /\ InHand' = <<>>
        BY <2>1 DEF InHand
    <2>4. AsHeavy
        BY <2>1, <2>3, NothingMoved
    <2>5. QED
        BY <1>3, <2>1, <2>2, <2>4, ExactKept DEF PeriodsStay
<1>5. CASE AttributeBatch
    BY <1>3, <1>5, AttributeIsExact
<1>6. CASE Commit
    <2>1. stage = "split" /\ stage' = "committed" /\ UNCHANGED <<table, ladder, inbox>>
        BY <1>6 DEF Commit, ladderVars
    <2>2. wal \notin gate
        BY <1>3, <2>1 DEF ExactNow, BatchInv, RowsOK
    <2>3. AsHeavy
        BY <1>6, <2>2, CommitWeighsNothing DEF AsHeavy
    <2>4. QED
        BY <1>3, <2>1, <2>3, ExactKept DEF PeriodsStay
<1>7. CASE Ack
    <2>1. /\ stage = "committed" /\ stage' = "idle" /\ wal' = 0
          /\ UNCHANGED <<table, ledger, ladder, inbox>>
        BY <1>7 DEF Ack, dbVars, ladderVars
    <2>2. InHand = <<>> /\ InHand' = <<>>
        BY <2>1 DEF InHand
    <2>3. AsHeavy
        BY <2>1, <2>2, NothingMoved
    <2>4. QED
        BY <1>3, <2>1, <2>3, ExactKept DEF PeriodsStay
<1>8. CASE Crash
    BY <1>3, <1>8 DEF Crash
<1>9. CASE Hydrate
    BY <1>3, <1>9 DEF Hydrate, ExactNow
<1>10. CASE Tick
    <2>1. /\ UNCHANGED <<table, ledger, ladder, inbox, stage, wal, gate>>
          /\ InHand' = InHand /\ HandAt' = HandAt
        BY <1>10 DEF Tick, dbVars, flushVars, ladderVars, InHand, HandAt
    <2>2. AsHeavy
        BY <2>1, NothingMoved
    <2>3. QED
        BY <1>3, <2>1, <2>2, ExactKept DEF PeriodsStay, ExactNow
<1>11. CASE Rollup
    <2>1. /\ UNCHANGED <<ledger, ladder, inbox, stage, wal, gate>>
          /\ InHand' = InHand /\ HandAt' = HandAt /\ table' = Authoritative
        BY <1>11 DEF Rollup, flushVars, ladderVars, InHand, HandAt
    <2>2. Counted(Authoritative) /\ SameSubs(table)
        BY AuthoritativeIs DEF ListsOK
    <2>3. PeriodsStay
        BY <2>1, <2>2 DEF PeriodsStay, Counted, SameSubs
    <2>4. AsHeavy
        BY <2>1, NothingMoved
    <2>5. QED
        BY <1>3, <2>1, <2>3, <2>4, ExactKept DEF ExactNow
<1>12. CASE Rebuild
    BY <1>1, <1>3, <1>12, RebuildIsExact
<1>13. CASE ReadTable
    <2>1. /\ UNCHANGED <<table, ledger, ladder, stage, wal, gate>> /\ inbox' = table
          /\ InHand' = InHand /\ HandAt' = HandAt
        BY <1>13 DEF ReadTable, dbVars, flushVars, ladderVars, InHand, HandAt
    <2>2. AsHeavy
        BY <2>1, NothingMoved
    <2>3. QED
        BY <1>3, <2>1, <2>2, ExactKept DEF PeriodsStay, ExactNow
<1>14. CASE Sync
    <2>1. held
        BY <1>1, <1>14 DEF Sync
    <2>2. QED
        BY <1>3, <1>14, <2>1, SyncIsExact
<1>15. CASE Reset
    BY <1>1, <1>3, <1>15, ResetIsExact
<1>16. CASE Drop
    <2>1. /\ UNCHANGED <<table, ledger, inbox, stage, wal, gate>> /\ ladder' = <<>>
          /\ InHand' = InHand /\ HandAt' = HandAt
        BY <1>16 DEF Drop, dbVars, flushVars, InHand, HandAt
    <2>2. AsHeavy
        BY <2>1, NothingMoved
    <2>3. QED
        BY <1>3, <2>1, <2>2, ExactKept DEF PeriodsStay, ExactNow
<1>17. CASE UNCHANGED vars
    <2>1. /\ UNCHANGED <<table, ledger, ladder, inbox, stage, wal, gate>>
          /\ InHand' = InHand /\ HandAt' = HandAt
        BY <1>17 DEF vars, dbVars, flushVars, ladderVars, InHand, HandAt
    <2>2. AsHeavy
        BY <2>1, NothingMoved
    <2>3. QED
        BY <1>3, <2>1, <2>2, ExactKept DEF PeriodsStay, ExactNow
<1>18. QED
    BY <1>4, <1>5, <1>6, <1>7, <1>8, <1>9, <1>10, <1>11, <1>12, <1>13, <1>14, <1>15, <1>16, <1>17
       DEF Next

\* So it is exact for good.
LEMMA ExactInductive ==
    ASSUME OnTime
    PROVE  Spec => [](Books /\ ExactInv)
<1>1. Books /\ ExactInv /\ [Next]_vars => ExactInv'
    BY ExactHolds DEF Books
<1>2. QED
    BY <1>1, ExactBegins, BooksInductive, PTL DEF Spec

\* With the resets on time and nothing replayed or stale, the ladder and the
\* ledger agree to the byte between two flushes: the invariant checker has
\* nothing to report (ladder.go:128-129, docs/design/v1.0.md:874).
THEOREM LadderAgreesWithLedger ==
    ASSUME OnTime
    PROVE  Spec => []LadderIsTheLedger
<1>1. Books /\ ExactInv => LadderIsTheLedger
    <2> SUFFICES ASSUME Books, ExactInv, stage = "idle", Undisturbed,
                        NEW k \in DOMAIN ladder, NEW i \in DOMAIN table, table[i].ID = ladder[k].ID
                 PROVE  ladder[k].UsedBytes = SumOf(table[i])
        BY DEF LadderIsTheLedger, Undisturbed
    <2>1. ladder[k].UsedBytes = Owed(ledger, InHand, HandAt, table[i].ID, table[i].LastResetAt)
        BY DEF ExactInv, ExactNow, Exact
    <2>2. InHand = <<>>
        BY DEF InHand
    <2>3. SameSubs(table) /\ ledger \in Ledgers
        BY DEF Books, ListsOK, LogOK
    <2>4. table[i].ID \in Owners
        BY <2>3, RowsAreOwners
    <2>5. Owed(ledger, <<>>, HandAt, table[i].ID, table[i].LastResetAt)
             = PeriodSum(ledger, table[i].ID, table[i].LastResetAt)
        BY <2>3, <2>4, OwedNothing
    <2>6. QED
        BY <2>1, <2>2, <2>5, SumOfIs
<1>2. QED
    BY <1>1, ExactInductive, PTL
=============================================================================
