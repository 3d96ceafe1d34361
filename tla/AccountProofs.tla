---------------------------- MODULE AccountProofs ----------------------------
(***************************************************************************)
(* Proofs about a user's accounts, each for all the constants that meet    *)
(* its assumptions: what is billed (Billing), what is paid (Balance),      *)
(* whose allowance it comes off (BatchSplit), where the ledger files it    *)
(* (LedgerPartitions), what a change of plan is worth (Membership), and    *)
(* when the allowance is reset (ResetCycle).                               *)
(***************************************************************************)
EXTENDS Billing, Balance, BatchSplit, Membership, LedgerPartitions, ResetCycle, DeductionProofs

-----------------------------------------------------------------------------
(***************************************************************************)
(* Billing.  What the accumulator holds is bounded by the reports in it,   *)
(* so neither its sums nor the product with the rate leave the word        *)
(* (ExactBill); each flush then adds to the debt what an integer division  *)
(* cuts off.                                                               *)
(***************************************************************************)

\* A number inside the word is what the machine makes of it.
LEMMA WrapIsExact ==
    ASSUME NEW n \in Word
    PROVE  Wrap(n) = n
<1>1. Half \in Nat \ {0} /\ n \in Int /\ -Half <= n /\ n < Half
    BY BillingAssumption DEF Word
<1>2. n + Half \in 0 .. 2 * Half - 1
    BY <1>1
<1>3. (n + Half) % (2 * Half) = n + Half
    BY <1>1, <1>2
<1> QED  BY <1>1, <1>3 DEF Wrap

\* A product is monotone in both factors.
LEMMA ProductBound ==
    ASSUME NEW a \in Nat, NEW b \in Nat, NEW c \in Nat, NEW d \in Nat,
           a <= c, b <= d
    PROVE  a * b \in Nat /\ a * b <= c * d
<1>1. a * b \in Nat /\ c * b \in Nat /\ c * d \in Nat
    OBVIOUS
<1>2. a * b <= c * b
    <2>1. PICK k \in Nat : c = a + k
        <3>1. c - a \in Nat /\ c = a + (c - a)
            OBVIOUS
        <3> QED  BY <3>1
    <2>2. c * b = a * b + k * b /\ k * b \in Nat
        BY <2>1
    <2> QED  BY <2>2, <1>1
<1>3. c * b <= c * d
    <2>1. PICK k \in Nat : d = b + k
        <3>1. d - b \in Nat /\ d = b + (d - b)
            OBVIOUS
        <3> QED  BY <3>1
    <2>2. c * d = c * b + c * k /\ c * k \in Nat
        BY <2>1
    <2> QED  BY <2>2, <1>1
<1> QED  BY <1>1, <1>2, <1>3

\* What any run of validated reports adds up to is billed without a wrap:
\* the product is exact and the division floors (traffic.go:38-45, 75-78).
THEOREM ExactBill ==
    ASSUME NEW u \in Nat, NEW d \in Nat, NEW r \in 1 .. RateMax,
           u + d <= ReportsPerFlush * MaxReportBytes
    PROVE  /\ BilledBytes(u, d, r) \in Nat
           /\ BilledBytes(u, d, r) = ((u + d) * r) \div RateBPUnit
<1> DEFINE m == ReportsPerFlush * MaxReportBytes
<1>1. /\ m \in Nat /\ RateMax \in Nat \ {0} /\ Half \in Nat \ {0}
      /\ RateBPUnit \in Nat \ {0} /\ m * RateMax < Half
    BY BillingAssumption, HeadroomAssumption
<1> HIDE DEF m
<1>2. u + d <= m
    BY DEF m
<1>3. (u + d) * r \in Nat /\ (u + d) * r <= m * RateMax
    BY <1>1, <1>2, ProductBound
<1>4. (u + d) * 1 <= (u + d) * r
    BY <1>1, ProductBound
<1>5. Wrap(u + d) = u + d
    <2>1. u + d \in Word
        BY <1>1, <1>3, <1>4 DEF Word
    <2> QED  BY <2>1, WrapIsExact
<1>6. Wrap((u + d) * r) = (u + d) * r
    <2>1. (u + d) * r \in Word
        BY <1>1, <1>3 DEF Word
    <2> QED  BY <2>1, WrapIsExact
<1>7. BilledBytes(u, d, r) = Quotient((u + d) * r, RateBPUnit)
    BY <1>5, <1>6 DEF BilledBytes
<1> DEFINE x == (u + d) * r
<1>8. x \in Nat
    BY <1>3
<1> HIDE DEF x
<1>9. Quotient(x, RateBPUnit) = x \div RateBPUnit /\ x \div RateBPUnit \in Nat
    BY <1>1, <1>8 DEF Quotient
<1> QED  BY <1>7, <1>9 DEF x

\* An accepted report is a pair of counts within the bound, at a positive rate.
LEMMA Accepted ==
    ASSUME NEW u \in Counts, NEW d \in Counts, NEW r \in Rates,
           ValidateDelta(u, d, r) = "ok"
    PROVE  /\ u \in Nat /\ d \in Nat /\ r \in 1 .. RateMax
           /\ u + d <= MaxReportBytes
<1>1. /\ u \in Int /\ d \in Int /\ r \in Int /\ r <= RateMax
      /\ MaxReportBytes \in Nat \ {0} /\ RateMax \in Nat \ {0} /\ Half \in Nat \ {0}
    BY BillingAssumption DEF Word
<1>2. u >= 0 /\ d >= 0
    BY <1>1 DEF ValidateDelta
<1>3. u <= MaxReportBytes /\ d <= MaxReportBytes /\ Wrap(u + d) <= MaxReportBytes
    <2>1. ~(u < 0 \/ d < 0)
        BY <1>1, <1>2
    <2>2. ~(u > MaxReportBytes \/ d > MaxReportBytes \/ Wrap(u + d) > MaxReportBytes)
        BY <2>1, Zenon DEF ValidateDelta
    <2>3. Wrap(u + d) \in Int
        BY <1>1 DEF Wrap
    <2> QED  BY <1>1, <2>2, <2>3
<1>4. r > 0
    BY <1>1 DEF ValidateDelta, Valid
<1>5. u + d \in Word
    BY <1>1, <1>2, <1>3, BillingAssumption DEF Word
<1>6. u + d <= MaxReportBytes
    BY <1>3, <1>5, WrapIsExact
<1> QED  BY <1>1, <1>2, <1>4, <1>6

-----------------------------------------------------------------------------
\* What so many reports add up to fits a word.
LEMMA SumsFit ==
    ASSUME NEW n \in Nat, n <= ReportsPerFlush * MaxReportBytes
    PROVE  n \in Word
<1> DEFINE m == ReportsPerFlush * MaxReportBytes
<1>1. /\ m \in Nat /\ RateMax \in Nat \ {0} /\ Half \in Nat \ {0} /\ m * RateMax < Half
    BY BillingAssumption, HeadroomAssumption
<1> HIDE DEF m
<1>2. n <= m
    BY DEF m
<1>3. n * 1 <= m * RateMax
    BY <1>1, <1>2, ProductBound
<1> QED  BY <1>1, <1>3 DEF Word

LEMMA ReportKeeps ==
    ASSUME BilledInv, Report
    PROVE  BilledInv'
<1>1. PICK u \in Counts, d \in Counts :
         /\ ValidateDelta(u, d, rate) = "ok"
         /\ up' = Wrap(up + u) /\ down' = Wrap(down + d)
    BY DEF Report
<1>2. /\ rate \in Rates /\ reports \in Nat /\ reports < ReportsPerFlush
      /\ up \in Nat /\ down \in Nat /\ ReportsPerFlush \in Nat /\ MaxReportBytes \in Nat
    BY BillingAssumption DEF BilledInv, BillingTypeOK, AccumulatorInv, Report, Word
<1>3. /\ u \in Nat /\ d \in Nat /\ rate \in 1 .. RateMax /\ u + d <= MaxReportBytes
    BY <1>1, <1>2, Accepted
<1>4. /\ reports' = reports + 1
      /\ UNCHANGED <<rate, traffic, billed, flushes>>
    BY DEF Report
<1>5. (reports + 1) * MaxReportBytes = reports * MaxReportBytes + MaxReportBytes
    BY <1>2
<1>6. (reports + 1) * MaxReportBytes <= ReportsPerFlush * MaxReportBytes
    BY <1>2, ProductBound
<1>7. up + u + (down + d) <= (reports + 1) * MaxReportBytes
    <2>1. reports * MaxReportBytes \in Nat /\ up + down <= reports * MaxReportBytes
        BY <1>2 DEF BilledInv, AccumulatorInv
    <2> QED  BY <2>1, <1>2, <1>3, <1>5
<1>8. up + u \in Word /\ down + d \in Word
    <2>1. (reports + 1) * MaxReportBytes \in Nat /\ ReportsPerFlush * MaxReportBytes \in Nat
        BY <1>2
    <2>2. /\ up + u \in Nat /\ up + u <= ReportsPerFlush * MaxReportBytes
          /\ down + d \in Nat /\ down + d <= ReportsPerFlush * MaxReportBytes
        BY <2>1, <1>2, <1>3, <1>6, <1>7
    <2> QED  BY <2>2, SumsFit
<1>9. up' = up + u /\ down' = down + d
    BY <1>1, <1>8, WrapIsExact
<1>10. BillingTypeOK'
    BY <1>2, <1>4, <1>8, <1>9 DEF BilledInv, BillingTypeOK
<1>11. AccumulatorInv'
    BY <1>2, <1>3, <1>4, <1>7, <1>9 DEF AccumulatorInv
<1>12. BilledToTheByte'
    BY <1>4 DEF BilledInv, BilledToTheByte
<1> QED  BY <1>10, <1>11, <1>12 DEF BilledInv

LEMMA FlushKeeps ==
    ASSUME BilledInv, Flush
    PROVE  BilledInv'
<1> DEFINE s == up + down
           q == BilledBytes(up, down, rate)
<1>1. /\ RateBPUnit \in Nat \ {0} /\ RateMax \in Nat \ {0} /\ Half \in Nat \ {0}
      /\ MaxReportBytes \in Nat /\ ReportsPerFlush \in Nat
    BY BillingAssumption
<1>2. /\ up \in Nat /\ down \in Nat /\ reports \in Nat /\ reports <= ReportsPerFlush
      /\ rate \in 1 .. RateMax /\ s <= reports * MaxReportBytes
      /\ traffic \in Nat /\ billed \in Int /\ flushes \in Nat
    <2>1. Rates \subseteq -RateMax - 1 .. RateMax
        BY BillingAssumption
    <2> QED  BY <1>1, <2>1 DEF BilledInv, BillingTypeOK, AccumulatorInv, Flush, Word
<1>3. s <= ReportsPerFlush * MaxReportBytes
    <2>1. reports * MaxReportBytes <= ReportsPerFlush * MaxReportBytes
        BY <1>1, <1>2, ProductBound
    <2>2. reports * MaxReportBytes \in Nat /\ ReportsPerFlush * MaxReportBytes \in Nat
        BY <1>1, <1>2
    <2> QED  BY <2>1, <2>2, <1>2
<1>4. q \in Nat /\ q = (s * rate) \div RateBPUnit
    BY <1>2, <1>3, ExactBill
<1>5. /\ traffic' = traffic + s /\ billed' = billed + q /\ flushes' = flushes + 1
      /\ up' = 0 /\ down' = 0 /\ reports' = 0 /\ rate' = rate
      /\ flushes < MaxFlushes
    BY DEF Flush
<1>6. s \in Nat /\ s * rate \in Nat
    BY <1>2
<1>7. BillingTypeOK'
    <2>1. MaxFlushes \in Nat /\ 0 \in Word
        BY <1>1, BillingAssumption DEF Word
    <2> HIDE DEF s, q
    <2> QED  BY <1>1, <1>2, <1>4, <1>5, <1>6, <2>1 DEF BilledInv, BillingTypeOK
<1>8. AccumulatorInv'
    BY <1>1, <1>5 DEF AccumulatorInv
<1>9. BilledToTheByte'
    <2> DEFINE owed == traffic * rate - billed * RateBPUnit
               cut == s * rate - q * RateBPUnit
    <2>1. 0 <= owed /\ owed <= flushes * (RateBPUnit - 1)
        BY DEF BilledInv, BilledToTheByte
    <2>2. cut \in 0 .. RateBPUnit - 1
        <3> DEFINE x == s * rate
        <3>1. x \in Nat
            BY <1>6
        <3> HIDE DEF x
        <3>2. x - (x \div RateBPUnit) * RateBPUnit \in 0 .. RateBPUnit - 1
            BY <3>1, <1>1
        <3> QED  BY <3>2, <1>4 DEF x
    <2>3. (traffic + s) * rate - (billed + q) * RateBPUnit = owed + cut
        <3> HIDE DEF s, q
        <3>1. (traffic + s) * rate = traffic * rate + s * rate
            BY <1>2, <1>6
        <3>2. (billed + q) * RateBPUnit = billed * RateBPUnit + q * RateBPUnit
            BY <1>1, <1>2, <1>4
        <3> DEFINE tr == traffic * rate
                   sr == s * rate
                   bu == billed * RateBPUnit
                   qu == q * RateBPUnit
        <3>3. tr \in Int /\ sr \in Int /\ bu \in Int /\ qu \in Int
            BY <1>1, <1>2, <1>4, <1>6
        <3>4. (tr + sr) - (bu + qu) = (tr - bu) + (sr - qu)
            <4> HIDE DEF tr, sr, bu, qu
            <4> QED  BY <3>3
        <3> QED  BY <3>1, <3>2, <3>4
    <2>4. (flushes + 1) * (RateBPUnit - 1) = flushes * (RateBPUnit - 1) + (RateBPUnit - 1)
        BY <1>1, <1>2
    <2>5. owed \in Int /\ flushes * (RateBPUnit - 1) \in Int
        BY <1>1, <1>2
    <2>6. 0 <= owed + cut /\ owed + cut <= (flushes + 1) * (RateBPUnit - 1)
        <3> HIDE DEF owed, cut
        <3> QED  BY <2>1, <2>2, <2>4, <2>5, <1>1
    <2> QED  BY <1>5, <2>3, <2>6 DEF BilledToTheByte
<1> QED  BY <1>7, <1>8, <1>9 DEF BilledInv

LEMMA BillingInv == BillingSpec => []BilledInv
<1>1. BillingInit => BilledInv
    <2> SUFFICES ASSUME BillingInit PROVE BilledInv
        OBVIOUS
    <2>1. /\ RateBPUnit \in Nat \ {0} /\ ReportsPerFlush \in Nat /\ MaxFlushes \in Nat
          /\ MaxReportBytes \in Nat /\ Half \in Nat \ {0}
          /\ RateMax \in Nat /\ Rates \subseteq -RateMax - 1 .. RateMax
        BY BillingAssumption
    <2>2. BillingTypeOK
        BY <2>1 DEF BillingInit, BillingTypeOK, Word
    <2>3. AccumulatorInv
        BY <2>1 DEF BillingInit, AccumulatorInv
    <2>4. rate \in Int
        BY <2>1 DEF BillingInit
    <2>5. BilledToTheByte
        BY <2>1, <2>4 DEF BillingInit, BilledToTheByte
    <2> QED  BY <2>2, <2>3, <2>5 DEF BilledInv
<1>2. BilledInv /\ [BillingNext]_billingVars => BilledInv'
    <2> SUFFICES ASSUME BilledInv, [BillingNext]_billingVars PROVE BilledInv'
        OBVIOUS
    <2>1. CASE Report
        BY <2>1, ReportKeeps
    <2>2. CASE Flush
        BY <2>2, FlushKeeps
    <2>3. CASE UNCHANGED billingVars
        BY <2>3 DEF billingVars, BilledInv, BillingTypeOK, AccumulatorInv, BilledToTheByte
    <2> QED  BY <2>1, <2>2, <2>3 DEF BillingNext
<1> QED  BY <1>1, <1>2, PTL DEF BillingSpec

\* The accumulator stays inside its words (traffic.go:58-62).
THEOREM BillingTypeCorrect == BillingSpec => []BillingTypeOK
<1>1. BilledInv => BillingTypeOK
    BY DEF BilledInv
<1> QED  BY <1>1, BillingInv, PTL

\* Traffic is billed to the byte, however it is cut up, for every word size
\* and every rate the bound on a report leaves room for (traffic.go:38-45).
THEOREM BilledExactly == BillingSpec => []BilledToTheByte
<1>1. BilledInv => BilledToTheByte
    BY DEF BilledInv
<1> QED  BY <1>1, BillingInv, PTL

-----------------------------------------------------------------------------
(***************************************************************************)
(* Balance.                                                                *)
(***************************************************************************)

Rows == [delta : Int, before : Int, after : Int]

\* What one movement does to the log and the balance.
LEMMA MoveKeeps ==
    ASSUME balance \in Int, log \in Seq(Rows), Len(log) <= MaxLog,
           NEW delta \in Int, NEW reads \in SUBSET Int, Move(delta, reads)
    PROVE  /\ balance' \in Int /\ balance' = balance + delta
           /\ log' \in Seq(Rows) /\ Len(log') <= MaxLog
<1>1. PICK before \in reads, b \in reads :
          log' = Append(log, [delta |-> delta, before |-> before, after |-> b + delta])
  BY DEF Move
<1>2. [delta |-> delta, before |-> before, after |-> b + delta] \in Rows
  BY DEF Rows
<1>3. balance' = balance + delta /\ Len(log) < MaxLog
  BY DEF Move
<1>4. log' \in Seq(Rows) /\ Len(log') = Len(log) + 1
  BY <1>1, <1>2
<1> QED  BY <1>3, <1>4, BalanceAssumption

LEMMA InitSettled == BalanceInit => BalanceTypeOK
<1> SUFFICES ASSUME BalanceInit PROVE BalanceTypeOK
  OBVIOUS
<1>1. log \in Seq(Rows) /\ Len(log) = 0 /\ balance = 0
  BY DEF BalanceInit, Rows
<1> QED  BY <1>1, BalanceAssumption DEF BalanceInit, BalanceTypeOK, Rows, Idle

\* A session only gets past Deduct with an amount that is not negative.
LEMMA StepSettled == BalanceTypeOK /\ [BalanceNext]_balanceVars => BalanceTypeOK'
<1> SUFFICES ASSUME BalanceTypeOK, [BalanceNext]_balanceVars PROVE BalanceTypeOK'
  OBVIOUS
<1> DEFINE Spending == [op : {"spend"}, amount : Amounts \cap Nat, read : Int]
<1>0. /\ balance \in Int /\ log \in Seq(Rows) /\ Len(log) <= MaxLog
      /\ session \in [Sessions -> {Idle} \cup Spending]
  BY DEF BalanceTypeOK, Rows
<1> SUFFICES /\ balance' \in Int /\ log' \in Seq(Rows) /\ Len(log') <= MaxLog
             /\ session' \in [Sessions -> {Idle} \cup Spending]
  BY DEF BalanceTypeOK, Rows
<1>1. CASE UNCHANGED balanceVars
  BY <1>0, <1>1 DEF balanceVars
<1>2. ASSUME NEW s \in Sessions, Check(s)
      PROVE  UNCHANGED <<balance, log>> /\ session' \in [Sessions -> {Idle} \cup Spending]
  <2>1. PICK amount \in Amounts :
            /\ Deduct(balance, amount) = "ok"
            /\ session' = [session EXCEPT ![s] = [op |-> "spend", amount |-> amount, read |-> balance]]
    BY <1>2 DEF Check
  <2>2. amount \in Nat
    BY <2>1, <1>0, BalanceAssumption DEF Deduct
  <2>3. [op |-> "spend", amount |-> amount, read |-> balance] \in Spending
    BY <2>2, <1>0
  <2> QED  BY <2>1, <2>3, <1>0, <1>2 DEF Check
<1>3. ASSUME NEW s \in Sessions, Spend(s)
      PROVE  /\ balance' \in Int /\ log' \in Seq(Rows) /\ Len(log') <= MaxLog
             /\ session' \in [Sessions -> {Idle} \cup Spending]
  <2>1. session[s] \in Spending
    BY <1>3, <1>0 DEF Spend
  <2>2. -session[s].amount \in Int /\ {session[s].read, balance} \in SUBSET Int
    BY <2>1, <1>0
  <2>3. Move(-session[s].amount, {session[s].read, balance})
    BY <1>3 DEF Spend
  <2>4. session' \in [Sessions -> {Idle} \cup Spending]
    BY <1>3, <1>0 DEF Spend
  <2> QED  BY <2>2, <2>3, <2>4, <1>0, MoveKeeps
<1>4. ASSUME NEW s \in Sessions, Rollback(s)
      PROVE  UNCHANGED <<balance, log>> /\ session' \in [Sessions -> {Idle} \cup Spending]
  BY <1>4, <1>0 DEF Rollback
<1>5. ASSUME Credit \/ ClawBack
      PROVE  /\ balance' \in Int /\ log' \in Seq(Rows) /\ Len(log') <= MaxLog
             /\ session' = session
  <2>1. PICK delta \in Int : Move(delta, {balance})
    BY <1>5, BalanceAssumption DEF Credit, ClawBack
  <2> QED  BY <2>1, <1>0, <1>5, MoveKeeps DEF Credit, ClawBack
<1> QED  BY <1>0, <1>1, <1>2, <1>3, <1>4, <1>5 DEF BalanceNext

\* Sound types at every moment: no session ever holds a negative amount to
\* spend, which Deduct alone sees to (money.go:43-46).
THEOREM BalanceTypeCorrect == BalanceSpec => []BalanceTypeOK
BY InitSettled, StepSettled, PTL DEF BalanceSpec

\* A spend never overdraws and never adds (money.go:21-26 with
\* 0001_core.sql:41-51), whatever was committed since it was checked.
THEOREM SpendsCovered == BalanceSpec => SpendsStayCovered
<1> DEFINE Covered == session' # session /\ log' # log => balance' >= 0 /\ balance' <= balance
<1>1. BalanceTypeOK /\ [BalanceNext]_balanceVars => [Covered]_balanceVars
  <2> SUFFICES ASSUME BalanceTypeOK, BalanceNext, session' # session, log' # log
               PROVE  balance' >= 0 /\ balance' <= balance
    BY DEF balanceVars
  <2>1. PICK s \in Sessions : Spend(s)
    BY DEF BalanceNext, Check, Rollback, Credit, ClawBack
  <2>2. session[s].amount \in Nat /\ balance \in Int
    BY <2>1 DEF BalanceTypeOK, Spend
  <2>3. balance' = balance + (-session[s].amount) /\ balance >= session[s].amount
    BY <2>1 DEF Spend, Move, Covers
  <2> QED  BY <2>2, <2>3
<1> QED  BY InitSettled, StepSettled, <1>1, PTL DEF BalanceSpec, SpendsStayCovered

-----------------------------------------------------------------------------
(***************************************************************************)
(* BatchSplit.  After prepare the list is in deduction order, which is why *)
(* the facts about one batch apply to it, and to the ladder the first      *)
(* batch leaves; the rows and the ladder are what these facts are about.   *)
(***************************************************************************)

AfterFirst == AfterBatch(ordered, bills[1], at)
FirstRows == Attribute(bills[1], ordered, at)
SecondRows == Attribute(bills[2], AfterFirst, at)

SplitInv ==
    /\ input \in Seq(SubQuota) /\ at \in Times /\ bills \in Int \X Int
    /\ stage \in {"read", "prepared"}
    /\ stage = "read" => rows = <<>>
    /\ stage = "prepared" =>
          /\ ordered \in Prepared(input)
          /\ \/ rows = <<>> /\ ladder = ordered
             \/ rows = <<FirstRows>> /\ ladder = AfterFirst
             \/ rows = <<FirstRows, SecondRows>> /\ ladder = AfterBatch(AfterFirst, bills[2], at)

\* A second element.
LEMMA OneMore ==
    ASSUME NEW a, NEW b
    PROVE  Append(<<a>>, b) = <<a, b>>
<1> DEFINE S == {a, b}
<1>1. a \in S /\ b \in S
    OBVIOUS
<1> HIDE DEF S
<1>2. <<a>> \in Seq(S) /\ <<a, b>> \in Seq(S) /\ Len(<<a>>) = 1 /\ Len(<<a, b>>) = 2
    BY <1>1
<1>3. PICK s \in Seq(S) : s = <<a>> /\ Len(s) = 1 /\ s[1] = a
    BY <1>2
<1>4. PICK c \in Seq(S) : c = Append(s, b)
    BY <1>1, AppendProperties
<1>5. Len(c) = 2 /\ c[1] = a /\ c[2] = b
    BY <1>1, <1>3, <1>4, AppendProperties
<1>6. \A i \in 1 .. 2 : c[i] = <<a, b>>[i]
    BY <1>5
<1>7. c = <<a, b>>
    BY <1>2, <1>5, <1>6, SeqEqual
<1>8. QED
    BY <1>3, <1>4, <1>7

\* What a behaviour begins with.
LEMMA SplitStarts == SplitInit => SplitInv
<1> SUFFICES ASSUME SplitInit PROVE SplitInv
    OBVIOUS
<1>1. input \in Seq(SubQuota)
    <2>1. PICK n \in Lengths : input \in [1 .. n -> Entries]
        BY DEF SplitInit
    <2>2. n \in Nat /\ \A i \in 1 .. n : input[i] \in SubQuota
        BY <2>1, BatchSplitAssumption
    <2>3. QED
        BY <2>1, <2>2
<1>2. at \in Times
    BY BatchSplitAssumption DEF SplitInit, SubQuota
<1>3. bills \in Int \X Int
    BY BatchSplitAssumption DEF SplitInit
<1>4. QED
    BY <1>1, <1>2, <1>3 DEF SplitInit, SplitInv

\* One step: sort, or split one of the two batches.
LEMMA SplitSteps == SplitInv /\ [SplitNext]_splitVars => SplitInv'
<1> SUFFICES ASSUME SplitInv, [SplitNext]_splitVars PROVE SplitInv'
    OBVIOUS
<1>1. CASE Prepare
    BY <1>1 DEF Prepare, SplitInv
<1>2. CASE SplitBatch
    <2>1. /\ stage = "prepared" /\ Len(rows) < 2
          /\ rows' = Append(rows, Attribute(bills[Len(rows) + 1], ladder, at))
          /\ ladder' = AfterBatch(ladder, bills[Len(rows) + 1], at)
          /\ UNCHANGED <<input, at, bills, ordered, stage>>
        BY <1>2 DEF SplitBatch, AfterBatch
    <2>2. CASE rows = <<>> /\ ladder = ordered
        <3>1. rows' = <<FirstRows>> /\ ladder' = AfterFirst
            BY <2>1, <2>2 DEF FirstRows, AfterFirst
        <3>2. QED
            BY <2>1, <3>1 DEF SplitInv, FirstRows, AfterFirst
    <2>3. CASE rows = <<FirstRows>> /\ ladder = AfterFirst
        <3>1. Len(rows) = 1
            BY <2>3
        <3>2. ladder' = AfterBatch(AfterFirst, bills[2], at)
            BY <2>1, <2>3, <3>1
        <3>3. rows' = Append(<<FirstRows>>, SecondRows)
            BY <2>1, <2>3, <3>1 DEF SecondRows
        <3>4. rows' = <<FirstRows, SecondRows>>
            BY <3>3, OneMore
        <3>5. FirstRows' = FirstRows /\ SecondRows' = SecondRows /\ AfterFirst' = AfterFirst
            BY <2>1 DEF FirstRows, SecondRows, AfterFirst
        <3>6. QED
            BY <2>1, <3>2, <3>4, <3>5 DEF SplitInv
    <2>4. QED
        BY <2>1, <2>2, <2>3 DEF SplitInv
<1>3. CASE UNCHANGED splitVars
    BY <1>3 DEF splitVars, SplitInv, FirstRows, SecondRows, AfterFirst
<1>4. QED
    BY <1>1, <1>2, <1>3 DEF SplitNext

\* A behaviour of BatchSplit works on an ordered list, batch after batch.
LEMMA SplitInductive == SplitSpec => []SplitInv
<1>1. QED
    BY SplitStarts, SplitSteps, PTL DEF SplitSpec

\* What prepare returns has distinct IDs, and so has the list after a batch.
LEMMA Lists ==
    ASSUME SplitInv, stage = "prepared"
    PROVE  /\ ordered \in Seq(SubQuota) /\ DistinctIDs(ordered)
           /\ AfterFirst \in Seq(SubQuota) /\ DistinctIDs(AfterFirst)
           /\ bills[1] \in Int /\ bills[2] \in Int
<1>1. ordered \in Seq(SubQuota) /\ InDeductionOrder(ordered)
    <2>1. input \in Seq(SubQuota) /\ ordered \in Prepared(input)
        BY DEF SplitInv
    <2>2. QED
        BY <2>1, PreparedInOrder
<1>2. DistinctIDs(ordered)
    BY <1>1 DEF InDeductionOrder, DistinctIDs
<1>3. bills[1] \in Int /\ bills[2] \in Int /\ at \in Times
    BY DEF SplitInv
<1>4. IsAfterBatch(AfterFirst, ordered, bills[1], at)
    BY <1>1, <1>2, <1>3, AfterBatchIs DEF AfterFirst
<1>5. QED
    BY <1>1, <1>2, <1>3, <1>4 DEF IsAfterBatch

\* The authorisation check and the split agree, for lists of any length: once
\* a byte of a bucket has overflowed, no subscription is left that the check
\* would admit in it (reset.go:99-107 against quota.go:164-183).
THEOREM OverflowLocksOut == SplitSpec => []EntitlementAgreesWithOverflow
<1>1. SplitInv => EntitlementAgreesWithOverflow
    <2> SUFFICES ASSUME SplitInv, stage = "prepared", NEW k \in DOMAIN rows,
                        BilledTo(rows[k], OverflowSubscriptionID) > 0
                 PROVE  \A i \in DOMAIN ladder : ~Entitled(ladder[i], at)
        BY DEF EntitlementAgreesWithOverflow
    <2>1. /\ ordered \in Seq(SubQuota) /\ DistinctIDs(ordered)
          /\ AfterFirst \in Seq(SubQuota) /\ DistinctIDs(AfterFirst)
          /\ bills[1] \in Int /\ bills[2] \in Int
        BY Lists
    <2>2. at \in Times
        BY DEF SplitInv
    <2>3. BilledTo(FirstRows, OverflowSubscriptionID) > 0 =>
             \A i \in DOMAIN AfterFirst : ~Entitled(AfterFirst[i], at)
        BY <2>1, <2>2, OverflowMeansNobody DEF FirstRows, AfterFirst
    <2> DEFINE second == AfterBatch(AfterFirst, bills[2], at)
    <2>4. /\ BilledTo(SecondRows, OverflowSubscriptionID) > 0 =>
                \A i \in DOMAIN second : ~Entitled(second[i], at)
          /\ (\A i \in DOMAIN AfterFirst : ~Entitled(AfterFirst[i], at)) =>
                \A i \in DOMAIN second : ~Entitled(second[i], at)
        BY <2>1, <2>2, OverflowMeansNobody DEF SecondRows
    <2> HIDE DEF second
    <2>5. CASE rows = <<>> /\ ladder = ordered
        BY <2>5
    <2>6. CASE rows = <<FirstRows>> /\ ladder = AfterFirst
        <3>1. rows[k] = FirstRows
            BY <2>6
        <3>2. QED
            BY <2>3, <2>6, <3>1
    <2>7. CASE rows = <<FirstRows, SecondRows>> /\ ladder = second
        <3>1. rows[k] = FirstRows \/ rows[k] = SecondRows
            BY <2>7
        <3>2. QED
            BY <2>3, <2>4, <2>7, <3>1
    <2>8. QED
        BY <2>5, <2>6, <2>7 DEF SplitInv, second
<1>2. QED
    BY <1>1, SplitInductive, PTL

\* The loop of Attribute writes the waterfall's rows, in its order, in every
\* state, for lists of any length (quota.go:164-183).
THEOREM LoopIsTheWaterfall == SplitSpec => []LoopIsWaterfall
<1>1. SplitInv => LoopIsWaterfall
    <2> SUFFICES ASSUME SplitInv, stage = "prepared", 1 \in DOMAIN rows
                 PROVE  rows[1] = WaterfallRows(bills[1], ordered, at)
        BY DEF LoopIsWaterfall
    <2>1. rows[1] = FirstRows
        BY DEF SplitInv
    <2>2. ordered \in Seq(SubQuota) /\ DistinctIDs(ordered) /\ bills[1] \in Int
        BY Lists
    <2>3. QED
        BY <2>1, <2>2, LoopWritesTheWaterfall DEF FirstRows
<1>2. QED
    BY <1>1, SplitInductive, PTL

\* How traffic is cut into batches does not change who pays for it, whatever
\* the amounts and however many subscriptions share them (quota.go:140-183).
THEOREM CutDoesNotMatter == SplitSpec => []BatchingDoesNotMatter
<1>1. SplitInv => BatchingDoesNotMatter
    <2> SUFFICES ASSUME SplitInv, stage = "prepared", Len(rows) = 2,
                        bills[1] >= 0, bills[2] >= 0
                 PROVE  LET once == Attribute(bills[1] + bills[2], ordered, at)
                        IN  /\ \A id \in IDsOf(ordered) \cup {OverflowSubscriptionID} :
                                  BilledTo(once, id) = BilledTo(rows[1], id) + BilledTo(rows[2], id)
                            /\ ApplyAttribution(ordered, once) = ladder
        BY DEF BatchingDoesNotMatter
    <2>1. ordered \in Seq(SubQuota) /\ DistinctIDs(ordered) /\ bills[1] \in Nat /\ bills[2] \in Nat
        BY Lists
    <2>2. at \in Times
        BY DEF SplitInv
    <2>3. /\ rows[1] = FirstRows /\ rows[2] = SecondRows
          /\ ladder = AfterBatch(AfterFirst, bills[2], at)
        <3>1. rows # <<>> /\ rows # <<FirstRows>>
            OBVIOUS
        <3>2. rows = <<FirstRows, SecondRows>> /\ ladder = AfterBatch(AfterFirst, bills[2], at)
            BY <3>1 DEF SplitInv
        <3>3. QED
            BY <3>2
    <2>4. /\ \A id \in {ordered[k].ID : k \in DOMAIN ordered} \cup {OverflowSubscriptionID} :
                BilledTo(Attribute(bills[1] + bills[2], ordered, at), id) =
                   BilledTo(FirstRows, id) + BilledTo(SecondRows, id)
          /\ AfterBatch(ordered, bills[1] + bills[2], at) = AfterBatch(AfterFirst, bills[2], at)
        BY <2>1, <2>2, BatchesAddUp DEF FirstRows, SecondRows, AfterFirst
    <2>5. QED
        BY <2>3, <2>4 DEF IDsOf, AfterBatch
<1>2. QED
    BY <1>1, SplitInductive, PTL

\* A list without a repeated ID has as many IDs as entries, and conversely.
LEMMA CountingIDs ==
    ASSUME NEW list \in Seq(SubQuota)
    PROVE  Cardinality(IDsOf(list)) = Len(list) <=> DistinctIDs(list)
<1> DEFINE f == [i \in DOMAIN list |-> list[i].ID]
<1>1. Len(list) \in Nat /\ DOMAIN list = 1 .. Len(list)
    OBVIOUS
<1>2. IsFiniteSet(DOMAIN list) /\ Cardinality(DOMAIN list) = Len(list)
    BY <1>1, FS_Interval
<1>3. f \in [DOMAIN list -> IDsOf(list)]
    BY DEF IDsOf
<1>4. \A t \in IDsOf(list) : \E s \in DOMAIN list : f[s] = t
    BY DEF IDsOf
<1>5. f \in Surjection(DOMAIN list, IDsOf(list))
    BY <1>3, <1>4 DEF Surjection
<1>6. Cardinality(IDsOf(list)) = Cardinality(DOMAIN list)
          <=> f \in Injection(DOMAIN list, IDsOf(list))
    BY <1>2, <1>5, FS_Surjection
<1>7. f \in Injection(DOMAIN list, IDsOf(list)) <=> DistinctIDs(list)
    BY <1>3 DEF Injection, IsInjective, DistinctIDs
<1>8. QED
    BY <1>2, <1>6, <1>7

\* prepare loses no subscription, keeps none twice and depends on nothing but
\* the rows, for lists of any length (quota.go:76-79, ladder.go:88-93).
THEOREM PrepareIsOrderIndependent == SplitSpec => []OrderIndependent
<1>1. SplitInv => OrderIndependent
    <2> SUFFICES ASSUME SplitInv, stage = "prepared" PROVE
                    /\ IDsOf(ordered) = IDsOf(input)
                    /\ Cardinality(IDsOf(ordered)) = Len(ordered)
                    /\ Cardinality(IDsOf(input)) = Len(input) =>
                          \A p \in {p \in [DOMAIN input -> DOMAIN input] : IsInjective(p)} :
                             Prepared([i \in DOMAIN input |-> input[p[i]]]) = {ordered}
        BY DEF OrderIndependent
    <2>1. input \in Seq(SubQuota) /\ ordered \in Prepared(input)
        BY DEF SplitInv
    <2>2. ordered \in Seq(SubQuota) /\ DistinctIDs(ordered)
        BY Lists
    <2>3. IDsOf(ordered) \subseteq IDsOf(input)
        <3>1. ASSUME NEW k \in DOMAIN ordered PROVE \E x \in DOMAIN input : ordered[k] = input[x]
            BY <2>1, PreparedHasOnly DEF FirstOfID
        <3>2. QED
            BY <3>1 DEF IDsOf
    <2>4. ASSUME NEW id \in IDsOf(input) PROVE id \in IDsOf(ordered)
        <3> DEFINE Has == {i \in 0 .. Len(input) : i \in DOMAIN input /\ input[i].ID = id}
        <3>1. Has # {} /\ Has \in SUBSET (0 .. Len(input)) /\ Len(input) \in Nat
            <4>1. PICK i \in DOMAIN input : input[i].ID = id
                BY DEF IDsOf
            <4>2. i \in 0 .. Len(input) /\ Len(input) \in Nat
                BY <2>1
            <4>3. QED
                BY <4>1, <4>2
        <3> HIDE DEF Has
        <3>2. PICK i \in Has : \A j \in 0 .. i - 1 : j \notin Has
            BY <3>1, LeastNumber
        <3>3. i \in DOMAIN input /\ input[i].ID = id
            BY <3>2 DEF Has
        <3>4. ASSUME NEW j \in 1 .. i - 1 PROVE input[j].ID # input[i].ID
            <4>1. i \in 1 .. Len(input) /\ j \in 0 .. i - 1 /\ j \in DOMAIN input /\ j \in 0 .. Len(input)
                BY <2>1, <3>3
            <4>2. QED
                BY <3>2, <3>3, <4>1 DEF Has
        <3>5. i \in FirstOfID(input)
            BY <3>3, <3>4 DEF FirstOfID
        <3>6. PICK k \in DOMAIN ordered : ordered[k] = input[i]
            BY <2>1, <3>5, PreparedHasAll
        <3>7. QED
            BY <3>3, <3>6 DEF IDsOf
    <2>5. Cardinality(IDsOf(ordered)) = Len(ordered)
        BY <2>2, CountingIDs
    <2>6. ASSUME Cardinality(IDsOf(input)) = Len(input),
                 NEW p \in [DOMAIN input -> DOMAIN input], IsInjective(p)
          PROVE  Prepared([i \in DOMAIN input |-> input[p[i]]]) = {ordered}
        <3> DEFINE other == [i \in DOMAIN input |-> input[p[i]]]
        <3>1. DistinctIDs(input)
            BY <2>1, <2>6, CountingIDs
        <3>2. Len(input) \in Nat /\ DOMAIN input = 1 .. Len(input)
            BY <2>1
        <3>3. other \in Seq(SubQuota) /\ DOMAIN other = DOMAIN input
            BY <2>1, <2>6, <3>2
        <3>4. \A i, j \in DOMAIN input : p[i] = p[j] => i = j
            BY <2>6 DEF IsInjective
        <3>5. \A x \in DOMAIN input : \E i \in DOMAIN input : p[i] = x
            <4>1. IsFiniteSet(DOMAIN input)
                BY <3>2, FS_Interval
            <4>2. p \in Injection(DOMAIN input, DOMAIN input)
                BY <2>6, <3>4 DEF Injection, IsInjective
            <4>3. p \in Surjection(DOMAIN input, DOMAIN input)
                BY <4>1, <4>2, FS_Injection
            <4>4. QED
                BY <4>3 DEF Surjection
        <3>6. \A i \in DOMAIN other : other[i] = input[p[i]] /\ p[i] \in DOMAIN input
            BY <2>6
        <3> HIDE DEF other
        <3>7. DistinctIDs(other)
            BY <3>1, <3>3, <3>4, <3>6 DEF DistinctIDs
        <3>8. /\ \A i \in DOMAIN input : \E j \in DOMAIN other : other[j] = input[i]
              /\ \A i \in DOMAIN other : \E j \in DOMAIN input : input[j] = other[i]
            BY <3>3, <3>5, <3>6
        <3>9. Prepared(other) = {ordered}
            BY <2>1, <3>1, <3>3, <3>7, <3>8, ArrivalOrderDoesNotMatter
        <3>10. QED
            BY <3>9 DEF other
    <2>7. QED
        BY <2>3, <2>4, <2>5, <2>6
<1>2. QED
    BY <1>1, SplitInductive, PTL

-----------------------------------------------------------------------------
(***************************************************************************)
(* The ledger's partitions.  The months the scheduler has asked for so far *)
(* are an unbroken run: from one call to the next no more time passes than *)
(* it looks ahead, and it looks less than a month ahead.  A month is only  *)
(* detached when no row may look for it any more.                          *)
(***************************************************************************)

\* The month of an instant is the one whose bounds it lies in.
LEMMA WithinMonth ==
    ASSUME NEW x \in Int
    PROVE  /\ x \div MonthLength \in Int
           /\ (x \div MonthLength) * MonthLength <= x
           /\ x < (x \div MonthLength + 1) * MonthLength
<1>1. MonthLength \in Nat \ {0}
    BY LedgerPartitionsAssumption
<1>2. /\ x \div MonthLength \in Int /\ x % MonthLength \in 0 .. MonthLength - 1
      /\ x = MonthLength * (x \div MonthLength) + (x % MonthLength)
    BY <1>1
<1>3. PICK q \in Int : q = x \div MonthLength
    BY <1>2
<1>4. q * MonthLength = MonthLength * q /\ (q + 1) * MonthLength = MonthLength * q + MonthLength
    BY <1>1
<1> QED  BY <1>1, <1>2, <1>3, <1>4

\* Multiples of a month keep the order of their factors.
LEMMA MonthsInOrder ==
    ASSUME NEW k \in Int, NEW m \in Int, k <= m
    PROVE  k * MonthLength \in Int /\ k * MonthLength <= m * MonthLength
<1>1. MonthLength \in Nat
    BY LedgerPartitionsAssumption
<1>2. PICK d \in Nat : m = k + d
    <2>1. m - k \in Nat /\ m = k + (m - k)
        OBVIOUS
    <2> QED  BY <2>1
<1>3. m * MonthLength = k * MonthLength + d * MonthLength
    BY <1>1, <1>2
<1>4. d * MonthLength \in Nat /\ k * MonthLength \in Int
    BY <1>1
<1> QED  BY <1>3, <1>4

\* An instant that lies in the bounds of a month is in that month.
LEMMA MonthIs ==
    ASSUME NEW x \in Int, NEW m \in Int,
           m * MonthLength <= x, x < (m + 1) * MonthLength
    PROVE  x \div MonthLength = m
<1>1. MonthLength \in Nat \ {0}
    BY LedgerPartitionsAssumption
<1>2. PICK q \in Int : q = x \div MonthLength
    BY WithinMonth
<1>3. q * MonthLength <= x /\ x < (q + 1) * MonthLength
    BY <1>2, WithinMonth
<1>4. /\ q * MonthLength \in Int /\ (q + 1) * MonthLength \in Int
      /\ m * MonthLength \in Int /\ (m + 1) * MonthLength \in Int
    BY <1>1
<1>5. ~ q + 1 <= m
    <2> SUFFICES ASSUME q + 1 <= m PROVE FALSE
        OBVIOUS
    <2>1. (q + 1) * MonthLength <= m * MonthLength
        BY MonthsInOrder
    <2> QED  BY <2>1, <1>3, <1>4
<1>6. ~ m + 1 <= q
    <2> SUFFICES ASSUME m + 1 <= q PROVE FALSE
        OBVIOUS
    <2>1. (m + 1) * MonthLength <= q * MonthLength
        BY MonthsInOrder
    <2> QED  BY <2>1, <1>3, <1>4
<1> QED  BY <1>2, <1>5, <1>6

\* Later instants are in later months, but not in much later ones.
LEMMA MonthsPass ==
    ASSUME NEW x \in Int, NEW y \in Int
    PROVE  /\ x <= y => x \div MonthLength <= y \div MonthLength
           /\ y <= x + MonthLength => y \div MonthLength <= x \div MonthLength + 1
<1>1. MonthLength \in Nat \ {0}
    BY LedgerPartitionsAssumption
<1>2. PICK q \in Int : q = x \div MonthLength
    BY WithinMonth
<1>3. PICK p \in Int : p = y \div MonthLength
    BY WithinMonth
<1>4. /\ q * MonthLength <= x /\ x < (q + 1) * MonthLength
      /\ p * MonthLength <= y /\ y < (p + 1) * MonthLength
    BY <1>2, <1>3, WithinMonth
<1>5. /\ q * MonthLength \in Int /\ (q + 1) * MonthLength \in Int
      /\ (q + 2) * MonthLength = (q + 1) * MonthLength + MonthLength
      /\ p * MonthLength \in Int /\ (p + 1) * MonthLength \in Int
    BY <1>1
<1>6. ASSUME x <= y PROVE q <= p
    <2> SUFFICES ASSUME p + 1 <= q PROVE FALSE
        OBVIOUS
    <2>1. (p + 1) * MonthLength <= q * MonthLength
        BY MonthsInOrder
    <2> QED  BY <2>1, <1>4, <1>5, <1>6
<1>7. ASSUME y <= x + MonthLength PROVE p <= q + 1
    <2> SUFFICES ASSUME q + 2 <= p PROVE FALSE
        OBVIOUS
    <2>1. (q + 2) * MonthLength <= p * MonthLength
        BY MonthsInOrder
    <2> QED  BY <2>1, <1>1, <1>4, <1>5, <1>7
<1> QED  BY <1>2, <1>3, <1>6, <1>7

-----------------------------------------------------------------------------
\* The range of month m.
Bounds(m) == [from |-> m * MonthLength - SessionZone, to |-> (m + 1) * MonthLength - SessionZone]

\* A scheduler that is never down longer than it looks ahead, at most a month
\* ahead, and one timezone for every session (0001_core.sql:322-323).
Punctual ==
    /\ MaxOutage <= Ahead /\ Ahead <= MonthLength
    /\ MigrationZone = SessionZone

\* Every month from the one of the installation to the last one asked for has
\* been made and still is or may go.
PartitionInv ==
    /\ clock \in Nat /\ installed \in Nat /\ installed <= clock
    /\ outage \in 0 .. MaxOutage
    /\ DOMAIN attached \subseteq Int
    /\ attached = [m \in DOMAIN attached |-> Bounds(m)]
    /\ \A m \in detached : m \in Int /\ Bounds(m).to <= clock - Retain
    /\ \A m \in Int :
          /\ MonthAt(installed, SessionZone) <= m
          /\ m <= MonthAt(clock - outage + Ahead, SessionZone)
          => m \in DOMAIN attached \cup detached

\* An instant lies in the range of its month.
LEMMA InItsMonth ==
    ASSUME NEW t \in Int
    PROVE  /\ MonthAt(t, SessionZone) \in Int
           /\ Bounds(MonthAt(t, SessionZone)).from <= t
           /\ t < Bounds(MonthAt(t, SessionZone)).to
<1>1. PICK x \in Int : x = t + SessionZone
    BY LedgerPartitionsAssumption
<1>2. PICK q \in Int : q = x \div MonthLength
    BY WithinMonth
<1>3. q * MonthLength <= x /\ x < (q + 1) * MonthLength
    BY <1>2, WithinMonth
<1>4. MonthAt(t, SessionZone) = q
    BY <1>1, <1>2 DEF MonthAt
<1>5. q * MonthLength \in Int /\ (q + 1) * MonthLength \in Int /\ SessionZone \in Int
    BY LedgerPartitionsAssumption
<1> QED  BY <1>1, <1>3, <1>4, <1>5 DEF Bounds

\* A later instant is in a later month, and one within a month's time in the
\* next month at most.
LEMMA MonthsOfInstants ==
    ASSUME NEW t \in Int, NEW u \in Int
    PROVE  /\ t <= u => MonthAt(t, SessionZone) <= MonthAt(u, SessionZone)
           /\ u <= t + MonthLength => MonthAt(u, SessionZone) <= MonthAt(t, SessionZone) + 1
<1>1. PICK x \in Int, y \in Int : x = t + SessionZone /\ y = u + SessionZone
    BY LedgerPartitionsAssumption
<1>2. MonthLength \in Nat \ {0}
    BY LedgerPartitionsAssumption
<1>3. SessionZone \in Int
    BY LedgerPartitionsAssumption
<1> QED  BY <1>1, <1>2, <1>3, MonthsPass DEF MonthAt

\* Different months do not overlap.
LEMMA MonthsApart ==
    ASSUME NEW k \in Int, NEW m \in Int, Overlap(Bounds(k), Bounds(m))
    PROVE  k = m
<1>1. /\ k * MonthLength \in Int /\ (k + 1) * MonthLength \in Int
      /\ m * MonthLength \in Int /\ (m + 1) * MonthLength \in Int
      /\ SessionZone \in Int
    BY LedgerPartitionsAssumption
<1>2. /\ k * MonthLength < (m + 1) * MonthLength
      /\ m * MonthLength < (k + 1) * MonthLength
    BY <1>1 DEF Overlap, Bounds
<1>3. ~ k + 1 <= m
    <2> SUFFICES ASSUME k + 1 <= m PROVE FALSE
        OBVIOUS
    <2>1. (k + 1) * MonthLength <= m * MonthLength
        BY MonthsInOrder
    <2> QED  BY <2>1, <1>1, <1>2
<1>4. ~ m + 1 <= k
    <2> SUFFICES ASSUME m + 1 <= k PROVE FALSE
        OBVIOUS
    <2>1. (m + 1) * MonthLength <= k * MonthLength
        BY MonthsInOrder
    <2> QED  BY <2>1, <1>1, <1>2
<1> QED  BY <1>3, <1>4

\* What lumi_ensure_ledger_partition leaves: the partitions there were and
\* the month it was asked for (0001_core.sql:302-320).
LEMMA EnsuredMonth ==
    ASSUME NEW parts, DOMAIN parts \subseteq Int,
           parts = [k \in DOMAIN parts |-> Bounds(k)],
           NEW t \in Int, MonthAt(t, SessionZone) \notin detached
    PROVE  /\ Ensured(parts, t, SessionZone) =
                  [k \in DOMAIN parts \cup {MonthAt(t, SessionZone)} |-> Bounds(k)]
           /\ DOMAIN Ensured(parts, t, SessionZone) =
                  DOMAIN parts \cup {MonthAt(t, SessionZone)}
           /\ MonthAt(t, SessionZone) \in Int
<1>1. PICK m \in Int : m = MonthAt(t, SessionZone)
    BY InItsMonth
<1>2. Span(t, SessionZone) = Bounds(m)
    BY <1>1 DEF Span, Bounds
<1>3. CASE m \in DOMAIN parts
    <2>1. Ensured(parts, t, SessionZone) = parts
        BY <1>1, <1>3 DEF Ensured
    <2>2. DOMAIN parts \cup {m} = DOMAIN parts
        BY <1>3
    <2> QED  BY <1>1, <2>1, <2>2
<1>4. CASE m \notin DOMAIN parts
    <2>1. m \notin DOMAIN parts \cup detached
        BY <1>1, <1>4
    <2>2. \A k \in DOMAIN parts : ~ Overlap(parts[k], Bounds(m))
        <3> SUFFICES ASSUME NEW k \in DOMAIN parts, Overlap(parts[k], Bounds(m)) PROVE FALSE
            OBVIOUS
        <3>1. parts[k] = Bounds(k) /\ k \in Int
            OBVIOUS
        <3>2. k = m
            BY <3>1, MonthsApart
        <3> QED  BY <3>2, <1>4
    <2>3. Ensured(parts, t, SessionZone) =
              [k \in DOMAIN parts \cup {m} |-> IF k = m THEN Bounds(m) ELSE parts[k]]
        BY <1>1, <1>2, <2>1, <2>2 DEF Ensured
    <2>4. \A k \in DOMAIN parts \cup {m} :
              (IF k = m THEN Bounds(m) ELSE parts[k]) = Bounds(k)
        OBVIOUS
    <2>5. Ensured(parts, t, SessionZone) = [k \in DOMAIN parts \cup {m} |-> Bounds(k)]
        BY <2>3, <2>4
    <2> QED  BY <1>1, <2>5
<1> QED  BY <1>3, <1>4

\* A month that is still to come, or that is running, has not been detached.
LEMMA NotYetDetached ==
    ASSUME PartitionInv, NEW t \in Int, clock <= t
    PROVE  MonthAt(t, SessionZone) \notin detached
<1>1. PICK m \in Int : m = MonthAt(t, SessionZone)
    BY InItsMonth
<1>2. t < Bounds(m).to
    BY <1>1, InItsMonth
<1>3. Bounds(m).to \in Int
    BY LedgerPartitionsAssumption DEF Bounds
<1>4. clock \in Nat /\ Retain \in Nat
    BY LedgerPartitionsAssumption DEF PartitionInv
<1>5. ~ Bounds(m).to <= clock - Retain
    BY <1>2, <1>3, <1>4
<1> QED  BY <1>1, <1>5 DEF PartitionInv

\* What the scheduler leaves attached: what there was and the months of now
\* and of now + 7 days.
LEMMA Scheduled ==
    ASSUME PartitionInv, Schedule
    PROVE  /\ attached' = [k \in DOMAIN attached' |-> Bounds(k)]
           /\ DOMAIN attached' = DOMAIN attached \cup
                  {MonthAt(clock, SessionZone), MonthAt(clock + Ahead, SessionZone)}
           /\ DOMAIN attached' \subseteq Int
<1>1. clock \in Int /\ clock + Ahead \in Int /\ clock <= clock + Ahead
    BY LedgerPartitionsAssumption DEF PartitionInv
<1>2. MonthAt(clock, SessionZone) \notin detached /\ MonthAt(clock + Ahead, SessionZone) \notin detached
    BY <1>1, NotYetDetached
<1> DEFINE first == Ensured(attached, clock, SessionZone)
<1>3. /\ first = [k \in DOMAIN attached \cup {MonthAt(clock, SessionZone)} |-> Bounds(k)]
      /\ DOMAIN first = DOMAIN attached \cup {MonthAt(clock, SessionZone)}
      /\ MonthAt(clock, SessionZone) \in Int
    BY <1>1, <1>2, EnsuredMonth DEF PartitionInv
<1>4. attached' = Ensured(first, clock + Ahead, SessionZone)
    BY DEF Schedule
<1> HIDE DEF first
<1>5. DOMAIN first \subseteq Int /\ first = [k \in DOMAIN first |-> Bounds(k)]
    BY <1>3 DEF PartitionInv
<1>6. /\ attached' = [k \in DOMAIN first \cup {MonthAt(clock + Ahead, SessionZone)} |-> Bounds(k)]
      /\ MonthAt(clock + Ahead, SessionZone) \in Int
    BY <1>1, <1>2, <1>4, <1>5, EnsuredMonth
<1> QED  BY <1>3, <1>5, <1>6

LEMMA BootstrapInv == Punctual /\ Bootstrap => PartitionInv
<1> SUFFICES ASSUME Punctual, Bootstrap PROVE PartitionInv
    OBVIOUS
<1>1. clock \in Nat /\ installed = clock /\ outage = 0 /\ detached = {}
    BY LedgerPartitionsAssumption DEF Bootstrap
<1>2. PICK m \in Int : m = MonthAt(clock, SessionZone)
    BY <1>1, InItsMonth
<1>3. attached = [k \in {m, m + 1} |-> Span(k * MonthLength - SessionZone, SessionZone)]
    BY <1>2 DEF Bootstrap, Punctual
<1>4. ASSUME NEW k \in Int PROVE Span(k * MonthLength - SessionZone, SessionZone) = Bounds(k)
    <2>1. /\ SessionZone \in Int /\ MonthLength \in Nat \ {0}
          /\ k * MonthLength \in Int /\ (k + 1) * MonthLength = k * MonthLength + MonthLength
        BY LedgerPartitionsAssumption
    <2>2. k * MonthLength - SessionZone + SessionZone = k * MonthLength
        BY <2>1
    <2>3. PICK x \in Int : x = k * MonthLength
        BY <2>1
    <2>4. x \div MonthLength = k
        BY <2>1, <2>3, MonthIs
    <2>5. MonthAt(k * MonthLength - SessionZone, SessionZone) = k
        BY <2>2, <2>3, <2>4 DEF MonthAt
    <2> QED  BY <2>5 DEF Span, Bounds
<1>5. DOMAIN attached = {m, m + 1} /\ attached = [k \in {m, m + 1} |-> Bounds(k)]
    BY <1>3, <1>4
<1>6. MonthAt(clock - outage + Ahead, SessionZone) <= m + 1
    <2>1. /\ clock \in Int /\ clock - outage + Ahead \in Int
          /\ clock - outage + Ahead <= clock + MonthLength
        BY <1>1, LedgerPartitionsAssumption DEF Punctual
    <2> QED  BY <1>2, <2>1, MonthsOfInstants
<1>7. MonthAt(clock - outage + Ahead, SessionZone) \in Int
    <2>1. clock - outage + Ahead \in Int
        BY <1>1, LedgerPartitionsAssumption
    <2> QED  BY <2>1, InItsMonth
<1>8. \A k \in Int :
          /\ MonthAt(installed, SessionZone) <= k
          /\ k <= MonthAt(clock - outage + Ahead, SessionZone)
          => k \in DOMAIN attached \cup detached
    BY <1>1, <1>2, <1>5, <1>6, <1>7
<1>9. outage \in 0 .. MaxOutage
    BY <1>1, LedgerPartitionsAssumption
<1> QED  BY <1>1, <1>5, <1>8, <1>9 DEF PartitionInv

LEMMA PartitionStep == Punctual /\ PartitionInv /\ [PartitionNext]_partitionVars => PartitionInv'
<1> SUFFICES ASSUME Punctual, PartitionInv, [PartitionNext]_partitionVars PROVE PartitionInv'
    OBVIOUS
<1>1. /\ clock \in Nat /\ installed \in Nat /\ installed <= clock
      /\ outage \in 0 .. MaxOutage /\ MaxOutage \in Nat /\ Ahead \in Nat /\ Retain \in Nat
      /\ MonthLength \in Nat \ {0} /\ MaxOutage <= Ahead /\ Ahead <= MonthLength
    BY LedgerPartitionsAssumption DEF PartitionInv, Punctual
<1>2. CASE Elapse
    <2>1. /\ clock' = clock + 1 /\ outage' = outage + 1 /\ outage < MaxOutage
          /\ installed' = installed /\ attached' = attached /\ detached' = detached
        BY <1>2 DEF Elapse
    <2>2. clock' - outage' + Ahead = clock - outage + Ahead
        BY <1>1, <2>1
    <2>3. \A m \in Int : Bounds(m).to \in Int
        BY LedgerPartitionsAssumption DEF Bounds
    <2>4. \A m \in detached' : m \in Int /\ Bounds(m).to <= clock' - Retain
        BY <1>1, <2>1, <2>3 DEF PartitionInv
    <2>5. outage' \in 0 .. MaxOutage /\ clock' \in Nat /\ installed' <= clock'
        BY <1>1, <2>1
    <2> QED  BY <1>1, <2>1, <2>2, <2>4, <2>5 DEF PartitionInv
<1>3. CASE Schedule
    <2>1. clock' = clock /\ outage' = 0 /\ installed' = installed /\ detached' = detached
        BY <1>3 DEF Schedule
    <2>2. PICK p \in Int : p = MonthAt(clock, SessionZone)
        BY <1>1, InItsMonth
    <2>3. clock + Ahead \in Int /\ clock - outage + Ahead \in Int
        BY <1>1
    <2>4. PICK q \in Int : q = MonthAt(clock + Ahead, SessionZone)
        BY <2>3, InItsMonth
    <2>5. PICK l \in Int : l = MonthAt(clock - outage + Ahead, SessionZone)
        BY <2>3, InItsMonth
    <2>6. p <= l
        <3>1. clock <= clock - outage + Ahead
            BY <1>1
        <3> QED  BY <1>1, <2>2, <2>3, <2>5, <3>1, MonthsOfInstants
    <2>7. q <= p + 1
        <3>1. clock + Ahead <= clock + MonthLength
            BY <1>1
        <3> QED  BY <1>1, <2>2, <2>3, <2>4, <3>1, MonthsOfInstants
    <2>8. ASSUME NEW m \in Int, MonthAt(installed, SessionZone) <= m, m <= q
          PROVE  m \in DOMAIN attached' \cup detached'
        <3>1. CASE m <= l
            <4>1. m \in DOMAIN attached \cup detached
                BY <2>5, <2>8, <3>1 DEF PartitionInv
            <4> QED  BY <1>3, <2>1, <4>1, Scheduled
        <3>2. CASE ~ m <= l
            <4>1. m = q
                BY <2>6, <2>7, <2>8, <3>2
            <4> QED  BY <1>3, <2>4, <4>1, Scheduled
        <3> QED  BY <3>1, <3>2
    <2>9. clock' - outage' + Ahead = clock + Ahead
        BY <1>1, <2>1
    <2>10. attached' = [k \in DOMAIN attached' |-> Bounds(k)] /\ DOMAIN attached' \subseteq Int
        BY <1>3, Scheduled
    <2>11. outage' \in 0 .. MaxOutage
        BY <1>1, <2>1
    <2>12. \A m \in Int :
              /\ MonthAt(installed', SessionZone) <= m
              /\ m <= MonthAt(clock' - outage' + Ahead, SessionZone)
              => m \in DOMAIN attached' \cup detached'
        BY <2>1, <2>4, <2>8, <2>9
    <2> QED  BY <1>1, <2>1, <2>10, <2>11, <2>12 DEF PartitionInv
<1>4. CASE Detach
    <2>1. /\ clock' = clock /\ outage' = outage /\ installed' = installed
          /\ attached' = [m \in DOMAIN attached \ Expired |-> attached[m]]
          /\ detached' = detached \cup Expired
        BY <1>4 DEF Detach
    <2>2. Expired \subseteq DOMAIN attached /\ DOMAIN attached \subseteq Int
        BY DEF Expired, PartitionInv
    <2>3. DOMAIN attached' = DOMAIN attached \ Expired
        BY <2>1
    <2>4. \A m \in DOMAIN attached : attached[m] = Bounds(m)
        BY DEF PartitionInv
    <2>5. attached' = [m \in DOMAIN attached' |-> Bounds(m)]
        BY <2>1, <2>3, <2>4
    <2>6. \A m \in detached' : m \in Int /\ Bounds(m).to <= clock - Retain
        BY <2>1, <2>2, <2>4 DEF PartitionInv, Expired
    <2>7. DOMAIN attached' \cup detached' = DOMAIN attached \cup detached
        BY <2>1, <2>2, <2>3
    <2>8. DOMAIN attached' \subseteq Int
        BY <2>2, <2>3
    <2> QED  BY <1>1, <2>1, <2>5, <2>6, <2>7, <2>8 DEF PartitionInv
<1>5. CASE UNCHANGED partitionVars
    BY <1>5 DEF partitionVars, PartitionInv
<1> QED  BY <1>2, <1>3, <1>4, <1>5 DEF PartitionNext

\* A row billed now, and one replayed late for any bucket the retention keeps
\* online, finds its partition: for months, retention and foresight of any
\* length (0001_core.sql:289-296, 322-323, 326).
THEOREM RowsHaveAHome ==
    ASSUME Punctual
    PROVE  PartitionSpec => []EveryRowHasAHome
<1>1. PartitionInv => EveryRowHasAHome
    <2> SUFFICES ASSUME PartitionInv, NEW t \in 0 .. clock, t >= installed, t > clock - Retain
                 PROVE  \E m \in DOMAIN attached : attached[m].from <= t /\ t < attached[m].to
        BY DEF EveryRowHasAHome
    <2>1. /\ clock \in Nat /\ installed \in Nat /\ t \in Nat /\ Retain \in Nat
          /\ outage \in 0 .. MaxOutage /\ MaxOutage \in Nat /\ Ahead \in Nat /\ MaxOutage <= Ahead
        BY LedgerPartitionsAssumption DEF PartitionInv, Punctual
    <2>2. PICK m \in Int : m = MonthAt(t, SessionZone)
        BY <2>1, InItsMonth
    <2>3. Bounds(m).from <= t /\ t < Bounds(m).to
        BY <2>1, <2>2, InItsMonth
    <2>4. MonthAt(installed, SessionZone) <= m
        BY <2>1, <2>2, MonthsOfInstants
    <2>5. m <= MonthAt(clock - outage + Ahead, SessionZone)
        <3>1. clock - outage + Ahead \in Int /\ t <= clock - outage + Ahead
            BY <2>1
        <3> QED  BY <2>1, <2>2, <3>1, MonthsOfInstants
    <2>6. m \notin detached
        <3>1. Bounds(m).to \in Int
            BY LedgerPartitionsAssumption DEF Bounds
        <3>2. ~ Bounds(m).to <= clock - Retain
            BY <2>1, <2>3, <3>1
        <3> QED  BY <3>2 DEF PartitionInv
    <2>7. m \in DOMAIN attached /\ attached[m] = Bounds(m)
        BY <2>4, <2>5, <2>6 DEF PartitionInv
    <2> QED  BY <2>3, <2>7
<1> QED  BY <1>1, BootstrapInv, PartitionStep, PTL DEF PartitionSpec

\* What the scheduler is told is there is attached when it returns, whatever
\* has been detached before (0001_core.sql:310-312).
THEOREM ReportedIsAttached ==
    ASSUME Punctual
    PROVE  PartitionSpec => ReportedMeansAttached
<1>1. PartitionInv /\ [PartitionNext]_partitionVars =>
          [Schedule => {MonthAt(clock, SessionZone), MonthAt(clock + Ahead, SessionZone)}
                           \subseteq DOMAIN attached']_partitionVars
    BY Scheduled
<1> QED  BY <1>1, BootstrapInv, PartitionStep, PTL DEF PartitionSpec, ReportedMeansAttached

-----------------------------------------------------------------------------
(***************************************************************************)
(* Membership.  Values are kept in units of 1/Common, so a day is worth    *)
(* price * (Common / period) exactly, and a price divided by its period    *)
(* and rounded can be compared with it.                                    *)
(***************************************************************************)

\* The larger of two numbers (the built-in max).
LEMMA MaxOfTwo ==
    ASSUME NEW a \in Int, NEW b \in Int
    PROVE  Max({a, b}) = IF a >= b THEN a ELSE b
<1> DEFINE m == IF a >= b THEN a ELSE b
<1>1. m \in {a, b} /\ \A y \in {a, b} : m >= y
    OBVIOUS
<1>2. \A x \in {a, b} : (\A y \in {a, b} : x >= y) => x = m
    OBVIOUS
<1> HIDE DEF m
<1>3. \E x \in {a, b} : \A y \in {a, b} : x >= y
    BY <1>1
<1>4. Max({a, b}) \in {a, b} /\ \A y \in {a, b} : Max({a, b}) >= y
    BY <1>3 DEF Max
<1>5. Max({a, b}) = m
    BY <1>2, <1>4
<1> QED  BY <1>5 DEF m

\* floorDiv and ceilDiv are the whole numbers next to the quotient (plan.go:
\* 150-164).
LEMMA RoundedDivision ==
    ASSUME NEW a \in Nat, NEW b \in Nat \ {0}
    PROVE  /\ floorDiv(a, b) \in Nat /\ ceilDiv(a, b) \in Nat
           /\ floorDiv(a, b) * b <= a /\ a < floorDiv(a, b) * b + b
           /\ a <= ceilDiv(a, b) * b /\ ceilDiv(a, b) * b < a + b
<1>1. PICK q \in Int, r \in 0 .. b - 1 : a = b * q + r /\ q = a \div b
    <2>1. /\ a \div b \in Int /\ a % b \in 0 .. b - 1
          /\ a = b * (a \div b) + (a % b)
        OBVIOUS
    <2> QED  BY <2>1
<1>2. PICK p \in Int, s \in 0 .. b - 1 : -a = b * p + s /\ p = (-a) \div b
    <2>1. PICK c \in Int : c = -a
        OBVIOUS
    <2>2. /\ c \div b \in Int /\ c % b \in 0 .. b - 1
          /\ c = b * (c \div b) + (c % b)
        OBVIOUS
    <2> QED  BY <2>1, <2>2
<1>3. q \in Nat /\ q * b = b * q
    <2>1. a \div b \in Nat
        OBVIOUS
    <2> QED  BY <1>1, <2>1
<1>4. /\ floorDiv(a, b) \in Nat /\ floorDiv(a, b) * b <= a /\ a < floorDiv(a, b) * b + b
    BY <1>1, <1>3 DEF floorDiv
<1>5. ceilDiv(a, b) = -p /\ (-p) * b = -(b * p) /\ b * p \in Int
    BY <1>2 DEF ceilDiv
<1>6. -p \in Nat
    <2>1. PICK k \in Int : k = -p
        OBVIOUS
    <2>2. k * b = -(b * p)
        BY <2>1, <1>5
    <2>3. k * b >= 0
        BY <1>2, <1>5, <2>2
    <2>4. ASSUME k < 0 PROVE FALSE
        <3>1. PICK n \in Nat : k = -1 - n
            <4>1. -1 - k \in Nat /\ k = -1 - (-1 - k)
                BY <2>4
            <4> QED  BY <4>1
        <3>2. k * b = -b - n * b /\ n * b \in Nat
            BY <3>1
        <3> QED  BY <2>3, <3>2
    <2> QED  BY <2>1, <2>4
<1> QED  BY <1>2, <1>4, <1>5, <1>6

\* A rounded price against the exact value of the days it is for: at most one
\* minor unit below or above it.
LEMMA RoundedPrice ==
    ASSUME NEW p \in Plans, p.PeriodDays > 0, NEW n \in Nat
    PROVE  /\ n * DayValue(p) \in Nat
           /\ floorDiv(p.Price * n, p.PeriodDays) * Common <= n * DayValue(p)
           /\ n * DayValue(p) <= floorDiv(p.Price * n, p.PeriodDays) * Common + Common
           /\ n * DayValue(p) <= ceilDiv(p.Price * n, p.PeriodDays) * Common
           /\ ceilDiv(p.Price * n, p.PeriodDays) * Common <= n * DayValue(p) + Common
           /\ floorDiv(p.Price * n, p.PeriodDays) \in Nat
           /\ ceilDiv(p.Price * n, p.PeriodDays) \in Nat
<1>1. PICK b \in Nat \ {0}, c \in Nat : b = p.PeriodDays /\ c = p.Price
    BY MembershipAssumption DEF PlanSnapshot
<1>2. PICK k \in Nat : Common = b * k /\ k = Common \div b
    <2>1. Common \in Nat /\ Common % b = 0
        BY <1>1, MembershipAssumption
    <2>2. Common = b * (Common \div b) + (Common % b) /\ Common \div b \in Nat
        BY <2>1
    <2> QED  BY <2>1, <2>2
<1>3. DayValue(p) = c * k
    BY <1>1, <1>2 DEF DayValue
<1>4. PICK a \in Nat : a = c * n
    OBVIOUS
<1>5. PICK f \in Nat : f = floorDiv(a, b)
    BY RoundedDivision
<1>6. PICK g \in Nat : g = ceilDiv(a, b)
    BY RoundedDivision
<1>7. f * b <= a /\ a < f * b + b /\ a <= g * b /\ g * b < a + b
    BY <1>5, <1>6, RoundedDivision
<1>8. n * DayValue(p) = a * k /\ a * k \in Nat
    <2>1. n * (c * k) = (c * n) * k
        OBVIOUS
    <2> QED  BY <1>3, <1>4, <2>1
<1>9. f * Common = (f * b) * k /\ g * Common = (g * b) * k /\ Common = b * k
    <2>1. f * (b * k) = (f * b) * k /\ g * (b * k) = (g * b) * k
        OBVIOUS
    <2> QED  BY <1>2, <2>1
<1>10. f * b \in Nat /\ g * b \in Nat
    OBVIOUS
<1>11. PICK x \in Nat, y \in Nat : x = f * b /\ y = g * b
    BY <1>10
<1>12. x * k <= a * k
    <2>1. x <= a /\ k <= k
        BY <1>7, <1>11
    <2> QED  BY <2>1, ProductBound
<1>13. a * k <= x * k + b * k
    <2>1. a <= x + b /\ k <= k /\ x + b \in Nat
        BY <1>7, <1>11
    <2>2. a * k <= (x + b) * k
        BY <2>1, ProductBound
    <2>3. (x + b) * k = x * k + b * k
        OBVIOUS
    <2> QED  BY <2>2, <2>3
<1>14. a * k <= y * k
    <2>1. a <= y /\ k <= k
        BY <1>7, <1>11
    <2> QED  BY <2>1, ProductBound
<1>15. y * k <= a * k + b * k
    <2>1. y <= a + b /\ k <= k /\ a + b \in Nat
        BY <1>7, <1>11
    <2>2. y * k <= (a + b) * k
        BY <2>1, ProductBound
    <2>3. (a + b) * k = a * k + b * k
        OBVIOUS
    <2> QED  BY <2>2, <2>3
<1>16. floorDiv(p.Price * n, p.PeriodDays) = f /\ ceilDiv(p.Price * n, p.PeriodDays) = g
    BY <1>1, <1>4, <1>5, <1>6
<1>17. f * Common <= a * k /\ a * k <= f * Common + Common
    BY <1>9, <1>11, <1>12, <1>13
<1>18. a * k <= g * Common /\ g * Common <= a * k + Common
    BY <1>9, <1>11, <1>14, <1>15
<1> QED  BY <1>8, <1>16, <1>17, <1>18

-----------------------------------------------------------------------------
\* A period of a plan is worth its price.
LEMMA PeriodValue ==
    ASSUME NEW p \in Saleable
    PROVE  p.PeriodDays * DayValue(p) = p.Price * Common /\ DayValue(p) \in Nat
<1>1. PICK b \in Nat \ {0}, c \in Nat : b = p.PeriodDays /\ c = p.Price
    BY MembershipAssumption DEF PlanSnapshot, Saleable
<1>2. PICK k \in Nat : Common = b * k /\ k = Common \div b
    <2>1. Common \in Nat /\ Common % b = 0
        BY <1>1, MembershipAssumption DEF Saleable
    <2>2. Common = b * (Common \div b) + (Common % b) /\ Common \div b \in Nat
        BY <2>1
    <2> QED  BY <2>1, <2>2
<1>3. DayValue(p) = c * k
    BY <1>1, <1>2 DEF DayValue
<1>4. b * (c * k) = c * (b * k)
    OBVIOUS
<1> QED  BY <1>1, <1>2, <1>3, <1>4

\* Dates are whole numbers, in the order of the instants (plan.go:126-148).
LEMMA DatesInOrder ==
    ASSUME NEW t \in Int, NEW u \in Int
    PROVE  /\ DateOf(t) \in Int /\ DateOf(u) \in Int
           /\ t <= u => DateOf(t) <= DateOf(u)
<1>1. PICK d \in Nat \ {0} : d = DayLength
    BY PlanChangeAssumption
<1>2. PICK x \in Int, y \in Int : x = t + UTCOffset /\ y = u + UTCOffset
    BY PlanChangeAssumption
<1>3. PICK q \in Int, r \in 0 .. d - 1 : x = d * q + r /\ q = x \div d
    <2>1. x \div d \in Int /\ x % d \in 0 .. d - 1 /\ x = d * (x \div d) + (x % d)
        OBVIOUS
    <2> QED  BY <2>1
<1>4. PICK p \in Int, s \in 0 .. d - 1 : y = d * p + s /\ p = y \div d
    <2>1. y \div d \in Int /\ y % d \in 0 .. d - 1 /\ y = d * (y \div d) + (y % d)
        OBVIOUS
    <2> QED  BY <2>1
<1>5. DateOf(t) = q /\ DateOf(u) = p
    BY <1>1, <1>2, <1>3, <1>4 DEF DateOf
<1>6. ASSUME t <= u PROVE q <= p
    <2> SUFFICES ASSUME p + 1 <= q PROVE FALSE
        BY <1>3, <1>4
    <2>1. PICK k \in Nat : q = p + 1 + k
        <3>1. q - p - 1 \in Nat /\ q = p + 1 + (q - p - 1)
            OBVIOUS
        <3> QED  BY <3>1
    <2>2. d * q = d * p + d + d * k /\ d * k \in Nat /\ d * p \in Int
        BY <2>1
    <2>3. x <= y
        BY <1>2, <1>6, PlanChangeAssumption
    <2>4. x >= d * p + d /\ y < d * p + d
        BY <1>3, <1>4, <2>2
    <2> QED  BY <2>3, <2>4, <2>2
<1> QED  BY <1>5, <1>6

\* n days later is n dates later.
LEMMA DaysLater ==
    ASSUME NEW t \in Int, NEW n \in Int
    PROVE  /\ AddDays(t, n) \in Int
           /\ DateOf(AddDays(t, n)) = DateOf(t) + n
<1>1. PICK d \in Nat \ {0} : d = DayLength
    BY PlanChangeAssumption
<1>2. PICK x \in Int : x = t + UTCOffset
    BY PlanChangeAssumption
<1>3. PICK q \in Int, r \in 0 .. d - 1 : x = d * q + r /\ q = x \div d
    <2>1. x \div d \in Int /\ x % d \in 0 .. d - 1 /\ x = d * (x \div d) + (x % d)
        OBVIOUS
    <2> QED  BY <2>1
<1>4. DateOf(t) = q
    BY <1>1, <1>2, <1>3 DEF DateOf
<1>5. PICK e \in Int : e = n * d
    OBVIOUS
<1>6. AddDays(t, n) = t + e
    BY <1>1, <1>5 DEF AddDays
<1>7. PICK m \in Int : m = q + n
    OBVIOUS
<1>8. x + e = d * m + r
    <2>1. d * m = d * q + d * n
        BY <1>7
    <2>2. n * d = d * n
        OBVIOUS
    <2>3. PICK g \in Int, h \in Int : g = d * q /\ h = d * n
        OBVIOUS
    <2>4. d * m = g + h /\ e = h /\ x = g + r
        BY <1>3, <1>5, <2>1, <2>2, <2>3
    <2> QED  BY <2>3, <2>4
<1>9. (d * m + r) \div d = m
    OBVIOUS
<1>10. t + e + UTCOffset = x + e
    BY <1>2, PlanChangeAssumption
<1>11. DateOf(t + e) = m
    BY <1>1, <1>8, <1>9, <1>10 DEF DateOf
<1> QED  BY <1>4, <1>6, <1>7, <1>11

\* The days left, without the max.
LEMMA DaysLeft ==
    ASSUME NEW t \in Int, NEW u \in Int
    PROVE  /\ RemainingDays(t, u) \in Nat
           /\ RemainingDays(t, u) = IF DateOf(u) >= DateOf(t) THEN DateOf(u) - DateOf(t) ELSE 0
<1>1. PICK d \in Int : d = DateOf(u) - DateOf(t)
    <2>1. DateOf(u) \in Int /\ DateOf(t) \in Int
        BY DatesInOrder
    <2> QED  BY <2>1
<1>2. Max({0, d}) = IF 0 >= d THEN 0 ELSE d
    BY MaxOfTwo
<1>3. DateOf(t) \in Int /\ DateOf(u) \in Int
    BY DatesInOrder
<1> QED  BY <1>1, <1>2, <1>3 DEF RemainingDays

\* Starting over buys the whole period, and stacking adds one to what is left
\* of a subscription, a lapsed one included.
LEMMA DaysBought ==
    ASSUME NEW t \in Int, NEW u \in Int, NEW n \in Nat
    PROVE  /\ RemainingDays(t, AddDays(t, n)) = n
           /\ RemainingDays(t, AddDays(Max({u, t}), n)) = RemainingDays(t, u) + n
           /\ AddDays(t, n) \in Int /\ AddDays(Max({u, t}), n) \in Int
<1>1. Max({u, t}) = IF u >= t THEN u ELSE t
    BY MaxOfTwo
<1>2. PICK m \in Int : m = Max({u, t}) /\ m = IF u >= t THEN u ELSE t
    <2>1. Max({u, t}) \in Int
        BY <1>1
    <2> QED  BY <1>1, <2>1
<1>3. PICK a \in Int, b \in Int : a = AddDays(t, n) /\ b = AddDays(m, n)
    <2>1. AddDays(t, n) \in Int /\ AddDays(m, n) \in Int
        BY DaysLater
    <2> QED  BY <2>1
<1>4. PICK x \in Int, y \in Int, z \in Int : x = DateOf(t) /\ y = DateOf(u) /\ z = DateOf(m)
    <2>1. DateOf(t) \in Int /\ DateOf(u) \in Int /\ DateOf(m) \in Int
        BY DatesInOrder
    <2> QED  BY <2>1
<1>5. DateOf(a) = x + n /\ DateOf(b) = z + n
    BY <1>3, <1>4, DaysLater
<1>6. u >= t => y >= x
    BY <1>4, DatesInOrder
<1>7. u < t => y <= x
    BY <1>4, DatesInOrder
<1>8. RemainingDays(t, a) = n
    BY <1>4, <1>5, DaysLeft
<1>9. RemainingDays(t, u) = IF y >= x THEN y - x ELSE 0
    BY <1>4, DaysLeft
<1>10. RemainingDays(t, b) = IF z + n >= x THEN z + n - x ELSE 0
    <2>1. PICK w \in Int : w = z + n
        OBVIOUS
    <2>2. DateOf(b) = w /\ DateOf(t) = x
        BY <1>4, <1>5, <2>1
    <2>3. RemainingDays(t, b) = IF w >= x THEN w - x ELSE 0
        BY <2>2, DaysLeft
    <2> QED  BY <2>1, <2>3
<1>11. z = IF u >= t THEN y ELSE x
    BY <1>2, <1>4
<1> QED  BY <1>2, <1>3, <1>6, <1>7, <1>8, <1>9, <1>10, <1>11

\* What the days ahead are worth is a natural number.
LEMMA WorthIsNatural ==
    ASSUME NEW s, s.ExpiredAt \in Int \cup {Permanent}, NEW p \in Saleable, NEW t \in Int
    PROVE  Worth(s, p, t) \in Nat
<1>1. CASE s.ExpiredAt = Permanent
    BY <1>1 DEF Worth
<1>2. CASE s.ExpiredAt # Permanent
    <2>1. RemainingDays(t, s.ExpiredAt) \in Nat
        BY <1>2, DaysLeft
    <2>2. DayValue(p) \in Nat
        BY PeriodValue
    <2>3. PICK a \in Nat, b \in Nat : a = RemainingDays(t, s.ExpiredAt) /\ b = DayValue(p)
        BY <2>1, <2>2
    <2> QED  BY <1>2, <2>3 DEF Worth
<1> QED  BY <1>1, <1>2

\* ApplyChange either refuses or applies its policy to a plan with a period
\* (plan.go:166-276).
LEMMA Applied ==
    ASSUME NEW pol, NEW old, NEW new \in Plans, NEW current, NEW t,
           ~ Refused(ApplyChange(pol, old, new, current, t))
    PROVE  /\ new \in Saleable
           /\ \/ /\ pol = "deny" /\ ~ Denied(current, t)
                 /\ ApplyChange(pol, old, new, current, t) = StartOver(new, t)
              \/ /\ pol = "reset"
                 /\ ApplyChange(pol, old, new, current, t) = StartOver(new, t)
              \/ /\ pol = "stack"
                 /\ ApplyChange(pol, old, new, current, t) = Stacked(current, new, t)
              \/ /\ pol = "prorate" /\ current.ExpiredAt # Permanent
                 /\ ApplyChange(pol, old, new, current, t) = Prorated(old, current, new, t)
<1>1. new.PeriodDays \in Int
    BY MembershipAssumption DEF PlanSnapshot
<1>2. \A e : Refused(ChangeError(e))
    BY DEF Refused, ChangeError
<1>3. ~ new.PeriodDays <= 0
    BY <1>1, <1>2 DEF ApplyChange
<1>4. new \in Saleable
    BY <1>1, <1>3 DEF Saleable
<1>5. CASE pol = "deny"
    BY <1>1, <1>2, <1>3, <1>4, <1>5 DEF ApplyChange
<1>6. CASE pol = "reset"
    BY <1>1, <1>2, <1>3, <1>4, <1>6 DEF ApplyChange
<1>7. CASE pol = "stack"
    BY <1>1, <1>2, <1>3, <1>4, <1>7 DEF ApplyChange
<1>8. CASE pol = "prorate"
    BY <1>1, <1>2, <1>3, <1>4, <1>8 DEF ApplyChange
<1>9. CASE pol \notin {"deny", "reset", "stack", "prorate"}
    BY <1>1, <1>2, <1>3, <1>9 DEF ApplyChange
<1> QED  BY <1>5, <1>6, <1>7, <1>8, <1>9

-----------------------------------------------------------------------------
\* The row and the books, and the two bounds on them.
MemberInv ==
    /\ now \in Nat
    /\ plan \in Saleable
    /\ sub \in LiveSubscription
    /\ paid \in Int /\ consumed \in Int /\ forfeited \in Int /\ prorated \in Nat
    /\ paid * Common <= Received
    /\ Received <= paid * Common + 2 * Common * prorated

\* Both bounds survive a change that raises what was received by what was
\* paid, give or take what a proration may round away.
LEMMA BooksBalance ==
    ASSUME MemberInv, paid' \in Int, consumed' \in Int, forfeited' \in Int,
           now' \in Nat, plan' \in Saleable, sub' \in LiveSubscription,
           NEW r \in {0, 1}, prorated' = prorated + r,
           NEW d \in Int, paid' = paid + d,
           NEW w \in Int, Received' = Received + w,
           d * Common <= w, w <= d * Common + 2 * Common * r
    PROVE  MemberInv'
<1>1. PICK c \in Nat : c = Common
    BY MembershipAssumption
<1>2. PICK p \in Int, x \in Nat : p = paid /\ x = prorated
    BY DEF MemberInv
<1>3. Received \in Int
    <2>1. Worth(sub, plan, now) \in Nat
        BY WorthIsNatural DEF MemberInv, LiveSubscription
    <2> QED  BY <2>1 DEF MemberInv, Received
<1>4. PICK v \in Int : v = Received
    BY <1>3
<1>5. p * c <= v /\ v <= p * c + 2 * c * x
    BY <1>1, <1>2, <1>4 DEF MemberInv
<1>6. (p + d) * c = p * c + d * c /\ 2 * c * (x + r) = 2 * c * x + 2 * c * r
    OBVIOUS
<1>7. PICK i \in Int, j \in Int, k \in Int, l \in Int :
          i = p * c /\ j = d * c /\ k = 2 * c * x /\ l = 2 * c * r
    OBVIOUS
<1>8. i <= v /\ v <= i + k /\ j <= w /\ w <= j + l
    BY <1>1, <1>5, <1>7
<1>9. (p + d) * c <= v + w /\ v + w <= (p + d) * c + 2 * c * (x + r)
    BY <1>6, <1>7, <1>8
<1>10. prorated' \in Nat
    BY <1>2
<1>11. paid' = p + d /\ prorated' = x + r /\ Received' = v + w
    BY <1>2, <1>4
<1> QED  BY <1>1, <1>9, <1>10, <1>11 DEF MemberInv

LEMMA MemberInit == Init => MemberInv
<1> SUFFICES ASSUME Init PROVE MemberInv
    OBVIOUS
<1>1. /\ now = 0 /\ prorated = 0 /\ consumed = 0 /\ forfeited = 0 /\ plan \in Saleable
    BY DEF Init
<1>2. /\ plan.PeriodDays \in Nat /\ plan.Price \in Nat /\ plan.TransferBytes \in Nat
      /\ Common \in Nat
    BY <1>1, MembershipAssumption DEF Saleable, PlanSnapshot
<1>3. AddDays(0, plan.PeriodDays) \in Int /\ RemainingDays(0, AddDays(0, plan.PeriodDays)) = plan.PeriodDays
    <2>1. PICK n \in Nat, z \in Int : n = plan.PeriodDays /\ z = 0
        BY <1>2
    <2>2. AddDays(z, n) \in Int /\ RemainingDays(z, AddDays(z, n)) = n
        BY DaysBought
    <2> QED  BY <2>1, <2>2
<1>4. paid * Common \in Int /\ paid \in Int
    BY <1>2 DEF Init
<1>5. CASE sub = Bought(plan, AddDays(0, plan.PeriodDays)) /\ paid = plan.Price
    <2>1. sub \in LiveSubscription /\ sub.ExpiredAt = AddDays(0, plan.PeriodDays)
        BY <1>2, <1>3, <1>5 DEF Bought, LiveSubscription
    <2>2. sub.ExpiredAt # Permanent
        BY <1>3, <2>1, PlanChangeAssumption
    <2>3. RemainingDays(0, sub.ExpiredAt) = plan.PeriodDays
        BY <1>3, <2>1
    <2>4. Worth(sub, plan, 0) = plan.Price * Common
        BY <1>1, <2>2, <2>3, PeriodValue DEF Worth
    <2>5. Received = paid * Common
        BY <1>1, <1>2, <1>4, <1>5, <2>4 DEF Received
    <2>6. 2 * Common * prorated = 0
        BY <1>1, <1>2
    <2> QED  BY <1>1, <1>4, <2>1, <2>5, <2>6 DEF MemberInv
<1>6. CASE sub = Bought(plan, Permanent) /\ paid = 0
    <2>1. sub \in LiveSubscription /\ sub.ExpiredAt = Permanent
        BY <1>2, <1>6 DEF Bought, LiveSubscription
    <2>2. Received = 0
        BY <1>1, <2>1 DEF Received, Worth
    <2>3. paid * Common = 0 /\ 2 * Common * prorated = 0
        BY <1>1, <1>2, <1>6
    <2> QED  BY <1>1, <1>4, <2>1, <2>2, <2>3 DEF MemberInv
<1> QED  BY <1>5, <1>6 DEF Init

\* What a proration charges or credits, against the days it exchanges.
LEMMA ProrationIsFair ==
    ASSUME NEW old \in Saleable, NEW new \in Saleable, NEW n \in Nat
    PROVE  /\ PriceDifference(old, new, n) \in Int
           /\ PriceDifference(old, new, n) * Common
                  <= n * DayValue(new) - n * DayValue(old)
           /\ n * DayValue(new) - n * DayValue(old)
                  <= PriceDifference(old, new, n) * Common + 2 * Common
<1>1. old \in Plans /\ old.PeriodDays > 0 /\ new \in Plans /\ new.PeriodDays > 0
    BY DEF Saleable
<1>2. PICK f \in Nat : f = floorDiv(new.Price * n, new.PeriodDays)
    BY <1>1, RoundedPrice
<1>3. PICK g \in Nat : g = ceilDiv(old.Price * n, old.PeriodDays)
    BY <1>1, RoundedPrice
<1>4. PriceDifference(old, new, n) = f - g
    BY <1>2, <1>3 DEF PriceDifference
<1>5. PICK c \in Nat : c = Common
    BY MembershipAssumption
<1>6. PICK a \in Nat, b \in Nat : a = n * DayValue(new) /\ b = n * DayValue(old)
    BY <1>1, RoundedPrice
<1>7. f * c <= a /\ a <= f * c + c
    BY <1>1, <1>2, <1>5, <1>6, RoundedPrice
<1>8. b <= g * c /\ g * c <= b + c
    BY <1>1, <1>3, <1>5, <1>6, RoundedPrice
<1>9. (f - g) * c = f * c - g * c
    OBVIOUS
<1>10. PICK x \in Int, y \in Int : x = f * c /\ y = g * c
    OBVIOUS
<1>11. (f - g) * c <= a - b /\ a - b <= (f - g) * c + 2 * c
    BY <1>7, <1>8, <1>9, <1>10
<1> QED  BY <1>4, <1>5, <1>6, <1>11

\* A proration leaves the expiry where it is, and the difference is charged
\* or credited, never both (plan.go:233-267).
LEMMA ProrationOutcome ==
    ASSUME NEW old \in Saleable, NEW new \in Saleable,
           NEW current \in LiveSubscription, current.ExpiredAt # Permanent, NEW t \in Int
    PROVE  LET out == Prorated(old, current, new, t)
               n == RemainingDays(t, current.ExpiredAt)
           IN  /\ n \in Nat
               /\ out.ExpiredAt = current.ExpiredAt
               /\ out.TransferBytes \in Nat /\ out.UsedBytes = 0
               /\ out.Charge - out.Credit = PriceDifference(old, new, n)
<1>1. current.ExpiredAt \in Int
    BY DEF LiveSubscription
<1>2. PICK n \in Nat : n = RemainingDays(t, current.ExpiredAt)
    BY <1>1, DaysLeft
<1>3. PICK diff \in Int : diff = PriceDifference(old, new, n)
    BY ProrationIsFair
<1>4. PICK minus \in Int : minus = -diff
    OBVIOUS
<1>5. Max({diff, 0}) = IF diff >= 0 THEN diff ELSE 0
    BY MaxOfTwo
<1>6. Max({minus, 0}) = IF minus >= 0 THEN minus ELSE 0
    BY MaxOfTwo
<1>7. Max({diff, 0}) - Max({minus, 0}) = diff
    BY <1>4, <1>5, <1>6
<1>8. floorDiv(new.TransferBytes * n, new.PeriodDays) \in Nat
    <2>1. new.TransferBytes \in Nat /\ new.PeriodDays \in Nat \ {0}
        BY MembershipAssumption DEF Saleable, PlanSnapshot
    <2>2. PICK a \in Nat, b \in Nat \ {0} : a = new.TransferBytes * n /\ b = new.PeriodDays
        BY <2>1
    <2> QED  BY <2>2, RoundedDivision
<1>9. LET out == Prorated(old, current, new, t)
      IN  /\ out.ExpiredAt = current.ExpiredAt
          /\ out.TransferBytes = floorDiv(new.TransferBytes * n, new.PeriodDays)
          /\ out.UsedBytes = 0
          /\ out.Charge = Max({diff, 0}) /\ out.Credit = Max({minus, 0})
    BY <1>2, <1>3, <1>4 DEF Prorated
<1> QED  BY <1>2, <1>3, <1>7, <1>8, <1>9

-----------------------------------------------------------------------------
\* What a change that was not refused writes.
Written(pol, new, out) ==
    /\ sub' = [TransferBytes |-> out.TransferBytes,
               UsedBytes     |-> out.UsedBytes,
               ExpiredAt     |-> out.ExpiredAt]
    /\ plan' = new /\ now' = now /\ consumed' = consumed
    /\ paid' = paid + out.Charge - out.Credit
    /\ prorated' = prorated + IF pol = "prorate" THEN 1 ELSE 0
    /\ forfeited' = forfeited +
         IF pol \in {"deny", "reset"} THEN Worth(sub, plan, now)
         ELSE IF sub.ExpiredAt = Permanent THEN out.Charge * Common
         ELSE 0

\* The facts about the state that the changes need.
LEMMA MemberTypes ==
    ASSUME MemberInv
    PROVE  /\ now \in Int /\ plan \in Saleable /\ sub \in LiveSubscription
           /\ sub.ExpiredAt \in Int \cup {Permanent}
           /\ sub.TransferBytes \in Nat /\ sub.UsedBytes \in Nat
           /\ Worth(sub, plan, now) \in Nat /\ Common \in Nat
           /\ paid \in Int /\ consumed \in Int /\ forfeited \in Int /\ prorated \in Nat
<1>1. /\ now \in Int /\ plan \in Saleable /\ sub.ExpiredAt \in Int \cup {Permanent}
    BY DEF MemberInv, LiveSubscription
<1>2. Worth(sub, plan, now) \in Nat
    BY <1>1, WorthIsNatural
<1> QED  BY <1>1, <1>2, MembershipAssumption DEF MemberInv, LiveSubscription

\* Starting over: the whole price for the whole period, and what was left is
\* given up.
LEMMA StartOverKeeps ==
    ASSUME MemberInv, NEW pol \in {"deny", "reset"}, NEW new \in Saleable,
           Written(pol, new, StartOver(new, now))
    PROVE  MemberInv' /\ sub'.ExpiredAt > now
<1>1. PICK n \in Nat \ {0}, c \in Nat, b \in Nat :
          n = new.PeriodDays /\ c = new.Price /\ b = new.TransferBytes
    BY MembershipAssumption DEF Saleable, PlanSnapshot
<1>2. now \in Int
    BY MemberTypes
<1>3. PICK e \in Int : e = AddDays(now, n) /\ RemainingDays(now, e) = n
    BY <1>2, DaysBought
<1>4. /\ sub' = [TransferBytes |-> b, UsedBytes |-> 0, ExpiredAt |-> e]
      /\ plan' = new /\ now' = now /\ consumed' = consumed /\ paid' = paid + c - 0
      /\ prorated' = prorated + 0 /\ forfeited' = forfeited + Worth(sub, plan, now)
    BY <1>1, <1>3 DEF Written, StartOver
<1>5. sub' \in LiveSubscription /\ sub'.ExpiredAt = e
    BY <1>4 DEF LiveSubscription
<1>6. Worth(sub', plan', now') = c * Common /\ c * Common \in Nat
    <2>1. e # Permanent
        BY <1>3, PlanChangeAssumption
    <2>2. n * DayValue(new) = c * Common
        BY <1>1, PeriodValue
    <2>3. c * Common \in Nat
        BY MemberTypes
    <2> QED  BY <1>3, <1>4, <1>5, <2>1, <2>2, <2>3 DEF Worth
<1>7. PICK w \in Int : w = c * Common
    BY <1>6
<1>8. Received' = Received + w
    BY <1>4, <1>6, <1>7, MemberTypes DEF Received
<1>9. /\ paid' = paid + c /\ prorated' = prorated + 0 /\ paid' \in Int
      /\ consumed' \in Int /\ forfeited' \in Int /\ now' \in Nat /\ plan' \in Saleable
    BY <1>4, MemberTypes DEF MemberInv
<1>10. c * Common <= w /\ w <= c * Common + 2 * Common * 0
    BY <1>7, MemberTypes
<1>11. e > now
    <2>1. PICK d \in Nat \ {0} : d = DayLength
        BY PlanChangeAssumption
    <2>2. e = now + n * d
        BY <1>3, <2>1 DEF AddDays
    <2>3. 1 * 1 <= n * d
        <3>1. 1 <= n /\ 1 <= d
            OBVIOUS
        <3> QED  BY <3>1, ProductBound
    <2>4. n * d \in Nat
        OBVIOUS
    <2> QED  BY <1>2, <2>2, <2>3, <2>4
<1>12. c \in Int /\ 0 \in {0, 1}
    OBVIOUS
<1>13. MemberInv'
    BY <1>5, <1>8, <1>9, <1>10, <1>12, BooksBalance
<1> QED  BY <1>5, <1>11, <1>13

\* Stacking: the whole price for one more period of the same plan.
LEMMA StackKeeps ==
    ASSUME MemberInv, Written("stack", plan, Stacked(sub, plan, now))
    PROVE  MemberInv'
<1>1. PICK n \in Nat \ {0}, c \in Nat, b \in Nat :
          n = plan.PeriodDays /\ c = plan.Price /\ b = sub.TransferBytes + plan.TransferBytes
    <2>1. plan \in Saleable /\ sub.TransferBytes \in Nat
        BY MemberTypes
    <2>2. /\ plan.PeriodDays \in Nat \ {0} /\ plan.Price \in Nat /\ plan.TransferBytes \in Nat
        BY <2>1, MembershipAssumption DEF Saleable, PlanSnapshot
    <2> QED  BY <2>1, <2>2
<1>2. now \in Int /\ sub.UsedBytes \in Nat
    BY MemberTypes
<1>3. /\ sub' = [TransferBytes |-> b, UsedBytes |-> sub.UsedBytes,
                 ExpiredAt |-> StackedExpiry(sub, plan, now)]
      /\ plan' = plan /\ now' = now /\ consumed' = consumed /\ paid' = paid + c - 0
      /\ prorated' = prorated + 0
      /\ forfeited' = forfeited + IF sub.ExpiredAt = Permanent THEN c * Common ELSE 0
    BY <1>1 DEF Written, Stacked
<1>4. c * Common \in Nat /\ n * DayValue(plan) = c * Common /\ DayValue(plan) \in Nat
    BY <1>1, MemberTypes, PeriodValue
<1>5. PICK w \in Int : w = c * Common
    BY <1>4
<1>6. StackedExpiry(sub, plan, now) \in Int \cup {Permanent} /\ Received' = Received + w
    <2>1. CASE sub.ExpiredAt = Permanent
        <3>1. StackedExpiry(sub, plan, now) = Permanent
            BY <2>1 DEF StackedExpiry
        <3>2. Worth(sub', plan', now') = 0 /\ Worth(sub, plan, now) = 0
            BY <1>3, <2>1, <3>1 DEF Worth
        <3> QED  BY <1>3, <1>4, <1>5, <2>1, <3>1, <3>2, MemberTypes DEF Received
    <2>2. CASE sub.ExpiredAt # Permanent
        <3>1. PICK u \in Int : u = sub.ExpiredAt
            BY <2>2, MemberTypes
        <3>2. PICK e \in Int : e = AddDays(Max({u, now}), n)
            BY <1>2, DaysBought
        <3>3. RemainingDays(now, e) = RemainingDays(now, u) + n
            BY <1>2, <3>2, DaysBought
        <3>4. StackedExpiry(sub, plan, now) = e
            BY <1>1, <2>2, <3>1, <3>2 DEF StackedExpiry
        <3>5. sub'.ExpiredAt = e /\ e # Permanent
            BY <1>3, <3>4, PlanChangeAssumption
        <3>6. PICK m \in Nat, v \in Nat : m = RemainingDays(now, u) /\ v = DayValue(plan)
            BY <1>2, <1>4, DaysLeft
        <3>7. Worth(sub', plan', now') = (m + n) * v /\ Worth(sub, plan, now) = m * v
            BY <1>3, <2>2, <3>1, <3>3, <3>5, <3>6 DEF Worth
        <3>8. (m + n) * v = m * v + n * v /\ n * v = w /\ m * v \in Nat
            BY <1>4, <1>5, <3>6
        <3>9. Worth(sub', plan', now') = Worth(sub, plan, now) + w
            BY <3>7, <3>8
        <3>10. forfeited' = forfeited + 0 /\ consumed' = consumed
            BY <1>3, <2>2
        <3> QED  BY <3>4, <3>9, <3>10, MemberTypes DEF Received
    <2> QED  BY <2>1, <2>2
<1>7. sub' \in LiveSubscription
    BY <1>2, <1>3, <1>6 DEF LiveSubscription
<1>8. /\ paid' = paid + c /\ prorated' = prorated + 0 /\ paid' \in Int
      /\ consumed' \in Int /\ forfeited' \in Int /\ now' \in Nat /\ plan' \in Saleable
    BY <1>3, <1>4, MemberTypes DEF MemberInv
<1>9. c * Common <= w /\ w <= c * Common + 2 * Common * 0
    BY <1>5, MemberTypes
<1>10. c \in Int /\ 0 \in {0, 1}
    OBVIOUS
<1> QED  BY <1>6, <1>7, <1>8, <1>9, <1>10, BooksBalance

\* Proration: the difference of two rounded values of the days left.
LEMMA ProrateKeeps ==
    ASSUME MemberInv, NEW new \in Saleable, sub.ExpiredAt # Permanent,
           Written("prorate", new, Prorated(plan, sub, new, now))
    PROVE  MemberInv'
<1> DEFINE out == Prorated(plan, sub, new, now)
<1>1. now \in Int /\ plan \in Saleable /\ sub \in LiveSubscription
    BY MemberTypes
<1>2. PICK n \in Nat : n = RemainingDays(now, sub.ExpiredAt)
    BY <1>1, ProrationOutcome
<1>3. PICK d \in Int : d = PriceDifference(plan, new, n)
    BY <1>1, ProrationIsFair
<1>4. /\ out.ExpiredAt = sub.ExpiredAt /\ out.TransferBytes \in Nat /\ out.UsedBytes = 0
      /\ out.Charge - out.Credit = d
    BY <1>1, <1>2, <1>3, ProrationOutcome
<1>5. PICK a \in Nat, b \in Nat : a = n * DayValue(new) /\ b = n * DayValue(plan)
    <2>1. /\ new \in Plans /\ new.PeriodDays > 0 /\ plan \in Plans /\ plan.PeriodDays > 0
        BY <1>1 DEF Saleable
    <2>2. n * DayValue(new) \in Nat /\ n * DayValue(plan) \in Nat
        BY <2>1, RoundedPrice
    <2> QED  BY <2>2
<1>6. PICK w \in Int : w = a - b
    OBVIOUS
<1>7. d * Common <= w /\ w <= d * Common + 2 * Common
    BY <1>1, <1>3, <1>5, <1>6, ProrationIsFair
<1>8. out.Charge \in Int /\ out.Credit \in Int
    <2>1. PICK minus \in Int : minus = -d
        OBVIOUS
    <2>2. Max({d, 0}) \in Int /\ Max({minus, 0}) \in Int
        BY MaxOfTwo
    <2> QED  BY <1>2, <1>3, <2>1, <2>2 DEF Prorated
<1>9. /\ sub' = [TransferBytes |-> out.TransferBytes, UsedBytes |-> 0,
                 ExpiredAt |-> sub.ExpiredAt]
      /\ plan' = new /\ now' = now /\ consumed' = consumed
      /\ paid' = paid + out.Charge - out.Credit /\ prorated' = prorated + 1
      /\ forfeited' = forfeited + 0
    BY <1>4 DEF Written
<1> HIDE DEF out
<1>10. paid' = paid + d /\ paid' \in Int
    BY <1>4, <1>8, <1>9, MemberTypes
<1>11. sub'.ExpiredAt = sub.ExpiredAt /\ sub' \in LiveSubscription
    BY <1>4, <1>9, MemberTypes DEF LiveSubscription
<1>12. Worth(sub', plan', now') = a /\ Worth(sub, plan, now) = b
    BY <1>2, <1>5, <1>9, <1>11 DEF Worth
<1>13. Received' = Received + w
    BY <1>6, <1>9, <1>12, MemberTypes DEF Received
<1>14. /\ consumed' \in Int /\ forfeited' \in Int /\ now' \in Nat /\ plan' \in Saleable
       /\ 1 \in {0, 1}
    BY <1>9, MemberTypes DEF MemberInv
<1>15. w <= d * Common + 2 * Common * 1
    BY <1>7, MemberTypes
<1> QED  BY <1>7, <1>9, <1>10, <1>11, <1>13, <1>14, <1>15, BooksBalance

\* The row alone, of which nothing is said that depends on what is stacked.
RowOK == now \in Nat /\ plan \in Saleable /\ sub \in LiveSubscription /\ paid \in Int

\* A change is refused and nothing moves, or its policy is applied.
LEMMA ChangeCases ==
    ASSUME RowOK, NEW pol, Change(pol)
    PROVE  \/ UNCHANGED <<sub, plan, books, now>>
           \/ \E new \in Saleable :
                 /\ new \in Offered(pol)
                 /\ \/ pol \in {"deny", "reset"} /\ Written(pol, new, StartOver(new, now))
                    \/ pol = "stack" /\ Written(pol, new, Stacked(sub, new, now))
                    \/ /\ pol = "prorate" /\ sub.ExpiredAt # Permanent
                       /\ Written(pol, new, Prorated(plan, sub, new, now))
<1>1. PICK new \in Offered(pol) :
         LET out == ApplyChange(pol, plan, new, sub, now)
         IN  IF Refused(out)
             THEN UNCHANGED <<sub, plan, books>>
             ELSE Written(pol, new, out)
    BY DEF Change, Written
<1>2. now' = now
    BY DEF Change
<1> DEFINE out == ApplyChange(pol, plan, new, sub, now)
<1>3. new \in Plans
    <2>1. plan \in Plans
        BY DEF RowOK, Saleable
    <2> QED  BY <2>1 DEF Offered
<1>4. CASE Refused(out)
    BY <1>1, <1>2, <1>4
<1>5. CASE ~ Refused(out)
    <2>1. Written(pol, new, out)
        BY <1>1, <1>5
    <2>2. /\ new \in Saleable
          /\ \/ pol = "deny" /\ out = StartOver(new, now)
             \/ pol = "reset" /\ out = StartOver(new, now)
             \/ pol = "stack" /\ out = Stacked(sub, new, now)
             \/ /\ pol = "prorate" /\ sub.ExpiredAt # Permanent
                /\ out = Prorated(plan, sub, new, now)
        BY <1>3, <1>5, Applied
    <2> HIDE DEF out
    <2> QED  BY <2>1, <2>2
<1> QED  BY <1>4, <1>5

-----------------------------------------------------------------------------
\* Time passes: what the day was worth is consumed, and so received as before.
LEMMA DayPasses == ASSUME MemberInv, Pass PROVE MemberInv'
<1>1. /\ now' = now + 1 /\ sub' = sub /\ plan' = plan /\ paid' = paid
      /\ prorated' = prorated /\ forfeited' = forfeited
      /\ consumed' = consumed + Worth(sub, plan, now) - Worth(sub, plan, now + 1)
    BY DEF Pass
<1>2. now + 1 \in Int
    BY MemberTypes
<1>3. PICK v \in Nat, u \in Nat : v = Worth(sub, plan, now) /\ u = Worth(sub, plan, now + 1)
    <2>1. Worth(sub, plan, now + 1) \in Nat
        BY <1>2, MemberTypes, WorthIsNatural
    <2> QED  BY <2>1, MemberTypes
<1>4. Worth(sub', plan', now') = u
    BY <1>1, <1>3
<1>5. Received' = Received + 0
    BY <1>1, <1>3, <1>4, MemberTypes DEF Received
<1>6. /\ paid' = paid + 0 /\ prorated' = prorated + 0 /\ paid' \in Int
      /\ consumed' \in Int /\ forfeited' \in Int
    BY <1>1, <1>3, MemberTypes
<1>7. now' \in Nat /\ plan' \in Saleable /\ sub' \in LiveSubscription
    BY <1>1 DEF MemberInv
<1>8. 0 * Common <= 0 /\ 0 <= 0 * Common + 2 * Common * 0 /\ 0 \in Int /\ 0 \in {0, 1}
    BY MemberTypes
<1> QED  BY <1>5, <1>6, <1>7, <1>8, BooksBalance

LEMMA MemberStep == ~ Mixed /\ MemberInv /\ [Next]_vars => MemberInv'
<1> SUFFICES ASSUME ~ Mixed, MemberInv, [Next]_vars PROVE MemberInv'
    OBVIOUS
<1>0. RowOK
    BY DEF MemberInv, RowOK
<1>1. CASE Pass
    BY <1>1, DayPasses
<1>2. CASE Use
    <2>1. PICK n \in Bytes : sub' = [sub EXCEPT !.UsedBytes = @ + n]
        BY <1>2 DEF Use
    <2>2. /\ now' = now /\ plan' = plan /\ paid' = paid /\ prorated' = prorated
          /\ consumed' = consumed /\ forfeited' = forfeited
        BY <1>2 DEF Use, books
    <2>3. n \in Nat
        BY MembershipAssumption
    <2>4. sub' \in LiveSubscription /\ sub'.ExpiredAt = sub.ExpiredAt
        BY <2>1, <2>3 DEF MemberInv, LiveSubscription
    <2>5. Worth(sub', plan', now') = Worth(sub, plan, now)
        BY <2>2, <2>4 DEF Worth
    <2> QED  BY <2>2, <2>4, <2>5 DEF MemberInv, Received
<1>3. ASSUME NEW pol \in Policies, Change(pol) PROVE MemberInv'
    <2>1. CASE UNCHANGED <<sub, plan, books, now>>
        BY <2>1 DEF MemberInv, Received, Worth, books
    <2>2. CASE \E new \in Saleable :
                 /\ new \in Offered(pol)
                 /\ \/ pol \in {"deny", "reset"} /\ Written(pol, new, StartOver(new, now))
                    \/ pol = "stack" /\ Written(pol, new, Stacked(sub, new, now))
                    \/ /\ pol = "prorate" /\ sub.ExpiredAt # Permanent
                       /\ Written(pol, new, Prorated(plan, sub, new, now))
        <3>1. PICK new \in Saleable :
                 /\ new \in Offered(pol)
                 /\ \/ pol \in {"deny", "reset"} /\ Written(pol, new, StartOver(new, now))
                    \/ pol = "stack" /\ Written(pol, new, Stacked(sub, new, now))
                    \/ /\ pol = "prorate" /\ sub.ExpiredAt # Permanent
                       /\ Written(pol, new, Prorated(plan, sub, new, now))
            BY <2>2
        <3>2. CASE pol \in {"deny", "reset"} /\ Written(pol, new, StartOver(new, now))
            BY <3>2, StartOverKeeps
        <3>3. CASE pol = "stack" /\ Written(pol, new, Stacked(sub, new, now))
            <4>1. new = plan
                BY <3>1, <3>3 DEF Offered
            <4> QED  BY <3>3, <4>1, StackKeeps
        <3>4. CASE /\ pol = "prorate" /\ sub.ExpiredAt # Permanent
                   /\ Written(pol, new, Prorated(plan, sub, new, now))
            BY <3>4, ProrateKeeps
        <3> QED  BY <3>1, <3>2, <3>3, <3>4
    <2> QED  BY <1>0, <1>3, <2>1, <2>2, ChangeCases
<1>4. CASE UNCHANGED vars
    BY <1>4 DEF vars, MemberInv, Received, Worth, books
<1> QED  BY <1>1, <1>2, <1>3, <1>4 DEF Next

\* Rounding favours the user: through any chain of changes, over plans of any
\* prices and periods, nobody pays more than the days were worth, as long as a
\* plan is only stacked onto itself (plan.go:162-165).
THEOREM NobodyOverpays ==
    ASSUME ~ Mixed
    PROVE  Spec => []RoundingFavoursUser
<1>1. MemberInv => RoundingFavoursUser
    BY DEF MemberInv, RoundingFavoursUser
<1> QED  BY <1>1, MemberInit, MemberStep, PTL DEF Spec

\* And not by much: less than two minor units for each proration (plan.go:
\* 119-122).
THEOREM NobodyProfits ==
    ASSUME ~ Mixed
    PROVE  Spec => []FavourIsBounded
<1>1. MemberInv => FavourIsBounded
    BY DEF MemberInv, FavourIsBounded
<1> QED  BY <1>1, MemberInit, MemberStep, PTL DEF Spec

\* The row stays one the code can read whatever is stacked onto it.
LEMMA RowStep == RowOK /\ [Next]_vars => RowOK'
<1> SUFFICES ASSUME RowOK, [Next]_vars PROVE RowOK'
    OBVIOUS
<1>0. /\ now \in Int /\ sub.TransferBytes \in Nat /\ sub.UsedBytes \in Nat
      /\ sub.ExpiredAt \in Int \cup {Permanent}
    BY DEF RowOK, LiveSubscription
<1>1. CASE Pass
    BY <1>1 DEF Pass, RowOK
<1>2. CASE Use
    <2>1. PICK n \in Bytes : sub' = [sub EXCEPT !.UsedBytes = @ + n]
        BY <1>2 DEF Use
    <2>2. now' = now /\ plan' = plan /\ paid' = paid
        BY <1>2 DEF Use, books
    <2>3. n \in Nat
        BY MembershipAssumption
    <2>4. sub' \in LiveSubscription
        BY <2>1, <2>3 DEF RowOK, LiveSubscription
    <2> QED  BY <2>2, <2>4 DEF RowOK
<1>3. ASSUME NEW pol \in Policies, Change(pol) PROVE RowOK'
    <2>1. CASE UNCHANGED <<sub, plan, books, now>>
        BY <2>1 DEF RowOK, books
    <2>2. ASSUME NEW new \in Saleable,
                 \/ pol \in {"deny", "reset"} /\ Written(pol, new, StartOver(new, now))
                 \/ pol = "stack" /\ Written(pol, new, Stacked(sub, new, now))
                 \/ /\ pol = "prorate" /\ sub.ExpiredAt # Permanent
                    /\ Written(pol, new, Prorated(plan, sub, new, now))
          PROVE  RowOK'
        <3>1. PICK n \in Nat, c \in Nat, b \in Nat :
                  n = new.PeriodDays /\ c = new.Price /\ b = new.TransferBytes
            BY MembershipAssumption DEF Saleable, PlanSnapshot
        <3>2. CASE Written(pol, new, StartOver(new, now))
            <4>1. PICK e \in Int : e = AddDays(now, n)
                BY <1>0, DaysBought
            <4>2. /\ sub' = [TransferBytes |-> b, UsedBytes |-> 0, ExpiredAt |-> e]
                  /\ plan' = new /\ now' = now /\ paid' = paid + c - 0
                BY <3>1, <3>2, <4>1 DEF Written, StartOver
            <4> QED  BY <4>2 DEF RowOK, LiveSubscription
        <3>3. CASE Written(pol, new, Stacked(sub, new, now))
            <4>1. StackedExpiry(sub, new, now) \in Int \cup {Permanent}
                <5>1. CASE sub.ExpiredAt = Permanent
                    BY <5>1 DEF StackedExpiry
                <5>2. CASE sub.ExpiredAt # Permanent
                    <6>1. PICK u \in Int : u = sub.ExpiredAt
                        BY <1>0, <5>2
                    <6>2. AddDays(Max({u, now}), n) \in Int
                        BY <1>0, DaysBought
                    <6> QED  BY <3>1, <5>2, <6>1, <6>2 DEF StackedExpiry
                <5> QED  BY <5>1, <5>2
            <4>2. PICK e \in Int \cup {Permanent} : e = StackedExpiry(sub, new, now)
                BY <4>1
            <4>3. /\ sub' = [TransferBytes |-> sub.TransferBytes + b, UsedBytes |-> sub.UsedBytes,
                             ExpiredAt |-> e]
                  /\ plan' = new /\ now' = now /\ paid' = paid + c - 0
                BY <3>1, <3>3, <4>2 DEF Written, Stacked
            <4> QED  BY <1>0, <4>3 DEF RowOK, LiveSubscription
        <3>4. CASE sub.ExpiredAt # Permanent /\ Written(pol, new, Prorated(plan, sub, new, now))
            <4> DEFINE out == Prorated(plan, sub, new, now)
            <4>1. plan \in Saleable /\ sub \in LiveSubscription
                BY DEF RowOK
            <4>2. PICK m \in Nat : m = RemainingDays(now, sub.ExpiredAt)
                BY <1>0, <3>4, <4>1, ProrationOutcome
            <4>3. PICK d \in Int : d = PriceDifference(plan, new, m)
                BY <4>1, ProrationIsFair
            <4>4. PICK minus \in Int : minus = -d
                OBVIOUS
            <4>5. Max({d, 0}) \in Int /\ Max({minus, 0}) \in Int
                BY MaxOfTwo
            <4>6. /\ out.ExpiredAt = sub.ExpiredAt /\ out.TransferBytes \in Nat
                  /\ out.UsedBytes = 0
                BY <1>0, <3>4, <4>1, ProrationOutcome
            <4>7. out.Charge \in Int /\ out.Credit \in Int
                BY <4>2, <4>3, <4>4, <4>5 DEF Prorated
            <4>8. /\ sub' = [TransferBytes |-> out.TransferBytes, UsedBytes |-> out.UsedBytes,
                             ExpiredAt |-> out.ExpiredAt]
                  /\ plan' = new /\ now' = now /\ paid' = paid + out.Charge - out.Credit
                BY <3>4 DEF Written
            <4> HIDE DEF out
            <4> QED  BY <1>0, <4>6, <4>7, <4>8 DEF RowOK, LiveSubscription
        <3> QED  BY <2>2, <3>2, <3>3, <3>4
    <2> QED  BY <1>3, <2>1, <2>2, ChangeCases
<1>4. CASE UNCHANGED vars
    BY <1>4 DEF vars, books, RowOK
<1> QED  BY <1>1, <1>2, <1>3, <1>4 DEF Next

LEMMA RowInit == Init => RowOK
<1> SUFFICES ASSUME Init PROVE RowOK
    OBVIOUS
<1>1. /\ now = 0 /\ plan \in Saleable
    BY DEF Init
<1>2. PICK n \in Nat, c \in Nat, b \in Nat, z \in Int :
          n = plan.PeriodDays /\ c = plan.Price /\ b = plan.TransferBytes /\ z = 0
    BY <1>1, MembershipAssumption DEF Saleable, PlanSnapshot
<1>3. AddDays(z, n) \in Int
    BY DaysLater
<1>4. \E e \in Int \cup {Permanent} :
          sub = [TransferBytes |-> b, UsedBytes |-> 0, ExpiredAt |-> e]
    BY <1>2, <1>3 DEF Init, Bought
<1>5. paid \in Int
    BY <1>2 DEF Init
<1> QED  BY <1>1, <1>4, <1>5 DEF RowOK, LiveSubscription

\* A detour over a third plan on the same day is never dearer than the direct
\* way and saves one minor unit at most, from any state a subscriber can reach
\* (plan.go:150-164, 233-267).
THEOREM DetoursDoNotPay == Spec => []DetourSavesAtMostOne
<1>1. RowOK => DetourSavesAtMostOne
    <2> SUFFICES ASSUME RowOK, sub.ExpiredAt # Permanent, NEW b \in Saleable, NEW c \in Saleable
                 PROVE  LET remaining == RemainingDays(now, sub.ExpiredAt)
                            direct == PriceDifference(plan, c, remaining)
                            detour == PriceDifference(plan, b, remaining)
                                          + PriceDifference(b, c, remaining)
                        IN  detour \in {direct - 1, direct}
        BY DEF DetourSavesAtMostOne
    <2>1. plan \in Saleable /\ now \in Int /\ sub \in LiveSubscription
        BY DEF RowOK
    <2>2. PICK n \in Nat : n = RemainingDays(now, sub.ExpiredAt)
        BY <2>1, ProrationOutcome
    <2>3. PICK p \in Nat : p = ceilDiv(plan.Price * n, plan.PeriodDays)
        BY <2>1, RoundedPrice DEF Saleable
    <2>4. PICK q \in Nat : q = floorDiv(c.Price * n, c.PeriodDays)
        BY RoundedPrice DEF Saleable
    <2>5. PICK a \in Nat, d \in Nat \ {0} : a = b.Price * n /\ d = b.PeriodDays
        <3>1. b.Price \in Nat /\ b.PeriodDays \in Nat \ {0}
            BY MembershipAssumption DEF Saleable, PlanSnapshot
        <3> QED  BY <3>1
    <2>6. PICK f \in Nat, g \in Nat : f = floorDiv(a, d) /\ g = ceilDiv(a, d)
        BY RoundedDivision
    <2>7. f * d <= a /\ a < f * d + d /\ a <= g * d /\ g * d < a + d
        BY <2>6, RoundedDivision
    <2>8. g = f \/ g = f + 1
        <3>1. ASSUME g + 1 <= f PROVE FALSE
            <4>1. PICK k \in Nat : f = g + 1 + k
                <5>1. f - g - 1 \in Nat /\ f = g + 1 + (f - g - 1)
                    BY <3>1
                <5> QED  BY <5>1
            <4>2. PICK x \in Nat, y \in Nat : x = g * d /\ y = k * d
                OBVIOUS
            <4>3. f * d = x + d + y
                BY <4>1, <4>2
            <4> QED  BY <2>7, <4>2, <4>3
        <3>2. ASSUME f + 2 <= g PROVE FALSE
            <4>1. PICK k \in Nat : g = f + 2 + k
                <5>1. g - f - 2 \in Nat /\ g = f + 2 + (g - f - 2)
                    BY <3>2
                <5> QED  BY <5>1
            <4>2. PICK x \in Nat, y \in Nat : x = f * d /\ y = k * d
                OBVIOUS
            <4>3. g * d = x + 2 * d + y
                BY <4>1, <4>2
            <4> QED  BY <2>7, <4>2, <4>3
        <3> QED  BY <3>1, <3>2
    <2>9. /\ PriceDifference(plan, c, n) = q - p
          /\ PriceDifference(plan, b, n) = f - p
          /\ PriceDifference(b, c, n) = q - g
        BY <2>3, <2>4, <2>5, <2>6 DEF PriceDifference
    <2>10. (f - p) + (q - g) \in {(q - p) - 1, q - p}
        BY <2>8
    <2> QED  BY <2>2, <2>9, <2>10
<1> QED  BY <1>1, RowInit, RowStep, PTL DEF Spec

\* Whoever is charged has a subscription that is live afterwards: a lapsed one
\* is renewed from now and not from its stale expiry (plan.go:210-216).
THEOREM NothingIsSoldDead == Spec => NothingSoldDead
<1>1. RowOK /\ [Next]_vars =>
          [paid' > paid => sub'.ExpiredAt = Permanent \/ sub'.ExpiredAt > now]_vars
    <2> SUFFICES ASSUME RowOK, Next, paid' > paid
                 PROVE  sub'.ExpiredAt = Permanent \/ sub'.ExpiredAt > now
        OBVIOUS
    <2>0. /\ now \in Int /\ paid \in Int /\ sub.ExpiredAt \in Int \cup {Permanent}
          /\ plan \in Saleable /\ sub \in LiveSubscription
        BY DEF RowOK, LiveSubscription
    <2>1. paid' # paid
        BY <2>0
    <2>2. PICK pol \in Policies : Change(pol)
        BY <2>1 DEF Next, Pass, Use, books
    <2>3. PICK new \in Saleable :
             \/ pol \in {"deny", "reset"} /\ Written(pol, new, StartOver(new, now))
             \/ pol = "stack" /\ Written(pol, new, Stacked(sub, new, now))
             \/ /\ pol = "prorate" /\ sub.ExpiredAt # Permanent
                /\ Written(pol, new, Prorated(plan, sub, new, now))
        BY <2>1, <2>2, ChangeCases DEF books
    <2>4. PICK n \in Nat \ {0} : n = new.PeriodDays
        BY MembershipAssumption DEF Saleable, PlanSnapshot
    <2>5. ASSUME NEW m \in Int, m >= now PROVE AddDays(m, n) \in Int /\ AddDays(m, n) > now
        <3>1. PICK d \in Nat \ {0} : d = DayLength
            BY PlanChangeAssumption
        <3>2. 1 * 1 <= n * d /\ n * d \in Nat
            <4>1. 1 <= n /\ 1 <= d
                OBVIOUS
            <4> QED  BY <4>1, ProductBound
        <3>3. PICK x \in Nat : x = n * d
            BY <3>2
        <3>4. AddDays(m, n) = m + x /\ 1 <= x
            BY <3>1, <3>2, <3>3 DEF AddDays
        <3> QED  BY <2>0, <2>5, <3>4
    <2>6. CASE Written(pol, new, StartOver(new, now))
        <3>1. sub'.ExpiredAt = AddDays(now, n)
            BY <2>4, <2>6 DEF Written, StartOver
        <3>2. now >= now
            BY <2>0
        <3> QED  BY <2>0, <2>5, <3>1, <3>2
    <2>7. CASE Written(pol, new, Stacked(sub, new, now))
        <3>1. sub'.ExpiredAt = StackedExpiry(sub, new, now)
            BY <2>7 DEF Written, Stacked
        <3>2. CASE sub.ExpiredAt = Permanent
            BY <3>1, <3>2 DEF StackedExpiry
        <3>3. CASE sub.ExpiredAt # Permanent
            <4>1. PICK u \in Int : u = sub.ExpiredAt
                BY <2>0, <3>3
            <4>2. Max({u, now}) = IF u >= now THEN u ELSE now
                BY <2>0, MaxOfTwo
            <4>3. PICK m \in Int : m = Max({u, now}) /\ m >= now
                BY <2>0, <4>2
            <4>4. sub'.ExpiredAt = AddDays(m, n)
                BY <2>4, <3>1, <3>3, <4>1, <4>3 DEF StackedExpiry
            <4> QED  BY <2>5, <4>3, <4>4
        <3> QED  BY <3>2, <3>3
    <2>8. CASE sub.ExpiredAt # Permanent /\ Written(pol, new, Prorated(plan, sub, new, now))
        <3>1. PICK u \in Int : u = sub.ExpiredAt
            BY <2>0, <2>8
        <3>2. sub'.ExpiredAt = u
            BY <2>8, <3>1 DEF Written, Prorated
        <3>3. PICK r \in Nat : r = RemainingDays(now, u)
            BY <2>0, DaysLeft
        <3>4. PICK d \in Int : d = PriceDifference(plan, new, r)
            BY <2>0, ProrationIsFair
        <3>5. paid' = paid + d
            <4> DEFINE out == Prorated(plan, sub, new, now)
            <4>1. out.Charge - out.Credit = d
                BY <2>0, <2>8, <3>1, <3>3, <3>4, ProrationOutcome
            <4>2. PICK minus \in Int : minus = -d
                OBVIOUS
            <4>3. Max({d, 0}) \in Int /\ Max({minus, 0}) \in Int
                BY MaxOfTwo
            <4>4. out.Charge \in Int /\ out.Credit \in Int
                BY <3>1, <3>3, <3>4, <4>2, <4>3 DEF Prorated
            <4>5. paid' = paid + out.Charge - out.Credit
                BY <2>8 DEF Written
            <4> HIDE DEF out
            <4> QED  BY <2>0, <4>1, <4>4, <4>5
        <3>6. r # 0
            <4> SUFFICES ASSUME r = 0 PROVE FALSE
                OBVIOUS
            <4>1. d * Common <= 0 /\ Common \in Nat \ {0}
                <5>1. PICK x \in Nat, y \in Nat : x = DayValue(new) /\ y = DayValue(plan)
                    BY <2>0, PeriodValue
                <5>2. d * Common <= r * x - r * y
                    BY <2>0, <3>4, <5>1, ProrationIsFair
                <5>3. r * x = 0 /\ r * y = 0
                    OBVIOUS
                <5> QED  BY <5>2, <5>3, MembershipAssumption
            <4>2. d > 0
                BY <2>0, <3>5
            <4>3. PICK c \in Nat \ {0}, e \in Nat : c = Common /\ e = d - 1
                BY <4>1, <4>2
            <4>4. d * c = e * c + c /\ e * c \in Nat
                BY <4>3
            <4> QED  BY <4>1, <4>3, <4>4
        <3>7. ~ u <= now
            <4> SUFFICES ASSUME u <= now PROVE FALSE
                OBVIOUS
            <4>1. PICK x \in Int, y \in Int : x = DateOf(u) /\ y = DateOf(now)
                BY <2>0, DatesInOrder
            <4>2. x <= y
                BY <2>0, <4>1, DatesInOrder
            <4>3. r = IF x >= y THEN x - y ELSE 0
                BY <2>0, <3>3, <4>1, DaysLeft
            <4> QED  BY <3>6, <4>2, <4>3
        <3> QED  BY <2>0, <3>2, <3>7
    <2> QED  BY <2>3, <2>6, <2>7, <2>8
<1> QED  BY <1>1, RowInit, RowStep, PTL DEF Spec, NothingSoldDead

-----------------------------------------------------------------------------
(***************************************************************************)
(* The calendar.  A reading of the clock is a day and a time of day; a day *)
(* is in one month; time.Date gives an instant that shows the reading it   *)
(* is asked for, but for the readings the clocks skip.  An anchor is the   *)
(* midnight of a day, so what can go wrong is a midnight in such a gap.    *)
(***************************************************************************)

\* A reading is the midnight of its day and the time of day.
LEMMA DayAndClock ==
    ASSUME NEW x \in Int
    PROVE  /\ UnitsPerDay \in Nat \ {0}
           /\ DayOf(x) \in Int /\ ClockOf(x) \in 0 .. UnitsPerDay - 1
           /\ Midnight(DayOf(x)) \in Int /\ x = Midnight(DayOf(x)) + ClockOf(x)
<1>1. PICK u \in Nat \ {0} : u = UnitsPerDay
    BY CalendarAssumption
<1>2. x \div u \in Int /\ x % u \in 0 .. u - 1 /\ x = u * (x \div u) + (x % u)
    OBVIOUS
<1>3. PICK q \in Int : q = x \div u
    BY <1>2
<1>4. q * u = u * q /\ q * u \in Int
    OBVIOUS
<1> QED  BY <1>1, <1>2, <1>3, <1>4 DEF DayOf, ClockOf, Midnight

\* Midnights are whole days apart.
LEMMA MidnightsApart ==
    ASSUME NEW d \in Int, NEW e \in Int
    PROVE  /\ Midnight(d) \in Int
           /\ Midnight(d + e) = Midnight(d) + Midnight(e)
           /\ Midnight(d + 1) = Midnight(d) + UnitsPerDay
           /\ d <= e => Midnight(d) <= Midnight(e)
           /\ d < e => Midnight(d) + UnitsPerDay <= Midnight(e)
<1>1. PICK u \in Nat \ {0} : u = UnitsPerDay
    BY CalendarAssumption
<1>2. d * u \in Int /\ e * u \in Int /\ (d + e) * u = d * u + e * u /\ (d + 1) * u = d * u + u
    OBVIOUS
<1>3. ASSUME d <= e PROVE d * u <= e * u
    <2>1. PICK k \in Nat : e = d + k
        <3>1. e - d \in Nat /\ e = d + (e - d)
            BY <1>3
        <3> QED  BY <3>1
    <2>2. e * u = d * u + k * u /\ k * u \in Nat
        BY <2>1
    <2> QED  BY <1>2, <2>2
<1>4. ASSUME d < e PROVE d * u + u <= e * u
    <2>1. PICK k \in Nat : e = d + 1 + k
        <3>1. e - d - 1 \in Nat /\ e = d + 1 + (e - d - 1)
            BY <1>4
        <3> QED  BY <3>1
    <2>2. e * u = d * u + u + k * u /\ k * u \in Nat
        BY <2>1
    <2> QED  BY <1>2, <2>2
<1> QED  BY <1>1, <1>2, <1>3, <1>4 DEF Midnight

\* A reading between two midnights is of the first one's day.
LEMMA DayIs ==
    ASSUME NEW x \in Int, NEW d \in Int,
           Midnight(d) <= x, x < Midnight(d) + UnitsPerDay
    PROVE  DayOf(x) = d /\ ClockOf(x) = x - Midnight(d)
<1>1. PICK u \in Nat \ {0} : u = UnitsPerDay
    BY CalendarAssumption
<1>2. PICK q \in Int : q = DayOf(x)
    BY DayAndClock
<1>3. PICK a \in Int, b \in Int, r \in 0 .. u - 1 :
          a = Midnight(q) /\ b = Midnight(d) /\ r = ClockOf(x) /\ x = a + r
    <2>1. ClockOf(x) \in 0 .. u - 1 /\ Midnight(q) \in Int /\ x = Midnight(q) + ClockOf(x)
        BY <1>1, <1>2, DayAndClock
    <2>2. Midnight(d) \in Int
        BY MidnightsApart
    <2> QED  BY <2>1, <2>2
<1>4. ~ q < d
    <2> SUFFICES ASSUME q < d PROVE FALSE
        OBVIOUS
    <2>1. a + u <= b
        BY <1>1, <1>3, MidnightsApart
    <2> QED  BY <1>1, <1>3, <2>1
<1>5. ~ d < q
    <2> SUFFICES ASSUME d < q PROVE FALSE
        OBVIOUS
    <2>1. b + u <= a
        BY <1>1, <1>3, MidnightsApart
    <2> QED  BY <1>1, <1>3, <2>1
<1>6. q = d
    BY <1>4, <1>5
<1> QED  BY <1>2, <1>3, <1>6

\* Later readings are of later days, and those n days later of the nth.
LEMMA DaysInOrder ==
    ASSUME NEW x \in Int, NEW y \in Int
    PROVE  /\ x <= y => DayOf(x) <= DayOf(y)
           /\ \A d \in Int : Midnight(d) <= x <=> d <= DayOf(x)
           /\ \A d \in Int : DayOf(x + Midnight(d)) = DayOf(x) + d
<1>1. PICK u \in Nat \ {0} : u = UnitsPerDay
    BY CalendarAssumption
<1>2. PICK p \in Int, q \in Int : p = DayOf(x) /\ q = DayOf(y)
    BY DayAndClock
<1>3. PICK a \in Int, b \in Int, r \in 0 .. u - 1, s \in 0 .. u - 1 :
          a = Midnight(p) /\ b = Midnight(q) /\ x = a + r /\ y = b + s
    <2>1. ClockOf(x) \in 0 .. u - 1 /\ Midnight(p) \in Int /\ x = Midnight(p) + ClockOf(x)
        BY <1>1, <1>2, DayAndClock
    <2>2. ClockOf(y) \in 0 .. u - 1 /\ Midnight(q) \in Int /\ y = Midnight(q) + ClockOf(y)
        BY <1>1, <1>2, DayAndClock
    <2> QED  BY <2>1, <2>2
<1>4. ASSUME x <= y PROVE p <= q
    <2> SUFFICES ASSUME q < p PROVE FALSE
        OBVIOUS
    <2>1. b + u <= a
        BY <1>1, <1>3, MidnightsApart
    <2> QED  BY <1>1, <1>3, <1>4, <2>1
<1>5. ASSUME NEW d \in Int
      PROVE  Midnight(d) <= x <=> d <= p
    <2>1. PICK m \in Int : m = Midnight(d)
        BY MidnightsApart
    <2>2. d <= p => m <= a
        BY <1>3, <2>1, MidnightsApart
    <2>3. p < d => a + u <= m
        BY <1>1, <1>3, <2>1, MidnightsApart
    <2>4. CASE d <= p
        BY <1>3, <2>1, <2>2, <2>4
    <2>5. CASE p < d
        <3>1. x < m
            BY <1>1, <1>3, <2>3, <2>5
        <3> QED  BY <2>1, <2>5, <3>1
    <2> QED  BY <2>4, <2>5
<1>6. ASSUME NEW d \in Int
      PROVE  DayOf(x + Midnight(d)) = p + d
    <2>1. PICK m \in Int : m = Midnight(d) /\ Midnight(p + d) = a + m
        BY <1>3, MidnightsApart
    <2>2. PICK e \in Int, w \in Int : e = p + d /\ w = x + m
        OBVIOUS
    <2>3. Midnight(e) <= w /\ w < Midnight(e) + UnitsPerDay
        BY <1>1, <1>3, <2>1, <2>2
    <2>4. DayOf(w) = e
        BY <2>2, <2>3, DayIs
    <2> QED  BY <2>1, <2>2, <2>4
<1> QED  BY <1>2, <1>4, <1>5, <1>6

\* Midnight is the first reading of its day, and it falls on a bucket.
LEMMA AtMidnight ==
    ASSUME NEW d \in Int
    PROVE  DayOf(Midnight(d)) = d /\ ClockOf(Midnight(d)) = 0
<1>1. PICK m \in Int : m = Midnight(d)
    BY MidnightsApart
<1>2. UnitsPerDay \in Nat \ {0}
    BY CalendarAssumption
<1> QED  BY <1>1, <1>2, DayIs

-----------------------------------------------------------------------------
(* Months.                                                                 *)

\* Each month begins where the one before it ends.
LEMMA MonthsFollow ==
    /\ Len(MonthLengths) \in Nat /\ Months = 1 .. Len(MonthLengths)
    /\ \A m \in 1 .. Len(MonthLengths) + 1 : FirstDay[m] \in Nat
    /\ FirstDay[1] = 0
    /\ \A m \in Months : /\ MonthLengths[m] \in Nat \ {0}
                         /\ FirstDay[m + 1] = FirstDay[m] + MonthLengths[m]
<1>1. /\ Len(MonthLengths) \in Nat /\ DOMAIN MonthLengths = 1 .. Len(MonthLengths)
      /\ \A m \in 1 .. Len(MonthLengths) : MonthLengths[m] \in Nat \ {0}
    BY CalendarAssumption
<1>2. PICK n \in Nat : n = Len(MonthLengths)
    BY <1>1
<1>3. ASSUME NEW m \in 1 .. n + 1 PROVE FirstDay[m] \in Nat
    <2> DEFINE S == 1 .. m - 1
    <2>1. IsFiniteSet(S)
        <3>1. 1 \in Int /\ m - 1 \in Int
            OBVIOUS
        <3> QED  BY <3>1, FS_Interval
    <2>2. \A x \in S : MonthLengths[x] \in Nat
        BY <1>1, <1>2
    <2>3. FirstDay[m] = SumFunctionOnSet(MonthLengths, S)
        BY <1>2 DEF FirstDay
    <2> HIDE DEF S
    <2> QED  BY <2>1, <2>2, <2>3, SumType
<1>4. FirstDay[1] = 0
    <2>1. 1 .. 1 - 1 = {} /\ 1 \in 1 .. n + 1
        OBVIOUS
    <2> QED  BY <1>2, <2>1, SumEmpty DEF FirstDay
<1>5. ASSUME NEW m \in 1 .. n
      PROVE  FirstDay[m + 1] = FirstDay[m] + MonthLengths[m]
    <2> DEFINE S == 1 .. m - 1
    <2>1. IsFiniteSet(S) /\ \A x \in S : MonthLengths[x] \in Nat
        <3>1. 1 \in Int /\ m - 1 \in Int
            OBVIOUS
        <3>2. IsFiniteSet(S)
            BY <3>1, FS_Interval
        <3> QED  BY <1>1, <1>2, <3>2
    <2>2. m \notin S /\ MonthLengths[m] \in Nat /\ S \cup {m} = 1 .. (m + 1) - 1
        BY <1>1, <1>2
    <2>3. FirstDay[m] = SumFunctionOnSet(MonthLengths, S)
        BY <1>2 DEF FirstDay
    <2>4. FirstDay[m + 1] = SumFunctionOnSet(MonthLengths, S \cup {m})
        <3>1. m + 1 \in 1 .. n + 1
            OBVIOUS
        <3>2. FirstDay[m + 1] = SumFunctionOnSet(MonthLengths, 1 .. (m + 1) - 1)
            BY <1>2, <3>1 DEF FirstDay
        <3> QED  BY <2>2, <3>2
    <2> HIDE DEF S
    <2>5. FirstDay[m + 1] = MonthLengths[m] + FirstDay[m]
        BY <2>1, <2>2, <2>3, <2>4, SumAdd
    <2>6. FirstDay[m] \in Nat
        BY <1>3
    <2> QED  BY <2>2, <2>5, <2>6
<1> QED  BY <1>1, <1>2, <1>3, <1>4, <1>5 DEF Months

\* A later month begins later.
LEMMA FirstsInOrder ==
    ASSUME NEW m \in 1 .. Len(MonthLengths) + 1, NEW n \in 1 .. Len(MonthLengths) + 1, m < n
    PROVE  FirstDay[m] < FirstDay[n]
<1>1. PICK l \in Nat : l = Len(MonthLengths)
    BY MonthsFollow
<1> DEFINE Bad == {k \in 0 .. l + 1 : m < k /\ ~ FirstDay[m] < FirstDay[k]}
<1>2. ASSUME Bad # {} PROVE FALSE
    <2>1. PICK k \in Bad : \A j \in 0 .. k - 1 : j \notin Bad
        <3>1. Bad \in SUBSET (0 .. l + 1) /\ l + 1 \in Nat
            OBVIOUS
        <3> HIDE DEF Bad
        <3> QED  BY <1>2, <3>1, LeastNumber
    <2>2. PICK j \in 1 .. l : k = j + 1 /\ m <= j
        <3>1. k - 1 \in 1 .. l /\ k = (k - 1) + 1 /\ m <= k - 1
            BY <1>1
        <3> QED  BY <3>1
    <2>3. FirstDay[j + 1] = FirstDay[j] + MonthLengths[j] /\ MonthLengths[j] \in Nat \ {0}
        BY <1>1, MonthsFollow
    <2>4. FirstDay[j] \in Nat /\ FirstDay[m] \in Nat
        BY <1>1, MonthsFollow
    <2>5. FirstDay[m] <= FirstDay[j]
        <3>1. j \notin Bad
            BY <2>1, <2>2
        <3> QED  BY <2>2, <2>4, <3>1
    <2> QED  BY <2>1, <2>2, <2>3, <2>4, <2>5
<1>3. n \notin Bad
    BY <1>2
<1> QED  BY <1>1, <1>3

\* A day of the calendar is in one month.
LEMMA MonthOfDay ==
    ASSUME NEW d \in 0 .. FirstDay[Len(MonthLengths) + 1] - 1
    PROVE  /\ MonthOf(d) \in Months
           /\ FirstDay[MonthOf(d)] <= d /\ d < FirstDay[MonthOf(d) + 1]
<1>1. PICK l \in Nat : l = Len(MonthLengths)
    BY MonthsFollow
<1> DEFINE Later == {k \in 0 .. l + 1 : 1 <= k /\ d < FirstDay[k]}
<1>2. FirstDay[l + 1] \in Nat /\ d < FirstDay[l + 1]
    BY <1>1, MonthsFollow
<1>3. PICK k \in Later : \A j \in 0 .. k - 1 : j \notin Later
    <2>1. l + 1 \in Later /\ Later \in SUBSET (0 .. l + 1) /\ l + 1 \in Nat
        BY <1>2
    <2> HIDE DEF Later
    <2> QED  BY <2>1, LeastNumber
<1>4. PICK m \in 1 .. l : k = m + 1
    <2>1. k # 1
        BY MonthsFollow
    <2>2. k - 1 \in 1 .. l /\ k = (k - 1) + 1
        BY <2>1
    <2> QED  BY <2>2
<1>5. FirstDay[m] <= d
    <2>1. m \notin Later /\ FirstDay[m] \in Nat
        BY <1>1, <1>3, <1>4, MonthsFollow
    <2> QED  BY <2>1
<1>6. m \in Months /\ FirstDay[m] <= d /\ d < FirstDay[m + 1]
    BY <1>1, <1>3, <1>4, <1>5, MonthsFollow
<1> QED  BY <1>6 DEF MonthOf

\* And it is the month it lies in.
LEMMA MonthOfDayIs ==
    ASSUME NEW m \in Months, NEW d \in Int, FirstDay[m] <= d, d < FirstDay[m + 1]
    PROVE  MonthOf(d) = m /\ DayInMonth(d) = d - FirstDay[m] + 1
<1>1. PICK l \in Nat : l = Len(MonthLengths)
    BY MonthsFollow
<1>2. ASSUME NEW n \in Months, FirstDay[n] <= d, d < FirstDay[n + 1]
      PROVE  n = m
    <2>1. m \in 1 .. l /\ n \in 1 .. l
        BY <1>1, MonthsFollow
    <2>2. /\ FirstDay[m] \in Nat /\ FirstDay[m + 1] \in Nat
          /\ FirstDay[n] \in Nat /\ FirstDay[n + 1] \in Nat
        BY <1>1, <2>1, MonthsFollow
    <2>3. ~ m + 1 <= n
        <3> SUFFICES ASSUME m + 1 <= n PROVE FALSE
            OBVIOUS
        <3>1. m + 1 = n \/ FirstDay[m + 1] < FirstDay[n]
            <4> SUFFICES ASSUME m + 1 < n PROVE FirstDay[m + 1] < FirstDay[n]
                BY <2>1
            <4>1. PICK k \in 1 .. l + 1 : k = m + 1
                BY <2>1
            <4> QED  BY <1>1, <2>1, <4>1, FirstsInOrder
        <3> QED  BY <1>2, <2>2, <3>1
    <2>4. ~ n + 1 <= m
        <3> SUFFICES ASSUME n + 1 <= m PROVE FALSE
            OBVIOUS
        <3>1. n + 1 = m \/ FirstDay[n + 1] < FirstDay[m]
            <4> SUFFICES ASSUME n + 1 < m PROVE FirstDay[n + 1] < FirstDay[m]
                BY <2>1
            <4>1. PICK k \in 1 .. l + 1 : k = n + 1
                BY <2>1
            <4> QED  BY <1>1, <2>1, <4>1, FirstsInOrder
        <3> QED  BY <1>2, <2>2, <3>1
    <2> QED  BY <2>1, <2>3, <2>4
<1>3. MonthOf(d) = m
    BY <1>2 DEF MonthOf
<1> QED  BY <1>3 DEF DayInMonth

-----------------------------------------------------------------------------
(* Timezones.                                                              *)

Clocks == [before : Int, after : Int, change : Int]

\* The clocks of a zone change far from a midnight or at it: put forward, they
\* go forward by less than a day from midnight on or leave as much time as they
\* skip before it and after it; put back, they stay on the day.
ChangesCleanly(z) ==
    LET shift == z.after - z.before
        forward == ClockOf(z.change + z.before)
        back == ClockOf(z.change + z.after)
    IN  /\ shift > 0 => \/ forward = 0 /\ shift < UnitsPerDay
                        \/ shift <= forward /\ forward + 2 * shift <= UnitsPerDay
        /\ shift < 0 => back - shift <= UnitsPerDay

\* time.Date gives an instant that shows the reading, unless the clocks skip
\* it: then one that is as much too early, when the reading is taken for UTC's
\* before the change, or as much too late.
LEMMA DateShows ==
    ASSUME NEW z \in Clocks, NEW w \in Int
    PROVE  /\ z.before \in Int /\ z.after \in Int /\ z.change \in Int
           /\ Date(z, w) \in Int /\ Date(z, w) \in {w - z.before, w - z.after}
           /\ Local(z, Date(z, w)) \in Int
           /\ ~ (z.change + z.before <= w /\ w < z.change + z.after) => Local(z, Date(z, w)) = w
           /\ z.change + z.before <= w /\ w < z.change + z.after =>
                IF w < z.change
                THEN Date(z, w) = w - z.after /\ Local(z, Date(z, w)) = w - (z.after - z.before)
                ELSE Date(z, w) = w - z.before /\ Local(z, Date(z, w)) = w + (z.after - z.before)
<1>1. PICK b \in Int, a \in Int, c \in Int : b = z.before /\ a = z.after /\ c = z.change
    BY DEF Clocks
<1>2. \A t \in Int : Local(z, t) = IF t < c THEN t + b ELSE t + a
    BY <1>1 DEF Local, OffsetAt
<1>3. Date(z, w) = IF w < c THEN IF w - b < c THEN w - b ELSE w - a
                            ELSE IF w - a < c THEN w - b ELSE w - a
    <2>1. CASE w < c
        BY <1>1, <2>1 DEF Date, OffsetAt
    <2>2. CASE ~ w < c
        BY <1>1, <2>2 DEF Date, OffsetAt
    <2> QED  BY <2>1, <2>2
<1>4. PICK t \in Int : t = Date(z, w)
    BY <1>3
<1>5. Local(z, t) = IF t < c THEN t + b ELSE t + a
    BY <1>2
<1> QED  BY <1>1, <1>3, <1>4, <1>5

\* The date moves forward with time, over a change of the clocks too.
LEMMA LocalDaysInOrder ==
    ASSUME NEW z \in Clocks, ChangesCleanly(z), NEW t \in Int, NEW u \in Int, t <= u
    PROVE  /\ Local(z, t) \in Int /\ Local(z, u) \in Int
           /\ DayOf(Local(z, t)) <= DayOf(Local(z, u))
<1>1. PICK b \in Int, a \in Int, c \in Int : b = z.before /\ a = z.after /\ c = z.change
    BY DEF Clocks
<1>2. PICK x \in Int, y \in Int : /\ x = Local(z, t) /\ y = Local(z, u)
                                  /\ x = (IF t < c THEN t + b ELSE t + a)
                                  /\ y = (IF u < c THEN u + b ELSE u + a)
    BY <1>1 DEF Local, OffsetAt
<1>3. CASE x <= y
    BY <1>2, <1>3, DaysInOrder
<1>4. CASE y < x
    <2>1. PICK v \in Nat \ {0} : v = UnitsPerDay
        BY CalendarAssumption
    <2>2. a - b < 0 /\ x < c + b /\ y >= c + a
        BY <1>2, <1>4
    <2>3. PICK g \in Int, e \in Int, m \in Int, k \in 0 .. v - 1 :
              g = c + a /\ e = DayOf(g) /\ m = Midnight(e) /\ k = ClockOf(g) /\ g = m + k
        <3>1. PICK g \in Int : g = c + a
            OBVIOUS
        <3>2. /\ DayOf(g) \in Int /\ Midnight(DayOf(g)) \in Int
              /\ ClockOf(g) \in 0 .. v - 1 /\ g = Midnight(DayOf(g)) + ClockOf(g)
            BY <2>1, DayAndClock
        <3> QED  BY <3>1, <3>2
    <2>4. k - (a - b) <= v
        BY <1>1, <2>1, <2>2, <2>3 DEF ChangesCleanly
    <2>5. e <= DayOf(y)
        <3>1. g <= y
            BY <2>2, <2>3
        <3>2. DayOf(g) <= DayOf(y)
            BY <3>1, DaysInOrder
        <3> QED  BY <2>3, <3>2
    <2>6. PICK f \in Int, n \in Int : f = e + 1 /\ n = Midnight(f) /\ n = m + v
        <3>1. Midnight(e + 1) = Midnight(e) + UnitsPerDay /\ e + 1 \in Int
            BY MidnightsApart
        <3> QED  BY <2>1, <2>3, <3>1
    <2>7. ~ n <= x
        BY <2>2, <2>3, <2>4, <2>6
    <2>8. ~ f <= DayOf(x)
        BY <2>6, <2>7, DaysInOrder
    <2>9. DayOf(x) \in Int /\ DayOf(y) \in Int
        BY DayAndClock
    <2> QED  BY <1>2, <2>5, <2>6, <2>8, <2>9
<1> QED  BY <1>2, <1>3, <1>4

\* Where the clocks skip a midnight they do so from it on; time.Date goes back
\* to the last hour of the day before in the west, and on to the change of the
\* clocks in the east.
LEMMA SkippedMidnight ==
    ASSUME NEW z \in Clocks, ChangesCleanly(z), NEW d \in Int, Skips(z, d)
    PROVE  /\ z.before < 0 => /\ Date(z, Midnight(d)) = z.change - (z.after - z.before)
                              /\ DayOf(Local(z, Date(z, Midnight(d)))) = d - 1
           /\ z.before >= 0 => /\ Date(z, Midnight(d)) = z.change
                               /\ DayOf(Local(z, Date(z, Midnight(d)))) = d
           /\ z.after > z.before
<1>1. PICK b \in Int, a \in Int, c \in Int : b = z.before /\ a = z.after /\ c = z.change
    BY DEF Clocks
<1>2. PICK v \in Nat \ {0} : v = UnitsPerDay
    BY CalendarAssumption
<1>3. PICK w \in Int : w = Midnight(d)
    BY MidnightsApart
<1>4. c + b <= w /\ w < c + a /\ a - b > 0
    BY <1>1, <1>3 DEF Skips
<1>5. PICK g \in Int, e \in Int, m \in Int, k \in 0 .. v - 1 :
          g = c + b /\ e = DayOf(g) /\ m = Midnight(e) /\ k = ClockOf(g) /\ g = m + k
    <2>1. PICK g \in Int : g = c + b
        OBVIOUS
    <2>2. /\ DayOf(g) \in Int /\ Midnight(DayOf(g)) \in Int
          /\ ClockOf(g) \in 0 .. v - 1 /\ g = Midnight(DayOf(g)) + ClockOf(g)
        BY <1>2, DayAndClock
    <2> QED  BY <2>1, <2>2
<1>6. \/ k = 0 /\ a - b < v
      \/ a - b <= k /\ k + 2 * (a - b) <= v
    BY <1>1, <1>2, <1>4, <1>5 DEF ChangesCleanly
<1>7. e <= d
    <2>1. g <= w
        BY <1>4, <1>5
    <2>2. DayOf(w) = d
        BY <1>3, AtMidnight
    <2>3. DayOf(g) <= DayOf(w)
        BY <2>1, DaysInOrder
    <2> QED  BY <1>5, <2>2, <2>3
<1>8. e = d /\ w = m
    <2>1. ASSUME e < d PROVE FALSE
        <3>1. m + v <= w
            BY <1>2, <1>3, <1>5, <2>1, MidnightsApart
        <3> QED  BY <1>4, <1>5, <1>6, <3>1
    <2>2. e = d
        BY <1>7, <2>1
    <2> QED  BY <1>3, <1>5, <2>2
<1>9. k = 0 /\ a - b < v /\ w = c + b
    BY <1>4, <1>5, <1>6, <1>8
<1>10. IF w < c THEN Date(z, w) = w - a /\ Local(z, Date(z, w)) = w - (a - b)
                ELSE Date(z, w) = w - b /\ Local(z, Date(z, w)) = w + (a - b)
    BY <1>1, <1>4, DateShows
<1>11. CASE b < 0
    <2>1. PICK x \in Int, f \in Int, n \in Int :
              x = w - (a - b) /\ f = d - 1 /\ n = Midnight(f) /\ w = n + v
        <3>1. d - 1 \in Int /\ (d - 1) + 1 = d
            OBVIOUS
        <3>2. PICK f \in Int : f = d - 1 /\ f + 1 = d
            BY <3>1
        <3>3. Midnight(f) \in Int /\ Midnight(f + 1) = Midnight(f) + v
            BY <1>2, MidnightsApart
        <3> QED  BY <1>3, <3>2, <3>3
    <2>2. n <= x /\ x < n + v
        BY <1>4, <1>9, <2>1
    <2>3. DayOf(x) = f
        BY <1>2, <2>1, <2>2, DayIs
    <2>4. w < c /\ Date(z, w) = c - (a - b) /\ Local(z, Date(z, w)) = x
        BY <1>9, <1>10, <1>11, <2>1
    <2> QED  BY <1>1, <1>3, <1>4, <1>11, <2>1, <2>3, <2>4
<1>12. CASE b >= 0
    <2>1. PICK x \in Int : x = w + (a - b)
        OBVIOUS
    <2>2. DayOf(x) = d
        <3>1. Midnight(d) <= x /\ x < Midnight(d) + v
            BY <1>3, <1>4, <1>9, <2>1
        <3> QED  BY <1>2, <3>1, DayIs
    <2>3. ~ w < c /\ Date(z, w) = c /\ Local(z, Date(z, w)) = x
        BY <1>9, <1>10, <1>12, <2>1
    <2> QED  BY <1>1, <1>3, <1>4, <1>12, <2>2, <2>3
<1> QED  BY <1>1, <1>11, <1>12

\* A midnight the clocks show is the midnight time.Date gives.
LEMMA KeptMidnight ==
    ASSUME NEW z \in Clocks, NEW d \in Int, ~ Skips(z, d)
    PROVE  Local(z, Date(z, Midnight(d))) = Midnight(d)
<1>1. Midnight(d) \in Int
    BY MidnightsApart
<1> QED  BY <1>1, DateShows DEF Skips

\* On a day that has its midnight, time.Date stays on the day it is asked for.
LEMMA DayKept ==
    ASSUME NEW z \in Clocks, ChangesCleanly(z), NEW w \in Int, ~ Skips(z, DayOf(w))
    PROVE  DayOf(Local(z, Date(z, w))) = DayOf(w)
<1>1. PICK b \in Int, a \in Int, c \in Int : b = z.before /\ a = z.after /\ c = z.change
    BY DEF Clocks
<1>2. PICK v \in Nat \ {0} : v = UnitsPerDay
    BY CalendarAssumption
<1>3. CASE ~ (c + b <= w /\ w < c + a)
    BY <1>1, <1>3, DateShows
<1>4. CASE c + b <= w /\ w < c + a
    <2>1. PICK g \in Int, e \in Int, m \in Int, k \in 0 .. v - 1 :
              g = c + b /\ e = DayOf(g) /\ m = Midnight(e) /\ k = ClockOf(g) /\ g = m + k
        <3>1. PICK g \in Int : g = c + b
            OBVIOUS
        <3>2. /\ DayOf(g) \in Int /\ Midnight(DayOf(g)) \in Int
              /\ ClockOf(g) \in 0 .. v - 1 /\ g = Midnight(DayOf(g)) + ClockOf(g)
            BY <1>2, DayAndClock
        <3> QED  BY <3>1, <3>2
    <2>2. a - b > 0
        BY <1>4
    <2>3. \/ k = 0 /\ a - b < v
          \/ a - b <= k /\ k + 2 * (a - b) <= v
        BY <1>1, <1>2, <2>1, <2>2 DEF ChangesCleanly
    <2>4. CASE k = 0 /\ a - b < v
        <3>1. m <= w /\ w < m + v
            BY <1>4, <2>1, <2>4
        <3>2. DayOf(w) = e
            BY <1>2, <2>1, <3>1, DayIs
        <3>3. Skips(z, e)
            BY <1>1, <1>4, <2>1, <2>2, <2>4 DEF Skips
        <3> QED  BY <3>2, <3>3
    <2>5. CASE a - b <= k /\ k + 2 * (a - b) <= v
        <3>1. PICK x \in Int : x = Local(z, Date(z, w)) /\ x \in {w - (a - b), w + (a - b)}
            BY <1>1, <1>4, DateShows
        <3>2. m <= w /\ w < m + v /\ m <= x /\ x < m + v
            BY <1>4, <2>1, <2>2, <2>5, <3>1
        <3>3. DayOf(w) = e /\ DayOf(x) = e
            BY <1>2, <2>1, <3>2, DayIs
        <3> QED  BY <3>1, <3>3
    <2> QED  BY <2>3, <2>4, <2>5
<1> QED  BY <1>3, <1>4

\* What is made of whole buckets falls on a bucket.
LEMMA WholeBuckets ==
    ASSUME NEW x \in Int, NEW y \in Int, NEW d \in Int,
           x % BucketSize = 0, y % BucketSize = 0
    PROVE  (d * x - y) % BucketSize = 0
<1>1. PICK n \in Nat \ {0} : n = BucketSize
    BY DeductionAssumption
<1>2. PICK p \in Int, q \in Int : x = n * p /\ y = n * q
    <2>1. /\ x \div n \in Int /\ x = n * (x \div n) + (x % n)
          /\ y \div n \in Int /\ y = n * (y \div n) + (y % n)
        OBVIOUS
    <2> QED  BY <1>1, <2>1
<1>3. PICK r \in Int : r = d * p - q
    OBVIOUS
<1>4. d * (n * p) = n * (d * p) /\ n * r = n * (d * p) - n * q
    <2>1. d * (n * p) = n * (d * p)
        OBVIOUS
    <2>2. PICK s \in Int : s = d * p
        OBVIOUS
    <2>3. n * (s - q) = n * s - n * q
        OBVIOUS
    <2> QED  BY <1>3, <2>1, <2>2, <2>3
<1>5. d * x - y = n * r
    BY <1>2, <1>4
<1>6. (n * r + 0) % n = 0
    OBVIOUS
<1> QED  BY <1>1, <1>5, <1>6

\* So a midnight of a zone needs no rounding to a bucket.
LEMMA MidnightOnBucket ==
    ASSUME NEW z \in Clocks, NEW d \in Int,
           z.before % BucketSize = 0, z.after % BucketSize = 0
    PROVE  AlignBucket(Date(z, Midnight(d))) = Date(z, Midnight(d))
<1>1. PICK v \in Nat \ {0} : v = UnitsPerDay /\ v % BucketSize = 0
    BY CalendarAssumption
<1>2. PICK b \in Int, a \in Int : /\ b = z.before /\ a = z.after
                                  /\ b % BucketSize = 0 /\ a % BucketSize = 0
    BY DEF Clocks
<1>3. d * v \in Int /\ Midnight(d) = d * v
    BY <1>1 DEF Midnight
<1>4. PICK t \in Int : t = Date(z, Midnight(d)) /\ t \in {d * v - b, d * v - a}
    BY <1>2, <1>3, DateShows
<1>5. (d * v - b) % BucketSize = 0 /\ (d * v - a) % BucketSize = 0
    BY <1>1, <1>2, WholeBuckets
<1>6. t % BucketSize = 0
    BY <1>4, <1>5
<1> QED  BY <1>4, <1>6 DEF AlignBucket

-----------------------------------------------------------------------------
(* Anchors.                                                                *)

\* The clocks skip no midnight that begins a month nor, where they are behind
\* UTC, one that begins the last day of a month.
MonthEndsKept(z) ==
    /\ \A m \in 1 .. Len(MonthLengths) + 1 : ~ Skips(z, FirstDay[m])
    /\ z.before < 0 => \A m \in Months : ~ Skips(z, FirstDay[m + 1] - 1)

\* The day of month m on which a subscription begun on day n of a month is
\* reset.
AnchorOf(p, n, m) ==
    FirstDay[m] - 1 + IF p = "monthly_1st" THEN 1 ELSE Min({n, MonthLengths[m]})

\* The smaller of two numbers (the built-in min).
LEMMA MinOfTwo ==
    ASSUME NEW a \in Int, NEW b \in Int
    PROVE  Min({a, b}) = IF a <= b THEN a ELSE b
<1> DEFINE m == IF a <= b THEN a ELSE b
<1>1. m \in {a, b} /\ \A y \in {a, b} : m <= y
    OBVIOUS
<1>2. \A x \in {a, b} : (\A y \in {a, b} : x <= y) => x = m
    OBVIOUS
<1> HIDE DEF m
<1>3. \E x \in {a, b} : \A y \in {a, b} : x <= y
    BY <1>1
<1>4. Min({a, b}) \in {a, b} /\ \A y \in {a, b} : Min({a, b}) <= y
    BY <1>3 DEF Min
<1>5. Min({a, b}) = m
    BY <1>2, <1>4
<1> QED  BY <1>5 DEF m

\* An anchor lies in its month.
LEMMA AnchorInMonth ==
    ASSUME NEW p, NEW n \in Nat \ {0}, NEW m \in Months
    PROVE  /\ AnchorOf(p, n, m) \in Int
           /\ FirstDay[m] <= AnchorOf(p, n, m) /\ AnchorOf(p, n, m) < FirstDay[m + 1]
<1>1. PICK f \in Nat, l \in Nat \ {0} :
          f = FirstDay[m] /\ l = MonthLengths[m] /\ FirstDay[m + 1] = f + l
    <2>1. m \in 1 .. Len(MonthLengths) + 1
        BY MonthsFollow
    <2> QED  BY <2>1, MonthsFollow
<1>2. Min({n, l}) = IF n <= l THEN n ELSE l
    BY MinOfTwo
<1> QED  BY <1>1, <1>2 DEF AnchorOf

\* Anchors are in the order of their months.
LEMMA AnchorsInOrder ==
    ASSUME NEW p, NEW n \in Nat \ {0}, NEW k \in Months, NEW m \in Months, k < m
    PROVE  AnchorOf(p, n, k) < FirstDay[m]
<1>1. PICK l \in Nat : l = Len(MonthLengths) /\ k \in 1 .. l /\ m \in 1 .. l
    BY MonthsFollow
<1>2. PICK i \in 1 .. l + 1 : i = k + 1
    BY <1>1
<1>3. FirstDay[i] \in Nat /\ FirstDay[m] \in Nat
    BY <1>1, MonthsFollow
<1>4. FirstDay[i] <= FirstDay[m]
    <2>1. i = m \/ i < m
        BY <1>1, <1>2
    <2>2. CASE i < m
        <3>1. FirstDay[i] < FirstDay[m]
            BY <1>1, <2>2, FirstsInOrder
        <3> QED  BY <1>3, <3>1
    <2> QED  BY <1>3, <2>1, <2>2
<1>5. AnchorOf(p, n, k) \in Int /\ AnchorOf(p, n, k) < FirstDay[i]
    BY <1>2, AnchorInMonth
<1> QED  BY <1>3, <1>4, <1>5

\* The month of an instant in the calendar, and the one after it.
LEMMA MonthAndNext ==
    ASSUME NEW d \in 0 .. FirstDay[Len(MonthLengths)] - 1
    PROVE  /\ MonthOf(d) \in Months /\ MonthOf(d) + 1 \in Months
           /\ FirstDay[MonthOf(d)] \in Nat /\ FirstDay[MonthOf(d) + 1] \in Nat
           /\ FirstDay[MonthOf(d)] <= d /\ d < FirstDay[MonthOf(d) + 1]
           /\ DayInMonth(d) \in Nat \ {0}
<1>1. PICK l \in Nat \ {0} : l = Len(MonthLengths) /\ Months = 1 .. l
    BY CalendarAssumption, MonthsFollow
<1>2. FirstDay[l] \in Nat /\ FirstDay[l + 1] \in Nat /\ FirstDay[l] < FirstDay[l + 1]
    <2>1. l \in Months
        BY <1>1
    <2>2. FirstDay[l] \in Nat /\ MonthLengths[l] \in Nat \ {0}
        BY <1>1, <2>1, MonthsFollow
    <2>3. FirstDay[l + 1] = FirstDay[l] + MonthLengths[l]
        BY <2>1, MonthsFollow
    <2> QED  BY <2>2, <2>3
<1>3. PICK m \in 1 .. l : m = MonthOf(d) /\ FirstDay[m] <= d /\ d < FirstDay[m + 1]
    <2>1. d \in 0 .. FirstDay[Len(MonthLengths) + 1] - 1
        BY <1>1, <1>2
    <2> QED  BY <1>1, <2>1, MonthOfDay
<1>4. FirstDay[m] \in Nat /\ FirstDay[m + 1] \in Nat
    BY <1>1, MonthsFollow
<1>5. m # l
    BY <1>1, <1>2, <1>3
<1>6. m + 1 \in Months /\ m \in Months
    BY <1>1, <1>5
<1>7. DayInMonth(d) \in Nat \ {0}
    BY <1>3, <1>4 DEF DayInMonth
<1> QED  BY <1>3, <1>4, <1>6, <1>7

\* Where the anchor of a day falls (time.Date on a midnight).
LEMMA AnchorFalls ==
    ASSUME NEW z \in Clocks, ChangesCleanly(z), NEW d \in Int
    PROVE  LET t == Date(z, Midnight(d))
           IN  /\ t \in Int
               /\ ~ Skips(z, d) => Local(z, t) = Midnight(d) /\ DayOf(Local(z, t)) = d
               /\ Skips(z, d) /\ z.before >= 0 => t = z.change /\ DayOf(Local(z, t)) = d
               /\ Skips(z, d) /\ z.before < 0 =>
                    t = z.change - (z.after - z.before) /\ DayOf(Local(z, t)) = d - 1
<1>1. Midnight(d) \in Int
    BY MidnightsApart
<1>2. Date(z, Midnight(d)) \in Int
    BY <1>1, DateShows
<1>3. ASSUME ~ Skips(z, d)
      PROVE  /\ Local(z, Date(z, Midnight(d))) = Midnight(d)
             /\ DayOf(Local(z, Date(z, Midnight(d)))) = d
    BY <1>3, KeptMidnight, AtMidnight
<1>4. ASSUME Skips(z, d), z.before >= 0
      PROVE  /\ Date(z, Midnight(d)) = z.change
             /\ DayOf(Local(z, Date(z, Midnight(d)))) = d
    BY <1>4, SkippedMidnight
<1>5. ASSUME Skips(z, d), z.before < 0
      PROVE  /\ Date(z, Midnight(d)) = z.change - (z.after - z.before)
             /\ DayOf(Local(z, Date(z, Midnight(d)))) = d - 1
    BY <1>5, SkippedMidnight
<1> QED  BY <1>2, <1>3, <1>4, <1>5

\* The last day of a month, as time.Date(year, month+1, 0, ...).Day() finds it
\* (reset.go:78), is the length of the month.
LEMMA LastDayIs ==
    ASSUME NEW z \in Clocks, ChangesCleanly(z), MonthEndsKept(z), NEW m \in Months
    PROVE  LastDay(z, m) = MonthLengths[m]
<1>1. PICK f \in Nat, l \in Nat \ {0}, d \in Nat :
          /\ f = FirstDay[m] /\ l = MonthLengths[m] /\ FirstDay[m + 1] = f + l
          /\ d = f + l - 1 /\ d = FirstDay[m + 1] - 1
    <2>1. m \in 1 .. Len(MonthLengths) + 1
        BY MonthsFollow
    <2>2. /\ FirstDay[m] \in Nat /\ MonthLengths[m] \in Nat \ {0}
          /\ FirstDay[m + 1] = FirstDay[m] + MonthLengths[m]
        BY <2>1, MonthsFollow
    <2>3. FirstDay[m] + MonthLengths[m] - 1 \in Nat
        BY <2>2
    <2> QED  BY <2>2, <2>3
<1>2. Skips(z, d) => z.before >= 0
    <2>1. z.before \in Int
        BY DEF Clocks
    <2> QED  BY <1>1, <2>1 DEF MonthEndsKept
<1>3. DayOf(Local(z, Date(z, Midnight(d)))) = d
    BY <1>2, AnchorFalls
<1>4. DayInMonth(d) = d - f + 1
    BY <1>1, MonthOfDayIs
<1> QED  BY <1>1, <1>3, <1>4 DEF LastDay

\* So monthlyAnchor gives the midnight of the anchor (reset.go:77-83).
LEMMA AnchorIs ==
    ASSUME NEW z \in Clocks, ChangesCleanly(z), MonthEndsKept(z),
           NEW m \in Months, NEW n \in Nat \ {0}, NEW p, p # "monthly_1st"
    PROVE  monthlyAnchor(z, m, n) = Date(z, Midnight(AnchorOf(p, n, m)))
<1>1. LastDay(z, m) = MonthLengths[m]
    BY LastDayIs
<1>2. PICK f \in Nat, l \in Nat \ {0} : f = FirstDay[m] /\ l = MonthLengths[m]
    <2>1. m \in 1 .. Len(MonthLengths) + 1
        BY MonthsFollow
    <2> QED  BY <2>1, MonthsFollow
<1>3. PICK k \in Int : k = Min({n, l})
    BY MinOfTwo
<1>4. f + k - 1 = f - 1 + k
    OBVIOUS
<1> QED  BY <1>1, <1>2, <1>3, <1>4 DEF monthlyAnchor, AnchorOf

\* And NextMonthlyFirst the midnight of the first of the next month
\* (reset.go:48-51).
LEMMA FirstIs ==
    ASSUME NEW z \in Clocks, ChangesCleanly(z), MonthEndsKept(z), NEW t,
           DayOf(Local(z, t)) \in 0 .. FirstDay[Len(MonthLengths)] - 1, NEW n
    PROVE  NextMonthlyFirst(z, t) =
               Date(z, Midnight(AnchorOf("monthly_1st", n, MonthOf(DayOf(Local(z, t))) + 1)))
<1>1. PICK m \in Months : m = MonthOf(DayOf(Local(z, t))) /\ m + 1 \in Months
    BY MonthAndNext
<1>2. PICK f \in Nat, g \in Nat : f = FirstDay[m] /\ g = FirstDay[m + 1] /\ f < g
    <2>1. m \in 1 .. Len(MonthLengths) + 1 /\ m + 1 \in 1 .. Len(MonthLengths) + 1 /\ m < m + 1
        BY <1>1, MonthsFollow
    <2>2. FirstDay[m] \in Nat /\ FirstDay[m + 1] \in Nat
        BY <2>1, MonthsFollow
    <2>3. FirstDay[m] < FirstDay[m + 1]
        BY <2>1, FirstsInOrder
    <2> QED  BY <2>2, <2>3
<1>3. ~ Skips(z, f)
    <2>1. m \in 1 .. Len(MonthLengths) + 1
        BY MonthsFollow
    <2> QED  BY <1>2, <2>1 DEF MonthEndsKept
<1>4. Local(z, Date(z, Midnight(f))) = Midnight(f)
    BY <1>3, KeptMidnight
<1>5. DayOf(Midnight(f)) = f /\ ClockOf(Midnight(f)) = 0
    BY AtMidnight
<1>6. MonthOf(f) = m /\ DayInMonth(f) = 1
    <2>1. MonthOf(f) = m /\ DayInMonth(f) = f - f + 1
        BY <1>2, MonthOfDayIs
    <2> QED  BY <2>1
<1>7. AddMonths(z, Date(z, Midnight(f)), 1) = Date(z, Midnight(g + 1 - 1) + 0)
    BY <1>2, <1>4, <1>5, <1>6 DEF AddMonths
<1>8. Midnight(g + 1 - 1) + 0 = Midnight(g)
    <2>1. Midnight(g) \in Int /\ g + 1 - 1 = g
        BY MidnightsApart
    <2> QED  BY <2>1
<1>9. NextMonthlyFirst(z, t) = Date(z, Midnight(g))
    BY <1>1, <1>2, <1>7, <1>8 DEF NextMonthlyFirst
<1>10. AnchorOf("monthly_1st", n, m + 1) = g
    BY <1>2 DEF AnchorOf
<1> QED  BY <1>1, <1>9, <1>10

-----------------------------------------------------------------------------
(* The next reset.                                                         *)

\* What is said of an instant at which the next reset may be: it is an anchor's,
\* it lies ahead, and no anchor lies between.
GoodReset(z, p, n, t, next) ==
    LET day == DayOf(Local(z, next))
        shift == z.after - z.before
    IN  /\ next > t
        /\ AlignBucket(next) = next
        /\ \E m \in Months :
               \/ Local(z, next) = Midnight(AnchorOf(p, n, m))
               \/ /\ Skips(z, AnchorOf(p, n, m))
                  /\ next = IF z.before < 0 THEN z.change - shift ELSE z.change
        /\ ~ \E m \in Months :
               /\ DayOf(Local(z, t)) < AnchorOf(p, n, m) /\ AnchorOf(p, n, m) < day
               /\ Skips(z, AnchorOf(p, n, m)) /\ z.before < 0 => t < z.change - shift

\* The zones of the assumption, with what the calendar takes them for.
LEMMA ZoneIs ==
    ASSUME NEW z \in Zones
    PROVE  /\ z \in Clocks /\ z.before % BucketSize = 0 /\ z.after % BucketSize = 0
           /\ z.before \in Int /\ z.after \in Int /\ z.change \in Int
BY ResetCycleAssumption DEF Clocks

\* An anchor that lies ahead and has no other in between is a good reset.
LEMMA AnchorIsGood ==
    ASSUME NEW z \in Zones, ChangesCleanly(z),
           NEW p, NEW n \in Nat \ {0}, NEW t \in Int, NEW k \in Months,
           Date(z, Midnight(AnchorOf(p, n, k))) > t,
           \A m \in Months :
               /\ DayOf(Local(z, t)) < AnchorOf(p, n, m) /\ AnchorOf(p, n, m) < AnchorOf(p, n, k)
               /\ Skips(z, AnchorOf(p, n, m)) /\ z.before < 0 =>
                    t < z.change - (z.after - z.before)
               => FALSE
    PROVE  GoodReset(z, p, n, t, Date(z, Midnight(AnchorOf(p, n, k))))
<1>1. z \in Clocks /\ z.before % BucketSize = 0 /\ z.after % BucketSize = 0 /\ z.before \in Int
    BY ZoneIs
<1>2. PICK d \in Int : d = AnchorOf(p, n, k)
    BY AnchorInMonth
<1>3. PICK next \in Int : next = Date(z, Midnight(d))
    BY <1>1, AnchorFalls
<1>4. AlignBucket(next) = next
    BY <1>1, <1>3, MidnightOnBucket
<1>5. \/ Local(z, next) = Midnight(d)
      \/ /\ Skips(z, d)
         /\ next = IF z.before < 0 THEN z.change - (z.after - z.before) ELSE z.change
    BY <1>1, <1>3, AnchorFalls
<1>6. PICK e \in Int : e = DayOf(Local(z, next)) /\ e <= d
    <2>1. DayOf(Local(z, next)) \in {d, d - 1}
        BY <1>1, <1>3, AnchorFalls
    <2> QED  BY <2>1
<1>7. \A m \in Months : AnchorOf(p, n, m) < e => AnchorOf(p, n, m) < d
    <2> SUFFICES ASSUME NEW m \in Months, AnchorOf(p, n, m) < e
                 PROVE  AnchorOf(p, n, m) < d
        OBVIOUS
    <2>1. AnchorOf(p, n, m) \in Int
        BY AnchorInMonth
    <2> QED  BY <1>6, <2>1
<1> QED  BY <1>2, <1>3, <1>4, <1>5, <1>6, <1>7 DEF GoodReset

\* The anchor of the next month lies ahead.
LEMMA NextMonthIsAhead ==
    ASSUME NEW z \in Zones, ChangesCleanly(z), MonthEndsKept(z),
           NEW p, NEW n \in Nat \ {0}, NEW t \in Int, NEW m \in Months, m + 1 \in Months,
           DayOf(Local(z, t)) < FirstDay[m + 1]
    PROVE  Date(z, Midnight(AnchorOf(p, n, m + 1))) > t
<1>1. z \in Clocks /\ z.before \in Int
    BY ZoneIs
<1>2. PICK d \in Int, f \in Int : d = AnchorOf(p, n, m + 1) /\ f = FirstDay[m + 1] /\ f <= d
    <2>1. FirstDay[m + 1] \in Int
        BY MonthsFollow
    <2> QED  BY <2>1, AnchorInMonth
<1>3. PICK next \in Int : next = Date(z, Midnight(d))
    BY <1>1, AnchorFalls
<1>4. DayOf(Local(z, next)) \in Int /\ DayOf(Local(z, next)) >= f
    <2>1. \/ DayOf(Local(z, next)) = d
          \/ Skips(z, d) /\ DayOf(Local(z, next)) = d - 1
        BY <1>1, <1>3, AnchorFalls
    <2>2. ~ Skips(z, f)
        <3>1. m + 1 \in 1 .. Len(MonthLengths) + 1
            BY MonthsFollow
        <3> QED  BY <1>2, <3>1 DEF MonthEndsKept
    <2>3. CASE DayOf(Local(z, next)) = d
        BY <1>2, <2>3
    <2>4. CASE Skips(z, d) /\ DayOf(Local(z, next)) = d - 1
        <3>1. d # f
            BY <2>2, <2>4
        <3> QED  BY <1>2, <2>4, <3>1
    <2> QED  BY <2>1, <2>3, <2>4
<1>5. ASSUME next <= t PROVE FALSE
    <2>1. DayOf(Local(z, next)) <= DayOf(Local(z, t))
        BY <1>1, <1>5, LocalDaysInOrder
    <2>2. DayOf(Local(z, t)) \in Int
        <3>1. Local(z, t) \in Int
            BY <1>1, <1>5, LocalDaysInOrder
        <3> QED  BY <3>1, DayAndClock
    <2> QED  BY <1>2, <1>4, <2>1, <2>2
<1> QED  BY <1>2, <1>3, <1>5

\* What NextReset answers, policy by policy.
LEMMA NextResetIsGood ==
    ASSUME NEW z \in Zones, ChangesCleanly(z), MonthEndsKept(z),
           NEW p, NEW s \in Int, NEW t \in Int,
           DayOf(Local(z, s)) \in 0 .. FirstDay[Len(MonthLengths)] - 1,
           DayOf(Local(z, t)) \in 0 .. FirstDay[Len(MonthLengths)] - 1
    PROVE  \/ NextReset(p, z, s, t) = NoReset
           \/ GoodReset(z, p, DayInMonth(DayOf(Local(z, s))), t, NextReset(p, z, s, t))
<1>1. z \in Clocks /\ z.before \in Int /\ z.after \in Int /\ z.change \in Int
    BY ZoneIs
<1>2. PICK n \in Nat \ {0} : n = DayInMonth(DayOf(Local(z, s)))
    BY MonthAndNext
<1>3. PICK d \in Nat, m \in Months, i \in Months, f \in Nat, g \in Nat :
          /\ d = DayOf(Local(z, t)) /\ m = MonthOf(d) /\ i = m + 1
          /\ f = FirstDay[m] /\ g = FirstDay[i] /\ f <= d /\ d < g
    <2>1. FirstDay[Len(MonthLengths)] \in Int
        <3>1. Len(MonthLengths) \in 1 .. Len(MonthLengths) + 1
            BY CalendarAssumption
        <3> QED  BY <3>1, MonthsFollow
    <2>2. PICK d \in Nat : d = DayOf(Local(z, t)) /\ d \in 0 .. FirstDay[Len(MonthLengths)] - 1
        BY <2>1
    <2> QED  BY <2>2, MonthAndNext
<1>4. Months \subseteq Int
    BY MonthsFollow
<1>5. CASE p = "monthly_1st"
    <2>1. PICK next \in Int : next = Date(z, Midnight(AnchorOf(p, n, i)))
        <3>1. AnchorOf(p, n, i) \in Int
            BY AnchorInMonth
        <3> QED  BY <1>1, <3>1, AnchorFalls
    <2>2. NextMonthlyFirst(z, t) = next
        BY <1>1, <1>3, <1>5, <2>1, FirstIs
    <2>3. next > t
        BY <1>3, <2>1, NextMonthIsAhead
    <2>4. ASSUME NEW k \in Months, d < AnchorOf(p, n, k), AnchorOf(p, n, k) < AnchorOf(p, n, i)
          PROVE  FALSE
        <3>1. AnchorOf(p, n, k) = FirstDay[k] /\ AnchorOf(p, n, i) = g
            <4>1. FirstDay[k] \in Nat
                BY MonthsFollow
            <4> QED  BY <1>3, <1>5, <4>1 DEF AnchorOf
        <3>2. FirstDay[k] \in Nat /\ k \in Int /\ m \in Int
            BY MonthsFollow
        <3>3. CASE k <= m
            <4>1. FirstDay[k] <= f
                <5>1. CASE k = m
                    <6>1. FirstDay[k] = f
                        BY <1>3, <5>1
                    <6> QED  BY <6>1
                <5>2. CASE k < m
                    <6>1. k \in 1 .. Len(MonthLengths) + 1 /\ m \in 1 .. Len(MonthLengths) + 1
                        BY MonthsFollow
                    <6>2. FirstDay[k] < FirstDay[m]
                        BY <5>2, <6>1, FirstsInOrder
                    <6> QED  BY <1>3, <3>2, <6>2
                <5> QED  BY <3>2, <3>3, <5>1, <5>2
            <4> QED  BY <1>3, <2>4, <3>1, <3>2, <4>1
        <3>4. CASE k = i
            BY <2>4, <3>1, <3>2, <3>4, <1>3
        <3>5. CASE i < k
            <4>1. FirstDay[i] < FirstDay[k]
                BY <3>5, MonthsFollow, FirstsInOrder
            <4> QED  BY <1>3, <2>4, <3>1, <3>2, <4>1
        <3> QED  BY <1>3, <3>2, <3>3, <3>4, <3>5
    <2>5. GoodReset(z, p, n, t, next)
        BY <1>3, <2>1, <2>3, <2>4, AnchorIsGood
    <2>6. NextReset(p, z, s, t) = AlignBucket(next)
        BY <1>5, <2>2 DEF NextReset
    <2>7. AlignBucket(next) = next
        BY <2>5 DEF GoodReset
    <2> QED  BY <1>2, <2>5, <2>6, <2>7
<1>6. CASE p = "monthly_signup"
    <2>1. PICK a \in Int, b \in Int : /\ a = AnchorOf(p, n, m) /\ f <= a /\ a < g
                                      /\ b = AnchorOf(p, n, i) /\ g <= b
        BY <1>3, AnchorInMonth
    <2>2. PICK this \in Int, next \in Int :
              this = Date(z, Midnight(a)) /\ next = Date(z, Midnight(b))
        BY <1>1, AnchorFalls
    <2>3. monthlyAnchor(z, m, n) = this /\ monthlyAnchor(z, i, n) = next
        BY <1>1, <1>6, <2>1, <2>2, AnchorIs
    <2>4. NextMonthlySignup(z, s, t) = IF this > t THEN this ELSE next
        BY <1>2, <1>3, <2>3 DEF NextMonthlySignup
    <2>5. NextReset(p, z, s, t) = AlignBucket(IF this > t THEN this ELSE next)
        BY <1>6, <2>4 DEF NextReset
    <2>6. ASSUME NEW k \in Months, d < AnchorOf(p, n, k), AnchorOf(p, n, k) < b
          PROVE  k = m
        <3>1. AnchorOf(p, n, k) \in Int /\ k \in Int /\ m \in Int
            BY <1>4, AnchorInMonth
        <3>2. ~ k < m
            <4> SUFFICES ASSUME k < m PROVE FALSE
                OBVIOUS
            <4>1. AnchorOf(p, n, k) < f
                BY <1>3, AnchorsInOrder
            <4> QED  BY <1>3, <2>6, <3>1, <4>1
        <3>3. k # i
            BY <2>1, <2>6
        <3>4. ~ i < k
            <4> SUFFICES ASSUME i < k PROVE FALSE
                OBVIOUS
            <4>1. b < FirstDay[k]
                BY <2>1, AnchorsInOrder
            <4>2. FirstDay[k] <= AnchorOf(p, n, k) /\ FirstDay[k] \in Int
                BY AnchorInMonth, MonthsFollow
            <4> QED  BY <2>1, <2>6, <3>1, <4>1, <4>2
        <3> QED  BY <1>3, <3>1, <3>2, <3>3, <3>4
    <2>7. CASE this > t
        <3>1. ASSUME NEW k \in Months, d < AnchorOf(p, n, k), AnchorOf(p, n, k) < a
              PROVE  FALSE
            <4>1. AnchorOf(p, n, k) \in Int
                BY AnchorInMonth
            <4>2. AnchorOf(p, n, k) < b
                BY <1>3, <2>1, <3>1, <4>1
            <4>3. k = m
                BY <2>6, <3>1, <4>2
            <4> QED  BY <2>1, <3>1, <4>1, <4>3
        <3>2. GoodReset(z, p, n, t, this)
            BY <1>3, <2>1, <2>2, <2>7, <3>1, AnchorIsGood
        <3>3. AlignBucket(this) = this
            BY <3>2 DEF GoodReset
        <3> QED  BY <1>2, <2>5, <2>7, <3>2, <3>3
    <2>8. CASE ~ this > t
        <3>1. next > t
            BY <1>3, <2>1, <2>2, NextMonthIsAhead
        <3>2. ASSUME NEW k \in Months, d < AnchorOf(p, n, k), AnchorOf(p, n, k) < b,
                     Skips(z, AnchorOf(p, n, k)) /\ z.before < 0 =>
                       t < z.change - (z.after - z.before)
              PROVE  FALSE
            <4>1. k = m /\ d < a
                BY <2>1, <2>6, <3>2
            <4>2. this <= t
                BY <2>8
            <4>3. DayOf(Local(z, this)) <= d
                BY <1>1, <1>3, <4>2, LocalDaysInOrder
            <4>4. DayOf(Local(z, this)) # a
                <5>1. d \in Int /\ a \in Int /\ ~ (a <= d)
                    BY <4>1
                <5> QED  BY <4>3, <5>1
            <4>5. Skips(z, a) /\ z.before < 0 /\ this = z.change - (z.after - z.before)
                <5>1. ~ Skips(z, a) => DayOf(Local(z, this)) = a
                    BY <1>1, <2>2, AnchorFalls
                <5>2. Skips(z, a) /\ z.before >= 0 => DayOf(Local(z, this)) = a
                    BY <1>1, <2>2, AnchorFalls
                <5>3. Skips(z, a) /\ z.before < 0 => this = z.change - (z.after - z.before)
                    BY <1>1, <2>2, AnchorFalls
                <5> QED  BY <1>1, <4>4, <5>1, <5>2, <5>3
            <4>6. t < this
                BY <2>1, <3>2, <4>1, <4>5
            <4> QED  BY <4>2, <4>6
        <3>3. GoodReset(z, p, n, t, next)
            BY <1>3, <2>1, <2>2, <3>1, <3>2, AnchorIsGood
        <3>4. AlignBucket(next) = next
            BY <3>3 DEF GoodReset
        <3> QED  BY <1>2, <2>5, <2>8, <3>3, <3>4
    <2> QED  BY <2>7, <2>8
<1>7. CASE p \notin {"monthly_1st", "monthly_signup"}
    BY <1>7 DEF NextReset
<1> QED  BY <1>5, <1>6, <1>7

-----------------------------------------------------------------------------
(* The cycle of resets.                                                    *)

\* What the theorems about resets take the billing timezones to be.
ZonesChangeCleanly == \A z \in Zones : ChangesCleanly(z)
ZonesKeepMonthEnds == \A z \in Zones : MonthEndsKept(z)
WestKeepsAnchors ==
    \A z \in Zones, p \in ResetPolicies \ {"never"}, s \in Signups, m \in Months :
        z.before < 0 => ~ Skips(z, AnchorOf(p, DayInMonth(DayOf(Local(z, s))), m))

\* The instants are among those the calendar is long enough for, and the next
\* reset is what NextReset said when it was last asked.
CycleInv ==
    /\ zone \in Zones /\ policy \in ResetPolicies /\ signup \in Signups
    /\ today \in {signup} \cup signup .. LastInstant
    /\ asked \in {signup} \cup signup .. LastInstant
    /\ next_reset_at = NextReset(policy, zone, signup, asked)

\* Time and the job keep to that.
LEMMA CycleInductive == CycleSpec => []CycleInv
<1>1. CycleInit => CycleInv
    BY DEF CycleInit, CycleInv
<1>2. CycleInv /\ [CycleNext]_cycleVars => CycleInv'
    <2> SUFFICES ASSUME CycleInv, [CycleNext]_cycleVars PROVE CycleInv'
        OBVIOUS
    <2>1. signup \in Int /\ LastInstant \in Int /\ today \in Int /\ signup <= today
        <3>1. signup \in Int /\ LastInstant \in Int
            BY ResetCycleAssumption DEF CycleInv
        <3> QED  BY <3>1 DEF CycleInv
    <2>2. CASE Tick
        <3>1. today + 1 \in signup .. LastInstant
            BY <2>1, <2>2 DEF Tick
        <3> QED  BY <2>2, <3>1 DEF Tick, settings, CycleInv
    <2>3. CASE Reset
        BY <2>3 DEF Reset, settings, CycleInv
    <2>4. CASE UNCHANGED cycleVars
        BY <2>4 DEF cycleVars, CycleInv
    <2> QED  BY <2>2, <2>3, <2>4 DEF CycleNext
<1> QED  BY <1>1, <1>2, PTL DEF CycleSpec

\* The instants of the cycle have their dates in the calendar.
LEMMA CycleDates ==
    ASSUME CycleInv
    PROVE  /\ signup \in Int /\ today \in Int /\ asked \in Int
           /\ DayOf(Local(zone, signup)) \in 0 .. FirstDay[Len(MonthLengths)] - 1
           /\ DayOf(Local(zone, today)) \in 0 .. FirstDay[Len(MonthLengths)] - 1
           /\ DayOf(Local(zone, asked)) \in 0 .. FirstDay[Len(MonthLengths)] - 1
<1>1. signup \in Int /\ LastInstant \in Int
    BY ResetCycleAssumption DEF CycleInv
<1>2. today \in Int /\ asked \in Int
    BY <1>1 DEF CycleInv
<1>3. \A t \in {signup} \cup signup .. LastInstant :
          DayOf(Local(zone, t)) \in 0 .. FirstDay[Len(MonthLengths)] - 1
    BY ResetCycleAssumption DEF CycleInv
<1> QED  BY <1>1, <1>2, <1>3 DEF CycleInv

\* What was said of NextReset's answer holds of the next reset.
LEMMA NextIsGood ==
    ASSUME CycleInv, ZonesChangeCleanly, ZonesKeepMonthEnds, next_reset_at # NoReset
    PROVE  GoodReset(zone, policy, SignupDay, asked, next_reset_at)
<1>1. PICK z \in Zones, s \in Int, t \in Int : z = zone /\ s = signup /\ t = asked
    BY CycleDates DEF CycleInv
<1>2. ChangesCleanly(z) /\ MonthEndsKept(z)
    BY DEF ZonesChangeCleanly, ZonesKeepMonthEnds
<1>3. /\ DayOf(Local(z, s)) \in 0 .. FirstDay[Len(MonthLengths)] - 1
      /\ DayOf(Local(z, t)) \in 0 .. FirstDay[Len(MonthLengths)] - 1
    BY <1>1, CycleDates
<1>4. next_reset_at = NextReset(policy, z, s, t)
    BY <1>1 DEF CycleInv
<1>5. GoodReset(z, policy, DayInMonth(DayOf(Local(z, s))), t, next_reset_at)
    BY <1>1, <1>2, <1>3, <1>4, NextResetIsGood
<1> QED  BY <1>1, <1>5 DEF SignupDay, LocalDay

\* A reset leaves the next one in the future (reset.go:30-31), where the clocks
\* change far from a midnight or at one that is neither the first nor, west of
\* Greenwich, the last of a month.  Paraguay's, that skipped the midnight of a
\* first, is the case the hypothesis leaves out and the code gets wrong.
THEOREM ResetsLeaveTheNextAhead ==
    ASSUME ZonesChangeCleanly, ZonesKeepMonthEnds
    PROVE  CycleSpec => []NextIsAhead
<1>1. CycleInv => NextIsAhead
    <2> SUFFICES ASSUME CycleInv, next_reset_at # NoReset
                 PROVE  next_reset_at > asked
        BY DEF NextIsAhead
    <2>1. GoodReset(zone, policy, SignupDay, asked, next_reset_at)
        BY NextIsGood
    <2> QED  BY <2>1 DEF GoodReset
<1> QED  BY <1>1, CycleInductive, PTL

\* In such zones the next reset is on the anchor of a month, at local midnight
\* or, where that is skipped, at the first instant of its day, and no month is
\* passed over, however late the job comes and however short the month
\* (reset.go:34-39, 57-68) -- as long as no clock behind UTC skips the midnight
\* of an anchor: there the code answers an hour before the day.
THEOREM ResetsLandOnAnchors ==
    ASSUME ZonesChangeCleanly, ZonesKeepMonthEnds, WestKeepsAnchors
    PROVE  CycleSpec => []LandsOnTheNextAnchor
<1>1. CycleInv => LandsOnTheNextAnchor
    <2> SUFFICES ASSUME CycleInv, next_reset_at # NoReset
                 PROVE  LandsOnTheNextAnchor
        BY DEF LandsOnTheNextAnchor
    <2>1. GoodReset(zone, policy, SignupDay, asked, next_reset_at)
        BY NextIsGood
    <2>2. \A m : AnchorDay(m) = AnchorOf(policy, SignupDay, m)
        BY DEF AnchorDay, AnchorOf
    <2>3. policy \in ResetPolicies \ {"never"}
        BY DEF CycleInv, NextReset
    <2>4. \A m \in Months : zone.before < 0 => ~ Skips(zone, AnchorDay(m))
        BY <2>2, <2>3 DEF WestKeepsAnchors, CycleInv, SignupDay, LocalDay
    <2>5. \E m \in Months :
              \/ Local(zone, next_reset_at) = Midnight(AnchorDay(m))
              \/ NoMidnight(AnchorDay(m)) /\ next_reset_at = zone.change
        BY <2>1, <2>2, <2>4 DEF GoodReset, NoMidnight
    <2>6. ~ \E m \in Months :
              LocalDay(asked) < AnchorDay(m) /\ AnchorDay(m) < LocalDay(next_reset_at)
        BY <2>1, <2>2, <2>4 DEF GoodReset, LocalDay
    <2> QED  BY <2>5, <2>6 DEF LandsOnTheNextAnchor
<1> QED  BY <1>1, CycleInductive, PTL

\* The days between two dates, counted down to zero.
LEMMA LocalDaysLeft ==
    ASSUME NEW z, NEW t, NEW u, NEW d \in Int, NEW e \in Int,
           DayOf(Local(z, t)) = d, DayOf(Local(z, u)) = e
    PROVE  RemainingLocalDays(z, t, u) = IF e - d <= 0 THEN 0 ELSE e - d
<1>1. PICK n \in Int : n = e - d
    OBVIOUS
<1>2. Max({0, n}) = IF 0 >= n THEN 0 ELSE n
    BY MaxOfTwo
<1> QED  BY <1>1, <1>2 DEF RemainingLocalDays

\* No clock changes by more than a day.
LEMMA ShiftIsADay ==
    ASSUME NEW z \in Clocks, ChangesCleanly(z)
    PROVE  z.after - z.before <= UnitsPerDay /\ z.before - z.after <= UnitsPerDay
<1>1. PICK b \in Int, a \in Int, c \in Int : b = z.before /\ a = z.after /\ c = z.change
    BY DEF Clocks
<1>2. PICK v \in Nat \ {0} : v = UnitsPerDay
    BY CalendarAssumption
<1>3. PICK k \in 0 .. v - 1, l \in 0 .. v - 1 : k = ClockOf(c + b) /\ l = ClockOf(c + a)
    <2>1. c + b \in Int /\ c + a \in Int
        OBVIOUS
    <2>2. ClockOf(c + b) \in 0 .. v - 1 /\ ClockOf(c + a) \in 0 .. v - 1
        BY <1>2, <2>1, DayAndClock
    <2> QED  BY <2>2
<1>4. /\ a - b > 0 => \/ k = 0 /\ a - b < v
                      \/ a - b <= k /\ k + 2 * (a - b) <= v
      /\ a - b < 0 => l - (a - b) <= v
    BY <1>1, <1>2, <1>3 DEF ChangesCleanly
<1> QED  BY <1>1, <1>2, <1>4

UTC == [before |-> 0, after |-> 0, change |-> 0]

\* Days added in UTC come out on the local date, or the one before or after it.
LEMMA DaysAddedInUTC ==
    ASSUME NEW z \in Clocks, ChangesCleanly(z), NEW s \in Int, NEW n \in Nat
    PROVE  DayOf(Local(z, AddLocalDays(UTC, s, n)))
               \in DayOf(Local(z, s)) + n - 1 .. DayOf(Local(z, s)) + n + 1
<1>1. PICK b \in Int, a \in Int, c \in Int : b = z.before /\ a = z.after /\ c = z.change
    BY DEF Clocks
<1>2. PICK v \in Nat \ {0} : v = UnitsPerDay
    BY CalendarAssumption
<1>3. PICK m \in Nat : m = Midnight(n)
    <2>1. Midnight(0) = 0
        BY <1>2 DEF Midnight
    <2>2. Midnight(0) <= Midnight(n) /\ Midnight(n) \in Int
        BY MidnightsApart
    <2> QED  BY <2>1, <2>2
<1>4. PICK u \in Int : u = s + m
    OBVIOUS
<1>5. AddLocalDays(UTC, s, n) = u
    <2>1. Local(UTC, s) = s
        BY DEF Local, OffsetAt, UTC
    <2>2. Date(UTC, u) = u
        BY DEF Date, OffsetAt, UTC
    <2> QED  BY <1>3, <1>4, <2>1, <2>2 DEF AddLocalDays
<1>6. PICK x \in Int, y \in Int : /\ x = Local(z, s) /\ y = Local(z, u)
                                  /\ x = (IF s < c THEN s + b ELSE s + a)
                                  /\ y = (IF u < c THEN u + b ELSE u + a)
    BY <1>1 DEF Local, OffsetAt
<1>7. a - b <= v /\ b - a <= v
    BY <1>1, <1>2, ShiftIsADay
<1>8. PICK w \in Int, d \in Int, e \in Int : w = x + m /\ e = DayOf(w) /\ e = DayOf(x) + n
    <2>1. DayOf(x) \in Int /\ DayOf(x + Midnight(n)) = DayOf(x) + n
        BY DayAndClock, DaysInOrder
    <2> QED  BY <1>3, <2>1
<1>9. w - v <= y /\ y <= w + v
    BY <1>4, <1>6, <1>7, <1>8
<1>10. DayOf(w + v) = e + 1 /\ DayOf(w - v) = e - 1
    <2>1. PICK i \in Int : i = -1
        OBVIOUS
    <2>2. Midnight(1) = v /\ Midnight(i) = -v
        BY <1>2, <2>1 DEF Midnight
    <2>3. DayOf(w + Midnight(1)) = DayOf(w) + 1 /\ DayOf(w + Midnight(i)) = DayOf(w) + i
        BY DaysInOrder
    <2>4. w + (-v) = w - v /\ e + i = e - 1
        BY <2>1
    <2> QED  BY <1>8, <2>2, <2>3, <2>4
<1>11. PICK f \in Int : f = DayOf(y)
    BY DayAndClock
<1>12. e - 1 <= f /\ f <= e + 1
    <2>1. PICK g \in Int, h \in Int : g = w - v /\ h = w + v /\ g <= y /\ y <= h
        BY <1>9
    <2>2. DayOf(g) <= DayOf(y) /\ DayOf(y) <= DayOf(h)
        BY <2>1, DaysInOrder
    <2> QED  BY <1>10, <1>11, <2>1, <2>2
<1>13. DayOf(Local(z, AddLocalDays(UTC, s, n))) = f
    BY <1>5, <1>6, <1>11
<1>14. PICK g \in Int : g = DayOf(Local(z, s)) /\ e = g + n
    BY <1>6, <1>8, DayAndClock
<1>15. g + n - 1 <= f /\ f <= g + n + 1
    BY <1>12, <1>14
<1>16. f \in g + n - 1 .. g + n + 1
    BY <1>15
<1> QED  BY <1>13, <1>14, <1>16

\* Days bought in the billing timezone are the days counted down, one per local
\* date, across a change of the clocks that is far from a midnight or at it;
\* days bought in UTC come out one off at most (plan.go:126-164, 184, 206).
THEOREM DaysAreCountedDown ==
    ASSUME ZonesChangeCleanly
    PROVE  CycleSpec => []DaysCountDown
<1>1. CycleInv => DaysCountDown
    <2> SUFFICES ASSUME CycleInv PROVE DaysCountDown
        OBVIOUS
    <2>1. PICK z \in Clocks, s \in Int, t \in Int, n \in Nat :
              z = zone /\ s = signup /\ t = today /\ n = PeriodDays
        BY CycleDates, ZoneIs, ResetCycleAssumption DEF CycleInv
    <2>2. ChangesCleanly(z)
        BY <2>1 DEF ZonesChangeCleanly, CycleInv
    <2>3. PICK x \in Int, d \in Int, e \in Int :
              x = Local(z, s) /\ d = DayOf(x) /\ e = DayOf(Local(z, t))
        <3>1. Local(z, s) \in Int /\ Local(z, t) \in Int
            BY <2>2, LocalDaysInOrder
        <3> QED  BY <3>1, DayAndClock
    <2>4. Max({0, n - (e - d)}) = IF n - (e - d) <= 0 THEN 0 ELSE n - (e - d)
        <3>1. PICK k \in Int : k = n - (e - d)
            OBVIOUS
        <3>2. Max({0, k}) = IF 0 >= k THEN 0 ELSE k
            BY MaxOfTwo
        <3> QED  BY <3>1, <3>2
    <2>5. ASSUME ~ Skips(z, d + n)
          PROVE  RemainingLocalDays(z, t, AddLocalDays(z, s, n)) = Max({0, n - (e - d)})
        <3>1. PICK w \in Int : w = x + Midnight(n) /\ DayOf(w) = d + n
            <4>1. Midnight(n) \in Int
                BY MidnightsApart
            <4>2. DayOf(x + Midnight(n)) = DayOf(x) + n
                BY DaysInOrder
            <4> QED  BY <2>3, <4>1, <4>2
        <3>2. DayOf(Local(z, Date(z, w))) = d + n
            BY <2>2, <2>5, <3>1, DayKept
        <3>3. AddLocalDays(z, s, n) = Date(z, w)
            BY <2>3, <3>1 DEF AddLocalDays
        <3>4. PICK f \in Int : f = d + n
            OBVIOUS
        <3>5. RemainingLocalDays(z, t, Date(z, w)) = IF f - e <= 0 THEN 0 ELSE f - e
            BY <2>3, <3>2, <3>4, LocalDaysLeft
        <3> QED  BY <2>4, <3>3, <3>4, <3>5
    <2>6. RemainingLocalDays(z, t, AddLocalDays(UTC, s, n))
              \in Max({0, n - (e - d)}) - 1 .. Max({0, n - (e - d)}) + 1
        <3>1. PICK f \in Int : /\ f = DayOf(Local(z, AddLocalDays(UTC, s, n)))
                               /\ d + n - 1 <= f /\ f <= d + n + 1
            <4>1. DayOf(Local(z, AddLocalDays(UTC, s, n)))
                      \in DayOf(Local(z, s)) + n - 1 .. DayOf(Local(z, s)) + n + 1
                BY <2>2, DaysAddedInUTC
            <4>2. DayOf(Local(z, s)) = d
                BY <2>3
            <4> QED  BY <4>1, <4>2
        <3>2. RemainingLocalDays(z, t, AddLocalDays(UTC, s, n)) = IF f - e <= 0 THEN 0 ELSE f - e
            BY <2>3, <3>1, LocalDaysLeft
        <3> QED  BY <2>4, <3>1, <3>2
    <2>7. LocalDay(signup) = d /\ LocalDay(today) = e
        BY <2>1, <2>3 DEF LocalDay
    <2>8. ~ NoMidnight(LocalDay(signup) + PeriodDays) =>
              RemainingLocalDays(zone, today, AddLocalDays(zone, signup, PeriodDays)) =
              Max({0, PeriodDays - (LocalDay(today) - LocalDay(signup))})
        BY <2>1, <2>5, <2>7 DEF NoMidnight
    <2>9. RemainingLocalDays(zone, today, AddLocalDays(UTC, signup, PeriodDays)) \in
              Max({0, PeriodDays - (LocalDay(today) - LocalDay(signup))}) - 1 ..
              Max({0, PeriodDays - (LocalDay(today) - LocalDay(signup))}) + 1
        BY <2>1, <2>6, <2>7
    <2> QED  BY <2>8, <2>9 DEF DaysCountDown, UTC
<1> QED  BY <1>1, CycleInductive, PTL
=============================================================================
