-------------------------------- MODULE Balance --------------------------------
(***************************************************************************)
(* One user's balance: Deduct of src/internal/domain/money.go in front of  *)
(* the conditional UPDATE that 0001_core.sql puts every spend through, and *)
(* the row of balance_logs every movement writes (0002_business.sql).      *)
(*                                                                         *)
(* The store around them is not written yet.  A movement is taken to be    *)
(* one transaction that moves the balance and writes the row; where the    *)
(* pair of the row comes from is not said, so either value may go by what  *)
(* the session read earlier or by what the UPDATE found, and the CHECK     *)
(* lets through what fits.                                                 *)
(***************************************************************************)
EXTENDS Integers, Sequences

CONSTANTS Sessions,    \* requests of the user that run at the same time
          Amounts,     \* amounts they ask for: Sub lets one be negative
          MaxLog       \* bound: movements

ASSUME BalanceAssumption == Amounts \subseteq Int /\ MaxLog \in Nat

VARIABLES balance,     \* users.balance
          log,         \* balance_logs, in the order of its ids
          session      \* what every session is doing

balanceVars == <<balance, log, session>>

Idle == [op |-> "none"]

BalanceTypeOK ==
    /\ balance \in Int
    /\ log \in Seq([delta : Int, before : Int, after : Int]) /\ Len(log) <= MaxLog
    /\ session \in [Sessions -> {Idle} \cup [op : {"spend"}, amount : Amounts \cap Nat, read : Int]]

BalanceInit ==
    /\ balance = 0 /\ log = <<>>
    /\ session = [s \in Sessions |-> Idle]

Deduct(b, amount) ==
    CASE amount < 0              -> "negative"
      [] amount >= 0 /\ b < amount -> "insufficient"
      [] OTHER                   -> "ok"

\* Mutant: the application-level check is taken for the guarantee.
CoversMutant(amount) == TRUE

\* ... WHERE balance >= amount.
Covers(amount) == balance >= amount

ck_balance_log_arith(row) == row.after = row.before + row.delta

\* The balance moves and the row is written, or the transaction aborts.
Move(delta, reads) ==
    /\ Len(log) < MaxLog
    /\ \E before \in reads, b \in reads :
          LET row == [delta |-> delta, before |-> before, after |-> b + delta]
          IN  /\ ck_balance_log_arith(row)
              /\ log' = Append(log, row)
    /\ balance' = balance + delta

-----------------------------------------------------------------------------
\* The session reads the balance and passes Deduct, or is turned away there.
Check(s) ==
    /\ session[s] = Idle
    /\ \E amount \in Amounts :
          /\ Deduct(balance, amount) = "ok"
          /\ session' = [session EXCEPT ![s] = [op |-> "spend", amount |-> amount, read |-> balance]]
    /\ UNCHANGED <<balance, log>>

Spend(s) ==
    /\ session[s] # Idle
    /\ Covers(session[s].amount)
    /\ Move(-session[s].amount, {session[s].read, balance})
    /\ session' = [session EXCEPT ![s] = Idle]

\* No row updated, a CHECK that aborts, or a crash.
Rollback(s) ==
    /\ session[s] # Idle
    /\ session' = [session EXCEPT ![s] = Idle]
    /\ UNCHANGED <<balance, log>>

\* A surplus payment or the difference of a downgrade.
Credit ==
    /\ \E amount \in Amounts : amount > 0 /\ Move(amount, {balance})
    /\ UNCHANGED session

\* A commission taken back, withdrawn or not.
ClawBack ==
    /\ \E amount \in Amounts : amount > 0 /\ Move(-amount, {balance})
    /\ UNCHANGED session

BalanceNext ==
    \/ \E s \in Sessions : Check(s) \/ Spend(s) \/ Rollback(s)
    \/ Credit \/ ClawBack

BalanceSpec == BalanceInit /\ [][BalanceNext]_balanceVars

-----------------------------------------------------------------------------
(***************************************************************************)
(* A spend takes what was there and never more, and never adds: neither    *)
(* two spends at once nor a clawback between the check and the write can   *)
(* overdraw (money.go:21-26, 0001_core.sql:41-51), and no amount a         *)
(* downgrade left negative tops the balance up.                            *)
(***************************************************************************)
SpendsStayCovered ==
    [][session' # session /\ log' # log => balance' >= 0 /\ balance' <= balance]_balanceVars

\* The log locates a discrepancy (0002_business.sql:103-105): every row starts
\* where the one before it ended and the last one ends here.  The CHECK does
\* not see to it, a pair that comes from one stale read passes: the store has
\* to take the pair from its UPDATE.
RowsChain ==
    /\ \A i \in 1..Len(log) : log[i].before = IF i = 1 THEN 0 ELSE log[i - 1].after
    /\ balance = IF Len(log) = 0 THEN 0 ELSE log[Len(log)].after
=============================================================================
