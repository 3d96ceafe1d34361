------------------------------ MODULE LadderOps ------------------------------
(***************************************************************************)
(* What the operations of src/internal/metering/ladder.go do to one user's *)
(* list of subscriptions, apart from who holds the lock: QuotaLadder runs  *)
(* them under it, Metering inside a Flusher that crashes and restarts.     *)
(***************************************************************************)
EXTENDS Deduction

\* Mutant: Sync installs the counters of the table.
KeepKnownMutant(next, old) == next

\* The counters the ladder holds survive; the rest of every entry is new.
KeepKnown(next, old) ==
    LET known(id) == CHOOSE i \in DOMAIN old :
                        /\ old[i].ID = id
                        /\ \A j \in DOMAIN old : j > i => old[j].ID # id
    IN  [i \in DOMAIN next |->
            IF HasID(old, next[i].ID)
            THEN [next[i] EXCEPT !.UsedBytes = old[known(next[i].ID)].UsedBytes]
            ELSE next[i]]

Overwritten(list, id, used) ==
    [i \in DOMAIN list |->
        IF IsFirst(list, id, i) THEN [list[i] EXCEPT !.UsedBytes = used]
                                ELSE list[i]]

RolledOver(list, id, epoch, at) ==
    [i \in DOMAIN list |->
        IF IsFirst(list, id, i)
        THEN [list[i] EXCEPT !.UsedBytes = 0,
                             !.ResetEpoch = epoch,
                             !.LastResetAt = AlignBucket(at)]
        ELSE list[i]]

\* Mutant: a late bucket consumes the fresh allowance.
ChargeMutant(list, row, at) == ApplyRow(list, row)

\* A row moves the counter of its subscription only if its bucket belongs to
\* that subscription's current period.
Charge(list, row, at) ==
    IF row.SubscriptionID = OverflowSubscriptionID
    THEN list
    ELSE [i \in DOMAIN list |->
             IF /\ IsFirst(list, row.SubscriptionID, i)
                /\ CountsTowardCurrentPeriod(at, list[i].LastResetAt)
             THEN [list[i] EXCEPT !.UsedBytes = @ + row.Billed]
             ELSE list[i]]

\* The rows of one attribution, in turn.
Charged(list, rows, at) == FoldLeft(LAMBDA l, r : Charge(l, r, at), list, rows)
=============================================================================
