------------------------------- MODULE Metering -------------------------------
(***************************************************************************)
(* The ladder of src/internal/metering/ladder.go at work: one Flusher, one *)
(* user, the ledger and the batch gate of migrations/0001_core.sql, the    *)
(* write-ahead log, and the jobs that feed the ladder.  What a ladder      *)
(* method does is LadderOps; the Flusher, the jobs and the log are not     *)
(* written yet and are external, modelled from the order the comments of   *)
(* ladder.go and the schema rely on (docs/design/v1.0.md 7.3, 7.6, 7.8):   *)
(* log the batch, attribute it, commit it through the gate, forget it.     *)
(*                                                                         *)
(* A behaviour suffers the disturbances in faults:                         *)
(*   "crash"      the Flusher dies anywhere and hydrates                   *)
(*   "stale"      a Sync may install a table row read before a reset       *)
(*   "midBucket"  a reset runs after traffic of its own bucket             *)
(*   "midFlush"   a Rebuild runs while the Flusher has a batch in hand     *)
(*   "drop"       the user is dropped, and brought back by Rebuild         *)
(*   "resync"     or by a Sync                                             *)
(***************************************************************************)
EXTENDS LadderOps

CONSTANTS Plans,        \* the user's rows of the subscriptions table
          Bills,        \* billed amounts of a batch
          MaxClock, MaxBatches, MaxCrashes, MaxResets,
          Disturbances  \* sets of faults that come together

ASSUME MeteringAssumption ==
    /\ Plans \in Seq(SubQuota)
    /\ \A i, j \in DOMAIN Plans : Plans[i].ID = Plans[j].ID => i = j
    /\ \A i \in DOMAIN Plans : Plans[i].UsedBytes = 0
    /\ Bills \subseteq Nat \ {0}
    /\ {MaxClock, MaxBatches, MaxCrashes, MaxResets} \subseteq Nat
    /\ Disturbances \subseteq
          SUBSET {"crash", "stale", "midBucket", "midFlush", "drop", "resync"}

VARIABLES clock,
          table,     \* subscriptions: used_bytes trails, last_reset_at does not
          ledger,    \* traffic_ledger: billed per owner and bucket
          gate,      \* traffic_batches
          issued,    \* the batches ever logged; a batch_id is an index
          wal,       \* the batch in the write-ahead log, 0 when there is none
          held,      \* the ladder has an entry for the user
          ladder,    \* its value
          stage,     \* how far the Flusher is with the logged batch
          rows,      \* the attribution it has in hand
          inbox,     \* table rows read by a subscription-changed handler
          crashes,
          faults     \* what disturbs this behaviour

dbVars == <<table, ledger, gate>>
flushVars == <<issued, wal, stage, rows>>
ladderVars == <<held, ladder>>
vars == <<clock, dbVars, flushVars, ladderVars, inbox, crashes, faults>>

IDs == {Plans[i].ID : i \in DOMAIN Plans}
Owners == IDs \cup {OverflowSubscriptionID}
Buckets == {AlignBucket(t) : t \in 0 .. MaxClock}
Batches == 1 .. MaxBatches

Init ==
    /\ clock = 0
    /\ table = Plans
    /\ ledger = [k \in Owners \X Buckets |-> 0]
    /\ gate = {}
    /\ issued = <<>> /\ wal = 0 /\ stage = "idle" /\ rows = <<>>
    /\ held = TRUE /\ ladder \in Prepared(Plans)
    /\ inbox = <<>>
    /\ crashes = 0
    /\ faults \in Disturbances

-----------------------------------------------------------------------------
(* What SQL reads back.                                                    *)

\* SUM(billed_bytes) of one subscription over the buckets of its period.
SumOf(s) ==
    SumFunctionOnSet([b \in Buckets |-> ledger[<<s.ID, b>>]],
                     {b \in Buckets : CountsTowardCurrentPeriod(b, s.LastResetAt)})

\* The table's rows with the authoritative counters Rebuild asks for.
Authoritative == [i \in DOMAIN table |-> [table[i] EXCEPT !.UsedBytes = SumOf(table[i])]]

-----------------------------------------------------------------------------
(* The Flusher.                                                            *)

\* A batch goes to the log: traffic received in this bucket or just before.
Log ==
    /\ stage = "idle" /\ wal = 0
    /\ Len(issued) < MaxBatches
    /\ \E n \in Bills, t \in {clock, clock - 1} \cap Nat :
          issued' = Append(issued, [Billed |-> n, At |-> AlignBucket(t)])
    /\ wal' = Len(issued')
    /\ UNCHANGED <<clock, dbVars, stage, rows, ladderVars, inbox, crashes, faults>>

\* QuotaLadder.Attribute, for a logged batch: a fresh one or one replayed.
AttributeBatch ==
    LET b == issued[wal]
        split == Attribute(b.Billed, IF held THEN ladder ELSE <<>>, b.At)
    IN  /\ stage = "idle" /\ wal # 0
        /\ rows' = split
        /\ ladder' = Charged(ladder, split, b.At)
        /\ stage' = "split"
        /\ UNCHANGED <<clock, dbVars, issued, wal, held, inbox, crashes, faults>>

\* The rows of an attribution added to the ledger.
Upserted(at) ==
    [k \in DOMAIN ledger |->
        IF k[2] = at THEN ledger[k] + BilledTo(rows, k[1]) ELSE ledger[k]]

\* Mutant: the additive UPSERT without its gate.
CommitMutant ==
    /\ stage = "split"
    /\ gate' = gate \cup {wal}
    /\ ledger' = Upserted(issued[wal].At)
    /\ stage' = "committed"
    /\ UNCHANGED <<clock, table, issued, wal, rows, ladderVars, inbox, crashes, faults>>

\* One transaction: the gate first, the rows only if the gate let it through.
Commit ==
    /\ stage = "split"
    /\ gate' = gate \cup {wal}
    /\ ledger' = IF wal \in gate THEN ledger ELSE Upserted(issued[wal].At)
    /\ stage' = "committed"
    /\ UNCHANGED <<clock, table, issued, wal, rows, ladderVars, inbox, crashes, faults>>

Ack ==
    /\ stage = "committed"
    /\ wal' = 0 /\ rows' = <<>> /\ stage' = "idle"
    /\ UNCHANGED <<clock, dbVars, issued, ladderVars, inbox, crashes, faults>>

\* Memory is gone, the log and the database are not.
Crash ==
    /\ "crash" \in faults /\ crashes < MaxCrashes
    /\ stage # "down"
    /\ crashes' = crashes + 1
    /\ stage' = "down" /\ rows' = <<>>
    /\ held' = FALSE /\ ladder' = <<>> /\ inbox' = <<>>
    /\ UNCHANGED <<clock, dbVars, issued, wal, faults>>

\* Mutant: hydrate trusts the used_bytes column.
HydrateMutant ==
    /\ stage = "down"
    /\ ladder' \in Prepared(table) /\ held' = TRUE
    /\ stage' = "idle"
    /\ UNCHANGED <<clock, dbVars, issued, wal, rows, inbox, crashes, faults>>

\* Startup: Rebuild from the ledger; what the log still holds is replayed by
\* AttributeBatch.
Hydrate ==
    /\ stage = "down"
    /\ ladder' \in Prepared(Authoritative) /\ held' = TRUE
    /\ stage' = "idle"
    /\ UNCHANGED <<clock, dbVars, issued, wal, rows, inbox, crashes, faults>>

-----------------------------------------------------------------------------
(* The jobs and the event handlers.                                        *)

Tick ==
    /\ clock < MaxClock
    /\ clock' = clock + 1
    /\ UNCHANGED <<dbVars, flushVars, ladderVars, inbox, crashes, faults>>

\* The hourly rollup of used_bytes.
Rollup ==
    /\ table' = Authoritative
    /\ UNCHANGED <<clock, ledger, gate, flushVars, ladderVars, inbox, crashes, faults>>

\* Mutant: the job reads its sums while a flush is between split and commit.
RebuildMutant ==
    /\ stage # "down"
    /\ ladder' \in Prepared(Authoritative) /\ held' = TRUE
    /\ UNCHANGED <<clock, dbVars, flushVars, inbox, crashes, faults>>

\* The hourly Rebuild.  Nothing in ladder.go keeps it out between a split and
\* its commit; that it comes between two flushes is up to the job that calls
\* it, unless the behaviour suffers it.
Rebuild ==
    /\ stage = "idle" \/ ("midFlush" \in faults /\ stage # "down")
    /\ ladder' \in Prepared(Authoritative) /\ held' = TRUE
    /\ UNCHANGED <<clock, dbVars, flushVars, inbox, crashes, faults>>

\* A subscription-changed handler reads the table, and later calls Sync.
ReadTable ==
    /\ stage # "down" /\ inbox = <<>>
    /\ inbox' = table
    /\ UNCHANGED <<clock, dbVars, flushVars, ladderVars, crashes, faults>>

Sync ==
    /\ inbox # <<>>
    /\ held \/ "resync" \in faults
    /\ \E list \in Prepared(inbox) : ladder' = KeepKnown(list, ladder)
    /\ held' = TRUE
    /\ inbox' = <<>>
    /\ UNCHANGED <<clock, dbVars, flushVars, crashes, faults>>

\* The reset job writes the table's row and the ladder's entry, one instant.
\* A reset on time finds no traffic of the bucket it starts with.
Reset ==
    LET at == AlignBucket(clock)
    IN  /\ stage # "down"
        /\ "stale" \in faults \/ inbox = <<>>
        /\ \/ "midBucket" \in faults
           \/ \A b \in DOMAIN issued : issued[b].At < at
        /\ \E i \in DOMAIN table :
              LET s == table[i]
              IN  /\ s.ResetEpoch < MaxResets
                  /\ s.LastResetAt # NoTime => s.LastResetAt < at
                  /\ table' = RolledOver(table, s.ID, s.ResetEpoch + 1, at)
                  /\ ladder' = RolledOver(ladder, s.ID, s.ResetEpoch + 1, at)
        /\ UNCHANGED <<clock, ledger, gate, flushVars, held, inbox, crashes, faults>>

\* QuotaLadder.Drop: what the user uses until the next Rebuild is overflow.
Drop ==
    /\ "drop" \in faults /\ stage # "down" /\ held
    /\ held' = FALSE /\ ladder' = <<>>
    /\ UNCHANGED <<clock, dbVars, flushVars, inbox, crashes, faults>>

-----------------------------------------------------------------------------
Next ==
    \/ Log \/ AttributeBatch \/ Commit \/ Ack \/ Crash \/ Hydrate
    \/ Tick \/ Rollup \/ Rebuild \/ ReadTable \/ Sync \/ Reset \/ Drop

Spec == Init /\ [][Next]_vars

-----------------------------------------------------------------------------
(* What must hold.                                                         *)

\* Whatever is replayed, every bucket of the ledger holds exactly the traffic
\* of the batches that passed the gate (0001_core.sql:367-369, the retries of
\* 253-256): no batch twice, none in part.  And none is lost: what has left
\* the log is in the ledger (ladder.go:50-51).
LedgerExactlyOnce ==
    /\ \A b \in DOMAIN issued : b \in gate \/ b = wal
    /\ \A at \in Buckets :
          SumFunctionOnSet([o \in Owners |-> ledger[<<o, at>>]], Owners)
          = SumFunctionOnSet([b \in gate |-> issued[b].Billed], {b \in gate : issued[b].At = at})

\* No subscription is handed traffic back: its counter covers what the ledger
\* bills to its current period, through replays, hydrates and Syncs fed from
\* a table that trails (ladder.go:61-66).
CounterCoversTheLedger ==
    \A i \in DOMAIN table :
        LET s == table[i]
        IN  HasID(ladder, s.ID) =>
               \E j \in DOMAIN ladder :
                   ladder[j].ID = s.ID /\ ladder[j].UsedBytes >= SumOf(s)

\* And so the ledger never bills more to the running period than its
\* allowance (ladder.go:161-164), in whatever order flushes and restarts come
\* and with resets on time.  A period that is over may still be overbilled by
\* late batches: LatePeriodNotOverbilled.
AllowanceNotOverbilled ==
    \A i \in DOMAIN table : SumOf(table[i]) <= table[i].TransferBytes

\* Between two flushes the ladder and the database agree to the byte: what
\* the invariant checker compares (Snapshot, ladder.go:128-129, and
\* docs/design/v1.0.md:874), as long as no batch is replayed and no stale row
\* installed.
LadderIsTheLedger ==
    stage = "idle" /\ held /\ faults \cap {"crash", "stale"} = {} =>
        \A i \in DOMAIN ladder :
            \A k \in DOMAIN table :
                table[k].ID = ladder[i].ID => ladder[i].UsedBytes = SumOf(table[k])

\* The overage of a period reaches the overflow row (ladder.go:161-164), said
\* of a period that is over: batches that come after its reset do not take it
\* past its allowance.
LatePeriodNotOverbilled ==
    \A i \in DOMAIN table :
        table[i].LastResetAt # NoTime =>
            SumFunctionOnSet([b \in Buckets |-> ledger[<<table[i].ID, b>>]],
                             {b \in Buckets : b < table[i].LastResetAt})
                <= table[i].TransferBytes
=============================================================================
