--------------------------- MODULE LedgerPartitions ---------------------------
(***************************************************************************)
(* The partitions of traffic_ledger, migrations/0001_core.sql: the two     *)
(* functions that create and detach them and the bootstrap of the          *)
(* migration.  The scheduler that calls them for now and now + 7 days, and   *)
(* the clock, are external.                                                *)
(*                                                                         *)
(* Time is counted in units of eight hours.  A DATE becomes an instant in  *)
(* the TimeZone of the session that casts it, so every session has one:    *)
(* the one that applies the migration and the one of the application.      *)
(***************************************************************************)
EXTENDS Integers

CONSTANTS MonthLength,               \* in units of time; months are equal
          Ahead, Retain,             \* 7 and 35 days
          MigrationZone, SessionZone, \* offsets from UTC
          Start,                     \* when the migration runs
          LastUnit,                  \* the end of the modelled time
          MaxOutage                  \* the longest the scheduler is down

ASSUME LedgerPartitionsAssumption ==
    /\ MonthLength \in Nat \ {0}
    /\ Ahead \in Nat /\ Retain \in Nat
    /\ MigrationZone \in Int /\ SessionZone \in Int
    /\ Start \subseteq Nat
    /\ LastUnit \in Nat /\ MaxOutage \in Nat

VARIABLES clock,      \* now()
          installed,  \* when the migration ran
          attached,   \* the bounds of every attached partition, by month
          detached,   \* the months whose table exists and is not attached
          outage      \* time since the scheduler last ran

partitionVars == <<clock, installed, attached, detached, outage>>

-----------------------------------------------------------------------------
\* date_trunc('month', t) in the zone of the session; months are numbered.
MonthAt(t, zone) == (t + zone) \div MonthLength

\* start_at and end_at, cast to TIMESTAMPTZ by the session.
Span(t, zone) ==
    LET m == MonthAt(t, zone)
    IN  [from |-> m * MonthLength - zone, to |-> (m + 1) * MonthLength - zone]

Overlap(a, b) == a.from < b.to /\ b.from < a.to

\* lumi_ensure_ledger_partition: what is attached after it.  A table of that
\* name, attached or not, is enough; a range that overlaps one already
\* attached is refused by PostgreSQL.
Ensured(parts, t, zone) ==
    LET m == MonthAt(t, zone)
        span == Span(t, zone)
    IN  IF \/ m \in DOMAIN parts \cup detached
           \/ \E k \in DOMAIN parts : Overlap(parts[k], span)
        THEN parts
        ELSE [k \in DOMAIN parts \cup {m} |-> IF k = m THEN span ELSE parts[k]]

\* The bootstrap: the month of the migration and the next one.
Bootstrap ==
    /\ clock \in Start
    /\ installed = clock
    /\ detached = {}
    /\ attached =
          LET m == MonthAt(clock, MigrationZone)
          IN  [k \in {m, m + 1} |-> Span(k * MonthLength - MigrationZone, MigrationZone)]
    /\ outage = 0

Elapse ==
    /\ clock < LastUnit /\ outage < MaxOutage
    /\ clock' = clock + 1 /\ outage' = outage + 1
    /\ UNCHANGED <<installed, attached, detached>>

\* Mutant: the scheduler asks for the current month only.
ScheduleMutant ==
    /\ outage > 0
    /\ attached' = Ensured(attached, clock, SessionZone)
    /\ outage' = 0
    /\ UNCHANGED <<clock, installed, detached>>

Schedule ==
    /\ outage > 0
    /\ attached' = Ensured(Ensured(attached, clock, SessionZone),
                           clock + Ahead, SessionZone)
    /\ outage' = 0
    /\ UNCHANGED <<clock, installed, detached>>

\* Mutant: the lower bound decides.
ExpiredMutant == {m \in DOMAIN attached : attached[m].from <= clock - Retain}

\* The partitions wholly older than the retention window.
Expired == {m \in DOMAIN attached : attached[m].to <= clock - Retain}

\* lumi_detach_expired_ledger_partitions.  It warns of a partition without a
\* finite upper bound and leaves it attached; nothing here creates one.
Detach ==
    /\ Expired # {}
    /\ attached' = [m \in DOMAIN attached \ Expired |-> attached[m]]
    /\ detached' = detached \cup Expired
    /\ UNCHANGED <<clock, installed, outage>>

PartitionNext == Elapse \/ Schedule \/ Detach

PartitionSpec == Bootstrap /\ [][PartitionNext]_partitionVars

-----------------------------------------------------------------------------
\* Every row finds its partition: one billed now, and one replayed late for
\* any bucket since the installation that the retention keeps online; "a
\* month boundary is always crossed with the next partition already in place"
\* (0001_core.sql:289-296, 322-323, 326).
EveryRowHasAHome ==
    \A t \in 0 .. clock :
        t >= installed /\ t > clock - Retain =>
            \E m \in DOMAIN attached : attached[m].from <= t /\ t < attached[m].to

\* Nothing that ensure was asked for is left to a table that merely has the
\* name: what the scheduler will write to is attached when it returns
\* (0001_core.sql:310-312).
ReportedMeansAttached ==
    [][Schedule => {MonthAt(clock, SessionZone), MonthAt(clock + Ahead, SessionZone)}
                      \subseteq DOMAIN attached']_partitionVars
=============================================================================
