----------------------------- MODULE QuotaLadder -----------------------------
(***************************************************************************)
(* src/internal/metering/ladder.go: the Flusher's in-memory authority on   *)
(* how much allowance every subscription has left, called concurrently by  *)
(* the flush loop, the hourly rebuild, the event subscribers, the          *)
(* invariant checker and the diagnose endpoint.                            *)
(*                                                                         *)
(* A goroutine makes one call at a time.  The lock is explicit, and the    *)
(* loops that run under it are stepped one iteration at a time: the split  *)
(* of domain.Attribute ("scan"), the loop that writes the split back       *)
(* ("charge") and the copy made by Snapshot ("copy").                      *)
(***************************************************************************)
EXTENDS LadderOps, RWMutex

CONSTANTS Users,       \* user IDs
          SubLists,    \* subscription lists the callers pass in
          IDs,         \* subscription IDs the callers name
          Bills,       \* billed amounts
          Instants,    \* buckets and reset instants
          Counters,    \* authoritative counters given to Reconcile
          Epochs       \* reset epochs

ASSUME QuotaLadderAssumption ==
    /\ SubLists \subseteq Seq(SubQuota)
    /\ IDs \subseteq Nat \ {OverflowSubscriptionID}
    /\ Bills \subseteq Int
    /\ Instants \subseteq Times
    /\ Counters \subseteq Nat
    /\ Epochs \subseteq Nat

VARIABLES held,     \* the keys of the map ladders
          subs,     \* its values; a missing key reads as the empty slice
          mu,       \* the RWMutex
          pc,       \* where each goroutine is
          req,      \* the call it is making
          cur,      \* its loop counter
          split,    \* the locals of domain.Attribute
          reply     \* what the call returns

ladderVars == <<held, subs>>
vars == <<held, subs, mu, pc, req, cur, split, reply>>

-----------------------------------------------------------------------------
Requests ==
         [op : {"Rebuild", "Sync"}, user : Users, subs : SubLists]
    \cup [op : {"Drop", "Snapshot"}, user : Users]
    \cup [op : {"Users"}]
    \cup [op : {"Attribute"}, user : Users, billed : Bills, at : Instants]
    \cup [op : {"Reconcile"}, user : Users, id : IDs, used : Counters]
    \cup [op : {"Reset"}, user : Users, id : IDs, epoch : Epochs, at : Instants]

NoRequest == [op |-> "none"]
Nothing == [void |-> TRUE]
Rows(r) == [rows |-> r]
Found(b) == [found |-> b]
Copy(s) == [copy |-> s]

Replies == {Nothing} \cup [rows : Seq(LedgerRow)] \cup [found : BOOLEAN]
                     \cup [copy : Seq(SubQuota)] \cup [users : SUBSET Users]

ReadOps == {"Snapshot", "Users"}
PCs == {"idle", "lock", "drain", "body", "scan", "charge", "copy",
        "unlock", "runlock", "return"}

TypeOK ==
    /\ held \subseteq Users
    /\ subs \in [Users -> Seq(SubQuota)]
    /\ mu \in RWMutexType
    /\ pc \in [Procs -> PCs]
    /\ req \in [Procs -> Requests \cup {NoRequest}]
    /\ cur \in [Procs -> Nat \ {0}]
    /\ split \in [Procs -> [remaining : Int, rows : Seq(LedgerRow)]]
    /\ reply \in [Procs -> Replies]

Init ==
    /\ held = {}
    /\ subs = [u \in Users |-> <<>>]
    /\ mu = Unlocked
    /\ pc = [p \in Procs |-> "idle"]
    /\ req = [p \in Procs |-> NoRequest]
    /\ cur = [p \in Procs |-> 1]
    /\ split = [p \in Procs |-> Unsplit(0)]
    /\ reply = [p \in Procs |-> Nothing]

Goto(p, from, to) == pc[p] = from /\ pc' = [pc EXCEPT ![p] = to]

\* The end of a call's body: the result is set, the deferred unlock is next.
Finish(p, result) ==
    /\ reply' = [reply EXCEPT ![p] = result]
    /\ pc' = [pc EXCEPT ![p] = IF req[p].op \in ReadOps THEN "runlock"
                                                         ELSE "unlock"]

\* Goroutine p holds the lock it needs and is about to run the body of op.
InBody(p, op) == pc[p] = "body" /\ req[p].op = op

-----------------------------------------------------------------------------
(* Calls, the lock, and returning.                                         *)

Call(p) ==
    /\ Goto(p, "idle", "lock")
    /\ \E r \in Requests : req' = [req EXCEPT ![p] = r]
    /\ UNCHANGED <<held, subs, mu, cur, split, reply>>

\* Attribute returns nil before it takes the lock.
NothingBilled(p) == req[p].op = "Attribute" /\ req[p].billed <= 0

AttributeNothing(p) ==
    /\ NothingBilled(p)
    /\ Goto(p, "lock", "return")
    /\ reply' = [reply EXCEPT ![p] = Rows(<<>>)]
    /\ UNCHANGED <<held, subs, mu, req, cur, split>>

AnnounceWriter(p) ==
    /\ req[p].op \notin ReadOps /\ ~NothingBilled(p)
    /\ Goto(p, "lock", "drain")
    /\ CanAnnounce(mu)
    /\ mu' = Announced(mu, p)
    /\ UNCHANGED <<held, subs, req, cur, split, reply>>

EnterWriter(p) ==
    /\ Goto(p, "drain", "body")
    /\ WriterEnters(mu, p)
    /\ UNCHANGED <<held, subs, mu, req, cur, split, reply>>

\* Mutant: the reading methods take no lock.
EnterReaderMutant(p) ==
    /\ req[p].op \in ReadOps
    /\ Goto(p, "lock", "body")
    /\ UNCHANGED <<held, subs, mu, req, cur, split, reply>>

EnterReader(p) ==
    /\ req[p].op \in ReadOps
    /\ Goto(p, "lock", "body")
    /\ CanRLock(mu)
    /\ mu' = RLocked(mu, p)
    /\ UNCHANGED <<held, subs, req, cur, split, reply>>

ExitWriter(p) ==
    /\ Goto(p, "unlock", "return")
    /\ mu' = Unlock(mu)
    /\ UNCHANGED <<held, subs, req, cur, split, reply>>

ExitReader(p) ==
    /\ Goto(p, "runlock", "return")
    /\ mu' = RUnlocked(mu, p)
    /\ UNCHANGED <<held, subs, req, cur, split, reply>>

\* The call returns to its caller; the locals die with it.
Return(p) ==
    /\ Goto(p, "return", "idle")
    /\ req' = [req EXCEPT ![p] = NoRequest]
    /\ reply' = [reply EXCEPT ![p] = Nothing]
    /\ cur' = [cur EXCEPT ![p] = 1]
    /\ split' = [split EXCEPT ![p] = Unsplit(0)]
    /\ UNCHANGED <<held, subs, mu>>

-----------------------------------------------------------------------------
(* Installing and removing a user's subscriptions.                         *)

Rebuild(p) ==
    /\ InBody(p, "Rebuild")
    /\ \E list \in Prepared(req[p].subs) :
          subs' = [subs EXCEPT ![req[p].user] = list]
    /\ held' = held \cup {req[p].user}
    /\ Finish(p, Nothing)
    /\ UNCHANGED <<mu, req, cur, split>>

Sync(p) ==
    /\ InBody(p, "Sync")
    /\ \E list \in Prepared(req[p].subs) :
          subs' = [subs EXCEPT ![req[p].user] = KeepKnown(list, @)]
    /\ held' = held \cup {req[p].user}
    /\ Finish(p, Nothing)
    /\ UNCHANGED <<mu, req, cur, split>>

Drop(p) ==
    /\ InBody(p, "Drop")
    /\ held' = held \ {req[p].user}
    /\ subs' = [subs EXCEPT ![req[p].user] = <<>>]
    /\ Finish(p, Nothing)
    /\ UNCHANGED <<mu, req, cur, split>>

-----------------------------------------------------------------------------
(* Writing one subscription.                                               *)

Reconcile(p) ==
    /\ InBody(p, "Reconcile")
    /\ subs' = [subs EXCEPT ![req[p].user] = Overwritten(@, req[p].id, req[p].used)]
    /\ Finish(p, Found(HasID(subs[req[p].user], req[p].id)))
    /\ UNCHANGED <<held, mu, req, cur, split>>

Reset(p) ==
    /\ InBody(p, "Reset")
    /\ subs' = [subs EXCEPT ![req[p].user] =
                   RolledOver(@, req[p].id, req[p].epoch, req[p].at)]
    /\ Finish(p, Found(HasID(subs[req[p].user], req[p].id)))
    /\ UNCHANGED <<held, mu, req, cur, split>>

-----------------------------------------------------------------------------
(* Attribute: split, then write the split back.                            *)

\* Mutant: the early return leaves the lock behind.
AttributeMissingMutant(p) ==
    /\ InBody(p, "Attribute")
    /\ req[p].user \notin held
    /\ Goto(p, "body", "return")
    /\ reply' = [reply EXCEPT ![p] = Rows(<<>>)]
    /\ UNCHANGED <<held, subs, mu, req, cur, split>>

AttributeMissing(p) ==
    /\ InBody(p, "Attribute")
    /\ req[p].user \notin held
    /\ Finish(p, Rows(<<[SubscriptionID |-> OverflowSubscriptionID,
                         Billed |-> req[p].billed]>>))
    /\ UNCHANGED <<held, subs, mu, req, cur, split>>

AttributeStart(p) ==
    /\ InBody(p, "Attribute")
    /\ req[p].user \in held
    /\ Goto(p, "body", "scan")
    /\ split' = [split EXCEPT ![p] = Unsplit(req[p].billed)]
    /\ UNCHANGED <<held, subs, mu, req, cur, reply>>

Scanning(p) == cur[p] <= Len(subs[req[p].user]) /\ split[p].remaining > 0

ScanStep(p) ==
    /\ pc[p] = "scan"
    /\ Scanning(p)
    /\ split' = [split EXCEPT ![p] =
                    Absorb(@, subs[req[p].user][cur[p]], req[p].at)]
    /\ cur' = [cur EXCEPT ![p] = @ + 1]
    /\ UNCHANGED <<held, subs, mu, pc, req, reply>>

ScanDone(p) ==
    /\ Goto(p, "scan", "charge")
    /\ ~Scanning(p)
    /\ split' = [split EXCEPT ![p] = [remaining |-> 0, rows |-> Spill(@)]]
    /\ cur' = [cur EXCEPT ![p] = 1]
    /\ UNCHANGED <<held, subs, mu, req, reply>>

ChargeStep(p) ==
    /\ pc[p] = "charge"
    /\ cur[p] <= Len(split[p].rows)
    /\ subs' = [subs EXCEPT ![req[p].user] =
                   Charge(@, split[p].rows[cur[p]], req[p].at)]
    /\ cur' = [cur EXCEPT ![p] = @ + 1]
    /\ UNCHANGED <<held, mu, pc, req, split, reply>>

ChargeDone(p) ==
    /\ pc[p] = "charge"
    /\ cur[p] > Len(split[p].rows)
    /\ Finish(p, Rows(split[p].rows))
    /\ UNCHANGED <<held, subs, mu, req, cur, split>>

-----------------------------------------------------------------------------
(* Reading.                                                                *)

SnapshotStart(p) ==
    /\ InBody(p, "Snapshot")
    /\ Goto(p, "body", "copy")
    /\ reply' = [reply EXCEPT ![p] = Copy(<<>>)]
    /\ UNCHANGED <<held, subs, mu, req, cur, split>>

SnapshotStep(p) ==
    /\ pc[p] = "copy"
    /\ cur[p] <= Len(subs[req[p].user])
    /\ reply' = [reply EXCEPT ![p].copy = Append(@, subs[req[p].user][cur[p]])]
    /\ cur' = [cur EXCEPT ![p] = @ + 1]
    /\ UNCHANGED <<held, subs, mu, pc, req, split>>

SnapshotDone(p) ==
    /\ Goto(p, "copy", "runlock")
    /\ cur[p] > Len(subs[req[p].user])
    /\ UNCHANGED <<held, subs, mu, req, cur, split, reply>>

ListUsers(p) ==
    /\ InBody(p, "Users")
    /\ Finish(p, [users |-> held])
    /\ UNCHANGED <<held, subs, mu, req, cur, split>>

-----------------------------------------------------------------------------
\* What a goroutine does once it has made a call.
Step(p) ==
    \/ AttributeNothing(p) \/ AnnounceWriter(p) \/ EnterWriter(p) \/ EnterReader(p)
    \/ Rebuild(p) \/ Sync(p) \/ Drop(p) \/ Reconcile(p) \/ Reset(p)
    \/ AttributeMissing(p) \/ AttributeStart(p)
    \/ ScanStep(p) \/ ScanDone(p) \/ ChargeStep(p) \/ ChargeDone(p)
    \/ SnapshotStart(p) \/ SnapshotStep(p) \/ SnapshotDone(p) \/ ListUsers(p)
    \/ ExitWriter(p) \/ ExitReader(p) \/ Return(p)

Next == \E p \in Procs : Call(p) \/ Step(p)

Spec == Init /\ [][Next]_vars

\* A goroutine inside a call keeps running, and the runtime hands a mutex to
\* everybody who keeps waiting for it (no goroutine is starved).
FairSpec ==
    /\ Spec
    /\ \A p \in Procs : WF_vars(Step(p))
    /\ \A p \in Procs : SF_vars(AnnounceWriter(p)) /\ SF_vars(EnterReader(p))

-----------------------------------------------------------------------------
(* What must hold.                                                         *)

\* Every ladder holds one entry per subscription, in deduction order: the
\* precondition domain.Attribute places on its caller (quota.go:127-128,
\* ladder.go:88-93).
LadderOrdered == \A u \in Users : InDeductionOrder(subs[u])

\* Writing a split back never takes a counter past its allowance: the state
\* invariant I8 alarms on is unreachable through Attribute (ladder.go:90-93).
NoOverdraw ==
    [][\A p \in Procs : ChargeStep(p) =>
          \A u \in Users : \A i \in DOMAIN subs[u] :
             subs'[u][i].UsedBytes > subs[u][i].UsedBytes =>
                subs'[u][i].UsedBytes <= subs[u][i].TransferBytes]_vars

\* No step hands allowance back for a subscription the ladder knows before
\* and after it, other than an authoritative counter or a period rollover
\* (ladder.go:61-66): a Sync fed from a stale table in particular.
NoRefundWithoutAuthority ==
    [][\A u \in Users :
          (\E i \in DOMAIN subs[u], j \in DOMAIN subs'[u] :
              /\ subs[u][i].ID = subs'[u][j].ID
              /\ subs'[u][j].UsedBytes < subs[u][i].UsedBytes)
          => \E p \in Procs : Rebuild(p) \/ Reconcile(p) \/ Reset(p)]_vars

\* Every call comes back, whatever the others do: no path leaves the lock
\* behind and nobody waits for it for ever.
EveryCallReturns ==
    \A p \in Procs : pc[p] # "idle" ~> pc[p] = "idle"

-----------------------------------------------------------------------------
(* Why: the inductive invariant behind the properties above and the        *)
(* refinement below, proved in QuotaLadderProofs.                          *)

\* Goroutine p is inside the critical section, as a writer or as a reader.
Writing(p) ==
    \/ pc[p] \in {"scan", "charge", "unlock"}
    \/ pc[p] = "body" /\ req[p].op \notin ReadOps

Reading(p) ==
    \/ pc[p] \in {"copy", "runlock"}
    \/ pc[p] = "body" /\ req[p].op \in ReadOps

\* Control agrees with the call that is being made.
CallInv ==
    \A p \in Procs :
        /\ pc[p] # "idle" => req[p] \in Requests
        /\ pc[p] \in {"scan", "charge"} => req[p].op = "Attribute"
        /\ pc[p] \in {"drain", "unlock"} => req[p].op \notin ReadOps
        /\ pc[p] = "runlock" => req[p].op \in ReadOps
        /\ pc[p] = "copy" => /\ req[p].op = "Snapshot"
                             /\ reply[p] \in [copy : Seq(SubQuota)]
        /\ pc[p] \in {"drain", "body", "scan", "charge"} =>
              ~NothingBilled(p)

\* The lock does its work: a writer is alone.
LockInv ==
    /\ \A p \in Procs : pc[p] = "drain" \/ Writing(p) => mu.writer = p
    /\ \A p \in Procs : mu.readers[p] = IF Reading(p) THEN 1 ELSE 0
    /\ \A p, q \in Procs : Writing(p) => ~Reading(q)

DistinctOwners(rows) ==
    \A j, k \in DOMAIN rows :
        rows[j].SubscriptionID = rows[k].SubscriptionID => j = k

\* While splitting, every row is covered by a subscription already passed.
Covered(p) ==
    pc[p] = "scan" =>
        /\ DistinctOwners(split[p].rows)
        /\ \A k \in DOMAIN split[p].rows :
              \E i \in DOMAIN subs[req[p].user] :
                 /\ i < cur[p]
                 /\ subs[req[p].user][i].ID = split[p].rows[k].SubscriptionID
                 /\ split[p].rows[k].Billed <= Available(subs[req[p].user][i])

\* The row fits into the allowance of a subscription of the list.
HasRoom(list, row) ==
    \E i \in DOMAIN list :
        /\ list[i].ID = row.SubscriptionID
        /\ list[i].UsedBytes + row.Billed <= list[i].TransferBytes

\* While writing back, every row still to come fits its subscription.
Fits(p) ==
    pc[p] = "charge" =>
        /\ DistinctOwners(split[p].rows)
        /\ \A k \in DOMAIN split[p].rows :
              k >= cur[p] /\ split[p].rows[k].SubscriptionID # OverflowSubscriptionID
                 => HasRoom(subs[req[p].user], split[p].rows[k])

SplitInv == \A p \in Procs : Covered(p) /\ Fits(p)

\* The locals of a call are what its loop has made of the list so far, and the
\* list is the one it started with.
Locals(p) ==
    LET list == subs[req[p].user]
        done == cur[p] - 1
    IN  /\ pc[p] \in {"idle", "lock", "drain", "body"} => done = 0
        /\ pc[p] \notin {"charge", "copy", "unlock", "runlock", "return"} =>
              reply[p] = Nothing
        /\ pc[p] = "scan" =>
              /\ req[p].user \in held
              /\ done <= Len(list)
              /\ split[p] = SplitAfter(req[p].billed, list, req[p].at, done)
        /\ pc[p] = "copy" =>
              /\ done <= Len(list)
              /\ reply[p] = Copy(SubSeq(list, 1, done))

LocalsInv == \A p \in Procs : Locals(p)

IInv == TypeOK /\ CallInv /\ LockInv /\ LadderOrdered /\ SplitInv /\ LocalsInv
-----------------------------------------------------------------------------
(* The ladder its callers see.                                             *)

\* What the rows from number c on give to one subscription.
BilledFrom(rows, c, id) ==
    SumFunctionOnSet(BilledAt(rows),
                     {k \in DOMAIN rows : k >= c /\ rows[k].SubscriptionID = id})

\* The list once the rows from number c on are written back as well.
WrittenBack(list, rows, c, at) ==
    [i \in DOMAIN list |->
        IF CountsTowardCurrentPeriod(at, list[i].LastResetAt)
        THEN [list[i] EXCEPT !.UsedBytes = @ + BilledFrom(rows, c, list[i].ID)]
        ELSE list[i]]

\* An Attribute call takes effect when its split is complete: the rows the
\* goroutine that holds the lock has still to write back are already in.
Visible(u) ==
    LET p == mu.writer
    IN  IF p \in Procs /\ pc[p] = "charge" /\ req[p].user = u
        THEN WrittenBack(subs[u], split[p].rows, cur[p], req[p].at)
        ELSE subs[u]

PhaseAt(label) ==
    CASE label = "idle" -> "idle"
      [] label \in {"charge", "unlock", "runlock", "return"} -> "done"
      [] OTHER -> "called"

ReplyOf(p) ==
    CASE pc[p] = "charge" -> Rows(split[p].rows)
      [] pc[p] = "copy"   -> Nothing
      [] OTHER            -> reply[p]

VisibleSubs == [u \in Users |-> Visible(u)]
Phases == [p \in Procs |-> PhaseAt(pc[p])]
Told == [p \in Procs |-> ReplyOf(p)]

Atomic == INSTANCE LadderAtomic WITH subs <- VisibleSubs, phase <- Phases, reply <- Told

\* Concurrent callers see the ladder as if each operation were one instant:
\* no half-written attribution, no torn snapshot, no lost update
\* (ladder.go:153-164).
ImplementsAtomic == Atomic!Spec
=============================================================================
