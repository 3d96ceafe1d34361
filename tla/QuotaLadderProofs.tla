-------------------------- MODULE QuotaLadderProofs --------------------------
(***************************************************************************)
(* QuotaLadder, for every set of goroutines, users, subscription lists and *)
(* amounts: the type invariant, mutual exclusion, the deduction order of   *)
(* every ladder, that writing a split back never overdraws, that only an   *)
(* authority lowers a counter, and that the ladder implements LadderAtomic *)
(* (its last third: what is read, the lists, the state, the steps).        *)
(***************************************************************************)
EXTENDS QuotaLadder, DeductionProofs

-----------------------------------------------------------------------------
(* Types.                                                                  *)

\* Each kind of call carries the arguments its method takes.
LEMMA RequestFields ==
    ASSUME NEW r \in Requests
    PROVE  /\ r.op \in {"Rebuild", "Sync"} => r.user \in Users /\ r.subs \in SubLists
           /\ r.op \in {"Drop", "Snapshot"} => r.user \in Users
           /\ r.op = "Attribute" =>
                 r.user \in Users /\ r.billed \in Bills /\ r.at \in Instants
           /\ r.op = "Reconcile" => r.user \in Users /\ r.used \in Counters
           /\ r.op = "Reset" =>
                 r.user \in Users /\ r.epoch \in Epochs /\ r.at \in Instants
BY DEF Requests

\* The empty ladder is well typed and nobody is in a call
\* (ladder.go:39-41).
LEMMA InitTypes == Init => TypeOK /\ CallInv
BY RWMutexAssumption DEF Init, TypeOK, CallInv, RWMutexType, Unlocked, Unsplit, PCs, Replies

\* The lock is a lock whatever is done to it in the right state.
LEMMA LockOperations ==
    ASSUME NEW m \in RWMutexType, NEW p \in Procs
    PROVE  /\ Announced(m, p) \in RWMutexType
           /\ Unlock(m) \in RWMutexType
           /\ RLocked(m, p) \in RWMutexType
           /\ m.readers[p] > 0 => RUnlocked(m, p) \in RWMutexType
BY DEF RWMutexType, Announced, Unlock, RLocked, RUnlocked

\* Every step of every method keeps the types and keeps control in agreement
\* with the call being made (ladder.go:52-243).
LEMMA TypeStep ==
    ASSUME TypeOK, CallInv, LockInv, LadderOrdered, NEW p \in Procs, Call(p) \/ Step(p)
    PROVE  TypeOK' /\ CallInv'
<1> USE DEF TypeOK, CallInv
<1>1. CASE Call(p)
    BY <1>1 DEF Call, Goto, NothingBilled, PCs
<1>2. CASE AttributeNothing(p)
    BY <1>2 DEF AttributeNothing, Goto, NothingBilled, PCs, Rows, Replies
<1>3. CASE AnnounceWriter(p)
    BY <1>3, LockOperations DEF AnnounceWriter, Goto, NothingBilled, PCs
<1>4. CASE EnterWriter(p)
    BY <1>4 DEF EnterWriter, Goto, NothingBilled, PCs
<1>5. CASE EnterReader(p)
    BY <1>5, LockOperations DEF EnterReader, Goto, NothingBilled, PCs, ReadOps
<1>6. CASE ExitWriter(p)
    BY <1>6, LockOperations DEF ExitWriter, Goto, NothingBilled, PCs
<1>7. CASE ExitReader(p)
    <2>1. mu.readers[p] > 0
        BY <1>7 DEF ExitReader, Goto, LockInv, Reading
    <2>2. mu' \in RWMutexType
        BY <1>7, <2>1, LockOperations DEF ExitReader
    <2>3. QED
        BY <1>7, <2>2 DEF ExitReader, Goto, NothingBilled, PCs
<1>8. CASE Return(p)
    BY <1>8 DEF Return, Goto, NothingBilled, PCs, Unsplit, Replies
<1>9. CASE Rebuild(p)
    BY <1>9, RequestFields, PreparedInOrder, QuotaLadderAssumption
       DEF Rebuild, InBody, Finish, NothingBilled, PCs, ReadOps, Replies
<1>10. CASE Sync(p)
    <2>1. PICK list \in Prepared(req[p].subs) :
             subs' = [subs EXCEPT ![req[p].user] = KeepKnown(list, subs[req[p].user])]
        BY <1>10 DEF Sync
    <2>2. req[p].user \in Users /\ req[p].subs \in Seq(SubQuota)
        BY <1>10, RequestFields, QuotaLadderAssumption DEF Sync, InBody
    <2>3. list \in Seq(SubQuota)
        BY <2>1, <2>2, PreparedInOrder
    <2>4. KeepKnown(list, subs[req[p].user]) \in Seq(SubQuota)
        BY <2>2, <2>3, KeepKnownResult DEF SameEntries, LadderOrdered
    <2>5. subs' \in [Users -> Seq(SubQuota)]
        BY <2>1, <2>2, <2>4
    <2>6. QED
        BY <1>10, <2>2, <2>5 DEF Sync, InBody, Finish, NothingBilled, PCs, ReadOps, Replies
<1>11. CASE Drop(p)
    BY <1>11, RequestFields DEF Drop, InBody, Finish, NothingBilled, PCs, ReadOps, Replies
<1>12. CASE Reconcile(p)
    <2>1. req[p].user \in Users /\ req[p].used \in Nat
        BY <1>12, RequestFields, QuotaLadderAssumption DEF Reconcile, InBody
    <2>2. subs' \in [Users -> Seq(SubQuota)]
        BY <1>12, <2>1, OverwrittenResult DEF Reconcile, SameEntries
    <2>3. HasID(subs[req[p].user], req[p].id) \in BOOLEAN
        BY DEF HasID
    <2>4. QED
        BY <1>12, <2>2, <2>3
           DEF Reconcile, InBody, Finish, Found, NothingBilled, PCs, ReadOps, Replies
<1>13. CASE Reset(p)
    <2>1. req[p].user \in Users /\ req[p].epoch \in Nat /\ req[p].at \in Times
        BY <1>13, RequestFields, QuotaLadderAssumption DEF Reset, InBody
    <2>2. subs' \in [Users -> Seq(SubQuota)]
        BY <1>13, <2>1, RolledOverResult DEF Reset, SameEntries
    <2>3. HasID(subs[req[p].user], req[p].id) \in BOOLEAN
        BY DEF HasID
    <2>4. QED
        BY <1>13, <2>2, <2>3
           DEF Reset, InBody, Finish, Found, NothingBilled, PCs, ReadOps, Replies
<1>14. CASE AttributeMissing(p)
    <2> DEFINE row == [SubscriptionID |-> OverflowSubscriptionID, Billed |-> req[p].billed]
    <2>1. req[p].billed \in Nat \ {0}
        <3>1. pc[p] = "body" /\ req[p].op = "Attribute"
            BY <1>14 DEF AttributeMissing, InBody
        <3>2. req[p].billed \in Int /\ ~NothingBilled(p)
            BY <3>1, RequestFields, QuotaLadderAssumption
        <3>3. QED
            BY <3>1, <3>2 DEF NothingBilled
    <2>2. row \in LedgerRow
        BY <2>1 DEF LedgerRow, OverflowSubscriptionID
    <2>3. <<row>> \in Seq(LedgerRow)
        BY <2>2
    <2> HIDE DEF row
    <2>4. reply' = [reply EXCEPT ![p] = [rows |-> <<row>>]]
        BY <1>14 DEF AttributeMissing, Finish, Rows, row
    <2>5. reply' \in [Procs -> Replies]
        BY <2>3, <2>4 DEF Replies
    <2>6. QED
        BY <1>14, <2>5
           DEF AttributeMissing, InBody, Finish, NothingBilled, PCs, ReadOps, Replies
<1>15. CASE AttributeStart(p)
    <2>1. req[p].billed \in Int
        BY <1>15, RequestFields, QuotaLadderAssumption DEF AttributeStart, InBody
    <2>2. Unsplit(req[p].billed) \in [remaining : Int, rows : Seq(LedgerRow)]
        BY <2>1 DEF Unsplit
    <2>3. split' \in [Procs -> [remaining : Int, rows : Seq(LedgerRow)]]
        BY <1>15, <2>2 DEF AttributeStart
    <2>4. QED
        BY <1>15, <2>3 DEF AttributeStart, InBody, Goto, NothingBilled, PCs
<1>16. CASE ScanStep(p)
    <2>1. req[p].user \in Users /\ req[p].at \in Times
        BY <1>16, RequestFields, QuotaLadderAssumption DEF ScanStep
    <2>2. subs[req[p].user][cur[p]] \in SubQuota
        BY <1>16, <2>1 DEF ScanStep, Scanning
    <2>3. /\ split[p] \in [remaining : Int, rows : Seq(LedgerRow)]
          /\ split[p].rows \in Seq(LedgerRow)
          /\ split[p].remaining \in Nat \ {0}
        BY <1>16 DEF ScanStep, Scanning
    <2>4. Absorb(split[p], subs[req[p].user][cur[p]], req[p].at)
              \in [remaining : Int, rows : Seq(LedgerRow)]
        BY <2>2, <2>3, AbsorbResult
    <2>5. split' \in [Procs -> [remaining : Int, rows : Seq(LedgerRow)]]
        BY <1>16, <2>4 DEF ScanStep
    <2>6. QED
        BY <1>16, <2>5 DEF ScanStep, NothingBilled
<1>17. CASE ScanDone(p)
    <2>1. split[p].rows \in Seq(LedgerRow) /\ split[p].remaining \in Int
        OBVIOUS
    <2>2. Spill(split[p]) \in Seq(LedgerRow)
        BY <2>1, SpillResult
    <2>3. split' \in [Procs -> [remaining : Int, rows : Seq(LedgerRow)]]
        BY <1>17, <2>2 DEF ScanDone
    <2>4. QED
        BY <1>17, <2>3 DEF ScanDone, Goto, NothingBilled, PCs
<1>18. CASE ChargeStep(p)
    <2>1. req[p].user \in Users /\ req[p].at \in Times
        BY <1>18, RequestFields, QuotaLadderAssumption DEF ChargeStep
    <2>2. split[p].rows[cur[p]] \in LedgerRow
        BY <1>18 DEF ChargeStep
    <2>3. Charge(subs[req[p].user], split[p].rows[cur[p]], req[p].at) \in Seq(SubQuota)
        BY <2>1, <2>2, ChargeResult DEF SameEntries
    <2>4. subs' \in [Users -> Seq(SubQuota)]
        BY <1>18, <2>1, <2>3 DEF ChargeStep
    <2>5. QED
        BY <1>18, <2>4 DEF ChargeStep, NothingBilled
<1>19. CASE ChargeDone(p)
    BY <1>19 DEF ChargeDone, Finish, Rows, NothingBilled, PCs, ReadOps, Replies
<1>20. CASE SnapshotStart(p)
    <2>1. reply' = [reply EXCEPT ![p] = [copy |-> <<>>]]
        BY <1>20 DEF SnapshotStart, Copy
    <2>2. [copy |-> <<>>] \in [copy : Seq(SubQuota)]
        OBVIOUS
    <2>3. reply' \in [Procs -> Replies] /\ reply'[p] \in [copy : Seq(SubQuota)]
        BY <2>1, <2>2 DEF Replies
    <2>4. QED
        BY <1>20, <2>1, <2>3 DEF SnapshotStart, InBody, Goto, NothingBilled, PCs
<1>21. CASE SnapshotStep(p)
    <2>1. req[p].user \in Users /\ reply[p] \in [copy : Seq(SubQuota)]
        BY <1>21, RequestFields DEF SnapshotStep
    <2>2. subs[req[p].user][cur[p]] \in SubQuota
        BY <1>21, <2>1 DEF SnapshotStep
    <2>3. PICK more : more = Append(reply[p].copy, subs[req[p].user][cur[p]])
        OBVIOUS
    <2>4. more \in Seq(SubQuota)
        BY <2>1, <2>2, <2>3
    <2>5. [reply[p] EXCEPT !.copy = more] \in [copy : Seq(SubQuota)]
        BY <2>1, <2>4
    <2>6. reply' = [reply EXCEPT ![p] = [reply[p] EXCEPT !.copy = more]]
        BY <1>21, <2>3 DEF SnapshotStep
    <2>7. /\ reply' \in [Procs -> Replies]
          /\ reply'[p] \in [copy : Seq(SubQuota)]
        BY <2>5, <2>6 DEF Replies
    <2>8. \A q \in Procs : q # p => reply'[q] = reply[q]
        BY <2>6
    <2>9. /\ UNCHANGED <<held, subs, mu, pc, req, split>>
          /\ cur' \in [Procs -> Nat \ {0}]
        BY <1>21 DEF SnapshotStep
    <2>10. QED
        BY <2>7, <2>8, <2>9 DEF NothingBilled
<1>22. CASE SnapshotDone(p)
    BY <1>22 DEF SnapshotDone, Goto, NothingBilled, PCs, ReadOps
<1>23. CASE ListUsers(p)
    BY <1>23 DEF ListUsers, InBody, Finish, NothingBilled, PCs, ReadOps, Replies
<1>24. QED
    BY <1>1, <1>2, <1>3, <1>4, <1>5, <1>6, <1>7, <1>8, <1>9, <1>10, <1>11, <1>12,
       <1>13, <1>14, <1>15, <1>16, <1>17, <1>18, <1>19, <1>20, <1>21, <1>22, <1>23
       DEF Step

-----------------------------------------------------------------------------
(* The lock.                                                               *)

\* Nobody holds the lock at first (ladder.go:39-41).
LEMMA InitLock == Init => LockInv
BY DEF Init, LockInv, Unlocked, Writing, Reading

\* Every step keeps the lock in agreement with who is inside: each method
\* takes it first and gives it back last (the Lock and RLock lines of
\* ladder.go:52-243 with their deferred counterparts).
LEMMA LockStep ==
    ASSUME TypeOK, CallInv, LockInv, NEW p \in Procs, Call(p) \/ Step(p)
    PROVE  LockInv'
<1> USE DEF LockInv, Writing, Reading
<1>1. CASE Call(p)
    BY <1>1 DEF Call, Goto, TypeOK
<1>2. CASE AttributeNothing(p)
    BY <1>2 DEF AttributeNothing, Goto, TypeOK
<1>3. CASE AnnounceWriter(p)
    BY <1>3, RWMutexAssumption DEF AnnounceWriter, CanAnnounce, Announced, Goto, TypeOK, RWMutexType
<1>4. CASE EnterWriter(p)
    BY <1>4 DEF EnterWriter, WriterEnters, Goto, TypeOK, RWMutexType, CallInv
<1>5. CASE EnterReader(p)
    BY <1>5, RWMutexAssumption
       DEF EnterReader, CanRLock, RLocked, Goto, TypeOK, RWMutexType, ReadOps
<1>6. CASE ExitWriter(p)
    BY <1>6 DEF ExitWriter, Unlock, Goto, TypeOK, RWMutexType
<1>7. CASE ExitReader(p)
    BY <1>7 DEF ExitReader, RUnlocked, Goto, TypeOK, RWMutexType
<1>8. CASE Return(p)
    BY <1>8 DEF Return, Goto, TypeOK
<1>9. CASE \/ Rebuild(p) \/ Sync(p) \/ Drop(p) \/ Reconcile(p) \/ Reset(p)
           \/ AttributeMissing(p)
    <2>1. /\ pc[p] = "body" /\ req[p].op \notin ReadOps
          /\ pc' = [pc EXCEPT ![p] = "unlock"] /\ UNCHANGED <<mu, req>>
        BY <1>9 DEF Rebuild, Sync, Drop, Reconcile, Reset, AttributeMissing,
                    InBody, Finish, ReadOps
    <2>2. QED
        BY <2>1 DEF TypeOK
<1>10. CASE AttributeStart(p)
    BY <1>10 DEF AttributeStart, InBody, Goto, TypeOK, ReadOps
<1>11. CASE ScanStep(p)
    BY <1>11 DEF ScanStep
<1>12. CASE ScanDone(p)
    BY <1>12 DEF ScanDone, Goto, TypeOK
<1>13. CASE ChargeStep(p)
    BY <1>13 DEF ChargeStep
<1>14. CASE ChargeDone(p)
    <2>1. /\ pc[p] = "charge" /\ pc' = [pc EXCEPT ![p] = "unlock"]
          /\ UNCHANGED <<mu, req>>
        BY <1>14 DEF ChargeDone, Finish, CallInv, ReadOps
    <2>2. QED
        BY <2>1 DEF TypeOK
<1>15. CASE SnapshotStart(p)
    BY <1>15 DEF SnapshotStart, InBody, Goto, TypeOK, ReadOps
<1>16. CASE SnapshotStep(p)
    BY <1>16 DEF SnapshotStep
<1>17. CASE SnapshotDone(p)
    BY <1>17 DEF SnapshotDone, Goto, TypeOK
<1>18. CASE ListUsers(p)
    <2>1. /\ pc[p] = "body" /\ req[p].op \in ReadOps
          /\ pc' = [pc EXCEPT ![p] = "runlock"] /\ UNCHANGED <<mu, req>>
        BY <1>18 DEF ListUsers, InBody, Finish, ReadOps
    <2>2. QED
        BY <2>1 DEF TypeOK
<1>19. QED
    BY <1>1, <1>2, <1>3, <1>4, <1>5, <1>6, <1>7, <1>8, <1>9, <1>10, <1>11, <1>12,
       <1>13, <1>14, <1>15, <1>16, <1>17, <1>18 DEF Step

-----------------------------------------------------------------------------
(* The deduction order.                                                    *)

\* Only a writer inside its critical section changes a ladder.
LEMMA OnlyWritersWrite ==
    ASSUME CallInv, NEW p \in Procs, Call(p) \/ Step(p), subs' # subs
    PROVE  Writing(p)
BY DEF Call, Step, AttributeNothing, AnnounceWriter, EnterWriter, EnterReader,
       ExitWriter, ExitReader, Return, Rebuild, Sync, Drop, Reconcile, Reset,
       AttributeMissing, AttributeStart, ScanStep, ScanDone, ChargeStep, ChargeDone,
       SnapshotStart, SnapshotStep, SnapshotDone, ListUsers, InBody, Writing, ReadOps

\* Every step keeps every ladder ordered and free of duplicates
\* (ladder.go:52-243).
LEMMA OrderStep ==
    ASSUME TypeOK, CallInv, LadderOrdered, NEW p \in Procs, Call(p) \/ Step(p)
    PROVE  LadderOrdered'
<1> DEFINE u == req[p].user
<1>0. ASSUME NEW list, u \in Users, subs' = [subs EXCEPT ![u] = list],
             InDeductionOrder(list)
      PROVE  LadderOrdered'
    BY <1>0 DEF LadderOrdered, TypeOK
<1>1. CASE Rebuild(p)
    <2>1. u \in Users /\ req[p].subs \in Seq(SubQuota)
        BY <1>1, RequestFields, QuotaLadderAssumption DEF Rebuild, InBody, CallInv
    <2>2. PICK list \in Prepared(req[p].subs) : subs' = [subs EXCEPT ![u] = list]
        BY <1>1 DEF Rebuild
    <2>3. QED
        BY <1>0, <2>1, <2>2, PreparedInOrder
<1>2. CASE Sync(p)
    <2>1. u \in Users /\ req[p].subs \in Seq(SubQuota)
        BY <1>2, RequestFields, QuotaLadderAssumption DEF Sync, InBody, CallInv
    <2>2. PICK list \in Prepared(req[p].subs) :
             subs' = [subs EXCEPT ![u] = KeepKnown(list, subs[u])]
        BY <1>2 DEF Sync
    <2>3. list \in Seq(SubQuota) /\ InDeductionOrder(list)
        BY <2>1, <2>2, PreparedInOrder
    <2>4. SameEntries(list, KeepKnown(list, subs[u]))
        BY <2>1, <2>3, KeepKnownResult DEF TypeOK, LadderOrdered
    <2>5. QED
        BY <1>0, <2>1, <2>2, <2>3, <2>4, SameEntriesKeepOrder
<1>3. CASE Drop(p)
    <2>1. u \in Users /\ subs' = [subs EXCEPT ![u] = <<>>]
        BY <1>3, RequestFields DEF Drop, InBody, CallInv
    <2>2. InDeductionOrder(<<>>)
        BY DEF InDeductionOrder
    <2>3. QED
        BY <1>0, <2>1, <2>2
<1>4. CASE Reconcile(p)
    <2>1. u \in Users /\ req[p].used \in Nat
        BY <1>4, RequestFields, QuotaLadderAssumption DEF Reconcile, InBody, CallInv
    <2>2. SameEntries(subs[u], Overwritten(subs[u], req[p].id, req[p].used))
        BY <2>1, OverwrittenResult DEF TypeOK
    <2>3. subs' = [subs EXCEPT ![u] = Overwritten(subs[u], req[p].id, req[p].used)]
        BY <1>4 DEF Reconcile
    <2>4. QED
        BY <1>0, <2>1, <2>2, <2>3, SameEntriesKeepOrder DEF TypeOK, LadderOrdered
<1>5. CASE Reset(p)
    <2>1. u \in Users /\ req[p].epoch \in Nat /\ req[p].at \in Times
        BY <1>5, RequestFields, QuotaLadderAssumption DEF Reset, InBody, CallInv
    <2>2. SameEntries(subs[u], RolledOver(subs[u], req[p].id, req[p].epoch, req[p].at))
        BY <2>1, RolledOverResult DEF TypeOK
    <2>3. subs' = [subs EXCEPT ![u] =
                      RolledOver(subs[u], req[p].id, req[p].epoch, req[p].at)]
        BY <1>5 DEF Reset
    <2>4. QED
        BY <1>0, <2>1, <2>2, <2>3, SameEntriesKeepOrder DEF TypeOK, LadderOrdered
<1>6. CASE ChargeStep(p)
    <2>1. u \in Users /\ req[p].at \in Times
        BY <1>6, RequestFields, QuotaLadderAssumption DEF ChargeStep, CallInv
    <2>2. split[p].rows[cur[p]] \in LedgerRow
        BY <1>6 DEF ChargeStep, TypeOK
    <2>3. SameEntries(subs[u], Charge(subs[u], split[p].rows[cur[p]], req[p].at))
        BY <2>1, <2>2, ChargeResult DEF TypeOK
    <2>4. subs' = [subs EXCEPT ![u] =
                      Charge(subs[u], split[p].rows[cur[p]], req[p].at)]
        BY <1>6 DEF ChargeStep
    <2>5. QED
        BY <1>0, <2>1, <2>3, <2>4, SameEntriesKeepOrder DEF TypeOK, LadderOrdered
<1>7. CASE UNCHANGED subs
    BY <1>7 DEF LadderOrdered
<1>8. QED
    BY <1>1, <1>2, <1>3, <1>4, <1>5, <1>6, <1>7
       DEF Call, Step, AttributeNothing, AnnounceWriter, EnterWriter, EnterReader,
           ExitWriter, ExitReader, Return, AttributeMissing, AttributeStart, ScanStep,
           ScanDone, ChargeDone, SnapshotStart, SnapshotStep, SnapshotDone, ListUsers

-----------------------------------------------------------------------------
(* Splits in progress.                                                     *)

\* A goroutine's step leaves the locals of the others alone.
LEMMA OnlyOwnLocals ==
    ASSUME TypeOK, NEW p \in Procs, Call(p) \/ Step(p), NEW q \in Procs, q # p
    PROVE  /\ pc'[q] = pc[q] /\ req'[q] = req[q]
           /\ cur'[q] = cur[q] /\ split'[q] = split[q] /\ reply'[q] = reply[q]
BY DEF TypeOK, Goto, Finish,
       Call, Step, AttributeNothing, AnnounceWriter, EnterWriter, EnterReader,
       ExitWriter, ExitReader, Return, Rebuild, Sync, Drop, Reconcile, Reset,
       AttributeMissing, AttributeStart, ScanStep, ScanDone, ChargeStep, ChargeDone,
       SnapshotStart, SnapshotStep, SnapshotDone, ListUsers

\* While one goroutine is splitting or writing back, no step of another
\* changes the list it works on (ladder.go:161-164).
LEMMA OthersUndisturbed ==
    ASSUME TypeOK, CallInv, LockInv, SplitInv,
           NEW p \in Procs, Call(p) \/ Step(p), NEW q \in Procs, q # p
    PROVE  Covered(q)' /\ Fits(q)'
<1>1. /\ pc'[q] = pc[q] /\ req'[q] = req[q]
      /\ cur'[q] = cur[q] /\ split'[q] = split[q]
    BY OnlyOwnLocals
<1>2. CASE pc[q] \in {"scan", "charge"}
    <2>1. ~Writing(p)
        BY <1>2 DEF LockInv, Writing
    <2>2. subs' = subs
        BY <2>1, OnlyWritersWrite
    <2>3. Covered(q) /\ Fits(q)
        BY DEF SplitInv
    <2>4. QED
        BY <1>1, <2>2, <2>3 DEF Covered, Fits
<1>3. CASE pc[q] \notin {"scan", "charge"}
    BY <1>1, <1>3 DEF Covered, Fits
<1>4. QED
    BY <1>2, <1>3

\* One turn of the split keeps every row covered by the available allowance
\* of a subscription already passed (quota.go:164-181).
LEMMA ScanStepCovers ==
    ASSUME TypeOK, CallInv, LadderOrdered, SplitInv, NEW p \in Procs, ScanStep(p)
    PROVE  Covered(p)'
<1> DEFINE list == subs[req[p].user]
           rows == split[p].rows
           c == cur[p]
           more == split'[p].rows
           room(i, row) == /\ list[i].ID = row.SubscriptionID
                           /\ row.Billed <= Available(list[i])
<1>1. /\ req[p].user \in Users /\ req[p].at \in Times
      /\ list \in Seq(SubQuota) /\ InDeductionOrder(list)
    BY RequestFields, QuotaLadderAssumption
       DEF ScanStep, CallInv, TypeOK, LadderOrdered
<1>2. /\ c \in DOMAIN list /\ list[c] \in SubQuota /\ c \in Nat
      /\ cur'[p] = c + 1
      /\ UNCHANGED <<subs, pc, req>>
    BY <1>1 DEF ScanStep, Scanning, TypeOK
<1>3. /\ rows \in Seq(LedgerRow) /\ split[p].remaining \in Nat \ {0}
      /\ split'[p] = Absorb(split[p], list[c], req[p].at)
    BY DEF ScanStep, Scanning, TypeOK
<1>4. /\ DistinctOwners(rows)
      /\ \A k \in DOMAIN rows : \E i \in DOMAIN list : i < c /\ room(i, rows[k])
    BY DEF SplitInv, Covered, ScanStep
<1>5. \A k \in DOMAIN rows : rows[k].SubscriptionID # list[c].ID
    BY <1>1, <1>2, <1>4 DEF InDeductionOrder
<1>6. SUFFICES /\ DistinctOwners(more)
               /\ \A k \in DOMAIN more :
                     \E i \in DOMAIN list : i < c + 1 /\ room(i, more[k])
    BY <1>2 DEF Covered
<1>7. \A i \in DOMAIN list : i < c => i < c + 1
    BY <1>1, <1>2
<1>8. \/ more = rows
      \/ \E take \in Nat \ {0} :
            /\ take <= Available(list[c])
            /\ more = Append(rows, [SubscriptionID |-> list[c].ID, Billed |-> take])
    <2> HIDE DEF list, c
    <2>1. more = Absorb(split[p], list[c], req[p].at).rows
        BY <1>3
    <2>2. split[p] \in [remaining : Int, rows : Seq(LedgerRow)]
        BY DEF TypeOK
    <2>3. /\ list[c] \in SubQuota
          /\ split[p].rows \in Seq(LedgerRow) /\ split[p].remaining \in Nat \ {0}
          /\ \A k \in DOMAIN split[p].rows : split[p].rows[k].SubscriptionID # list[c].ID
        BY <1>2, <1>3, <1>5
    <2>4. \/ Absorb(split[p], list[c], req[p].at).rows = split[p].rows
          \/ \E take \in Nat \ {0} :
                /\ take <= Available(list[c])
                /\ Absorb(split[p], list[c], req[p].at).rows =
                     Append(split[p].rows, [SubscriptionID |-> list[c].ID,
                                            Billed |-> take])
        BY ONLY <2>2, <2>3, AbsorbResult
    <2>5. QED
        BY <2>1, <2>4
<1> HIDE DEF list, rows, c, more
<1>9. CASE more = rows
    BY <1>4, <1>7, <1>9
<1>10. ASSUME NEW take \in Nat \ {0}, take <= Available(list[c]),
              more = Append(rows, [SubscriptionID |-> list[c].ID, Billed |-> take])
       PROVE  /\ DistinctOwners(more)
              /\ \A k \in DOMAIN more :
                    \E i \in DOMAIN list : i < c + 1 /\ room(i, more[k])
    <2>1. /\ DOMAIN more = 1 .. Len(rows) + 1 /\ DOMAIN rows = 1 .. Len(rows)
          /\ Len(rows) \in Nat
          /\ \A k \in DOMAIN rows : more[k] = rows[k]
          /\ more[Len(rows) + 1].SubscriptionID = list[c].ID
          /\ more[Len(rows) + 1].Billed = take
        BY <1>3, <1>10
    <2>2. DistinctOwners(more)
        BY <1>4, <1>5, <2>1 DEF DistinctOwners
    <2>3. ASSUME NEW k \in DOMAIN more
          PROVE  \E i \in DOMAIN list : i < c + 1 /\ room(i, more[k])
        <3>1. CASE k \in DOMAIN rows
            BY <1>4, <1>7, <2>1, <3>1
        <3>2. CASE k = Len(rows) + 1
            BY <1>2, <1>10, <2>1, <3>2
        <3>3. QED
            BY <2>1, <2>3, <3>1, <3>2
    <2>4. QED
        BY <2>2, <2>3
<1>11. QED
    BY <1>8, <1>9, <1>10

\* What the loop placed fits, and the overflow row has an owner of its own
\* (quota.go:164-184).
LEMMA ScanDoneFits ==
    ASSUME TypeOK, CallInv, SplitInv, NEW p \in Procs, ScanDone(p)
    PROVE  Fits(p)'
<1> DEFINE list == subs[req[p].user]
           rows == split[p].rows
           more == split'[p].rows
<1>1. /\ req[p].user \in Users /\ list \in Seq(SubQuota)
      /\ rows \in Seq(LedgerRow) /\ split[p].remaining \in Int
    BY RequestFields DEF ScanDone, Goto, CallInv, TypeOK
<1>2. /\ DistinctOwners(rows)
      /\ \A k \in DOMAIN rows :
            \E i \in DOMAIN list : /\ list[i].ID = rows[k].SubscriptionID
                                   /\ rows[k].Billed <= Available(list[i])
    BY DEF SplitInv, Covered, ScanDone, Goto
<1>3. more = Spill(split[p]) /\ UNCHANGED <<subs, req>>
    BY DEF ScanDone, TypeOK
<1>4. ASSUME NEW k \in DOMAIN rows
      PROVE  /\ rows[k].SubscriptionID # OverflowSubscriptionID
             /\ HasRoom(list, rows[k])
    <2>1. PICK i \in DOMAIN list : /\ list[i].ID = rows[k].SubscriptionID
                                   /\ rows[k].Billed <= Available(list[i])
        BY <1>2, <1>4
    <2>2. list[i] \in SubQuota /\ rows[k] \in LedgerRow
        BY <1>1, <1>4, <2>1
    <2>3. list[i].UsedBytes \in Nat /\ list[i].TransferBytes \in Nat
        BY <2>2 DEF SubQuota
    <2>4. rows[k].Billed \in Nat \ {0}
        BY <2>2 DEF LedgerRow
    <2>5. list[i].UsedBytes + rows[k].Billed <= list[i].TransferBytes
        BY <2>1, <2>2, <2>3, <2>4, AvailableBounds
    <2>6. rows[k].SubscriptionID # OverflowSubscriptionID
        BY <2>1, <2>2 DEF SubQuota
    <2>7. QED
        BY <2>1, <2>5, <2>6 DEF HasRoom
<1>5. \/ more = rows
      \/ \E n \in Nat \ {0} :
            more = Append(rows, [SubscriptionID |-> OverflowSubscriptionID, Billed |-> n])
    <2> HIDE DEF list
    <2>1. split[p].rows \in Seq(LedgerRow) /\ split[p].remaining \in Int
        BY <1>1
    <2>2. \A k \in DOMAIN split[p].rows :
             split[p].rows[k].SubscriptionID # OverflowSubscriptionID
        BY <1>4
    <2>3. \/ Spill(split[p]) = split[p].rows
          \/ \E n \in Nat \ {0} :
                Spill(split[p]) = Append(split[p].rows,
                    [SubscriptionID |-> OverflowSubscriptionID, Billed |-> n])
        BY ONLY <2>1, <2>2, SpillResult
    <2>4. QED
        BY <1>3, <2>3
<1>6. SUFFICES /\ DistinctOwners(more)
               /\ \A k \in DOMAIN more :
                     more[k].SubscriptionID # OverflowSubscriptionID =>
                        HasRoom(list, more[k])
    BY <1>3 DEF Fits
<1> HIDE DEF list, rows, more
<1>7. CASE more = rows
    BY <1>2, <1>4, <1>7
<1>8. ASSUME NEW n \in Nat \ {0},
             more = Append(rows, [SubscriptionID |-> OverflowSubscriptionID, Billed |-> n])
      PROVE  /\ DistinctOwners(more)
             /\ \A k \in DOMAIN more :
                   more[k].SubscriptionID # OverflowSubscriptionID =>
                      HasRoom(list, more[k])
    <2>1. /\ DOMAIN more = 1 .. Len(rows) + 1 /\ DOMAIN rows = 1 .. Len(rows)
          /\ Len(rows) \in Nat
          /\ \A k \in DOMAIN rows : more[k] = rows[k]
          /\ more[Len(rows) + 1].SubscriptionID = OverflowSubscriptionID
        BY <1>1, <1>8
    <2>2. DistinctOwners(more)
        BY <1>2, <1>4, <2>1 DEF DistinctOwners
    <2>3. \A k \in DOMAIN more : k \in DOMAIN rows \/ k = Len(rows) + 1
        BY <2>1
    <2>4. QED
        BY <1>4, <2>1, <2>2, <2>3
<1>9. QED
    BY <1>5, <1>7, <1>8

\* Writing one row takes room from nobody but the row's owner, and no later
\* row has the same owner (quota.go:192-204).
LEMMA ChargeStepFits ==
    ASSUME TypeOK, CallInv, SplitInv, NEW p \in Procs, ChargeStep(p)
    PROVE  Fits(p)'
<1> DEFINE list == subs[req[p].user]
           new == subs'[req[p].user]
           rows == split[p].rows
           c == cur[p]
<1>1. /\ req[p].user \in Users /\ req[p].at \in Times
      /\ list \in Seq(SubQuota) /\ rows \in Seq(LedgerRow)
      /\ c \in DOMAIN rows /\ c \in Nat /\ rows[c] \in LedgerRow
    BY RequestFields, QuotaLadderAssumption DEF ChargeStep, CallInv, TypeOK
<1>2. /\ DistinctOwners(rows)
      /\ \A k \in DOMAIN rows :
            k >= c /\ rows[k].SubscriptionID # OverflowSubscriptionID
               => HasRoom(list, rows[k])
    BY DEF SplitInv, Fits, ChargeStep
<1>3. /\ new = Charge(list, rows[c], req[p].at)
      /\ cur'[p] = c + 1 /\ UNCHANGED <<split, req, pc>>
    BY <1>1 DEF ChargeStep, TypeOK
<1>4. /\ DOMAIN new = DOMAIN list
      /\ \A i \in DOMAIN list :
            /\ new[i].ID = list[i].ID
            /\ new[i].TransferBytes = list[i].TransferBytes
            /\ new[i].UsedBytes # list[i].UsedBytes => list[i].ID = rows[c].SubscriptionID
    <2> HIDE DEF list, rows, c
    <2>1. /\ list \in Seq(SubQuota) /\ rows[c] \in LedgerRow /\ req[p].at \in Times
        BY <1>1
    <2>2. /\ SameEntries(list, Charge(list, rows[c], req[p].at))
          /\ \A i \in DOMAIN list :
                LET s == Charge(list, rows[c], req[p].at)[i]
                IN  /\ s.TransferBytes = list[i].TransferBytes
                    /\ \/ s.UsedBytes = list[i].UsedBytes
                       \/ /\ rows[c].SubscriptionID # OverflowSubscriptionID
                          /\ list[i].ID = rows[c].SubscriptionID
                          /\ s.UsedBytes = list[i].UsedBytes + rows[c].Billed
        BY ONLY <2>1, ChargeResult
    <2>3. QED
        BY <1>3, <2>2 DEF SameEntries
<1> HIDE DEF list, new, rows, c
<1>5. ASSUME NEW k \in DOMAIN rows, k >= c + 1,
             rows[k].SubscriptionID # OverflowSubscriptionID
      PROVE  HasRoom(new, rows[k])
    <2>1. k \in Nat /\ k >= c /\ k # c
        BY <1>1, <1>5
    <2>2. PICK i \in DOMAIN list :
              /\ list[i].ID = rows[k].SubscriptionID
              /\ list[i].UsedBytes + rows[k].Billed <= list[i].TransferBytes
        BY <1>2, <1>5, <2>1 DEF HasRoom
    <2>3. rows[k].SubscriptionID # rows[c].SubscriptionID
        BY <1>1, <1>2, <1>5, <2>1 DEF DistinctOwners
    <2>4. new[i].UsedBytes = list[i].UsedBytes
        BY <1>4, <2>2, <2>3
    <2>5. QED
        BY <1>4, <2>2, <2>4 DEF HasRoom
<1>6. QED
    BY <1>2, <1>3, <1>5 DEF Fits, new, rows, c

\* Every step keeps the splits in progress covered and their rows fitting
\* (ladder.go:182-201).
LEMMA SplitStep ==
    ASSUME TypeOK, CallInv, LockInv, LadderOrdered, SplitInv,
           NEW p \in Procs, Call(p) \/ Step(p)
    PROVE  SplitInv'
<1>1. Covered(p)' /\ Fits(p)'
    <2>1. CASE ScanStep(p)
        <3>1. Covered(p)'
            BY <2>1, ScanStepCovers
        <3>2. pc'[p] = "scan"
            BY <2>1 DEF ScanStep
        <3>3. QED
            BY <3>1, <3>2 DEF Fits
    <2>2. CASE ScanDone(p)
        <3>1. Fits(p)'
            BY <2>2, ScanDoneFits
        <3>2. pc'[p] = "charge"
            BY <2>2 DEF ScanDone, Goto, TypeOK
        <3>3. QED
            BY <3>1, <3>2 DEF Covered
    <2>3. CASE ChargeStep(p)
        <3>1. Fits(p)'
            BY <2>3, ChargeStepFits
        <3>2. pc'[p] = "charge"
            BY <2>3 DEF ChargeStep
        <3>3. QED
            BY <3>1, <3>2 DEF Covered
    <2>4. CASE AttributeStart(p)
        <3>1. pc'[p] = "scan" /\ split'[p].rows = <<>>
            BY <2>4 DEF AttributeStart, Goto, Unsplit, TypeOK
        <3>2. QED
            BY <3>1 DEF Covered, Fits, DistinctOwners
    <2>5. CASE pc'[p] \notin {"scan", "charge"}
        BY <2>5 DEF Covered, Fits
    <2>6. QED
        BY <2>1, <2>2, <2>3, <2>4, <2>5
           DEF TypeOK, Goto, Finish,
               Call, Step, AttributeNothing, AnnounceWriter, EnterWriter, EnterReader,
               ExitWriter, ExitReader, Return, Rebuild, Sync, Drop, Reconcile, Reset,
               AttributeMissing, ChargeDone,
               SnapshotStart, SnapshotStep, SnapshotDone, ListUsers
<1>2. \A q \in Procs : Covered(q)' /\ Fits(q)'
    BY <1>1, OthersUndisturbed
<1>3. QED
    BY <1>2 DEF SplitInv

-----------------------------------------------------------------------------
(* The locals of a call.                                                   *)

\* An Attribute call that got past its early return has something to place.
LEMMA AttributeCall ==
    ASSUME TypeOK, CallInv, NEW p \in Procs, req[p].op = "Attribute",
           pc[p] \in {"body", "scan", "charge"}
    PROVE  /\ req[p].user \in Users /\ req[p].billed \in Nat \ {0}
           /\ req[p].at \in Times /\ subs[req[p].user] \in Seq(SubQuota)
<1>1. req[p] \in Requests /\ ~NothingBilled(p)
    BY DEF CallInv
<1>2. req[p].user \in Users /\ req[p].billed \in Int /\ req[p].at \in Times
    BY <1>1, RequestFields, QuotaLadderAssumption
<1>3. req[p].billed \in Nat \ {0}
    BY <1>1, <1>2 DEF NothingBilled
<1>4. QED
    BY <1>2, <1>3 DEF TypeOK

\* What goroutine p's own step makes of its locals (ladder.go:182-201, 234-243).
LEMMA OwnLocals ==
    ASSUME TypeOK, CallInv, LadderOrdered, NEW p \in Procs, Locals(p), Call(p) \/ Step(p)
    PROVE  Locals(p)'
<1> USE DEF Locals
<1>1. CASE pc'[p] = "lock"
    BY <1>1 DEF Call, Step, Goto, Finish, TypeOK, AttributeNothing, AnnounceWriter, EnterWriter, EnterReader,
       ExitWriter, ExitReader, Return, Rebuild, Sync, Drop, Reconcile, Reset,
       AttributeMissing, AttributeStart, ScanStep, ScanDone, ChargeStep, ChargeDone,
       SnapshotStart, SnapshotStep, SnapshotDone, ListUsers
<1>2. CASE AttributeNothing(p) \/ ExitWriter(p) \/ ExitReader(p)
    BY <1>2 DEF AttributeNothing, ExitWriter, ExitReader, Goto, TypeOK
<1>3. CASE AnnounceWriter(p) \/ EnterWriter(p) \/ EnterReader(p)
    BY <1>3 DEF AnnounceWriter, EnterWriter, EnterReader, Goto, TypeOK
<1>4. CASE Return(p)
    BY <1>4 DEF Return, Goto, TypeOK
<1>5. CASE \/ Rebuild(p) \/ Sync(p) \/ Drop(p) \/ Reconcile(p) \/ Reset(p)
           \/ AttributeMissing(p) \/ ChargeDone(p) \/ ListUsers(p)
    <2>1. pc'[p] \in {"unlock", "runlock"}
        BY <1>5 DEF Rebuild, Sync, Drop, Reconcile, Reset, AttributeMissing, ChargeDone,
                    ListUsers, Finish, TypeOK
    <2>2. QED
        BY <2>1
<1>6. CASE AttributeStart(p)
    <2>1. /\ pc[p] = "body" /\ req[p].op = "Attribute" /\ pc'[p] = "scan"
          /\ split'[p] = Unsplit(req[p].billed) /\ req[p].user \in held
          /\ UNCHANGED <<held, subs, req, cur, reply>>
        BY <1>6 DEF AttributeStart, InBody, Goto, TypeOK
    <2>2. PICK n \in Nat \ {0}, list \in Seq(SubQuota) :
             n = req[p].billed /\ list = subs[req[p].user]
        BY <2>1, AttributeCall
    <2>3. SplitAfter(n, list, req[p].at, 0) = Unsplit(n)
        BY SplitAfterNone
    <2>4. cur[p] - 1 = 0 /\ reply[p] = Nothing /\ 0 <= Len(list)
        BY <2>1
    <2>5. QED
        BY <2>1, <2>2, <2>3, <2>4
<1>7. CASE ScanStep(p)
    <2>1. /\ pc[p] = "scan" /\ req[p].op = "Attribute" /\ pc'[p] = "scan"
          /\ Scanning(p)
          /\ split'[p] = Absorb(split[p], subs[req[p].user][cur[p]], req[p].at)
          /\ cur'[p] = cur[p] + 1
          /\ UNCHANGED <<held, subs, req, reply>>
        BY <1>7 DEF ScanStep, TypeOK, CallInv
    <2>2. PICK n \in Nat \ {0}, list \in Seq(SubQuota) :
             n = req[p].billed /\ list = subs[req[p].user]
        BY <2>1, AttributeCall
    <2>3. PICK done \in Nat : done = cur[p] - 1 /\ cur[p] = done + 1
        <3>1. cur[p] \in Nat \ {0}
            BY DEF TypeOK
        <3>2. QED
            BY <3>1
    <2>4. done + 1 <= Len(list) /\ split[p].remaining > 0
        BY <2>1, <2>2, <2>3 DEF Scanning
    <2>5. split[p] = SplitAfter(n, list, req[p].at, done)
        BY <2>1, <2>2, <2>3
    <2>6. SplitAfter(n, list, req[p].at, done + 1)
              = Turn(SplitAfter(n, list, req[p].at, done), list[done + 1], req[p].at)
        BY <2>4, SplitAfterTurn
    <2>7. split'[p] = SplitAfter(n, list, req[p].at, done + 1)
        BY <2>1, <2>2, <2>3, <2>4, <2>5, <2>6 DEF Turn
    <2>8. cur'[p] - 1 = done + 1
        BY <2>1, <2>3
    <2>9. QED
        BY <2>1, <2>2, <2>4, <2>7, <2>8
<1>8. CASE ScanDone(p) \/ ChargeStep(p)
    <2>1. pc'[p] = "charge"
        BY <1>8 DEF ScanDone, ChargeStep, Goto, TypeOK
    <2>2. QED
        BY <2>1
<1>9. CASE SnapshotStart(p)
    <2>1. /\ pc[p] = "body" /\ req[p].op = "Snapshot" /\ pc'[p] = "copy"
          /\ reply'[p] = Copy(<<>>)
          /\ UNCHANGED <<held, subs, req, cur>>
        BY <1>9 DEF SnapshotStart, InBody, Goto, TypeOK
    <2>2. PICK list \in Seq(SubQuota) : list = subs[req[p].user]
        BY <2>1, RequestFields DEF CallInv, TypeOK
    <2>3. SubSeq(list, 1, 0) = <<>> /\ 0 <= Len(list)
        OBVIOUS
    <2>4. cur'[p] - 1 = 0
        BY <2>1
    <2>5. QED
        BY <2>1, <2>2, <2>3, <2>4
<1>10. CASE SnapshotStep(p)
    <2>1. /\ pc[p] = "copy" /\ req[p].op = "Snapshot" /\ pc'[p] = "copy"
          /\ cur'[p] = cur[p] + 1
          /\ UNCHANGED <<held, subs, req>>
        BY <1>10 DEF SnapshotStep, TypeOK, CallInv
    <2>2. PICK list \in Seq(SubQuota) : list = subs[req[p].user]
        BY <2>1, RequestFields DEF CallInv, TypeOK
    <2>3. PICK done \in Nat : done = cur[p] - 1 /\ cur[p] = done + 1
        <3>1. cur[p] \in Nat \ {0}
            BY DEF TypeOK
        <3>2. QED
            BY <3>1
    <2>4. done + 1 <= Len(list)
        BY <1>10, <2>2, <2>3 DEF SnapshotStep
    <2>5. reply[p] = [copy |-> SubSeq(list, 1, done)]
        BY <2>1, <2>2, <2>3 DEF Copy
    <2>6. PICK more : more = Append(reply[p].copy, subs[req[p].user][cur[p]])
        OBVIOUS
    <2>7. more = SubSeq(list, 1, done + 1)
        <3>1. more = Append(SubSeq(list, 1, done), list[done + 1])
            <4>1. reply[p].copy = SubSeq(list, 1, done)
                BY <2>5
            <4>2. PICK k : k = cur[p] /\ k = done + 1
                BY <2>3
            <4>3. more = Append(SubSeq(list, 1, done), list[k])
                BY <2>2, <2>6, <4>1, <4>2
            <4>4. QED
                BY <4>2, <4>3
        <3>2. QED
            BY <2>4, <3>1
    <2>8. reply'[p] = [reply[p] EXCEPT !.copy = more]
        <3>1. reply' = [reply EXCEPT ![p] = [reply[p] EXCEPT !.copy = more]]
            BY <1>10, <2>6 DEF SnapshotStep
        <3>2. QED
            BY <3>1 DEF TypeOK
    <2>9. reply'[p] = [copy |-> more]
        BY <2>5, <2>8
    <2>10. cur'[p] - 1 = done + 1
        BY <2>1, <2>3
    <2>11. QED
        BY <2>1, <2>2, <2>4, <2>7, <2>9, <2>10 DEF Copy
<1>11. CASE SnapshotDone(p)
    <2>1. pc'[p] = "runlock"
        BY <1>11 DEF SnapshotDone, Goto, TypeOK
    <2>2. QED
        BY <2>1
<1>12. CASE Call(p)
    BY <1>12, <1>1 DEF Call, Goto, TypeOK
<1>13. QED
    BY <1>2, <1>3, <1>4, <1>5, <1>6, <1>7, <1>8, <1>9, <1>10, <1>11, <1>12 DEF Step

\* Every step keeps every goroutine's locals: the list a loop runs over does
\* not change under it (ladder.go:161-164).
LEMMA LocalsStep ==
    ASSUME TypeOK, CallInv, LockInv, LadderOrdered, LocalsInv, NEW p \in Procs, Call(p) \/ Step(p)
    PROVE  LocalsInv'
<1>1. SUFFICES ASSUME NEW q \in Procs PROVE Locals(q)'
    BY DEF LocalsInv, Locals
<1>2. Locals(p) /\ Locals(q)
    BY DEF LocalsInv, Locals
<1>3. CASE q = p
    BY <1>2, <1>3, OwnLocals
<1>4. CASE q # p
    <2>1. /\ pc'[q] = pc[q] /\ req'[q] = req[q] /\ cur'[q] = cur[q]
          /\ split'[q] = split[q] /\ reply'[q] = reply[q]
        BY <1>4, OnlyOwnLocals
    <2>2. CASE pc[q] \in {"scan", "copy"}
        <3>1. ~Writing(p)
            <4>1. Writing(q) \/ Reading(q)
                BY <2>2 DEF Writing, Reading
            <4>2. QED
                BY <1>4, <4>1 DEF LockInv
        <3>2. subs' = subs
            BY <3>1, OnlyWritersWrite
        <3>3. held' = held
            BY <3>1 DEF Call, Step, AttributeNothing, AnnounceWriter, EnterWriter, EnterReader,
               ExitWriter, ExitReader, Return, Rebuild, Sync, Drop, Reconcile, Reset,
               AttributeMissing, AttributeStart, ScanStep, ScanDone, ChargeStep, ChargeDone,
               SnapshotStart, SnapshotStep, SnapshotDone, ListUsers, InBody, Writing, ReadOps
        <3>4. QED
            BY <1>2, <2>1, <3>2, <3>3 DEF Locals
    <2>3. CASE pc[q] \notin {"scan", "copy"}
        BY <1>2, <2>1, <2>3 DEF Locals
    <2>4. QED
        BY <2>2, <2>3
<1>5. QED
    BY <1>3, <1>4

-----------------------------------------------------------------------------
(* The specification.                                                      *)

\* The six invariants hold together in every state: what each handler of
\* ladder.go may assume when it takes the lock.
THEOREM Inductive == Spec => []IInv
<1>1. Init => IInv
    <2>1. Init => LadderOrdered /\ SplitInv /\ LocalsInv
        BY DEF Init, LadderOrdered, InDeductionOrder, SplitInv, Covered, Fits, LocalsInv, Locals
    <2>2. QED
        BY <2>1, InitTypes, InitLock DEF IInv
<1>2. IInv /\ [Next]_vars => IInv'
    <2> SUFFICES ASSUME IInv, [Next]_vars PROVE IInv'
        OBVIOUS
    <2> USE DEF IInv
    <2>1. ASSUME NEW p \in Procs, Call(p) \/ Step(p)
          PROVE  IInv'
        BY <2>1, TypeStep, LockStep, OrderStep, SplitStep, LocalsStep
    <2>2. CASE UNCHANGED vars
        BY <2>2 DEF vars, TypeOK, CallInv, LockInv, LadderOrdered, SplitInv, Covered,
                    Fits, HasRoom, LocalsInv, Locals, Writing, Reading, NothingBilled
    <2>3. QED
        BY <2>1, <2>2 DEF Next
<1>3. QED
    BY <1>1, <1>2, PTL DEF Spec

\* Every variable keeps its type: counters in particular stay natural
\* numbers, whatever mixture of calls runs (ladder.go:26-30).
THEOREM TypeCorrect == Spec => []TypeOK
BY Inductive, PTL DEF IInv

\* Every ladder is free of duplicates and in deduction order in every state,
\* so domain.Attribute always finds its precondition (ladder.go:88-93,
\* quota.go:127-128).
THEOREM LaddersStayOrdered == Spec => []LadderOrdered
BY Inductive, PTL DEF IInv

\* Writing a split back never takes a counter past its allowance, for any
\* number of goroutines, subscriptions and bytes (ladder.go:90-93, 161-164).
THEOREM NeverOverdraws == Spec => NoOverdraw
<1> DEFINE Step1 == \A p \in Procs : ChargeStep(p) =>
                       \A u \in Users : \A i \in DOMAIN subs[u] :
                          subs'[u][i].UsedBytes > subs[u][i].UsedBytes =>
                             subs'[u][i].UsedBytes <= subs[u][i].TransferBytes
<1>1. IInv => Step1
    <2> SUFFICES ASSUME IInv, NEW p \in Procs, ChargeStep(p),
                        NEW u \in Users, NEW i \in DOMAIN subs[u],
                        subs'[u][i].UsedBytes > subs[u][i].UsedBytes
                 PROVE  subs'[u][i].UsedBytes <= subs[u][i].TransferBytes
        OBVIOUS
    <2> DEFINE row == split[p].rows[cur[p]]
               list == subs[u]
    <2>0. TypeOK /\ CallInv
        BY DEF IInv
    <2>1. /\ req[p].user \in Users /\ req[p].at \in Times
          /\ subs[req[p].user] \in Seq(SubQuota) /\ row \in LedgerRow
          /\ cur[p] \in DOMAIN split[p].rows /\ cur[p] \in Nat
        <3>1. req[p] \in Requests /\ req[p].op = "Attribute"
            BY <2>0 DEF ChargeStep, CallInv
        <3>2. req[p].user \in Users /\ req[p].at \in Times
            BY <3>1, RequestFields, QuotaLadderAssumption
        <3>3. split[p].rows \in Seq(LedgerRow) /\ cur[p] \in Nat \ {0}
            BY <2>0 DEF TypeOK
        <3>4. cur[p] \in DOMAIN split[p].rows
            BY <3>3 DEF ChargeStep
        <3>5. QED
            BY <2>0, <3>2, <3>3, <3>4 DEF TypeOK
    <2>2. subs' = [subs EXCEPT ![req[p].user] =
                      Charge(subs[req[p].user], row, req[p].at)]
        BY DEF ChargeStep
    <2>3. list[i].UsedBytes \in Nat /\ list \in Seq(SubQuota)
        <3>1. list \in Seq(SubQuota) /\ i \in DOMAIN list
            BY <2>0 DEF TypeOK
        <3> HIDE DEF list
        <3>2. list[i] \in SubQuota
            BY <3>1
        <3>3. QED
            BY <3>1, <3>2 DEF SubQuota
    <2>4. u = req[p].user
        BY <2>2, <2>3 DEF IInv, TypeOK
    <2>5. subs'[u] = Charge(list, row, req[p].at)
        BY <2>1, <2>2, <2>4 DEF IInv, TypeOK
    <2>6. LET s == Charge(list, row, req[p].at)[i]
          IN  /\ s.TransferBytes = list[i].TransferBytes
              /\ \/ s.UsedBytes = list[i].UsedBytes
                 \/ /\ row.SubscriptionID # OverflowSubscriptionID
                    /\ list[i].ID = row.SubscriptionID
                    /\ s.UsedBytes = list[i].UsedBytes + row.Billed
        <3>1. /\ list \in Seq(SubQuota) /\ row \in LedgerRow
              /\ req[p].at \in Times /\ i \in DOMAIN list
            BY <2>1, <2>3
        <3> HIDE DEF list, row
        <3>2. QED
            BY ONLY <3>1, ChargeResult
    <2>7. /\ row.SubscriptionID # OverflowSubscriptionID
          /\ list[i].ID = row.SubscriptionID
          /\ subs'[u][i].UsedBytes = list[i].UsedBytes + row.Billed
        BY <2>3, <2>5, <2>6
    <2>8. Fits(p) /\ pc[p] = "charge"
        BY DEF IInv, SplitInv, ChargeStep
    <2>9. HasRoom(list, row)
        BY <2>1, <2>4, <2>7, <2>8 DEF Fits
    <2>10. PICK j \in DOMAIN list :
              /\ list[j].ID = row.SubscriptionID
              /\ list[j].UsedBytes + row.Billed <= list[j].TransferBytes
        BY <2>9 DEF HasRoom
    <2>11. InDeductionOrder(list)
        BY DEF IInv, LadderOrdered
    <2>12. i = j
        <3>1. i \in Nat /\ j \in Nat
            BY <2>3, <2>10
        <3>2. QED
            BY <2>7, <2>10, <2>11, <3>1 DEF InDeductionOrder
    <2>13. QED
        BY <2>7, <2>10, <2>12
<1>2. IInv => [Step1]_vars
    BY <1>1
<1>3. QED
    BY Inductive, <1>2, PTL DEF NoOverdraw

\* Only a period rollover, an authoritative counter and the hourly rebuild
\* lower the counter of a subscription the ladder knows, whatever table the
\* others were fed from (ladder.go:61-66, 214-243).
THEOREM NoRefunds == Spec => NoRefundWithoutAuthority
<1> DEFINE Lowered(u) == \E i \in DOMAIN subs[u], j \in DOMAIN subs'[u] :
                            /\ subs[u][i].ID = subs'[u][j].ID
                            /\ subs'[u][j].UsedBytes < subs[u][i].UsedBytes
           Authority == \E p \in Procs : Rebuild(p) \/ Reconcile(p) \/ Reset(p)
           Step1 == \A u \in Users : Lowered(u) => Authority
<1>1. IInv /\ Next => Step1
    <2> SUFFICES ASSUME IInv, Next, NEW u \in Users, Lowered(u), ~Authority
                 PROVE  FALSE
        OBVIOUS
    <2>1. TypeOK /\ CallInv /\ LadderOrdered
        BY DEF IInv
    <2>2. PICK old \in Seq(SubQuota) : old = subs[u] /\ InDeductionOrder(old)
        BY <2>1 DEF TypeOK, LadderOrdered
    <2>3. PICK new : new = subs'[u]
        OBVIOUS
    <2>4. PICK i \in DOMAIN old, j \in DOMAIN new :
             old[i].ID = new[j].ID /\ new[j].UsedBytes < old[i].UsedBytes
        BY <2>2, <2>3
    <2>5. \A k \in DOMAIN old : old[k].UsedBytes \in Nat /\ (old[k].ID = old[i].ID => k = i)
        <3> SUFFICES ASSUME NEW k \in DOMAIN old
                     PROVE  old[k].UsedBytes \in Nat /\ (old[k].ID = old[i].ID => k = i)
            OBVIOUS
        <3>1. old[k] \in SubQuota
            OBVIOUS
        <3>2. k \in Nat /\ i \in Nat
            OBVIOUS
        <3>3. old[k].ID = old[i].ID => ~(k < i) /\ ~(i < k)
            BY <2>2, <3>2 DEF InDeductionOrder
        <3>4. old[k].UsedBytes \in Nat
            BY <3>1 DEF SubQuota
        <3>5. QED
            BY <3>2, <3>3, <3>4
    <2>6. new # old
        BY <2>4, <2>5
    <2>7. PICK p \in Procs : Call(p) \/ Step(p)
        BY DEF Next
    <2>8. CASE Sync(p)
        <3>1. req[p].user \in Users /\ req[p].subs \in Seq(SubQuota)
            BY <2>1, <2>8, RequestFields, QuotaLadderAssumption DEF Sync, InBody, CallInv
        <3>2. PICK list \in Prepared(req[p].subs) :
                 subs' = [subs EXCEPT ![req[p].user] = KeepKnown(list, subs[req[p].user])]
            BY <2>8 DEF Sync
        <3>3. u = req[p].user /\ new = KeepKnown(list, old)
            BY <2>1, <2>2, <2>3, <2>6, <3>2 DEF TypeOK
        <3>4. list \in Seq(SubQuota)
            BY <3>1, <3>2, PreparedInOrder
        <3>5. Keeps(new, list, old)
            BY <2>2, <3>3, <3>4, KeepsKnown
        <3>6. j \in DOMAIN list /\ new[j].ID = list[j].ID
            BY <3>5 DEF Keeps, SameEntries
        <3>7. HasID(old, list[j].ID)
            BY <2>4, <3>6 DEF HasID
        <3>8. PICK k \in DOMAIN old : old[k].ID = list[j].ID /\ new[j].UsedBytes = old[k].UsedBytes
            BY <3>5, <3>6, <3>7 DEF Keeps
        <3>9. QED
            BY <2>4, <2>5, <3>6, <3>8
    <2>9. CASE ChargeStep(p)
        <3>1. req[p].user \in Users /\ req[p].at \in Times
            BY <2>1, <2>9, RequestFields, QuotaLadderAssumption DEF ChargeStep, CallInv
        <3>2. PICK row \in LedgerRow, at \in Times :
                 subs' = [subs EXCEPT ![req[p].user] = Charge(subs[req[p].user], row, at)]
            <4>1. split[p].rows[cur[p]] \in LedgerRow
                BY <2>1, <2>9 DEF ChargeStep, TypeOK
            <4>2. QED
                BY <2>9, <3>1, <4>1 DEF ChargeStep
        <3>3. u = req[p].user /\ new = Charge(old, row, at)
            BY <2>1, <2>2, <2>3, <2>6, <3>2 DEF TypeOK
        <3>4. /\ SameEntries(old, new)
              /\ \/ new[j].UsedBytes = old[j].UsedBytes
                 \/ new[j].UsedBytes = old[j].UsedBytes + row.Billed
            BY <3>3, ChargeResult DEF SameEntries
        <3>5. row.Billed \in Nat /\ j \in DOMAIN old /\ new[j].ID = old[j].ID
            BY <3>4 DEF SameEntries, LedgerRow
        <3>6. QED
            BY <2>4, <2>5, <3>4, <3>5
    <2>10. CASE Drop(p)
        <3>1. DOMAIN <<>> = {}
            OBVIOUS
        <3>2. subs' = [subs EXCEPT ![req[p].user] = <<>>]
            BY <2>10 DEF Drop
        <3>3. new = <<>>
            BY <2>1, <2>2, <2>3, <2>6, <3>2 DEF TypeOK
        <3>4. QED
            BY <2>4, <3>1, <3>3
    <2>11. subs' # subs
        BY <2>2, <2>3, <2>6
    <2>12. QED
        BY <2>7, <2>8, <2>9, <2>10, <2>11
           DEF Call, Step, AttributeNothing, AnnounceWriter, EnterWriter, EnterReader,
               ExitWriter, ExitReader, Return, AttributeMissing, AttributeStart, ScanStep,
               ScanDone, ChargeDone, SnapshotStart, SnapshotStep, SnapshotDone, ListUsers
<1>2. IInv /\ [Next]_vars => [Step1]_vars
    BY <1>1
<1>3. QED
    BY Inductive, <1>2, PTL DEF NoRefundWithoutAuthority, Spec

-----------------------------------------------------------------------------
(* The refinement: what is read is what LadderAtomic reads.                *)

\* The operators LadderAtomic takes from Deduction and Waterfall are the ones
\* the ladder is described with.
LEMMA SameHas ==
    ASSUME NEW list, NEW id
    PROVE  Atomic!HasID(list, id) <=> HasID(list, id)
BY DEF Atomic!HasID, HasID

\* Likewise the period of a bucket (reset.go).
LEMMA SameCounts ==
    ASSUME NEW at, NEW reset
    PROVE  /\ Atomic!CountsTowardCurrentPeriod(at, reset) <=> CountsTowardCurrentPeriod(at, reset)
           /\ Atomic!AlignBucket(at) = AlignBucket(at)
BY DEF Atomic!CountsTowardCurrentPeriod, CountsTowardCurrentPeriod, Atomic!AlignBucket, AlignBucket

\* Likewise the prepared list (ladder.go:88-113).
LEMMA SamePrepared ==
    ASSUME NEW list
    PROVE  Atomic!Prepared(list) = Prepared(list)
<1>1. \A a, b : Atomic!Before(a, b) <=> Before(a, b)
    BY DEF Atomic!Before, Before, Atomic!kindRank, kindRank, Atomic!ExpiresSooner, ExpiresSooner
<1>2. \A i, j : Atomic!Precedes(list, i, j) <=> Precedes(list, i, j)
    BY <1>1 DEF Atomic!Precedes, Precedes
<1>3. Atomic!FirstOfID(list) = FirstOfID(list)
    BY DEF Atomic!FirstOfID, FirstOfID
<1> DEFINE I == FirstOfID(list)
           n == 1 .. Cardinality(I)
           P == {f \in [n -> I] : \A i, j \in n : i < j => Atomic!Precedes(list, f[i], f[j])}
           Q == {f \in [n -> I] : \A i, j \in n : i < j => Precedes(list, f[i], f[j])}
<1>4. P = Q
    BY <1>2
<1>5. Atomic!Cardinality(I) = Cardinality(I)
    BY DEF Atomic!Cardinality, Cardinality
<1>6. Atomic!Prepared(list) = {[k \in n |-> list[f[k]]] : f \in P}
    BY <1>3, <1>5 DEF Atomic!Prepared, Atomic!SortForDeduction
<1>7. Prepared(list) = {[k \in n |-> list[f[k]]] : f \in Q}
    BY DEF Prepared, SortForDeduction
<1>8. QED
    BY <1>4, <1>6, <1>7

\* Likewise what the rows give to one subscription.
LEMMA SameBilled ==
    ASSUME NEW rows, NEW id
    PROVE  Atomic!BilledTo(rows, id) = BilledTo(rows, id)
BY DEF Atomic!BilledTo, BilledTo, Atomic!BilledAt, BilledAt,
       Atomic!SumFunctionOnSet, SumFunctionOnSet, Atomic!FoldFunctionOnSet, FoldFunctionOnSet,
       Atomic!MapThenFoldSet, MapThenFoldSet

\* Likewise the waterfall.
LEMMA SameWaterfall ==
    ASSUME NEW n, NEW list, NEW at
    PROVE  Atomic!WaterfallRows(n, list, at) = WaterfallRows(n, list, at)
BY DEF Atomic!WaterfallRows, WaterfallRows, Atomic!PouredRows, PouredRows, Atomic!RowOf, RowOf,
       Atomic!Poured, Poured, Atomic!Overflowing, Overflowing,
       Atomic!OverflowSubscriptionID, OverflowSubscriptionID, Atomic!Lesser, Lesser,
       Atomic!TakenBefore, TakenBefore, Atomic!Room, Room, Atomic!ActiveAt, ActiveAt,
       Atomic!Available, Available, Atomic!SumFunctionOnSet, SumFunctionOnSet,
       Atomic!FoldFunctionOnSet, FoldFunctionOnSet, Atomic!MapThenFoldSet, MapThenFoldSet

-----------------------------------------------------------------------------
(* The refinement: lists.                                                  *)

\* A ladder names every subscription once.
LEMMA OrderedIsDistinct ==
    ASSUME NEW list \in Seq(SubQuota), InDeductionOrder(list)
    PROVE  DistinctIDs(list)
<1>1. SUFFICES ASSUME NEW i \in DOMAIN list, NEW j \in DOMAIN list, list[i].ID = list[j].ID
               PROVE  i = j
    BY DEF DistinctIDs
<1>2. i \in Nat /\ j \in Nat
    OBVIOUS
<1>3. ~(i < j) /\ ~(j < i)
    BY <1>1 DEF InDeductionOrder
<1>4. QED
    BY <1>2, <1>3

\* The loops that stop at the first entry of an ID and the maps that look at
\* every entry agree where an ID has one entry (ladder.go:66-86, 125-151).
LEMMA OneEntryWritten ==
    ASSUME NEW list \in Seq(SubQuota), DistinctIDs(list), NEW id
    PROVE  \A i \in DOMAIN list : IsFirst(list, id, i) <=> list[i].ID = id
<1>1. SUFFICES ASSUME NEW i \in DOMAIN list, list[i].ID = id, NEW j \in 1 .. i - 1
               PROVE  list[j].ID # id
    BY DEF IsFirst
<1>2. j \in DOMAIN list /\ j # i
    OBVIOUS
<1>3. QED
    BY <1>1, <1>2 DEF DistinctIDs

\* Sync carries over the counter LadderAtomic says it does (ladder.go:214-228).
LEMMA CarriedIs ==
    ASSUME NEW next \in Seq(SubQuota), NEW old \in Seq(SubQuota), InDeductionOrder(old)
    PROVE  Atomic!Carried(next, old) = KeepKnown(next, old)
<1> DEFINE LastWith(id, i) == /\ old[i].ID = id
                              /\ \A j \in DOMAIN old : j > i => old[j].ID # id
           known(id) == CHOOSE i \in DOMAIN old : LastWith(id, i)
           entry(id) == CHOOSE s \in {old[j] : j \in DOMAIN old} : s.ID = id
<1>1. DistinctIDs(old)
    BY OrderedIsDistinct
<1>2. ASSUME NEW id, HasID(old, id)
      PROVE  entry(id) = old[known(id)]
    <2>1. PICK i \in DOMAIN old : old[i].ID = id
        BY <1>2 DEF HasID
    <2>2. \A j \in DOMAIN old : j > i => old[j].ID # old[i].ID
        BY <2>1 DEF InDeductionOrder
    <2>3. LastWith(id, i)
        BY <2>1, <2>2
    <2>4. known(id) \in DOMAIN old /\ old[known(id)].ID = id
        BY <2>3
    <2>5. known(id) = i
        BY <1>1, <2>1, <2>4 DEF DistinctIDs
    <2>6. old[i] \in {old[j] : j \in DOMAIN old}
        BY <2>1
    <2>7. entry(id) \in {old[j] : j \in DOMAIN old} /\ entry(id).ID = id
        BY <2>1, <2>6
    <2> HIDE DEF entry, known
    <2>8. PICK j \in DOMAIN old : entry(id) = old[j] /\ old[j].ID = id
        BY <2>7
    <2>9. j = i
        BY <1>1, <2>1, <2>8 DEF DistinctIDs
    <2>10. QED
        BY <2>5, <2>8, <2>9
<1>3. \A i \in DOMAIN next :
         KeepKnown(next, old)[i] = IF HasID(old, next[i].ID)
                                   THEN [next[i] EXCEPT !.UsedBytes = old[known(next[i].ID)].UsedBytes]
                                   ELSE next[i]
    BY DEF KeepKnown
<1>4. /\ Atomic!Carried(next, old) = [i \in DOMAIN next |-> Atomic!Carried(next, old)[i]]
      /\ \A i \in DOMAIN next :
            Atomic!Carried(next, old)[i] =
               [next[i] EXCEPT !.UsedBytes = IF HasID(old, next[i].ID)
                                             THEN entry(next[i].ID).UsedBytes ELSE @]
    BY SameHas DEF Atomic!Carried
<1>5. KeepKnown(next, old) = [i \in DOMAIN next |-> KeepKnown(next, old)[i]]
    BY DEF KeepKnown
<1> HIDE DEF known, entry
<1>6. ASSUME NEW i \in DOMAIN next
      PROVE  Atomic!Carried(next, old)[i] = KeepKnown(next, old)[i]
    <2>1. PICK s \in SubQuota : s = next[i]
        OBVIOUS
    <2>2. CASE HasID(old, s.ID)
        BY <1>2, <1>3, <1>4, <2>1, <2>2
    <2>3. CASE ~HasID(old, s.ID)
        <3>1. [s EXCEPT !.UsedBytes = s.UsedBytes] = s
            BY DEF SubQuota
        <3>2. QED
            BY <1>3, <1>4, <2>1, <2>3, <3>1
    <2>4. QED
        BY <2>2, <2>3
<1>7. QED
    BY <1>4, <1>5, <1>6

\* The rows that are left give what the first of them gives and what the
\* others give.
LEMMA BilledFromIs ==
    ASSUME NEW rows \in Seq(LedgerRow), NEW id
    PROVE  /\ BilledFrom(rows, 1, id) = BilledTo(rows, id)
           /\ \A c \in Nat : BilledFrom(rows, c, id) \in Nat
           /\ \A c \in Nat : c > Len(rows) => BilledFrom(rows, c, id) = 0
           /\ \A c \in DOMAIN rows :
                 BilledFrom(rows, c, id) = BilledFrom(rows, c + 1, id)
                    + IF rows[c].SubscriptionID = id THEN rows[c].Billed ELSE 0
<1> DEFINE from(c) == {k \in DOMAIN rows : k >= c /\ rows[k].SubscriptionID = id}
           f == BilledAt(rows)
<1>1. IsFiniteSet(DOMAIN rows) /\ \A k \in DOMAIN rows : f[k] = rows[k].Billed /\ f[k] \in Nat
    BY BilledAmongIs
<1>2. ASSUME NEW c
      PROVE  /\ IsFiniteSet(from(c)) /\ \A k \in from(c) : f[k] \in Nat
             /\ BilledFrom(rows, c, id) = SumFunctionOnSet(f, from(c))
    BY <1>1, FS_Subset DEF BilledFrom
<1>3. BilledTo(rows, id) = SumFunctionOnSet(f, {k \in DOMAIN rows : rows[k].SubscriptionID = id})
    BY DEF BilledTo
<1> HIDE DEF f
<1>4. \A c : SumFunctionOnSet(f, from(c)) \in Nat
    BY <1>2, SumType
<1>5. from(1) = {k \in DOMAIN rows : rows[k].SubscriptionID = id}
    OBVIOUS
<1>6. ASSUME NEW c \in Nat, c > Len(rows)
      PROVE  BilledFrom(rows, c, id) = 0
    <2>1. from(c) = {}
        BY <1>6
    <2>2. QED
        BY <1>2, <2>1, SumEmpty
<1>7. ASSUME NEW c \in DOMAIN rows
      PROVE  BilledFrom(rows, c, id) = BilledFrom(rows, c + 1, id)
                + IF rows[c].SubscriptionID = id THEN rows[c].Billed ELSE 0
    <2>1. CASE rows[c].SubscriptionID = id
        <3>1. c \in from(c) /\ from(c) \ {c} = from(c + 1)
            BY <2>1
        <3>2. PICK S : S = from(c)
            OBVIOUS
        <3>3. IsFiniteSet(S) /\ (\A k \in S : f[k] \in Nat) /\ c \in S
            BY <1>2, <3>1, <3>2
        <3>4. SumFunctionOnSet(f, S) = f[c] + SumFunctionOnSet(f, S \ {c})
            BY <3>3, SumRemove
        <3>5. PICK m \in Nat, n \in Nat : m = f[c] /\ m = rows[c].Billed /\ n = SumFunctionOnSet(f, from(c + 1))
            BY <1>1, <1>4
        <3>6. BilledFrom(rows, c, id) = m + n /\ BilledFrom(rows, c + 1, id) = n
            BY <1>2, <3>1, <3>2, <3>4, <3>5
        <3>7. QED
            BY <2>1, <3>5, <3>6
    <2>2. CASE rows[c].SubscriptionID # id
        <3>1. from(c) = from(c + 1)
            <4>1. \A k \in DOMAIN rows : k >= c /\ k # c => k >= c + 1
                OBVIOUS
            <4>2. \A k \in DOMAIN rows : k >= c + 1 => k >= c
                OBVIOUS
            <4>3. QED
                BY <2>2, <4>1, <4>2
        <3>2. PICK n \in Nat : n = SumFunctionOnSet(f, from(c + 1))
            BY <1>4
        <3>3. BilledFrom(rows, c, id) = n /\ BilledFrom(rows, c + 1, id) = n
            BY <1>2, <3>1, <3>2
        <3>4. QED
            BY <2>2, <3>2, <3>3
    <2>3. QED
        BY <2>1, <2>2
<1>8. QED
    BY <1>2, <1>3, <1>4, <1>5, <1>6, <1>7

\* Writing the rows back is a list of the same subscriptions.
LEMMA WrittenBackTypes ==
    ASSUME NEW list \in Seq(SubQuota), NEW rows \in Seq(LedgerRow), NEW c \in Nat, NEW at
    PROVE  WrittenBack(list, rows, c, at) \in Seq(SubQuota)
<1> DEFINE new == WrittenBack(list, rows, c, at)
<1>1. new = [i \in DOMAIN list |-> new[i]]
    BY DEF WrittenBack
<1>2. ASSUME NEW i \in DOMAIN list
      PROVE  new[i] \in SubQuota
    <2>1. PICK s \in SubQuota : s = list[i]
        OBVIOUS
    <2>2. PICK n \in Nat : n = BilledFrom(rows, c, s.ID)
        BY BilledFromIs
    <2>3. new[i] = s \/ new[i] = [s EXCEPT !.UsedBytes = s.UsedBytes + n]
        BY <2>1, <2>2 DEF WrittenBack
    <2>4. PICK u \in Nat : u = s.UsedBytes
        BY DEF SubQuota
    <2>5. PICK m \in Nat : m = u + n
        OBVIOUS
    <2>6. [s EXCEPT !.UsedBytes = m] \in SubQuota
        BY CounterWritten
    <2>7. QED
        BY <2>3, <2>4, <2>5, <2>6
<1> HIDE DEF new
<1>3. QED
    BY <1>1, <1>2, RewrittenList DEF new

\* Nothing to write back leaves the list.
LEMMA NothingLeft ==
    ASSUME NEW list \in Seq(SubQuota), NEW rows \in Seq(LedgerRow), NEW at,
           NEW c \in Nat, c > Len(rows)
    PROVE  WrittenBack(list, rows, c, at) = list
<1>1. ASSUME NEW i \in DOMAIN list
      PROVE  WrittenBack(list, rows, c, at)[i] = list[i]
    <2>1. PICK s \in SubQuota : s = list[i]
        OBVIOUS
    <2>2. BilledFrom(rows, c, s.ID) = 0
        BY BilledFromIs
    <2>3. PICK u \in Nat : u = s.UsedBytes
        BY DEF SubQuota
    <2>4. [s EXCEPT !.UsedBytes = u + 0] = s
        BY <2>3 DEF SubQuota
    <2>5. QED
        BY <2>1, <2>2, <2>3, <2>4 DEF WrittenBack
<1>2. WrittenBack(list, rows, c, at) = [i \in DOMAIN list |-> WrittenBack(list, rows, c, at)[i]]
    BY DEF WrittenBack
<1>3. list = [i \in DOMAIN list |-> list[i]]
    OBVIOUS
<1>4. QED
    BY <1>1, <1>2, <1>3

\* The next row is written back before or after the others, it is the same.
LEMMA OneMoreWritten ==
    ASSUME NEW list \in Seq(SubQuota), DistinctIDs(list), NEW rows \in Seq(LedgerRow),
           NEW c \in DOMAIN rows, NEW at
    PROVE  WrittenBack(Charge(list, rows[c], at), rows, c + 1, at) = WrittenBack(list, rows, c, at)
<1>1. PICK row \in LedgerRow : row = rows[c]
    OBVIOUS
<1>2. PICK next : next = Charge(list, row, at)
    OBVIOUS
<1>3. ChargesOne(next, list, row, at)
    BY <1>2, OneEntryCharged
<1>4. DOMAIN next = DOMAIN list
    BY <1>3 DEF ChargesOne
<1>5. ASSUME NEW i \in DOMAIN list
      PROVE  WrittenBack(next, rows, c + 1, at)[i] = WrittenBack(list, rows, c, at)[i]
    <2>1. PICK s \in SubQuota : s = list[i]
        OBVIOUS
    <2>2. PICK used \in Nat, given \in Nat, rest \in Nat :
             used = s.UsedBytes /\ given = row.Billed /\ rest = BilledFrom(rows, c + 1, s.ID)
        <3>1. c + 1 \in Nat
            OBVIOUS
        <3>2. QED
            BY <3>1, BilledFromIs DEF SubQuota, LedgerRow
    <2>3. BilledFrom(rows, c, s.ID) = rest + IF row.SubscriptionID = s.ID THEN given ELSE 0
        BY <1>1, <2>2, BilledFromIs
    <2>4. CASE ~CountsTowardCurrentPeriod(at, s.LastResetAt)
        <3>1. next[i] = s
            BY <1>3, <2>1, <2>4 DEF ChargesOne
        <3>2. QED
            BY <1>4, <2>1, <2>4, <3>1 DEF WrittenBack
    <2>5. CASE CountsTowardCurrentPeriod(at, s.LastResetAt) /\ row.SubscriptionID # s.ID
        <3>1. next[i] = s
            BY <1>3, <2>1, <2>5 DEF ChargesOne
        <3>2. BilledFrom(rows, c, s.ID) = rest
            BY <2>3, <2>5
        <3>3. QED
            BY <1>4, <2>1, <2>2, <2>5, <3>1, <3>2 DEF WrittenBack
    <2>6. CASE CountsTowardCurrentPeriod(at, s.LastResetAt) /\ row.SubscriptionID = s.ID
        <3>1. next[i] = [s EXCEPT !.UsedBytes = used + given]
            BY <1>3, <2>1, <2>2, <2>6 DEF ChargesOne
        <3>2. /\ next[i].ID = s.ID /\ next[i].LastResetAt = s.LastResetAt
              /\ next[i].UsedBytes = used + given
            BY <3>1 DEF SubQuota
        <3>3. WrittenBack(next, rows, c + 1, at)[i] = [next[i] EXCEPT !.UsedBytes = (used + given) + rest]
            BY <1>4, <2>1, <2>2, <2>6, <3>2 DEF WrittenBack
        <3>4. WrittenBack(list, rows, c, at)[i] = [s EXCEPT !.UsedBytes = used + (rest + given)]
            BY <2>1, <2>2, <2>3, <2>6 DEF WrittenBack
        <3>5. (used + given) + rest = used + (rest + given)
            OBVIOUS
        <3>6. QED
            BY <3>1, <3>3, <3>4, <3>5
    <2>7. QED
        BY <2>4, <2>5, <2>6
<1>6. /\ WrittenBack(next, rows, c + 1, at) = [i \in DOMAIN list |-> WrittenBack(next, rows, c + 1, at)[i]]
      /\ WrittenBack(list, rows, c, at) = [i \in DOMAIN list |-> WrittenBack(list, rows, c, at)[i]]
    BY <1>4 DEF WrittenBack
<1>7. QED
    BY <1>1, <1>2, <1>5, <1>6

-----------------------------------------------------------------------------
(* The refinement: the state LadderAtomic sees.                            *)

\* Between attributions the ladder is what it looks like.
LEMMA VisibleNow ==
    ASSUME TypeOK, \A q \in Procs : pc[q] # "charge"
    PROVE  VisibleSubs = subs
BY DEF VisibleSubs, Visible, TypeOK

\* And after the step.
LEMMA VisibleNext ==
    ASSUME TypeOK', \A q \in Procs : pc'[q] # "charge"
    PROVE  VisibleSubs' = subs'
BY DEF VisibleSubs, Visible, TypeOK

\* During an attribution one list looks as it will once the rows are written.
LEMMA VisibleDuring ==
    ASSUME TypeOK, LockInv, NEW p \in Procs, pc[p] = "charge"
    PROVE  VisibleSubs = [subs EXCEPT ![req[p].user] =
                             WrittenBack(subs[req[p].user], split[p].rows, cur[p], req[p].at)]
<1>1. mu.writer = p
    BY DEF LockInv, Writing
<1>2. \A u \in Users : Visible(u) = IF req[p].user = u
                                    THEN WrittenBack(subs[u], split[p].rows, cur[p], req[p].at)
                                    ELSE subs[u]
    BY <1>1 DEF Visible
<1>3. subs = [u \in Users |-> subs[u]]
    BY DEF TypeOK
<1>4. QED
    BY <1>2, <1>3 DEF VisibleSubs

\* And after the step.
LEMMA VisibleDuringNext ==
    ASSUME TypeOK', LockInv', NEW p \in Procs, pc'[p] = "charge"
    PROVE  VisibleSubs' = [subs' EXCEPT ![req'[p].user] =
                              WrittenBack(subs'[req'[p].user], split'[p].rows, cur'[p], req'[p].at)]
<1>1. mu'.writer = p
    BY DEF LockInv, Writing
<1>2. \A u \in Users : Visible(u)' = IF req'[p].user = u
                                    THEN WrittenBack(subs'[u], split'[p].rows, cur'[p], req'[p].at)
                                    ELSE subs'[u]
    BY <1>1 DEF Visible
<1>3. subs' = [u \in Users |-> subs'[u]]
    BY DEF TypeOK
<1>4. QED
    BY <1>2, <1>3 DEF VisibleSubs

\* A step that changes no list and is not part of an attribution is not seen.
LEMMA VisibleKept ==
    ASSUME TypeOK, LockInv, LockInv', NEW p \in Procs, Call(p) \/ Step(p),
           subs' = subs, pc[p] # "charge", pc'[p] # "charge"
    PROVE  VisibleSubs' = VisibleSubs
<1>1. \A q \in Procs : q # p =>
         /\ pc'[q] = pc[q] /\ req'[q] = req[q] /\ cur'[q] = cur[q] /\ split'[q] = split[q]
    BY OnlyOwnLocals
<1>2. \A q \in Procs : pc[q] = "charge" => mu.writer = q
    BY DEF LockInv, Writing
<1>3. \A q \in Procs : pc'[q] = "charge" => mu'.writer = q
    BY DEF LockInv, Writing
<1>4. ASSUME NEW u \in Users PROVE Visible(u)' = Visible(u)
    <2>1. CASE mu.writer \in Procs /\ pc[mu.writer] = "charge"
        <3>1. PICK q \in Procs : q = mu.writer /\ pc[q] = "charge" /\ q # p
            BY <2>1
        <3>2. mu'.writer = q /\ pc'[q] = "charge"
            BY <1>1, <1>3, <3>1
        <3>3. QED
            BY <1>1, <3>1, <3>2 DEF Visible
    <2>2. CASE ~(mu.writer \in Procs /\ pc[mu.writer] = "charge")
        <3>1. \A q \in Procs : pc[q] # "charge"
            BY <1>2, <2>2
        <3>2. \A q \in Procs : pc'[q] # "charge"
            BY <1>1, <3>1
        <3>3. QED
            BY <3>1, <3>2 DEF Visible
    <2>3. QED
        BY <2>1, <2>2
<1>5. QED
    BY <1>4 DEF VisibleSubs

\* Where a goroutine is in its call, and what it will be told, changes by its
\* own steps.
LEMMA PhaseMoves ==
    ASSUME TypeOK, TypeOK', NEW p \in Procs, Call(p) \/ Step(p)
    PROVE  /\ Phases[p] = PhaseAt(pc[p])
           /\ Phases' = [Phases EXCEPT ![p] = PhaseAt(pc'[p])]
           /\ Told[p] = ReplyOf(p)
           /\ Told' = [Told EXCEPT ![p] = ReplyOf(p)']
<1>1. \A q \in Procs : q # p =>
         /\ pc'[q] = pc[q] /\ split'[q] = split[q] /\ reply'[q] = reply[q]
    BY OnlyOwnLocals
<1>2. \A q \in Procs : q # p => ReplyOf(q)' = ReplyOf(q)
    BY <1>1 DEF ReplyOf
<1>3. \A q \in Procs : q # p => PhaseAt(pc'[q]) = PhaseAt(pc[q])
    BY <1>1
<1>4. Phases' = [Phases EXCEPT ![p] = PhaseAt(pc'[p])]
    BY <1>3 DEF Phases
<1>5. Told' = [Told EXCEPT ![p] = ReplyOf(p)']
    BY <1>2 DEF Told
<1>6. QED
    BY <1>4, <1>5 DEF Phases, Told

\* The phases, label by label.
LEMMA PhaseIs ==
    ASSUME NEW label \in PCs
    PROVE  PhaseAt(label) = IF label = "idle" THEN "idle"
                            ELSE IF label \in {"charge", "unlock", "runlock", "return"} THEN "done"
                            ELSE "called"
BY DEF PhaseAt, PCs

\* What a step that leaves the visible ladder alone has to do to be a stutter.
LEMMA Unseen ==
    ASSUME TypeOK, TypeOK', NEW p \in Procs, Call(p) \/ Step(p),
           VisibleSubs' = VisibleSubs, held' = held, req' = req,
           PhaseAt(pc'[p]) = PhaseAt(pc[p]), ReplyOf(p)' = ReplyOf(p)
    PROVE  UNCHANGED Atomic!vars
<1>1. /\ Phases[p] = PhaseAt(pc[p])
      /\ Phases' = [Phases EXCEPT ![p] = PhaseAt(pc'[p])]
      /\ Told[p] = ReplyOf(p)
      /\ Told' = [Told EXCEPT ![p] = ReplyOf(p)']
    BY PhaseMoves
<1>2. /\ Phases = [q \in Procs |-> Phases[q]]
      /\ Told = [q \in Procs |-> Told[q]]
    BY DEF Phases, Told
<1>3. Phases' = Phases /\ Told' = Told
    BY <1>1, <1>2
<1>4. QED
    BY <1>3 DEF Atomic!vars

-----------------------------------------------------------------------------
(* The refinement: steps.                                                  *)

\* What holds around every step.
AroundStep(p) ==
    /\ TypeOK /\ CallInv /\ LockInv /\ LadderOrdered /\ LocalsInv
    /\ TypeOK' /\ LockInv'
    /\ Call(p) \/ Step(p)

\* Waiting for the lock, taking it, giving it back and the turns of the loops
\* are not seen (ladder.go:52-243).
LEMMA QuietSteps ==
    ASSUME NEW p \in Procs, AroundStep(p),
           \/ AnnounceWriter(p) \/ EnterWriter(p) \/ EnterReader(p)
           \/ AttributeStart(p) \/ ScanStep(p)
           \/ SnapshotStart(p) \/ SnapshotStep(p)
           \/ ExitWriter(p) \/ ExitReader(p)
    PROVE  UNCHANGED Atomic!vars
<1> USE DEF AroundStep
<1>1. /\ subs' = subs /\ held' = held /\ req' = req
      /\ pc[p] # "charge" /\ pc'[p] # "charge"
    BY DEF AnnounceWriter, EnterWriter, EnterReader, AttributeStart, ScanStep, SnapshotStart,
           SnapshotStep, ExitWriter, ExitReader, Goto, TypeOK
<1>2. VisibleSubs' = VisibleSubs
    BY <1>1, VisibleKept
<1>3. PhaseAt(pc'[p]) = PhaseAt(pc[p])
    <2>1. \/ pc[p] \in {"unlock", "runlock"} /\ pc'[p] = "return"
          \/ pc[p] \in {"lock", "drain", "body", "scan", "copy"} /\ pc'[p] \in {"drain", "body", "scan", "copy"}
        BY DEF AnnounceWriter, EnterWriter, EnterReader, AttributeStart, ScanStep, SnapshotStart,
               SnapshotStep, ExitWriter, ExitReader, Goto, TypeOK
    <2>2. QED
        BY <2>1, PhaseIs DEF PCs
<1>4. ReplyOf(p)' = ReplyOf(p)
    <2>1. CASE SnapshotStart(p)
        <3>1. pc[p] = "body" /\ pc'[p] = "copy"
            BY <2>1 DEF SnapshotStart, Goto, TypeOK
        <3>2. reply[p] = Nothing
            BY <3>1 DEF LocalsInv, Locals
        <3>3. QED
            BY <3>1, <3>2 DEF ReplyOf
    <2>2. CASE SnapshotStep(p)
        <3>1. pc[p] = "copy" /\ pc'[p] = "copy"
            BY <2>2 DEF SnapshotStep
        <3>2. QED
            BY <3>1 DEF ReplyOf
    <2>3. CASE ~SnapshotStart(p) /\ ~SnapshotStep(p)
        <3>1. reply'[p] = reply[p] /\ pc[p] # "copy" /\ pc'[p] # "copy"
            BY <2>3 DEF AnnounceWriter, EnterWriter, EnterReader, AttributeStart, ScanStep,
                        ExitWriter, ExitReader, Goto, TypeOK
        <3>2. QED
            BY <1>1, <3>1 DEF ReplyOf
    <2>4. QED
        BY <2>1, <2>2, <2>3
<1>5. QED
    BY <1>1, <1>2, <1>3, <1>4, Unseen

\* Writing a row back is not seen either: it was counted when the split was
\* complete (ladder.go:182-204).
LEMMA WritingUnseen ==
    ASSUME NEW p \in Procs, AroundStep(p), ChargeStep(p) \/ ChargeDone(p)
    PROVE  UNCHANGED Atomic!vars
<1> USE DEF AroundStep
<1>1. /\ pc[p] = "charge" /\ req[p].op = "Attribute" /\ held' = held /\ req' = req
      /\ split' = split
    BY DEF ChargeStep, ChargeDone, CallInv
<1>2. PICK list \in Seq(SubQuota), rows \in Seq(LedgerRow), c \in Nat \ {0}, at \in Times, u \in Users :
         list = subs[req[p].user] /\ rows = split[p].rows /\ c = cur[p] /\ at = req[p].at /\ u = req[p].user
    BY <1>1, AttributeCall DEF TypeOK
<1>3. VisibleSubs = [subs EXCEPT ![u] = WrittenBack(list, rows, c, at)]
    BY <1>1, <1>2, VisibleDuring
<1>4. CASE ChargeStep(p)
    <2>1. /\ subs' = [subs EXCEPT ![u] = Charge(list, rows[c], at)]
          /\ cur'[p] = c + 1 /\ pc'[p] = "charge" /\ c \in DOMAIN rows
        BY <1>2, <1>4 DEF ChargeStep, TypeOK
    <2>2. subs'[u] = Charge(list, rows[c], at)
        BY <2>1 DEF TypeOK
    <2>3. VisibleSubs' = [subs' EXCEPT ![u] = WrittenBack(Charge(list, rows[c], at), rows, c + 1, at)]
        BY <1>1, <1>2, <2>1, <2>2, VisibleDuringNext
    <2>4. DistinctIDs(list)
        BY <1>2, OrderedIsDistinct DEF LadderOrdered
    <2>5. WrittenBack(Charge(list, rows[c], at), rows, c + 1, at) = WrittenBack(list, rows, c, at)
        BY <2>1, <2>4, OneMoreWritten
    <2>6. VisibleSubs' = VisibleSubs
        BY <1>3, <2>1, <2>3, <2>5
    <2>7. ReplyOf(p)' = ReplyOf(p)
        BY <1>1, <2>1 DEF ReplyOf
    <2>8. QED
        BY <1>1, <2>1, <2>6, <2>7, Unseen
<1>5. CASE ChargeDone(p)
    <2>1. /\ subs' = subs /\ pc'[p] = "unlock" /\ c > Len(rows)
          /\ reply'[p] = Rows(rows)
        BY <1>1, <1>2, <1>5 DEF ChargeDone, Finish, TypeOK, ReadOps
    <2>2. WrittenBack(list, rows, c, at) = list
        BY <2>1, NothingLeft
    <2>3. VisibleSubs = subs
        BY <1>2, <1>3, <2>2 DEF TypeOK
    <2>4. \A q \in Procs : pc'[q] # "charge"
        <3>1. \A q \in Procs : q # p => pc[q] # "charge"
            BY <1>1 DEF LockInv, Writing
        <3>2. QED
            BY <2>1, <3>1, OnlyOwnLocals
    <2>5. VisibleSubs' = VisibleSubs
        BY <2>1, <2>3, <2>4, VisibleNext
    <2>6. ReplyOf(p) = Rows(rows) /\ ReplyOf(p)' = Rows(rows)
        BY <1>1, <1>2, <2>1 DEF ReplyOf
    <2>7. PhaseAt(pc'[p]) = PhaseAt(pc[p])
        BY <1>1, <2>1, PhaseIs DEF PCs
    <2>8. QED
        BY <1>1, <2>5, <2>6, <2>7, Unseen
<1>6. QED
    BY <1>4, <1>5

\* Making a call and returning from it are steps of the abstract ladder.
LEMMA CallsAndReturns ==
    ASSUME NEW p \in Procs, AroundStep(p), Call(p) \/ Return(p)
    PROVE  Atomic!Call(p) \/ Atomic!Return(p)
<1> USE DEF AroundStep
<1>1. /\ subs' = subs /\ held' = held /\ pc[p] # "charge" /\ pc'[p] # "charge"
    BY DEF Call, Return, Goto, TypeOK
<1>2. VisibleSubs' = VisibleSubs
    BY <1>1, VisibleKept
<1>3. /\ Phases[p] = PhaseAt(pc[p])
      /\ Phases' = [Phases EXCEPT ![p] = PhaseAt(pc'[p])]
      /\ Told[p] = ReplyOf(p)
      /\ Told' = [Told EXCEPT ![p] = ReplyOf(p)']
    BY PhaseMoves
<1>4. Told = [q \in Procs |-> Told[q]]
    BY DEF Told
<1>5. CASE Call(p)
    <2>1. pc[p] = "idle" /\ pc'[p] = "lock" /\ reply' = reply
        BY <1>5 DEF Call, Goto, TypeOK
    <2>2. PhaseAt("idle") = "idle" /\ PhaseAt("lock") = "called"
        BY PhaseIs DEF PCs
    <2>3. ReplyOf(p)' = ReplyOf(p)
        BY <2>1 DEF ReplyOf
    <2>4. Told' = Told
        BY <1>3, <1>4, <2>3
    <2>5. \E r \in Requests : req' = [req EXCEPT ![p] = r]
        BY <1>5 DEF Call
    <2>6. Atomic!Call(p)
        BY <1>1, <1>2, <1>3, <2>1, <2>2, <2>4, <2>5 DEF Atomic!Call
    <2>7. QED
        BY <2>6
<1>6. CASE Return(p)
    <2>1. pc[p] = "return" /\ pc'[p] = "idle" /\ reply'[p] = Nothing
        BY <1>6 DEF Return, Goto, TypeOK
    <2>2. PhaseAt("return") = "done" /\ PhaseAt("idle") = "idle"
        BY PhaseIs DEF PCs
    <2>3. ReplyOf(p)' = Nothing
        BY <2>1 DEF ReplyOf
    <2>4. req' = [req EXCEPT ![p] = NoRequest]
        BY <1>6 DEF Return
    <2>5. Atomic!Return(p)
        BY <1>1, <1>2, <1>3, <2>1, <2>2, <2>3, <2>4 DEF Atomic!Return
    <2>6. QED
        BY <2>5
<1>7. QED
    BY <1>5, <1>6

\* A body that runs in one step takes effect on the ladder as it is: nobody is
\* writing a split back meanwhile.
LEMMA BodyStep ==
    ASSUME NEW p \in Procs, AroundStep(p), pc[p] = "body", pc'[p] \in {"unlock", "runlock"}
    PROVE  /\ VisibleSubs = subs /\ VisibleSubs' = subs'
           /\ Phases[p] = "called" /\ Phases' = [Phases EXCEPT ![p] = "done"]
           /\ Told' = [Told EXCEPT ![p] = reply'[p]]
<1> USE DEF AroundStep
<1>1. \A q \in Procs : q # p => pc[q] # "charge"
    <2>1. Writing(p) \/ Reading(p)
        BY DEF Writing, Reading
    <2>2. \A q \in Procs : q # p => ~Writing(q)
        BY <2>1 DEF LockInv
    <2>3. QED
        BY <2>2 DEF Writing
<1>2. \A q \in Procs : pc[q] # "charge" /\ pc'[q] # "charge"
    BY <1>1, OnlyOwnLocals
<1>3. VisibleSubs = subs /\ VisibleSubs' = subs'
    BY <1>2, VisibleNow, VisibleNext
<1>4. PhaseAt(pc[p]) = "called" /\ PhaseAt(pc'[p]) = "done"
    BY PhaseIs DEF PCs
<1>5. ReplyOf(p)' = reply'[p]
    BY DEF ReplyOf
<1>6. QED
    BY <1>3, <1>4, <1>5, PhaseMoves

\* Rebuild and Sync (ladder.go:52-63, 206-231).
LEMMA InstallsPerform ==
    ASSUME NEW p \in Procs, AroundStep(p), Rebuild(p) \/ Sync(p)
    PROVE  Atomic!Perform(p)
<1> USE DEF AroundStep
<1>1. /\ pc[p] = "body" /\ pc'[p] = "unlock" /\ req[p].op \in {"Rebuild", "Sync"}
      /\ req' = req /\ held' = held \cup {req[p].user}
      /\ reply'[p] = Nothing
      /\ req[p] \in Requests
    BY DEF Rebuild, Sync, InBody, Finish, ReadOps, TypeOK, CallInv
<1>2. /\ VisibleSubs = subs /\ VisibleSubs' = subs'
      /\ Phases[p] = "called" /\ Phases' = [Phases EXCEPT ![p] = "done"]
      /\ Told' = [Told EXCEPT ![p] = Nothing]
    BY <1>1, BodyStep
<1>3. req[p].user \in Users /\ req[p].subs \in Seq(SubQuota)
    BY <1>1, RequestFields, QuotaLadderAssumption
<1>4. PICK list \in Prepared(req[p].subs) :
         subs' = [subs EXCEPT ![req[p].user] =
                     IF req[p].op = "Sync" THEN KeepKnown(list, subs[req[p].user]) ELSE list]
    BY DEF Rebuild, Sync, InBody
<1>5. list \in Atomic!Prepared(req[p].subs)
    BY <1>4, SamePrepared
<1>6. Atomic!Carried(list, subs[req[p].user]) = KeepKnown(list, subs[req[p].user])
    <2>1. list \in Seq(SubQuota)
        BY <1>3, <1>4, PreparedInOrder
    <2>2. subs[req[p].user] \in Seq(SubQuota) /\ InDeductionOrder(subs[req[p].user])
        BY <1>3 DEF TypeOK, LadderOrdered
    <2>3. QED
        BY <2>1, <2>2, CarriedIs
<1>7. Atomic!Effect(p, held \cup {req[p].user},
                    IF req[p].op = "Sync" THEN Atomic!Carried(list, VisibleSubs[req[p].user]) ELSE list,
                    Nothing)
    BY <1>1, <1>2, <1>4, <1>6 DEF Atomic!Effect
<1>8. Atomic!Install(p)
    BY <1>5, <1>7 DEF Atomic!Install
<1>9. QED
    BY <1>1, <1>2, <1>8 DEF Atomic!Perform

\* Drop (ladder.go:233-237).
LEMMA DropPerforms ==
    ASSUME NEW p \in Procs, AroundStep(p), Drop(p)
    PROVE  Atomic!Perform(p)
<1> USE DEF AroundStep
<1>1. /\ pc[p] = "body" /\ pc'[p] = "unlock" /\ req[p].op = "Drop"
      /\ req' = req /\ held' = held \ {req[p].user}
      /\ reply'[p] = Nothing
      /\ subs' = [subs EXCEPT ![req[p].user] = <<>>]
    BY DEF Drop, InBody, Finish, ReadOps, TypeOK
<1>2. /\ VisibleSubs = subs /\ VisibleSubs' = subs'
      /\ Phases[p] = "called" /\ Phases' = [Phases EXCEPT ![p] = "done"]
      /\ Told' = [Told EXCEPT ![p] = Nothing]
    BY <1>1, BodyStep
<1>3. Atomic!Effect(p, held \ {req[p].user}, <<>>, Nothing)
    BY <1>1, <1>2 DEF Atomic!Effect
<1>4. QED
    BY <1>1, <1>2, <1>3 DEF Atomic!Perform

\* Reconcile and Reset (ladder.go:66-86, 125-151).
LEMMA WritesPerform ==
    ASSUME NEW p \in Procs, AroundStep(p), Reconcile(p) \/ Reset(p)
    PROVE  Atomic!Perform(p)
<1> USE DEF AroundStep
<1>1. /\ pc[p] = "body" /\ pc'[p] = "unlock" /\ req[p].op \in {"Reconcile", "Reset"}
      /\ req' = req /\ held' = held
      /\ reply'[p] = Found(HasID(subs[req[p].user], req[p].id))
      /\ req[p] \in Requests
    BY DEF Reconcile, Reset, InBody, Finish, ReadOps, TypeOK, CallInv
<1>2. /\ VisibleSubs = subs /\ VisibleSubs' = subs'
      /\ Phases[p] = "called" /\ Phases' = [Phases EXCEPT ![p] = "done"]
      /\ Told' = [Told EXCEPT ![p] = reply'[p]]
    BY <1>1, BodyStep
<1>3. PICK old \in Seq(SubQuota) : old = subs[req[p].user] /\ DistinctIDs(old)
    <2>1. req[p].user \in Users
        BY <1>1, RequestFields
    <2>2. QED
        BY <2>1, OrderedIsDistinct DEF TypeOK, LadderOrdered
<1>4. \A i \in DOMAIN old : IsFirst(old, req[p].id, i) <=> old[i].ID = req[p].id
    BY <1>3, OneEntryWritten
<1> DEFINE new(s) == IF req[p].op = "Reconcile"
                     THEN [s EXCEPT !.UsedBytes = req[p].used]
                     ELSE [s EXCEPT !.UsedBytes = 0, !.ResetEpoch = req[p].epoch,
                                    !.LastResetAt = AlignBucket(req[p].at)]
           list == [i \in DOMAIN old |-> IF old[i].ID = req[p].id THEN new(old[i]) ELSE old[i]]
<1>5. subs' = [subs EXCEPT ![req[p].user] = list]
    <2>1. CASE Reconcile(p)
        <3>1. Overwritten(old, req[p].id, req[p].used) = list
            BY <1>4, <2>1 DEF Overwritten, Reconcile, InBody
        <3>2. QED
            BY <1>3, <2>1, <3>1 DEF Reconcile
    <2>2. CASE Reset(p)
        <3>1. RolledOver(old, req[p].id, req[p].epoch, req[p].at) = list
            BY <1>4, <2>2 DEF RolledOver, Reset, InBody
        <3>2. QED
            BY <1>3, <2>2, <3>1 DEF Reset
    <2>3. QED
        BY <2>1, <2>2
<1>6. reply'[p] = [found |-> \E i \in DOMAIN old : old[i].ID = req[p].id]
    BY <1>1, <1>3 DEF Found, HasID
<1>7. Atomic!AlignBucket(req[p].at) = AlignBucket(req[p].at)
    BY SameCounts
<1>8. Atomic!Written(p)
    BY <1>1, <1>2, <1>3, <1>5, <1>6, <1>7 DEF Atomic!Written, Atomic!Effect
<1>9. QED
    BY <1>1, <1>2, <1>8 DEF Atomic!Perform

\* Snapshot and Users (ladder.go:233-243).
LEMMA ReadsPerform ==
    ASSUME NEW p \in Procs, AroundStep(p), SnapshotDone(p) \/ ListUsers(p)
    PROVE  Atomic!Perform(p)
<1> USE DEF AroundStep
<1>1. CASE ListUsers(p)
    <2>1. /\ pc[p] = "body" /\ pc'[p] = "runlock" /\ req[p].op = "Users"
          /\ UNCHANGED <<held, subs, req>> /\ reply'[p] = [users |-> held]
        BY <1>1 DEF ListUsers, InBody, Finish, ReadOps, TypeOK
    <2>2. /\ VisibleSubs = subs /\ VisibleSubs' = subs'
          /\ Phases[p] = "called" /\ Phases' = [Phases EXCEPT ![p] = "done"]
          /\ Told' = [Told EXCEPT ![p] = reply'[p]]
        BY <2>1, BodyStep
    <2>3. Atomic!Read(p)
        BY <2>1, <2>2 DEF Atomic!Read
    <2>4. QED
        BY <2>1, <2>2, <2>3 DEF Atomic!Perform
<1>2. CASE SnapshotDone(p)
    <2>1. /\ pc[p] = "copy" /\ pc'[p] = "runlock" /\ req[p].op = "Snapshot"
          /\ UNCHANGED <<held, subs, req, reply, cur>>
          /\ cur[p] > Len(subs[req[p].user])
          /\ req[p] \in Requests
        BY <1>2 DEF SnapshotDone, Goto, TypeOK, CallInv
    <2>2. PICK list \in Seq(SubQuota) : list = subs[req[p].user]
        BY <2>1, RequestFields DEF TypeOK
    <2>3. reply[p] = Copy(list)
        <3>1. cur[p] - 1 <= Len(list) /\ reply[p] = Copy(SubSeq(list, 1, cur[p] - 1))
            BY <2>1, <2>2 DEF LocalsInv, Locals
        <3>2. cur[p] \in Nat \ {0}
            BY DEF TypeOK
        <3>3. cur[p] - 1 = Len(list)
            BY <2>1, <2>2, <3>1, <3>2
        <3>4. SubSeq(list, 1, Len(list)) = list
            OBVIOUS
        <3>5. QED
            BY <3>1, <3>3, <3>4
    <2>4. \A q \in Procs : pc[q] # "charge" /\ pc'[q] # "charge"
        <3>1. \A q \in Procs : q # p => pc[q] # "charge"
            BY <2>1 DEF LockInv, Writing, Reading
        <3>2. QED
            BY <2>1, <3>1, OnlyOwnLocals
    <2>5. VisibleSubs = subs /\ VisibleSubs' = subs'
        BY <2>4, VisibleNow, VisibleNext
    <2>6. PhaseAt("copy") = "called" /\ PhaseAt("runlock") = "done"
        BY PhaseIs DEF PCs
    <2>7. Phases[p] = "called" /\ Phases' = [Phases EXCEPT ![p] = "done"]
        BY <2>1, <2>6, PhaseMoves
    <2>8. ReplyOf(p)' = [copy |-> list]
        BY <2>1, <2>3 DEF ReplyOf, Copy
    <2>9. Told' = [Told EXCEPT ![p] = [copy |-> list]]
        BY <2>8, PhaseMoves
    <2>10. Atomic!Read(p)
        BY <2>1, <2>2, <2>5, <2>9 DEF Atomic!Read
    <2>11. QED
        BY <2>1, <2>7, <2>10 DEF Atomic!Perform
<1>3. QED
    BY <1>1, <1>2

\* What an attribution makes of a list at the instant it takes effect.
Attributed(list, rows, at) ==
    [i \in DOMAIN list |->
        IF CountsTowardCurrentPeriod(at, list[i].LastResetAt)
        THEN [list[i] EXCEPT !.UsedBytes = @ + BilledTo(rows, list[i].ID)]
        ELSE list[i]]

\* That is the list with all its rows to write back.
LEMMA AttributedIs ==
    ASSUME NEW list \in Seq(SubQuota), NEW rows \in Seq(LedgerRow), NEW at
    PROVE  Attributed(list, rows, at) = WrittenBack(list, rows, 1, at)
<1>1. \A i \in DOMAIN list : BilledFrom(rows, 1, list[i].ID) = BilledTo(rows, list[i].ID)
    BY BilledFromIs
<1>2. QED
    BY <1>1 DEF Attributed, WrittenBack

\* Rows that bill no subscription change no list.
LEMMA NobodyBilled ==
    ASSUME NEW list \in Seq(SubQuota), NEW rows, NEW at,
           \A i \in DOMAIN list : BilledTo(rows, list[i].ID) = 0
    PROVE  Attributed(list, rows, at) = list
<1>1. ASSUME NEW i \in DOMAIN list
      PROVE  Attributed(list, rows, at)[i] = list[i]
    <2>1. PICK s \in SubQuota : s = list[i]
        OBVIOUS
    <2>2. PICK u \in Nat : u = s.UsedBytes
        BY DEF SubQuota
    <2>3. [s EXCEPT !.UsedBytes = u + 0] = s
        BY <2>2 DEF SubQuota
    <2>4. BilledTo(rows, s.ID) = 0
        BY <2>1
    <2>5. QED
        BY <2>1, <2>2, <2>3, <2>4 DEF Attributed
<1>2. Attributed(list, rows, at) = [i \in DOMAIN list |-> Attributed(list, rows, at)[i]]
    BY DEF Attributed
<1>3. list = [i \in DOMAIN list |-> list[i]]
    OBVIOUS
<1>4. QED
    BY <1>1, <1>2, <1>3

\* The abstract attribution, in the ladder's own terms.
LEMMA AttributionPerforms ==
    ASSUME NEW p \in Procs, AroundStep(p), req[p].op = "Attribute",
           req' = req, held' = held,
           NEW rows, rows = IF req[p].user \in held
                            THEN WaterfallRows(req[p].billed, VisibleSubs[req[p].user], req[p].at)
                            ELSE WaterfallRows(req[p].billed, <<>>, req[p].at),
           VisibleSubs' = [VisibleSubs EXCEPT ![req[p].user] =
                              Attributed(VisibleSubs[req[p].user], rows, req[p].at)],
           PhaseAt(pc[p]) = "called", PhaseAt(pc'[p]) = "done",
           ReplyOf(p)' = [rows |-> rows]
    PROVE  Atomic!Perform(p)
<1> USE DEF AroundStep
<1>1. /\ Phases[p] = "called" /\ Phases' = [Phases EXCEPT ![p] = "done"]
      /\ Told' = [Told EXCEPT ![p] = [rows |-> rows]]
    BY PhaseMoves
<1>2. PICK old, at : old = VisibleSubs[req[p].user] /\ at = req[p].at
    OBVIOUS
<1>3. rows = IF req[p].user \in held
             THEN Atomic!WaterfallRows(req[p].billed, old, req[p].at)
             ELSE Atomic!WaterfallRows(req[p].billed, <<>>, req[p].at)
    BY <1>2, SameWaterfall
<1>4. Attributed(old, rows, at) =
         [i \in DOMAIN old |->
             IF Atomic!CountsTowardCurrentPeriod(at, old[i].LastResetAt)
             THEN [old[i] EXCEPT !.UsedBytes = @ + Atomic!BilledTo(rows, old[i].ID)]
             ELSE old[i]]
    BY SameCounts, SameBilled DEF Attributed
<1>5. Atomic!Attributed(p)
    BY <1>1, <1>2, <1>3, <1>4 DEF Atomic!Attributed, Atomic!Effect
<1>6. QED
    BY <1>1, <1>5 DEF Atomic!Perform

\* Whatever is being written back, every visible list is a list.
LEMMA VisibleTypes ==
    ASSUME TypeOK, LockInv, CallInv
    PROVE  VisibleSubs \in [Users -> Seq(SubQuota)]
<1>1. ASSUME NEW u \in Users PROVE Visible(u) \in Seq(SubQuota)
    <2>1. PICK list \in Seq(SubQuota) : list = subs[u]
        BY DEF TypeOK
    <2>2. CASE /\ mu.writer \in Procs /\ pc[mu.writer] = "charge" /\ req[mu.writer].user = u
        <3>1. PICK rows \in Seq(LedgerRow), c \in Nat :
                 rows = split[mu.writer].rows /\ c = cur[mu.writer]
            BY <2>2 DEF TypeOK
        <3>2. WrittenBack(list, rows, c, req[mu.writer].at) \in Seq(SubQuota)
            BY WrittenBackTypes
        <3>3. QED
            BY <2>1, <2>2, <3>1, <3>2 DEF Visible
    <2>3. CASE ~(/\ mu.writer \in Procs /\ pc[mu.writer] = "charge" /\ req[mu.writer].user = u)
        BY <2>1, <2>3 DEF Visible
    <2>4. QED
        BY <2>2, <2>3
<1>2. QED
    BY <1>1 DEF VisibleSubs

\* A call with nothing to bill takes effect without the lock: it has no effect
\* (ladder.go:170-172, quota.go:147-149).
LEMMA NothingPerforms ==
    ASSUME NEW p \in Procs, AroundStep(p), AttributeNothing(p)
    PROVE  Atomic!Perform(p)
<1> USE DEF AroundStep
<1>1. /\ pc[p] = "lock" /\ pc'[p] = "return" /\ req[p].op = "Attribute" /\ req[p].billed <= 0
      /\ UNCHANGED <<held, subs, req>> /\ reply'[p] = [rows |-> <<>>]
      /\ req[p] \in Requests
    BY DEF AttributeNothing, NothingBilled, Goto, Rows, TypeOK, CallInv
<1>2. VisibleSubs' = VisibleSubs
    BY <1>1, VisibleKept
<1>3. PICK list \in Seq(SubQuota) : list = VisibleSubs[req[p].user]
    BY <1>1, RequestFields, VisibleTypes
<1>4. \A l : WaterfallRows(req[p].billed, l, req[p].at) = <<>>
    BY <1>1 DEF WaterfallRows
<1>5. Attributed(list, <<>>, req[p].at) = list
    <2>1. \A id : BilledTo(<<>>, id) = 0
        BY EmptyRows, BilledAmongIs
    <2>2. QED
        BY <2>1, NobodyBilled
<1>6. VisibleSubs' = [VisibleSubs EXCEPT ![req[p].user] = Attributed(list, <<>>, req[p].at)]
    <2>1. VisibleSubs = [u \in Users |-> VisibleSubs[u]]
        BY DEF VisibleSubs
    <2>2. QED
        BY <1>2, <1>3, <1>5, <2>1
<1>7. PhaseAt(pc[p]) = "called" /\ PhaseAt(pc'[p]) = "done"
    BY <1>1, PhaseIs DEF PCs
<1>8. ReplyOf(p)' = [rows |-> <<>>]
    BY <1>1 DEF ReplyOf
<1>9. PICK rows : rows = <<>>
    OBVIOUS
<1>10. /\ rows = IF req[p].user \in held
                 THEN WaterfallRows(req[p].billed, VisibleSubs[req[p].user], req[p].at)
                 ELSE WaterfallRows(req[p].billed, <<>>, req[p].at)
       /\ VisibleSubs' = [VisibleSubs EXCEPT ![req[p].user] =
                             Attributed(VisibleSubs[req[p].user], rows, req[p].at)]
       /\ ReplyOf(p)' = [rows |-> rows]
    BY <1>3, <1>4, <1>6, <1>8, <1>9
<1>11. QED
    BY <1>1, <1>7, <1>10, AttributionPerforms

\* The split of a batch over no subscriptions is all overflow.
LEMMA AllOverflow ==
    ASSUME NEW billed \in Nat \ {0}, NEW at, NEW row,
           row = [SubscriptionID |-> OverflowSubscriptionID, Billed |-> billed]
    PROVE  /\ <<row>> \in Seq(LedgerRow)
           /\ WaterfallRows(billed, <<>>, at) = <<row>>
           /\ \A id : id # OverflowSubscriptionID => BilledTo(<<row>>, id) = 0
<1>1. PICK list \in Seq(SubQuota) : list = <<>> /\ Len(list) = 0 /\ DOMAIN list = {}
    <2>1. DOMAIN <<>> = {} /\ Len(<<>>) = 0
        OBVIOUS
    <2>2. <<>> \in Seq(SubQuota)
        OBVIOUS
    <2>3. QED
        BY <2>1, <2>2
<1>2. row \in LedgerRow
    BY DEF LedgerRow, OverflowSubscriptionID
<1>3. <<row>> \in Seq(LedgerRow)
    BY <1>2
<1>4. Attribute(billed, list, at) = <<row>>
    <2>1. PICK st : SplitRun(st, billed, list, at)
        BY SplitRunExists
    <2>2. Attribute(billed, list, at) = Spill(Unsplit(billed))
        BY <1>1, <2>1 DEF SplitRun
    <2>3. Spill(Unsplit(billed)) = AddRow(<<>>, OverflowSubscriptionID, billed)
        BY DEF Spill, Unsplit
    <2>4. AddRow(<<>>, OverflowSubscriptionID, billed) = Append(<<>>, row)
        <3>1. DOMAIN <<>> = {}
            OBVIOUS
        <3>2. QED
            BY <3>1 DEF AddRow
    <2>5. Append(<<>>, row) = <<row>>
        OBVIOUS
    <2>6. QED
        BY <2>2, <2>3, <2>4, <2>5
<1>5. WaterfallRows(billed, list, at) = <<row>>
    <2>1. DistinctIDs(list)
        BY <1>1 DEF DistinctIDs
    <2>2. QED
        BY <1>4, <2>1, LoopWritesTheWaterfall
<1>6. ASSUME NEW id, id # OverflowSubscriptionID
      PROVE  BilledTo(<<row>>, id) = 0
    <2>1. PICK rows \in Seq(LedgerRow) : rows = <<row>>
        BY <1>3
    <2>2. \A k \in DOMAIN rows : rows[k].SubscriptionID # id
        <3>1. \A k \in DOMAIN rows : rows[k] = row
            BY <2>1
        <3>2. row.SubscriptionID = OverflowSubscriptionID
            OBVIOUS
        <3>3. QED
            BY <1>6, <3>1, <3>2
    <2>3. {id} \cap RowOwners(rows) = {}
        BY <2>2 DEF RowOwners
    <2>4. BilledAmong(rows, {id}) = 0
        BY <2>3, NotAnOwner
    <2>5. BilledAmong(rows, {id}) = BilledTo(rows, id)
        BY BilledAmongIs
    <2>6. QED
        BY <2>1, <2>4, <2>5
<1>7. QED
    BY <1>1, <1>3, <1>5, <1>6

\* A user without a ladder: all of it is overflow (ladder.go:177-180).
LEMMA MissingPerforms ==
    ASSUME NEW p \in Procs, AroundStep(p), AttributeMissing(p)
    PROVE  Atomic!Perform(p)
<1> USE DEF AroundStep
<1>1. PICK row : row = [SubscriptionID |-> OverflowSubscriptionID, Billed |-> req[p].billed]
    OBVIOUS
<1>2. /\ pc[p] = "body" /\ pc'[p] = "unlock" /\ req[p].op = "Attribute" /\ req[p].user \notin held
      /\ UNCHANGED <<held, subs, req>> /\ reply'[p] = [rows |-> <<row>>]
    BY <1>1 DEF AttributeMissing, InBody, Finish, Rows, ReadOps, TypeOK
<1>3. PICK n \in Nat \ {0}, at \in Times, list \in Seq(SubQuota) :
         n = req[p].billed /\ at = req[p].at /\ list = subs[req[p].user]
    BY <1>2, AttributeCall
<1>4. VisibleSubs = subs /\ VisibleSubs' = subs'
    BY <1>2, BodyStep
<1>5. /\ <<row>> \in Seq(LedgerRow)
      /\ WaterfallRows(n, <<>>, at) = <<row>>
      /\ \A id : id # OverflowSubscriptionID => BilledTo(<<row>>, id) = 0
    BY <1>1, <1>3, AllOverflow
<1>6. Attributed(list, <<row>>, at) = list
    <2>1. \A i \in DOMAIN list : list[i].ID # OverflowSubscriptionID
        <3>1. \A i \in DOMAIN list : list[i] \in SubQuota
            OBVIOUS
        <3>2. QED
            BY <3>1 DEF SubQuota
    <2>2. QED
        BY <1>5, <2>1, NobodyBilled
<1>7. PhaseAt(pc[p]) = "called" /\ PhaseAt(pc'[p]) = "done"
    BY <1>2, PhaseIs DEF PCs
<1>8. PICK rows : rows = <<row>>
    OBVIOUS
<1>9. /\ rows = IF req[p].user \in held
                THEN WaterfallRows(req[p].billed, VisibleSubs[req[p].user], req[p].at)
                ELSE WaterfallRows(req[p].billed, <<>>, req[p].at)
      /\ VisibleSubs' = [VisibleSubs EXCEPT ![req[p].user] =
                            Attributed(VisibleSubs[req[p].user], rows, req[p].at)]
      /\ ReplyOf(p)' = [rows |-> rows]
    <2>1. rows = WaterfallRows(req[p].billed, <<>>, req[p].at)
        BY <1>3, <1>5, <1>8
    <2>2. [subs EXCEPT ![req[p].user] = list] = subs
        BY <1>3 DEF TypeOK
    <2>3. ReplyOf(p)' = [rows |-> rows]
        BY <1>2, <1>8 DEF ReplyOf
    <2>4. QED
        BY <1>2, <1>3, <1>4, <1>6, <1>8, <2>1, <2>2, <2>3
<1>10. QED
    BY <1>2, <1>7, <1>9, AttributionPerforms

\* An attribution takes effect when its split is complete: the rows are the
\* waterfall's, and from here on every reader of the mapped state sees them
\* counted (ladder.go:182-204).
LEMMA SplitPerforms ==
    ASSUME NEW p \in Procs, AroundStep(p), ScanDone(p)
    PROVE  Atomic!Perform(p)
<1> USE DEF AroundStep
<1>1. /\ pc[p] = "scan" /\ pc'[p] = "charge" /\ req[p].op = "Attribute"
      /\ UNCHANGED <<held, subs, req>>
      /\ split'[p] = [remaining |-> 0, rows |-> Spill(split[p])]
      /\ cur'[p] = 1 /\ ~Scanning(p)
    BY DEF ScanDone, Goto, TypeOK, CallInv
<1>2. PICK n \in Nat \ {0}, at \in Times, list \in Seq(SubQuota), u \in Users :
         n = req[p].billed /\ at = req[p].at /\ list = subs[u] /\ u = req[p].user
    BY <1>1, AttributeCall
<1>3. PICK done \in Nat : done = cur[p] - 1 /\ cur[p] = done + 1
    <2>1. cur[p] \in Nat \ {0}
        BY DEF TypeOK
    <2>2. QED
        BY <2>1
<1>4. /\ u \in held /\ done <= Len(list)
      /\ split[p] = SplitAfter(n, list, at, done)
    BY <1>1, <1>2, <1>3 DEF LocalsInv, Locals
<1>5. done = Len(list) \/ ~(SplitAfter(n, list, at, done).remaining > 0)
    <2>1. ~(done + 1 <= Len(list)) \/ ~(split[p].remaining > 0)
        BY <1>1, <1>2, <1>3 DEF Scanning
    <2>2. CASE ~(done + 1 <= Len(list))
        BY <1>4, <2>2
    <2>3. CASE ~(split[p].remaining > 0)
        BY <1>4, <2>3
    <2>4. QED
        BY <2>1, <2>2, <2>3
<1>6. DistinctIDs(list)
    BY <1>2, OrderedIsDistinct DEF LadderOrdered
<1>7. PICK rows \in Seq(LedgerRow) : rows = Spill(split[p]) /\ rows = WaterfallRows(n, list, at)
    <2>1. done \in 0 .. Len(list)
        BY <1>4
    <2>2. Spill(split[p]) = Attribute(n, list, at)
        BY <1>4, <1>5, <2>1, SplitAfterEnough
    <2>3. Attribute(n, list, at) = WaterfallRows(n, list, at)
        BY <1>6, LoopWritesTheWaterfall
    <2>4. Attribute(n, list, at) \in Seq(LedgerRow)
        BY SplitConserves DEF IsSplitOf
    <2>5. QED
        BY <2>2, <2>3, <2>4
<1>8. \A q \in Procs : pc[q] # "charge"
    BY <1>1 DEF LockInv, Writing
<1>9. VisibleSubs = subs
    BY <1>8, VisibleNow
<1>10. VisibleSubs' = [subs EXCEPT ![u] = WrittenBack(list, rows, 1, at)]
    BY <1>1, <1>2, <1>7, VisibleDuringNext
<1>11. Attributed(list, rows, at) = WrittenBack(list, rows, 1, at)
    BY AttributedIs
<1>12. PhaseAt(pc[p]) = "called" /\ PhaseAt(pc'[p]) = "done"
    BY <1>1, PhaseIs DEF PCs
<1>13. ReplyOf(p)' = [rows |-> rows]
    BY <1>1, <1>7 DEF ReplyOf, Rows
<1>14. /\ rows = IF req[p].user \in held
                 THEN WaterfallRows(req[p].billed, VisibleSubs[req[p].user], req[p].at)
                 ELSE WaterfallRows(req[p].billed, <<>>, req[p].at)
       /\ VisibleSubs' = [VisibleSubs EXCEPT ![req[p].user] =
                             Attributed(VisibleSubs[req[p].user], rows, req[p].at)]
    BY <1>2, <1>4, <1>7, <1>9, <1>10, <1>11
<1>15. QED
    BY <1>1, <1>12, <1>13, <1>14, AttributionPerforms

-----------------------------------------------------------------------------
(* The refinement.                                                         *)

\* Concurrent callers cannot tell the ladder from one whose operations are
\* single instants, for any number of goroutines, users and subscriptions: no
\* half-written attribution, no torn snapshot, no lost update
\* (ladder.go:153-164).
THEOREM LadderIsAtomic == Spec => ImplementsAtomic
<1>1. Init => Atomic!Init
    <2> SUFFICES ASSUME Init PROVE Atomic!Init
        OBVIOUS
    <2>1. \A q \in Procs : pc[q] = "idle" /\ reply[q] = Nothing
        BY DEF Init
    <2>2. PhaseAt("idle") = "idle"
        BY PhaseIs DEF PCs
    <2>3. Phases = [q \in Procs |-> "idle"]
        BY <2>1, <2>2 DEF Phases
    <2>4. Told = [q \in Procs |-> Nothing]
        BY <2>1 DEF Told, ReplyOf
    <2>5. VisibleSubs = [u \in Users |-> <<>>]
        <3>1. \A u \in Users : Visible(u) = <<>>
            BY <2>1 DEF Visible, Init
        <3>2. QED
            BY <3>1 DEF VisibleSubs
    <2>6. QED
        BY <2>3, <2>4, <2>5 DEF Atomic!Init, Init
<1>2. IInv /\ IInv' /\ [Next]_vars => [Atomic!Next]_(Atomic!vars)
    <2> SUFFICES ASSUME IInv, IInv', [Next]_vars
                 PROVE  Atomic!Next \/ UNCHANGED Atomic!vars
        OBVIOUS
    <2>1. ASSUME NEW p \in Procs, Call(p) \/ Step(p)
          PROVE  Atomic!Call(p) \/ Atomic!Perform(p) \/ Atomic!Return(p) \/ UNCHANGED Atomic!vars
        <3>1. AroundStep(p)
            BY <2>1 DEF AroundStep, IInv
        <3>2. QED
            BY <2>1, <3>1, QuietSteps, WritingUnseen, CallsAndReturns, InstallsPerform, DropPerforms,
               WritesPerform, ReadsPerform, NothingPerforms, MissingPerforms, SplitPerforms
               DEF Step
    <2>2. CASE Next
        <3>1. PICK p \in Procs : Call(p) \/ Step(p)
            BY <2>2 DEF Next
        <3>2. QED
            BY <2>1, <3>1 DEF Atomic!Next
    <2>3. CASE UNCHANGED vars
        BY <2>3 DEF vars, Atomic!vars, VisibleSubs, Visible, Phases, Told, ReplyOf
    <2>4. QED
        BY <2>2, <2>3
<1>3. QED
    BY <1>1, <1>2, Inductive, PTL DEF Spec, ImplementsAtomic, Atomic!Spec
=============================================================================
