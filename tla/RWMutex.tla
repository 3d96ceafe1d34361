------------------------------- MODULE RWMutex -------------------------------
(***************************************************************************)
(* Go's sync.RWMutex, as far as its users can tell: one writer at a time,  *)
(* a writer that has announced itself holds off every new reader, and it   *)
(* enters once the readers already inside have left.  A lock is a record   *)
(* that its owner keeps in a variable.                                     *)
(*                                                                         *)
(* readers is a function to the number of read locks each goroutine holds, *)
(* because nothing in Go stops a goroutine from taking a second one.       *)
(***************************************************************************)
EXTENDS Integers

CONSTANTS Procs,     \* goroutines
          NoProc     \* nobody

ASSUME RWMutexAssumption == NoProc \notin Procs

RWMutexType == [writer : Procs \cup {NoProc}, readers : [Procs -> Nat]]

Unlocked == [writer |-> NoProc, readers |-> [p \in Procs |-> 0]]

\* Lock, first half: become the announced writer.
CanAnnounce(mu) == mu.writer = NoProc
Announced(mu, p) == [mu EXCEPT !.writer = p]

\* Lock, second half: the readers inside have left.
WriterEnters(mu, p) == mu.writer = p /\ \A r \in Procs : mu.readers[r] = 0

Unlock(mu) == [mu EXCEPT !.writer = NoProc]

CanRLock(mu) == mu.writer = NoProc
RLocked(mu, p) == [mu EXCEPT !.readers[p] = @ + 1]
RUnlocked(mu, p) == [mu EXCEPT !.readers[p] = @ - 1]
=============================================================================
