----------------------------- MODULE LocksProofs -----------------------------
(***************************************************************************)
(* Locks for every number of template edits: proxier.lock is held exactly    *)
(* inside a critical section, unless a recovered panic has left it held.     *)
(* With the types this is inductive.                                         *)
(***************************************************************************)
EXTENDS Locks, TLAPS

LocksInv == LocksTypeOK /\ LockIsReleased

\* A counter below its bound may be raised.
LEMMA CountedUp ==
    ASSUME NEW M \in Nat, NEW n \in 0..M, n < M
    PROVE  n + 1 \in 0..M
  OBVIOUS

USE DEF Handlers, Committers, Goroutines, Files, Templates, Free

LEMMA InitLocks == Init => LocksInv
<1> SUFFICES ASSUME Init PROVE LocksInv
  OBVIOUS
<1> USE DEF Init, AtStart, NoContent
<1>1. LocksTypeOK
  <2>1. poisoned \in BOOLEAN
    BY Zenon
  <2>2. edits \in 0..MaxEdits
    BY LocksAssumption
  <2> QED
    BY <2>1, <2>2 DEF LocksTypeOK
<1>2. LockIsReleased
  BY DEF LockIsReleased
<1> QED
  BY <1>1, <1>2 DEF LocksInv

-----------------------------------------------------------------------------
\* An editor touches neither lock.
LEMMA EditLocks ==
    ASSUME LocksInv, NEW f \in Files, NEW t \in Templates, Edit(f, t)
    PROVE  LocksInv'
<1>1. edits \in 0..MaxEdits /\ edits < MaxEdits /\ edits' = edits + 1
  BY DEF Edit, LocksInv, LocksTypeOK
<1>2. edits' \in 0..MaxEdits
  BY <1>1, CountedUp, LocksAssumption, Zenon
<1>3. LocksTypeOK'
  BY <1>2 DEF Edit, LocksInv, LocksTypeOK
<1>4. LockIsReleased'
  BY DEF Edit, LocksInv, LockIsReleased, LocksTypeOK
<1> QED
  BY <1>3, <1>4 DEF LocksInv

\* The handling goroutines: c.lock on the way in, proxier.lock inside it, both
\* released on the way out.
LEMMA HandlerLocksInv ==
    ASSUME LocksInv, NEW g \in Handlers,
           PopEvent(g) \/ LockController(g) \/ HandlerLocks(g) \/ HandlerStep(g)
    PROVE  LocksInv'
<1> USE DEF LocksInv, Goto
<1>1. CASE PopEvent(g)
  <2>1. LocksTypeOK'
    BY <1>1 DEF PopEvent, LocksTypeOK
  <2>2. LockIsReleased'
    BY <1>1 DEF PopEvent, LocksTypeOK, LockIsReleased
  <2> QED
    BY <2>1, <2>2
<1>2. CASE LockController(g)
  <2>1. LocksTypeOK'
    <3>1. PICK to \in {"handle", "return"} : at[g] = "c.lock" /\ at' = [at EXCEPT ![g] = to]
      BY <1>2 DEF LockController
    <3> QED
      BY <1>2, <3>1 DEF LockController, LocksTypeOK
  <2>2. LockIsReleased'
    BY <1>2 DEF LockController, LocksTypeOK, LockIsReleased
  <2> QED
    BY <2>1, <2>2
<1>3. CASE HandlerLocks(g)
  <2>1. LocksTypeOK'
    BY <1>3 DEF HandlerLocks, LocksTypeOK
  <2>2. LockIsReleased'
    BY <1>3 DEF HandlerLocks, LocksTypeOK, LockIsReleased
  <2> QED
    BY <2>1, <2>2
<1>4. CASE HandlerSkips(g)
  <2>1. LocksTypeOK'
    BY <1>4 DEF HandlerSkips, LocksTypeOK
  <2>2. LockIsReleased'
    BY <1>4 DEF HandlerSkips, LocksTypeOK, LockIsReleased
  <2> QED
    BY <2>1, <2>2
<1>5. CASE HandlerReturns(g)
  <2>1. LocksTypeOK'
    BY <1>5 DEF HandlerReturns, LocksTypeOK
  <2>2. LockIsReleased'
    BY <1>5 DEF HandlerReturns, LocksTypeOK, LockIsReleased
  <2> QED
    BY <2>1, <2>2
<1> QED
  BY <1>1, <1>2, <1>3, <1>4, <1>5 DEF HandlerStep

\* The committing goroutines outside their critical section.
LEMMA CommitOutsideInv ==
    ASSUME LocksInv, NEW g \in Committers,
           Commit(g) \/ ReadFails(g) \/ ReadTemplate(g) \/ CommitLocks(g) \/ Written(g)
    PROVE  LocksInv'
<1> USE DEF LocksInv, Goto, Returns
<1>1. CASE Commit(g)
  <2>1. LocksTypeOK'
    BY <1>1 DEF Commit, LocksTypeOK
  <2>2. LockIsReleased'
    BY <1>1 DEF Commit, LocksTypeOK, LockIsReleased
  <2> QED
    BY <2>1, <2>2
<1>2. CASE ReadFails(g)
  <2>1. LocksTypeOK'
    BY <1>2 DEF ReadFails, LocksTypeOK
  <2>2. LockIsReleased'
    BY <1>2 DEF ReadFails, LocksTypeOK, LockIsReleased
  <2> QED
    BY <2>1, <2>2
<1>3. CASE ReadTemplate(g)
  <2>1. LocksTypeOK'
    BY <1>3 DEF ReadTemplate, Target, LocksTypeOK
  <2>2. LockIsReleased'
    BY <1>3 DEF ReadTemplate, LocksTypeOK, LockIsReleased
  <2> QED
    BY <2>1, <2>2
<1>4. CASE CommitLocks(g)
  <2>1. LocksTypeOK'
    BY <1>4 DEF CommitLocks, LocksTypeOK
  <2>2. LockIsReleased'
    BY <1>4 DEF CommitLocks, LocksTypeOK, LockIsReleased
  <2> QED
    BY <2>1, <2>2
<1>5. CASE Written(g)
  <2>1. LocksTypeOK'
    BY <1>5 DEF Written, LocksTypeOK
  <2>2. LockIsReleased'
    BY <1>5 DEF Written, LocksTypeOK, LockIsReleased
  <2> QED
    BY <2>1, <2>2
<1> QED
  BY <1>1, <1>2, <1>3, <1>4, <1>5

\* The three ways out of the critical section.
LEMMA CommitInsideInv ==
    ASSUME LocksInv, NEW g \in Committers,
           Rendered(g) \/ ExecuteFails(g) \/ MustPanics(g)
    PROVE  LocksInv'
<1> USE DEF LocksInv, Goto, Returns, Forget
<1>1. CASE Rendered(g)
  <2>1. LocksTypeOK'
    BY <1>1 DEF Rendered, LocksTypeOK
  <2>2. LockIsReleased'
    BY <1>1 DEF Rendered, LocksTypeOK, LockIsReleased
  <2> QED
    BY <2>1, <2>2
<1>2. CASE ExecuteFails(g)
  <2>1. LocksTypeOK'
    BY <1>2 DEF ExecuteFails, LocksTypeOK
  <2>2. LockIsReleased'
    BY <1>2 DEF ExecuteFails, LocksTypeOK, LockIsReleased
  <2> QED
    BY <2>1, <2>2
<1>3. CASE MustPanics(g) /\ g = "signal"
  <2>1. poisoned' \in BOOLEAN
    BY <1>3, Zenon DEF MustPanics
  <2>2. LocksTypeOK'
    BY <1>3, <2>1 DEF MustPanics, AtStart, NoContent, LocksTypeOK
  <2>3. LockIsReleased'
    BY <1>3 DEF MustPanics, AtStart, NoContent, LockIsReleased
  <2> QED
    BY <2>2, <2>3
<1>4. CASE MustPanics(g) /\ g # "signal"
  <2>1. poisoned' \in BOOLEAN
    BY <1>4, Zenon DEF MustPanics
  <2>2. /\ g \in Files /\ at' = [at EXCEPT ![g] = "wait"]
        /\ content' = [content EXCEPT ![g] = "good"]
        /\ UNCHANGED <<cLock, lock, target, template, edits>>
    BY <1>4 DEF MustPanics
  <2>3. LocksTypeOK'
    BY <2>1, <2>2 DEF LocksTypeOK
  <2>4. LockIsReleased'
    BY <1>4 DEF MustPanics, LocksTypeOK, LockIsReleased
  <2> QED
    BY <2>3, <2>4
<1> QED
  BY <1>1, <1>2, <1>3, <1>4

LEMMA NextLocks == LocksInv /\ [Next]_lockVars => LocksInv'
<1> SUFFICES ASSUME LocksInv, [Next]_lockVars PROVE LocksInv'
  OBVIOUS
<1>1. CASE Next
  BY <1>1, EditLocks, HandlerLocksInv, CommitOutsideInv, CommitInsideInv DEF Next, CommitStep
<1>2. CASE UNCHANGED lockVars
  BY <1>2 DEF lockVars, LocksInv, LocksTypeOK, LockIsReleased
<1> QED
  BY <1>1, <1>2

LEMMA SpecLocks == LocksSpec => []LocksInv
  BY InitLocks, NextLocks, PTL DEF LocksSpec

-----------------------------------------------------------------------------
\* The state of the five goroutines stays well formed, and c.lock is held by a
\* handler exactly from Lock to its deferred Unlock.
THEOREM LocksTypeCorrect == LocksSpec => []LocksTypeOK
  BY SpecLocks, PTL DEF LocksInv

\* proxier.lock is released on every path through a handler and a commit,
\* whatever templates are edited meanwhile; only a panic that wait.Until
\* recovers leaves it held, by the rate limiter's goroutine that panicked.
THEOREM LockIsAlwaysReleased == LocksSpec => []LockIsReleased
  BY SpecLocks, PTL DEF LocksInv
=============================================================================
