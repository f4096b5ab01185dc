-------------------------------- MODULE Locks --------------------------------
(***************************************************************************)
(* c.lock and proxier.lock, the five goroutines that take them, and what a   *)
(* panic in between does.  The two handling goroutines take c.lock and       *)
(* inside it proxier.lock, both released by defer.  commitAndReload* reads   *)
(* the template, takes proxier.lock, renders and unlocks by hand; the        *)
(* template is read anew each time, so it can be edited at any moment.       *)
(* template.Must panics on one that does not parse, with the lock held.      *)
(* wait.Until recovers the panic of a rate limiter's goroutine; nothing      *)
(* recovers that of the signal goroutine, and the process ends.              *)
(***************************************************************************)
EXTENDS Naturals

Handlers == {"service", "endpoints"}
Committers == {"keepalived", "haproxy", "signal"}
Goroutines == Handlers \cup Committers
Files == {"keepalived", "haproxy"}

Free == "free"
Templates == {"good", "does not execute", "does not parse"}

CONSTANT MaxEdits   \* bound: edits of a template

ASSUME LocksAssumption == MaxEdits \in Nat

VARIABLES
    at,         \* goroutine -> its step
    cLock,      \* holder of c.lock
    lock,       \* holder of proxier.lock
    template,   \* file -> its template on disk
    content,    \* goroutine -> the templateContent it has read
    target,     \* the file the signal goroutine commits
    edits,      \* how often a template was edited
    poisoned    \* history: a recovered panic has left proxier.lock held

lockVars == <<at, cLock, lock, template, content, target, edits, poisoned>>

NoContent == [g \in Committers |-> "good"]
AtStart == [g \in Goroutines |-> IF g \in Handlers THEN "pop" ELSE "wait"]

Init ==
    /\ at = AtStart
    /\ cLock = Free /\ lock = Free
    /\ content = NoContent
    /\ target = "keepalived"
    /\ template = [f \in Files |-> "good"]
    /\ edits = 0
    /\ poisoned = FALSE

Goto(g, from, to) == at[g] = from /\ at' = [at EXCEPT ![g] = to]
Target(g) == IF g = "signal" THEN target ELSE g

Edit(f, t) ==
    /\ edits < MaxEdits
    /\ t # template[f]
    /\ edits' = edits + 1
    /\ template' = [template EXCEPT ![f] = t]
    /\ UNCHANGED <<at, cLock, lock, content, target, poisoned>>
-----------------------------------------------------------------------------
(***************************************************************************)
(* HandleService and HandleEndpoints.                                        *)
(***************************************************************************)
PopEvent(g) ==
    /\ Goto(g, "pop", "c.lock")
    /\ UNCHANGED <<cLock, lock, template, content, target, edits, poisoned>>

\* A headless service returns without proxier.lock; endpoints without subsets
\* take it, and return like the others.
LockController(g) ==
    /\ Goto(g, "c.lock", "handle") \/ (g = "service" /\ Goto(g, "c.lock", "return"))
    /\ cLock = Free
    /\ cLock' = g
    /\ UNCHANGED <<lock, template, content, target, edits, poisoned>>

MutantSkipKeepsLock(g) ==
    /\ Goto(g, "return", "pop")
    /\ UNCHANGED <<cLock, lock, template, content, target, edits, poisoned>>

HandlerSkips(g) ==
    /\ Goto(g, "return", "pop")
    /\ cLock' = Free
    /\ UNCHANGED <<lock, template, content, target, edits, poisoned>>

HandlerLocks(g) ==
    /\ Goto(g, "handle", "tables")
    /\ lock = Free
    /\ lock' = g
    /\ UNCHANGED <<cLock, template, content, target, edits, poisoned>>

MutantHandlesAgain(g) ==
    /\ Goto(g, "tables", "c.lock")
    /\ lock' = Free /\ cLock' = Free
    /\ UNCHANGED <<template, content, target, edits, poisoned>>

HandlerReturns(g) ==
    /\ Goto(g, "tables", "pop")
    /\ lock' = Free /\ cLock' = Free
    /\ UNCHANGED <<template, content, target, edits, poisoned>>
-----------------------------------------------------------------------------
(***************************************************************************)
(* commitAndReloadKeepalived, commitAndReloadHaproxy, and SetMaster(true)    *)
(* which runs one after the other.                                           *)
(***************************************************************************)
Commit(g) ==
    /\ Goto(g, "wait", "read")
    /\ UNCHANGED <<cLock, lock, template, content, target, edits, poisoned>>

\* commitAndReload* returns, with or without an error.
Returns(g, from) ==
    IF g = "signal" /\ target = "keepalived"
      THEN Goto(g, from, "read") /\ target' = "haproxy"
      ELSE Goto(g, from, "wait") /\ target' = "keepalived"

\* The template, or for haproxy the addresses, cannot be read.
ReadFails(g) ==
    /\ Returns(g, "read")
    /\ UNCHANGED <<cLock, lock, template, content, edits, poisoned>>

ReadTemplate(g) ==
    /\ Goto(g, "read", "lock")
    /\ content' = [content EXCEPT ![g] = template[Target(g)]]
    /\ UNCHANGED <<cLock, lock, template, target, edits, poisoned>>

CommitLocks(g) ==
    /\ Goto(g, "lock", "render")
    /\ lock = Free
    /\ lock' = g
    /\ UNCHANGED <<cLock, template, content, target, edits, poisoned>>

Rendered(g) ==
    /\ content[g] = "good"
    /\ Goto(g, "render", "write")
    /\ lock' = Free
    /\ UNCHANGED <<cLock, template, content, target, edits, poisoned>>

\* A local variable that goes out of scope.
Forget(g) == content' = [content EXCEPT ![g] = "good"]

MutantErrorKeepsLock(g) ==
    /\ content[g] = "does not execute"
    /\ Returns(g, "render")
    /\ Forget(g)
    /\ UNCHANGED <<cLock, lock, template, edits, poisoned>>

ExecuteFails(g) ==
    /\ content[g] = "does not execute"
    /\ Returns(g, "render")
    /\ Forget(g)
    /\ lock' = Free
    /\ UNCHANGED <<cLock, template, edits, poisoned>>

MustPanics(g) ==
    /\ content[g] = "does not parse"
    /\ at[g] = "render"
    /\ IF g = "signal"
         THEN /\ at' = AtStart
              /\ cLock' = Free /\ lock' = Free
              /\ target' = "keepalived"
              /\ poisoned' = FALSE
              /\ content' = NoContent
         ELSE /\ Goto(g, "render", "wait")
              /\ poisoned' = TRUE
              /\ Forget(g)
              /\ UNCHANGED <<cLock, lock, target>>
    /\ UNCHANGED <<template, edits>>

Written(g) ==
    /\ Returns(g, "write")
    /\ UNCHANGED <<cLock, lock, template, content, edits, poisoned>>
-----------------------------------------------------------------------------
HandlerStep(g) == HandlerSkips(g) \/ HandlerReturns(g)
CommitStep(g) ==
    ReadFails(g) \/ ReadTemplate(g) \/ Rendered(g) \/ ExecuteFails(g) \/ MustPanics(g) \/ Written(g)

Next ==
    \/ \E f \in Files, t \in Templates : Edit(f, t)
    \/ \E g \in Handlers : PopEvent(g) \/ LockController(g) \/ HandlerLocks(g) \/ HandlerStep(g)
    \/ \E g \in Committers : Commit(g) \/ CommitLocks(g) \/ CommitStep(g)

(***************************************************************************)
(* Fairness: a goroutine that can go on does, the scripts end, and a mutex   *)
(* that is free again and again does not pass a waiting goroutine by for     *)
(* ever.  Nothing makes events or commits come.                              *)
(***************************************************************************)
LocksSpec ==
    /\ Init /\ [][Next]_lockVars
    /\ \A g \in Handlers : /\ WF_lockVars(HandlerStep(g))
                           /\ SF_lockVars(LockController(g)) /\ SF_lockVars(HandlerLocks(g))
    /\ \A g \in Committers : WF_lockVars(CommitStep(g))
-----------------------------------------------------------------------------
LocksTypeOK ==
    /\ at \in [Goroutines -> {"pop", "c.lock", "handle", "tables", "return",
                              "wait", "read", "lock", "render", "write"}]
    /\ \A g \in Handlers : at[g] \in {"handle", "tables", "return"} <=> cLock = g
    /\ cLock \in Handlers \cup {Free} /\ lock \in Goroutines \cup {Free}
    /\ template \in [Files -> Templates] /\ content \in [Committers -> Templates]
    /\ target \in Files /\ edits \in 0..MaxEdits /\ poisoned \in BOOLEAN

\* proxier.lock is held by a goroutine inside its critical section and by no
\* other, on every path through a commit, unless a rate limiter's goroutine
\* has panicked there; and then it is that one that holds it.
LockIsReleased ==
    /\ \A g \in Goroutines : at[g] \in {"tables", "render"} => lock = g
    /\ lock # Free => \/ at[lock] \in {"tables", "render"}
                      \/ poisoned /\ lock \in Files

\* Every event that is popped is handled: no order of the two locks, no failed
\* read, template or script blocks a handler, except a recovered panic.
EventsAreHandled ==
    \A g \in Handlers : at[g] = "c.lock" ~> (at[g] = "pop" \/ poisoned)
=============================================================================
