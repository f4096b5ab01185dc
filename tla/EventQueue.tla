----------------------------- MODULE EventQueue -----------------------------
(***************************************************************************)
(* util/cache/eventqueue.go: a kcache.Store that turns the calls of a       *)
(* reflector (Add, Update, Delete, Replace) into a queue with at most one   *)
(* compressed event per key, which one consumer reads with Pop.             *)
(*                                                                         *)
(* Every method body runs under eq.lock, so one method call is one action;  *)
(* Pop alone can give the lock up, in cond.Wait, and so is split there.     *)
(* An object is its key and its state.  keyFn is MetaNamespaceKeyFunc,      *)
(* which fails only on values without object metadata; the reflector never  *)
(* passes one, so the error returns behind keyFn are not modelled.          *)
(***************************************************************************)
EXTENDS Naturals, Sequences, FiniteSets

CONSTANTS Keys,     \* namespace/name of the objects
          States,   \* what an object can contain
          NoKey,    \* the empty lastReplaceKey
          NoState   \* no entry in the backing store

ASSUME QueueAssumption ==
    /\ IsFiniteSet(Keys)
    /\ NoKey \notin Keys
    /\ NoState \notin States

VARIABLES
    store,           \* eq.store: key -> state
    events,          \* eq.events: key -> queued event type
    queue,           \* eq.queue: keys, next one to pop first
    lastReplaceKey,  \* eq.lastReplaceKey
    popper,          \* where the consumer is: see Pop
    unread           \* history: keys of the last Replace not popped since

eqVars == <<store, events, queue, lastReplaceKey, popper, unread>>

Added    == "ADDED"
Modified == "MODIFIED"
Deleted  == "DELETED"
NoEvent  == "NONE"
EventTypes == {Added, Modified, Deleted}

NewEventQueue ==
    /\ store = [k \in Keys |-> NoState]
    /\ events = [k \in Keys |-> NoEvent]
    /\ queue = <<>>
    /\ lastReplaceKey = NoKey
    /\ popper = "calling"
    /\ unread = {}

(***************************************************************************)
(* The two matrices.  A pair without an entry makes handleEvent panic.      *)
(***************************************************************************)
Compressed == {<<Added, Modified>>, <<Modified, Modified>>, <<Modified, Deleted>>}

MutantDeleteAlwaysDrops(queued, new) ==
    IF queued = NoEvent THEN "ADD"
    ELSE IF new = Deleted THEN "DELETE"
    ELSE IF <<queued, new>> \in Compressed THEN "COMPRESS"
    ELSE "PANIC"

MutantNoModifiedRow(queued, new) ==
    IF queued = NoEvent THEN "ADD"
    ELSE IF <<queued, new>> = <<Added, Deleted>> THEN "DELETE"
    ELSE IF <<queued, new>> = <<Added, Modified>> THEN "COMPRESS"
    ELSE "PANIC"

watchEventEffect(queued, new) ==
    IF queued = NoEvent THEN "ADD"
    ELSE IF <<queued, new>> = <<Added, Deleted>> THEN "DELETE"
    ELSE IF <<queued, new>> \in Compressed THEN "COMPRESS"
    ELSE "PANIC"

MutantCompressKeepsFirst(queued, new) == queued

\* Without the ok check a missing row of the Go map gives the zero value.
MutantCompressionRowMissing(queued, new) ==
    IF queued = Added THEN Added ELSE ""

watchEventCompression(queued, new) ==
    IF queued = Added THEN Added ELSE new

(***************************************************************************)
(* cond.Broadcast: a consumer blocked in Wait may go on.                    *)
(***************************************************************************)
MutantNoWakeup == popper' = popper

Broadcast == popper' = IF popper = "waiting" THEN "woken" ELSE popper

MutantUpdateStoreDeletes(k, v, type) ==
    store' = [store EXCEPT ![k] = IF type = Deleted THEN NoState ELSE v]

\* Deletions reach the backing store only in Pop.
updateStore(k, v, type) ==
    store' = IF type = Deleted THEN store ELSE [store EXCEPT ![k] = v]

(***************************************************************************)
(* queueWithout appends every other key to rq: rq[i] is the slice after the *)
(* first i keys of the queue.                                               *)
(***************************************************************************)
MutantWithoutStopsAtKey(k) ==
    LET rq[i \in 0..Len(queue)] ==
            IF i = 0 THEN <<>>
            ELSE IF \E j \in 1..i : queue[j] = k
            THEN rq[i - 1] ELSE Append(rq[i - 1], queue[i])
    IN  rq[Len(queue)]

queueWithout(k) ==
    LET rq[i \in 0..Len(queue)] ==
            IF i = 0 THEN <<>>
            ELSE IF queue[i] = k THEN rq[i - 1] ELSE Append(rq[i - 1], queue[i])
    IN  rq[Len(queue)]

(***************************************************************************)
(* handleEvent, behind Add, Update and Delete.  A "PANIC" effect leaves     *)
(* before anything is written (the deferred Unlock runs), so the queue does *)
(* not change: what the caller does about it is the Reflector's business.   *)
(***************************************************************************)
effectAdd(k, type) ==
    /\ events' = [events EXCEPT ![k] = type]
    /\ queue' = Append(queue, k)
    /\ Broadcast
    /\ UNCHANGED unread

MutantCompressRequeues(k, type) ==
    /\ events' = [events EXCEPT ![k] = watchEventCompression(@, type)]
    /\ queue' = Append(queueWithout(k), k)
    /\ UNCHANGED <<popper, unread>>

effectCompress(k, type) ==
    /\ events' = [events EXCEPT ![k] = watchEventCompression(@, type)]
    /\ UNCHANGED <<queue, popper, unread>>

MutantDeleteKeepsQueue(k) ==
    /\ events' = [events EXCEPT ![k] = NoEvent]
    /\ UNCHANGED <<queue, popper, unread>>

effectDelete(k) ==
    /\ events' = [events EXCEPT ![k] = NoEvent]
    /\ queue' = queueWithout(k)
    /\ unread' = unread \ {k}
    /\ UNCHANGED popper

handleEvent(k, v, type) ==
    LET effect == watchEventEffect(events[k], type) IN
    /\ effect # "PANIC"
    /\ updateStore(k, v, type)
    /\ \/ effect = "ADD" /\ effectAdd(k, type)
       \/ effect = "COMPRESS" /\ effectCompress(k, type)
       \/ effect = "DELETE" /\ effectDelete(k)
    /\ UNCHANGED lastReplaceKey

Add(k, v)    == handleEvent(k, v, Added)
Update(k, v) == handleEvent(k, v, Modified)
Delete(k)    == handleEvent(k, NoState, Deleted)

Cancel ==
    /\ Broadcast
    /\ UNCHANGED <<store, events, queue, lastReplaceKey, unread>>

(***************************************************************************)
(* Pop.  The consumer is "calling" between calls, "waiting" inside          *)
(* cond.Wait and "woken" once a Broadcast has reached it.  The inner loop   *)
(* leaves only with a non-empty queue, so the EventQueueStopped return      *)
(* behind it is never taken.                                                *)
(***************************************************************************)
PopWait ==
    /\ popper # "waiting"
    /\ queue = <<>>
    /\ popper' = "waiting"
    /\ UNCHANGED <<store, events, queue, lastReplaceKey, unread>>

\* The same step when the key is missing from the store: then Pop panics
\* after these writes instead of returning (PopPanics).
Pop ==
    LET key == Head(queue) IN
    /\ popper # "waiting"
    /\ queue # <<>>
    /\ popper' = "calling"
    /\ queue' = Tail(queue)
    /\ events' = [events EXCEPT ![key] = NoEvent]
    /\ lastReplaceKey' = IF lastReplaceKey = key THEN NoKey ELSE lastReplaceKey
    /\ store' = IF events[key] = Deleted
                  THEN [store EXCEPT ![key] = NoState] ELSE store
    /\ unread' = unread \ {key}

PopPanics == queue # <<>> /\ store[Head(queue)] = NoState

(***************************************************************************)
(* Replace(objects, _): keys is the order of the listed objects, a key      *)
(* once, and state[k] what the list says of k.                              *)
(***************************************************************************)
KeysOf(keys) == {keys[i] : i \in 1..Len(keys)}

Replace(keys, state) ==
    /\ events' = [k \in Keys |-> IF k \in KeysOf(keys) THEN Modified ELSE NoEvent]
    /\ queue' = keys
    /\ store' = [k \in Keys |-> IF k \in KeysOf(keys) THEN state[k] ELSE NoState]
    /\ unread' = KeysOf(keys)
    /\ IF keys # <<>>
         THEN lastReplaceKey' = keys[Len(keys)] /\ Broadcast
         ELSE lastReplaceKey' = NoKey /\ UNCHANGED popper

(***************************************************************************)
(* The reads.                                                               *)
(***************************************************************************)
ListConsumed == lastReplaceKey = NoKey

\* make(.., 0, n) gives copy a destination of length 0.
ListKeys == SubSeq(queue, 1, 0)

ContainedIDs == KeysOf(queue)

\* NoState stands for exists = false.
GetByKey(k) == IF events[k] = NoEvent THEN NoState ELSE store[k]

\* List panics when a queued key has no entry in the store.
List == [i \in 1..Len(queue) |-> store[queue[i]]]
ListPanics == \E k \in ContainedIDs : store[k] = NoState
-----------------------------------------------------------------------------
(***************************************************************************)
(* The queue on its own, driven by arbitrary callers of the Store API.      *)
(***************************************************************************)
Listings ==
    {s \in UNION {[1..n -> Keys] : n \in 0..Cardinality(Keys)} :
        \A i, j \in 1..Len(s) : s[i] = s[j] => i = j}

Next ==
    \/ \E k \in Keys, v \in States : Add(k, v) \/ Update(k, v)
    \/ \E k \in Keys : Delete(k)
    \/ \E keys \in Listings, state \in [Keys -> States] : Replace(keys, state)
    \/ Cancel
    \/ PopWait
    \/ Pop

Spec == NewEventQueue /\ [][Next]_eqVars

\* A consumer of an empty queue and callers that only Cancel.  The consumer
\* calls Pop in a loop (wait.Until, period 0), and a goroutine that wants the
\* lock gets it in the end.
CancelSpec ==
    /\ NewEventQueue
    /\ [][Cancel \/ PopWait \/ Pop]_eqVars
    /\ WF_eqVars(PopWait) /\ WF_eqVars(Pop)
-----------------------------------------------------------------------------
TypeOK ==
    /\ store \in [Keys -> States \cup {NoState}]
    /\ events \in [Keys -> EventTypes \cup {NoEvent}]
    /\ queue \in Seq(Keys)
    /\ lastReplaceKey \in Keys \cup {NoKey}
    /\ popper \in {"calling", "waiting", "woken"}
    /\ unread \in SUBSET Keys

\* The slice and the map that handleEvent, Pop and Replace update side by
\* side describe the same set of pending events: a key has an event exactly
\* when it is queued, and it is queued once.
QueueMatchesEvents ==
    /\ \A i, j \in 1..Len(queue) : queue[i] = queue[j] => i = j
    /\ \A k \in Keys : events[k] # NoEvent <=> k \in KeysOf(queue)

\* ListConsumed, from which the controller decides whether commits may go
\* out, tells the truth through any mix of compression, deletion and new
\* events: it says yes exactly when every object of the last Replace has
\* been popped.
ListConsumedIsExact == ListConsumed <=> unread = {}

\* No lost wake-up: the consumer never stays in cond.Wait with an event in
\* the queue, although compression and removal do not Broadcast.
NoLostWakeup == popper = "waiting" => queue = <<>>

\* The loop of queueWithout, which would drop every occurrence of a key,
\* takes one place out of the queue and nothing else: the keys behind it
\* move up by one, and a queue without the key comes back as it was.
QueueWithoutTakesOneOut ==
    /\ \A p \in 1..Len(queue) :
          queueWithout(queue[p]) = [i \in 1..(Len(queue) - 1) |->
                                       IF i < p THEN queue[i] ELSE queue[i + 1]]
    /\ \A k \in Keys \ KeysOf(queue) : queueWithout(k) = queue

Before(q, a, b) == \E i, j \in 1..Len(q) : i < j /\ q[i] = a /\ q[j] = b

\* Compression never lets an event overtake another: outside Replace, two
\* keys that stay queued stay in the order they arrived in.  The proxier
\* relies on it when the address of a deleted service is given to a new one.
OrderIsKept ==
    [][ \/ \E keys \in Listings, state \in [Keys -> States] : Replace(keys, state)
        \/ \A a, b \in KeysOf(queue') : Before(queue, a, b) => Before(queue', a, b)
      ]_eqVars

\* "ListKeys returns all enqueued keys." (comment on ListKeys)
ListKeysReturnsAll == KeysOf(ListKeys) = ContainedIDs

\* "Cancel function to force Pop function to unblock" (comment on Cancel):
\* a consumer that has been woken returns from Pop.
CancelUnblocksPop == popper = "woken" ~> popper = "calling"
=============================================================================
