------------------------------ MODULE Reflector ------------------------------
(***************************************************************************)
(* An EventQueue between its two users: a client-go reflector               *)
(* (client/cache/reflector.go, started in controller.New) that lists the    *)
(* API server and then applies its watch events, and the goroutine of the   *)
(* controller that pops them.                                               *)
(*                                                                         *)
(* The API server is its history: history[i] is the cluster at resource     *)
(* version i, and each version differs from the one before in one object.   *)
(***************************************************************************)
EXTENDS EventQueue

CONSTANTS MaxVersion,   \* bound: versions the API server goes through
          MaxRelists    \* bound: watches that end in a new list (panics not counted)

ASSUME ReflectorAssumption == MaxVersion \in Nat \ {0} /\ MaxRelists \in Nat

VARIABLES
    history,           \* API server: the cluster at each version
    resourceVersion,   \* reflector: version applied so far, 0 before a list
    phase,             \* reflector: "list" or "watch"
    relists,           \* how many times WatchEnds has happened
    seen               \* consumer: what the popped events add up to

refVars == <<history, resourceVersion, phase, relists, seen>>
vars == <<eqVars, refVars>>

Cluster == [Keys -> States \cup {NoState}]
Nothing == [k \in Keys |-> NoState]

Init ==
    /\ NewEventQueue
    /\ history \in {<<c>> : c \in Cluster}
    /\ resourceVersion = 0
    /\ phase = "list"
    /\ relists = 0
    /\ seen = Nothing

Now == history[Len(history)]

\* What the reflector has been told so far.
View == IF resourceVersion = 0 THEN Nothing ELSE history[resourceVersion]

\* A client of the API server creates, changes or deletes an object.
ServerChange(k, v) ==
    /\ Len(history) < MaxVersion
    /\ v # Now[k]
    /\ history' = Append(history, [Now EXCEPT ![k] = v])
    /\ UNCHANGED <<eqVars, resourceVersion, phase, relists, seen>>

Orderings(S) == {s \in Listings : KeysOf(s) = S}

(***************************************************************************)
(* The first half of ListAndWatch: List with resource version "0" may be    *)
(* answered from a cache that lags behind, and may even be older than what  *)
(* the reflector has already seen.                                          *)
(***************************************************************************)
ListAndSync(version, keys) ==
    /\ phase = "list"
    /\ keys \in Orderings({k \in Keys : history[version][k] # NoState})
    /\ Replace(keys, history[version])
    /\ resourceVersion' = version
    /\ phase' = "watch"
    /\ UNCHANGED <<history, relists, seen>>

\* The watch event that leads from this version to the next.
NextKey == CHOOSE k \in Keys : history[resourceVersion + 1][k] # View[k]
NextState == history[resourceVersion + 1][NextKey]
MutantNextTypeGuessed == IF NextState = NoState THEN Deleted ELSE Modified

NextType == IF View[NextKey] = NoState THEN Added
            ELSE IF NextState = NoState THEN Deleted ELSE Modified

Watching == phase = "watch" /\ resourceVersion < Len(history)

WatchEvent ==
    /\ Watching
    /\ handleEvent(NextKey, NextState, NextType)
    /\ resourceVersion' = resourceVersion + 1
    /\ UNCHANGED <<history, phase, relists, seen>>

\* handleEvent panics, wait.Until recovers and runs ListAndWatch again.
WatchPanic ==
    /\ Watching
    /\ watchEventEffect(events[NextKey], NextType) = "PANIC"
    /\ phase' = "list"
    /\ UNCHANGED <<eqVars, history, resourceVersion, relists, seen>>

\* The resync timer fires, the watch fails or its window has expired.  (A
\* watch that closes normally resumes at resourceVersion: nothing changes.)
WatchEnds ==
    /\ phase = "watch"
    /\ relists < MaxRelists
    /\ relists' = relists + 1
    /\ phase' = "list"
    /\ UNCHANGED <<eqVars, history, resourceVersion, seen>>

\* The consumer keeps the state of the object it is handed, or forgets it.
PopEvent ==
    /\ Pop
    /\ seen' = [seen EXCEPT ![Head(queue)] =
                    IF events[Head(queue)] = Deleted THEN NoState ELSE store[Head(queue)]]
    /\ UNCHANGED <<history, resourceVersion, phase, relists>>

ReflectorStep ==
    \/ \E version \in 1..Len(history), keys \in Listings : ListAndSync(version, keys)
    \/ WatchEvent
    \/ WatchPanic

ReflectorNext ==
    \/ \E k \in Keys, v \in States \cup {NoState} : ServerChange(k, v)
    \/ ReflectorStep
    \/ WatchEnds
    \/ PopEvent
    \/ PopWait /\ UNCHANGED refVars

ReflectorSpec == Init /\ [][ReflectorNext]_vars

(***************************************************************************)
(* Fairness: the reflector and the consumer are goroutines in wait.Until    *)
(* loops, so what they can do they do.  Nothing is assumed of the users of  *)
(* the API server or of watches ending.  Of the API server it is assumed    *)
(* that a reflector that lists again and again is not answered from a       *)
(* lagging cache for ever.                                                  *)
(***************************************************************************)
FreshList == \E keys \in Listings : ListAndSync(Len(history), keys)

FairReflectorSpec ==
    /\ ReflectorSpec
    /\ WF_vars(ReflectorStep)
    /\ WF_vars(PopEvent)
    /\ SF_vars(FreshList)
-----------------------------------------------------------------------------
ReflectorTypeOK ==
    /\ TypeOK
    /\ history \in Seq(Cluster)
    /\ Len(history) \in 1..MaxVersion
    /\ resourceVersion \in 0..Len(history)
    /\ phase \in {"list", "watch"}
    /\ phase = "watch" => resourceVersion > 0
    /\ relists \in 0..MaxRelists
    /\ seen \in Cluster

\* Pop ("Should always succeed"), List and GetByKey never meet a queued key
\* that is missing from the backing store, their panics are never reached:
\* the store lags behind the watch just enough, also across relists.
QueuedObjectsAreStored ==
    \A k \in Keys : events[k] # NoEvent => store[k] # NoState

\* What is queued is exactly what the consumer still has to be told of the
\* reflector's view: a pending deletion is of an object that is gone, any
\* other pending event carries the object as it is now, and an object that
\* exists and has nothing pending is known to the consumer as it is now.
QueueBridgesTheGap ==
    \A k \in Keys :
        /\ events[k] = Deleted => View[k] = NoState
        /\ events[k] \in {Added, Modified} => View[k] # NoState /\ store[k] = View[k]
        /\ events[k] = NoEvent /\ View[k] # NoState => seen[k] = View[k]

\* The one invalid transition a well-behaved API server can provoke is an
\* addition while the deletion of the same name is still queued.
OnlyReAddPanics ==
    Watching /\ watchEventEffect(events[NextKey], NextType) = "PANIC"
        => events[NextKey] = Deleted /\ NextType = Added

\* Objects the consumer holds while the queue behaves as if it did not: no
\* pending event will ever take them away.
Orphans == {k \in Keys : /\ seen[k] # NoState
                         /\ \/ events[k] = Added
                            \/ events[k] = NoEvent /\ View[k] = NoState}

\* Watch events, compression and Pop never lose a deletion; only the Replace
\* of a relist can (it resets the queue and synthesises no deletions).
OnlyRelistsOrphan == [][Orphans' \subseteq Orphans \/ phase = "list"]_vars

F == INSTANCE Feed WITH view <- View

\* The abstraction that the controller's model is built on: seen from the queue,
\* a reflector that lists lagging caches, watches, panics and starts again
\* only ever reports one change of its view or replaces all of it.
ImplementsFeed == F!FeedSpec

\* However often watches break, lists lag and handleEvent panics, the
\* consumer ends up with the current state of every object that exists.
EventuallyConverges ==
    <>[](\A k \in Keys : Now[k] # NoState => seen[k] = Now[k])

\* "the reflector uses UIDs for the IDs passed to stores, so you will never
\* see a delete and a re-add for the same ID" (comment on EventQueue)
NoDeleteThenReAdd ==
    ~(Watching /\ events[NextKey] = Deleted /\ NextType = Added)

\* Everything the API server has to say has been applied and popped.
Idle == phase = "watch" /\ resourceVersion = Len(history) /\ queue = <<>>

\* "provides a sequence of compressed events to a consumer along with event
\* types ... accounting for event types and deletions" (comment on
\* EventQueue): a consumer that has popped everything holds the cluster.
IdleMeansInSync == Idle => seen = Now
=============================================================================
