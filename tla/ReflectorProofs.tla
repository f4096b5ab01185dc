--------------------------- MODULE ReflectorProofs ---------------------------
(***************************************************************************)
(* Reflector for every set of keys and states, every history of the API      *)
(* server and any number of relists.                                         *)
(*                                                                         *)
(* What the queue holds is only right because of what the store holds:       *)
(* QueuedObjectsAreStored and QueueBridgesTheGap are not inductive without   *)
(* Shows (an object that is not queued is still stored, or its deletion      *)
(* would be queued for nothing) and without HistorySteps (a watch event is   *)
(* the difference between two versions, and tells all of it).                *)
(***************************************************************************)
EXTENDS Reflector, EventQueueProofs

\* One object changes from a version of the cluster to the next.
ChangesOne(old, new) ==
    \E k \in Keys : new[k] # old[k] /\ \A j \in Keys \ {k} : new[j] = old[j]

HistorySteps == \A i \in 1..(Len(history) - 1) : ChangesOne(history[i], history[i + 1])

\* What is not queued the consumer knows.
SeenIsTheView ==
    \A k \in Keys : events[k] = NoEvent /\ View[k] # NoState => seen[k] = View[k]

ReflectorInv ==
    /\ IInv
    /\ ReflectorTypeOK
    /\ HistorySteps
    /\ Shows(View, store, events)
    /\ SeenIsTheView
-----------------------------------------------------------------------------
\* The versions that the reflector can have been told.
LEMMA HistoryFacts ==
    ASSUME ReflectorTypeOK
    PROVE  /\ Len(history) \in Nat /\ Len(history) >= 1
           /\ \A i \in 1..Len(history) : history[i] \in Cluster
           /\ View \in Cluster /\ Now \in Cluster
<1>1. /\ Len(history) \in Nat /\ Len(history) >= 1
      /\ \A i \in 1..Len(history) : history[i] \in Cluster
  BY DEF ReflectorTypeOK
<1>2. Nothing \in Cluster
  BY DEF Nothing, Cluster
<1>3. View \in Cluster
  BY <1>1, <1>2 DEF View, ReflectorTypeOK
<1> QED
  BY <1>1, <1>3 DEF Now

\* The watch event tells how the next version differs from this one.
LEMMA WatchFacts ==
    ASSUME ReflectorInv, Watching
    PROVE  /\ NextKey \in Keys
           /\ NextState \in States \cup {NoState} /\ NextState # View[NextKey]
           /\ NextType \in EventTypes
           /\ NextType = Added <=> View[NextKey] = NoState
           /\ NextType = Change(View[NextKey], NextState)
           /\ history[resourceVersion + 1] = [View EXCEPT ![NextKey] = NextState]
<1>1. ReflectorTypeOK /\ HistorySteps
  BY DEF ReflectorInv
<1>2. /\ resourceVersion \in Nat /\ resourceVersion > 0
      /\ resourceVersion \in 1..(Len(history) - 1) /\ resourceVersion + 1 \in 1..Len(history)
  BY <1>1, HistoryFacts DEF Watching, ReflectorTypeOK
<1> DEFINE new == history[resourceVersion + 1]
<1>3. View = history[resourceVersion] /\ View \in Cluster /\ new \in Cluster
  BY <1>1, <1>2, HistoryFacts DEF View
<1>4. ChangesOne(View, new)
  BY <1>1, <1>2, <1>3 DEF HistorySteps
<1> HIDE DEF new
<1>5. PICK k \in Keys : new[k] # View[k] /\ \A j \in Keys \ {k} : new[j] = View[j]
  BY <1>4 DEF ChangesOne
<1>6. NextKey = k
  BY <1>5 DEF NextKey, new
<1>7. NextState = new[k] /\ new[k] \in States \cup {NoState}
  BY <1>3, <1>6 DEF NextState, new, Cluster
<1>8. new = [View EXCEPT ![k] = new[k]]
  BY <1>3, <1>5 DEF Cluster
<1>9. /\ NextType \in EventTypes
      /\ NextType = Added <=> View[k] = NoState
      /\ NextType = Change(View[k], new[k])
  BY <1>6, <1>7 DEF NextType, Change, EventTypes, Added, Modified, Deleted
<1> QED
  BY <1>5, <1>6, <1>7, <1>8, <1>9 DEF new

LEMMA InitReflector == Init => ReflectorInv
<1> SUFFICES ASSUME Init PROVE ReflectorInv
  OBVIOUS
<1>1. IInv
  BY InitIInv DEF Init
<1>2. PICK c \in Cluster : history = <<c>>
  BY DEF Init
<1>3. history \in Seq(Cluster) /\ Len(history) = 1
  BY <1>2
<1>4. Nothing \in Cluster /\ View = Nothing
  BY DEF Nothing, Cluster, View, Init
<1>5. ReflectorTypeOK
  BY <1>1, <1>3, <1>4, ReflectorAssumption DEF ReflectorTypeOK, IInv, Init
<1>6. HistorySteps
  BY <1>3 DEF HistorySteps
<1>7. Shows(View, store, events) /\ SeenIsTheView
  BY <1>4 DEF Init, NewEventQueue, Nothing, Shows, SeenIsTheView, Added, Modified, Deleted, NoEvent
<1> QED
  BY <1>1, <1>5, <1>6, <1>7 DEF ReflectorInv

\* Steps that leave the queue and the reflector's view alone.
LEMMA SameViewReflector ==
    ASSUME ReflectorInv, View' = View,
           UNCHANGED <<store, events, seen>>, IInv', ReflectorTypeOK', HistorySteps'
    PROVE  ReflectorInv'
  BY DEF ReflectorInv, SeenIsTheView

LEMMA ServerChangeReflector ==
    ASSUME ReflectorInv, NEW k \in Keys, NEW v \in States \cup {NoState}, ServerChange(k, v)
    PROVE  ReflectorInv'
<1>1. ReflectorTypeOK /\ IInv /\ HistorySteps
  BY DEF ReflectorInv
<1>2. /\ UNCHANGED <<eqVars, resourceVersion, phase, relists, seen>>
      /\ UNCHANGED <<store, events, queue, lastReplaceKey, popper, unread>>
      /\ Len(history) < MaxVersion /\ v # Now[k]
      /\ history' = Append(history, [Now EXCEPT ![k] = v])
  BY DEF ServerChange, eqVars
<1>3. Now \in Cluster /\ Len(history) \in Nat /\ Len(history) >= 1 /\ history \in Seq(Cluster)
  BY <1>1, HistoryFacts DEF ReflectorTypeOK
<1> DEFINE new == [Now EXCEPT ![k] = v]
<1>4. new \in Cluster /\ ChangesOne(Now, new)
  BY <1>2, <1>3 DEF Cluster, ChangesOne
<1> HIDE DEF new
<1>5. /\ history' \in Seq(Cluster) /\ Len(history') = Len(history) + 1
      /\ \A i \in 1..Len(history) : history'[i] = history[i]
      /\ history'[Len(history) + 1] = new
  BY <1>2, <1>3, <1>4 DEF new
<1>6. View' = View
  BY <1>1, <1>2, <1>3, <1>5 DEF View, ReflectorTypeOK
<1>7. IInv'
  BY <1>1, <1>2, CancelIInv
<1>8. ReflectorTypeOK'
  BY <1>1, <1>2, <1>3, <1>5, <1>7, ReflectorAssumption DEF ReflectorTypeOK, IInv
<1>9. HistorySteps'
  <2> SUFFICES ASSUME NEW i \in 1..Len(history) PROVE ChangesOne(history'[i], history'[i + 1])
    BY <1>3, <1>5 DEF HistorySteps, ChangesOne
  <2>1. CASE i = Len(history)
    BY <1>3, <1>4, <1>5, <2>1 DEF Now
  <2>2. CASE i # Len(history)
    <3>1. i \in 1..(Len(history) - 1) /\ i + 1 \in 1..Len(history)
      BY <1>3, <2>2
    <3> QED
      BY <1>1, <1>5, <3>1 DEF HistorySteps
  <2> QED
    BY <2>1, <2>2
<1> QED
  BY <1>2, <1>6, <1>7, <1>8, <1>9, SameViewReflector

\* A panic or the end of a watch only sends the reflector back to List.
LEMMA WatchStopsReflector ==
    ASSUME ReflectorInv, WatchPanic \/ WatchEnds \/ (PopWait /\ UNCHANGED refVars) \/ UNCHANGED vars
    PROVE  ReflectorInv'
<1>1. ReflectorTypeOK /\ IInv /\ HistorySteps
  BY DEF ReflectorInv
<1>2. /\ UNCHANGED <<history, resourceVersion, seen, store, events>>
      /\ PopWait \/ UNCHANGED eqVars
  BY DEF WatchPanic, WatchEnds, PopWait, refVars, vars, eqVars
<1>3. /\ phase' = phase \/ phase' = "list"
      /\ relists' = relists \/ (relists' = relists + 1 /\ relists < MaxRelists)
  BY DEF WatchPanic, WatchEnds, refVars, vars
<1>4. IInv'
  BY <1>1, <1>2, CancelIInv
<1>5. ReflectorTypeOK'
  BY <1>1, <1>2, <1>3, <1>4, ReflectorAssumption DEF ReflectorTypeOK, IInv
<1>6. HistorySteps' /\ View' = View
  BY <1>1, <1>2 DEF HistorySteps, View
<1> QED
  BY <1>2, <1>4, <1>5, <1>6, SameViewReflector

\* A list replaces queue, store and view by the same version.
LEMMA ListAndSyncReflector ==
    ASSUME ReflectorInv, NEW version \in 1..Len(history), NEW keys \in Listings,
           ListAndSync(version, keys)
    PROVE  ReflectorInv'
<1>1. ReflectorTypeOK /\ IInv /\ HistorySteps
  BY DEF ReflectorInv
<1> DEFINE c == history[version]
<1>2. /\ KeysOf(keys) = {k \in Keys : c[k] # NoState}
      /\ Replace(keys, c)
      /\ resourceVersion' = version /\ phase' = "watch"
      /\ UNCHANGED <<history, relists, seen>>
  BY DEF ListAndSync, Orderings
<1>3. c \in Cluster /\ version \in Nat /\ version > 0 /\ version <= Len(history)
  BY <1>1, HistoryFacts
<1>4. View' = c
  BY <1>2, <1>3 DEF View
<1> HIDE DEF c
<1>5. IInv'
  BY <1>1, <1>2, <1>3, ReplaceIInv DEF Cluster
<1>6. ReflectorTypeOK'
  BY <1>1, <1>2, <1>3, <1>5 DEF ReflectorTypeOK, IInv
<1>7. HistorySteps'
  BY <1>1, <1>2 DEF HistorySteps
<1>8. /\ Shows(c, store', events')
      /\ \A k \in Keys : events'[k] = IF c[k] # NoState THEN Modified ELSE NoEvent
  BY <1>2, <1>3, ReplaceShows DEF Cluster, IsView
<1>9. Shows(View, store, events)' /\ SeenIsTheView'
  BY <1>4, <1>8 DEF SeenIsTheView, Modified, NoEvent
<1> QED
  BY <1>5, <1>6, <1>7, <1>9 DEF ReflectorInv

\* A watch event changes view, store and pending event of one key together.
LEMMA WatchEventReflector ==
    ASSUME ReflectorInv, WatchEvent
    PROVE  ReflectorInv'
<1>1. ReflectorTypeOK /\ IInv /\ HistorySteps /\ TypeOK
  BY DEF ReflectorInv, IInv
<1>2. /\ Watching /\ handleEvent(NextKey, NextState, NextType)
      /\ resourceVersion' = resourceVersion + 1
      /\ UNCHANGED <<history, phase, relists, seen>>
  BY DEF WatchEvent
<1> DEFINE k == NextKey
           v == NextState
<1>3. /\ k \in Keys
      /\ v \in States \cup {NoState} /\ v # View[k]
      /\ NextType \in EventTypes /\ NextType = Change(View[k], v)
      /\ history[resourceVersion + 1] = [View EXCEPT ![k] = v]
  BY <1>2, WatchFacts
<1>4. View' = [View EXCEPT ![k] = v] /\ View \in Cluster
  BY <1>1, <1>2, <1>3, HistoryFacts DEF View, ReflectorTypeOK
<1>5. IInv'
  BY <1>1, <1>2, <1>3, HandleEventIInv
<1>6. ReflectorTypeOK'
  BY <1>1, <1>2, <1>5 DEF ReflectorTypeOK, IInv, Watching
<1>7. HistorySteps'
  BY <1>1, <1>2 DEF HistorySteps
<1> HIDE DEF k, v
<1>8. handleEvent(k, v, Change(View[k], v))
  BY <1>2, <1>3 DEF k, v
<1>9. /\ Shows([View EXCEPT ![k] = v], store', events')
      /\ events'[k] = NoEvent => v = NoState
  <2>1. IsView(View) /\ Shows(View, store, events)
    BY <1>4 DEF ReflectorInv, Cluster, IsView
  <2> QED
    BY <1>1, <1>3, <1>8, <2>1, HandleEventShows
<1>10. Shows(View, store, events)'
  BY <1>4, <1>9
<1>11. \A x \in Keys \ {k} : events'[x] = events[x] /\ View'[x] = View[x]
  <2>1. Change(View[k], v) \in EventTypes
    BY <1>3
  <2>2. \A x \in Keys \ {k} : events'[x] = events[x]
    BY <1>1, <1>3, <1>8, <2>1, HandleEventFacts
  <2> QED
    BY <1>3, <1>4, <2>2 DEF Cluster
<1>12. View'[k] = v
  BY <1>3, <1>4 DEF Cluster
<1>13. SeenIsTheView'
  BY <1>2, <1>9, <1>11, <1>12 DEF ReflectorInv, SeenIsTheView
<1> QED
  BY <1>5, <1>6, <1>7, <1>10, <1>13 DEF ReflectorInv

\* Pop hands the consumer what the view says of the key.
LEMMA PopEventReflector ==
    ASSUME ReflectorInv, PopEvent
    PROVE  ReflectorInv'
<1>1. ReflectorTypeOK /\ IInv /\ HistorySteps /\ TypeOK
  BY DEF ReflectorInv, IInv
<1>2. /\ Pop /\ UNCHANGED <<history, resourceVersion, phase, relists>>
      /\ seen' = [seen EXCEPT ![Head(queue)] =
                      IF events[Head(queue)] = Deleted THEN NoState ELSE store[Head(queue)]]
  BY DEF PopEvent
<1> DEFINE k == Head(queue)
<1>3. View \in Cluster /\ View' = View /\ HistorySteps'
  BY <1>1, <1>2, HistoryFacts DEF View, HistorySteps
<1>4. /\ k \in Keys /\ store[k] \in States
      /\ events[k] = Deleted => View[k] = NoState
      /\ events[k] # Deleted => View[k] = store[k]
      /\ \A x \in Keys \ {k} : events'[x] = events[x]
      /\ Shows(View, store', events')
  BY <1>1, <1>2, <1>3, PopShows DEF ReflectorInv, Cluster, IsView
<1>5. IInv'
  BY <1>1, <1>2, PopIInv
<1> HIDE DEF k
<1>6. seen' = [seen EXCEPT ![k] = IF events[k] = Deleted THEN NoState ELSE store[k]]
  BY <1>2 DEF k
<1>7. /\ seen' \in Cluster /\ \A x \in Keys \ {k} : seen'[x] = seen[x]
      /\ seen'[k] = IF events[k] = Deleted THEN NoState ELSE store[k]
  BY <1>1, <1>4, <1>6 DEF ReflectorTypeOK, Cluster
<1>8. ReflectorTypeOK'
  BY <1>1, <1>2, <1>5, <1>7 DEF ReflectorTypeOK, IInv
<1>9. SeenIsTheView'
  BY <1>3, <1>4, <1>7 DEF ReflectorInv, SeenIsTheView
<1> QED
  BY <1>3, <1>4, <1>5, <1>8, <1>9 DEF ReflectorInv

LEMMA NextReflector == ReflectorInv /\ [ReflectorNext]_vars => ReflectorInv'
<1> SUFFICES ASSUME ReflectorInv, [ReflectorNext]_vars PROVE ReflectorInv'
  OBVIOUS
<1>1. CASE ReflectorNext
  BY <1>1, ServerChangeReflector, ListAndSyncReflector, WatchEventReflector, WatchStopsReflector,
     PopEventReflector DEF ReflectorNext, ReflectorStep
<1>2. CASE UNCHANGED vars
  BY <1>2, WatchStopsReflector
<1> QED
  BY <1>1, <1>2

LEMMA SpecReflector == ReflectorSpec => []ReflectorInv
  BY InitReflector, NextReflector, PTL DEF ReflectorSpec
-----------------------------------------------------------------------------
\* The queue, the reflector and the consumer keep their types, and a reflector
\* that watches has listed.
THEOREM ReflectorTypeCorrect == ReflectorSpec => []ReflectorTypeOK
  BY SpecReflector, PTL DEF ReflectorInv

\* The panics of Pop, List and GetByKey on a queued key without an object in
\* the store are never reached, for any history of the API server.
THEOREM NoQueuedObjectIsMissing == ReflectorSpec => []QueuedObjectsAreStored
<1>1. ReflectorInv => QueuedObjectsAreStored
  BY DEF ReflectorInv, Shows, QueuedObjectsAreStored
<1> QED
  BY <1>1, SpecReflector, PTL

\* Popping what is queued takes the consumer to the reflector's view of every
\* object that exists, and tells it of no deletion that has not happened.
THEOREM QueueIsTheGap == ReflectorSpec => []QueueBridgesTheGap
<1>1. ReflectorInv => QueueBridgesTheGap
  BY DEF ReflectorInv, Shows, SeenIsTheView, QueueBridgesTheGap
<1> QED
  BY <1>1, SpecReflector, PTL

\* handleEvent panics on a well-behaved watch only when an object is added
\* while its deletion is still queued.
THEOREM PanicsAreReAdds == ReflectorSpec => []OnlyReAddPanics
<1>1. ReflectorInv => OnlyReAddPanics
  <2> SUFFICES ASSUME ReflectorInv, Watching, watchEventEffect(events[NextKey], NextType) = "PANIC"
               PROVE  events[NextKey] = Deleted /\ NextType = Added
    BY DEF OnlyReAddPanics
  <2>1. /\ NextKey \in Keys /\ NextType \in EventTypes
        /\ NextType = Added <=> View[NextKey] = NoState
    BY WatchFacts
  <2>2. events[NextKey] \in EventTypes \cup {NoEvent}
    BY <2>1 DEF ReflectorInv, IInv, TypeOK
  <2>3. /\ events[NextKey] = Deleted => View[NextKey] = NoState
        /\ events[NextKey] \in {Added, Modified} => View[NextKey] # NoState
    BY <2>1 DEF ReflectorInv, Shows
  <2> QED
    BY <2>1, <2>2, <2>3 DEF watchEventEffect, Compressed, EventTypes, Added, Modified, Deleted, NoEvent
<1> QED
  BY <1>1, SpecReflector, PTL

\* Compression, removal from the queue and Pop never lose a deletion that the
\* consumer needs: a step that adds an orphan is taken while listing.
THEOREM OrphansComeFromRelists == ReflectorSpec => OnlyRelistsOrphan
<1>1. ReflectorInv /\ [ReflectorNext]_vars => [Orphans' \subseteq Orphans \/ phase = "list"]_vars
  <2> SUFFICES ASSUME ReflectorInv, ReflectorNext, phase # "list"
               PROVE  Orphans' \subseteq Orphans
    BY DEF vars
  <2>0. ReflectorTypeOK /\ TypeOK /\ IInv /\ Shows(View, store, events)
    BY DEF ReflectorInv, IInv
  <2>1. CASE UNCHANGED <<seen, events>> /\ View' = View
    BY <2>1 DEF Orphans
  <2>2. CASE \E k \in Keys, v \in States \cup {NoState} : ServerChange(k, v)
    <3>1. PICK k \in Keys, v \in States \cup {NoState} : ServerChange(k, v)
      BY <2>2
    <3>2. /\ UNCHANGED <<seen, events, resourceVersion>>
          /\ history' = Append(history, [Now EXCEPT ![k] = v])
      BY <3>1 DEF ServerChange, eqVars
    <3>3. View' = View
      <4>1. history \in Seq(Cluster) /\ [Now EXCEPT ![k] = v] \in Cluster
        BY <2>0, HistoryFacts DEF ReflectorTypeOK, Cluster
      <4>2. \A i \in 1..Len(history) : history'[i] = history[i]
        BY <3>2, <4>1
      <4> QED
        BY <2>0, <3>2, <4>2 DEF View, ReflectorTypeOK
    <3> QED
      BY <2>1, <3>2, <3>3
  <2>3. CASE WatchPanic \/ WatchEnds \/ (PopWait /\ UNCHANGED refVars)
    <3>1. UNCHANGED <<seen, events, history, resourceVersion>>
      BY <2>3 DEF WatchPanic, WatchEnds, PopWait, refVars, eqVars
    <3> QED
      BY <2>1, <3>1 DEF View
  <2>4. CASE WatchEvent
    <3> DEFINE k == NextKey
               type == NextType
    <3>1. /\ k \in Keys /\ type \in EventTypes
          /\ NextState \in States \cup {NoState}
          /\ type = Added <=> View[k] = NoState
          /\ View' = [View EXCEPT ![k] = NextState] /\ View \in Cluster
          /\ handleEvent(k, NextState, type) /\ seen' = seen
      <4>1. /\ Watching /\ handleEvent(k, NextState, type)
            /\ resourceVersion' = resourceVersion + 1 /\ UNCHANGED <<history, seen>>
        BY <2>4 DEF WatchEvent
      <4> QED
        BY <2>0, <4>1, WatchFacts, HistoryFacts DEF View, ReflectorTypeOK
    <3> HIDE DEF k, type
    <3>2. /\ \A x \in Keys \ {k} : View'[x] = View[x] /\ events'[x] = events[x]
          /\ \/ events[k] = NoEvent /\ events'[k] = type
             \/ events[k] = Added /\ events'[k] = Added
             \/ events[k] = Added /\ events'[k] = NoEvent
             \/ events[k] = Modified /\ events'[k] \in {Modified, Deleted}
      <4>1. \A x \in Keys \ {k} : View'[x] = View[x]
        BY <3>1 DEF Cluster
      <4> QED
        BY <2>0, <3>1, <4>1, HandleEventFacts
    <3>3. k \in Orphans' => k \in Orphans
      BY <3>1, <3>2 DEF Orphans, EventTypes, Added, Modified, Deleted, NoEvent
    <3>4. \A x \in Keys \ {k} : x \in Orphans' => x \in Orphans
      BY <3>1, <3>2 DEF Orphans
    <3> QED
      BY <3>3, <3>4 DEF Orphans
  <2>5. CASE PopEvent
    <3> DEFINE k == Head(queue)
    <3>1. /\ k \in Keys /\ events[k] # NoEvent
          /\ View' = View
          /\ events' = [events EXCEPT ![k] = NoEvent]
          /\ seen' = [seen EXCEPT ![k] = IF events[k] = Deleted THEN NoState ELSE store[k]]
      <4>1. /\ Pop /\ UNCHANGED <<history, resourceVersion>>
            /\ seen' = [seen EXCEPT ![k] = IF events[k] = Deleted THEN NoState ELSE store[k]]
        BY <2>5 DEF PopEvent
      <4>2. k \in Keys /\ k \in KeysOf(queue)
        BY <2>0, <4>1 DEF Pop, TypeOK, KeysOf
      <4> QED
        BY <2>0, <4>1, <4>2 DEF Pop, IInv, QueueMatchesEvents, View
    <3> HIDE DEF k
    <3>2. /\ \A x \in Keys \ {k} : events'[x] = events[x] /\ seen'[x] = seen[x]
          /\ events'[k] = NoEvent
          /\ events[k] = Deleted => seen'[k] = NoState
      BY <2>0, <3>1 DEF TypeOK, ReflectorTypeOK, Cluster
    <3>3. events[k] # Deleted => View[k] # NoState
      BY <2>0, <3>1 DEF Shows, TypeOK, EventTypes
    <3>4. k \notin Orphans'
      BY <3>1, <3>2, <3>3 DEF Orphans, Added, NoEvent
    <3>5. \A x \in Keys \ {k} : x \in Orphans' => x \in Orphans
      BY <3>1, <3>2 DEF Orphans
    <3> QED
      BY <3>4, <3>5 DEF Orphans
  <2> QED
    BY <2>2, <2>3, <2>4, <2>5 DEF ReflectorNext, ReflectorStep, ListAndSync
<1> QED
  BY <1>1, SpecReflector, PTL DEF ReflectorSpec, OnlyRelistsOrphan

\* The reflector is the feed that the controller's model takes it for: whatever
\* the API server's history, the lists that lag, the watches that break and the
\* panics, a step of the reflector and its consumer leaves the feed alone or is
\* one change of the view, a list of some cluster, or a Pop.
THEOREM ReflectorFeeds == ReflectorSpec => ImplementsFeed
<1>1. Init => F!FeedInit
  BY DEF Init, F!FeedInit, NewEventQueue, F!NewEventQueue, NoEvent, F!NoEvent, View, Nothing
<1>2. ASSUME NEW k, NEW v, NEW type, handleEvent(k, v, type)
      PROVE  F!handleEvent(k, v, type)
  BY <1>2 DEF handleEvent, F!handleEvent, watchEventEffect, F!watchEventEffect,
     Compressed, F!Compressed, updateStore, F!updateStore, effectAdd, F!effectAdd,
     effectCompress, F!effectCompress, effectDelete, F!effectDelete,
     watchEventCompression, F!watchEventCompression, queueWithout, F!queueWithout,
     Broadcast, F!Broadcast, NoEvent, F!NoEvent, Added, F!Added, Modified, F!Modified,
     Deleted, F!Deleted
<1>3. ReflectorInv /\ [ReflectorNext]_vars => [F!FeedNext]_<<F!eqVars, View>>
  <2> SUFFICES ASSUME ReflectorInv, [ReflectorNext]_vars
               PROVE  [F!FeedNext]_<<F!eqVars, View>>
    OBVIOUS
  <2>0. ReflectorTypeOK
    BY DEF ReflectorInv
  <2>1. CASE \E k \in Keys, v \in States \cup {NoState} : ServerChange(k, v)
    <3>1. PICK k \in Keys, v \in States \cup {NoState} : ServerChange(k, v)
      BY <2>1
    <3>2. /\ UNCHANGED <<eqVars, resourceVersion>>
          /\ history' = Append(history, [Now EXCEPT ![k] = v])
      BY <3>1 DEF ServerChange
    <3>3. history \in Seq(Cluster) /\ [Now EXCEPT ![k] = v] \in Cluster
      BY <2>0, HistoryFacts DEF ReflectorTypeOK, Cluster
    <3>4. \A i \in 1..Len(history) : history'[i] = history[i]
      BY <3>2, <3>3
    <3>5. View' = View
      BY <2>0, <3>2, <3>4 DEF View, ReflectorTypeOK
    <3> QED
      BY <3>2, <3>5 DEF eqVars, F!eqVars
  <2>2. CASE WatchPanic \/ WatchEnds \/ UNCHANGED vars
    BY <2>2 DEF WatchPanic, WatchEnds, vars, refVars, eqVars, F!eqVars, View
  <2>3. ASSUME NEW version \in 1..Len(history), NEW keys \in Listings, ListAndSync(version, keys)
        PROVE  F!FeedNext
    <3> DEFINE c == history[version]
    <3>1. /\ KeysOf(keys) = {k \in Keys : c[k] # NoState}
          /\ Replace(keys, c)
          /\ resourceVersion' = version /\ history' = history
      BY <2>3 DEF ListAndSync, Orderings
    <3>2. c \in Cluster /\ View' = c
      BY <2>0, <3>1, HistoryFacts DEF View
    <3> HIDE DEF c
    <3>3. /\ F!KeysOf(keys) = KeysOf(keys)
          /\ keys \in F!Listings
      BY DEF KeysOf, F!KeysOf, Listings, F!Listings, Cardinality, F!Cardinality
    <3>4. F!Replace(keys, c)
      BY <3>1, <3>3 DEF Replace, F!Replace, NoEvent, F!NoEvent, Modified, F!Modified,
         Broadcast, F!Broadcast
    <3>5. F!Relist(keys, c)
      BY <3>1, <3>2, <3>3, <3>4 DEF F!Relist
    <3> QED
      BY <3>2, <3>3, <3>5 DEF F!FeedNext, Cluster
  <2>4. CASE WatchEvent
    <3>1. /\ Watching /\ handleEvent(NextKey, NextState, NextType)
          /\ resourceVersion' = resourceVersion + 1 /\ history' = history
      BY <2>4 DEF WatchEvent
    <3> DEFINE k == NextKey
               v == NextState
    <3>2. /\ k \in Keys /\ v \in States \cup {NoState} /\ v # View[k]
          /\ NextType = F!TypeOf(View[k], v)
          /\ history[resourceVersion + 1] = [View EXCEPT ![k] = v]
      BY <3>1, WatchFacts DEF NextType, F!TypeOf, Added, F!Added, Modified, F!Modified,
         Deleted, F!Deleted
    <3>3. View' = [View EXCEPT ![k] = v]
      BY <2>0, <3>1, <3>2 DEF View, ReflectorTypeOK
    <3> HIDE DEF k, v
    <3>4. F!handleEvent(k, v, F!TypeOf(View[k], v))
      BY <1>2, <3>1, <3>2 DEF k, v
    <3>5. F!Watch(k, v)
      BY <3>2, <3>3, <3>4 DEF F!Watch
    <3> QED
      BY <3>2, <3>5 DEF F!FeedNext
  <2>5. CASE PopEvent \/ (PopWait /\ UNCHANGED refVars)
    <3>1. View' = View /\ (Pop \/ PopWait)
      BY <2>5 DEF PopEvent, refVars, View
    <3>2. F!Pop \/ F!PopWait
      BY <3>1 DEF Pop, F!Pop, PopWait, F!PopWait, NoEvent, F!NoEvent, Deleted, F!Deleted
    <3> QED
      BY <3>1, <3>2 DEF F!FeedNext
  <2> QED
    BY <2>1, <2>2, <2>3, <2>4, <2>5 DEF ReflectorNext, ReflectorStep
<1> QED
  BY <1>1, <1>3, SpecReflector, PTL DEF ReflectorSpec, ImplementsFeed, F!FeedSpec
=============================================================================
