-------------------------- MODULE EventQueueProofs --------------------------
(***************************************************************************)
(* EventQueue for every set of keys and states: the queue and the event map *)
(* agree, no wake-up is lost, ListConsumed is exact and order is kept.      *)
(***************************************************************************)
EXTENDS EventQueue, FiniteSetTheorems, NaturalsInduction, WellFoundedInduction, TLAPS

\* Why ListConsumed is exact: lastReplaceKey is the last of the unread keys,
\* these are the first keys of the queue, and none of them is "ADDED", the
\* one event type whose deletion would take a key out of the queue's middle.
ReplaceKeyMarksUnread ==
    \/ lastReplaceKey = NoKey /\ unread = {}
    \/ \E n \in 1..Len(queue) :
          /\ queue[n] = lastReplaceKey
          /\ unread = {queue[i] : i \in 1..n}
          /\ \A i \in 1..n : events[queue[i]] # Added

IInv ==
    /\ TypeOK
    /\ QueueMatchesEvents
    /\ NoLostWakeup
    /\ ReplaceKeyMarksUnread
-----------------------------------------------------------------------------
\* The induction that loops need: a nonempty set of naturals has a least element.
LEMMA LeastElement ==
    ASSUME NEW T, T \subseteq Nat, T # {}
    PROVE  \E n \in T : \A m \in T : n <= m
<1>1. IsWellFoundedOn(OpToRel(<, Nat), Nat)
  BY NatLessThanWellFounded
<1>2. PICK n \in T : \A m \in T : ~(<<m, n>> \in OpToRel(<, Nat))
  BY <1>1, WFMin, Zenon
<1>3. \A m \in T : ~(m < n)
  BY <1>2 DEF OpToRel
<1> QED
  BY <1>3


\* A sequence that obeys the loop's recurrence is what the loop computes.
LEMMA LoopIsUnique ==
    ASSUME NEW k \in Keys, queue \in Seq(Keys),
           NEW w \in [0..Len(queue) -> Seq(Keys)],
           w[0] = <<>>,
           \A i \in 1..Len(queue) :
               w[i] = IF queue[i] = k THEN w[i - 1] ELSE Append(w[i - 1], queue[i])
    PROVE  queueWithout(k) = w[Len(queue)]
<1> DEFINE step(f) == [i \in 0..Len(queue) |->
                IF i = 0 THEN <<>>
                ELSE IF queue[i] = k THEN f[i - 1] ELSE Append(f[i - 1], queue[i])]
           rq == CHOOSE f : f = step(f)
           wrong == {i \in 0..Len(queue) : rq[i] # w[i]}
<1>1. queueWithout(k) = rq[Len(queue)]
  BY DEF queueWithout
<1>2. w = step(w)
  <2>1. \A i \in 0..Len(queue) : w[i] = step(w)[i]
    <3> SUFFICES ASSUME NEW i \in 0..Len(queue) PROVE w[i] = step(w)[i]
      OBVIOUS
    <3>1. i = 0 \/ i \in 1..Len(queue)
      OBVIOUS
    <3> QED
      BY <3>1
  <2> QED
    BY <2>1
<1>3. rq = step(rq)
  BY <1>2
<1> HIDE DEF rq
<1>4. wrong = {}
  <2> SUFFICES ASSUME wrong # {} PROVE FALSE
    OBVIOUS
  <2>1. wrong \subseteq Nat
    OBVIOUS
  <2>2. PICK n \in wrong : \A m \in wrong : n <= m
    <3> HIDE DEF wrong
    <3> QED
      BY <2>1, LeastElement
  <2>3. n \in 0..Len(queue) /\ rq[n] # w[n]
    OBVIOUS
  <2>4. n # 0
    BY <1>3, <2>3
  <2>5. n - 1 \in 0..Len(queue) /\ rq[n - 1] = w[n - 1]
    BY <2>2, <2>3, <2>4
  <2>6. n \in 1..Len(queue)
    BY <2>3, <2>4
  <2>7. rq[n] = IF queue[n] = k THEN rq[n - 1] ELSE Append(rq[n - 1], queue[n])
    BY <1>3, <2>4, <2>6
  <2> QED
    BY <2>3, <2>5, <2>6, <2>7
<1> QED
  BY <1>1, <1>4

\* With the key at position p, or nowhere when p is behind the queue, the
\* loop copies the keys before p and moves the ones behind it up by one.
LEMMA LoopSkipsOne ==
    ASSUME queue \in Seq(Keys), NEW k \in Keys, NEW p \in 1..(Len(queue) + 1),
           \A i \in 1..Len(queue) : queue[i] = k <=> i = p
    PROVE  queueWithout(k) =
             [j \in 1..(IF Len(queue) < p THEN Len(queue) ELSE Len(queue) - 1) |->
                 IF j < p THEN queue[j] ELSE queue[j + 1]]
<1> DEFINE n == Len(queue)
           size(i) == IF i < p THEN i ELSE i - 1
           key(j) == IF j < p THEN queue[j] ELSE queue[j + 1]
           w == [i \in 0..n |-> [j \in 1..size(i) |-> key(j)]]
<1>1. n \in Nat /\ \A i \in 1..n : queue[i] \in Keys
  OBVIOUS
<1>2. ASSUME NEW i \in 0..n
      PROVE  /\ size(i) \in 0..n
             /\ \A j \in 1..size(i) : key(j) \in Keys
             /\ w[i] \in Seq(Keys) /\ Len(w[i]) = size(i)
             /\ \A j \in 1..size(i) : w[i][j] = key(j)
  <2>1. size(i) \in 0..n /\ \A j \in 1..size(i) : key(j) \in Keys
    BY <1>1
  <2>2. w[i] = [j \in 1..size(i) |-> key(j)]
    OBVIOUS
  <2> HIDE DEF w, size, key
  <2>3. w[i] \in [1..size(i) -> Keys] /\ size(i) \in Nat
    BY <1>1, <2>1, <2>2
  <2> QED
    BY <2>1, <2>2, <2>3
<1>3. w \in [0..n -> Seq(Keys)]
  BY <1>2
<1>4. w[0] = <<>>
  BY <1>1
<1>5. ASSUME NEW i \in 1..n
      PROVE  w[i] = IF queue[i] = k THEN w[i - 1] ELSE Append(w[i - 1], queue[i])
  <2>1. i \in 0..n /\ i - 1 \in 0..n
    BY <1>1
  <2>2. CASE i = p
    <3>1. size(i) = size(i - 1)
      BY <1>1, <2>2
    <3> HIDE DEF size, key
    <3>2. w[i] = w[i - 1]
      BY <2>1, <3>1
    <3> QED
      BY <2>2, <3>2
  <2>3. CASE i # p
    <3>1. size(i) = size(i - 1) + 1 /\ key(size(i)) = queue[i] /\ size(i - 1) \in Nat
      BY <1>1, <2>3
    <3> HIDE DEF w, size, key
    <3>2. /\ w[i - 1] \in Seq(Keys) /\ Len(w[i - 1]) = size(i - 1)
          /\ \A j \in 1..size(i - 1) : w[i - 1][j] = key(j)
      BY <1>2, <2>1
    <3>3. /\ w[i] \in Seq(Keys) /\ Len(w[i]) = size(i)
          /\ \A j \in 1..size(i) : w[i][j] = key(j)
      BY <1>2, <2>1
    <3>4. w[i] = Append(w[i - 1], queue[i])
      BY <1>1, <3>1, <3>2, <3>3
    <3> QED
      BY <2>3, <3>4
  <2> QED
    BY <2>2, <2>3
<1>6. n \in 0..n /\ w[n] = [j \in 1..size(n) |-> key(j)]
  BY <1>1
<1> HIDE DEF w
<1>7. queueWithout(k) = w[n]
  BY <1>3, <1>4, <1>5, LoopIsUnique
<1>8. size(n) = IF Len(queue) < p THEN Len(queue) ELSE Len(queue) - 1
  BY <1>1
<1> HIDE DEF size
<1> QED
  BY <1>6, <1>7, <1>8

\* On a queue that holds a key at most once, queueWithout takes one place out.
LEMMA WithoutTakesOneOut ==
    ASSUME queue \in Seq(Keys),
           \A i, j \in 1..Len(queue) : queue[i] = queue[j] => i = j
    PROVE  QueueWithoutTakesOneOut
<1>1. Len(queue) \in Nat
  OBVIOUS
<1>2. ASSUME NEW p \in 1..Len(queue)
      PROVE  queueWithout(queue[p]) = [i \in 1..(Len(queue) - 1) |->
                                          IF i < p THEN queue[i] ELSE queue[i + 1]]
  <2>1. /\ queue[p] \in Keys
        /\ \A i \in 1..Len(queue) : queue[i] = queue[p] <=> i = p
        /\ p \in 1..(Len(queue) + 1) /\ ~(Len(queue) < p)
    BY <1>1
  <2> QED
    BY <2>1, LoopSkipsOne
<1>3. ASSUME NEW k \in Keys \ KeysOf(queue)
      PROVE  queueWithout(k) = queue
  <2> DEFINE p == Len(queue) + 1
             q == [j \in 1..Len(queue) |-> IF j < p THEN queue[j] ELSE queue[j + 1]]
  <2>1. p \in 1..(Len(queue) + 1) /\ Len(queue) < p
    BY <1>1
  <2>2. \A i \in 1..Len(queue) : queue[i] = k <=> i = p
    BY <1>1, <1>3 DEF KeysOf
  <2>3. q = queue
    BY <1>1
  <2> HIDE DEF p
  <2>4. queueWithout(k) = q
    BY <2>1, <2>2, LoopSkipsOne
  <2> QED
    BY <2>3, <2>4
<1> QED
  BY <1>2, <1>3 DEF QueueWithoutTakesOneOut

\* What queueWithout leaves of a queue that holds the key once.
LEMMA QueueWithoutFacts ==
    ASSUME queue \in Seq(Keys),
           \A i, j \in 1..Len(queue) : queue[i] = queue[j] => i = j,
           NEW p \in 1..Len(queue)
    PROVE  /\ queueWithout(queue[p]) \in Seq(Keys)
           /\ Len(queueWithout(queue[p])) = Len(queue) - 1
           /\ \A i \in 1..(Len(queue) - 1) :
                queueWithout(queue[p])[i] = IF i < p THEN queue[i] ELSE queue[i + 1]
<1> DEFINE q == [i \in 1..(Len(queue) - 1) |-> IF i < p THEN queue[i] ELSE queue[i + 1]]
<1>1. Len(queue) \in Nat \ {0}
  OBVIOUS
<1>2. queueWithout(queue[p]) = q
  BY WithoutTakesOneOut DEF QueueWithoutTakesOneOut
<1>3. q \in [1..(Len(queue) - 1) -> Keys]
  BY <1>1
<1>4. q \in Seq(Keys) /\ Len(q) = Len(queue) - 1
  BY <1>1, <1>3
<1> QED
  BY <1>2, <1>4

\* A listing is a duplicate-free sequence of keys.
LEMMA ListingFacts ==
    ASSUME NEW keys \in Listings
    PROVE  /\ keys \in Seq(Keys)
           /\ \A i, j \in 1..Len(keys) : keys[i] = keys[j] => i = j
<1>1. PICK n \in 0..Cardinality(Keys) : keys \in [1..n -> Keys]
  BY DEF Listings
<1>2. n \in Nat
  BY <1>1, FS_CardinalityType, QueueAssumption
<1>3. keys \in Seq(Keys)
  BY <1>1, <1>2
<1> QED
  BY <1>3 DEF Listings

LEMMA InitIInv == NewEventQueue => IInv
  BY QueueAssumption DEF NewEventQueue, IInv, TypeOK, QueueMatchesEvents, NoLostWakeup,
     ReplaceKeyMarksUnread, KeysOf, EventTypes, NoEvent

-----------------------------------------------------------------------------
\* handleEvent, effect ADD: a key without an event goes to the end.
LEMMA AddEffect ==
    ASSUME IInv, NEW k \in Keys, NEW v \in States \cup {NoState}, NEW type \in EventTypes,
           events[k] = NoEvent,
           store' = IF type = Deleted THEN store ELSE [store EXCEPT ![k] = v],
           events' = [events EXCEPT ![k] = type],
           queue' = Append(queue, k),
           Broadcast,
           unread' = unread, lastReplaceKey' = lastReplaceKey
    PROVE  IInv'
<1> USE DEF IInv, TypeOK, QueueMatchesEvents
<1>1. TypeOK'
  BY DEF Broadcast
<1>2. /\ Len(queue') = Len(queue) + 1
      /\ \A i \in 1..Len(queue) : queue'[i] = queue[i]
      /\ queue'[Len(queue) + 1] = k
  OBVIOUS
<1>3. \A i \in 1..Len(queue) : queue[i] # k
  BY DEF KeysOf
<1>4. \A i, j \in 1..Len(queue') : queue'[i] = queue'[j] => i = j
  BY <1>2, <1>3
<1>5. \A x \in Keys : events'[x] # NoEvent <=> x \in KeysOf(queue')
  BY <1>2 DEF KeysOf, EventTypes, NoEvent, Added, Modified, Deleted
<1>6. NoLostWakeup'
  BY DEF Broadcast, NoLostWakeup
<1>7. ReplaceKeyMarksUnread'
  <2>1. CASE lastReplaceKey = NoKey /\ unread = {}
    BY <2>1 DEF ReplaceKeyMarksUnread
  <2>2. ASSUME NEW n \in 1..Len(queue),
               queue[n] = lastReplaceKey,
               unread = {queue[i] : i \in 1..n},
               \A i \in 1..n : events[queue[i]] # Added
        PROVE  ReplaceKeyMarksUnread'
    <3>1. n \in 1..Len(queue') /\ queue'[n] = lastReplaceKey'
      BY <1>2, <2>2
    <3>2. \A i \in 1..n : queue'[i] = queue[i]
      BY <1>2, <2>2
    <3>3. unread' = {queue'[i] : i \in 1..n}
      BY <3>2, <2>2
    <3>4. \A i \in 1..n : events'[queue'[i]] # Added
      BY <3>2, <2>2, <1>3
    <3> QED
      BY <3>1, <3>3, <3>4 DEF ReplaceKeyMarksUnread
  <2> QED
    BY <2>1, <2>2 DEF ReplaceKeyMarksUnread
<1> QED
  BY <1>1, <1>4, <1>5, <1>6, <1>7

\* handleEvent, effect COMPRESS: the event type changes, the place does not.
LEMMA CompressEffect ==
    ASSUME IInv, NEW k \in Keys, NEW v \in States \cup {NoState}, NEW type \in EventTypes,
           events[k] \in {Added, Modified}, type \in {Modified, Deleted},
           store' = IF type = Deleted THEN store ELSE [store EXCEPT ![k] = v],
           events' = [events EXCEPT ![k] = IF events[k] = Added THEN Added ELSE type],
           queue' = queue, popper' = popper,
           unread' = unread, lastReplaceKey' = lastReplaceKey
    PROVE  IInv'
<1> USE DEF IInv, TypeOK, QueueMatchesEvents
<1>1. TypeOK'
  BY DEF EventTypes
<1>2. \A x \in Keys : /\ events'[x] # NoEvent <=> events[x] # NoEvent
                      /\ events'[x] = Added => events[x] = Added
  BY DEF EventTypes, NoEvent, Added, Modified, Deleted
<1>3. QueueMatchesEvents'
  BY <1>2 DEF KeysOf
<1>4. NoLostWakeup'
  BY DEF NoLostWakeup
<1>5. ReplaceKeyMarksUnread'
  BY <1>2 DEF ReplaceKeyMarksUnread
<1> QED
  BY <1>1, <1>3, <1>4, <1>5

\* handleEvent, effect DELETE: an "ADDED" key leaves the queue.
LEMMA DeleteEffect ==
    ASSUME IInv, NEW k \in Keys,
           events[k] = Added,
           store' = store,
           events' = [events EXCEPT ![k] = NoEvent],
           queue' = queueWithout(k),
           popper' = popper,
           unread' = unread \ {k}, lastReplaceKey' = lastReplaceKey
    PROVE  IInv'
<1> USE DEF IInv, TypeOK, QueueMatchesEvents
<1>1. PICK p \in 1..Len(queue) : queue[p] = k
  BY DEF KeysOf, NoEvent, Added
<1>2. /\ queue' \in Seq(Keys)
      /\ Len(queue') = Len(queue) - 1
      /\ \A i \in 1..(Len(queue) - 1) :
            queue'[i] = IF i < p THEN queue[i] ELSE queue[i + 1]
  BY <1>1, QueueWithoutFacts
<1>3. TypeOK'
  BY <1>2
<1>4. \A i, j \in 1..Len(queue') : queue'[i] = queue'[j] => i = j
  BY <1>2
<1>5. \A x \in Keys : events'[x] # NoEvent <=> x \in KeysOf(queue')
  <2> TAKE x \in Keys
  <2>1. CASE x = k
    <3>1. events'[x] = NoEvent
      BY <2>1
    <3>2. \A i \in 1..Len(queue') : queue'[i] # x
      BY <1>1, <1>2, <2>1
    <3> QED
      BY <3>1, <3>2 DEF KeysOf
  <2>2. CASE x # k
    <3>1. events'[x] = events[x]
      BY <2>2
    <3>2. ASSUME NEW i \in 1..Len(queue), queue[i] = x
          PROVE  \E j \in 1..Len(queue') : queue'[j] = x
      <4>1. CASE i < p
        BY <4>1, <1>2, <3>2
      <4>2. CASE i > p
        <5>1. i - 1 \in 1..Len(queue') /\ ~(i - 1 < p) /\ (i - 1) + 1 = i
          BY <4>2, <1>2
        <5>2. queue'[i - 1] = queue[(i - 1) + 1]
          BY <5>1, <1>2
        <5> QED
          BY <5>1, <5>2, <3>2
      <4> QED
        BY <4>1, <4>2, <1>1, <2>2, <3>2
    <3>3. ASSUME NEW j \in 1..Len(queue'), queue'[j] = x
          PROVE  \E i \in 1..Len(queue) : queue[i] = x
      BY <1>2, <3>3
    <3> QED
      BY <3>1, <3>2, <3>3 DEF KeysOf
  <2> QED
    BY <2>1, <2>2
<1>6. NoLostWakeup'
  BY <1>1 DEF NoLostWakeup
<1>7. ReplaceKeyMarksUnread'
  <2>1. CASE lastReplaceKey = NoKey /\ unread = {}
    BY <2>1 DEF ReplaceKeyMarksUnread
  <2>2. ASSUME NEW n \in 1..Len(queue),
               queue[n] = lastReplaceKey,
               unread = {queue[i] : i \in 1..n},
               \A i \in 1..n : events[queue[i]] # Added
        PROVE  ReplaceKeyMarksUnread'
    <3>1. n < p
      BY <1>1, <2>2
    <3>2. n \in 1..Len(queue') /\ \A i \in 1..n : queue'[i] = queue[i]
      BY <1>2, <3>1
    <3>3. unread' = {queue'[i] : i \in 1..n}
      <4>1. k \notin unread
        BY <2>2
      <4> QED
        BY <4>1, <2>2, <3>2
    <3>4. \A i \in 1..n : events'[queue'[i]] # Added
      BY <3>2, <2>2 DEF Added, NoEvent
    <3>5. queue'[n] = lastReplaceKey'
      BY <3>2, <2>2
    <3> QED
      BY <3>2, <3>3, <3>4, <3>5 DEF ReplaceKeyMarksUnread
  <2> QED
    BY <2>1, <2>2 DEF ReplaceKeyMarksUnread
<1> QED
  BY <1>3, <1>4, <1>5, <1>6, <1>7

LEMMA HandleEventIInv ==
    ASSUME IInv, NEW k \in Keys, NEW v \in States \cup {NoState}, NEW type \in EventTypes,
           handleEvent(k, v, type)
    PROVE  IInv'
<1> DEFINE effect == watchEventEffect(events[k], type)
<1> USE DEF handleEvent, effectAdd, effectCompress, effectDelete, updateStore, watchEventEffect, watchEventCompression, Compressed,
            EventTypes, Added, Modified, Deleted, NoEvent
<1>0. events[k] \in EventTypes \cup {NoEvent}
  BY DEF IInv, TypeOK
<1>1. CASE effect = "ADD"
  <2>1. events[k] = NoEvent
    BY <1>0, <1>1
  <2> QED
    BY <1>1, <2>1, AddEffect
<1>2. CASE effect = "COMPRESS"
  <2>1. events[k] \in {Added, Modified} /\ type \in {Modified, Deleted}
    BY <1>0, <1>2
  <2> QED
    BY <1>2, <2>1, CompressEffect
<1>3. CASE effect = "DELETE"
  <2>1. events[k] = Added /\ type = Deleted
    BY <1>0, <1>3
  <2> QED
    BY <1>3, <2>1, DeleteEffect
<1> QED
  BY <1>0, <1>1, <1>2, <1>3

\* Pop takes the first key; if that is the last unread one, the list is
\* consumed.
LEMMA PopIInv ==
    ASSUME IInv, Pop
    PROVE  IInv'
<1> USE DEF IInv, TypeOK, QueueMatchesEvents
<1> DEFINE key == Head(queue)
<1>1. /\ Len(queue) \in Nat \ {0}
      /\ key = queue[1] /\ key \in Keys
      /\ queue' = Tail(queue) /\ queue' \in Seq(Keys)
      /\ Len(queue') = Len(queue) - 1
      /\ \A i \in 1..Len(queue') : queue'[i] = queue[i + 1]
      /\ events' = [events EXCEPT ![key] = NoEvent]
      /\ unread' = unread \ {key}
      /\ popper' = "calling"
      /\ lastReplaceKey' = IF lastReplaceKey = key THEN NoKey ELSE lastReplaceKey
  BY DEF Pop
<1>2. store' \in [Keys -> States \cup {NoState}]
  BY <1>1 DEF Pop
<1>3. TypeOK'
  BY <1>1, <1>2
<1>4. \A i, j \in 1..Len(queue') : queue'[i] = queue'[j] => i = j
  BY <1>1
<1>5. \A x \in Keys : events'[x] # NoEvent <=> x \in KeysOf(queue')
  <2> TAKE x \in Keys
  <2>1. ASSUME NEW i \in 1..Len(queue), queue[i] = x, x # key
        PROVE  \E j \in 1..Len(queue') : queue'[j] = x
    <3>1. i # 1 /\ i - 1 \in 1..Len(queue') /\ (i - 1) + 1 = i
      BY <1>1, <2>1
    <3>2. queue'[i - 1] = queue[(i - 1) + 1]
      BY <1>1, <3>1
    <3> QED
      BY <2>1, <3>1, <3>2
  <2>2. \A j \in 1..Len(queue') : queue'[j] # key /\ j + 1 \in 1..Len(queue)
    BY <1>1
  <2>3. CASE x = key
    BY <1>1, <2>2, <2>3 DEF KeysOf
  <2>4. CASE x # key
    BY <1>1, <2>1, <2>2, <2>4 DEF KeysOf
  <2> QED
    BY <2>3, <2>4
<1>6. NoLostWakeup'
  BY <1>1 DEF NoLostWakeup
<1>7. ReplaceKeyMarksUnread'
  <2>1. CASE lastReplaceKey = NoKey /\ unread = {}
    BY <1>1, <2>1 DEF ReplaceKeyMarksUnread
  <2>2. ASSUME NEW n \in 1..Len(queue),
               queue[n] = lastReplaceKey,
               unread = {queue[i] : i \in 1..n},
               \A i \in 1..n : events[queue[i]] # Added
        PROVE  ReplaceKeyMarksUnread'
    <3>1. CASE n = 1
      <4>1. lastReplaceKey' = NoKey
        BY <1>1, <2>2, <3>1
      <4>2. unread' = {}
        BY <1>1, <2>2, <3>1
      <4> QED
        BY <4>1, <4>2 DEF ReplaceKeyMarksUnread
    <3>2. CASE n > 1
      <4> DEFINE m == n - 1
      <4>1. m \in 1..Len(queue') /\ m + 1 = n
        BY <1>1, <2>2, <3>2
      <4>2. lastReplaceKey' = lastReplaceKey
        BY <1>1, <2>2, <3>2
      <4>3. queue'[m] = lastReplaceKey'
        BY <1>1, <2>2, <4>1, <4>2
      <4>4. unread' = {queue'[i] : i \in 1..m}
        <5>1. ASSUME NEW x \in unread' PROVE x \in {queue'[i] : i \in 1..m}
          <6>1. PICK i \in 1..n : queue[i] = x /\ i # 1
            BY <1>1, <2>2
          <6>2. i - 1 \in 1..m /\ i - 1 \in 1..Len(queue') /\ (i - 1) + 1 = i
            BY <4>1, <6>1
          <6>3. queue'[i - 1] = queue[(i - 1) + 1]
            BY <1>1, <6>2
          <6> QED
            BY <6>1, <6>2, <6>3
        <5>2. ASSUME NEW i \in 1..m PROVE queue'[i] \in unread'
          <6>1. i + 1 \in 1..n /\ i \in 1..Len(queue') /\ i + 1 \in 1..Len(queue) /\ i + 1 # 1
            BY <4>1
          <6>2. queue'[i] = queue[i + 1] /\ queue[i + 1] # queue[1]
            BY <1>1, <6>1
          <6> QED
            BY <1>1, <2>2, <6>1, <6>2
        <5> QED
          BY <5>1, <5>2
      <4>5. \A i \in 1..m : events'[queue'[i]] # Added
        BY <1>1, <2>2, <4>1 DEF Added, NoEvent
      <4> QED
        BY <4>1, <4>3, <4>4, <4>5 DEF ReplaceKeyMarksUnread
    <3> QED
      BY <3>1, <3>2
  <2> QED
    BY <2>1, <2>2 DEF ReplaceKeyMarksUnread
<1> QED
  BY <1>3, <1>4, <1>5, <1>6, <1>7

\* Replace starts from a fresh queue in which every key is unread.
LEMMA ReplaceIInv ==
    ASSUME IInv, NEW keys \in Listings, NEW state,
           \A k \in KeysOf(keys) : state[k] \in States \cup {NoState},
           Replace(keys, state)
    PROVE  IInv'
<1> USE ListingFacts DEF Replace, KeysOf
<1>1. keys \in Seq(Keys) /\ Len(keys) \in Nat
  OBVIOUS
<1>2. TypeOK'
  BY <1>1 DEF IInv, TypeOK, Broadcast, EventTypes
<1>3. QueueMatchesEvents'
  BY <1>1 DEF QueueMatchesEvents, NoEvent, Modified
<1>4. NoLostWakeup'
  BY DEF IInv, NoLostWakeup, TypeOK, Broadcast
<1>5. ReplaceKeyMarksUnread'
  <2>1. CASE keys = <<>>
    BY <1>1, <2>1 DEF ReplaceKeyMarksUnread
  <2>2. CASE keys # <<>>
    <3>1. Len(keys) \in 1..Len(keys) /\ lastReplaceKey' = keys[Len(keys)]
      BY <1>1, <2>2
    <3>2. \A i \in 1..Len(keys) : events'[keys[i]] # Added
      BY <1>1 DEF Added, Modified
    <3>3. queue' = keys /\ unread' = {keys[i] : i \in 1..Len(keys)}
      OBVIOUS
    <3> HIDE DEF Replace, KeysOf
    <3>4. LET n == Len(queue') IN
          /\ n \in 1..Len(queue')
          /\ queue'[n] = lastReplaceKey'
          /\ unread' = {queue'[i] : i \in 1..n}
          /\ \A i \in 1..n : events'[queue'[i]] # Added
      BY <3>1, <3>2, <3>3
    <3> QED
      BY <3>4 DEF ReplaceKeyMarksUnread
  <2> QED
    BY <2>1, <2>2
<1> QED
  BY <1>2, <1>3, <1>4, <1>5 DEF IInv

\* Cancel and waiting touch the consumer only.
LEMMA CancelIInv ==
    ASSUME IInv, Cancel \/ PopWait \/ UNCHANGED eqVars
    PROVE  IInv'
<1> USE DEF IInv, TypeOK, QueueMatchesEvents, NoLostWakeup, ReplaceKeyMarksUnread, KeysOf
<1>1. CASE Cancel
  BY <1>1 DEF Cancel, Broadcast
<1>2. CASE PopWait
  BY <1>2 DEF PopWait
<1>3. CASE UNCHANGED eqVars
  BY <1>3 DEF eqVars
<1> QED
  BY <1>1, <1>2, <1>3

LEMMA NextIInv == IInv /\ [Next]_eqVars => IInv'
<1> SUFFICES ASSUME IInv, [Next]_eqVars PROVE IInv'
  OBVIOUS
<1>1. ASSUME NEW k \in Keys, NEW v \in States, Add(k, v) \/ Update(k, v) PROVE IInv'
  BY <1>1, HandleEventIInv DEF Add, Update, EventTypes
<1>2. ASSUME NEW k \in Keys, Delete(k) PROVE IInv'
  BY <1>2, HandleEventIInv DEF Delete, EventTypes
<1>3. ASSUME NEW keys \in Listings, NEW state \in [Keys -> States], Replace(keys, state)
      PROVE  IInv'
  <2>1. \A k \in KeysOf(keys) : state[k] \in States
    BY ListingFacts DEF KeysOf
  <2> QED
    BY <1>3, <2>1, ReplaceIInv
<1>4. CASE Cancel \/ PopWait \/ UNCHANGED eqVars
  BY <1>4, CancelIInv
<1>5. CASE Pop
  BY <1>5, PopIInv
<1> QED
  BY <1>1, <1>2, <1>3, <1>4, <1>5 DEF Next

LEMMA SpecIInv == Spec => []IInv
  BY InitIInv, NextIInv, PTL DEF Spec
-----------------------------------------------------------------------------
\* Every variable keeps its type.
THEOREM TypeCorrect == Spec => []TypeOK
  BY SpecIInv, PTL DEF IInv

\* The queue slice and the event map that handleEvent, Pop and Replace keep
\* side by side always describe the same pending events, each key once.
THEOREM QueueIsConsistent == Spec => []QueueMatchesEvents
  BY SpecIInv, PTL DEF IInv

\* The consumer is never left in cond.Wait with an event queued.
THEOREM NoWakeupIsLost == Spec => []NoLostWakeup
  BY SpecIInv, PTL DEF IInv

\* ListConsumed is true exactly when every object of the last Replace has
\* been popped or dropped.
THEOREM ListConsumedCorrect == Spec => []ListConsumedIsExact
<1>1. IInv => ListConsumedIsExact
  <2> SUFFICES ASSUME IInv PROVE lastReplaceKey = NoKey <=> unread = {}
    BY DEF ListConsumedIsExact, ListConsumed
  <2>1. ASSUME NEW n \in 1..Len(queue),
               queue[n] = lastReplaceKey,
               unread = {queue[i] : i \in 1..n}
        PROVE  lastReplaceKey # NoKey /\ unread # {}
    <3>1. queue[n] \in Keys
      BY DEF IInv, TypeOK
    <3>2. n \in 1..n
      OBVIOUS
    <3>3. queue[n] \in unread
      BY <2>1, <3>2
    <3> QED
      BY <2>1, <3>1, <3>3, QueueAssumption
  <2> QED
    BY <2>1 DEF IInv, ReplaceKeyMarksUnread
<1> QED
  BY <1>1, SpecIInv, PTL

\* In every state the loop of queueWithout takes exactly one place out of the
\* queue, so removing a key disturbs no other.
THEOREM QueueWithoutIsExact == Spec => []QueueWithoutTakesOneOut
<1>1. IInv => QueueWithoutTakesOneOut
  BY WithoutTakesOneOut DEF IInv, TypeOK, QueueMatchesEvents
<1> QED
  BY <1>1, SpecIInv, PTL

\* queueWithout keeps the other keys in order.
LEMMA QueueWithoutKeepsOrder ==
    ASSUME TypeOK, QueueMatchesEvents, NEW p \in 1..Len(queue), queue' = queueWithout(queue[p]),
           NEW a \in KeysOf(queue'), NEW b \in KeysOf(queue'), Before(queue, a, b)
    PROVE  Before(queue', a, b)
<1>1. queue \in Seq(Keys) /\ \A i, j \in 1..Len(queue) : queue[i] = queue[j] => i = j
  BY DEF TypeOK, QueueMatchesEvents
<1>2. /\ Len(queue') = Len(queue) - 1
      /\ \A i \in 1..(Len(queue) - 1) :
            queue'[i] = IF i < p THEN queue[i] ELSE queue[i + 1]
  BY <1>1, QueueWithoutFacts
<1>3. Len(queue) \in Nat
  BY <1>1
<1>4. \A i \in 1..Len(queue') : queue'[i] # queue[p]
  BY <1>1, <1>2, <1>3
<1>5. PICK i \in 1..Len(queue), j \in 1..Len(queue) : i < j /\ queue[i] = a /\ queue[j] = b
  BY DEF Before
<1>6. i # p /\ j # p
  BY <1>4, <1>5 DEF KeysOf
<1> DEFINE at(n) == IF n < p THEN n ELSE n - 1
<1>7. \A n \in 1..Len(queue) : n # p => at(n) \in 1..Len(queue') /\ queue'[at(n)] = queue[n]
  <2> SUFFICES ASSUME NEW n \in 1..Len(queue), n # p
               PROVE  at(n) \in 1..Len(queue') /\ queue'[at(n)] = queue[n]
    OBVIOUS
  <2>1. CASE n < p
    BY <1>2, <1>3, <2>1
  <2>2. CASE n > p
    <3>1. n - 1 \in 1..(Len(queue) - 1) /\ ~(n - 1 < p) /\ (n - 1) + 1 = n /\ ~(n < p)
      BY <1>3, <2>2
    <3>2. queue'[n - 1] = queue[(n - 1) + 1]
      BY <1>2, <3>1
    <3> QED
      BY <1>2, <3>1, <3>2
  <2> QED
    BY <2>1, <2>2
<1>8. at(i) < at(j)
  BY <1>5, <1>6
<1>9. /\ at(i) \in 1..Len(queue') /\ queue'[at(i)] = a
      /\ at(j) \in 1..Len(queue') /\ queue'[at(j)] = b
  BY <1>5, <1>6, <1>7
<1> HIDE DEF at
<1> QED
  BY <1>8, <1>9 DEF Before

\* So does Pop, which takes the first.
LEMMA PopKeepsOrder ==
    ASSUME TypeOK, QueueMatchesEvents, Pop,
           NEW a \in KeysOf(queue'), NEW b \in KeysOf(queue'), Before(queue, a, b)
    PROVE  Before(queue', a, b)
<1>1. /\ Len(queue) \in Nat /\ Len(queue) >= 1 /\ Len(queue') = Len(queue) - 1
      /\ \A n \in 1..Len(queue') : queue'[n] = queue[n + 1]
      /\ \A i, j \in 1..Len(queue) : queue[i] = queue[j] => i = j
  BY DEF Pop, TypeOK, QueueMatchesEvents
<1>2. \A n \in 1..Len(queue') : queue'[n] # queue[1]
  BY <1>1
<1>3. PICK i \in 1..Len(queue), j \in 1..Len(queue) : i < j /\ queue[i] = a /\ queue[j] = b
  BY DEF Before
<1>4. i # 1
  BY <1>2, <1>3 DEF KeysOf
<1>5. /\ i - 1 \in 1..Len(queue') /\ j - 1 \in 1..Len(queue') /\ i - 1 < j - 1
      /\ (i - 1) + 1 = i /\ (j - 1) + 1 = j
  BY <1>1, <1>3, <1>4
<1>6. queue'[i - 1] = a /\ queue'[j - 1] = b
  BY <1>1, <1>3, <1>5
<1> QED
  BY <1>5, <1>6 DEF Before

\* handleEvent appends, compresses in place or takes out.
LEMMA HandleEventKeepsOrder ==
    ASSUME TypeOK, QueueMatchesEvents, NEW k \in Keys, NEW v, NEW type, handleEvent(k, v, type),
           NEW a \in KeysOf(queue'), NEW b \in KeysOf(queue'), Before(queue, a, b)
    PROVE  Before(queue', a, b)
<1>1. \/ queue' = Append(queue, k)
      \/ queue' = queue
      \/ events[k] # NoEvent /\ queue' = queueWithout(k)
  BY DEF handleEvent, effectAdd, effectCompress, effectDelete, watchEventEffect
<1>2. CASE queue' = Append(queue, k)
  <2>1. \A i \in 1..Len(queue) : queue'[i] = queue[i] /\ i \in 1..Len(queue')
    BY <1>2 DEF TypeOK
  <2> QED
    BY <2>1 DEF Before
<1>3. CASE queue' = queue
  BY <1>3
<1>4. CASE events[k] # NoEvent /\ queue' = queueWithout(k)
  <2>1. PICK p \in 1..Len(queue) : queue[p] = k
    BY <1>4 DEF QueueMatchesEvents, KeysOf
  <2> QED
    BY <1>4, <2>1, QueueWithoutKeepsOrder
<1> QED
  BY <1>1, <1>2, <1>3, <1>4

\* Outside Replace, two keys that stay queued are popped in the order they
\* came in, whatever is compressed, dropped and popped around them.
THEOREM NoEventOvertakes == Spec => OrderIsKept
<1> DEFINE Ordered == \A a, b \in KeysOf(queue') : Before(queue, a, b) => Before(queue', a, b)
           Replaced == \E keys \in Listings, state \in [Keys -> States] : Replace(keys, state)
<1>1. IInv /\ [Next]_eqVars => [Replaced \/ Ordered]_eqVars
  <2> SUFFICES ASSUME IInv, Next, ~Replaced PROVE Ordered
    BY DEF eqVars
  <2>0. TypeOK /\ QueueMatchesEvents
    BY DEF IInv
  <2>1. ASSUME NEW k \in Keys, NEW v, NEW type, handleEvent(k, v, type) PROVE Ordered
    BY <2>0, <2>1, HandleEventKeepsOrder
  <2>2. CASE Cancel \/ PopWait
    BY <2>2 DEF Cancel, PopWait
  <2>3. CASE Pop
    BY <2>0, <2>3, PopKeepsOrder
  <2> HIDE DEF Ordered
  <2> QED
    BY <2>1, <2>2, <2>3 DEF Next, Add, Update, Delete
<1> QED
  BY <1>1, SpecIInv, PTL DEF Spec, OrderIsKept
-----------------------------------------------------------------------------
(***************************************************************************)
(* The queue behind a reflector, for ReflectorProofs and                     *)
(* ProxyControllerProofs.  view is what the reflector has been told.         *)
(***************************************************************************)
IsView(view) == view \in [Keys -> States \cup {NoState}]

\* What the store and the pending events say of the view: its objects are
\* stored, queued or not, and a pending deletion is of an object that is gone
\* from the view but not yet from the store.
Shows(view, st, ev) ==
    \A k \in Keys :
        /\ view[k] # NoState => st[k] = view[k]
        /\ ev[k] # NoEvent => st[k] # NoState
        /\ ev[k] = Deleted => view[k] = NoState
        /\ ev[k] \in {Added, Modified} => view[k] # NoState

\* No list is waiting and nothing has been popped: all there is was added since.
AllAdded(view, last, ev) == last = NoKey => \A k \in Keys : view[k] # NoState => ev[k] = Added

\* The type of the watch event from old to new.
Change(old, new) == IF old = NoState THEN Added ELSE IF new = NoState THEN Deleted ELSE Modified

\* What handleEvent does to the store and to the event of the key.
LEMMA HandleEventFacts ==
    ASSUME TypeOK, NEW k \in Keys, NEW v \in States \cup {NoState}, NEW type \in EventTypes,
           handleEvent(k, v, type)
    PROVE  /\ lastReplaceKey' = lastReplaceKey
           /\ store' = IF type = Deleted THEN store ELSE [store EXCEPT ![k] = v]
           /\ \A x \in Keys \ {k} : store'[x] = store[x] /\ events'[x] = events[x]
           /\ \/ events[k] = NoEvent /\ events'[k] = type
              \/ events[k] = Added /\ type = Modified /\ events'[k] = Added
              \/ events[k] = Added /\ type = Deleted /\ events'[k] = NoEvent
              \/ events[k] = Modified /\ type \in {Modified, Deleted} /\ events'[k] = type
<1>1. events[k] \in EventTypes \cup {NoEvent}
  BY DEF TypeOK
<1>2. /\ lastReplaceKey' = lastReplaceKey
      /\ store' = IF type = Deleted THEN store ELSE [store EXCEPT ![k] = v]
      /\ \/ events[k] = NoEvent /\ events' = [events EXCEPT ![k] = type]
         \/ events[k] = Added /\ type = Modified /\ events' = [events EXCEPT ![k] = Added]
         \/ events[k] = Added /\ type = Deleted /\ events' = [events EXCEPT ![k] = NoEvent]
         \/ /\ events[k] = Modified /\ type \in {Modified, Deleted}
            /\ events' = [events EXCEPT ![k] = type]
  BY <1>1 DEF handleEvent, updateStore, effectAdd, effectCompress, effectDelete, watchEventEffect,
     watchEventCompression, Compressed, EventTypes, Added, Modified, Deleted, NoEvent
<1> QED
  BY <1>2 DEF TypeOK

\* A watch event takes the queue from one view to the next.
LEMMA HandleEventShows ==
    ASSUME TypeOK, NEW view, IsView(view), Shows(view, store, events),
           NEW k \in Keys, NEW v \in States \cup {NoState}, v # view[k],
           handleEvent(k, v, Change(view[k], v))
    PROVE  LET next == [view EXCEPT ![k] = v] IN
           /\ IsView(next) /\ Shows(next, store', events')
           /\ events'[k] = NoEvent => v = NoState
           /\ AllAdded(view, lastReplaceKey, events) => AllAdded(next, lastReplaceKey', events')
<1> DEFINE next == [view EXCEPT ![k] = v]
           type == Change(view[k], v)
<1>1. /\ IsView(next) /\ next[k] = v /\ \A x \in Keys \ {k} : next[x] = view[x]
  BY DEF IsView
<1>2. /\ type \in EventTypes
      /\ type = Added <=> view[k] = NoState
      /\ type = Deleted <=> view[k] # NoState /\ v = NoState
  BY DEF Change, EventTypes, Added, Modified, Deleted
<1> HIDE DEF next, type
<1>3. handleEvent(k, v, type)
  BY DEF type
<1>4. /\ lastReplaceKey' = lastReplaceKey
      /\ store' = IF type = Deleted THEN store ELSE [store EXCEPT ![k] = v]
      /\ \A x \in Keys \ {k} : store'[x] = store[x] /\ events'[x] = events[x]
      /\ \/ events[k] = NoEvent /\ events'[k] = type
         \/ events[k] = Added /\ type = Modified /\ events'[k] = Added
         \/ events[k] = Added /\ type = Deleted /\ events'[k] = NoEvent
         \/ events[k] = Modified /\ type \in {Modified, Deleted} /\ events'[k] = type
  BY <1>2, <1>3, HandleEventFacts
<1>5. store'[k] = IF type = Deleted THEN store[k] ELSE v
  BY <1>4 DEF TypeOK
<1>6. /\ view[k] # NoState => store[k] = view[k]
      /\ events[k] # NoEvent => store[k] # NoState
      /\ events[k] = Deleted => view[k] = NoState
      /\ events[k] \in {Added, Modified} => view[k] # NoState
  BY DEF Shows
<1>7. /\ next[k] # NoState => store'[k] = next[k]
      /\ events'[k] # NoEvent => store'[k] # NoState
      /\ events'[k] = Deleted => next[k] = NoState
      /\ events'[k] \in {Added, Modified} => next[k] # NoState
      /\ events'[k] = NoEvent => v = NoState
  BY <1>1, <1>2, <1>4, <1>5, <1>6 DEF EventTypes, Added, Modified, Deleted, NoEvent
<1>8. Shows(next, store', events')
  BY <1>1, <1>4, <1>7 DEF Shows
<1>9. ASSUME AllAdded(view, lastReplaceKey, events), lastReplaceKey' = NoKey
      PROVE  \A x \in Keys : next[x] # NoState => events'[x] = Added
  <2>1. \A x \in Keys : view[x] # NoState => events[x] = Added
    BY <1>4, <1>9 DEF AllAdded
  <2>2. next[k] # NoState => events'[k] = Added
    BY <1>1, <1>2, <1>4, <1>6, <2>1 DEF EventTypes, Added, Modified, Deleted, NoEvent
  <2> QED
    BY <1>1, <1>4, <2>1, <2>2
<1> QED
  BY <1>1, <1>7, <1>8, <1>9 DEF AllAdded, next

\* A list takes it to any view.
LEMMA ReplaceShows ==
    ASSUME NEW view, IsView(view), NEW keys \in Listings,
           KeysOf(keys) = {k \in Keys : view[k] # NoState}, Replace(keys, view)
    PROVE  /\ \A k \in Keys : events'[k] = IF view[k] # NoState THEN Modified ELSE NoEvent
           /\ Shows(view, store', events')
           /\ AllAdded(view, lastReplaceKey', events')
<1>1. \A k \in Keys : /\ events'[k] = IF view[k] # NoState THEN Modified ELSE NoEvent
                      /\ store'[k] = view[k]
  BY DEF Replace
<1>2. Shows(view, store', events')
  BY <1>1 DEF Shows, Added, Modified, Deleted, NoEvent
<1>3. keys = <<>> \/ lastReplaceKey' \in Keys
  BY ListingFacts DEF Replace
<1>4. AllAdded(view, lastReplaceKey', events')
  <2>1. CASE keys = <<>>
    <3>1. KeysOf(keys) = {}
      BY <2>1 DEF KeysOf
    <3> QED
      BY <3>1 DEF AllAdded
  <2>2. CASE lastReplaceKey' \in Keys
    BY <2>2, QueueAssumption DEF AllAdded
  <2> QED
    BY <1>3, <2>1, <2>2
<1> QED
  BY <1>1, <1>2, <1>4

\* Pop hands out what the view says of the key.
LEMMA PopShows ==
    ASSUME IInv, NEW view, IsView(view), Shows(view, store, events), Pop
    PROVE  LET k == Head(queue) IN
           /\ k \in Keys /\ events[k] \in EventTypes /\ store[k] \in States
           /\ events[k] = Deleted => view[k] = NoState
           /\ events[k] # Deleted => view[k] = store[k]
           /\ events'[k] = NoEvent
           /\ \A x \in Keys \ {k} : events'[x] = events[x] /\ store'[x] = store[x]
           /\ Shows(view, store', events')
<1> DEFINE k == Head(queue)
<1>1. TypeOK /\ QueueMatchesEvents
  BY DEF IInv
<1>2. k \in Keys /\ k \in KeysOf(queue)
  BY <1>1 DEF Pop, TypeOK, KeysOf
<1>3. /\ events' = [events EXCEPT ![k] = NoEvent]
      /\ store' = IF events[k] = Deleted THEN [store EXCEPT ![k] = NoState] ELSE store
  BY DEF Pop
<1> HIDE DEF k
<1>4. events[k] # NoEvent /\ events[k] \in EventTypes
  BY <1>1, <1>2 DEF QueueMatchesEvents, TypeOK
<1>5. /\ store[k] \in States
      /\ events[k] = Deleted => view[k] = NoState
      /\ events[k] # Deleted => view[k] = store[k]
  BY <1>1, <1>2, <1>4 DEF Shows, TypeOK, EventTypes
<1>6. /\ events'[k] = NoEvent
      /\ store'[k] = IF events[k] = Deleted THEN NoState ELSE store[k]
      /\ \A x \in Keys \ {k} : events'[x] = events[x] /\ store'[x] = store[x]
  BY <1>1, <1>2, <1>3 DEF TypeOK
<1>7. Shows(view, store', events')
  BY <1>5, <1>6 DEF Shows, Added, Modified, Deleted, NoEvent
<1> QED
  BY <1>2, <1>4, <1>5, <1>6, <1>7 DEF k
=============================================================================
