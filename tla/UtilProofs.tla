----------------------------- MODULE UtilProofs -----------------------------
(***************************************************************************)
(* The two utilities the proxier's commits rest on, util/ratelimiter and     *)
(* util/config.                                                              *)
(***************************************************************************)
EXTENDS RateLimiter, Configurer, SequenceTheorems, TLAPS
-----------------------------------------------------------------------------
(***************************************************************************)
(* RateLimiter, for any interval, any maximal backoff and any number of      *)
(* corrections of the clock: it coalesces requests, and keeps the interval   *)
(* as long as a backoff entry lives at least that long.                      *)
(*                                                                         *)
(* IntervalIsKept is about since, which no step of the code looks at; what   *)
(* the code looks at is the age of the entry.  EntryOK ties the two          *)
(* together: but for the moment between the handler's return and Next, an    *)
(* entry is no older than the last return and waits for the interval, and    *)
(* there is none only before the first return.                               *)
(***************************************************************************)
Entries == [backoff : Nat, age : Int]

\* The entry of the one key, s after the handler's last return (plus what the
\* clock was set forward by since), with the clock
\* set back n times and the goroutine at pc.
EntryOK(entry, s, n, pc) ==
    IF entry = NoEntry THEN pc # "next" => s >= Expired + defaultDuration
    ELSE /\ entry \in Entries
         /\ entry.backoff = defaultDuration
         /\ entry.age >= 0 - n * CorrectBy
         /\ pc # "next" => entry.age <= s

OneEntry(entry) == [id \in Ids |-> entry]

RateLimiterInv ==
    /\ \E entry : perItemBackoff = OneEntry(entry) /\ EntryOK(entry, since + ahead, setBacks, step)
    /\ queued \in BOOLEAN
    /\ step \in {"pop", "check", "handler", "next"}
    /\ setBacks \in 0..MaxSetBacks
    /\ since \in 0..(Expired + defaultDuration)
    /\ ahead \in 0..Expired
-----------------------------------------------------------------------------
\* How far n corrections of the clock go.
LEMMA SetBackFacts ==
    ASSUME NEW n \in Nat
    PROVE  /\ n * CorrectBy \in Nat
           /\ (n + 1) * CorrectBy = n * CorrectBy + CorrectBy
  BY RateLimiterAssumption

LEMMA ExpiredFacts == Expired \in Nat /\ defaultDuration \in Nat /\ Expired + defaultDuration \in Nat
  BY BackoffAssumption DEF Expired

LEMMA KeyFacts == backOffKey \in Ids /\ \A id \in Ids : id = backOffKey
  BY RateLimiterAssumption

\* A fresh entry, and an entry whose age is changed.
LEMMA EntryFacts ==
    /\ initEntry \in Entries /\ initEntry # NoEntry
    /\ initEntry.backoff = defaultDuration /\ initEntry.age = 0
    /\ \A entry \in Entries, a \in Int :
          LET moved == [entry EXCEPT !.age = a] IN
          moved \in Entries /\ moved # NoEntry /\ moved.backoff = entry.backoff /\ moved.age = a
<1>1. NoEntry \notin Entries /\ defaultDuration \in Nat
  BY BackoffAssumption DEF Entries
<1> QED
  BY <1>1 DEF initEntry, Entries

LEMMA InvImpliesTypeOK == RateLimiterInv => RateLimiterTypeOK
<1> SUFFICES ASSUME RateLimiterInv PROVE RateLimiterTypeOK
  OBVIOUS
<1>1. PICK entry : perItemBackoff = OneEntry(entry) /\ EntryOK(entry, since + ahead, setBacks, step)
  BY DEF RateLimiterInv
<1>2. BackoffTypeOK
  BY <1>1 DEF OneEntry, EntryOK, BackoffTypeOK, Entries
<1>3. \A id \in Ids : perItemBackoff[id] # NoEntry =>
          perItemBackoff[id].age >= 0 - setBacks * CorrectBy
  BY <1>1 DEF OneEntry, EntryOK
<1> QED
  BY <1>2, <1>3 DEF RateLimiterInv, RateLimiterTypeOK

LEMMA InitRateLimiter == NewRateLimitedFunction => RateLimiterInv
<1> SUFFICES ASSUME NewRateLimitedFunction PROVE RateLimiterInv
  OBVIOUS
<1>1. perItemBackoff = OneEntry(NoEntry) /\ EntryOK(NoEntry, since + ahead, setBacks, step)
  BY DEF NewRateLimitedFunction, NewBackOff, OneEntry, EntryOK
<1>2. setBacks \in 0..MaxSetBacks /\ since \in 0..(Expired + defaultDuration) /\ ahead \in 0..Expired
  BY ExpiredFacts, RateLimiterAssumption DEF NewRateLimitedFunction
<1> QED
  BY <1>1, <1>2 DEF RateLimiterInv, NewRateLimitedFunction

\* The goroutine up to the handler, and Invoke, leave the backoff alone.
LEMMA BeforeTheHandler ==
    ASSUME RateLimiterInv, Invoke \/ Pop \/ PutBack \/ RunHandler \/ HandlerPanics
    PROVE  RateLimiterInv'
<1>1. PICK entry : perItemBackoff = OneEntry(entry) /\ EntryOK(entry, since + ahead, setBacks, step)
  BY DEF RateLimiterInv
<1>2. /\ UNCHANGED <<perItemBackoff, setBacks, since, ahead>>
      /\ step' = step \/ (step # "next" /\ step' \in {"pop", "check", "handler"})
  BY DEF Invoke, Pop, PutBack, RunHandler, HandlerPanics
<1>3. queued' \in BOOLEAN
  <2>1. queued' = TRUE \/ queued' = FALSE \/ queued' = queued
    <3>1. CASE Invoke \/ PutBack
      BY <3>1, Zenon DEF Invoke, PutBack
    <3>2. CASE Pop
      BY <3>2, Zenon DEF Pop
    <3>3. CASE RunHandler \/ HandlerPanics
      <4>1. UNCHANGED queued
        BY <3>3 DEF RunHandler, HandlerPanics
      <4> QED
        BY <4>1, Zenon
    <3> QED
      BY <3>1, <3>2, <3>3, Zenon
  <2>2. queued \in BOOLEAN
    BY DEF RateLimiterInv
  <2> QED
    BY <2>1, <2>2, Zenon
<1>4. EntryOK(entry, since' + ahead', setBacks', step')
  BY <1>1, <1>2 DEF EntryOK
<1> QED
  BY <1>1, <1>2, <1>3, <1>4 DEF RateLimiterInv

LEMMA HandlerReturnsRateLimiter ==
    ASSUME RateLimiterInv, HandlerReturns
    PROVE  RateLimiterInv'
<1>1. PICK entry : perItemBackoff = OneEntry(entry) /\ EntryOK(entry, since + ahead, setBacks, step)
  BY DEF RateLimiterInv
<1>2. EntryOK(entry, since' + ahead', setBacks', step')
  BY <1>1 DEF EntryOK, HandlerReturns
<1>3. since' \in 0..(Expired + defaultDuration) /\ ahead' \in 0..Expired
  BY ExpiredFacts DEF HandlerReturns
<1> QED
  BY <1>1, <1>2, <1>3 DEF RateLimiterInv, HandlerReturns

\* Next gives the key an entry of age 0, whatever it had.
LEMMA MoveBackOffRateLimiter ==
    ASSUME RateLimiterInv, MoveBackOff
    PROVE  RateLimiterInv'
<1>1. PICK entry : perItemBackoff = OneEntry(entry) /\ EntryOK(entry, since + ahead, setBacks, step)
  BY DEF RateLimiterInv
<1> DEFINE moved == IF entry = NoEntry THEN initEntry
                    ELSE IF hasExpired(entry) THEN initEntry ELSE [entry EXCEPT !.age = 0]
<1>2. perItemBackoff' = OneEntry(moved)
  BY <1>1, KeyFacts DEF MoveBackOff, Next, OneEntry
<1>3. moved \in Entries /\ moved # NoEntry /\ moved.backoff = defaultDuration /\ moved.age = 0
  BY <1>1, EntryFacts DEF EntryOK
<1>4. setBacks * CorrectBy \in Nat /\ since + ahead \in Nat
  BY SetBackFacts, ExpiredFacts, RateLimiterAssumption DEF RateLimiterInv
<1>5. EntryOK(moved, since' + ahead', setBacks', step')
  <2> HIDE DEF moved
  <2> QED
    BY <1>3, <1>4 DEF EntryOK, MoveBackOff
<1> QED
  BY <1>2, <1>5 DEF RateLimiterInv, MoveBackOff

\* A tick makes the entry and the last return older by the same, up to their caps.
LEMMA TimePassesRateLimiter ==
    ASSUME RateLimiterInv, TimePasses
    PROVE  RateLimiterInv'
<1>1. PICK entry : perItemBackoff = OneEntry(entry) /\ EntryOK(entry, since + ahead, setBacks, step)
  BY DEF RateLimiterInv
<1>2. since \in Nat /\ since <= Expired + defaultDuration /\ ahead \in Nat
  BY ExpiredFacts DEF RateLimiterInv
<1>3. /\ since' = IF since < Expired + defaultDuration THEN since + 1 ELSE since
      /\ UNCHANGED <<queued, step, setBacks, ahead>>
  BY DEF TimePasses
<1>4. since' \in 0..(Expired + defaultDuration)
  BY <1>2, <1>3, ExpiredFacts
<1>5. CASE entry = NoEntry
  <2>1. perItemBackoff' = OneEntry(NoEntry)
    BY <1>1, <1>5 DEF TimePasses, Tick, OneEntry
  <2>2. EntryOK(NoEntry, since' + ahead', setBacks', step')
    BY <1>1, <1>2, <1>3, <1>5, ExpiredFacts DEF EntryOK
  <2> QED
    BY <1>3, <1>4, <2>1, <2>2 DEF RateLimiterInv
<1>6. CASE entry # NoEntry
  <2> DEFINE a == IF entry.age < Expired THEN entry.age + 1 ELSE entry.age
             moved == [entry EXCEPT !.age = a]
  <2>1. perItemBackoff' = OneEntry(moved)
    BY <1>1, <1>6 DEF TimePasses, Tick, OneEntry
  <2>2. entry \in Entries /\ entry.age \in Int /\ a \in Int
    BY <1>1, <1>6 DEF EntryOK, Entries
  <2>3. moved \in Entries /\ moved # NoEntry /\ moved.backoff = defaultDuration /\ moved.age = a
    BY <1>1, <1>6, <2>2, EntryFacts DEF EntryOK
  <2>4. a >= entry.age /\ (entry.age <= since + ahead => a <= since' + ahead')
    BY <1>2, <1>3, <2>2, ExpiredFacts
  <2>5. setBacks * CorrectBy \in Nat
    BY SetBackFacts, RateLimiterAssumption DEF RateLimiterInv
  <2>6. a >= 0 - setBacks * CorrectBy
    <3>1. entry.age >= 0 - setBacks * CorrectBy
      BY <1>1, <1>6 DEF EntryOK
    <3> HIDE DEF a
    <3> QED
      BY <2>2, <2>4, <2>5, <3>1
  <2>7. EntryOK(moved, since' + ahead', setBacks', step')
    <3> HIDE DEF moved, a
    <3> QED
      BY <1>1, <1>3, <1>6, <2>3, <2>4, <2>6 DEF EntryOK
  <2> QED
    BY <1>3, <1>4, <2>1, <2>7 DEF RateLimiterInv
<1> QED
  BY <1>5, <1>6

\* A clock set back makes an entry look newer, never older.
LEMMA ClockSetBackRateLimiter ==
    ASSUME RateLimiterInv, NEW older \in BOOLEAN, ClockSetBack(older)
    PROVE  RateLimiterInv'
<1>1. PICK entry : perItemBackoff = OneEntry(entry) /\ EntryOK(entry, since + ahead, setBacks, step)
  BY DEF RateLimiterInv
<1>2. /\ setBacks' = setBacks + 1 /\ setBacks' \in 0..MaxSetBacks
      /\ UNCHANGED <<queued, step, since, ahead>>
  BY RateLimiterAssumption DEF ClockSetBack, RateLimiterInv
<1>3. /\ setBacks * CorrectBy \in Nat /\ CorrectBy \in Nat /\ since + ahead \in Nat
      /\ setBacks' * CorrectBy = setBacks * CorrectBy + CorrectBy
  BY <1>2, SetBackFacts, ExpiredFacts, RateLimiterAssumption DEF RateLimiterInv
<1>4. CASE entry = NoEntry
  <2>1. perItemBackoff' = OneEntry(NoEntry)
    BY <1>1, <1>4 DEF ClockSetBack, SetBack, OneEntry
  <2>2. EntryOK(NoEntry, since' + ahead', setBacks', step')
    BY <1>1, <1>2, <1>4 DEF EntryOK
  <2> QED
    BY <1>2, <2>1, <2>2 DEF RateLimiterInv
<1>5. CASE entry # NoEntry
  <2> DEFINE a == IF older /\ entry.age = Expired THEN entry.age ELSE entry.age - CorrectBy
             moved == [entry EXCEPT !.age = a]
  <2>1. perItemBackoff' = OneEntry(moved)
    BY <1>1, <1>5 DEF ClockSetBack, SetBack, OneEntry
  <2>2. entry \in Entries /\ entry.age \in Int /\ a \in Int
    BY <1>1, <1>3, <1>5 DEF EntryOK, Entries
  <2>3. moved \in Entries /\ moved # NoEntry /\ moved.backoff = defaultDuration /\ moved.age = a
    BY <1>1, <1>5, <2>2, EntryFacts DEF EntryOK
  <2>4. a <= entry.age /\ a >= entry.age - CorrectBy
    BY <1>3, <2>2
  <2>5. entry.age >= 0 - setBacks * CorrectBy /\ (step # "next" => entry.age <= since + ahead)
    BY <1>1, <1>5 DEF EntryOK
  <2> HIDE DEF moved, a
  <2>6. a >= 0 - setBacks' * CorrectBy
    <3> DEFINE n == setBacks * CorrectBy
               m == setBacks' * CorrectBy
    <3>1. n \in Nat /\ m = n + CorrectBy /\ entry.age >= 0 - n
      BY <1>3, <2>5
    <3> HIDE DEF n, m
    <3>2. a >= 0 - m
      BY <1>3, <2>2, <2>4, <3>1
    <3> QED
      BY <3>2 DEF m
  <2>7. step # "next" => a <= since + ahead
    BY <1>3, <2>2, <2>4, <2>5
  <2>8. EntryOK(moved, since' + ahead', setBacks', step')
    BY <1>2, <2>3, <2>6, <2>7 DEF EntryOK
  <2> QED
    BY <1>2, <2>1, <2>8 DEF RateLimiterInv
<1> QED
  BY <1>4, <1>5

\* A clock set forward makes an entry look older by no more than it is ahead.
LEMMA ClockSetForwardRateLimiter ==
    ASSUME RateLimiterInv, ClockSetForward
    PROVE  RateLimiterInv'
<1>1. PICK entry : perItemBackoff = OneEntry(entry) /\ EntryOK(entry, since + ahead, setBacks, step)
  BY DEF RateLimiterInv
<1>2. /\ since \in Nat /\ ahead \in Nat /\ ahead <= Expired /\ CorrectBy \in Nat /\ Expired \in Nat
      /\ setBacks * CorrectBy \in Nat
  BY SetBackFacts, ExpiredFacts, RateLimiterAssumption DEF RateLimiterInv
<1>3. /\ ahead' = IF ahead + CorrectBy < Expired THEN ahead + CorrectBy ELSE Expired
      /\ UNCHANGED <<queued, step, setBacks, since>>
  BY DEF ClockSetForward, Smaller
<1>4. ahead' \in 0..Expired /\ since' + ahead' >= since + ahead
  BY <1>2, <1>3
<1>5. CASE entry = NoEntry
  <2>1. perItemBackoff' = OneEntry(NoEntry)
    BY <1>1, <1>5 DEF ClockSetForward, SetForward, OneEntry
  <2>2. EntryOK(NoEntry, since' + ahead', setBacks', step')
    BY <1>1, <1>2, <1>3, <1>4, <1>5, ExpiredFacts DEF EntryOK
  <2> QED
    BY <1>3, <1>4, <2>1, <2>2 DEF RateLimiterInv
<1>6. CASE entry # NoEntry
  <2> DEFINE a == IF entry.age + CorrectBy < Expired THEN entry.age + CorrectBy ELSE Expired
             moved == [entry EXCEPT !.age = a]
  <2>1. perItemBackoff' = OneEntry(moved)
    BY <1>1, <1>6 DEF ClockSetForward, SetForward, OneEntry, Smaller
  <2>2. entry \in Entries /\ entry.age \in Int /\ a \in Int
    BY <1>1, <1>2, <1>6 DEF EntryOK, Entries
  <2>3. moved \in Entries /\ moved # NoEntry /\ moved.backoff = defaultDuration /\ moved.age = a
    BY <1>1, <1>6, <2>2, EntryFacts DEF EntryOK
  <2>4. entry.age >= 0 - setBacks * CorrectBy /\ (step # "next" => entry.age <= since + ahead)
    BY <1>1, <1>6 DEF EntryOK
  <2>5. (entry.age <= since + ahead => a <= since' + ahead') /\ (a >= entry.age \/ a >= 0)
    BY <1>2, <1>3, <2>2
  <2> HIDE DEF moved, a
  <2>6. a >= 0 - setBacks * CorrectBy
    <3> DEFINE n == setBacks * CorrectBy
    <3>1. n \in Nat /\ entry.age >= 0 - n
      BY <1>2, <2>4
    <3> HIDE DEF n
    <3>2. a >= 0 - n
      BY <2>2, <2>5, <3>1
    <3> QED
      BY <3>2 DEF n
  <2>7. EntryOK(moved, since' + ahead', setBacks', step')
    BY <1>3, <2>3, <2>4, <2>5, <2>6 DEF EntryOK
  <2> QED
    BY <1>3, <1>4, <2>1, <2>7 DEF RateLimiterInv
<1> QED
  BY <1>5, <1>6

LEMMA NextRateLimiter == RateLimiterInv /\ [RateLimiterNext]_rlVars => RateLimiterInv'
<1> SUFFICES ASSUME RateLimiterInv, [RateLimiterNext]_rlVars PROVE RateLimiterInv'
  OBVIOUS
<1>1. CASE UNCHANGED rlVars
  BY <1>1 DEF rlVars, RateLimiterInv
<1>2. CASE RateLimiterNext
  BY <1>2, BeforeTheHandler, HandlerReturnsRateLimiter, MoveBackOffRateLimiter,
     TimePassesRateLimiter, ClockSetBackRateLimiter, ClockSetForwardRateLimiter DEF RateLimiterNext, Goroutine
<1> QED
  BY <1>1, <1>2

LEMMA SpecRateLimiter == RateLimiterSpec => []RateLimiterInv
  BY InitRateLimiter, NextRateLimiter, PTL DEF RateLimiterSpec
-----------------------------------------------------------------------------
\* The backoff of the key and the goroutine's step have their types, and an
\* entry is newer than now by no more than the clock was set back.
THEOREM RateLimiterTypeCorrect == RateLimiterSpec => []RateLimiterTypeOK
  BY SpecRateLimiter, InvImpliesTypeOK, PTL

\* However the clock is set back or forward and the handler panics, the handler
\* starts no earlier than an interval after it last returned, less what the clock
\* has been set forward by since, if an entry does not expire
\* (hasExpired) before the interval is over.  The run RateLimiterLong shows that
\* it does not hold without.
THEOREM IntervalsAreKept ==
    ASSUME defaultDuration <= Expired
    PROVE  RateLimiterSpec => IntervalIsKept
<1>1. RateLimiterInv /\ [RateLimiterNext]_rlVars =>
          [step = "check" /\ step' = "handler" => since + ahead >= defaultDuration]_rlVars
  <2> SUFFICES ASSUME RateLimiterInv, RateLimiterNext, step = "check", step' = "handler"
               PROVE  since + ahead >= defaultDuration
    BY DEF rlVars
  <2>1. ~IsInBackOffSinceUpdate(backOffKey)
    BY DEF RateLimiterNext, Goroutine, Invoke, Pop, PutBack, RunHandler, HandlerReturns,
       HandlerPanics, MoveBackOff, TimePasses, ClockSetBack, ClockSetForward
  <2>2. PICK entry : perItemBackoff = OneEntry(entry) /\ EntryOK(entry, since + ahead, setBacks, step)
    BY DEF RateLimiterInv
  <2>3. perItemBackoff[backOffKey] = entry
    BY <2>2, KeyFacts DEF OneEntry
  <2>4. since + ahead \in Nat
    BY ExpiredFacts DEF RateLimiterInv
  <2>5. CASE entry = NoEntry
    BY <2>2, <2>4, <2>5, ExpiredFacts DEF EntryOK
  <2>6. CASE entry # NoEntry
    <3>1. entry.age \in Int /\ entry.backoff = defaultDuration /\ entry.age <= since + ahead
      BY <2>2, <2>6 DEF EntryOK, Entries
    <3>2. entry.age >= Expired \/ entry.age >= defaultDuration
      BY <2>1, <2>3, <2>6, <3>1, BackoffAssumption DEF IsInBackOffSinceUpdate, hasExpired, Expired
    <3> QED
      BY <2>4, <3>1, <3>2, ExpiredFacts
  <2> QED
    BY <2>5, <2>6
<1> QED
  BY <1>1, SpecRateLimiter, PTL DEF RateLimiterSpec, IntervalIsKept

\* The safety of ImplementsCoalescer: every step of the rate limiter, and of a
\* clock that is corrected, is a request, the start or the end of a run, or
\* nothing, so that no request is dropped while it is put back and runs never
\* overlap.
THEOREM LimitersCoalesce == RateLimiterSpec => C!CSpec
<1>1. NewRateLimitedFunction => C!CInit
  BY DEF NewRateLimitedFunction, C!CInit
<1>2. RateLimiterInv /\ [RateLimiterNext]_rlVars => [C!CNext]_C!cVars
  <2> SUFFICES ASSUME RateLimiterInv, [RateLimiterNext]_rlVars
               PROVE  C!CNext \/ UNCHANGED C!cVars
    OBVIOUS
  <2> USE DEF C!CNext, C!cVars
  <2>1. CASE UNCHANGED rlVars
    BY <2>1 DEF rlVars
  <2>2. CASE Invoke
    BY <2>2 DEF Invoke, C!Request
  <2>3. CASE Pop \/ PutBack
    BY <2>3 DEF Pop, PutBack
  <2>4. CASE RunHandler
    <3>1. queued \in BOOLEAN
      BY DEF RateLimiterInv
    <3>2. C!Start(queued)
      BY <2>4, <3>1 DEF RunHandler, C!Start
    <3> QED
      BY <3>1, <3>2
  <2>5. CASE HandlerReturns
    BY <2>5 DEF HandlerReturns
  <2>6. CASE HandlerPanics \/ MoveBackOff
    BY <2>6 DEF HandlerPanics, MoveBackOff, C!Finish
  <2>7. CASE TimePasses \/ (\E older \in BOOLEAN : ClockSetBack(older)) \/ ClockSetForward
    BY <2>7 DEF TimePasses, ClockSetBack, ClockSetForward
  <2> QED
    BY <2>1, <2>2, <2>3, <2>4, <2>5, <2>6, <2>7 DEF RateLimiterNext, Goroutine
<1> QED
  BY <1>1, <1>2, SpecRateLimiter, PTL DEF RateLimiterSpec, C!CSpec
-----------------------------------------------------------------------------
(***************************************************************************)
(* Configurer, for any number of writers and any texts: a file put in place  *)
(* by a writer that had .tmp to itself is a whole text, and stays one.       *)
(*                                                                         *)
(* LoneWriteIsWhole alone is not inductive.  It needs that a lone writer is  *)
(* the only user of .tmp and what it has there (LoneWriterOwnsTmp), and that *)
(* a descriptor of the file in place is left only by a shared rename         *)
(* (DescriptorsOfTheFile); the types need that a file that is being written  *)
(* exists (OpenFilesExist).                                                  *)
(***************************************************************************)
LoneWriterOwnsTmp ==
    \A w \in alone :
        /\ Using = {w}
        /\ at[w] = "write .tmp" => fd[w] = "tmp" /\ tmp = <<>>
        /\ at[w] = "rename" => tmp = data[w]

DescriptorsOfTheFile == \A w \in Writers : fd[w] = "cfg" => mixed

OpenFilesExist ==
    \A w \in Writers : /\ at[w] = "write .bak" => bak # NoFile
                       /\ fd[w] = "tmp" => tmp # NoFile

ConfigurerInv ==
    /\ ConfigurerTypeOK
    /\ LoneWriterOwnsTmp
    /\ DescriptorsOfTheFile
    /\ OpenFilesExist
    /\ LoneWriteIsWhole
-----------------------------------------------------------------------------
\* A write at offset 0: of a sequence of blocks it makes another, and over an
\* empty file it leaves the text itself.
LEMMA OverlayFacts ==
    ASSUME NEW S, NEW new \in Seq(S)
    PROVE  /\ \A old \in Seq(S) : Overlay(new, old) \in Seq(S)
           /\ Overlay(new, <<>>) = new
<1>1. ASSUME NEW old \in Seq(S)
      PROVE  SubSeq(old, Len(new) + 1, Len(old)) \in Seq(S)
  <2>1. /\ Len(new) + 1 \in Int /\ Len(old) \in Int
        /\ \A i \in (Len(new) + 1)..Len(old) : old[i] \in S
    OBVIOUS
  <2> QED
    BY <2>1, SubSeqProperties
<1>2. SubSeq(<<>>, Len(new) + 1, Len(<<>>)) = <<>>
  <2>1. Len(new) + 1 \in Int /\ Len(<<>>) \in Int /\ Len(<<>>) < Len(new) + 1
    OBVIOUS
  <2> QED
    BY <2>1, SubSeqEmpty
<1> QED
  BY <1>1, <1>2, ConcatProperties, ConcatEmptySeq DEF Overlay

\* The first blocks of a text.
LEMMA PrefixFacts ==
    ASSUME NEW S, NEW s \in Seq(S), NEW n \in 0..Len(s)
    PROVE  SubSeq(s, 1, n) \in Seq(S)
<1>1. 1 \in Int /\ n \in Int /\ \A i \in 1..n : s[i] \in S
  OBVIOUS
<1> QED
  BY <1>1, SubSeqProperties

LEMMA InitConfigurer == NewConfigurer => ConfigurerInv
<1> SUFFICES ASSUME NewConfigurer PROVE ConfigurerInv
  OBVIOUS
<1> USE DEF NewConfigurer
<1>1. cfg \in Seq(Blocks) /\ <<>> \in Seq(Blocks)
  BY ConfigurerAssumption, EmptySeq
<1>2. ConfigurerTypeOK
  BY <1>1 DEF ConfigurerTypeOK, Steps
<1>3. LoneWriterOwnsTmp /\ DescriptorsOfTheFile /\ OpenFilesExist /\ LoneWriteIsWhole
  BY DEF LoneWriterOwnsTmp, DescriptorsOfTheFile, OpenFilesExist, LoneWriteIsWhole
<1> QED
  BY <1>2, <1>3 DEF ConfigurerInv

\* Up to the open of .tmp a writer shares nothing but .bak, and no invariant
\* but the types is about that.
LEMMA BackupConfigurer ==
    ASSUME ConfigurerInv, NEW w \in Writers,
           (\E t \in Texts : WriteConfig(w, t)) \/ ReadConfig(w) \/ OpenBackup(w) \/ WriteBackup(w)
    PROVE  ConfigurerInv'
<1> USE DEF ConfigurerInv
<1>0. ConfigurerTypeOK
  OBVIOUS
<1>1. /\ UNCHANGED <<cfg, tmp, fd, alone, mixed>>
      /\ at[w] \in {"idle", "backup", "open .bak", "write .bak"}
      /\ \E to \in {"backup", "open .bak", "write .bak", "open .tmp"} : at' = [at EXCEPT ![w] = to]
      /\ \A v \in Writers \ {w} : data'[v] = data[v]
      /\ data' \in [Writers -> Texts \cup {<<>>}]
      /\ data'[w] # <<>>
  BY ConfigurerAssumption DEF WriteConfig, ReadConfig, OpenBackup, WriteBackup, Goto, files, ConfigurerTypeOK
<1>2. /\ saved' \in [Writers -> Seq(Blocks)]
      /\ (bak' = bak /\ at'[w] # "write .bak") \/ bak' \in Seq(Blocks)
  <2>1. CASE (\E t \in Texts : WriteConfig(w, t)) \/ ReadConfig(w)
    BY <1>0, <2>1 DEF WriteConfig, ReadConfig, Goto, files, ConfigurerTypeOK
  <2>2. CASE OpenBackup(w)
    BY <1>0, <2>2, EmptySeq DEF OpenBackup, ConfigurerTypeOK
  <2>3. CASE WriteBackup(w)
    <3>1. bak \in Seq(Blocks) /\ saved[w] \in Seq(Blocks)
      BY <1>0, <2>3 DEF WriteBackup, Goto, ConfigurerTypeOK, OpenFilesExist
    <3>2. Overlay(saved[w], bak) \in Seq(Blocks) /\ <<>> \in Seq(Blocks)
      BY <3>1, OverlayFacts, EmptySeq
    <3> QED
      BY <1>0, <2>3, <3>2 DEF WriteBackup, ConfigurerTypeOK
  <2> QED
    BY <2>1, <2>2, <2>3
<1>3. /\ at' \in [Writers -> Steps]
      /\ at'[w] \in {"backup", "open .bak", "write .bak", "open .tmp"}
      /\ \A v \in Writers \ {w} : at'[v] = at[v]
      /\ Using' = Using /\ w \notin Using
  <2>1. PICK to \in {"backup", "open .bak", "write .bak", "open .tmp"} : at' = [at EXCEPT ![w] = to]
    BY <1>1
  <2>2. /\ at' \in [Writers -> Steps] /\ at'[w] = to
        /\ \A v \in Writers \ {w} : at'[v] = at[v]
    BY <1>0, <2>1 DEF ConfigurerTypeOK, Steps
  <2> QED
    BY <1>1, <2>2 DEF Using
<1>4. ConfigurerTypeOK'
  <2>1. \A v \in Writers : /\ at'[v] # "idle" <=> data'[v] # <<>>
                           /\ at'[v] = "write .tmp" <=> fd'[v] # "none"
    <3> SUFFICES ASSUME NEW v \in Writers
                 PROVE  /\ at'[v] # "idle" <=> data'[v] # <<>>
                        /\ at'[v] = "write .tmp" <=> fd'[v] # "none"
      OBVIOUS
    <3>1. /\ at[v] # "idle" <=> data[v] # <<>>
          /\ at[v] = "write .tmp" <=> fd[v] # "none"
      BY <1>0 DEF ConfigurerTypeOK
    <3>2. CASE v = w
      BY <1>1, <1>3, <3>1, <3>2
    <3>3. CASE v # w
      BY <1>1, <1>3, <3>1, <3>3
    <3> QED
      BY <3>2, <3>3
  <2> QED
    BY <1>0, <1>1, <1>2, <1>3, <2>1 DEF ConfigurerTypeOK
<1>5. LoneWriterOwnsTmp'
  <2> SUFFICES ASSUME NEW v \in alone
               PROVE  /\ Using' = {v}
                      /\ at'[v] = "write .tmp" => fd[v] = "tmp" /\ tmp = <<>>
                      /\ at'[v] = "rename" => tmp = data'[v]
    BY <1>1 DEF LoneWriterOwnsTmp
  <2>1. v \in Writers \ {w}
    BY <1>0, <1>3 DEF ConfigurerTypeOK, Using
  <2> QED
    BY <1>1, <1>3, <2>1 DEF LoneWriterOwnsTmp
<1>6. DescriptorsOfTheFile'
  BY <1>1 DEF DescriptorsOfTheFile
<1>7. OpenFilesExist'
  BY <1>1, <1>2, <1>3, ConfigurerAssumption DEF OpenFilesExist
<1>8. LoneWriteIsWhole'
  BY <1>1 DEF LoneWriteIsWhole
<1> QED
  BY <1>4, <1>5, <1>6, <1>7, <1>8

\* The writer that opens an unused .tmp owns it, empty.
LEMMA OpenTmpConfigurer ==
    ASSUME ConfigurerInv, NEW w \in Writers, OpenTmp(w)
    PROVE  ConfigurerInv'
<1> USE DEF ConfigurerInv
<1>0. ConfigurerTypeOK
  OBVIOUS
<1>1. /\ at[w] = "open .tmp" /\ at' = [at EXCEPT ![w] = "write .tmp"]
      /\ tmp' = <<>> /\ tmp' \in Seq(Blocks) /\ tmp' # NoFile
      /\ fd' = [fd EXCEPT ![w] = "tmp"]
      /\ alone' = IF Using = {} THEN {w} ELSE {}
      /\ UNCHANGED <<cfg, bak, data, saved, mixed>>
  BY ConfigurerAssumption, EmptySeq DEF OpenTmp, Goto
<1>2. /\ at' \in [Writers -> Steps] /\ at'[w] = "write .tmp" /\ fd'[w] = "tmp"
      /\ fd' \in [Writers -> {"none", "tmp", "cfg", "gone"}]
      /\ \A v \in Writers \ {w} : at'[v] = at[v] /\ fd'[v] = fd[v]
      /\ Using' = Using \cup {w}
  BY <1>0, <1>1 DEF ConfigurerTypeOK, Steps, Using
<1>3. ConfigurerTypeOK'
  BY <1>0, <1>1, <1>2 DEF ConfigurerTypeOK
<1>4. LoneWriterOwnsTmp'
  BY <1>1, <1>2 DEF LoneWriterOwnsTmp
<1>5. DescriptorsOfTheFile'
  BY <1>1, <1>2 DEF DescriptorsOfTheFile
<1>6. OpenFilesExist'
  BY <1>1, <1>2 DEF OpenFilesExist
<1>7. LoneWriteIsWhole'
  BY <1>1 DEF LoneWriteIsWhole
<1> QED
  BY <1>3, <1>4, <1>5, <1>6, <1>7

\* What Put leaves: files of blocks, and the file in place as it was unless the
\* descriptor is one of it.
LEMMA PutFacts ==
    ASSUME ConfigurerTypeOK, OpenFilesExist, NEW w \in Writers, NEW text \in Seq(Blocks), Put(w, text)
    PROVE  /\ cfg' \in Seq(Blocks)
           /\ tmp' = NoFile \/ tmp' \in Seq(Blocks)
           /\ tmp # NoFile => tmp' # NoFile
           /\ fd[w] = "tmp" => tmp' = Overlay(text, tmp)
           /\ fd[w] # "cfg" => cfg' = cfg
           /\ fd' \in [Writers -> {"none", "tmp", "cfg", "gone"}] /\ fd'[w] = "none"
           /\ \A v \in Writers \ {w} : fd'[v] = fd[v]
<1>1. cfg \in Seq(Blocks) /\ (tmp = NoFile \/ tmp \in Seq(Blocks)) /\ NoFile \notin Seq(Blocks)
  BY ConfigurerAssumption DEF ConfigurerTypeOK
<1>2. fd[w] = "tmp" => tmp \in Seq(Blocks)
  BY <1>1 DEF OpenFilesExist
<1>3. /\ Overlay(text, cfg) \in Seq(Blocks)
      /\ fd[w] = "tmp" => Overlay(text, tmp) \in Seq(Blocks)
  BY <1>1, <1>2, OverlayFacts
<1>4. /\ cfg' \in Seq(Blocks)
      /\ tmp' = NoFile \/ tmp' \in Seq(Blocks)
      /\ tmp # NoFile => tmp' # NoFile
  BY <1>1, <1>3 DEF Put
<1> QED
  BY <1>4 DEF Put, ConfigurerTypeOK

\* A lone writer puts its text into the empty .tmp.
LEMMA WriteTmpConfigurer ==
    ASSUME ConfigurerInv, NEW w \in Writers, WriteTmp(w)
    PROVE  ConfigurerInv'
<1> USE DEF ConfigurerInv
<1>0. ConfigurerTypeOK
  OBVIOUS
<1>1. /\ at[w] = "write .tmp" /\ at' = [at EXCEPT ![w] = "rename"]
      /\ UNCHANGED <<bak, data, saved, alone, mixed>>
      /\ data[w] \in Texts /\ data[w] \in Seq(Blocks)
      /\ Put(w, data[w])
  BY <1>0, ConfigurerAssumption DEF WriteTmp, Goto, ConfigurerTypeOK
<1>2. /\ cfg' \in Seq(Blocks)
      /\ tmp' = NoFile \/ tmp' \in Seq(Blocks)
      /\ tmp # NoFile => tmp' # NoFile
      /\ fd[w] = "tmp" => tmp' = Overlay(data[w], tmp)
      /\ fd[w] # "cfg" => cfg' = cfg
      /\ fd' \in [Writers -> {"none", "tmp", "cfg", "gone"}] /\ fd'[w] = "none"
      /\ \A v \in Writers \ {w} : fd'[v] = fd[v]
  BY <1>0, <1>1, PutFacts
<1>3. /\ at' \in [Writers -> Steps] /\ at'[w] = "rename"
      /\ \A v \in Writers \ {w} : at'[v] = at[v]
      /\ Using' = Using /\ w \in Using
  BY <1>0, <1>1 DEF ConfigurerTypeOK, Steps, Using
<1>4. ConfigurerTypeOK'
  <2>1. \A v \in Writers : /\ at'[v] # "idle" <=> data'[v] # <<>>
                           /\ at'[v] = "write .tmp" <=> fd'[v] # "none"
    <3> SUFFICES ASSUME NEW v \in Writers
                 PROVE  /\ at'[v] # "idle" <=> data'[v] # <<>>
                        /\ at'[v] = "write .tmp" <=> fd'[v] # "none"
      OBVIOUS
    <3>1. /\ at[v] # "idle" <=> data[v] # <<>>
          /\ at[v] = "write .tmp" <=> fd[v] # "none"
      BY <1>0 DEF ConfigurerTypeOK
    <3>2. CASE v = w
      BY <1>1, <1>2, <1>3, <3>1, <3>2
    <3>3. CASE v # w
      BY <1>1, <1>2, <1>3, <3>1, <3>3
    <3> QED
      BY <3>2, <3>3
  <2> QED
    BY <1>0, <1>1, <1>2, <1>3, <2>1 DEF ConfigurerTypeOK
<1>5. LoneWriterOwnsTmp'
  <2> SUFFICES ASSUME NEW v \in alone
               PROVE  Using' = {v} /\ at'[v] = "rename" /\ tmp' = data[v]
    BY <1>1 DEF LoneWriterOwnsTmp
  <2>1. v = w /\ Using' = {v}
    BY <1>3 DEF LoneWriterOwnsTmp
  <2>2. fd[w] = "tmp" /\ tmp = <<>>
    BY <1>1, <2>1 DEF LoneWriterOwnsTmp
  <2>3. tmp' = data[w]
    BY <1>1, <1>2, <2>2, OverlayFacts
  <2> QED
    BY <1>3, <2>1, <2>3
<1>6. DescriptorsOfTheFile'
  BY <1>1, <1>2 DEF DescriptorsOfTheFile
<1>7. OpenFilesExist'
  BY <1>1, <1>2, <1>3 DEF OpenFilesExist
<1>8. LoneWriteIsWhole'
  BY <1>1, <1>2 DEF LoneWriteIsWhole, DescriptorsOfTheFile
<1> QED
  BY <1>4, <1>5, <1>6, <1>7, <1>8

\* A failed write can leave part of a text behind, in .tmp or in the file of a
\* shared rename.
LEMMA WriteTmpFailsConfigurer ==
    ASSUME ConfigurerInv, NEW w \in Writers, NEW blocks \in 0..Len(data[w]), WriteTmpFails(w, blocks)
    PROVE  ConfigurerInv'
<1> USE DEF ConfigurerInv
<1>0. ConfigurerTypeOK
  OBVIOUS
<1>1. /\ at[w] = "write .tmp" /\ at' = [at EXCEPT ![w] = "idle"]
      /\ data' = [data EXCEPT ![w] = <<>>] /\ alone' = alone \ {w}
      /\ UNCHANGED <<bak, saved, mixed>>
      /\ data[w] \in Seq(Blocks)
      /\ Put(w, SubSeq(data[w], 1, blocks))
  BY <1>0, ConfigurerAssumption DEF WriteTmpFails, Goto, Leave, ConfigurerTypeOK
<1>2. /\ cfg' \in Seq(Blocks)
      /\ tmp' = NoFile \/ tmp' \in Seq(Blocks)
      /\ tmp # NoFile => tmp' # NoFile
      /\ fd[w] # "cfg" => cfg' = cfg
      /\ fd' \in [Writers -> {"none", "tmp", "cfg", "gone"}] /\ fd'[w] = "none"
      /\ \A v \in Writers \ {w} : fd'[v] = fd[v]
  <2>1. SubSeq(data[w], 1, blocks) \in Seq(Blocks)
    BY <1>1, PrefixFacts
  <2> QED
    BY <1>0, <1>1, <2>1, PutFacts
<1>3. /\ at' \in [Writers -> Steps] /\ at'[w] = "idle"
      /\ data' \in [Writers -> Texts \cup {<<>>}] /\ data'[w] = <<>>
      /\ \A v \in Writers \ {w} : at'[v] = at[v] /\ data'[v] = data[v]
      /\ Using' = Using \ {w} /\ w \in Using
  BY <1>0, <1>1 DEF ConfigurerTypeOK, Steps, Using
<1>4. ConfigurerTypeOK'
  <2>1. \A v \in Writers : /\ at'[v] # "idle" <=> data'[v] # <<>>
                           /\ at'[v] = "write .tmp" <=> fd'[v] # "none"
    <3> SUFFICES ASSUME NEW v \in Writers
                 PROVE  /\ at'[v] # "idle" <=> data'[v] # <<>>
                        /\ at'[v] = "write .tmp" <=> fd'[v] # "none"
      OBVIOUS
    <3>1. /\ at[v] # "idle" <=> data[v] # <<>>
          /\ at[v] = "write .tmp" <=> fd[v] # "none"
      BY <1>0 DEF ConfigurerTypeOK
    <3>2. CASE v = w
      BY <1>1, <1>2, <1>3, <3>1, <3>2
    <3>3. CASE v # w
      BY <1>1, <1>2, <1>3, <3>1, <3>3
    <3> QED
      BY <3>2, <3>3
  <2> QED
    BY <1>0, <1>1, <1>2, <1>3, <2>1 DEF ConfigurerTypeOK
<1>5. alone' = {}
  BY <1>1, <1>3 DEF LoneWriterOwnsTmp
<1>6. LoneWriterOwnsTmp'
  BY <1>5 DEF LoneWriterOwnsTmp
<1>7. DescriptorsOfTheFile'
  BY <1>1, <1>2 DEF DescriptorsOfTheFile
<1>8. OpenFilesExist'
  BY <1>1, <1>2, <1>3 DEF OpenFilesExist
<1>9. LoneWriteIsWhole'
  BY <1>1, <1>2 DEF LoneWriteIsWhole, DescriptorsOfTheFile
<1> QED
  BY <1>4, <1>6, <1>7, <1>8, <1>9

\* A lone writer's rename puts its text in place and leaves no descriptor of it;
\* a shared one may do anything, and is remembered in mixed.
LEMMA RenameConfigurer ==
    ASSUME ConfigurerInv, NEW w \in Writers, Rename(w)
    PROVE  ConfigurerInv'
<1> USE DEF ConfigurerInv
<1>0. ConfigurerTypeOK
  OBVIOUS
<1>1. /\ at[w] = "rename" /\ at' = [at EXCEPT ![w] = "idle"]
      /\ tmp # NoFile /\ cfg' = tmp /\ tmp' = NoFile /\ cfg' \in Seq(Blocks)
      /\ fd' = [v \in Writers |-> IF fd[v] = "tmp" THEN "cfg" ELSE IF fd[v] = "cfg" THEN "gone" ELSE fd[v]]
      /\ mixed' = (w \notin alone)
      /\ data' = [data EXCEPT ![w] = <<>>] /\ alone' = alone \ {w}
      /\ UNCHANGED <<bak, saved>>
  BY <1>0 DEF Rename, Goto, Leave, ConfigurerTypeOK
<1>2. /\ at' \in [Writers -> Steps] /\ at'[w] = "idle"
      /\ data' \in [Writers -> Texts \cup {<<>>}] /\ data'[w] = <<>>
      /\ \A v \in Writers \ {w} : at'[v] = at[v] /\ data'[v] = data[v]
      /\ Using' = Using \ {w} /\ w \in Using
  BY <1>0, <1>1 DEF ConfigurerTypeOK, Steps, Using
<1>3. /\ fd' \in [Writers -> {"none", "tmp", "cfg", "gone"}]
      /\ \A v \in Writers : fd'[v] # "tmp" /\ (fd'[v] = "none" <=> fd[v] = "none")
  BY <1>0, <1>1 DEF ConfigurerTypeOK
<1>4. mixed' \in BOOLEAN
  BY <1>1, Zenon
<1>5. ConfigurerTypeOK'
  <2>1. \A v \in Writers : /\ at'[v] # "idle" <=> data'[v] # <<>>
                           /\ at'[v] = "write .tmp" <=> fd'[v] # "none"
    <3> SUFFICES ASSUME NEW v \in Writers
                 PROVE  /\ at'[v] # "idle" <=> data'[v] # <<>>
                        /\ at'[v] = "write .tmp" <=> fd'[v] # "none"
      OBVIOUS
    <3>1. /\ at[v] # "idle" <=> data[v] # <<>>
          /\ at[v] = "write .tmp" <=> fd[v] # "none"
      BY <1>0 DEF ConfigurerTypeOK
    <3>2. CASE v = w
      BY <1>1, <1>2, <1>3, <3>1, <3>2
    <3>3. CASE v # w
      BY <1>1, <1>2, <1>3, <3>1, <3>3
    <3> QED
      BY <3>2, <3>3
  <2>2. alone' \subseteq Using'
    BY <1>0, <1>1, <1>2 DEF ConfigurerTypeOK
  <2> QED
    BY <1>0, <1>1, <1>2, <1>3, <1>4, <2>1, <2>2 DEF ConfigurerTypeOK
<1>6. alone' = {}
  BY <1>1, <1>2 DEF LoneWriterOwnsTmp
<1>7. LoneWriterOwnsTmp'
  BY <1>6 DEF LoneWriterOwnsTmp
<1>8. w \in alone => /\ \A v \in Writers : fd'[v] = "none"
                     /\ cfg' \in Texts
  <2> SUFFICES ASSUME w \in alone
               PROVE  (\A v \in Writers : fd[v] = "none") /\ tmp \in Texts
    BY <1>1, <1>3
  <2>1. Using = {w} /\ tmp = data[w]
    BY <1>1 DEF LoneWriterOwnsTmp
  <2>2. \A v \in Writers : at[v] # "write .tmp"
    BY <1>1, <2>1 DEF Using
  <2>3. data[w] \in Texts
    BY <1>0, <1>1 DEF ConfigurerTypeOK
  <2> QED
    BY <1>0, <2>1, <2>2, <2>3 DEF ConfigurerTypeOK
<1>9. DescriptorsOfTheFile'
  BY <1>1, <1>8 DEF DescriptorsOfTheFile
<1>10. OpenFilesExist'
  BY <1>1, <1>2, <1>3 DEF OpenFilesExist
<1>11. LoneWriteIsWhole'
  BY <1>1, <1>8 DEF LoneWriteIsWhole
<1> QED
  BY <1>5, <1>7, <1>9, <1>10, <1>11

LEMMA RenameFailsConfigurer ==
    ASSUME ConfigurerInv, NEW w \in Writers, RenameFails(w)
    PROVE  ConfigurerInv'
<1> USE DEF ConfigurerInv
<1>0. ConfigurerTypeOK
  OBVIOUS
<1>1. /\ at[w] = "rename" /\ at' = [at EXCEPT ![w] = "idle"]
      /\ data' = [data EXCEPT ![w] = <<>>] /\ alone' = alone \ {w}
      /\ UNCHANGED <<cfg, bak, tmp, saved, fd, mixed>>
  BY DEF RenameFails, Goto, Leave, files
<1>2. /\ at' \in [Writers -> Steps] /\ at'[w] = "idle"
      /\ data' \in [Writers -> Texts \cup {<<>>}] /\ data'[w] = <<>>
      /\ \A v \in Writers \ {w} : at'[v] = at[v] /\ data'[v] = data[v]
      /\ Using' = Using \ {w} /\ w \in Using
  BY <1>0, <1>1 DEF ConfigurerTypeOK, Steps, Using
<1>3. ConfigurerTypeOK'
  <2>1. \A v \in Writers : /\ at'[v] # "idle" <=> data'[v] # <<>>
                           /\ at'[v] = "write .tmp" <=> fd'[v] # "none"
    <3> SUFFICES ASSUME NEW v \in Writers
                 PROVE  /\ at'[v] # "idle" <=> data'[v] # <<>>
                        /\ at'[v] = "write .tmp" <=> fd'[v] # "none"
      OBVIOUS
    <3>1. /\ at[v] # "idle" <=> data[v] # <<>>
          /\ at[v] = "write .tmp" <=> fd[v] # "none"
      BY <1>0 DEF ConfigurerTypeOK
    <3>2. CASE v = w
      BY <1>1, <1>2, <3>1, <3>2
    <3>3. CASE v # w
      BY <1>1, <1>2, <3>1, <3>3
    <3> QED
      BY <3>2, <3>3
  <2> QED
    BY <1>0, <1>1, <1>2, <2>1 DEF ConfigurerTypeOK
<1>4. alone' = {}
  BY <1>1, <1>2 DEF LoneWriterOwnsTmp
<1>5. LoneWriterOwnsTmp' /\ DescriptorsOfTheFile' /\ LoneWriteIsWhole'
  BY <1>1, <1>4 DEF LoneWriterOwnsTmp, DescriptorsOfTheFile, LoneWriteIsWhole
<1>6. OpenFilesExist'
  BY <1>1, <1>2 DEF OpenFilesExist
<1> QED
  BY <1>3, <1>5, <1>6

\* A writer that leaves before it has opened .tmp is in nobody's way.
LEMMA OpenTmpFailsConfigurer ==
    ASSUME ConfigurerInv, NEW w \in Writers, OpenTmpFails(w)
    PROVE  ConfigurerInv'
<1> USE DEF ConfigurerInv
<1>0. ConfigurerTypeOK
  OBVIOUS
<1>1. /\ at[w] = "open .tmp" /\ at' = [at EXCEPT ![w] = "idle"]
      /\ data' = [data EXCEPT ![w] = <<>>] /\ alone' = alone \ {w}
      /\ UNCHANGED <<cfg, bak, tmp, saved, fd, mixed>>
  BY DEF OpenTmpFails, Goto, Leave, files
<1>2. /\ at' \in [Writers -> Steps] /\ at'[w] = "idle"
      /\ data' \in [Writers -> Texts \cup {<<>>}] /\ data'[w] = <<>>
      /\ \A v \in Writers \ {w} : at'[v] = at[v] /\ data'[v] = data[v]
      /\ Using' = Using /\ w \notin Using
  BY <1>0, <1>1 DEF ConfigurerTypeOK, Steps, Using
<1>3. ConfigurerTypeOK'
  <2>1. \A v \in Writers : /\ at'[v] # "idle" <=> data'[v] # <<>>
                           /\ at'[v] = "write .tmp" <=> fd'[v] # "none"
    <3> SUFFICES ASSUME NEW v \in Writers
                 PROVE  /\ at'[v] # "idle" <=> data'[v] # <<>>
                        /\ at'[v] = "write .tmp" <=> fd'[v] # "none"
      OBVIOUS
    <3>1. /\ at[v] # "idle" <=> data[v] # <<>>
          /\ at[v] = "write .tmp" <=> fd[v] # "none"
      BY <1>0 DEF ConfigurerTypeOK
    <3>2. CASE v = w
      BY <1>1, <1>2, <3>1, <3>2
    <3>3. CASE v # w
      BY <1>1, <1>2, <3>1, <3>3
    <3> QED
      BY <3>2, <3>3
  <2> QED
    BY <1>0, <1>1, <1>2, <2>1 DEF ConfigurerTypeOK
<1>4. alone' = alone /\ w \notin alone /\ alone \subseteq Writers
  <2>1. alone \subseteq Writers
    BY DEF LoneWriterOwnsTmp, Using
  <2>2. \A v \in alone : v \in Using
    BY DEF LoneWriterOwnsTmp
  <2>3. w \notin alone
    BY <1>2, <2>2
  <2>4. alone \ {w} = alone
    BY <2>3
  <2> QED
    BY <1>1, <2>1, <2>3, <2>4
<1>5. LoneWriterOwnsTmp' /\ DescriptorsOfTheFile' /\ LoneWriteIsWhole'
  <2>1. LoneWriterOwnsTmp'
    <3> SUFFICES ASSUME NEW v \in alone'
                 PROVE  /\ Using' = {v}
                        /\ at'[v] = "write .tmp" => fd'[v] = "tmp" /\ tmp' = <<>>
                        /\ at'[v] = "rename" => tmp' = data'[v]
      BY DEF LoneWriterOwnsTmp
    <3>1. v \in alone /\ v # w /\ v \in Writers
      BY <1>4
    <3>2. at'[v] = at[v] /\ data'[v] = data[v]
      BY <1>2, <3>1
    <3> QED
      BY <1>1, <1>2, <3>1, <3>2 DEF LoneWriterOwnsTmp
  <2> QED
    BY <1>1, <2>1 DEF DescriptorsOfTheFile, LoneWriteIsWhole
<1>6. OpenFilesExist'
  BY <1>1, <1>2 DEF OpenFilesExist
<1> QED
  BY <1>3, <1>5, <1>6

\* A crash closes every descriptor and leaves the files.
LEMMA CrashConfigurer ==
    ASSUME ConfigurerInv, Crash
    PROVE  ConfigurerInv'
<1> USE DEF ConfigurerInv
<1>1. ConfigurerTypeOK'
  BY EmptySeq DEF Crash, files, ConfigurerTypeOK, Steps
<1>2. LoneWriterOwnsTmp' /\ DescriptorsOfTheFile' /\ OpenFilesExist' /\ LoneWriteIsWhole'
  BY DEF Crash, files, LoneWriterOwnsTmp, DescriptorsOfTheFile, OpenFilesExist, LoneWriteIsWhole
<1> QED
  BY <1>1, <1>2

LEMMA NextConfigurer == ConfigurerInv /\ [ConfigurerNext]_cfgVars => ConfigurerInv'
<1> SUFFICES ASSUME ConfigurerInv, [ConfigurerNext]_cfgVars PROVE ConfigurerInv'
  OBVIOUS
<1>1. CASE UNCHANGED cfgVars
  BY <1>1 DEF cfgVars, files, ConfigurerInv, ConfigurerTypeOK, LoneWriterOwnsTmp,
     DescriptorsOfTheFile, OpenFilesExist, LoneWriteIsWhole, Using
<1>2. CASE ConfigurerNext
  BY <1>2, BackupConfigurer, OpenTmpConfigurer, WriteTmpConfigurer, WriteTmpFailsConfigurer,
     OpenTmpFailsConfigurer, RenameConfigurer, RenameFailsConfigurer, CrashConfigurer DEF ConfigurerNext
<1> QED
  BY <1>1, <1>2

LEMMA SpecConfigurer == ConfigurerSpec => []ConfigurerInv
  BY InitConfigurer, NextConfigurer, PTL DEF ConfigurerSpec
-----------------------------------------------------------------------------
\* The three files hold blocks of texts or do not exist, and a writer has .tmp
\* open exactly between its open and its write.
THEOREM ConfigurerTypeCorrect == ConfigurerSpec => []ConfigurerTypeOK
  BY SpecConfigurer, PTL DEF ConfigurerInv

\* With any number of writers, failing at any step and dying at any time, the
\* configuration file is one whole rendering unless it was put in place by a
\* writer that shared .tmp.
THEOREM LoneWritesAreWhole == ConfigurerSpec => []LoneWriteIsWhole
  BY SpecConfigurer, PTL DEF ConfigurerInv
=============================================================================
