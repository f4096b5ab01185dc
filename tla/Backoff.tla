------------------------------- MODULE Backoff -------------------------------
(***************************************************************************)
(* util/flowcontrol/backoff.go: the time a key has to wait since its last    *)
(* use.  Every method holds the mutex, so a call is one action.              *)
(*                                                                         *)
(* An entry keeps its age, the time since lastUpdate by the wall clock, and  *)
(* not lastUpdate itself.  Every age above twice maxDuration has expired and *)
(* gives the same answers, so ages stop at Expired.  The callers pass the    *)
(* current time as eventTime.  Get, IsInBackOffSince, Reset, DeleteEntry and *)
(* GC have no caller in the program and are left out.                        *)
(***************************************************************************)
EXTENDS Integers

CONSTANTS Ids,               \* the keys
          defaultDuration,   \* backoff of a new entry: the reload interval
          maxDuration,       \* maxBackOffPeriod
          NoEntry            \* no entry in the map

ASSUME BackoffAssumption ==
    /\ defaultDuration \in Nat /\ maxDuration \in Nat \ {0}
    /\ NoEntry \notin [backoff : Nat, age : Int]

VARIABLE perItemBackoff      \* id -> entry

NewBackOff == perItemBackoff = [id \in Ids |-> NoEntry]

Expired == 2 * maxDuration + 1

Smaller(a, b) == IF a < b THEN a ELSE b

hasExpired(entry) == entry.age > 2 * maxDuration

MutantUpdateInTheFuture == [backoff |-> defaultDuration, age |-> 0 - defaultDuration]

\* initEntryUnsafe
initEntry == [backoff |-> defaultDuration, age |-> 0]

MutantNextKeepsUpdate(id) ==
    perItemBackoff' = [perItemBackoff EXCEPT ![id] =
        IF @ = NoEntry THEN initEntry ELSE IF hasExpired(@) THEN initEntry ELSE @]

Next(id) ==
    perItemBackoff' = [perItemBackoff EXCEPT ![id] =
        IF @ = NoEntry THEN initEntry
        ELSE IF hasExpired(@) THEN initEntry ELSE [@ EXCEPT !.age = 0]]

IsInBackOffSinceUpdate(id) ==
    LET entry == perItemBackoff[id] IN
    /\ entry # NoEntry
    /\ ~hasExpired(entry)
    /\ entry.age < entry.backoff

(***************************************************************************)
(* The clock moves on by one.                                                *)
(***************************************************************************)
Tick ==
    perItemBackoff' = [id \in Ids |->
        IF perItemBackoff[id] = NoEntry THEN NoEntry
        ELSE [perItemBackoff[id] EXCEPT !.age = IF @ < Expired THEN @ + 1 ELSE @]]

(***************************************************************************)
(* The clock is set back by d (time.Time has no monotonic reading).  An age  *)
(* at Expired stands for every larger one too, so it may also stay there.    *)
(***************************************************************************)
SetBack(d, older) ==
    perItemBackoff' = [id \in Ids |->
        IF perItemBackoff[id] = NoEntry THEN NoEntry
        ELSE [perItemBackoff[id] EXCEPT !.age = IF older /\ @ = Expired THEN @ ELSE @ - d]]

(***************************************************************************)
(* The clock is set forward by d.                                            *)
(***************************************************************************)
SetForward(d) ==
    perItemBackoff' = [id \in Ids |->
        IF perItemBackoff[id] = NoEntry THEN NoEntry
        ELSE [perItemBackoff[id] EXCEPT !.age = Smaller(@ + d, Expired)]]
-----------------------------------------------------------------------------
BackoffTypeOK ==
    perItemBackoff \in [Ids -> [backoff : Nat, age : Int] \cup {NoEntry}]

\* "move backoff to the next mark, capping at maxDuration" (comment on Next;
\* TestSlowBackoff expects 1, 2, 4, 8, ...): Next doubles a live entry.
NextMovesToTheNextMark ==
    [][\A id \in Ids :
         Next(id) /\ perItemBackoff[id] # NoEntry /\ perItemBackoff'[id] # perItemBackoff[id] =>
            \/ hasExpired(perItemBackoff[id])
            \/ perItemBackoff'[id].backoff = Smaller(2 * perItemBackoff[id].backoff, maxDuration)
      ]_perItemBackoff
=============================================================================
