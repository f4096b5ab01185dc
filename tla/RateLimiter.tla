----------------------------- MODULE RateLimiter -----------------------------
(***************************************************************************)
(* util/ratelimiter/ratelimiter.go: a handler that runs at most once per     *)
(* interval however often it is asked for.  One goroutine pops a request,    *)
(* looks at the backoff, and either puts the request back (and so spins) or  *)
(* runs the handler.  The queue is a FIFO with one key: a request is in it   *)
(* or it is not.                                                             *)
(***************************************************************************)
EXTENDS Backoff

CONSTANTS backOffKey,    \* the one key in use
          MaxSetBacks,   \* bound: how often the clock is set back
          CorrectBy      \* by how much it is set back or forward

ASSUME RateLimiterAssumption == Ids = {backOffKey} /\ MaxSetBacks \in Nat /\ CorrectBy \in Nat

VARIABLES
    queued,    \* the FIFO holds a request
    step,      \* the goroutine: "pop", "check", "handler" or "next"
    setBacks,  \* how often the clock has been set back
    since,     \* history: time since the handler last returned, up to a bound
    ahead      \* history: by how much the clock was set forward since, up to Expired

rlVars == <<perItemBackoff, queued, step, setBacks, since, ahead>>

NewRateLimitedFunction ==
    /\ NewBackOff
    /\ queued = FALSE
    /\ step = "pop"
    /\ setBacks = 0
    /\ since = Expired + defaultDuration
    /\ ahead = 0

Invoke ==
    /\ queued' = TRUE
    /\ UNCHANGED <<perItemBackoff, step, setBacks, since, ahead>>

Pop ==
    /\ step = "pop"
    /\ queued
    /\ queued' = FALSE
    /\ step' = "check"
    /\ UNCHANGED <<perItemBackoff, setBacks, since, ahead>>

(***************************************************************************)
(* handleOne.  While the key is in backoff the request goes back into the    *)
(* queue, unless another has been put there in the meantime.                 *)
(***************************************************************************)
MutantDropsInBackOff ==
    /\ step = "check"
    /\ IsInBackOffSinceUpdate(backOffKey)
    /\ step' = "pop"
    /\ UNCHANGED <<perItemBackoff, queued, setBacks, since, ahead>>

PutBack ==
    /\ step = "check"
    /\ IsInBackOffSinceUpdate(backOffKey)
    /\ queued' = TRUE
    /\ step' = "pop"
    /\ UNCHANGED <<perItemBackoff, setBacks, since, ahead>>

RunHandler ==
    /\ step = "check"
    /\ ~IsInBackOffSinceUpdate(backOffKey)
    /\ step' = "handler"
    /\ UNCHANGED <<perItemBackoff, queued, setBacks, since, ahead>>

\* The handler's error is only logged.
HandlerReturns ==
    /\ step = "handler"
    /\ step' = "next"
    /\ since' = 0
    /\ ahead' = 0
    /\ UNCHANGED <<perItemBackoff, queued, setBacks>>

\* wait.Until recovers: the backoff is not moved and the request is gone.
HandlerPanics ==
    /\ step = "handler"
    /\ step' = "pop"
    /\ UNCHANGED <<perItemBackoff, queued, setBacks, since, ahead>>

MoveBackOff ==
    /\ step = "next"
    /\ Next(backOffKey)
    /\ step' = "pop"
    /\ UNCHANGED <<queued, setBacks, since, ahead>>

TimePasses ==
    /\ Tick
    /\ since' = IF since < Expired + defaultDuration THEN since + 1 ELSE since
    /\ UNCHANGED <<queued, step, setBacks, ahead>>

ClockSetBack(older) ==
    /\ setBacks < MaxSetBacks
    /\ SetBack(CorrectBy, older)
    /\ setBacks' = setBacks + 1
    /\ UNCHANGED <<queued, step, since, ahead>>

ClockSetForward ==
    /\ SetForward(CorrectBy)
    /\ ahead' = Smaller(ahead + CorrectBy, Expired)
    /\ UNCHANGED <<queued, step, setBacks, since>>

Goroutine == Pop \/ PutBack \/ RunHandler \/ HandlerReturns \/ HandlerPanics \/ MoveBackOff

RateLimiterNext ==
    \/ Invoke
    \/ Goroutine
    \/ TimePasses
    \/ \E older \in BOOLEAN : ClockSetBack(older)
    \/ ClockSetForward

RateLimiterSpec == NewRateLimitedFunction /\ [][RateLimiterNext]_rlVars

(***************************************************************************)
(* Fairness: the goroutine loops in wait.Until and reload scripts end, so it *)
(* does what it can; time goes on.  Nothing makes callers Invoke.            *)
(***************************************************************************)
FairRateLimiterSpec == RateLimiterSpec /\ WF_rlVars(Goroutine) /\ WF_rlVars(TimePasses)
-----------------------------------------------------------------------------
RateLimiterTypeOK ==
    /\ BackoffTypeOK
    /\ queued \in BOOLEAN
    /\ step \in {"pop", "check", "handler", "next"}
    /\ setBacks \in 0..MaxSetBacks
    /\ since \in 0..(Expired + defaultDuration)
    /\ ahead \in 0..Expired
    /\ \A id \in Ids : perItemBackoff[id] # NoEntry =>
          perItemBackoff[id].age >= 0 - setBacks * CorrectBy

C == INSTANCE Coalescer WITH pending <- queued \/ step = "check",
                             running <- step \in {"handler", "next"}

\* A rate limiter is a coalescer: however requests, the spinning goroutine,
\* panics and a clock that is set back or forward interleave, no request is
\* lost and each is followed by a run.
ImplementsCoalescer == C!FairCSpec

\* "Controls how often haproxy reload is invoked" (options.go, README): the
\* handler starts no earlier than an interval after it last returned, less what
\* the wall clock has been set forward by since.
IntervalIsKept ==
    [][step = "check" /\ step' = "handler" => since + ahead >= defaultDuration]_rlVars
=============================================================================
