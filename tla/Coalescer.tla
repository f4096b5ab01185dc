------------------------------ MODULE Coalescer ------------------------------
(***************************************************************************)
(* What the proxier expects of a RateLimitedFunction: requests that arrive   *)
(* before the next run are served by it together, at most one run is under   *)
(* way, and every request is followed by a run that starts after it.  When   *)
(* that run starts is left open.                                             *)
(***************************************************************************)
VARIABLES pending,   \* a request waits for a run
          running    \* a run is under way

cVars == <<pending, running>>

CInit == pending = FALSE /\ running = FALSE

Request == pending' = TRUE /\ UNCHANGED running

\* A request that comes just before the run starts may get one of its own.
Start(again) ==
    /\ pending /\ ~running
    /\ running' = TRUE
    /\ pending' = again

Finish == running /\ running' = FALSE /\ UNCHANGED pending

CNext == Request \/ (\E again \in BOOLEAN : Start(again)) \/ Finish

CSpec == CInit /\ [][CNext]_cVars

FairCSpec == CSpec /\ WF_cVars(\E again \in BOOLEAN : Start(again))
=============================================================================
