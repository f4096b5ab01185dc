------------------------------- MODULE Failover -------------------------------
(***************************************************************************)
(* From the proxier's tables to the two configuration files: the handlers    *)
(* (called by the controller's goroutines under c.lock) and their commit     *)
(* calls, one goroutine per rate limiter that serves commit requests, and    *)
(* the controller's signal goroutine that runs SetMaster on SIGUSR1 and      *)
(* SIGUSR2, without a lock.                                                  *)
(*                                                                         *)
(* commitAndReloadKeepalived and commitAndReloadHaproxy are the same three   *)
(* steps, run by a rate limiter's goroutine or inside SetMaster(true):       *)
(* render under proxier.lock, write the file, run the reload script, the     *)
(* last two without the lock.  Each step can fail, and an error only reaches *)
(* the log.  How long a request waits is the rate limiter's affair           *)
(* (handleOne puts it back during the backoff); here it may be served at any *)
(* time.  WriteConfig replaces the file in one rename.                       *)
(***************************************************************************)
EXTENDS Proxier

CONSTANTS ServiceInputs, EndpointsInputs    \* the objects that events carry

ASSUME FailoverAssumption ==
    ServiceInputs \subseteq Service /\ EndpointsInputs \subseteq Endpoints

\* A goroutine is named after the file it writes, or "signal".
Goroutines == Files \cup {"signal"}

VARIABLES
    at,        \* goroutine -> its step: see Steps
    target,    \* the file the signal goroutine is at
    bytes,     \* goroutine -> the configuration it has rendered
    file,      \* the configuration files on disk
    loaded,    \* the files whose daemon has loaded what is on disk
    failed,    \* history: the files whose reload script has failed since the write
    excused    \* history: the files that have a reason to be out of date

failVars == <<at, target, bytes, file, loaded, failed, excused>>
vars == <<proxierVars, failVars>>

Steps == {"idle", "render", "write", "reload", "set"}

(***************************************************************************)
(* The rendered text.  keepalived.*.template lists the VIPs.                 *)
(* haproxy.cfg.template has a frontend and its backend for each unit whose   *)
(* cluster IP is on the device (hasIP).                                      *)
(***************************************************************************)
Keepalived(vips) == [ips |-> vips, routes |-> {}]
Haproxy(ips) ==
    [ips |-> ips,
     routes |-> {<<np[1], np[2], routeTable[np[1]][np[2]]>> : np \in
                    {np \in Names \X Ports : /\ routeTable[np[1]][np[2]] # NoUnit
                                             /\ oldInfo(np[1], np[2]).clusterIP \in ips}}]

\* What rendering f gives now; ips are the addresses GetAddrs found.
Rendered(f, ips) == IF f = "keepalived" THEN Keepalived(vipTable) ELSE Haproxy(ips)

\* A configuration that says what the table says (for the addresses it was
\* rendered with).
Fresh(f, conf) == conf = Rendered(f, conf.ips)

NoConf == [ips |-> {}, routes |-> {}]
Conf == [ips : SUBSET VIPs, routes : SUBSET (Names \X Ports \X Unit)]

Target(g) == IF g = "signal" THEN target ELSE g
Req(f) == IF f = "keepalived" THEN keepalivedReq ELSE haproxyReq

\* The goroutines that have rendered f and not written it yet.
Writers(f) == {g \in Goroutines : Target(g) = f /\ at[g] = "write"}

\* The file says what its table says, or is going to: a handler has yet to
\* call its commit, a request is queued, a goroutine is about to render it, or
\* what is about to be written over it is right.
Attended(f) ==
    \/ f \in calls \cup passed
    \/ Req(f)
    \/ \E g \in Goroutines : Target(g) = f /\ at[g] = "render"
    \/ /\ \A g \in Writers(f) : Fresh(f, bytes[g])
       /\ Writers(f) = {} => Fresh(f, file[f])

Init ==
    /\ NewProxier
    /\ at = [g \in Goroutines |-> "idle"]
    /\ target = "keepalived"
    /\ bytes = [g \in Goroutines |-> NoConf]
    /\ file = [f \in Files |-> NoConf]
    /\ loaded = Files
    /\ failed = {}
    /\ excused = {}
-----------------------------------------------------------------------------
(***************************************************************************)
(* A handler, and its commit calls.  A call that is skipped, because the     *)
(* node is BACKUP or a list is being consumed, may leave its file behind.    *)
(***************************************************************************)
Event(handled) ==
    /\ \E skip \in BOOLEAN : SetSkipCommit(skip)
    /\ handled
    /\ UNCHANGED failVars

CommitCall(f) ==
    /\ \/ f = "keepalived" /\ commitKeepalived
       \/ f = "haproxy" /\ commitHaproxy
    /\ UNCHANGED <<at, target, bytes, file, loaded, failed>>
    /\ excused' = excused \cup {h \in {f} : ~MayCommit /\ ~Attended(h)'}

InvokeCommit == Invoke /\ UNCHANGED failVars

HandlerReturns == Unlock /\ UNCHANGED failVars

MutantHandleOneOverlaps(f) ==
    /\ at[f] # "render"
    /\ Req(f)
    /\ at' = [at EXCEPT ![f] = "render"]
    /\ IF f = "keepalived" THEN keepalivedReq' = FALSE /\ UNCHANGED haproxyReq
                           ELSE haproxyReq' = FALSE /\ UNCHANGED keepalivedReq
    /\ bytes' = [bytes EXCEPT ![f] = NoConf]
    /\ UNCHANGED <<tableVars, handlerVars, master, skipCommit, target, file, loaded, failed, excused>>

\* handleOne: FIFO.Pop takes the request out before the handler runs.
handleOne(f) ==
    /\ at[f] = "idle"
    /\ Req(f)
    /\ at' = [at EXCEPT ![f] = "render"]
    /\ IF f = "keepalived" THEN keepalivedReq' = FALSE /\ UNCHANGED haproxyReq
                           ELSE haproxyReq' = FALSE /\ UNCHANGED keepalivedReq
    /\ UNCHANGED <<tableVars, handlerVars, master, skipCommit, target, bytes, file, loaded, failed, excused>>

MutantAfterCommitForgetsWorkers(g) ==
    IF target = "keepalived" THEN at' = [at EXCEPT ![g] = "render"] /\ target' = "haproxy"
    ELSE at' = [at EXCEPT ![g] = "set"] /\ UNCHANGED target

\* Where a goroutine goes when its commitAndReload returns.
AfterCommit(g) ==
    IF g # "signal" THEN at' = [at EXCEPT ![g] = "idle"] /\ UNCHANGED target
    ELSE IF target = "keepalived" THEN at' = [at EXCEPT ![g] = "render"] /\ target' = "haproxy"
    ELSE at' = [at EXCEPT ![g] = "set"] /\ UNCHANGED target

\* Another goroutine has rendered the file and not written it yet.
Overlaps(g) == Writers(Target(g)) \ {g} # {}

\* Under proxier.lock, so between two handlers.
Render(g, ips) ==
    /\ at[g] = "render"
    /\ ~locked
    /\ bytes' = [bytes EXCEPT ![g] = Rendered(Target(g), ips)]
    /\ at' = [at EXCEPT ![g] = "write"]
    /\ excused' = IF Overlaps(g) THEN excused \cup {Target(g)} ELSE excused \ {Target(g)}
    /\ UNCHANGED <<proxierVars, target, file, loaded, failed>>

MutantWriteDropsRequest(g) ==
    /\ at[g] = "write"
    /\ file' = [file EXCEPT ![Target(g)] = bytes[g]]
    /\ loaded' = loaded \ {Target(g)}
    /\ keepalivedReq' = (keepalivedReq /\ Target(g) # "keepalived")
    /\ haproxyReq' = (haproxyReq /\ Target(g) # "haproxy")
    /\ bytes' = [bytes EXCEPT ![g] = NoConf]
    /\ at' = [at EXCEPT ![g] = "reload"]
    /\ failed' = failed \ {Target(g)}
    /\ UNCHANGED <<tableVars, handlerVars, master, skipCommit, target, excused>>

MutantWriteSkipsReload(g) ==
    /\ at[g] = "write"
    /\ file' = [file EXCEPT ![Target(g)] = bytes[g]]
    /\ loaded' = loaded \ {Target(g)}
    /\ failed' = failed \ {Target(g)}
    /\ bytes' = [bytes EXCEPT ![g] = NoConf]
    /\ AfterCommit(g)
    /\ UNCHANGED <<proxierVars, excused>>

WriteConfig(g) ==
    /\ at[g] = "write"
    /\ file' = [file EXCEPT ![Target(g)] = bytes[g]]
    /\ loaded' = loaded \ {Target(g)}
    /\ failed' = failed \ {Target(g)}
    /\ bytes' = [bytes EXCEPT ![g] = NoConf]
    /\ at' = [at EXCEPT ![g] = "reload"]
    /\ UNCHANGED <<proxierVars, target, excused>>

RunScript(g) ==
    /\ at[g] = "reload"
    /\ loaded' = loaded \cup {Target(g)}
    /\ failed' = failed \ {Target(g)}
    /\ AfterCommit(g)
    /\ UNCHANGED <<proxierVars, bytes, file, excused>>

\* An unreadable template, a failed GetAddrs, write, rename or script.
CommitFails(g) ==
    /\ at[g] \in {"render", "write", "reload"}
    /\ AfterCommit(g)
    /\ bytes' = [bytes EXCEPT ![g] = NoConf]
    /\ failed' = IF at[g] = "reload" THEN failed \cup ({Target(g)} \ loaded) ELSE failed
    /\ excused' = excused \cup {Target(g)}
    /\ UNCHANGED <<proxierVars, file, loaded>>

(***************************************************************************)
(* SetMaster.  SIGUSR1 may come at any time, also when the node is MASTER.   *)
(* No lock is held, so a handler may be anywhere between its commit calls.   *)
(***************************************************************************)
SetMasterTrue ==
    /\ at["signal"] = "idle"
    /\ at' = [at EXCEPT !["signal"] = "render"]
    /\ UNCHANGED <<proxierVars, target, bytes, file, loaded, failed, excused>>

MasterSet ==
    /\ at["signal"] = "set"
    /\ at' = [at EXCEPT !["signal"] = "idle"]
    /\ target' = "keepalived"
    /\ master' = TRUE
    /\ UNCHANGED <<tableVars, handlerVars, reqVars, skipCommit, bytes, file, loaded, failed, excused>>

SetMasterFalse ==
    /\ at["signal"] = "idle"
    /\ master' = FALSE
    /\ UNCHANGED <<tableVars, handlerVars, reqVars, skipCommit, failVars>>

\* What follows a handler's table accesses.
HandlerGoesOn == (\E f \in Files : CommitCall(f)) \/ InvokeCommit \/ HandlerReturns

\* The rate limiters' goroutines and the signal goroutine.
CommitSteps ==
    \/ \E f \in Files : handleOne(f)
    \/ \E g \in Goroutines :
          \/ \E ips \in SUBSET VIPs : Render(g, ips)
          \/ WriteConfig(g)
          \/ RunScript(g)

SetMaster == SetMasterTrue \/ MasterSet \/ SetMasterFalse

NoFailureNext ==
    \/ \E type \in EventTypes, n \in Names :
          \/ \E s \in ServiceInputs : Event(HandleService(type, n, s))
          \/ \E e \in EndpointsInputs : Event(HandleEndpoints(type, n, e))
    \/ HandlerGoesOn
    \/ CommitSteps
    \/ SetMaster

Next == NoFailureNext \/ \E g \in Goroutines : CommitFails(g)

Spec == Init /\ [][Next]_vars
NoFailureSpec == Init /\ [][NoFailureNext]_vars
-----------------------------------------------------------------------------
FailoverTypeOK ==
    /\ ProxierTypeOK
    /\ at \in [Goroutines -> Steps]
    /\ \A f \in Files : at[f] # "set"
    /\ target \in Files
    /\ at["signal"] = "idle" => target = "keepalived"
    /\ at["signal"] = "set" => target = "haproxy"
    /\ bytes \in [Goroutines -> Conf] /\ file \in [Files -> Conf]
    /\ \A g \in Goroutines : at[g] # "write" => bytes[g] = NoConf
    /\ loaded \in SUBSET Files
    /\ failed \in SUBSET Files
    /\ excused \in SUBSET Files

\* No committed change is lost between the tables and a file, however events,
\* the commit calls of a handler, two goroutines and SetMaster interleave: a
\* file that does not say what its table says, and is not going to, has one of
\* three excuses: the commit was skipped, a step failed, or two goroutines
\* wrote at once.
CommitsReachTheFile == \A f \in Files : Attended(f) \/ f \in excused

\* A daemon is never left with a configuration other than the one on disk: a
\* goroutine is on its way to the reload script, or the script has failed.
DaemonsFollowFiles ==
    \A f \in Files :
        f \in loaded \cup failed \/ \E g \in Goroutines : Target(g) = f /\ at[g] = "reload"

\* A MASTER's file that nothing is going to bring up to date before the next
\* event, though no list is being consumed.
Stranded(f) == master /\ ~skipCommit /\ ~Attended(f)

\* The event that ends the lists: it calls no commitKeepalived for the
\* addresses the lists held back, and if its handler returns early (it has not
\* taken the lock) no commitHaproxy either.
ListsEnd(f) == skipCommit /\ ~skipCommit' /\ (f = "haproxy" => ~locked')

\* However events, failovers and failures interleave, a MASTER's file is left
\* behind its table in four ways only: a failed step; two goroutines that write
\* it at once; a master.Set, if an event or a failure has put the file behind
\* since SetMaster committed it; the event that ends the lists.  Every other
\* event that ends the lists commits all the route changes they held back.
OnlyGapsStrandFiles ==
    [][\A f \in Files : Stranded(f)' /\ ~Stranded(f) =>
          \/ ListsEnd(f)
          \/ MasterSet
          \/ \E g \in Goroutines :
                /\ Target(g) = f
                /\ CommitFails(g) \/ (at[g] = "render" /\ at'[g] = "write" /\ Overlaps(g))
      ]_vars

KC == INSTANCE Coalescer WITH pending <- keepalivedReq, running <- at["keepalived"] # "idle"
HC == INSTANCE Coalescer WITH pending <- haproxyReq, running <- at["haproxy"] # "idle"

\* The requests and the goroutines of this module are two coalescers, which is
\* what RateLimiter shows of the code behind them: one commit of a file at a
\* time, started for a request, and no request withdrawn.
RateLimitersCoalesce == KC!CSpec /\ HC!CSpec

\* Commits of f asked for or being made by its rate limiter, and the one a
\* handler is about to ask for.
Outstanding(f) ==
    (IF f \in passed THEN 1 ELSE 0) + (IF Req(f) THEN 1 ELSE 0) + (IF at[f] = "idle" THEN 0 ELSE 1)

\* A node that has become BACKUP winds down: for each daemon it finishes at
\* most the commit being made, the one asked for and the one a handler is about
\* to ask for because it has read MASTER; no event, failure or unfinished
\* SetMaster adds to them.
BackupWindsDown ==
    [][~master /\ ~master' => \A f \in Files : Outstanding(f)' <= Outstanding(f)]_vars

\* "the Proxier only reload when in MASTER state" (comment on Proxier.master):
\* a queued request is not served once the node is BACKUP.
OnlyMasterReloads ==
    [][\A f \in Files : at[f] = "idle" /\ at'[f] = "render" => master]_vars

\* "When we transfered to MASTER we need to sync configuration manually"
\* (comment in SetMaster): once a MASTER has nothing left to do and no list
\* is being consumed, the files say what the tables say.
MasterIsSynced ==
    /\ master /\ ~skipCommit /\ ~locked /\ ~keepalivedReq /\ ~haproxyReq
    /\ \A g \in Goroutines : at[g] = "idle"
    => Fresh("keepalived", file["keepalived"])
=============================================================================
