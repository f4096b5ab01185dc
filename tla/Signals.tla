------------------------------- MODULE Signals -------------------------------
(***************************************************************************)
(* How a node learns that it is MASTER: keepalived runs scripts/notify.sh at *)
(* every VRRP transition, the script sends SIGUSR1 or SIGUSR2, os/signal     *)
(* forwards it to a channel of two (registerOSSignals), and one goroutine of *)
(* the controller takes it out and runs SetMaster, which on SIGUSR1 commits  *)
(* both files with a sleep in between before it sets master.                 *)
(*                                                                         *)
(* Scripts of different transitions run side by side.  A signal that is      *)
(* pending is not queued a second time, and pending signals are taken in any *)
(* order.  FAULT sends what BACKUP sends.                                    *)
(***************************************************************************)
EXTENDS Naturals, Sequences

CONSTANTS ChannelSize,      \* capacity of the signal channel
          MaxTransitions,   \* bound: VRRP transitions
          MaxCrashes        \* bound: deaths of the process

ASSUME SignalsAssumption ==
    ChannelSize \in Nat \ {0} /\ MaxTransitions \in Nat /\ MaxCrashes \in Nat

USR1 == "SIGUSR1"
USR2 == "SIGUSR2"
SignalSet == {USR1, USR2}

VARIABLES
    vrrp,         \* keepalived: "MASTER" or "BACKUP"
    transitions,  \* how many there have been
    scripts,      \* states whose notify.sh has not run yet
    proc,         \* kube2haproxy: "down", "starting" or "running"
    crashes,      \* how often it has died
    pending,      \* signals sent and not yet forwarded
    signalCh,     \* the channel
    at,           \* signal goroutine: "receive" or the next step of SetMaster(true)
    master,       \* proxier.master
    disturbed     \* history: why master may be wrong: see Excuses

envVars == <<vrrp, transitions, scripts>>
procVars == <<proc, crashes, pending, signalCh, at, master>>
sigVars == <<envVars, procVars, disturbed>>

SetMasterSteps == {"keepalived", "sleep", "haproxy", "set"}

\* Signals in the wrong order or merged, dropped at the full channel, sent to
\* no process or to one that has not registered, forgotten by a crash.
Excuses == {"race", "drop", "lost", "crash"}

Init ==
    /\ vrrp = "BACKUP" /\ transitions = 0 /\ scripts = <<>>
    /\ proc = "starting" /\ crashes = 0
    /\ pending = {} /\ signalCh = <<>> /\ at = "receive"
    /\ master = FALSE
    /\ disturbed = {}
-----------------------------------------------------------------------------
VRRPTransition ==
    /\ transitions < MaxTransitions
    /\ transitions' = transitions + 1
    /\ vrrp' = IF vrrp = "MASTER" THEN "BACKUP" ELSE "MASTER"
    /\ scripts' = Append(scripts, vrrp')
    /\ UNCHANGED <<procVars, disturbed>>

SignalFor(state) == IF state = "MASTER" THEN USR1 ELSE USR2

Without(s, i) == SubSeq(s, 1, i - 1) \o SubSeq(s, i + 1, Len(s))

\* notify.sh.  Without a process it does nothing, and a process that has not
\* called signal.Notify yet ignores the signal.
Notify(i) ==
    /\ i \in 1..Len(scripts)
    /\ scripts' = Without(scripts, i)
    /\ pending' = IF proc = "running" THEN pending \cup {SignalFor(scripts[i])} ELSE pending
    /\ disturbed' = disturbed
         \cup (IF i # 1 \/ pending # {} THEN {"race"} ELSE {})
         \cup (IF proc # "running" THEN {"lost"} ELSE {})
    /\ UNCHANGED <<vrrp, transitions, proc, crashes, signalCh, at, master>>

MutantForwardOverfills(sig) ==
    /\ proc = "running"
    /\ sig \in pending
    /\ pending' = pending \ {sig}
    /\ signalCh' = IF Len(signalCh) <= ChannelSize THEN Append(signalCh, sig) ELSE signalCh
    /\ disturbed' = IF Len(signalCh) <= ChannelSize THEN disturbed ELSE disturbed \cup {"drop"}
    /\ UNCHANGED <<envVars, proc, crashes, at, master>>

MutantForwardOvertakes(sig) ==
    /\ proc = "running"
    /\ sig \in pending
    /\ pending' = pending \ {sig}
    /\ signalCh' = IF Len(signalCh) < ChannelSize THEN <<sig>> \o signalCh ELSE signalCh
    /\ disturbed' = IF Len(signalCh) < ChannelSize THEN disturbed ELSE disturbed \cup {"drop"}
    /\ UNCHANGED <<envVars, proc, crashes, at, master>>

\* os/signal sends without blocking: a full channel drops the signal.
Forward(sig) ==
    /\ proc = "running"
    /\ sig \in pending
    /\ pending' = pending \ {sig}
    /\ signalCh' = IF Len(signalCh) < ChannelSize THEN Append(signalCh, sig) ELSE signalCh
    /\ disturbed' = IF Len(signalCh) < ChannelSize THEN disturbed ELSE disturbed \cup {"drop"}
    /\ UNCHANGED <<envVars, proc, crashes, at, master>>
-----------------------------------------------------------------------------
(***************************************************************************)
(* The goroutine of ProxyController.Run.                                     *)
(***************************************************************************)
\* sig := <-signalCh, with SetMaster(false) when it is SIGUSR2.
Receive ==
    /\ proc = "running" /\ at = "receive"
    /\ signalCh # <<>>
    /\ signalCh' = Tail(signalCh)
    /\ IF Head(signalCh) = USR1
         THEN at' = "keepalived" /\ UNCHANGED master
         ELSE master' = FALSE /\ UNCHANGED at
    /\ UNCHANGED <<envVars, proc, crashes, pending, disturbed>>

MutantSleepNeverEnds ==
    [keepalived |-> "sleep", sleep |-> "sleep", haproxy |-> "set", set |-> "receive"]

AfterStep == [keepalived |-> "sleep", sleep |-> "haproxy", haproxy |-> "set", set |-> "receive"]

\* SetMaster(true): both commits, whose errors are ignored, the sleep between
\* them, and the assignment.
SetMasterStep ==
    /\ proc = "running" /\ at \in SetMasterSteps
    /\ at' = AfterStep[at]
    /\ master' = (master \/ at = "set")
    /\ UNCHANGED <<envVars, proc, crashes, pending, signalCh, disturbed>>
-----------------------------------------------------------------------------
\* A panic in this goroutine (nothing recovers it), a Fatalf, or a kill.
Crash ==
    /\ proc # "down"
    /\ crashes < MaxCrashes
    /\ crashes' = crashes + 1
    /\ proc' = "down"
    /\ pending' = {} /\ signalCh' = <<>> /\ at' = "receive"
    /\ master' = FALSE
    /\ disturbed' = disturbed \cup {"crash"}
    /\ UNCHANGED envVars

Start ==
    /\ proc = "down"
    /\ proc' = "starting"
    /\ UNCHANGED <<envVars, crashes, pending, signalCh, at, master, disturbed>>

registerOSSignals ==
    /\ proc = "starting"
    /\ proc' = "running"
    /\ UNCHANGED <<envVars, crashes, pending, signalCh, at, master, disturbed>>

Goroutine == Receive \/ SetMasterStep

Boot == Start \/ registerOSSignals

Next ==
    \/ VRRPTransition
    \/ \E i \in 1..MaxTransitions : Notify(i)
    \/ \E sig \in SignalSet : Forward(sig)
    \/ Goroutine
    \/ Crash
    \/ Boot

(***************************************************************************)
(* Fairness: a script that was started runs, pending signals are forwarded,  *)
(* a supervisor starts a dead process again, and the goroutine goes on: the  *)
(* reload scripts end.                                                       *)
(***************************************************************************)
Fairness ==
    /\ WF_sigVars(\E i \in 1..MaxTransitions : Notify(i))
    /\ \A sig \in SignalSet : WF_sigVars(Forward(sig))
    /\ WF_sigVars(Goroutine)
    /\ WF_sigVars(Boot)

SignalsSpec == Init /\ [][Next]_sigVars /\ Fairness

\* Transitions far enough apart for each signal to be forwarded before the next.
OrderlyTransition == proc = "running" /\ scripts = <<>> /\ pending = {} /\ VRRPTransition

OrderlyNext ==
    \/ OrderlyTransition
    \/ \E i \in 1..MaxTransitions : Notify(i)
    \/ \E sig \in SignalSet : Forward(sig)
    \/ Goroutine
    \/ Crash
    \/ Boot

OrderlySpec == Init /\ [][OrderlyNext]_sigVars /\ Fairness
-----------------------------------------------------------------------------
SignalsTypeOK ==
    /\ vrrp \in {"MASTER", "BACKUP"} /\ transitions \in 0..MaxTransitions
    /\ scripts \in Seq({"MASTER", "BACKUP"})
    /\ proc \in {"down", "starting", "running"} /\ crashes \in 0..MaxCrashes
    /\ pending \in SUBSET SignalSet
    /\ signalCh \in Seq(SignalSet) /\ Len(signalCh) <= ChannelSize
    /\ at \in SetMasterSteps \cup {"receive"}
    /\ proc # "running" => pending = {} /\ signalCh = <<>> /\ at = "receive" /\ ~master
    /\ master \in BOOLEAN
    /\ disturbed \in SUBSET Excuses

Agrees == master <=> vrrp = "MASTER"

\* The last VRRP transition wins, although SetMaster(true) takes seconds in
\* which others come in: a node ends up with the right idea of its state
\* unless a signal was overtaken, dropped or lost or the process died.
MasterFollows == <>[](Agrees \/ disturbed # {})

\* The news on its way to master, oldest first.
News ==
    (IF at = "receive" THEN <<>> ELSE <<USR1>>)
    \o signalCh
    \o (IF pending = {} THEN <<>> ELSE <<CHOOSE sig \in pending : TRUE>>)
    \o [i \in 1..Len(scripts) |-> SignalFor(scripts[i])]

\* Undisturbed, the youngest news between keepalived and master, wherever it
\* is, is the current state; with none under way master is right.
YoungestNewsIsRight ==
    disturbed = {} => IF News = <<>> THEN Agrees ELSE News[Len(News)] = SignalFor(vrrp)

\* "SIGUSR1 means in MASTER state" (comment in Run), "Send SIGUSR2 when
\* Keepalived entering BACKUP state" (notify.sh): the node ends up with the
\* state of its last transition.
LastTransitionWins == <>[]Agrees

\* "SetMaster indicates to the proxier whether in MASTER state or BACKUP
\* state" (comment on SetMaster): also after a restart.
RestartKnowsTheState == <>[](proc = "running" /\ Agrees)
=============================================================================
