---------------------------- MODULE SignalsProofs ----------------------------
(***************************************************************************)
(* Signals for a channel of any size and any number of transitions and       *)
(* crashes: the youngest news on its way to proxier.master is right.         *)
(*                                                                         *)
(* The proof follows the youngest news from place to place: it is the last   *)
(* of the scripts, or the one pending signal, or the last in the channel, or *)
(* the SetMaster(true) under way.  It needs that undisturbed there is at     *)
(* most one pending signal.                                                  *)
(***************************************************************************)
EXTENDS Signals, SequenceTheorems, TLAPS

NewsIsRight ==
    IF scripts # <<>> THEN scripts[Len(scripts)] = vrrp
    ELSE IF pending # {} THEN SignalFor(vrrp) \in pending
    ELSE IF signalCh # <<>> THEN signalCh[Len(signalCh)] = SignalFor(vrrp)
    ELSE IF at # "receive" THEN vrrp = "MASTER"
    ELSE Agrees

OnePending == \A a, b \in pending : a = b

SignalsInv == SignalsTypeOK /\ (disturbed = {} => OnePending /\ NewsIsRight)
-----------------------------------------------------------------------------
\* Without takes one script out and keeps the others in order.
LEMMA WithoutFacts ==
    ASSUME NEW S, NEW s \in Seq(S), NEW i \in 1..Len(s)
    PROVE  /\ Without(s, i) \in Seq(S)
           /\ Len(Without(s, i)) = Len(s) - 1
           /\ \A j \in 1..(Len(s) - 1) : Without(s, i)[j] = IF j < i THEN s[j] ELSE s[j + 1]
<1> DEFINE a == SubSeq(s, 1, i - 1)
<1> DEFINE b == SubSeq(s, i + 1, Len(s))
<1>0. Len(s) \in Nat /\ \A j \in 1..Len(s) : s[j] \in S
  OBVIOUS
<1>1. /\ a \in Seq(S)
      /\ Len(a) = i - 1
      /\ \A j \in 1..(i - 1) : a[j] = s[j]
  BY <1>0, SubSeqProperties
<1>2. /\ b \in Seq(S)
      /\ Len(b) = Len(s) - i
      /\ \A j \in 1..(Len(s) - i) : b[j] = s[i + j]
  BY <1>0, SubSeqProperties
<1> HIDE DEF a, b
<1>3. /\ a \o b \in Seq(S)
      /\ Len(a \o b) = Len(s) - 1
      /\ \A j \in 1..(Len(s) - 1) : (a \o b)[j] = IF j <= i - 1 THEN a[j] ELSE b[j - (i - 1)]
  <2>1. /\ a \o b \in Seq(S)
        /\ Len(a \o b) = Len(a) + Len(b)
        /\ \A j \in 1..(Len(a) + Len(b)) : (a \o b)[j] = IF j <= Len(a) THEN a[j] ELSE b[j - Len(a)]
    BY <1>1, <1>2, ConcatProperties
  <2>2. Len(a) + Len(b) = Len(s) - 1
    BY <1>0, <1>1, <1>2
  <2> QED
    BY <1>1, <2>1, <2>2
<1>5. \A j \in 1..(Len(s) - 1) : (a \o b)[j] = IF j < i THEN s[j] ELSE s[j + 1]
  <2> TAKE j \in 1..(Len(s) - 1)
  <2>1. CASE j < i
    BY <1>0, <1>1, <1>3, <2>1
  <2>2. CASE ~(j < i)
    <3>1. j - (i - 1) \in 1..(Len(s) - i) /\ i + (j - (i - 1)) = j + 1 /\ ~(j <= i - 1)
      BY <1>0, <2>2
    <3> QED
      BY <1>2, <1>3, <2>2, <3>1
  <2> QED
    BY <2>1, <2>2
<1>4. Without(s, i) = a \o b
  BY DEF Without, a, b
<1> QED
  BY <1>3, <1>4, <1>5

\* The last element of a concatenation.
LEMMA LastOfConcat ==
    ASSUME NEW S, NEW s \in Seq(S), NEW t \in Seq(S)
    PROVE  /\ s \o t \in Seq(S)
           /\ t = <<>> => s \o t = s
           /\ t # <<>> => s \o t # <<>> /\ (s \o t)[Len(s \o t)] = t[Len(t)]
<1>1. s \o t \in Seq(S) /\ (t = <<>> => s \o t = s)
  BY ConcatProperties, ConcatEmptySeq
<1>2. ASSUME t # <<>>
      PROVE  s \o t # <<>> /\ (s \o t)[Len(s \o t)] = t[Len(t)]
  <2>1. Len(t) \in Nat \ {0} /\ Len(s) \in Nat
    BY <1>2, EmptySeq
  <2>2. Len(s \o t) = Len(s) + Len(t)
    BY ConcatProperties
  <2>3. \A i \in 1..(Len(s) + Len(t)) : (s \o t)[i] = IF i <= Len(s) THEN s[i] ELSE t[i - Len(s)]
    BY ConcatProperties
  <2>4. (s \o t)[Len(s) + Len(t)] = t[Len(t)]
    BY <2>1, <2>3
  <2> QED
    BY <2>1, <2>2, <2>4
<1> QED
  BY <1>1, <1>2
-----------------------------------------------------------------------------
LEMMA InitSignals == Init => SignalsInv
<1> SUFFICES ASSUME Init PROVE SignalsInv
  OBVIOUS
<1>1. SignalsTypeOK
  <2>1. Len(signalCh) <= ChannelSize /\ signalCh \in Seq(SignalSet) /\ scripts \in Seq({"MASTER", "BACKUP"})
    BY SignalsAssumption DEF Init
  <2>2. transitions \in 0..MaxTransitions /\ crashes \in 0..MaxCrashes
    BY SignalsAssumption DEF Init
  <2> QED
    BY <2>1, <2>2 DEF Init, SignalsTypeOK
<1>2. OnePending /\ NewsIsRight
  BY DEF Init, OnePending, NewsIsRight, Agrees
<1> QED
  BY <1>1, <1>2 DEF SignalsInv

\* A transition is the youngest news, in its script.
LEMMA TransitionSignals ==
    ASSUME SignalsInv, VRRPTransition
    PROVE  SignalsInv'
<1> USE DEF SignalsInv
<1>1. /\ UNCHANGED <<proc, crashes, pending, signalCh, at, master, disturbed>>
      /\ vrrp' \in {"MASTER", "BACKUP"} /\ scripts' = Append(scripts, vrrp')
      /\ scripts \in Seq({"MASTER", "BACKUP"})
      /\ transitions \in 0..MaxTransitions /\ transitions < MaxTransitions /\ transitions' = transitions + 1
  BY DEF VRRPTransition, procVars, SignalsTypeOK
<1>2. /\ scripts' \in Seq({"MASTER", "BACKUP"}) /\ scripts' # <<>> /\ scripts'[Len(scripts')] = vrrp'
      /\ transitions' \in 0..MaxTransitions
  BY <1>1, SignalsAssumption
<1>3. SignalsTypeOK'
  BY <1>1, <1>2 DEF SignalsTypeOK
<1>4. disturbed' = {} => OnePending' /\ NewsIsRight'
  BY <1>1, <1>2 DEF OnePending, NewsIsRight
<1> QED
  BY <1>3, <1>4

\* Undisturbed, the oldest script runs and its signal is the only one pending.
LEMMA NotifySignals ==
    ASSUME SignalsInv, NEW i \in 1..MaxTransitions, Notify(i)
    PROVE  SignalsInv'
<1> USE DEF SignalsInv
<1>1. /\ i \in 1..Len(scripts) /\ scripts \in Seq({"MASTER", "BACKUP"})
      /\ scripts' = Without(scripts, i)
      /\ UNCHANGED <<vrrp, transitions, proc, crashes, signalCh, at, master>>
      /\ vrrp \in {"MASTER", "BACKUP"}
  BY DEF Notify, SignalsTypeOK
<1>2. /\ scripts' \in Seq({"MASTER", "BACKUP"})
      /\ Len(scripts') = Len(scripts) - 1
      /\ \A j \in 1..(Len(scripts) - 1) : scripts'[j] = IF j < i THEN scripts[j] ELSE scripts[j + 1]
  BY <1>1, WithoutFacts
<1>3. /\ pending' \in SUBSET SignalSet /\ disturbed' \in SUBSET Excuses
      /\ proc # "running" => pending' = pending
  BY DEF Notify, SignalsTypeOK, SignalFor, SignalSet, Excuses
<1>4. SignalsTypeOK'
  BY <1>1, <1>2, <1>3 DEF SignalsTypeOK
<1>5. ASSUME disturbed' = {}
      PROVE  OnePending' /\ NewsIsRight'
  <2>1. disturbed = {} /\ i = 1 /\ pending = {} /\ pending' = {SignalFor(scripts[1])}
    BY <1>5 DEF Notify
  <2>2. scripts # <<>> /\ scripts[Len(scripts)] = vrrp
    BY <1>1, <2>1 DEF NewsIsRight
  <2>3. CASE Len(scripts) = 1
    <3>1. scripts' = <<>> /\ pending' = {SignalFor(vrrp)}
      BY <1>2, <2>1, <2>2, <2>3
    <3> QED
      BY <1>1, <3>1 DEF OnePending, NewsIsRight, SignalFor
  <2>4. CASE Len(scripts) > 1
    <3>1. Len(scripts') = Len(scripts) - 1 /\ scripts' # <<>>
      BY <1>1, <1>2, <2>4
    <3>2. scripts'[Len(scripts) - 1] = scripts[Len(scripts)]
      BY <1>1, <1>2, <2>1, <2>4
    <3> QED
      BY <1>1, <2>1, <2>2, <3>1, <3>2 DEF OnePending, NewsIsRight
  <2>5. Len(scripts) = 1 \/ Len(scripts) > 1
    <3>1. i \in Nat /\ Len(scripts) \in Nat /\ 1 <= i /\ i <= Len(scripts)
      BY <1>1
    <3> QED
      BY <3>1
  <2> QED
    BY <2>3, <2>4, <2>5
<1> QED
  BY <1>4, <1>5

\* The pending signal goes to the end of the channel.
LEMMA ForwardSignals ==
    ASSUME SignalsInv, NEW sig \in SignalSet, Forward(sig)
    PROVE  SignalsInv'
<1> USE DEF SignalsInv
<1>1. /\ proc = "running" /\ sig \in pending /\ pending' = pending \ {sig}
      /\ UNCHANGED <<vrrp, transitions, scripts, proc, crashes, at, master>>
      /\ signalCh \in Seq(SignalSet) /\ Len(signalCh) <= ChannelSize
      /\ disturbed \in SUBSET Excuses /\ pending \in SUBSET SignalSet
  BY DEF Forward, envVars, SignalsTypeOK
<1>2. CASE Len(signalCh) < ChannelSize
  <2>1. signalCh' = Append(signalCh, sig) /\ disturbed' = disturbed
    BY <1>2 DEF Forward
  <2>2. /\ signalCh' \in Seq(SignalSet) /\ Len(signalCh') <= ChannelSize
        /\ signalCh' # <<>> /\ signalCh'[Len(signalCh')] = sig
    BY <1>1, <1>2, <2>1, SignalsAssumption
  <2>3. SignalsTypeOK'
    BY <1>1, <2>1, <2>2 DEF SignalsTypeOK
  <2>4. disturbed' = {} => OnePending' /\ NewsIsRight'
    BY <1>1, <2>1, <2>2 DEF OnePending, NewsIsRight, SignalFor
  <2> QED
    BY <2>3, <2>4
<1>3. CASE ~(Len(signalCh) < ChannelSize)
  <2>1. signalCh' = signalCh /\ disturbed' = disturbed \cup {"drop"}
    BY <1>3 DEF Forward
  <2>2. SignalsTypeOK'
    BY <1>1, <2>1 DEF SignalsTypeOK, Excuses
  <2> QED
    BY <2>1, <2>2
<1> QED
  BY <1>2, <1>3

\* SIGUSR2 is acted upon at once, SIGUSR1 becomes the SetMaster(true) under way.
LEMMA ReceiveSignals ==
    ASSUME SignalsInv, Receive
    PROVE  SignalsInv'
<1> USE DEF SignalsInv
<1>1. /\ proc = "running" /\ at = "receive" /\ signalCh # <<>> /\ signalCh' = Tail(signalCh)
      /\ UNCHANGED <<vrrp, transitions, scripts, proc, crashes, pending, disturbed>>
      /\ signalCh \in Seq(SignalSet) /\ Len(signalCh) <= ChannelSize
      /\ vrrp \in {"MASTER", "BACKUP"}
  BY DEF Receive, envVars, SignalsTypeOK
<1>2. /\ signalCh' \in Seq(SignalSet) /\ Len(signalCh') = Len(signalCh) - 1
      /\ Len(signalCh') <= ChannelSize /\ Len(signalCh) \in Nat \ {0}
      /\ Head(signalCh) \in SignalSet /\ Head(signalCh) = signalCh[1]
      /\ signalCh' # <<>> => signalCh'[Len(signalCh')] = signalCh[Len(signalCh)]
      /\ signalCh' = <<>> => Len(signalCh) = 1
  <2>1. Len(signalCh) \in Nat \ {0} /\ Head(signalCh) = signalCh[1]
    BY <1>1, EmptySeq
  <2>2. /\ signalCh' \in Seq(SignalSet) /\ Len(signalCh') = Len(signalCh) - 1
        /\ \A i \in 1..Len(signalCh') : signalCh'[i] = signalCh[i + 1]
        /\ Head(signalCh) \in SignalSet
    BY <1>1, HeadTailProperties
  <2>3. signalCh' # <<>> => Len(signalCh') \in Nat \ {0}
    BY <2>2, EmptySeq
  <2>4. signalCh' # <<>> => signalCh'[Len(signalCh')] = signalCh[Len(signalCh)]
    BY <2>1, <2>2, <2>3
  <2>5. signalCh' = <<>> => Len(signalCh) = 1
    BY <2>1, <2>2, EmptySeq
  <2>6. Len(signalCh') <= ChannelSize
    BY <1>1, <2>1, <2>2, SignalsAssumption
  <2> QED
    BY <2>1, <2>2, <2>4, <2>5, <2>6
<1>3. CASE Head(signalCh) = USR1
  <2>1. at' = "keepalived" /\ master' = master
    BY <1>3 DEF Receive
  <2>2. SignalsTypeOK'
    BY <1>1, <1>2, <2>1 DEF SignalsTypeOK, SetMasterSteps
  <2>3. disturbed' = {} => OnePending' /\ NewsIsRight'
    BY <1>1, <1>2, <1>3, <2>1 DEF OnePending, NewsIsRight, SignalFor, USR1, USR2
  <2> QED
    BY <2>2, <2>3
<1>4. CASE Head(signalCh) # USR1
  <2>1. at' = at /\ master' = FALSE
    BY <1>4 DEF Receive
  <2>2. SignalsTypeOK'
    BY <1>1, <1>2, <2>1 DEF SignalsTypeOK
  <2>3. disturbed' = {} => OnePending' /\ NewsIsRight'
    BY <1>1, <1>2, <1>4, <2>1 DEF OnePending, NewsIsRight, Agrees, SignalFor, SignalSet
  <2> QED
    BY <2>2, <2>3
<1> QED
  BY <1>3, <1>4

LEMMA SetMasterSignals ==
    ASSUME SignalsInv, SetMasterStep
    PROVE  SignalsInv'
<1> USE DEF SignalsInv
<1>1. /\ proc = "running" /\ at \in SetMasterSteps
      /\ UNCHANGED <<vrrp, transitions, scripts, proc, crashes, pending, signalCh, disturbed>>
      /\ master \in BOOLEAN /\ master' = (master \/ at = "set")
  BY DEF SetMasterStep, envVars, SignalsTypeOK
<1>2. /\ at' \in SetMasterSteps \cup {"receive"}
      /\ at' = "receive" <=> at = "set"
  BY DEF SetMasterStep, AfterStep, SetMasterSteps
<1>3. SignalsTypeOK'
  BY <1>1, <1>2 DEF SignalsTypeOK
<1>4. disturbed' = {} => OnePending' /\ NewsIsRight'
  BY <1>1, <1>2 DEF OnePending, NewsIsRight, Agrees, SetMasterSteps
<1> QED
  BY <1>3, <1>4

LEMMA ProcessSignals ==
    ASSUME SignalsInv, Crash \/ Boot
    PROVE  SignalsInv'
<1> USE DEF SignalsInv
<1>1. CASE Crash
  <2>1. /\ crashes \in 0..MaxCrashes /\ crashes < MaxCrashes /\ crashes' = crashes + 1
        /\ pending' = {} /\ signalCh' = <<>> /\ at' = "receive" /\ master' = FALSE /\ proc' = "down"
        /\ disturbed' = disturbed \cup {"crash"}
        /\ UNCHANGED <<vrrp, transitions, scripts>>
    BY <1>1 DEF Crash, envVars, SignalsTypeOK
  <2>2. crashes' \in 0..MaxCrashes /\ signalCh' \in Seq(SignalSet) /\ Len(signalCh') <= ChannelSize
    BY <2>1, SignalsAssumption
  <2>3. SignalsTypeOK'
    BY <2>1, <2>2 DEF SignalsTypeOK, Excuses
  <2> QED
    BY <2>1, <2>3
<1>2. CASE Boot
  <2>1. /\ UNCHANGED <<vrrp, transitions, scripts, crashes, pending, signalCh, at, master, disturbed>>
        /\ proc # "running" /\ proc' \in {"starting", "running"}
    BY <1>2 DEF Boot, Start, registerOSSignals, envVars
  <2>2. SignalsTypeOK'
    BY <2>1 DEF SignalsTypeOK
  <2>3. disturbed' = {} => OnePending' /\ NewsIsRight'
    BY <2>1 DEF OnePending, NewsIsRight, Agrees
  <2> QED
    BY <2>2, <2>3
<1> QED
  BY <1>1, <1>2

LEMMA NextSignals == SignalsInv /\ [Next]_sigVars => SignalsInv'
<1> SUFFICES ASSUME SignalsInv, [Next]_sigVars PROVE SignalsInv'
  OBVIOUS
<1>1. CASE UNCHANGED sigVars
  BY <1>1 DEF sigVars, envVars, procVars, SignalsInv, SignalsTypeOK, OnePending, NewsIsRight, Agrees
<1>2. CASE Next
  BY <1>2, TransitionSignals, NotifySignals, ForwardSignals, ReceiveSignals, SetMasterSignals,
     ProcessSignals DEF Next, Goroutine
<1> QED
  BY <1>1, <1>2

LEMMA SpecSignals == SignalsSpec => []SignalsInv
  BY InitSignals, NextSignals, PTL DEF SignalsSpec
-----------------------------------------------------------------------------
\* The channel never holds more than its capacity, and a process that has not
\* registered has no signal, no SetMaster under way and is not master.
THEOREM SignalsTypeCorrect == SignalsSpec => []SignalsTypeOK
  BY SpecSignals, PTL DEF SignalsInv

\* Undisturbed by overtaking, full channels, restarts and crashes, the youngest
\* news on its way from keepalived to proxier.master is the VRRP state, and
\* with no news under way master is right.
THEOREM YoungestNewsCorrect == SignalsSpec => []YoungestNewsIsRight
<1>1. SignalsInv => YoungestNewsIsRight
  <2> SUFFICES ASSUME SignalsTypeOK, OnePending, NewsIsRight
               PROVE  IF News = <<>> THEN Agrees ELSE News[Len(News)] = SignalFor(vrrp)
    BY DEF SignalsInv, YoungestNewsIsRight
  <2> DEFINE a == IF at = "receive" THEN <<>> ELSE <<USR1>>
  <2> DEFINE p == IF pending = {} THEN <<>> ELSE <<CHOOSE sig \in pending : TRUE>>
  <2> DEFINE s == [i \in 1..Len(scripts) |-> SignalFor(scripts[i])]
  <2>1. /\ scripts \in Seq({"MASTER", "BACKUP"}) /\ Len(scripts) \in Nat
        /\ signalCh \in Seq(SignalSet) /\ pending \in SUBSET SignalSet
    BY DEF SignalsTypeOK
  <2>2. /\ s \in Seq(SignalSet) /\ Len(s) = Len(scripts)
        /\ scripts # <<>> => s # <<>> /\ s[Len(s)] = SignalFor(scripts[Len(scripts)])
        /\ scripts = <<>> => s = <<>>
    <3>1. s \in [1..Len(scripts) -> SignalSet]
      BY <2>1 DEF SignalFor, SignalSet
    <3>2. s \in Seq(SignalSet) /\ Len(s) = Len(scripts)
      BY <2>1, <3>1
    <3>3. ASSUME scripts # <<>>
          PROVE  s # <<>> /\ s[Len(s)] = SignalFor(scripts[Len(scripts)])
      <4>1. Len(scripts) \in 1..Len(scripts)
        BY <2>1, <3>3
      <4> QED
        BY <3>2, <4>1
    <3> QED
      BY <3>2, <3>3
  <2>3. /\ p \in Seq(SignalSet)
        /\ pending # {} => p # <<>> /\ p[Len(p)] \in pending
        /\ pending = {} => p = <<>>
    <3>1. pending # {} => (CHOOSE sig \in pending : TRUE) \in pending
      OBVIOUS
    <3> QED
      BY <2>1, <3>1
  <2>4. /\ a \in Seq(SignalSet)
        /\ at # "receive" => a # <<>> /\ a[Len(a)] = USR1
        /\ at = "receive" => a = <<>>
    <3>1. USR1 \in SignalSet /\ <<USR1>> # <<>> /\ <<USR1>> \in Seq({USR1}) /\ Len(<<USR1>>) = 1
      BY DEF SignalSet
    <3>2. <<USR1>> \in Seq(SignalSet) /\ <<USR1>>[1] = USR1
      BY <3>1
    <3> QED
      BY <3>1, <3>2
  <2>5. News = ((a \o signalCh) \o p) \o s
    BY Zenon DEF News
  <2> HIDE DEF a, p, s
  <2>6. a \o signalCh \in Seq(SignalSet) /\ (a \o signalCh) \o p \in Seq(SignalSet)
    BY <2>1, <2>3, <2>4, LastOfConcat
  <2>7. CASE scripts # <<>>
    BY <2>2, <2>5, <2>6, <2>7, LastOfConcat DEF NewsIsRight
  <2>8. CASE scripts = <<>> /\ pending # {}
    <3>1. News = (a \o signalCh) \o p
      BY <2>2, <2>5, <2>6, <2>8, LastOfConcat
    <3>2. p # <<>> /\ p[Len(p)] = SignalFor(vrrp)
      BY <2>3, <2>8 DEF NewsIsRight, OnePending
    <3> QED
      BY <2>3, <2>6, <3>1, <3>2, LastOfConcat
  <2>9. CASE scripts = <<>> /\ pending = {}
    <3>1. News = a \o signalCh
      BY <2>2, <2>3, <2>5, <2>6, <2>9, LastOfConcat
    <3>2. CASE signalCh # <<>>
      BY <2>1, <2>4, <2>9, <3>1, <3>2, LastOfConcat DEF NewsIsRight
    <3>3. CASE signalCh = <<>>
      <4>1. News = a
        BY <2>1, <2>4, <3>1, <3>3, LastOfConcat
      <4> QED
        BY <2>4, <2>9, <3>3, <4>1 DEF NewsIsRight, SignalFor
    <3> QED
      BY <3>2, <3>3
  <2> QED
    BY <2>7, <2>8, <2>9
<1> QED
  BY <1>1, SpecSignals, PTL
=============================================================================
