# A TLA+ model of kube2haproxy

kube2haproxy runs beside HAProxy and keepalived on the nodes of a VRRP pair. It watches the
services and endpoints of a Kubernetes cluster, keeps a table of virtual addresses and a table
of routes, renders `keepalived.conf` and `haproxy.cfg` from them and reloads the two daemons,
on the node that is MASTER only.

This directory models that pipeline, from the API server's watch events to the files the daemons
load, with the goroutines, locks, signals, files and clocks in between. TLC checks it on small
instances, and TLAPS proves its safety properties for any number of objects.

## Inventory

```
 API server --list/watch--> Reflector --Add/Update/Delete/Replace--> EventQueue
                             (one pair for services, one for endpoints)  |
                                                                        Pop
                                                                         v
   VRRP --notify.sh--> SIGUSR1/2 --> channel(2)               ProxyController (c.lock)
                                       |                      listConsumed -> skipCommit
                                       v                                 |
                              SetMaster(true/false) ----> Proxier: vipTable, routeTable, master
                                       |                                 | Invoke, if MASTER and
                                       | commits itself                  v ~skipCommit
                                       |                 RateLimitedFunction x 2 (FIFO + backoff)
                                       v                                 v
                              commitAndReloadKeepalived / commitAndReloadHaproxy
                        render template (proxier.lock) -> Configurer.WriteConfig -> reload script
```

| component | source | state | operations | what makes it correct |
|---|---|---|---|---|
| event queue | `util/cache/eventqueue.go` | backing store, queue of keys, event per key, lastReplaceKey | Add, Update, Delete, Replace, Pop, Cancel, ListConsumed and the reads | queue and map agree; no lost wake-up; ListConsumed tells the truth; order is kept; no panic a consumer can see |
| reflector (vendored) | `client/cache/reflector.go` | resource version | ListAndWatch, watchHandler | what is queued is what the consumer still has to learn; it converges |
| controller | `proxy/controller/controller.go` | serviceListConsumed, endpointsListConsumed | HandleService, HandleEndpoints, Run | commits are held back while a list is consumed, and made up for afterwards |
| proxier tables | `proxy/template/proxier.go` | vipTable, routeTable | six handlers | every service known has its VIP and its units, in any order of events; nothing stays behind |
| commits, failover | the same file | master, skipCommit | commitKeepalived, commitHaproxy, both commitAndReload, SetMaster | no committed change is lost; only a MASTER reloads; a new MASTER is in sync |
| rate limiter, backoff | `util/ratelimiter`, `util/flowcontrol` | a FIFO with one key, a time per entry | Invoke, handleOne, Next, IsInBackOffSince | a request is served in the end, not more often than the interval |
| configurer | `util/config/configurer.go` | the file, `.tmp`, `.bak` | WriteConfig | the file is always one complete rendering |
| templates, scripts | `templates`, `scripts`, `util/template`, `util/haproxy`, `util/keepalived` | none | render, run | the text says what the tables say |
| address lookup | `util/ipaddr/addr.go` | the device's addresses | GetAddrs | HAProxy binds only addresses that are there |
| signals, server | `app/server.go`, `scripts/notify.sh`, `main.go` | a channel of two signals | registerOSSignals, the signal goroutine of Run | the last VRRP transition wins |

What is hard in it: three kinds of goroutines share the proxier's tables and the files (two
consumers under `c.lock`, one goroutine per rate limiter, the signal goroutine); locks are
dropped between render and write; commits are requested in one state of the node and served in
another; the two objects of one name travel through two queues; events are compressed, relists
reset a queue, `handleEvent` panics in the reflector's goroutine and is restarted; errors of a
commit are logged and nothing retries them; a panic with a lock held is recovered with the lock
still held. The hazards are listed with their lines in `PROJECT.json`; each names the properties
that guard it, or says why there is none.

## Modules

| module | models | extends |
|---|---|---|
| `EventQueue` | the queue with all its methods, driven by any caller | |
| `EventQueueProofs` | theorems on it | `EventQueue` |
| `Feed` | a queue with its reflector, as a consumer sees it (abstract) | `EventQueue` |
| `Reflector` | API server, reflector, queue and consumer together; implements `Feed` | `EventQueue`, an instance of `Feed` |
| `ReflectorProofs` | theorems on it | `Reflector`, `EventQueueProofs` |
| `Proxier` | the two tables, the six handlers, their commit calls | |
| `ProxierTables` | the tables against the history of what was delivered | `Proxier` |
| `Failover` | handlers, rate limiters' goroutines, SetMaster, files, daemons | `Proxier` |
| `FailoverProofs` | lemmas on the six handlers, theorems on failover | `Failover` |
| `ProxierProofs` | theorems on the tables | `ProxierTables`, `FailoverProofs` |
| `Binding` | the same, with the addresses that keepalived binds | `Failover` |
| `ProxyController` | both queues, both handling goroutines, the list flags, the proxier with its commits and failovers | `Failover`, two instances of `Feed` |
| `ProxyControllerProofs` | theorems on it | `ProxyController`, `FailoverProofs`, two instances of `EventQueueProofs` |
| `Coalescer` | what a rate limiter promises (abstract) | |
| `Backoff`, `RateLimiter` | the rate limiter with its backoff and a clock | `RateLimiter` extends `Backoff` |
| `Configurer` | `WriteConfig`, one file operation at a time | |
| `UtilProofs` | theorems on both | `RateLimiter`, `Configurer` |
| `Signals` | VRRP transitions, `notify.sh`, the channel, `SetMaster`, restarts | |
| `Locks` | `c.lock`, `proxier.lock`, five goroutines, panics | |
| `SignalsProofs`, `LocksProofs` | theorems on them | the module named |
| `MC...` | values and symmetries for TLC, where a configuration needs any | the module named |

### EventQueue

`store`, `events`, `queue` and `lastReplaceKey` are the fields of the struct; a key without an
event has `NoEvent`, a key without an object `NoState`. Every method holds `eq.lock`, so a call
is one action. Only `Pop` gives the lock up, in `cond.Wait`: `PopWait` is the consumer entering
the wait, `Pop` the part behind the loop, and `popper` says where the consumer is. `Broadcast`
turns a waiting consumer into a woken one, which looks at the queue again. The two matrices are
`watchEventEffect` and `watchEventCompression`; a pair without an entry is "PANIC", and since
`handleEvent` panics before its first write, it then leaves the queue alone. `queueWithout` is
the loop of the code, `rq[i]` being the slice it has built after `i` keys; `QueueWithoutTakesOneOut`
says what comes out of it. `unread` is a history variable: the keys of the last `Replace` that have not
been popped.

### Reflector, Feed

`history` is the API server: the cluster at each resource version, one object changed per
version. `ListAndSync` is the list (of any version, since resource version "0" may be answered
from a lagging cache) and its `Replace`; `WatchEvent` applies the next version's event through
`handleEvent`; `WatchPanic` is the panic that `wait.Until` recovers from, which leads to a new
list; `WatchEnds` is any other reason for one. `seen` is what the popped events add up to. A
list that fails, or a watch that closes and resumes at the same version, changes nothing and is
not an action.

`Feed` is what is left of this when one looks from the queue: the reflector has a view of the
cluster; a watch event changes one object of it, a list replaces all of it, and the consumer pops.
There is no history, no version and no panic in it. `ImplementsFeed` says that `Reflector`
implements it with `view <- View`, which is why `ProxyController` may compose two feeds instead of
two API servers and reflectors.

### Proxier, ProxierTables

`routeTable` maps a name and a port to a unit (service info and endpoints) or `NoUnit`. A handler
holds `proxier.lock` (`locked`) to its end and the tables are accessed under that lock only, so all
its table accesses are one action, which leaves behind the commit calls it has yet to make (`calls`).
`master` is set and unset without the lock. Each call is therefore two steps: `commitKeepalived` or
`commitHaproxy` tests `master` and `skipCommit`, and `Invoke` asks for the commit that has `passed`
the test; `SetMaster` may come before, between and after them. `Unlock` is the end of the handler.
`Returns` is a handler that touches no table and makes no call: a headless service, or endpoints
without subsets that are added. `addVip` is the block both service handlers begin with;
`oldEndpoints` and `oldInfo` are what `findServiceUnit` preserves of the other half of a unit.

`ProxierTables` delivers any event for any name at any time, because that is what queues that
compress and relist can hand over. `services` and `endpoints` record what has been delivered.
The API server gives a cluster IP to one service at a time, but the proxier may still know a former
holder (its deletion fell to a relist, or is still queued) or be told of it late. These are the
`Rivals` of an event. A deletion takes its address out of the table whoever else is known to have
it: `OnlyRivalsTakeVips` says that nothing else does. Whether the one that loses the address then
is the one that has it now is a question about the cluster and the order of the queue, which
`ProxyController` answers (`ServicesAreServed`).

### Failover

Each goroutine that commits is at "idle", "render", "write" or "reload"; `target` is the file
the signal goroutine works on, which does keepalived first, then haproxy, then sets `master`
("set"). `handleOne` takes the request before it commits, so a change during a commit queues
another. `Render` runs under the lock, `WriteConfig` and `RunScript` do not. `CommitFails` is
any failing step: the error is logged, the rest of the commit is skipped. `GetAddrs` may return
any set of addresses. `failed` and `excused` are history variables: the files whose reload script
has failed since they were written, and the files with a reason to be out of date, which is a commit
that was skipped (BACKUP, or a list being consumed), a step that failed, or two goroutines that had
both rendered and not yet written. `Attended` says that a file is what its table renders to or that a
commit is on its way, from a handler that has yet to make the call to a text about to be written; a
MASTER's file that is not attended to, with no list being consumed, is `Stranded`. `keepalivedReq` and `haproxyReq` stand for
the rate limiters: `RateLimitersCoalesce` shows that they and their goroutines are two
`Coalescer`s, and `RateLimiter` that the code behind them is one.

`Binding` adds `device`, the addresses bound. keepalived binds those of its file some time after it
has loaded it, and `GetAddrs` returns exactly what is bound. No step fails there and the sleep in
`SetMaster` is long enough, so that what goes wrong is the order of steps alone.

### ProxyController

Each queue with its reflector is an instance of `Feed` (`S!` and `Q!`).
`services` and `endpoints` are the reflectors' views: a watch event leads to any
other cluster, a list to any cluster at all, which covers resyncs, broken watches, panics of
`handleEvent` and lists from a lagging cache. The API server's rules on cluster IPs (one holder;
`ValidateServiceUpdate`) restrict them. `svcHand` and `epsHand` hold an event between `Pop` and
`c.lock`, where a relist or the other goroutine may come in; `HandleNextService` is the critical
section up to the table accesses of the proxier's handler, with `ListConsumed` and `SetSkipCommit`,
and `HandlerRunsOn` the commit calls and the return; `handling` says whose handler it is. The rest of
`Failover` runs beside them as it is: the rate limiters' goroutines, `SetMaster` step by step,
failures. `ControllerSpec` has all of it; `ControllerDrivesFailover` shows that it is a behaviour of
`Failover`, whose events come at will. TLC explores parts of it: a node that stays BACKUP
(`BackupSpec`, `OrderedSpec`), and one that becomes MASTER before it is told of anything, on which
nothing fails (`MasterSpec`).

### RateLimiter, Backoff, Coalescer

An entry of the backoff keeps its age instead of a time, and ages stop once expired, so the clock
needs no bound. `Pop`, `PutBack`, `RunHandler`, `HandlerReturns` and `MoveBackOff` are the steps of
`handleOne`; in backoff it puts the request back and spins. `HandlerPanics` is a panic that
`wait.Until` recovers, before the backoff is moved. `ClockSetBack` and `ClockSetForward` move the wall
clock by `CorrectBy`; set back, it makes ages negative. `since` and `ahead` are history variables,
the time since the handler last returned and what the clock has been set forward by in it.
`Coalescer` is the promise: a request is pending or it is not, a run takes it, and every request
is followed by a run. `RateLimiter` implements it, fairness included, with
`pending <- queued \/ step = "check"`: a request that has been popped and is about to be put back
is still pending.

### Configurer

`cfg`, `.bak` and `.tmp` are sequences of blocks. `ioutil.WriteFile` is its open (which truncates)
and its write (from the beginning), so that what another writer has put there in between shows.
`fd` is the file a writer's descriptor stands for by now: a `.tmp` that another writer renames goes
on being written as the configuration file. `OpenTmpFails` is a `.tmp` that cannot be opened,
`WriteTmpFails` one that is written in part. `alone` and `mixed` are history variables: who has had
`.tmp` to itself since it opened it, and whether the file in place came from a shared one. `Crash`
is the process dying between any two steps, by the `Fatalf` of the backup or from outside.

### Signals

A transition starts a `notify.sh`; scripts run side by side. A signal is pending at most once, is
forwarded to the channel unless that is full, and is taken out by the one goroutine that runs
`SetMaster`, four steps long on SIGUSR1. A process that is down or has not called `signal.Notify`
does not see it. `disturbed` is a history variable, the reasons for `master` to be wrong: signals
that met in flight, a full channel, a signal to nobody, a crash.

### Locks

The two handling goroutines take `c.lock` and inside it `proxier.lock`, by defer; the three
committing goroutines read a template, take `proxier.lock`, render and unlock by hand. A template
is good, does not execute (an error return) or does not parse (`template.Must` panics); it is read
anew for each commit and may be edited at any time. `MustPanics` in a rate limiter's goroutine is
recovered with the lock held (`poisoned`); in the signal goroutine it ends the process.

## Runs

| run | module, cfg | instance | shows |
|---|---|---|---|
| `event_queue` | `MCEventQueue` | 3 keys, 2 states | all invariants of the queue and `OrderIsKept`, under every sequence of calls |
| `reflector` | `MCReflector` | 2 keys, 2 states, 4 versions, 2 relists | the queue holds what the consumer lacks; only a re-added name panics; only relists lose deletions; the whole is a `Feed`; the consumer converges on every object that exists |
| `proxier` | `MCProxierTables`, `Proxier.cfg` | 2 names, 1 port, 2 VIPs, 2 addresses (483,486 states) | routes and backends follow the events; a service loses its VIP only to the deletion of another holder |
| `failover` | `MCFailover` | 1 service with 1 port, endpoints without one (1,366,268 states) | no committed change is lost, a MASTER's file is left behind in the named gaps only, daemons follow their files, the rate limiters coalesce, a BACKUP winds down |
| `rate_limiter` | `MCRateLimiter` | interval 3, clock set back twice by 3, forward any number of times by 3 | every request is followed by a run, runs are an interval apart by that clock |
| `configurer` | `MCConfigurer` | 2 writers, 2 texts of different length | only a shared `.tmp` makes a file that nobody rendered, and a lone write repairs it |
| `controller` | `MCProxyController`, `ControllerCommits.cfg` | a BACKUP; 1 service, with an address or headless, 2 endpoints objects without ports (270,988 states) | the flags follow the lists of both queues |
| `controller_services` | `MCProxyController`, `ControllerServices.cfg` | a BACKUP; 2 services, 2 addresses or none (165,087 states) | every service that exists is in both tables, as long as no address overtakes a deletion; the flag follows lists of two objects |
| `signals` | `Signals` | channel of 2, 5 transitions, 1 crash | undisturbed, the last transition wins |
| `locks` | `Locks` | 5 goroutines, 1 edit | the lock is released on every path, events are handled |
| `controller_vip` | `MCProxyController`, `ControllerVip.cfg` | a MASTER; 1 service, 1 endpoints object | finding 1 |
| `binding` | `MCBinding` | 1 service, 1 port, 1 pod | finding 2 |

Bounds. The queue needs three keys for an event to overtake a second while a third is removed;
two states tell an old object from a new one. With two keys, four versions allow create, delete
and re-create of one key with the other in the list, and two relists allow a relist after a
relist. Ports of one name and the units of different names never touch, a port is TCP, UDP or
absent, and addresses are shared between two services at a time, so two names with one port each
cover the interactions. In `failover` the interleaving is what matters: one service makes every
table change visible in a file, and endpoints without a port give the handlers that commit a
table they have not changed, and the one that returns early. Lists that are half consumed take two
objects: two endpoints objects in `controller`, two services in `controller_services`. Both leave the
node a BACKUP, since none of their properties is about commits, which no flag depends on. In `rate_limiter` an interval of 3
with a maximum of 3 lets an entry be in backoff, past it and expired, the clock set back
twice by 3 makes ages negative, and set forward by 3 it ends a backoff at once. Two texts of one and two blocks show both a tail
left behind and a text cut short. In `signals` one transition keeps `SetMaster` busy, two fill the
channel, one is dropped and one comes after it. One edit in `locks` reaches each bad template from
a good one.

Symmetry over keys, states, names, ports and addresses is used in runs without liveness only
(`event_queue`, `proxier`, `controller_services`). `failover` uses a view that joins `loaded` and
`failed`, which its properties and steps only ever read together, and `controller` one without the
histories (of unread keys, excuses and failed scripts) and the stored object of a key without event,
none of which influences the rest or its properties. Deadlock is not checked where a behaviour may end: in `reflector` and `signals`
all versions or transitions can be used up, in `locks` a poisoned lock stops every goroutine.

Fairness. `reflector` assumes weak fairness of the reflector's step and of `PopEvent`: both
are goroutines in `wait.Until` loops, restarted after a panic, and the lock that both take is
never held across a wait. `SF_vars(FreshList)` says that a reflector that lists again and again
is not answered from a lagging cache for ever, an assumption about the API server, without
which nothing could converge. `rate_limiter` assumes that its goroutine goes on (the same loop; the
reload scripts end) and that time does. `signals` assumes that a script that was started runs,
that pending signals are forwarded, that the goroutine goes on and that a supervisor restarts a dead
process. `locks` assumes weak fairness of steps outside a lock and strong fairness of taking one: a
mutex that is free again and again does not pass a waiting goroutine by for ever. Nothing is
assumed of users, callers, VRRP, edits, watches ending, or failures.

## Findings

1. On a MASTER a keepalived commit that is suppressed while a list is being consumed is not made up
   for: later events of the service find its address in the VIP table and ask for none, so it waits
   for another service's address to come or go, or for the next failover (`KeepalivedCatchesUp`; the
   haproxy commit is made up for unless the handler that ends the lists returns early, `ListsEnd` in
   `OnlyGapsStrandFiles`).
2. Outside `SetMaster` nothing waits for keepalived to bind a new address. The haproxy commit of a
   new service finds it missing and leaves the frontend out, and at rest nothing renders it: only a
   later event or resync would (`FrontendsForBoundAddresses`).

## Known divergences

The passing properties name the exceptions under which the code breaks its word (`excused`,
`disturbed`, `mixed`, `poisoned`, re-adds, relists). These configurations state the word without
the exception, and TLC refutes each with a trace (`tlc -config X.cfg M`). They are kept to be
re-run when the code changes.

| cfg, module | property | what happens |
|---|---|---|
| `EventQueueListKeys`, `MCEventQueue` | `ListKeysReturnsAll` | `ListKeys` copies into a slice of length 0 and returns nothing |
| `EventQueueCancel`, `MCEventQueue` | `CancelUnblocksPop` | `Cancel` wakes a consumer that goes straight back to waiting; the `EventQueueStopped` return is dead code |
| `ReflectorReAdd`, `MCReflector` | `NoDeleteThenReAdd` | the queue's comment rules out a delete and a re-add of one ID because IDs are UIDs; the controller keys by namespace and name, so they do meet, and `handleEvent` panics |
| `ReflectorIdle`, `MCReflector` | `IdleMeansInSync` | `Replace` drops queued deletions and makes none up for objects the new list lacks: their routes and addresses stay until the process restarts |
| `FailoverReload`, `MCFailover` | `OnlyMasterReloads` | `master` is tested when a commit is requested, not when it is served: a request that waits in the rate limiter is served on a BACKUP |
| `FailoverSync`, `MCFailover` | `MasterIsSynced` | `SetMaster(true)` renders, waits, and then sets `master`; the commit of an event in between is skipped |
| `BackoffMark`, `MCRateLimiter` | `NextMovesToTheNextMark` | `Next` renews the time and never doubles the backoff, as its comment and `TestSlowBackoff` expect |
| `RateLimiterLong`, `MCRateLimiter` | `IntervalIsKept` | an entry expires after twice 30 s: longer reload intervals are cut to that |
| `ConfigurerShared`, `MCConfigurer` | `FileIsOneRendering` | two writers that share `.tmp` put in place a file that nobody rendered |
| `ControllerHeadless`, `MCProxyController` | `HaproxyCatchesUp` | the event that ends the lists is of a headless service, whose handler returns before its commit; an endpoints object that lists no port does the same when it is added |
| `ControllerSkip`, `MCProxyController` | `NoCommitDuringAList` | each goroutine renews its own flag only: an event of the other kind commits in the middle of a list |
| `ControllerEmpty`, `MCProxyController` | `SyncedMeansCommitting` | a kind without objects delivers no event, its flag stays false and all commits are skipped |
| `ControllerBackends`, `MCProxyController` | `BackendsAreRouted` | a service deleted and re-created, whose endpoints are handled before its deletion, has no backends |
| `ControllerTakeover`, `MCProxyController` | `ServicesAreServed` | a headless service is given an address in an update that is compressed into a place before the deletion of the address's former holder, which then takes it out of the VIP table |
| `SignalsDrop`, `Signals` | `LastTransitionWins` | the full channel drops the last signal |
| `SignalsRestart`, `Signals` | `RestartKnowsTheState` | a process restarted on a MASTER takes itself for BACKUP until the next transition |

## Proofs

Every safety property that a passing run checks is also a theorem, for every value of the
constants. Two have a hypothesis: `IntervalIsKept` one on the constants (`RateLimiterLong` shows why),
`ServicesAreServed` one on the steps, `~Overtakes` (`ControllerTakeover` shows why). The assumptions on constants are the ones TLC
evaluates: special values are not ordinary ones, sets of names are finite, bounds are natural
numbers, a text is a sequence of blocks. Each theorem follows from an inductive invariant that TLC
checked first.

**Event queue** (`EventQueueProofs`). `IInv` joins `TypeOK`, `QueueMatchesEvents` and
`NoLostWakeup` with `ReplaceKeyMarksUnread`: the unread keys of the last list are a prefix of the
queue, none is ADDED, and `lastReplaceKey` is the last of them (or empty when there are none).
`ListConsumedIsExact` alone is not inductive, because a `Pop` of `lastReplaceKey` must be known
to be the last unread key, and because only an ADDED event can be removed from the middle of the
queue. What the loop of `queueWithout` computes is proved by a least counterexample: two sequences of
slices that start alike and grow alike agree (`LoopIsUnique`), since a least index at which they differ
would have a predecessor at which they do not (`LeastElement`, from the well-foundedness of the
naturals); the closed form, a queue with one place taken out, grows as the loop does
(`LoopSkipsOne`). `OrderIsKept` follows from what each method does to positions (`QueueWithoutFacts`,
`PopKeepsOrder`, `HandleEventKeepsOrder`). The last part is the queue as a reflector sees it:
`Shows(view, store, events)` says what store and events say of the cluster the reflector has been
told, and three lemmas that `handleEvent`, `Replace` and `Pop` keep it so. `Reflector` and
`ProxyController` both rest on them.

**Reflector** (`ReflectorProofs`): `QueuedObjectsAreStored`, `QueueBridgesTheGap`,
`OnlyReAddPanics` and `OnlyRelistsOrphan`, for any history and any number of relists. None is
inductive without `Shows`, which also speaks of objects that are stored and not queued, and
`HistorySteps`, by which a watch event tells all of the difference between two versions.
`ReflectorFeeds` is the refinement of `Feed`, step by step: changes at the API server, panics and
watches that end are stutters, and `HistorySteps` makes a watch event one change of the view. So
what is proved of the controller's two feeds holds of two such reflectors, as long as the API server
keeps its rules on cluster IPs. (The controller's model leaves the wait inside `Pop` out.)

**Handlers** (the first part of `FailoverProofs`). What one handler call does to the two tables, the
lock and the commit calls: `ServiceRow`, `EndpointsRow`, `HandlerTypes` and what follows them. The
proofs below cite these and do not look into the handlers again.

**Failover** (`FailoverProofs`). The types are inductive alone. `Held(f)` is `Attended(f)` in terms
of `Text`, what a table says of a file, which is all a step can change about it. `Careful(f)` says
what a step may do to a file: it stays attended to, except in a skipped commit call, a failed step
and a render that overlaps another (`Lost(f)`), each of which excuses it; and an excuse is taken back
only together with a file that is attended to. There is one lemma per action, each about that
action's goroutine and file. `CommitsReachTheFile` is then inductive with the types, and
`OnlyGapsStrandFiles` follows: a step that strands a file either loses it (and a skipped call does not
count on a MASTER outside the lists) or changes `master` or `skipCommit`. `RoleSteps` says that only
`MasterSet` makes a MASTER and only an event ends the lists, which, if its handler goes on, has
`commitHaproxy` yet to call. `DaemonsFollowFiles` is inductive with the types. `BackupWindsDown` and
`RateLimitersCoalesce` both go through `RequestsStepByStep`: a step leaves the test, the request and the
goroutine of a file alone, passes the test as a MASTER, turns a passed test into a request, begins a
commit with the request or ends one.

**Tables** (`ProxierProofs`). With the types, `RoutesCoverServices` is inductive.
`OnlyRivalsTakeVips`, `OnlySurprisesLeaveRoutes`, `OnlySurprisesLeaveBackends` and
`BackendsGoWithTheUnit` are shown for one event at a time from the types.

**Rate limiter** (`UtilProofs`). `LimitersCoalesce` is the safety part of `ImplementsCoalescer`.
`IntervalIsKept` is about `since`, which no code looks at; `EntryOK` ties it to the age of the
backoff entry, which the code does look at, with `ahead` for a clock set forward. Hypothesis: the interval is no longer than the life of
an entry (`defaultDuration <= Expired`, 60 s); `RateLimiterLong` shows that it fails beyond.

**Configurer** (`UtilProofs`). `LoneWriteIsWhole`, for any number of writers, texts and crashes:
`LoneWriterOwnsTmp` says that a writer that has had `.tmp` to itself finds it empty before its write
and whole before its rename, `DescriptorsOfTheFile` that a descriptor of the file in place comes
from a shared `.tmp`.

**Controller** (`ProxyControllerProofs`). `ServicesInv` and `EndpointsInv` say of each queue that
it keeps `IInv` and shows its reflector's view, and that with an empty hand the flag is set, a list
is unread, or everything there is was added and has yet to be popped (`AllAdded`). The last part is
what `FlagsFollowTheLists` lacks: it says why no relist between `Pop` and `ListConsumed` leaves a
flag down for good. `ControllerDrivesFailover` maps every step of the controller to a step of
`Failover` or to a stutter, for the event in hand is always one of `Failover`'s inputs. So all
that is proved of `Failover` holds behind the queues; the corollary `ControllerStrandsFilesInGaps`
says so of `OnlyGapsStrandFiles` and `CommitsReachTheFile`, without a hypothesis.
`ServicesAreServed` has the hypothesis that no update gives an address to a headless service that
has an event queued (`Overtakes`), and needs `ServedInv`: a deletion in the queue comes before the
event of the service that has the address now (`DeletionsComeFirst`), so does one in hand
(`HandComesFirst`), and what is in hand is the service as it is, unless more is to come
(`HandIsCurrent`). `DeletionsComeFirst` is where compression matters: it puts the new owner's event
behind the deletion, since one address has one owner, and it holds because `handleEvent` and `Pop`
keep the order of the queue. The run checks `ServicesAreServed` on a BACKUP, the theorem on any node.

**Signals** (`SignalsProofs`). `YoungestNewsIsRight`, for a channel of any size and any number of
transitions and crashes. `NewsIsRight` follows the youngest news from place to place; it needs that
undisturbed at most one signal is pending.

**Locks** (`LocksProofs`). With the types, `LockIsReleased` is inductive.

Only model-checked:

- liveness, out of the prover's reach: `EventuallyConverges`, `MasterFollows`, `EventsAreHandled`
  and the fairness of `ImplementsCoalescer`;
- the two findings and the known divergences, which are traces.

## Not modelled

- errors of `keyFn` and of the backing store (`MetaNamespaceKeyFunc` fails only on values without
  object metadata), the order of addresses in a backend, session affinity, the text of the
  configuration: no property depends on them;
- the HTTP server for health and metrics, options, version, the rest of start-up: no state of
  their own;
- methods without a caller: `AddAddr` and `DeleteAddr`, `SetTo` and `SetToIf` of the atomic bool,
  `Get`, `IsInBackOffSince`, `Reset`, `DeleteEntry` and `GC` of the backoff;
- `reload_haproxy_advanced.sh` (not run by the program);
- the vendored Kubernetes code under `Godeps`, beyond the reflector, `FIFO.Pop`, `wait.Until`,
  the event constants and the validation of a service update: types, codecs and clients are
  generated or third-party, and make up nearly all lines of the repository.

## Plan

1. *(done)* `EventQueue`, its proofs, `Reflector`; `Proxier`, `ProxierTables`, their proofs,
   `Failover`.
2. *(done)* `ProxyController`; `RateLimiter`, `Backoff` and `Coalescer`; `Signals`; `Locks`;
   `Configurer`; `Binding`.
3. *(done)* Proofs of the safety properties of all runs: `Reflector`, `ProxierTables`, `Failover`,
   `RateLimiter`, `Configurer`, `ProxyController`, `Signals`, `Locks`, the order of the queue, the two
   refinements of `Coalescer`.
4. *(done)* `queueWithout` as the loop it is, and what it computes; `Feed`, which `Reflector` is
   proved to implement and `ProxyController` composes; commit calls in two steps, `Failover` inside
   `ProxyController`, `OnlyGapsStrandFiles`; `ServicesAreServed` without hypotheses on the objects;
   `ProxierTables` without a guard on deletions.
5. Open: a theorem that what `ProxyController` hands to the proxier, with lists from a cache that
   does not lag, is a behaviour of `ProxierTables`. It needs the history of what was delivered in
   the controller's state; nothing rests on it, since both are compared with the cluster directly.
