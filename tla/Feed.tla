-------------------------------- MODULE Feed --------------------------------
(***************************************************************************)
(* What a consumer may expect of an EventQueue that a client-go reflector    *)
(* fills (abstract): the reflector has a view of the cluster, which a watch  *)
(* event changes in one object and a list replaces by any other, at any time *)
(* and without a word about what is gone.  Reflector implements it, and      *)
(* ProxyController composes two of them.                                     *)
(***************************************************************************)
EXTENDS EventQueue

VARIABLE view   \* what the reflector has been told: key -> state

FeedInit == NewEventQueue /\ view = [k \in Keys |-> NoState]

TypeOf(old, new) ==
    IF old = NoState THEN Added ELSE IF new = NoState THEN Deleted ELSE Modified

\* A watch event.  One that makes handleEvent panic changes nothing; the list
\* that follows does.
Watch(k, v) ==
    /\ v # view[k]
    /\ handleEvent(k, v, TypeOf(view[k], v))
    /\ view' = [view EXCEPT ![k] = v]

\* A list, with its objects in any order: the first one, a resync, a broken
\* watch, a panic, an answer from a cache that lags.
Relist(keys, cluster) ==
    /\ KeysOf(keys) = {k \in Keys : cluster[k] # NoState}
    /\ Replace(keys, cluster)
    /\ view' = cluster

FeedNext ==
    \/ \E k \in Keys, v \in States \cup {NoState} : Watch(k, v)
    \/ \E keys \in Listings, cluster \in [Keys -> States \cup {NoState}] : Relist(keys, cluster)
    \/ (Pop \/ PopWait) /\ UNCHANGED view

FeedSpec == FeedInit /\ [][FeedNext]_<<eqVars, view>>
=============================================================================
