---------------------------- MODULE StreamerFanout ----------------------------
(***************************************************************************)
(* What the gateway's LogStreamerProxyService promises to the rest of the  *)
(* system, with no socket, timer, DNS lookup or reference count in sight:  *)
(* GraphQL subscribers watch log keys, and every log-streamer the gateway  *)
(* is linked to has been asked for exactly the keys somebody watches.      *)
(*                                                                         *)
(* LogStreamerProxy implements this module (LogStreamerProxy!Fanout).      *)
(***************************************************************************)
CONSTANTS Hosts,     \* log-streamer instances, by address
          Keys,      \* containers and services whose logs can be watched
          Subs       \* GraphQL subscriptions

VARIABLES watchers,  \* watchers[k]: the subscriptions watching key k
          linked,    \* the hosts the gateway has a live link to
          asked      \* asked[h]: the keys host h has been asked to stream

vars == <<watchers, linked, asked>>

Watched(w) == {k \in Keys : w[k] # {}}

Init ==
    /\ watchers = [k \in Keys |-> {}]
    /\ linked = {}
    /\ asked = [h \in Hosts |-> {}]

\* Everything linked follows the set of watched keys.
InStep(w, l) == asked' = [h \in Hosts |-> IF h \in l THEN Watched(w) ELSE {}]

Watch(s, k) ==
    /\ \A j \in Keys : s \notin watchers[j]
    /\ watchers' = [watchers EXCEPT ![k] = @ \cup {s}]
    /\ linked' = linked
    /\ InStep(watchers', linked)

Unwatch(s, k) ==
    /\ s \in watchers[k]
    /\ watchers' = [watchers EXCEPT ![k] = @ \ {s}]
    /\ linked' = linked
    /\ InStep(watchers', linked)

Link(h) ==
    /\ h \notin linked
    /\ linked' = linked \cup {h}
    /\ watchers' = watchers
    /\ InStep(watchers, linked')

\* Several links can be lost in one step: a reconciliation or a shutdown.
Unlink ==
    /\ linked' \in SUBSET linked
    /\ watchers' = watchers
    /\ InStep(watchers, linked')

Next ==
    \/ \E s \in Subs, k \in Keys : Watch(s, k) \/ Unwatch(s, k)
    \/ \E h \in Hosts : Link(h)
    \/ Unlink

Spec == Init /\ [][Next]_vars
===============================================================================
