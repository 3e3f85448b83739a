--------------------------- MODULE LogStreamerProxy ---------------------------
(***************************************************************************)
(* The gateway's LogStreamerProxyService                                   *)
(* (src/apps/gateway/src/log-streamer-proxy/log-streamer-proxy.service.ts) *)
(* keeps one WebSocket per log-streamer instance found in DNS, reconciles  *)
(* that set every 30 s, reconnects with a backoff, and counts the GraphQL  *)
(* subscriptions of every container and service so that each log-streamer  *)
(* is told "subscribe" for the first of a key and "unsubscribe" after the  *)
(* last.                                                                   *)
(*                                                                         *)
(* Every action is one turn of the Node.js event loop: a handler runs to   *)
(* its first await (or its end) without interruption, and what it resumes  *)
(* after the await is an action of its own.                                *)
(*                                                                         *)
(* Containers and services are both Keys: the service keeps two maps with  *)
(* the same code over disjoint topics.  Messages about different keys are  *)
(* independent, so a socket is a FIFO queue per key.  The delay of the     *)
(* backoff is left out: a pending timer may fire at any time.              *)
(***************************************************************************)
EXTENDS Naturals, Sequences, FiniteSets

CONSTANTS
    TaskHosts,     \* addresses `tasks.log-streamer` may resolve to
    FallbackHost,  \* host name of LOG_STREAMER_URL, used when DNS fails
    Slots,         \* names of the connection objects a host may have at once
    NoSlot,        \* the host has no entry in the connections map
    Keys,          \* container ids and service names
    NoKey,
    Subs,          \* GraphQL subscriptions (one at a time for each name)
    Lookups,       \* DNS lookups that may be in flight together
    BootLookup,    \* the one awaited by onModuleInit
    MaxWire,       \* bound: unread messages of one key on one socket
    SlowClose      \* may a closing handshake outlast the next reconciliation?

Hosts == TaskHosts \cup {FallbackHost}
Conns == Hosts \X Slots

ASSUME NoSlotAssumption  == NoSlot \notin Slots
ASSUME NoKeyAssumption   == NoKey \notin Keys
ASSUME SubsAssumption    == IsFiniteSet(Subs)
ASSUME BootAssumption    == BootLookup \in Lookups
ASSUME MaxWireAssumption == MaxWire \in Nat \ {0}

VARIABLES
    isShuttingDown,
    dnsRefreshInterval, \* "unset" until onModuleInit resumes
    tasks,              \* the running log-streamer tasks (environment)
    lookup,             \* lookup[l]: the answer under way, {} when l is free
    connections,        \* the Map: the slot of the host's connection object
    ws,                 \* state of the connection object's socket
    reconnectTimeout,   \* is the connection object's timer pending?
    sub,                \* the resolver call and iterator of a subscription
    subCount,           \* activeSubscriptions and activeServiceSubscriptions
    wire,               \* wire[c][k]: messages the log-streamer has not read
    upstream            \* upstream[c]: keys c's log-streamer has been asked for

netVars == <<ws, reconnectTimeout, wire, upstream>>
dnsVars == <<tasks, lookup, dnsRefreshInterval>>
subVars == <<sub, subCount>>
vars == <<isShuttingDown, connections, dnsVars, netVars, subVars>>

Message == {"subscribe", "unsubscribe"}
Interest == {k \in Keys : subCount[k] > 0}
Mapped(c) == connections[c[1]] = c[2]
Live(c) == ws[c] \in {"connecting", "open"}

\* A connection object nothing refers to any more: its slot can be reused.
Free(c) == ~Mapped(c) /\ ws[c] = "none" /\ ~reconnectTimeout[c]

Quiet == [k \in Keys |-> <<>>]

-----------------------------------------------------------------------------
(* discoverLogStreamers: the A records of the tasks, or the fallback host   *)
(* when the lookup fails; an empty answer is a failure.                     *)
AnswersWithPort(t) == {{"host:port"}} \cup ({t} \ {{}})  \* mutant
Answers(t) == {{FallbackHost}} \cup ({t} \ {{}})

Init ==
    /\ isShuttingDown = FALSE
    /\ dnsRefreshInterval = "unset"
    /\ tasks \in SUBSET TaskHosts
    /\ \E a \in Answers(tasks) :
          lookup = [l \in Lookups |-> IF l = BootLookup THEN a ELSE {}]
    /\ connections = [h \in Hosts |-> NoSlot]
    /\ ws = [c \in Conns |-> "none"]
    /\ reconnectTimeout = [c \in Conns |-> FALSE]
    /\ wire = [c \in Conns |-> Quiet]
    /\ upstream = [c \in Conns |-> {}]
    /\ sub = [s \in Subs |-> [pc |-> "idle", key |-> NoKey]]
    /\ subCount = [k \in Keys |-> 0]

-----------------------------------------------------------------------------
(* Sockets.                                                                 *)

\* closeConnection: the timer is cleared; an open socket starts its closing
\* handshake, and one still connecting is aborted (its close event comes
\* before the next turn and finds its host out of the map).
ClosedWsLeftOpen(c) == ws[c]  \* mutant
ClosedWs(c) == IF ws[c] \in {"open", "closing"} THEN "closing" ELSE "none"

\* connectWebSocket: which of the connection objects in `new` get a socket, and
\* which fail in its constructor and are left with a timer (scheduleReconnect).
DialledAnyway(new, failing) == new \ failing  \* mutant
Dialled(new, failing) == IF isShuttingDown THEN {} ELSE new \ failing
Retried(new, failing) == IF isShuttingDown THEN {} ELSE new \cap failing

\* The timer of an object in `new` has just fired (or never was); those in
\* `gone` go through closeConnection.
TimersKept(gone, new, failing) ==  \* mutant
    [c \in Conns |-> reconnectTimeout[c] \/ c \in Retried(new, failing)]
Timers(gone, new, failing) ==
    [c \in Conns |-> \/ reconnectTimeout[c] /\ c \notin gone \cup new
                     \/ c \in Retried(new, failing)]

Rewire(gone, new, failing) ==
    /\ ws' = [c \in Conns |-> CASE c \in gone                  -> ClosedWs(c)
                                [] c \in Dialled(new, failing) -> "connecting"
                                [] OTHER                       -> ws[c]]
    /\ reconnectTimeout' = Timers(gone, new, failing)

\* Messages on sockets that are not there are lost.
Reset(c) ==
    /\ wire' = [wire EXCEPT ![c] = Quiet]
    /\ upstream' = [upstream EXCEPT ![c] = {}]

\* The 'open' handler asks for everything somebody is subscribed to.
ResubscribedNot == Quiet  \* mutant
Resubscribed == [k \in Keys |-> IF k \in Interest THEN <<"subscribe">> ELSE <<>>]

Open(c) ==
    /\ ws[c] = "connecting"
    /\ ws' = [ws EXCEPT ![c] = "open"]
    /\ wire' = [wire EXCEPT ![c] = Resubscribed]
    /\ UNCHANGED <<isShuttingDown, connections, dnsVars, reconnectTimeout,
                   upstream, subVars>>

\* The peer starts the closing handshake of an open socket.
PeerCloses(c) ==
    /\ ws[c] = "open"
    /\ ws' = [ws EXCEPT ![c] = "closing"]
    /\ UNCHANGED <<isShuttingDown, connections, dnsVars, reconnectTimeout,
                   wire, upstream, subVars>>

\* scheduleReconnect: `this.connections.has(conn.host)` looks at the host, not
\* at the connection object.
ReconnectAlways(c) == ~isShuttingDown  \* mutant
ReconnectNever(c) == FALSE             \* mutant
ReconnectDue(c) == ~isShuttingDown /\ connections[c[1]] # NoSlot

\* The 'close' handler.
Close(c) ==
    /\ ws[c] # "none"
    /\ ws' = [ws EXCEPT ![c] = "none"]
    /\ reconnectTimeout' = [reconnectTimeout EXCEPT ![c] =
          @ \/ ReconnectDue(c)]
    /\ Reset(c)
    /\ UNCHANGED <<isShuttingDown, connections, dnsVars, subVars>>

\* The reconnect timer fires: connectWebSocket.
Reconnect(c) ==
    /\ reconnectTimeout[c]
    /\ \E failing \in SUBSET {c} : Rewire({}, {c}, failing)
    /\ UNCHANGED <<isShuttingDown, connections, dnsVars, wire, upstream,
                   subVars>>

\* The log-streamer at the other end reads one message.
Read(c, k) ==
    /\ ws[c] \in {"open", "closing"}
    /\ wire[c][k] # <<>>
    /\ wire' = [wire EXCEPT ![c][k] = Tail(@)]
    /\ upstream' = [upstream EXCEPT ![c] =
          IF Head(wire[c][k]) = "subscribe" THEN @ \cup {k} ELSE @ \ {k}]
    /\ UNCHANGED <<isShuttingDown, connections, dnsVars, ws, reconnectTimeout,
                   subVars>>

-----------------------------------------------------------------------------
(* Discovery and reconciliation.                                            *)

\* Docker starts and stops log-streamer tasks.
TasksChange ==
    /\ tasks' \in SUBSET TaskHosts \ {tasks}
    /\ UNCHANGED <<isShuttingDown, connections, lookup, dnsRefreshInterval,
                   netVars, subVars>>

\* The refresh interval starts a lookup; reconcileConnections returns at once
\* when shutting down.
DnsRefresh(a) ==
    /\ dnsRefreshInterval = "set"
    /\ ~isShuttingDown
    /\ a \in Answers(tasks)
    /\ \E l \in Lookups :
          /\ lookup[l] = {}
          /\ lookup' = [lookup EXCEPT ![l] = a]
    /\ UNCHANGED <<isShuttingDown, connections, tasks, dnsRefreshInterval,
                   netVars, subVars>>

\* reconcileConnections resumes with the answer of lookup l.  It does not look
\* at isShuttingDown again.  onModuleInit then starts the interval.
Reconcile(l) ==
    LET current == {h \in Hosts : connections[h] # NoSlot}
        gone    == {c \in Conns : Mapped(c) /\ c[1] \notin lookup[l]}
        added   == lookup[l] \ current
    IN  /\ lookup[l] # {}
        /\ SlowClose \/ \A c \in Conns : c[1] \in added => ws[c] = "none"
        /\ \E slot \in [added -> Slots] :
              LET new == {<<h, slot[h]>> : h \in added}
              IN  /\ \A c \in new : Free(c)
                  /\ \E failing \in SUBSET new : Rewire(gone, new, failing)
                  /\ connections' = [h \in Hosts |->
                        CASE h \in added          -> slot[h]
                          [] h \notin lookup[l]   -> NoSlot
                          [] OTHER                -> connections[h]]
        /\ lookup' = [lookup EXCEPT ![l] = {}]
        /\ dnsRefreshInterval' = IF dnsRefreshInterval = "unset"
                                   THEN "set" ELSE dnsRefreshInterval
        /\ UNCHANGED <<isShuttingDown, tasks, wire, upstream, subVars>>

OnModuleDestroy ==
    /\ ~isShuttingDown
    /\ isShuttingDown' = TRUE
    /\ dnsRefreshInterval' = IF dnsRefreshInterval = "set"
                               THEN "cleared" ELSE dnsRefreshInterval
    /\ Rewire({c \in Conns : Mapped(c)}, {}, {})
    /\ connections' = [h \in Hosts |-> NoSlot]
    /\ UNCHANGED <<tasks, lookup, wire, upstream, subVars>>

-----------------------------------------------------------------------------
(* GraphQL subscriptions: subscribeToLogs and subscribeToServiceLogs.       *)

\* releaseSubscription.
ReleasedAll(n) == 0  \* mutant
Released(n) == IF n = 0 THEN 0 ELSE n - 1
IsLastAlways(k) == TRUE  \* mutant
IsLast(k) == subCount[k] = 1

\* broadcastToAll: only sockets that are open, of connections in the map.
Listening(c) == Mapped(c) /\ ws[c] = "open"

Broadcast(k, m) ==
    /\ \A c \in Conns : Listening(c) => Len(wire[c][k]) < MaxWire
    /\ wire' = [c \in Conns |-> IF Listening(c)
                                  THEN [wire[c] EXCEPT ![k] = Append(@, m)]
                                  ELSE wire[c]]

\* The call reaches `await this.pubSub.subscribe(topic, ...)`.
Subscribe(s, k) ==
    /\ sub[s].pc = "idle"
    /\ sub' = [sub EXCEPT ![s] = [pc |-> "subscribing", key |-> k]]
    /\ UNCHANGED <<isShuttingDown, connections, dnsVars, netVars, subCount>>

\* The Redis SUBSCRIBE is rejected and so is the call: nothing was retained.
SubscribeRejected(s) ==
    /\ sub[s].pc = "subscribing"
    /\ sub' = [sub EXCEPT ![s] = [pc |-> "idle", key |-> NoKey]]
    /\ UNCHANGED <<isShuttingDown, connections, dnsVars, netVars, subCount>>

\* Redis is ready: retainSubscription, and a broadcast for the first.
Subscribed(s) ==
    LET k == sub[s].key
    IN  /\ sub[s].pc = "subscribing"
        /\ sub' = [sub EXCEPT ![s].pc = "active"]
        /\ subCount' = [subCount EXCEPT ![k] = @ + 1]
        /\ IF subCount[k] = 0 THEN Broadcast(k, "subscribe")
                              ELSE wire' = wire
        /\ UNCHANGED <<isShuttingDown, connections, dnsVars, ws,
                       reconnectTimeout, upstream>>

\* The iterator's return(): releaseSubscription, and a broadcast for the last.
Return(s) ==
    LET k == sub[s].key
    IN  /\ sub[s].pc = "active"
        /\ sub' = [sub EXCEPT ![s] = [pc |-> "idle", key |-> NoKey]]
        /\ subCount' = [subCount EXCEPT ![k] = Released(@)]
        /\ IF IsLast(k) THEN Broadcast(k, "unsubscribe")
                              ELSE wire' = wire
        /\ UNCHANGED <<isShuttingDown, connections, dnsVars, ws,
                       reconnectTimeout, upstream>>

-----------------------------------------------------------------------------
Next ==
    \/ TasksChange
    \/ \E a \in SUBSET Hosts : DnsRefresh(a)
    \/ \E l \in Lookups : Reconcile(l)
    \/ OnModuleDestroy
    \/ \E c \in Conns : \/ Open(c)
                        \/ PeerCloses(c)
                        \/ Close(c)
                        \/ Reconnect(c)
                        \/ \E k \in Keys : Read(c, k)
    \/ \E s \in Subs : \/ \E k \in Keys : Subscribe(s, k)
                       \/ SubscribeRejected(s)
                       \/ Subscribed(s)
                       \/ Return(s)

Spec == Init /\ [][Next]_vars

-----------------------------------------------------------------------------
(* Fairness: Node runs every timer that is due, a lookup that was started   *)
(* is answered or times out, a closing handshake ends (ws gives the peer 30 *)
(* seconds), a socket that does not fail opens, and a log-streamer reads    *)
(* its sockets.  Subscriptions, failures and Docker owe nothing.            *)
Fairness ==
    /\ WF_vars(\E a \in SUBSET Hosts : DnsRefresh(a))
    /\ \A l \in Lookups : WF_vars(Reconcile(l))
    /\ \A c \in Conns : /\ WF_vars(Open(c))
                        /\ WF_vars(Reconnect(c))
                        /\ WF_vars(ws[c] = "closing" /\ Close(c))
                        /\ \A k \in Keys : WF_vars(Read(c, k))

FairSpec == Spec /\ Fairness

-----------------------------------------------------------------------------
(* Type correctness of the service's state and of its environment.          *)
TypeOK ==
    /\ isShuttingDown \in BOOLEAN
    /\ dnsRefreshInterval \in {"unset", "set", "cleared"}
    /\ tasks \in SUBSET TaskHosts
    /\ lookup \in [Lookups -> SUBSET Hosts]
    /\ connections \in [Hosts -> Slots \cup {NoSlot}]
    /\ ws \in [Conns -> {"none", "connecting", "open", "closing"}]
    /\ reconnectTimeout \in [Conns -> BOOLEAN]
    /\ sub \in [Subs -> [pc : {"idle"}, key : {NoKey}]
                   \cup [pc : {"subscribing", "active"}, key : Keys]]
    /\ subCount \in [Keys -> Nat]
    /\ wire \in [Conns -> [Keys -> Seq(Message)]]
    /\ upstream \in [Conns -> SUBSET Keys]

\* The last thing c's log-streamer has been, or will have been, told about k.
LastWord(c, k) == IF wire[c][k] = <<>> THEN k \in upstream[c]
                  ELSE wire[c][k][Len(wire[c][k])] = "subscribe"

(* Whatever interleaving of sockets opening and closing, reconciliations    *)
(* and subscriptions led here, a log-streamer the service has an open       *)
(* connection to has been asked for exactly the keys with a subscription:   *)
(* none is missed by a socket that opened late, none is left running by a   *)
(* broadcast that skipped a socket (broadcastToAll, the 'open' handler).    *)
ListenersKnowInterest ==
    \A c \in Conns : Listening(c) =>
        \A k \in Keys : LastWord(c, k) <=> k \in Interest

(* retainSubscription and releaseSubscription count exactly the live        *)
(* iterators, although a call may be rejected or resume after others on the *)
(* same key came and went.                                                  *)
ActiveOn(k) == {s \in Subs : sub[s].pc = "active" /\ sub[s].key = k}
RefCountExact == \A k \in Keys : subCount[k] = Cardinality(ActiveOn(k))

(* scheduleReconnect's comment: "Skip reconnect if the connection was       *)
(* removed during reconciliation".  A pending reconnect is always that of   *)
(* the connection in the map.                                               *)
OnlyMappedReconnect == \A c \in Conns : reconnectTimeout[c] => Mapped(c)

(* No connection object keeps a socket, or a timer that would give it one,  *)
(* once reconcileConnections or onModuleDestroy has dropped it: such a      *)
(* socket would publish every log line a second time.                       *)
NoOrphan == \A c \in Conns : Live(c) \/ reconnectTimeout[c] => Mapped(c)

(* A connection has a socket or a pending timer, never both: a reconnect    *)
(* never replaces a socket that is still there.                             *)
OneAttempt == \A c \in Conns : reconnectTimeout[c] => ws[c] = "none"

(* A connection in the map is never forgotten: it has a socket whose close  *)
(* event is still to come, or a timer, unless the service shut down.        *)
NeverAbandoned ==
    ~isShuttingDown => \A c \in Conns : Mapped(c) =>
        ws[c] # "none" \/ reconnectTimeout[c]

(* After onModuleDestroy nothing is left but closing handshakes, although a *)
(* reconciliation that was waiting for DNS still resumes.                   *)
ShutdownSeversAll ==
    isShuttingDown => \A c \in Conns : ~Live(c) /\ ~reconnectTimeout[c]

-----------------------------------------------------------------------------
(* What the service promises: see StreamerFanout.                           *)
LinkedHosts == {h \in Hosts : \E s \in Slots : Listening(<<h, s>>)}

Watchers == [k \in Keys |-> ActiveOn(k)]
Asked == [h \in Hosts |-> {k \in Keys :
             \E s \in Slots : Listening(<<h, s>>) /\ LastWord(<<h, s>>, k)}]

Fanout == INSTANCE StreamerFanout
              WITH watchers <- Watchers, linked <- LinkedHosts, asked <- Asked

(* The service implements the fan-out: every step of it is a step of        *)
(* StreamerFanout or changes nothing a subscriber or log-streamer can tell. *)
ImplementsFanout == Fanout!Spec

-----------------------------------------------------------------------------
(* Things that keep the service from settling: Docker moves a task, DNS     *)
(* fails although there are tasks, a socket fails or is closed.             *)
Disturbance ==
    \/ TasksChange
    \/ tasks # {} /\ DnsRefresh({FallbackHost})
    \/ \E c \in Conns : PeerCloses(c) \/ (Live(c) /\ Close(c))

Expected == CHOOSE a \in Answers(tasks) : tasks # {} => a = tasks

(* Once disturbances stop, the service ends up connected to exactly the     *)
(* log-streamers that run, however many lookups with stale answers and      *)
(* backoff timers were pending: its reconciliation loop self-stabilises.    *)
Recovers == (<>[][~Disturbance]_vars) => <>[](isShuttingDown \/ LinkedHosts = Expected)

(* ... and a key that stays subscribed is then streamed by all of them.     *)
StreamsResume ==
    (<>[][~Disturbance]_vars) =>
        \A k \in Keys : <>[](k \in Interest) =>
            <>[](isShuttingDown \/ \A h \in Expected : \E s \in Slots :
                    Listening(<<h, s>>) /\ k \in upstream[<<h, s>>])

(* Every socket is gone some time after onModuleDestroy.                    *)
ShutdownDrains == isShuttingDown ~> [](\A c \in Conns : ws[c] = "none")
===============================================================================
