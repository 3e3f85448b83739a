----------------------------- MODULE LogStreamerWs -----------------------------
(***************************************************************************)
(* One WebSocket connection of the Go log-streamer                         *)
(* (src/apps/log-streamer/internal/handler/ws): the read loop that owns the*)
(* subscriptionManager, the service subscriptions with a goroutine each    *)
(* that watches Docker events, and the goroutines that follow the logs of  *)
(* a container.                                                            *)
(*                                                                         *)
(* An action is what a goroutine does between two points where another one *)
(* can get in: a critical section, a channel receive, a call to Docker.    *)
(* What is written to the socket is left out.                              *)
(***************************************************************************)
EXTENDS Naturals, Sequences, FiniteSets

CONSTANTS
    Services, Containers,
    ServiceOf,      \* the swarm service label of a container
    Restartable,    \* containers Docker may start again with the same id
    Insts,          \* serviceSubscription objects (bound; reused)
    Streams,        \* streaming goroutines (bound; reused)
    None,
    MaxFeed         \* bound: Docker events on their way to a watcher

ASSUME ServiceOfAssumption == ServiceOf \in [Containers -> Services]
ASSUME ContainersAssumption == Containers # {}
ASSUME NoneAssumption == None \notin Streams \cup Insts
ASSUME MaxFeedAssumption == MaxFeed \in Nat \ {0}

VARIABLES
    docker,       \* state of each container
    handler,      \* the read loop: "reading", "listing" or "closed"
    subs,         \* m.subs: the stream a container subscription can cancel
    serviceSubs,  \* m.serviceSubs
    svc,          \* svc[i]: the service of subscription object i
    stopped,      \* has its context been cancelled?
    watcher,      \* its watchEvents goroutine
    feed,         \* events Docker has sent it and it has not handled
    entries,      \* s.containers: the stream a container's entry can cancel
    pc,           \* pc[t]: where the streaming goroutine is
    of,           \* of[t]: the container it follows
    owner,        \* owner[t]: its subscription object, or None for m.subs
    canceled,     \* has its context (or cancel channel) been cancelled?
    missed        \* history: running containers i has no way to know of

instVars == <<svc, stopped, watcher, feed, entries, missed>>
streamVars == <<pc, of, owner, canceled>>
vars == <<docker, handler, subs, serviceSubs, instVars, streamVars>>

Events == [action : {"start", "die"}, container : Containers]
Alive(t) == pc[t] # "ended"
Watching(i) == watcher[i] \in {"dialing", "watching", "backoff"}

\* Stream ids and subscription objects nothing refers to can be used again.
FreeStream(t) == /\ ~Alive(t)
                 /\ \A c \in Containers : subs[c] # t
                 /\ \A i \in Insts, c \in Containers : entries[i][c] # t
FreeInst(i) == /\ \A v \in Services : serviceSubs[v] # i
               /\ ~Watching(i)
               /\ \A t \in Streams : owner[t] = i => ~Alive(t)

Running(v) == {c \in Containers : docker[c] = "running" /\ ServiceOf[c] = v}
Nothing == [c \in Containers |-> None]

Init ==
    /\ docker \in [Containers -> {"new", "running"}]
    /\ handler = "reading"
    /\ subs = Nothing
    /\ serviceSubs = [v \in Services |-> None]
    /\ svc \in [Insts -> {CHOOSE v \in Services : TRUE}]
    /\ stopped = [i \in Insts |-> TRUE]
    /\ watcher = [i \in Insts |-> "none"]
    /\ feed = [i \in Insts |-> <<>>]
    /\ entries = [i \in Insts |-> Nothing]
    /\ missed = [i \in Insts |-> {}]
    /\ pc = [t \in Streams |-> "ended"]
    /\ of \in [Streams -> {CHOOSE c \in Containers : TRUE}]
    /\ owner = [t \in Streams |-> None]
    /\ canceled = [t \in Streams |-> TRUE]

-----------------------------------------------------------------------------
(* Streaming goroutines.                                                    *)

\* go streamLogs / go streamServiceLogs for each container of `by`; the
\* context of a service's stream is derived from that of the subscription.
Detached(o) == FALSE  \* mutant: context.Background()
Inherited(o) == o # None /\ stopped[o]

Spawn(by, o) ==
    LET new == {by[c] : c \in DOMAIN by}
        Of(t) == CHOOSE c \in DOMAIN by : by[c] = t
    IN  /\ \A t \in new : FreeStream(t)
        /\ \A c, d \in DOMAIN by : by[c] = by[d] => c = d
        /\ pc' = [t \in Streams |-> IF t \in new THEN "opening" ELSE pc[t]]
        /\ of' = [t \in Streams |-> IF t \in new THEN Of(t) ELSE of[t]]
        /\ owner' = [t \in Streams |-> IF t \in new THEN o ELSE owner[t]]
        /\ canceled' = [t \in Streams |->
              IF t \in new THEN Inherited(o) ELSE canceled[t]]

Cancel(ts) ==
    /\ canceled' = [t \in Streams |-> canceled[t] \/ t \in ts]
    /\ UNCHANGED <<pc, of, owner>>

\* GetContainerLogs with Follow answers: the logs of a container that is not
\* running end after what is already there.
NoFollow(c) == "draining"  \* mutant: Follow left out
LogsOf(c) == IF docker[c] = "running" THEN "following" ELSE "draining"

Opens(t) ==
    /\ pc[t] = "opening"
    /\ docker[of[t]] \in {"running", "exited"}
    /\ pc' = [pc EXCEPT ![t] = LogsOf(of[t])]
    /\ UNCHANGED <<docker, handler, subs, serviceSubs, instVars, of, owner,
                   canceled>>

\* Docker fails to answer, or breaks the stream.  The entry stays.
Breaks(t) ==
    /\ pc[t] \in {"opening", "following"}
    /\ pc' = [pc EXCEPT ![t] = "ended"]
    /\ missed' = [i \in Insts |->
          IF owner[t] = i /\ ~canceled[t] /\ docker[of[t]] = "running"
            THEN missed[i] \cup {of[t]} ELSE missed[i]]
    /\ UNCHANGED <<docker, handler, subs, serviceSubs, svc, stopped, watcher,
                   feed, entries, of, owner, canceled>>

\* The goroutine returns: its container is gone, the log has been read to its
\* end, or the read loop notices the cancellation.  The entry stays.
Ends(t) ==
    /\ Alive(t)
    /\ \/ canceled[t]
       \/ pc[t] = "draining"
       \/ pc[t] = "opening" /\ docker[of[t]] = "removed"
    /\ pc' = [pc EXCEPT ![t] = "ended"]
    /\ UNCHANGED <<docker, handler, subs, serviceSubs, instVars, of, owner,
                   canceled>>

-----------------------------------------------------------------------------
(* The read loop: subscriptionManager.                                      *)

Subscribe(c) ==
    /\ handler = "reading"
    /\ subs[c] = None
    /\ docker[c] \in {"running", "exited"}   \* ContainerExists
    /\ \E t \in Streams :
          /\ Spawn([d \in {c} |-> t], None)
          /\ subs' = [subs EXCEPT ![c] = t]
    /\ UNCHANGED <<docker, handler, serviceSubs, instVars>>

Unsubscribe(c) ==
    /\ handler = "reading"
    /\ subs[c] # None
    /\ Cancel({subs[c]})
    /\ subs' = [subs EXCEPT ![c] = None]
    /\ UNCHANGED <<docker, handler, serviceSubs, instVars>>

\* newServiceSubscription, and Start up to the answer of Docker's list.
SubscribeService(v) ==
    /\ handler = "reading"
    /\ serviceSubs[v] = None
    /\ \E i \in Insts :
          /\ FreeInst(i)
          /\ serviceSubs' = [serviceSubs EXCEPT ![v] = i]
          /\ svc' = [svc EXCEPT ![i] = v]
          /\ stopped' = [stopped EXCEPT ![i] = FALSE]
          /\ watcher' = [watcher EXCEPT ![i] = "none"]
          /\ feed' = [feed EXCEPT ![i] = <<>>]
          /\ entries' = [entries EXCEPT ![i] = Nothing]
          /\ missed' = [missed EXCEPT ![i] = {}]
    /\ handler' = "listing"
    /\ UNCHANGED <<docker, subs, streamVars>>

\* Start goes on: a stream for every container listed (none on an error), then
\* `go s.watchEvents()`.  What starts between the list and the moment the
\* watcher is connected is not in either.
Started(i, listed) ==
    /\ handler = "listing"
    /\ serviceSubs[svc[i]] = i /\ watcher[i] = "none"
    /\ \E by \in [listed -> Streams] :
          /\ Spawn(by, i)
          /\ entries' = [entries EXCEPT ![i] =
                [c \in Containers |-> IF c \in listed THEN by[c] ELSE None]]
    /\ watcher' = [watcher EXCEPT ![i] = "dialing"]
    /\ missed' = [missed EXCEPT ![i] = Running(svc[i]) \ listed]
    /\ handler' = "reading"
    /\ UNCHANGED <<docker, subs, serviceSubs, svc, stopped, feed>>

Listed(i) == Started(i, Running(svc[i]))
ListFails(i) == Started(i, {})

\* serviceSubscription.Stop on the objects in `is`, and closing the container
\* subscriptions in `cs`.
Stop(is) == {entries[i][c] : i \in is, c \in Containers} \ {None}

Drop(cs, is) ==
    /\ Cancel({subs[c] : c \in cs} \cup Stop(is))
    /\ subs' = [c \in Containers |-> IF c \in cs THEN None ELSE subs[c]]
    /\ serviceSubs' = [v \in Services |->
          IF serviceSubs[v] \in is THEN None ELSE serviceSubs[v]]
    /\ stopped' = [i \in Insts |-> stopped[i] \/ i \in is]
    /\ entries' = [i \in Insts |-> IF i \in is THEN Nothing ELSE entries[i]]
    /\ UNCHANGED <<docker, svc, watcher, feed, missed>>

UnsubscribeService(v) ==
    /\ handler = "reading"
    /\ serviceSubs[v] # None
    /\ Drop({}, {serviceSubs[v]})
    /\ UNCHANGED handler

\* ReadMessage fails: the deferred CloseAll.
Disconnect ==
    /\ handler = "reading"
    /\ Drop({c \in Containers : subs[c] # None},
            {serviceSubs[v] : v \in Services} \ {None})
    /\ handler' = "closed"

-----------------------------------------------------------------------------
(* watchEvents of subscription i.                                           *)

\* Docker accepts the event stream: it delivers what happens from now on.
Connects(i) ==
    /\ watcher[i] = "dialing"
    /\ watcher' = [watcher EXCEPT ![i] = "watching"]
    /\ UNCHANGED <<docker, handler, subs, serviceSubs, svc, stopped, feed,
                   entries, missed, streamVars>>

\* The event stream cannot be opened or fails; events under way are lost.
FeedFails(i) ==
    /\ watcher[i] \in {"dialing", "watching"}
    /\ watcher' = [watcher EXCEPT ![i] = "backoff"]
    /\ feed' = [feed EXCEPT ![i] = <<>>]
    /\ missed' = [missed EXCEPT ![i] = @ \cup {c \in Running(svc[i]) :
          \E n \in 1 .. Len(feed[i]) :
              feed[i][n] = [action |-> "start", container |-> c]}]
    /\ UNCHANGED <<docker, handler, subs, serviceSubs, svc, stopped, entries,
                   streamVars>>

\* Two seconds later.  The containers are not listed again.
Retries(i) ==
    /\ watcher[i] = "backoff"
    /\ watcher' = [watcher EXCEPT ![i] = "dialing"]
    /\ UNCHANGED <<docker, handler, subs, serviceSubs, svc, stopped, feed,
                   entries, missed, streamVars>>

\* One of the selects sees that the context is done.
WatcherStops(i) ==
    /\ Watching(i) /\ stopped[i]
    /\ watcher' = [watcher EXCEPT ![i] = "done"]
    /\ feed' = [feed EXCEPT ![i] = <<>>]
    /\ UNCHANGED <<docker, handler, subs, serviceSubs, svc, stopped, entries,
                   missed, streamVars>>

\* The event at the head of the feed, also after Stop: the select between the
\* context and the events is free to choose.
TakeEvent(i, action) ==
    /\ watcher[i] = "watching"
    /\ feed[i] # <<>> /\ Head(feed[i]).action = action
    /\ feed' = [feed EXCEPT ![i] = Tail(@)]

\* startContainerStream.
StreamingNever(i, c) == FALSE  \* mutant: no "already streaming" check
AlreadyStreaming(i, c) == entries[i][c] # None

HandleStart(i) ==
    LET c == Head(feed[i]).container
    IN  /\ TakeEvent(i, "start")
        /\ ~AlreadyStreaming(i, c)
        /\ \E t \in Streams :
              /\ Spawn([d \in {c} |-> t], i)
              /\ entries' = [entries EXCEPT ![i][c] = t]
        /\ UNCHANGED <<docker, handler, subs, serviceSubs, svc, stopped,
                       watcher, missed>>

\* The entry is still that of an earlier run of the container.
IgnoreStart(i) ==
    LET c == Head(feed[i]).container
    IN  /\ TakeEvent(i, "start")
        /\ AlreadyStreaming(i, c)
        /\ missed' = [missed EXCEPT ![i] =
              IF docker[c] = "running" /\ pc[entries[i][c]] # "following"
                THEN @ \cup {c} ELSE @]
        /\ UNCHANGED <<docker, handler, subs, serviceSubs, svc, stopped,
                       watcher, entries, streamVars>>

\* stopContainerStream.
EntryGone(i, c) == [entries[i] EXCEPT ![c] = None]

HandleDie(i) ==
    LET c == Head(feed[i]).container
    IN  /\ TakeEvent(i, "die")
        /\ Cancel({entries[i][c]} \ {None})
        /\ entries' = [entries EXCEPT ![i] = EntryGone(i, c)]
        /\ UNCHANGED <<docker, handler, subs, serviceSubs, svc, stopped,
                       watcher, missed>>

-----------------------------------------------------------------------------
(* Docker.  Every connected watcher is told of the events it filtered for.  *)
Unfiltered(action) == "exec_" \o action  \* mutant
Filtered(action) == action

Tell(c, action) ==
    LET told == {i \in Insts : watcher[i] = "watching" /\ svc[i] = ServiceOf[c]}
    IN  /\ \A i \in told : Len(feed[i]) < MaxFeed
        /\ feed' = [i \in Insts |->
              IF i \in told
                THEN Append(feed[i], [action |-> Filtered(action), container |-> c])
                ELSE feed[i]]

ContainerStarts(c) ==
    /\ docker[c] = "new" \/ (docker[c] = "exited" /\ c \in Restartable)
    /\ docker' = [docker EXCEPT ![c] = "running"]
    /\ Tell(c, "start")
    /\ missed' = [i \in Insts |->
          IF svc[i] = ServiceOf[c] /\ watcher[i] \in {"dialing", "backoff"}
            THEN missed[i] \cup {c} ELSE missed[i]]
    /\ UNCHANGED <<handler, subs, serviceSubs, svc, stopped, watcher, entries,
                   streamVars>>

\* What follows the container's logs will reach their end.
ContainerDies(c) ==
    /\ docker[c] = "running"
    /\ docker' = [docker EXCEPT ![c] = "exited"]
    /\ Tell(c, "die")
    /\ missed' = [i \in Insts |-> missed[i] \ {c}]
    /\ pc' = [t \in Streams |->
          IF of[t] = c /\ pc[t] = "following" THEN "draining" ELSE pc[t]]
    /\ UNCHANGED <<handler, subs, serviceSubs, svc, stopped, watcher, entries,
                   of, owner, canceled>>

ContainerRemoved(c) ==
    /\ docker[c] = "exited"
    /\ docker' = [docker EXCEPT ![c] = "removed"]
    /\ UNCHANGED <<handler, subs, serviceSubs, instVars, streamVars>>

-----------------------------------------------------------------------------
Next ==
    \/ \E t \in Streams : Opens(t) \/ Breaks(t) \/ Ends(t)
    \/ \E c \in Containers : \/ Subscribe(c)
                             \/ Unsubscribe(c)
                             \/ ContainerStarts(c)
                             \/ ContainerDies(c)
                             \/ ContainerRemoved(c)
    \/ \E v \in Services : SubscribeService(v) \/ UnsubscribeService(v)
    \/ Disconnect
    \/ \E i \in Insts : \/ Listed(i) \/ ListFails(i)
                        \/ Connects(i) \/ FeedFails(i) \/ Retries(i)
                        \/ WatcherStops(i)
                        \/ HandleStart(i) \/ IgnoreStart(i) \/ HandleDie(i)

Spec == Init /\ [][Next]_vars

(* Fairness: goroutines run, Docker's list answers, the two-second timer    *)
(* fires, a reader whose log is over or whose context is done returns.      *)
(* The selects of a watcher choose at random, so a context that is done is  *)
(* eventually seen although events keep coming (strong fairness is not      *)
(* needed: WatcherStops stays enabled).                                     *)
Fairness ==
    /\ \A t \in Streams : WF_vars(Opens(t)) /\ WF_vars(Ends(t))
    /\ \A i \in Insts : /\ WF_vars(Listed(i) \/ ListFails(i))
                        /\ WF_vars(Connects(i))
                        /\ WF_vars(Retries(i))
                        /\ WF_vars(WatcherStops(i))
                        /\ WF_vars(HandleStart(i) \/ IgnoreStart(i) \/ HandleDie(i))

FairSpec == Spec /\ Fairness

-----------------------------------------------------------------------------
(* Type correctness of the tables and goroutines.                           *)
TypeOK ==
    /\ docker \in [Containers -> {"new", "running", "exited", "removed"}]
    /\ handler \in {"reading", "listing", "closed"}
    /\ subs \in [Containers -> Streams \cup {None}]
    /\ serviceSubs \in [Services -> Insts \cup {None}]
    /\ svc \in [Insts -> Services]
    /\ stopped \in [Insts -> BOOLEAN]
    /\ watcher \in [Insts -> {"none", "dialing", "watching", "backoff", "done"}]
    /\ feed \in [Insts -> Seq(Events)]
    /\ entries \in [Insts -> [Containers -> Streams \cup {None}]]
    /\ pc \in [Streams -> {"opening", "following", "draining", "ended"}]
    /\ of \in [Streams -> Containers]
    /\ owner \in [Streams -> Insts \cup {None}]
    /\ canceled \in [Streams -> BOOLEAN]
    /\ missed \in [Insts -> SUBSET Containers]

(* Every goroutine that streams and was not told to end is the one the      *)
(* table of its subscription can cancel: none is out of reach, and no       *)
(* container is streamed twice for one subscription, whatever order list    *)
(* results, events, Stop and CloseAll come in.                              *)
Reachable ==
    \A t \in Streams : Alive(t) /\ ~canceled[t] =>
        IF owner[t] = None
          THEN subs[of[t]] = t
          ELSE entries[owner[t]][of[t]] = t /\ ~stopped[owner[t]]

(* After CloseAll nothing goes on uncancelled, although a watcher may still *)
(* handle an event and start a stream after Stop emptied the table.         *)
ClosedCancelsAll ==
    handler = "closed" => \A t \in Streams : Alive(t) => canceled[t]

(* A running container of a subscribed service is streamed, or its start    *)
(* event is under way, or its start fell into one of the gaps `missed`      *)
(* records: before the watcher was connected, while it was not, in a feed   *)
(* that failed, on an entry an earlier run left behind, or its stream broke.*)
Subscribed(i) == serviceSubs[svc[i]] = i /\ watcher[i] # "none"
Followed(i, c) == \E t \in Streams : /\ owner[t] = i /\ of[t] = c
                                     /\ pc[t] \in {"opening", "following"}
                                     /\ ~canceled[t]
Announced(i, c) == \E n \in 1 .. Len(feed[i]) :
                      feed[i][n] = [action |-> "start", container |-> c]
StreamedOrMissed ==
    \A i \in Insts : Subscribed(i) => \A c \in Running(svc[i]) :
        Followed(i, c) \/ Announced(i, c) \/ c \in missed[i]

(* The goroutines of a connection all end after it is closed: nothing leaks *)
(* on the log-streamer when gateways come and go.                           *)
NothingLeaks ==
    handler = "closed" ~> [](/\ \A t \in Streams : ~Alive(t)
                             /\ \A i \in Insts : ~Watching(i))

(* The same system when Docker never fails to answer and breaks no stream.  *)
Trouble == \/ \E t \in Streams : Breaks(t)
           \/ \E i \in Insts : \/ FeedFails(i)
                              \/ (Running(svc[i]) # {} /\ ListFails(i))

CalmSpec == Init /\ [][Next /\ ~Trouble]_vars /\ Fairness

(* Once there is no trouble left, and clients no longer change what they    *)
(* follow by id, a container that comes up while the event stream is        *)
(* connected is streamed for as long as both stay up, whatever came before. *)
SeenIsFollowed ==
    <>[][~Trouble /\ subs' = subs]_vars =>
        \A i \in Insts, c \in Containers :
            <>[](/\ Subscribed(i) /\ watcher[i] = "watching"
                 /\ c \in Running(svc[i]) \ missed[i])
                => <>[](\E t \in Streams : /\ pc[t] = "following" /\ ~canceled[t]
                                           /\ owner[t] = i /\ of[t] = c)

(* "Subscribe to all logs from a service (auto-recovers on container        *)
(* restart)": once the service stays subscribed with a healthy event stream *)
(* and a container of it stays up, its logs are streamed.                   *)
AutoRecovers ==
    \A i \in Insts, c \in Containers :
        <>[](Subscribed(i) /\ watcher[i] = "watching" /\ c \in Running(svc[i]))
            => <>[]Followed(i, c)
===============================================================================
