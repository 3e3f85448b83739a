------------------------------- MODULE LivePage -------------------------------
(***************************************************************************)
(* The UI's live page in one browser tab (LiveStreamPage.tsx): the list of *)
(* what runs (ContainerList.tsx), the page's own tabs, kept in the         *)
(* sessionStorage (useTabs.ts), and the replicas the viewer of a service   *)
(* takes for running (ServiceLogViewer.tsx), which it learns from the list *)
(* its tab was opened with, from the events of its subscription, and from  *)
(* the list it asks for when a paused stream is resumed.                   *)
(*                                                                         *)
(* One service is followed; tabs of other kinds are only ids.  An action is*)
(* a callback with the renders and effects it leads to, or a step of the   *)
(* cluster or of the network.  The page renders its content twice, for wide*)
(* and for narrow screens; each copy is a viewer like this one.            *)
(***************************************************************************)
EXTENDS Naturals, Sequences, SequencesExt

CONSTANTS
    Containers,   \* that may run the service
    Service,      \* id of the service's tab
    OtherIds,     \* ids of the other tabs
    None,
    MaxTabs,
    MaxInbox      \* bound: entries on their way to the page

Ids == OtherIds \cup {Service}
ASSUME ServiceAssumption == Service \notin OtherIds
ASSUME NoneAssumption == None \notin Ids
ASSUME MaxTabsAssumption == MaxTabs \in Nat /\ MaxTabs >= 2

VARIABLES
    up,               \* the containers of the service that run
    trailing,         \* stopped ones whose last lines may still come
    listed,           \* the list of containers in the query cache
    tabs,             \* [id, containers], as they were when it was opened
    activeTabId,
    stored,           \* the sessionStorage: tabs and activeTabId
    isPaused,
    subscription,     \* of the viewer: "off", "connecting" or "on"
    inbox,            \* entries sent to it and not handled
    activeContainers,
    query,            \* the list of containers on its way, and who waits
    gap               \* history: the containers it may be wrong about

envVars == <<up, trailing>>
tabVars == <<tabs, activeTabId, stored>>
viewVars == <<isPaused, subscription, inbox, activeContainers, gap>>
listVars == <<listed, query>>
vars == <<envVars, listVars, tabVars, viewVars>>

Entries == [event : {"container_started", "container_stopped", "line"},
            container : Containers]
Idle == [state |-> "idle", list |-> {}, resumed |-> FALSE]
Tab == [id : Ids, containers : SUBSET Containers]

IdsOf(ts) == {ts[i].id : i \in DOMAIN ts}
Mounted == Service \in IdsOf(tabs)

\* onData: a line of a container shows that it runs, like its start.
KeptOnStop(active, entry) == active \cup {entry.container}  \* mutant
ensureActiveContainer(active, c) == active \cup {c}
Handled(active, entry) ==
    IF entry.event = "container_stopped"
      THEN active \ {entry.container}
      ELSE ensureActiveContainer(active, entry.container)

\* What the viewer shows once it has handled `box`: of a container, the last
\* entry about it decides.
ShownAfter(active, box) ==
    {c \in Containers :
        \/ c \in active /\ \A i \in DOMAIN box : box[i].container # c
        \/ \E i \in DOMAIN box :
              /\ box[i].container = c /\ box[i].event # "container_stopped"
              /\ \A j \in i + 1 .. Len(box) : box[j].container # c}

\* The containers it is wrong about then.
Wrong(active, box, running) ==
    {c \in Containers : ~(c \in ShownAfter(active, box) <=> c \in running)}

Init ==
    /\ up \in SUBSET Containers
    /\ trailing = {}
    /\ listed = {}
    /\ tabs = <<>> /\ activeTabId = None
    /\ stored = [tabs |-> <<>>, active |-> None]
    /\ isPaused = FALSE
    /\ subscription = "off"
    /\ inbox = <<>>
    /\ activeContainers = {}
    /\ query = Idle
    /\ gap = {}

-----------------------------------------------------------------------------
(* The tabs.                                                                *)

\* Mutant: the subscription outlives the viewer.
NeverUnmounted(ts) == UNCHANGED <<viewVars, query>>

\* A viewer that is mounted starts from the list in its tab.
Viewer(ts) ==
    LET shown == {i \in DOMAIN ts : ts[i].id = Service}
        given == UNION {ts[i].containers : i \in shown}
    IN  /\ isPaused' = FALSE
        /\ subscription' = IF shown = {} THEN "off" ELSE "connecting"
        /\ inbox' = <<>>
        /\ activeContainers' = given
        /\ query' = [query EXCEPT !.resumed = FALSE]
        /\ gap' = IF shown = {} THEN {} ELSE Wrong(given, <<>>, up)

\* The effect on [tabs, activeTabId].
ForgetActive == stored' = [tabs |-> tabs', active |-> activeTabId]  \* mutant
Save == stored' = [tabs |-> tabs', active |-> activeTabId']

RenderTabs(ts, active) ==
    /\ tabs' = ts
    /\ activeTabId' = active
    /\ Save
    /\ IF (Service \in IdsOf(ts)) = Mounted
         THEN UNCHANGED <<viewVars, query>> ELSE Viewer(ts)

\* With more than MaxTabs tabs the oldest goes that is not the active one,
\* which is still the one before the new.
Evict(ts) ==
    LET oldest == SelectInSeq(ts, LAMBDA t : t.id # activeTabId)
    IN  RemoveAt(ts, oldest)

OpenTab(id, containers) ==
    IF id \in IdsOf(tabs)
      THEN RenderTabs(tabs, id)
      ELSE LET next == Append(tabs, [id |-> id, containers |-> containers])
           IN  RenderTabs(IF Len(next) > MaxTabs THEN Evict(next) ELSE next, id)

\* The list groups the containers that match what is searched for: that is
\* all the tab gets, if the search is by the name of a container.
filtered == SUBSET listed
groupByService == filtered \ {{}}

handleSelectService ==
    /\ \E found \in groupByService : OpenTab(Service, found)
    /\ UNCHANGED <<envVars, listed>>

handleSelectContainer(id) ==
    /\ OpenTab(id, {})
    /\ UNCHANGED <<envVars, listed>>

\* A click in the list; the star of a favourite selects nothing.
ContainerList ==
    \/ handleSelectService
    \/ \E id \in OtherIds : handleSelectContainer(id)

\* The neighbour to the right takes over, or the last tab.
CloseTab(id) ==
    LET idx == SelectInSeq(tabs, LAMBDA t : t.id = id)
        next == RemoveAt(tabs, idx)
        neighbour == next[IF idx > Len(next) THEN Len(next) ELSE idx].id
    IN  /\ id \in IdsOf(tabs)
        /\ RenderTabs(next, IF next = <<>> THEN None
                            ELSE IF id = activeTabId THEN neighbour
                            ELSE activeTabId)
        /\ UNCHANGED <<envVars, listed>>

SelectTab(id) ==
    /\ id \in IdsOf(tabs)
    /\ RenderTabs(tabs, id)
    /\ UNCHANGED <<envVars, listed>>

\* What a click in the tab bar does; the cross does not select the tab.
TabBar == \E id \in Ids : SelectTab(id) \/ CloseTab(id)

\* The page is left and visited again, or loaded again (without its cache).
Reload ==
    /\ tabs' = stored.tabs
    /\ activeTabId' = stored.active
    /\ listed' \in {listed, {}}
    /\ Viewer(stored.tabs)
    /\ UNCHANGED <<envVars, stored>>

-----------------------------------------------------------------------------
(* What runs, as the gateway lists it: the nodes that answer.               *)

listContainers == SUBSET up

\* A list is asked for every 30 s, on Refresh and on resume; one that is
\* asked for while another is on its way shares its answer.
Unshared(resumed) ==  \* mutant: the resumed viewer does not share the answer
    query' = IF query.state = "idle"
               THEN [state |-> "asked", list |-> {}, resumed |-> FALSE]
               ELSE query
Ask(resumed) ==
    query' = IF query.state = "idle"
               THEN [state |-> "asked", list |-> {}, resumed |-> resumed]
               ELSE [query EXCEPT !.resumed = @ \/ resumed]

Poll ==
    /\ query.state = "idle"
    /\ Ask(FALSE)
    /\ UNCHANGED <<envVars, listed, tabVars, viewVars>>

\* The gateway collects what the nodes answer ...
Answered ==
    /\ query.state = "asked"
    /\ \E list \in listContainers :
          query' = [query EXCEPT !.state = "answered", !.list = list]
    /\ UNCHANGED <<envVars, listed, tabVars, viewVars>>

\* ... and the list arrives.  If the stream was resumed meanwhile, it also
\* replaces what the events have told (syncServiceContainers).
Arrives ==
    /\ query.state = "answered"
    /\ listed' = query.list
    /\ query' = Idle
    /\ IF query.resumed
         THEN /\ activeContainers' = query.list
              /\ gap' = Wrong(query.list, inbox, up)
         ELSE UNCHANGED <<activeContainers, gap>>
    /\ UNCHANGED <<envVars, tabVars, isPaused, subscription, inbox>>

\* The query fails: .catch(() => undefined).
QueryFails ==
    /\ query.state = "asked"
    /\ query' = Idle
    /\ UNCHANGED <<envVars, listed, tabVars, viewVars>>

-----------------------------------------------------------------------------
(* Pause and resume.                                                        *)

\* The subscription is skipped: what is on its way is dropped.
Pause ==
    /\ Mounted /\ ~isPaused
    /\ isPaused' = TRUE
    /\ subscription' = "off"
    /\ inbox' = <<>>
    /\ gap' = Wrong(activeContainers, <<>>, up)
    /\ UNCHANGED <<envVars, listVars, tabVars, activeContainers>>

resumeStream ==
    /\ Mounted /\ isPaused
    /\ isPaused' = FALSE
    /\ subscription' = "connecting"
    /\ Ask(TRUE)
    /\ UNCHANGED <<envVars, listed, tabVars, inbox, activeContainers, gap>>

togglePause == Pause \/ resumeStream

\* Follow: a paused stream is resumed too.
scrollToBottom == resumeStream

\* The gateway has subscribed the browser to the service's topic.
Established ==
    /\ subscription = "connecting"
    /\ subscription' = "on"
    /\ UNCHANGED <<envVars, listVars, tabVars, isPaused, inbox, activeContainers,
                   gap>>

\* The legend learns from the entry at the head.
onData ==
    /\ inbox # <<>>
    /\ activeContainers' = Handled(activeContainers, Head(inbox))
    /\ inbox' = Tail(inbox)
    /\ UNCHANGED <<envVars, listVars, tabVars, isPaused, subscription, gap>>

-----------------------------------------------------------------------------
(* The cluster, and what of it the log-streamers publish.                   *)

Published(event, c) ==
    /\ Len(inbox) < MaxInbox
    /\ inbox' = Append(inbox, [event |-> event, container |-> c])

\* An event is also lost while the log-streamer reconnects to docker.
Delivered(event, c) ==
    /\ subscription = "on"
    /\ Published(event, c)
    /\ gap' = gap \ {c}

Lost(running) ==
    /\ UNCHANGED inbox
    /\ gap' = IF Mounted THEN Wrong(activeContainers, inbox, running) ELSE {}

Event(event, c, running) ==
    /\ up' = running
    /\ Delivered(event, c) \/ Lost(running)
    /\ UNCHANGED <<listVars, tabVars, isPaused, subscription, activeContainers>>

Starts(c) ==
    /\ c \notin up
    /\ Event("container_started", c, up \cup {c})
    /\ trailing' = trailing \ {c}

Stops(c) ==
    /\ c \in up
    /\ Event("container_stopped", c, up \ {c})
    /\ trailing' = trailing \cup {c}

Logs(c) ==
    /\ c \in up
    /\ Delivered("line", c)
    /\ UNCHANGED <<envVars, listVars, tabVars, isPaused, subscription,
                   activeContainers>>

\* A line read from a container's log comes after the event of its stop.
Trails(c) ==
    /\ c \in trailing
    /\ subscription = "on"
    /\ Published("line", c)
    /\ gap' = Wrong(activeContainers, inbox', up)
    /\ UNCHANGED <<envVars, listVars, tabVars, isPaused, subscription,
                   activeContainers>>

-----------------------------------------------------------------------------
Next ==
    \/ ContainerList \/ TabBar \/ Reload \/ Poll \/ togglePause \/ scrollToBottom
    \/ Established \/ onData
    \/ Answered \/ Arrives \/ QueryFails
    \/ \E c \in Containers : Starts(c) \/ Stops(c) \/ Logs(c) \/ Trails(c)

Spec == Init /\ [][Next]_vars

(* Fairness: the browser handles what arrives, and queries and subscriptions*)
(* are answered, or fail.                                                   *)
Fairness ==
    /\ WF_vars(onData) /\ WF_vars(Established)
    /\ WF_vars(Answered \/ QueryFails) /\ WF_vars(Arrives)

FairSpec == Spec /\ Fairness

-----------------------------------------------------------------------------
(* Type correctness of the page; nothing is on its way to a viewer that is  *)
(* paused or closed.                                                        *)
TypeOK ==
    /\ up \subseteq Containers /\ trailing \subseteq Containers
    /\ listed \subseteq Containers
    /\ tabs \in Seq(Tab) /\ activeTabId \in Ids \cup {None}
    /\ stored \in [tabs : Seq(Tab), active : Ids \cup {None}]
    /\ isPaused \in BOOLEAN
    /\ subscription \in {"off", "connecting", "on"}
    /\ inbox \in Seq(Entries)
    /\ activeContainers \subseteq Containers
    /\ query \in [state : {"idle", "asked", "answered"},
                  list : SUBSET Containers, resumed : BOOLEAN]
    /\ gap \subseteq Containers
    /\ isPaused \/ ~Mounted => subscription = "off" /\ inbox = <<>>

(* Whatever is opened, closed, evicted and restored: the tabs are distinct  *)
(* and not too many, one of them is shown if there are any, and a reload    *)
(* would bring back what is shown.                                          *)
TabsMakeSense ==
    /\ Len(tabs) <= MaxTabs
    /\ \A i, j \in DOMAIN tabs : tabs[i].id = tabs[j].id => i = j
    /\ IF tabs = <<>> THEN activeTabId = None ELSE activeTabId \in IdsOf(tabs)
    /\ stored = [tabs |-> tabs, active |-> activeTabId]

(* Once the viewer has handled what is on its way, it shows as running what *)
(* runs, up to the containers in `gap`: those about which the tab's list was*)
(* out of date or cut down by a search, whose events were lost or went by   *)
(* while the stream was paused or being connected, about which a list asked *)
(* for on resume knows less than the events it replaces, or whose last line *)
(* came after their stop.  A start, a stop or a line of a running container *)
(* that is delivered closes the gap of its container.                       *)
LegendExplained == Mounted => Wrong(activeContainers, inbox, up) \subseteq gap

\* What can leave the legend wrong again.
Disturbance ==
    \/ up' # up
    \/ \E c \in Containers : Trails(c)
    \/ QueryFails \/ (Answered /\ query'.list # up)
    \/ Reload \/ tabs' # tabs

(* Resuming heals every gap: once nothing starts or stops, no straggling    *)
(* line comes, every node answers and the tabs stay as they are, a user who *)
(* keeps resuming ends up seeing exactly what runs.                         *)
ResumeHeals ==
    /\ <>[][~Disturbance]_vars
    /\ []<><<resumeStream>>_vars
    => <>[](Mounted => activeContainers = up)
===============================================================================
