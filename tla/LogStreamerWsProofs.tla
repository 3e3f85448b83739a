------------------------- MODULE LogStreamerWsProofs -------------------------
(***************************************************************************)
(* Proofs about LogStreamerWs, for any services, containers, subscription  *)
(* objects and streams.                                                    *)
(***************************************************************************)
EXTENDS LogStreamerWs, SequenceTheorems, TLAPS

(* What is in a table is a stream of that table, and it has not been told to*)
(* end unless the subscription was stopped.                                 *)
Tables ==
    /\ \A c \in Containers : subs[c] # None => owner[subs[c]] = None
    /\ \A i \in Insts, c \in Containers : entries[i][c] # None =>
          /\ owner[entries[i][c]] = i
          /\ of[entries[i][c]] = c
          /\ canceled[entries[i][c]] => stopped[i]

(* A subscription object is in the table of services exactly while it is not*)
(* stopped; it has no stream before its list is in; a watcher that is done  *)
(* belongs to a stopped one.                                                *)
Objects ==
    /\ \A i \in Insts : ~stopped[i] => serviceSubs[svc[i]] = i
    /\ \A v \in Services : serviceSubs[v] # None =>
          svc[serviceSubs[v]] = v /\ ~stopped[serviceSubs[v]]
    /\ handler = "closed" => \A v \in Services : serviceSubs[v] = None
    /\ \A i \in Insts : watcher[i] = "done" => stopped[i]
    /\ \A i \in Insts : watcher[i] = "none" =>
          \A t \in Streams : owner[t] = i => ~Alive(t)

(* Only a connected watcher has events under way, those of its own service; *)
(* the end of a container that runs again is followed by its new start.     *)
FeedInOrder(i) ==
    /\ feed[i] # <<>> => watcher[i] = "watching"
    /\ \A n \in 1 .. Len(feed[i]) :
          /\ ServiceOf[feed[i][n].container] = svc[i]
          /\ feed[i][n].action = "die" /\ docker[feed[i][n].container] = "running" =>
                \E m \in n + 1 .. Len(feed[i]) :
                    feed[i][m] = [action |-> "start",
                                  container |-> feed[i][n].container]
Feeds == \A i \in Insts : FeedInOrder(i)

IInv == /\ TypeOK /\ Tables /\ Objects /\ Feeds
        /\ Reachable /\ ClosedCancelsAll /\ StreamedOrMissed

-----------------------------------------------------------------------------
(* What the steps that start and cancel streams do to the goroutines.       *)

StreamTypes ==
    /\ pc \in [Streams -> {"opening", "following", "draining", "ended"}]
    /\ of \in [Streams -> Containers]
    /\ owner \in [Streams -> Insts \cup {None}]
    /\ canceled \in [Streams -> BOOLEAN]

\* Stream s begins to follow container c for o, which it was free to.
Begins(s, c, o) == /\ FreeStream(s)
                   /\ pc'[s] = "opening" /\ of'[s] = c /\ owner'[s] = o
                   /\ canceled'[s] = Inherited(o)
Same(t) == /\ pc'[t] = pc[t] /\ of'[t] = of[t]
           /\ owner'[t] = owner[t] /\ canceled'[t] = canceled[t]

LEMMA SpawnEffect ==
    ASSUME TypeOK, NEW cs \in SUBSET Containers, NEW by \in [cs -> Streams],
           NEW o \in Insts \cup {None}, Spawn(by, o)
    PROVE  /\ \A c \in cs : Begins(by[c], c, o)
           /\ \A t \in Streams : (\A c \in cs : by[c] # t) => Same(t)
           /\ StreamTypes'
<1> DEFINE new == {by[c] : c \in cs}
           Of(t) == CHOOSE c \in cs : by[c] = t
<1>1. DOMAIN by = cs
    OBVIOUS
<1>2. /\ \A t \in new : FreeStream(t)
      /\ \A c, d \in cs : by[c] = by[d] => c = d
      /\ pc' = [t \in Streams |-> IF t \in new THEN "opening" ELSE pc[t]]
      /\ of' = [t \in Streams |-> IF t \in new THEN Of(t) ELSE of[t]]
      /\ owner' = [t \in Streams |-> IF t \in new THEN o ELSE owner[t]]
      /\ canceled' = [t \in Streams |->
              IF t \in new THEN Inherited(o) ELSE canceled[t]]
    BY <1>1 DEF Spawn
<1>3. Inherited(o) \in BOOLEAN
    BY DEF Inherited
<1>4. \A t \in new : Of(t) \in cs /\ by[Of(t)] = t
    OBVIOUS
<1>5. \A c \in cs : by[c] \in new /\ by[c] \in Streams /\ Of(by[c]) = c
    BY <1>2, <1>4
<1> HIDE DEF Of
<1>6. \A c \in cs : Begins(by[c], c, o)
    BY <1>2, <1>5 DEF Begins
<1>7. \A t \in Streams : (\A c \in cs : by[c] # t) => Same(t)
    BY <1>2 DEF Same
<1>8. of' \in [Streams -> Containers]
    BY <1>2, <1>4 DEF TypeOK
<1>9. canceled' \in [Streams -> BOOLEAN]
    BY <1>2, <1>3 DEF TypeOK
<1>10. /\ pc' \in [Streams -> {"opening", "following", "draining", "ended"}]
       /\ owner' \in [Streams -> Insts \cup {None}]
    BY <1>2 DEF TypeOK
<1> QED
    BY <1>6, <1>7, <1>8, <1>9, <1>10 DEF StreamTypes

\* The same for a single stream.
LEMMA SpawnOne ==
    ASSUME TypeOK, NEW c \in Containers, NEW s \in Streams,
           NEW o \in Insts \cup {None}, Spawn([d \in {c} |-> s], o)
    PROVE  /\ Begins(s, c, o)
           /\ \A t \in Streams \ {s} : Same(t)
           /\ StreamTypes'
<1> DEFINE cs == {c}
           by == [d \in cs |-> s]
<1>1. cs \in SUBSET Containers /\ by \in [cs -> Streams] /\ Spawn(by, o)
    OBVIOUS
<1>2. c \in cs /\ by[c] = s /\ \A d \in cs : by[d] = s
    OBVIOUS
<1> HIDE DEF by, cs
<1>3. /\ \A d \in cs : Begins(by[d], d, o)
      /\ \A t \in Streams : (\A d \in cs : by[d] # t) => Same(t)
      /\ StreamTypes'
    BY <1>1, SpawnEffect
<1> QED
    BY <1>2, <1>3

LEMMA SubscribeEffect ==
    ASSUME TypeOK, NEW c \in Containers, Subscribe(c)
    PROVE  /\ UNCHANGED <<docker, handler, serviceSubs, svc, stopped, watcher,
                          feed, entries, missed>>
           /\ \E s \in Streams : /\ Begins(s, c, None)
                                 /\ \A t \in Streams \ {s} : Same(t)
                                 /\ StreamTypes'
                                 /\ subs' = [subs EXCEPT ![c] = s]
<1>1. PICK s \in Streams : /\ Spawn([d \in {c} |-> s], None)
                           /\ subs' = [subs EXCEPT ![c] = s]
    BY DEF Subscribe
<1>2. None \in Insts \cup {None}
    OBVIOUS
<1>3. /\ Begins(s, c, None)
      /\ \A t \in Streams \ {s} : Same(t)
      /\ StreamTypes'
    BY <1>1, <1>2, SpawnOne
<1> QED
    BY <1>1, <1>3 DEF Subscribe, instVars

\* Start with the containers l listed: a stream for each of them.
LEMMA StartedEffect ==
    ASSUME TypeOK, NEW i \in Insts, NEW l \in SUBSET Containers, Started(i, l)
    PROVE  /\ UNCHANGED <<docker, subs, serviceSubs, svc, stopped, feed>>
           /\ \E by \in [l -> Streams] :
                 /\ \A c \in l : Begins(by[c], c, i)
                 /\ \A t \in Streams : (\A c \in l : by[c] # t) => Same(t)
                 /\ StreamTypes'
                 /\ entries' = [entries EXCEPT ![i] =
                       [c \in Containers |-> IF c \in l THEN by[c] ELSE None]]
<1>1. PICK by \in [l -> Streams] :
          /\ Spawn(by, i)
          /\ entries' = [entries EXCEPT ![i] =
                [c \in Containers |-> IF c \in l THEN by[c] ELSE None]]
    BY DEF Started
<1>2. i \in Insts \cup {None}
    OBVIOUS
<1>3. /\ \A c \in l : Begins(by[c], c, i)
      /\ \A t \in Streams : (\A c \in l : by[c] # t) => Same(t)
      /\ StreamTypes'
    BY <1>1, <1>2, SpawnEffect
<1> QED
    BY <1>1, <1>3 DEF Started

LEMMA TakeType ==
    ASSUME TypeOK, NEW i \in Insts, NEW a, TakeEvent(i, a)
    PROVE  /\ feed' \in [Insts -> Seq(Events)]
           /\ Head(feed[i]) \in Events /\ Head(feed[i]).container \in Containers
<1>1. feed[i] \in Seq(Events) /\ feed[i] # <<>>
    BY DEF TakeEvent, TypeOK
<1>2. Head(feed[i]) \in Events /\ Tail(feed[i]) \in Seq(Events)
    BY <1>1, HeadTailProperties
<1> QED
    BY <1>2 DEF TakeEvent, TypeOK, Events

LEMMA HandleStartEffect ==
    ASSUME TypeOK, NEW i \in Insts, HandleStart(i),
           NEW c \in Containers, c = Head(feed[i]).container
    PROVE  /\ UNCHANGED <<docker, handler, subs, serviceSubs, svc, stopped,
                          watcher, missed>>
           /\ \E s \in Streams : /\ Begins(s, c, i)
                                 /\ \A t \in Streams \ {s} : Same(t)
                                 /\ StreamTypes'
                                 /\ entries' = [entries EXCEPT ![i][c] = s]
<1>1. PICK s \in Streams : /\ Spawn([d \in {c} |-> s], i)
                           /\ entries' = [entries EXCEPT ![i][c] = s]
    BY DEF HandleStart
<1>2. i \in Insts \cup {None}
    OBVIOUS
<1>3. /\ Begins(s, c, i)
      /\ \A t \in Streams \ {s} : Same(t)
      /\ StreamTypes'
    BY <1>1, <1>2, SpawnOne
<1> QED
    BY <1>1, <1>3 DEF HandleStart

LEMMA HandleDieEffect ==
    ASSUME TypeOK, NEW i \in Insts, HandleDie(i),
           NEW c \in Containers, c = Head(feed[i]).container
    PROVE  /\ UNCHANGED <<docker, handler, subs, serviceSubs, svc, stopped,
                          watcher, missed, pc, of, owner>>
           /\ \A t \in Streams :
                 canceled'[t] = (canceled[t] \/ t = entries[i][c])
           /\ \A j \in Insts, d \in Containers : entries'[j][d] =
                 IF j = i /\ d = c THEN None ELSE entries[j][d]
<1>1. /\ Cancel({entries[i][c]} \ {None})
      /\ entries' = [entries EXCEPT ![i] = EntryGone(i, c)]
      /\ UNCHANGED <<docker, handler, subs, serviceSubs, svc, stopped, watcher,
                     missed>>
    BY DEF HandleDie
<1>2. \A j \in Insts, d \in Containers : entries'[j][d] =
          IF j = i /\ d = c THEN None ELSE entries[j][d]
    BY <1>1 DEF TypeOK, EntryGone
<1>3. \A t \in Streams : canceled'[t] = (canceled[t] \/ t \in {entries[i][c]} \ {None})
    BY <1>1 DEF Cancel
<1>4. UNCHANGED <<pc, of, owner>>
    BY <1>1 DEF Cancel
<1> QED
    BY <1>1, <1>2, <1>3, <1>4, NoneAssumption

LEMMA DropType ==
    ASSUME TypeOK, NEW cs, NEW is, Drop(cs, is)
    PROVE  /\ UNCHANGED <<docker, svc, watcher, feed, missed, pc, of, owner>>
           /\ subs' \in [Containers -> Streams \cup {None}]
           /\ serviceSubs' \in [Services -> Insts \cup {None}]
           /\ stopped' \in [Insts -> BOOLEAN]
           /\ entries' \in [Insts -> [Containers -> Streams \cup {None}]]
           /\ canceled' \in [Streams -> BOOLEAN]
BY DEF Drop, Cancel, TypeOK, Nothing

-----------------------------------------------------------------------------
(* Type correctness.                                                        *)

LEMMA InitTypeOK == Init => TypeOK
<1> SUFFICES ASSUME Init PROVE TypeOK
    OBVIOUS
<1>1. (CHOOSE c \in Containers : TRUE) \in Containers
    BY ContainersAssumption
<1>2. (CHOOSE v \in Services : TRUE) \in Services
    BY ContainersAssumption, ServiceOfAssumption
<1>3. <<>> \in Seq(Events)
    OBVIOUS
<1> QED
    BY <1>1, <1>2, <1>3 DEF Init, TypeOK, Nothing

LEMMA TellType ==
    ASSUME TypeOK, NEW c \in Containers, NEW a \in {"start", "die"}, Tell(c, a)
    PROVE  feed' \in [Insts -> Seq(Events)]
<1>1. [action |-> a, container |-> c] \in Events
    BY DEF Events
<1> QED
    BY <1>1 DEF Tell, TypeOK, Filtered

LEMMA StartedType ==
    ASSUME TypeOK, NEW i \in Insts, NEW l \in SUBSET Containers, Started(i, l)
    PROVE  TypeOK'
<1>1. PICK by \in [l -> Streams] :
          /\ StreamTypes'
          /\ entries' = [entries EXCEPT ![i] =
                [c \in Containers |-> IF c \in l THEN by[c] ELSE None]]
    BY StartedEffect
<1>2. entries' \in [Insts -> [Containers -> Streams \cup {None}]]
    BY <1>1 DEF TypeOK
<1> QED
    BY <1>1, <1>2 DEF Started, StreamTypes, TypeOK, Running

LEMMA NextTypeOK == TypeOK /\ [Next]_vars => TypeOK'
<1> SUFFICES ASSUME TypeOK, [Next]_vars PROVE TypeOK'
    OBVIOUS
<1> USE DEF instVars, streamVars
<1>1. ASSUME NEW t \in Streams, Opens(t) PROVE TypeOK'
    BY <1>1 DEF Opens, LogsOf, TypeOK
<1>2. ASSUME NEW t \in Streams, Breaks(t) PROVE TypeOK'
    BY <1>2 DEF Breaks, TypeOK
<1>3. ASSUME NEW t \in Streams, Ends(t) PROVE TypeOK'
    BY <1>3 DEF Ends, TypeOK
<1>4. ASSUME NEW c \in Containers, Subscribe(c) PROVE TypeOK'
    BY <1>4, SubscribeEffect DEF StreamTypes, TypeOK
<1>5. ASSUME NEW c \in Containers, Unsubscribe(c) PROVE TypeOK'
    BY <1>5 DEF Unsubscribe, Cancel, TypeOK
<1>6. ASSUME NEW c \in Containers, ContainerStarts(c) PROVE TypeOK'
    <2>1. feed' \in [Insts -> Seq(Events)]
        BY <1>6, TellType DEF ContainerStarts
    <2> QED
        BY <1>6, <2>1 DEF ContainerStarts, TypeOK
<1>7. ASSUME NEW c \in Containers, ContainerDies(c) PROVE TypeOK'
    <2>1. feed' \in [Insts -> Seq(Events)]
        BY <1>7, TellType DEF ContainerDies
    <2> QED
        BY <1>7, <2>1 DEF ContainerDies, TypeOK
<1>8. ASSUME NEW c \in Containers, ContainerRemoved(c) PROVE TypeOK'
    BY <1>8 DEF ContainerRemoved, TypeOK
<1>9. ASSUME NEW v \in Services, SubscribeService(v) PROVE TypeOK'
    <2>1. <<>> \in Seq(Events)
        OBVIOUS
    <2> QED
        BY <1>9, <2>1 DEF SubscribeService, TypeOK, Nothing
<1>10. ASSUME NEW v \in Services, UnsubscribeService(v) PROVE TypeOK'
    BY <1>10, DropType DEF UnsubscribeService, TypeOK
<1>11. CASE Disconnect
    BY <1>11, DropType DEF Disconnect, TypeOK
<1>12. ASSUME NEW i \in Insts, Listed(i) PROVE TypeOK'
    BY <1>12, StartedType DEF Listed, Running
<1>13. ASSUME NEW i \in Insts, ListFails(i) PROVE TypeOK'
    BY <1>13, StartedType DEF ListFails
<1>14. ASSUME NEW i \in Insts, Connects(i) PROVE TypeOK'
    BY <1>14 DEF Connects, TypeOK
<1>15. ASSUME NEW i \in Insts, FeedFails(i) PROVE TypeOK'
    <2>1. <<>> \in Seq(Events)
        OBVIOUS
    <2> QED
        BY <1>15, <2>1 DEF FeedFails, TypeOK, Running
<1>16. ASSUME NEW i \in Insts, Retries(i) PROVE TypeOK'
    BY <1>16 DEF Retries, TypeOK
<1>17. ASSUME NEW i \in Insts, WatcherStops(i) PROVE TypeOK'
    <2>1. <<>> \in Seq(Events)
        OBVIOUS
    <2> QED
        BY <1>17, <2>1 DEF WatcherStops, TypeOK
<1>18. ASSUME NEW i \in Insts, HandleStart(i) PROVE TypeOK'
    <2>1. PICK c \in Containers : c = Head(feed[i]).container
        BY <1>18, TakeType DEF HandleStart
    <2>2. feed' \in [Insts -> Seq(Events)]
        BY <1>18, TakeType DEF HandleStart
    <2>3. PICK s \in Streams : /\ StreamTypes'
                               /\ entries' = [entries EXCEPT ![i][c] = s]
        BY <1>18, <2>1, HandleStartEffect
    <2>4. entries' \in [Insts -> [Containers -> Streams \cup {None}]]
        BY <2>3 DEF TypeOK
    <2>5. UNCHANGED <<docker, handler, subs, serviceSubs, svc, stopped,
                      watcher, missed>>
        BY <1>18 DEF HandleStart
    <2> QED
        BY <2>2, <2>3, <2>4, <2>5 DEF StreamTypes, TypeOK
<1>19. ASSUME NEW i \in Insts, IgnoreStart(i) PROVE TypeOK'
    <2>1. feed' \in [Insts -> Seq(Events)] /\ Head(feed[i]).container \in Containers
        BY <1>19, TakeType DEF IgnoreStart
    <2> QED
        BY <1>19, <2>1 DEF IgnoreStart, TypeOK
<1>20. ASSUME NEW i \in Insts, HandleDie(i) PROVE TypeOK'
    <2>1. feed' \in [Insts -> Seq(Events)] /\ Head(feed[i]).container \in Containers
        BY <1>20, TakeType DEF HandleDie
    <2> QED
        BY <1>20, <2>1 DEF HandleDie, Cancel, EntryGone, TypeOK
<1>21. CASE UNCHANGED vars
    BY <1>21 DEF vars, TypeOK
<1> QED
    BY <1>1, <1>2, <1>3, <1>4, <1>5, <1>6, <1>7, <1>8, <1>9, <1>10, <1>11,
       <1>12, <1>13, <1>14, <1>15, <1>16, <1>17, <1>18, <1>19, <1>20, <1>21
    DEF Next

(* TypeOK, of the tables, watchers and goroutines of a connection, holds in *)
(* every reachable state.                                                   *)
THEOREM TypeCorrect == Spec => []TypeOK
BY InitTypeOK, NextTypeOK, PTL DEF Spec

-----------------------------------------------------------------------------
(* The inductive invariant.                                                 *)

LEMMA InitIInv == Init => IInv
<1> SUFFICES ASSUME Init PROVE IInv
    OBVIOUS
<1>1. TypeOK
    BY InitTypeOK
<1>2. \A t \in Streams : ~Alive(t)
    BY DEF Init, Alive
<1>3. Tables
    BY DEF Init, Tables, Nothing
<1>4. Objects
    BY <1>2 DEF Init, Objects
<1>5. Feeds
    BY DEF Init, Feeds, FeedInOrder
<1>6. Reachable /\ ClosedCancelsAll
    BY <1>2 DEF Reachable, ClosedCancelsAll
<1>7. StreamedOrMissed
    BY DEF Init, StreamedOrMissed, Subscribed
<1> QED
    BY <1>1, <1>3, <1>4, <1>5, <1>6, <1>7 DEF IInv

\* CloseAll and Stop cancel streams of m.subs and of the stopped objects only.
LEMMA DropOthers ==
    ASSUME TypeOK, Tables, NEW cs \in SUBSET Containers,
           NEW is \in SUBSET Insts, Drop(cs, is),
           NEW t \in Streams, owner[t] \in Insts \ is
    PROVE  canceled'[t] = canceled[t]
<1>1. ASSUME t \in {subs[c] : c \in cs} PROVE FALSE
    <2>1. PICK c \in cs : t = subs[c]
        BY <1>1
    <2>2. owner[t] = None
        BY <2>1, NoneAssumption DEF Tables
    <2> QED
        BY <2>2, NoneAssumption
<1>2. ASSUME t \in Stop(is) PROVE FALSE
    <2>1. PICK i \in is, c \in Containers : t = entries[i][c]
        BY <1>2 DEF Stop
    <2>2. owner[t] = i
        BY <2>1, NoneAssumption DEF Tables
    <2> QED
        BY <2>2
<1>3. canceled' = [u \in Streams |->
          canceled[u] \/ u \in {subs[c] : c \in cs} \cup Stop(is)]
    BY DEF Drop, Cancel
<1>4. t \notin {subs[c] : c \in cs} \cup Stop(is) /\ canceled[t] \in BOOLEAN
    BY <1>1, <1>2 DEF TypeOK
<1> HIDE DEF Stop
<1> QED
    BY <1>3, <1>4

LEMMA DropTables ==
    ASSUME TypeOK, Tables, NEW cs \in SUBSET Containers,
           NEW is \in SUBSET Insts, Drop(cs, is)
    PROVE  Tables'
<1>1. /\ UNCHANGED <<of, owner>>
      /\ subs' = [c \in Containers |-> IF c \in cs THEN None ELSE subs[c]]
      /\ stopped' = [i \in Insts |-> stopped[i] \/ i \in is]
      /\ entries' = [i \in Insts |-> IF i \in is THEN Nothing ELSE entries[i]]
    BY DEF Drop, Cancel
<1>2. \A c \in Containers : subs'[c] # None => owner'[subs'[c]] = None
    BY <1>1 DEF Tables
<1>3. ASSUME NEW i \in Insts, NEW c \in Containers, entries'[i][c] # None
      PROVE  /\ owner'[entries'[i][c]] = i /\ of'[entries'[i][c]] = c
             /\ canceled'[entries'[i][c]] => stopped'[i]
    <2>1. i \notin is /\ entries'[i][c] = entries[i][c]
        BY <1>1, <1>3 DEF Nothing
    <2>2. entries[i][c] \in Streams /\ owner[entries[i][c]] = i
        BY <1>3, <2>1 DEF Tables, TypeOK
    <2>3. canceled'[entries[i][c]] = canceled[entries[i][c]]
        BY <2>1, <2>2, DropOthers
    <2> QED
        BY <1>1, <1>3, <2>1, <2>3 DEF Tables
<1> QED
    BY <1>2, <1>3 DEF Tables

LEMMA NextTables == TypeOK /\ Tables /\ [Next]_vars => Tables'
<1> SUFFICES ASSUME TypeOK, Tables, [Next]_vars PROVE Tables'
    OBVIOUS
<1> USE NoneAssumption DEF instVars, streamVars
<1>1. ASSUME UNCHANGED <<subs, entries, owner, of, canceled, stopped>>
      PROVE  Tables'
    BY <1>1 DEF Tables
<1>2. ASSUME NEW c \in Containers, Subscribe(c) PROVE Tables'
    <2>1. UNCHANGED <<entries, stopped>>
        BY <1>2, SubscribeEffect
    <2>2. PICK s \in Streams : /\ Begins(s, c, None)
                               /\ \A t \in Streams \ {s} : Same(t)
                               /\ subs' = [subs EXCEPT ![c] = s]
        BY <1>2, SubscribeEffect
    <2>3. \A d \in Containers : subs'[d] # None => owner'[subs'[d]] = None
        BY <2>2 DEF Tables, TypeOK, FreeStream, Begins, Same
    <2> QED
        BY <2>1, <2>2, <2>3 DEF Tables, TypeOK, FreeStream, Begins, Same
<1>3. ASSUME NEW c \in Containers, Unsubscribe(c) PROVE Tables'
    BY <1>3 DEF Unsubscribe, Cancel, Tables, TypeOK
<1>4. ASSUME NEW v \in Services, SubscribeService(v) PROVE Tables'
    <2>1. PICK i \in Insts : /\ stopped' = [stopped EXCEPT ![i] = FALSE]
                             /\ entries' = [entries EXCEPT ![i] = Nothing]
        BY <1>4 DEF SubscribeService
    <2>2. UNCHANGED <<subs, of, owner, canceled>>
        BY <1>4 DEF SubscribeService
    <2> QED
        BY <2>1, <2>2 DEF Tables, TypeOK, Nothing
<1>5. ASSUME NEW i \in Insts, NEW l \in SUBSET Containers, Started(i, l)
      PROVE  Tables'
    <2>1. UNCHANGED <<subs, stopped>>
        BY <1>5, StartedEffect
    <2>2. PICK by \in [l -> Streams] :
              /\ \A c \in l : Begins(by[c], c, i)
              /\ \A t \in Streams : (\A c \in l : by[c] # t) => Same(t)
              /\ entries' = [entries EXCEPT ![i] =
                    [c \in Containers |-> IF c \in l THEN by[c] ELSE None]]
        BY <1>5, StartedEffect
    <2>3. \A c \in Containers : subs'[c] # None => owner'[subs'[c]] = None
        BY <2>1, <2>2 DEF Tables, TypeOK, FreeStream, Begins, Same
    <2>4. ASSUME NEW j \in Insts, NEW c \in Containers, entries'[j][c] # None
          PROVE  /\ owner'[entries'[j][c]] = j /\ of'[entries'[j][c]] = c
                 /\ canceled'[entries'[j][c]] => stopped'[j]
        <3>1. CASE j = i
            <4>1. c \in l /\ entries'[j][c] = by[c]
                BY <2>2, <2>4, <3>1 DEF TypeOK
            <4> QED
                BY <2>1, <2>2, <3>1, <4>1 DEF Begins, Inherited
        <3>2. CASE j # i
            <4>1. entries'[j][c] = entries[j][c] /\ entries[j][c] \in Streams
                BY <2>2, <2>4, <3>2 DEF TypeOK
            <4>2. \A d \in l : by[d] # entries[j][c]
                BY <2>2 DEF FreeStream, Begins
            <4>3. Same(entries[j][c])
                BY <2>2, <4>1, <4>2
            <4> QED
                BY <2>1, <2>4, <4>1, <4>3 DEF Tables, Same
        <3> QED
            BY <3>1, <3>2
    <2> QED
        BY <2>3, <2>4 DEF Tables
<1>6. ASSUME NEW v \in Services, UnsubscribeService(v) PROVE Tables'
    <2>1. Drop({}, {serviceSubs[v]}) /\ serviceSubs[v] \in Insts
        BY <1>6 DEF UnsubscribeService, TypeOK
    <2> QED
        BY <2>1, DropTables
<1>7. CASE Disconnect
    <2>1. /\ Drop({c \in Containers : subs[c] # None},
                  {serviceSubs[w] : w \in Services} \ {None})
          /\ {serviceSubs[w] : w \in Services} \ {None} \in SUBSET Insts
        BY <1>7 DEF Disconnect, TypeOK
    <2> QED
        BY <2>1, DropTables
<1>8. ASSUME NEW i \in Insts, HandleStart(i) PROVE Tables'
    <2>1. PICK c \in Containers : c = Head(feed[i]).container
        BY <1>8, TakeType DEF HandleStart
    <2>2. UNCHANGED <<subs, stopped>>
        BY <1>8 DEF HandleStart
    <2>3. PICK s \in Streams : /\ Begins(s, c, i)
                               /\ \A t \in Streams \ {s} : Same(t)
                               /\ entries' = [entries EXCEPT ![i][c] = s]
        BY <1>8, <2>1, HandleStartEffect
    <2>4. \A d \in Containers : subs'[d] # None => owner'[subs'[d]] = None
        BY <2>2, <2>3 DEF Tables, TypeOK, FreeStream, Begins, Same
    <2>5. ASSUME NEW j \in Insts, NEW d \in Containers, entries'[j][d] # None
          PROVE  /\ owner'[entries'[j][d]] = j /\ of'[entries'[j][d]] = d
                 /\ canceled'[entries'[j][d]] => stopped'[j]
        <3>1. CASE j = i /\ d = c
            <4>1. entries'[j][d] = s
                BY <2>3, <3>1 DEF TypeOK
            <4> QED
                BY <2>2, <2>3, <3>1, <4>1 DEF Inherited, Begins
        <3>2. CASE ~(j = i /\ d = c)
            <4>1. entries'[j][d] = entries[j][d] /\ entries[j][d] \in Streams
                BY <2>3, <2>5, <3>2 DEF TypeOK
            <4>2. Same(entries[j][d])
                BY <2>3, <4>1 DEF FreeStream, Begins
            <4> QED
                BY <2>2, <2>5, <4>1, <4>2 DEF Tables, Same
        <3> QED
            BY <3>1, <3>2
    <2> QED
        BY <2>4, <2>5 DEF Tables
<1>9. ASSUME NEW i \in Insts, HandleDie(i) PROVE Tables'
    <2>1. PICK c \in Containers : c = Head(feed[i]).container
        BY <1>9, TakeType DEF HandleDie
    <2>2. /\ UNCHANGED <<of, owner, subs, stopped>>
          /\ \A t \in Streams : canceled'[t] = (canceled[t] \/ t = entries[i][c])
          /\ \A j \in Insts, d \in Containers : entries'[j][d] =
                IF j = i /\ d = c THEN None ELSE entries[j][d]
        BY <1>9, <2>1, HandleDieEffect
    <2>3. ASSUME NEW j \in Insts, NEW d \in Containers, entries'[j][d] # None
          PROVE  /\ owner'[entries'[j][d]] = j /\ of'[entries'[j][d]] = d
                 /\ canceled'[entries'[j][d]] => stopped'[j]
        <3>1. /\ entries'[j][d] = entries[j][d] /\ ~(j = i /\ d = c)
              /\ entries[j][d] \in Streams
            BY <2>2, <2>3 DEF TypeOK
        <3>2. entries[j][d] # entries[i][c]
            BY <3>1 DEF Tables
        <3>3. canceled'[entries[j][d]] = canceled[entries[j][d]]
            <4>1. canceled[entries[j][d]] \in BOOLEAN
                BY <3>1 DEF TypeOK
            <4> QED
                BY <2>2, <3>1, <3>2, <4>1
        <3> QED
            BY <2>2, <2>3, <3>1, <3>3 DEF Tables
    <2> QED
        BY <2>2, <2>3 DEF Tables
<1>10. ASSUME NEW t \in Streams, Opens(t) \/ Breaks(t) \/ Ends(t)
       PROVE  Tables'
    BY <1>1, <1>10 DEF Opens, Breaks, Ends
<1>11. ASSUME NEW c \in Containers,
              ContainerStarts(c) \/ ContainerDies(c) \/ ContainerRemoved(c)
       PROVE  Tables'
    BY <1>1, <1>11 DEF ContainerStarts, ContainerDies, ContainerRemoved
<1>12. ASSUME NEW i \in Insts,
              \/ Connects(i) \/ FeedFails(i) \/ Retries(i)
              \/ WatcherStops(i) \/ IgnoreStart(i)
       PROVE  Tables'
    BY <1>1, <1>12 DEF Connects, FeedFails, Retries, WatcherStops, IgnoreStart
<1>13. ASSUME NEW i \in Insts, Listed(i) \/ ListFails(i) PROVE Tables'
    BY <1>5, <1>13 DEF Listed, ListFails, Running
<1>14. CASE UNCHANGED vars
    BY <1>1, <1>14 DEF vars
<1> QED
    BY <1>2, <1>3, <1>4, <1>6, <1>7, <1>8, <1>9, <1>10, <1>11, <1>12, <1>13,
       <1>14
    DEF Next

LEMMA DropObjects ==
    ASSUME TypeOK, Objects, NEW cs, NEW is, Drop(cs, is),
           UNCHANGED handler \/ \A v \in Services : serviceSubs'[v] = None
    PROVE  Objects'
<1>1. /\ UNCHANGED <<svc, watcher, pc, owner>>
      /\ serviceSubs' = [v \in Services |->
            IF serviceSubs[v] \in is THEN None ELSE serviceSubs[v]]
      /\ stopped' = [i \in Insts |-> stopped[i] \/ i \in is]
    BY DEF Drop, Cancel
<1>2. ASSUME NEW i \in Insts, ~stopped'[i]
      PROVE  serviceSubs'[svc'[i]] = i
    <2>1. svc[i] \in Services /\ svc'[i] = svc[i]
        BY <1>1 DEF TypeOK
    <2>2. ~stopped[i] /\ i \notin is
        BY <1>1, <1>2
    <2>3. serviceSubs[svc[i]] = i
        BY <2>2 DEF Objects
    <2> QED
        BY <1>1, <2>1, <2>2, <2>3
<1>3. ASSUME NEW v \in Services, serviceSubs'[v] # None
      PROVE  svc'[serviceSubs'[v]] = v /\ ~stopped'[serviceSubs'[v]]
    <2>1. serviceSubs'[v] = serviceSubs[v] /\ serviceSubs[v] \notin is
        BY <1>1, <1>3
    <2>2. serviceSubs[v] \in Insts
        BY <1>3, <2>1 DEF TypeOK
    <2>3. svc[serviceSubs[v]] = v /\ ~stopped[serviceSubs[v]]
        BY <1>3, <2>1 DEF Objects
    <2>4. ~stopped'[serviceSubs[v]]
        BY <1>1, <2>1, <2>2, <2>3
    <2> QED
        BY <1>1, <2>1, <2>3, <2>4
<1>4. handler' = "closed" => \A v \in Services : serviceSubs'[v] = None
    BY <1>1 DEF Objects
<1>5. \A i \in Insts : watcher'[i] = "done" => stopped'[i]
    BY <1>1 DEF Objects
<1>6. \A i \in Insts : watcher'[i] = "none" =>
          \A t \in Streams : owner'[t] = i => pc'[t] = "ended"
    BY <1>1 DEF Objects, Alive
<1> QED
    BY <1>2, <1>3, <1>4, <1>5, <1>6 DEF Objects, Alive

LEMMA NextObjects == TypeOK /\ Objects /\ [Next]_vars => Objects'
<1> SUFFICES ASSUME TypeOK, Objects, [Next]_vars PROVE Objects'
    OBVIOUS
<1> USE NoneAssumption DEF instVars, streamVars, Alive
<1>1. ASSUME UNCHANGED <<stopped, serviceSubs, svc, handler, watcher, owner>>,
             \A t \in Streams : pc[t] = "ended" => pc'[t] = "ended"
      PROVE  Objects'
    BY <1>1 DEF Objects
<1>2. ASSUME NEW t \in Streams, Opens(t) \/ Breaks(t) \/ Ends(t)
      PROVE  Objects'
    BY <1>1, <1>2 DEF Opens, Breaks, Ends, TypeOK
<1>3. ASSUME NEW c \in Containers, Subscribe(c) PROVE Objects'
    <2>1. UNCHANGED <<handler, serviceSubs, svc, stopped, watcher>>
        BY <1>3, SubscribeEffect
    <2>2. PICK s \in Streams : /\ Begins(s, c, None)
                               /\ \A t \in Streams \ {s} : Same(t)
        BY <1>3, SubscribeEffect
    <2> QED
        BY <2>1, <2>2 DEF Objects, Begins, Same
<1>4. ASSUME NEW c \in Containers, Unsubscribe(c) PROVE Objects'
    BY <1>1, <1>4 DEF Unsubscribe, Cancel
<1>5. ASSUME NEW c \in Containers,
             ContainerStarts(c) \/ ContainerDies(c) \/ ContainerRemoved(c)
      PROVE  Objects'
    BY <1>1, <1>5 DEF ContainerStarts, ContainerDies, ContainerRemoved, TypeOK
<1>6. ASSUME NEW v \in Services, SubscribeService(v) PROVE Objects'
    <2>1. PICK i \in Insts :
              /\ FreeInst(i)
              /\ serviceSubs' = [serviceSubs EXCEPT ![v] = i]
              /\ svc' = [svc EXCEPT ![i] = v]
              /\ stopped' = [stopped EXCEPT ![i] = FALSE]
              /\ watcher' = [watcher EXCEPT ![i] = "none"]
        BY <1>6 DEF SubscribeService
    <2>2. /\ serviceSubs[v] = None /\ handler' = "listing"
          /\ UNCHANGED <<pc, owner>>
        BY <1>6 DEF SubscribeService
    <2>3. \A j \in Insts : ~stopped'[j] => serviceSubs'[svc'[j]] = j
        BY <2>1, <2>2 DEF Objects, TypeOK
    <2>4. \A w \in Services : serviceSubs'[w] # None =>
              svc'[serviceSubs'[w]] = w /\ ~stopped'[serviceSubs'[w]]
        BY <2>1, <2>2 DEF Objects, TypeOK, FreeInst
    <2>5. \A j \in Insts : watcher'[j] = "done" => stopped'[j]
        BY <2>1, <2>2 DEF Objects, TypeOK
    <2>6. \A j \in Insts : watcher'[j] = "none" =>
              \A t \in Streams : owner'[t] = j => pc'[t] = "ended"
        BY <2>1, <2>2 DEF Objects, TypeOK, FreeInst
    <2> QED
        BY <2>2, <2>3, <2>4, <2>5, <2>6 DEF Objects
<1>7. ASSUME NEW v \in Services, UnsubscribeService(v) PROVE Objects'
    <2>1. Drop({}, {serviceSubs[v]}) /\ UNCHANGED handler
        BY <1>7 DEF UnsubscribeService
    <2> QED
        BY <2>1, DropObjects
<1>8. CASE Disconnect
    <2> DEFINE is == {serviceSubs[v] : v \in Services} \ {None}
    <2>1. Drop({c \in Containers : subs[c] # None}, is)
        BY <1>8 DEF Disconnect
    <2>2. \A v \in Services : serviceSubs'[v] = None
        BY <2>1 DEF Drop
    <2> QED
        BY <2>1, <2>2, DropObjects
<1>9. ASSUME NEW i \in Insts, NEW l \in SUBSET Containers, Started(i, l)
      PROVE  Objects'
    <2>1. /\ UNCHANGED <<serviceSubs, svc, stopped>>
          /\ watcher' = [watcher EXCEPT ![i] = "dialing"]
          /\ handler' = "reading"
        BY <1>9 DEF Started
    <2>2. PICK by \in [l -> Streams] :
              /\ \A c \in l : Begins(by[c], c, i)
              /\ \A t \in Streams : (\A c \in l : by[c] # t) => Same(t)
        BY <1>9, StartedEffect
    <2>3. ASSUME NEW j \in Insts, watcher'[j] = "none",
                 NEW t \in Streams, owner'[t] = j
          PROVE  pc'[t] = "ended"
        <3>1. j # i /\ watcher[j] = "none"
            BY <2>1, <2>3 DEF TypeOK
        <3>2. \A c \in l : by[c] # t
            BY <2>2, <2>3, <3>1 DEF Begins
        <3> QED
            BY <2>2, <2>3, <3>1, <3>2 DEF Objects, Same
    <2> QED
        BY <2>1, <2>3 DEF Objects, TypeOK
<1>10. ASSUME NEW i \in Insts, Listed(i) \/ ListFails(i) PROVE Objects'
    BY <1>9, <1>10 DEF Listed, ListFails, Running
<1>11. ASSUME NEW i \in Insts, Connects(i) \/ FeedFails(i) \/ Retries(i)
       PROVE  Objects'
    <2>1. /\ UNCHANGED <<stopped, serviceSubs, svc, handler, owner, pc>>
          /\ watcher[i] # "none"
          /\ \E w \in {"dialing", "watching", "backoff"} :
                watcher' = [watcher EXCEPT ![i] = w]
        BY <1>11 DEF Connects, FeedFails, Retries
    <2> QED
        BY <2>1 DEF Objects, TypeOK
<1>12. ASSUME NEW i \in Insts, WatcherStops(i) PROVE Objects'
    BY <1>12 DEF WatcherStops, Objects, TypeOK
<1>13. ASSUME NEW i \in Insts, HandleStart(i) PROVE Objects'
    <2>1. PICK c \in Containers : c = Head(feed[i]).container
        BY <1>13, TakeType DEF HandleStart
    <2>2. /\ UNCHANGED <<handler, serviceSubs, svc, stopped, watcher>>
          /\ watcher[i] = "watching"
        BY <1>13 DEF HandleStart, TakeEvent
    <2>3. PICK s \in Streams : /\ Begins(s, c, i)
                               /\ \A t \in Streams \ {s} : Same(t)
        BY <1>13, <2>1, HandleStartEffect
    <2> QED
        BY <2>2, <2>3 DEF Objects, Begins, Same
<1>14. ASSUME NEW i \in Insts, IgnoreStart(i) PROVE Objects'
    BY <1>1, <1>14 DEF IgnoreStart
<1>15. ASSUME NEW i \in Insts, HandleDie(i) PROVE Objects'
    BY <1>1, <1>15 DEF HandleDie, Cancel
<1>16. CASE UNCHANGED vars
    BY <1>1, <1>16 DEF vars
<1> QED
    BY <1>2, <1>3, <1>4, <1>5, <1>6, <1>7, <1>8, <1>10, <1>11, <1>12, <1>13,
       <1>14, <1>15, <1>16
    DEF Next

LEMMA FeedContainer ==
    ASSUME TypeOK, NEW i \in Insts, NEW n \in 1 .. Len(feed[i])
    PROVE  feed[i][n].container \in Containers
<1>1. feed[i] \in Seq(Events)
    BY DEF TypeOK
<1>2. feed[i][n] \in Events
    BY <1>1
<1> QED
    BY <1>2 DEF Events

\* An event is taken off the feed of i.
LEMMA TakeFeeds ==
    ASSUME TypeOK, Feeds, NEW i \in Insts, NEW a, TakeEvent(i, a),
           UNCHANGED <<docker, svc, watcher>>
    PROVE  Feeds'
<1>1. /\ feed[i] \in Seq(Events) /\ feed[i] # <<>> /\ watcher[i] = "watching"
      /\ feed' = [feed EXCEPT ![i] = Tail(feed[i])]
    BY DEF TakeEvent, TypeOK
<1>2. /\ Len(feed[i]) \in Nat \ {0} /\ Len(Tail(feed[i])) = Len(feed[i]) - 1
      /\ \A n \in 1 .. Len(Tail(feed[i])) : Tail(feed[i])[n] = feed[i][n + 1]
    BY <1>1
<1>3. ASSUME NEW n \in 1 .. Len(feed'[i])
      PROVE  /\ ServiceOf[feed'[i][n].container] = svc'[i]
             /\ feed'[i][n].action = "die" /\ docker'[feed'[i][n].container] = "running" =>
                   \E m \in n + 1 .. Len(feed'[i]) :
                       feed'[i][m] = [action |-> "start",
                                      container |-> feed'[i][n].container]
    <2>1. /\ feed'[i] = Tail(feed[i]) /\ n + 1 \in 1 .. Len(feed[i])
          /\ feed'[i][n] = feed[i][n + 1]
        BY <1>1, <1>2 DEF TypeOK
    <2>2. ServiceOf[feed[i][n + 1].container] = svc[i]
        BY <2>1 DEF Feeds, FeedInOrder
    <2>3. ASSUME feed[i][n + 1].action = "die",
                 docker[feed[i][n + 1].container] = "running"
          PROVE  \E m \in n + 1 .. Len(feed'[i]) :
                     feed'[i][m] = [action |-> "start",
                                    container |-> feed[i][n + 1].container]
        <3>1. PICK m \in n + 2 .. Len(feed[i]) :
                  feed[i][m] = [action |-> "start",
                                container |-> feed[i][n + 1].container]
            BY <2>1, <2>3 DEF Feeds, FeedInOrder
        <3>2. m - 1 \in n + 1 .. Len(feed'[i]) /\ feed'[i][m - 1] = feed[i][m]
            BY <1>2, <2>1, <3>1
        <3> QED
            BY <3>1, <3>2
    <2> QED
        BY <2>1, <2>2, <2>3
<1>4. FeedInOrder(i)'
    BY <1>1, <1>3 DEF FeedInOrder
<1>5. ASSUME NEW j \in Insts \ {i} PROVE FeedInOrder(j)'
    <2>1. feed'[j] = feed[j]
        BY <1>1 DEF TypeOK
    <2> QED
        BY <2>1 DEF Feeds, FeedInOrder
<1> QED
    BY <1>4, <1>5 DEF Feeds

\* Docker tells the watchers what container c does.
LEMMA TellFeeds ==
    ASSUME TypeOK, Feeds, NEW c \in Containers, NEW a \in {"start", "die"},
           Tell(c, a), UNCHANGED <<svc, watcher>>,
           docker' = [docker EXCEPT ![c] = IF a = "start" THEN "running" ELSE "exited"]
    PROVE  Feeds'
<1> DEFINE e == [action |-> a, container |-> c]
           told(i) == watcher[i] = "watching" /\ svc[i] = ServiceOf[c]
<1>1. \A i \in Insts :
          feed'[i] = IF told(i) THEN Append(feed[i], e) ELSE feed[i]
    BY DEF Tell, Filtered
<1>2. /\ docker'[c] = (IF a = "start" THEN "running" ELSE "exited")
      /\ \A d \in Containers \ {c} : docker'[d] = docker[d]
    BY DEF TypeOK
<1>3. e \in Events /\ e.action = a /\ e.container = c
    BY DEF Events
<1> HIDE DEF e
<1>4. ASSUME NEW i \in Insts, told(i)
      PROVE  /\ feed[i] \in Seq(Events) /\ Len(feed[i]) \in Nat
             /\ Len(feed'[i]) = Len(feed[i]) + 1
             /\ feed'[i][Len(feed[i]) + 1] = e
             /\ \A n \in 1 .. Len(feed[i]) : feed'[i][n] = feed[i][n]
    <2>1. feed[i] \in Seq(Events) /\ feed'[i] = Append(feed[i], e)
        BY <1>1, <1>4 DEF TypeOK
    <2> HIDE DEF told
    <2> QED
        BY <2>1, <1>3, AppendProperties
<1>5. ASSUME NEW i \in Insts, NEW n \in 1 .. Len(feed'[i])
      PROVE  /\ ServiceOf[feed'[i][n].container] = svc'[i]
             /\ feed'[i][n].action = "die" /\ docker'[feed'[i][n].container] = "running" =>
                   \E m \in n + 1 .. Len(feed'[i]) :
                       feed'[i][m] = [action |-> "start",
                                      container |-> feed'[i][n].container]
    <2>1. CASE told(i) /\ n = Len(feed[i]) + 1
        <3>1. feed'[i][n] = e
            BY <1>4, <2>1
        <3> QED
            BY <1>2, <1>3, <2>1, <3>1
    <2>2. CASE told(i) /\ n # Len(feed[i]) + 1
        <3>1. n \in 1 .. Len(feed[i]) /\ feed'[i][n] = feed[i][n]
            BY <1>4, <2>2
        <3>2. ServiceOf[feed[i][n].container] = svc[i]
            BY <3>1 DEF Feeds, FeedInOrder
        <3>3. feed[i][n].container \in Containers
            BY <3>1, FeedContainer
        <3>4. ASSUME feed[i][n].action = "die",
                     docker'[feed[i][n].container] = "running"
              PROVE  \E m \in n + 1 .. Len(feed'[i]) :
                         feed'[i][m] = [action |-> "start",
                                        container |-> feed[i][n].container]
            <4>1. CASE feed[i][n].container = c
                <5>1. a = "start"
                    BY <1>2, <3>4, <4>1
                <5>2. feed'[i][Len(feed[i]) + 1] =
                          [action |-> "start", container |-> c]
                    BY <1>4, <2>2, <5>1 DEF e
                <5>3. Len(feed[i]) + 1 \in n + 1 .. Len(feed'[i])
                    BY <1>4, <2>2, <3>1
                <5> QED
                    BY <4>1, <5>2, <5>3
            <4>2. CASE feed[i][n].container # c
                <5>1. docker[feed[i][n].container] = "running"
                    BY <1>2, <3>3, <3>4, <4>2
                <5>2. PICK m \in n + 1 .. Len(feed[i]) :
                          feed[i][m] = [action |-> "start",
                                        container |-> feed[i][n].container]
                    BY <3>1, <3>4, <5>1 DEF Feeds, FeedInOrder
                <5>3. feed'[i][m] = feed[i][m] /\ m \in n + 1 .. Len(feed'[i])
                    BY <1>4, <2>2, <3>1, <5>2
                <5> QED
                    BY <5>2, <5>3
            <4> QED
                BY <4>1, <4>2
        <3> QED
            BY <3>1, <3>2, <3>4
    <2>3. CASE ~told(i)
        <3>1. feed'[i] = feed[i]
            BY <1>1, <2>3
        <3>2. ServiceOf[feed[i][n].container] = svc[i] /\ watcher[i] = "watching"
            <4>1. n \in 1 .. Len(feed[i])
                BY <3>1
            <4>2. feed[i] # <<>>
                BY <4>1
            <4> QED
                BY <4>1, <4>2 DEF Feeds, FeedInOrder
        <3>3. feed[i][n].container # c
            BY <2>3, <3>2
        <3>4. feed[i][n].container \in Containers
            BY <3>1, FeedContainer
        <3>5. docker'[feed[i][n].container] = docker[feed[i][n].container]
            BY <1>2, <3>3, <3>4
        <3> QED
            BY <3>1, <3>5 DEF Feeds, FeedInOrder
    <2> QED
        BY <2>1, <2>2, <2>3
<1>6. \A i \in Insts : feed'[i] # <<>> => watcher'[i] = "watching"
    BY <1>1 DEF Feeds, FeedInOrder
<1> HIDE DEF told
<1> QED
    BY <1>5, <1>6 DEF Feeds, FeedInOrder

LEMMA NextFeeds == TypeOK /\ Feeds /\ [Next]_vars => Feeds'
<1> SUFFICES ASSUME TypeOK, Feeds, [Next]_vars PROVE Feeds'
    OBVIOUS
<1> USE DEF instVars, streamVars
<1>1. ASSUME UNCHANGED <<docker, svc, watcher, feed>> PROVE Feeds'
    BY <1>1 DEF Feeds, FeedInOrder
<1>2. ASSUME NEW t \in Streams, Opens(t) \/ Breaks(t) \/ Ends(t) PROVE Feeds'
    BY <1>1, <1>2 DEF Opens, Breaks, Ends
<1>3. ASSUME NEW c \in Containers, Subscribe(c) \/ Unsubscribe(c) PROVE Feeds'
    BY <1>1, <1>3 DEF Subscribe, Unsubscribe
<1>4. ASSUME NEW c \in Containers, ContainerStarts(c) PROVE Feeds'
    <2>1. /\ Tell(c, "start") /\ UNCHANGED <<svc, watcher>>
          /\ docker' = [docker EXCEPT ![c] = "running"]
        BY <1>4 DEF ContainerStarts
    <2> QED
        BY <2>1, TellFeeds
<1>5. ASSUME NEW c \in Containers, ContainerDies(c) PROVE Feeds'
    <2>1. /\ Tell(c, "die") /\ UNCHANGED <<svc, watcher>>
          /\ docker' = [docker EXCEPT ![c] = "exited"]
        BY <1>5 DEF ContainerDies
    <2> QED
        BY <2>1, TellFeeds
<1>6. ASSUME NEW c \in Containers, ContainerRemoved(c) PROVE Feeds'
    <2>1. /\ UNCHANGED <<svc, watcher, feed>>
          /\ \A d \in Containers : docker'[d] = "running" => docker[d] = "running"
        BY <1>6 DEF ContainerRemoved, TypeOK
    <2>2. \A i \in Insts : \A n \in 1 .. Len(feed[i]) :
              feed[i][n].container \in Containers
        BY FeedContainer
    <2> QED
        BY <2>1, <2>2 DEF Feeds, FeedInOrder
<1>7. ASSUME NEW v \in Services, SubscribeService(v) PROVE Feeds'
    <2>1. PICK i \in Insts : /\ svc' = [svc EXCEPT ![i] = v]
                             /\ watcher' = [watcher EXCEPT ![i] = "none"]
                             /\ feed' = [feed EXCEPT ![i] = <<>>]
                             /\ docker' = docker
        BY <1>7 DEF SubscribeService
    <2>2. feed'[i] = <<>> /\ Len(feed'[i]) = 0
        BY <2>1 DEF TypeOK
    <2>3. \A j \in Insts \ {i} : /\ feed'[j] = feed[j] /\ svc'[j] = svc[j]
                                 /\ watcher'[j] = watcher[j]
        BY <2>1 DEF TypeOK
    <2> QED
        BY <2>1, <2>2, <2>3 DEF Feeds, FeedInOrder
<1>8. ASSUME NEW v \in Services, UnsubscribeService(v) PROVE Feeds'
    BY <1>1, <1>8 DEF UnsubscribeService, Drop
<1>9. CASE Disconnect
    BY <1>1, <1>9 DEF Disconnect, Drop
<1>10. ASSUME NEW i \in Insts, NEW w, watcher' = [watcher EXCEPT ![i] = w],
              watcher[i] # "watching", UNCHANGED <<docker, svc, feed>>
       PROVE  Feeds'
    <2>1. feed[i] = <<>> /\ Len(feed[i]) = 0
        BY <1>10 DEF Feeds, FeedInOrder
    <2>2. \A j \in Insts \ {i} : watcher'[j] = watcher[j]
        BY <1>10 DEF TypeOK
    <2>3. FeedInOrder(i)'
        BY <1>10, <2>1 DEF FeedInOrder
    <2>4. \A j \in Insts \ {i} : FeedInOrder(j)'
        BY <1>10, <2>2 DEF Feeds, FeedInOrder
    <2> QED
        BY <2>3, <2>4 DEF Feeds
<1>11. ASSUME NEW i \in Insts, NEW w, watcher' = [watcher EXCEPT ![i] = w],
              feed' = [feed EXCEPT ![i] = <<>>], UNCHANGED <<docker, svc>>
       PROVE  Feeds'
    <2>1. feed'[i] = <<>> /\ Len(feed'[i]) = 0
        BY <1>11 DEF TypeOK
    <2>2. \A j \in Insts \ {i} : feed'[j] = feed[j] /\ watcher'[j] = watcher[j]
        BY <1>11 DEF TypeOK
    <2> QED
        BY <1>11, <2>1, <2>2 DEF Feeds, FeedInOrder
<1>12. ASSUME NEW i \in Insts, Listed(i) \/ ListFails(i) PROVE Feeds'
    BY <1>10, <1>12 DEF Listed, ListFails, Started
<1>13. ASSUME NEW i \in Insts, Connects(i) \/ Retries(i) PROVE Feeds'
    BY <1>10, <1>13 DEF Connects, Retries
<1>14. ASSUME NEW i \in Insts, FeedFails(i) \/ WatcherStops(i) PROVE Feeds'
    BY <1>11, <1>14 DEF FeedFails, WatcherStops
<1>15. ASSUME NEW i \in Insts, HandleStart(i) PROVE Feeds'
    BY <1>15, TakeFeeds DEF HandleStart
<1>16. ASSUME NEW i \in Insts, IgnoreStart(i) PROVE Feeds'
    BY <1>16, TakeFeeds DEF IgnoreStart
<1>17. ASSUME NEW i \in Insts, HandleDie(i) PROVE Feeds'
    BY <1>17, TakeFeeds DEF HandleDie
<1>18. CASE UNCHANGED vars
    BY <1>1, <1>18 DEF vars
<1> QED
    BY <1>2, <1>3, <1>4, <1>5, <1>6, <1>7, <1>8, <1>9, <1>12, <1>13, <1>14,
       <1>15, <1>16, <1>17, <1>18
    DEF Next

-----------------------------------------------------------------------------
(* The safety properties.                                                   *)

\* The table of its subscription holds stream t.
Held(t) == IF owner[t] = None
             THEN subs[of[t]] = t
             ELSE entries[owner[t]][of[t]] = t /\ ~stopped[owner[t]]

LEMMA DropReachable ==
    ASSUME TypeOK, Reachable, NEW cs, NEW is, Drop(cs, is),
           NEW t \in Streams, Alive(t)', ~canceled'[t]
    PROVE  Held(t)'
<1>1. /\ UNCHANGED <<pc, of, owner>>
      /\ canceled' = [u \in Streams |->
            canceled[u] \/ u \in {subs[c] : c \in cs} \cup Stop(is)]
      /\ subs' = [c \in Containers |-> IF c \in cs THEN None ELSE subs[c]]
      /\ stopped' = [i \in Insts |-> stopped[i] \/ i \in is]
      /\ entries' = [i \in Insts |-> IF i \in is THEN Nothing ELSE entries[i]]
    BY DEF Drop, Cancel
<1>2. /\ Alive(t) /\ ~canceled[t]
      /\ t \notin {subs[c] : c \in cs} /\ t \notin Stop(is)
    BY <1>1 DEF Alive
<1>3. Held(t)
    BY <1>2 DEF Reachable, Held
<1>4. of[t] \in Containers /\ owner[t] \in Insts \cup {None}
    BY DEF TypeOK
<1>5. CASE owner[t] = None
    <2>1. subs[of[t]] = t
        BY <1>3, <1>5 DEF Held
    <2>2. of[t] \notin cs
        BY <1>2, <2>1
    <2>3. subs'[of[t]] = t
        BY <1>1, <1>4, <2>1, <2>2
    <2> QED
        BY <1>1, <1>5, <2>3 DEF Held
<1>6. CASE owner[t] # None
    <2>1. entries[owner[t]][of[t]] = t /\ ~stopped[owner[t]]
        BY <1>3, <1>6 DEF Held
    <2>2. owner[t] \notin is
        BY <1>2, <1>4, <1>6, <2>1, NoneAssumption DEF Stop
    <2>3. entries'[owner[t]][of[t]] = t /\ ~stopped'[owner[t]]
        BY <1>1, <1>4, <1>6, <2>1, <2>2
    <2> QED
        BY <1>1, <1>6, <2>3 DEF Held
<1> QED
    BY <1>5, <1>6

LEMMA NextReachable == IInv /\ [Next]_vars => Reachable'
<1> SUFFICES ASSUME IInv, [Next]_vars, NEW t \in Streams, Alive(t)', ~canceled'[t]
             PROVE  Held(t)'
    BY DEF Reachable, Held
<1> USE NoneAssumption DEF instVars, streamVars
<1>0. TypeOK /\ Tables /\ Objects /\ Reachable
    BY DEF IInv
<1>1. ASSUME Alive(t), ~canceled[t] PROVE Held(t)
    BY <1>0, <1>1 DEF Reachable, Held
<1>2. ASSUME pc[t] = "ended" => pc'[t] = "ended",
             UNCHANGED <<subs, stopped, entries, of, owner, canceled>>
      PROVE  Held(t)'
    BY <1>1, <1>2 DEF Alive, Held
<1>3. ASSUME NEW u \in Streams, Opens(u) \/ Breaks(u) \/ Ends(u) PROVE Held(t)'
    BY <1>0, <1>2, <1>3 DEF Opens, Breaks, Ends, Alive, TypeOK
<1>4. ASSUME NEW c \in Containers, Subscribe(c) PROVE Held(t)'
    <2>1. UNCHANGED <<stopped, entries>> /\ subs[c] = None
        BY <1>0, <1>4, SubscribeEffect DEF Subscribe
    <2>2. PICK s \in Streams : /\ Begins(s, c, None)
                               /\ \A u \in Streams \ {s} : Same(u)
                               /\ subs' = [subs EXCEPT ![c] = s]
        BY <1>0, <1>4, SubscribeEffect
    <2>3. CASE t = s
        BY <1>0, <2>2, <2>3 DEF Begins, Held, TypeOK
    <2>4. CASE t # s
        <3>1. Same(t) /\ Held(t)
            BY <1>1, <2>2, <2>4 DEF Same, Alive
        <3>2. owner[t] = None => of[t] # c
            BY <2>1, <3>1 DEF Held
        <3> QED
            BY <1>0, <2>1, <2>2, <3>1, <3>2 DEF Same, Held, TypeOK
    <2> QED
        BY <2>3, <2>4
<1>5. ASSUME NEW c \in Containers, Unsubscribe(c) PROVE Held(t)'
    <2>1. /\ UNCHANGED <<pc, of, owner, entries, stopped>>
          /\ canceled' = [u \in Streams |-> canceled[u] \/ u \in {subs[c]}]
          /\ subs' = [subs EXCEPT ![c] = None]
        BY <1>5 DEF Unsubscribe, Cancel
    <2>2. Held(t) /\ t # subs[c]
        BY <1>1, <2>1 DEF Alive
    <2> QED
        BY <1>0, <2>1, <2>2 DEF Held, TypeOK
<1>6. ASSUME NEW c \in Containers,
             ContainerStarts(c) \/ ContainerDies(c) \/ ContainerRemoved(c)
      PROVE  Held(t)'
    BY <1>0, <1>2, <1>6
    DEF ContainerStarts, ContainerDies, ContainerRemoved, TypeOK
<1>7. ASSUME NEW v \in Services, SubscribeService(v) PROVE Held(t)'
    <2>1. PICK i \in Insts : /\ FreeInst(i)
                             /\ stopped' = [stopped EXCEPT ![i] = FALSE]
                             /\ entries' = [entries EXCEPT ![i] = Nothing]
        BY <1>7 DEF SubscribeService
    <2>2. UNCHANGED <<subs, pc, of, owner, canceled>>
        BY <1>7 DEF SubscribeService
    <2>3. Held(t) /\ owner[t] # i
        BY <1>1, <2>1, <2>2 DEF Alive, FreeInst
    <2> QED
        BY <1>0, <2>1, <2>2, <2>3 DEF Held, TypeOK
<1>8. ASSUME NEW v \in Services, UnsubscribeService(v) PROVE Held(t)'
    BY <1>0, <1>8, DropReachable DEF UnsubscribeService
<1>9. CASE Disconnect
    BY <1>0, <1>9, DropReachable DEF Disconnect
<1>10. ASSUME NEW i \in Insts, NEW l \in SUBSET Containers, Started(i, l)
       PROVE  Held(t)'
    <2>1. UNCHANGED <<subs, stopped>> /\ watcher[i] = "none"
        BY <1>0, <1>10, StartedEffect DEF Started
    <2>2. PICK by \in [l -> Streams] :
              /\ \A c \in l : Begins(by[c], c, i)
              /\ \A u \in Streams : (\A c \in l : by[c] # u) => Same(u)
              /\ entries' = [entries EXCEPT ![i] =
                    [c \in Containers |-> IF c \in l THEN by[c] ELSE None]]
        BY <1>0, <1>10, StartedEffect
    <2>3. ASSUME NEW c \in l, t = by[c] PROVE Held(t)'
        <3>1. Begins(t, c, i) /\ entries'[i][c] = t
            BY <1>0, <2>2, <2>3 DEF TypeOK
        <3>2. owner'[t] = i /\ of'[t] = c /\ ~stopped[i]
            BY <3>1 DEF Begins, Inherited
        <3> QED
            BY <2>1, <3>1, <3>2 DEF Held
    <2>4. CASE \A c \in l : by[c] # t
        <3>1. Same(t) /\ Held(t)
            BY <1>1, <2>2, <2>4 DEF Same, Alive
        <3>2. owner[t] # i
            BY <1>0, <2>1, <3>1 DEF Objects, Same, Alive
        <3> QED
            BY <1>0, <2>1, <2>2, <3>1, <3>2 DEF Same, Held, TypeOK
    <2> QED
        BY <2>3, <2>4
<1>11. ASSUME NEW i \in Insts, Listed(i) \/ ListFails(i) PROVE Held(t)'
    BY <1>10, <1>11 DEF Listed, ListFails, Running
<1>12. ASSUME NEW i \in Insts,
              \/ Connects(i) \/ FeedFails(i) \/ Retries(i)
              \/ WatcherStops(i) \/ IgnoreStart(i)
       PROVE  Held(t)'
    BY <1>2, <1>12 DEF Connects, FeedFails, Retries, WatcherStops, IgnoreStart
<1>13. ASSUME NEW i \in Insts, HandleStart(i) PROVE Held(t)'
    <2>1. PICK c \in Containers : c = Head(feed[i]).container
        BY <1>0, <1>13, TakeType DEF HandleStart
    <2>2. UNCHANGED <<subs, stopped>> /\ entries[i][c] = None
        BY <1>13, <2>1 DEF HandleStart, AlreadyStreaming
    <2>3. PICK s \in Streams : /\ Begins(s, c, i)
                               /\ \A u \in Streams \ {s} : Same(u)
                               /\ entries' = [entries EXCEPT ![i][c] = s]
        BY <1>0, <1>13, <2>1, HandleStartEffect
    <2>4. \A j \in Insts, d \in Containers :
              entries'[j][d] = IF j = i /\ d = c THEN s ELSE entries[j][d]
        BY <1>0, <2>3 DEF TypeOK
    <2>5. CASE t = s
        BY <2>2, <2>3, <2>4, <2>5 DEF Begins, Inherited, Held
    <2>6. CASE t # s
        <3>1. Same(t) /\ Held(t)
            BY <1>1, <2>3, <2>6 DEF Same, Alive
        <3>2. of[t] \in Containers /\ owner[t] \in Insts \cup {None}
            BY <1>0 DEF TypeOK
        <3>3. ~(owner[t] = i /\ of[t] = c)
            BY <2>2, <3>1 DEF Held
        <3> QED
            BY <2>2, <2>4, <3>1, <3>2, <3>3 DEF Same, Held
    <2> QED
        BY <2>5, <2>6
<1>14. ASSUME NEW i \in Insts, HandleDie(i) PROVE Held(t)'
    <2>1. PICK c \in Containers : c = Head(feed[i]).container
        BY <1>0, <1>14, TakeType DEF HandleDie
    <2>2. /\ UNCHANGED <<pc, of, owner, subs, stopped>>
          /\ canceled'[t] = (canceled[t] \/ t = entries[i][c])
          /\ \A j \in Insts, d \in Containers : entries'[j][d] =
                IF j = i /\ d = c THEN None ELSE entries[j][d]
        BY <1>0, <1>14, <2>1, HandleDieEffect
    <2>3. Held(t) /\ t # entries[i][c]
        BY <1>1, <2>2 DEF Alive
    <2>4. of[t] \in Containers /\ owner[t] \in Insts \cup {None}
        BY <1>0 DEF TypeOK
    <2> QED
        BY <2>2, <2>3, <2>4 DEF Held
<1>15. CASE UNCHANGED vars
    BY <1>2, <1>15 DEF vars
<1> QED
    BY <1>3, <1>4, <1>5, <1>6, <1>7, <1>8, <1>9, <1>11, <1>12, <1>13, <1>14,
       <1>15
    DEF Next

LEMMA NextClosed == IInv /\ [Next]_vars => ClosedCancelsAll'
<1> SUFFICES ASSUME IInv, [Next]_vars, handler' = "closed",
                    NEW t \in Streams, Alive(t)'
             PROVE  canceled'[t]
    BY DEF ClosedCancelsAll
<1> USE DEF instVars, streamVars
<1>0. TypeOK /\ Tables /\ Objects /\ Reachable /\ ClosedCancelsAll
    BY DEF IInv
<1>1. ASSUME handler' = handler, pc[t] = "ended" => pc'[t] = "ended",
             canceled[t] => canceled'[t]
      PROVE  canceled'[t]
    BY <1>0, <1>1 DEF ClosedCancelsAll, Alive
<1>2. ASSUME NEW u \in Streams, Opens(u) \/ Breaks(u) \/ Ends(u)
      PROVE  canceled'[t]
    BY <1>0, <1>1, <1>2 DEF Opens, Breaks, Ends, Alive, TypeOK
<1>3. ASSUME NEW c \in Containers, Subscribe(c) \/ Unsubscribe(c)
      PROVE  canceled'[t]
    BY <1>3 DEF Subscribe, Unsubscribe
<1>4. ASSUME NEW c \in Containers,
             ContainerStarts(c) \/ ContainerDies(c) \/ ContainerRemoved(c)
      PROVE  canceled'[t]
    BY <1>0, <1>1, <1>4
    DEF ContainerStarts, ContainerDies, ContainerRemoved, TypeOK
<1>5. ASSUME NEW v \in Services, SubscribeService(v) \/ UnsubscribeService(v)
      PROVE  canceled'[t]
    BY <1>5 DEF SubscribeService, UnsubscribeService
<1>6. CASE Disconnect
    <2> DEFINE cs == {c \in Containers : subs[c] # None}
               is == {serviceSubs[v] : v \in Services} \ {None}
    <2>1. Drop(cs, is)
        BY <1>6 DEF Disconnect
    <2>2. UNCHANGED pc /\ canceled' = [u \in Streams |->
              canceled[u] \/ u \in {subs[c] : c \in cs} \cup Stop(is)]
        BY <2>1 DEF Drop, Cancel
    <2>3. CASE canceled[t]
        BY <2>2, <2>3
    <2>4. CASE ~canceled[t]
        <3>1. Held(t)
            BY <1>0, <2>2, <2>4 DEF Reachable, Held, Alive
        <3>2. of[t] \in Containers /\ owner[t] \in Insts \cup {None}
            BY <1>0 DEF TypeOK
        <3>3. CASE owner[t] = None
            <4>1. subs[of[t]] = t /\ of[t] \in cs
                BY <3>1, <3>2, <3>3, NoneAssumption DEF Held
            <4> QED
                BY <2>2, <4>1
        <3>4. CASE owner[t] # None
            <4>1. /\ entries[owner[t]][of[t]] = t
                  /\ serviceSubs[svc[owner[t]]] = owner[t]
                  /\ svc[owner[t]] \in Services
                BY <1>0, <3>1, <3>2, <3>4 DEF Held, Objects, TypeOK
            <4>2. owner[t] \in is
                BY <3>4, <4>1
            <4>3. t \in Stop(is)
                BY <3>2, <4>1, <4>2, NoneAssumption DEF Stop
            <4> QED
                BY <2>2, <4>3
        <3> QED
            BY <3>3, <3>4
    <2> QED
        BY <2>3, <2>4
<1>7. ASSUME NEW i \in Insts, Listed(i) \/ ListFails(i) PROVE canceled'[t]
    BY <1>7 DEF Listed, ListFails, Started
<1>8. ASSUME NEW i \in Insts,
             \/ Connects(i) \/ FeedFails(i) \/ Retries(i)
             \/ WatcherStops(i) \/ IgnoreStart(i)
      PROVE  canceled'[t]
    BY <1>1, <1>8 DEF Connects, FeedFails, Retries, WatcherStops, IgnoreStart
<1>9. ASSUME NEW i \in Insts, HandleStart(i) PROVE canceled'[t]
    <2>1. PICK c \in Containers : c = Head(feed[i]).container
        BY <1>0, <1>9, TakeType DEF HandleStart
    <2>2. PICK s \in Streams : Begins(s, c, i) /\ \A u \in Streams \ {s} : Same(u)
        BY <1>0, <1>9, <2>1, HandleStartEffect
    <2>3. handler' = handler
        BY <1>9 DEF HandleStart
    <2>4. CASE t = s
        <3>1. stopped[i]
            BY <1>0, <2>3, NoneAssumption DEF Objects, TypeOK
        <3> QED
            BY <2>2, <2>4, <3>1, NoneAssumption DEF Begins, Inherited
    <2>5. CASE t # s
        BY <1>1, <2>2, <2>3, <2>5 DEF Same
    <2> QED
        BY <2>4, <2>5
<1>10. ASSUME NEW i \in Insts, HandleDie(i) PROVE canceled'[t]
    <2>1. PICK c \in Containers : c = Head(feed[i]).container
        BY <1>0, <1>10, TakeType DEF HandleDie
    <2> QED
        BY <1>0, <1>1, <1>10, <2>1, HandleDieEffect
<1>11. CASE UNCHANGED vars
    BY <1>1, <1>11 DEF vars
<1> QED
    BY <1>2, <1>3, <1>4, <1>5, <1>6, <1>7, <1>8, <1>9, <1>10, <1>11 DEF Next

\* What StreamedOrMissed asks for container c of subscription i.
Known(i, c) == Followed(i, c) \/ Announced(i, c) \/ c \in missed[i]

\* A subscription in the table is not stopped, and its watcher not done.
LEMMA SubscribedRuns ==
    ASSUME TypeOK, Objects, NEW i \in Insts, Subscribed(i)
    PROVE  ~stopped[i] /\ watcher[i] \in {"dialing", "watching", "backoff"}
BY NoneAssumption DEF Subscribed, Objects, TypeOK

LEMMA NextStreamed == IInv /\ [Next]_vars => StreamedOrMissed'
<1> SUFFICES ASSUME IInv, [Next]_vars, NEW i \in Insts, Subscribed(i)',
                    NEW c \in Containers, docker'[c] = "running",
                    ServiceOf[c] = svc'[i]
             PROVE  Known(i, c)'
    BY DEF StreamedOrMissed, Running, Known
<1> USE NoneAssumption DEF instVars, streamVars
<1>0. TypeOK /\ Tables /\ Objects /\ Feeds /\ StreamedOrMissed
    BY DEF IInv
\* Nothing changes for i and c but streams that do not follow c for i.
<1>1. ASSUME Subscribed(i), docker[c] = "running", svc'[i] = svc[i]
      PROVE  Known(i, c)
    BY <1>0, <1>1 DEF StreamedOrMissed, Running, Known
<1>2. ASSUME Known(i, c), feed'[i] = feed[i], missed[i] \subseteq missed'[i],
             \A t \in Streams : owner[t] = i => Same(t)
      PROVE  Known(i, c)'
    BY <1>2 DEF Known, Followed, Announced, Same
<1>3. ASSUME UNCHANGED <<docker, serviceSubs, svc, watcher, feed, missed>>,
             \A t \in Streams : owner[t] = i => Same(t)
      PROVE  Known(i, c)'
    BY <1>1, <1>2, <1>3 DEF Subscribed
<1>4. ASSUME NEW u \in Streams, Opens(u) PROVE Known(i, c)'
    <2>1. /\ UNCHANGED <<docker, serviceSubs, instVars, of, owner, canceled>>
          /\ pc' = [pc EXCEPT ![u] = LogsOf(of[u])]
        BY <1>4 DEF Opens
    <2>2. Known(i, c)
        BY <1>1, <2>1 DEF Subscribed
    <2>3. ASSUME NEW t \in Streams, of[t] = c, pc[t] \in {"opening", "following"}
          PROVE  pc'[t] \in {"opening", "following"}
        BY <1>0, <2>1, <2>3 DEF LogsOf, TypeOK
    <2> QED
        BY <2>1, <2>2, <2>3 DEF Known, Followed, Announced
<1>5. ASSUME NEW u \in Streams, Breaks(u) PROVE Known(i, c)'
    <2>1. /\ UNCHANGED <<docker, serviceSubs, svc, watcher, feed, of, owner,
                         canceled>>
          /\ pc' = [pc EXCEPT ![u] = "ended"]
          /\ missed'[i] = IF owner[u] = i /\ ~canceled[u] /\ docker[of[u]] = "running"
                            THEN missed[i] \cup {of[u]} ELSE missed[i]
        BY <1>5 DEF Breaks
    <2>2. Known(i, c)
        BY <1>1, <2>1 DEF Subscribed
    <2>3. CASE owner[u] = i /\ ~canceled[u] /\ of[u] = c
        BY <2>1, <2>3 DEF Known
    <2>4. CASE ~(owner[u] = i /\ ~canceled[u] /\ of[u] = c)
        <3>1. ASSUME Followed(i, c) PROVE Followed(i, c)'
            BY <1>0, <2>1, <2>4, <3>1 DEF Followed, TypeOK
        <3> QED
            BY <2>1, <2>2, <3>1 DEF Known, Announced
    <2> QED
        BY <2>3, <2>4
<1>6. ASSUME NEW u \in Streams, Ends(u) PROVE Known(i, c)'
    <2>1. /\ UNCHANGED <<docker, serviceSubs, instVars, of, owner, canceled>>
          /\ pc' = [pc EXCEPT ![u] = "ended"]
          /\ \/ canceled[u]
             \/ pc[u] = "draining"
             \/ pc[u] = "opening" /\ docker[of[u]] = "removed"
        BY <1>6 DEF Ends
    <2>2. Known(i, c)
        BY <1>1, <2>1 DEF Subscribed
    <2>3. ASSUME NEW t \in Streams, of[t] = c, pc[t] \in {"opening", "following"},
                 ~canceled[t]
          PROVE  pc'[t] = pc[t]
        BY <1>0, <2>1, <2>3 DEF TypeOK
    <2> QED
        BY <2>1, <2>2, <2>3 DEF Known, Followed, Announced
<1>7. ASSUME NEW d \in Containers, Subscribe(d) PROVE Known(i, c)'
    <2>1. UNCHANGED <<docker, serviceSubs, svc, watcher, feed, missed>>
        BY <1>0, <1>7, SubscribeEffect
    <2>2. PICK s \in Streams : Begins(s, d, None) /\ \A t \in Streams \ {s} : Same(t)
        BY <1>0, <1>7, SubscribeEffect
    <2>3. Known(i, c)
        BY <1>1, <2>1 DEF Subscribed
    <2>4. ASSUME Followed(i, c) PROVE Followed(i, c)'
        <3>1. PICK t \in Streams : /\ owner[t] = i /\ of[t] = c
                                   /\ pc[t] \in {"opening", "following"}
                                   /\ ~canceled[t]
            BY <2>4 DEF Followed
        <3>2. Same(t)
            BY <2>2, <3>1 DEF Begins, FreeStream, Alive
        <3> QED
            BY <3>1, <3>2 DEF Followed, Same
    <2> QED
        BY <2>1, <2>3, <2>4 DEF Known, Announced
<1>8. ASSUME NEW d \in Containers, Unsubscribe(d) PROVE Known(i, c)'
    <2>1. /\ UNCHANGED <<docker, serviceSubs, svc, watcher, feed, missed,
                         pc, of, owner>>
          /\ canceled' = [t \in Streams |-> canceled[t] \/ t \in {subs[d]}]
          /\ owner[subs[d]] = None
        BY <1>0, <1>8 DEF Unsubscribe, Cancel, Tables
    <2>2. \A t \in Streams : owner[t] = i => Same(t)
        BY <1>0, <2>1 DEF Same, TypeOK
    <2> QED
        BY <1>3, <2>1, <2>2
<1>9. ASSUME NEW d \in Containers, ContainerStarts(d) PROVE Known(i, c)'
    <2>1. /\ docker' = [docker EXCEPT ![d] = "running"] /\ Tell(d, "start")
          /\ missed'[i] = IF svc[i] = ServiceOf[d] /\ watcher[i] \in {"dialing", "backoff"}
                            THEN missed[i] \cup {d} ELSE missed[i]
          /\ UNCHANGED <<serviceSubs, svc, stopped, watcher, streamVars>>
        BY <1>9 DEF ContainerStarts
    <2>2. Subscribed(i)
        BY <2>1 DEF Subscribed
    <2> DEFINE e == [action |-> "start", container |-> d]
    <2>3. feed'[i] = IF watcher[i] = "watching" /\ svc[i] = ServiceOf[d]
                       THEN Append(feed[i], e) ELSE feed[i]
        BY <2>1 DEF Tell, Filtered
    <2>4. feed[i] \in Seq(Events) /\ e \in Events
        BY <1>0 DEF TypeOK, Events
    <2>5. CASE c = d
        <3>1. watcher[i] \in {"dialing", "watching", "backoff"}
            BY <1>0, <2>2, SubscribedRuns
        <3>2. CASE watcher[i] = "watching"
            <4>1. feed'[i] = Append(feed[i], e)
                BY <2>1, <2>3, <2>5, <3>2
            <4>2. /\ Len(feed'[i]) \in Nat /\ Len(feed'[i]) = Len(feed[i]) + 1
                  /\ Len(feed[i]) \in Nat /\ feed'[i][Len(feed'[i])] = e
                BY <2>4, <4>1, AppendProperties
            <4> QED
                BY <2>5, <4>2 DEF Known, Announced
        <3>3. CASE watcher[i] # "watching"
            BY <2>1, <2>5, <3>1, <3>3 DEF Known
        <3> QED
            BY <3>2, <3>3
    <2>6. CASE c # d
        <3>1. Known(i, c)
            BY <1>0, <1>1, <2>1, <2>2, <2>6 DEF TypeOK
        <3>2. ASSUME Announced(i, c) PROVE Announced(i, c)'
            <4>1. PICK n \in 1 .. Len(feed[i]) :
                      feed[i][n] = [action |-> "start", container |-> c]
                BY <3>2 DEF Announced
            <4>2. n \in 1 .. Len(feed'[i]) /\ feed'[i][n] = feed[i][n]
                BY <2>3, <2>4, <4>1, AppendProperties
            <4> QED
                BY <4>1, <4>2 DEF Announced
        <3> QED
            BY <2>1, <3>1, <3>2 DEF Known, Followed
    <2> QED
        BY <2>5, <2>6
<1>10. ASSUME NEW d \in Containers, ContainerDies(d) PROVE Known(i, c)'
    <2>1. /\ docker' = [docker EXCEPT ![d] = "exited"] /\ Tell(d, "die")
          /\ missed'[i] = missed[i] \ {d}
          /\ pc' = [t \in Streams |->
                IF of[t] = d /\ pc[t] = "following" THEN "draining" ELSE pc[t]]
          /\ UNCHANGED <<serviceSubs, svc, watcher, of, owner, canceled>>
        BY <1>10 DEF ContainerDies
    <2>2. c # d /\ docker[c] = "running"
        BY <1>0, <2>1 DEF TypeOK
    <2>3. Known(i, c)
        BY <1>1, <2>1, <2>2 DEF Subscribed
    <2>4. ASSUME Followed(i, c) PROVE Followed(i, c)'
        BY <2>1, <2>2, <2>4 DEF Followed
    <2>5. ASSUME Announced(i, c) PROVE Announced(i, c)'
        <3> DEFINE e == [action |-> "die", container |-> d]
        <3>1. feed'[i] = IF watcher[i] = "watching" /\ svc[i] = ServiceOf[d]
                           THEN Append(feed[i], e) ELSE feed[i]
            BY <2>1 DEF Tell, Filtered
        <3>2. feed[i] \in Seq(Events) /\ e \in Events
            BY <1>0 DEF TypeOK, Events
        <3>3. PICK n \in 1 .. Len(feed[i]) :
                  feed[i][n] = [action |-> "start", container |-> c]
            BY <2>5 DEF Announced
        <3>4. n \in 1 .. Len(feed'[i]) /\ feed'[i][n] = feed[i][n]
            BY <3>1, <3>2, <3>3, AppendProperties
        <3> QED
            BY <3>3, <3>4 DEF Announced
    <2> QED
        BY <2>1, <2>2, <2>3, <2>4, <2>5 DEF Known
<1>11. ASSUME NEW d \in Containers, ContainerRemoved(d) PROVE Known(i, c)'
    <2>1. /\ UNCHANGED <<serviceSubs, instVars, streamVars>>
          /\ docker[c] = "running"
        BY <1>0, <1>11 DEF ContainerRemoved, TypeOK
    <2> QED
        BY <1>1, <1>2, <2>1 DEF Subscribed, Same
<1>12. ASSUME NEW v \in Services, SubscribeService(v) PROVE Known(i, c)'
    <2>1. PICK j \in Insts :
              /\ FreeInst(j)
              /\ serviceSubs' = [serviceSubs EXCEPT ![v] = j]
              /\ svc' = [svc EXCEPT ![j] = v]
              /\ watcher' = [watcher EXCEPT ![j] = "none"]
              /\ feed' = [feed EXCEPT ![j] = <<>>]
              /\ missed' = [missed EXCEPT ![j] = {}]
        BY <1>12 DEF SubscribeService
    <2>2. UNCHANGED <<docker, streamVars>>
        BY <1>12 DEF SubscribeService
    <2>3. i # j
        BY <1>0, <2>1 DEF Subscribed, TypeOK
    <2>4. /\ svc'[i] = svc[i] /\ watcher'[i] = watcher[i]
          /\ feed'[i] = feed[i] /\ missed'[i] = missed[i]
        BY <1>0, <2>1, <2>3 DEF TypeOK
    <2>5. Subscribed(i)
        BY <1>0, <2>1, <2>3, <2>4 DEF Subscribed, TypeOK
    <2> QED
        BY <1>1, <1>2, <2>2, <2>4, <2>5 DEF Same
<1>13. ASSUME NEW cs \in SUBSET Containers, NEW is \in SUBSET Insts, Drop(cs, is)
       PROVE  Known(i, c)'
    <2>1. /\ UNCHANGED <<docker, svc, watcher, feed, missed, pc, of, owner>>
          /\ serviceSubs' = [v \in Services |->
                IF serviceSubs[v] \in is THEN None ELSE serviceSubs[v]]
        BY <1>13 DEF Drop, Cancel
    <2>2. svc[i] \in Services
        BY <1>0 DEF TypeOK
    <2>3. Subscribed(i) /\ i \notin is
        BY <2>1, <2>2 DEF Subscribed
    <2>4. \A t \in Streams : owner[t] = i => Same(t)
        BY <1>0, <1>13, <2>1, <2>3, DropOthers DEF Same
    <2> QED
        BY <1>1, <1>2, <2>1, <2>3, <2>4
<1>14. ASSUME NEW v \in Services, UnsubscribeService(v) PROVE Known(i, c)'
    <2>1. Drop({}, {serviceSubs[v]}) /\ serviceSubs[v] \in Insts
        BY <1>0, <1>14 DEF UnsubscribeService, TypeOK
    <2> QED
        BY <1>13, <2>1
<1>15. CASE Disconnect
    <2>1. /\ Drop({d \in Containers : subs[d] # None},
                  {serviceSubs[w] : w \in Services} \ {None})
          /\ {serviceSubs[w] : w \in Services} \ {None} \in SUBSET Insts
        BY <1>0, <1>15 DEF Disconnect, TypeOK
    <2> QED
        BY <1>13, <2>1
<1>16. ASSUME NEW j \in Insts, NEW l \in SUBSET Containers, Started(j, l)
       PROVE  Known(i, c)'
    <2>1. /\ UNCHANGED <<docker, subs, serviceSubs, svc, stopped, feed>>
          /\ watcher' = [watcher EXCEPT ![j] = "dialing"]
          /\ missed' = [missed EXCEPT ![j] = Running(svc[j]) \ l]
        BY <1>16 DEF Started
    <2>2. PICK by \in [l -> Streams] :
              /\ \A d \in l : Begins(by[d], d, j)
              /\ \A t \in Streams : (\A d \in l : by[d] # t) => Same(t)
        BY <1>0, <1>16, StartedEffect
    <2>3. CASE i = j /\ c \in l
        <3>1. Begins(by[c], c, i) /\ by[c] \in Streams
            BY <2>2, <2>3
        <3>2. ~stopped[i]
            BY <1>0, <2>1, <2>3 DEF Subscribed, Objects, TypeOK
        <3> QED
            BY <3>1, <3>2 DEF Begins, Inherited, Known, Followed
    <2>4. CASE i = j /\ c \notin l
        <3>1. missed'[i] = Running(svc[i]) \ l
            BY <1>0, <2>1, <2>4 DEF TypeOK
        <3> QED
            BY <2>1, <2>4, <3>1 DEF Known, Running
    <2>5. CASE i # j
        <3>1. watcher'[i] = watcher[i] /\ missed'[i] = missed[i]
            BY <1>0, <2>1, <2>5 DEF TypeOK
        <3>2. Known(i, c)
            BY <1>1, <2>1, <3>1 DEF Subscribed
        <3>3. ASSUME NEW t \in Streams, Alive(t) PROVE Same(t)
            BY <2>2, <3>3 DEF Begins, FreeStream
        <3>4. Followed(i, c) => Followed(i, c)'
            BY <3>3 DEF Followed, Same, Alive
        <3> QED
            BY <2>1, <3>1, <3>2, <3>4 DEF Known, Announced
    <2> QED
        BY <2>3, <2>4, <2>5
<1>17. ASSUME NEW j \in Insts, Listed(j) \/ ListFails(j) PROVE Known(i, c)'
    BY <1>16, <1>17 DEF Listed, ListFails, Running
<1>18. ASSUME NEW j \in Insts, Connects(j) \/ Retries(j) PROVE Known(i, c)'
    <2>1. /\ UNCHANGED <<docker, serviceSubs, svc, feed, missed, streamVars>>
          /\ \A k \in Insts : watcher[k] = "none" => watcher'[k] = "none"
        BY <1>0, <1>18 DEF Connects, Retries, TypeOK
    <2> QED
        BY <1>1, <1>2, <2>1 DEF Subscribed, Same
<1>19. ASSUME NEW j \in Insts, FeedFails(j) PROVE Known(i, c)'
    <2>1. /\ UNCHANGED <<docker, serviceSubs, svc, streamVars>>
          /\ \A k \in Insts : watcher[k] = "none" => watcher'[k] = "none"
          /\ \A k \in Insts \ {j} : feed'[k] = feed[k] /\ missed'[k] = missed[k]
          /\ missed'[j] = missed[j] \cup {d \in Running(svc[j]) : Announced(j, d)}
        BY <1>0, <1>19 DEF FeedFails, Announced, TypeOK
    <2>2. Known(i, c)
        BY <1>1, <2>1 DEF Subscribed
    <2>3. CASE i = j
        <3>1. c \in Running(svc[j])
            BY <2>1, <2>3 DEF Running
        <3>2. Announced(i, c) \/ c \in missed[i] => c \in missed'[i]
            BY <2>1, <2>3, <3>1
        <3>3. Followed(i, c) => Followed(i, c)'
            BY <2>1 DEF Followed
        <3> QED
            BY <2>2, <3>2, <3>3 DEF Known
    <2>4. CASE i # j
        BY <1>2, <2>1, <2>2, <2>4 DEF Same
    <2> QED
        BY <2>3, <2>4
<1>20. ASSUME NEW j \in Insts, WatcherStops(j) PROVE Known(i, c)'
    <2>1. /\ UNCHANGED <<docker, serviceSubs, svc, stopped, missed, streamVars>>
          /\ watcher' = [watcher EXCEPT ![j] = "done"]
          /\ feed' = [feed EXCEPT ![j] = <<>>]
          /\ stopped[j] /\ watcher[j] # "none"
        BY <1>20 DEF WatcherStops, Watching
    <2>2. Subscribed(i)
        BY <1>0, <2>1 DEF Subscribed, TypeOK
    <2>3. i # j
        BY <1>0, <2>1, <2>2, SubscribedRuns
    <2>4. feed'[i] = feed[i]
        BY <1>0, <2>1, <2>3 DEF TypeOK
    <2> QED
        BY <1>1, <1>2, <2>1, <2>2, <2>4 DEF Same
\* An event is handled: a start that is under way stays so unless it is it.
<1>21. ASSUME NEW j \in Insts, NEW a, TakeEvent(j, a), NEW n \in 1 .. Len(feed[i]),
              feed[i][n] = [action |-> "start", container |-> c],
              i = j => n > 1
       PROVE  Announced(i, c)'
    <2>1. feed[i] \in Seq(Events) /\ feed[j] # <<>>
        BY <1>0, <1>21 DEF TakeEvent, TypeOK
    <2>2. CASE i = j
        <3>1. feed'[i] = Tail(feed[i])
            BY <1>0, <1>21, <2>2 DEF TakeEvent, TypeOK
        <3>2. n - 1 \in 1 .. Len(feed'[i]) /\ feed'[i][n - 1] = feed[i][n]
            BY <1>21, <2>1, <2>2, <3>1
        <3> QED
            BY <1>21, <3>2 DEF Announced
    <2>3. CASE i # j
        <3>1. feed'[i] = feed[i]
            BY <1>0, <1>21, <2>3 DEF TakeEvent, TypeOK
        <3> QED
            BY <1>21, <3>1 DEF Announced
    <2> QED
        BY <2>2, <2>3
<1>22. ASSUME NEW j \in Insts, HandleStart(j) PROVE Known(i, c)'
    <2>1. PICK d \in Containers : d = Head(feed[j]).container
        BY <1>0, <1>22, TakeType DEF HandleStart
    <2>2. /\ UNCHANGED <<docker, serviceSubs, svc, stopped, watcher, missed>>
          /\ TakeEvent(j, "start")
        BY <1>22 DEF HandleStart
    <2>3. PICK s \in Streams : Begins(s, d, j) /\ \A t \in Streams \ {s} : Same(t)
        BY <1>0, <1>22, <2>1, HandleStartEffect
    <2>4. Subscribed(i) /\ ~stopped[i] /\ Known(i, c)
        BY <1>0, <1>1, <2>2, SubscribedRuns DEF Subscribed
    <2>5. CASE i = j /\ c = d
        BY <2>3, <2>4, <2>5 DEF Begins, Inherited, Known, Followed
    <2>6. CASE ~(i = j /\ c = d)
        <3>1. ASSUME Followed(i, c) PROVE Followed(i, c)'
            <4>1. PICK t \in Streams : /\ owner[t] = i /\ of[t] = c
                                       /\ pc[t] \in {"opening", "following"}
                                       /\ ~canceled[t]
                BY <3>1 DEF Followed
            <4>2. Same(t)
                BY <2>3, <4>1 DEF Begins, FreeStream, Alive
            <4> QED
                BY <4>1, <4>2 DEF Followed, Same
        <3>2. ASSUME Announced(i, c) PROVE Announced(i, c)'
            <4>1. PICK n \in 1 .. Len(feed[i]) :
                      feed[i][n] = [action |-> "start", container |-> c]
                BY <3>2 DEF Announced
            <4>2. feed[i] \in Seq(Events)
                BY <1>0 DEF TypeOK
            <4>3. i = j => n > 1
                BY <2>1, <2>6, <4>1, <4>2
            <4> QED
                BY <1>21, <2>2, <4>1, <4>3
        <3> QED
            BY <2>2, <2>4, <3>1, <3>2 DEF Known
    <2> QED
        BY <2>5, <2>6
<1>23. ASSUME NEW j \in Insts, IgnoreStart(j) PROVE Known(i, c)'
    <2>1. PICK d \in Containers : d = Head(feed[j]).container
        BY <1>0, <1>23, TakeType DEF IgnoreStart
    <2>2. /\ UNCHANGED <<docker, serviceSubs, svc, stopped, watcher, streamVars>>
          /\ TakeEvent(j, "start") /\ entries[j][d] # None
          /\ missed' = [missed EXCEPT ![j] =
                IF docker[d] = "running" /\ pc[entries[j][d]] # "following"
                  THEN @ \cup {d} ELSE @]
        BY <1>23, <2>1 DEF IgnoreStart, AlreadyStreaming
    <2>3. Subscribed(i) /\ ~stopped[i] /\ Known(i, c)
        BY <1>0, <1>1, <2>2, SubscribedRuns DEF Subscribed
    <2>4. missed[i] \subseteq missed'[i]
        BY <1>0, <2>2 DEF TypeOK
    <2>5. CASE i = j /\ c = d
        <3>1. CASE pc[entries[i][c]] # "following"
            BY <1>0, <2>2, <2>5, <3>1 DEF Known, TypeOK
        <3>2. CASE pc[entries[i][c]] = "following"
            <4>1. /\ entries[i][c] \in Streams /\ owner[entries[i][c]] = i
                  /\ of[entries[i][c]] = c /\ ~canceled[entries[i][c]]
                BY <1>0, <2>2, <2>3, <2>5 DEF Tables, TypeOK
            <4> QED
                BY <2>2, <3>2, <4>1 DEF Known, Followed
        <3> QED
            BY <3>1, <3>2
    <2>6. CASE ~(i = j /\ c = d)
        <3>1. ASSUME Announced(i, c) PROVE Announced(i, c)'
            <4>1. PICK n \in 1 .. Len(feed[i]) :
                      feed[i][n] = [action |-> "start", container |-> c]
                BY <3>1 DEF Announced
            <4>2. feed[i] \in Seq(Events)
                BY <1>0 DEF TypeOK
            <4>3. i = j => n > 1
                BY <2>1, <2>6, <4>1, <4>2
            <4> QED
                BY <1>21, <2>2, <4>1, <4>3
        <3> QED
            BY <2>2, <2>3, <2>4, <3>1 DEF Known, Followed
    <2> QED
        BY <2>5, <2>6
<1>24. ASSUME NEW j \in Insts, HandleDie(j) PROVE Known(i, c)'
    <2>1. PICK d \in Containers : d = Head(feed[j]).container
        BY <1>0, <1>24, TakeType DEF HandleDie
    <2>2. /\ UNCHANGED <<docker, serviceSubs, svc, stopped, watcher, missed, pc,
                         of, owner>>
          /\ \A t \in Streams : canceled'[t] = (canceled[t] \/ t = entries[j][d])
          /\ TakeEvent(j, "die")
        <3>1. TakeEvent(j, "die")
            BY <1>24 DEF HandleDie
        <3> QED
            BY <1>0, <1>24, <2>1, <3>1, HandleDieEffect
    <2>3. Subscribed(i) /\ Known(i, c)
        BY <1>1, <2>2 DEF Subscribed
    <2>4. feed[i] \in Seq(Events)
        BY <1>0 DEF TypeOK
    <2>5. ASSUME Announced(i, c) PROVE Announced(i, c)'
        <3>1. PICK n \in 1 .. Len(feed[i]) :
                  feed[i][n] = [action |-> "start", container |-> c]
            BY <2>5 DEF Announced
        <3>2. i = j => n > 1
            <4>1. i = j => feed[i][1].action = "die"
                BY <2>2, <2>4 DEF TakeEvent
            <4>2. feed[i][n].action = "start"
                BY <3>1
            <4> QED
                BY <2>4, <4>1, <4>2
        <3> QED
            BY <1>21, <2>2, <3>1, <3>2
    <2>6. CASE i = j /\ c = d
        \* It runs again: its new start is behind its end in the feed.
        <3>1. /\ 1 \in 1 .. Len(feed[i]) /\ feed[i][1].action = "die"
              /\ feed[i][1].container = c
            BY <2>1, <2>2, <2>4, <2>6 DEF TakeEvent
        <3>2. docker[c] = "running"
            BY <2>2
        <3>3. PICK m \in 2 .. Len(feed[i]) :
                  feed[i][m] = [action |-> "start", container |-> c]
            BY <1>0, <3>1, <3>2 DEF Feeds, FeedInOrder
        <3>4. m \in 1 .. Len(feed[i]) /\ m > 1
            BY <3>3
        <3> QED
            BY <1>21, <2>2, <3>3, <3>4 DEF Known
    <2>7. CASE ~(i = j /\ c = d)
        <3>1. ASSUME Followed(i, c) PROVE Followed(i, c)'
            <4>1. PICK t \in Streams : /\ owner[t] = i /\ of[t] = c
                                       /\ pc[t] \in {"opening", "following"}
                                       /\ ~canceled[t]
                BY <3>1 DEF Followed
            <4>2. t # entries[j][d]
                BY <1>0, <2>7, <4>1 DEF Tables, TypeOK
            <4> QED
                BY <2>2, <4>1, <4>2 DEF Followed
        <3> QED
            BY <2>2, <2>3, <2>5, <3>1 DEF Known
    <2> QED
        BY <2>6, <2>7
<1>25. CASE UNCHANGED vars
    BY <1>3, <1>25 DEF vars, Same
<1> QED
    BY <1>4, <1>5, <1>6, <1>7, <1>8, <1>9, <1>10, <1>11, <1>12, <1>14, <1>15,
       <1>17, <1>18, <1>19, <1>20, <1>22, <1>23, <1>24, <1>25
    DEF Next

LEMMA NextIInv == IInv /\ [Next]_vars => IInv'
BY NextTypeOK, NextTables, NextObjects, NextFeeds, NextReachable, NextClosed,
   NextStreamed DEF IInv

(* The inductive invariant, of all that one connection keeps.               *)
THEOREM Inductive == Spec => []IInv
BY InitIInv, NextIInv, PTL DEF Spec

(* Reachable, of the tables through which Stop and CloseAll cancel: no stream*)
(* goes on that they cannot reach, in every reachable state.                *)
THEOREM AllReachable == Spec => []Reachable
<1>1. IInv => Reachable
    BY DEF IInv
<1> QED
    BY <1>1, Inductive, PTL

(* ClosedCancelsAll, of CloseAll: whatever a watcher starts after it is     *)
(* cancelled before it begins.                                              *)
THEOREM CloseCancels == Spec => []ClosedCancelsAll
<1>1. IInv => ClosedCancelsAll
    BY DEF IInv
<1> QED
    BY <1>1, Inductive, PTL

(* StreamedOrMissed, of Start and watchEvents: the gaps recorded in `missed`*)
(* are the only ones through which a running container is not streamed.     *)
THEOREM NoOtherGap == Spec => []StreamedOrMissed
<1>1. IInv => StreamedOrMissed
    BY DEF IInv
<1> QED
    BY <1>1, Inductive, PTL

(* What Subscribe and startContainerStream look a container up in their     *)
(* tables for: two goroutines of one subscription, or of the connection     *)
(* itself, that were not told to end never follow one container.            *)
OneStreamEach ==
    \A t, u \in Streams :
        /\ Alive(t) /\ ~canceled[t] /\ Alive(u) /\ ~canceled[u]
        /\ owner[t] = owner[u] /\ of[t] = of[u]
        => t = u

(* OneStreamEach, of the lookup and of every order in which list results,   *)
(* start events, Stop and CloseAll add streams and cancel them.             *)
THEOREM NoneFollowedTwice == Spec => []OneStreamEach
<1>1. Reachable => OneStreamEach
    BY DEF Reachable, OneStreamEach
<1> QED
    BY <1>1, AllReachable, PTL
===============================================================================
