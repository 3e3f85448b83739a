------------------------ MODULE LogStreamerProxyProofs ------------------------
(* Theorems about LogStreamerProxy, for every value of its constants.        *)
EXTENDS LogStreamerProxy, FiniteSetTheorems, SequenceTheorems, TLAPS

LEMMA AnswersAreHosts ==
    ASSUME NEW t \in SUBSET TaskHosts
    PROVE  Answers(t) \subseteq SUBSET Hosts
BY DEF Answers, Hosts

LEMMA InitTypeOK == Init => TypeOK
<1> SUFFICES ASSUME Init PROVE TypeOK
    OBVIOUS
<1>1. lookup \in [Lookups -> SUBSET Hosts]
    <2>1. PICK a \in Answers(tasks) :
             lookup = [l \in Lookups |-> IF l = BootLookup THEN a ELSE {}]
        BY DEF Init
    <2>2. a \in SUBSET Hosts
        BY AnswersAreHosts DEF Init
    <2> QED
        BY <2>1, <2>2
<1>2. wire \in [Conns -> [Keys -> Seq(Message)]]
    BY DEF Init, Quiet
<1> QED
    BY <1>1, <1>2 DEF Init, TypeOK

LEMMA RewireType ==
    ASSUME TypeOK, NEW gone \in SUBSET Conns, NEW new \in SUBSET Conns,
           NEW failing \in SUBSET new, Rewire(gone, new, failing)
    PROVE  /\ ws' \in [Conns -> {"none", "connecting", "open", "closing"}]
           /\ reconnectTimeout' \in [Conns -> BOOLEAN]
<1>1. \A c \in Conns : ws'[c] \in {"none", "connecting", "open", "closing"}
    BY DEF Rewire, TypeOK, ClosedWs
<1>2. ws' \in [Conns -> {"none", "connecting", "open", "closing"}]
    BY <1>1 DEF Rewire
<1>3. reconnectTimeout' \in [Conns -> BOOLEAN]
    BY DEF Rewire, Timers, TypeOK
<1> QED
    BY <1>2, <1>3

LEMMA BroadcastType ==
    ASSUME TypeOK, NEW k \in Keys, NEW m \in Message, Broadcast(k, m)
    PROVE  wire' \in [Conns -> [Keys -> Seq(Message)]]
BY DEF Broadcast, TypeOK

LEMMA NextTypeOK == TypeOK /\ [Next]_vars => TypeOK'
<1> SUFFICES ASSUME TypeOK, [Next]_vars PROVE TypeOK'
    OBVIOUS
<1> USE DEF netVars, dnsVars, subVars
<1>1. CASE TasksChange
    BY <1>1 DEF TasksChange, TypeOK
<1>2. ASSUME NEW a \in SUBSET Hosts, DnsRefresh(a) PROVE TypeOK'
    BY <1>2 DEF DnsRefresh, TypeOK
<1>3. ASSUME NEW l \in Lookups, Reconcile(l) PROVE TypeOK'
    <2> DEFINE gone == {c \in Conns : Mapped(c) /\ c[1] \notin lookup[l]}
               added == lookup[l] \ {h \in Hosts : connections[h] # NoSlot}
    <2>1. PICK slot \in [added -> Slots] :
             LET new == {<<h, slot[h]>> : h \in added}
             IN  /\ \E failing \in SUBSET new : Rewire(gone, new, failing)
                 /\ connections' = [h \in Hosts |->
                        CASE h \in added        -> slot[h]
                          [] h \notin lookup[l] -> NoSlot
                          [] OTHER              -> connections[h]]
        BY <1>3 DEF Reconcile
    <2> DEFINE new == {<<h, slot[h]>> : h \in added}
    <2>2. new \in SUBSET Conns
        BY DEF TypeOK, Conns
    <2>3. PICK failing \in SUBSET new : Rewire(gone, new, failing)
        BY <2>1
    <2>4. /\ ws' \in [Conns -> {"none", "connecting", "open", "closing"}]
          /\ reconnectTimeout' \in [Conns -> BOOLEAN]
        BY <2>2, <2>3, RewireType
    <2>5. connections' \in [Hosts -> Slots \cup {NoSlot}]
        BY <2>1 DEF TypeOK
    <2> QED
        BY <1>3, <2>4, <2>5 DEF Reconcile, TypeOK
<1>4. CASE OnModuleDestroy
    <2>1. /\ ws' \in [Conns -> {"none", "connecting", "open", "closing"}]
          /\ reconnectTimeout' \in [Conns -> BOOLEAN]
        <3> DEFINE gone == {c \in Conns : Mapped(c)}
        <3>1. Rewire(gone, {}, {})
            BY <1>4 DEF OnModuleDestroy
        <3>2. gone \in SUBSET Conns /\ {} \in SUBSET Conns /\ {} \in SUBSET {}
            OBVIOUS
        <3> HIDE DEF gone
        <3> QED
            BY <3>1, <3>2, RewireType
    <2> QED
        BY <1>4, <2>1 DEF OnModuleDestroy, TypeOK
<1>5. ASSUME NEW c \in Conns, Open(c) PROVE TypeOK'
    <2>1. Resubscribed \in [Keys -> Seq(Message)]
        <3>1. <<"subscribe">> \in Seq(Message) /\ <<>> \in Seq(Message)
            BY DEF Message
        <3> QED
            BY <3>1 DEF Resubscribed
    <2> QED
        BY <1>5, <2>1 DEF Open, TypeOK
<1>6. ASSUME NEW c \in Conns, PeerCloses(c) PROVE TypeOK'
    BY <1>6 DEF PeerCloses, TypeOK
<1>7. ASSUME NEW c \in Conns, Close(c) PROVE TypeOK'
    BY <1>7 DEF Close, TypeOK, Reset, Quiet, ReconnectDue
<1>8. ASSUME NEW c \in Conns, Reconnect(c) PROVE TypeOK'
    <2>1. PICK failing \in SUBSET {c} : Rewire({}, {c}, failing)
        BY <1>8 DEF Reconnect
    <2>2. /\ ws' \in [Conns -> {"none", "connecting", "open", "closing"}]
          /\ reconnectTimeout' \in [Conns -> BOOLEAN]
        BY <2>1, RewireType
    <2> QED
        BY <1>8, <2>2 DEF Reconnect, TypeOK
<1>9. ASSUME NEW c \in Conns, NEW k \in Keys, Read(c, k) PROVE TypeOK'
    BY <1>9 DEF Read, TypeOK
<1>10. ASSUME NEW s \in Subs, NEW k \in Keys, Subscribe(s, k) PROVE TypeOK'
    BY <1>10 DEF Subscribe, TypeOK
<1>11. ASSUME NEW s \in Subs, SubscribeRejected(s) PROVE TypeOK'
    BY <1>11 DEF SubscribeRejected, TypeOK
<1>12. ASSUME NEW s \in Subs, Subscribed(s) PROVE TypeOK'
    <2> DEFINE k == sub[s].key
    <2>1. k \in Keys /\ sub[s].pc \in {"idle", "subscribing", "active"}
        BY <1>12 DEF Subscribed, TypeOK
    <2>2. wire' \in [Conns -> [Keys -> Seq(Message)]]
        BY <1>12, <2>1, BroadcastType DEF Subscribed, TypeOK, Message
    <2>3. subCount' \in [Keys -> Nat]
        BY <1>12, <2>1 DEF Subscribed, TypeOK
    <2>4. sub' \in [Subs -> [pc : {"idle"}, key : {NoKey}]
                         \cup [pc : {"subscribing", "active"}, key : Keys]]
        BY <1>12, <2>1 DEF Subscribed, TypeOK
    <2> QED
        BY <1>12, <2>2, <2>3, <2>4 DEF Subscribed, TypeOK
<1>13. ASSUME NEW s \in Subs, Return(s) PROVE TypeOK'
    <2> DEFINE k == sub[s].key
    <2>1. k \in Keys /\ sub[s].pc \in {"idle", "subscribing", "active"}
        BY <1>13 DEF Return, TypeOK
    <2>2. wire' \in [Conns -> [Keys -> Seq(Message)]]
        BY <1>13, <2>1, BroadcastType DEF Return, TypeOK, Message
    <2>3. subCount' \in [Keys -> Nat]
        BY <1>13, <2>1 DEF Return, TypeOK, Released
    <2>4. sub' \in [Subs -> [pc : {"idle"}, key : {NoKey}]
                         \cup [pc : {"subscribing", "active"}, key : Keys]]
        BY <1>13, <2>1 DEF Return, TypeOK
    <2> QED
        BY <1>13, <2>2, <2>3, <2>4 DEF Return, TypeOK
<1>14. CASE UNCHANGED vars
    BY <1>14 DEF vars, TypeOK
<1> QED
    BY <1>1, <1>2, <1>3, <1>4, <1>5, <1>6, <1>7, <1>8, <1>9, <1>10, <1>11,
       <1>12, <1>13, <1>14 DEF Next

(* TypeOK, of LogStreamerProxyService's maps, sockets and timers, holds in   *)
(* every reachable state.                                                    *)
THEOREM TypeCorrect == Spec => []TypeOK
BY InitTypeOK, NextTypeOK, PTL DEF Spec

-----------------------------------------------------------------------------
(* What one reconciliation, and one shutdown, do to one connection object.   *)
Kept(c) ==
    /\ connections'[c[1]] = connections[c[1]]
    /\ ws'[c] = ws[c]
    /\ reconnectTimeout'[c] = reconnectTimeout[c]

Sibling(c) ==
    /\ connections[c[1]] = NoSlot
    /\ SlowClose \/ ws[c] = "none"
    /\ ~Mapped(c)'
    /\ ws'[c] = ws[c]
    /\ reconnectTimeout'[c] = reconnectTimeout[c]

Dropped(c) ==
    /\ connections'[c[1]] = NoSlot
    /\ IF Mapped(c)
         THEN ws'[c] = ClosedWs(c) /\ ~reconnectTimeout'[c]
         ELSE ws'[c] = ws[c] /\ reconnectTimeout'[c] = reconnectTimeout[c]

Added(c) ==
    /\ Free(c)
    /\ connections[c[1]] = NoSlot
    /\ Mapped(c)'
    /\ \/ isShuttingDown /\ ws'[c] = "none" /\ ~reconnectTimeout'[c]
       \/ ~isShuttingDown /\ ws'[c] = "connecting" /\ ~reconnectTimeout'[c]
       \/ ~isShuttingDown /\ ws'[c] = "none" /\ reconnectTimeout'[c]

LEMMA RewireEffect ==
    ASSUME TypeOK, NEW gone \in SUBSET Conns, NEW new \in SUBSET Conns,
           gone \cap new = {}, NEW failing \in SUBSET new,
           Rewire(gone, new, failing), NEW c \in Conns
    PROVE  /\ c \in gone => ws'[c] = ClosedWs(c) /\ ~reconnectTimeout'[c]
           /\ c \notin gone \cup new =>
                 ws'[c] = ws[c] /\ reconnectTimeout'[c] = reconnectTimeout[c]
           /\ c \in new =>
                 \/ isShuttingDown /\ ws'[c] = ws[c] /\ ~reconnectTimeout'[c]
                 \/ ~isShuttingDown /\ ws'[c] = "connecting" /\ ~reconnectTimeout'[c]
                 \/ ~isShuttingDown /\ ws'[c] = ws[c] /\ reconnectTimeout'[c]
<1>1. ws'[c] = CASE c \in gone                  -> ClosedWs(c)
                 [] c \in Dialled(new, failing) -> "connecting"
                 [] OTHER                       -> ws[c]
    BY DEF Rewire
<1>2. reconnectTimeout'[c] = (\/ reconnectTimeout[c] /\ c \notin gone \cup new
                              \/ c \in Retried(new, failing))
    BY DEF Rewire, Timers
<1>3. reconnectTimeout[c] \in BOOLEAN
    BY DEF TypeOK
<1>4. CASE c \in gone
    BY <1>1, <1>2, <1>4 DEF Retried, Dialled
<1>5. CASE c \in new
    <2>1. CASE isShuttingDown
        BY <1>1, <1>2, <1>5, <2>1 DEF Retried, Dialled
    <2>2. CASE ~isShuttingDown /\ c \in failing
        BY <1>1, <1>2, <1>5, <2>2 DEF Retried, Dialled
    <2>3. CASE ~isShuttingDown /\ c \notin failing
        BY <1>1, <1>2, <1>5, <2>3 DEF Retried, Dialled
    <2> QED
        BY <2>1, <2>2, <2>3
<1>6. CASE c \notin gone \cup new
    BY <1>1, <1>2, <1>3, <1>6 DEF Retried, Dialled
<1> QED
    BY <1>4, <1>5, <1>6

LEMMA ReconcileEffect ==
    ASSUME TypeOK, NEW l \in Lookups, Reconcile(l), NEW c \in Conns
    PROVE  Kept(c) \/ Sibling(c) \/ Dropped(c) \/ Added(c)
<1> DEFINE current == {h \in Hosts : connections[h] # NoSlot}
           gone == {d \in Conns : Mapped(d) /\ d[1] \notin lookup[l]}
           added == lookup[l] \ current
<1>1. PICK slot \in [added -> Slots] :
         LET new == {<<h, slot[h]>> : h \in added}
         IN  /\ \A d \in new : Free(d)
             /\ \E failing \in SUBSET new : Rewire(gone, new, failing)
             /\ connections' = [h \in Hosts |->
                    CASE h \in added        -> slot[h]
                      [] h \notin lookup[l] -> NoSlot
                      [] OTHER              -> connections[h]]
    BY DEF Reconcile
<1> DEFINE new == {<<h, slot[h]>> : h \in added}
<1>2. new \in SUBSET Conns /\ gone \in SUBSET Conns
    BY DEF TypeOK, Conns
<1>3. PICK failing \in SUBSET new : Rewire(gone, new, failing)
    BY <1>1
<1>4. c[1] \in Hosts /\ c[2] \in Slots /\ c = <<c[1], c[2]>>
    BY DEF Conns
<1>5. gone \cap new = {}
    BY DEF TypeOK
<1>6. connections'[c[1]] = CASE c[1] \in added        -> slot[c[1]]
                             [] c[1] \notin lookup[l] -> NoSlot
                             [] OTHER                 -> connections[c[1]]
    BY <1>1, <1>4
<1>7. c \in new <=> c[1] \in added /\ slot[c[1]] = c[2]
    BY <1>4
<1>8. c \in gone <=> Mapped(c) /\ c[1] \notin lookup[l]
    OBVIOUS
<1>9. /\ c \in gone => ws'[c] = ClosedWs(c) /\ ~reconnectTimeout'[c]
      /\ c \notin gone \cup new =>
            ws'[c] = ws[c] /\ reconnectTimeout'[c] = reconnectTimeout[c]
      /\ c \in new =>
            \/ isShuttingDown /\ ws'[c] = ws[c] /\ ~reconnectTimeout'[c]
            \/ ~isShuttingDown /\ ws'[c] = "connecting" /\ ~reconnectTimeout'[c]
            \/ ~isShuttingDown /\ ws'[c] = ws[c] /\ reconnectTimeout'[c]
    <2> HIDE DEF gone, new
    <2> QED
        BY <1>2, <1>3, <1>5, RewireEffect
<1>10. SlowClose \/ \A d \in Conns : d[1] \in added => ws[d] = "none"
    BY DEF Reconcile
<1>11. CASE c[1] \in added /\ c \in new
    <2>1. Free(c) /\ connections[c[1]] = NoSlot
        BY <1>1, <1>4, <1>11
    <2>2. Mapped(c)'
        BY <1>6, <1>7, <1>11 DEF Mapped
    <2> QED
        BY <1>9, <1>11, <2>1, <2>2 DEF Added, Free
<1>12. CASE c[1] \in added /\ c \notin new
    <2>1. connections[c[1]] = NoSlot
        BY <1>4, <1>12
    <2>2. ~Mapped(c)'
        BY <1>6, <1>7, <1>12 DEF Mapped
    <2> QED
        BY <1>8, <1>9, <1>10, <1>12, <2>1, <2>2 DEF Sibling
<1>13. CASE c[1] \notin added /\ c[1] \notin lookup[l]
    BY <1>6, <1>7, <1>8, <1>9, <1>13 DEF Dropped
<1>14. CASE c[1] \notin added /\ c[1] \in lookup[l]
    BY <1>6, <1>7, <1>8, <1>9, <1>14 DEF Kept
<1> QED
    BY <1>11, <1>12, <1>13, <1>14

LEMMA DestroyEffect ==
    ASSUME TypeOK, OnModuleDestroy, NEW c \in Conns
    PROVE  Dropped(c)
<1> DEFINE gone == {d \in Conns : Mapped(d)}
<1>1. Rewire(gone, {}, {})
    BY DEF OnModuleDestroy
<1>2. gone \in SUBSET Conns /\ {} \in SUBSET Conns /\ {} \in SUBSET {}
      /\ gone \cap {} = {}
    OBVIOUS
<1>3. c \in gone <=> Mapped(c)
    OBVIOUS
<1>4. connections'[c[1]] = NoSlot
    BY DEF OnModuleDestroy, Conns
<1> HIDE DEF gone
<1>5. /\ c \in gone => ws'[c] = ClosedWs(c) /\ ~reconnectTimeout'[c]
      /\ c \notin gone \cup {} =>
            ws'[c] = ws[c] /\ reconnectTimeout'[c] = reconnectTimeout[c]
    BY <1>1, <1>2, RewireEffect
<1> QED
    BY <1>3, <1>4, <1>5 DEF Dropped

LEMMA ReconnectEffect ==
    ASSUME TypeOK, NEW c \in Conns, Reconnect(c), NEW d \in Conns
    PROVE  /\ d # c => ws'[d] = ws[d] /\ reconnectTimeout'[d] = reconnectTimeout[d]
           /\ \/ isShuttingDown /\ ws'[c] = ws[c] /\ ~reconnectTimeout'[c]
              \/ ~isShuttingDown /\ ws'[c] = "connecting" /\ ~reconnectTimeout'[c]
              \/ ~isShuttingDown /\ ws'[c] = ws[c] /\ reconnectTimeout'[c]
<1>1. PICK failing \in SUBSET {c} : Rewire({}, {c}, failing)
    BY DEF Reconnect
<1>2. {} \in SUBSET Conns /\ {c} \in SUBSET Conns /\ {} \cap {c} = {}
    OBVIOUS
<1> QED
    BY <1>1, <1>2, RewireEffect

-----------------------------------------------------------------------------
(* One socket at a time, and no connection in the map is forgotten.          *)
SocketInv == TypeOK /\ OneAttempt /\ NeverAbandoned

LEMMA SocketInvInductive == SocketInv /\ [Next]_vars => SocketInv'
<1> SUFFICES ASSUME SocketInv, [Next]_vars
             PROVE  OneAttempt' /\ NeverAbandoned'
    BY NextTypeOK DEF SocketInv
<1>0. TypeOK /\ OneAttempt /\ NeverAbandoned
    BY DEF SocketInv
<1> USE DEF netVars, dnsVars, subVars
<1>1. ASSUME UNCHANGED <<ws, connections, reconnectTimeout, isShuttingDown>>
      PROVE  OneAttempt' /\ NeverAbandoned'
    BY <1>0, <1>1 DEF OneAttempt, NeverAbandoned, Mapped
<1>2. ASSUME NEW l \in Lookups, Reconcile(l)
      PROVE  OneAttempt' /\ NeverAbandoned'
    <2>1. \A c \in Conns : Kept(c) \/ Sibling(c) \/ Dropped(c) \/ Added(c)
        BY <1>0, <1>2, ReconcileEffect
    <2>2. isShuttingDown' = isShuttingDown
        BY <1>2 DEF Reconcile
    <2>3. OneAttempt'
        BY <1>0, <2>1 DEF OneAttempt, Kept, Sibling, Dropped, Added
    <2>4. ASSUME NEW c \in Conns, Mapped(c)', ~isShuttingDown
          PROVE  ws'[c] # "none" \/ reconnectTimeout'[c]
        <3>1. Kept(c) \/ Added(c)
            BY <2>1, <2>4, NoSlotAssumption DEF Sibling, Dropped, Mapped, Conns
        <3> QED
            BY <1>0, <2>4, <3>1 DEF Kept, Added, NeverAbandoned, Mapped
    <2> QED
        BY <2>2, <2>3, <2>4 DEF NeverAbandoned
<1>3. CASE OnModuleDestroy
    <2>1. \A c \in Conns : Dropped(c)
        BY <1>0, <1>3, DestroyEffect
    <2>2. isShuttingDown'
        BY <1>3 DEF OnModuleDestroy
    <2> QED
        BY <1>0, <2>1, <2>2 DEF OneAttempt, NeverAbandoned, Dropped
<1>4. ASSUME NEW c \in Conns, Open(c) \/ PeerCloses(c)
      PROVE  OneAttempt' /\ NeverAbandoned'
    <2>1. /\ UNCHANGED <<connections, reconnectTimeout, isShuttingDown>>
          /\ ws[c] \in {"connecting", "open"} /\ ws'[c] \in {"open", "closing"}
          /\ \A d \in Conns : d # c => ws'[d] = ws[d]
        BY <1>0, <1>4 DEF Open, PeerCloses, TypeOK
    <2> QED
        BY <1>0, <2>1 DEF OneAttempt, NeverAbandoned, Mapped
<1>5. ASSUME NEW c \in Conns, Close(c)
      PROVE  OneAttempt' /\ NeverAbandoned'
    <2>1. /\ UNCHANGED <<connections, isShuttingDown>>
          /\ ws'[c] = "none"
          /\ reconnectTimeout'[c] = (reconnectTimeout[c] \/ ReconnectDue(c))
          /\ \A d \in Conns : d # c => /\ ws'[d] = ws[d]
                                       /\ reconnectTimeout'[d] = reconnectTimeout[d]
        BY <1>0, <1>5 DEF Close, TypeOK
    <2>2. Mapped(c) /\ ~isShuttingDown => ReconnectDue(c)
        BY NoSlotAssumption DEF Mapped, ReconnectDue, Conns
    <2> QED
        BY <1>0, <2>1, <2>2 DEF OneAttempt, NeverAbandoned, Mapped
<1>6. ASSUME NEW c \in Conns, Reconnect(c)
      PROVE  OneAttempt' /\ NeverAbandoned'
    <2>1. UNCHANGED <<connections, isShuttingDown>> /\ reconnectTimeout[c]
        BY <1>6 DEF Reconnect
    <2>2. \A d \in Conns :
             d # c => ws'[d] = ws[d] /\ reconnectTimeout'[d] = reconnectTimeout[d]
        BY <1>0, <1>6, ReconnectEffect
    <2>3. \/ isShuttingDown /\ ws'[c] = ws[c] /\ ~reconnectTimeout'[c]
          \/ ~isShuttingDown /\ ws'[c] = "connecting" /\ ~reconnectTimeout'[c]
          \/ ~isShuttingDown /\ ws'[c] = ws[c] /\ reconnectTimeout'[c]
        BY <1>0, <1>6, ReconnectEffect
    <2> QED
        BY <1>0, <2>1, <2>2, <2>3 DEF OneAttempt, NeverAbandoned, Mapped
<1>7. CASE \/ TasksChange
           \/ \E a \in SUBSET Hosts : DnsRefresh(a)
           \/ \E c \in Conns, k \in Keys : Read(c, k)
           \/ \E s \in Subs : \/ \E k \in Keys : Subscribe(s, k)
                              \/ SubscribeRejected(s)
                              \/ Subscribed(s)
                              \/ Return(s)
           \/ UNCHANGED vars
    BY <1>1, <1>7 DEF TasksChange, DnsRefresh, Read, Subscribe,
                      SubscribeRejected, Subscribed, Return, vars
<1> QED
    BY <1>2, <1>3, <1>4, <1>5, <1>6, <1>7 DEF Next

(* Every connection of the map has a socket or a pending reconnect until     *)
(* shutdown (scheduleReconnect, reconcileConnections), and never both.       *)
THEOREM OneSocketEach == Spec => [](OneAttempt /\ NeverAbandoned)
<1>1. Init => SocketInv
    BY InitTypeOK, NoSlotAssumption
    DEF Init, SocketInv, OneAttempt, NeverAbandoned, Mapped, Conns
<1>2. SocketInv => OneAttempt /\ NeverAbandoned
    BY DEF SocketInv
<1> QED
    BY <1>1, <1>2, SocketInvInductive, PTL DEF Spec

-----------------------------------------------------------------------------
(* The last message of a queue, under the two operations sockets use.        *)
LEMMA AppendLast ==
    ASSUME NEW S, NEW q \in Seq(S), NEW m \in S
    PROVE  Append(q, m) # <<>> /\ Append(q, m)[Len(Append(q, m))] = m
BY AppendProperties

LEMMA TailLast ==
    ASSUME NEW S, NEW q \in Seq(S), q # <<>>
    PROVE  IF Tail(q) = <<>> THEN Head(q) = q[Len(q)]
                             ELSE Tail(q)[Len(Tail(q))] = q[Len(q)]
<1>1. /\ Len(q) \in Nat \ {0}
      /\ Tail(q) \in Seq(S) /\ Len(Tail(q)) = Len(q) - 1
      /\ \A i \in 1 .. Len(Tail(q)) : Tail(q)[i] = q[i + 1]
    BY EmptySeq, HeadTailProperties
<1>2. CASE Tail(q) = <<>>
    <2>0. Len(<<>>) = 0
        OBVIOUS
    <2>1. Len(Tail(q)) = 0
        BY <1>2, <2>0, Zenon
    <2>2. \A m, n \in Nat : m = n - 1 /\ m = 0 => n = 1
        OBVIOUS
    <2>3. Len(q) = 1
        BY <1>1, <2>0, <2>1, <2>2, Zenon
    <2> QED
        BY <1>2, <2>3
<1>3. CASE Tail(q) # <<>>
    <2>1. Len(Tail(q)) \in Nat \ {0}
        BY <1>1, <1>3, EmptySeq
    <2> QED
        BY <1>1, <1>3, <2>1
<1> QED
    BY <1>2, <1>3

-----------------------------------------------------------------------------
(* A socket that never opened has nothing on its wire and nothing streaming: *)
(* the strengthening that makes ListenersKnowInterest inductive.             *)
SilentUntilOpen ==
    \A c \in Conns : ws[c] \in {"none", "connecting"} =>
        upstream[c] = {} /\ wire[c] = Quiet

InterestInv == SocketInv /\ SilentUntilOpen /\ ListenersKnowInterest

\* What a socket that stays open is told does not change.
LEMMA SameWords ==
    ASSUME TypeOK, ListenersKnowInterest, NEW c \in Conns, Listening(c),
           UNCHANGED <<wire[c], upstream[c], subCount>>
    PROVE  \A k \in Keys : LastWord(c, k)' <=> (k \in Interest)'
BY DEF ListenersKnowInterest, LastWord, Interest

LEMMA SilenceKept ==
    ASSUME InterestInv, UNCHANGED <<wire, upstream>>,
           \A c \in Conns : ws'[c] \in {"none", "connecting"} =>
                               ws[c] \in {"none", "connecting"}
    PROVE  SilentUntilOpen'
BY DEF InterestInv, SilentUntilOpen

\* A step that opens no socket, sends nothing and maps no open socket.
LEMMA InterestKept ==
    ASSUME InterestInv, UNCHANGED <<wire, upstream, subCount>>,
           \A c \in Conns : Listening(c)' => Listening(c)
    PROVE  ListenersKnowInterest'
BY DEF InterestInv, ListenersKnowInterest, LastWord, Interest

LEMMA BroadcastWord ==
    ASSUME TypeOK, NEW k \in Keys, NEW m \in Message, Broadcast(k, m),
           UNCHANGED upstream, NEW c \in Conns, NEW j \in Keys
    PROVE  IF Listening(c) /\ j = k
             THEN LastWord(c, j)' <=> m = "subscribe"
             ELSE LastWord(c, j)' <=> LastWord(c, j)
<1>1. wire[c] \in [Keys -> Seq(Message)] /\ wire[c][j] \in Seq(Message)
    BY DEF TypeOK
<1>2. CASE Listening(c) /\ j = k
    <2>1. wire'[c][j] = Append(wire[c][j], m)
        BY <1>1, <1>2 DEF Broadcast
    <2>2. /\ wire'[c][j] # <<>>
          /\ wire'[c][j][Len(wire'[c][j])] = m
        BY <1>1, <2>1, AppendLast
    <2> QED
        BY <1>2, <2>2 DEF LastWord
<1>3. CASE ~(Listening(c) /\ j = k)
    <2>1. wire'[c][j] = wire[c][j]
        BY <1>1, <1>3 DEF Broadcast
    <2> QED
        BY <1>3, <2>1 DEF LastWord
<1> QED
    BY <1>2, <1>3

\* Sends go to sockets that are open, so the silent ones stay silent.
LEMMA BroadcastSilence ==
    ASSUME InterestInv, NEW k \in Keys, NEW m \in Message, Broadcast(k, m),
           UNCHANGED <<ws, upstream>>
    PROVE  SilentUntilOpen'
BY DEF InterestInv, SilentUntilOpen, Broadcast, Listening

LEMMA ReadWord ==
    ASSUME TypeOK, NEW c \in Conns, NEW k \in Keys, Read(c, k),
           NEW d \in Conns, NEW j \in Keys
    PROVE  LastWord(d, j)' <=> LastWord(d, j)
<1>1. wire[d] \in [Keys -> Seq(Message)] /\ upstream[d] \in SUBSET Keys
      /\ wire[d][j] \in Seq(Message)
    BY DEF TypeOK
<1>2. CASE d = c /\ j = k
    <2>1. wire[d][j] # <<>> /\ wire'[d][j] = Tail(wire[d][j])
        BY <1>1, <1>2 DEF Read, TypeOK
    <2>2. upstream'[d] = IF Head(wire[d][j]) = "subscribe"
                           THEN upstream[d] \cup {j} ELSE upstream[d] \ {j}
        BY <1>2 DEF Read, TypeOK
    <2>3. IF wire'[d][j] = <<>>
            THEN Head(wire[d][j]) = wire[d][j][Len(wire[d][j])]
            ELSE wire'[d][j][Len(wire'[d][j])] = wire[d][j][Len(wire[d][j])]
        BY <1>1, <2>1, TailLast
    <2> QED
        BY <2>1, <2>2, <2>3 DEF LastWord
<1>3. CASE ~(d = c /\ j = k)
    <2>1. wire'[d][j] = wire[d][j] /\ (j \in upstream'[d] <=> j \in upstream[d])
        BY <1>1, <1>3 DEF Read, TypeOK
    <2> QED
        BY <2>1 DEF LastWord
<1> QED
    BY <1>2, <1>3

LEMMA InterestInvInductive == InterestInv /\ [Next]_vars => InterestInv'
<1> SUFFICES ASSUME InterestInv, [Next]_vars
             PROVE  SilentUntilOpen' /\ ListenersKnowInterest'
    BY SocketInvInductive DEF InterestInv
<1>0. TypeOK /\ SilentUntilOpen /\ ListenersKnowInterest
    BY DEF InterestInv, SocketInv
<1> USE DEF netVars, dnsVars, subVars
<1>1. ASSUME UNCHANGED <<ws, connections, wire, upstream, subCount>>
      PROVE  SilentUntilOpen' /\ ListenersKnowInterest'
    BY <1>1, SilenceKept, InterestKept DEF Listening, Mapped
<1>2. CASE TasksChange \/ (\E a \in SUBSET Hosts : DnsRefresh(a))
    BY <1>1, <1>2 DEF TasksChange, DnsRefresh
<1>3. ASSUME NEW l \in Lookups, Reconcile(l)
      PROVE  SilentUntilOpen' /\ ListenersKnowInterest'
    <2>1. UNCHANGED <<wire, upstream, subCount>>
        BY <1>3 DEF Reconcile
    <2>2. \A c \in Conns : Kept(c) \/ Sibling(c) \/ Dropped(c) \/ Added(c)
        BY <1>0, <1>3, ReconcileEffect
    <2>3. \A c \in Conns : ws'[c] \in {"none", "connecting"} =>
                               ws[c] \in {"none", "connecting"}
        BY <2>2, <1>0 DEF Kept, Sibling, Dropped, Added, ClosedWs, Free, TypeOK
    <2>4. \A c \in Conns : Listening(c)' => Listening(c)
        BY <2>2, NoSlotAssumption
        DEF Kept, Sibling, Dropped, Added, Listening, Mapped, Conns
    <2> QED
        BY <2>1, <2>3, <2>4, SilenceKept, InterestKept
<1>4. CASE OnModuleDestroy
    <2>1. UNCHANGED <<wire, upstream, subCount>>
        BY <1>4 DEF OnModuleDestroy
    <2>2. \A c \in Conns : Dropped(c)
        BY <1>0, <1>4, DestroyEffect
    <2>3. \A c \in Conns : ws'[c] \in {"none", "connecting"} =>
                               ws[c] \in {"none", "connecting"}
        BY <2>2, <1>0 DEF Dropped, ClosedWs, TypeOK
    <2>4. \A c \in Conns : ~Listening(c)'
        BY <2>2, NoSlotAssumption DEF Dropped, Listening, Mapped, Conns
    <2> QED
        BY <2>1, <2>3, <2>4, SilenceKept, InterestKept
<1>5. ASSUME NEW c \in Conns, Open(c)
      PROVE  SilentUntilOpen' /\ ListenersKnowInterest'
    <2>1. ws'[c] = "open" /\ wire'[c] = Resubscribed /\ upstream'[c] = {}
        BY <1>0, <1>5 DEF Open, TypeOK, SilentUntilOpen
    <2>2. \A d \in Conns : d # c => UNCHANGED <<ws[d], wire[d], upstream[d]>>
        BY <1>0, <1>5 DEF Open, TypeOK
    <2>3. SilentUntilOpen'
        BY <2>1, <2>2 DEF InterestInv, SilentUntilOpen, Quiet
    <2>4. subCount' = subCount /\ connections' = connections
        BY <1>5 DEF Open
    <2>5. \A k \in Keys : LastWord(c, k)' <=> (k \in Interest)'
        <3> SUFFICES ASSUME NEW k \in Keys
                     PROVE  LastWord(c, k)' <=> (k \in Interest)'
            OBVIOUS
        <3>1. CASE k \in Interest
            <4>1. wire'[c][k] = <<"subscribe">>
                BY <2>1, <3>1 DEF Resubscribed
            <4>2. wire'[c][k] # <<>> /\ wire'[c][k][Len(wire'[c][k])] = "subscribe"
                BY <4>1
            <4> QED
                BY <2>4, <3>1, <4>2 DEF LastWord, Interest
        <3>2. CASE k \notin Interest
            <4>1. wire'[c][k] = <<>>
                BY <2>1, <3>2 DEF Resubscribed
            <4> QED
                BY <2>1, <2>4, <3>2, <4>1 DEF LastWord, Interest
        <3> QED
            BY <3>1, <3>2
    <2>6. ListenersKnowInterest'
        <3> SUFFICES ASSUME NEW d \in Conns, Listening(d)'
                     PROVE  \A k \in Keys : LastWord(d, k)' <=> (k \in Interest)'
            BY DEF ListenersKnowInterest
        <3>1. CASE d = c
            BY <2>5, <3>1
        <3>2. CASE d # c
            <4>1. Listening(d)
                BY <2>2, <2>4, <3>2 DEF Listening, Mapped
            <4> QED
                BY <1>0, <2>2, <2>4, <3>2, <4>1, SameWords DEF InterestInv
        <3> QED
            BY <3>1, <3>2
    <2> QED
        BY <2>3, <2>6
<1>6. ASSUME NEW c \in Conns, PeerCloses(c)
      PROVE  SilentUntilOpen' /\ ListenersKnowInterest'
    <2>1. UNCHANGED <<wire, upstream, subCount, connections>>
        BY <1>6 DEF PeerCloses
    <2>2. \A d \in Conns : /\ ws'[d] = ws[d] \/ ws'[d] = "closing"
        BY <1>0, <1>6 DEF PeerCloses, TypeOK
    <2> QED
        BY <2>1, <2>2, SilenceKept, InterestKept DEF Listening, Mapped
<1>7. ASSUME NEW c \in Conns, Close(c)
      PROVE  SilentUntilOpen' /\ ListenersKnowInterest'
    <2>1. ws'[c] = "none" /\ wire'[c] = Quiet /\ upstream'[c] = {}
        BY <1>0, <1>7 DEF Close, Reset, TypeOK
    <2>2. \A d \in Conns : d # c => UNCHANGED <<ws[d], wire[d], upstream[d]>>
        BY <1>0, <1>7 DEF Close, Reset, TypeOK
    <2>3. SilentUntilOpen'
        BY <2>1, <2>2 DEF InterestInv, SilentUntilOpen, Quiet
    <2>4. subCount' = subCount /\ connections' = connections
        BY <1>7 DEF Close
    <2>5. ListenersKnowInterest'
        <3> SUFFICES ASSUME NEW d \in Conns, Listening(d)'
                     PROVE  \A k \in Keys : LastWord(d, k)' <=> (k \in Interest)'
            BY DEF ListenersKnowInterest
        <3>1. d # c /\ Listening(d)
            BY <2>1, <2>2, <2>4 DEF Listening, Mapped
        <3> QED
            BY <1>0, <2>2, <2>4, <3>1, SameWords DEF InterestInv
    <2> QED
        BY <2>3, <2>5
<1>8. ASSUME NEW c \in Conns, Reconnect(c)
      PROVE  SilentUntilOpen' /\ ListenersKnowInterest'
    <2>1. UNCHANGED <<wire, upstream, subCount, connections>>
        BY <1>8 DEF Reconnect
    <2>2. ws[c] = "none"
        BY <1>8 DEF Reconnect, InterestInv, SocketInv, OneAttempt
    <2>3. \A d \in Conns : ws'[d] = ws[d] \/ (d = c /\ ws'[d] = "connecting")
        BY <1>0, <1>8, ReconnectEffect
    <2> QED
        BY <2>1, <2>2, <2>3, SilenceKept, InterestKept DEF Listening, Mapped
<1>9. ASSUME NEW c \in Conns, NEW k \in Keys, Read(c, k)
      PROVE  SilentUntilOpen' /\ ListenersKnowInterest'
    <2>1. UNCHANGED <<ws, subCount, connections>>
        BY <1>9 DEF Read
    <2>2. \A d \in Conns, j \in Keys : LastWord(d, j)' <=> LastWord(d, j)
        BY <1>0, <1>9, ReadWord
    <2>3. ListenersKnowInterest'
        BY <2>1, <2>2 DEF InterestInv, ListenersKnowInterest, Listening, Mapped,
                          Interest
    <2>4. \A d \in Conns : ws[d] \in {"none", "connecting"} =>
                              UNCHANGED <<wire[d], upstream[d]>>
        BY <1>0, <1>9 DEF Read, TypeOK
    <2> QED
        BY <2>1, <2>3, <2>4 DEF InterestInv, SilentUntilOpen, Quiet
<1>10. ASSUME NEW s \in Subs
       PROVE  /\ SubscribeRejected(s) => SilentUntilOpen' /\ ListenersKnowInterest'
              /\ \A k \in Keys : Subscribe(s, k) =>
                                    SilentUntilOpen' /\ ListenersKnowInterest'
    BY <1>1 DEF SubscribeRejected, Subscribe
<1>11. ASSUME NEW s \in Subs, Subscribed(s)
       PROVE  SilentUntilOpen' /\ ListenersKnowInterest'
    <2> DEFINE k == sub[s].key
    <2>1. UNCHANGED <<ws, connections, upstream>> /\ k \in Keys
          /\ subCount[k] \in Nat
          /\ subCount' = [subCount EXCEPT ![k] = subCount[k] + 1]
        BY <1>0, <1>11 DEF Subscribed, TypeOK
    <2>2. CASE subCount[k] = 0
        <3>1. Broadcast(k, "subscribe")
            BY <1>11, <2>2 DEF Subscribed
        <3>2. SilentUntilOpen'
            BY <2>1, <3>1, BroadcastSilence DEF Message
        <3>3. \A c \in Conns, j \in Keys :
                 IF Listening(c) /\ j = k THEN LastWord(c, j)'
                 ELSE LastWord(c, j)' <=> LastWord(c, j)
            BY <1>0, <2>1, <3>1, BroadcastWord DEF Message
        <3>4. \A j \in Keys : (j \in Interest)' <=> (j \in Interest \/ j = k)
            BY <1>0, <2>1, <2>2 DEF Interest, TypeOK
        <3> QED
            BY <2>1, <3>2, <3>3, <3>4 DEF InterestInv, ListenersKnowInterest,
                                          Listening, Mapped
    <2>3. CASE subCount[k] # 0
        <3>1. wire' = wire
            BY <1>11, <2>3 DEF Subscribed
        <3>2. \A j \in Keys : (j \in Interest)' <=> j \in Interest
            BY <1>0, <2>1, <2>3 DEF Interest, TypeOK
        <3> QED
            BY <2>1, <3>1, <3>2 DEF InterestInv, SilentUntilOpen,
                      ListenersKnowInterest, Listening, Mapped, LastWord, Quiet
    <2> QED
        BY <2>2, <2>3
<1>12. ASSUME NEW s \in Subs, Return(s)
       PROVE  SilentUntilOpen' /\ ListenersKnowInterest'
    <2> DEFINE k == sub[s].key
    <2>1. UNCHANGED <<ws, connections, upstream>> /\ k \in Keys
          /\ subCount[k] \in Nat
          /\ subCount' = [subCount EXCEPT ![k] = Released(subCount[k])]
        BY <1>0, <1>12 DEF Return, TypeOK
    <2>2. CASE IsLast(k)
        <3>1. Broadcast(k, "unsubscribe")
            BY <1>12, <2>2 DEF Return
        <3>2. SilentUntilOpen'
            BY <2>1, <3>1, BroadcastSilence DEF Message
        <3>3. \A c \in Conns, j \in Keys :
                 IF Listening(c) /\ j = k THEN ~LastWord(c, j)'
                 ELSE LastWord(c, j)' <=> LastWord(c, j)
            BY <1>0, <2>1, <3>1, BroadcastWord DEF Message
        <3>4. \A j \in Keys : (j \in Interest)' <=> (j \in Interest /\ j # k)
            BY <1>0, <2>1, <2>2 DEF Interest, TypeOK, Released, IsLast
        <3> QED
            BY <2>1, <3>2, <3>3, <3>4 DEF InterestInv, ListenersKnowInterest,
                                          Listening, Mapped
    <2>3. CASE ~IsLast(k)
        <3>1. wire' = wire
            BY <1>12, <2>3 DEF Return
        <3>2. \A j \in Keys : (j \in Interest)' <=> j \in Interest
            BY <1>0, <2>1, <2>3 DEF Interest, TypeOK, Released, IsLast
        <3> QED
            BY <2>1, <3>1, <3>2 DEF InterestInv, SilentUntilOpen,
                      ListenersKnowInterest, Listening, Mapped, LastWord, Quiet
    <2> QED
        BY <2>2, <2>3
<1>13. CASE UNCHANGED vars
    BY <1>1, <1>13 DEF vars
<1> QED
    BY <1>2, <1>3, <1>4, <1>5, <1>6, <1>7, <1>8, <1>9, <1>10, <1>11, <1>12,
       <1>13 DEF Next

(* Every open socket of a connection in the map has been asked for exactly   *)
(* the keys with a subscription (the 'open' handler and broadcastToAll),     *)
(* however closing, reconciling and subscribing interleave.                  *)
THEOREM InterestIsKnown == Spec => []ListenersKnowInterest
<1>1. Init => InterestInv
    <2> SUFFICES ASSUME Init PROVE InterestInv
        OBVIOUS
    <2>1. SocketInv
        BY InitTypeOK, NoSlotAssumption
        DEF Init, SocketInv, OneAttempt, NeverAbandoned, Mapped, Conns
    <2> QED
        BY <2>1 DEF Init, InterestInv, SilentUntilOpen, ListenersKnowInterest,
                    Listening
<1>2. InterestInv => ListenersKnowInterest
    BY DEF InterestInv
<1> QED
    BY <1>1, <1>2, InterestInvInductive, PTL DEF Spec

-----------------------------------------------------------------------------
(* Reference counts.                                                         *)
RefCountInv == TypeOK /\ RefCountExact

LEMMA RefCountInductive == RefCountInv /\ [Next]_vars => RefCountInv'
<1> SUFFICES ASSUME RefCountInv, [Next]_vars PROVE RefCountExact'
    BY NextTypeOK DEF RefCountInv
<1>0. TypeOK /\ RefCountExact
    BY DEF RefCountInv
<1> USE DEF netVars, dnsVars, subVars
<1>f. \A j \in Keys : ActiveOn(j) \in SUBSET Subs /\ IsFiniteSet(ActiveOn(j))
    BY SubsAssumption, FS_Subset DEF ActiveOn
<1>1. ASSUME NEW s \in Subs, UNCHANGED subCount,
             \/ sub[s].pc # "active" /\ sub'[s].pc # "active"
             \/ sub'[s] = sub[s],
             \A r \in Subs : r # s => sub'[r] = sub[r]
      PROVE  RefCountExact'
    <2>1. \A j \in Keys : ActiveOn(j)' = ActiveOn(j)
        BY <1>1 DEF ActiveOn
    <2> QED
        BY <1>0, <1>1, <2>1 DEF RefCountExact
<1>2. CASE UNCHANGED subVars
    <2>1. \A j \in Keys : ActiveOn(j)' = ActiveOn(j)
        BY <1>2 DEF ActiveOn
    <2> QED
        BY <1>0, <1>2, <2>1 DEF RefCountExact
<1>3. ASSUME NEW s \in Subs, NEW k \in Keys, Subscribe(s, k)
      PROVE  RefCountExact'
    BY <1>0, <1>1, <1>3 DEF Subscribe, TypeOK
<1>4. ASSUME NEW s \in Subs, SubscribeRejected(s) PROVE RefCountExact'
    BY <1>0, <1>1, <1>4 DEF SubscribeRejected, TypeOK
<1>5. ASSUME NEW s \in Subs, Subscribed(s) PROVE RefCountExact'
    <2> DEFINE k == sub[s].key
    <2>1. /\ k \in Keys /\ subCount \in [Keys -> Nat]
          /\ sub[s].pc = "subscribing"
          /\ sub'[s].pc = "active" /\ sub'[s].key = k
          /\ \A r \in Subs : r # s => sub'[r] = sub[r]
          /\ subCount' = [subCount EXCEPT ![k] = subCount[k] + 1]
        BY <1>0, <1>5 DEF Subscribed, TypeOK
    <2> HIDE DEF k
    <2>2. \A j \in Keys : ActiveOn(j)' = IF j = k THEN ActiveOn(j) \cup {s}
                                                  ELSE ActiveOn(j)
        BY <2>1 DEF ActiveOn
    <2>3. s \notin ActiveOn(k)
        BY <2>1 DEF ActiveOn
    <2>4. Cardinality(ActiveOn(k) \cup {s}) = Cardinality(ActiveOn(k)) + 1
        BY <1>f, <2>1, <2>3, FS_AddElement
    <2> QED
        BY <1>0, <2>1, <2>2, <2>4 DEF RefCountExact
<1>6. ASSUME NEW s \in Subs, Return(s) PROVE RefCountExact'
    <2> DEFINE k == sub[s].key
    <2>1. /\ k \in Keys /\ subCount \in [Keys -> Nat]
          /\ sub[s].pc = "active" /\ sub'[s].pc = "idle"
          /\ \A r \in Subs : r # s => sub'[r] = sub[r]
          /\ subCount' = [subCount EXCEPT ![k] = Released(subCount[k])]
        BY <1>0, <1>6 DEF Return, TypeOK
    <2>0. sub[s].key = k
        OBVIOUS
    <2> HIDE DEF k
    <2>2. \A j \in Keys : ActiveOn(j)' = IF j = k THEN ActiveOn(j) \ {s}
                                                  ELSE ActiveOn(j)
        BY <2>0, <2>1 DEF ActiveOn
    <2>3. s \in ActiveOn(k)
        BY <2>0, <2>1 DEF ActiveOn
    <2>4. /\ Cardinality(ActiveOn(k) \ {s}) = Cardinality(ActiveOn(k)) - 1
          /\ Cardinality(ActiveOn(k)) # 0
        BY <1>f, <2>1, <2>3, FS_RemoveElement, FS_EmptySet
    <2>5. Released(subCount[k]) = subCount[k] - 1
        BY <1>0, <2>1, <2>4 DEF RefCountExact, Released
    <2> QED
        BY <1>0, <2>1, <2>2, <2>4, <2>5 DEF RefCountExact
<1>7. CASE \/ TasksChange
           \/ \E a \in SUBSET Hosts : DnsRefresh(a)
           \/ \E l \in Lookups : Reconcile(l)
           \/ OnModuleDestroy
           \/ \E c \in Conns : \/ Open(c) \/ PeerCloses(c) \/ Close(c)
                               \/ Reconnect(c) \/ \E k \in Keys : Read(c, k)
           \/ UNCHANGED vars
    BY <1>2, <1>7 DEF TasksChange, DnsRefresh, Reconcile, OnModuleDestroy, Open,
                      PeerCloses, Close, Reconnect, Read, vars
<1> QED
    BY <1>3, <1>4, <1>5, <1>6, <1>7 DEF Next

LEMMA InitRefCount == Init => RefCountExact
<1> SUFFICES ASSUME Init PROVE RefCountExact
    OBVIOUS
<1>1. \A k \in Keys : ActiveOn(k) = {}
    BY DEF Init, ActiveOn
<1> QED
    BY <1>1, FS_EmptySet DEF Init, RefCountExact

(* retainSubscription and releaseSubscription keep, for every key, the       *)
(* number of iterators that are live on it.                                  *)
THEOREM CountsAreExact == Spec => []RefCountExact
<1>1. Init => RefCountInv
    BY InitTypeOK, InitRefCount DEF RefCountInv
<1>2. RefCountInv => RefCountExact
    BY DEF RefCountInv
<1> QED
    BY <1>1, <1>2, RefCountInductive, PTL DEF Spec

-----------------------------------------------------------------------------
(* Removed connections, when a closing handshake ends before its host can be *)
(* found again (SlowClose = FALSE): a socket that outlives its entry in the  *)
(* map is only closing, and its host has no entry.                           *)
OrphanAlone ==
    \A c \in Conns : ws[c] # "none" /\ ~Mapped(c) => connections[c[1]] = NoSlot

RemovalInv ==
    SocketInv /\ OrphanAlone /\ NoOrphan /\ ShutdownSeversAll

LEMMA RemovalInvInductive ==
    ASSUME SlowClose = FALSE
    PROVE  RemovalInv /\ [Next]_vars => RemovalInv'
<1> SUFFICES ASSUME RemovalInv, [Next]_vars
             PROVE  OrphanAlone' /\ NoOrphan' /\ ShutdownSeversAll'
    BY SocketInvInductive DEF RemovalInv
<1>0. TypeOK /\ OneAttempt /\ OrphanAlone /\ NoOrphan /\ ShutdownSeversAll
    BY DEF RemovalInv, SocketInv
<1> USE DEF netVars, dnsVars, subVars
<1>1. ASSUME UNCHANGED <<ws, connections, reconnectTimeout, isShuttingDown>>
      PROVE  OrphanAlone' /\ NoOrphan' /\ ShutdownSeversAll'
    BY <1>0, <1>1 DEF OrphanAlone, NoOrphan, ShutdownSeversAll, Mapped, Live
<1>2. ASSUME NEW l \in Lookups, Reconcile(l)
      PROVE  OrphanAlone' /\ NoOrphan' /\ ShutdownSeversAll'
    <2>1. \A c \in Conns : Kept(c) \/ Sibling(c) \/ Dropped(c) \/ Added(c)
        BY <1>0, <1>2, ReconcileEffect
    <2>2. isShuttingDown' = isShuttingDown
        BY <1>2 DEF Reconcile
    <2> SUFFICES ASSUME NEW c \in Conns
                 PROVE  /\ ws'[c] # "none" /\ ~Mapped(c)' =>
                               connections'[c[1]] = NoSlot
                        /\ Live(c)' \/ reconnectTimeout'[c] => Mapped(c)'
                        /\ isShuttingDown => ~Live(c)' /\ ~reconnectTimeout'[c]
        BY <2>2 DEF OrphanAlone, NoOrphan, ShutdownSeversAll
    <2>3. CASE Kept(c)
        BY <1>0, <2>3 DEF Kept, OrphanAlone, NoOrphan, ShutdownSeversAll,
                          Mapped, Live
    <2>4. CASE Sibling(c)
        <3>1. ~Mapped(c)
            BY <2>4, NoSlotAssumption DEF Sibling, Mapped, Conns
        <3> QED
            BY <1>0, <2>4, <3>1 DEF Sibling, OrphanAlone, NoOrphan, Mapped, Live
    <2>5. CASE Dropped(c)
        <3>1. ~Live(c)' /\ ~reconnectTimeout'[c]
            BY <1>0, <2>5 DEF Dropped, NoOrphan, Live, ClosedWs
        <3> QED
            BY <2>5, <3>1 DEF Dropped
    <2>6. CASE Added(c)
        BY <2>6 DEF Added, Live
    <2> QED
        BY <2>1, <2>3, <2>4, <2>5, <2>6
<1>3. CASE OnModuleDestroy
    <2>1. \A c \in Conns : Dropped(c)
        BY <1>0, <1>3, DestroyEffect
    <2>2. \A c \in Conns : ~Live(c)' /\ ~reconnectTimeout'[c]
        BY <1>0, <2>1 DEF Dropped, NoOrphan, Live, ClosedWs
    <2> QED
        BY <2>1, <2>2 DEF Dropped, OrphanAlone, NoOrphan, ShutdownSeversAll
<1>4. ASSUME NEW c \in Conns, Open(c) \/ PeerCloses(c)
      PROVE  OrphanAlone' /\ NoOrphan' /\ ShutdownSeversAll'
    <2>1. /\ UNCHANGED <<connections, reconnectTimeout, isShuttingDown>>
          /\ Live(c) /\ ws'[c] \in {"open", "closing"}
          /\ \A d \in Conns : d # c => ws'[d] = ws[d]
        BY <1>0, <1>4 DEF Open, PeerCloses, TypeOK, Live
    <2>2. Mapped(c) /\ ~isShuttingDown
        BY <1>0, <2>1 DEF NoOrphan, ShutdownSeversAll
    <2> QED
        BY <1>0, <2>1, <2>2 DEF OrphanAlone, NoOrphan, ShutdownSeversAll,
                                Mapped, Live
<1>5. ASSUME NEW c \in Conns, Close(c)
      PROVE  OrphanAlone' /\ NoOrphan' /\ ShutdownSeversAll'
    <2>1. /\ UNCHANGED <<connections, isShuttingDown>>
          /\ ws[c] # "none" /\ ws'[c] = "none"
          /\ reconnectTimeout'[c] = (reconnectTimeout[c] \/ ReconnectDue(c))
          /\ \A d \in Conns : d # c => /\ ws'[d] = ws[d]
                                       /\ reconnectTimeout'[d] = reconnectTimeout[d]
        BY <1>0, <1>5 DEF Close, TypeOK
    <2>2. ReconnectDue(c) => Mapped(c) /\ ~isShuttingDown
        BY <1>0, <2>1 DEF ReconnectDue, OrphanAlone
    <2> QED
        BY <1>0, <2>1, <2>2 DEF OrphanAlone, NoOrphan, ShutdownSeversAll,
                                Mapped, Live
<1>6. ASSUME NEW c \in Conns, Reconnect(c)
      PROVE  OrphanAlone' /\ NoOrphan' /\ ShutdownSeversAll'
    <2>1. UNCHANGED <<connections, isShuttingDown>> /\ reconnectTimeout[c]
        BY <1>6 DEF Reconnect
    <2>2. Mapped(c) /\ ~isShuttingDown
        BY <1>0, <2>1 DEF NoOrphan, ShutdownSeversAll
    <2>3. \A d \in Conns :
             d # c => ws'[d] = ws[d] /\ reconnectTimeout'[d] = reconnectTimeout[d]
        BY <1>0, <1>6, ReconnectEffect
    <2> QED
        BY <1>0, <2>1, <2>2, <2>3 DEF OrphanAlone, NoOrphan, ShutdownSeversAll,
                                      Mapped, Live
<1>7. CASE \/ TasksChange
           \/ \E a \in SUBSET Hosts : DnsRefresh(a)
           \/ \E c \in Conns, k \in Keys : Read(c, k)
           \/ \E s \in Subs : \/ \E k \in Keys : Subscribe(s, k)
                              \/ SubscribeRejected(s)
                              \/ Subscribed(s)
                              \/ Return(s)
           \/ UNCHANGED vars
    BY <1>1, <1>7 DEF TasksChange, DnsRefresh, Read, Subscribe,
                      SubscribeRejected, Subscribed, Return, vars
<1> QED
    BY <1>2, <1>3, <1>4, <1>5, <1>6, <1>7 DEF Next

LEMMA RemovalSafe ==
    ASSUME SlowClose = FALSE
    PROVE  Spec => [](NoOrphan /\ ShutdownSeversAll)
<1>1. Init => RemovalInv
    BY InitTypeOK, NoSlotAssumption
    DEF Init, RemovalInv, SocketInv, OneAttempt, NeverAbandoned, Mapped, Conns,
        OrphanAlone, NoOrphan, Live, ShutdownSeversAll
<1>2. RemovalInv => NoOrphan /\ ShutdownSeversAll
    BY DEF RemovalInv
<1> QED
    BY <1>1, <1>2, RemovalInvInductive, PTL DEF Spec

(* reconcileConnections and the pending 'close' events and timers leave no   *)
(* socket behind that the map does not know, provided no closing handshake   *)
(* outlasts the removal of its host.                                         *)
THEOREM NothingOrphaned ==
    ASSUME SlowClose = FALSE
    PROVE  Spec => []NoOrphan
BY RemovalSafe, PTL

(* onModuleDestroy severs every socket and timer, although a reconciliation  *)
(* that waits for DNS resumes after it, under the same proviso.              *)
THEOREM ShutdownIsFinal ==
    ASSUME SlowClose = FALSE
    PROVE  Spec => []ShutdownSeversAll
BY RemovalSafe, PTL

(* No log-streamer has two sockets that are open or being opened, so that a  *)
(* line a container writes is published once (log-streamer-proxy.service.ts: *)
(* 185).                                                                     *)
OneSocketPerHost ==
    \A c, d \in Conns : Live(c) /\ Live(d) /\ c[1] = d[1] => c = d

(* OneSocketPerHost, of reconcileConnections, which may drop a host and add  *)
(* it anew while the socket, the timer or the close event of the connection  *)
(* it had are still to come; under the same proviso.                         *)
THEOREM PublishedOnce ==
    ASSUME SlowClose = FALSE
    PROVE  Spec => []OneSocketPerHost
<1>1. NoOrphan => OneSocketPerHost
    BY DEF NoOrphan, OneSocketPerHost, Mapped, Conns
<1> QED
    BY <1>1, NothingOrphaned, PTL

-----------------------------------------------------------------------------
(* Refinement of StreamerFanout.                                             *)
FanoutInv == InterestInv /\ RefCountInv

\* At most one slot of a host is mapped, so asked is what the one link heard.
AskedMatches == Asked = [h \in Hosts |-> IF h \in LinkedHosts
                                            THEN Fanout!Watched(Watchers) ELSE {}]

LEMMA AskedIsWatched == FanoutInv => AskedMatches
<1> SUFFICES ASSUME FanoutInv, NEW h \in Hosts
             PROVE  {k \in Keys : \E s \in Slots : /\ Listening(<<h, s>>)
                                                   /\ LastWord(<<h, s>>, k)}
                    = IF h \in LinkedHosts THEN Fanout!Watched(Watchers) ELSE {}
    BY DEF Asked, AskedMatches
<1>1. \A s \in Slots : Listening(<<h, s>>) =>
          \A k \in Keys : LastWord(<<h, s>>, k) <=> k \in Interest
    BY DEF FanoutInv, InterestInv, ListenersKnowInterest, Conns
<1>2. Fanout!Watched(Watchers) = Interest
    <2>1. \A k \in Keys : IsFiniteSet(ActiveOn(k))
        BY SubsAssumption, FS_Subset DEF ActiveOn
    <2>2. \A k \in Keys : subCount[k] > 0 <=> ActiveOn(k) # {}
        BY <2>1, FS_EmptySet, FS_CardinalityType
        DEF FanoutInv, RefCountInv, RefCountExact
    <2> QED
        BY <2>2 DEF Fanout!Watched, Watchers, Interest
<1>3. CASE h \in LinkedHosts
    <2>1. \E s \in Slots : Listening(<<h, s>>)
        BY <1>3 DEF LinkedHosts
    <2>2. Interest \subseteq Keys
        BY DEF Interest
    <2> QED
        BY <1>1, <1>2, <1>3, <2>1, <2>2
<1>4. CASE h \notin LinkedHosts
    BY <1>4 DEF LinkedHosts
<1> QED
    BY <1>3, <1>4

LEMMA InitFanout == Init => Fanout!Init
<1> SUFFICES ASSUME Init PROVE Fanout!Init
    OBVIOUS
<1>1. \A k \in Keys : ActiveOn(k) = {}
    BY DEF Init, ActiveOn
<1>2. \A h \in Hosts, s \in Slots : ~Listening(<<h, s>>)
    BY DEF Init, Listening, Conns
<1> QED
    BY <1>1, <1>2 DEF Fanout!Init, Watchers, LinkedHosts, Asked

LEMMA NextFanout ==
    ASSUME FanoutInv, FanoutInv', [Next]_vars
    PROVE  [Fanout!Next]_(Fanout!vars)
<1> USE DEF netVars, dnsVars, subVars
<1>0. TypeOK /\ SocketInv
    BY DEF FanoutInv, InterestInv, SocketInv
<1>1. Asked' = [h \in Hosts |-> IF h \in LinkedHosts'
                                  THEN Fanout!Watched(Watchers') ELSE {}]
    <2>1. AskedMatches'
        BY AskedIsWatched, PTL
    <2> QED
        BY <2>1 DEF AskedMatches, Fanout!Watched
<1>2. ASSUME UNCHANGED Watchers, LinkedHosts' \subseteq LinkedHosts
      PROVE  Fanout!Next
    BY <1>1, <1>2 DEF Fanout!Next, Fanout!Unlink, Fanout!InStep
<1>3. ASSUME UNCHANGED sub,
             \A c \in Conns : Listening(c)' => Listening(c)
      PROVE  Fanout!Next
    <2>1. UNCHANGED Watchers
        BY <1>3 DEF Watchers, ActiveOn
    <2>2. LinkedHosts' \subseteq LinkedHosts
        BY <1>3 DEF LinkedHosts, Conns
    <2> QED
        BY <1>2, <2>1, <2>2
<1>4. ASSUME NEW l \in Lookups, Reconcile(l) PROVE Fanout!Next
    <2>1. \A c \in Conns : Kept(c) \/ Sibling(c) \/ Dropped(c) \/ Added(c)
        BY <1>0, <1>4, ReconcileEffect
    <2>2. \A c \in Conns : Listening(c)' => Listening(c)
        BY <2>1, NoSlotAssumption
        DEF Kept, Sibling, Dropped, Added, Listening, Mapped, Conns
    <2> QED
        BY <1>3, <1>4, <2>2 DEF Reconcile
<1>5. CASE OnModuleDestroy
    <2>1. \A c \in Conns : Dropped(c)
        BY <1>0, <1>5, DestroyEffect
    <2>2. \A c \in Conns : ~Listening(c)'
        BY <2>1, NoSlotAssumption DEF Dropped, Listening, Mapped, Conns
    <2> QED
        BY <1>3, <1>5, <2>2 DEF OnModuleDestroy
<1>6. ASSUME NEW c \in Conns, Open(c) PROVE Fanout!Next
    <2>1. UNCHANGED <<connections, sub>> /\ ws[c] = "connecting" /\ ws'[c] = "open"
          /\ \A d \in Conns : d # c => ws'[d] = ws[d]
        BY <1>0, <1>6 DEF Open, TypeOK
    <2>2. CASE Mapped(c)
        <3>1. UNCHANGED Watchers
            BY <2>1 DEF Watchers, ActiveOn
        <3>2. c[1] \in Hosts /\ c[2] \in Slots /\ c = <<c[1], c[2]>>
            BY DEF Conns
        <3>3. LinkedHosts' = LinkedHosts \cup {c[1]} /\ c[1] \notin LinkedHosts
            <4>1. \A h \in Hosts, s \in Slots :
                     Listening(<<h, s>>)' <=>
                         Listening(<<h, s>>) \/ (h = c[1] /\ s = c[2])
                BY <2>1, <2>2, <3>2 DEF Listening, Mapped, Conns
            <4>2. \A s \in Slots : ~Listening(<<c[1], s>>)
                BY <2>1, <2>2, <3>2 DEF Listening, Mapped
            <4> QED
                BY <3>2, <4>1, <4>2 DEF LinkedHosts
        <3>4. Fanout!Link(c[1])
            BY <1>1, <3>1, <3>3 DEF Fanout!Link, Fanout!InStep
        <3> QED
            BY <3>2, <3>4 DEF Fanout!Next
    <2>3. CASE ~Mapped(c)
        BY <1>3, <2>1, <2>3 DEF Listening, Mapped
    <2> QED
        BY <2>2, <2>3
<1>7. ASSUME NEW c \in Conns, PeerCloses(c) \/ Close(c) PROVE Fanout!Next
    <2>1. UNCHANGED <<connections, sub>>
          /\ \A d \in Conns : ws'[d] = "open" => ws[d] = "open"
        BY <1>0, <1>7 DEF PeerCloses, Close, TypeOK
    <2> QED
        BY <1>3, <2>1 DEF Listening, Mapped
<1>8. ASSUME NEW c \in Conns, Reconnect(c) PROVE Fanout!Next
    <2>1. UNCHANGED <<connections, sub>>
        BY <1>8 DEF Reconnect
    <2>2. \A d \in Conns : ws'[d] = "open" => ws[d] = "open"
        BY <1>0, <1>8, ReconnectEffect
    <2> QED
        BY <1>3, <2>1, <2>2 DEF Listening, Mapped
<1>9. ASSUME NEW s \in Subs, Subscribed(s) PROVE Fanout!Next
    <2> DEFINE k == sub[s].key
    <2>1. /\ k \in Keys /\ sub[s].pc = "subscribing"
          /\ sub'[s].pc = "active" /\ sub'[s].key = k
          /\ \A r \in Subs : r # s => sub'[r] = sub[r]
          /\ UNCHANGED <<ws, connections>>
        BY <1>0, <1>9 DEF Subscribed, TypeOK
    <2> HIDE DEF k
    <2>2. Watchers' = [Watchers EXCEPT ![k] = @ \cup {s}]
        BY <2>1 DEF Watchers, ActiveOn
    <2>3. \A j \in Keys : s \notin Watchers[j]
        BY <2>1 DEF Watchers, ActiveOn
    <2>4. LinkedHosts' = LinkedHosts
        BY <2>1 DEF LinkedHosts, Listening, Mapped
    <2>5. Fanout!Watch(s, k)
        BY <1>1, <2>2, <2>3, <2>4 DEF Fanout!Watch, Fanout!InStep
    <2> QED
        BY <2>1, <2>5 DEF Fanout!Next
<1>10. ASSUME NEW s \in Subs, Return(s) PROVE Fanout!Next
    <2> DEFINE k == sub[s].key
    <2>1. /\ k \in Keys /\ sub[s].pc = "active" /\ sub[s].key = k
          /\ sub'[s].pc = "idle"
          /\ \A r \in Subs : r # s => sub'[r] = sub[r]
          /\ UNCHANGED <<ws, connections>>
        BY <1>0, <1>10 DEF Return, TypeOK
    <2> HIDE DEF k
    <2>2. Watchers' = [Watchers EXCEPT ![k] = @ \ {s}]
        BY <2>1 DEF Watchers, ActiveOn
    <2>3. s \in Watchers[k]
        BY <2>1 DEF Watchers, ActiveOn
    <2>4. LinkedHosts' = LinkedHosts
        BY <2>1 DEF LinkedHosts, Listening, Mapped
    <2>5. Fanout!Unwatch(s, k)
        BY <1>1, <2>2, <2>3, <2>4 DEF Fanout!Unwatch, Fanout!InStep
    <2> QED
        BY <2>1, <2>5 DEF Fanout!Next
<1>11. ASSUME NEW s \in Subs,
              SubscribeRejected(s) \/ \E k \in Keys : Subscribe(s, k)
       PROVE  Fanout!Next
    <2>1. UNCHANGED <<ws, connections>>
          /\ sub[s].pc # "active" /\ sub'[s].pc # "active"
          /\ \A r \in Subs : r # s => sub'[r] = sub[r]
        BY <1>0, <1>11 DEF SubscribeRejected, Subscribe, TypeOK
    <2>2. UNCHANGED Watchers
        BY <2>1 DEF Watchers, ActiveOn
    <2>3. LinkedHosts' = LinkedHosts
        BY <2>1 DEF LinkedHosts, Listening, Mapped
    <2> QED
        BY <1>2, <2>2, <2>3
<1>12. CASE \/ TasksChange
            \/ \E a \in SUBSET Hosts : DnsRefresh(a)
            \/ \E c \in Conns, k \in Keys : Read(c, k)
            \/ UNCHANGED vars
    BY <1>3, <1>12 DEF TasksChange, DnsRefresh, Read, vars, Listening, Mapped
<1> QED
    BY <1>4, <1>5, <1>6, <1>7, <1>8, <1>9, <1>10, <1>11, <1>12 DEF Next

(* LogStreamerProxyService implements StreamerFanout: whatever its sockets,  *)
(* timers and lookups do, each linked log-streamer follows exactly the keys  *)
(* that are watched.                                                         *)
THEOREM ProxyImplementsFanout == Spec => ImplementsFanout
<1>1. Init => FanoutInv
    <2>1. Init => SocketInv
        BY InitTypeOK, NoSlotAssumption
        DEF Init, SocketInv, OneAttempt, NeverAbandoned, Mapped, Conns
    <2>2. Init => InterestInv
        BY <2>1 DEF Init, InterestInv, SilentUntilOpen, ListenersKnowInterest,
                    Listening
    <2> QED
        BY <2>2, InitTypeOK, InitRefCount DEF FanoutInv, RefCountInv
<1>2. FanoutInv /\ [Next]_vars => FanoutInv'
    BY InterestInvInductive, RefCountInductive DEF FanoutInv
<1> QED
    BY <1>1, <1>2, InitFanout, NextFanout, PTL DEF Spec, ImplementsFanout, Fanout!Spec
===============================================================================
