----------------------------- MODULE LivePageProofs -----------------------------
(***************************************************************************)
(* Proofs about LivePage, for any ids, containers and number of tabs: the  *)
(* tabs, what of them is stored, and what the legend of the map says.      *)
(***************************************************************************)
EXTENDS LivePage, SequenceTheorems, WellFoundedInduction, TLAPS

-----------------------------------------------------------------------------
(* The place of a tab.                                                      *)

LEMMA LeastElement ==
    ASSUME NEW I \in SUBSET Nat, I # {}
    PROVE  Min(I) \in I /\ \A j \in I : Min(I) <= j
<1> DEFINE R == {p \in Nat \X Nat : p[1] < p[2]}
<1>1. IsWellFoundedOn(R, Nat)
    BY NatLessThanWellFounded DEF OpToRel
<1>2. PICK x \in I : \A y \in I : <<y, x>> \notin R
    BY <1>1, WFMin
<1>3. ASSUME NEW y \in I
      PROVE  x <= y
    <2>1. ~(<<y, x>>[1] < <<y, x>>[2])
        BY <1>2
    <2> QED
        BY <2>1
<1> QED
    BY <1>3 DEF Min

\* What is left when one element is taken out.
LEMMA Removed ==
    ASSUME NEW S, NEW s \in Seq(S), NEW i \in 1 .. Len(s)
    PROVE  /\ RemoveAt(s, i) \in Seq(S)
           /\ Len(RemoveAt(s, i)) = Len(s) - 1
           /\ \A j \in 1 .. Len(s) - 1 :
                 RemoveAt(s, i)[j] = s[IF j < i THEN j ELSE j + 1]
<1> DEFINE before == SubSeq(s, 1, i - 1)
           after == SubSeq(s, i + 1, Len(s))
<1>1. Len(s) \in Nat
    BY LenProperties
<1>2. /\ before \in Seq(S) /\ Len(before) = i - 1
      /\ \A j \in 1 .. i - 1 : before[j] = s[j]
    BY <1>1, SubSeqProperties
<1>3. /\ after \in Seq(S) /\ Len(after) = Len(s) - i
      /\ \A j \in 1 .. Len(s) - i : after[j] = s[i + j]
    BY <1>1, SubSeqProperties
<1> HIDE DEF before, after
<1>4. RemoveAt(s, i) = before \o after
    BY DEF RemoveAt, before, after
<1>5. /\ before \o after \in Seq(S)
      /\ Len(before \o after) = Len(s) - 1
      /\ \A j \in 1 .. Len(s) - 1 :
            (before \o after)[j] = IF j <= i - 1 THEN before[j] ELSE after[j - (i - 1)]
    <2>1. /\ before \o after \in Seq(S)
          /\ Len(before \o after) = Len(before) + Len(after)
          /\ \A j \in 1 .. Len(before) + Len(after) :
                (before \o after)[j] = IF j <= Len(before) THEN before[j]
                                       ELSE after[j - Len(before)]
        BY <1>2, <1>3, ConcatProperties
    <2>2. Len(before) + Len(after) = Len(s) - 1
        BY <1>1, <1>2, <1>3
    <2> QED
        BY <1>2, <2>1, <2>2
<1>6. ASSUME NEW j \in 1 .. Len(s) - 1
      PROVE  (before \o after)[j] = s[IF j < i THEN j ELSE j + 1]
    <2>1. CASE j < i
        BY <1>1, <1>2, <1>5, <2>1
    <2>2. CASE ~(j < i)
        <3>1. j - (i - 1) \in 1 .. Len(s) - i /\ i + (j - (i - 1)) = j + 1
            BY <1>1, <2>2
        <3> QED
            BY <1>1, <1>3, <1>5, <2>2, <3>1
    <2> QED
        BY <2>1, <2>2
<1> QED
    BY <1>4, <1>5, <1>6

-----------------------------------------------------------------------------
(* The tabs.                                                                *)

Distinct(ts) == \A i, j \in DOMAIN ts : ts[i].id = ts[j].id => i = j

Sensible(ts, active) ==
    /\ ts \in Seq(Tab) /\ active \in Ids \cup {None}
    /\ Len(ts) <= MaxTabs
    /\ Distinct(ts)
    /\ IF ts = <<>> THEN active = None ELSE active \in IdsOf(ts)

LEMMA RemovedTab ==
    ASSUME NEW ts \in Seq(Tab), Distinct(ts), NEW i \in 1 .. Len(ts)
    PROVE  /\ RemoveAt(ts, i) \in Seq(Tab)
           /\ Len(RemoveAt(ts, i)) = Len(ts) - 1
           /\ Distinct(RemoveAt(ts, i))
           /\ IdsOf(RemoveAt(ts, i)) = IdsOf(ts) \ {ts[i].id}
<1> DEFINE rest == RemoveAt(ts, i)
           from(j) == IF j < i THEN j ELSE j + 1
<1>1. Len(ts) \in Nat /\ DOMAIN ts = 1 .. Len(ts)
    BY LenProperties
<1>2. /\ rest \in Seq(Tab) /\ Len(rest) = Len(ts) - 1
      /\ \A j \in 1 .. Len(ts) - 1 : rest[j] = ts[from(j)]
    BY Removed
<1>3. DOMAIN rest = 1 .. Len(ts) - 1
    BY <1>2, LenProperties
<1> HIDE DEF rest
<1>4. \A j \in DOMAIN rest : from(j) \in DOMAIN ts \ {i}
    BY <1>1, <1>3
<1>5. Distinct(rest)
    <2>1. \A j, k \in DOMAIN rest : from(j) = from(k) => j = k
        BY <1>1, <1>3
    <2> QED
        BY <1>2, <1>3, <1>4, <2>1 DEF Distinct
<1>6. IdsOf(rest) \subseteq IdsOf(ts) \ {ts[i].id}
    BY <1>1, <1>2, <1>3, <1>4 DEF IdsOf, Distinct
<1>7. IdsOf(ts) \ {ts[i].id} \subseteq IdsOf(rest)
    <2>1. ASSUME NEW k \in DOMAIN ts, k # i
          PROVE  \E j \in DOMAIN rest : from(j) = k
        <3>1. CASE k < i
            BY <1>1, <1>3, <2>1, <3>1
        <3>2. CASE k > i
            <4>1. k - 1 \in DOMAIN rest /\ from(k - 1) = k
                BY <1>1, <1>3, <2>1, <3>2
            <4> QED
                BY <4>1
        <3> QED
            BY <1>1, <2>1, <3>1, <3>2
    <2>2. ASSUME NEW k \in DOMAIN ts, ts[k].id # ts[i].id
          PROVE  ts[k].id \in IdsOf(rest)
        <3>1. PICK j \in DOMAIN rest : from(j) = k
            BY <2>1, <2>2
        <3>2. rest[j] = ts[k]
            BY <1>2, <1>3, <3>1
        <3> QED
            BY <3>2 DEF IdsOf
    <2> QED
        BY <2>2 DEF IdsOf
<1> QED
    BY <1>2, <1>5, <1>6, <1>7 DEF rest

\* A tab that is opened comes last.
LEMMA Appended ==
    ASSUME NEW ts \in Seq(Tab), Distinct(ts), NEW tab \in Tab, tab.id \notin IdsOf(ts)
    PROVE  /\ Append(ts, tab) \in Seq(Tab)
           /\ Len(Append(ts, tab)) = Len(ts) + 1
           /\ Distinct(Append(ts, tab))
           /\ IdsOf(Append(ts, tab)) = IdsOf(ts) \cup {tab.id}
           /\ Append(ts, tab)[Len(ts) + 1] = tab
<1> DEFINE next == Append(ts, tab)
<1>1. /\ Len(ts) \in Nat /\ DOMAIN ts = 1 .. Len(ts)
      /\ next \in Seq(Tab) /\ Len(next) = Len(ts) + 1
      /\ \A j \in 1 .. Len(ts) : next[j] = ts[j]
      /\ next[Len(ts) + 1] = tab
    BY LenProperties, AppendProperties
<1>2. DOMAIN next = 1 .. Len(ts) + 1
    BY <1>1, LenProperties
<1> HIDE DEF next
<1>3. Distinct(next)
    <2>1. \A j \in 1 .. Len(ts) : next[j].id # tab.id
        BY <1>1 DEF IdsOf
    <2>2. \A j \in DOMAIN next : j \in 1 .. Len(ts) \/ j = Len(ts) + 1
        BY <1>1, <1>2
    <2> QED
        BY <1>1, <2>1, <2>2 DEF Distinct
<1>4. IdsOf(next) = IdsOf(ts) \cup {tab.id}
    <2>1. DOMAIN next = DOMAIN ts \cup {Len(ts) + 1}
        BY <1>1, <1>2
    <2>2. \A j \in DOMAIN ts : next[j] = ts[j]
        BY <1>1
    <2> QED
        BY <1>1, <2>1, <2>2 DEF IdsOf
<1> QED
    BY <1>1, <1>3, <1>4 DEF next

\* Evicting the oldest tab that is not the active one keeps the newest.
LEMMA Evicted ==
    ASSUME NEW ts \in Seq(Tab), Distinct(ts), Len(ts) = MaxTabs + 1
    PROVE  /\ Evict(ts) \in Seq(Tab)
           /\ Len(Evict(ts)) = MaxTabs
           /\ Distinct(Evict(ts))
           /\ ts[Len(ts)].id \in IdsOf(Evict(ts))
<1> DEFINE J == {i \in 1 .. Len(ts) : ts[i].id # activeTabId}
<1>1. Len(ts) \in Nat /\ Len(ts) >= 3 /\ DOMAIN ts = 1 .. Len(ts)
    BY MaxTabsAssumption, LenProperties
<1>2. 1 \in J \/ 2 \in J
    BY <1>1 DEF Distinct
<1>3. J \in SUBSET Nat /\ J # {}
    BY <1>1, <1>2
<1>4. Min(J) \in J
    BY <1>3, LeastElement
<1>5. Min(J) # Len(ts)
    <2>1. \A j \in J : Min(J) <= j
        BY <1>3, LeastElement
    <2> QED
        BY <1>1, <1>2, <2>1
<1>6. Evict(ts) = RemoveAt(ts, Min(J))
    BY <1>3 DEF Evict, SelectInSeq
<1>7. ts[Len(ts)].id # ts[Min(J)].id
    BY <1>1, <1>4, <1>5 DEF Distinct
<1>8. ts[Len(ts)].id \in IdsOf(ts)
    BY <1>1 DEF IdsOf
<1>9. Min(J) \in 1 .. Len(ts)
    BY <1>4
<1> HIDE DEF J
<1> QED
    BY <1>1, <1>6, <1>7, <1>8, <1>9, RemovedTab, MaxTabsAssumption

-----------------------------------------------------------------------------
(* The invariant: the tabs, and the types of the rest of the page.          *)

Queries == [state : {"idle", "asked", "answered"},
            list : SUBSET Containers, resumed : BOOLEAN]

ClusterOK ==
    /\ up \subseteq Containers /\ trailing \subseteq Containers
    /\ listed \subseteq Containers
    /\ query \in Queries

TabsOK ==
    /\ Sensible(tabs, activeTabId)
    /\ stored = [tabs |-> tabs, active |-> activeTabId]

ViewOK ==
    /\ isPaused \in BOOLEAN
    /\ subscription \in {"off", "connecting", "on"}
    /\ inbox \in Seq(Entries)
    /\ activeContainers \subseteq Containers
    /\ gap \subseteq Containers
    /\ isPaused \/ ~Mounted => subscription = "off" /\ inbox = <<>>

Inv == ClusterOK /\ TabsOK /\ ViewOK

LEMMA InvImplies == Inv => TypeOK /\ TabsMakeSense
<1> SUFFICES ASSUME Inv PROVE TypeOK /\ TabsMakeSense
    OBVIOUS
<1>1. TypeOK
    BY DEF Inv, ClusterOK, TabsOK, ViewOK, Sensible, Queries, TypeOK
<1>2. TabsMakeSense
    BY DEF Inv, TabsOK, Sensible, Distinct, TabsMakeSense
<1> QED
    BY <1>1, <1>2

LEMMA InvInit == Init => Inv
<1> SUFFICES ASSUME Init PROVE Inv
    OBVIOUS
<1>1. ClusterOK
    BY DEF Init, ClusterOK, Queries, Idle
<1>2. TabsOK
    BY MaxTabsAssumption DEF Init, TabsOK, Sensible, Distinct
<1>3. ViewOK
    <2>1. <<>> \in Seq(Entries)
        BY EmptySeq
    <2> QED
        BY <2>1 DEF Init, ViewOK
<1> QED
    BY <1>1, <1>2, <1>3 DEF Inv

\* A viewer that is mounted, or its absence.
LEMMA Viewed ==
    ASSUME NEW ts \in Seq(Tab), Viewer(ts), query \in Queries, tabs' = ts
    PROVE  ViewOK' /\ query' \in Queries
<1> DEFINE shown == {i \in DOMAIN ts : ts[i].id = Service}
           given == UNION {ts[i].containers : i \in shown}
<1>1. \A i \in DOMAIN ts : ts[i] \in Tab
    BY ElementOfSeq, LenProperties
<1>2. given \subseteq Containers
    BY <1>1 DEF Tab
<1>3. shown = {} <=> ~Mounted'
    BY DEF Mounted, IdsOf
<1>4. /\ isPaused' = FALSE /\ inbox' = <<>> /\ activeContainers' = given
      /\ subscription' = IF shown = {} THEN "off" ELSE "connecting"
      /\ query' = [query EXCEPT !.resumed = FALSE]
      /\ gap' \subseteq Containers
    BY DEF Viewer, Wrong
<1> HIDE DEF given, shown
<1>5. ViewOK'
    <2>1. <<>> \in Seq(Entries)
        BY EmptySeq
    <2> QED
        BY <1>2, <1>3, <1>4, <2>1 DEF ViewOK
<1> QED
    BY <1>4, <1>5 DEF Queries

LEMMA Rendered ==
    ASSUME Inv, NEW ts, NEW active, Sensible(ts, active), RenderTabs(ts, active),
           UNCHANGED <<envVars, listed>>
    PROVE  Inv'
<1>1. tabs' = ts /\ activeTabId' = active
    BY DEF RenderTabs
<1>2. TabsOK'
    BY <1>1 DEF RenderTabs, Save, TabsOK
<1>3. ViewOK' /\ query' \in Queries
    <2>1. CASE (Service \in IdsOf(ts)) = Mounted
        <3>1. UNCHANGED <<viewVars, query>>
            BY <2>1 DEF RenderTabs
        <3>2. Mounted' = Mounted
            BY <1>1, <2>1 DEF Mounted
        <3> QED
            BY <3>1, <3>2 DEF Inv, ViewOK, ClusterOK, viewVars
    <2>2. CASE (Service \in IdsOf(ts)) # Mounted
        BY <1>1, <2>2, Viewed DEF RenderTabs, Sensible, Inv, ClusterOK
    <2> QED
        BY <2>1, <2>2
<1> QED
    BY <1>2, <1>3 DEF Inv, ClusterOK, envVars

\* Opening a tab, in either order of the cases of useTabs.ts.
LEMMA Opened ==
    ASSUME Inv, NEW id \in Ids, NEW containers \in SUBSET Containers,
           OpenTab(id, containers), UNCHANGED <<envVars, listed>>
    PROVE  Inv'
<1> DEFINE tab == [id |-> id, containers |-> containers]
           next == Append(tabs, tab)
<1>1. /\ tabs \in Seq(Tab) /\ Len(tabs) <= MaxTabs /\ Distinct(tabs)
      /\ activeTabId \in Ids \cup {None}
    BY DEF Inv, TabsOK, Sensible
<1>2. CASE id \in IdsOf(tabs)
    <2>1. tabs # <<>>
        BY <1>2 DEF IdsOf
    <2>2. Sensible(tabs, id)
        BY <1>1, <1>2, <2>1 DEF Sensible
    <2> QED
        BY <1>2, <2>2, Rendered DEF OpenTab
<1>3. CASE id \notin IdsOf(tabs)
    <2>1. tab \in Tab /\ tab.id = id
        BY DEF Tab
    <2> HIDE DEF tab
    <2>2. /\ next \in Seq(Tab) /\ Len(next) = Len(tabs) + 1 /\ Distinct(next)
          /\ IdsOf(next) = IdsOf(tabs) \cup {id}
          /\ next[Len(tabs) + 1].id = id
        BY <1>1, <1>3, <2>1, Appended
    <2>3. Len(tabs) \in Nat /\ Len(next) \in Nat
        BY <1>1, <2>2, LenProperties
    <2> HIDE DEF next
    <2>4. CASE Len(next) > MaxTabs
        <3>1. Len(next) = MaxTabs + 1
            BY <1>1, <2>2, <2>3, <2>4, MaxTabsAssumption
        <3>2. /\ Evict(next) \in Seq(Tab) /\ Len(Evict(next)) = MaxTabs
              /\ Distinct(Evict(next)) /\ id \in IdsOf(Evict(next))
            BY <2>2, <3>1, Evicted
        <3>3. Evict(next) # <<>>
            BY <3>2, MaxTabsAssumption
        <3>4. Sensible(Evict(next), id)
            BY <3>2, <3>3, MaxTabsAssumption DEF Sensible
        <3>5. RenderTabs(Evict(next), id)
            BY <1>3, <2>4 DEF OpenTab, next, tab
        <3> QED
            BY <3>4, <3>5, Rendered
    <2>5. CASE ~(Len(next) > MaxTabs)
        <3>1. next # <<>> /\ Len(next) <= MaxTabs
            BY <2>2, <2>3, <2>5, MaxTabsAssumption
        <3>2. Sensible(next, id)
            BY <2>2, <3>1 DEF Sensible
        <3>3. RenderTabs(next, id)
            BY <1>3, <2>5 DEF OpenTab, next, tab
        <3> QED
            BY <3>2, <3>3, Rendered
    <2> QED
        BY <2>4, <2>5
<1> QED
    BY <1>2, <1>3

\* A closed tab leaves the active one to a neighbour that exists.
LEMMA Closed ==
    ASSUME Inv, NEW id \in Ids, CloseTab(id)
    PROVE  Inv'
<1> DEFINE I == {i \in 1 .. Len(tabs) : tabs[i].id = id}
           idx == Min(I)
           next == RemoveAt(tabs, idx)
           neighbour == next[IF idx > Len(next) THEN Len(next) ELSE idx].id
           active == IF next = <<>> THEN None
                     ELSE IF id = activeTabId THEN neighbour
                     ELSE activeTabId
<1>1. /\ tabs \in Seq(Tab) /\ Len(tabs) <= MaxTabs /\ Distinct(tabs)
      /\ activeTabId \in Ids \cup {None}
      /\ IF tabs = <<>> THEN activeTabId = None ELSE activeTabId \in IdsOf(tabs)
      /\ Len(tabs) \in Nat /\ DOMAIN tabs = 1 .. Len(tabs)
    BY LenProperties DEF Inv, TabsOK, Sensible
<1>2. I \in SUBSET Nat /\ I # {}
    BY <1>1 DEF CloseTab, IdsOf
<1>3. idx \in 1 .. Len(tabs) /\ tabs[idx].id = id
    BY <1>2, LeastElement
<1>4. RenderTabs(next, active) /\ UNCHANGED <<envVars, listed>>
    BY <1>2 DEF CloseTab, SelectInSeq
<1> HIDE DEF I, idx
<1>5. /\ next \in Seq(Tab) /\ Len(next) = Len(tabs) - 1 /\ Distinct(next)
      /\ IdsOf(next) = IdsOf(tabs) \ {id}
    BY <1>1, <1>3, RemovedTab
<1>6. Len(next) \in Nat /\ DOMAIN next = 1 .. Len(next)
    BY <1>5, LenProperties
<1> HIDE DEF next
<1>7. next # <<>> => Len(next) >= 1 /\ tabs # <<>>
    BY <1>1, <1>3, <1>5, <1>6, EmptySeq
<1>8. next # <<>> => neighbour \in IdsOf(next)
    <2>1. next # <<>> =>
            (IF idx > Len(next) THEN Len(next) ELSE idx) \in DOMAIN next
        BY <1>1, <1>3, <1>6, <1>7
    <2> QED
        BY <2>1 DEF IdsOf
<1>9. next # <<>> => active \in IdsOf(next)
    BY <1>1, <1>5, <1>7, <1>8
<1>10. IdsOf(next) \subseteq Ids
    <2>1. \A i \in DOMAIN next : next[i] \in Tab
        BY <1>5, <1>6, ElementOfSeq
    <2> QED
        BY <2>1 DEF IdsOf, Tab
<1>11. active \in Ids \cup {None}
    BY <1>9, <1>10
<1>12. Len(next) <= MaxTabs
    BY <1>1, <1>5, MaxTabsAssumption
<1>13. next = <<>> => active = None
    OBVIOUS
<1> HIDE DEF active
<1>14. Sensible(next, active)
    BY <1>5, <1>9, <1>11, <1>12, <1>13 DEF Sensible
<1> QED
    BY <1>4, <1>14, Rendered

LEMMA TabStep ==
    ASSUME Inv, ContainerList \/ TabBar \/ Reload
    PROVE  Inv'
<1>1. CASE handleSelectService
    <2>1. PICK found \in SUBSET listed : OpenTab(Service, found)
        BY <1>1 DEF handleSelectService, groupByService, filtered
    <2>2. found \in SUBSET Containers
        BY DEF Inv, ClusterOK
    <2> QED
        BY <1>1, <2>1, <2>2, Opened DEF handleSelectService, Ids
<1>2. ASSUME NEW id \in OtherIds, handleSelectContainer(id)
      PROVE  Inv'
    BY <1>2, Opened DEF handleSelectContainer, Ids
<1>3. ASSUME NEW id \in Ids, SelectTab(id)
      PROVE  Inv'
    <2>1. Sensible(tabs, id)
        <3>1. tabs # <<>>
            BY <1>3 DEF SelectTab, IdsOf
        <3> QED
            BY <1>3, <3>1 DEF SelectTab, Inv, TabsOK, Sensible
    <2> QED
        BY <1>3, <2>1, Rendered DEF SelectTab
<1>4. ASSUME NEW id \in Ids, CloseTab(id)
      PROVE  Inv'
    BY <1>4, Closed
<1>5. CASE Reload
    <2>1. tabs' = tabs /\ activeTabId' = activeTabId /\ UNCHANGED stored
        BY <1>5 DEF Reload, Inv, TabsOK
    <2>2. TabsOK'
        BY <2>1 DEF Inv, TabsOK, Sensible
    <2>3. ViewOK' /\ query' \in Queries
        <3>1. tabs \in Seq(Tab) /\ query \in Queries /\ Viewer(tabs)
            BY <1>5 DEF Reload, Inv, TabsOK, Sensible, ClusterOK
        <3> QED
            BY <2>1, <3>1, Viewed
    <2>4. ClusterOK'
        BY <1>5, <2>3 DEF Reload, Inv, ClusterOK, envVars
    <2> QED
        BY <2>2, <2>3, <2>4 DEF Inv
<1> QED
    BY <1>1, <1>2, <1>3, <1>4, <1>5 DEF ContainerList, TabBar

-----------------------------------------------------------------------------
(* The steps that leave the tabs alone.                                     *)

LEMMA TabsKept ==
    ASSUME Inv, UNCHANGED tabVars, ClusterOK', ViewOK'
    PROVE  Inv'
BY DEF Inv, TabsOK, Sensible, tabVars

LEMMA WrongContainers ==
    ASSUME NEW active, NEW box, NEW running
    PROVE  Wrong(active, box, running) \subseteq Containers
BY DEF Wrong

LEMMA ListStep ==
    ASSUME Inv, Poll \/ Answered \/ Arrives \/ QueryFails
    PROVE  Inv'
<1>1. Mounted' = Mounted
    BY DEF Poll, Answered, Arrives, QueryFails, tabVars, Mounted
<1>2. CASE Poll \/ Answered \/ QueryFails
    <2>1. UNCHANGED <<envVars, listed, tabVars, viewVars>>
        BY <1>2 DEF Poll, Answered, QueryFails
    <2>2. query' \in Queries
        <3>1. CASE Poll
            BY <3>1 DEF Poll, Ask, Queries
        <3>2. CASE Answered
            BY <3>2 DEF Answered, listContainers, Inv, ClusterOK, Queries
        <3>3. CASE QueryFails
            BY <3>3 DEF QueryFails, Idle, Queries
        <3> QED
            BY <1>2, <3>1, <3>2, <3>3
    <2>3. ClusterOK' /\ ViewOK'
        BY <1>1, <2>1, <2>2 DEF Inv, ClusterOK, ViewOK, envVars, viewVars
    <2> QED
        BY <2>1, <2>3, TabsKept
<1>3. CASE Arrives
    <2>1. query.list \subseteq Containers
        BY DEF Inv, ClusterOK, Queries
    <2>2. ClusterOK'
        BY <1>3, <2>1 DEF Arrives, Inv, ClusterOK, Queries, Idle, envVars
    <2>3. ViewOK'
        BY <1>1, <1>3, <2>1, WrongContainers DEF Arrives, Inv, ViewOK
    <2> QED
        BY <1>3, <2>2, <2>3, TabsKept DEF Arrives
<1> QED
    BY <1>2, <1>3

LEMMA ViewStep ==
    ASSUME Inv, Pause \/ resumeStream \/ Established \/ onData
    PROVE  Inv'
<1>1. UNCHANGED <<envVars, listed, tabVars>> /\ Mounted' = Mounted
    BY DEF Pause, resumeStream, Established, onData, listVars, tabVars, Mounted
<1>2. query' \in Queries
    <2>1. CASE resumeStream
        BY <2>1 DEF resumeStream, Ask, Inv, ClusterOK, Queries
    <2>2. CASE Pause \/ Established \/ onData
        BY <2>2 DEF Pause, Established, onData, listVars, Inv, ClusterOK
    <2> QED
        BY <2>1, <2>2
<1>3. ClusterOK'
    BY <1>1, <1>2 DEF Inv, ClusterOK, envVars
<1>4. ViewOK'
    <2>1. CASE Pause
        <3>1. <<>> \in Seq(Entries)
            BY EmptySeq
        <3> QED
            BY <1>1, <2>1, <3>1, WrongContainers DEF Pause, Inv, ViewOK
    <2>2. CASE resumeStream
        BY <1>1, <2>2 DEF resumeStream, Inv, ViewOK
    <2>3. CASE Established
        BY <1>1, <2>3 DEF Established, Inv, ViewOK
    <2>4. CASE onData
        <3>1. Head(inbox) \in Entries /\ Tail(inbox) \in Seq(Entries)
            BY <2>4, HeadTailProperties DEF onData, Inv, ViewOK
        <3>2. activeContainers' \subseteq Containers
            BY <2>4, <3>1
            DEF onData, Handled, ensureActiveContainer, Entries, Inv, ViewOK
        <3> QED
            BY <1>1, <2>4, <3>1, <3>2 DEF onData, Inv, ViewOK
    <2> QED
        BY <2>1, <2>2, <2>3, <2>4
<1> QED
    BY <1>1, <1>3, <1>4, TabsKept

\* What is on its way was sent to a viewer that listens.
LEMMA Sent ==
    ASSUME Inv, NEW c \in Containers,
           NEW event \in {"container_started", "container_stopped", "line"},
           UNCHANGED <<tabVars, isPaused, subscription, activeContainers>>,
           gap' \subseteq Containers,
           inbox' = inbox \/ (subscription = "on" /\ Published(event, c))
    PROVE  ViewOK'
<1>1. Mounted' = Mounted
    BY DEF tabVars, Mounted
<1>2. CASE inbox' = inbox
    BY <1>1, <1>2 DEF Inv, ViewOK
<1>3. CASE subscription = "on" /\ Published(event, c)
    <2>1. inbox' \in Seq(Entries)
        <3>1. [event |-> event, container |-> c] \in Entries
            BY DEF Entries
        <3> QED
            BY <1>3, <3>1, AppendProperties DEF Published, Inv, ViewOK
    <2> QED
        BY <1>1, <1>3, <2>1 DEF Inv, ViewOK
<1> QED
    BY <1>2, <1>3

LEMMA ClusterStep ==
    ASSUME Inv, NEW c \in Containers, Starts(c) \/ Stops(c) \/ Logs(c) \/ Trails(c)
    PROVE  Inv'
<1>1. UNCHANGED <<listVars, tabVars, isPaused, subscription, activeContainers>>
    BY DEF Starts, Stops, Logs, Trails, Event
<1>2. ClusterOK'
    BY <1>1 DEF Starts, Stops, Logs, Trails, Event, envVars, listVars, Inv, ClusterOK
<1>3. gap' \subseteq Containers
    BY WrongContainers
    DEF Starts, Stops, Logs, Trails, Event, Delivered, Lost, Inv, ViewOK
<1>4. \E event \in {"container_started", "container_stopped", "line"} :
         inbox' = inbox \/ (subscription = "on" /\ Published(event, c))
    BY DEF Starts, Stops, Logs, Trails, Event, Delivered, Lost
<1>5. ViewOK'
    BY <1>1, <1>3, <1>4, Sent
<1> QED
    BY <1>1, <1>2, <1>5, TabsKept

LEMMA InvStep ==
    ASSUME Inv, [Next]_vars
    PROVE  Inv'
<1>1. CASE ContainerList \/ TabBar \/ Reload
    BY <1>1, TabStep
<1>2. CASE Poll \/ Answered \/ Arrives \/ QueryFails
    BY <1>2, ListStep
<1>3. CASE togglePause \/ scrollToBottom \/ Established \/ onData
    BY <1>3, ViewStep DEF togglePause, scrollToBottom
<1>4. ASSUME NEW c \in Containers, Starts(c) \/ Stops(c) \/ Logs(c) \/ Trails(c)
      PROVE  Inv'
    BY <1>4, ClusterStep
<1>5. CASE UNCHANGED vars
    BY <1>5
    DEF vars, envVars, listVars, tabVars, viewVars, Inv, ClusterOK, TabsOK, Sensible,
        ViewOK, Mounted
<1> QED
    BY <1>1, <1>2, <1>3, <1>4, <1>5 DEF Next

LEMMA Invariance == Spec => []Inv
<1> QED
    BY InvInit, InvStep, PTL DEF Spec

-----------------------------------------------------------------------------
(* The legend.                                                              *)

\* Two ways to say what the entries on their way will do: the last one about a
\* container decides, or they are handled one after the other.
LEMMA ShownAppend ==
    ASSUME NEW active \in SUBSET Containers, NEW box \in Seq(Entries),
           NEW entry \in Entries
    PROVE  ShownAfter(active, Append(box, entry)) = Handled(ShownAfter(active, box), entry)
<1> DEFINE next == Append(box, entry)
<1>1. /\ Len(box) \in Nat /\ DOMAIN box = 1 .. Len(box)
      /\ next \in Seq(Entries) /\ Len(next) = Len(box) + 1
      /\ \A i \in 1 .. Len(box) : next[i] = box[i]
      /\ next[Len(box) + 1] = entry
    BY LenProperties, AppendProperties
<1>2. DOMAIN next = 1 .. Len(box) + 1
    BY <1>1, LenProperties
<1> HIDE DEF next
<1>3. ASSUME NEW c \in Containers, c # entry.container
      PROVE  c \in ShownAfter(active, next) <=> c \in ShownAfter(active, box)
    <2>1. (\A i \in DOMAIN next : next[i].container # c)
            <=> \A i \in DOMAIN box : box[i].container # c
        BY <1>1, <1>2, <1>3
    <2>2. ASSUME NEW i \in DOMAIN box
          PROVE  (\A j \in i + 1 .. Len(next) : next[j].container # c)
                   <=> \A j \in i + 1 .. Len(box) : box[j].container # c
        BY <1>1, <1>3
    <2>3. next[Len(next)].container # c
        BY <1>1, <1>3
    <2>4. (\E i \in DOMAIN next :
              /\ next[i].container = c /\ next[i].event # "container_stopped"
              /\ \A j \in i + 1 .. Len(next) : next[j].container # c)
          <=> \E i \in DOMAIN box :
                 /\ box[i].container = c /\ box[i].event # "container_stopped"
                 /\ \A j \in i + 1 .. Len(box) : box[j].container # c
        <3>1. \A i \in DOMAIN next : next[i].container = c => i \in DOMAIN box
            BY <1>1, <1>2, <2>3
        <3>2. \A i \in DOMAIN box : i \in DOMAIN next /\ next[i] = box[i]
            BY <1>1, <1>2
        <3> QED
            BY <2>2, <3>1, <3>2
    <2> QED
        BY <2>1, <2>4 DEF ShownAfter
<1>4. ASSUME NEW c \in Containers, c = entry.container
      PROVE  c \in ShownAfter(active, next) <=> entry.event # "container_stopped"
    <2>1. ~ \A i \in DOMAIN next : next[i].container # c
        BY <1>1, <1>2, <1>4
    <2>2. \A i \in DOMAIN box : ~ \A j \in i + 1 .. Len(next) : next[j].container # c
        BY <1>1, <1>4
    <2>3. \A i \in DOMAIN next : i \in DOMAIN box \/ i = Len(next)
        BY <1>1, <1>2
    <2>4. Len(next) \in DOMAIN next /\ Len(next) + 1 .. Len(next) = {}
        BY <1>1, <1>2
    <2> QED
        BY <1>1, <1>4, <2>1, <2>2, <2>3, <2>4 DEF ShownAfter
<1>5. entry.container \in Containers /\ ShownAfter(active, box) \subseteq Containers
    BY DEF Entries, ShownAfter
<1>6. ShownAfter(active, next) \subseteq Containers
    BY DEF ShownAfter
<1> QED
    BY <1>3, <1>4, <1>5, <1>6 DEF next, Handled, ensureActiveContainer

LEMMA ShownHead ==
    ASSUME NEW active \in SUBSET Containers, NEW box \in Seq(Entries), box # <<>>
    PROVE  ShownAfter(Handled(active, Head(box)), Tail(box)) = ShownAfter(active, box)
<1> DEFINE rest == Tail(box)
           head == Head(box)
           LastOf(c, s, i) ==
               /\ s[i].container = c /\ s[i].event # "container_stopped"
               /\ \A j \in i + 1 .. Len(s) : s[j].container # c
<1>1. /\ Len(box) \in Nat \ {0} /\ DOMAIN box = 1 .. Len(box)
      /\ rest \in Seq(Entries) /\ Len(rest) = Len(box) - 1
      /\ \A i \in 1 .. Len(rest) : rest[i] = box[i + 1]
      /\ head = box[1] /\ head \in Entries
    BY LenProperties, HeadTailProperties, EmptySeq
<1>2. DOMAIN rest = 1 .. Len(box) - 1
    BY <1>1, LenProperties
<1> HIDE DEF rest, head
<1>3. ASSUME NEW c \in Containers
      PROVE  c \in ShownAfter(Handled(active, head), rest) <=> c \in ShownAfter(active, box)
    <2>1. (\A i \in DOMAIN rest : rest[i].container # c)
            <=> \A i \in 2 .. Len(box) : box[i].container # c
        <3>1. \A i \in 2 .. Len(box) : i - 1 \in DOMAIN rest /\ rest[i - 1] = box[i]
            BY <1>1, <1>2
        <3>2. \A i \in DOMAIN rest : i + 1 \in 2 .. Len(box) /\ rest[i] = box[i + 1]
            BY <1>1, <1>2
        <3> QED
            BY <3>1, <3>2
    <2>2. ASSUME NEW i \in DOMAIN rest
          PROVE  LastOf(c, rest, i) <=> LastOf(c, box, i + 1)
        <3>1. \A j \in (i + 1) + 1 .. Len(box) :
                 j - 1 \in i + 1 .. Len(rest) /\ rest[j - 1] = box[j]
            BY <1>1, <1>2
        <3>2. \A j \in i + 1 .. Len(rest) :
                 j + 1 \in (i + 1) + 1 .. Len(box) /\ rest[j] = box[j + 1]
            BY <1>1, <1>2
        <3>3. rest[i] = box[i + 1]
            BY <1>1, <1>2
        <3> QED
            BY <3>1, <3>2, <3>3
    <2>3. (\E i \in DOMAIN rest : LastOf(c, rest, i))
            <=> \E i \in 2 .. Len(box) : LastOf(c, box, i)
        <3>1. \A i \in 2 .. Len(box) : i - 1 \in DOMAIN rest /\ (i - 1) + 1 = i
            BY <1>1, <1>2
        <3>2. \A i \in DOMAIN rest : i + 1 \in 2 .. Len(box)
            BY <1>1, <1>2
        <3> HIDE DEF LastOf
        <3> QED
            BY <2>2, <3>1, <3>2
    <2>4. LastOf(c, box, 1) <=> /\ head.container = c /\ head.event # "container_stopped"
                                /\ \A i \in 2 .. Len(box) : box[i].container # c
        BY <1>1
    <2>5. DOMAIN box = {1} \cup 2 .. Len(box)
        BY <1>1
    <2>6. (\A i \in DOMAIN box : box[i].container # c)
            <=> head.container # c /\ \A i \in 2 .. Len(box) : box[i].container # c
        BY <1>1, <2>5
    <2>7. c \in Handled(active, head)
            <=> IF head.container = c THEN head.event # "container_stopped"
                                      ELSE c \in active
        BY DEF Handled, ensureActiveContainer
    <2>8. c \in ShownAfter(Handled(active, head), rest)
            <=> \/ c \in Handled(active, head)
                   /\ \A i \in DOMAIN rest : rest[i].container # c
                \/ \E i \in DOMAIN rest : LastOf(c, rest, i)
        BY DEF ShownAfter
    <2>9. c \in ShownAfter(active, box)
            <=> \/ c \in active /\ \A i \in DOMAIN box : box[i].container # c
                \/ \E i \in DOMAIN box : LastOf(c, box, i)
        BY DEF ShownAfter
    <2>10. (\E i \in DOMAIN box : LastOf(c, box, i))
             <=> LastOf(c, box, 1) \/ \E i \in 2 .. Len(box) : LastOf(c, box, i)
        BY <2>5
    <2> HIDE DEF LastOf
    <2> QED
        BY <2>1, <2>3, <2>4, <2>6, <2>7, <2>8, <2>9, <2>10
<1>4. /\ ShownAfter(active, box) \subseteq Containers
      /\ ShownAfter(Handled(active, head), rest) \subseteq Containers
    BY DEF ShownAfter
<1> QED
    BY <1>3, <1>4 DEF head, rest

\* An entry that tells what is true of its container closes the gap about it,
\* and leaves what is shown of the others.
LEMMA Tells ==
    ASSUME NEW active \in SUBSET Containers, NEW box \in Seq(Entries),
           NEW entry \in Entries, NEW before, NEW after,
           entry.event # "container_stopped" <=> entry.container \in after,
           \A c \in Containers \ {entry.container} : c \in before <=> c \in after
    PROVE  Wrong(active, Append(box, entry), after)
             \subseteq Wrong(active, box, before) \ {entry.container}
<1>1. ShownAfter(active, Append(box, entry)) = Handled(ShownAfter(active, box), entry)
    BY ShownAppend
<1> QED
    BY <1>1 DEF Wrong, Handled, ensureActiveContainer

\* A viewer that is mounted knows what it may be wrong about.
LEMMA ViewerExplained ==
    ASSUME NEW ts, Viewer(ts), tabs' = ts, up' = up
    PROVE  LegendExplained'
BY DEF Viewer, LegendExplained, Mounted, IdsOf, Wrong, ShownAfter

LEMMA RenderedExplained ==
    ASSUME LegendExplained, NEW ts, NEW active, RenderTabs(ts, active), up' = up
    PROVE  LegendExplained'
<1>1. tabs' = ts
    BY DEF RenderTabs
<1>2. CASE (Service \in IdsOf(ts)) = Mounted
    <2>1. UNCHANGED viewVars /\ Mounted' = Mounted
        BY <1>1, <1>2 DEF RenderTabs, Mounted
    <2> QED
        BY <2>1 DEF LegendExplained, Wrong, ShownAfter, viewVars
<1>3. CASE (Service \in IdsOf(ts)) # Mounted
    BY <1>1, <1>3, ViewerExplained DEF RenderTabs
<1> QED
    BY <1>2, <1>3

LEMMA LegendTabs ==
    ASSUME Inv, LegendExplained, ContainerList \/ TabBar \/ Reload
    PROVE  LegendExplained'
<1>1. up' = up
    BY DEF ContainerList, handleSelectService, handleSelectContainer, TabBar,
           SelectTab, CloseTab, Reload, envVars
<1>2. CASE ContainerList \/ TabBar
    <2>1. ASSUME NEW id, NEW containers, OpenTab(id, containers)
          PROVE  \E ts, active : RenderTabs(ts, active)
        BY <2>1 DEF OpenTab
    <2>2. \E ts, active : RenderTabs(ts, active)
        BY <1>2, <2>1 DEF ContainerList, handleSelectService, handleSelectContainer,
                          TabBar, SelectTab, CloseTab
    <2> QED
        BY <1>1, <2>2, RenderedExplained
<1>3. CASE Reload
    BY <1>1, <1>3, ViewerExplained DEF Reload
<1> QED
    BY <1>2, <1>3

LEMMA LegendView ==
    ASSUME Inv, LegendExplained,
           \/ Poll \/ Answered \/ Arrives \/ QueryFails
           \/ Pause \/ resumeStream \/ Established \/ onData
    PROVE  LegendExplained'
<1>1. up' = up /\ Mounted' = Mounted
    BY DEF Poll, Answered, Arrives, QueryFails, Pause, resumeStream, Established,
           onData, envVars, tabVars, Mounted
<1>2. CASE UNCHANGED <<activeContainers, inbox, gap>>
    BY <1>1, <1>2 DEF LegendExplained, Wrong, ShownAfter
<1>3. CASE gap' = Wrong(activeContainers', inbox', up')
    BY <1>1, <1>3 DEF LegendExplained, Wrong, ShownAfter
<1>4. CASE onData
    <2>1. /\ activeContainers \in SUBSET Containers
          /\ inbox \in Seq(Entries) /\ inbox # <<>>
        BY <1>4 DEF onData, Inv, ViewOK
    <2>2. ShownAfter(Handled(activeContainers, Head(inbox)), Tail(inbox))
            = ShownAfter(activeContainers, inbox)
        BY <2>1, ShownHead
    <2>3. Wrong(activeContainers', inbox', up') = Wrong(activeContainers, inbox, up)
        BY <1>1, <1>4, <2>2 DEF onData, Wrong
    <2> QED
        BY <1>1, <1>4, <2>3 DEF onData, LegendExplained, Wrong, ShownAfter
<1>5. CASE Poll \/ Answered \/ QueryFails \/ resumeStream \/ Established
    BY <1>2, <1>5 DEF Poll, Answered, QueryFails, resumeStream, Established, viewVars
<1>6. CASE Pause
    <2>1. Wrong(activeContainers', inbox', up') = Wrong(activeContainers, <<>>, up)
        BY <1>1, <1>6 DEF Pause, Wrong, ShownAfter
    <2> QED
        BY <1>3, <1>6, <2>1 DEF Pause
<1>7. CASE Arrives
    <2>1. CASE query.resumed
        <3>1. Wrong(activeContainers', inbox', up') = Wrong(query.list, inbox, up)
            BY <1>1, <1>7, <2>1 DEF Arrives, Wrong, ShownAfter
        <3> QED
            BY <1>3, <1>7, <2>1, <3>1 DEF Arrives
    <2>2. CASE ~query.resumed
        BY <1>2, <1>7, <2>2 DEF Arrives
    <2> QED
        BY <2>1, <2>2
<1> QED
    BY <1>4, <1>5, <1>6, <1>7

LEMMA LegendCluster ==
    ASSUME Inv, LegendExplained, NEW c \in Containers,
           Starts(c) \/ Stops(c) \/ Logs(c) \/ Trails(c)
    PROVE  LegendExplained'
<1>1. Mounted' = Mounted /\ activeContainers' = activeContainers
    BY DEF Starts, Stops, Logs, Trails, Event, tabVars, Mounted
<1>2. activeContainers \in SUBSET Containers /\ inbox \in Seq(Entries)
    BY DEF Inv, ViewOK
<1>3. CASE Mounted' => gap' = Wrong(activeContainers, inbox', up')
    BY <1>1, <1>3 DEF LegendExplained, Wrong, ShownAfter
<1>4. ASSUME NEW event \in {"container_started", "container_stopped", "line"},
             Delivered(event, c), event # "container_stopped" <=> c \in up',
             \A d \in Containers \ {c} : d \in up <=> d \in up'
      PROVE  LegendExplained'
    <2> DEFINE entry == [event |-> event, container |-> c]
    <2>1. entry \in Entries /\ entry.container = c /\ entry.event = event
        BY DEF Entries
    <2>2. inbox' = Append(inbox, entry) /\ gap' = gap \ {c}
        BY <1>4 DEF Delivered, Published
    <2> HIDE DEF entry
    <2>3. Wrong(activeContainers, Append(inbox, entry), up')
            \subseteq Wrong(activeContainers, inbox, up) \ {c}
        BY <1>2, <1>4, <2>1, Tells
    <2>4. Wrong(activeContainers', inbox', up') \subseteq Wrong(activeContainers, inbox, up) \ {c}
        BY <1>1, <2>2, <2>3
    <2> QED
        BY <1>1, <2>2, <2>4 DEF LegendExplained, Wrong, ShownAfter
<1>5. CASE Starts(c)
    <2>1. CASE Delivered("container_started", c)
        BY <1>4, <1>5, <2>1 DEF Starts, Event
    <2>2. CASE Lost(up \cup {c})
        BY <1>3, <1>1, <1>5, <2>2 DEF Starts, Event, Lost, Wrong, ShownAfter
    <2> QED
        BY <1>5, <2>1, <2>2 DEF Starts, Event
<1>6. CASE Stops(c)
    <2>1. CASE Delivered("container_stopped", c)
        BY <1>4, <1>6, <2>1 DEF Stops, Event
    <2>2. CASE Lost(up \ {c})
        BY <1>3, <1>1, <1>6, <2>2 DEF Stops, Event, Lost, Wrong, ShownAfter
    <2> QED
        BY <1>6, <2>1, <2>2 DEF Stops, Event
<1>7. CASE Logs(c)
    <2>1. Delivered("line", c) /\ c \in up' /\ up' = up
        BY <1>7 DEF Logs, envVars
    <2> QED
        BY <1>4, <2>1
<1>8. CASE Trails(c)
    BY <1>3, <1>8 DEF Trails, envVars, Wrong, ShownAfter
<1> QED
    BY <1>5, <1>6, <1>7, <1>8

LEMMA LegendStep ==
    ASSUME Inv, LegendExplained, [Next]_vars
    PROVE  LegendExplained'
<1>1. CASE ContainerList \/ TabBar \/ Reload
    BY <1>1, LegendTabs
<1>2. CASE \/ Poll \/ Answered \/ Arrives \/ QueryFails
           \/ togglePause \/ scrollToBottom \/ Established \/ onData
    BY <1>2, LegendView DEF togglePause, scrollToBottom
<1>3. ASSUME NEW c \in Containers, Starts(c) \/ Stops(c) \/ Logs(c) \/ Trails(c)
      PROVE  LegendExplained'
    BY <1>3, LegendCluster
<1>4. CASE UNCHANGED vars
    BY <1>4 DEF vars, envVars, tabVars, viewVars, LegendExplained, Mounted, Wrong, ShownAfter
<1> QED
    BY <1>1, <1>2, <1>3, <1>4 DEF Next

\* In every order of clicks, reloads, lists, events and lines: the page keeps
\* its types, and nothing is on its way to a viewer that is paused or closed
\* (ServiceLogViewer.tsx:169-172).
THEOREM TypeCorrect == Spec => []TypeOK
<1> QED
    BY InvImplies, Invariance, PTL

\* For any number of ids and any limit of two tabs or more: whatever is opened,
\* evicted, closed and restored (useTabs.ts:61-98), ids stay distinct, the
\* limit is kept, one of the tabs is the active one, and the sessionStorage
\* holds what is shown.
THEOREM TabsStaySensible == Spec => []TabsMakeSense
<1> QED
    BY InvImplies, Invariance, PTL

\* For any number of containers, and however starts, stops, lines, lost events,
\* shared lists, pauses and changes of tab follow each other: once the viewer has
\* handled what is on its way, its legend (ServiceLogViewer.tsx:145-167) is wrong
\* about no container that `gap` does not account for.
THEOREM LegendIsExplained == Spec => []LegendExplained
<1>1. Init => LegendExplained
    BY DEF Init, LegendExplained, Mounted, IdsOf
<1> QED
    BY <1>1, LegendStep, Invariance, PTL DEF Spec
===============================================================================
