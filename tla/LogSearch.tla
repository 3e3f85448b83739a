------------------------------- MODULE LogSearch -------------------------------
(***************************************************************************)
(* Searching the log files of several nodes page by page: the reader of    *)
(* each log-streamer (internal/logreader), the gateway that merges what    *)
(* they answer (log-history.service.ts) and the panel that asks for the    *)
(* next page (SearchPanel.tsx), while the applications go on writing.      *)
(*                                                                         *)
(* A line is [id, ts, hit]: its place among all that was ever written, by  *)
(* which this module tells it from others (the code has file and number);  *)
(* its timestamp; and whether the filters (level, keyword, dates) accept   *)
(* it.  A line in which the parser finds no timestamp has id and ts 0.     *)
(* Timestamps are those of one format, so that their order as strings is   *)
(* that of time.  They say nothing of the order of writing: lines share a  *)
(* timestamp, and the clocks of writers and nodes differ.                  *)
(***************************************************************************)
EXTENDS Integers, Sequences, FiniteSets, TLC, SequencesExt

CONSTANTS
    NodeCount,   \* log-streamers, numbered as discoverLogStreamers lists them
    Limit,       \* lines on a page
    Names,       \* what the order of files goes by: [date, rotation, listed]
    Writes,      \* what an application writes at once: the "hit"s of an entry
                 \* and of its continuation lines
    Failures,    \* may nodes, files and whole queries fail?
    MaxFiles,    \* bound: files over all nodes
    MaxTime,     \* bound: timestamps
    MaxEntries   \* bound: entries written

ASSUME LimitAssumption == Limit \in Nat \ {0}
ASSUME BoundsAssumption ==
    /\ NodeCount \in Nat \ {0}
    /\ MaxFiles \in Nat /\ MaxTime \in Nat /\ MaxEntries \in Nat
ASSUME NamesAssumption ==
    IsFiniteSet(Names) /\ Names \subseteq [date : Nat, rotation : Nat, listed : Nat]
ASSUME WritesAssumption == Writes \subseteq Seq(BOOLEAN) \ {<<>>}
ASSUME FailuresAssumption == Failures \in BOOLEAN

Nodes == 1 .. NodeCount

VARIABLES
    files,     \* files[n]: the log files of an application on node n
    written,   \* entries written so far
    loading,   \* is a search under way?
    after,     \* its cursor, 0 for none
    waiting,   \* the nodes that are still to answer it
    answers,   \* answers[n]: what node n answered to it, NoPage for nothing
    page,      \* the result shown
    askedAt,   \* history: entries written when the search was sent
    whole,     \* history: the nodes that answered it from all their files
    late,      \* history: entries such a node read after a later one
    shown      \* history: entries of the earlier pages

logVars == <<files, written>>
searchVars == <<loading, after, waiting, answers, page, askedAt, whole, late, shown>>
vars == <<logVars, searchVars>>

Times == 0 .. MaxTime
Ids == 0 .. MaxEntries
Lines == [id : Ids, ts : Times, hit : BOOLEAN]
Files == [name : Names, lines : Seq(Lines)]
PageLines == [id : Ids, ts : Times, node : Nodes]
Pages == [lines : Seq(PageLines), hasMore : BOOLEAN]

NoPage == [lines |-> <<>>, hasMore |-> FALSE]

TypeOK ==
    /\ files \in [Nodes -> SUBSET Files]
    /\ written \in Ids
    /\ loading \in BOOLEAN
    /\ after \in Times
    /\ waiting \subseteq Nodes
    /\ answers \in [Nodes -> Pages]
    /\ page \in Pages
    /\ Len(page.lines) <= Limit
    /\ askedAt \in Ids
    /\ whole \subseteq Nodes
    /\ late \subseteq Ids
    /\ shown \subseteq PageLines

Init ==
    /\ files = [n \in Nodes |-> {}]
    /\ written = 0
    /\ loading = FALSE
    /\ after = 0
    /\ waiting = {}
    /\ answers = [n \in Nodes |-> NoPage]
    /\ page = NoPage
    /\ askedAt = 0
    /\ whole = {}
    /\ late = {}
    /\ shown = {}

-------------------------------------------------------------------------------
(* A node: the files in order, and the lines of each up to a limit.        *)

\* By date, rotation number and, SliceStable, the order of the listing.  It need
\* not be the order of writing: the base file has no number and comes first.
Older_NewestChunk(f, g) ==  \* mutant: the chunks of a day newest first
    LET a == f.name  b == g.name
    IN  \/ a.date < b.date
        \/ a.date = b.date /\ a.rotation > b.rotation
        \/ a.date = b.date /\ a.rotation = b.rotation /\ a.listed < b.listed
Precedes(a, b) ==
    \/ a.date < b.date
    \/ a.date = b.date /\ a.rotation < b.rotation
    \/ a.date = b.date /\ a.rotation = b.rotation /\ a.listed < b.listed
Older(f, g) == Precedes(f.name, g.name)

\* What sorting makes of a set: each element comes after as many as are before it.
Ordered(S, Before(_, _)) ==
    [k \in 1 .. Cardinality(S) |->
        CHOOSE x \in S : Cardinality({y \in S : Before(y, x)}) = k - 1]

ListFiles(n) == Ordered(files[n], Older)

Accepts_Inclusive(l, cursor) ==  \* mutant: the line the cursor comes from again
    l.hit /\ (l.ts # 0 => l.ts >= cursor)
Accepts(l, cursor) == l.hit /\ (l.ts # 0 => l.ts > cursor)

NoEntry == [id |-> 0, ts |-> 0, hit |-> FALSE]

\* The entry under way is appended to the lines found, if the filters accept it.
Flushed(found, entry, cursor) ==
    IF Accepts(entry, cursor) THEN Append(found, entry) ELSE found

\* What searchFile does with the next line, maybe the last one, of a file.
Scanned(s, line, last, cursor, limit) ==
    LET flushed == Flushed(s.found, s.entry, cursor)
        appended == Flushed(s.found, line, cursor)
    IN  CASE s.done -> s
          [] ~s.done /\ line.ts # 0 /\ Len(flushed) >= limit ->
               [found |-> flushed, entry |-> NoEntry, hasMore |-> TRUE, done |-> TRUE]
          [] ~s.done /\ line.ts # 0 /\ Len(flushed) < limit ->
               [s EXCEPT !.found = flushed, !.entry = line]
          [] ~s.done /\ line.ts = 0 /\ s.entry.ts # 0 ->
               [s EXCEPT !.entry.hit = @ \/ line.hit]
          [] ~s.done /\ line.ts = 0 /\ s.entry.ts = 0 ->
               [s EXCEPT !.found = appended,
                         !.hasMore = Len(appended) >= limit /\ ~last,
                         !.done = Len(appended) >= limit]

Scan(lines, cursor, limit) ==
    LET start == [found |-> <<>>, entry |-> NoEntry, hasMore |-> FALSE, done |-> FALSE]
        upTo[i \in 0 .. Len(lines)] ==
          IF i = 0 THEN start
          ELSE Scanned(upTo[i - 1], lines[i], i = Len(lines), cursor, limit)
    IN  upTo[Len(lines)]

\* At the end of the file the entry under way is flushed.
SearchFile_NoFlush(lines, cursor, limit) ==  \* mutant: the last entry is forgotten
    LET s == Scan(lines, cursor, limit)
    IN  [lines |-> s.found, hasMore |-> s.hasMore]
SearchFile(lines, cursor, limit) ==
    LET s == Scan(lines, cursor, limit)
        found == Flushed(s.found, s.entry, cursor)
    IN  IF s.done THEN [lines |-> s.found, hasMore |-> s.hasMore]
        ELSE IF Len(found) >= limit
             THEN [lines |-> SubSeq(found, 1, limit), hasMore |-> TRUE]
             ELSE [lines |-> found, hasMore |-> FALSE]

\* Search: file after file until the page is full; unreadable files are passed over.
Read(s, f, cursor, unreadable) ==
    LET r == SearchFile(f.lines, cursor, Limit - Len(s.lines))
    IN  IF Len(s.lines) >= Limit THEN [s EXCEPT !.hasMore = TRUE]
        ELSE IF f \in unreadable THEN s
        ELSE [lines |-> s.lines \o r.lines, hasMore |-> s.hasMore \/ r.hasMore]

Search(n, cursor, unreadable) ==
    LET list == ListFiles(n)
        upTo[i \in 0 .. Len(list)] ==
          IF i = 0 THEN NoPage ELSE Read(upTo[i - 1], list[i], cursor, unreadable)
        result == upTo[Len(list)]
    IN  [lines |-> [i \in DOMAIN result.lines |->
                       [id |-> result.lines[i].id, ts |-> result.lines[i].ts,
                        node |-> n]],
         hasMore |-> result.hasMore]

-------------------------------------------------------------------------------
(* The gateway: the answers put together, sorted and cut.                  *)

\* The lines of all settled answers by timestamp, those without one first.  The
\* sort is stable: lines with one timestamp stay in the order of the nodes, and
\* those of a node as they were.
Places(got) == UNION {{n} \X DOMAIN got[n].lines : n \in Nodes}

Sorted(got) ==
    LET LineAt(p) == got[p[1]].lines[p[2]]
        Before(p, q) == \/ LineAt(p).ts < LineAt(q).ts
                        \/ /\ LineAt(p).ts = LineAt(q).ts
                           /\ p[1] < q[1] \/ (p[1] = q[1] /\ p[2] < q[2])
        order == Ordered(Places(got), Before)
    IN  [k \in DOMAIN order |-> LineAt(order[k])]

SomeHasMore_Ignored(got) ==  \* mutant: more only if the cut leaves some
    FALSE
SomeHasMore(got) == \E n \in Nodes : got[n].hasMore

Merged_Uncut(got) ==  \* mutant: the pages of the nodes make one longer page
    [lines |-> Sorted(got), hasMore |-> SomeHasMore(got)]
Merged(got) ==
    LET all == Sorted(got)
        full == Len(all) > Limit
    IN  [lines |-> IF full THEN SubSeq(all, 1, Limit) ELSE all,
         hasMore |-> full \/ SomeHasMore(got)]

-------------------------------------------------------------------------------
(* Applications write, the panel asks, nodes answer.                       *)

\* An application writes an entry with its continuation lines to one of its
\* files.
Write(n) ==
    \E w \in Writes, f \in files[n], t \in 1 .. MaxTime :
        /\ written < MaxEntries
        /\ written' = written + 1
        /\ files' = [files EXCEPT ![n] =
               (@ \ {f}) \cup
               {[f EXCEPT !.lines = @ \o [i \in DOMAIN w |->
                    [id |-> IF i = 1 THEN written + 1 ELSE 0,
                     ts |-> IF i = 1 THEN t ELSE 0, hit |-> w[i]]]]}]
        /\ UNCHANGED searchVars

\* A file starts with a line the parser finds no timestamp in.
WriteBanner(n) ==
    \E f \in files[n] :
        /\ f.lines = <<>>
        /\ files' = [files EXCEPT ![n] =
               (@ \ {f}) \cup
               {[f EXCEPT !.lines = <<[id |-> 0, ts |-> 0, hit |-> TRUE]>>]}]
        /\ UNCHANGED <<written, searchVars>>

\* Logging starts a file, and renames one when it rolls over; the date of a file
\* without one in its name is that of the last write to it.
FreeNames(n) == Names \ {f.name : f \in files[n]}

NewFile(n) ==
    \E m \in FreeNames(n) :
        /\ Cardinality(UNION {{k} \X files[k] : k \in Nodes}) < MaxFiles
        /\ files' = [files EXCEPT ![n] = @ \cup {[name |-> m, lines |-> <<>>]}]
        /\ UNCHANGED <<written, searchVars>>

Rename(n) ==
    \E f \in files[n], m \in FreeNames(n) :
        /\ files' = [files EXCEPT ![n] = (@ \ {f}) \cup {[f EXCEPT !.name = m]}]
        /\ UNCHANGED <<written, searchVars>>

Ask(cursor) ==
    /\ loading' = TRUE
    /\ after' = cursor
    /\ waiting' = Nodes
    /\ answers' = [n \in Nodes |-> NoPage]
    /\ askedAt' = written
    /\ whole' = {}
    /\ late' = {}
    /\ UNCHANGED <<logVars, page>>

\* The search button, or Enter in the keyword field, which works while a search
\* is under way too: that one's answers are dropped.
NewSearch ==
    /\ Ask(0)
    /\ shown' = {}

\* "Load more", shown while the result has more; the last line's timestamp is
\* the cursor, and without one nothing happens.  (The filters are those of the
\* search: the panel would take the fields as they are now.)
Timed(p) == p.lines # <<>> /\ Last(p.lines).ts # 0

LoadMore ==
    /\ ~loading
    /\ page.hasMore
    /\ Timed(page)
    /\ Ask(Last(page.lines).ts)
    /\ shown' = shown \cup {l \in ToSet(page.lines) : l.ts # 0}

\* The entries of a file: a line with a timestamp and the lines up to the next
\* one, which the filters see as one.  Defined without the scan of searchFile.
EntryAt(lines, i) ==
    [id |-> lines[i].id,
     ts |-> lines[i].ts,
     hit |-> \E j \in i .. Len(lines) :
                lines[j].hit /\ \A k \in i + 1 .. j : lines[k].ts = 0]
Heads(lines) == {i \in DOMAIN lines : lines[i].ts # 0}
EntriesOf(lines) == {EntryAt(lines, i) : i \in Heads(lines)}
Entries(n) == UNION {EntriesOf(f.lines) : f \in files[n]}

\* The entries of node n that are read after one the filters accept and that has
\* a later timestamp: in a file, or in files whose order is not that of time.
Overtakes(d, e) == d.hit /\ d.ts > e.ts
OvertakenIn(lines) ==
    {lines[i].id : i \in {k \in Heads(lines) : \E j \in Heads(lines) :
        j < k /\ Overtakes(EntryAt(lines, j), lines[k])}}
OvertakenBy(f, g) ==
    {e.id : e \in {x \in EntriesOf(g.lines) :
        Precedes(f.name, g.name) /\ \E d \in EntriesOf(f.lines) : Overtakes(d, x)}}
Overtaken(n) == UNION (  {OvertakenIn(f.lines) : f \in files[n]}
                       \cup {OvertakenBy(p[1], p[2]) : p \in files[n] \X files[n]})

Answer(n) ==
    /\ loading
    /\ n \in waiting
    /\ waiting' = waiting \ {n}
    /\ \E unreadable \in IF Failures THEN SUBSET files[n] ELSE {{}} :
          /\ answers' = [answers EXCEPT ![n] = Search(n, after, unreadable)]
          /\ whole' = IF unreadable = {} THEN whole \cup {n} ELSE whole
          /\ late' = IF unreadable = {} THEN late \cup Overtaken(n) ELSE late
    /\ UNCHANGED <<logVars, loading, after, page, askedAt, shown>>

\* The node is not found, does not answer in time or its breaker is open.
NodeFails(n) ==
    /\ Failures
    /\ loading
    /\ n \in waiting
    /\ waiting' = waiting \ {n}
    /\ UNCHANGED <<logVars, loading, after, answers, page, askedAt, whole, late,
                   shown>>

Merge ==
    /\ loading
    /\ waiting = {}
    /\ loading' = FALSE
    /\ page' = Merged(answers)
    /\ answers' = [n \in Nodes |-> NoPage]
    /\ UNCHANGED <<logVars, after, waiting, askedAt, whole, late, shown>>

\* The gateway does not answer: nothing is shown.
QueryFails ==
    /\ Failures
    /\ loading
    /\ page' = NoPage
    /\ answers' = [n \in Nodes |-> NoPage]
    /\ whole' = {}
    /\ late' = {}
    /\ loading' = FALSE
    /\ waiting' = {}
    /\ UNCHANGED <<logVars, after, askedAt, shown>>

Next ==
    \/ \E n \in Nodes : \/ Write(n) \/ WriteBanner(n) \/ NewFile(n) \/ Rename(n)
                        \/ Answer(n) \/ NodeFails(n)
    \/ NewSearch \/ LoadMore \/ Merge \/ QueryFails

Spec == Init /\ [][Next]_vars

\* The gateway answers when the nodes have, and the user asks for more as long
\* as there is more.  (That every node answers is a premise of SearchEnds.)
Fairness == WF_vars(QueryFails \/ Merge) /\ WF_vars(LoadMore)

FairSpec == Spec /\ Fairness

-------------------------------------------------------------------------------
(* Properties.                                                             *)

LineOf(n, e) == [id |-> e.id, ts |-> e.ts, node |-> n]

\* A page leaves nothing out (reader.go:242, log-history.service.ts:140) of what
\* a node that read all its files had when the search was sent: everything after
\* the cursor if the page says that there is no more, and else everything before
\* the last line of the page, but for entries their node had read a later one
\* before.  Of the entries that share the last line's timestamp it promises
\* nothing.
PageIsComplete ==
    ~loading => \A n \in whole : \A e \in Entries(n) :
        /\ e.hit
        /\ after < e.ts
        /\ e.id <= askedAt
        /\ page.hasMore => /\ page.lines # <<>> /\ e.ts < Last(page.lines).ts
                           /\ e.id \notin late
        => LineOf(n, e) \in ToSet(page.lines)

\* What a page shows was written and asked for, is in the order of time, and is
\* on the page once and on no earlier page of the search, however the files grow
\* and rotate meanwhile.
PageIsSound ==
    ~loading => \A i \in DOMAIN page.lines :
        LET l == page.lines[i]
        IN  l.ts # 0 =>
              /\ [id |-> l.id, ts |-> l.ts, hit |-> TRUE] \in Entries(l.node)
              /\ l \notin shown
              /\ \A j \in 1 .. i - 1 :
                    page.lines[j].ts <= l.ts /\ page.lines[j] # l

\* No step of a search passes an entry over (SearchPanel.tsx:84): one that was
\* there when the search was sent, and that the pages so far show or the search
\* is still to come to, stays so to the end, through the answers, the cut and
\* the next cursor, while the applications write, if its node answers whole.
\* Two kinds are passed over, and no other: an entry with the very timestamp of
\* the last line of a page (reader.go:535), and one its node read after a later
\* one (reader.go:90).
Found(n, e) == LineOf(n, e) \in shown \cup IF loading THEN {} ELSE ToSet(page.lines)
Ahead(e) ==
    IF loading THEN after < e.ts
    ELSE page.hasMore /\ (page.lines # <<>> => Last(page.lines).ts < e.ts)
PassedOver(e) ==
    /\ ~loading /\ page.hasMore /\ page.lines # <<>>
    /\ Last(page.lines).ts = e.ts \/ e.id \in late

NothingIsSkipped ==
    [][ \A n \in Nodes : \A e \in Entries(n) :
          /\ e.hit /\ e.id <= askedAt
          /\ Found(n, e) \/ Ahead(e)
          /\ ~loading' => n \in whole'
          => Found(n, e)' \/ Ahead(e)' \/ PassedOver(e)' ]_vars

\* Asking for more comes to an end, if nodes answer (or time out) and the search
\* is not started anew: to a page without more, or one that ends with a line
\* without a timestamp (SearchPanel.tsx:115), since lines without one fill it.
SearchEnds ==
    []<>(waiting = {}) /\ <>[][~NewSearch]_vars
        => <>[](~loading /\ ~(page.hasMore /\ Timed(page)))
===============================================================================
