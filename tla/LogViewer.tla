------------------------------- MODULE LogViewer -------------------------------
(***************************************************************************)
(* One log viewer of the UI's live page: LogViewer.tsx for a container and *)
(* ServiceLogViewer.tsx for a service share its hooks.                     *)
(*   useLogBuffer  lines are collected in a batch that the next animation  *)
(*                 frame appends to the log, which is cut to MaxLines;     *)
(*   useLogSearch  filters the log, or walks through the matches in it;    *)
(*   useAutoScroll follows the end of the log.                             *)
(*                                                                         *)
(* A line is what the viewer can tell of it: when it arrived, its          *)
(* timestamp, how often each search word occurs in it, whether it tells of *)
(* a container's start or stop, and what highlightHtml marks of it.  The   *)
(* search counts in the raw message, the marks are drawn in the text of    *)
(* the HTML made of it: colour codes are gone there, and &, <, > and       *)
(* quotes are entities, so that a mark may stand on no occurrence and an   *)
(* occurrence may have no mark.  An action is a callback with the effects  *)
(* React runs for the state it sets.                                       *)
(***************************************************************************)
EXTENDS Naturals, Sequences, TLC, SequencesExt

CONSTANTS
    MaxLines,     \* the buffer's maxLines
    Words,        \* search words
    Kinds,        \* [time, found, marks, event] of the lines that may arrive
    MaxArrivals   \* bound: lines received

ASSUME WordsAssumption == "" \notin Words
ASSUME MaxLinesAssumption == MaxLines \in Nat \ {0}
ASSUME MaxArrivalsAssumption == MaxArrivals \in Nat
ASSUME KindsAssumption ==
    Kinds \subseteq [time : Nat, found : [Words -> Nat], marks : [Words -> Seq(Nat)],
                    event : BOOLEAN]

VARIABLES
    sortByTimestamp,   \* TRUE in a service's viewer
    batch,             \* batchRef: lines the log does not show yet
    frame,             \* rafRef: is flushBatch scheduled?
    logs,
    query,             \* what the input field holds: "" or a word
    debouncedQuery,
    mode,              \* "filter" or "find"
    currentMatchIndex, \* as stored; it is clamped when it is used
    isPaused,
    isFollowing,
    received,          \* history: the lines received since the last Clear
    arrivals,          \* how many lines have been received (bounded)
    stale              \* history: matches were dropped since the index was set

bufferVars == <<batch, frame, logs, received>>
searchVars == <<query, debouncedQuery, mode, currentMatchIndex, stale>>
scrollVars == <<isPaused, isFollowing>>
vars == <<sortByTimestamp, arrivals, bufferVars, searchVars, scrollVars>>

\* marks: for each mark that highlightHtml draws of a word, which of the raw
\* message's occurrences it stands on, 0 if none.
Line == [n : 1 .. MaxArrivals, time : Nat, found : [Words -> Nat],
         marks : [Words -> Seq(Nat)], event : BOOLEAN]

InService == sortByTimestamp

Init ==
    /\ sortByTimestamp \in BOOLEAN
    /\ arrivals = 0
    /\ batch = <<>> /\ frame = FALSE /\ logs = <<>> /\ received = <<>>
    /\ query = "" /\ debouncedQuery = "" /\ mode = "filter"
    /\ currentMatchIndex = 0 /\ stale = FALSE
    /\ isPaused = FALSE /\ isFollowing = TRUE

-----------------------------------------------------------------------------
(* useLogSearch.  The occurrences of a word are numbered through the log. *)

isSearching == debouncedQuery # ""
Finding == mode = "find" /\ isSearching
Found(line) == line.found[debouncedQuery]
HasMatch(line) == Found(line) > 0

\* countMatches and includes agree: a line is kept by the filter if the word
\* occurs in it.
filteredLogs == IF mode = "filter" /\ isSearching
                  THEN SelectSeq(logs, HasMatch) ELSE logs

\* matches, added up: how often the word occurs in the first i lines.
matchesUpTo[i \in 0 .. Len(logs)] ==
    IF i = 0 \/ ~Finding THEN 0 ELSE matchesUpTo[i - 1] + Found(logs[i])

totalMatches == matchesUpTo[Len(logs)]

UnclampedIndex == currentMatchIndex  \* mutant
clampedIndex ==
    IF totalMatches = 0 THEN 0
    ELSE IF currentMatchIndex < totalMatches THEN currentMatchIndex
    ELSE totalMatches - 1

\* The line of the current match and the position in it: the index is counted
\* down past the lines whose matches all come before.
NoMatch == [logIndex |-> 0, position |-> 0]
currentMatch ==
    LET passed == {i \in DOMAIN logs : matchesUpTo[i] <= clampedIndex}
    IN  IF totalMatches = 0 THEN NoMatch
        ELSE [logIndex |-> Cardinality(passed) + 1,
              position |-> clampedIndex - matchesUpTo[Cardinality(passed)]]

ResetIndex == currentMatchIndex' = 0 /\ stale' = FALSE
KeepIndex == UNCHANGED <<currentMatchIndex, stale>>

SetQuery(q) ==
    /\ query' = q /\ q # query
    /\ UNCHANGED <<sortByTimestamp, arrivals, bufferVars, debouncedQuery, mode,
                   currentMatchIndex, stale, scrollVars>>

\* The 300 ms have passed; a changed word sets the index back.
KeepIndexFires == KeepIndex  \* mutant: no effect on [trimmedQuery]
AfterQuery == ResetIndex

DebounceFires ==
    /\ debouncedQuery # query
    /\ debouncedQuery' = query
    /\ AfterQuery
    /\ UNCHANGED <<sortByTimestamp, arrivals, bufferVars, query, mode, scrollVars>>

ToggleMode ==
    /\ mode' = IF mode = "find" THEN "filter" ELSE "find"
    /\ ResetIndex
    /\ UNCHANGED <<sortByTimestamp, arrivals, bufferVars, query, debouncedQuery,
                   scrollVars>>

Step(by) ==
    /\ totalMatches > 0
    /\ currentMatchIndex' = (currentMatchIndex + by) % totalMatches
    /\ stale' = FALSE
    /\ UNCHANGED <<sortByTimestamp, arrivals, bufferVars, query, debouncedQuery,
                   mode, scrollVars>>

NextMatch == Step(1)
PrevMatch == Step(totalMatches - 1)

\* The keys n and Shift+N, listened to while there is something to find.
KeyDown == Finding /\ (NextMatch \/ PrevMatch)

-----------------------------------------------------------------------------
(* useLogBuffer.                                                            *)

AddLog(line) ==
    /\ batch' = Append(batch, line)
    /\ frame' = TRUE
    /\ received' = Append(received, line)
    /\ UNCHANGED logs

\* A line of the subscription, which is skipped while the viewer is paused.
OnData(kind) ==
    /\ ~isPaused
    /\ arrivals < MaxArrivals
    /\ arrivals' = arrivals + 1
    /\ AddLog([n |-> arrivals', time |-> kind.time, found |-> kind.found,
               marks |-> kind.marks, event |-> kind.event])
    /\ UNCHANGED <<sortByTimestamp, searchVars, scrollVars>>

\* Only a service tells of its containers' starts and stops.
ContainerData(kind) == ~InService /\ ~kind.event /\ OnData(kind)
ServiceData(kind) == InService /\ OnData(kind)

\* Array.prototype.sort is stable: each line comes after as many as are before
\* it, lines of one time as they were.
ByTime(s) ==
    LET Before(i) == {j \in DOMAIN s : \/ s[j].time < s[i].time
                                       \/ s[j].time = s[i].time /\ j < i}
    IN  [k \in DOMAIN s |-> s[CHOOSE i \in DOMAIN s : Cardinality(Before(i)) = k - 1]]

SortNeeded == /\ sortByTimestamp
              /\ logs # <<>>
              /\ \E i \in DOMAIN batch : batch[i].time < Last(logs).time

Merged == IF SortNeeded THEN ByTime(logs \o batch) ELSE logs \o batch

Uncut(s) == s  \* mutant
Cut(s) == IF Len(s) > MaxLines
            THEN SubSeq(s, Len(s) - MaxLines + 1, Len(s)) ELSE s

FlushBatch ==
    /\ frame
    /\ frame' = FALSE
    /\ batch' = <<>>
    /\ logs' = Cut(Merged)
    /\ stale' = (stale \/ Len(Merged) > MaxLines)
    /\ UNCHANGED <<sortByTimestamp, arrivals, received, query, debouncedQuery,
                   mode, currentMatchIndex, scrollVars>>

\* clearLogs cancels the frame; the cursor of the search is left where it was.
FrameForgotten == UNCHANGED frame  \* mutant: rafRef is not reset
CancelFrame == frame' = FALSE

ClearLogs ==
    /\ batch' = <<>> /\ logs' = <<>> /\ received' = <<>>
    /\ CancelFrame
    /\ stale' = TRUE
    /\ UNCHANGED <<sortByTimestamp, arrivals, query, debouncedQuery, mode,
                   currentMatchIndex, scrollVars>>

\* The tab is closed, which cancels the frame, and opened again.
Remount ==
    /\ batch' = <<>> /\ frame' = FALSE /\ logs' = <<>> /\ received' = <<>>
    /\ query' = "" /\ debouncedQuery' = "" /\ mode' = "filter"
    /\ ResetIndex
    /\ isPaused' = FALSE /\ isFollowing' = TRUE
    /\ UNCHANGED <<sortByTimestamp, arrivals>>

-----------------------------------------------------------------------------
(* Pause and useAutoScroll.  What is left of scrolling is whether the viewer*)
(* follows; a scroll event of its own making is ignored.                    *)

TogglePause ==
    /\ isPaused' = ~isPaused
    /\ UNCHANGED <<sortByTimestamp, arrivals, bufferVars, searchVars, isFollowing>>

HandleScroll(atBottom) ==
    /\ ~isPaused
    /\ isFollowing' = atBottom
    /\ UNCHANGED <<sortByTimestamp, arrivals, bufferVars, searchVars, isPaused>>

\* The Follow button is there while the viewer does not follow.
ScrollToBottom ==
    /\ ~isFollowing
    /\ isFollowing' = TRUE
    /\ isPaused' = FALSE
    /\ UNCHANGED <<sortByTimestamp, arrivals, bufferVars, searchVars>>

\* The controls above the log, which each viewer lays out for itself.
Controls ==
    \/ \E q \in Words \cup {""} : SetQuery(q)
    \/ ToggleMode \/ TogglePause \/ ScrollToBottom \/ ClearLogs

Toolbar == ~InService /\ Controls
ServiceToolbar == InService /\ Controls

Next ==
    \/ \E kind \in Kinds : ContainerData(kind) \/ ServiceData(kind)
    \/ FlushBatch \/ Remount
    \/ Toolbar \/ ServiceToolbar \/ DebounceFires \/ KeyDown
    \/ \E atBottom \in BOOLEAN : HandleScroll(atBottom)

Spec == Init /\ [][Next]_vars

-----------------------------------------------------------------------------
(* What the rows show.                                                      *)

\* getMatchPositionForLog compares the index of the row with that of the log.
NoPosition == 0
MatchPosition(row) ==
    IF Finding /\ totalMatches > 0 /\ row = currentMatch.logIndex
      THEN currentMatch.position + 1 ELSE NoPosition

\* highlightHtml numbers the marks it draws, and the mark of that number is the
\* current one; the row of an event is not highlighted.
Marks(line) == line.marks[debouncedQuery]
Highlight(row) == [k \in DOMAIN Marks(filteredLogs[row]) |->
    IF k = MatchPosition(row) THEN "match-highlight-current" ELSE "match-highlight"]

LogRow(row) == IF Finding THEN Highlight(row) ELSE <<>>
ServiceRow(row) == IF filteredLogs[row].event THEN <<>> ELSE LogRow(row)

Rows == [row \in DOMAIN filteredLogs |-> LogRow(row)]
ServiceRows == [row \in DOMAIN filteredLogs |-> ServiceRow(row)]

DrawnMarks == IF InService THEN ServiceRows ELSE Rows

(* Type correctness of the viewer.                                          *)
TypeOK ==
    /\ sortByTimestamp \in BOOLEAN /\ frame \in BOOLEAN
    /\ batch \in Seq(Line) /\ logs \in Seq(Line) /\ received \in Seq(Line)
    /\ Len(logs) <= MaxLines
    /\ arrivals \in 0 .. MaxArrivals
    /\ query \in Words \cup {""} /\ debouncedQuery \in Words \cup {""}
    /\ mode \in {"filter", "find"}
    /\ currentMatchIndex \in Nat
    /\ isPaused \in BOOLEAN /\ isFollowing \in BOOLEAN /\ stale \in BOOLEAN

(* No line is lost between the subscription and the screen: what was        *)
(* received since the last Clear and is not in the log waits in the batch,  *)
(* for a frame that is scheduled, or was cut from a full log.  A container's*)
(* log is the end of what was received, in that order.                      *)
LinesAreKept ==
    LET shown == ToSet(logs)
        flushed == SubSeq(received, 1, Len(received) - Len(batch))
    IN  /\ (batch # <<>>) = frame
        /\ IsSuffix(batch, received)
        /\ IF sortByTimestamp
             THEN /\ shown \subseteq ToSet(flushed)
                  /\ Cardinality(shown) = Len(logs)
                  /\ Len(logs) = IF Len(flushed) > MaxLines
                                   THEN MaxLines ELSE Len(flushed)
             ELSE logs = Cut(flushed)

(* The match under the cursor stays the same while lines are only appended, *)
(* as long as no match was dropped since the cursor was last moved or reset:*)
(* it moves by n and Shift+N alone.                                         *)
CursorStays ==
    [][/\ ~stale /\ totalMatches > 0
       /\ <<query, debouncedQuery, mode, currentMatchIndex>>'
            = <<query, debouncedQuery, mode, currentMatchIndex>>
       /\ IsPrefix(logs, logs')
       => currentMatch' = currentMatch /\ clampedIndex = currentMatchIndex]_vars

(* The counter k/total of the toolbar and the rows agree: `total` is the     *)
(* number of occurrences of the word in the log, and a mark is the current  *)
(* one exactly if it stands on the k-th, read from the top - of the marks   *)
(* that have the number of their occurrence in the line (useLogSearch.ts:78 *)
(* counts in the message, highlight-html.ts:33 in the HTML).  Of the others *)
(* it holds that a current one is in the line of the k-th occurrence.       *)
Occurrences == UNION {{row} \X (1 .. Found(logs[row])) : row \in DOMAIN logs}
Earlier(o) == {p \in Occurrences : p[1] < o[1] \/ (p[1] = o[1] /\ p[2] < o[2])}
IsCounted(o) == Cardinality(Earlier(o)) = clampedIndex
IsDrawnCurrent(row, k) ==
    k \in DOMAIN DrawnMarks[row] /\ DrawnMarks[row][k] = "match-highlight-current"

CounterIsTheMark ==
    Finding =>
        /\ totalMatches = Cardinality(Occurrences)
        /\ totalMatches > 0 => clampedIndex < totalMatches
        /\ \A o \in Occurrences :
              /\ o[2] \in DOMAIN DrawnMarks[o[1]] /\ Marks(logs[o[1]])[o[2]] = o[2]
                    => (IsDrawnCurrent(o[1], o[2]) = IsCounted(o))
        /\ \A row \in DOMAIN logs : \A k \in DOMAIN DrawnMarks[row] :
              IsDrawnCurrent(row, k) => \E o \in Occurrences : o[1] = row /\ IsCounted(o)
===============================================================================
