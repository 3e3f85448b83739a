# Verification of the log viewer

This directory models the concurrent parts of the monorepo (NestJS gateway, Go
log-streamer, NestJS auth service, React UI) in TLA+, checks the models with
TLC and proves the central results with TLAPS.

## 1. The system and what is hard about it

| Component | State it keeps | Operations | Interacts with |
|---|---|---|---|
| **Gateway log-streamer proxy** `apps/gateway/src/log-streamer-proxy`, `common/discover-log-streamers.ts` | a map host -> connection object (socket, reconnect timer), reference counts of container and service subscriptions, the DNS refresh interval, a shutdown flag | `onModuleInit`, `reconcileConnections`, socket `open`/`close`/`message`, `scheduleReconnect`, `subscribeTo(Service)Logs`, iterator `return`, `onModuleDestroy` | one WebSocket to every log-streamer, DNS, Redis pub/sub, GraphQL subscriptions |
| **Log-streamer WebSocket subscriptions** `apps/log-streamer/internal/handler/ws` | per connection: container subscriptions, service subscriptions with a table of stream cancel functions and a watcher goroutine each | `subscribe`, `unsubscribe`, `subscribe_service`, `unsubscribe_service`, Docker `start`/`die` events, close | Docker's list, log and event APIs; the gateway |
| **Log-streamer Docker client** `internal/docker` | none besides the client | list, logs, events, stats | Docker |
| **Log file reader and history** `internal/logreader`, gateway `log-history`, UI `features/history` | the cursor of a search | search with a cursor, statistics, merging of nodes | files of each node; several log-streamers |
| **Gateway circuit breaker** `apps/gateway/src/circuit-breaker` | one breaker for each downstream name | `fire` | every HTTP call of the gateway |
| **Auth service** `apps/auth/src` | rows of `tb_account` and `tb_login_history` | login, second factor, refresh, password change | MySQL, the gateway's auth proxy |
| **UI session** `apps/ui/src/features/auth`, `lib/apollo.ts` | tokens in memory and local storage, a refresh timer, a refresh in flight | login, second factor, refresh, logout | the gateway |
| **UI live stream** `features/live-stream`, `hooks/useLogBuffer`, `useTabs` | tabs, a bounded line buffer, pause | open, close, pause, receive | GraphQL subscriptions |
| Gateway guards, filters, auth proxy, kiosk proxy; shared library; HTTP shells; scripts; UI presentation | none that outlives a request | | |

What is hard: sockets that open, close and reconnect while subscriptions come
and go and reconciliations act on old DNS answers; goroutines that race with
the cancellation of their owner; database rows read before and written after
an await; answers that arrive after the thing they answer is gone.
`PROJECT.json` lists every such place under `hazards`, at its line.

## 2. The modules

| Module | What it is | Checked by | Proved in |
|---|---|---|---|
| `LogStreamerProxy` over the abstract `StreamerFanout` | the gateway's links to the log-streamers | `proxy`, `proxy_removed` | `LogStreamerProxyProofs` |
| `LogStreamerWs` | one connection of a log-streamer, with Docker | `ws`, `ws_recovers` | `LogStreamerWsProofs` |
| `GatewayRequests` | guards, resolvers, circuit breaker and error filter | `gateway_requests` | `GatewayRequestsProofs` |
| `AuthLogin` | login, second factor and password change on one row | `auth_safety`, `auth_race` | `AuthLoginProofs` |
| `AuthSession` | the session of the UI in several tabs | `session_tabs`, `session_logout` | `AuthSessionProofs` |
| `LogSearch` | the search of log files, from the files to the page | `search_pages` | `LogSearchProofs` |
| `LivePage` | the live page: list, tabs and replicas of a service | `live_page` | `LivePageProofs` |
| `LogViewer` | one log viewer: buffer, search, pause | `log_viewer` | `LogViewerProofs` |

Each module but `StreamerFanout` has an `MC` module that TLC runs. A live log
line goes from Docker through `LogStreamerWs`, the links of `LogStreamerProxy`
and a Redis topic to `LivePage`, which decides whether it is received at all,
and `LogViewer`, which shows it. The modules meet where the code does, in what
one assumes of the other: `StreamerFanout` is what the log-streamer's
connections are asked for; the events that `LivePage` may lose are those
`LogStreamerWs` proves to be the only gaps, and those nobody was subscribed for;
the queries of `LivePage` and `LogSearch` are answered, or fail, as
`GatewayRequests` has it. No module composes two of these: the link between them
is a network that loses nothing while it is up, which each side models.

## 3. LogStreamerProxy and StreamerFanout

`LogStreamerProxy.tla` is `log-streamer-proxy.service.ts` and
`discover-log-streamers.ts`. An action is one turn of the Node.js event loop.

| TLA+ | Code |
|---|---|
| `connections[h]` | the `connections` map: which connection object (`<<host, slot>>`) is the host's, or `NoSlot` |
| `ws[c]`, `reconnectTimeout[c]` | the object's socket (`none`, `connecting`, `open`, `closing`) and whether its timer is pending |
| `lookup[l]` | a call of `reconcileConnections` that awaits DNS and the answer it will get; several may be in flight |
| `subCount`, `sub[s]` | `activeSubscriptions` and `activeServiceSubscriptions`; a resolver call and the iterator it returns |
| `wire[c][k]`, `upstream[c]` | messages about key `k` the log-streamer has not read; the keys it has been asked for |
| `DnsRefresh`, `Reconcile` | `reconcileConnections` up to its await and after it |
| `Open`, `Close`, `Reconnect` | the `open` and `close` handlers, the reconnect timer |
| `Subscribe`, `SubscribeRejected`, `Subscribed`, `Return` | `subscribeToLogs`/`subscribeToServiceLogs` before and after Redis SUBSCRIBE, and the iterator's `return` |
| `OnModuleDestroy` | `onModuleDestroy` |

Containers and services are both keys: the code keeps two maps and treats them
alike. A connection object that was removed may live on while its closing
handshake lasts (`ws` waits 30 s for the peer, as long as the refresh
interval); `SlowClose` says whether a host may be added again in that time.

`StreamerFanout.tla` is the promise to the rest of the system: subscribers
watch keys, and each linked log-streamer has been asked for exactly the watched
ones. `LogStreamerProxy!Fanout` maps the service to it: a host is linked when
the object in the map has an open socket; what it has been asked for is decided
by the last message on the wire, or by what it has read.

Properties beyond the type invariant:

* `ListenersKnowInterest` - no open socket misses a key or was left one too many;
* `RefCountExact` - counts equal the live iterators;
* `NoOrphan` - a dropped connection object keeps no socket and no timer (only
  without `SlowClose`: see the finding);
* `NeverAbandoned` - a mapped connection is never without both socket and timer
  (and never with both: `OneAttempt`, which is proved only);
* `ShutdownSeversAll`, `ShutdownDrains` - shutdown, also when a reconciliation
  resumes after it;
* `ImplementsFanout` - refinement of `StreamerFanout`;
* `Recovers`, `StreamsResume` - once disturbances stop the gateway is linked to
  exactly the running log-streamers and they stream what is subscribed.

Run `proxy` checks all of them: one task and the fallback host, two lookups, two
subscribers, `SlowClose = FALSE`, with fairness. With `SlowClose = TRUE` two
connection objects of one host coexist: `proxy_removed` runs into that, and the
theorems below, the three with that assumption excepted, hold with it.
Two hosts, of which one is the fallback, are enough for every reconciliation to
add and remove at once, two lookups for a stale answer, two subscribers for
every order of first, second and last on a key; keys are independent of each
other, so the runs have one and the proofs any number. `MaxWire` bounds unread
messages of a key and stops a broadcast, never a handler that drains.

Fairness: the refresh interval and timers fire, a lookup is
answered, a handshake ends, a socket that does not fail opens, the log-streamer
reads. Weak fairness of `Reconnect` does not rule out that the constructor
fails: such a failure sets the timer again, and a URL that parses once parses
always, so the liveness properties rest on it failing only finitely often. Nothing is
assumed of users, of Docker or of DNS except, in the two recovery properties,
that disturbances stop.

`proxy_removed` is a violation run: `scheduleReconnect` skips the reconnect "if
the connection was removed during reconciliation", but tests the host and not
the object, so a removed object reconnects when its host was added again before
its close event.

Proved in `LogStreamerProxyProofs.tla`, for every value of the constants that
satisfies the ASSUMEs of `LogStreamerProxy`:

| Theorem | Statement | Inductive invariant |
|---|---|---|
| `TypeCorrect` | `[]TypeOK` | itself |
| `OneSocketEach` | `[](OneAttempt /\ NeverAbandoned)` | `SocketInv`: a timer excludes a socket, a mapped object has one of them |
| `InterestIsKnown` | `[]ListenersKnowInterest` | `InterestInv`: adds that a socket that is not open carries nothing and has been asked for nothing before it opens |
| `CountsAreExact` | `[]RefCountExact` | `RefCountInv`: with the type of `sub` |
| `NothingOrphaned` | `SlowClose = FALSE` implies `[]NoOrphan` | `RemovalInv`: a closing object of an unmapped host has no sibling |
| `ShutdownIsFinal` | `SlowClose = FALSE` implies `[]ShutdownSeversAll` | `RemovalInv` |
| `PublishedOnce` | `SlowClose = FALSE` implies `[]OneSocketPerHost`: no log-streamer has two live sockets, which would publish its lines twice | `RemovalInv` |
| `ProxyImplementsFanout` | `Spec => Fanout!Spec` | `FanoutInv`: the conjunction of the above, by which each action maps to one abstract step or a stutter |

Only model-checked: the liveness properties.

## 4. LogStreamerWs

`LogStreamerWs.tla` is one WebSocket connection of the Go log-streamer:
`handler.go`, `subscription.go`, `service_subscription.go`, `stream.go`,
`service_stream.go` and, as its environment, Docker seen through
`docker/client.go` and `docker/events.go`.

| TLA+ | Code |
|---|---|
| `handler` | the read loop; `listing` while `Start` waits for Docker's list |
| `subs`, `serviceSubs` | `m.subs`, `m.serviceSubs` |
| `entries[i]`, `stopped[i]`, `watcher[i]` | `s.containers`, `s.ctx`, the `watchEvents` goroutine of subscription object `i` |
| `feed[i]` | events between Docker and `watchEvents` |
| `pc`, `of`, `owner`, `canceled` | the streaming goroutines, and whether their context or cancel channel is done |
| `missed[i]` | history only: running containers whose start the subscription had no way to see |

An action is what a goroutine does between two points where another can get in:
a critical section, a channel receive, a call to Docker. Go's `select` chooses
freely between an event and a cancelled context, so `HandleStart` stays
possible after `Stop`.

* `Reachable` - an uncancelled stream is the one the table of a live
  subscription can cancel; none is out of reach, none is doubled;
* `ClosedCancelsAll`, `NothingLeaks` - closing the connection cancels, and ends,
  everything;
* `StreamedOrMissed` - a running container of a subscribed service is streamed
  or announced, or its start fell into one of the gaps the model records: the
  gaps are exactly those;
* `SeenIsFollowed` - once Docker stops failing, what came up in sight of the
  watcher is followed while it runs.

Run `ws`: one container that may restart, followed by id and through its service,
one subscription object, three streams, all failures of Docker, with fairness.
Containers have tables and streams of their own, so one is enough; a container
has at most three streams at a time that matter: by id, of the service, of a
stopped subscription. A stopped subscription that overlaps with its successor
needs two objects, which is beyond a run of minutes; the proofs have any number.
Fairness: goroutines run, the list call returns, the 2 s timer fires, a
cancelled reader returns. `CHECK_DEADLOCK FALSE`: after the connection is closed
and the containers are gone nothing happens any more.

`ws_recovers` is a violation run: `serviceLog` is documented to "auto-recover
on container restart", but a container that starts between the list and the
connection of the event stream is never streamed.

Proved in `LogStreamerWsProofs.tla`, for any containers (one at least), services,
subscription objects and streaming goroutines:

| Theorem | Statement |
|---|---|
| `TypeCorrect` | `[]TypeOK` |
| `AllReachable` | `[]Reachable` |
| `CloseCancels` | `[]ClosedCancelsAll` |
| `NoOtherGap` | `[]StreamedOrMissed` |
| `NoneFollowedTwice` | `[]OneStreamEach`: no container is followed twice by one owner, a connection or a subscription |

All follow from one inductive invariant (`Inductive`), since none of them is
inductive alone; `NoneFollowedTwice` from `Reachable`. `IInv` adds to the three properties and the types

* `Tables`: what a table refers to is a stream of that table, and not cancelled
  while its subscription lasts. Without it a `die` event could cancel somebody
  else's stream and leave its own out of reach;
* `Objects`: a subscription object is in the service table exactly while it is
  not stopped, there is none after the connection is closed, it starts streams
  only after its list, and its watcher ends only when it is stopped. This is
  what lets the successor of a stopped subscription overlap with it;
* `Feeds`: only a connected watcher has events under way, and only of its own
  service; a `die` of a container that runs is followed by its `start`. This is
  why taking the entry away on `die` leaves no running container without one.

Each action has its lemma, in the order of the module. The liveness properties
`NothingLeaks` and `SeenIsFollowed` are only model-checked.

## 5. AuthLogin

`AuthLogin.tla` is `auth.service.ts` with `account.service.ts`,
`login-history.service.ts` and the token kinds of `jwt.service.ts`: one row of
`tb_account` and the requests on it that are under way at the same time.

| TLA+ | Code |
|---|---|
| `account` | the row: status, `fail_count` (NULL is a value), whether `last_login_at` is set, `otp_secret_key`, whether the password is 90 days old |
| `entry` | the last row written to `tb_login_history` |
| `pc[c]`, `seen[c]` | the next SQL statement or answer of request `c`, and the row it read at its start |
| `url[c]`, `enrolled` | the secret in the registration URL of an answer under way; the secrets whose QR code was shown |
| `held` | the kinds of token clients have |
| `LoginLockedOut` ... `LoginRightPassword` | `login` up to its first statement after the row was read, by outcome |
| `VerifyTwoFactor`, `Refresh`, `ChangePassword` | the same of `verifyTwoFactor`, `refreshTokens` and `changePassword` |
| `IncrementFailCount`, `LockAccount`, `RecordFailure`, `ResetFailCount`, `UpdateOtpSecretKey`, `RecordSuccess`, `UpdatePassword` | one SQL statement each; `recordSuccess` is a transaction |
| `Challenge`, `Tokens` | the answer reaches the client |
| `Abort`, `AdminSetsStatus`, `PasswordAges` | crashes and lost answers, an administrator, time |

A password is right or wrong for the row that was read, its text is not
modelled. Rejected requests write nothing and have no action. `Refresh` takes a
token of any kind, because `refreshTokens` checks the signature and the expiry
of a token and not its type. Tokens do not expire in the model: a client need
never use one, so expiry would add no behaviour to a safety property.

* `FailCountBounded` - the count passes the limit by less than the number of
  requests: each compares before it counts;
* `AuditedLockIsReal` - a history row that says LOCKED speaks of a locked
  account, wherever a request is interrupted (while nobody lifts locks);
* `SecretIsShown` - whichever of several overlapping first logins stores its
  secret last, that secret was shown to a client or will be. It needs the
  answers of two-factor logins not to be lost: a renewal that overlaps with a
  first verification and whose answer is lost leaves a secret nobody has, and
  with `last_login_at` set no later login renews it;
* `FailuresLock` - as many wrong passwords as the limit lock the account.

`auth_safety` checks the first three and the types: two requests on an account
with a second factor that may be registered or not, crashes, an administrator
who locks, counts that start at 0 and at NULL, limit 2, three secrets, so that
one is always fresh. Two requests are enough for every order of two snapshots
and their statements, a third only repeats a role, and the theorems hold for
any number, any limit, with or without a second factor. No fairness is needed:
nothing is claimed to happen.

`auth_race` is a violation run of `FailuresLock`: two failures that read the
same count both add one and neither locks, until the next attempt finds the
count at the limit; a crash between the two statements has the same effect. A
NULL count moreover stays NULL, since NULL + 1 is NULL, and never locks. A
status that an administrator sets while a failing request is between its read
and `lockAccount` is overwritten with LOCKED; the repository promises nothing
there, so no property is stated.

Proved in `AuthLoginProofs.tla` from the ASSUMEs of `AuthLogin`:

| Theorem | Statement | Inductive invariant |
|---|---|---|
| `TypeCorrect` | `[]TypeOK` | `TypeInv`: a request that is under way has a row it read |
| `CountIsBounded` | `[]FailCountBounded` | `BoundInv`: the count plus the requests about to add to it stays below the limit plus the number of requests |
| `LockIsAudited` | `AdminStatuses \subseteq {"LOCKED"}` implies `[]AuditedLockIsReal` | `AuditInv`: a request that saw LOCKED, or is about to record it, runs on a locked account |
| `SecretsAreShown` | `~LoseAnswers` implies `[]SecretIsShown` | itself, with `TypeInv` |
| `LimitIsKept` | `[]LimitLocksOut`: as many counted failures as the limit lock the account out, by its count, unless that is NULL | `CountedAll`: the count in the row is never behind the failures counted |

`LimitIsKept` says what the failure of `FailuresLock` costs: the status LOCKED,
and so the row an administrator sees, but not the refusal of the next login,
which looks at the count as well. Only a count that is NULL loses both. It is
proved only.

## 6. AuthSession

`AuthSession.tla` is the session of the web UI: `AuthContext.tsx` and `token.ts`
in every tab of one browser, over the tokens in localStorage the tabs share.

| TLA+ | Code |
|---|---|
| `store`, `valid` | `access_token`, `refresh_token` (always written and removed together; whose they are is all that matters) and whether `token_expiry` is in the future |
| `page[t]` | closed, `isLoading`, or ready |
| `isAuthenticated[t]`, `user[t]` | the state of the AuthProvider |
| `timer[t]` | `refreshTimer` is set |
| `refreshing[t]` | `refreshMutation` calls under way, of the mount effect ("init") and of `doRefresh` ("timer"), with the user whose refresh token they carry |
| `twoFactor` | whether logins of the UI's user type need a second factor |
| `submitted[t]`, `formGone[t]` | a login under way, and whether the login page it came from has been left since |
| `twoFactorToken[t]`, `verifying[t]` | the challenge the login page holds (its second step), a verification under way |
| `savedToken` | localStorage's `twoFactorToken`, which all tabs share |
| `loggedOut` | history variable |
| `Mount` | a tab is opened or reloaded, the mount effect up to its `await` |
| `InitRefreshed`, `InitRefused` | the mount effect after its `await` |
| `TimerFires`, `Refreshed`, `Refused` | `doRefresh` before and after its `await` |
| `Submit`, `HandleLogin`, `Challenge`, `LoginFails` | the credentials form and the answer: tokens, a challenge, an error |
| `VerifyOtp`, `Verified`, `VerifyFails`, `HandleBack` | the form of the second step; `Challenged` is the header `authLink` sends |
| `Logout` | the button of the navigation bar |

An action is one turn of a tab's event loop, so every order of answers, timers
and clicks of several tabs is a behaviour. There is no clock: tokens may expire
and a timer may fire at any moment, since a suspended computer delays both.

* `SessionIsRenewed` - an authenticated tab has its refresh timer set or the
  refresh under way;
* `LogoutSpreads` - if from some time on there are no tokens, every tab ends
  its session, although nothing but the timer of each tells it to;
* `KeptFresh` - expired tokens of an authenticated tab are renewed or removed;
* `LoggedOutStays` - after a logout there are no tokens until the next login.

`session_tabs` checks the first three and the types, with two tabs and two
users: one tab can be the stale one, one the other user's. Credentials are
entered in one of them (`LoginTabs`); the other is logged in when it is opened, or
by a code, since it sends the challenge that the first has saved. Both forms of a
login page are in the document at once, so the model has no guard on the step
where the code has none. Its fairness is weak
fairness of each timer and of the answer, or failure, of each refresh: the
browser does both. Logins, logouts, reloads and expiry are never forced.

`session_logout` is a violation run of `LoggedOutStays`, in a single tab:
`doRefresh` looks at nothing after its `await`, so that the answer of a refresh
that was under way at the logout saves the tokens again and starts the timer;
the next reload is logged in.

`EagerLogin` decides whether a user may log in while the refresh of the page
load is under way, which the login page allows (`App.tsx:80`). The checks and
the theorem `AlwaysRenewed` take it as FALSE: otherwise `SessionIsRenewed`
fails, since `InitRefused` clears the tokens and the timer of that login and
leaves the tab authenticated with neither.

Proved in `AuthSessionProofs.tla`, for any number of tabs and users:

| Theorem | Statement | Inductive invariant |
|---|---|---|
| `TypeCorrect` | `[]TypeOK` | itself |
| `AlwaysRenewed` | `~EagerLogin` implies `[]SessionIsRenewed` | `RenewalInv`: a tab has at most one refresh of a page load under way, and while it has one it is loading, unauthenticated and has sent neither login nor code; without this `InitRefused`, which stops the timer, could hit an authenticated tab |
| `LogoutLasts` | `LogoutIsFinal`: a logout with no refresh under way, or after the last of them has ended, lasts until somebody logs in | itself, with `TypeOK` |

`LogoutLasts` is the other side of the violation of `LoggedOutStays`: a refresh
that was sent before the logout is the only thing that undoes it. It is proved
only. `LogoutSpreads` and `KeptFresh` need fairness and are model-checked only.

## 7. LogSearch

`LogSearch.tla` is the search of log files: `reader.go` on every node, the
merge in `log-history.service.ts`, and the panel that pages through the result
(`SearchPanel.tsx`), while applications write and rename the files.

| TLA+ | Code |
|---|---|
| `files[n]` | the files of an application on node n: what their order goes by, and lines `[id, ts, hit]` |
| `Names` | date, rotation number and place in the listing, which `ListFiles` sorts by |
| `loading`, `after`, `page` | `loading`, the cursor and the result of the panel |
| `waiting`, `answers` | the requests of `search` in the gateway, all settled before it merges |
| `written` | entries written, from which a line has its `id`; the code tells lines by file and number |
| `askedAt`, `whole`, `late`, `shown` | history: when the search was sent, which nodes answered from all files, which entries such a node read after a later one, what earlier pages showed |
| `Precedes`, `Older`, `Ordered`, `ListFiles` | the order of `ListFiles`; `Ordered` sorts by counting what comes before |
| `Scanned`, `Scan`, `SearchFile` | `searchFile` line by line, with continuation lines, its two early returns and its end |
| `Read`, `Search` | `Search` file by file |
| `Places`, `Sorted`, `Merged` | the merge in the gateway |
| `Write`, `WriteBanner`, `NewFile`, `Rename` | the applications and their logging |
| `NewSearch`, `LoadMore`, `Answer`, `NodeFails`, `Merge`, `QueryFails` | the panel, the nodes, the gateway |

What a line says is one bit, whether the filters accept it: an entry is accepted
if its own line or a continuation line is, as a keyword is looked for in all of
them. Timestamps are numbers, as all lines of one format are ordered.

Neither timestamps nor names say anything of the order of writing. An entry is
written to any file with any timestamp: several have one, on a node or on
several, and a later one is followed by an earlier, as clocks and threads have
it. A file starts with any free name and changes it for any other: a base file
that holds later lines than its chunks (as `reader_test.go:340-351` has it) or
earlier ones (as winston numbers them), and an undated file that the date of its
last write (`reader.go:137`) puts before the archives of that day.

The code does not order what it reads in a file or over files, cuts at the limit
and goes on from the last timestamp. So two kinds of entries are on no page, and
the properties name them: an entry with the very timestamp of a page's last line
that the page had no room for, and an entry that its node read after a later one
(`Overtaken`, kept in `late` as of the answer). The properties say that there is
no third.

* `PageIsComplete` - what a node that read all its files had when the search was
  sent, from the cursor to before the page's last line, is on the page, but for
  what is late; if the page says there is no more, everything from the cursor on
  is. It is stated with `Entries`, a definition of entries without the scan;
* `PageIsSound` - what is shown was written and accepted, is in the order of time,
  and is shown once, on one page only;
* `NothingIsSkipped` - from step to step of a search, an entry that was there when
  it was sent, on a node that answers whole, and that is shown or still ahead,
  stays one or the other, or is of one of the two kinds. `PageIsComplete` speaks
  of one page; this is what joins them. What is written after the search was sent
  is not claimed, nor that there is a next page after one that ends with a line
  without a timestamp, for which the panel has no cursor (such a page says
  `hasMore`, and counts as an end in `SearchEnds`);
* `SearchEnds` - a user who keeps asking for more comes to an end, if nodes
  answer. (That they do is a premise and not a fairness condition, for TLC
  evaluates ENABLED of `Answer` too slowly; axios' timeouts of 30 s provide it.)

`search_pages` checks them: two nodes with two files between them, one each or
both on one, two lines on a page, three entries with any of three timestamps that
the filters accept for a continuation line, lines without a timestamp at the
start of files, and any of files, nodes and queries failing. Three entries are
the fewest for a page that is cut with lines left, on either node or in either
file; three timestamps order, tie and disorder them in every way; two files bring
the limit at the end of a file and either order of chunks. Entries that the
filters do not accept are left to the proofs, which are for any `Writes`.
Fairness: the gateway merges what it has, and the user asks for more as long as
there is more.

The first kind of entries that are lost is against the design, whose cursor is
`file name:line number` (`docs/plans/2026-02-22-log-history-design.md:114`) and
would lose none; the code's is a timestamp (`reader.go:535`), and of two entries
that share it a page of one line shows one and no page the other. The second
contradicts nothing that the repository says: the comment at `reader.go:90` states
the order as it is.

What the model leaves out:

* a page shows one search; the fields can be edited between pages;
* a node reads its files in one step. They only grow at the end; a file renamed
  between `ListFiles` and its opening is one of those that cannot be read, but a
  file that takes the name of another in that moment would be read twice;
* files are not deleted. The dates of a query, by which whole files are left out
  too (`reader.go:141`), are part of what the filters accept: a file whose name
  has another date than its lines is not told from one that fits.

Proved in `LogSearchProofs.tla`, for any number of nodes, files and lines, any
timestamps and names and any limit:

* `TypeInvariant`, `PagesAreSound`, `PagesAreComplete`, `SearchSkipsNothing` -
  `TypeOK`, `PageIsSound`, `PageIsComplete` and `NothingIsSkipped`;
* `CursorMovesOn` - `CursorAdvances`: each cursor is later than the one before and
  the timestamp of an entry. It is the part of `SearchEnds` that is not liveness:
  pages cannot go round in circles.

The algorithms are written as loops (`f[i]` from `f[i - 1]`) so that they can be
reasoned about: `Runs` shows that a loop can be run, `Rounds` that what holds at
its start and is kept by each round holds at its end; both are induction over a
set of numbers, from the well-foundedness of `<`. The argument then follows the
code:

* a file (`FileIsSearched`): while the loop of `searchFile` goes on, it has found
  exactly the accepted entries before the one under way, and when it stops at
  the limit, every one that is left stands, by its id, further down (`ScanOpen`,
  `ScanClosed`). From places to timestamps is where the late entries come in
  (`FileIsRead`): what stands further down and is not overtaken is no earlier;
* a node (`ReadIsOK`, `NodeIsSearched`): the same holds over all files read so
  far, in the order `ListFiles` has them (`FilesAreListed`);
* the merge (`MergeIsSound`, `MergeIsComplete`): a node that stopped at its limit
  has a page of lines no later than any it left out, which cannot all stand among
  the lines before the last one shown (`FullNode`, by the pigeonhole principle),
  so the page ends no later than what no node sent;
* the files (`FilesGrow`, `BannerIsAdded`, `FileIsAdded`, `FileIsRenamed`,
  `GrowthAdds`): writing adds entries with new ids and the rest leaves the entries
  as they are, so that what was sound and shown stays so (`SoundStays`,
  `ShownStays`), and what there was when the search was sent too (`KnownStays`);
* the pages (`LastLine`, `CursorIsLater`, `SkipStep`): the last line of a page is
  an entry after the cursor, so what is not on the page is after it, and ahead,
  or tied with it, or late.

The invariant is `Inv`: files have names of their own, ids ascend in a file and
are in one file only (`FilesOK`), each answer is sound, and complete but for
`late`, for its node up to `askedAt` until they are merged (`AnswersOK`), the page
for all of them (`PageOK`), and earlier pages end at the cursor (`ShownOK`). It also says that a
node that has answered is not waited for (`RestOK`); without that an answer could
replace another, and the invariant is not inductive. Of timestamps it says
nothing but that an entry has one.

## 8. LogViewer

`LogViewer.tla` is one viewer of the live page: `LogViewer.tsx` (a container) and
`ServiceLogViewer.tsx` (a service, `sortByTimestamp = TRUE`) with the hooks they
share.

| TLA+ | Code |
|---|---|
| `batch`, `frame`, `logs` | `batchRef`, whether `rafRef` holds a frame, the state of `useLogBuffer` |
| `query`, `debouncedQuery`, `mode`, `currentMatchIndex` | the state of `useLogSearch`, and the debounced query |
| `isPaused`, `isFollowing` | the viewer and `useAutoScroll` |
| `received`, `stale` | history: lines received since the last Clear; whether matches were dropped since the index was set |
| `OnData`, `AddLog`, `FlushBatch`, `ClearLogs` | the subscription's `onData`, `addLog`, `flushBatch`, `clearLogs` |
| `matchesUpTo`, `totalMatches`, `clampedIndex`, `currentMatch` | the memos of `useLogSearch`: the matches of the first lines added up, as the loops over `matches` do |
| `DebounceFires`, `ToggleMode`, `NextMatch`, `PrevMatch`, `KeyDown` | its callbacks and effects |
| `LogRow`, `ServiceRow`, `Highlight` | which marks the rows draw: those `highlightHtml` finds in the HTML of the line, numbered |
| `TogglePause`, `HandleScroll`, `ScrollToBottom`, `Remount` | pause, scroll, Follow, closing and opening the tab |

A line is what the viewer can tell of it: arrival, timestamp, how often each
word occurs in its message, whether it is an event, and `marks`, what
`highlightHtml` finds of a word in the HTML that `ansi-to-html` makes of the
message: for each mark the occurrence it stands on, or 0. The two texts differ
where a line has colour codes (gone from the HTML) or `&`, `<`, `>` and quotes
(entities there), so `marks` is any sequence.

* `LinesAreKept` - nothing is lost between the subscription and the screen but
  what a full buffer cuts, in whatever order lines, frames and clears come;
* `CounterIsTheMark` - the k/total of the toolbar and the marks in the rows speak
  of the same occurrence, although one counts down an index over lines and the
  other numbers the marks of a row: for every mark whose number in the row is
  that of its occurrence in the message. Where the numbers differ it says only
  that a current mark is in the line that is counted;
* `CursorStays` - appended lines do not move the cursor to another match. It
  needs `~stale`: a cut or a clear drops matches above an index that stays.

`log_viewer`: a buffer of three, four arrivals of four kinds (no match but a
mark in an entity, three matches of which the last has no mark, an older line
with an entity marked before its match, an event with a match), two words. Four
arrivals overfill the buffer once, with the cut inside a batch or between two;
the three-match line brings positions inside a line. Nothing is promised to
happen, so no fairness.

The design has "current match: orange background"
(`docs/plans/2026-04-21-livestream-find-mode-design.md:12`), which the code does not
keep in every line: `useLogSearch.ts:78` numbers the matches of the raw message,
`highlight-html.ts:33` those of the HTML, so that in a line with an entity or a colour
code that holds the word the current mark is on another match, or nowhere.
`CounterIsTheMark` leaves that out by its condition, and the lines of `log_viewer`
have each case of it.

The design of the pause button has it keep receiving
(`docs/plans/2026-04-22-log-copy-and-pause-design.md:36`); the code skips the
subscription (`LogViewer.tsx:92`, `ServiceLogViewer.tsx:171`), so that the lines
of a pause never come. `OnData` says so by its guard.

Proved in `LogViewerProofs.tla`, for any size of the buffer, any words and lines
and any number of arrivals:

* `TypeInvariant`, `NoLineIsLost` - `TypeOK` and `LinesAreKept`;
* `CursorIsStable` - `CursorStays`;
* `CounterMarksTheMatch` - `CounterIsTheMark`.

The invariant `Inv` has what was received in the order of arrival
(`ReceivedOK`), so that no line is taken for another; the batch as the end of it
(`BatchOK`); the log as what a buffer shows of the lines before the batch
(`Shows`, for a container the last of them in order, for a service as many of
them, each once); and a cursor under which no match was dropped as within the
matches (`CursorOK`). The step that is hard is the flush. Sorting by rank is a
permutation (`ByTimeIsPermuted`, from `Ranks`), so `FlushShows` can follow each
line through sort and cut. That the cursor stays within the matches needs that
sorting does not make them fewer: `SumsGrow` counts a pair for every occurrence
(`UnitsAreCounted`) and maps them, one to one, to where their lines went.
`CursorFollows` then has the counts over the old log and over the longer one agree
as far as the old one goes (`SumsAgree`) and pass the index after it
(`SumsAscend`).
`CounterFollows` counts the occurrences before one - those of the lines above it and
those to its left, which `UnitsAreCounted` gives - and has the lines the index has
passed be the lines above it, again by `SumsAscend`.

## 9. LivePage

`LivePage.tla` is the page around the viewers, in one browser tab:
`LiveStreamPage.tsx`, `ContainerList.tsx`, `useTabs.ts`, and of
`ServiceLogViewer.tsx` the replicas it takes for running (`activeContainers`).

| TLA+ | Code |
|---|---|
| `up`, `trailing` | the containers of the service that run; those whose last lines may still come |
| `tabs`, `activeTabId`, `stored` | `useTabs` and the sessionStorage |
| `listed`, `query` | the containers in Apollo's cache; the query on its way, which a second caller shares |
| `subscription`, `inbox` | the subscription of the viewer, and the entries not handled yet |
| `gap` | history: the containers the legend may be wrong about |
| `OpenTab`, `CloseTab`, `SelectTab`, `Reload` | `openTab`, `closeTab`, `setActiveTabId`, mounting from the storage |
| `handleSelectService`, `handleSelectContainer` | a click in the list, which may be filtered |
| `Pause`, `resumeStream`, `Arrives` | `togglePause`, `resumeStream` with `syncServiceContainers` |
| `onData` | the subscription's `onData` |
| `Starts`, `Stops`, `Logs`, `Trails` | Docker and the log-streamers |

* `TabsMakeSense` - through eviction, closing and reloads the tabs are distinct,
  not too many, one of them is shown, and what is stored is what is shown;
* `LegendExplained` - the legend is right about every container but those in
  `gap`, and what puts a container there is a closed list: the tab's own list
  (cut by a search, or old), lost events, the pause, a list that arrives on
  resume over newer events, and a line that comes after its container's stop;
* `ResumeHeals` - when the cluster, the lines of stopped containers and the tabs
  are quiet and all nodes answer, a user who keeps resuming sees what runs.

`live_page`: two containers that come and go, three tabs for two places (so that
every opening may evict), two entries under way. Fairness: the browser handles
what arrives, subscriptions are established, queries are answered or fail. That
the user resumes and that disturbances stop are premises.

Favourites only filter and sort the list. The page mounts its content twice, for
wide and narrow screens (`LiveStreamPage.tsx`): each copy is a viewer like this
one, with a subscription of its own.

Proved in `LivePageProofs.tla`, for any ids, any containers and any limit of at
least two tabs:

* `TypeCorrect`, `TabsStaySensible` - `TypeOK` and `TabsMakeSense`;
* `LegendIsExplained` - `LegendExplained`.

The invariant is `Inv == ClusterOK /\ TabsOK /\ ViewOK`: that a reload restores
sensible tabs needs the stored ones to be those shown, and the types of the legend
need those of the lists it is taken from. `Removed`, `Appended`, `Evicted` and
`Closed` are the arithmetic of `useTabs`: an eviction takes the first or the
second tab and so never the one just opened (`Evicted`, which needs the limit of
two), and the neighbour of a closed tab exists (`Closed`). The least index
`SelectInSeq` picks exists because `<` is well-founded on the naturals.

`LegendExplained` compares the legend with what it will be once the entries on
their way are handled. `ShownAfter` says that in closed form, by the last entry
about each container, and `ShownAppend` and `ShownHead` that an entry at the end
and one handled at the front change it as they should. `LegendTabs`,
`LegendView`, `LegendCluster` and `LegendStep` then go through the kinds of
steps, relative to `Inv`: those of the tabs, of the viewer, of the containers.

## 10. GatewayRequests

`GatewayRequests.tla` is a query or mutation on its way through the gateway, for
one domain of `CircuitBreakerService`, chosen in `Init`: `auth-server` and
`kiosk-admin` have one host, `log-streamer` and `log-history` ask all.

| TLA+ | Code |
|---|---|
| `state`, `pendingClose`, `window` | the breaker of the domain (opossum): closed, open, half open with the probe not yet made; the buckets of its statistics |
| `hits` | the throttler's count of the client |
| `legs[r]`, `answer[r]` | the calls of request `r` and what became of them; how far it is and what the client is told |
| `Guards`, `NoKey` | `GqlThrottlerGuard`, then `ApiKeyGuard` |
| `Fire`, `Succeeds`, `Fails`, `HalfOpens`, `Rotates` | `fire`, and opossum |
| `findAxiosErrorWithResponse`, `isStructuredDownstreamError` | the breaker's error filter |
| `responseOf`, `toAxiosGraphQLError` | the exception filter |
| `authMutation`, `getReleaseCurrencyTerminals`, `listContainers`, `getContainerStats`, `listApps`, `search` | the services of the resolvers |
| `Sickens`, `Recovers`, `Restart` | the hosts; the gateway's process, which keeps breakers and hits in memory |

opossum is external and modelled from the options the code gives it: it opens
when at least `VolumeThreshold` calls are in the window and more than half as
many failures (50 %); half open, the first call goes through, and the next
answer, also one to a call made before it opened, decides.

* `ToldWhatWasCounted` - breaker and filter look for the host's own error
  separately, in a chain of wrapped errors. They agree: what counts as an answer
  is what the client is told with its code and message, and nothing else is;
* `Recloses` - when all hosts are well for good, if only to answer with errors of
  their own, and clients keep asking, the circuit is closed for good.

`gateway_requests`: two hosts or one, two requests at a time where there is one
host and one of up to four calls where there are two, a threshold of three calls,
two buckets, at most four calls counted in a window (`MaxFires` keeps the window
finite; it must pass the threshold, and does). `Limit = 1` throttles the second
request. The throttler's block of a client past its limit (`blockDuration`, which
the code leaves at the length of the window) is left out: the model lets such a
client in as soon as a hit expires, and no property depends on it. Fairness: opossum's timers fire and calls end, at axios' timeout at the
latest. That clients ask and hosts stay well are premises.

The premise of `Recloses` is needed. A host that stays down and comes first in
the order of DNS takes the probe each time, so that the circuit of all hosts
opens again as long as it is down, although the others would answer. An answer
that does not pass the auth proxy's schema (zod) is thrown inside the fired call
and counts as a failure of the host.

Proved in `GatewayRequestsProofs.tla`, for any hosts (finitely many), requests,
limits and sizes of the window:

* `TypeCorrect`, `OneView` - `TypeOK` and `ToldWhatWasCounted`;
* `NeverStuckHalfOpen` - `HalfOpenIsDecided`: a half-open circuit lets the next
  call through or has a call under way whose end decides it, also when old calls
  end meanwhile. It is the part of `Recloses` that is not liveness, and proved
  only.

`ToldWhatWasCounted` rests on `ErrorsAgree`, which is about all chains the fetch
adapter makes: both searches end at the innermost error, the only one with a
response, and a timeout has none (`Wrapped`, `SearchChain`). The invariant adds
`OwnHosts` to the types: no request has a call to a host of another domain, so
that a merged answer is of the domain's hosts.

## 11. Not modelled, or only model-checked

* The publication of received lines to Redis, and so how often a line arrives:
  several gateway replicas, or a container followed by id and through its
  service, publish a line more than once. The code has nothing to prevent it and
  promises nothing.
* The frames a log-streamer writes, the counting of statistics, the formats of
  timestamps and lines, Docker's statistics: data that no property depends on.
* `HistoryPage`'s tab bar keeps a list of ids in memory; favourites, copy and
  layout of the UI; the fields of the login form.
* The loggers, the access channel, the request log, the HTTP shells: they keep no
  state between requests.
* `scripts/`: one-shot scripts outside the running system.
* Liveness, throughout, is only model-checked: fairness and ENABLED are out of the
  prover's reach. Of `SearchEnds` and `Recloses`, the safety they rest on is proved
  (`CursorMovesOn`, `NeverStuckHalfOpen`). Every invariant and action property of
  the passing runs is proved.
