--------------------------- MODULE GatewayRequests ---------------------------
(***************************************************************************)
(* The gateway's queries and mutations, from the guards to the answer: the *)
(* throttler (gql-throttler.guard.ts), the API key (api-key.guard.ts), the *)
(* resolvers of the proxies, the circuit breaker in front of what is behind*)
(* the gateway (circuit-breaker.service.ts around the library opossum) and *)
(* the filter that tells the client of an error (http-exception.filter.ts).*)
(*                                                                         *)
(* Every domain has a breaker of its own; the module is one of them, chosen*)
(* in Init.  "auth-server" and "kiosk-admin" have one host and pass its    *)
(* answer on; "log-streamer" and "log-history" ask all hosts through one   *)
(* breaker and merge what is fulfilled, and a search of the history asks   *)
(* every host twice, for lines and for numbers.                            *)
(***************************************************************************)
EXTENDS Naturals, Sequences, FiniteSets, SequencesExt

CONSTANTS
    Hosts,            \* the hosts of a domain that has several
    AuthHost,         \* the host of a domain that has one
    Requests,         \* requests that may be under way together ...
    Wide,             \* ... and those of them in a domain of several hosts (bound)
    Limit,            \* of the throttler, per client and handler
    VolumeThreshold,  \* calls before the breaker may open
    Buckets,          \* of the window its statistics roll over
    MaxFires,         \* bound: calls counted in one window
    None

ASSUME WideAssumption == Wide \subseteq Requests
ASSUME VolumeAssumption == VolumeThreshold \in Nat \ {0}
ASSUME BucketsAssumption == Buckets \in Nat \ {0}
ASSUME LimitAssumption == Limit \in Nat
ASSUME HostAssumption == IsFiniteSet(Hosts) /\ AuthHost \notin Hosts

VARIABLES
    domain,
    healthy,       \* hosts that answer, if only with an error of their own
    state,         \* of the circuit: "closed", "open" or "halfOpen"
    pendingClose,  \* half open, and the call that decides not yet made
    window,        \* [fires, failures] of each bucket, the current one first
    hits,          \* of the client in the throttler's storage
    legs,          \* what became of each call of each request
    answer         \* how far each request is, then what the client is told

breakerVars == <<state, pendingClose, window>>
requestVars == <<legs, answer>>
vars == <<domain, healthy, breakerVars, hits, requestVars>>

Domains == {"auth-server", "kiosk-admin", "log-streamer", "log-history"}
Single == domain \in {"auth-server", "kiosk-admin"}
AllHosts == IF Single THEN {AuthHost} ELSE Hosts

\* A call is for what was asked, or for the numbers that go with a search.
Calls == (Hosts \cup {AuthHost}) \X {"main", "stats"}
LegStates == {"none", "sent", "ok", "structured", "failed", "rejected"}
Idle == [is |-> "idle"]
Passed == [is |-> "passed"]
Asked == [is |-> "asked"]
Data == [is |-> "data"]
NoLegs == [c \in Calls |-> "none"]

-----------------------------------------------------------------------------
(* Errors.  The fetch adapter wraps the error that has the response into    *)
(* another one as its cause, so an error is a chain of one or two.          *)

Body == [code : BOOLEAN, message : BOOLEAN]   \* the strings it has
Text == [code |-> FALSE, message |-> FALSE]   \* what is no JSON has none
Codes == {"timeout", "other"}
Links == [code : {"other"}, response : Body] \cup [code : Codes, response : {None}]
Chains == {<<l>> : l \in Links}
            \cup {<<[code |-> l.code, response |-> None], l>> : l \in Links}

\* Without an answer, and with one that is no error of the host's own.
Unreachable == {e \in Chains : e[Len(e)].response = None}
Raw == {e \in Chains : e[Len(e)].response \in Body
                        /\ ~(e[Len(e)].response.code /\ e[Len(e)].response.message)}
Structured == Chains \ (Unreachable \cup Raw)

\* The first error of the chain that has a response, or the last one.
OutermostOnly(chain) == Head(chain)  \* mutant
findAxiosErrorWithResponse(chain) ==
    LET i == SelectInSeq(chain, LAMBDA l : l.response # None)
    IN  IF i = 0 THEN Last(chain) ELSE chain[i]

NeverStructured(chain) == FALSE  \* mutant: no errorFilter

\* The breaker takes an error in which the host explains itself for a success.
isStructuredDownstreamError(chain) ==
    LET data == findAxiosErrorWithResponse(chain).response
    IN  data # None /\ data.code /\ data.message

\* The filter has a search for the response of its own.
responseOf(chain) ==
    LET i == SelectInSeq(chain, LAMBDA l : l.response # None)
    IN  IF i = 0 THEN None ELSE chain[i].response

\* What the client is told: the code, whether it gets the host's own error
\* code and message, and (for the properties) how the call was counted.
Error(code, counted, own, words) ==
    [is |-> "error", code |-> code, counted |-> counted,
     errorCode |-> own, message |-> words]

toAxiosGraphQLError(chain, counted) ==
    LET data == responseOf(chain)
    IN  IF Head(chain).code = "timeout" THEN Error("GATEWAY_TIMEOUT", counted, FALSE, FALSE)
        ELSE IF data = None THEN Error("BAD_GATEWAY", counted, FALSE, FALSE)
        ELSE Error("STATUS", counted, data.code, data.message)

\* The breaker is open.
ServiceUnavailable == Error("BAD_GATEWAY", "rejected", FALSE, FALSE)

-----------------------------------------------------------------------------
(* The breaker.                                                             *)

Zero == [fires |-> 0, failures |-> 0]
Total(f) == FoldLeft(LAMBDA n, b : n + b[f], 0, window)

Init ==
    /\ domain \in Domains
    /\ healthy = AllHosts
    /\ state = "closed" /\ pendingClose = FALSE
    /\ window = [i \in 1..Buckets |-> Zero]
    /\ hits = 0
    /\ legs = [r \in Requests |-> NoLegs]
    /\ answer = [r \in Requests |-> Idle]

\* Calls that are made at once, in this order: each is counted, and the
\* first one of a half-open circuit goes through and keeps the others out.
Fire(r, calls) ==
    LET through == IF state = "closed" THEN ToSet(calls)
                   ELSE IF pendingClose /\ calls # <<>> THEN {Head(calls)} ELSE {}
    IN  /\ Total("fires") + Len(calls) <= MaxFires
        /\ legs' = [legs EXCEPT ![r] =
               [c \in Calls |-> IF c \in through THEN "sent"
                                ELSE IF c \in ToSet(calls) THEN "rejected"
                                ELSE "none"]]
        /\ window' = [window EXCEPT ![1].fires = @ + Len(calls)]
        /\ pendingClose' = (pendingClose /\ calls = <<>>)
        /\ UNCHANGED state

\* A success closes a half-open circuit, be it of the call that was let
\* through or of one that was made before the circuit opened.
Succeeds ==
    /\ state' = IF state = "halfOpen" THEN "closed" ELSE state
    /\ pendingClose' = (pendingClose /\ state # "halfOpen")
    /\ UNCHANGED window

\* Such a failure opens it again; a closed one opens when there were enough
\* calls in the window and more than half as many failures.
Fails ==
    LET rolled == [window EXCEPT ![1].failures = @ + 1]
        tooMany == /\ Total("fires") >= VolumeThreshold
                   /\ 2 * (Total("failures") + 1) > Total("fires")
        opens == state = "halfOpen" \/ tooMany
    IN  /\ window' = rolled
        /\ state' = IF opens THEN "open" ELSE state
        /\ pendingClose' = (pendingClose /\ ~opens)

\* errorFilter, and what the breaker makes of the error.
Counted(chain) == IF isStructuredDownstreamError(chain) THEN "structured" ELSE "failed"

\* resetTimeout after it has opened.
HalfOpens ==
    /\ state = "open"
    /\ state' = "halfOpen"
    /\ pendingClose' = TRUE
    /\ UNCHANGED <<domain, healthy, window, hits, requestVars>>

Rotates ==
    /\ window' = <<Zero>> \o Front(window)
    /\ UNCHANGED <<domain, healthy, state, pendingClose, hits, requestVars>>

-----------------------------------------------------------------------------
(* The guards, in the order in which they are registered.                   *)

\* GqlThrottlerGuard: the hit is counted before the key is looked at.
IsBlocked == hits >= Limit

\* ApiKeyGuard: the operations of the auth service are public.
IsPublic == domain = "auth-server"

Guards(r) ==
    /\ answer[r] = Idle /\ (Single \/ r \in Wide)
    /\ hits' = IF IsBlocked THEN hits ELSE hits + 1
    /\ answer' = [answer EXCEPT ![r] =
           IF IsBlocked THEN Error("TOO_MANY_REQUESTS", "none", FALSE, FALSE) ELSE Passed]
    /\ UNCHANGED <<domain, healthy, breakerVars, legs>>

NoKey(r) ==
    /\ answer[r] = Idle /\ (Single \/ r \in Wide)
    /\ ~IsPublic /\ ~IsBlocked
    /\ hits' = hits + 1
    /\ answer' = [answer EXCEPT ![r] = Error("UNAUTHENTICATED", "none", FALSE, FALSE)]
    /\ UNCHANGED <<domain, healthy, breakerVars, legs>>

\* A hit is forgotten a minute later.
HitExpires ==
    /\ hits > 0
    /\ hits' = hits - 1
    /\ UNCHANGED <<domain, healthy, breakerVars, requestVars>>

-----------------------------------------------------------------------------
(* The resolvers.                                                           *)

\* The calls of a request, in the order of the hosts that DNS gives.
Mains(hosts) == [i \in DOMAIN hosts |-> <<hosts[i], "main">>]
Stats(hosts) == [i \in DOMAIN hosts |-> <<hosts[i], "stats">>]

\* The error of a lone call goes on to the filter; of several, the answers
\* are merged that came.
Of(done, part) == {c[1] : c \in {d \in done : d[2] = part}}
mergeStats(done) == Of(done, "stats")

SettleFirst(r, told) ==  \* mutant: does not wait for all
    answer' = [answer EXCEPT ![r] =
        IF \E c \in Calls : legs'[r][c] = "ok"
          THEN IF Single THEN told ELSE [is |-> "merged", main |-> {}, stats |-> {}]
          ELSE Asked]
Settle(r, told) ==
    LET done == {c \in Calls : legs'[r][c] = "ok"}
    IN  answer' = [answer EXCEPT ![r] =
            IF \E c \in Calls : legs'[r][c] = "sent" THEN Asked
            ELSE IF Single THEN told
            ELSE [is |-> "merged", main |-> Of(done, "main"), stats |-> mergeStats(done)]]

Ask(r, calls) ==
    /\ answer[r] = Passed
    /\ Fire(r, calls)
    /\ Settle(r, ServiceUnavailable)
    /\ UNCHANGED <<domain, healthy, hits>>

\* One call: login, verifyTwoFactor, refreshToken and changePassword, which
\* only differ in what they send, and the terminals of a currency.
post(r) == Ask(r, Mains(<<AuthHost>>))

authMutation(r) == domain = "auth-server" /\ post(r)
getReleaseCurrencyTerminals(r) == domain = "kiosk-admin" /\ post(r)

\* One call to each host that is discovered.
\* The tasks DNS knows, or else the configured host.
discoverLogStreamers == SetToAllKPermutations(Hosts) \ {<<>>}
askAll(r) == \E hosts \in discoverLogStreamers : Ask(r, Mains(hosts))

listContainers(r) == domain = "log-streamer" /\ askAll(r)
listApps(r) == domain = "log-history" /\ askAll(r)

\* Without containers there is nothing to ask.
getContainerStats(r) ==
    /\ domain = "log-streamer"
    /\ askAll(r) \/ Ask(r, <<>>)

\* The lines are asked for from all hosts, then the numbers.
search(r) ==
    /\ domain = "log-history"
    /\ \E hosts \in discoverLogStreamers : Ask(r, Mains(hosts) \o Stats(hosts))

\* An answer, an error of the host's own, or no sense or no answer at all.
Answered(r, c) ==
    /\ legs[r][c] = "sent" /\ c[1] \in healthy
    /\ legs' = [legs EXCEPT ![r][c] = "ok"]
    /\ Succeeds
    /\ Settle(r, Data)
    /\ UNCHANGED <<domain, healthy, hits>>

Errs(r, c) ==
    /\ legs[r][c] = "sent"
    /\ \E chain \in Structured \cup IF c[1] \in healthy THEN {} ELSE Unreachable \cup Raw :
          /\ legs' = [legs EXCEPT ![r][c] = Counted(chain)]
          /\ IF Counted(chain) = "structured" THEN Succeeds ELSE Fails
          /\ Settle(r, toAxiosGraphQLError(chain, Counted(chain)))
    /\ UNCHANGED <<domain, healthy, hits>>

\* A response without a body: BadGatewayException.
NoBody(r, c) ==
    /\ legs[r][c] = "sent" /\ Single /\ c[1] \notin healthy
    /\ legs' = [legs EXCEPT ![r][c] = "failed"]
    /\ Fails
    /\ Settle(r, Error("BAD_GATEWAY", "failed", FALSE, FALSE))
    /\ UNCHANGED <<domain, healthy, hits>>

\* The client has its answer and may ask again.
Done(r) ==
    /\ answer[r].is \in {"error", "data", "merged"}
    /\ legs' = [legs EXCEPT ![r] = NoLegs]
    /\ answer' = [answer EXCEPT ![r] = Idle]
    /\ UNCHANGED <<domain, healthy, breakerVars, hits>>

-----------------------------------------------------------------------------
(* The hosts, and the gateway's own process.                                *)

Sickens(h) == /\ healthy' = healthy \ {h}
              /\ h \in healthy
              /\ UNCHANGED <<domain, breakerVars, hits, requestVars>>

Recovers(h) == /\ healthy' = healthy \cup {h}
               /\ h \in AllHosts \ healthy
               /\ UNCHANGED <<domain, breakerVars, hits, requestVars>>

\* Breakers and hits are kept in memory.
Restart ==
    /\ state' = "closed" /\ pendingClose' = FALSE
    /\ window' = [i \in 1..Buckets |-> Zero]
    /\ hits' = 0
    /\ legs' = [r \in Requests |-> NoLegs]
    /\ answer' = [r \in Requests |-> Idle]
    /\ UNCHANGED <<domain, healthy>>

Next ==
    \/ \E r \in Requests : Guards(r) \/ NoKey(r) \/ Done(r)
    \/ \E r \in Requests : \/ authMutation(r) \/ getReleaseCurrencyTerminals(r)
                           \/ listContainers(r) \/ getContainerStats(r)
                           \/ listApps(r) \/ search(r)
    \/ \E r \in Requests, c \in Calls : Answered(r, c) \/ Errs(r, c) \/ NoBody(r, c)
    \/ HalfOpens \/ Rotates \/ HitExpires \/ Restart
    \/ \E h \in AllHosts : Sickens(h) \/ Recovers(h)

Spec == Init /\ [][Next]_vars

(* Fairness: timers fire, and every call ends, by its timeout at the latest.*)
Fairness ==
    /\ WF_vars(HalfOpens) /\ WF_vars(Rotates)
    /\ \A r \in Requests, c \in Calls :
          WF_vars(Answered(r, c) \/ Errs(r, c) \/ NoBody(r, c))

FairSpec == Spec /\ Fairness

-----------------------------------------------------------------------------
(* Type correctness; a request that is answered has no call under way, and  *)
(* only a half-open circuit waits for the call that decides.                *)
Merged == [is : {"merged"}, main : SUBSET Hosts, stats : SUBSET Hosts]
Errors == [is : {"error"}, code : {"TOO_MANY_REQUESTS", "UNAUTHENTICATED", "BAD_GATEWAY",
                   "GATEWAY_TIMEOUT", "STATUS"},
           counted : LegStates, errorCode : BOOLEAN, message : BOOLEAN]
TypeOK ==
    /\ domain \in Domains /\ healthy \subseteq AllHosts
    /\ state \in {"closed", "open", "halfOpen"} /\ pendingClose \in BOOLEAN
    /\ window \in [1..Buckets -> [fires : Nat, failures : Nat]]
    /\ hits \in 0..Limit
    /\ legs \in [Requests -> [Calls -> LegStates]]
    /\ answer \in [Requests -> {Idle, Passed, Asked, Data} \cup Merged \cup Errors]
    /\ pendingClose => state = "halfOpen"
    /\ \A r \in Requests :
          (\E c \in Calls : legs[r][c] = "sent") <=> answer[r] = Asked

(* The two classifications of an error agree, however it is wrapped: what   *)
(* the breaker takes for a success is what reaches the client as the host's *)
(* own error code and words, and nothing else does.                         *)
ToldWhatWasCounted ==
    \A r \in Requests : answer[r].is = "error" =>
        (answer[r].counted = "structured" <=> answer[r].errorCode /\ answer[r].message)

(* An open circuit is not for ever: once all hosts are there for good, even *)
(* if they answer with errors of their own, and clients keep asking, it is  *)
(* closed for good, however late the answers to earlier calls come.         *)
CallsMade == \E r \in Requests, c \in Calls : legs[r][c] = "none" /\ legs'[r][c] # "none"
Recloses == <>[](healthy = AllHosts) /\ []<><<CallsMade>>_vars => <>[](state = "closed")
===============================================================================
