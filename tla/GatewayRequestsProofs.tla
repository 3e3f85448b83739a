------------------------- MODULE GatewayRequestsProofs -------------------------
(***************************************************************************)
(* Proofs about GatewayRequests, for any hosts, requests, limits and sizes *)
(* of the window: types, the calls a request may have under way, and the   *)
(* agreement of the breaker's and the filter's views of an error.          *)
(***************************************************************************)
EXTENDS GatewayRequests, FiniteSetTheorems, SequenceTheorems, TLAPS

-----------------------------------------------------------------------------
(* Errors: two searches through the chain, one result.                      *)

\* The response of an error is that of the innermost link, its code that of
\* the outermost, and the adapter wraps without changing the code.
LEMMA Wrapped ==
    ASSUME NEW chain \in Chains
    PROVE  \E l \in Links : /\ chain[Len(chain)] = l
                            /\ Len(chain) \in {1, 2}
                            /\ Head(chain).code = l.code
                            /\ Len(chain) = 2 => chain[1].response = None
<1>1. PICK l \in Links : chain = <<l>> \/ chain = <<[code |-> l.code, response |-> None], l>>
    BY DEF Chains
<1>2. CASE chain = <<l>>
    BY <1>2
<1>3. CASE chain = <<[code |-> l.code, response |-> None], l>>
    BY <1>3
<1> QED
    BY <1>1, <1>2, <1>3

\* What a search through one or two links finds.
WithResponse(chain) == {i \in 1 .. Len(chain) : chain[i].response # None}

LEMMA SearchChain ==
    ASSUME NEW chain \in Chains
    PROVE  /\ Len(chain) \in {1, 2}
           /\ IF chain[Len(chain)].response = None
                THEN WithResponse(chain) = {}
                ELSE WithResponse(chain) # {} /\ Min(WithResponse(chain)) = Len(chain)
<1>1. PICK l \in Links : /\ chain[Len(chain)] = l
                         /\ Len(chain) \in {1, 2}
                         /\ Len(chain) = 2 => chain[1].response = None
    BY Wrapped
<1>2. WithResponse(chain) = IF l.response = None THEN {} ELSE {Len(chain)}
    BY <1>1 DEF WithResponse
<1>3. ASSUME NEW n \in Nat
      PROVE  Min({n}) = n
    BY DEF Min
<1> QED
    BY <1>1, <1>2, <1>3

LEMMA ResponseFound ==
    ASSUME NEW chain \in Chains
    PROVE  /\ findAxiosErrorWithResponse(chain).response = chain[Len(chain)].response
           /\ responseOf(chain) = chain[Len(chain)].response
<1>1. findAxiosErrorWithResponse(chain) =
        LET i == IF WithResponse(chain) # {} THEN Min(WithResponse(chain)) ELSE 0
        IN  IF i = 0 THEN chain[Len(chain)] ELSE chain[i]
    BY DEF findAxiosErrorWithResponse, SelectInSeq, WithResponse, Last
<1>2. responseOf(chain) =
        LET i == IF WithResponse(chain) # {} THEN Min(WithResponse(chain)) ELSE 0
        IN  IF i = 0 THEN None ELSE chain[i].response
    BY DEF responseOf, SelectInSeq, WithResponse
<1>3. CASE chain[Len(chain)].response = None
    BY <1>1, <1>2, <1>3, SearchChain
<1>4. CASE chain[Len(chain)].response # None
    <2>1. WithResponse(chain) # {} /\ Min(WithResponse(chain)) = Len(chain) /\ Len(chain) # 0
        BY <1>4, SearchChain
    <2> QED
        BY <1>1, <1>2, <2>1
<1> QED
    BY <1>3, <1>4

\* What the client is told agrees with how the breaker counted the call.
Agreed(a) ==
    a.is = "error" => (a.counted = "structured" <=> a.errorCode /\ a.message)

LEMMA ErrorsAgree ==
    ASSUME NEW chain \in Chains
    PROVE  /\ toAxiosGraphQLError(chain, Counted(chain)) \in Errors
           /\ Agreed(toAxiosGraphQLError(chain, Counted(chain)))
<1>1. PICK l \in Links : /\ chain[Len(chain)] = l
                         /\ Head(chain).code = l.code
    BY Wrapped
<1>2. l.response = None \/ l.response \in Body
    BY DEF Links
<1>3. l.code = "timeout" => l.response = None
    BY DEF Links
<1>4. Counted(chain) = IF l.response # None /\ l.response.code /\ l.response.message
                         THEN "structured" ELSE "failed"
    BY <1>1, ResponseFound DEF Counted, isStructuredDownstreamError
<1>5. toAxiosGraphQLError(chain, Counted(chain)) =
        IF l.code = "timeout" THEN Error("GATEWAY_TIMEOUT", Counted(chain), FALSE, FALSE)
        ELSE IF l.response = None THEN Error("BAD_GATEWAY", Counted(chain), FALSE, FALSE)
        ELSE Error("STATUS", Counted(chain), l.response.code, l.response.message)
    BY <1>1, ResponseFound DEF toAxiosGraphQLError
<1>6. l.response # None => l.response.code \in BOOLEAN /\ l.response.message \in BOOLEAN
    BY <1>2 DEF Body
<1>7. Counted(chain) \in {"structured", "failed"}
    BY <1>4
<1>8. CASE l.response = None
    <2>1. \E code \in {"GATEWAY_TIMEOUT", "BAD_GATEWAY"} :
             toAxiosGraphQLError(chain, Counted(chain)) = Error(code, "failed", FALSE, FALSE)
        BY <1>4, <1>5, <1>8
    <2> QED
        BY <2>1 DEF Error, Errors, LegStates, Agreed
<1>9. CASE l.response # None
    <2>1. toAxiosGraphQLError(chain, Counted(chain)) =
            Error("STATUS", Counted(chain), l.response.code, l.response.message)
        BY <1>3, <1>5, <1>9
    <2>2. Counted(chain) = "structured" <=> l.response.code /\ l.response.message
        BY <1>4, <1>9
    <2> QED
        BY <1>6, <1>7, <1>9, <2>1, <2>2 DEF Error, Errors, LegStates, Agreed
<1> QED
    BY <1>8, <1>9

-----------------------------------------------------------------------------
(* The calls of a request.                                                  *)

\* Where a call of a list goes is where the list says.
LEMMA CallLists ==
    ASSUME NEW hosts \in discoverLogStreamers
    PROVE  /\ Mains(hosts) \in Seq(Calls)
           /\ Mains(hosts) \o Stats(hosts) \in Seq(Calls)
           /\ \A c \in ToSet(Mains(hosts)) : c[1] \in Hosts
           /\ \A c \in ToSet(Mains(hosts) \o Stats(hosts)) : c[1] \in Hosts
<1>1. PICK S \in SUBSET Hosts : hosts \in SetToSeqs(S)
    BY DEF discoverLogStreamers, SetToAllKPermutations
<1>2. Cardinality(S) \in Nat
    BY <1>1, HostAssumption, FS_Subset, FS_CardinalityType
<1>3. hosts \in [1 .. Cardinality(S) -> Hosts]
    BY <1>1 DEF SetToSeqs
<1>4. hosts \in Seq(Hosts)
    BY <1>2, <1>3, IsASeq
<1> DEFINE Own == Hosts \X {"main", "stats"}
<1>5. Mains(hosts) \in [1 .. Cardinality(S) -> Own]
    BY <1>3 DEF Mains
<1>6. Stats(hosts) \in [1 .. Cardinality(S) -> Own]
    BY <1>3 DEF Stats
<1> HIDE DEF Own
<1>7. Mains(hosts) \in Seq(Own) /\ Stats(hosts) \in Seq(Own)
    BY <1>2, <1>5, <1>6, IsASeq
<1>8. Mains(hosts) \o Stats(hosts) \in Seq(Own)
    BY <1>7, ConcatProperties
<1>9. ASSUME NEW calls \in Seq(Own)
      PROVE  /\ calls \in Seq(Calls)
             /\ \A c \in ToSet(calls) : c[1] \in Hosts
    <2>1. Own \subseteq Calls
        BY DEF Own, Calls
    <2>2. \A i \in DOMAIN calls : calls[i] \in Own
        BY ElementOfSeq, LenProperties
    <2>3. calls \in Seq(Calls)
        BY <2>1, SeqMonotonic
    <2> QED
        BY <2>2, <2>3 DEF ToSet, Own
<1> QED
    BY <1>7, <1>8, <1>9

LEMMA LoneCall ==
    /\ Mains(<<AuthHost>>) \in Seq(Calls)
    /\ \A c \in ToSet(Mains(<<AuthHost>>)) : c[1] = AuthHost
<1>1. Mains(<<AuthHost>>) = <<<<AuthHost, "main">>>>
    BY DEF Mains
<1>2. <<AuthHost, "main">> \in Calls
    BY DEF Calls
<1> QED
    BY <1>1, <1>2 DEF ToSet

\* No request ever has a call to a host that is not of its domain.
OwnHosts == \A r \in Requests, c \in Calls : legs[r][c] # "none" => c[1] \in AllHosts

TypeInv == TypeOK /\ OwnHosts

Answers == {Idle, Passed, Asked, Data} \cup Merged \cup Errors

Agree == \A r \in Requests : Agreed(answer[r])

\* The types and what the invariants say of the request of one step.
RequestOK(r) ==
    /\ legs[r] \in [Calls -> LegStates]
    /\ answer[r] \in Answers
    /\ (\E c \in Calls : legs[r][c] = "sent") <=> answer[r] = Asked
    /\ \A c \in Calls : legs[r][c] # "none" => c[1] \in AllHosts

BreakerOK ==
    /\ state \in {"closed", "open", "halfOpen"} /\ pendingClose \in BOOLEAN
    /\ window \in [1..Buckets -> [fires : Nat, failures : Nat]]
    /\ pendingClose => state = "halfOpen"

ServerOK ==
    /\ domain \in Domains /\ healthy \subseteq AllHosts
    /\ hits \in 0..Limit

LEMMA Parts ==
    TypeInv <=> /\ BreakerOK /\ ServerOK
                /\ legs = [r \in Requests |-> legs[r]]
                /\ answer = [r \in Requests |-> answer[r]]
                /\ \A r \in Requests : RequestOK(r)
BY DEF TypeInv, TypeOK, OwnHosts, BreakerOK, ServerOK, RequestOK, Answers

\* A step of one request keeps what holds of the others.
LEMMA OneRequest ==
    ASSUME TypeInv, NEW r \in Requests, BreakerOK', ServerOK', RequestOK(r)',
           UNCHANGED domain,
           legs' = [legs EXCEPT ![r] = legs'[r]],
           answer' = [answer EXCEPT ![r] = answer'[r]]
    PROVE  TypeInv'
<1>1. AllHosts' = AllHosts
    BY DEF AllHosts, Single
<1>2. ASSUME NEW s \in Requests \ {r}
      PROVE  RequestOK(s)'
    BY <1>1, <1>2, Parts DEF RequestOK
<1>3. /\ legs' = [s \in Requests |-> legs'[s]]
      /\ answer' = [s \in Requests |-> answer'[s]]
    BY Parts
<1>4. ASSUME NEW s \in Requests
      PROVE  RequestOK(s)'
    BY <1>2
<1> QED
    BY <1>3, <1>4
    DEF TypeInv, TypeOK, OwnHosts, BreakerOK, ServerOK, RequestOK, Answers

\* The kinds of answers are different from one another.
LEMMA Kinds ==
    /\ Asked \notin {Idle, Passed, Data} \cup Merged \cup Errors
    /\ \A a \in {Idle, Passed, Asked, Data} \cup Merged : a.is # "error"
BY DEF Asked, Idle, Passed, Data, Merged, Errors

\* Where a request is once a call of it has ended or was not let through.
LEMMA Settled ==
    ASSUME TypeInv, NEW r \in Requests, NEW told \in {Data} \cup Errors,
           Settle(r, told), UNCHANGED domain,
           legs'[r] \in [Calls -> LegStates],
           \A c \in Calls : legs'[r][c] # "none" => c[1] \in AllHosts
    PROVE  /\ RequestOK(r)'
           /\ answer' = [answer EXCEPT ![r] = answer'[r]]
           /\ Agreed(told) => Agreed(answer'[r])
<1> DEFINE done == {c \in Calls : legs'[r][c] = "ok"}
           merged == [is |-> "merged", main |-> Of(done, "main"), stats |-> mergeStats(done)]
<1>1. answer' = [answer EXCEPT ![r] =
            IF \E c \in Calls : legs'[r][c] = "sent" THEN Asked
            ELSE IF Single THEN told
            ELSE merged]
    BY DEF Settle
<1>2. /\ answer'[r] = IF \E c \in Calls : legs'[r][c] = "sent" THEN Asked
                      ELSE IF Single THEN told ELSE merged
      /\ answer' = [answer EXCEPT ![r] = answer'[r]]
    BY <1>1, Parts
<1>3. AllHosts' = AllHosts
    BY DEF AllHosts, Single
<1>4. ~Single => merged \in Merged
    <2>1. ~Single => \A c \in done : c[1] \in Hosts
        BY DEF AllHosts
    <2> QED
        BY <2>1 DEF Of, mergeStats, Merged
<1> HIDE DEF merged
<1>5. /\ answer'[r] \in Answers
      /\ (\E c \in Calls : legs'[r][c] = "sent") <=> answer'[r] = Asked
    BY <1>2, <1>4, Kinds DEF Answers
<1>6. Agreed(told) => Agreed(answer'[r])
    BY <1>2, <1>4, Kinds DEF Agreed
<1> QED
    BY <1>2, <1>3, <1>5, <1>6 DEF RequestOK

-----------------------------------------------------------------------------
(* The breaker.                                                             *)

Bucket == [fires : Nat, failures : Nat]

LEMMA Counting ==
    ASSUME window \in [1 .. Buckets -> Bucket], NEW n \in Nat
    PROVE  /\ [window EXCEPT ![1].fires = @ + n] \in [1 .. Buckets -> Bucket]
           /\ [window EXCEPT ![1].failures = @ + n] \in [1 .. Buckets -> Bucket]
<1>1. window[1] \in Bucket
    BY BucketsAssumption
<1>2. /\ [window[1] EXCEPT !.fires = @ + n] \in Bucket
      /\ [window[1] EXCEPT !.failures = @ + n] \in Bucket
    BY <1>1 DEF Bucket
<1> QED
    BY <1>2, Zenon

LEMMA Fired ==
    ASSUME TypeInv, NEW r \in Requests, NEW calls \in Seq(Calls), Fire(r, calls)
    PROVE  /\ BreakerOK'
           /\ legs' = [legs EXCEPT ![r] = legs'[r]]
           /\ legs'[r] \in [Calls -> LegStates]
           /\ \A c \in Calls : legs'[r][c] # "none" => c \in ToSet(calls)
<1> DEFINE through == IF state = "closed" THEN ToSet(calls)
                      ELSE IF pendingClose /\ calls # <<>> THEN {Head(calls)} ELSE {}
<1>1. through \subseteq ToSet(calls)
    <2>1. calls # <<>> => Head(calls) = calls[1] /\ 1 \in DOMAIN calls
        BY HeadTailProperties, LenProperties, EmptySeq
    <2> QED
        BY <2>1 DEF ToSet
<1>2. legs' = [legs EXCEPT ![r] = [c \in Calls |-> IF c \in through THEN "sent"
                                  ELSE IF c \in ToSet(calls) THEN "rejected"
                                  ELSE "none"]]
    BY DEF Fire
<1>3. BreakerOK'
    <2>1. Len(calls) \in Nat
        BY LenProperties
    <2>2. window' \in [1 .. Buckets -> Bucket]
        <3>1. window' = [window EXCEPT ![1].fires = @ + Len(calls)]
            BY DEF Fire
        <3> QED
            BY <2>1, <3>1, Counting DEF TypeInv, TypeOK, Bucket
    <2>3. pendingClose' = (pendingClose /\ calls = <<>>) /\ UNCHANGED state
        BY DEF Fire
    <2> QED
        BY <2>2, <2>3 DEF TypeInv, TypeOK, BreakerOK, Bucket
<1> HIDE DEF through
<1>4. legs'[r] = [c \in Calls |-> IF c \in through THEN "sent"
                                  ELSE IF c \in ToSet(calls) THEN "rejected"
                                  ELSE "none"]
    BY <1>2, Parts
<1> QED
    BY <1>1, <1>2, <1>3, <1>4 DEF LegStates

LEMMA Ended ==
    ASSUME TypeInv, Succeeds \/ Fails
    PROVE  BreakerOK'
<1>1. CASE Succeeds
    BY <1>1 DEF Succeeds, TypeInv, TypeOK, BreakerOK
<1>2. CASE Fails
    <2>1. window' \in [1 .. Buckets -> Bucket]
        <3>1. window' = [window EXCEPT ![1].failures = @ + 1]
            BY <1>2 DEF Fails
        <3> QED
            BY <3>1, Counting DEF TypeInv, TypeOK, Bucket
    <2>2. PICK opens \in BOOLEAN : /\ state' = IF opens THEN "open" ELSE state
                                   /\ pendingClose' = (pendingClose /\ ~opens)
        <3> DEFINE opens == \/ state = "halfOpen"
                            \/ /\ Total("fires") >= VolumeThreshold
                               /\ 2 * (Total("failures") + 1) > Total("fires")
        <3>1. /\ state' = IF opens THEN "open" ELSE state
              /\ pendingClose' = (pendingClose /\ ~opens)
            BY <1>2 DEF Fails
        <3>2. opens \in BOOLEAN
            OBVIOUS
        <3> QED
            BY <3>1, <3>2
    <2> QED
        BY <2>1, <2>2 DEF TypeInv, TypeOK, BreakerOK, Bucket
<1> QED
    BY <1>1, <1>2

LEMMA Rotated ==
    ASSUME window \in [1 .. Buckets -> Bucket]
    PROVE  <<Zero>> \o Front(window) \in [1 .. Buckets -> Bucket]
<1>1. window \in Seq(Bucket) /\ Len(window) = Buckets
    BY BucketsAssumption, IsASeq, LenProperties
<1>2. Front(window) \in Seq(Bucket) /\ Len(Front(window)) = Buckets - 1
    BY <1>1, BucketsAssumption, SubSeqProperties DEF Front
<1>3. <<Zero>> \in Seq(Bucket) /\ Len(<<Zero>>) = 1
    BY DEF Zero, Bucket
<1>4. /\ <<Zero>> \o Front(window) \in Seq(Bucket)
      /\ Len(<<Zero>> \o Front(window)) = Buckets
    BY <1>2, <1>3, BucketsAssumption, ConcatProperties
<1> QED
    BY <1>4, LenProperties, ElementOfSeq

-----------------------------------------------------------------------------
(* The invariants.                                                          *)

Inv == TypeInv /\ Agree

LEMMA InvInit == Init => Inv
<1> SUFFICES ASSUME Init PROVE Inv
    OBVIOUS
<1>1. BreakerOK /\ ServerOK
    <2>1. window \in [1 .. Buckets -> Bucket]
        BY DEF Init, Zero, Bucket
    <2>2. 0 \in 0 .. Limit
        BY LimitAssumption
    <2> QED
        BY <2>1, <2>2 DEF Init, BreakerOK, ServerOK, Bucket
<1>2. ASSUME NEW r \in Requests
      PROVE  RequestOK(r) /\ Agreed(answer[r])
    BY <1>2, Kinds DEF Init, RequestOK, NoLegs, LegStates, Answers, Agreed, Idle, Asked
<1>3. legs = [r \in Requests |-> legs[r]] /\ answer = [r \in Requests |-> answer[r]]
    BY DEF Init
<1> QED
    BY <1>1, <1>2, <1>3, Parts DEF Inv, Agree

\* A step of one request, whatever it does to the breaker.
LEMMA OneAnswer ==
    ASSUME Inv, NEW r \in Requests, BreakerOK', ServerOK', RequestOK(r)',
           UNCHANGED domain, Agreed(answer'[r]),
           legs' = [legs EXCEPT ![r] = legs'[r]],
           answer' = [answer EXCEPT ![r] = answer'[r]]
    PROVE  Inv'
<1>1. TypeInv'
    BY OneRequest DEF Inv
<1>2. ASSUME NEW s \in Requests \ {r}
      PROVE  Agreed(answer'[s])
    BY <1>2, Parts DEF Inv, Agree
<1> QED
    BY <1>1, <1>2 DEF Inv, Agree

\* A step that is of no request.
LEMMA NoRequest ==
    ASSUME Inv, BreakerOK', ServerOK', UNCHANGED <<domain, legs, answer>>
    PROVE  Inv'
BY DEF Inv, TypeInv, TypeOK, OwnHosts, BreakerOK, ServerOK, Agree, AllHosts, Single

\* Errors the gateway makes itself.
LEMMA OwnErrors ==
    ASSUME NEW code \in {"TOO_MANY_REQUESTS", "UNAUTHENTICATED", "BAD_GATEWAY"},
           NEW counted \in {"none", "rejected", "failed"}
    PROVE  /\ Error(code, counted, FALSE, FALSE) \in Errors
           /\ Agreed(Error(code, counted, FALSE, FALSE))
BY DEF Error, Errors, LegStates, Agreed

\* A request at the guards.
LEMMA GuardsStep ==
    ASSUME Inv, NEW r \in Requests, Guards(r) \/ NoKey(r)
    PROVE  Inv'
<1> DEFINE a == answer'[r]
<1>1. PICK ans \in {Passed} \cup Errors :
          answer' = [answer EXCEPT ![r] = ans] /\ Agreed(ans)
    <2>1. Agreed(Passed)
        BY Kinds DEF Agreed
    <2> QED
        BY <2>1, OwnErrors DEF Guards, NoKey
<1>2. answer'[r] = ans
    BY <1>1, Parts DEF Inv
<1>3. ServerOK'
    <2>1. UNCHANGED <<domain, healthy>>
        BY DEF Guards, NoKey
    <2>2. hits \in 0 .. Limit
        BY DEF Inv, TypeInv, TypeOK
    <2>3. hits' = hits \/ (~(hits >= Limit) /\ hits' = hits + 1)
        BY DEF Guards, NoKey, IsBlocked
    <2>4. hits' \in 0 .. Limit
        BY <2>2, <2>3, LimitAssumption
    <2> QED
        BY <2>1, <2>4 DEF Inv, TypeInv, TypeOK, ServerOK, AllHosts, Single
<1>4. BreakerOK' /\ UNCHANGED <<domain, legs>>
    <2>1. UNCHANGED <<domain, state, pendingClose, window, legs>>
        BY DEF Guards, NoKey, breakerVars
    <2> QED
        BY <2>1 DEF Inv, TypeInv, TypeOK, BreakerOK
<1>5. answer[r] # Asked /\ ans # Asked
    BY Kinds DEF Guards, NoKey, Idle, Asked
<1>6. RequestOK(r)'
    <2>1. RequestOK(r)
        BY Parts DEF Inv
    <2> QED
        BY <1>2, <1>4, <1>5, <2>1 DEF RequestOK, Answers, AllHosts, Single
<1>7. legs' = [legs EXCEPT ![r] = legs'[r]]
    BY <1>4, Parts DEF Inv
<1> QED
    BY <1>1, <1>2, <1>3, <1>4, <1>6, <1>7, OneAnswer

\* A request at its resolver: the calls are made that go through.
LEMMA AskStep ==
    ASSUME Inv, NEW r \in Requests, NEW calls \in Seq(Calls), Ask(r, calls),
           \A c \in ToSet(calls) : c[1] \in AllHosts
    PROVE  Inv'
<1>1. /\ BreakerOK'
      /\ legs' = [legs EXCEPT ![r] = legs'[r]]
      /\ legs'[r] \in [Calls -> LegStates]
      /\ \A c \in Calls : legs'[r][c] # "none" => c[1] \in AllHosts
    BY Fired DEF Ask, Inv
<1>2. ServiceUnavailable \in Errors /\ Agreed(ServiceUnavailable)
    BY OwnErrors DEF ServiceUnavailable
<1>3. UNCHANGED <<domain, healthy, hits>> /\ Settle(r, ServiceUnavailable)
    BY DEF Ask
<1>4. /\ RequestOK(r)'
      /\ answer' = [answer EXCEPT ![r] = answer'[r]]
      /\ Agreed(answer'[r])
    BY <1>1, <1>2, <1>3, Settled DEF Inv
<1>5. ServerOK'
    BY <1>3 DEF Inv, TypeInv, TypeOK, ServerOK, AllHosts, Single
<1> QED
    BY <1>1, <1>3, <1>4, <1>5, OneAnswer

\* A resolver asks hosts of its own domain.
LEMMA ResolverAsks ==
    ASSUME NEW r \in Requests,
           \/ authMutation(r) \/ getReleaseCurrencyTerminals(r)
           \/ listContainers(r) \/ getContainerStats(r) \/ listApps(r) \/ search(r)
    PROVE  \E calls \in Seq(Calls) :
              Ask(r, calls) /\ \A c \in ToSet(calls) : c[1] \in AllHosts
<1>1. CASE authMutation(r) \/ getReleaseCurrencyTerminals(r)
    <2>1. Ask(r, Mains(<<AuthHost>>)) /\ AllHosts = {AuthHost}
        BY <1>1 DEF authMutation, getReleaseCurrencyTerminals, post, AllHosts, Single
    <2> QED
        BY <2>1, LoneCall
<1>2. CASE listContainers(r) \/ getContainerStats(r) \/ listApps(r) \/ search(r)
    <2>1. AllHosts = Hosts
        BY <1>2 DEF listContainers, getContainerStats, listApps, search, AllHosts, Single
    <2>2. \/ \E hosts \in discoverLogStreamers :
                Ask(r, Mains(hosts)) \/ Ask(r, Mains(hosts) \o Stats(hosts))
          \/ Ask(r, <<>>)
        BY <1>2 DEF listContainers, getContainerStats, listApps, search, askAll
    <2>3. <<>> \in Seq(Calls) /\ ToSet(<<>>) = {}
        BY DEF ToSet
    <2> QED
        BY <2>1, <2>2, <2>3, CallLists
<1> QED
    BY <1>1, <1>2

LEMMA ResolverStep ==
    ASSUME Inv, NEW r \in Requests,
           \/ authMutation(r) \/ getReleaseCurrencyTerminals(r)
           \/ listContainers(r) \/ getContainerStats(r) \/ listApps(r) \/ search(r)
    PROVE  Inv'
BY ResolverAsks, AskStep

\* The end of one call.
LEMMA CallStep ==
    ASSUME Inv, NEW r \in Requests, NEW c \in Calls,
           Answered(r, c) \/ Errs(r, c) \/ NoBody(r, c)
    PROVE  Inv'
<1>1. legs[r][c] = "sent"
    BY DEF Answered, Errs, NoBody
<1>2. /\ UNCHANGED <<domain, healthy, hits>>
      /\ Succeeds \/ Fails
    BY DEF Answered, Errs, NoBody
<1>3. PICK leg \in LegStates, told \in {Data} \cup Errors :
         /\ legs' = [legs EXCEPT ![r][c] = leg]
         /\ Settle(r, told)
         /\ Agreed(told)
    <2>1. CASE Answered(r, c)
        BY <2>1, Kinds DEF Answered, LegStates, Agreed
    <2>2. CASE Errs(r, c)
        <3>1. PICK chain \in Chains :
                 /\ legs' = [legs EXCEPT ![r][c] = Counted(chain)]
                 /\ Settle(r, toAxiosGraphQLError(chain, Counted(chain)))
            BY <2>2 DEF Errs, Structured, Unreachable, Raw
        <3>2. Counted(chain) \in LegStates
            BY DEF Counted, LegStates
        <3> QED
            BY <3>1, <3>2, ErrorsAgree
    <2>3. CASE NoBody(r, c)
        BY <2>3, OwnErrors DEF NoBody, LegStates
    <2> QED
        BY <2>1, <2>2, <2>3
<1>4. legs[r] \in [Calls -> LegStates] /\ legs = [s \in Requests |-> legs[s]]
    BY Parts DEF Inv, RequestOK
<1>5. legs'[r] = [legs[r] EXCEPT ![c] = leg]
    BY <1>3, <1>4
<1>6. /\ legs' = [legs EXCEPT ![r] = legs'[r]]
      /\ legs'[r] \in [Calls -> LegStates]
    BY <1>3, <1>4, <1>5
<1>7. \A d \in Calls : legs'[r][d] # "none" => d[1] \in AllHosts
    BY <1>1, <1>4, <1>5 DEF Inv, TypeInv, OwnHosts
<1>8. /\ RequestOK(r)'
      /\ answer' = [answer EXCEPT ![r] = answer'[r]]
      /\ Agreed(answer'[r])
    BY <1>2, <1>3, <1>6, <1>7, Settled DEF Inv
<1>9. ServerOK' /\ BreakerOK'
    BY <1>2, Ended DEF Inv, TypeInv, TypeOK, ServerOK, AllHosts, Single
<1> QED
    BY <1>2, <1>6, <1>8, <1>9, OneAnswer

LEMMA DoneStep ==
    ASSUME Inv, NEW r \in Requests, Done(r)
    PROVE  Inv'
<1>1. legs'[r] = NoLegs /\ answer'[r] = Idle
    BY Parts DEF Done, Inv
<1>2. /\ legs' = [legs EXCEPT ![r] = legs'[r]]
      /\ answer' = [answer EXCEPT ![r] = answer'[r]]
      /\ UNCHANGED <<domain, healthy, state, pendingClose, window, hits>>
    BY <1>1 DEF Done, breakerVars
<1>3. ServerOK' /\ BreakerOK'
    BY <1>2 DEF Inv, TypeInv, TypeOK, ServerOK, BreakerOK, AllHosts, Single
<1>4. RequestOK(r)' /\ Agreed(answer'[r])
    BY <1>1, Kinds DEF RequestOK, NoLegs, LegStates, Answers, Agreed, Idle, Asked
<1> QED
    BY <1>2, <1>3, <1>4, OneAnswer

LEMMA RestartStep ==
    ASSUME Inv, Restart
    PROVE  Inv'
<1>1. BreakerOK'
    <2>1. window' \in [1 .. Buckets -> Bucket]
        BY DEF Restart, Zero, Bucket
    <2> QED
        BY <2>1 DEF Restart, BreakerOK, Bucket
<1>2. ServerOK'
    <2>1. 0 \in 0 .. Limit
        BY LimitAssumption
    <2> QED
        BY <2>1 DEF Restart, ServerOK, Inv, TypeInv, TypeOK, AllHosts, Single
<1>3. ASSUME NEW r \in Requests
      PROVE  RequestOK(r)' /\ Agreed(answer'[r])
    <2>1. legs'[r] = NoLegs /\ answer'[r] = Idle
        BY DEF Restart
    <2> QED
        BY <2>1, Kinds
        DEF RequestOK, NoLegs, LegStates, Answers, Agreed, Idle, Asked
<1>4. /\ legs' = [r \in Requests |-> legs'[r]]
      /\ answer' = [r \in Requests |-> answer'[r]]
    BY DEF Restart
<1> QED
    BY <1>1, <1>2, <1>3, <1>4
    DEF Inv, TypeInv, TypeOK, OwnHosts, Agree, BreakerOK, ServerOK, RequestOK, Answers

LEMMA InvStep ==
    ASSUME Inv, [Next]_vars
    PROVE  Inv'
<1>1. ASSUME NEW r \in Requests, Guards(r) \/ NoKey(r)
      PROVE  Inv'
    BY <1>1, GuardsStep
<1>2. ASSUME NEW r \in Requests,
             \/ authMutation(r) \/ getReleaseCurrencyTerminals(r)
             \/ listContainers(r) \/ getContainerStats(r) \/ listApps(r) \/ search(r)
      PROVE  Inv'
    BY <1>2, ResolverStep
<1>3. ASSUME NEW r \in Requests, NEW c \in Calls,
             Answered(r, c) \/ Errs(r, c) \/ NoBody(r, c)
      PROVE  Inv'
    BY <1>3, CallStep
<1>4. ASSUME NEW r \in Requests, Done(r)
      PROVE  Inv'
    BY <1>4, DoneStep
<1>5. CASE HalfOpens
    BY <1>5, NoRequest
    DEF HalfOpens, requestVars, BreakerOK, ServerOK, Inv, TypeInv, TypeOK, AllHosts, Single
<1>6. CASE Rotates
    <2>1. window' \in [1 .. Buckets -> Bucket]
        BY <1>6, Rotated DEF Rotates, Inv, TypeInv, TypeOK, Bucket
    <2>2. UNCHANGED <<domain, healthy, state, pendingClose, hits, legs, answer>>
        BY <1>6 DEF Rotates, requestVars
    <2> QED
        BY <2>1, <2>2, NoRequest
        DEF BreakerOK, ServerOK, Inv, TypeInv, TypeOK, AllHosts, Single, Bucket
<1>7. CASE HitExpires
    <2>1. UNCHANGED <<domain, healthy, state, pendingClose, window, legs, answer>>
        BY <1>7 DEF HitExpires, breakerVars, requestVars
    <2>2. hits' \in 0 .. Limit
        BY <1>7, LimitAssumption DEF HitExpires, Inv, TypeInv, TypeOK
    <2> QED
        BY <2>1, <2>2, NoRequest
        DEF BreakerOK, ServerOK, Inv, TypeInv, TypeOK, AllHosts, Single
<1>8. ASSUME NEW h \in AllHosts, Sickens(h) \/ Recovers(h)
      PROVE  Inv'
    <2>1. UNCHANGED <<domain, state, pendingClose, window, hits, legs, answer>>
        BY <1>8 DEF Sickens, Recovers, breakerVars, requestVars
    <2>2. healthy' \subseteq AllHosts
        BY <1>8 DEF Sickens, Recovers, Inv, TypeInv, TypeOK
    <2> QED
        BY <2>1, <2>2, NoRequest
        DEF BreakerOK, ServerOK, Inv, TypeInv, TypeOK, AllHosts, Single
<1>9. CASE Restart
    BY <1>9, RestartStep
<1>10. CASE UNCHANGED vars
    BY <1>10, NoRequest
    DEF vars, breakerVars, requestVars, BreakerOK, ServerOK, Inv, TypeInv, TypeOK,
        AllHosts, Single
<1> QED
    BY <1>1, <1>2, <1>3, <1>4, <1>5, <1>6, <1>7, <1>8, <1>9, <1>10 DEF Next

LEMMA Invariance == Spec => []Inv
<1> QED
    BY InvInit, InvStep, PTL DEF Spec

\* For any number of hosts, requests and buckets, and however answers, timers,
\* guards and restarts interleave: a request waits exactly as long as one of
\* its calls is under way, and only a half-open circuit (circuit-breaker.
\* service.ts:80-92) waits for the call that decides.
THEOREM TypeCorrect == Spec => []TypeOK
<1>1. Inv => TypeOK
    BY DEF Inv, TypeInv
<1> QED
    BY <1>1, Invariance, PTL

\* The breaker's errorFilter (circuit-breaker.service.ts:17-40) and the
\* gateway's filter (http-exception.filter.ts:60-141) search the chain of
\* causes on their own; for every chain the fetch adapter can make, one takes
\* an error for a success exactly if the other gives the client the host's own
\* code and message.
THEOREM OneView == Spec => []ToldWhatWasCounted
<1>1. Inv => ToldWhatWasCounted
    BY DEF Inv, Agree, Agreed, ToldWhatWasCounted
<1> QED
    BY <1>1, Invariance, PTL

-----------------------------------------------------------------------------
(* The half-open circuit.                                                   *)

\* A half-open circuit either still lets the next call through or has a call
\* under way whose end closes or opens it.
HalfOpenIsDecided ==
    state = "halfOpen" /\ ~pendingClose => \E r \in Requests, c \in Calls : legs[r][c] = "sent"

\* A request that has no answer and no call under way does not change what the
\* others wait for.
LEMMA OthersStillSent ==
    ASSUME Inv, HalfOpenIsDecided, UNCHANGED <<state, pendingClose>>,
           NEW r \in Requests, answer[r] # Asked, legs' = [legs EXCEPT ![r] = legs'[r]]
    PROVE  HalfOpenIsDecided'
<1> SUFFICES ASSUME state = "halfOpen", ~pendingClose
             PROVE  \E s \in Requests, c \in Calls : legs'[s][c] = "sent"
    BY DEF HalfOpenIsDecided
<1>1. PICK s \in Requests, c \in Calls : legs[s][c] = "sent"
    BY DEF HalfOpenIsDecided
<1>2. s # r
    BY <1>1, Parts DEF Inv, RequestOK
<1>3. legs'[s] = legs[s]
    BY <1>2, Parts DEF Inv
<1> QED
    BY <1>1, <1>3

\* The call that is let through is the first of those made at once.
LEMMA FirstGoesThrough ==
    ASSUME Inv, NEW r \in Requests, NEW calls \in Seq(Calls), Fire(r, calls),
           state = "halfOpen", pendingClose, calls # <<>>
    PROVE  \E c \in Calls : legs'[r][c] = "sent"
<1>1. legs' = [legs EXCEPT ![r] = [c \in Calls |-> IF c \in {Head(calls)} THEN "sent"
                                  ELSE IF c \in ToSet(calls) THEN "rejected"
                                  ELSE "none"]]
    BY DEF Fire
<1>2. legs'[r] = [c \in Calls |-> IF c \in {Head(calls)} THEN "sent"
                                  ELSE IF c \in ToSet(calls) THEN "rejected"
                                  ELSE "none"]
    BY <1>1, Parts DEF Inv
<1>3. Head(calls) \in Calls
    BY HeadTailProperties
<1> QED
    BY <1>2, <1>3

LEMMA DecidedStep ==
    ASSUME Inv, [Next]_vars, HalfOpenIsDecided
    PROVE  HalfOpenIsDecided'
<1>1. ASSUME NEW r \in Requests, Guards(r) \/ NoKey(r)
      PROVE  HalfOpenIsDecided'
    BY <1>1 DEF Guards, NoKey, breakerVars, HalfOpenIsDecided
<1>2. ASSUME NEW r \in Requests, NEW calls \in Seq(Calls), Ask(r, calls)
      PROVE  HalfOpenIsDecided'
    <2>1. /\ Fire(r, calls) /\ answer[r] # Asked
          /\ state' = state /\ pendingClose' = (pendingClose /\ calls = <<>>)
        BY <1>2 DEF Ask, Fire, Passed, Asked
    <2>2. CASE state = "halfOpen" /\ pendingClose /\ calls # <<>>
        BY <2>1, <2>2, FirstGoesThrough DEF HalfOpenIsDecided
    <2>3. CASE state = "halfOpen" /\ (pendingClose => calls = <<>>)
        <3>1. pendingClose' = pendingClose
            BY <2>1, <2>3 DEF Inv, TypeInv, TypeOK
        <3>2. legs' = [legs EXCEPT ![r] = legs'[r]]
            BY <2>1, Fired DEF Inv
        <3> QED
            BY <2>1, <3>1, <3>2, OthersStillSent
    <2>4. CASE state # "halfOpen"
        BY <2>1, <2>4 DEF HalfOpenIsDecided
    <2> QED
        BY <2>2, <2>3, <2>4
<1>3. ASSUME NEW r \in Requests,
             \/ authMutation(r) \/ getReleaseCurrencyTerminals(r)
             \/ listContainers(r) \/ getContainerStats(r) \/ listApps(r) \/ search(r)
      PROVE  HalfOpenIsDecided'
    BY <1>2, <1>3, ResolverAsks
<1>4. ASSUME NEW r \in Requests, NEW c \in Calls,
             Answered(r, c) \/ Errs(r, c) \/ NoBody(r, c)
      PROVE  HalfOpenIsDecided'
    <2>1. Succeeds \/ Fails
        BY <1>4 DEF Answered, Errs, NoBody
    <2>2. CASE Succeeds
        BY <2>2 DEF Succeeds, HalfOpenIsDecided
    <2>3. CASE Fails
        <3>1. state' = "open" \/ (state # "halfOpen" /\ state' = state)
            BY <2>3 DEF Fails
        <3> QED
            BY <3>1 DEF HalfOpenIsDecided
    <2> QED
        BY <2>1, <2>2, <2>3
<1>5. ASSUME NEW r \in Requests, Done(r)
      PROVE  HalfOpenIsDecided'
    <2>1. answer[r] # Asked /\ UNCHANGED <<state, pendingClose>>
        BY <1>5 DEF Done, Asked, breakerVars
    <2>2. legs' = [legs EXCEPT ![r] = legs'[r]]
        BY <1>5, Parts DEF Done, Inv
    <2> QED
        BY <2>1, <2>2, OthersStillSent
<1>6. CASE HalfOpens
    BY <1>6 DEF HalfOpens, HalfOpenIsDecided
<1>7. CASE Rotates \/ HitExpires
    BY <1>7 DEF Rotates, HitExpires, breakerVars, requestVars, HalfOpenIsDecided
<1>8. ASSUME NEW h \in AllHosts, Sickens(h) \/ Recovers(h)
      PROVE  HalfOpenIsDecided'
    BY <1>8 DEF Sickens, Recovers, breakerVars, requestVars, HalfOpenIsDecided
<1>9. CASE Restart
    BY <1>9 DEF Restart, HalfOpenIsDecided
<1>10. CASE UNCHANGED vars
    BY <1>10 DEF vars, breakerVars, requestVars, HalfOpenIsDecided
<1> QED
    BY <1>1, <1>3, <1>4, <1>5, <1>6, <1>7, <1>8, <1>9, <1>10 DEF Next

\* A half-open circuit does not get stuck: opossum lets one call through and
\* turns the others away (circuit-breaker.service.ts:83), and the one it waits
\* for is under way, whatever late answers, restarts and empty lists of hosts
\* come between; so Recloses only needs calls to end.
THEOREM NeverStuckHalfOpen == Spec => []HalfOpenIsDecided
<1>1. Init => HalfOpenIsDecided
    BY DEF Init, HalfOpenIsDecided
<1> QED
    BY <1>1, Invariance, DecidedStep, PTL DEF Spec
===============================================================================
