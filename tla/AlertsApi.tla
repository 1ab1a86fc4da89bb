----------------------------- MODULE AlertsApi -----------------------------
(***************************************************************************)
(* GET /alerts with conditional requests, on top of the feed cache.        *)
(*                                                                         *)
(* The handler calls getFeed once, or twice when the request carries       *)
(* If-None-Match: a probe for the snapshot's timestamp and, unless it      *)
(* answers 304, the payload.  Each client has one request outstanding and  *)
(* keeps the last 200 it received, whose ETag it may send with any later   *)
(* request.  A client is named by the getFeed call its request makes.      *)
(***************************************************************************)
EXTENDS RtCache

CONSTANTS
    AlertsFeed,     \* ALERTS_FEED_PATH
    Published,      \* external: the instants at which upstream publishes
    AlertsAt,       \* external: the alerts of each publication
    Query,          \* parsed queries that clients send
    Word, Comma, Bar, Route, Stop, Rank, Blank, EmptyText

INSTANCE AlertsQuery

ASSUME AlertsApiAssumption ==
    /\ AlertsFeed \in Feed
    /\ Published \subseteq Nat /\ 0 \in Published
    /\ DOMAIN AlertsAt = Published
    /\ Query \subseteq AlertFilter
    /\ Blank \notin Route
    /\ None \notin Stop \cup Route

\* A route is an item of a list, so there is no comma in it.
ASSUME TextAssumption ==
    /\ Comma # Bar /\ Word \cap {Comma, Bar} = {} /\ Bar \notin {0, 1}
    /\ Route \subseteq (Text \cap Seq(Word \cup {Bar})) \ {<<>>}
    /\ Stop \subseteq Text \ {<<>>}
    /\ Rank \in [Route -> Nat] /\ IsInjective(Rank)

VARIABLES
    step,       \* per client: where the handler of its request is
    query,      \* per client: the query of that request
    ifNoneMatch,\* per client: the request's If-None-Match, or None
    held,       \* per client: the last 200 it received, or None
    status      \* per client: the status of the last response

handlerVars == <<step, query, ifNoneMatch, held, status>>
allVars == <<vars, handlerVars>>

\* header.timestamp of a snapshot taken at instant m: the latest publication.
Stamp(m) == CHOOSE p \in Published : p <= m /\ \A o \in Published : o <= m => o <= p

Etag == {EtagFor(p, q) : p \in Published, q \in Query}

\* What a client keeps of a 200 for query q from the snapshot with stamp p.
Copy(q, p, stale) == [tag |-> EtagFor(p, q), query |-> q, stamp |-> p, stale |-> stale]

Response == {Copy(q, p, stale) : q \in Query, p \in Published, stale \in BOOLEAN}

ApiTypeOK ==
    /\ step \in [Call -> {"idle", "probe", "payload"}]
    /\ query \in [Call -> Query \cup {None}]
    /\ ifNoneMatch \in [Call -> Etag \cup {None}]
    /\ held \in [Call -> Response \cup {None}]
    /\ status \in [Call -> {"none", "200", "304", "503"}]

\* A client may already hold a copy that another machine sent it, or this one
\* before it was restarted.
ApiInit ==
    /\ Init
    /\ step = [c \in Call |-> "idle"]
    /\ query = [c \in Call |-> None]
    /\ ifNoneMatch = [c \in Call |-> None]
    /\ held \in [Call -> {None} \cup {Copy(q, 0, FALSE) : q \in Query}]
    /\ status = [c \in Call |-> "none"]

-----------------------------------------------------------------------------
GetFeed(c) == Hit(c, AlertsFeed) \/ Join(c, AlertsFeed) \/ Start(c, AlertsFeed)

\* getFeed has returned a message, or thrown.
GotFeed(c) == call[c].pc \in {"fresh", "stale"}

\* A request arrives, with the ETag the client holds or without one.
Request(c, q, tag) ==
    /\ step[c] = "idle"
    /\ step' = [step EXCEPT ![c] = IF tag = None THEN "payload" ELSE "probe"]
    /\ query' = [query EXCEPT ![c] = q]
    /\ ifNoneMatch' = [ifNoneMatch EXCEPT ![c] = tag]
    /\ GetFeed(c)
    /\ UNCHANGED <<held, status>>

\* The request is over.
Reply(c, code) ==
    /\ step' = [step EXCEPT ![c] = "idle"]
    /\ query' = [query EXCEPT ![c] = None]
    /\ ifNoneMatch' = [ifNoneMatch EXCEPT ![c] = None]
    /\ status' = [status EXCEPT ![c] = code]
    /\ UNCHANGED vars

\* Fault: a degraded upstream may answer 304.
UnchangedEvenIfStale(c) ==
    GotFeed(c) /\ ifNoneMatch[c] = EtagFor(Stamp(call[c].msg), query[c])

\* The probe found the snapshot the client has.
Unchanged(c) ==
    call[c].pc = "fresh" /\ ifNoneMatch[c] = EtagFor(Stamp(call[c].msg), query[c])

NotModified(c) ==
    /\ step[c] = "probe"
    /\ Unchanged(c)
    /\ Reply(c, "304")
    /\ UNCHANGED held

\* The probe did not match: fetch the payload, by a second getFeed.
Proceed(c) ==
    /\ step[c] = "probe"
    /\ GotFeed(c)
    /\ ~Unchanged(c)
    /\ step' = [step EXCEPT ![c] = "payload"]
    /\ GetFeed(c)
    /\ UNCHANGED <<query, ifNoneMatch, held, status>>

\* Fault: a conditional request is answered with the ETag it came with.
SendWithRequestsTag(c) ==
    LET copy == Copy(query[c], Stamp(call[c].msg), call[c].pc = "stale")
    IN  /\ step[c] = "payload"
        /\ GotFeed(c)
        /\ held' = [held EXCEPT ![c] =
                      IF ifNoneMatch[c] = None THEN copy
                      ELSE [copy EXCEPT !.tag = ifNoneMatch[c]]]
        /\ Reply(c, "200")

\* The ETag is derived from the snapshot being sent.
Send(c) ==
    /\ step[c] = "payload"
    /\ GotFeed(c)
    /\ held' = [held EXCEPT ![c] =
                  Copy(query[c], Stamp(call[c].msg), call[c].pc = "stale")]
    /\ Reply(c, "200")

Unavailable(c) ==
    /\ step[c] # "idle"
    /\ call[c].pc = "error"
    /\ Reply(c, "503")
    /\ UNCHANGED held

-----------------------------------------------------------------------------
\* A handler that has its feed runs before the event loop takes another event.
HandlersQuiet == \A c \in Call : step[c] # "idle" => call[c].pc \notin Answered

CacheStep ==
    /\ \/ \E c \in Call : Read(c) \/ Finally(c) \/ Return(c) \/ Retry(c) \/ GiveUp(c)
       \/ HandlersQuiet /\ (Tick \/ \E c \in Call : Decode(c) \/ Fail(c))
    /\ UNCHANGED handlerVars

HandlerStep(c) == NotModified(c) \/ Proceed(c) \/ Send(c) \/ Unavailable(c)

Held(c) == IF held[c] = None THEN {None} ELSE {None, held[c].tag}

ApiNext ==
    \/ \E c \in Call, q \in Query : \E tag \in Held(c) : Request(c, q, tag)
    \/ \E c \in Call : HandlerStep(c)
    \/ CacheStep

\* The cache's own fairness, and handlers that are ready run.
ApiFairness ==
    \A c \in Call :
        /\ SF_allVars(HandlersQuiet /\ (Decode(c) \/ Fail(c)) /\ UNCHANGED handlerVars)
        /\ WF_allVars((Finally(c) \/ Return(c) \/ Retry(c) \/ GiveUp(c)) /\ UNCHANGED handlerVars)
        /\ WF_allVars(HandlerStep(c))

ApiSpec == ApiInit /\ [][ApiNext]_allVars /\ ApiFairness

-----------------------------------------------------------------------------
Alerts(r) == GetAlerts(r.query, AlertsAt[r.stamp])

Sends304(c) == step[c] = "probe" /\ step'[c] = "idle" /\ status'[c] = "304"

\* A list of routes that names none, such as `?routes=,`: the filter is on and lets
\* nothing through, but the ETag spells it like no list at all.
NamesNoRoute(q) == q.routes # None /\ q.routes = <<>>

\* A `|` in a route or in the stop: the ETag spells it like the end of a part.
NamesBar(q) ==
    \/ q.routes # None /\ \E r \in ToSet(q.routes) : Bar \in ToSet(r)
    \/ q.stopId # None /\ Bar \in ToSet(q.stopId)

\* A 304 means what it says: the alerts of the client's copy, which may have been
\* fetched for another query, are those the current snapshot gives for this one.
\* The exceptions are two queries of which one has a list that names no route, and
\* two that both have a `|`.
NotModifiedSound ==
    [][\A c \in Call :
          /\ Sends304(c)
          /\ NamesNoRoute(query[c]) <=> NamesNoRoute(held[c].query)
          /\ ~NamesBar(query[c]) \/ ~NamesBar(held[c].query)
          => GetAlerts(query[c], AlertsAt[Stamp(call[c].msg)]) = Alerts(held[c])]_allVars

\* A 304 never rests on a snapshot older than a fresh answer may be, however long
\* upstream has been failing.
NotModifiedFresh ==
    [][\A c \in Call : Sends304(c) => now - call[c].msg < Ttl[AlertsFeed] + Timeout]_allVars

\* Until a fetch of the feed fails, a client's copies never go back to an earlier
\* publication, though every response may be served by another fetch than the
\* probe that preceded it.
CopiesMoveForward ==
    [][\A c \in Call : held[c] # None /\ AlertsFeed \notin failed =>
          held'[c].stamp >= held[c].stamp]_allVars

\* Every request is answered.
RequestAnswered == \A c \in Call : step[c] # "idle" ~> step[c] = "idle"

(* What the documentation says and the code does not do. *)

\* The query is part of the ETag so that no client replaying one across queries can
\* "collect a 304 for a representation it never fetched" (alerts.routes.ts:18-21).
NotModifiedForFetched ==
    [][\A c \in Call : Sends304(c) =>
          GetAlerts(query[c], AlertsAt[Stamp(call[c].msg)]) = Alerts(held[c])]_allVars
=============================================================================
