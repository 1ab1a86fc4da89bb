------------------------------ MODULE RtCache ------------------------------
(***************************************************************************)
(* The realtime feed cache, src/cache/rtCache.ts.                          *)
(*                                                                         *)
(* getFeed answers a caller from the cache while the entry is younger than *)
(* the feed's TTL, otherwise joins the fetch recorded in `pending` or      *)
(* starts one.  The process is single threaded: calls interleave only at   *)
(* an await.  A call awaits at most one fetch that it started itself, so a *)
(* fetch is named by the call that started it, and Call names the calls    *)
(* that may be outstanding at once.                                        *)
(*                                                                         *)
(* A feed message is represented by the instant at which upstream took the *)
(* snapshot it holds.  That is the only thing about it the properties need *)
(* to tell apart: how old an answer is, and which of two messages is newer.*)
(***************************************************************************)
EXTENDS Naturals, FiniteSets

CONSTANTS
    Call,       \* calls of getFeed that may be outstanding together
    Feed,       \* feed paths
    Ttl,        \* getRtCacheTtlMs, per feed
    Timeout,    \* config.rtFetchTimeoutMs
    MaxTime,    \* bound on the clock
    None        \* undefined

ASSUME CacheAssumption ==
    /\ Ttl \in [Feed -> Nat \ {0}]
    /\ Timeout \in Nat
    /\ MaxTime \in Nat
    /\ None \notin Call \cup Feed \cup Nat \cup [msg : Nat, fetchedAt : Nat]

VARIABLES
    now,        \* Date.now()
    cache,      \* the Map `cache`: per feed an entry, or None
    pending,    \* the Map `pending`: per feed the fetch it holds, or None
    degraded,   \* the Set `degraded`
    feedType,   \* the memoised FeedMessageType: "unset", "ready" or "broken"
    call,       \* per call: its control point and local variables
    fetch,      \* per call: the fetch it started
    failed,     \* history: feeds one of whose fetches has failed
    outcome     \* history: per feed, how its last settled fetch ended

vars == <<now, cache, pending, degraded, feedType, call, fetch, failed, outcome>>

Time == 0..MaxTime

\* An entry of `cache`: the message and the instant it was stored.
CacheEntry == [msg : Time, fetchedAt : Time]

Answered == {"fresh", "stale", "error"}   \* getFeed returned or threw
Awaiting == {"join", "own"}               \* suspended at an await
Woken    == {"joinOk", "joinErr", "ownOk", "ownErr"}  \* its promise settled

\* A call: where it is, and its locals feedPath, cached, the fetch it awaits and
\* the message it was handed.
CallState ==
    [pc : {"idle"} \cup Answered \cup Awaiting \cup Woken,
     feed : Feed \cup {None},
     cached : Time \cup {None},
     on : Call \cup {None},
     msg : Time \cup {None}]

\* A fetch: not running, sent, snapshot taken, or settled but not yet finalised.
FetchState ==
    [st : {"none", "sent", "read", "ok", "failed"}, started : Time, msg : Time]

TypeOK ==
    /\ now \in Time
    /\ cache \in [Feed -> CacheEntry \cup {None}]
    /\ pending \in [Feed -> Call \cup {None}]
    /\ degraded \subseteq Feed
    /\ feedType \in {"unset", "ready", "broken"}
    /\ call \in [Call -> CallState]
    /\ fetch \in [Call -> FetchState]
    /\ failed \subseteq Feed
    /\ outcome \in [Feed -> {"none", "ok", "failed"}]

Init ==
    /\ now = 0
    /\ cache = [f \in Feed |-> None]
    /\ pending = [f \in Feed |-> None]
    /\ degraded = {}
    /\ feedType = "unset"
    /\ call = [c \in Call |-> [pc |-> "idle", feed |-> None, cached |-> None,
                               on |-> None, msg |-> None]]
    /\ fetch = [c \in Call |-> [st |-> "none", started |-> 0, msg |-> 0]]
    /\ failed = {}
    /\ outcome = [f \in Feed |-> "none"]

-----------------------------------------------------------------------------
\* A fetch is live from fetchAndParse() until its finally handler has run.
Live(c)     == fetch[c].st # "none"
InFlight(c) == fetch[c].st \in {"sent", "read"}
LiveOn(f)   == {c \in Call : Live(c) /\ call[c].feed = f}

\* No continuation is ready to run.  The event loop takes the next I/O
\* completion or timer only then.
Quiet ==
    \A c \in Call : call[c].pc \notin Woken /\ fetch[c].st \notin {"ok", "failed"}

\* Fault: the comparison with the TTL is not strict.
FreshThroughTtl(f) == cache[f] # None /\ now - cache[f].fetchedAt <= Ttl[f]

\* The entry may be served without asking upstream (rtCache.ts:84).
Fresh(f) == cache[f] # None /\ now - cache[f].fetchedAt < Ttl[f]

\* The captured local `cached` (rtCache.ts:82): only its message is used later.
CachedMsg(f) == IF cache[f] = None THEN None ELSE cache[f].msg

-----------------------------------------------------------------------------
(* getFeed, from its entry to its first await or its return.  A call record
   is reused once the previous call has been answered. *)

Hit(c, f) ==
    /\ call[c].pc \in {"idle"} \cup Answered
    /\ Fresh(f)
    /\ call' = [call EXCEPT ![c] = [pc |-> "fresh", feed |-> f, cached |-> None,
                                    on |-> None, msg |-> cache[f].msg]]
    /\ UNCHANGED <<now, cache, pending, degraded, feedType, fetch, failed, outcome>>

Join(c, f) ==
    /\ call[c].pc \in {"idle"} \cup Answered
    /\ ~Fresh(f)
    /\ pending[f] # None
    /\ call' = [call EXCEPT ![c] = [pc |-> "join", feed |-> f, cached |-> CachedMsg(f),
                                    on |-> pending[f], msg |-> None]]
    /\ UNCHANGED <<now, cache, pending, degraded, feedType, fetch, failed, outcome>>

\* fetchAndParse(feedPath).finally(...) and pending.set, which overwrites
\* whatever entry is there (rtCache.ts:97-98).
StartFetch(c, f, cached) ==
    /\ fetch' = [fetch EXCEPT ![c] = [st |-> "sent", started |-> now, msg |-> 0]]
    /\ pending' = [pending EXCEPT ![f] = c]
    /\ call' = [call EXCEPT ![c] = [pc |-> "own", feed |-> f, cached |-> cached,
                                    on |-> c, msg |-> None]]
    /\ UNCHANGED <<now, cache, degraded, feedType, failed, outcome>>

\* Fault: pending is not consulted.
StartWithoutDedup(c, f) ==
    /\ call[c].pc \in {"idle"} \cup Answered
    /\ ~Fresh(f)
    /\ StartFetch(c, f, CachedMsg(f))

Start(c, f) ==
    /\ call[c].pc \in {"idle"} \cup Answered
    /\ ~Fresh(f)
    /\ pending[f] = None
    /\ StartFetch(c, f, CachedMsg(f))

-----------------------------------------------------------------------------
(* fetchAndParse. *)

\* Upstream takes the snapshot it will send.
Read(c) ==
    /\ fetch[c].st = "sent"
    /\ fetch' = [fetch EXCEPT ![c].st = "read", ![c].msg = now]
    /\ UNCHANGED <<now, cache, pending, degraded, feedType, call, failed, outcome>>

\* Fault: markRecovered is forgotten.
DecodeWithoutRecovery(c) ==
    LET f == call[c].feed IN
    /\ Quiet
    /\ fetch[c].st = "read"
    /\ feedType # "broken"
    /\ feedType' = "ready"
    /\ cache' = [cache EXCEPT ![f] = [msg |-> fetch[c].msg, fetchedAt |-> now]]
    /\ fetch' = [fetch EXCEPT ![c].st = "ok"]
    /\ outcome' = [outcome EXCEPT ![f] = "ok"]
    /\ UNCHANGED <<now, pending, degraded, call, failed>>

\* The body has arrived: load the message type if it is not there yet,
\* decode, cache.set, markRecovered.
Decode(c) ==
    LET f == call[c].feed IN
    /\ Quiet
    /\ fetch[c].st = "read"
    /\ feedType # "broken"
    /\ feedType' = "ready"
    /\ cache' = [cache EXCEPT ![f] = [msg |-> fetch[c].msg, fetchedAt |-> now]]
    /\ degraded' = degraded \ {f}
    /\ fetch' = [fetch EXCEPT ![c].st = "ok"]
    /\ outcome' = [outcome EXCEPT ![f] = "ok"]
    /\ UNCHANGED <<now, pending, call, failed>>

\* A network error, the abort signal, a status that is not ok, a body that does
\* not decode, or a message type that could not be loaded.  The promise of that
\* load is memoised, so a load that fails once fails every later decode.
Fail(c) ==
    LET f == call[c].feed IN
    /\ Quiet
    /\ InFlight(c)
    /\ feedType' \in IF fetch[c].st = "read" /\ feedType = "unset"
                     THEN {"unset", "ready", "broken"} ELSE {feedType}
    /\ fetch' = [fetch EXCEPT ![c].st = "failed"]
    /\ failed' = failed \cup {f}
    /\ outcome' = [outcome EXCEPT ![f] = "failed"]
    /\ UNCHANGED <<now, cache, pending, degraded, call>>

\* The call c after the fetch it awaits has settled with status st.
Wake(c, st, msg) ==
    [call[c] EXCEPT !.pc = CASE call[c].pc = "join" /\ st = "ok" -> "joinOk"
                             [] call[c].pc = "join" /\ st # "ok" -> "joinErr"
                             [] call[c].pc = "own" /\ st = "ok"  -> "ownOk"
                             [] OTHER -> "ownErr",
                    !.on = None,
                    !.msg = IF st = "ok" THEN msg ELSE None]

\* Fault: the entry is deleted on success only (then instead of finally).
FinallyOnSuccess(c) ==
    LET f == call[c].feed IN
    /\ fetch[c].st \in {"ok", "failed"}
    /\ pending' = [pending EXCEPT ![f] = IF fetch[c].st = "ok" THEN None ELSE @]
    /\ call' = [d \in Call |-> IF call[d].pc \in Awaiting /\ call[d].on = c
                               THEN Wake(d, fetch[c].st, fetch[c].msg) ELSE call[d]]
    /\ fetch' = [fetch EXCEPT ![c] = [st |-> "none", started |-> 0, msg |-> 0]]
    /\ UNCHANGED <<now, cache, degraded, feedType, failed, outcome>>

\* The finally handler deletes the feed's entry of pending, whichever fetch it
\* now holds, and the settled promise wakes everything that awaits it.
Finally(c) ==
    LET f == call[c].feed IN
    /\ fetch[c].st \in {"ok", "failed"}
    /\ pending' = [pending EXCEPT ![f] = None]
    /\ call' = [d \in Call |-> IF call[d].pc \in Awaiting /\ call[d].on = c
                               THEN Wake(d, fetch[c].st, fetch[c].msg) ELSE call[d]]
    /\ fetch' = [fetch EXCEPT ![c] = [st |-> "none", started |-> 0, msg |-> 0]]
    /\ UNCHANGED <<now, cache, degraded, feedType, failed, outcome>>

-----------------------------------------------------------------------------
(* getFeed, after the await. *)

Return(c) ==
    /\ call[c].pc \in {"joinOk", "ownOk"}
    /\ call' = [call EXCEPT ![c].pc = "fresh", ![c].cached = None]
    /\ UNCHANGED <<now, cache, pending, degraded, feedType, fetch, failed, outcome>>

\* Fault: a failed join waits for the next pending fetch, however often.
RetryByJoining(c) ==
    LET f == call[c].feed IN
    /\ call[c].pc = "joinErr"
    /\ IF pending[f] = None
       THEN StartFetch(c, f, call[c].cached)
       ELSE /\ call' = [call EXCEPT ![c].pc = "join", ![c].on = pending[f]]
            /\ UNCHANGED <<now, cache, pending, degraded, feedType, fetch, failed, outcome>>

\* The joined fetch failed: fall through the empty catch to a fetch of its own,
\* without looking at cache or pending again (rtCache.ts:92-98).
Retry(c) ==
    /\ call[c].pc = "joinErr"
    /\ StartFetch(c, call[c].feed, call[c].cached)

\* Fault: the set of degraded feeds is given the wrong key.
GiveUpWrongKey(c) ==
    /\ call[c].pc = "ownErr"
    /\ degraded' = degraded \cup {call[c].on}
    /\ call' = [call EXCEPT ![c].pc = IF call[c].cached # None THEN "stale" ELSE "error",
                            ![c].msg = call[c].cached,
                            ![c].cached = None]
    /\ UNCHANGED <<now, cache, pending, feedType, fetch, failed, outcome>>

\* Its own fetch failed: markDegraded, then the entry captured at the start of
\* the call if there was one, else the error.
GiveUp(c) ==
    /\ call[c].pc = "ownErr"
    /\ degraded' = degraded \cup {call[c].feed}
    /\ call' = [call EXCEPT ![c].pc = IF call[c].cached # None THEN "stale" ELSE "error",
                            ![c].msg = call[c].cached,
                            ![c].cached = None]
    /\ UNCHANGED <<now, cache, pending, feedType, fetch, failed, outcome>>

\* Time passes while the loop is idle; a fetch is aborted Timeout after it began.
Tick ==
    /\ now < MaxTime
    /\ Quiet
    /\ \A c \in Call : InFlight(c) => now < fetch[c].started + Timeout
    /\ now' = now + 1
    /\ UNCHANGED <<cache, pending, degraded, feedType, call, fetch, failed, outcome>>

-----------------------------------------------------------------------------
Next ==
    \/ \E c \in Call, f \in Feed : Hit(c, f) \/ Join(c, f) \/ Start(c, f)
    \/ \E c \in Call : \/ Read(c) \/ Decode(c) \/ Fail(c) \/ Finally(c)
                       \/ Return(c) \/ Retry(c) \/ GiveUp(c)
    \/ Tick

\* Continuations that are ready run; a fetch settles, by its abort signal at the
\* latest, even if other completions keep being handled before it.
Fairness ==
    \A c \in Call : /\ SF_vars(Decode(c) \/ Fail(c))
                    /\ WF_vars(Finally(c))
                    /\ WF_vars(Return(c) \/ Retry(c) \/ GiveUp(c))

Spec == Init /\ [][Next]_vars /\ Fairness

-----------------------------------------------------------------------------
(* What the cache guarantees. *)

\* `pending` never names a fetch that is over: its entry is a fetch for that
\* feed whose finally handler has not run.  An entry left behind would hand its
\* message to later callers as fresh, for ever (rtCache.ts:88-91).
PendingLive ==
    \A f \in Feed : pending[f] # None => pending[f] \in LiveOn(f)

\* What getFeed hands out as not stale is bounded in age: an entry that may be
\* served from the cache holds a snapshot taken less than Ttl + Timeout ago (the
\* TTL runs from the decode, not from the snapshot), and a fetch that has just
\* settled holds one taken at most Timeout ago.
FreshnessBound ==
    /\ \A f \in Feed : Fresh(f) => now - cache[f].msg < Ttl[f] + Timeout
    /\ \A c \in Call : call[c].pc \in {"joinOk", "ownOk"} => now - call[c].msg <= Timeout

\* Until a fetch of the feed fails, all callers share one upstream fetch.
DedupUntilFailure ==
    \A f \in Feed \ failed : \A c, d \in LiveOn(f) : c = d

\* Whenever the loop is idle the degraded mark says how the feed's last fetch
\* ended, whatever other fetches and answers were interleaved with it.
DegradedHonest ==
    Quiet => \A f \in Feed : f \in degraded <=> outcome[f] = "failed"

\* Until a fetch of the feed fails, the cached snapshot never moves backwards.
\* After a failure two fetches may be in flight, and the one that read upstream
\* first may be the one that stores last.
MonotoneUntilFailure ==
    [][\A f \in Feed \ failed :
          cache[f] # None => cache'[f] # None /\ cache'[f].msg >= cache[f].msg]_vars

(* The inductive invariant behind TypeOK, FreshnessBound, PendingLive,
   DedupUntilFailure, DegradedHonest and MonotoneUntilFailure. *)

\* A live fetch belongs to a call that awaits it, is no older than Timeout, and
\* holds a snapshot taken since it was sent.
FetchInv ==
    \A c \in Call : Live(c) =>
        /\ call[c].pc = "own"
        /\ fetch[c].started <= now
        /\ now <= fetch[c].started + Timeout
        /\ fetch[c].st \in {"read", "ok"} =>
              fetch[c].started <= fetch[c].msg /\ fetch[c].msg <= now

\* A call awaits a live fetch of its own feed: nothing waits for a promise that
\* has already been settled and forgotten.
AwaitInv ==
    \A c \in Call :
        /\ call[c].pc # "idle" => call[c].feed \in Feed
        /\ call[c].pc \in Awaiting =>
              /\ call[c].on \in Call
              /\ Live(call[c].on)
              /\ call[call[c].on].feed = call[c].feed
        /\ call[c].pc = "own" => call[c].on = c

\* Cached and just delivered snapshots are at most Timeout older than the instant
\* at which they were stored or delivered.
AgeInv ==
    /\ \A f \in Feed : cache[f] # None =>
          /\ cache[f].msg <= cache[f].fetchedAt
          /\ cache[f].fetchedAt <= now
          /\ cache[f].fetchedAt <= cache[f].msg + Timeout
    /\ \A c \in Call : call[c].pc \in {"joinOk", "ownOk"} =>
          /\ call[c].msg \in Time
          /\ call[c].msg <= now
          /\ now <= call[c].msg + Timeout

\* While a feed has never failed, its only live fetch is the one in pending, it
\* was sent after the cached entry was stored, and no caller is about to retry.
NoFailureInv ==
    \A f \in Feed \ failed : \A c \in Call : call[c].feed = f =>
        /\ call[c].pc # "joinErr"
        /\ Live(c) => /\ pending[f] = c
                      /\ fetch[c].st # "failed"
        /\ InFlight(c) /\ cache[f] # None => cache[f].fetchedAt <= fetch[c].started

\* A fetch of c has failed and c has not marked the feed yet.
MarkDue(c) == fetch[c].st = "failed" \/ call[c].pc = "ownErr"

\* The mark agrees with the last outcome except while a failed fetch's own call
\* has yet to run its catch block.
DegradedInv ==
    /\ \A f \in degraded : outcome[f] = "failed"
    /\ \A f \in Feed : outcome[f] = "failed" =>
          f \in degraded \/ \E c \in Call : MarkDue(c) /\ call[c].feed = f
    /\ \A c \in Call : MarkDue(c) => outcome[call[c].feed] = "failed"

IInv == TypeOK /\ PendingLive /\ FetchInv /\ AwaitInv /\ AgeInv /\ NoFailureInv /\ DegradedInv

(* The contract of getFeed, and how the cache keeps it. *)

\* What the caller of a call in state k has been told.  Nothing is left to chance
\* once the fetch it awaits has settled, so a call whose continuation is ready
\* counts as answered, and one that is about to retry as waiting for its own fetch.
Told(k, due) ==
    LET answer(st, msg) == [st |-> st, feed |-> k.feed, due |-> None, again |-> FALSE, msg |-> msg]
    IN  CASE k.pc \in {"fresh", "joinOk", "ownOk"} -> answer("fresh", k.msg)
          [] k.pc = "stale"  -> answer("stale", k.msg)
          [] k.pc = "ownErr" -> IF k.cached # None THEN answer("stale", k.cached)
                                                   ELSE answer("error", None)
          [] k.pc = "error"  -> answer("error", None)
          [] k.pc = "idle"   -> answer("idle", None)
          [] OTHER -> [st |-> "waiting", feed |-> k.feed, due |-> due,
                       again |-> k.pc = "join", msg |-> None]

\* When the fetch that c awaits, or is about to start, is settled at the latest.
Due(c) == Timeout + IF call[c].pc \in Awaiting THEN fetch[call[c].on].started ELSE now

Contract == INSTANCE FeedContract
                WITH Instant <- Time, Starts <- {0}, answer <- [c \in Call |-> Told(call[c], Due(c))]

\* The cache implements the contract: no call waits for more than two fetches,
\* each bounded by the timeout, and what is not marked stale is bounded in age,
\* however fetches, joins and retries interleave (rtCache.ts:81-114).
KeepsContract == Contract!ContractSpec

(* What the documentation says and the code does not do. *)

\* "promise deduplication to prevent concurrent requests from triggering
\* parallel upstream fetches" (README.md:717): at most one fetch per feed is in
\* flight.
SingleFetchPerFeed ==
    \A f \in Feed : \A c, d \in LiveOn(f) : InFlight(c) /\ InFlight(d) => c = d

\* "When the upstream RT fetch fails but a cached feed is available, the
\* response is served with stale: true" (README.md:256): getFeed does not throw
\* while the cache holds a message of the feed.
CacheServedOnFailure ==
    [][\A c \in Call : call[c].pc = "ownErr" /\ call'[c].pc = "error"
                          => cache[call[c].feed] = None]_vars
=============================================================================
