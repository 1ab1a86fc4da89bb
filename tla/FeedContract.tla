---------------------------- MODULE FeedContract ----------------------------
(***************************************************************************)
(* What getFeed (src/cache/rtCache.ts) promises its callers, without the   *)
(* cache: a call is answered at once or waits for at most two fetches, and *)
(* an answer that is not marked stale is bounded in age.  RtCache          *)
(* implements this; the handlers that call getFeed are built on it.        *)
(*                                                                         *)
(* A message is represented by the instant of its snapshot, as in RtCache. *)
(***************************************************************************)
EXTENDS Integers

CONSTANTS
    Call,       \* calls of getFeed that may be outstanding together
    Feed,       \* feed paths
    Ttl,        \* getRtCacheTtlMs, per feed
    Timeout,    \* config.rtFetchTimeoutMs
    Instant,    \* the instants of the clock, and of the snapshots
    Starts,     \* where the clock may begin
    None        \* undefined

ASSUME ContractAssumption ==
    /\ Instant \subseteq Int
    /\ Starts \subseteq Instant
    /\ Ttl \in [Feed -> Nat \ {0}]
    /\ Timeout \in Nat
    /\ None \notin Int \cup Feed

VARIABLES
    now,        \* Date.now()
    answer      \* per call: what its caller has been told

contractVars == <<now, answer>>

\* A call that has been answered with a message, or with an error.
Answer(f, st, msg) == [st |-> st, feed |-> f, due |-> None, again |-> FALSE, msg |-> msg]

\* A call that awaits a fetch which is settled by `due`; if it only joined that
\* fetch it may await one more, its own.
Wait(f, due, again) == [st |-> "waiting", feed |-> f, due |-> due, again |-> again, msg |-> None]

Unasked == [st |-> "idle", feed |-> None, due |-> None, again |-> FALSE, msg |-> None]

Waiting(c) == answer[c].st = "waiting"

ContractInit ==
    /\ now \in Starts
    /\ answer = [c \in Call |-> Unasked]

\* A snapshot taken at most `age` ago.
Recent(m, age) == m \in Instant /\ m <= now /\ now - m <= age

\* What a call for feed f is told at once: a message from the cache, or to wait.
FirstReply(f) ==
    {Answer(f, "fresh", m) : m \in {i \in Instant : Recent(i, Ttl[f] + Timeout - 1)}}
        \cup {Wait(f, due, TRUE) : due \in now..(now + Timeout)}
        \cup {Wait(f, due, FALSE) : due \in now..(now + Timeout)}

\* Fault: a call whose shared fetch failed joins the next one.
JoinAgain(c) ==
    LET f == answer[c].feed IN
    {Answer(f, "fresh", m) : m \in {i \in Instant : Recent(i, Timeout)}}
        \cup {Answer(f, "error", None), Wait(f, now + Timeout, TRUE)}

\* How the fetch that c awaits may end for it: with a message, with the one the
\* call found in the cache when it began, with an error, or with another fetch.
Outcome(c) ==
    LET f == answer[c].feed IN
    {Answer(f, "fresh", m) : m \in {i \in Instant : Recent(i, Timeout)}}
        \cup {Answer(f, "stale", m) : m \in {i \in Instant : i <= now}}
        \cup {Answer(f, "error", None)}
        \cup IF answer[c].again THEN {Wait(f, now + Timeout, FALSE)} ELSE {}

\* One call of getFeed begins.
Ask(c) ==
    /\ ~Waiting(c)
    /\ \E f \in Feed : answer'[c] \in FirstReply(f)
    /\ answer' = [answer EXCEPT ![c] = answer'[c]]
    /\ UNCHANGED now

\* A fetch settles, for any of the calls that await it.
Settle ==
    /\ \A c \in Call : \/ answer'[c] = answer[c]
                       \/ Waiting(c) /\ answer'[c] \in Outcome(c)
    /\ DOMAIN answer' = Call
    /\ UNCHANGED now

\* Time passes, but not past the instant at which a fetch is aborted.
ContractTick ==
    /\ now + 1 \in Instant
    /\ \A c \in Call : Waiting(c) => now < answer[c].due
    /\ now' = now + 1
    /\ UNCHANGED answer

ContractNext ==
    \/ \E c \in Call : Ask(c)
    \/ Settle
    \/ ContractTick

ContractSpec == ContractInit /\ [][ContractNext]_contractVars
=============================================================================
