----------------------------- MODULE RateLimit -----------------------------
(***************************************************************************)
(* The per-instance throttle, src/middleware/rateLimit.ts: a fixed window  *)
(* per key, opened by the first request that finds none, and a timer that  *)
(* drops expired entries.  /mcp has a limit and a bucket of its own.       *)
(*                                                                         *)
(* The middleware runs without an await up to its decision, so a request   *)
(* is one step.  Time is a discrete clock, finer than the whole seconds of *)
(* the Retry-After header.                                                 *)
(***************************************************************************)
EXTENDS Integers

CONSTANTS
    Address,    \* what `ip` may be, the fallback 'unknown' included
    Max,        \* config.rateLimitMax
    McpMax,     \* config.mcpRateLimitMax
    Window,     \* config.rateLimitWindowMs
    Second,     \* instants per second
    MaxTime,    \* bound on the clock
    MaxCount,   \* bound on the requests counted in one window
    None        \* undefined

ASSUME RateLimitAssumption ==
    /\ Max \in Nat \ {0} /\ McpMax \in Nat \ {0}
    /\ Window \in Nat \ {0} /\ Second \in Nat \ {0}
    /\ MaxTime \in Nat
    /\ MaxCount \in Nat /\ MaxCount > Max /\ MaxCount > McpMax
    /\ None \notin Nat \cup [count : Nat, resetAt : Nat]

VARIABLES
    now,        \* Date.now()
    store,      \* the Map `store`: per key an entry, or None
    sweepAt,    \* when the interval timer fires next
    age,        \* history: per bucket, how long ago it was admitted, the latest first
    retryAt     \* history: per bucket, the instant its last 429 named, or None

vars == <<now, store, sweepAt, age, retryAt>>

\* A bucket is an address and whether the path is /mcp.
Bucket == Address \X BOOLEAN

Limit(b) == IF b[2] THEN McpMax ELSE Max

\* Fault: one key for both paths.
SharedKey(b) == <<"", b[1]>>

KeyOf(b) == IF b[2] THEN <<"mcp:", b[1]>> ELSE <<"", b[1]>>

Key == {"", "mcp:"} \X Address

\* Admissions are remembered as far back as the bound on bursts looks, and none for
\* longer than a window: Window stands for that long or longer, or never.
Remembered(b) == 1..(2 * Limit(b))

TypeOK ==
    /\ now \in 0..MaxTime
    /\ store \in [Key -> [count : 1..MaxCount, resetAt : 0..(MaxTime + Window)] \cup {None}]
    /\ sweepAt \in 0..(MaxTime + Window)
    /\ age = [b \in Bucket |-> age[b]]
    /\ \A b \in Bucket : age[b] \in [Remembered(b) -> 0..Window]
    /\ retryAt \in [Bucket -> Nat \cup {None}]

Init ==
    /\ now = 0
    /\ store = [k \in Key |-> None]
    /\ sweepAt = Window
    /\ age = [b \in Bucket |-> [i \in Remembered(b) |-> Window]]
    /\ retryAt = [b \in Bucket |-> None]

-----------------------------------------------------------------------------
\* Fault: the length of the window is taken to be in seconds.
EntryInSeconds(k) ==
    IF store[k] = None \/ now >= store[k].resetAt
    THEN [count |-> 1, resetAt |-> now + Window * Second]
    ELSE [store[k] EXCEPT !.count = @ + 1]

\* The entry that a request for key k leaves: a new window, or one more request
\* in the one that is open.
Entry(k) ==
    IF store[k] = None \/ now >= store[k].resetAt
    THEN [count |-> 1, resetAt |-> now + Window]
    ELSE [store[k] EXCEPT !.count = @ + 1]

Ceil(n, d) == (n + d - 1) \div d

\* Fault: the delay is rounded down.
RetryAfterRoundedDown(entry) == (entry.resetAt - now) \div Second

\* The Retry-After header, in seconds.
RetryAfter(entry) == Ceil(entry.resetAt - now, Second)

Count(b) ==
    /\ Entry(KeyOf(b)).count <= MaxCount
    /\ store' = [store EXCEPT ![KeyOf(b)] = Entry(KeyOf(b))]
    /\ UNCHANGED <<now, sweepAt>>

Admit(b) ==
    /\ Entry(KeyOf(b)).count <= Limit(b)
    /\ Count(b)
    /\ age' = [age EXCEPT ![b] = [i \in Remembered(b) |-> IF i = 1 THEN 0 ELSE age[b][i - 1]]]
    /\ retryAt' = [retryAt EXCEPT ![b] = None]

\* 429.  The request is counted all the same.
Deny(b) ==
    /\ Entry(KeyOf(b)).count > Limit(b)
    /\ Count(b)
    /\ retryAt' = [retryAt EXCEPT ![b] = now + Second * RetryAfter(Entry(KeyOf(b)))]
    /\ UNCHANGED age

\* /health passes without being counted.
Health == UNCHANGED vars

\* Fault: entries whose window is still open are dropped too.
SweepAll ==
    /\ now = sweepAt
    /\ store' = [k \in Key |-> None]
    /\ sweepAt' = now + Window
    /\ UNCHANGED <<now, age, retryAt>>

\* Fault: an entry that expires at this very instant is kept.
SweepStrictly ==
    /\ now = sweepAt
    /\ store' = [k \in Key |->
                    IF store[k] # None /\ now > store[k].resetAt THEN None ELSE store[k]]
    /\ sweepAt' = now + Window
    /\ UNCHANGED <<now, age, retryAt>>

\* The interval timer.
Sweep ==
    /\ now = sweepAt
    /\ store' = [k \in Key |->
                    IF store[k] # None /\ now >= store[k].resetAt THEN None ELSE store[k]]
    /\ sweepAt' = now + Window
    /\ UNCHANGED <<now, age, retryAt>>

\* A timer that is due runs before the clock moves on.
Tick ==
    /\ now < MaxTime
    /\ now < sweepAt
    /\ now' = now + 1
    /\ age' = [b \in Bucket |-> [i \in Remembered(b) |->
                                    IF age[b][i] = Window THEN Window ELSE age[b][i] + 1]]
    /\ UNCHANGED <<store, sweepAt, retryAt>>

Next == (\E b \in Bucket : Admit(b) \/ Deny(b)) \/ Health \/ Sweep \/ Tick

Spec == Init /\ [][Next]_vars

-----------------------------------------------------------------------------
\* A fixed window lets a burst at its end meet one at the start of the next, but
\* never more: any period as long as a window admits fewer than twice the limit,
\* whenever windows were opened or entries swept.
SlidingBound == \A b \in Bucket : age[b][2 * Limit(b)] = Window

\* A request is refused only if the same client was admitted to the same kind of
\* path as often as the limit allows within the last window: the REST and /mcp
\* budgets do not eat each other (rateLimit.ts:18-21).
NoSpuriousDenial ==
    [][\A b \in Bucket : Deny(b) => age[b][Limit(b)] < Window]_vars

\* A client that is refused and waits as long as Retry-After says is admitted,
\* unless another request was admitted to its bucket first.
RetryHonoured ==
    [][\A b \in Bucket : Deny(b) => retryAt[b] = None \/ now < retryAt[b]]_vars

\* An expired entry is gone within one period of the timer, so the store holds no
\* more keys than were seen in the last two windows.
ExpiredEntriesGo == \A k \in Key : store[k] # None => now < store[k].resetAt + Window
=============================================================================
