--------------------------- MODULE RtCacheProofs ---------------------------
(***************************************************************************)
(* Proofs about RtCache for every set of calls and feeds, every TTL, every *)
(* fetch timeout and every bound on the clock.                             *)
(***************************************************************************)
EXTENDS RtCache, TLAPS

-----------------------------------------------------------------------------
(* Type correctness. *)

LEMMA TypeInit == Init => TypeOK
  BY CacheAssumption DEF Init, TypeOK, Time, CacheEntry, CallState, FetchState, Answered, Awaiting, Woken

\* The type of the record a StartFetch step writes.
LEMMA TypeStartFetch ==
  ASSUME TypeOK, NEW c \in Call, NEW f \in Feed, NEW m \in Time \cup {None},
         StartFetch(c, f, m)
  PROVE  TypeOK'
  BY CacheAssumption DEF StartFetch, TypeOK, Time, CacheEntry, CallState, FetchState, Answered, Awaiting, Woken

\* A fetch that is live belongs to a call of some feed.
LEMMA LiveFeed ==
  ASSUME FetchInv, AwaitInv, NEW c \in Call, Live(c)
  PROVE  call[c].pc = "own" /\ call[c].feed \in Feed
  BY DEF FetchInv, AwaitInv

LEMMA TypeStep == TypeOK /\ FetchInv /\ AwaitInv /\ [Next]_vars => TypeOK'
<1> SUFFICES ASSUME TypeOK, FetchInv, AwaitInv, [Next]_vars PROVE TypeOK'
  OBVIOUS
<1> USE CacheAssumption
<1>1. ASSUME NEW c \in Call, NEW f \in Feed, Hit(c, f) PROVE TypeOK'
  BY <1>1 DEF Hit, Fresh, TypeOK, Time, CacheEntry, CallState, FetchState, Answered, Awaiting, Woken
<1>2. ASSUME NEW c \in Call, NEW f \in Feed, Join(c, f) PROVE TypeOK'
  BY <1>2 DEF Join, CachedMsg, TypeOK, Time, CacheEntry, CallState, FetchState, Answered, Awaiting, Woken
<1>3. ASSUME NEW c \in Call, NEW f \in Feed, Start(c, f) PROVE TypeOK'
  <2>1. CachedMsg(f) \in Time \cup {None}
    BY DEF CachedMsg, TypeOK, CacheEntry
  <2> QED BY <1>3, <2>1, TypeStartFetch DEF Start
<1>4. ASSUME NEW c \in Call, Read(c) PROVE TypeOK'
  BY <1>4 DEF Read, TypeOK, Time, CacheEntry, CallState, FetchState, Answered, Awaiting, Woken
<1>5. ASSUME NEW c \in Call, Decode(c) PROVE TypeOK'
  <2>1. call[c].feed \in Feed
    BY <1>5, LiveFeed DEF Decode, Live
  <2> QED BY <1>5, <2>1 DEF Decode, TypeOK, FetchState, CacheEntry
<1>6. ASSUME NEW c \in Call, Fail(c) PROVE TypeOK'
  <2>1. call[c].feed \in Feed
    BY <1>6, LiveFeed DEF Fail, Live, InFlight
  <2> QED BY <1>6, <2>1 DEF Fail, InFlight, TypeOK, FetchState
<1>7. ASSUME NEW c \in Call, Finally(c) PROVE TypeOK'
  <2>1. fetch[c].msg \in Time
    BY DEF TypeOK, FetchState
  <2>2. \A d \in Call : Wake(d, fetch[c].st, fetch[c].msg) \in CallState
    <3> SUFFICES ASSUME NEW d \in Call
                 PROVE  Wake(d, fetch[c].st, fetch[c].msg) \in CallState
      OBVIOUS
    <3>1. call[d] \in CallState
      BY DEF TypeOK
    <3> QED BY <2>1, <3>1 DEF Wake, CallState, Woken
  <2>3. call' \in [Call -> CallState]
    BY <1>7, <2>2 DEF Finally, TypeOK
  <2>4. fetch' \in [Call -> FetchState]
    BY <1>7 DEF Finally, TypeOK, FetchState, Time
  <2>5. pending' \in [Feed -> Call \cup {None}]
    BY <1>7 DEF Finally, TypeOK
  <2> QED BY <1>7, <2>3, <2>4, <2>5 DEF Finally, TypeOK, Time
<1>8. ASSUME NEW c \in Call, Return(c) PROVE TypeOK'
  <2> DEFINE rec == [call[c] EXCEPT !.pc = "fresh", !.cached = None]
  <2>1. call[c] \in CallState
    BY DEF TypeOK
  <2>3. rec \in CallState
    BY <2>1 DEF CallState, Answered
  <2>2. call' = [call EXCEPT ![c] = rec]
    BY <1>8, <2>1 DEF Return, TypeOK, CallState
  <2>4. call' \in [Call -> CallState]
    BY <2>2, <2>3 DEF TypeOK
  <2> QED BY <1>8, <2>4 DEF Return, TypeOK, Time
<1>9. ASSUME NEW c \in Call, Retry(c) PROVE TypeOK'
  <2>1. call[c].feed \in Feed /\ call[c].cached \in Time \cup {None}
    BY <1>9 DEF Retry, AwaitInv, TypeOK, CallState
  <2> QED BY <1>9, <2>1, TypeStartFetch DEF Retry
<1>10. ASSUME NEW c \in Call, GiveUp(c) PROVE TypeOK'
  <2>1. call[c].feed \in Feed
    BY <1>10 DEF GiveUp, AwaitInv
  <2> DEFINE to == IF call[c].cached # None THEN "stale" ELSE "error"
             rec == [call[c] EXCEPT !.pc = to, !.msg = call[c].cached, !.cached = None]
  <2>2. call[c] \in CallState
    BY DEF TypeOK
  <2>3. rec \in CallState
    BY <2>2 DEF CallState, Answered
  <2>4. call' = [call EXCEPT ![c] = rec]
    BY <1>10, <2>2 DEF GiveUp, TypeOK, CallState
  <2>5. call' \in [Call -> CallState]
    BY <2>3, <2>4 DEF TypeOK
  <2> QED BY <1>10, <2>1, <2>5 DEF GiveUp, TypeOK, Time
<1>11. CASE Tick
  BY <1>11 DEF Tick, TypeOK, Time, CacheEntry
<1>12. CASE UNCHANGED vars
  BY <1>12 DEF vars, TypeOK
<1> QED
  BY <1>1, <1>2, <1>3, <1>4, <1>5, <1>6, <1>7, <1>8, <1>9, <1>10, <1>11, <1>12 DEF Next

-----------------------------------------------------------------------------
(* Each part of IInv is preserved by every step. *)

\* What the finally handler of fetch c does to a call d: it wakes the calls that
\* await c with that fetch's result and leaves the others alone.
LEMMA FinallyEffect ==
  ASSUME TypeOK, NEW c \in Call, Finally(c), NEW d \in Call
  PROVE  /\ call[d].pc \in Awaiting /\ call[d].on = c =>
              /\ call'[d].feed = call[d].feed
              /\ call'[d].pc \in Woken
              /\ call'[d].pc \in {"joinErr", "ownErr"} => fetch[c].st = "failed"
              /\ call[d].pc = "own" /\ fetch[c].st = "failed" => call'[d].pc = "ownErr"
              /\ call'[d].pc \in {"joinOk", "ownOk"} =>
                    fetch[c].st = "ok" /\ call'[d].msg = fetch[c].msg
         /\ ~(call[d].pc \in Awaiting /\ call[d].on = c) => call'[d] = call[d]
         /\ d # c => fetch'[d] = fetch[d]
         /\ fetch'[c].st = "none"
<1>1. call[d] \in CallState
  BY DEF TypeOK
<1>2. fetch' = [fetch EXCEPT ![c] = [st |-> "none", started |-> 0, msg |-> 0]]
  BY DEF Finally
<1>3. (d # c => fetch'[d] = fetch[d]) /\ fetch'[c].st = "none"
  BY <1>2 DEF TypeOK
<1>4. CASE call[d].pc \in Awaiting /\ call[d].on = c
  <2>1. call'[d] = Wake(d, fetch[c].st, fetch[c].msg)
    BY <1>4 DEF Finally
  <2>2. fetch[c].st \in {"ok", "failed"}
    BY DEF Finally
  <2> QED BY <1>1, <1>3, <1>4, <2>1, <2>2 DEF Wake, CallState, Awaiting, Woken
<1>5. CASE ~(call[d].pc \in Awaiting /\ call[d].on = c)
  BY <1>3, <1>5 DEF Finally
<1> QED BY <1>4, <1>5

\* pending names only live fetches.
LEMMA PendingStep == IInv /\ [Next]_vars => PendingLive'
<1> SUFFICES ASSUME IInv, [Next]_vars PROVE PendingLive'
  OBVIOUS
<1> USE CacheAssumption DEF IInv, TypeOK, PendingLive, FetchInv, AwaitInv, Live, LiveOn, Awaiting, Answered, Woken, CallState, FetchState
<1>1. ASSUME NEW c \in Call, NEW f \in Feed, Hit(c, f) PROVE PendingLive'
  BY <1>1 DEF Hit
<1>2. ASSUME NEW c \in Call, NEW f \in Feed, Join(c, f) PROVE PendingLive'
  BY <1>2 DEF Join
<1>3. ASSUME NEW c \in Call, NEW f \in Feed, Start(c, f) PROVE PendingLive'
  BY <1>3 DEF Start, StartFetch
<1>4. ASSUME NEW c \in Call, Read(c) PROVE PendingLive'
  BY <1>4 DEF Read
<1>5. ASSUME NEW c \in Call, Decode(c) PROVE PendingLive'
  BY <1>5 DEF Decode
<1>6. ASSUME NEW c \in Call, Fail(c) PROVE PendingLive'
  BY <1>6 DEF Fail
<1>7. ASSUME NEW c \in Call, Finally(c) PROVE PendingLive'
  BY <1>7, FinallyEffect DEF Finally
<1>8. ASSUME NEW c \in Call, Return(c) PROVE PendingLive'
  BY <1>8 DEF Return
<1>9. ASSUME NEW c \in Call, Retry(c) PROVE PendingLive'
  BY <1>9 DEF Retry, StartFetch
<1>10. ASSUME NEW c \in Call, GiveUp(c) PROVE PendingLive'
  BY <1>10 DEF GiveUp
<1>11. CASE Tick
  BY <1>11 DEF Tick
<1>12. CASE UNCHANGED vars
  BY <1>12 DEF vars
<1> QED
  BY <1>1, <1>2, <1>3, <1>4, <1>5, <1>6, <1>7, <1>8, <1>9, <1>10, <1>11, <1>12 DEF Next

\* Live fetches belong to waiting calls and respect the timeout.
LEMMA FetchStep == IInv /\ [Next]_vars => FetchInv'
<1> SUFFICES ASSUME IInv, [Next]_vars PROVE FetchInv'
  OBVIOUS
<1> USE CacheAssumption DEF IInv, TypeOK, FetchInv, AwaitInv, Live, InFlight, Quiet, Awaiting, Answered, Woken, CallState, FetchState, Time
<1>1. ASSUME NEW c \in Call, NEW f \in Feed, Hit(c, f) PROVE FetchInv'
  BY <1>1 DEF Hit
<1>2. ASSUME NEW c \in Call, NEW f \in Feed, Join(c, f) PROVE FetchInv'
  BY <1>2 DEF Join
<1>3. ASSUME NEW c \in Call, NEW f \in Feed, Start(c, f) PROVE FetchInv'
  BY <1>3 DEF Start, StartFetch
<1>4. ASSUME NEW c \in Call, Read(c) PROVE FetchInv'
  BY <1>4 DEF Read
<1>5. ASSUME NEW c \in Call, Decode(c) PROVE FetchInv'
  BY <1>5 DEF Decode
<1>6. ASSUME NEW c \in Call, Fail(c) PROVE FetchInv'
  BY <1>6 DEF Fail
<1>7. ASSUME NEW c \in Call, Finally(c) PROVE FetchInv'
  BY <1>7, FinallyEffect DEF Finally
<1>8. ASSUME NEW c \in Call, Return(c) PROVE FetchInv'
  BY <1>8 DEF Return
<1>9. ASSUME NEW c \in Call, Retry(c) PROVE FetchInv'
  BY <1>9 DEF Retry, StartFetch
<1>10. ASSUME NEW c \in Call, GiveUp(c) PROVE FetchInv'
  BY <1>10 DEF GiveUp
<1>11. CASE Tick
  BY <1>11 DEF Tick
<1>12. CASE UNCHANGED vars
  BY <1>12 DEF vars
<1> QED
  BY <1>1, <1>2, <1>3, <1>4, <1>5, <1>6, <1>7, <1>8, <1>9, <1>10, <1>11, <1>12 DEF Next

\* Waiting calls await live fetches of their feed.
LEMMA AwaitStep == IInv /\ [Next]_vars => AwaitInv'
<1> SUFFICES ASSUME IInv, [Next]_vars PROVE AwaitInv'
  OBVIOUS
<1> USE CacheAssumption DEF IInv, TypeOK, FetchInv, AwaitInv, PendingLive, LiveOn, Live, Awaiting, Answered, Woken, CallState, FetchState
<1>1. ASSUME NEW c \in Call, NEW f \in Feed, Hit(c, f) PROVE AwaitInv'
  BY <1>1 DEF Hit
<1>2. ASSUME NEW c \in Call, NEW f \in Feed, Join(c, f) PROVE AwaitInv'
  BY <1>2 DEF Join
<1>3. ASSUME NEW c \in Call, NEW f \in Feed, Start(c, f) PROVE AwaitInv'
  BY <1>3 DEF Start, StartFetch
<1>4. ASSUME NEW c \in Call, Read(c) PROVE AwaitInv'
  BY <1>4 DEF Read
<1>5. ASSUME NEW c \in Call, Decode(c) PROVE AwaitInv'
  BY <1>5 DEF Decode
<1>6. ASSUME NEW c \in Call, Fail(c) PROVE AwaitInv'
  BY <1>6 DEF Fail
<1>7. ASSUME NEW c \in Call, Finally(c) PROVE AwaitInv'
  <2> SUFFICES ASSUME NEW d \in Call
               PROVE  /\ call'[d].pc # "idle" => call'[d].feed \in Feed
                      /\ call'[d].pc \in Awaiting =>
                            /\ call'[d].on \in Call
                            /\ fetch'[call'[d].on].st # "none"
                            /\ call'[call'[d].on].feed = call'[d].feed
                      /\ call'[d].pc = "own" => call'[d].on = d
    BY DEF AwaitInv, Live
  <2>1. CASE call[d].pc \in Awaiting /\ call[d].on = c
    <3>1. call'[d].feed = call[d].feed /\ call'[d].pc \in Woken
      BY <1>7, <2>1, FinallyEffect
    <3>2. call[d].feed \in Feed
      BY <2>1 DEF AwaitInv
    <3> QED BY <3>1, <3>2
  <2>2. CASE ~(call[d].pc \in Awaiting /\ call[d].on = c)
    <3>1. call'[d] = call[d]
      BY <1>7, <2>2, FinallyEffect
    <3>2. ASSUME call[d].pc \in Awaiting
          PROVE  /\ fetch'[call[d].on] = fetch[call[d].on]
                 /\ call'[call[d].on].feed = call[call[d].on].feed
      <4>1. call[d].on \in Call /\ call[d].on # c
        BY <2>2, <3>2
      <4> QED BY <1>7, <4>1, FinallyEffect
    <3> QED BY <3>1, <3>2
  <2> QED BY <2>1, <2>2
<1>8. ASSUME NEW c \in Call, Return(c) PROVE AwaitInv'
  BY <1>8 DEF Return
<1>9. ASSUME NEW c \in Call, Retry(c) PROVE AwaitInv'
  BY <1>9 DEF Retry, StartFetch
<1>10. ASSUME NEW c \in Call, GiveUp(c) PROVE AwaitInv'
  BY <1>10 DEF GiveUp
<1>11. CASE Tick
  BY <1>11 DEF Tick
<1>12. CASE UNCHANGED vars
  BY <1>12 DEF vars
<1> QED
  BY <1>1, <1>2, <1>3, <1>4, <1>5, <1>6, <1>7, <1>8, <1>9, <1>10, <1>11, <1>12 DEF Next

\* Ages of stored and delivered snapshots.
LEMMA AgeStep == IInv /\ [Next]_vars => AgeInv'
<1> SUFFICES ASSUME IInv, [Next]_vars PROVE AgeInv'
  OBVIOUS
<1> USE CacheAssumption DEF IInv, TypeOK, FetchInv, AwaitInv, AgeInv, Live, InFlight, Quiet, Awaiting, Answered, Woken, CallState, FetchState, Time, CacheEntry
<1>1. ASSUME NEW c \in Call, NEW f \in Feed, Hit(c, f) PROVE AgeInv'
  BY <1>1 DEF Hit
<1>2. ASSUME NEW c \in Call, NEW f \in Feed, Join(c, f) PROVE AgeInv'
  BY <1>2 DEF Join
<1>3. ASSUME NEW c \in Call, NEW f \in Feed, Start(c, f) PROVE AgeInv'
  BY <1>3 DEF Start, StartFetch
<1>4. ASSUME NEW c \in Call, Read(c) PROVE AgeInv'
  BY <1>4 DEF Read
<1>5. ASSUME NEW c \in Call, Decode(c) PROVE AgeInv'
  BY <1>5 DEF Decode
<1>6. ASSUME NEW c \in Call, Fail(c) PROVE AgeInv'
  BY <1>6 DEF Fail
<1>7. ASSUME NEW c \in Call, Finally(c) PROVE AgeInv'
  <2>1. cache' = cache /\ now' = now
    BY <1>7 DEF Finally
  <2>2. ASSUME NEW d \in Call, call'[d].pc \in {"joinOk", "ownOk"}
        PROVE  call'[d].msg \in Time /\ call'[d].msg <= now /\ now <= call'[d].msg + Timeout
    <3>1. CASE call[d].pc \in Awaiting /\ call[d].on = c
      <4>1. fetch[c].st = "ok" /\ call'[d].msg = fetch[c].msg
        BY <1>7, <2>2, <3>1, FinallyEffect
      <4>2. /\ fetch[c].started <= fetch[c].msg /\ fetch[c].msg <= now
            /\ now <= fetch[c].started + Timeout
        BY <4>1 DEF FetchInv, Live
      <4>3. fetch[c].msg \in Time /\ fetch[c].started \in Time
        BY DEF FetchState
      <4> QED BY <4>1, <4>2, <4>3 DEF Time
    <3>2. CASE ~(call[d].pc \in Awaiting /\ call[d].on = c)
      <4>1. call'[d] = call[d]
        BY <1>7, <3>2, FinallyEffect
      <4> QED BY <2>2, <4>1 DEF AgeInv
    <3> QED BY <3>1, <3>2
  <2> QED BY <2>1, <2>2 DEF AgeInv
<1>8. ASSUME NEW c \in Call, Return(c) PROVE AgeInv'
  BY <1>8 DEF Return
<1>9. ASSUME NEW c \in Call, Retry(c) PROVE AgeInv'
  BY <1>9 DEF Retry, StartFetch
<1>10. ASSUME NEW c \in Call, GiveUp(c) PROVE AgeInv'
  BY <1>10 DEF GiveUp
<1>11. CASE Tick
  BY <1>11 DEF Tick
<1>12. CASE UNCHANGED vars
  BY <1>12 DEF vars
<1> QED
  BY <1>1, <1>2, <1>3, <1>4, <1>5, <1>6, <1>7, <1>8, <1>9, <1>10, <1>11, <1>12 DEF Next

\* The single fetch of a feed that has not failed.
LEMMA NoFailureStep == IInv /\ [Next]_vars => NoFailureInv'
<1> SUFFICES ASSUME IInv, [Next]_vars PROVE NoFailureInv'
  OBVIOUS
<1> USE CacheAssumption DEF IInv, TypeOK, FetchInv, AwaitInv, AgeInv, NoFailureInv, PendingLive, LiveOn, Live, InFlight, Quiet, Awaiting, Answered, Woken, CallState, FetchState, Time, CacheEntry
<1>1. ASSUME NEW c \in Call, NEW f \in Feed, Hit(c, f) PROVE NoFailureInv'
  BY <1>1 DEF Hit
<1>2. ASSUME NEW c \in Call, NEW f \in Feed, Join(c, f) PROVE NoFailureInv'
  BY <1>2 DEF Join
<1>3. ASSUME NEW c \in Call, NEW f \in Feed, Start(c, f) PROVE NoFailureInv'
  BY <1>3 DEF Start, StartFetch
<1>4. ASSUME NEW c \in Call, Read(c) PROVE NoFailureInv'
  BY <1>4 DEF Read
<1>5. ASSUME NEW c \in Call, Decode(c) PROVE NoFailureInv'
  BY <1>5 DEF Decode
<1>6. ASSUME NEW c \in Call, Fail(c) PROVE NoFailureInv'
  BY <1>6 DEF Fail
<1>7. ASSUME NEW c \in Call, Finally(c) PROVE NoFailureInv'
  <2> SUFFICES ASSUME NEW f \in Feed \ failed, NEW d \in Call, call'[d].feed = f
               PROVE  /\ call'[d].pc # "joinErr"
                      /\ fetch'[d].st # "none" => pending'[f] = d /\ fetch'[d].st # "failed"
                      /\ fetch'[d].st \in {"sent", "read"} /\ cache[f] # None =>
                            cache[f].fetchedAt <= fetch'[d].started
    BY <1>7 DEF NoFailureInv, Live, InFlight, Finally
  <2>1. call[d].feed = f
    BY <1>7, FinallyEffect
  <2>2. Live(c)
    BY <1>7 DEF Live, Finally
  <2>3. call'[d].pc # "joinErr"
    <3>1. CASE call[d].pc \in Awaiting /\ call[d].on = c
      <4>1. call[c].feed = f
        BY <2>1, <3>1 DEF AwaitInv
      <4>2. fetch[c].st # "failed"
        BY <2>2, <4>1 DEF NoFailureInv
      <4> QED BY <1>7, <3>1, <4>2, FinallyEffect
    <3>2. CASE ~(call[d].pc \in Awaiting /\ call[d].on = c)
      BY <1>7, <2>1, <3>2, FinallyEffect DEF NoFailureInv
    <3> QED BY <3>1, <3>2
  <2>4. ASSUME fetch'[d].st # "none"
        PROVE  /\ fetch'[d] = fetch[d]
               /\ pending'[f] = d
               /\ fetch[d].st # "failed"
    <3>1. d # c /\ fetch'[d] = fetch[d]
      BY <1>7, <2>4, FinallyEffect
    <3>2. pending[f] = d /\ fetch[d].st # "failed"
      BY <2>1, <2>4, <3>1 DEF NoFailureInv, Live
    <3>3. call[c].feed # f
      BY <2>2, <3>1, <3>2 DEF NoFailureInv
    <3> QED BY <1>7, <3>1, <3>2, <3>3 DEF Finally
  <2>5. ASSUME fetch'[d].st \in {"sent", "read"}, cache[f] # None
        PROVE  cache[f].fetchedAt <= fetch'[d].started
    <3>1. fetch'[d] = fetch[d]
      BY <2>4, <2>5
    <3> QED BY <2>1, <2>5, <3>1 DEF NoFailureInv, InFlight
  <2> QED BY <2>3, <2>4, <2>5
<1>8. ASSUME NEW c \in Call, Return(c) PROVE NoFailureInv'
  BY <1>8 DEF Return
<1>9. ASSUME NEW c \in Call, Retry(c) PROVE NoFailureInv'
  BY <1>9 DEF Retry, StartFetch
<1>10. ASSUME NEW c \in Call, GiveUp(c) PROVE NoFailureInv'
  BY <1>10 DEF GiveUp
<1>11. CASE Tick
  BY <1>11 DEF Tick
<1>12. CASE UNCHANGED vars
  BY <1>12 DEF vars
<1> QED
  BY <1>1, <1>2, <1>3, <1>4, <1>5, <1>6, <1>7, <1>8, <1>9, <1>10, <1>11, <1>12 DEF Next

\* A step keeps the invariant when it moves no mark, no outcome and no call that
\* has a mark to make.
LEMMA MarksUndisturbed ==
    ASSUME DegradedInv,
           degraded' = degraded, outcome' = outcome,
           \A d \in Call :
              /\ (fetch'[d].st = "failed" \/ call'[d].pc = "ownErr") <=> MarkDue(d)
              /\ MarkDue(d) => call'[d].feed = call[d].feed
    PROVE  DegradedInv'
<1>1. ASSUME NEW g \in Feed, outcome[g] = "failed", g \notin degraded
      PROVE  \E d \in Call : (fetch'[d].st = "failed" \/ call'[d].pc = "ownErr")
                              /\ call'[d].feed = g
  <2>1. PICK d \in Call : MarkDue(d) /\ call[d].feed = g
    BY <1>1 DEF DegradedInv
  <2> QED BY <2>1
<1>2. ASSUME NEW d \in Call, fetch'[d].st = "failed" \/ call'[d].pc = "ownErr"
      PROVE  outcome'[call'[d].feed] = "failed"
  <2>1. MarkDue(d)
    BY <1>2
  <2> QED BY <2>1 DEF DegradedInv
<1>3. \A g \in degraded' : outcome'[g] = "failed"
  BY DEF DegradedInv
<1> QED BY <1>1, <1>2, <1>3 DEF DegradedInv, MarkDue

\* The degraded mark and the last outcome.
LEMMA DegradedStep == IInv /\ [Next]_vars => DegradedInv'
<1> SUFFICES ASSUME IInv, [Next]_vars PROVE DegradedInv'
  OBVIOUS
<1>0. DegradedInv
  BY DEF IInv
<1> USE CacheAssumption DEF IInv, TypeOK, FetchInv, AwaitInv, Live, InFlight, Quiet, Awaiting, Answered, Woken, CallState, FetchState
<1>1. ASSUME NEW c \in Call, NEW f \in Feed, Hit(c, f) PROVE DegradedInv'
  <2>1. degraded' = degraded /\ outcome' = outcome
    BY <1>1 DEF Hit
  <2>2. \A d \in Call :
           /\ (fetch'[d].st = "failed" \/ call'[d].pc = "ownErr") <=> MarkDue(d)
           /\ MarkDue(d) => call'[d].feed = call[d].feed
    BY <1>1 DEF MarkDue, Hit
  <2> QED BY <1>0, <2>1, <2>2, MarksUndisturbed
<1>2. ASSUME NEW c \in Call, NEW f \in Feed, Join(c, f) PROVE DegradedInv'
  <2>1. degraded' = degraded /\ outcome' = outcome
    BY <1>2 DEF Join
  <2>2. \A d \in Call :
           /\ (fetch'[d].st = "failed" \/ call'[d].pc = "ownErr") <=> MarkDue(d)
           /\ MarkDue(d) => call'[d].feed = call[d].feed
    BY <1>2 DEF MarkDue, Join
  <2> QED BY <1>0, <2>1, <2>2, MarksUndisturbed
<1>3. ASSUME NEW c \in Call, NEW f \in Feed, Start(c, f) PROVE DegradedInv'
  <2>1. degraded' = degraded /\ outcome' = outcome
    BY <1>3 DEF Start, StartFetch
  <2>2. \A d \in Call :
           /\ (fetch'[d].st = "failed" \/ call'[d].pc = "ownErr") <=> MarkDue(d)
           /\ MarkDue(d) => call'[d].feed = call[d].feed
    BY <1>3 DEF MarkDue, Start, StartFetch
  <2> QED BY <1>0, <2>1, <2>2, MarksUndisturbed
<1>4. ASSUME NEW c \in Call, Read(c) PROVE DegradedInv'
  <2>1. degraded' = degraded /\ outcome' = outcome
    BY <1>4 DEF Read
  <2>2. \A d \in Call :
           /\ (fetch'[d].st = "failed" \/ call'[d].pc = "ownErr") <=> MarkDue(d)
           /\ MarkDue(d) => call'[d].feed = call[d].feed
    BY <1>4 DEF MarkDue, Read
  <2> QED BY <1>0, <2>1, <2>2, MarksUndisturbed
<1>5. ASSUME NEW c \in Call, Decode(c) PROVE DegradedInv'
  BY <1>5 DEF DegradedInv, MarkDue, Decode
<1>6. ASSUME NEW c \in Call, Fail(c) PROVE DegradedInv'
  BY <1>6 DEF DegradedInv, MarkDue, Fail
<1>7. ASSUME NEW c \in Call, Finally(c) PROVE DegradedInv'
  <2> USE DEF DegradedInv, MarkDue
  <2>1. degraded' = degraded /\ outcome' = outcome
    BY <1>7 DEF Finally
  <2>2. ASSUME NEW d \in Call PROVE call'[d].feed = call[d].feed
    BY <1>7, FinallyEffect
  <2>3. ASSUME NEW d \in Call, MarkDue(d)
        PROVE  fetch'[d].st = "failed" \/ call'[d].pc = "ownErr"
    <3>1. CASE fetch[d].st = "failed"
      <4>1. call[d].pc = "own" /\ call[d].on = d
        BY <3>1
      <4> QED BY <1>7, <3>1, <4>1, FinallyEffect
    <3>2. CASE call[d].pc = "ownErr"
      BY <1>7, <3>2, FinallyEffect
    <3> QED BY <2>3, <3>1, <3>2
  <2>4. ASSUME NEW d \in Call, fetch'[d].st = "failed" \/ call'[d].pc = "ownErr"
        PROVE  outcome[call[d].feed] = "failed"
    <3>1. CASE fetch'[d].st = "failed"
      <4>1. fetch[d].st = "failed"
        BY <1>7, <3>1, FinallyEffect
      <4> QED BY <4>1
    <3>2. CASE call'[d].pc = "ownErr" /\ call[d].pc \in Awaiting /\ call[d].on = c
      <4>1. fetch[c].st = "failed"
        BY <1>7, <3>2, FinallyEffect
      <4>2. outcome[call[c].feed] = "failed"
        BY <4>1
      <4>3. call[c].feed = call[d].feed
        BY <3>2
      <4> QED BY <4>2, <4>3
    <3>3. CASE call'[d].pc = "ownErr" /\ ~(call[d].pc \in Awaiting /\ call[d].on = c)
      <4>1. call[d].pc = "ownErr"
        BY <1>7, <3>3, FinallyEffect
      <4> QED BY <4>1
    <3> QED BY <2>4, <3>1, <3>2, <3>3
  <2>5. ASSUME NEW g \in Feed, outcome[g] = "failed", g \notin degraded
        PROVE  \E d \in Call : (fetch'[d].st = "failed" \/ call'[d].pc = "ownErr")
                                /\ call'[d].feed = g
    <3>1. PICK d \in Call : MarkDue(d) /\ call[d].feed = g
      BY <2>5
    <3>2. fetch'[d].st = "failed" \/ call'[d].pc = "ownErr"
      BY <2>3, <3>1
    <3> QED BY <2>2, <3>1, <3>2
  <2>6. \A g \in degraded' : outcome'[g] = "failed"
    BY <2>1
  <2>7. \A d \in Call : fetch'[d].st = "failed" \/ call'[d].pc = "ownErr"
                        => outcome'[call'[d].feed] = "failed"
    BY <2>1, <2>2, <2>4
  <2> QED BY <2>1, <2>5, <2>6, <2>7
<1>8. ASSUME NEW c \in Call, Return(c) PROVE DegradedInv'
  <2>1. degraded' = degraded /\ outcome' = outcome
    BY <1>8 DEF Return
  <2>2. \A d \in Call :
           /\ (fetch'[d].st = "failed" \/ call'[d].pc = "ownErr") <=> MarkDue(d)
           /\ MarkDue(d) => call'[d].feed = call[d].feed
    BY <1>8 DEF MarkDue, Return
  <2> QED BY <1>0, <2>1, <2>2, MarksUndisturbed
<1>9. ASSUME NEW c \in Call, Retry(c) PROVE DegradedInv'
  <2>1. degraded' = degraded /\ outcome' = outcome
    BY <1>9 DEF Retry, StartFetch
  <2>2. \A d \in Call :
           /\ (fetch'[d].st = "failed" \/ call'[d].pc = "ownErr") <=> MarkDue(d)
           /\ MarkDue(d) => call'[d].feed = call[d].feed
    BY <1>9 DEF MarkDue, Retry, StartFetch
  <2> QED BY <1>0, <2>1, <2>2, MarksUndisturbed
<1>10. ASSUME NEW c \in Call, GiveUp(c) PROVE DegradedInv'
  <2> USE DEF DegradedInv, MarkDue
  <2> DEFINE f == call[c].feed
  <2>1. degraded' = degraded \cup {f} /\ outcome' = outcome /\ fetch' = fetch
    BY <1>10 DEF GiveUp
  <2>2. ASSUME NEW d \in Call
        PROVE  /\ call'[d].feed = call[d].feed
               /\ call'[d].pc = "ownErr" => call[d].pc = "ownErr"
               /\ d # c => call'[d] = call[d]
    BY <1>10 DEF GiveUp
  <2>3. outcome[f] = "failed"
    BY <1>10 DEF GiveUp
  <2>4. ASSUME NEW g \in Feed, outcome[g] = "failed", g \notin degraded, g # f
        PROVE  \E d \in Call : (fetch[d].st = "failed" \/ call'[d].pc = "ownErr")
                                /\ call'[d].feed = g
    <3>1. PICK d \in Call : MarkDue(d) /\ call[d].feed = g
      BY <2>4
    <3> QED BY <2>2, <2>4, <3>1
  <2> QED BY <2>1, <2>2, <2>3, <2>4
<1>11. CASE Tick
  BY <1>11 DEF DegradedInv, MarkDue, Tick
<1>12. CASE UNCHANGED vars
  BY <1>12 DEF DegradedInv, MarkDue, vars
<1> QED
  BY <1>1, <1>2, <1>3, <1>4, <1>5, <1>6, <1>7, <1>8, <1>9, <1>10, <1>11, <1>12 DEF Next

-----------------------------------------------------------------------------
(* The invariant and what follows from it. *)

LEMMA IInvInit == Init => IInv
  BY TypeInit, CacheAssumption
  DEF IInv, Init, PendingLive, FetchInv, AwaitInv, AgeInv, NoFailureInv,
      DegradedInv, MarkDue, Live, InFlight, Awaiting

LEMMA IInvStep == IInv /\ [Next]_vars => IInv'
  BY TypeStep, PendingStep, FetchStep, AwaitStep, AgeStep, NoFailureStep, DegradedStep DEF IInv

\* The inductive invariant holds of every behaviour of the cache (rtCache.ts:16-114).
THEOREM Inductive == Spec => []IInv
  BY IInvInit, IInvStep, PTL DEF Spec

\* Every variable keeps its type: the Maps, the degraded Set and the locals of
\* every outstanding getFeed call.
THEOREM TypeCorrect == Spec => []TypeOK
<1>1. IInv => TypeOK
  BY DEF IInv
<1> QED BY <1>1, Inductive, PTL

\* The pending Map never keeps a promise whose finally handler has run
\* (rtCache.ts:88-98), so no later caller is handed an old message as fresh.
THEOREM PendingIsLive == Spec => []PendingLive
<1>1. IInv => PendingLive
  BY DEF IInv
<1> QED BY <1>1, Inductive, PTL

\* What the invariant says of ages bounds the age of every answer.
LEMMA BoundFromInv == IInv => FreshnessBound
<1> SUFFICES ASSUME IInv PROVE FreshnessBound
  OBVIOUS
<1>1. ASSUME NEW f \in Feed, Fresh(f) PROVE now - cache[f].msg < Ttl[f] + Timeout
  <2>1. cache[f] \in CacheEntry /\ now \in Nat
    BY <1>1 DEF IInv, TypeOK, Fresh, Time
  <2>2. cache[f].fetchedAt <= cache[f].msg + Timeout
    BY <1>1 DEF IInv, AgeInv, Fresh
  <2> QED BY <1>1, <2>1, <2>2, CacheAssumption DEF Fresh, CacheEntry, Time
<1>2. ASSUME NEW c \in Call, call[c].pc \in {"joinOk", "ownOk"}
      PROVE  now - call[c].msg <= Timeout
  <2>1. call[c].msg \in Time /\ now <= call[c].msg + Timeout
    BY <1>2 DEF IInv, AgeInv
  <2> QED BY <2>1, CacheAssumption DEF IInv, TypeOK, Time
<1> QED BY <1>1, <1>2 DEF FreshnessBound

\* An answer that getFeed does not mark stale holds a snapshot younger than the
\* feed's TTL plus the fetch timeout, for every TTL and timeout.
THEOREM FreshAnswersAreYoung == Spec => []FreshnessBound
  BY BoundFromInv, Inductive, PTL

\* As long as no fetch of a feed has failed, concurrent callers share one upstream
\* fetch, however many there are and however they interleave.
THEOREM OneFetchUntilFailure == Spec => []DedupUntilFailure
<1>1. IInv => DedupUntilFailure
  BY DEF IInv, NoFailureInv, DedupUntilFailure, LiveOn
<1> QED BY <1>1, Inductive, PTL

\* Whenever the event loop is idle, a feed is marked degraded exactly when its
\* last fetch failed, so a marked feed is one that is failing now.
THEOREM DegradedMarkIsHonest == Spec => []DegradedHonest
<1>1. IInv => DegradedHonest
  BY DEF IInv, DegradedInv, MarkDue, DegradedHonest, Quiet, Woken
<1> QED BY <1>1, Inductive, PTL

\* Until a fetch of it has failed, a feed's entry only moves forward.
LEMMA ForwardStep ==
    IInv /\ [Next]_vars =>
        \A f \in Feed \ failed :
            cache[f] # None => cache'[f] # None /\ cache'[f].msg >= cache[f].msg
<1> SUFFICES ASSUME IInv, [Next]_vars, NEW f \in Feed \ failed, cache[f] # None
             PROVE  cache'[f] # None /\ cache'[f].msg >= cache[f].msg
  OBVIOUS
<1>1. cache[f] \in CacheEntry
  BY DEF IInv, TypeOK
<1>2. CASE cache' = cache
  BY <1>1, <1>2, CacheAssumption DEF CacheEntry, Time
<1>3. ASSUME NEW c \in Call, Decode(c)
      PROVE  cache'[f] # None /\ cache'[f].msg >= cache[f].msg
  <2>1. CASE call[c].feed = f
    <3>1. cache'[f] = [msg |-> fetch[c].msg, fetchedAt |-> now]
      BY <1>3, <2>1 DEF Decode, IInv, TypeOK
    <3>2. /\ fetch[c] \in FetchState
          /\ fetch[c].started <= fetch[c].msg
          /\ cache[f].fetchedAt <= fetch[c].started
          /\ cache[f].msg <= cache[f].fetchedAt
      BY <1>3, <2>1 DEF Decode, IInv, TypeOK, FetchInv, NoFailureInv, AgeInv, Live, InFlight
    <3>3. cache'[f].msg >= cache[f].msg
      BY <1>1, <3>1, <3>2, CacheAssumption DEF CacheEntry, FetchState, Time
    <3>4. cache'[f] \in [msg : Nat, fetchedAt : Nat]
      BY <3>1, <3>2, CacheAssumption DEF FetchState, Time, IInv, TypeOK
    <3> QED BY <3>3, <3>4, CacheAssumption
  <2>2. CASE call[c].feed # f
    <3>1. cache'[f] = cache[f]
      BY <1>3, <2>2 DEF Decode, IInv, TypeOK
    <3> QED BY <1>1, <3>1, CacheAssumption DEF CacheEntry, Time
  <2> QED BY <2>1, <2>2
<1>4. CASE \A c \in Call : ~Decode(c)
  <2>1. cache' = cache
    BY <1>4 DEF Next, Hit, Join, Start, StartFetch, Read, Fail, Finally, Return,
                Retry, GiveUp, Tick, vars
  <2> QED BY <1>2, <2>1
<1> QED BY <1>3, <1>4

\* As long as no fetch of a feed has failed, its cached snapshot never moves back
\* in time.
THEOREM CacheMonotoneUntilFailure == Spec => MonotoneUntilFailure
<1> DEFINE Forward == \A f \in Feed \ failed :
                        cache[f] # None => cache'[f] # None /\ cache'[f].msg >= cache[f].msg
<1>1. IInv /\ [Next]_vars => [Forward]_vars
  BY ForwardStep
<1> QED BY <1>1, Inductive, PTL DEF Spec, MonotoneUntilFailure

-----------------------------------------------------------------------------
(***************************************************************************)
(* RtCache implements FeedContract, for every set of calls and feeds, every*)
(* TTL and every fetch timeout.                                            *)
(***************************************************************************)

-----------------------------------------------------------------------------
(* The entry a call captured is a snapshot of the past. *)

CapturedInv == \A c \in Call : call[c].cached # None => call[c].cached <= now

LEMMA CapturedInit == Init => CapturedInv
  BY DEF Init, CapturedInv

LEMMA CapturedStep == IInv /\ CapturedInv /\ [Next]_vars => CapturedInv'
<1> SUFFICES ASSUME IInv, CapturedInv, [Next]_vars PROVE CapturedInv'
  OBVIOUS
<1> USE CacheAssumption DEF IInv, TypeOK, CapturedInv, CallState
<1>0. \A f \in Feed : CachedMsg(f) # None => CachedMsg(f) <= now
  BY DEF AgeInv, CachedMsg, CacheEntry, Time
<1>1. ASSUME NEW c \in Call, NEW f \in Feed, Hit(c, f) PROVE CapturedInv'
  BY <1>1 DEF Hit
<1>2. ASSUME NEW c \in Call, NEW f \in Feed, Join(c, f) PROVE CapturedInv'
  BY <1>0, <1>2 DEF Join
<1>3. ASSUME NEW c \in Call, NEW f \in Feed, Start(c, f) PROVE CapturedInv'
  BY <1>0, <1>3 DEF Start, StartFetch
<1>4. ASSUME NEW c \in Call, Read(c) \/ Decode(c) \/ Fail(c) PROVE CapturedInv'
  BY <1>4 DEF Read, Decode, Fail
<1>5. ASSUME NEW c \in Call, Finally(c) PROVE CapturedInv'
  BY <1>5 DEF Finally, Wake
<1>6. ASSUME NEW c \in Call, Return(c) \/ GiveUp(c) PROVE CapturedInv'
  BY <1>6 DEF Return, GiveUp
<1>7. ASSUME NEW c \in Call, Retry(c) PROVE CapturedInv'
  BY <1>7 DEF Retry, StartFetch
<1>8. CASE Tick
  BY <1>8 DEF Tick, Time
<1>9. CASE UNCHANGED vars
  BY <1>9 DEF vars
<1> QED
  BY <1>1, <1>2, <1>3, <1>4, <1>5, <1>6, <1>7, <1>8, <1>9 DEF Next

-----------------------------------------------------------------------------
(* The mapping. *)

\* What a caller has been told, by the control point of its call.
LEMMA ToldCases ==
  ASSUME NEW k, NEW due
  PROVE  /\ k.pc \in {"fresh", "joinOk", "ownOk"} => Told(k, due) = Contract!Answer(k.feed, "fresh", k.msg)
         /\ k.pc = "stale" => Told(k, due) = Contract!Answer(k.feed, "stale", k.msg)
         /\ k.pc = "ownErr" /\ k.cached # None => Told(k, due) = Contract!Answer(k.feed, "stale", k.cached)
         /\ k.pc = "ownErr" /\ k.cached = None => Told(k, due) = Contract!Answer(k.feed, "error", None)
         /\ k.pc = "error" => Told(k, due) = Contract!Answer(k.feed, "error", None)
         /\ k.pc = "idle" => Told(k, due) = Contract!Answer(k.feed, "idle", None)
         /\ k.pc = "join" => Told(k, due) = Contract!Wait(k.feed, due, TRUE)
         /\ k.pc \in {"own", "joinErr"} => Told(k, due) = Contract!Wait(k.feed, due, FALSE)
<1>1. k.pc \in {"fresh", "joinOk", "ownOk"} => Told(k, due) = Contract!Answer(k.feed, "fresh", k.msg)
  BY DEF Told, Contract!Answer
<1>2. k.pc = "stale" => Told(k, due) = Contract!Answer(k.feed, "stale", k.msg)
  BY DEF Told, Contract!Answer
<1>3. k.pc = "ownErr" /\ k.cached # None => Told(k, due) = Contract!Answer(k.feed, "stale", k.cached)
  BY DEF Told, Contract!Answer
<1>4. k.pc = "ownErr" /\ k.cached = None => Told(k, due) = Contract!Answer(k.feed, "error", None)
  BY DEF Told, Contract!Answer
<1>5. k.pc = "error" => Told(k, due) = Contract!Answer(k.feed, "error", None)
  BY DEF Told, Contract!Answer
<1>6. k.pc = "idle" => Told(k, due) = Contract!Answer(k.feed, "idle", None)
  BY DEF Told, Contract!Answer
<1>7. k.pc = "join" => Told(k, due) = Contract!Wait(k.feed, due, TRUE)
  BY DEF Told, Contract!Wait
<1>8. k.pc \in {"own", "joinErr"} => Told(k, due) = Contract!Wait(k.feed, due, FALSE)
  BY DEF Told, Contract!Wait
<1> QED BY <1>1, <1>2, <1>3, <1>4, <1>5, <1>6, <1>7, <1>8

\* Only a call that waits is told anything that depends on the fetch it awaits.
LEMMA DueMatters ==
  ASSUME NEW k, NEW due, NEW other,
         k.pc \in {"idle"} \cup Answered \cup {"joinOk", "ownOk", "ownErr"}
  PROVE  Told(k, due) = Told(k, other)
  BY DEF Told, Answered

-----------------------------------------------------------------------------
(* Every step of the cache is a step of the contract, or a stutter. *)

answer == [c \in Call |-> Told(call[c], Due(c))]

\* A step after which every caller has been told what it had been told before.
LEMMA NobodyTold ==
  ASSUME now' = now, \A c \in Call : answer'[c] = answer[c]
  PROVE  UNCHANGED Contract!contractVars
  BY DEF Contract!contractVars, answer

\* A step that answers, or makes wait, the call c alone.
LEMMA OneTold ==
  ASSUME NEW c \in Call, NEW f \in Feed, now' = now,
         \A d \in Call \ {c} : answer'[d] = answer[d],
         answer[c].st # "waiting", answer'[c] \in Contract!FirstReply(f)
  PROVE  Contract!Ask(c)
  BY DEF Contract!Ask, Contract!Waiting, answer

\* A call that has been answered, or has not begun, is not waiting, and no fetch
\* of its own is live.
LEMMA AtRest ==
  ASSUME IInv, NEW c \in Call, call[c].pc \in {"idle"} \cup Answered
  PROVE  /\ answer[c].st # "waiting"
         /\ ~Live(c)
         /\ \A d \in Call : call[d].pc \in Awaiting => call[d].on # c
<1>1. answer[c].st # "waiting"
  <2>1. answer[c] = Told(call[c], Due(c))
    BY DEF answer
  <2>2. \E st \in {"fresh", "stale", "error", "idle"}, m \in {call[c].msg, None} :
           Told(call[c], Due(c)) = Contract!Answer(call[c].feed, st, m)
    BY ToldCases DEF Answered
  <2> QED BY <2>1, <2>2 DEF Contract!Answer
<1>2. ~Live(c)
  BY DEF IInv, FetchInv, Answered
<1> QED BY <1>1, <1>2 DEF IInv, AwaitInv

\* To wait for a fetch that is settled within the timeout is a first reply.
LEMMA WaitIsReply ==
  ASSUME NEW f \in Feed, NEW due \in now..(now + Timeout), NEW again \in BOOLEAN
  PROVE  Contract!Wait(f, due, again) \in Contract!FirstReply(f)
<1>1. CASE again
  BY <1>1 DEF Contract!FirstReply
<1>2. CASE ~again
  BY <1>2 DEF Contract!FirstReply
<1> QED BY <1>1, <1>2

LEMMA HitTold ==
  ASSUME IInv, NEW c \in Call, NEW f \in Feed, Hit(c, f)
  PROVE  Contract!Ask(c)
<1> USE DEF IInv, TypeOK
<1>1. call'[c] = [pc |-> "fresh", feed |-> f, cached |-> None, on |-> None, msg |-> cache[f].msg]
  BY DEF Hit
<1>2. answer'[c] = Contract!Answer(f, "fresh", cache[f].msg)
  BY <1>1, ToldCases DEF answer
<1>3. cache[f] \in CacheEntry /\ now \in Time
  BY DEF Hit, Fresh
<1>4. Contract!Recent(cache[f].msg, Ttl[f] + Timeout - 1)
  BY <1>3, CacheAssumption DEF Hit, Fresh, AgeInv, CacheEntry, Time, Contract!Recent
<1>5. answer'[c] \in Contract!FirstReply(f)
  BY <1>2, <1>4 DEF Contract!FirstReply, Contract!Recent
<1>6. \A d \in Call \ {c} : answer'[d] = answer[d]
  BY DEF Hit, answer, Due
<1>7. now' = now /\ answer[c].st # "waiting"
  BY AtRest DEF Hit
<1> QED BY <1>5, <1>6, <1>7, OneTold

LEMMA JoinTold ==
  ASSUME IInv, NEW c \in Call, NEW f \in Feed, Join(c, f)
  PROVE  Contract!Ask(c)
<1> USE DEF IInv, TypeOK
<1> DEFINE p == pending[f]
           due == Timeout + fetch[p].started
<1>1. p \in Call /\ Live(p)
  BY DEF Join, PendingLive, LiveOn
<1>2. /\ call'[c].pc = "join" /\ call'[c].feed = f /\ call'[c].on = p
      /\ fetch' = fetch /\ now' = now
  BY DEF Join
<1>3. answer'[c] = Contract!Wait(f, due, TRUE)
  <2>1. Due(c)' = due
    BY <1>2 DEF Due, Awaiting
  <2> QED BY <1>2, <2>1, ToldCases DEF answer
<1>4. due \in now..(now + Timeout)
  BY <1>1, CacheAssumption DEF FetchInv, FetchState, Time
<1>5. answer'[c] \in Contract!FirstReply(f)
  BY <1>3, <1>4, WaitIsReply
<1>6. \A d \in Call \ {c} : answer'[d] = answer[d]
  BY DEF Join, answer, Due
<1>7. answer[c].st # "waiting"
  BY AtRest DEF Join
<1> QED BY <1>2, <1>5, <1>6, <1>7, OneTold

\* A fetch that begins is not one that other calls await already.
LEMMA StartFetchTold ==
  ASSUME IInv, NEW c \in Call, NEW f \in Feed, NEW m, StartFetch(c, f, m), ~Live(c)
  PROVE  /\ now' = now
         /\ answer'[c] = Contract!Wait(f, now + Timeout, FALSE)
         /\ \A d \in Call \ {c} : answer'[d] = answer[d]
<1> USE DEF IInv, TypeOK
<1>1. /\ now' = now
      /\ call'[c].pc = "own" /\ call'[c].feed = f /\ call'[c].on = c
      /\ fetch'[c].started = now
  BY DEF StartFetch
<1>2. Due(c)' = now + Timeout
  BY <1>1, CacheAssumption DEF Due, Awaiting, Time
<1>3. answer'[c] = Contract!Wait(f, now + Timeout, FALSE)
  BY <1>1, <1>2, ToldCases DEF answer
<1>4. ASSUME NEW d \in Call \ {c} PROVE answer'[d] = answer[d]
  <2>1. call'[d] = call[d]
    BY DEF StartFetch
  <2>2. call[d].pc \in Awaiting => call[d].on \in Call \ {c}
    BY DEF AwaitInv
  <2>3. \A e \in Call \ {c} : fetch'[e] = fetch[e]
    BY DEF StartFetch
  <2>4. Due(d)' = Due(d)
    BY <1>1, <2>1, <2>2, <2>3 DEF Due
  <2> QED BY <2>1, <2>4 DEF answer
<1> QED BY <1>1, <1>3, <1>4

LEMMA StartTold ==
  ASSUME IInv, NEW c \in Call, NEW f \in Feed, Start(c, f)
  PROVE  Contract!Ask(c)
<1>1. answer[c].st # "waiting" /\ ~Live(c)
  BY AtRest DEF Start
<1>2. /\ now' = now
      /\ answer'[c] = Contract!Wait(f, now + Timeout, FALSE)
      /\ \A d \in Call \ {c} : answer'[d] = answer[d]
  BY <1>1, StartFetchTold DEF Start
<1>3. now + Timeout \in now..(now + Timeout)
  BY CacheAssumption DEF IInv, TypeOK, Time
<1>4. answer'[c] \in Contract!FirstReply(f)
  BY <1>2, <1>3, WaitIsReply
<1> QED BY <1>1, <1>2, <1>4, OneTold

LEMMA RetryTold ==
  ASSUME IInv, NEW c \in Call, Retry(c)
  PROVE  UNCHANGED Contract!contractVars
<1>1. ~Live(c) /\ call[c].feed \in Feed
  BY DEF Retry, IInv, FetchInv, AwaitInv
<1>2. /\ now' = now
      /\ answer'[c] = Contract!Wait(call[c].feed, now + Timeout, FALSE)
      /\ \A d \in Call \ {c} : answer'[d] = answer[d]
  BY <1>1, StartFetchTold DEF Retry
<1>3. answer[c] = Contract!Wait(call[c].feed, Timeout + now, FALSE)
  BY ToldCases DEF Retry, answer, Due, Awaiting
<1>4. Timeout + now = now + Timeout
  BY CacheAssumption DEF IInv, TypeOK, Time
<1> QED BY <1>2, <1>3, <1>4, NobodyTold

\* The fetch's own progress tells nobody anything.
LEMMA ProgressTold ==
  ASSUME IInv, NEW c \in Call, Read(c) \/ Decode(c) \/ Fail(c)
  PROVE  UNCHANGED Contract!contractVars
<1>1. /\ now' = now /\ call' = call
      /\ \A d \in Call : fetch'[d].started = fetch[d].started
  BY DEF Read, Decode, Fail, IInv, TypeOK, FetchState
<1>2. ASSUME NEW d \in Call PROVE answer'[d] = answer[d]
  <2>1. call[d].pc \in Awaiting => call[d].on \in Call
    BY DEF IInv, AwaitInv
  <2> QED BY <1>1, <2>1 DEF answer, Due
<1> QED BY <1>1, <1>2, NobodyTold

\* What a continuation returns or throws was settled when it became ready.
LEMMA LeaveTold ==
  ASSUME IInv, NEW c \in Call, Return(c) \/ GiveUp(c)
  PROVE  UNCHANGED Contract!contractVars
<1> USE DEF IInv, TypeOK
<1>1. now' = now /\ fetch' = fetch /\ \A d \in Call \ {c} : call'[d] = call[d]
  BY DEF Return, GiveUp
<1>2. \A d \in Call \ {c} : answer'[d] = answer[d]
  BY <1>1 DEF answer, Due
<1>3. call[c] \in CallState
  OBVIOUS
<1>4. answer'[c] = answer[c]
  <2>0. answer'[c] = Told(call'[c], Due(c)') /\ answer[c] = Told(call[c], Due(c))
    BY DEF answer
  <2>1. CASE Return(c)
    <3>1. call'[c].pc = "fresh" /\ call'[c].feed = call[c].feed /\ call'[c].msg = call[c].msg
      BY <1>3, <2>1 DEF Return, CallState
    <3>2. call[c].pc \in {"joinOk", "ownOk"}
      BY <2>1 DEF Return
    <3>3. Told(call'[c], Due(c)') = Contract!Answer(call'[c].feed, "fresh", call'[c].msg)
      BY <3>1, ToldCases
    <3>4. Told(call[c], Due(c)) = Contract!Answer(call[c].feed, "fresh", call[c].msg)
      BY <3>2, ToldCases
    <3> QED BY <2>0, <3>1, <3>3, <3>4
  <2>2. CASE GiveUp(c)
    <3>1. /\ call'[c].pc = IF call[c].cached # None THEN "stale" ELSE "error"
          /\ call'[c].feed = call[c].feed
          /\ call'[c].msg = call[c].cached
      BY <1>3, <2>2 DEF GiveUp, CallState
    <3>2. call[c].pc = "ownErr"
      BY <2>2 DEF GiveUp
    <3>3. CASE call[c].cached # None
      <4>1. Told(call'[c], Due(c)') = Contract!Answer(call'[c].feed, "stale", call'[c].msg)
        BY <3>1, <3>3, ToldCases
      <4>2. Told(call[c], Due(c)) = Contract!Answer(call[c].feed, "stale", call[c].cached)
        BY <3>2, <3>3, ToldCases
      <4> QED BY <2>0, <3>1, <4>1, <4>2
    <3>4. CASE call[c].cached = None
      <4>1. Told(call'[c], Due(c)') = Contract!Answer(call'[c].feed, "error", None)
        BY <3>1, <3>4, ToldCases
      <4>2. Told(call[c], Due(c)) = Contract!Answer(call[c].feed, "error", None)
        BY <3>2, <3>4, ToldCases
      <4> QED BY <2>0, <3>1, <4>1, <4>2
    <3> QED BY <3>3, <3>4
  <2> QED BY <2>1, <2>2
<1> QED BY <1>1, <1>2, <1>4, NobodyTold

\* The outcomes of the fetch that d awaits.
LEMMA Outcomes ==
  ASSUME NEW d \in Call, NEW f, answer[d].feed = f
  PROVE  /\ \A m \in Time : Contract!Recent(m, Timeout)
                            => Contract!Answer(f, "fresh", m) \in Contract!Outcome(d)
         /\ \A m \in Time : m <= now => Contract!Answer(f, "stale", m) \in Contract!Outcome(d)
         /\ Contract!Answer(f, "error", None) \in Contract!Outcome(d)
         /\ answer[d].again => Contract!Wait(f, now + Timeout, FALSE) \in Contract!Outcome(d)
<1> DEFINE set(g, again) ==
             {Contract!Answer(g, "fresh", m) : m \in {i \in Time : Contract!Recent(i, Timeout)}}
               \cup {Contract!Answer(g, "stale", m) : m \in {i \in Time : i <= now}}
               \cup {Contract!Answer(g, "error", None)}
               \cup IF again THEN {Contract!Wait(g, now + Timeout, FALSE)} ELSE {}
<1>1. Contract!Outcome(d) = set(f, answer[d].again)
  BY DEF Contract!Outcome, answer
<1>2. \A m \in Time : Contract!Recent(m, Timeout) => Contract!Answer(f, "fresh", m) \in set(f, answer[d].again)
  OBVIOUS
<1>3. \A m \in Time : m <= now => Contract!Answer(f, "stale", m) \in set(f, answer[d].again)
  OBVIOUS
<1>4. Contract!Answer(f, "error", None) \in set(f, answer[d].again)
  OBVIOUS
<1>5. answer[d].again => Contract!Wait(f, now + Timeout, FALSE) \in set(f, answer[d].again)
  OBVIOUS
<1> HIDE DEF set
<1> QED BY <1>1, <1>2, <1>3, <1>4, <1>5

\* The settled fetch of c tells each call that awaits it one of the outcomes the
\* contract allows, and nobody else anything.
LEMMA FinallyTold ==
  ASSUME IInv, CapturedInv, NEW c \in Call, Finally(c)
  PROVE  Contract!Settle
<1> USE DEF IInv, TypeOK
<1>1. now' = now /\ Live(c) /\ fetch[c].st \in {"ok", "failed"}
  BY DEF Finally, Live
<1>2. ASSUME NEW d \in Call, ~(call[d].pc \in Awaiting /\ call[d].on = c)
      PROVE  answer'[d] = answer[d]
  <2>1. call'[d] = call[d]
    BY <1>2, FinallyEffect
  <2>2. call[d].pc \in Awaiting => call[d].on \in Call \ {c}
    BY <1>2 DEF AwaitInv
  <2>3. \A e \in Call \ {c} : fetch'[e] = fetch[e]
    BY FinallyEffect
  <2>4. Due(d)' = Due(d)
    BY <1>1, <2>1, <2>2, <2>3 DEF Due
  <2> QED BY <2>1, <2>4 DEF answer
<1>3. ASSUME NEW d \in Call, call[d].pc \in Awaiting, call[d].on = c
      PROVE  Contract!Waiting(d) /\ answer'[d] \in Contract!Outcome(d)
  <2> DEFINE f == call[d].feed
             k == call'[d]
  <2>1. answer[d] = Contract!Wait(f, Due(d), call[d].pc = "join")
    BY <1>3, ToldCases DEF answer, Awaiting
  <2>2. Contract!Waiting(d) /\ answer[d].feed = f /\ answer[d].again = (call[d].pc = "join")
    BY <2>1 DEF Contract!Waiting, Contract!Wait, answer
  <2>3. k = Wake(d, fetch[c].st, fetch[c].msg)
    BY <1>3 DEF Finally
  <2>4. /\ k.feed = f /\ k.cached = call[d].cached
        /\ fetch[c].st = "ok" => k.pc \in {"joinOk", "ownOk"} /\ k.msg = fetch[c].msg
        /\ fetch[c].st = "failed" /\ call[d].pc = "join" => k.pc = "joinErr"
        /\ fetch[c].st = "failed" /\ call[d].pc = "own" => k.pc = "ownErr"
    <3>1. call[d] \in CallState
      OBVIOUS
    <3> QED BY <1>1, <1>3, <2>3, <3>1 DEF Wake, CallState, Awaiting
  <2>0. answer'[d] = Told(k, Due(d)')
    BY DEF answer
  <2> HIDE DEF f, k
  <2>5. CASE fetch[c].st = "ok"
    <3>0. Told(k, Due(d)') = Contract!Answer(k.feed, "fresh", k.msg)
      BY <2>4, <2>5, ToldCases
    <3>1. answer'[d] = Contract!Answer(f, "fresh", fetch[c].msg)
      BY <2>0, <2>4, <2>5, <3>0
    <3>2. fetch[c].msg \in Time /\ Contract!Recent(fetch[c].msg, Timeout)
      BY <1>1, <2>5, CacheAssumption DEF FetchInv, FetchState, Time, Contract!Recent
    <3>3. Contract!Answer(f, "fresh", fetch[c].msg) \in Contract!Outcome(d)
      BY <2>2, <3>2, Outcomes
    <3> QED BY <2>2, <3>1, <3>3
  <2>6. CASE fetch[c].st = "failed" /\ call[d].pc = "join"
    <3>1. Due(d)' = now + Timeout
      BY <1>1, <2>4, <2>6, CacheAssumption DEF Due, Awaiting, Time, k
    <3>2. answer'[d] = Contract!Wait(f, now + Timeout, FALSE)
      BY <2>0, <2>4, <2>6, <3>1, ToldCases
    <3>3. Contract!Wait(f, now + Timeout, FALSE) \in Contract!Outcome(d)
      BY <2>2, <2>6, Outcomes
    <3> QED BY <2>2, <3>2, <3>3
  <2>7. CASE fetch[c].st = "failed" /\ call[d].pc = "own"
    <3>1. CASE call[d].cached = None
      <4>1. answer'[d] = Contract!Answer(f, "error", None)
        BY <2>0, <2>4, <2>7, <3>1, ToldCases
      <4> QED BY <2>2, <4>1, Outcomes
    <3>2. CASE call[d].cached # None
      <4>0. Told(k, Due(d)') = Contract!Answer(k.feed, "stale", k.cached)
        BY <2>4, <2>7, <3>2, ToldCases
      <4>1. answer'[d] = Contract!Answer(f, "stale", call[d].cached)
        BY <2>0, <2>4, <4>0
      <4>2. call[d].cached \in Time /\ call[d].cached <= now
        BY <3>2 DEF CapturedInv, CallState
      <4>3. Contract!Answer(f, "stale", call[d].cached) \in Contract!Outcome(d)
        BY <2>2, <4>2, Outcomes
      <4> QED BY <2>2, <4>1, <4>3
    <3> QED BY <3>1, <3>2
  <2> QED BY <1>1, <1>3, <2>2, <2>5, <2>6, <2>7 DEF Awaiting
<1> QED BY <1>1, <1>2, <1>3 DEF Contract!Settle, answer

\* The clock stops for a fetch that must be aborted, so it stops for every caller
\* that awaits one.
LEMMA TickTold ==
  ASSUME IInv, Tick
  PROVE  Contract!ContractTick
<1> USE DEF IInv, TypeOK
<1>1. \A d \in Call : call[d].pc # "joinErr"
  BY DEF Tick, Quiet, Woken
<1>2. ASSUME NEW d \in Call PROVE answer'[d] = answer[d]
  <2>1. CASE call[d].pc \in Awaiting
    BY <2>1 DEF Tick, answer, Due
  <2>2. CASE call[d].pc \notin Awaiting
    <3>1. call[d].pc \in {"idle"} \cup Answered \cup {"joinOk", "ownOk", "ownErr"}
      BY <1>1, <2>2 DEF CallState, Woken
    <3>2. Told(call[d], Due(d)') = Told(call[d], Due(d))
      BY <3>1, DueMatters
    <3> QED BY <3>2 DEF Tick, answer
  <2> QED BY <2>1, <2>2
<1>3. ASSUME NEW d \in Call, Contract!Waiting(d) PROVE now < answer[d].due
  <2>1. answer[d] = Told(call[d], Due(d)) /\ answer[d].st = "waiting"
    BY <1>3 DEF answer, Contract!Waiting
  <2>2. call[d].pc \in Awaiting
    <3>1. CASE call[d].pc \in {"idle"} \cup Answered
      BY <2>1, <3>1, AtRest
    <3>2. CASE call[d].pc \in Woken
      BY <3>2 DEF Tick, Quiet
    <3> QED BY <3>1, <3>2 DEF CallState
  <2>3. answer[d].due = Timeout + fetch[call[d].on].started
    BY <2>1, <2>2, ToldCases DEF Awaiting, Due, Contract!Wait
  <2>4. call[d].on \in Call /\ InFlight(call[d].on)
    BY <2>2 DEF AwaitInv, Live, InFlight, Tick, Quiet, FetchState
  <2>5. now < fetch[call[d].on].started + Timeout
    BY <2>4 DEF Tick
  <2> QED BY <2>3, <2>4, <2>5, CacheAssumption DEF FetchState, Time
<1>4. now + 1 \in Time /\ now' = now + 1
  BY CacheAssumption DEF Tick, Time
<1> QED BY <1>2, <1>3, <1>4 DEF Contract!ContractTick, Contract!Waiting, answer

-----------------------------------------------------------------------------
LEMMA ContractInitial == Init => Contract!ContractInit
<1> SUFFICES ASSUME Init PROVE Contract!ContractInit
  OBVIOUS
<1>1. ASSUME NEW c \in Call PROVE answer[c] = Contract!Answer(None, "idle", None)
  <2>1. answer[c] = Told(call[c], Due(c))
    BY DEF answer
  <2>2. call[c].pc = "idle" /\ call[c].feed = None
    BY DEF Init
  <2> QED BY <2>1, <2>2, ToldCases
<1> QED BY <1>1 DEF Init, Contract!ContractInit, Contract!Unasked, Contract!Answer, answer

LEMMA ContractStep ==
  IInv /\ CapturedInv /\ [Next]_vars => [Contract!ContractNext]_(Contract!contractVars)
<1> SUFFICES ASSUME IInv, CapturedInv, [Next]_vars
             PROVE  Contract!ContractNext \/ UNCHANGED Contract!contractVars
  OBVIOUS
<1> USE DEF Contract!ContractNext
<1>1. ASSUME NEW c \in Call, NEW f \in Feed, Hit(c, f) \/ Join(c, f) \/ Start(c, f)
      PROVE  Contract!ContractNext
  BY <1>1, HitTold, JoinTold, StartTold
<1>2. ASSUME NEW c \in Call, Finally(c) PROVE Contract!ContractNext
  BY <1>2, FinallyTold
<1>3. ASSUME NEW c \in Call, \/ Read(c) \/ Decode(c) \/ Fail(c)
                             \/ Return(c) \/ Retry(c) \/ GiveUp(c)
      PROVE  UNCHANGED Contract!contractVars
  BY <1>3, ProgressTold, LeaveTold, RetryTold
<1>4. CASE Tick
  BY <1>4, TickTold
<1>5. CASE UNCHANGED vars
  BY <1>5 DEF vars, Contract!contractVars, Due
<1> QED BY <1>1, <1>2, <1>3, <1>4, <1>5 DEF Next

\* The cache implements the contract of getFeed (rtCache.ts:81-114): a caller is
\* answered at once or waits for at most two fetches that the abort signal bounds,
\* and an answer that is not marked stale is bounded in age.
THEOREM CacheKeepsContract == Spec => KeepsContract
<1>1. Init => CapturedInv
  BY CapturedInit
<1>2. Spec => []CapturedInv
  BY <1>1, CapturedStep, Inductive, PTL DEF Spec
<1> QED BY ContractInitial, ContractStep, Inductive, <1>2, PTL
        DEF Spec, KeepsContract, Contract!ContractSpec
=============================================================================
