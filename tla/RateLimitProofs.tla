-------------------------- MODULE RateLimitProofs ---------------------------
(***************************************************************************)
(* The rate limiter, for any addresses, limits, window and clock.          *)
(*                                                                         *)
(* SlidingBound is not inductive, for it does not say which admissions the *)
(* open window holds.  WindowInv does: the latest k, of which k is the     *)
(* count of the entry cut off at the limit, came since it was opened;      *)
(* those before them did not; and all but Limit of those are a window old, *)
(* because the window before this one admitted no more.                    *)
(***************************************************************************)
EXTENDS RateLimit, TLAPS

\* How long ago the window of entry e was opened.
Elapsed(e) == now - (e.resetAt - Window)

\* What the entry of bucket b tells of its admissions.
OpenWindow(b, e) ==
    /\ e.resetAt <= now + Window
    /\ \A i \in Remembered(b) :
        /\ i <= e.count /\ i <= Limit(b) => age[b][i] <= Elapsed(e)
        /\ i >= e.count \/ i >= Limit(b) => age[b][i] = Window \/ age[b][i] >= Elapsed(e)
        /\ i >= e.count + Limit(b) \/ i >= 2 * Limit(b) => age[b][i] = Window

\* Without an entry, no more than the limit were admitted since one was opened.
NoWindow(b) == \A i \in Remembered(b) : i >= Limit(b) => age[b][i] = Window

Accounted(b) ==
    IF store[KeyOf(b)] = None THEN NoWindow(b) ELSE OpenWindow(b, store[KeyOf(b)])

WindowInv == \A b \in Bucket : Accounted(b)

\* The timer is never late, and what it left expires after its last turn.
TimerInv ==
    /\ now <= sweepAt /\ sweepAt <= now + Window
    /\ \A k \in Key : store[k] # None => store[k].resetAt > sweepAt - Window

\* No client was told to come back before its window is over.
Patient(b) ==
    retryAt[b] # None /\ store[KeyOf(b)] # None => retryAt[b] >= store[KeyOf(b)].resetAt

RetryInv == \A b \in Bucket : Patient(b)

IInv == TypeOK /\ WindowInv /\ TimerInv /\ RetryInv

-----------------------------------------------------------------------------

\* The two kinds of path of one address have different keys, as have two addresses.
LEMMA Keys ==
    /\ \A b \in Bucket : KeyOf(b) \in Key /\ Limit(b) \in Nat \ {0}
    /\ \A b, c \in Bucket : KeyOf(b) = KeyOf(c) => b = c
  <1>1. ASSUME NEW b \in Bucket PROVE KeyOf(b) \in Key /\ Limit(b) \in Nat \ {0}
    BY RateLimitAssumption DEF Bucket, KeyOf, Key, Limit
  <1>2. ASSUME NEW b \in Bucket, NEW c \in Bucket, KeyOf(b) = KeyOf(c) PROVE b = c
    <2>1. PICK x \in Address, m \in BOOLEAN : b = <<x, m>>
      BY DEF Bucket
    <2>2. PICK y \in Address, o \in BOOLEAN : c = <<y, o>>
      BY DEF Bucket
    <2>3. KeyOf(b)[1] = (IF m THEN "mcp:" ELSE "") /\ KeyOf(b)[2] = x
      BY <2>1 DEF KeyOf
    <2>4. KeyOf(c)[1] = (IF o THEN "mcp:" ELSE "") /\ KeyOf(c)[2] = y
      BY <2>2 DEF KeyOf
    <2>5. x = y /\ (IF m THEN "mcp:" ELSE "") = (IF o THEN "mcp:" ELSE "")
      BY <1>2, <2>3, <2>4
    <2>6. m <=> o
      BY <2>5
    <2>7. m = o
      BY <2>6
    <2> QED
      BY <2>1, <2>2, <2>5, <2>7
  <1> QED
    BY <1>1, <1>2

\* Rounding the delay up to whole seconds never shortens it.
LEMMA CeilBound ==
    ASSUME NEW n \in Nat, NEW d \in Nat \ {0}
    PROVE  Ceil(n, d) \in Nat /\ d * Ceil(n, d) >= n
  <1> DEFINE q == (n + d - 1) \div d
             r == (n + d - 1) % d
  <1>1. n + d - 1 \in Nat
    OBVIOUS
  <1>2. q \in Nat /\ r \in Int /\ r < d /\ n + d - 1 = d * q + r
    BY <1>1
  <1> HIDE DEF q, r
  <1>3. d * q \in Int /\ d * q >= n
    BY <1>2
  <1> QED
    BY <1>2, <1>3 DEF Ceil, q

LEMMA TypeStore == ASSUME TypeOK, NEW k \in Key, store[k] # None
                   PROVE  store[k] \in [count : 1..MaxCount, resetAt : 0..(MaxTime + Window)]
  BY DEF TypeOK

\* The entry a request leaves is the only one of a new window, or one more of one
\* that is open.
LEMMA EntryCases ==
    ASSUME TypeOK, NEW k \in Key
    PROVE  /\ Entry(k) \in [count : Nat \ {0}, resetAt : 0..(MaxTime + Window)]
           /\ Entry(k) # None
           /\ \/ /\ store[k] = None \/ now >= store[k].resetAt
                 /\ Entry(k).count = 1 /\ Entry(k).resetAt = now + Window
              \/ /\ store[k] # None /\ now < store[k].resetAt
                 /\ Entry(k).count = store[k].count + 1
                 /\ Entry(k).resetAt = store[k].resetAt
  <1>1. now \in 0..MaxTime /\ MaxTime \in Nat /\ Window \in Nat \ {0}
    BY RateLimitAssumption DEF TypeOK
  <1>2. CASE store[k] = None \/ now >= store[k].resetAt
    <2>1. Entry(k) = [count |-> 1, resetAt |-> now + Window]
      BY <1>2 DEF Entry
    <2>2. Entry(k) \in [count : Nat \ {0}, resetAt : 0..(MaxTime + Window)]
      BY <1>1, <2>1
    <2> QED
      BY <1>2, <2>1, <2>2, RateLimitAssumption
  <1>3. CASE store[k] # None /\ now < store[k].resetAt
    <2>1. Entry(k) = [store[k] EXCEPT !.count = @ + 1]
      BY <1>1, <1>3, TypeStore DEF Entry
    <2>2. store[k] \in [count : 1..MaxCount, resetAt : 0..(MaxTime + Window)]
      BY <1>3, TypeStore
    <2>3. /\ Entry(k) \in [count : Nat \ {0}, resetAt : 0..(MaxTime + Window)]
          /\ Entry(k).count = store[k].count + 1 /\ Entry(k).resetAt = store[k].resetAt
      BY <2>1, <2>2, RateLimitAssumption
    <2> QED
      BY <1>1, <1>3, <2>3, RateLimitAssumption
  <1> QED
    BY <1>1, <1>2, <1>3, TypeStore

LEMMA InitInv == Init => IInv
  <1> SUFFICES ASSUME Init PROVE IInv
    OBVIOUS
  <1> USE RateLimitAssumption, Keys DEF Init
  <1>1. TypeOK
    BY DEF TypeOK, Remembered
  <1>2. WindowInv
    BY DEF WindowInv, Accounted, NoWindow
  <1>3. TimerInv /\ RetryInv
    BY DEF TimerInv, RetryInv, Patient
  <1> QED
    BY <1>1, <1>2, <1>3 DEF IInv

-----------------------------------------------------------------------------
(* A request. *)

\* Whether it is admitted or not, the request is counted, and the timer is as it was.
LEMMA CountKeeps ==
    ASSUME IInv, NEW b \in Bucket, Count(b)
    PROVE  /\ now' = now /\ sweepAt' = sweepAt
           /\ now' \in 0..MaxTime /\ sweepAt' \in 0..(MaxTime + Window)
           /\ store' \in [Key -> [count : 1..MaxCount, resetAt : 0..(MaxTime + Window)] \cup {None}]
           /\ \A c \in Bucket : store'[KeyOf(c)] = IF c = b THEN Entry(KeyOf(b)) ELSE store[KeyOf(c)]
           /\ TimerInv'
  <1> DEFINE k == KeyOf(b)
  <1>1. /\ now' = now /\ sweepAt' = sweepAt /\ store' = [store EXCEPT ![k] = Entry(k)]
        /\ Entry(k).count <= MaxCount /\ k \in Key /\ TypeOK
    BY Keys DEF Count, IInv
  <1>2. /\ Entry(k) \in [count : Nat \ {0}, resetAt : 0..(MaxTime + Window)]
        /\ \/ Entry(k).resetAt = now + Window
           \/ store[k] # None /\ Entry(k).resetAt = store[k].resetAt
    BY <1>1, EntryCases
  <1>3. Entry(k) \in [count : 1..MaxCount, resetAt : 0..(MaxTime + Window)]
    BY <1>1, <1>2, RateLimitAssumption
  <1>4. \A j \in Key : store'[j] = IF j = k THEN Entry(k) ELSE store[j]
    BY <1>1 DEF TypeOK
  <1>5. TimerInv'
    <2>1. ASSUME NEW j \in Key, store'[j] # None PROVE store'[j].resetAt > sweepAt' - Window
      <3>1. now \in Int /\ sweepAt \in Int /\ Window \in Nat \ {0} /\ now <= sweepAt /\ sweepAt <= now + Window
        BY <1>1, RateLimitAssumption DEF IInv, TimerInv, TypeOK
      <3>2. CASE j = k
        <4>1. store[k] # None => store[k].resetAt > sweepAt - Window
          BY <1>1 DEF IInv, TimerInv
        <4>2. now + Window > sweepAt - Window
          BY <3>1
        <4>3. Entry(k).resetAt > sweepAt - Window
          BY <1>2, <4>1, <4>2
        <4> QED
          BY <1>1, <1>4, <3>2, <4>3
      <3>3. CASE j # k
        BY <1>1, <1>4, <2>1, <3>3 DEF IInv, TimerInv
      <3> QED
        BY <3>2, <3>3
    <2> QED
      BY <1>1, <2>1 DEF IInv, TimerInv
  <1>6. \A c \in Bucket : store'[KeyOf(c)] = IF c = b THEN Entry(KeyOf(b)) ELSE store[KeyOf(c)]
    BY <1>4, Keys
  <1>7. store' \in [Key -> [count : 1..MaxCount, resetAt : 0..(MaxTime + Window)] \cup {None}]
    <2>1. store \in [Key -> [count : 1..MaxCount, resetAt : 0..(MaxTime + Window)] \cup {None}]
      BY <1>1 DEF TypeOK
    <2> QED
      BY <1>1, <1>3, <2>1
  <1> QED
    BY <1>1, <1>5, <1>6, <1>7 DEF TypeOK

\* Other buckets see nothing of it.
LEMMA OthersKeep ==
    ASSUME IInv, NEW b \in Bucket, Count(b), NEW c \in Bucket, c # b,
           age'[c] = age[c], retryAt'[c] = retryAt[c]
    PROVE  Accounted(c)' /\ Patient(c)'
  <1>1. store'[KeyOf(c)] = store[KeyOf(c)] /\ now' = now
    BY CountKeeps
  <1>2. Accounted(c) /\ Patient(c)
    BY DEF IInv, WindowInv, RetryInv
  <1>3. NoWindow(c) => NoWindow(c)'
    BY DEF NoWindow, Remembered, Limit
  <1>4. OpenWindow(c, store[KeyOf(c)]) => OpenWindow(c, store[KeyOf(c)])'
    BY <1>1 DEF OpenWindow, Elapsed, Remembered, Limit, KeyOf
  <1>5. Accounted(c)'
    BY <1>1, <1>2, <1>3, <1>4 DEF Accounted, KeyOf
  <1>6. Patient(c)'
    BY <1>1, <1>2 DEF Patient, KeyOf
  <1> QED
    BY <1>5, <1>6

LEMMA AdmitStep == ASSUME IInv, NEW b \in Bucket, Admit(b) PROVE IInv'
  <1> DEFINE k == KeyOf(b)
             e == Entry(k)
             L == Limit(b)
  <1>1. /\ e.count <= L /\ Count(b) /\ TypeOK /\ k \in Key /\ L \in Nat \ {0}
        /\ age' = [age EXCEPT ![b] = [i \in Remembered(b) |-> IF i = 1 THEN 0 ELSE age[b][i - 1]]]
        /\ retryAt' = [retryAt EXCEPT ![b] = None]
    BY Keys DEF Admit, IInv
  <1>2. /\ now' = now /\ now \in Nat /\ Window \in Nat \ {0}
        /\ \A c \in Bucket : store'[KeyOf(c)] = IF c = b THEN e ELSE store[KeyOf(c)]
    BY <1>1, CountKeeps, RateLimitAssumption DEF TypeOK
  <1>3. /\ e # None /\ e.count \in Nat \ {0} /\ e.resetAt \in Nat
        /\ \/ /\ store[k] = None \/ now >= store[k].resetAt
              /\ e.count = 1 /\ e.resetAt = now + Window
           \/ /\ store[k] # None /\ now < store[k].resetAt
              /\ e.count = store[k].count + 1 /\ e.resetAt = store[k].resetAt
    BY <1>1, EntryCases, RateLimitAssumption
  <1>4. /\ \A i \in Remembered(b) : age'[b][i] = IF i = 1 THEN 0 ELSE age[b][i - 1]
        /\ \A c \in Bucket : c # b => age'[c] = age[c]
        /\ age' = [c \in Bucket |-> age'[c]]
        /\ age'[b] = [i \in Remembered(b) |-> IF i = 1 THEN 0 ELSE age[b][i - 1]]
    BY <1>1 DEF TypeOK
  <1>5. /\ retryAt'[b] = None /\ \A c \in Bucket : c # b => retryAt'[c] = retryAt[c]
        /\ retryAt' \in [Bucket -> Nat \cup {None}]
    BY <1>1 DEF TypeOK
  <1>6. /\ \A i \in Remembered(b) : i # 1 => i - 1 \in Remembered(b)
        /\ \A i \in Remembered(b) : i \in Nat \ {0} /\ i <= 2 * L /\ age[b][i] \in 0..Window
    BY <1>1 DEF Remembered, TypeOK
  <1>7. TypeOK'
    <2>1. age'[b] \in [Remembered(b) -> 0..Window]
      BY <1>2, <1>4, <1>6
    <2>2. \A c \in Bucket : age'[c] \in [Remembered(c) -> 0..Window]
      BY <1>1, <1>4, <2>1 DEF TypeOK
    <2> QED
      BY <1>1, <1>4, <1>5, <2>2, CountKeeps DEF TypeOK, Remembered, Limit
  <1>8. Accounted(b)'
    <2>1. CASE (store[k] = None \/ now >= store[k].resetAt) /\ e.count = 1 /\ e.resetAt = now + Window
      <3>1. ASSUME NEW i \in Remembered(b), i >= L PROVE age[b][i] = Window
        <4>1. CASE store[k] = None
          BY <3>1, <4>1 DEF IInv, WindowInv, Accounted, NoWindow
        <4>2. CASE store[k] # None /\ now >= store[k].resetAt
          <5>1. age[b][i] = Window \/ age[b][i] >= now - (store[k].resetAt - Window)
            BY <3>1, <4>2 DEF IInv, WindowInv, Accounted, OpenWindow, Elapsed
          <5>2. store[k].resetAt \in Nat
            BY <1>1, <4>2, TypeStore, RateLimitAssumption
          <5> QED
            BY <1>2, <1>6, <4>2, <5>1, <5>2
        <4> QED
          BY <2>1, <4>1, <4>2
      <3>2. now' - (e.resetAt - Window) = 0
        BY <1>2, <2>1
      <3>3. e.resetAt <= now' + Window
        BY <1>2, <2>1
      <3>4. ASSUME NEW i \in Remembered(b)
            PROVE  /\ i <= e.count /\ i <= L => age'[b][i] <= 0
                   /\ age'[b][i] >= 0
                   /\ i >= e.count + L \/ i >= 2 * L => age'[b][i] = Window
        <4>1. CASE i = 1
          BY <1>1, <1>4, <2>1, <4>1
        <4>2. CASE i # 1
          <5>1. i - 1 \in Remembered(b) /\ age'[b][i] = age[b][i - 1] /\ i \in Nat /\ i > 1
            BY <1>4, <1>6, <4>2
          <5>2. i >= 1 + L \/ i >= 2 * L => i - 1 >= L
            BY <1>1, <5>1
          <5>3. age[b][i - 1] >= 0
            BY <1>6, <5>1
          <5> QED
            BY <1>1, <2>1, <3>1, <5>1, <5>2, <5>3
        <4> QED
          BY <4>1, <4>2
      <3> QED
        BY <1>2, <1>3, <2>1, <3>2, <3>3, <3>4 DEF Accounted, OpenWindow, Elapsed, Remembered, Limit, KeyOf
    <2>2. CASE /\ store[k] # None /\ now < store[k].resetAt
               /\ e.count = store[k].count + 1 /\ e.resetAt = store[k].resetAt
      <3> DEFINE n == store[k].count
                 t == now - (store[k].resetAt - Window)
      <3>1. /\ store[k].resetAt <= now + Window /\ n \in Nat \ {0} /\ store[k].resetAt \in Nat
            /\ \A i \in Remembered(b) :
                  /\ i <= n /\ i <= L => age[b][i] <= t
                  /\ i >= n \/ i >= L => age[b][i] = Window \/ age[b][i] >= t
                  /\ i >= n + L \/ i >= 2 * L => age[b][i] = Window
        BY <1>1, <2>2, TypeStore, RateLimitAssumption DEF IInv, WindowInv, Accounted, OpenWindow, Elapsed
      <3>2. now' - (e.resetAt - Window) = t /\ t \in Int /\ t >= 0 /\ e.resetAt <= now' + Window
        BY <1>2, <2>2, <3>1
      <3>3. e.count = n + 1 /\ n + 1 <= L
        BY <1>1, <2>2
      <3> HIDE DEF n, t
      <3>4. ASSUME NEW i \in Remembered(b)
            PROVE  /\ i <= n + 1 /\ i <= L => age'[b][i] <= t
                   /\ i >= n + 1 \/ i >= L => age'[b][i] = Window \/ age'[b][i] >= t
                   /\ i >= n + 1 + L \/ i >= 2 * L => age'[b][i] = Window
        <4>1. CASE i = 1
          BY <1>1, <1>4, <3>1, <3>2, <3>3, <4>1
        <4>2. CASE i # 1
          <5>1. i - 1 \in Remembered(b) /\ age'[b][i] = age[b][i - 1] /\ i \in Nat /\ i > 1
            BY <1>4, <1>6, <4>2
          <5>2. /\ i <= n + 1 => i - 1 <= n
                /\ i >= n + 1 \/ i >= L => i - 1 >= n
                /\ i >= n + 1 + L \/ i >= 2 * L => i - 1 >= n + L
            BY <1>1, <3>1, <3>3, <5>1
          <5>3. i <= L => i - 1 <= L
            BY <1>1, <5>1
          <5> QED
            BY <3>1, <5>1, <5>2, <5>3
        <4> QED
          BY <4>1, <4>2
      <3> QED
        BY <1>2, <1>3, <3>2, <3>3, <3>4 DEF Accounted, OpenWindow, Elapsed, Remembered, Limit, KeyOf
    <2> QED
      BY <1>3, <2>1, <2>2
  <1>9. Patient(b)'
    BY <1>5 DEF Patient
  <1>10. \A c \in Bucket : c # b => Accounted(c)' /\ Patient(c)'
    BY <1>1, <1>4, <1>5, OthersKeep
  <1>11. WindowInv' /\ RetryInv'
    BY <1>8, <1>9, <1>10 DEF WindowInv, RetryInv, Bucket
  <1> QED
    BY <1>1, <1>7, <1>11, CountKeeps DEF IInv

LEMMA DenyStep == ASSUME IInv, NEW b \in Bucket, Deny(b) PROVE IInv'
  <1> DEFINE k == KeyOf(b)
             e == Entry(k)
             L == Limit(b)
  <1>1. /\ e.count > L /\ Count(b) /\ TypeOK /\ k \in Key /\ L \in Nat \ {0} /\ age' = age
        /\ retryAt' = [retryAt EXCEPT ![b] = now + Second * RetryAfter(e)]
    BY Keys DEF Deny, IInv
  <1>2. /\ now' = now /\ now \in Nat /\ Window \in Nat \ {0} /\ Second \in Nat \ {0}
        /\ \A c \in Bucket : store'[KeyOf(c)] = IF c = b THEN e ELSE store[KeyOf(c)]
    BY <1>1, CountKeeps, RateLimitAssumption DEF TypeOK
  <1>3. /\ e # None /\ e.count \in Nat \ {0} /\ e.resetAt \in Nat
        /\ store[k] # None /\ now < store[k].resetAt
        /\ e.count = store[k].count + 1 /\ e.resetAt = store[k].resetAt
    BY <1>1, EntryCases, RateLimitAssumption
  <1>4. RetryAfter(e) \in Nat /\ now + Second * RetryAfter(e) >= e.resetAt
    <2>1. e.resetAt - now \in Nat
      BY <1>2, <1>3
    <2>2. /\ Ceil(e.resetAt - now, Second) \in Nat
          /\ Second * Ceil(e.resetAt - now, Second) >= e.resetAt - now
      BY <1>2, <2>1, CeilBound
    <2> DEFINE q == Ceil(e.resetAt - now, Second)
    <2>3. RetryAfter(e) = q
      BY DEF RetryAfter
    <2> HIDE DEF q
    <2>4. Second * q \in Nat
      BY <1>2, <2>2 DEF q
    <2> QED
      BY <1>2, <1>3, <2>2, <2>3, <2>4 DEF q
  <1>5. /\ retryAt'[b] = now + Second * RetryAfter(e) /\ retryAt'[b] \in Nat
        /\ \A c \in Bucket : c # b => retryAt'[c] = retryAt[c]
        /\ retryAt' \in [Bucket -> Nat \cup {None}]
    <2>1. now + Second * RetryAfter(e) \in Nat
      BY <1>2, <1>4
    <2> QED
      BY <1>1, <2>1 DEF TypeOK
  <1>6. TypeOK'
    BY <1>1, <1>5, CountKeeps DEF TypeOK, Remembered, Limit
  <1>7. Accounted(b)'
    <2> DEFINE n == store[k].count
    <2>1. OpenWindow(b, store[k]) /\ n \in Nat /\ n >= L
      BY <1>1, <1>3, TypeStore, RateLimitAssumption DEF IInv, WindowInv, Accounted
    <2>2. /\ e.resetAt <= now' + Window
          /\ now' - (e.resetAt - Window) = now - (store[k].resetAt - Window)
      BY <1>2, <1>3, <2>1 DEF OpenWindow
    <2>3. \A i \in Remembered(b) : i \in Nat /\ i <= 2 * L
      BY <1>1 DEF Remembered
    <2> HIDE DEF n
    <2>4. ASSUME NEW i \in Remembered(b)
          PROVE  /\ i <= n + 1 /\ i <= L => i <= n
                 /\ i >= n + 1 => i >= n
                 /\ i >= n + 1 + L => i >= n + L
      BY <1>1, <2>1, <2>3
    <2> QED
      BY <1>1, <1>2, <1>3, <2>1, <2>2, <2>4
         DEF Accounted, OpenWindow, Elapsed, Remembered, Limit, KeyOf, n
  <1>8. Patient(b)'
    BY <1>2, <1>4, <1>5 DEF Patient, KeyOf
  <1>9. \A c \in Bucket : c # b => Accounted(c)' /\ Patient(c)'
    BY <1>1, <1>5, OthersKeep
  <1>10. WindowInv' /\ RetryInv'
    BY <1>7, <1>8, <1>9 DEF WindowInv, RetryInv, Bucket
  <1> QED
    BY <1>1, <1>6, <1>10, CountKeeps DEF IInv

-----------------------------------------------------------------------------
(* The timer and the clock. *)

\* An entry that is dropped was opened a window ago, so what it told of its
\* admissions is known without it.
LEMMA SweepStep == ASSUME IInv, Sweep PROVE IInv'
  <1>1. /\ now = sweepAt /\ sweepAt' = now + Window
        /\ now' = now /\ age' = age /\ retryAt' = retryAt
        /\ store' = [k \in Key |->
                        IF store[k] # None /\ now >= store[k].resetAt THEN None ELSE store[k]]
        /\ TypeOK
    BY DEF Sweep, IInv
  <1>2. now \in 0..MaxTime /\ MaxTime \in Nat /\ Window \in Nat \ {0}
    BY <1>1, RateLimitAssumption DEF TypeOK
  <1>3. \A k \in Key : store'[k] = IF store[k] # None /\ now >= store[k].resetAt
                                   THEN None ELSE store[k]
    BY <1>1
  <1>4. TypeOK'
    BY <1>1, <1>2 DEF TypeOK
  <1>5. TimerInv'
    <2>1. ASSUME NEW k \in Key, store'[k] # None PROVE store'[k].resetAt > sweepAt' - Window
      <3>1. store'[k] = store[k] /\ now < store[k].resetAt
        <4>1. store[k] # None => store[k].resetAt \in Nat
          BY <1>1, TypeStore, RateLimitAssumption
        <4> QED
          BY <1>2, <1>3, <2>1, <4>1
      <3>2. sweepAt' - Window = now
        BY <1>1, <1>2
      <3> QED
        BY <3>1, <3>2, <1>1, TypeStore, RateLimitAssumption, <2>1, <1>2
    <2> QED
      BY <1>1, <1>2, <2>1 DEF TimerInv
  <1>6. ASSUME NEW b \in Bucket PROVE Accounted(b)' /\ Patient(b)'
    <2> DEFINE k == KeyOf(b)
    <2>1. k \in Key /\ Accounted(b) /\ Patient(b) /\ Limit(b) \in Nat \ {0}
      BY Keys DEF IInv, WindowInv, RetryInv
    <2>2. CASE store[k] # None /\ now >= store[k].resetAt
      <3>1. store'[k] = None
        BY <1>3, <2>1, <2>2
      <3>2. OpenWindow(b, store[k]) /\ store[k].resetAt \in Nat
        BY <1>1, <2>1, <2>2, TypeStore, RateLimitAssumption DEF Accounted
      <3>3. ASSUME NEW i \in Remembered(b), i >= Limit(b) PROVE age[b][i] = Window
        <4>1. age[b][i] = Window \/ age[b][i] >= now - (store[k].resetAt - Window)
          BY <3>2, <3>3 DEF OpenWindow, Elapsed
        <4>2. age[b][i] \in 0..Window
          BY <1>1 DEF TypeOK
        <4> QED
          BY <1>2, <2>2, <3>2, <4>1, <4>2
      <3> QED
        BY <1>1, <3>1, <3>3 DEF Accounted, NoWindow, Patient, Remembered, Limit, KeyOf
    <2>3. CASE ~(store[k] # None /\ now >= store[k].resetAt)
      <3>1. store'[k] = store[k]
        BY <1>3, <2>1, <2>3
      <3> QED
        BY <1>1, <2>1, <3>1
           DEF Accounted, NoWindow, OpenWindow, Elapsed, Patient, Remembered, Limit, KeyOf
    <2> QED
      BY <2>2, <2>3
  <1>7. WindowInv' /\ RetryInv'
    BY <1>6 DEF WindowInv, RetryInv, Bucket
  <1> QED
    BY <1>4, <1>5, <1>7 DEF IInv

LEMMA TickStep == ASSUME IInv, Tick PROVE IInv'
  <1>1. /\ now < MaxTime /\ now < sweepAt /\ now' = now + 1
        /\ store' = store /\ sweepAt' = sweepAt /\ retryAt' = retryAt
        /\ age' = [b \in Bucket |-> [i \in Remembered(b) |->
                      IF age[b][i] = Window THEN Window ELSE age[b][i] + 1]]
        /\ TypeOK
    BY DEF Tick, IInv
  <1>2. /\ now \in 0..MaxTime /\ MaxTime \in Nat /\ Window \in Nat \ {0}
        /\ sweepAt \in Nat
        /\ \A b \in Bucket : \A i \in Remembered(b) : age[b][i] \in 0..Window
    BY <1>1, RateLimitAssumption DEF TypeOK
  <1>3. \A b \in Bucket : \A i \in Remembered(b) :
            age'[b][i] = IF age[b][i] = Window THEN Window ELSE age[b][i] + 1
    BY <1>1
  <1>4. TypeOK'
    <2>1. age' = [b \in Bucket |-> age'[b]]
      BY <1>1
    <2>2. \A b \in Bucket : age'[b] \in [Remembered(b) -> 0..Window]
      BY <1>1, <1>2
    <2>3. now' \in 0..MaxTime
      BY <1>1, <1>2
    <2> QED
      BY <1>1, <2>1, <2>2, <2>3 DEF TypeOK, Remembered, Limit
  <1>5. TimerInv'
    BY <1>1, <1>2 DEF IInv, TimerInv
  <1>6. ASSUME NEW b \in Bucket PROVE Accounted(b)' /\ Patient(b)'
    <2> DEFINE k == KeyOf(b)
    <2>1. k \in Key /\ Accounted(b) /\ Patient(b)
      BY Keys DEF IInv, WindowInv, RetryInv
    <2>2. Patient(b)'
      BY <1>1, <2>1 DEF Patient, KeyOf
    <2>3. CASE store[k] = None
      BY <1>1, <1>3, <2>1, <2>2, <2>3 DEF Accounted, NoWindow, Remembered, Limit, KeyOf
    <2>4. CASE store[k] # None
      <3> DEFINE n == store[k].count
                 r == store[k].resetAt
                 L == Limit(b)
                 t == now - (r - Window)
      <3>1. /\ n \in Nat /\ r \in Nat /\ r <= now + Window
            /\ \A i \in Remembered(b) :
                  /\ i <= n /\ i <= L => age[b][i] <= t
                  /\ i >= n \/ i >= L => age[b][i] = Window \/ age[b][i] >= t
                  /\ i >= n + L \/ i >= 2 * L => age[b][i] = Window
        BY <1>1, <2>1, <2>4, TypeStore, RateLimitAssumption DEF Accounted, OpenWindow, Elapsed
      <3>2. now' - (r - Window) = t + 1 /\ t \in Int /\ r <= now' + Window
        BY <1>1, <1>2, <3>1
      <3> HIDE DEF n, r, L, t
      <3>3. ASSUME NEW i \in Remembered(b)
            PROVE  /\ i <= n /\ i <= L => age'[b][i] <= t + 1
                   /\ i >= n \/ i >= L => age'[b][i] = Window \/ age'[b][i] >= t + 1
                   /\ i >= n + L \/ i >= 2 * L => age'[b][i] = Window
        <4>1. age[b][i] \in 0..Window /\ age'[b][i] = IF age[b][i] = Window THEN Window ELSE age[b][i] + 1
          BY <1>2, <1>3
        <4>2. /\ i <= n /\ i <= L => age[b][i] <= t
              /\ i >= n \/ i >= L => age[b][i] = Window \/ age[b][i] >= t
              /\ i >= n + L \/ i >= 2 * L => age[b][i] = Window
          BY <3>1
        <4>3. age[b][i] <= t => age'[b][i] <= t + 1
          BY <1>2, <3>2, <4>1
        <4>4. age[b][i] = Window \/ age[b][i] >= t => age'[b][i] = Window \/ age'[b][i] >= t + 1
          BY <1>2, <3>2, <4>1
        <4> QED
          BY <4>1, <4>2, <4>3, <4>4
      <3>4. OpenWindow(b, store[k])'
        BY <1>1, <3>2, <3>3 DEF OpenWindow, Elapsed, Remembered, Limit, KeyOf, n, r, L
      <3> QED
        BY <1>1, <2>2, <2>4, <3>4 DEF Accounted, KeyOf
    <2> QED
      BY <2>3, <2>4
  <1>7. WindowInv' /\ RetryInv'
    BY <1>6 DEF WindowInv, RetryInv, Bucket
  <1> QED
    BY <1>4, <1>5, <1>7 DEF IInv

LEMMA StillStep == ASSUME IInv, UNCHANGED vars PROVE IInv'
  BY DEF IInv, TypeOK, WindowInv, Accounted, NoWindow, OpenWindow, Elapsed, TimerInv, RetryInv,
         Patient, Remembered, Limit, KeyOf, vars

-----------------------------------------------------------------------------

LEMMA NextStep == IInv /\ [Next]_vars => IInv'
  <1> SUFFICES ASSUME IInv, [Next]_vars PROVE IInv'
    OBVIOUS
  <1>1. ASSUME NEW b \in Bucket, Admit(b) PROVE IInv'
    BY <1>1, AdmitStep
  <1>2. ASSUME NEW b \in Bucket, Deny(b) PROVE IInv'
    BY <1>2, DenyStep
  <1>3. CASE Sweep
    BY <1>3, SweepStep
  <1>4. CASE Tick
    BY <1>4, TickStep
  <1>5. CASE Health \/ UNCHANGED vars
    BY <1>5, StillStep DEF Health
  <1> QED
    BY <1>1, <1>2, <1>3, <1>4, <1>5 DEF Next

\* What the entries, the timer and the 429s say of the past holds in every state
\* (rateLimit.ts:29-77).
THEOREM Inductive == Spec => []IInv
  BY InitInv, NextStep, PTL DEF Spec

\* The variables keep their types (rateLimit.ts:24).
THEOREM TypeCorrect == Spec => []TypeOK
  <1>1. IInv => TypeOK
    BY DEF IInv
  <1> QED
    BY Inductive, <1>1, PTL

\* Any period as long as a window admits fewer requests than twice the limit, for any
\* limits and window, and wherever sweeps fall (rateLimit.ts:50-58).
THEOREM BurstsAreBounded == Spec => []SlidingBound
  <1>1. IInv => SlidingBound
    <2> SUFFICES ASSUME IInv, NEW b \in Bucket PROVE age[b][2 * Limit(b)] = Window
      BY DEF SlidingBound
    <2>1. Limit(b) \in Nat \ {0} /\ 2 * Limit(b) \in Remembered(b)
      BY Keys DEF Remembered
    <2>2. 2 * Limit(b) >= Limit(b)
      BY <2>1
    <2> QED
      BY <2>1, <2>2 DEF IInv, WindowInv, Accounted, NoWindow, OpenWindow
  <1> QED
    BY Inductive, <1>1, PTL

\* Expired entries are gone within a period of the timer (rateLimit.ts:25-30).
THEOREM ExpiredAreSwept == Spec => []ExpiredEntriesGo
  <1>1. IInv => ExpiredEntriesGo
    <2> SUFFICES ASSUME IInv, NEW k \in Key, store[k] # None
                 PROVE  now < store[k].resetAt + Window
      BY DEF ExpiredEntriesGo
    <2>1. /\ now \in Nat /\ sweepAt \in Nat /\ Window \in Nat
          /\ store[k].resetAt \in Nat
      BY TypeStore, RateLimitAssumption DEF IInv, TypeOK
    <2> QED
      BY <2>1 DEF IInv, TimerInv
  <1> QED
    BY Inductive, <1>1, PTL

\* A request is refused only where as many as the limit allows were admitted to its own
\* bucket within a window (rateLimit.ts:18-21, 60-70).
THEOREM RefusedForCause == Spec => NoSpuriousDenial
  <1>1. ASSUME IInv, NEW b \in Bucket, Deny(b) PROVE age[b][Limit(b)] < Window
    <2> DEFINE k == KeyOf(b)
    <2>1. /\ TypeOK /\ k \in Key /\ Limit(b) \in Nat \ {0} /\ Entry(k).count > Limit(b)
      BY <1>1, Keys DEF IInv, Deny
    <2>2. store[k] # None /\ now < store[k].resetAt /\ Entry(k).count = store[k].count + 1
      BY <2>1, EntryCases
    <2>3. /\ store[k].count \in Nat /\ store[k].resetAt \in Nat
          /\ now \in Nat /\ Window \in Nat
      BY <2>1, <2>2, TypeStore, RateLimitAssumption DEF TypeOK
    <2>4. Limit(b) \in Remembered(b) /\ Limit(b) <= store[k].count
      BY <2>1, <2>2, <2>3 DEF Remembered
    <2>5. OpenWindow(b, store[k])
      BY <1>1, <2>2 DEF IInv, WindowInv, Accounted
    <2>6. age[b][Limit(b)] <= now - (store[k].resetAt - Window)
      BY <2>1, <2>4, <2>5 DEF OpenWindow, Elapsed
    <2>7. age[b][Limit(b)] \in 0..Window
      BY <2>1, <2>4 DEF TypeOK
    <2> QED
      BY <2>2, <2>3, <2>6, <2>7
  <1>2. IInv /\ [Next]_vars => [\A b \in Bucket : Deny(b) => age[b][Limit(b)] < Window]_vars
    BY <1>1
  <1> QED
    BY Inductive, <1>2, PTL DEF Spec, NoSpuriousDenial

\* A client that waits as long as Retry-After says is not refused again, unless it was
\* admitted meanwhile (rateLimit.ts:64-69).
THEOREM RetryAfterIsHonoured == Spec => RetryHonoured
  <1>1. ASSUME IInv, NEW b \in Bucket, Deny(b) PROVE retryAt[b] = None \/ now < retryAt[b]
    <2> DEFINE k == KeyOf(b)
    <2>1. TypeOK /\ k \in Key /\ Limit(b) \in Nat \ {0} /\ Entry(k).count > Limit(b)
      BY <1>1, Keys DEF IInv, Deny
    <2>2. store[k] # None /\ now < store[k].resetAt
      BY <2>1, EntryCases
    <2>3. /\ store[k].resetAt \in Nat /\ now \in Nat
          /\ retryAt[b] # None => retryAt[b] \in Nat /\ retryAt[b] >= store[k].resetAt
      BY <1>1, <2>1, <2>2, TypeStore, RateLimitAssumption DEF TypeOK, IInv, RetryInv, Patient
    <2> QED
      BY <2>2, <2>3
  <1>2. IInv /\ [Next]_vars =>
            [\A b \in Bucket : Deny(b) => retryAt[b] = None \/ now < retryAt[b]]_vars
    BY <1>1
  <1> QED
    BY Inductive, <1>2, PTL DEF Spec, RetryHonoured
=============================================================================
