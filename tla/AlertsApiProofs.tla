-------------------------- MODULE AlertsApiProofs --------------------------
(***************************************************************************)
(* GET /alerts, for any clients, queries, publications, TTL and timeout.   *)
(*                                                                         *)
(* Every step of the API is a step of the cache or leaves it alone, so the *)
(* invariant of RtCacheProofs holds here too.  What the handlers add is    *)
(* what a request knows of the client's copy (RequestInv), how old its     *)
(* snapshot may be (FreshInv), and, until a fetch fails, that what a       *)
(* client is handed is what the cache holds, at least as new as its copy   *)
(* (ForwardInv).                                                           *)
(***************************************************************************)
EXTENDS AlertsApi, RtCacheProofs, SequenceTheorems, WellFoundedInduction

\* A request under way is for a query that clients send, over the alerts feed; a
\* probe carries the ETag of the client's copy.
RequestInv ==
    \A c \in Call :
        /\ call[c].feed \in {AlertsFeed, None}
        /\ step[c] # "idle" => query[c] \in Query /\ call[c].pc # "idle"
        /\ step[c] = "probe" => held[c] # None /\ ifNoneMatch[c] = held[c].tag
        /\ call[c].pc \in {"fresh", "stale"} => call[c].msg \in Time

\* What a handler has in hand as fresh is: time does not pass before it answers.
FreshInv ==
    \A c \in Call : step[c] # "idle" /\ call[c].pc = "fresh" =>
        now - call[c].msg < Ttl[AlertsFeed] + Timeout

\* The publication the cache holds.
Latest == IF cache[AlertsFeed] = None THEN 0 ELSE Stamp(cache[AlertsFeed].msg)

\* What c awaits will not fail; what its fetch stored and what it was handed is what
\* the cache holds; its copy is no newer than that.
ForwardOf(c) ==
    /\ call[c].pc \notin {"joinErr", "ownErr"}
    /\ step[c] # "idle" => call[c].pc \notin {"stale", "error"}
    /\ fetch[c].st = "ok" =>
          cache[AlertsFeed] # None /\ cache[AlertsFeed].msg = fetch[c].msg
    /\ call[c].pc \in {"joinOk", "ownOk"} \/ (step[c] # "idle" /\ call[c].pc = "fresh") =>
          cache[AlertsFeed] # None /\ cache[AlertsFeed].msg = call[c].msg
    /\ held[c] # None => held[c].stamp <= Latest

\* It is so until a fetch fails.
ForwardInv == AlertsFeed \notin failed => \A c \in Call : ForwardOf(c)

ApiInv == IInv /\ ApiTypeOK /\ RequestInv /\ FreshInv /\ ForwardInv
-----------------------------------------------------------------------------
(* What the ETag tells. *)

\* Any set of naturals that is not empty has a least element.
LEMMA LeastNatural ==
  ASSUME NEW S \in SUBSET Nat, S # {}
  PROVE  \E n \in S : \A m \in S : n <= m
<1> DEFINE Below == {ss \in Nat \X Nat : ss[1] < ss[2]}
<1>1. IsWellFoundedOn(Below, Nat)
  BY NatLessThanWellFounded DEF OpToRel
<1>2. PICK n \in S : \A m \in S : <<m, n>> \notin Below
  <2> HIDE DEF Below
  <2> QED BY <1>1, WFMin
<1>3. ASSUME NEW m \in S PROVE n <= m
  <2>1. ~(m < n)
    BY <1>2
  <2> QED BY <2>1
<1> QED BY <1>3

\* Every snapshot has a publication: the latest of those before it.
LEMMA StampIs ==
  ASSUME NEW m \in Nat
  PROVE  /\ Stamp(m) \in Published
         /\ Stamp(m) <= m
         /\ \A o \in Published : o <= m => o <= Stamp(m)
<1> USE AlertsApiAssumption
<1> DEFINE Bounds == {n \in Nat : \A o \in Published : o <= m => o <= n}
<1>1. PICK n \in Bounds : \A b \in Bounds : n <= b
  <2>1. m \in Bounds /\ Bounds \in SUBSET Nat
    OBVIOUS
  <2> HIDE DEF Bounds
  <2> QED BY <2>1, LeastNatural
<1>2. \E p \in Published : p <= m /\ n <= p
  <2>1. CASE n = 0
    BY <2>1
  <2>2. CASE n # 0
    <3>1. n - 1 \in Nat /\ n - 1 \notin Bounds
      BY <1>1, <2>2
    <3>2. PICK o \in Published : o <= m /\ ~(o <= n - 1)
      BY <3>1
    <3> QED BY <3>2
  <2> QED BY <2>1, <2>2
<1>3. \E p \in Published : p <= m /\ \A o \in Published : o <= m => o <= p
  BY <1>1, <1>2
<1> QED BY <1>3 DEF Stamp

LEMMA StampMonotone ==
  ASSUME NEW m \in Nat, NEW n \in Nat, m <= n
  PROVE  Stamp(m) <= Stamp(n)
<1>1. Stamp(m) \in Published /\ Stamp(m) \in Nat /\ Stamp(m) <= m
  BY StampIs, AlertsApiAssumption
<1>2. Stamp(m) <= n
  BY <1>1
<1> QED BY <1>1, <1>2, StampIs

Token == Word \cup {Comma, Bar}

\* What \o does, in one place.
LEMMA Concat ==
  ASSUME NEW T, NEW a \in Seq(T), NEW b \in Seq(T)
  PROVE  /\ a \o b \in Seq(T)
         /\ Len(a) \in Nat /\ Len(b) \in Nat /\ Len(a \o b) = Len(a) + Len(b)
         /\ \A i \in 1..Len(a) : (a \o b)[i] = a[i]
         /\ \A i \in 1..Len(b) : (a \o b)[Len(a) + i] = b[i]
OBVIOUS

\* Induction along a list.
LEMMA UpTo ==
  ASSUME NEW N \in Nat, NEW S, 1 \in S, \A n \in 2..N : n - 1 \in S => n \in S
  PROVE  \A n \in 1..N : n \in S
<1> DEFINE Off == {n \in Nat : n \in 1..N /\ n \notin S}
<1> SUFFICES ASSUME Off # {} PROVE FALSE
  OBVIOUS
<1>1. Off \in SUBSET Nat
  OBVIOUS
<1>2. PICK n \in Off : \A m \in Off : n <= m
  <2> HIDE DEF Off
  <2> QED BY <1>1, LeastNatural
<1>3. n \in 2..N /\ n - 1 \in 1..N /\ n \notin S
  BY <1>2
<1>4. n - 1 \notin Off
  <2>1. n \in Nat /\ n - 1 \in Nat /\ ~(n <= n - 1)
    BY <1>3
  <2> HIDE DEF Off
  <2> QED BY <1>2, <2>1
<1> QED BY <1>3, <1>4

\* The parts of a key over T, and the key they make.
Parts(T) == [routes : Seq(T), stop : Seq(T), direction : Seq(T)]

Spelled(part, bar) == part.routes \o <<bar>> \o part.stop \o <<bar>> \o part.direction

\* The bars of a key end its parts, if the parts of one of two equal keys have none.
LEMMA KeyParts ==
  ASSUME NEW T, NEW bar \in T, NEW one \in Parts(T), NEW other \in Parts(T),
         Spelled(one, bar) = Spelled(other, bar),
         bar \notin ToSet(one.routes) \cup ToSet(one.stop) \cup ToSet(one.direction)
  PROVE  one = other
<1> DEFINE a == one.routes
           b == one.stop
           c == one.direction
           x == other.routes
           y == other.stop
           z == other.direction
<1>a. /\ a \in Seq(T) /\ b \in Seq(T) /\ c \in Seq(T)
      /\ x \in Seq(T) /\ y \in Seq(T) /\ z \in Seq(T)
      /\ a \o <<bar>> \o b \o <<bar>> \o c = x \o <<bar>> \o y \o <<bar>> \o z
      /\ bar \notin ToSet(a) \cup ToSet(b) \cup ToSet(c)
  BY DEF Parts, Spelled
<1>b. one = [routes |-> a, stop |-> b, direction |-> c] /\
      other = [routes |-> x, stop |-> y, direction |-> z]
  BY DEF Parts
<1> HIDE DEF a, b, c, x, y, z
<1> USE <1>a
<1> DEFINE k == a \o <<bar>> \o b \o <<bar>> \o c
           l == x \o <<bar>> \o y \o <<bar>> \o z
           m == Len(a) + 1
           n == m + Len(b) + 1
           o == Len(x) + 1
           p == o + Len(y) + 1
<1>1. /\ k \in Seq(T) /\ Len(k) = n + Len(c) /\ k[m] = bar /\ k[n] = bar
      /\ \A i \in 1..Len(a) : k[i] = a[i]
      /\ \A i \in 1..Len(b) : k[m + i] = b[i]
      /\ \A i \in 1..Len(c) : k[n + i] = c[i]
  OBVIOUS
<1>2. /\ Len(l) = p + Len(z) /\ l[o] = bar /\ l[p] = bar
      /\ \A i \in 1..Len(x) : l[i] = x[i]
      /\ \A i \in 1..Len(y) : l[o + i] = y[i]
      /\ \A i \in 1..Len(z) : l[p + i] = z[i]
  OBVIOUS
<1>3. /\ \A i \in 1..Len(a) : a[i] # bar
      /\ \A i \in 1..Len(b) : b[i] # bar
      /\ \A i \in 1..Len(c) : c[i] # bar
  BY DEF ToSet
<1>4. k = l
  OBVIOUS
<1>5. /\ Len(a) \in Nat /\ Len(b) \in Nat /\ Len(c) \in Nat
      /\ Len(x) \in Nat /\ Len(y) \in Nat /\ Len(z) \in Nat
  OBVIOUS
<1> HIDE DEF k, l
<1>6. ASSUME NEW i \in 1..Len(k), k[i] = bar PROVE i = m \/ i = n
  <2>1. ASSUME i < m PROVE FALSE
    <3>1. i \in 1..Len(a)
      BY <1>5, <2>1
    <3> QED BY <1>1, <1>3, <1>6, <3>1
  <2>2. ASSUME m < i, i < n PROVE FALSE
    <3>1. i - m \in 1..Len(b) /\ m + (i - m) = i
      BY <1>5, <2>2
    <3>2. k[m + (i - m)] = b[i - m] /\ b[i - m] # bar
      BY <1>1, <1>3, <3>1
    <3> HIDE DEF m
    <3> QED BY <1>6, <3>1, <3>2
  <2>3. ASSUME n < i PROVE FALSE
    <3>1. i - n \in 1..Len(c) /\ n + (i - n) = i
      BY <1>1, <1>5, <2>3
    <3>2. k[n + (i - n)] = c[i - n] /\ c[i - n] # bar
      BY <1>1, <1>3, <3>1
    <3> HIDE DEF n
    <3> QED BY <1>6, <3>1, <3>2
  <2>4. m \in Nat /\ n \in Nat /\ i \in Nat /\ m < n
    BY <1>5
  <2> HIDE DEF m, n
  <2> QED BY <2>1, <2>2, <2>3, <2>4
<1>7. o \in 1..Len(k) /\ p \in 1..Len(k) /\ o < p
  BY <1>2, <1>4, <1>5
<1>8. o = m /\ p = n
  <2>1. (o = m \/ o = n) /\ (p = m \/ p = n)
    BY <1>2, <1>4, <1>6, <1>7
  <2> QED BY <1>5, <1>7, <2>1
<1>9. Len(a) = Len(x) /\ Len(b) = Len(y) /\ Len(c) = Len(z)
  BY <1>1, <1>2, <1>4, <1>5, <1>8
<1>10. /\ \A i \in 1..Len(a) : a[i] = x[i]
       /\ \A i \in 1..Len(b) : b[i] = y[i]
       /\ \A i \in 1..Len(c) : c[i] = z[i]
  BY <1>1, <1>2, <1>4, <1>8, <1>9
<1>11. ASSUME NEW t \in Seq(T), NEW u \in Seq(T), Len(t) = Len(u),
              \A i \in 1..Len(t) : t[i] = u[i]
       PROVE  t = u
  BY <1>11, SeqEqual
<1>12. a = x /\ b = y /\ c = z
  BY <1>9, <1>10, <1>11
<1> QED BY <1>12, <1>b

\* FlattenSeq puts one member behind the other.
LEMMA Flattened ==
  ASSUME NEW T, NEW s \in Seq(Seq(T)), s # <<>>
  PROVE  \E f \in [1..Len(s) -> Seq(T)] :
             /\ FlattenSeq(s) = f[Len(s)]
             /\ f[1] = s[1]
             /\ \A i \in 2..Len(s) : f[i] = f[i - 1] \o s[i]
<1> DEFINE Runs(f, n) == /\ f[1] = s[1]
                         /\ \A i \in 2..n : f[i] = f[i - 1] \o s[i]
           Can == {n \in Nat : \E f \in [1..n -> Seq(T)] : Runs(f, n)}
           flatten == CHOOSE f : f = [i \in 1..Len(s) |->
                                        IF i = 1 THEN s[i] ELSE f[i - 1] \o s[i]]
<1>1. Len(s) \in Nat /\ Len(s) \in 1..Len(s) /\ \A i \in 1..Len(s) : s[i] \in Seq(T)
  OBVIOUS
<1>2. 1 \in Can
  <2> DEFINE g == [i \in 1..1 |-> s[1]]
  <2>1. g \in [1..1 -> Seq(T)] /\ g[1] = s[1]
    BY <1>1
  <2>2. Runs(g, 1)
    <3> HIDE DEF g
    <3> QED BY <2>1
  <2> HIDE DEF g, Runs
  <2> QED BY <2>1, <2>2
<1>3. ASSUME NEW n \in 2..Len(s), n - 1 \in Can PROVE n \in Can
  <2>1. n \in Nat /\ n - 1 \in 1..Len(s) /\ n - 1 \in 1..(n - 1)
    BY <1>1
  <2>2. PICK f \in [1..(n - 1) -> Seq(T)] : Runs(f, n - 1)
    BY <1>3
  <2> DEFINE g == [i \in 1..n |-> IF i = n THEN f[n - 1] \o s[n] ELSE f[i]]
  <2>3. ASSUME NEW i \in 1..n PROVE g[i] \in Seq(T)
    <3>1. CASE i = n
      <4>1. f[n - 1] \in Seq(T) /\ s[n] \in Seq(T)
        BY <1>1, <2>1
      <4>2. f[n - 1] \o s[n] \in Seq(T)
        BY <4>1
      <4> QED BY <3>1, <4>2
    <3>2. CASE i # n
      <4>1. i \in 1..(n - 1)
        BY <2>1, <3>2
      <4> QED BY <3>2, <4>1
    <3> QED BY <3>1, <3>2
  <2>4. g[1] = s[1]
    BY <2>1, <2>2
  <2>5. ASSUME NEW i \in 2..n PROVE g[i] = g[i - 1] \o s[i]
    <3>1. i - 1 \in 1..n /\ i - 1 # n /\ i \in 1..n
      BY <2>1
    <3>2. g[i - 1] = f[i - 1]
      BY <3>1
    <3>3. CASE i = n
      BY <3>1, <3>2, <3>3
    <3>4. CASE i # n
      <4>1. i \in 2..(n - 1)
        BY <2>1, <3>4
      <4>2. f[i] = f[i - 1] \o s[i]
        BY <2>2, <4>1
      <4>3. g[i] = f[i]
        BY <3>1, <3>4
      <4> QED BY <3>2, <4>2, <4>3
    <3> QED BY <3>3, <3>4
  <2>6. g \in [1..n -> Seq(T)]
    BY <2>3
  <2> HIDE DEF g
  <2> QED BY <2>1, <2>4, <2>5, <2>6
<1>4. Len(s) \in Can
  <2> HIDE DEF Can
  <2> QED BY <1>1, <1>2, <1>3, UpTo
<1>5. PICK f \in [1..Len(s) -> Seq(T)] : Runs(f, Len(s))
  BY <1>4
<1>6. f = [i \in 1..Len(s) |-> IF i = 1 THEN s[i] ELSE f[i - 1] \o s[i]]
  <2>1. f = [i \in 1..Len(s) |-> f[i]]
    BY <1>5
  <2>2. ASSUME NEW i \in 1..Len(s)
        PROVE  f[i] = IF i = 1 THEN s[i] ELSE f[i - 1] \o s[i]
    <3>1. i = 1 \/ i \in 2..Len(s)
      BY <1>1
    <3> QED BY <1>5, <3>1
  <2> QED BY <2>1, <2>2, Zenon
<1>7. flatten = [i \in 1..Len(s) |-> IF i = 1 THEN s[i] ELSE flatten[i - 1] \o s[i]]
  BY <1>6
<1>8. FlattenSeq(s) = flatten[Len(s)]
  BY DEF FlattenSeq
<1> HIDE DEF flatten
<1>9. \A i \in 1..Len(s) : flatten[i] = f[i]
  <2> DEFINE Same == {i \in Nat : flatten[i] = f[i]}
  <2>1. 1 \in Same
    BY <1>1, <1>5, <1>7
  <2>2. ASSUME NEW n \in 2..Len(s), n - 1 \in Same PROVE n \in Same
    <3>1. n \in Nat /\ n \in 1..Len(s) /\ n # 1
      BY <1>1
    <3>2. flatten[n] = flatten[n - 1] \o s[n]
      BY <1>7, <3>1
    <3>3. f[n] = f[n - 1] \o s[n]
      BY <1>5
    <3> QED BY <2>2, <3>1, <3>2, <3>3
  <2>3. \A n \in 1..Len(s) : n \in Same
    <3> HIDE DEF Same
    <3> QED BY <1>1, <2>1, <2>2, UpTo
  <2> QED BY <2>3
<1> QED BY <1>1, <1>5, <1>8, <1>9

\* A list joined with commas.
LEMMA Joined ==
  ASSUME NEW s \in Seq(Route), s # <<>>
  PROVE  \E f \in [1..Len(s) -> Seq(Token)] :
             /\ JoinRoutes(s) = f[Len(s)]
             /\ f[1] = s[1]
             /\ \A i \in 2..Len(s) : f[i] = f[i - 1] \o (<<Comma>> \o s[i])
<1> DEFINE items == [i \in DOMAIN s |-> (IF i = 1 THEN <<>> ELSE <<Comma>>) \o s[i]]
<1>1. \A i \in 1..Len(s) : s[i] \in Seq(Token)
  BY TextAssumption DEF Token
<1>2. /\ items \in Seq(Seq(Token)) /\ items # <<>> /\ Len(items) = Len(s)
      /\ items[1] = s[1]
      /\ \A i \in 2..Len(s) : items[i] = <<Comma>> \o s[i]
  <2>1. ASSUME NEW i \in 1..Len(s) PROVE items[i] \in Seq(Token)
    <3>1. <<>> \in Seq(Token) /\ <<Comma>> \in Seq(Token) /\ s[i] \in Seq(Token)
      BY <1>1 DEF Token
    <3>2. <<>> \o s[i] \in Seq(Token) /\ <<Comma>> \o s[i] \in Seq(Token)
      BY <3>1
    <3> QED BY <3>2
  <2>2. DOMAIN s = 1..Len(s) /\ Len(s) \in Nat /\ Len(s) # 0
    OBVIOUS
  <2>3. items[1] = s[1]
    BY <1>1, <2>2
  <2> QED BY <2>1, <2>2, <2>3
<1>3. JoinRoutes(s) = FlattenSeq(items)
  BY DEF JoinRoutes
<1> HIDE DEF items
<1>4. \E f \in [1..Len(items) -> Seq(Token)] :
         /\ FlattenSeq(items) = f[Len(items)]
         /\ f[1] = items[1]
         /\ \A i \in 2..Len(items) : f[i] = f[i - 1] \o items[i]
  BY <1>2, Flattened
<1>5. PICK f \in [1..Len(s) -> Seq(Token)] :
         /\ JoinRoutes(s) = f[Len(s)]
         /\ f[1] = items[1]
         /\ \A i \in 2..Len(s) : f[i] = f[i - 1] \o items[i]
  BY <1>2, <1>3, <1>4
<1>6. \A i \in 2..Len(s) : f[i] = f[i - 1] \o (<<Comma>> \o s[i])
  BY <1>2, <1>5
<1> QED BY <1>2, <1>5, <1>6

\* No routes join to the empty text.
LEMMA JoinOfNone == JoinRoutes(<<>>) = <<>>
<1> DEFINE items == [i \in DOMAIN <<>> |-> (IF i = 1 THEN <<>> ELSE <<Comma>>) \o <<>>[i]]
<1>1. items = <<>>
  OBVIOUS
<1>2. JoinRoutes(<<>>) = FlattenSeq(items)
  BY DEF JoinRoutes
<1> HIDE DEF items
<1> QED BY <1>1, <1>2 DEF FlattenSeq

\* There is a bar in a joined list if there is one in a member.
LEMMA BarsOfJoin ==
  ASSUME NEW s \in Seq(Route)
  PROVE  /\ JoinRoutes(s) \in Seq(Token)
         /\ Bar \in ToSet(JoinRoutes(s)) <=> \E r \in ToSet(s) : Bar \in ToSet(r)
<1>1. CASE s = <<>>
  <2>1. JoinRoutes(s) = <<>>
    BY <1>1, JoinOfNone
  <2>2. ToSet(s) = {} /\ ToSet(JoinRoutes(s)) = {} /\ JoinRoutes(s) \in Seq(Token)
    <3>1. ToSet(<<>>) = {} /\ <<>> \in Seq(Token)
      BY DEF ToSet
    <3> QED BY <1>1, <2>1, <3>1
  <2> QED BY <2>2
<1>2. CASE s # <<>>
  <2>1. PICK f \in [1..Len(s) -> Seq(Token)] :
             /\ JoinRoutes(s) = f[Len(s)]
             /\ f[1] = s[1]
             /\ \A i \in 2..Len(s) : f[i] = f[i - 1] \o (<<Comma>> \o s[i])
    BY <1>2, Joined
  <2> DEFINE Same == {n \in Nat : Bar \in ToSet(f[n]) <=> \E i \in 1..n : Bar \in ToSet(s[i])}
  <2>2. ASSUME NEW a \in Seq(Token), NEW b \in Seq(Token)
        PROVE  Bar \in ToSet(a \o b) <=> Bar \in ToSet(a) \/ Bar \in ToSet(b)
    <3>1. /\ Len(a) \in Nat /\ Len(b) \in Nat /\ Len(a \o b) = Len(a) + Len(b)
          /\ \A i \in 1..Len(a) : (a \o b)[i] = a[i]
          /\ \A i \in 1..Len(b) : (a \o b)[Len(a) + i] = b[i]
      OBVIOUS
    <3>2. ASSUME NEW t \in Seq(Token)
          PROVE  Bar \in ToSet(t) <=> \E i \in 1..Len(t) : t[i] = Bar
      BY DEF ToSet
    <3>3. a \o b \in Seq(Token)
      OBVIOUS
    <3>4. ASSUME NEW i \in 1..Len(a \o b), (a \o b)[i] = Bar
          PROVE  (\E j \in 1..Len(a) : a[j] = Bar) \/ (\E j \in 1..Len(b) : b[j] = Bar)
      <4>1. CASE i <= Len(a)
        BY <3>1, <3>4, <4>1
      <4>2. CASE i > Len(a)
        <5>1. i - Len(a) \in 1..Len(b) /\ Len(a) + (i - Len(a)) = i
          BY <3>1, <4>2
        <5>2. (a \o b)[Len(a) + (i - Len(a))] = b[i - Len(a)]
          BY <3>1, <5>1
        <5> QED BY <3>4, <5>1, <5>2
      <4> QED BY <3>1, <4>1, <4>2
    <3>5. ASSUME NEW j \in 1..Len(a), a[j] = Bar PROVE \E i \in 1..Len(a \o b) : (a \o b)[i] = Bar
      <4>1. j \in 1..Len(a \o b)
        BY <3>1
      <4> QED BY <3>1, <3>5, <4>1
    <3>6. ASSUME NEW j \in 1..Len(b), b[j] = Bar PROVE \E i \in 1..Len(a \o b) : (a \o b)[i] = Bar
      <4>1. Len(a) + j \in 1..Len(a \o b)
        BY <3>1
      <4> QED BY <3>1, <3>6, <4>1
    <3> QED BY <3>2, <3>3, <3>4, <3>5, <3>6
  <2>3. Len(s) \in Nat /\ Len(s) \in 1..Len(s) /\ DOMAIN s = 1..Len(s)
    BY <1>2
  <2>4. 1 \in Same
    BY <2>1
  <2>5. ASSUME NEW n \in 2..Len(s), n - 1 \in Same PROVE n \in Same
    <3>1. n \in Nat /\ n \in 1..Len(s) /\ n - 1 \in 1..Len(s)
      BY <2>3
    <3>2. f[n] = f[n - 1] \o (<<Comma>> \o s[n]) /\ f[n - 1] \in Seq(Token)
      BY <2>1, <3>1
    <3>3. s[n] \in Route
      BY <3>1
    <3>4. s[n] \in Seq(Token) /\ <<Comma>> \in Seq(Token) /\ Comma # Bar
      BY <3>3, TextAssumption DEF Token
    <3>5. <<Comma>> \o s[n] \in Seq(Token) /\ Bar \notin ToSet(<<Comma>>)
      BY <3>4 DEF ToSet
    <3>6. Bar \in ToSet(f[n]) <=> Bar \in ToSet(f[n - 1]) \/ Bar \in ToSet(s[n])
      BY <2>2, <3>2, <3>4, <3>5
    <3>7. (\E i \in 1..n : Bar \in ToSet(s[i])) <=>
             (\E i \in 1..(n - 1) : Bar \in ToSet(s[i])) \/ Bar \in ToSet(s[n])
      <4>1. \A i \in 1..n : i \in 1..(n - 1) \/ i = n
        BY <3>1
      <4>2. \A i \in 1..(n - 1) : i \in 1..n
        BY <3>1
      <4>3. n \in 1..n
        BY <3>1
      <4> QED BY <4>1, <4>2, <4>3
    <3> QED BY <2>5, <3>1, <3>6, <3>7
  <2>6. \A n \in 1..Len(s) : n \in Same
    <3> HIDE DEF Same
    <3> QED BY <2>3, <2>4, <2>5, UpTo
  <2>7. Bar \in ToSet(JoinRoutes(s)) <=> \E i \in 1..Len(s) : Bar \in ToSet(s[i])
    BY <2>1, <2>3, <2>6
  <2>8. JoinRoutes(s) \in Seq(Token)
    BY <2>1, <2>3
  <2>9. ToSet(s) = {s[i] : i \in 1..Len(s)}
    BY <2>3 DEF ToSet
  <2> QED BY <2>7, <2>8, <2>9
<1> QED BY <1>1, <1>2

\* A joined list of plain names can be split again.
LEMMA JoinOfPlain ==
  ASSUME NEW s \in Seq(Route), \A r \in ToSet(s) : Bar \notin ToSet(r)
  PROVE  /\ Len(JoinRoutes(s)) = IF s = <<>> THEN 0 ELSE 2 * Len(s) - 1
         /\ \A i \in 1..Len(s) : s[i] = <<JoinRoutes(s)[2 * i - 1]>>
<1>1. CASE s = <<>>
  BY <1>1, JoinOfNone
<1>2. CASE s # <<>>
  <2>1. PICK f \in [1..Len(s) -> Seq(Token)] :
             /\ JoinRoutes(s) = f[Len(s)]
             /\ f[1] = s[1]
             /\ \A i \in 2..Len(s) : f[i] = f[i - 1] \o (<<Comma>> \o s[i])
    BY <1>2, Joined
  <2>2. ASSUME NEW i \in 1..Len(s) PROVE s[i] \in Seq(Token) /\ Len(s[i]) = 1
    <3>1. s[i] \in Route /\ Bar \notin ToSet(s[i])
      BY DEF ToSet
    <3>2. s[i] \in Seq(Word \cup {Bar}) /\ s[i] # <<>> /\ s[i] \in Text
      BY <3>1, TextAssumption
    <3>3. \A j \in 1..Len(s[i]) : s[i][j] \in Word
      BY <3>1, <3>2 DEF ToSet
    <3>4. \A j \in 1..(Len(s[i]) - 1) : ~({s[i][j], s[i][j + 1]} \subseteq Word)
      BY <3>2 DEF Text
    <3>6. Len(s[i]) \in Nat /\ Len(s[i]) # 0
      BY <3>2
    <3>5. ~(Len(s[i]) > 1)
      <4> SUFFICES ASSUME Len(s[i]) > 1 PROVE FALSE
        OBVIOUS
      <4>1. 1 \in 1..(Len(s[i]) - 1) /\ 1 \in 1..Len(s[i]) /\ 1 + 1 \in 1..Len(s[i])
        BY <3>2
      <4> QED BY <3>3, <3>4, <4>1
    <3>7. s[i] \in Seq(Token)
      BY <3>2 DEF Text, Token
    <3>8. Len(s[i]) = 1
      <4> DEFINE l == Len(s[i])
      <4>1. l \in Nat /\ l # 0 /\ ~(l > 1)
        BY <3>5, <3>6
      <4> HIDE DEF l
      <4>2. l = 1
        BY <4>1
      <4> QED BY <4>2 DEF l
    <3> QED BY <3>7, <3>8
  <2> DEFINE Splits(n) == /\ Len(f[n]) = 2 * n - 1
                          /\ \A i \in 1..n : f[n][2 * i - 1] = s[i][1]
             Split == {n \in Nat : Splits(n)}
  <2>3. Len(s) \in Nat /\ Len(s) \in 1..Len(s)
    BY <1>2
  <2>4. 1 \in Split
    <3>1. f[1] = s[1] /\ Len(s[1]) = 1
      BY <2>1, <2>2, <2>3
    <3>2. \A i \in 1..1 : i = 1 /\ 2 * i - 1 = 1
      OBVIOUS
    <3>3. Splits(1)
      BY <3>1, <3>2
    <3> QED BY <3>3
  <2>5. ASSUME NEW n \in 2..Len(s), n - 1 \in Split PROVE n \in Split
    <3>1. n \in Nat /\ n \in 1..Len(s) /\ n - 1 \in 1..Len(s)
      BY <2>3
    <3> DEFINE head == f[n - 1]
               tail == <<Comma>> \o s[n]
    <3>2. f[n] = head \o tail /\ head \in Seq(Token)
      BY <2>1, <3>1
    <3>3. Len(head) = 2 * (n - 1) - 1 /\ \A i \in 1..(n - 1) : head[2 * i - 1] = s[i][1]
      BY <2>5
    <3>4. tail \in Seq(Token) /\ Len(tail) = 2 /\ tail[2] = s[n][1]
      <4>1. s[n] \in Seq(Token) /\ Len(s[n]) = 1
        BY <2>2, <3>1
      <4>2. <<Comma>> \in Seq(Token) /\ Len(<<Comma>>) = 1
        BY DEF Token
      <4>3. tail \in Seq(Token) /\ Len(tail) = 1 + 1
        <5>1. tail \in Seq(Token) /\ Len(tail) = Len(<<Comma>>) + Len(s[n])
          BY <4>1, <4>2, Concat, Zenon
        <5> QED BY <4>1, <4>2, <5>1, Zenon
      <4>4. 1 \in 1..Len(s[n]) /\ tail[1 + 1] = s[n][1]
        BY <4>1, <4>2, Concat
      <4> QED BY <4>3, <4>4
    <3> HIDE DEF head, tail
    <3>7. /\ Len(head \o tail) = Len(head) + Len(tail)
          /\ \A i \in 1..Len(head) : (head \o tail)[i] = head[i]
          /\ (head \o tail)[Len(head) + 2] = tail[2]
      <4>1. Len(head) \in Nat /\ 2 \in 1..Len(tail)
        BY <3>2, <3>4
      <4>2. /\ Len(head \o tail) = Len(head) + Len(tail)
            /\ \A i \in 1..Len(head) : (head \o tail)[i] = head[i]
            /\ \A i \in 1..Len(tail) : (head \o tail)[Len(head) + i] = tail[i]
        <5>1. head \in Seq(Token) /\ tail \in Seq(Token)
          BY <3>2, <3>4
        <5>2. Len(head \o tail) = Len(head) + Len(tail)
          BY <5>1, Concat, Zenon
        <5>3. ASSUME NEW k \in 1..Len(head) PROVE (head \o tail)[k] = head[k]
          BY <5>1, Concat
        <5>4. ASSUME NEW k \in 1..Len(tail) PROVE (head \o tail)[Len(head) + k] = tail[k]
          BY <5>1, Concat
        <5> QED BY <5>2, <5>3, <5>4, Zenon
      <4> QED BY <4>1, <4>2
    <3>5. Len(f[n]) = 2 * n - 1
      BY <3>1, <3>2, <3>3, <3>4, <3>7
    <3>6. ASSUME NEW i \in 1..n PROVE f[n][2 * i - 1] = s[i][1]
      <4>1. CASE i = n
        <5>2. Len(head) + 2 = 2 * i - 1
          BY <3>1, <3>3, <4>1
        <5> QED BY <3>2, <3>4, <3>7, <4>1, <5>2
      <4>2. CASE i # n
        <5>1. i \in 1..(n - 1) /\ 2 * i - 1 \in 1..Len(head)
          BY <3>1, <3>3, <4>2
        <5>2. (head \o tail)[2 * i - 1] = head[2 * i - 1]
          BY <3>7, <5>1
        <5> QED BY <3>2, <3>3, <5>1, <5>2
      <4> QED BY <4>1, <4>2
    <3> QED BY <3>1, <3>5, <3>6
  <2>6. \A n \in 1..Len(s) : n \in Split
    <3> HIDE DEF Split
    <3> QED BY <2>3, <2>4, <2>5, UpTo
  <2>7. Splits(Len(s))
    BY <2>3, <2>6
  <2>8. ASSUME NEW i \in 1..Len(s) PROVE s[i] = <<s[i][1]>>
    BY <2>2
  <2> QED BY <1>2, <2>1, <2>7, <2>8
<1> QED BY <1>1, <1>2

\* Numbers can be put in order.
LEMMA CanBeSorted ==
  ASSUME NEW N \in Nat, NEW g \in [1..N -> Nat]
  PROVE  \E p \in Bijection(1..N, 1..N) : \A i, j \in 1..N : i < j => g[p[i]] <= g[p[j]]
<1> DEFINE Sorts(p, f, n) == /\ p \in [1..n -> 1..n]
                             /\ \A i, j \in 1..n : p[i] = p[j] => i = j
                             /\ \A k \in 1..n : \E i \in 1..n : p[i] = k
                             /\ \A i, j \in 1..n : i < j => f[p[i]] <= f[p[j]]
           Bad == {n \in Nat : \E f \in [1..n -> Nat] : ~\E p \in [1..n -> 1..n] : Sorts(p, f, n)}
<1>1. Bad = {}
  <2> SUFFICES ASSUME Bad # {} PROVE FALSE
    OBVIOUS
  <2>1. PICK n \in Bad : \A m \in Bad : n <= m
    <3>1. Bad \in SUBSET Nat
      OBVIOUS
    <3> HIDE DEF Bad
    <3> QED BY <3>1, LeastNatural
  <2>2. PICK f \in [1..n -> Nat] : ~\E p \in [1..n -> 1..n] : Sorts(p, f, n)
    OBVIOUS
  <2>3. n # 0
    <3> SUFFICES ASSUME n = 0 PROVE FALSE
      OBVIOUS
    <3>1. Sorts([i \in 1..n |-> i], f, n)
      OBVIOUS
    <3> QED BY <2>2, <3>1
  <2>4. n \in Nat /\ n - 1 \in Nat /\ n - 1 \notin Bad
    <3>1. n \in Nat /\ n - 1 \in Nat /\ ~(n <= n - 1)
      BY <2>3
    <3> HIDE DEF Bad
    <3> QED BY <2>1, <3>1
  \* A place of the least number.
  <2>5. PICK m \in 1..n : \A i \in 1..n : f[m] <= f[i]
    <3> DEFINE Values == {f[i] : i \in 1..n}
    <3>1. Values \in SUBSET Nat /\ Values # {}
      BY <2>3, <2>4
    <3>2. PICK v \in Values : \A w \in Values : v <= w
      <4> HIDE DEF Values
      <4> QED BY <3>1, LeastNatural
    <3> QED BY <3>2
  <2> DEFINE skip(i) == IF i < m THEN i ELSE i + 1
             rest == [i \in 1..(n - 1) |-> f[skip(i)]]
  <2>6. /\ \A i \in 1..(n - 1) : skip(i) \in 1..n /\ skip(i) # m
        /\ \A i, j \in 1..(n - 1) : skip(i) = skip(j) => i = j
        /\ \A k \in 1..n : k # m => \E i \in 1..(n - 1) : skip(i) = k
    <3>1. \A i \in 1..(n - 1) : skip(i) \in 1..n /\ skip(i) # m
      BY <2>4
    <3>2. ASSUME NEW i \in 1..(n - 1), NEW j \in 1..(n - 1), skip(i) = skip(j) PROVE i = j
      <4>1. CASE i < m
        BY <2>4, <3>2, <4>1
      <4>2. CASE ~(i < m)
        <5>1. CASE j < m
          BY <2>4, <3>2, <4>2, <5>1
        <5>2. CASE ~(j < m)
          <6>1. i + 1 = j + 1
            BY <3>2, <4>2, <5>2
          <6> QED BY <2>4, <6>1
        <5> QED BY <5>1, <5>2
      <4> QED BY <4>1, <4>2
    <3>3. ASSUME NEW k \in 1..n, k # m PROVE \E i \in 1..(n - 1) : skip(i) = k
      <4>1. CASE k < m
        <5>1. k \in 1..(n - 1) /\ skip(k) = k
          BY <2>4, <4>1
        <5> QED BY <5>1
      <4>2. CASE k > m
        <5>1. k - 1 \in 1..(n - 1) /\ skip(k - 1) = k
          BY <2>4, <4>2
        <5> QED BY <5>1
      <4> QED BY <2>4, <3>3, <4>1, <4>2
    <3> QED BY <3>1, <3>2, <3>3
  <2>7. rest \in [1..(n - 1) -> Nat]
    BY <2>6
  <2>8. PICK p \in [1..(n - 1) -> 1..(n - 1)] : Sorts(p, rest, n - 1)
    <3> HIDE DEF rest
    <3> QED BY <2>4, <2>7
  <2> DEFINE q == [i \in 1..n |-> IF i = 1 THEN m ELSE skip(p[i - 1])]
  <2>9. \A i \in 1..n : i # 1 => /\ i - 1 \in 1..(n - 1) /\ p[i - 1] \in 1..(n - 1)
                                 /\ q[i] = skip(p[i - 1]) /\ f[q[i]] = rest[p[i - 1]]
    BY <2>4, <2>8
  <2>10. q[1] = m /\ 1 \in 1..n
    BY <2>3, <2>4
  <2> HIDE DEF skip, rest, q
  <2>11. ASSUME NEW i \in 1..n PROVE q[i] \in 1..n
    <3>1. CASE i = 1
      BY <2>10, <3>1
    <3>2. CASE i # 1
      <4>1. p[i - 1] \in 1..(n - 1) /\ q[i] = skip(p[i - 1])
        BY <2>9, <3>2
      <4>2. skip(p[i - 1]) \in 1..n
        BY <2>6, <4>1
      <4> QED BY <4>1, <4>2
    <3> QED BY <3>1, <3>2
  <2>12. ASSUME NEW i \in 1..n, NEW j \in 1..n, q[i] = q[j] PROVE i = j
    <3>1. CASE i = 1 \/ j = 1
      <4>1. ASSUME NEW k \in 1..n, k # 1 PROVE q[k] # m
        <5>1. p[k - 1] \in 1..(n - 1) /\ q[k] = skip(p[k - 1])
          BY <2>9, <4>1
        <5> QED BY <2>6, <5>1
      <4> QED BY <2>10, <2>12, <3>1, <4>1
    <3>2. CASE i # 1 /\ j # 1
      <4>1. p[i - 1] = p[j - 1]
        <5>1. /\ p[i - 1] \in 1..(n - 1) /\ p[j - 1] \in 1..(n - 1)
              /\ skip(p[i - 1]) = skip(p[j - 1])
          BY <2>9, <2>12, <3>2
        <5> QED BY <2>6, <5>1
      <4>2. i - 1 = j - 1
        BY <2>8, <2>9, <3>2, <4>1
      <4> QED BY <2>4, <4>2
    <3> QED BY <3>1, <3>2
  <2>13. ASSUME NEW k \in 1..n PROVE \E i \in 1..n : q[i] = k
    <3>1. CASE k = m
      BY <2>10, <3>1
    <3>2. CASE k # m
      <4>1. PICK j \in 1..(n - 1) : skip(j) = k
        BY <2>6, <3>2
      <4>2. PICK i \in 1..(n - 1) : p[i] = j
        BY <2>8
      <4>3. i + 1 \in 1..n /\ i + 1 # 1 /\ (i + 1) - 1 = i
        BY <2>4
      <4>4. q[i + 1] = k
        BY <2>9, <4>1, <4>2, <4>3
      <4> QED BY <4>3, <4>4
    <3> QED BY <3>1, <3>2
  <2>14. ASSUME NEW i \in 1..n, NEW j \in 1..n, i < j PROVE f[q[i]] <= f[q[j]]
    <3>1. CASE i = 1
      BY <2>5, <2>10, <2>11, <3>1
    <3>2. CASE i # 1
      <4>1. j # 1 /\ i - 1 < j - 1
        BY <2>4, <2>14, <3>2
      <4>2. rest[p[i - 1]] <= rest[p[j - 1]]
        BY <2>8, <2>9, <3>2, <4>1
      <4> QED BY <2>9, <3>2, <4>1, <4>2
    <3> QED BY <3>1, <3>2
  <2>15. q \in [1..n -> 1..n]
    BY <2>11 DEF q
  <2> QED BY <2>2, <2>11, <2>12, <2>13, <2>14, <2>15
<1>2. PICK p \in [1..N -> 1..N] : Sorts(p, g, N)
  BY <1>1
<1>3. p \in Bijection(1..N, 1..N)
  BY <1>2 DEF Bijection, Injection, Surjection, IsInjective
<1> QED BY <1>2, <1>3

\* Sorting keeps the members of a list.
LEMMA SortedMembers ==
  ASSUME NEW s \in Seq(Route)
  PROVE  SortedRoutes(s) \in Seq(Route) /\ ToSet(SortedRoutes(s)) = ToSet(s)
<1> DEFINE D == DOMAIN s
           InOrder(p) == \A i, j \in D : i < j => Rank[s[p[i]]] <= Rank[s[p[j]]]
           from == CHOOSE p \in Bijection(D, D) : InOrder(p)
<1>1. D = 1..Len(s) /\ Len(s) \in Nat
  OBVIOUS
<1>2. \E p \in Bijection(D, D) : InOrder(p)
  <2> DEFINE g == [i \in 1..Len(s) |-> Rank[s[i]]]
  <2>1. g \in [1..Len(s) -> Nat]
    BY TextAssumption
  <2>2. PICK p \in Bijection(1..Len(s), 1..Len(s)) :
                \A i, j \in 1..Len(s) : i < j => g[p[i]] <= g[p[j]]
    <3> HIDE DEF g
    <3> QED BY <1>1, <2>1, CanBeSorted
  <2>3. \A i \in 1..Len(s) : p[i] \in 1..Len(s)
    BY <2>2 DEF Bijection, Injection
  <2> QED BY <1>1, <2>2, <2>3
<1> HIDE DEF InOrder
<1>3. from \in Bijection(D, D)
  BY <1>2
<1>4. SortedRoutes(s) = [i \in D |-> s[from[i]]]
  BY DEF SortedRoutes, InOrder
<1> HIDE DEF from
<1>5. (\A i \in D : from[i] \in D) /\ (\A k \in D : \E i \in D : from[i] = k)
  BY <1>3 DEF Bijection, Injection, Surjection
<1> QED BY <1>1, <1>4, <1>5 DEF ToSet

\* Two queries with one key are given the same alerts, unless only one of them has a
\* list of routes that names none, or both have a bar: a key splits in one way only if
\* one of them has none.
LEMMA KeyDeterminesAlerts ==
  ASSUME NEW q \in AlertFilter, NEW r \in AlertFilter, NEW alerts,
         QueryKey(q) = QueryKey(r), NamesNoRoute(q) <=> NamesNoRoute(r),
         ~NamesBar(q) \/ ~NamesBar(r)
  PROVE  GetAlerts(q, alerts) = GetAlerts(r, alerts)
<1> DEFINE List(x) == IF x.routes = None THEN <<>> ELSE x.routes
           R(x) == IF x.routes = None THEN <<>> ELSE JoinRoutes(SortedRoutes(x.routes))
           S(x) == IF x.stopId = None THEN <<>> ELSE x.stopId
           D(x) == IF x.direction = None THEN <<>> ELSE <<x.direction>>
           T == Token \cup {0, 1}
<1>1. ASSUME NEW x \in AlertFilter
      PROVE  /\ QueryKey(x) = R(x) \o <<Bar>> \o S(x) \o <<Bar>> \o D(x)
             /\ R(x) = JoinRoutes(SortedRoutes(List(x)))
             /\ List(x) \in Seq(Route) /\ x.direction \in {0, 1, None}
             /\ x.stopId \in Stop \cup {None}
  <2>1. List(x) \in Seq(Route)
    BY DEF AlertFilter
  <2>2. SortedRoutes(<<>>) = <<>>
    <3>1. <<>> \in Seq(Route) /\ ToSet(<<>>) = {}
      BY DEF ToSet
    <3>2. SortedRoutes(<<>>) \in Seq(Route) /\ ToSet(SortedRoutes(<<>>)) = {}
      BY <3>1, SortedMembers
    <3>3. ASSUME NEW t \in Seq(Route), t # <<>> PROVE t[1] \in ToSet(t)
      BY <3>3 DEF ToSet
    <3> QED BY <3>2, <3>3
  <2>3. JoinRoutes(SortedRoutes(<<>>)) = <<>>
    BY <2>2, JoinOfNone
  <2> QED BY <2>1, <2>3 DEF QueryKey, AlertFilter
<1>2. ASSUME NEW x \in AlertFilter
      PROVE  /\ R(x) \in Seq(T) /\ S(x) \in Seq(T) /\ D(x) \in Seq(T)
             /\ Bar \notin ToSet(D(x))
             /\ NamesBar(x) <=> Bar \in ToSet(R(x)) \cup ToSet(S(x))
  <2>1. R(x) \in Seq(T)
    <3>1. R(x) \in Seq(Token)
      BY <1>1, SortedMembers, BarsOfJoin
    <3> HIDE DEF R
    <3> QED BY <3>1
  <2>2. S(x) \in Seq(T)
    <3>1. x.stopId \in Stop => x.stopId \in Seq(Token)
      BY TextAssumption DEF Text, Token
    <3>2. \A t \in Seq(Token) : t \in Seq(T)
      OBVIOUS
    <3>3. <<>> \in Seq(T)
      OBVIOUS
    <3> HIDE DEF T
    <3> QED BY <1>1, <3>1, <3>2, <3>3
  <2>3. D(x) \in Seq(T) /\ Bar \notin ToSet(D(x))
    <3>1. \A b \in {0, 1} : b \in T /\ <<b>> \in Seq(T) /\ Bar # b
      BY TextAssumption
    <3>2. <<>> \in Seq(T) /\ ToSet(<<>>) = {} /\ \A b \in {0, 1} : ToSet(<<b>>) = {b}
      BY DEF ToSet
    <3>3. x.direction = None \/ x.direction \in {0, 1}
      BY <1>1
    <3> HIDE DEF T
    <3> QED BY <3>1, <3>2, <3>3
  <2>4. Bar \in ToSet(R(x)) <=> x.routes # None /\ \E t \in ToSet(x.routes) : Bar \in ToSet(t)
    <3>1. Bar \in ToSet(R(x)) <=> \E t \in ToSet(List(x)) : Bar \in ToSet(t)
      BY <1>1, SortedMembers, BarsOfJoin
    <3>2. ToSet(<<>>) = {}
      BY DEF ToSet
    <3> QED BY <3>1, <3>2
  <2>5. Bar \in ToSet(S(x)) <=> x.stopId # None /\ Bar \in ToSet(x.stopId)
    BY DEF ToSet
  <2> HIDE DEF R, S, D
  <2> QED BY <2>1, <2>2, <2>3, <2>4, <2>5 DEF NamesBar
<1>3. Bar \in T
  BY DEF Token
<1>4. R(q) = R(r) /\ S(q) = S(r) /\ D(q) = D(r)
  <2> DEFINE parts(x) == [routes |-> R(x), stop |-> S(x), direction |-> D(x)]
  <2>1. ASSUME NEW x \in AlertFilter
        PROVE  /\ parts(x) \in Parts(T) /\ Spelled(parts(x), Bar) = QueryKey(x)
               /\ ~NamesBar(x) => Bar \notin ToSet(parts(x).routes) \cup ToSet(parts(x).stop)
                                             \cup ToSet(parts(x).direction)
    <3>1. R(x) \in Seq(T) /\ S(x) \in Seq(T) /\ D(x) \in Seq(T)
      BY <1>2
    <3>2. QueryKey(x) = R(x) \o <<Bar>> \o S(x) \o <<Bar>> \o D(x)
      BY <1>1
    <3>3. ~NamesBar(x) => Bar \notin ToSet(R(x)) \cup ToSet(S(x)) \cup ToSet(D(x))
      BY <1>2
    <3> HIDE DEF R, S, D, T
    <3> QED BY <3>1, <3>2, <3>3 DEF Parts, Spelled
  <2> HIDE DEF parts, T
  <2>2. Bar \in T /\ Spelled(parts(q), Bar) = Spelled(parts(r), Bar)
    BY <1>3, <2>1
  <2>3. parts(q) = parts(r)
    BY <2>1, <2>2, KeyParts
  <2> QED BY <2>3 DEF parts
<1>5. Bar \notin ToSet(R(q)) /\ Bar \notin ToSet(R(r))
  <2> HIDE DEF R, S, D
  <2> QED BY <1>2, <1>4
<1>6. ASSUME NEW x \in AlertFilter, Bar \notin ToSet(R(x))
      PROVE  LET s == SortedRoutes(List(x))
             IN  /\ s \in Seq(Route) /\ ToSet(s) = ToSet(List(x))
                 /\ Len(R(x)) = IF s = <<>> THEN 0 ELSE 2 * Len(s) - 1
                 /\ \A i \in 1..Len(s) : s[i] = <<R(x)[2 * i - 1]>>
  <2> DEFINE s == SortedRoutes(List(x))
  <2>1. s \in Seq(Route) /\ ToSet(s) = ToSet(List(x)) /\ R(x) = JoinRoutes(s)
    BY <1>1, SortedMembers
  <2> HIDE DEF R, s
  <2>2. \A t \in ToSet(s) : Bar \notin ToSet(t)
    BY <1>6, <2>1, BarsOfJoin
  <2>3. /\ Len(JoinRoutes(s)) = IF s = <<>> THEN 0 ELSE 2 * Len(s) - 1
        /\ \A i \in 1..Len(s) : s[i] = <<JoinRoutes(s)[2 * i - 1]>>
    BY <2>1, <2>2, JoinOfPlain
  <2> QED BY <2>1, <2>3 DEF s
<1>7. ToSet(List(q)) = ToSet(List(r))
  <2> DEFINE s == SortedRoutes(List(q))
             t == SortedRoutes(List(r))
             key == R(q)
  <2>1. /\ s \in Seq(Route) /\ ToSet(s) = ToSet(List(q))
        /\ Len(key) = IF s = <<>> THEN 0 ELSE 2 * Len(s) - 1
        /\ \A i \in 1..Len(s) : s[i] = <<key[2 * i - 1]>>
    BY <1>5, <1>6
  <2>2. /\ t \in Seq(Route) /\ ToSet(t) = ToSet(List(r))
        /\ Len(key) = IF t = <<>> THEN 0 ELSE 2 * Len(t) - 1
        /\ \A i \in 1..Len(t) : t[i] = <<key[2 * i - 1]>>
    BY <1>4, <1>5, <1>6
  <2> HIDE DEF s, t, key
  <2>3. Len(s) = Len(t) /\ Len(s) \in Nat /\ DOMAIN s = 1..Len(s) /\ DOMAIN t = 1..Len(t)
    <3>1. Len(s) \in Nat /\ Len(t) \in Nat
      BY <2>1, <2>2
    <3>2. (s = <<>> <=> Len(s) = 0) /\ (t = <<>> <=> Len(t) = 0)
      BY <2>1, <2>2, EmptySeq
    <3>3. DOMAIN s = 1..Len(s) /\ DOMAIN t = 1..Len(t)
      BY <2>1, <2>2
    <3>4. Len(s) = Len(t)
      BY <2>1, <2>2, <3>1, <3>2
    <3> QED BY <3>1, <3>3, <3>4
  <2>4. ToSet(s) = ToSet(t)
    <3>1. \A i \in 1..Len(s) : s[i] = t[i]
      BY <2>1, <2>2, <2>3
    <3> QED BY <2>3, <3>1 DEF ToSet
  <2> QED BY <2>1, <2>2, <2>4
<1>8. ASSUME NEW x \in AlertFilter
      PROVE  NamesNoRoute(x) <=> x.routes # None /\ ToSet(List(x)) = {}
  <2>1. List(x) \in Seq(Route)
    BY <1>1
  <2>2. ToSet(List(x)) = {} <=> List(x) = <<>>
    <3>1. ToSet(<<>>) = {}
      BY DEF ToSet
    <3>2. ASSUME List(x) # <<>> PROVE List(x)[1] \in ToSet(List(x))
      BY <2>1, <3>2 DEF ToSet
    <3> HIDE DEF List
    <3> QED BY <3>1, <3>2
  <2> QED BY <2>2 DEF NamesNoRoute
<1>9. ToSet(<<>>) = {}
  BY DEF ToSet
<1>10. (q.routes = None) <=> (r.routes = None)
  BY <1>7, <1>8, <1>9
<1>11. q.routes # None => ToSet(q.routes) = ToSet(r.routes)
  BY <1>7, <1>10
<1>12. q.stopId = r.stopId /\ q.direction = r.direction
  <2>1. \A stop \in Stop : stop # <<>>
    BY TextAssumption
  <2>2. q.stopId = r.stopId
    BY <1>1, <1>4, <2>1
  <2>3. q.direction = r.direction
    <3>1. ASSUME NEW a, NEW b PROVE /\ <<a>> = <<b>> => a = b
                                    /\ <<a>> # <<>>
      OBVIOUS
    <3> QED BY <1>4, <3>1
  <2> QED BY <2>2, <2>3
<1>13. \A a \in alerts : RouteMatches(q, a) <=> RouteMatches(r, a)
  BY <1>10, <1>11 DEF RouteMatches
<1>14. \A a \in alerts : StopMatches(q, a) <=> StopMatches(r, a)
  BY <1>12 DEF StopMatches
<1> QED BY <1>13, <1>14 DEF GetAlerts
-----------------------------------------------------------------------------
(* What a step of the API does to the cache. *)

\* Every step of the API is one of the cache, or leaves the cache alone.
LEMMA CacheSteps == [ApiNext]_allVars => [Next]_vars
<1> SUFFICES ASSUME ApiNext PROVE [Next]_vars
  BY DEF allVars, vars
<1> USE AlertsApiAssumption
<1>1. ASSUME NEW c \in Call, GetFeed(c) PROVE Next
  BY <1>1 DEF GetFeed, Next
<1>2. ASSUME NEW c \in Call, HandlerStep(c) PROVE [Next]_vars
  BY <1>1, <1>2 DEF HandlerStep, NotModified, Proceed, Send, Unavailable, Reply
<1>3. CASE CacheStep
  BY <1>3 DEF CacheStep, Next
<1> QED BY <1>1, <1>2, <1>3 DEF ApiNext, Request

\* getFeed, as far as its caller sees at once.
LEMMA GetFeedEffect ==
  ASSUME TypeOK, NEW c \in Call, GetFeed(c)
  PROVE  /\ UNCHANGED <<now, cache, failed>>
         /\ call'[c].feed = AlertsFeed
         /\ call'[c].pc \in {"fresh", "join", "own"}
         /\ call'[c].pc = "fresh" =>
               Fresh(AlertsFeed) /\ call'[c].msg = cache[AlertsFeed].msg
         /\ fetch'[c] = fetch[c] \/ fetch'[c].st = "sent"
         /\ \A d \in Call \ {c} : call'[d] = call[d] /\ fetch'[d] = fetch[d]
<1> USE AlertsApiAssumption DEF TypeOK
<1>1. CASE Hit(c, AlertsFeed)
  BY <1>1 DEF Hit
<1>2. CASE Join(c, AlertsFeed)
  BY <1>2 DEF Join
<1>3. CASE Start(c, AlertsFeed)
  BY <1>3 DEF Start, StartFetch, FetchState
<1> QED BY <1>1, <1>2, <1>3 DEF GetFeed

\* The continuations of a call leave the clock, the entries and the failures alone.
LEMMA ContinuationEffect ==
  ASSUME TypeOK, NEW c \in Call, Return(c) \/ Retry(c) \/ GiveUp(c)
  PROVE  /\ UNCHANGED <<now, cache, failed>>
         /\ call'[c].feed = call[c].feed
         /\ Return(c) => /\ call[c].pc \in {"joinOk", "ownOk"} /\ call'[c].pc = "fresh"
                         /\ call'[c].msg = call[c].msg /\ fetch' = fetch
         /\ Retry(c)  => /\ call[c].pc = "joinErr" /\ call'[c].pc = "own"
                         /\ fetch'[c].st = "sent"
         /\ GiveUp(c) => /\ call[c].pc = "ownErr" /\ call'[c].pc \in {"stale", "error"}
                         /\ call'[c].pc = "stale" => call'[c].msg \in Time
                         /\ fetch' = fetch
         /\ \A d \in Call \ {c} : call'[d] = call[d] /\ fetch'[d] = fetch[d]
<1>1. CASE Return(c)
  BY <1>1 DEF Return, Retry, GiveUp, TypeOK, CallState
<1>2. CASE Retry(c)
  BY <1>2 DEF Return, Retry, GiveUp, StartFetch, TypeOK, CallState, FetchState
<1>3. CASE GiveUp(c)
  BY <1>3 DEF Return, Retry, GiveUp, TypeOK, CallState
<1> QED BY <1>1, <1>2, <1>3

\* A fetch that is live is for the alerts.
LEMMA AlertsFetch ==
  ASSUME IInv, RequestInv, NEW c \in Call, Live(c)
  PROVE  call[c].feed = AlertsFeed
  BY LiveFeed, CacheAssumption DEF IInv, RequestInv

\* Only the probe's comparison answers 304.
LEMMA Only304 ==
  ASSUME ApiTypeOK, ApiNext, NEW c \in Call, Sends304(c)
  PROVE  Unchanged(c)
<1> USE DEF ApiTypeOK, Sends304
<1>1. ASSUME NEW d \in Call, NEW q \in Query, NEW tag, Request(d, q, tag) PROVE FALSE
  BY <1>1 DEF Request
<1>2. ASSUME NEW d \in Call, HandlerStep(d) PROVE Unchanged(c)
  BY <1>2 DEF HandlerStep, NotModified, Proceed, Send, Unavailable, Reply
<1>3. CASE CacheStep
  BY <1>3 DEF CacheStep, handlerVars
<1> QED BY <1>1, <1>2, <1>3 DEF ApiNext
-----------------------------------------------------------------------------
(* The invariant. *)

\* The copy made of a 200 is a response.
LEMMA CopyType ==
  ASSUME NEW q \in Query, NEW m \in Nat, NEW b \in BOOLEAN
  PROVE  Copy(q, Stamp(m), b) \in Response
  BY StampIs DEF Response

\* A response carries the ETag of what it is a copy of.
LEMMA ResponseIs ==
  ASSUME NEW x \in Response
  PROVE  /\ x.query \in Query /\ x.stamp \in Published
         /\ x.tag = EtagFor(x.stamp, x.query) /\ x.tag \in Etag
<1>1. PICK q \in Query, m \in Published, b \in BOOLEAN : x = Copy(q, m, b)
  BY DEF Response
<1>2. x.query = q /\ x.stamp = m /\ x.tag = EtagFor(m, q)
  BY <1>1 DEF Copy
<1> QED BY <1>2 DEF Etag

\* A client may start with a copy, but none is newer than what nobody has fetched yet.
LEMMA ApiInvInit == ApiInit => ApiInv
<1> SUFFICES ASSUME ApiInit PROVE ApiInv
  OBVIOUS
<1> USE AlertsApiAssumption, CacheAssumption DEF ApiInit
<1>1. IInv
  BY IInvInit
<1>2. \A q \in Query : Copy(q, 0, FALSE) \in Response
  <2> HIDE DEF ApiInit
  <2>1. ASSUME NEW q \in Query, NEW b \in BOOLEAN PROVE Copy(q, 0, b) \in Response
    BY DEF Response
  <2>2. FALSE \in BOOLEAN
    OBVIOUS
  <2> QED BY <2>1, <2>2, Zenon
<1>3. ApiTypeOK
  <2> DEFINE Copies == {None} \cup {Copy(q, 0, FALSE) : q \in Query}
  <2>1. held \in [Call -> Copies] /\ Copies \subseteq Response \cup {None}
    BY <1>2
  <2> QED BY <2>1 DEF ApiTypeOK
<1>4. RequestInv
  BY DEF RequestInv, Init, Copy
<1>5. FreshInv
  BY DEF FreshInv
<1>6. ForwardInv
  BY DEF ForwardInv, ForwardOf, Init, Latest, Copy
<1> QED BY <1>1, <1>3, <1>4, <1>5, <1>6 DEF ApiInv

\* Every ETag that is sent or kept comes from a publication and a query.
LEMMA ApiTypeStep == ApiTypeOK /\ RequestInv /\ [ApiNext]_allVars => ApiTypeOK'
<1> SUFFICES ASSUME ApiTypeOK, RequestInv, [ApiNext]_allVars PROVE ApiTypeOK'
  OBVIOUS
<1> USE DEF ApiTypeOK
<1>1. ASSUME NEW c \in Call, NEW q \in Query, NEW tag \in Held(c), Request(c, q, tag)
      PROVE  ApiTypeOK'
  <2>1. tag \in Etag \cup {None}
    BY ResponseIs DEF Held
  <2> QED BY <1>1, <2>1 DEF Request
<1>2. ASSUME NEW c \in Call, NotModified(c) PROVE ApiTypeOK'
  BY <1>2 DEF NotModified, Reply
<1>3. ASSUME NEW c \in Call, Proceed(c) PROVE ApiTypeOK'
  BY <1>3 DEF Proceed
<1>4. ASSUME NEW c \in Call, Send(c) PROVE ApiTypeOK'
  <2>1. query[c] \in Query /\ call[c].msg \in Nat
    BY <1>4 DEF Send, GotFeed, RequestInv, Time
  <2>2. Copy(query[c], Stamp(call[c].msg), call[c].pc = "stale") \in Response
    BY <2>1, CopyType
  <2> QED BY <1>4, <2>2 DEF Send, Reply
<1>5. ASSUME NEW c \in Call, Unavailable(c) PROVE ApiTypeOK'
  BY <1>5 DEF Unavailable, Reply
<1>6. CASE CacheStep
  BY <1>6 DEF CacheStep, handlerVars
<1>7. CASE UNCHANGED allVars
  BY <1>7 DEF allVars, handlerVars
<1> QED BY <1>1, <1>2, <1>3, <1>4, <1>5, <1>6, <1>7 DEF ApiNext, HandlerStep

\* The ETag of a probe stays that of the client's copy until the request is over.
LEMMA RequestStep == ApiInv /\ [ApiNext]_allVars => RequestInv'
<1> SUFFICES ASSUME ApiInv, [ApiNext]_allVars PROVE RequestInv'
  OBVIOUS
<1>0. TypeOK /\ ApiTypeOK /\ RequestInv /\ AgeInv /\ AwaitInv
  BY DEF ApiInv, IInv
<1> USE <1>0 DEF ApiTypeOK, RequestInv
<1>1. ASSUME NEW c \in Call, NEW q \in Query, NEW tag \in Held(c), Request(c, q, tag)
      PROVE  RequestInv'
  <2>1. tag # None => held[c] # None /\ tag = held[c].tag
    BY DEF Held
  <2>2. call'[c].pc = "fresh" => call'[c].msg \in Time
    BY <1>1, GetFeedEffect, AlertsApiAssumption DEF Request, Fresh, TypeOK, CacheEntry
  <2> QED BY <1>1, <2>1, <2>2, GetFeedEffect DEF Request
<1>2. ASSUME NEW c \in Call, NotModified(c) PROVE RequestInv'
  BY <1>2 DEF NotModified, Reply, vars
<1>3. ASSUME NEW c \in Call, Proceed(c) PROVE RequestInv'
  <2>1. call'[c].pc = "fresh" => call'[c].msg \in Time
    BY <1>3, GetFeedEffect, AlertsApiAssumption DEF Proceed, Fresh, TypeOK, CacheEntry
  <2> QED BY <1>3, <2>1, GetFeedEffect DEF Proceed
<1>4. ASSUME NEW c \in Call, Send(c) PROVE RequestInv'
  BY <1>4 DEF Send, Reply, vars, Copy
<1>5. ASSUME NEW c \in Call, Unavailable(c) PROVE RequestInv'
  BY <1>5 DEF Unavailable, Reply, vars
<1>6. ASSUME NEW c \in Call, Finally(c), UNCHANGED handlerVars PROVE RequestInv'
  <2>1. ASSUME NEW d \in Call
        PROVE  /\ call'[d].feed = call[d].feed
               /\ call'[d].pc = "idle" => call[d].pc = "idle"
               /\ call'[d].pc \in {"fresh", "stale"} => call'[d] = call[d]
    BY <1>6, FinallyEffect DEF Woken
  <2> QED BY <1>6, <2>1 DEF handlerVars
<1>7. ASSUME NEW c \in Call, Return(c) \/ Retry(c) \/ GiveUp(c), UNCHANGED handlerVars
      PROVE  RequestInv'
  <2>1. Return(c) => call[c].msg \in Time
    BY <1>7, ContinuationEffect DEF AgeInv
  <2> QED BY <1>7, <2>1, ContinuationEffect DEF handlerVars
<1>8. ASSUME NEW c \in Call, Read(c) \/ Decode(c) \/ Fail(c), UNCHANGED handlerVars
      PROVE  RequestInv'
  BY <1>8 DEF Read, Decode, Fail, handlerVars
<1>9. CASE Tick /\ UNCHANGED handlerVars
  BY <1>9 DEF Tick, handlerVars
<1>10. CASE UNCHANGED allVars
  BY <1>10 DEF allVars, vars, handlerVars
<1> QED BY <1>1, <1>2, <1>3, <1>4, <1>5, <1>6, <1>7, <1>8, <1>9, <1>10
        DEF ApiNext, HandlerStep, CacheStep

\* Time does not pass between the answer of getFeed and that of the handler.
LEMMA FreshStep == ApiInv /\ [ApiNext]_allVars => FreshInv'
<1> SUFFICES ASSUME ApiInv, [ApiNext]_allVars PROVE FreshInv'
  OBVIOUS
<1>0. IInv /\ TypeOK /\ ApiTypeOK /\ RequestInv /\ FreshInv /\ FreshnessBound
  BY BoundFromInv DEF ApiInv, IInv
<1> USE <1>0 DEF ApiTypeOK, FreshInv
<1>1. ASSUME NEW c \in Call, NEW q \in Query, NEW tag \in Held(c), Request(c, q, tag)
      PROVE  FreshInv'
  BY <1>1, GetFeedEffect, AlertsApiAssumption DEF Request, FreshnessBound
<1>2. ASSUME NEW c \in Call, NotModified(c) \/ Send(c) \/ Unavailable(c) PROVE FreshInv'
  BY <1>2 DEF NotModified, Send, Unavailable, Reply, vars
<1>3. ASSUME NEW c \in Call, Proceed(c) PROVE FreshInv'
  BY <1>3, GetFeedEffect, AlertsApiAssumption DEF Proceed, FreshnessBound
<1>4. ASSUME NEW c \in Call, Finally(c), UNCHANGED handlerVars PROVE FreshInv'
  <2>1. \A d \in Call : call'[d].pc = "fresh" => call'[d] = call[d]
    BY <1>4, FinallyEffect DEF Woken
  <2> QED BY <1>4, <2>1 DEF Finally, handlerVars
<1>5. ASSUME NEW c \in Call, Return(c) \/ Retry(c) \/ GiveUp(c), UNCHANGED handlerVars
      PROVE  FreshInv'
  <2>1. Return(c) => now - call[c].msg < Ttl[AlertsFeed] + Timeout
    <3>1. Return(c) => call[c].msg \in Nat /\ now \in Nat /\ now - call[c].msg <= Timeout
      BY <1>5, ContinuationEffect, CacheAssumption DEF FreshnessBound, IInv, AgeInv, TypeOK, Time
    <3> QED BY <3>1, CacheAssumption, AlertsApiAssumption
  <2> QED BY <1>5, <2>1, ContinuationEffect DEF handlerVars
<1>6. ASSUME NEW c \in Call, Read(c) \/ Decode(c) \/ Fail(c), UNCHANGED handlerVars
      PROVE  FreshInv'
  BY <1>6 DEF Read, Decode, Fail, handlerVars
<1>7. CASE HandlersQuiet /\ Tick /\ UNCHANGED handlerVars
  BY <1>7 DEF HandlersQuiet, Answered, Tick, handlerVars
<1>8. CASE UNCHANGED allVars
  BY <1>8 DEF allVars, vars, handlerVars
<1> QED BY <1>1, <1>2, <1>3, <1>4, <1>5, <1>6, <1>7, <1>8
        DEF ApiNext, HandlerStep, CacheStep

\* Nothing is decoded while a message waits to be sent, so it is still the cached one.
LEMMA ForwardInvStep == ApiInv /\ [ApiNext]_allVars => ForwardInv'
<1> SUFFICES ASSUME ApiInv, [ApiNext]_allVars, AlertsFeed \notin failed'
             PROVE  \A c \in Call : ForwardOf(c)'
  BY DEF ForwardInv
<1> DEFINE A == AlertsFeed
<1>0. IInv /\ TypeOK /\ ApiTypeOK /\ RequestInv /\ NoFailureInv
  BY DEF ApiInv, IInv
<1>a. A \notin failed /\ \A c \in Call : ForwardOf(c)
  <2>1. failed \subseteq failed'
    BY CacheSteps DEF Next, vars, Hit, Join, Start, StartFetch, Read, Decode, Fail, Finally,
                      Return, Retry, GiveUp, Tick
  <2> QED BY <2>1 DEF ApiInv, ForwardInv, ForwardOf
<1>b. Latest' >= Latest /\ Latest \in Nat /\ Latest' \in Nat
  <2>1. cache[A] # None => cache'[A] # None /\ cache'[A].msg >= cache[A].msg
    BY <1>0, <1>a, CacheSteps, ForwardStep, AlertsApiAssumption
  <2>2. TypeOK'
    BY <1>0, CacheSteps, IInvStep DEF IInv
  <2>3. /\ cache[A] # None => cache[A].msg \in Nat
        /\ cache'[A] # None => cache'[A].msg \in Nat
    BY <1>0, <2>2, AlertsApiAssumption DEF TypeOK, CacheEntry, Time
  <2>4. /\ cache[A] # None => Stamp(cache[A].msg) \in Nat
        /\ cache'[A] # None => Stamp(cache'[A].msg) \in Nat
    BY <2>3, StampIs, AlertsApiAssumption
  <2>5. cache[A] # None => Stamp(cache[A].msg) <= Stamp(cache'[A].msg)
    BY <2>1, <2>3, StampMonotone
  <2> QED BY <2>1, <2>4, <2>5 DEF Latest
<1>c. \A c \in Call : held[c] # None => held[c].stamp \in Nat
  BY <1>0, ResponseIs, AlertsApiAssumption DEF ApiTypeOK
<1>d. \A c \in Call : held[c] # None => held[c].stamp <= Latest'
  BY <1>a, <1>b, <1>c DEF ForwardOf
<1> USE <1>0, <1>a, <1>d, AlertsApiAssumption DEF ApiTypeOK, ForwardOf
<1>1. ASSUME NEW c \in Call, NEW q \in Query, NEW tag \in Held(c), Request(c, q, tag)
      PROVE  \A d \in Call : ForwardOf(d)'
  BY <1>1, GetFeedEffect DEF Request, Fresh
<1>2. ASSUME NEW c \in Call, NotModified(c) \/ Unavailable(c)
      PROVE  \A d \in Call : ForwardOf(d)'
  BY <1>2 DEF NotModified, Unavailable, Reply, vars
<1>3. ASSUME NEW c \in Call, Proceed(c) PROVE \A d \in Call : ForwardOf(d)'
  BY <1>3, GetFeedEffect DEF Proceed, Fresh
<1>4. ASSUME NEW c \in Call, Send(c) PROVE \A d \in Call : ForwardOf(d)'
  <2>1. UNCHANGED vars /\ Latest' = Latest
    BY <1>4 DEF Send, Reply, vars, Latest
  <2>2. held'[c].stamp = Stamp(call[c].msg)
    BY <1>4 DEF Send, Copy
  <2>3. Stamp(call[c].msg) = Latest
    BY <1>4 DEF Send, GotFeed, Latest
  <2>4. \A d \in Call : held'[d] # None => held'[d].stamp <= Latest'
    BY <1>4, <1>b, <2>1, <2>2, <2>3 DEF Send
  <2> QED BY <1>4, <2>1, <2>4 DEF Send, Reply, vars
<1>5. ASSUME NEW c \in Call, Finally(c), UNCHANGED handlerVars
      PROVE  \A d \in Call : ForwardOf(d)'
  <2>1. call[c].feed = A /\ fetch[c].st = "ok"
    BY <1>5, AlertsFetch DEF Finally, Live, NoFailureInv
  <2> SUFFICES ASSUME NEW d \in Call PROVE ForwardOf(d)'
    OBVIOUS
  <2>2. cache'[A] # None /\ cache' = cache /\ cache[A].msg = fetch[c].msg
    BY <1>5, <2>1 DEF Finally
  <2>3. CASE call[d].pc \in Awaiting /\ call[d].on = c
    BY <1>5, <2>1, <2>2, <2>3, FinallyEffect DEF handlerVars, Woken
  <2>4. CASE ~(call[d].pc \in Awaiting /\ call[d].on = c)
    BY <1>5, <2>1, <2>2, <2>4, FinallyEffect DEF handlerVars
  <2> QED BY <2>3, <2>4
<1>6. ASSUME NEW c \in Call, Return(c) \/ Retry(c) \/ GiveUp(c), UNCHANGED handlerVars
      PROVE  \A d \in Call : ForwardOf(d)'
  BY <1>6, ContinuationEffect DEF handlerVars
<1>7. ASSUME NEW c \in Call, Read(c), UNCHANGED handlerVars
      PROVE  \A d \in Call : ForwardOf(d)'
  BY <1>7 DEF Read, handlerVars, TypeOK, FetchState
<1>8. ASSUME NEW c \in Call, HandlersQuiet, Decode(c), UNCHANGED handlerVars
      PROVE  \A d \in Call : ForwardOf(d)'
  <2>1. call[c].feed = A
    BY <1>8, AlertsFetch DEF Decode, Live
  <2>2. cache'[A].msg = fetch'[c].msg /\ cache'[A] # None
    BY <1>8, <2>1, CacheAssumption DEF Decode, TypeOK, FetchState, Time
  <2>3. \A d \in Call : call'[d].pc \notin Woken /\ (step'[d] # "idle" => call'[d].pc \notin Answered)
    BY <1>8 DEF Decode, Quiet, HandlersQuiet, handlerVars
  <2>4. \A d \in Call \ {c} : fetch'[d].st # "ok"
    BY <1>8 DEF Decode, Quiet
  <2> QED BY <1>8, <2>2, <2>3, <2>4 DEF handlerVars, Woken, Answered
<1>9. ASSUME NEW c \in Call, Fail(c) PROVE FALSE
  BY <1>9, AlertsFetch DEF Fail, Live, InFlight
<1>10. CASE Tick /\ UNCHANGED handlerVars
  BY <1>10 DEF Tick, handlerVars
<1>11. CASE UNCHANGED allVars
  BY <1>11 DEF allVars, vars, handlerVars
<1> QED BY <1>1, <1>2, <1>3, <1>4, <1>5, <1>6, <1>7, <1>8, <1>9, <1>10, <1>11
        DEF ApiNext, HandlerStep, CacheStep

\* Every step of the API keeps the invariant.
LEMMA ApiInvStep == ApiInv /\ [ApiNext]_allVars => ApiInv'
  BY CacheSteps, IInvStep, ApiTypeStep, RequestStep, FreshStep, ForwardInvStep DEF ApiInv

-----------------------------------------------------------------------------
(* The theorems. *)

\* The inductive invariant of the cache and the handlers on top of it.
THEOREM ApiInductive == ApiSpec => []ApiInv
  BY ApiInvInit, ApiInvStep, PTL DEF ApiSpec

\* Every copy a client holds and every ETag it sends is that of a publication and a
\* query (alerts.routes.ts:25-37).
THEOREM ApiTypeCorrect == ApiSpec => []ApiTypeOK
<1>1. ApiInv => ApiTypeOK
  BY DEF ApiInv
<1> QED BY <1>1, ApiInductive, PTL

\* A 304 means what it says, across queries and restarts, unless just one of the two
\* queries has a list of routes that names none, or both have a `|`
\* (alerts.routes.ts:29-33, 97-109).
THEOREM NotModifiedIsSound == ApiSpec => NotModifiedSound
<1> DEFINE Sound == \A c \in Call :
              /\ Sends304(c)
              /\ NamesNoRoute(query[c]) <=> NamesNoRoute(held[c].query)
              /\ ~NamesBar(query[c]) \/ ~NamesBar(held[c].query)
              => GetAlerts(query[c], AlertsAt[Stamp(call[c].msg)]) = Alerts(held[c])
<1>1. ApiInv /\ [ApiNext]_allVars => [Sound]_allVars
  <2> SUFFICES ASSUME ApiInv, ApiNext, NEW c \in Call, Sends304(c),
                      NamesNoRoute(query[c]) <=> NamesNoRoute(held[c].query),
                      ~NamesBar(query[c]) \/ ~NamesBar(held[c].query)
               PROVE  GetAlerts(query[c], AlertsAt[Stamp(call[c].msg)]) = Alerts(held[c])
    OBVIOUS
  <2>0. held[c] # None /\ held[c] \in Response
    BY DEF ApiInv, ApiTypeOK, RequestInv, Sends304
  <2>1. EtagFor(Stamp(call[c].msg), query[c]) = EtagFor(held[c].stamp, held[c].query)
    BY <2>0, Only304, ResponseIs DEF ApiInv, RequestInv, Unchanged, Sends304
  <2>2. Stamp(call[c].msg) = held[c].stamp /\ QueryKey(query[c]) = QueryKey(held[c].query)
    BY <2>1 DEF EtagFor
  <2>3. query[c] \in AlertFilter /\ held[c].query \in AlertFilter
    BY <2>0, AlertsApiAssumption, ResponseIs DEF ApiInv, RequestInv, Sends304
  <2> QED BY <2>2, <2>3, KeyDeterminesAlerts DEF Alerts
<1> QED BY <1>1, ApiInductive, PTL DEF ApiSpec, NotModifiedSound

\* A 304 never rests on a snapshot older than a fresh answer may be, however long
\* upstream has been failing (alerts.routes.ts:104-106).
THEOREM NotModifiedIsFresh == ApiSpec => NotModifiedFresh
<1> DEFINE Young == \A c \in Call :
              Sends304(c) => now - call[c].msg < Ttl[AlertsFeed] + Timeout
<1>1. ApiInv /\ [ApiNext]_allVars => [Young]_allVars
  <2> SUFFICES ASSUME ApiInv, ApiNext, NEW c \in Call, Sends304(c)
               PROVE  now - call[c].msg < Ttl[AlertsFeed] + Timeout
    OBVIOUS
  <2> QED BY Only304 DEF ApiInv, FreshInv, Unchanged, Sends304
<1> QED BY <1>1, ApiInductive, PTL DEF ApiSpec, NotModifiedFresh

\* Until a fetch of the feed fails, no client is sent an earlier publication than the
\* one it has, though the payload comes from a second getFeed (alerts.routes.ts:104-116).
THEOREM CopiesOnlyMoveForward == ApiSpec => CopiesMoveForward
<1> DEFINE Forward == \A c \in Call : held[c] # None /\ AlertsFeed \notin failed =>
              held'[c].stamp >= held[c].stamp
<1>1. ApiInv /\ [ApiNext]_allVars => [Forward]_allVars
  <2> SUFFICES ASSUME ApiInv, ApiNext, NEW c \in Call, held[c] # None, AlertsFeed \notin failed
               PROVE  held'[c].stamp >= held[c].stamp
    OBVIOUS
  <2>1. held[c].stamp \in Nat /\ held[c].stamp <= Latest /\ ForwardOf(c)
    BY AlertsApiAssumption, ResponseIs DEF ApiInv, ApiTypeOK, ForwardInv, ForwardOf
  <2>2. CASE Send(c)
    <3>1. held'[c].stamp = Stamp(call[c].msg)
      BY <2>2 DEF Send, Copy, ApiInv, ApiTypeOK
    <3>2. Stamp(call[c].msg) = Latest
      BY <2>1, <2>2 DEF Send, GotFeed, Latest, ForwardOf
    <3> QED BY <2>1, <3>1, <3>2
  <2>3. CASE ~Send(c)
    <3>1. held'[c] = held[c]
      BY <2>3 DEF ApiNext, Request, HandlerStep, NotModified, Proceed, Send, Unavailable,
                  Reply, CacheStep, handlerVars, ApiInv, ApiTypeOK
    <3> QED BY <2>1, <3>1
  <2> QED BY <2>2, <2>3
<1> QED BY <1>1, ApiInductive, PTL DEF ApiSpec, CopiesMoveForward
=============================================================================
