--------------------------- MODULE ScheduleProofs ---------------------------
(***************************************************************************)
(* Boards and trips, for every timetable and every request.                *)
(***************************************************************************)
EXTENDS QueriesProofs, WellFoundedInduction

-----------------------------------------------------------------------------
(* ORDER BY. *)

\* B is the set of predecessors of each member of S, by a strict total order.
TotalOrder(S, B) ==
    /\ B \in [S -> SUBSET S]
    /\ \A x \in S : x \notin B[x]
    /\ \A x, y \in S : x # y => x \in B[y] \/ y \in B[x]
    /\ \A x, y, z \in S : x \in B[y] /\ y \in B[z] => x \in B[z]

\* The list of the members of S in that order.
InOrder(list, S, B) ==
    /\ list \in [1..Cardinality(S) -> S]
    /\ \A x \in S : \E n \in 1..Cardinality(S) : list[n] = x
    /\ \A m, n \in 1..Cardinality(S) : list[m] = list[n] => m = n
    /\ \A m, n \in 1..Cardinality(S) : m < n <=> list[m] \in B[list[n]]

\* In a total order of a finite set every member has a rank of its own, the number
\* of its predecessors, and every rank is taken.
LEMMA Ranks ==
    ASSUME NEW S, IsFiniteSet(S), NEW B, TotalOrder(S, B)
    PROVE  /\ Cardinality(S) \in Nat
           /\ \A x \in S : Cardinality(B[x]) \in 0..(Cardinality(S) - 1)
           /\ \A x, y \in S : x \in B[y] <=> Cardinality(B[x]) < Cardinality(B[y])
           /\ \A x, y \in S : Cardinality(B[x]) = Cardinality(B[y]) => x = y
           /\ \A n \in 1..Cardinality(S) : \E x \in S : Cardinality(B[x]) = n - 1
  <1>1. Cardinality(S) \in Nat
    BY FS_CardinalityType
  <1>2. ASSUME NEW x \in S PROVE IsFiniteSet(B[x]) /\ Cardinality(B[x]) \in Nat
    <2>1. B[x] \in SUBSET S
      BY DEF TotalOrder
    <2> QED
      BY <2>1, FS_Subset, FS_CardinalityType
  <1>3. ASSUME NEW x \in S, NEW y \in S, x \in B[y]
        PROVE  Cardinality(B[x]) < Cardinality(B[y])
    <2>1. B[x] \in SUBSET B[y] /\ B[x] # B[y]
      BY <1>3 DEF TotalOrder
    <2>2. Cardinality(B[x]) <= Cardinality(B[y]) /\ Cardinality(B[x]) # Cardinality(B[y])
      BY <1>2, <2>1, FS_Subset
    <2> QED
      BY <1>2, <2>2
  <1>4. ASSUME NEW x \in S PROVE Cardinality(B[x]) \in 0..(Cardinality(S) - 1)
    <2>1. B[x] \in SUBSET S /\ B[x] # S
      BY DEF TotalOrder
    <2>2. Cardinality(B[x]) <= Cardinality(S) /\ Cardinality(B[x]) # Cardinality(S)
      BY <2>1, FS_Subset
    <2> QED
      BY <1>1, <1>2, <2>2
  <1>5. \A x, y \in S : x # y => x \in B[y] \/ y \in B[x]
    BY DEF TotalOrder
  <1>6. \A x, y \in S : Cardinality(B[x]) = Cardinality(B[y]) => x = y
    BY <1>2, <1>3, <1>5
  <1>7. \A x, y \in S : x \in B[y] <=> Cardinality(B[x]) < Cardinality(B[y])
    BY <1>2, <1>3, <1>5
  <1>8. ASSUME NEW n \in 1..Cardinality(S) PROVE \E x \in S : Cardinality(B[x]) = n - 1
    <2> DEFINE rank == [x \in S |-> Cardinality(B[x])]
               R == 0..(Cardinality(S) - 1)
    <2>1. rank \in [S -> R]
      BY <1>4
    <2>2. rank \in Injection(S, R)
      BY <1>6, <2>1 DEF Injection, IsInjective
    <2>3. IsFiniteSet(R) /\ Cardinality(R) = Cardinality(S)
      <3>1. 0 \in Int /\ Cardinality(S) - 1 \in Int
        BY <1>1
      <3>2. /\ IsFiniteSet(0..(Cardinality(S) - 1))
            /\ Cardinality(0..(Cardinality(S) - 1)) =
                 IF 0 > Cardinality(S) - 1 THEN 0 ELSE Cardinality(S) - 1 - 0 + 1
        BY <3>1, FS_Interval
      <3> QED
        BY <1>1, <3>2
    <2>4. rank \in Surjection(S, R)
      BY <2>2, <2>3, FS_Injection
    <2>5. n - 1 \in R
      BY <1>1
    <2>6. \E x \in S : rank[x] = n - 1
      BY <2>4, <2>5 DEF Surjection
    <2> QED
      BY <2>6
  <1> QED
    BY <1>1, <1>4, <1>6, <1>7, <1>8

\* What OrderBy chooses by ranks is in order.
LEMMA OrderedByRank ==
    ASSUME NEW S, IsFiniteSet(S), NEW B, TotalOrder(S, B),
           NEW list, DOMAIN list = 1..Cardinality(S),
           list = [n \in DOMAIN list |-> list[n]],
           \A n \in DOMAIN list :
               list[n] = CHOOSE x \in S : Cardinality(B[x]) = n - 1
    PROVE  InOrder(list, S, B) /\ Len(list) = Cardinality(S)
  <1>1. \A n \in 1..Cardinality(S) : list[n] \in S /\ Cardinality(B[list[n]]) = n - 1
    BY Ranks
  <1>2. list \in [1..Cardinality(S) -> S]
    BY <1>1
  <1>3. Cardinality(S) \in Nat
    BY Ranks
  <1>4. \A m, n \in 1..Cardinality(S) : m < n <=> list[m] \in B[list[n]]
    BY <1>1, <1>3, Ranks
  <1>5. \A m, n \in 1..Cardinality(S) : list[m] = list[n] => m = n
    BY <1>1, <1>3
  <1>6. ASSUME NEW x \in S PROVE \E n \in 1..Cardinality(S) : list[n] = x
    <2>1. Cardinality(B[x]) + 1 \in 1..Cardinality(S)
      BY <1>3, Ranks
    <2>2. Cardinality(B[list[Cardinality(B[x]) + 1]]) = Cardinality(B[x])
      BY <1>1, <2>1, Ranks
    <2> QED
      BY <1>1, <2>1, <2>2, Ranks
  <1>7. Len(list) = Cardinality(S)
    BY <1>2, <1>3
  <1> QED
    BY <1>2, <1>4, <1>5, <1>6, <1>7 DEF InOrder

\* The lexicographic order of numbers.
LEMMA PrecedesOne ==
    \A a, b \in Int : Precedes(<<a>>, <<b>>) <=> a < b
  <1> SUFFICES ASSUME NEW a \in Int, NEW b \in Int
               PROVE  Precedes(<<a>>, <<b>>) <=> a < b
    OBVIOUS
  <1>1. DOMAIN <<a>> = {1} /\ <<a>>[1] = a /\ <<b>>[1] = b
    OBVIOUS
  <1>2. \A j \in 1..(1 - 1) : FALSE
    OBVIOUS
  <1> QED
    BY <1>1, <1>2 DEF Precedes

LEMMA PrecedesThree ==
    ASSUME NEW k \in Int \X Int \X Int, NEW l \in Int \X Int \X Int
    PROVE  Precedes(k, l) <=>
               \/ k[1] < l[1]
               \/ k[1] = l[1] /\ k[2] < l[2]
               \/ k[1] = l[1] /\ k[2] = l[2] /\ k[3] < l[3]
  BY DEF Precedes

LEMMA PrecedesFour ==
    ASSUME NEW k \in Int \X Int \X Int \X Int, NEW l \in Int \X Int \X Int \X Int
    PROVE  Precedes(k, l) <=>
               \/ k[1] < l[1]
               \/ k[1] = l[1] /\ k[2] < l[2]
               \/ k[1] = l[1] /\ k[2] = l[2] /\ k[3] < l[3]
               \/ k[1] = l[1] /\ k[2] = l[2] /\ k[3] = l[3] /\ k[4] < l[4]
  BY DEF Precedes

LEMMA PrecedesSix ==
    ASSUME NEW k \in Int \X Int \X Int \X Int \X Int \X Int,
           NEW l \in Int \X Int \X Int \X Int \X Int \X Int
    PROVE  Precedes(k, l) <=>
               \/ k[1] < l[1]
               \/ k[1] = l[1] /\ k[2] < l[2]
               \/ k[1] = l[1] /\ k[2] = l[2] /\ k[3] < l[3]
               \/ k[1] = l[1] /\ k[2] = l[2] /\ k[3] = l[3] /\ k[4] < l[4]
               \/ /\ k[1] = l[1] /\ k[2] = l[2] /\ k[3] = l[3] /\ k[4] = l[4]
                  /\ k[5] < l[5]
               \/ /\ k[1] = l[1] /\ k[2] = l[2] /\ k[3] = l[3] /\ k[4] = l[4]
                  /\ k[5] = l[5] /\ k[6] < l[6]
  BY DEF Precedes
-----------------------------------------------------------------------------
(* Legs. *)

LEMMA LegFields ==
    ASSUME NEW d, DatabaseOK(d), NEW date, NEW l \in Legs(d, date)
    PROVE  /\ l = [board |-> l.board, alight |-> l.alight]
           /\ l.board \in d.stopTimes /\ l.alight \in d.stopTimes
           /\ l.board.trip \in Nat /\ l.board.seq \in Nat /\ l.board.dep \in Nat
           /\ l.alight.trip = l.board.trip /\ l.alight.seq \in Nat
           /\ l.alight.arr \in Nat \cup {NULL}
           /\ l.board.seq < l.alight.seq
  <1>1. l \in [board : d.stopTimes, alight : d.stopTimes]
    BY DEF Legs
  <1> QED
    BY <1>1 DEF Legs, DatabaseOK

LEMMA LegsFinite ==
    ASSUME NEW d, DatabaseOK(d), NEW date
    PROVE  IsFiniteSet(Legs(d, date))
  <1> DEFINE f == [l \in Legs(d, date) |-> <<l.board, l.alight>>]
             T == d.stopTimes \X d.stopTimes
  <1>1. IsFiniteSet(T)
    BY FS_Product DEF DatabaseOK
  <1>2. f \in [Legs(d, date) -> T]
    BY LegFields
  <1>3. ASSUME NEW x \in Legs(d, date), NEW y \in Legs(d, date), f[x] = f[y] PROVE x = y
    <2>1. x.board = y.board /\ x.alight = y.alight
      BY <1>3
    <2> QED
      BY <2>1, LegFields
  <1>4. f \in Injection(Legs(d, date), T)
    BY <1>2, <1>3 DEF Injection, IsInjective
  <1> HIDE DEF f, T
  <1> QED
    BY <1>1, <1>4, FS_Injection

\* The departures before each of a set of legs, in the order of the queries.
LegsBefore(S) == [l \in S |-> {m \in S : Precedes(LegKey(m), LegKey(l))}]

\* What a query returns is in the order of departures.
LEMMA LegOrder ==
    ASSUME NEW d, DatabaseOK(d), NEW date, NEW S \in SUBSET Legs(d, date)
    PROVE  /\ IsFiniteSet(S)
           /\ InOrder(OrderBy(S, LegKey), S, LegsBefore(S))
           /\ Len(OrderBy(S, LegKey)) = Cardinality(S)
           /\ \A l, m \in S : l \in LegsBefore(S)[m] => l.board.dep <= m.board.dep
  <1> DEFINE B == LegsBefore(S)
             list == OrderBy(S, LegKey)
  <1>1. IsFiniteSet(S)
    BY LegsFinite, FS_Subset
  <1>2. ASSUME NEW l \in S, NEW m \in S
        PROVE  l \in B[m] <=>
                 \/ l.board.dep < m.board.dep
                 \/ l.board.dep = m.board.dep /\ l.board.trip < m.board.trip
                 \/ /\ l.board.dep = m.board.dep /\ l.board.trip = m.board.trip
                    /\ l.board.seq < m.board.seq
                 \/ /\ l.board.dep = m.board.dep /\ l.board.trip = m.board.trip
                    /\ l.board.seq = m.board.seq /\ l.alight.seq < m.alight.seq
    <2>1. /\ l.board.dep \in Int /\ l.board.trip \in Int /\ l.board.seq \in Int
          /\ l.alight.seq \in Int
          /\ m.board.dep \in Int /\ m.board.trip \in Int /\ m.board.seq \in Int
          /\ m.alight.seq \in Int
      BY LegFields
    <2>2. l \in B[m] <=> Precedes(LegKey(l), LegKey(m))
      BY DEF LegsBefore
    <2>3. LegKey(l) \in Int \X Int \X Int \X Int /\ LegKey(m) \in Int \X Int \X Int \X Int
      BY <2>1 DEF LegKey
    <2>4. /\ LegKey(l)[1] = l.board.dep /\ LegKey(l)[2] = l.board.trip
          /\ LegKey(l)[3] = l.board.seq /\ LegKey(l)[4] = l.alight.seq
          /\ LegKey(m)[1] = m.board.dep /\ LegKey(m)[2] = m.board.trip
          /\ LegKey(m)[3] = m.board.seq /\ LegKey(m)[4] = m.alight.seq
      BY DEF LegKey
    <2> HIDE DEF B
    <2> QED
      BY <2>2, <2>3, <2>4, PrecedesFour
  <1>3. ASSUME NEW l \in S, NEW m \in S,
               l.board.trip = m.board.trip, l.board.seq = m.board.seq, l.alight.seq = m.alight.seq
        PROVE  l = m
    <2>1. l.board = m.board /\ l.alight = m.alight
      BY <1>3, LegFields DEF DatabaseOK
    <2> QED
      BY <2>1, LegFields
  <1>4. \A l \in S : /\ l.board.dep \in Nat /\ l.board.trip \in Nat /\ l.board.seq \in Nat
                    /\ l.alight.seq \in Nat
    BY LegFields
  <1>5. B \in [S -> SUBSET S]
    BY DEF LegsBefore
  <1>6. TotalOrder(S, B)
    <2> HIDE DEF B
    <2>1. \A l \in S : l \notin B[l]
      BY <1>2, <1>4
    <2>2. \A l, m \in S : l # m => l \in B[m] \/ m \in B[l]
      BY <1>2, <1>3, <1>4
    <2>3. \A l, m, o \in S : l \in B[m] /\ m \in B[o] => l \in B[o]
      BY <1>2, <1>4
    <2> QED
      BY <1>5, <2>1, <2>2, <2>3 DEF TotalOrder
  <1>7. DOMAIN list = 1..Cardinality(S) /\ list = [n \in DOMAIN list |-> list[n]]
    BY DEF OrderBy
  <1>8. \A x \in S : B[x] = {y \in S : Precedes(LegKey(y), LegKey(x))}
    BY DEF LegsBefore
  <1>9. \A n \in DOMAIN list : list[n] = CHOOSE x \in S : Cardinality(B[x]) = n - 1
    BY <1>7, <1>8 DEF OrderBy
  <1>10. InOrder(list, S, B) /\ Len(list) = Cardinality(S)
    <2> HIDE DEF list, B
    <2> QED
      BY <1>1, <1>6, <1>7, <1>9, OrderedByRank
  <1> QED
    BY <1>1, <1>2, <1>4, <1>10

-----------------------------------------------------------------------------
(* The least of a set, and the first of a list. *)

\* Any set of naturals that is not empty has a least element.
LEMMA MinIs ==
    ASSUME NEW S \in SUBSET Nat, S # {}
    PROVE  Min(S) \in S /\ \A n \in S : Min(S) <= n
  <1> DEFINE Below == {p \in Nat \X Nat : p[1] < p[2]}
  <1>1. IsWellFoundedOn(Below, Nat)
    BY NatLessThanWellFounded DEF OpToRel
  <1>2. PICK m \in S : \A n \in S : <<n, m>> \notin Below
    <2> HIDE DEF Below
    <2> QED
      BY <1>1, WFMin
  <1>3. ASSUME NEW n \in S PROVE m <= n
    <2>1. ~(n < m)
      BY <1>2
    <2> QED
      BY <2>1
  <1> QED
    BY <1>3 DEF Min

LEMMA TakeIs ==
    ASSUME NEW N \in Nat, NEW s, DOMAIN s = 1..N, Len(s) = N, NEW n \in Nat
    PROVE  /\ Take(s, n) = [i \in 1..(IF n <= N THEN n ELSE N) |-> s[i]]
           /\ Len(Take(s, n)) = IF n <= N THEN n ELSE N
  <1>1. Min({n, Len(s)}) = IF n <= N THEN n ELSE N
    BY MinOfTwo
  <1>2. Take(s, n) = [i \in 1..(IF n <= N THEN n ELSE N) |-> s[i]]
    BY <1>1 DEF Take
  <1> QED
    BY <1>2

\* The departures of one date from one platform that a page may need.
Boarding(d, from, to, date, after) ==
    {l \in Legs(d, date) : /\ l.board.stop = from
                           /\ l.alight.stop \in to
                           /\ l.board.dep >= after}

\* The query returns them in order; one that is cut off leaves as many before it as
\* the page has room for.
LEMMA RowsOf ==
    ASSUME NEW d, DatabaseOK(d), NEW from, NEW to, NEW date, NEW after,
           NEW limit \in Nat \ {0}
    PROVE  LET rows == GetScheduledDepartures(d, from, to, date, after, limit)
               S == Boarding(d, from, to, date, after)
           IN  /\ Len(rows) \in 0..limit
               /\ rows \in [1..Len(rows) -> S]
               /\ \A m, n \in 1..Len(rows) : rows[m] = rows[n] => m = n
               /\ \A m, n \in 1..Len(rows) : m < n => rows[m].board.dep <= rows[n].board.dep
               /\ \A l \in S : \/ \E n \in 1..Len(rows) : rows[n] = l
                               \/ /\ Len(rows) = limit
                                  /\ \A n \in 1..limit : rows[n].board.dep <= l.board.dep
  <1> DEFINE S == Boarding(d, from, to, date, after)
             list == OrderBy(S, LegKey)
             rows == GetScheduledDepartures(d, from, to, date, after, limit)
             N == Cardinality(S)
  <1>1. S \in SUBSET Legs(d, date)
    BY DEF Boarding
  <1>2. /\ IsFiniteSet(S) /\ InOrder(list, S, LegsBefore(S)) /\ Len(list) = N
        /\ \A l, m \in S : l \in LegsBefore(S)[m] => l.board.dep <= m.board.dep
    <2> HIDE DEF S
    <2> QED
      BY <1>1, LegOrder
  <1>3. N \in Nat
    BY <1>2, FS_CardinalityType
  <1>4. rows = Take(list, limit)
    BY DEF GetScheduledDepartures, Boarding
  <1> HIDE DEF S, list, rows
  <1>5. list \in [1..N -> S]
    BY <1>2 DEF InOrder
  <1> DEFINE k == IF limit <= N THEN limit ELSE N
  <1>6. rows = [i \in 1..k |-> list[i]] /\ Len(rows) = k
    <2>1. DOMAIN list = 1..N /\ Len(list) = N
      BY <1>2, <1>5
    <2> HIDE DEF N
    <2> QED
      BY <1>3, <1>4, <2>1, TakeIs
  <1>7. k \in 0..limit /\ k \in 0..N
    BY <1>3
  <1>8. rows \in [1..Len(rows) -> S]
    BY <1>3, <1>5, <1>6, <1>7
  <1>9. \A m, n \in 1..Len(rows) : rows[m] = rows[n] => m = n
    BY <1>2, <1>3, <1>6, <1>7 DEF InOrder
  <1>10. ASSUME NEW l \in S, ~\E n \in 1..Len(rows) : rows[n] = l
         PROVE  Len(rows) = limit /\ \A n \in 1..limit : rows[n].board.dep <= l.board.dep
    <2>1. PICK m \in 1..N : list[m] = l
      BY <1>2 DEF InOrder
    <2>2. k < m /\ k = limit
      BY <1>3, <1>6, <1>7, <1>10, <2>1
    <2>3. ASSUME NEW n \in 1..limit PROVE rows[n].board.dep <= l.board.dep
      <3>1. n \in 1..N /\ n < m /\ rows[n] = list[n]
        BY <1>3, <1>6, <1>7, <2>1, <2>2
      <3>2. list[n] \in LegsBefore(S)[list[m]]
        BY <1>2, <2>1, <3>1 DEF InOrder
      <3> QED
        BY <1>2, <1>5, <2>1, <3>1, <3>2
    <2> QED
      BY <1>6, <2>2, <2>3
  <1>11. ASSUME NEW m \in 1..Len(rows), NEW n \in 1..Len(rows), m < n
         PROVE  rows[m].board.dep <= rows[n].board.dep
    <2>1. m \in 1..N /\ n \in 1..N /\ rows[m] = list[m] /\ rows[n] = list[n]
      BY <1>3, <1>6, <1>7
    <2>2. list[m] \in LegsBefore(S)[list[n]]
      BY <1>2, <1>11, <2>1 DEF InOrder
    <2> QED
      BY <1>2, <1>5, <2>1, <2>2
  <1> QED
    BY <1>6, <1>7, <1>8, <1>9, <1>10, <1>11 DEF S, rows

-----------------------------------------------------------------------------
(* The transfer search. *)

\* Places in their own order.
LEMMA PlacesInOrder ==
    ASSUME NEW N \in Nat, NEW S \in SUBSET (1..N)
    PROVE  LET B == [i \in S |-> {j \in S : j < i}]
               list == OrderBy(S, LAMBDA i : <<i>>)
           IN  IsFiniteSet(S) /\ InOrder(list, S, B) /\ Len(list) = Cardinality(S)
  <1> DEFINE B == [i \in S |-> {j \in S : j < i}]
             list == OrderBy(S, LAMBDA i : <<i>>)
  <1>1. IsFiniteSet(S)
    <2>1. IsFiniteSet(1..N)
      BY 1 \in Int, N \in Int, FS_Interval
    <2> QED
      BY <2>1, FS_Subset
  <1>2. TotalOrder(S, B)
    BY DEF TotalOrder
  <1>3. \A i \in S : B[i] = {j \in S : Precedes(<<j>>, <<i>>)}
    <2>1. \A i, j \in S : j < i <=> Precedes(<<j>>, <<i>>)
      <3>1. S \in SUBSET Int
        OBVIOUS
      <3> QED
        BY <3>1, PrecedesOne
    <2> QED
      BY <2>1
  <1> DEFINE at(n) == CHOOSE x \in S : Cardinality({y \in S : Precedes(<<y>>, <<x>>)}) = n - 1
  <1>4. list = [n \in 1..Cardinality(S) |-> at(n)]
    BY DEF OrderBy
  <1>5. ASSUME NEW n \in 1..Cardinality(S)
        PROVE  at(n) = CHOOSE x \in S : Cardinality(B[x]) = n - 1
    <2> HIDE DEF B
    <2> QED
      BY <1>3
  <1> HIDE DEF at, B, list
  <1>6. InOrder(list, S, B) /\ Len(list) = Cardinality(S)
    <2>1. DOMAIN list = 1..Cardinality(S) /\ list = [n \in DOMAIN list |-> list[n]]
      BY <1>4
    <2>2. \A n \in DOMAIN list : list[n] = CHOOSE x \in S : Cardinality(B[x]) = n - 1
      BY <1>4, <1>5
    <2> QED
      BY <1>1, <1>2, <2>1, <2>2, OrderedByRank
  <1> QED
    BY <1>1, <1>6 DEF B, list

\* The second leg taken is one that can be reached, and none arrives earlier.
LEMMA BestSecondIs ==
    ASSUME NEW d, NEW first, NEW bucket, DOMAIN bucket \in SUBSET Nat,
           \A i \in DOMAIN bucket : bucket[i].alight.arr \in Nat,
           Feasible(d, first, bucket) # {}
    PROVE  \E i \in Feasible(d, first, bucket) :
              /\ BestSecond(d, first, bucket) = bucket[i]
              /\ \A j \in Feasible(d, first, bucket) :
                    bucket[i].alight.arr <= bucket[j].alight.arr
  <1> DEFINE F == Feasible(d, first, bucket)
             arrivals == {bucket[i].alight.arr : i \in F}
             best == {i \in F : bucket[i].alight.arr = Min(arrivals)}
  <1>1. F \in SUBSET DOMAIN bucket
    BY DEF Feasible, Reached
  <1>2. BestSecond(d, first, bucket) = bucket[Min(best)]
    BY DEF BestSecond
  <1> HIDE DEF F
  <1>3. arrivals \in SUBSET Nat /\ arrivals # {}
    BY <1>1 DEF F
  <1>4. Min(arrivals) \in arrivals /\ \A n \in arrivals : Min(arrivals) <= n
    <2> HIDE DEF arrivals
    <2> QED
      BY <1>3, MinIs
  <1>5. best \in SUBSET Nat /\ best # {}
    BY <1>1, <1>4
  <1>6. Min(best) \in best
    <2> HIDE DEF best
    <2> QED
      BY <1>5, MinIs
  <1>7. \A j \in F : bucket[Min(best)].alight.arr <= bucket[j].alight.arr
    BY <1>4, <1>6
  <1> QED
    BY <1>2, <1>6, <1>7 DEF F

FirstTrip(journey) == journey.legs[1].board.trip

\* One journey is left per first train, and none over that train arrives earlier.
LEMMA BestByFirstLegIs ==
    ASSUME NEW N \in Nat, NEW journeys, DOMAIN journeys = 1..N,
           \A i \in 1..N : journeys[i].legs[2].alight.arr \in Nat
    PROVE  LET list == BestByFirstLeg(journeys)
           IN  /\ Len(list) \in Nat
               /\ list = [n \in 1..Len(list) |-> list[n]]
               /\ \A n \in 1..Len(list) : \E i \in 1..N : list[n] = journeys[i]
               /\ \A m, n \in 1..Len(list) : FirstTrip(list[m]) = FirstTrip(list[n]) => m = n
               /\ \A i \in 1..N : \E n \in 1..Len(list) :
                     /\ FirstTrip(list[n]) = FirstTrip(journeys[i])
                     /\ list[n].legs[2].alight.arr <= journeys[i].legs[2].alight.arr
  <1> DEFINE list == BestByFirstLeg(journeys)
             trip(i) == FirstTrip(journeys[i])
             arrival(i) == journeys[i].legs[2].alight.arr
             same(i) == {j \in 1..N : trip(j) = trip(i)}
             arrivals(i) == {arrival(j) : j \in same(i)}
             earliest(i) == {j \in same(i) : arrival(j) = Min(arrivals(i))}
             S == {i \in 1..N : i = Min(same(i))}
             met == OrderBy(S, LAMBDA i : <<i>>)
             M == Cardinality(S)
  <1>1. list = [n \in DOMAIN met |-> journeys[Min(earliest(met[n]))]]
    BY DEF BestByFirstLeg, FirstTrip
  <1>2. ASSUME NEW i \in 1..N
        PROVE  /\ Min(same(i)) \in same(i)
               /\ Min(earliest(i)) \in same(i)
               /\ \A j \in same(i) : arrival(Min(earliest(i))) <= arrival(j)
    <2>1. same(i) \in SUBSET Nat /\ same(i) # {}
      OBVIOUS
    <2>2. arrivals(i) \in SUBSET Nat /\ arrivals(i) # {}
      OBVIOUS
    <2>3. Min(arrivals(i)) \in arrivals(i) /\ \A a \in arrivals(i) : Min(arrivals(i)) <= a
      <3> HIDE DEF arrivals
      <3> QED
        BY <2>2, MinIs
    <2>4. earliest(i) \in SUBSET Nat /\ earliest(i) # {}
      <3>1. PICK j \in same(i) : arrival(j) = Min(arrivals(i))
        BY <2>3
      <3> QED
        BY <2>1, <3>1
    <2>5. Min(earliest(i)) \in earliest(i)
      <3> HIDE DEF earliest
      <3> QED
        BY <2>4, MinIs
    <2>6. Min(same(i)) \in same(i)
      <3> HIDE DEF same
      <3> QED
        BY <2>1, MinIs
    <2> QED
      BY <2>3, <2>5, <2>6
  <1>3. S \in SUBSET (1..N)
    OBVIOUS
  <1>4. /\ M \in Nat /\ met \in [1..M -> S]
        /\ \A x \in S : \E n \in 1..M : met[n] = x
        /\ \A m, n \in 1..M : met[m] = met[n] => m = n
    <2> HIDE DEF S
    <2>1. IsFiniteSet(S) /\ InOrder(met, S, [i \in S |-> {j \in S : j < i}])
      BY <1>3, PlacesInOrder
    <2> QED
      BY <2>1, FS_CardinalityType DEF InOrder
  <1>5. list = [n \in 1..M |-> journeys[Min(earliest(met[n]))]] /\ Len(list) = M
    <2>1. DOMAIN met = 1..M
      BY <1>4
    <2> HIDE DEF met, earliest, M
    <2> QED
      BY <1>1, <1>4, <2>1
  <1> HIDE DEF list, met, M
  <1>6. ASSUME NEW n \in 1..M
        PROVE  /\ met[n] \in 1..N /\ met[n] = Min(same(met[n]))
               /\ \E i \in 1..N : list[n] = journeys[i]
               /\ FirstTrip(list[n]) = trip(met[n])
               /\ \A j \in same(met[n]) : list[n].legs[2].alight.arr <= arrival(j)
    <2>1. met[n] \in 1..N /\ met[n] = Min(same(met[n]))
      BY <1>4
    <2>2. list[n] = journeys[Min(earliest(met[n]))]
      BY <1>5
    <2>3. Min(earliest(met[n])) \in same(met[n])
      <3> HIDE DEF earliest, same, arrival
      <3> QED
        BY <1>2, <2>1
    <2>4. \A j \in same(met[n]) : arrival(Min(earliest(met[n]))) <= arrival(j)
      <3> HIDE DEF earliest, same, arrival
      <3> QED
        BY <1>2, <2>1
    <2> QED
      <3> HIDE DEF earliest
      <3> QED
        BY <2>1, <2>2, <2>3, <2>4
  <1>7. ASSUME NEW m \in 1..M, NEW n \in 1..M, FirstTrip(list[m]) = FirstTrip(list[n])
        PROVE  m = n
    <2>1. trip(met[m]) = trip(met[n])
      BY <1>6, <1>7
    <2>2. same(met[m]) = same(met[n])
      BY <2>1
    <2>3. met[m] = met[n]
      <3> HIDE DEF same, trip, arrival
      <3> QED
        BY <1>6, <2>2
    <2> QED
      BY <1>4, <2>3
  <1>8. ASSUME NEW i \in 1..N
        PROVE  \E n \in 1..M : /\ FirstTrip(list[n]) = trip(i)
                               /\ list[n].legs[2].alight.arr <= arrival(i)
    <2> DEFINE o == Min(same(i))
    <2>1. o \in same(i) /\ o \in 1..N /\ trip(o) = trip(i)
      <3>1. o \in same(i)
        <4> HIDE DEF same
        <4> QED
          BY <1>2
      <3> QED
        BY <3>1
    <2>2. same(o) = same(i)
      <3> HIDE DEF o
      <3> QED
        BY <2>1
    <2>3. o \in S
      <3>1. o = Min(same(o))
        BY <2>2
      <3> HIDE DEF o, same
      <3> QED
        BY <2>1, <3>1
    <2> HIDE DEF o
    <2>4. PICK n \in 1..M : met[n] = o
      <3> HIDE DEF S
      <3> QED
        BY <1>4, <2>3
    <2>5. i \in same(met[n])
      BY <2>1, <2>4
    <2> HIDE DEF same, arrival, trip
    <2>6. list[n].legs[2].alight.arr <= arrival(i)
      BY <1>6, <2>5
    <2>7. FirstTrip(list[n]) = trip(i)
      BY <1>6, <2>1, <2>4
    <2> QED
      BY <2>6, <2>7
  <1>9. list = [n \in 1..Len(list) |-> list[n]] /\ Len(list) \in Nat /\ Len(list) = M
    BY <1>4, <1>5
  <1> HIDE DEF S
  <1> QED
    BY <1>6, <1>7, <1>8, <1>9 DEF list

-----------------------------------------------------------------------------
(* What the search finds. *)

\* The second legs at a stop, and the first legs, as the queries select them.
Inbound(d, stop, to, excluded, date, earliest) ==
    {l \in Legs(d, date) : /\ l.board.stop = stop
                           /\ l.board.stop \notin excluded
                           /\ l.board.dep >= earliest
                           /\ l.alight.stop \in to
                           /\ l.alight.arr # NULL}

Outbound(d, from, excluded, date, after, until) ==
    {l \in Legs(d, date) : /\ l.board.stop = from
                           /\ l.board.dep \in after..until
                           /\ l.alight.arr # NULL
                           /\ l.alight.stop \notin excluded}

\* A bucket holds them all, in the order of their departures.
LEMMA BucketOf ==
    ASSUME NEW d, DatabaseOK(d), NEW stop, NEW to, NEW excluded, NEW date, NEW earliest
    PROVE  LET bucket == GetInboundLegs(d, stop, to, excluded, date, earliest)
               S == Inbound(d, stop, to, excluded, date, earliest)
           IN  \E N \in Nat :
               /\ bucket \in [1..N -> S]
               /\ \A i \in 1..N : bucket[i].alight.arr \in Nat
               /\ \A l \in S : \E i \in 1..N : bucket[i] = l
               /\ \A i, j \in 1..N : i < j => bucket[i].board.dep <= bucket[j].board.dep
  <1> DEFINE S == Inbound(d, stop, to, excluded, date, earliest)
             bucket == GetInboundLegs(d, stop, to, excluded, date, earliest)
             N == Cardinality(S)
  <1>1. S \in SUBSET Legs(d, date) /\ \A l \in S : l.alight.arr # NULL
    BY DEF Inbound
  <1>2. bucket = OrderBy(S, LegKey)
    BY DEF GetInboundLegs, Inbound
  <1> HIDE DEF S, bucket
  <1>3. /\ IsFiniteSet(S) /\ InOrder(bucket, S, LegsBefore(S))
        /\ \A l, m \in S : l \in LegsBefore(S)[m] => l.board.dep <= m.board.dep
    BY <1>1, <1>2, LegOrder
  <1>4. N \in Nat /\ bucket \in [1..N -> S]
    BY <1>3, FS_CardinalityType DEF InOrder
  <1>5. \A i \in 1..N : bucket[i].alight.arr \in Nat
    BY <1>1, <1>4, LegFields
  <1>6. \A l \in S : \E i \in 1..N : bucket[i] = l
    BY <1>3 DEF InOrder
  <1>7. \A i, j \in 1..N : i < j => bucket[i].board.dep <= bucket[j].board.dep
    BY <1>3, <1>4 DEF InOrder
  <1> QED
    BY <1>4, <1>5, <1>6, <1>7 DEF S, bucket

\* The stops where nobody changes on the way from `from` to `to`.
Excluded(d, from, to) == ExcludedStops[d.feed] \cup {from} \cup to

\* The second legs looked up for a first one.
SecondLegs(d, f, from, to, date, after) ==
    GetInboundLegs(d, f.alight.stop, to, Excluded(d, from, to), date,
                   after + SmallestMinimum(d))

\* A journey that is found is made of a first leg and of one that can be reached from it;
\* there is one per train of the first leg, as good as every other over that train.
LEMMA JourneysOf ==
    ASSUME NEW d, DatabaseOK(d), NEW from, NEW to, NEW date, NEW after, NEW until
    PROVE  LET list == FindTransferJourneys(d, from, to, date, after, until)
               S == Outbound(d, from, Excluded(d, from, to), date, after, until)
               bucket(f) == SecondLegs(d, f, from, to, date, after)
           IN  /\ Len(list) \in Nat
               /\ list = [n \in 1..Len(list) |-> list[n]]
               /\ \A n \in 1..Len(list) : \E f \in S : \E i \in Feasible(d, f, bucket(f)) :
                     list[n] = Journey(d, f, bucket(f)[i])
               /\ \A m, n \in 1..Len(list) : FirstTrip(list[m]) = FirstTrip(list[n]) => m = n
               /\ \A f \in S : \A i \in Feasible(d, f, bucket(f)) : \E n \in 1..Len(list) :
                     /\ FirstTrip(list[n]) = f.board.trip
                     /\ list[n].legs[2].alight.arr <= bucket(f)[i].alight.arr
  <1> DEFINE S == Outbound(d, from, Excluded(d, from, to), date, after, until)
             outbound == OrderBy(S, LegKey)
             bucket(f) == SecondLegs(d, f, from, to, date, after)
             can(f) == Feasible(d, f, bucket(f))
             T == {f \in S : can(f) # {}}
             firsts == OrderBy(T, LegKey)
             N == Cardinality(T)
             journey(f) == Journey(d, f, BestSecond(d, f, bucket(f)))
             journeys == [n \in 1..N |-> journey(firsts[n])]
             list == FindTransferJourneys(d, from, to, date, after, until)
  <1>1. S \in SUBSET Legs(d, date) /\ T \in SUBSET Legs(d, date) /\ T \subseteq S
    BY DEF Outbound
  <1>2. ToSet(outbound) = S
    <2> HIDE DEF S
    <2>1. IsFiniteSet(S) /\ InOrder(outbound, S, LegsBefore(S))
      BY <1>1, LegOrder
    <2> HIDE DEF outbound
    <2> QED
      BY <2>1 DEF InOrder, ToSet
  <1>3. IsFiniteSet(T) /\ InOrder(firsts, T, LegsBefore(T))
    <2> HIDE DEF T
    <2> QED
      BY <1>1, LegOrder
  <1>4. /\ N \in Nat /\ firsts \in [1..N -> T]
        /\ \A f \in T : \E n \in 1..N : firsts[n] = f
    BY <1>3, FS_CardinalityType DEF InOrder
  <1>5. list = BestByFirstLeg(journeys)
    <2>1. outbound = GetOutboundLegs(d, from, Excluded(d, from, to), date, after, until)
      BY DEF GetOutboundLegs, Outbound
    <2> DEFINE firsts0 == OrderBy({l \in ToSet(outbound) : can(l) # {}}, LegKey)
    <2>2. list = BestByFirstLeg([n \in DOMAIN firsts0 |-> journey(firsts0[n])])
      BY <2>1 DEF FindTransferJourneys, Excluded, SecondLegs
    <2>3. firsts0 = firsts
      BY <1>2
    <2> HIDE DEF firsts0, firsts, T, S, list, journey
    <2>4. DOMAIN firsts = 1..N
      BY <1>4
    <2> QED
      BY <2>2, <2>3, <2>4
  <1> HIDE DEF S, list, firsts
  <1>6. ASSUME NEW f \in T
        PROVE  /\ \E i \in can(f) : journey(f) = Journey(d, f, bucket(f)[i])
               /\ FirstTrip(journey(f)) = f.board.trip
               /\ journey(f).legs[2].alight.arr \in Nat
               /\ \A i \in can(f) : journey(f).legs[2].alight.arr <= bucket(f)[i].alight.arr
    <2>1. PICK K \in Nat : DOMAIN bucket(f) = 1..K /\ \A i \in 1..K : bucket(f)[i].alight.arr \in Nat
      BY BucketOf DEF SecondLegs
    <2>2. can(f) # {}
      OBVIOUS
    <2> HIDE DEF bucket
    <2>3. DOMAIN bucket(f) \in SUBSET Nat /\ \A i \in DOMAIN bucket(f) : bucket(f)[i].alight.arr \in Nat
      BY <2>1
    <2>4. PICK i \in can(f) :
              /\ BestSecond(d, f, bucket(f)) = bucket(f)[i]
              /\ \A j \in can(f) : bucket(f)[i].alight.arr <= bucket(f)[j].alight.arr
      BY <2>2, <2>3, BestSecondIs
    <2>5. i \in DOMAIN bucket(f)
      BY <2>4 DEF Feasible, Reached
    <2>6. /\ FirstTrip(journey(f)) = f.board.trip
          /\ journey(f).legs[2] = bucket(f)[i]
          /\ journey(f) = Journey(d, f, bucket(f)[i])
      BY <2>4 DEF Journey, FirstTrip
    <2> HIDE DEF can, journey
    <2> QED
      BY <2>3, <2>4, <2>5, <2>6
  <1> HIDE DEF T, journey, N
  <1>7. \A i \in 1..N : journeys[i].legs[2].alight.arr \in Nat
    BY <1>4, <1>6
  <1>8. /\ Len(list) \in Nat
        /\ list = [n \in 1..Len(list) |-> list[n]]
        /\ \A n \in 1..Len(list) : \E i \in 1..N : list[n] = journeys[i]
        /\ \A m, n \in 1..Len(list) : FirstTrip(list[m]) = FirstTrip(list[n]) => m = n
        /\ \A i \in 1..N : \E n \in 1..Len(list) :
              /\ FirstTrip(list[n]) = FirstTrip(journeys[i])
              /\ list[n].legs[2].alight.arr <= journeys[i].legs[2].alight.arr
    <2>1. DOMAIN journeys = 1..N
      OBVIOUS
    <2> HIDE DEF journeys
    <2> DEFINE found == BestByFirstLeg(journeys)
    <2>2. /\ Len(found) \in Nat
          /\ found = [n \in 1..Len(found) |-> found[n]]
          /\ \A n \in 1..Len(found) : \E i \in 1..N : found[n] = journeys[i]
          /\ \A m, n \in 1..Len(found) : FirstTrip(found[m]) = FirstTrip(found[n]) => m = n
          /\ \A i \in 1..N : \E n \in 1..Len(found) :
                /\ FirstTrip(found[n]) = FirstTrip(journeys[i])
                /\ found[n].legs[2].alight.arr <= journeys[i].legs[2].alight.arr
      BY <1>4, <1>7, <2>1, BestByFirstLegIs
    <2> HIDE DEF found
    <2>3. list = found
      BY <1>5 DEF found
    <2> QED
      BY <2>2, <2>3
  <1>9. ASSUME NEW n \in 1..Len(list)
        PROVE  \E f \in S : \E i \in can(f) : list[n] = Journey(d, f, bucket(f)[i])
    <2>1. PICK k \in 1..N : list[n] = journey(firsts[k])
      BY <1>8
    <2> HIDE DEF can, bucket
    <2> QED
      BY <1>1, <1>4, <1>6, <2>1
  <1>10. ASSUME NEW f \in S, NEW i \in can(f)
         PROVE  \E n \in 1..Len(list) : /\ FirstTrip(list[n]) = f.board.trip
                                        /\ list[n].legs[2].alight.arr <= bucket(f)[i].alight.arr
    <2>1. f \in T
      BY DEF T
    <2>2. PICK k \in 1..N : firsts[k] = f
      BY <1>4, <2>1
    <2>3. journeys[k] = journey(f)
      BY <2>2
    <2>4. PICK n \in 1..Len(list) :
              /\ FirstTrip(list[n]) = FirstTrip(journey(f))
              /\ list[n].legs[2].alight.arr <= journey(f).legs[2].alight.arr
      BY <1>8, <2>3
    <2>5. list[n].legs[2].alight.arr \in Nat
      <3>1. PICK m \in 1..N : list[n] = journeys[m]
        BY <1>8
      <3> QED
        BY <1>7, <3>1
    <2>6. bucket(f)[i].alight.arr \in Nat
      <3>1. PICK K \in Nat : DOMAIN bucket(f) = 1..K
                              /\ \A j \in 1..K : bucket(f)[j].alight.arr \in Nat
        BY BucketOf DEF SecondLegs
      <3> QED
        BY <3>1 DEF Feasible, Reached
    <2> HIDE DEF can, bucket
    <2> QED
      BY <1>6, <2>1, <2>4, <2>5, <2>6
  <1> HIDE DEF can, bucket
  <1> QED
    BY <1>8, <1>9, <1>10 DEF S, list, can, bucket

-----------------------------------------------------------------------------
(* The search against every way to change. *)

\* The minimum of a stop is no smaller than the smallest there is.
LEMMA MinimumIs ==
    ASSUME NEW d, DatabaseOK(d), NEW stop
    PROVE  /\ Minimum(d, stop) \in Nat /\ SmallestMinimum(d) \in Nat
           /\ SmallestMinimum(d) <= Minimum(d, stop)
  <1> DEFINE all == {x.min : x \in SameStopTransfers(d)}
             own == {x.min : x \in {y \in SameStopTransfers(d) : y.from = stop}}
             set == {DefaultMinConnection} \cup all
  <1>1. all \in SUBSET Nat /\ DefaultMinConnection \in Nat
    BY DEF SameStopTransfers, DatabaseOK, DefaultMinConnection
  <1>2. own \subseteq all
    OBVIOUS
  <1>3. \/ own # {} /\ Minimum(d, stop) = Min(own)
        \/ Minimum(d, stop) = DefaultMinConnection
    <2> DEFINE from == {x.from : x \in SameStopTransfers(d)}
               mins == [p \in from |-> Min({x.min : x \in {y \in SameStopTransfers(d) : y.from = p}})]
    <2>1. Minimum(d, stop) = IF stop \in DOMAIN mins THEN mins[stop] ELSE DefaultMinConnection
      BY DEF Minimum, GetSameStopMinTransferTimes
    <2>2. stop \in from => mins[stop] = Min(own) /\ own # {}
      OBVIOUS
    <2>3. DOMAIN mins = from
      OBVIOUS
    <2> HIDE DEF mins, from, own
    <2> QED
      BY <2>1, <2>2, <2>3
  <1>4. SmallestMinimum(d) = Min(set)
    BY DEF SmallestMinimum
  <1> HIDE DEF all, own
  <1>5. set \in SUBSET Nat /\ set # {} /\ DefaultMinConnection \in set /\ own \subseteq set
    BY <1>1, <1>2
  <1> HIDE DEF set
  <1>6. SmallestMinimum(d) \in Nat /\ \A n \in set : SmallestMinimum(d) <= n
    BY <1>4, <1>5, MinIs
  <1>7. own # {} => Min(own) \in own
    <2>1. own \in SUBSET Nat
      BY <1>5
    <2> QED
      BY <2>1, MinIs
  <1> QED
    BY <1>3, <1>5, <1>6, <1>7

\* A change from f to s, with no search, as Change says of a board.
ChangeAt(d, from, to, f, s) ==
    /\ f.board.stop = from /\ s.alight.stop \in to
    /\ f.alight.stop = s.board.stop
    /\ f.alight.stop \notin Excluded(d, from, to)
    /\ f.alight.arr # NULL /\ s.alight.arr # NULL
    /\ f.board.trip # s.board.trip
    /\ s.board.dep - f.alight.arr \in Minimum(d, f.alight.stop)..MaxConnection

\* What is found is a change.
LEMMA ChangeIsSound ==
    ASSUME NEW d, DatabaseOK(d), NEW from, NEW to, NEW date, NEW after, NEW until,
           NEW f \in Outbound(d, from, Excluded(d, from, to), date, after, until),
           NEW i \in Feasible(d, f, SecondLegs(d, f, from, to, date, after))
    PROVE  LET s == SecondLegs(d, f, from, to, date, after)[i]
           IN  /\ f \in Legs(d, date) /\ s \in Legs(d, date)
               /\ ChangeAt(d, from, to, f, s)
  <1> DEFINE bucket == SecondLegs(d, f, from, to, date, after)
             S == Inbound(d, f.alight.stop, to, Excluded(d, from, to), date, after + SmallestMinimum(d))
             s == bucket[i]
  <1>1. PICK N \in Nat : bucket \in [1..N -> S]
    BY BucketOf DEF SecondLegs
  <1> HIDE DEF bucket
  <1>2. /\ i \in DOMAIN bucket /\ i \in 1..i
        /\ bucket[i].board.trip # f.board.trip
        /\ WaitAt(f, bucket[i]) >= Minimum(d, f.alight.stop)
        /\ \/ bucket[i].board.trip = f.board.trip
           \/ WaitAt(f, bucket[i]) <= MaxConnection
    <2>1. i \in Reached(f, bucket)
      BY DEF Feasible, bucket
    <2>2. i \in 1..N
      BY <1>1, <2>1 DEF Reached
    <2>3. i \in 1..i
      BY <2>2
    <2> QED
      BY <2>1, <2>3 DEF Feasible, Reached, bucket
  <1>3. s \in S
    BY <1>1, <1>2
  <1>4. /\ f \in Legs(d, date) /\ f.board.stop = from
        /\ f.alight.arr # NULL /\ f.alight.stop \notin Excluded(d, from, to)
    BY DEF Outbound
  <1>5. /\ s \in Legs(d, date) /\ s.board.stop = f.alight.stop
        /\ s.alight.stop \in to /\ s.alight.arr # NULL
    BY <1>3 DEF Inbound
  <1>6. s.board.dep \in Nat /\ f.alight.arr \in Nat
    BY <1>4, <1>5, LegFields
  <1>7. Minimum(d, f.alight.stop) \in Int
    BY MinimumIs
  <1>8. s.board.dep - f.alight.arr \in Minimum(d, f.alight.stop)..MaxConnection
    BY <1>2, <1>6, <1>7 DEF WaitAt, MaxConnection
  <1> QED
    BY <1>2, <1>4, <1>5, <1>8 DEF ChangeAt, bucket

\* Every change is among the second legs that are reached from its first leg: the bound
\* on the departures of second legs and the break cost none.
LEMMA ChangeIsFound ==
    ASSUME NEW d, DatabaseOK(d), OrderlyTimetable(d), NEW from, NEW to, NEW date,
           NEW f \in Legs(d, date), NEW s \in Legs(d, date), ChangeAt(d, from, to, f, s),
           NEW after \in Nat, after <= f.board.dep
    PROVE  \E i \in Feasible(d, f, SecondLegs(d, f, from, to, date, after)) :
               SecondLegs(d, f, from, to, date, after)[i] = s
  <1> DEFINE bucket == SecondLegs(d, f, from, to, date, after)
             S == Inbound(d, f.alight.stop, to, Excluded(d, from, to), date, after + SmallestMinimum(d))
  <1>1. PICK N \in Nat : /\ bucket \in [1..N -> S]
                         /\ \A l \in S : \E i \in 1..N : bucket[i] = l
                         /\ \A i, j \in 1..N : i < j => bucket[i].board.dep <= bucket[j].board.dep
    BY BucketOf DEF SecondLegs
  <1>2. /\ f.board.dep \in Nat /\ f.alight.arr \in Nat /\ s.board.dep \in Nat
        /\ f.board.dep <= f.alight.arr
    <2>1. f.board.dep \in Nat /\ f.alight.arr \in Nat /\ s.board.dep \in Nat
      BY LegFields DEF ChangeAt
    <2>2. /\ f.board \in d.stopTimes /\ f.alight \in d.stopTimes
          /\ f.board.trip = f.alight.trip /\ f.board.seq < f.alight.seq
      BY DEF Legs
    <2> QED
      BY <2>1, <2>2, NullAssumption DEF OrderlyTimetable
  <1>3. /\ Minimum(d, f.alight.stop) \in Nat /\ SmallestMinimum(d) \in Nat
        /\ SmallestMinimum(d) <= Minimum(d, f.alight.stop)
    BY MinimumIs
  <1>4. /\ s.board.dep >= f.alight.arr + Minimum(d, f.alight.stop)
        /\ s.board.dep - f.alight.arr <= MaxConnection
    BY <1>2, <1>3 DEF ChangeAt, MaxConnection
  <1>5. s \in S
    <2>1. s.board.dep >= after + SmallestMinimum(d)
      BY <1>2, <1>3, <1>4
    <2> QED
      BY <2>1 DEF ChangeAt, Inbound
  <1>6. PICK i \in 1..N : bucket[i] = s
    BY <1>1, <1>5
  <1> HIDE DEF bucket, S
  <1>7. ASSUME NEW j \in 1..i PROVE WaitAt(f, bucket[j]) <= MaxConnection
    <2>1. j \in 1..N
      BY <1>6
    <2>2. bucket[j].board.dep \in Nat
      BY <1>1, <2>1, LegFields DEF S, Inbound
    <2>3. bucket[j].board.dep <= bucket[i].board.dep
      <3>1. j = i \/ j < i
        BY <1>6, <2>1
      <3> QED
        BY <1>1, <1>6, <2>1, <2>2, <3>1
    <2> QED
      BY <1>2, <1>4, <1>6, <2>2, <2>3 DEF WaitAt, MaxConnection
  <1>8. i \in Reached(f, bucket)
    BY <1>1, <1>6, <1>7 DEF Reached
  <1>9. bucket[i].board.trip # f.board.trip /\ WaitAt(f, bucket[i]) >= Minimum(d, f.alight.stop)
    BY <1>2, <1>3, <1>4, <1>6 DEF ChangeAt, WaitAt
  <1> QED
    BY <1>6, <1>8, <1>9 DEF Feasible, bucket

-----------------------------------------------------------------------------
(* What one date offers from one platform. *)

LEMMA ConcatIs ==
    ASSUME NEW a \in Nat, NEW s, s = [n \in 1..a |-> s[n]], Len(s) = a,
           NEW b \in Nat, NEW t, t = [n \in 1..b |-> t[n]], Len(t) = b
    PROVE  s \o t = [n \in 1..(a + b) |-> IF n <= a THEN s[n] ELSE t[n - a]]
  <1> DEFINE V == {s[n] : n \in 1..a} \cup {t[n] : n \in 1..b}
  <1>1. s \in [1..a -> V] /\ t \in [1..b -> V]
    OBVIOUS
  <1>2. s \in Seq(V) /\ t \in Seq(V)
    BY <1>1
  <1> HIDE DEF V
  <1> QED
    BY <1>2

LEMMA OriginIsInt == ASSUME NEW date \in Int PROVE GetServiceDayOriginUnix(date) \in Int
  BY ZoneAssumption DEF GetServiceDayOriginUnix, UtcNoon, Offset, Day, Hour

LEMMA AfterIs ==
    ASSUME NEW date \in Int, NEW u \in Int
    PROVE  /\ AfterSeconds(date, u) \in Nat
           /\ \A n \in Nat : GetServiceDayOriginUnix(date) + n >= u <=> n >= AfterSeconds(date, u)
  <1> DEFINE x == u - GetServiceDayOriginUnix(date)
  <1>1. x \in Int /\ GetServiceDayOriginUnix(date) \in Int
    BY OriginIsInt
  <1>2. AfterSeconds(date, u) = IF x <= 0 THEN 0 ELSE x
    <2>1. AfterSeconds(date, u) = Max({0, x})
      BY DEF AfterSeconds
    <2> HIDE DEF x
    <2> QED
      BY <1>1, <2>1 DEF Max
  <1> QED
    BY <1>1, <1>2

LEMMA DirectIs ==
    ASSUME NEW date, NEW l
    PROVE  /\ Direct(date, l).date = date
           /\ Direct(date, l).legs = <<l>> /\ Len(Direct(date, l).legs) = 1
           /\ Direct(date, l).legs[1] = l /\ Last(Direct(date, l).legs) = l
           /\ Changes(Direct(date, l)) = 0
           /\ Direct(date, l).dep = At(date, l.board.dep)
           /\ Direct(date, l).arr = At(date, l.alight.arr)
  <1>1. <<l>>[1] = l /\ Len(<<l>>) = 1 /\ Len(<<>>) = 0 /\ Last(<<l>>) = l
    BY DEF Last
  <1> QED
    BY <1>1 DEF Direct, Candidate, Changes

LEMMA CandidateIs ==
    ASSUME NEW date, NEW f, NEW s, NEW x
    PROVE  LET c == Candidate(date, <<f, s>>, <<x>>)
           IN  /\ c.date = date
               /\ c.legs = <<f, s>> /\ Len(c.legs) = 2
               /\ c.legs[1] = f /\ c.legs[2] = s /\ Last(c.legs) = s
               /\ Changes(c) = 1
               /\ c.dep = At(date, f.board.dep)
               /\ c.arr = At(date, s.alight.arr)
  <1>1. /\ <<f, s>>[1] = f /\ <<f, s>>[2] = s /\ Len(<<f, s>>) = 2 /\ Len(<<x>>) = 1
        /\ Last(<<f, s>>) = s
    BY DEF Last
  <1> QED
    BY <1>1 DEF Candidate, Changes

\* A candidate as CandidatesOf makes it, for a date and a platform: direct, or a journey
\* over a first and a second train.
IsDirect(d, from, to, date, after, c) ==
    \E l \in Legs(d, date) : /\ l.board.stop = from /\ l.alight.stop \in to
                             /\ l.board.dep >= after
                             /\ c = Direct(date, l)

IsJourney(d, from, to, date, after, until, c) ==
    \E f \in Outbound(d, from, Excluded(d, from, to), date, after, until) :
    \E i \in Feasible(d, f, SecondLegs(d, f, from, to, date, after)) :
        c = Candidate(date, <<f, SecondLegs(d, f, from, to, date, after)[i]>>,
                      <<Connection(d, f, SecondLegs(d, f, from, to, date, after)[i])>>)

\* A change that leaves in the hours of a timetable is offered, or one over the same train
\* that arrives no later, unless as many trips as the page has room for leave no later.
BestOffered(d, from, to, date, after, a, b, limit, list) ==
    \A f \in Outbound(d, from, Excluded(d, from, to), date, after, MaxDeparture) :
    \A i \in Feasible(d, f, SecondLegs(d, f, from, to, date, after)) :
        \/ \E n \in 1..(a + b) :
              /\ n > a /\ list[n].legs[1].board.trip = f.board.trip
              /\ Last(list[n].legs).alight.arr
                    <= SecondLegs(d, f, from, to, date, after)[i].alight.arr
        \/ a = limit /\ \A n \in 1..a : list[n].dep <= At(date, f.board.dep)

\* Trips come first, then journeys; of one train there is one of each at most.  A trip
\* that is cut off has as many others before it as the page has room for.
OffersIn(d, from, to, date, after, until, limit, most, list, a, b) ==
    /\ DOMAIN list = 1..(a + b)
    /\ \A n \in 1..a : IsDirect(d, from, to, date, after, list[n])
    /\ \A n \in 1..(a + b) : n > a => IsJourney(d, from, to, date, after, until, list[n])
    /\ \A m, n \in 1..a : list[m] = list[n] => m = n
    /\ \A m, n \in 1..(a + b) :
          m > a /\ n > a /\ list[m].legs[1] = list[n].legs[1] => m = n
    /\ after <= MaxDeparture =>
          \A l \in Boarding(d, from, to, date, after) :
             \/ \E n \in 1..a : list[n] = Direct(date, l)
             \/ a = limit /\ \A n \in 1..a : list[n].dep <= Direct(date, l).dep
    /\ most < 1 => b = 0
    /\ ~(most < 1) /\ after <= MaxDeparture =>
          BestOffered(d, from, to, date, after, a, b, limit, list)

\* What CandidatesOf returns.
LEMMA OffersOf ==
    ASSUME NEW d, DatabaseOK(d), NEW from, NEW to, NEW date \in Int, NEW u \in Int,
           NEW limit \in Nat \ {0}, NEW maxTransfers
    PROVE  LET list == CandidatesOf(d, from, to, date, u, limit, maxTransfers)
               after == AfterSeconds(date, u)
               rows == GetScheduledDepartures(d, from, to, date, after, limit)
               until == UntilSeconds(rows, limit)
           IN  \E a, b \in Nat :
                  OffersIn(d, from, to, date, after, until, limit, maxTransfers, list, a, b)
  <1> DEFINE list == CandidatesOf(d, from, to, date, u, limit, maxTransfers)
             after == AfterSeconds(date, u)
             rows == GetScheduledDepartures(d, from, to, date, after, limit)
             until == UntilSeconds(rows, limit)
             found == IF maxTransfers < 1 THEN <<>>
                      ELSE FindTransferJourneys(d, from, to, date, after, until)
             S == Boarding(d, from, to, date, after)
             trips == [n \in DOMAIN rows |-> Direct(date, rows[n])]
             journey(n) == Candidate(date, found[n].legs, found[n].connections)
             journeys == [n \in DOMAIN found |-> journey(n)]
             a == Len(rows)
             b == Len(found)
  <1>1. after \in Nat
    BY AfterIs
  <1>2. list = IF after > MaxDeparture THEN <<>> ELSE trips \o journeys
    BY DEF CandidatesOf
  <1>3. CASE after > MaxDeparture
    <2>1. DOMAIN list = 1..(0 + 0) /\ ~(after <= MaxDeparture)
      <3>1. list = <<>>
        BY <1>2, <1>3
      <3> HIDE DEF list
      <3> QED
        BY <1>1, <1>3, <3>1 DEF MaxDeparture, Hour
    <2>2. 1..0 = {} /\ 1..(0 + 0) = {} /\ 0 \in Nat
      OBVIOUS
    <2> HIDE DEF list, after, rows, until, S
    <2> DEFINE a0 == 0
               b0 == 0
    <2>3. /\ DOMAIN list = 1..(a0 + b0)
          /\ \A n \in 1..a0 : IsDirect(d, from, to, date, after, list[n])
          /\ \A n \in 1..(a0 + b0) : n > a0 => IsJourney(d, from, to, date, after, until, list[n])
          /\ \A m, n \in 1..a0 : list[m] = list[n] => m = n
          /\ \A m, n \in 1..(a0 + b0) :
                m > a0 /\ n > a0 /\ list[m].legs[1] = list[n].legs[1] => m = n
          /\ b0 = 0 /\ a0 \in Nat /\ b0 \in Nat
      BY <2>1, <2>2
    <2> HIDE DEF a0, b0
    <2> QED
      BY <2>1, <2>3 DEF list, after, rows, until, OffersIn
  <1>4. CASE ~(after > MaxDeparture)
    <2>1. /\ a \in 0..limit
          /\ rows \in [1..a -> S]
          /\ \A m, n \in 1..a : rows[m] = rows[n] => m = n
          /\ \A m, n \in 1..a : m < n => rows[m].board.dep <= rows[n].board.dep
          /\ \A l \in S : \/ \E n \in 1..a : rows[n] = l
                          \/ a = limit /\ \A n \in 1..limit : rows[n].board.dep <= l.board.dep
      BY RowsOf
    <2>2. /\ b \in Nat /\ found = [n \in 1..b |-> found[n]]
          /\ \A n \in 1..b : IsJourney(d, from, to, date, after, until, journey(n))
                             /\ journey(n).legs[1] = found[n].legs[1]
                             /\ Last(journey(n).legs) = found[n].legs[2]
          /\ \A m, n \in 1..b : FirstTrip(found[m]) = FirstTrip(found[n]) => m = n
          /\ maxTransfers < 1 => b = 0
          /\ ~(maxTransfers < 1) =>
                \A f \in Outbound(d, from, Excluded(d, from, to), date, after, until) :
                \A i \in Feasible(d, f, SecondLegs(d, f, from, to, date, after)) :
                \E n \in 1..b :
                    /\ FirstTrip(found[n]) = f.board.trip
                    /\ found[n].legs[2].alight.arr
                          <= SecondLegs(d, f, from, to, date, after)[i].alight.arr
      <3>1. CASE maxTransfers < 1
        <4>1. found = <<>>
          BY <3>1
        <4>2. b = 0 /\ found = [n \in 1..0 |-> found[n]] /\ 1..b = {}
          <5> HIDE DEF found
          <5> QED
            BY <4>1
        <4> HIDE DEF found
        <4> QED
          BY <3>1, <4>2
      <3>2. CASE ~(maxTransfers < 1)
        <4>1. found = FindTransferJourneys(d, from, to, date, after, until)
          BY <3>2
        <4> HIDE DEF found, until, after
        <4>2. /\ b \in Nat /\ found = [n \in 1..b |-> found[n]]
              /\ \A m, n \in 1..b : FirstTrip(found[m]) = FirstTrip(found[n]) => m = n
              /\ \A n \in 1..b : \E f \in Outbound(d, from, Excluded(d, from, to), date, after, until) :
                    \E i \in Feasible(d, f, SecondLegs(d, f, from, to, date, after)) :
                        found[n] = Journey(d, f, SecondLegs(d, f, from, to, date, after)[i])
              /\ \A f \in Outbound(d, from, Excluded(d, from, to), date, after, until) :
                    \A i \in Feasible(d, f, SecondLegs(d, f, from, to, date, after)) :
                    \E n \in 1..b :
                        /\ FirstTrip(found[n]) = f.board.trip
                        /\ found[n].legs[2].alight.arr
                              <= SecondLegs(d, f, from, to, date, after)[i].alight.arr
          BY <4>1, JourneysOf
        <4>3. ASSUME NEW n \in 1..b
              PROVE  /\ IsJourney(d, from, to, date, after, until, journey(n))
                     /\ journey(n).legs[1] = found[n].legs[1]
                     /\ Last(journey(n).legs) = found[n].legs[2]
          <5>0. PICK f \in Outbound(d, from, Excluded(d, from, to), date, after, until) :
                    \E i \in Feasible(d, f, SecondLegs(d, f, from, to, date, after)) :
                        found[n] = Journey(d, f, SecondLegs(d, f, from, to, date, after)[i])
            BY <4>2
          <5>1. PICK i \in Feasible(d, f, SecondLegs(d, f, from, to, date, after)) :
                    found[n] = Journey(d, f, SecondLegs(d, f, from, to, date, after)[i])
            BY <5>0
          <5> DEFINE s == SecondLegs(d, f, from, to, date, after)[i]
          <5>2. found[n].legs = <<f, s>> /\ found[n].connections = <<Connection(d, f, s)>>
            BY <5>1 DEF Journey
          <5>3. journey(n) = Candidate(date, <<f, s>>, <<Connection(d, f, s)>>)
            BY <5>2
          <5>4. journey(n).legs = found[n].legs
            BY DEF Candidate
          <5>5. Last(journey(n).legs) = found[n].legs[2]
            BY <5>2, <5>3, CandidateIs
          <5> QED
            BY <5>3, <5>4, <5>5 DEF IsJourney
        <4> QED
          BY <3>2, <4>2, <4>3
      <3> QED
        BY <3>1, <3>2
    <2> HIDE DEF found, journey
    <2>3. a \in Nat /\ DOMAIN rows = 1..a /\ DOMAIN found = 1..b
      BY <2>1, <2>2
    <2>4. list = [n \in 1..(a + b) |-> IF n <= a THEN Direct(date, rows[n]) ELSE journey(n - a)]
      <3>1. trips = [n \in 1..a |-> Direct(date, rows[n])] /\ Len(trips) = a
        BY <2>3
      <3>2. journeys = [n \in 1..b |-> journey(n)] /\ Len(journeys) = b
        BY <2>2, <2>3
      <3>3. list = trips \o journeys
        BY <1>2, <1>4
      <3> HIDE DEF trips, journeys, list, a, b
      <3>4. trips = [n \in 1..a |-> trips[n]] /\ journeys = [n \in 1..b |-> journeys[n]]
        BY <3>1, <3>2
      <3>5. list = [n \in 1..(a + b) |-> IF n <= a THEN trips[n] ELSE journeys[n - a]]
        BY <2>2, <2>3, <3>1, <3>2, <3>3, <3>4, ConcatIs
      <3>6. \A n \in 1..(a + b) : /\ n <= a => n \in 1..a
                                  /\ ~(n <= a) => n - a \in 1..b
        BY <2>2, <2>3
      <3>7. \A n \in 1..(a + b) : (IF n <= a THEN trips[n] ELSE journeys[n - a])
                                 = (IF n <= a THEN Direct(date, rows[n]) ELSE journey(n - a))
        BY <3>1, <3>2, <3>6
      <3> QED
        BY <3>5, <3>7
    <2> HIDE DEF list
    <2>5. \A n \in 1..a : n \in 1..(a + b) /\ list[n] = Direct(date, rows[n])
      BY <2>2, <2>3, <2>4
    <2>6. \A n \in 1..(a + b) : n > a => n - a \in 1..b /\ list[n] = journey(n - a)
      BY <2>2, <2>3, <2>4
    <2>7. \A n \in 1..a : rows[n] \in S
      BY <2>1
    <2>8. \A n \in 1..a : IsDirect(d, from, to, date, after, list[n])
      BY <2>5, <2>7 DEF IsDirect, Boarding
    <2>9. \A n \in 1..(a + b) : n > a => IsJourney(d, from, to, date, after, until, list[n])
      BY <2>2, <2>6
    <2>10. ASSUME NEW m \in 1..a, NEW n \in 1..a, list[m] = list[n] PROVE m = n
      <3>1. Direct(date, rows[m]).legs[1] = rows[m] /\ Direct(date, rows[n]).legs[1] = rows[n]
        BY DEF Direct, Candidate
      <3>2. rows[m] = rows[n]
        BY <2>5, <2>10, <3>1
      <3> QED
        BY <2>1, <3>2
    <2>11. ASSUME NEW m \in 1..(a + b), NEW n \in 1..(a + b), m > a, n > a,
                  list[m].legs[1] = list[n].legs[1]
           PROVE  m = n
      <3>1. /\ m - a \in 1..b /\ list[m] = journey(m - a)
            /\ n - a \in 1..b /\ list[n] = journey(n - a)
        BY <2>6, <2>11
      <3>2. found[m - a].legs[1] = found[n - a].legs[1]
        BY <2>2, <2>11, <3>1
      <3>3. m - a = n - a
        BY <2>2, <3>1, <3>2 DEF FirstTrip
      <3> QED
        BY <2>3, <2>2, <3>3
    <2>12. ASSUME NEW l \in S
           PROVE  \/ \E n \in 1..a : list[n] = Direct(date, l)
                  \/ a = limit /\ \A n \in 1..a : list[n].dep <= Direct(date, l).dep
      <3>1. CASE \E n \in 1..a : rows[n] = l
        BY <2>5, <3>1
      <3>2. CASE a = limit /\ \A n \in 1..limit : rows[n].board.dep <= l.board.dep
        <4>1. ASSUME NEW n \in 1..a PROVE list[n].dep <= Direct(date, l).dep
          <5>1. rows[n] \in Legs(d, date) /\ l \in Legs(d, date)
            BY <2>7 DEF Boarding
          <5>2. rows[n].board.dep \in Nat /\ l.board.dep \in Nat
            BY <5>1, LegFields
          <5>3. list[n].dep = At(date, rows[n].board.dep) /\ Direct(date, l).dep = At(date, l.board.dep)
            BY <2>5, DirectIs
          <5>4. rows[n].board.dep <= l.board.dep
            BY <3>2
          <5> HIDE DEF rows, S, a
          <5> QED
            BY <5>2, <5>3, <5>4, OriginIsInt, NullAssumption DEF At
        <4> QED
          BY <3>2, <4>1
      <3> QED
        BY <2>1, <3>1, <3>2
    <2>13. DOMAIN list = 1..(a + b)
      BY <2>4
    <2>14. ASSUME ~(maxTransfers < 1)
           PROVE  BestOffered(d, from, to, date, after, a, b, limit, list)
      <3> SUFFICES ASSUME NEW f \in Outbound(d, from, Excluded(d, from, to), date, after, MaxDeparture),
                          NEW i \in Feasible(d, f, SecondLegs(d, f, from, to, date, after))
                   PROVE  \/ \E n \in 1..(a + b) :
                                /\ n > a /\ list[n].legs[1].board.trip = f.board.trip
                                /\ Last(list[n].legs).alight.arr
                                      <= SecondLegs(d, f, from, to, date, after)[i].alight.arr
                          \/ a = limit /\ \A n \in 1..a : list[n].dep <= At(date, f.board.dep)
        BY DEF BestOffered
      <3>1. f \in Legs(d, date) /\ f.board.dep \in Nat
        BY LegFields DEF Outbound
      <3>2. CASE f \in Outbound(d, from, Excluded(d, from, to), date, after, until)
        <4>1. PICK k \in 1..b :
                 /\ FirstTrip(found[k]) = f.board.trip
                 /\ found[k].legs[2].alight.arr
                       <= SecondLegs(d, f, from, to, date, after)[i].alight.arr
          BY <2>2, <2>14, <3>2
        <4>2. k + a \in 1..(a + b) /\ k + a > a /\ (k + a) - a = k
          BY <2>2, <2>3
        <4>3. list[k + a] = journey(k)
          BY <2>6, <4>2
        <4>4. list[k + a].legs[1] = found[k].legs[1] /\ Last(list[k + a].legs) = found[k].legs[2]
          BY <2>2, <4>3
        <4> QED
          BY <4>1, <4>2, <4>4 DEF FirstTrip
      <3>3. CASE f \notin Outbound(d, from, Excluded(d, from, to), date, after, until)
        <4>1. ~(f.board.dep \in after..until)
          BY <3>3 DEF Outbound
        <4>2. f.board.dep \in after..MaxDeparture /\ MaxDeparture \in Nat
          BY DEF Outbound, MaxDeparture, Hour
        <4>3. a = limit /\ until = rows[limit].board.dep
          BY <4>1, <4>2 DEF UntilSeconds
        <4>4. limit \in 1..a /\ \A n \in 1..a : rows[n].board.dep \in Nat
          <5>1. \A n \in 1..a : rows[n] \in Legs(d, date)
            BY <2>7 DEF Boarding
          <5> QED
            BY <4>3, <5>1, LegFields
        <4>5. rows[limit].board.dep < f.board.dep
          BY <1>1, <3>1, <4>1, <4>2, <4>3, <4>4
        <4>6. ASSUME NEW n \in 1..a PROVE list[n].dep <= At(date, f.board.dep)
          <5>1. rows[n].board.dep <= rows[limit].board.dep
            <6>1. CASE n = limit
              BY <4>4, <6>1
            <6>2. CASE n # limit
              <7>1. n < limit
                BY <2>3, <4>3, <6>2
              <7> QED
                BY <2>1, <4>4, <7>1
            <6> QED
              BY <6>1, <6>2
          <5>2. list[n].dep = At(date, rows[n].board.dep)
            BY <2>5, DirectIs
          <5>3. rows[n].board.dep \in Nat /\ rows[n].board.dep <= f.board.dep
            BY <3>1, <4>4, <4>5, <5>1
          <5> HIDE DEF rows, a
          <5> QED
            BY <3>1, <5>2, <5>3, OriginIsInt, NullAssumption DEF At
        <4> QED
          BY <4>3, <4>6
      <3> QED
        BY <3>2, <3>3
    <2> HIDE DEF a, b, S, rows, after, until
    <2>15. OffersIn(d, from, to, date, after, until, limit, maxTransfers, list, a, b)
      BY <2>2, <2>3, <2>8, <2>9, <2>10, <2>11, <2>12, <2>13, <2>14 DEF S, OffersIn
    <2> QED
      BY <2>2, <2>3, <2>15 DEF list, rows, after, until
  <1> QED
    BY <1>3, <1>4

\* What a board shows is a trip that goes all the way or, where one may change, a change.
IsTrip(d, from, to, date, c) ==
    \E l \in Legs(d, date) : /\ l.board.stop = from /\ l.alight.stop \in to
                             /\ c = Direct(date, l)

IsChange(d, from, to, date, c) ==
    \E f, s \in Legs(d, date) : /\ ChangeAt(d, from, to, f, s)
                                /\ c = Candidate(date, <<f, s>>, <<Connection(d, f, s)>>)

IsFair(d, from, to, date, most, c) ==
    \/ IsTrip(d, from, to, date, c)
    \/ ~(most < 1) /\ IsChange(d, from, to, date, c)

\* As many trips as a page has room for leave no later than t, and can be asked for.
FullBefore(list, limit, after, t) ==
    \A n \in 1..limit : /\ n \in DOMAIN list /\ Changes(list[n]) = 0
                        /\ list[n].dep <= t
                        /\ list[n].legs[1].board.dep >= after

\* A change that leaves at dep and arrives at arr, or earlier.
OffersChange(list, dep, arr) ==
    \E n \in DOMAIN list : /\ Changes(list[n]) = 1 /\ list[n].dep = dep
                           /\ list[n].arr \in Int /\ list[n].arr <= arr

\* A journey that is offered is a change.
LEMMA JourneyIs ==
    ASSUME NEW d, DatabaseOK(d), NEW from, NEW to, NEW date, NEW after, NEW until, NEW c,
           IsJourney(d, from, to, date, after, until, c)
    PROVE  IsChange(d, from, to, date, c)
  <1> DEFINE S == Outbound(d, from, Excluded(d, from, to), date, after, until)
             bucket(f) == SecondLegs(d, f, from, to, date, after)
  <1>1. PICK f \in S : \E i \in Feasible(d, f, bucket(f)) :
           c = Candidate(date, <<f, bucket(f)[i]>>, <<Connection(d, f, bucket(f)[i])>>)
    BY DEF IsJourney
  <1>2. PICK i \in Feasible(d, f, bucket(f)) :
           c = Candidate(date, <<f, bucket(f)[i]>>, <<Connection(d, f, bucket(f)[i])>>)
    BY <1>1
  <1>3. /\ f \in Legs(d, date) /\ bucket(f)[i] \in Legs(d, date)
        /\ ChangeAt(d, from, to, f, bucket(f)[i])
    BY ChangeIsSound
  <1> HIDE DEF S, bucket
  <1> QED
    BY <1>2, <1>3 DEF IsChange

\* A train calls at a stop once, so its legs from there leave together.
LEMMA SameBoarding ==
    ASSUME NEW d, DatabaseOK(d), OrderlyTimetable(d), NEW date,
           NEW f \in Legs(d, date), NEW g \in Legs(d, date),
           f.board.trip = g.board.trip, f.board.stop = g.board.stop
    PROVE  f.board = g.board
  <1>1. f.board \in d.stopTimes /\ g.board \in d.stopTimes
    BY DEF Legs
  <1>2. f.board.seq \in Nat /\ g.board.seq \in Nat
    BY <1>1 DEF DatabaseOK
  <1>3. ~(f.board.seq < g.board.seq) /\ ~(g.board.seq < f.board.seq)
    BY <1>1 DEF OrderlyTimetable
  <1>4. f.board.seq = g.board.seq
    BY <1>2, <1>3
  <1> QED
    BY <1>1, <1>4 DEF DatabaseOK

\* The offers of one date from one platform against every way to change.
LEMMA OffersChanges ==
    ASSUME NEW d, DatabaseOK(d), NEW from, NEW to, NEW date \in Int, NEW after \in Nat,
           NEW until, NEW limit \in Nat \ {0}, NEW most, NEW list, NEW a \in Nat, NEW b \in Nat,
           OffersIn(d, from, to, date, after, until, limit, most, list, a, b)
    PROVE  /\ \A n \in DOMAIN list : IsFair(d, from, to, date, most, list[n])
           /\ OrderlyTimetable(d) /\ ~(most < 1) =>
                 \A f, s \in Legs(d, date) :
                    ChangeAt(d, from, to, f, s) /\ f.board.dep \in after..MaxDeparture =>
                       \/ OffersChange(list, At(date, f.board.dep), At(date, s.alight.arr))
                       \/ FullBefore(list, limit, after, At(date, f.board.dep))
  <1>1. /\ DOMAIN list = 1..(a + b)
        /\ \A n \in 1..a : IsDirect(d, from, to, date, after, list[n])
        /\ \A n \in 1..(a + b) : n > a => IsJourney(d, from, to, date, after, until, list[n])
        /\ most < 1 => b = 0
        /\ ~(most < 1) /\ after <= MaxDeparture =>
              BestOffered(d, from, to, date, after, a, b, limit, list)
    BY DEF OffersIn
  <1>2. ASSUME NEW n \in 1..(a + b), n > a
        PROVE  IsChange(d, from, to, date, list[n])
    <2>1. IsJourney(d, from, to, date, after, until, list[n])
      BY <1>1, <1>2
    <2> QED
      BY <2>1, JourneyIs
  <1>3. ASSUME NEW n \in DOMAIN list PROVE IsFair(d, from, to, date, most, list[n])
    <2>1. CASE n > a
      <3>1. IsChange(d, from, to, date, list[n])
        BY <1>1, <1>2, <2>1
      <3>2. ~(most < 1)
        BY <1>1, <2>1
      <3> QED
        BY <3>1, <3>2 DEF IsFair
    <2>2. CASE ~(n > a)
      <3>1. n \in 1..a
        BY <1>1, <2>2
      <3> QED
        BY <1>1, <3>1 DEF IsDirect, IsTrip, IsFair
    <2> QED
      BY <2>1, <2>2
  <1>4. ASSUME OrderlyTimetable(d), ~(most < 1), NEW f \in Legs(d, date), NEW s \in Legs(d, date),
               ChangeAt(d, from, to, f, s), f.board.dep \in after..MaxDeparture
        PROVE  \/ OffersChange(list, At(date, f.board.dep), At(date, s.alight.arr))
               \/ FullBefore(list, limit, after, At(date, f.board.dep))
    <2> DEFINE bucket == SecondLegs(d, f, from, to, date, after)
    <2>1. /\ f.board.dep \in Nat /\ after <= f.board.dep /\ after <= MaxDeparture
          /\ s.alight.arr \in Nat
      <3>1. MaxDeparture \in Int
        BY DEF MaxDeparture, Hour
      <3> QED
        BY <1>4, <3>1, LegFields DEF ChangeAt
    <2>2. PICK i \in Feasible(d, f, bucket) : bucket[i] = s
      BY <1>4, <2>1, ChangeIsFound
    <2>3. f \in Outbound(d, from, Excluded(d, from, to), date, after, MaxDeparture)
      BY <1>4 DEF ChangeAt, Outbound
    <2>4. BestOffered(d, from, to, date, after, a, b, limit, list)
      BY <1>1, <1>4, <2>1
    <2>5. \/ \E n \in 1..(a + b) :
                 /\ n > a /\ list[n].legs[1].board.trip = f.board.trip
                 /\ Last(list[n].legs).alight.arr <= s.alight.arr
          \/ a = limit /\ \A n \in 1..a : list[n].dep <= At(date, f.board.dep)
      <3>1. \/ \E n \in 1..(a + b) :
                 /\ n > a /\ list[n].legs[1].board.trip = f.board.trip
                 /\ Last(list[n].legs).alight.arr <= bucket[i].alight.arr
            \/ a = limit /\ \A n \in 1..a : list[n].dep <= At(date, f.board.dep)
        BY <2>3, <2>4 DEF BestOffered
      <3> QED
        BY <2>2, <3>1
    <2>6. ASSUME NEW n \in 1..(a + b), n > a, list[n].legs[1].board.trip = f.board.trip,
                 Last(list[n].legs).alight.arr <= s.alight.arr
          PROVE  OffersChange(list, At(date, f.board.dep), At(date, s.alight.arr))
      <3>3. PICK g \in Legs(d, date), h \in Legs(d, date) :
                /\ ChangeAt(d, from, to, g, h)
                /\ list[n] = Candidate(date, <<g, h>>, <<Connection(d, g, h)>>)
        BY <1>2, <2>6 DEF IsChange
      <3>4. /\ list[n].legs[1] = g /\ Last(list[n].legs) = h /\ Changes(list[n]) = 1
            /\ list[n].dep = At(date, g.board.dep) /\ list[n].arr = At(date, h.alight.arr)
        BY <3>3, CandidateIs
      <3>5. g.board = f.board
        <4>1. g.board.stop = f.board.stop
          BY <1>4, <3>3 DEF ChangeAt
        <4>2. g.board.trip = f.board.trip
          BY <2>6, <3>4
        <4> QED
          BY <1>4, <4>1, <4>2, SameBoarding
      <3>6. h.alight.arr \in Nat /\ h.alight.arr <= s.alight.arr
        BY <2>6, <3>3, <3>4, LegFields DEF ChangeAt
      <3>7. list[n].arr \in Int /\ list[n].arr <= At(date, s.alight.arr)
        BY <2>1, <3>4, <3>6, OriginIsInt, NullAssumption DEF At
      <3> QED
        BY <1>1, <3>4, <3>5, <3>7 DEF OffersChange
    <2>7. ASSUME a = limit, \A n \in 1..a : list[n].dep <= At(date, f.board.dep)
          PROVE  FullBefore(list, limit, after, At(date, f.board.dep))
      <3> SUFFICES ASSUME NEW n \in 1..limit
                   PROVE  /\ n \in DOMAIN list /\ Changes(list[n]) = 0
                          /\ list[n].dep <= At(date, f.board.dep)
                          /\ list[n].legs[1].board.dep >= after
        BY DEF FullBefore
      <3>1. n \in 1..a /\ n \in DOMAIN list
        BY <1>1, <2>7
      <3>2. PICK k \in Legs(d, date) : k.board.dep >= after /\ list[n] = Direct(date, k)
        BY <1>1, <3>1 DEF IsDirect
      <3>3. list[n].legs[1] = k /\ Changes(list[n]) = 0
        BY <3>2, DirectIs
      <3> QED
        BY <2>7, <3>1, <3>2, <3>3
    <2> QED
      BY <2>5, <2>6, <2>7
  <1> QED
    BY <1>3, <1>4

-----------------------------------------------------------------------------
(* A page. *)

\* What the order of a page compares.
LEMMA KeyOrder ==
    ASSUME NEW c, NEW p \in Int \X Int \X Int, c.dep \in Int, Trip(c) \in Int, Len(c.legs) \in Int,
           NEW x, NEW q \in Int \X Int \X Int, x.dep \in Int, Trip(x) \in Int, Len(x.legs) \in Int
    PROVE  Precedes(PageKey(c, p), PageKey(x, q)) <=>
               \/ c.dep < x.dep
               \/ c.dep = x.dep /\ Trip(c) < Trip(x)
               \/ c.dep = x.dep /\ Trip(c) = Trip(x) /\ Len(c.legs) < Len(x.legs)
               \/ /\ c.dep = x.dep /\ Trip(c) = Trip(x) /\ Len(c.legs) = Len(x.legs)
                  /\ p[1] < q[1]
               \/ /\ c.dep = x.dep /\ Trip(c) = Trip(x) /\ Len(c.legs) = Len(x.legs)
                  /\ p[1] = q[1] /\ p[2] < q[2]
               \/ /\ c.dep = x.dep /\ Trip(c) = Trip(x) /\ Len(c.legs) = Len(x.legs)
                  /\ p[1] = q[1] /\ p[2] = q[2] /\ p[3] < q[3]
  <1> DEFINE k == PageKey(c, p)
             l == PageKey(x, q)
  <1>1. p[1] \in Int /\ p[2] \in Int /\ p[3] \in Int /\ q[1] \in Int /\ q[2] \in Int /\ q[3] \in Int
    OBVIOUS
  <1>2. k = <<c.dep, Trip(c), Len(c.legs), p[1], p[2], p[3]>>
    BY DEF PageKey
  <1>3. l = <<x.dep, Trip(x), Len(x.legs), q[1], q[2], q[3]>>
    BY DEF PageKey
  <1> HIDE DEF k, l
  <1>4. /\ k \in Int \X Int \X Int \X Int \X Int \X Int
        /\ k[1] = c.dep /\ k[2] = Trip(c) /\ k[3] = Len(c.legs)
        /\ k[4] = p[1] /\ k[5] = p[2] /\ k[6] = p[3]
    BY <1>1, <1>2
  <1>5. /\ l \in Int \X Int \X Int \X Int \X Int \X Int
        /\ l[1] = x.dep /\ l[2] = Trip(x) /\ l[3] = Len(x.legs)
        /\ l[4] = q[1] /\ l[5] = q[2] /\ l[6] = q[3]
    BY <1>1, <1>3
  <1>6. Precedes(k, l) <=>
               \/ k[1] < l[1]
               \/ k[1] = l[1] /\ k[2] < l[2]
               \/ k[1] = l[1] /\ k[2] = l[2] /\ k[3] < l[3]
               \/ k[1] = l[1] /\ k[2] = l[2] /\ k[3] = l[3] /\ k[4] < l[4]
               \/ /\ k[1] = l[1] /\ k[2] = l[2] /\ k[3] = l[3] /\ k[4] = l[4]
                  /\ k[5] < l[5]
               \/ /\ k[1] = l[1] /\ k[2] = l[2] /\ k[3] = l[3] /\ k[4] = l[4]
                  /\ k[5] = l[5] /\ k[6] < l[6]
    BY <1>4, <1>5, PrecedesSix
  <1> QED
    BY <1>4, <1>5, <1>6 DEF k, l

\* A function from places to candidates, which a page can be made of.
Placed(K) ==
    /\ IsFiniteSet(DOMAIN K)
    /\ \A p \in DOMAIN K : /\ p \in Int \X Int \X Int
                           /\ K[p].dep \in Int /\ Trip(K[p]) \in Int /\ Len(K[p].legs) \in Int

\* The list has every candidate once, in the order of departures.
LEMMA SortedIs ==
    ASSUME NEW K, Placed(K)
    PROVE  \E N \in Nat, place \in [1..Cardinality(DOMAIN K) -> DOMAIN K] :
               /\ N = Cardinality(DOMAIN K)
               /\ Len(Sorted(K)) = N
               /\ Sorted(K) = [n \in 1..N |-> K[place[n]]]
               /\ \A p \in DOMAIN K : \E n \in 1..N : place[n] = p
               /\ \A m, n \in 1..N : place[m] = place[n] => m = n
               /\ \A m, n \in 1..N : m < n => K[place[m]].dep <= K[place[n]].dep
  <1> DEFINE S == DOMAIN K
             N == Cardinality(S)
             before(p, q) == Precedes(PageKey(K[p], p), PageKey(K[q], q))
             B == [q \in S |-> {p \in S : before(p, q)}]
             at(n) == CHOOSE q \in S : Cardinality({p \in S : before(p, q)}) = n - 1
             place == [n \in 1..N |-> at(n)]
  <1>1. ASSUME NEW p \in S, NEW q \in S
        PROVE  p \in B[q] <=>
                 \/ K[p].dep < K[q].dep
                 \/ K[p].dep = K[q].dep /\ Trip(K[p]) < Trip(K[q])
                 \/ K[p].dep = K[q].dep /\ Trip(K[p]) = Trip(K[q]) /\ Len(K[p].legs) < Len(K[q].legs)
                 \/ /\ K[p].dep = K[q].dep /\ Trip(K[p]) = Trip(K[q]) /\ Len(K[p].legs) = Len(K[q].legs)
                    /\ p[1] < q[1]
                 \/ /\ K[p].dep = K[q].dep /\ Trip(K[p]) = Trip(K[q]) /\ Len(K[p].legs) = Len(K[q].legs)
                    /\ p[1] = q[1] /\ p[2] < q[2]
                 \/ /\ K[p].dep = K[q].dep /\ Trip(K[p]) = Trip(K[q]) /\ Len(K[p].legs) = Len(K[q].legs)
                    /\ p[1] = q[1] /\ p[2] = q[2] /\ p[3] < q[3]
    <2>1. p \in B[q] <=> before(p, q)
      OBVIOUS
    <2> HIDE DEF B
    <2> QED
      BY <2>1, KeyOrder DEF Placed
  <1>2. \A p \in S : /\ p[1] \in Int /\ p[2] \in Int /\ p[3] \in Int
                    /\ K[p].dep \in Int /\ Trip(K[p]) \in Int /\ Len(K[p].legs) \in Int
    BY DEF Placed
  <1>3. \A p, q \in S : p[1] = q[1] /\ p[2] = q[2] /\ p[3] = q[3] => p = q
    BY DEF Placed
  <1>4. TotalOrder(S, B)
    <2>1. B \in [S -> SUBSET S]
      OBVIOUS
    <2> HIDE DEF B
    <2>2. \A p \in S : p \notin B[p]
      BY <1>1, <1>2
    <2> DEFINE dep(p) == K[p].dep
               trip(p) == Trip(K[p])
               legs(p) == Len(K[p].legs)
               less(p, q) == p \in B[q]
    <2>5. \A p, q \in S : less(p, q) <=>
              \/ dep(p) < dep(q)
              \/ dep(p) = dep(q) /\ trip(p) < trip(q)
              \/ dep(p) = dep(q) /\ trip(p) = trip(q) /\ legs(p) < legs(q)
              \/ dep(p) = dep(q) /\ trip(p) = trip(q) /\ legs(p) = legs(q) /\ p[1] < q[1]
              \/ /\ dep(p) = dep(q) /\ trip(p) = trip(q) /\ legs(p) = legs(q)
                 /\ p[1] = q[1] /\ p[2] < q[2]
              \/ /\ dep(p) = dep(q) /\ trip(p) = trip(q) /\ legs(p) = legs(q)
                 /\ p[1] = q[1] /\ p[2] = q[2] /\ p[3] < q[3]
      BY <1>1
    <2>6. \A p \in S : /\ p[1] \in Int /\ p[2] \in Int /\ p[3] \in Int
                      /\ dep(p) \in Int /\ trip(p) \in Int /\ legs(p) \in Int
      BY <1>2
    <2> HIDE DEF S, dep, trip, legs, less
    <2>7. ASSUME NEW p \in S, NEW q \in S, p # q, ~less(p, q) PROVE less(q, p)
      <3>1. p[1] # q[1] \/ p[2] # q[2] \/ p[3] # q[3]
        BY <1>3, <2>7
      <3> QED
        BY <2>5, <2>6, <2>7, <3>1
    <2>8. ASSUME NEW p \in S, NEW q \in S, NEW o \in S, less(p, q), less(q, o) PROVE less(p, o)
      BY <2>5, <2>6, <2>8
    <2>3. \A p, q \in S : p # q => p \in B[q] \/ q \in B[p]
      BY <2>7 DEF less
    <2>4. \A p, q, o \in S : p \in B[q] /\ q \in B[o] => p \in B[o]
      BY <2>8 DEF less
    <2> QED
      BY <2>1, <2>2, <2>3, <2>4 DEF TotalOrder
  <1>5. ASSUME NEW n \in 1..N PROVE at(n) = CHOOSE q \in S : Cardinality(B[q]) = n - 1
    OBVIOUS
  <1>6. IsFiniteSet(S) /\ N \in Nat
    BY FS_CardinalityType DEF Placed
  <1>7. InOrder(place, S, B)
    <2> HIDE DEF S, B, at
    <2>1. DOMAIN place = 1..N /\ place = [n \in DOMAIN place |-> place[n]]
      OBVIOUS
    <2>2. \A n \in DOMAIN place : place[n] = CHOOSE x \in S : Cardinality(B[x]) = n - 1
      BY <1>5
    <2> HIDE DEF place
    <2> QED
      BY <1>4, <1>6, <2>1, <2>2, OrderedByRank
  <1>8. Sorted(K) = [n \in 1..N |-> K[place[n]]]
    <2> DEFINE key(p) == PageKey(K[p], p)
               places == OrderBy(S, key)
    <2>1. Sorted(K) = [n \in DOMAIN places |-> K[places[n]]]
      BY DEF Sorted
    <2>2. places = place
      BY DEF OrderBy
    <2>3. DOMAIN place = 1..N
      OBVIOUS
    <2> HIDE DEF places, place, S, N
    <2> QED
      BY <2>1, <2>2, <2>3
  <1> HIDE DEF B, place, S
  <1>9. \A m, n \in 1..N : m < n => K[place[m]].dep <= K[place[n]].dep
    <2>1. \A p, q \in S : p \in B[q] => K[p].dep <= K[q].dep
      BY <1>1, <1>2
    <2> QED
      BY <1>7, <2>1 DEF InOrder
  <1>10. Len(Sorted(K)) = N
    BY <1>6, <1>8
  <1> QED
    BY <1>6, <1>7, <1>8, <1>9, <1>10 DEF InOrder, S

\* A page has candidates in the order of departures, each once; one that is left out
\* leaves no earlier than any of a page that is full.
LEMMA PageIs ==
    ASSUME NEW K, Placed(K), NEW limit \in Nat \ {0}
    PROVE  LET page == Take(Sorted(K), limit)
           IN  \E N \in 0..limit : \E place \in [1..N -> DOMAIN K] :
               /\ Len(page) = N
               /\ page = [n \in 1..N |-> K[place[n]]]
               /\ \A m, n \in 1..N : place[m] = place[n] => m = n
               /\ \A m, n \in 1..N : m < n => page[m].dep <= page[n].dep
               /\ \A p \in DOMAIN K : \/ \E n \in 1..N : place[n] = p
                                      \/ N = limit /\ \A n \in 1..N : page[n].dep <= K[p].dep
  <1> DEFINE page == Take(Sorted(K), limit)
             M == Cardinality(DOMAIN K)
             N == IF limit <= M THEN limit ELSE M
  <1>1. M \in Nat
    BY FS_CardinalityType DEF Placed
  <1>2. PICK at \in [1..M -> DOMAIN K] :
               /\ Len(Sorted(K)) = M
               /\ Sorted(K) = [n \in 1..M |-> K[at[n]]]
               /\ \A p \in DOMAIN K : \E n \in 1..M : at[n] = p
               /\ \A m, n \in 1..M : at[m] = at[n] => m = n
               /\ \A m, n \in 1..M : m < n => K[at[m]].dep <= K[at[n]].dep
    BY SortedIs
  <1> HIDE DEF M
  <1>3. page = [n \in 1..N |-> Sorted(K)[n]] /\ Len(page) = N
    <2> DEFINE list == Sorted(K)
    <2>1. DOMAIN list = 1..M /\ Len(list) = M
      BY <1>2
    <2> HIDE DEF list
    <2>2. limit \in Nat
      OBVIOUS
    <2>3. Take(list, limit) = [n \in 1..N |-> list[n]] /\ Len(Take(list, limit)) = N
      BY <1>1, <2>1, <2>2, TakeIs
    <2> QED
      BY <2>3 DEF list
  <1>4. N \in 0..limit /\ N \in 0..M
    BY <1>1
  <1> DEFINE place == [n \in 1..N |-> at[n]]
  <1>5. \A n \in 1..N : n \in 1..M /\ place[n] = at[n]
    BY <1>1, <1>4
  <1>6. place \in [1..N -> DOMAIN K]
    BY <1>5
  <1>7. page = [n \in 1..N |-> K[place[n]]]
    <2>1. \A n \in 1..N : Sorted(K)[n] = K[place[n]]
      BY <1>2, <1>5
    <2> HIDE DEF page, place, N
    <2> QED
      BY <1>3, <2>1
  <1> HIDE DEF page, place
  <1>8. \A m, n \in 1..N : place[m] = place[n] => m = n
    BY <1>2, <1>5
  <1>9. \A m, n \in 1..N : m < n => page[m].dep <= page[n].dep
    BY <1>2, <1>5, <1>7
  <1>10. ASSUME NEW p \in DOMAIN K, ~\E n \in 1..N : place[n] = p
         PROVE  N = limit /\ \A n \in 1..N : page[n].dep <= K[p].dep
    <2>1. PICK m \in 1..M : at[m] = p
      BY <1>2
    <2>2. ~(m \in 1..N)
      BY <1>5, <1>10, <2>1
    <2>3. N = limit /\ \A n \in 1..N : n < m
      BY <1>1, <2>2
    <2> QED
      BY <1>2, <1>5, <1>7, <2>1, <2>3
  <1> HIDE DEF N
  <1> QED
    BY <1>3, <1>4, <1>6, <1>7, <1>8, <1>9, <1>10 DEF page

\* Pruning takes candidates away, and no trip that goes all the way.
LEMMA PrunedIs ==
    ASSUME NEW K
    PROVE  /\ DOMAIN PruneDominated(K) \in SUBSET DOMAIN K
           /\ \A p \in DOMAIN PruneDominated(K) : PruneDominated(K)[p] = K[p]
           /\ \A p \in DOMAIN K : Changes(K[p]) = 0 => p \in DOMAIN PruneDominated(K)
  BY DEF PruneDominated, Restrict

\* Candidates that compare as equal.
AsGood(x, c) == x.dep = c.dep /\ x.arr = c.arr /\ Changes(x) = Changes(c)

\* A journey that stays is dominated by nothing; one that is dominated by nothing stays,
\* or another as good does.
LEMMA PrunedJourneys ==
    ASSUME NEW K, Placed(K)
    PROVE  LET R == PruneDominated(K)
           IN  /\ \A p \in DOMAIN R : Changes(K[p]) = 0 \/ ~Dominated(K[p], K)
               /\ \A p \in DOMAIN K : ~Dominated(K[p], K) => \E q \in DOMAIN R : AsGood(K[q], K[p])
  <1> DEFINE kept == {p \in DOMAIN K : Changes(K[p]) = 0 \/ ~Dominated(K[p], K)}
             rank(p) == <<K[p].dep, K[p].arr, Changes(K[p])>>
             stays(p) == \/ Changes(K[p]) = 0
                         \/ \A o \in kept : \/ ~Precedes(o, p)
                                            \/ Changes(K[o]) = 0
                                            \/ rank(o) # rank(p)
             R == PruneDominated(K)
  <1>1. DOMAIN R = {p \in kept : stays(p)}
    BY DEF PruneDominated, Restrict
  <1> HIDE DEF R
  <1>2. \A p \in DOMAIN R : Changes(K[p]) = 0 \/ ~Dominated(K[p], K)
    BY <1>1
  <1>3. ASSUME NEW p \in DOMAIN K, ~Dominated(K[p], K)
        PROVE  \E q \in DOMAIN R : AsGood(K[q], K[p])
    <2>1. p \in kept
      BY <1>3
    <2>2. CASE Changes(K[p]) = 0
      <3>1. p \in DOMAIN R
        BY <1>1, <2>1, <2>2
      <3> QED
        BY <3>1 DEF AsGood
    <2>3. CASE Changes(K[p]) # 0
      <3> DEFINE S == {o \in kept : Changes(K[o]) # 0 /\ rank(o) = rank(p)}
                 B == [q \in S |-> {o \in S : Precedes(o, q)}]
      <3>1. p \in S /\ S \in SUBSET DOMAIN K
        BY <2>1, <2>3
      <3>2. IsFiniteSet(S)
        BY <3>1, FS_Subset DEF Placed
      <3>3. \A q \in S : q \in Int \X Int \X Int
        BY <3>1 DEF Placed
      <3> HIDE DEF S, kept, rank
      <3>4. TotalOrder(S, B)
        <4>1. B \in [S -> SUBSET S]
          OBVIOUS
        <4>2. ASSUME NEW q \in S
              PROVE  q[1] \in Int /\ q[2] \in Int /\ q[3] \in Int /\ q = <<q[1], q[2], q[3]>>
          BY <3>3
        <4>3. ASSUME NEW o \in S, NEW q \in S
              PROVE  o \in B[q] <=> \/ o[1] < q[1]
                                    \/ o[1] = q[1] /\ o[2] < q[2]
                                    \/ o[1] = q[1] /\ o[2] = q[2] /\ o[3] < q[3]
          <5>1. o \in B[q] <=> Precedes(o, q)
            OBVIOUS
          <5> HIDE DEF B
          <5> QED
            BY <3>3, <5>1, PrecedesThree
        <4> HIDE DEF B
        <4>4. \A q \in S : q \notin B[q]
          BY <4>2, <4>3
        <4>5. ASSUME NEW o \in S, NEW q \in S, o # q PROVE o \in B[q] \/ q \in B[o]
          <5>1. o[1] # q[1] \/ o[2] # q[2] \/ o[3] # q[3]
            BY <4>2, <4>5
          <5> QED
            BY <4>2, <4>3, <5>1
        <4>6. ASSUME NEW o \in S, NEW q \in S, NEW x \in S, o \in B[q], q \in B[x] PROVE o \in B[x]
          BY <4>2, <4>3, <4>6
        <4> QED
          BY <4>1, <4>4, <4>5, <4>6 DEF TotalOrder
      <3>5. PICK q \in S : B[q] = {}
        <4> HIDE DEF B
        <4>1. Cardinality(S) \in Nat /\ Cardinality(S) # 0
          BY <3>1, <3>2, FS_CardinalityType, FS_EmptySet
        <4>2. 1 \in 1..Cardinality(S)
          BY <4>1
        <4>3. PICK q \in S : Cardinality(B[q]) = 1 - 1
          BY <3>2, <3>4, <4>2, Ranks
        <4>4. B[q] \in SUBSET S /\ Cardinality(B[q]) = 0
          BY <3>4, <4>3 DEF TotalOrder
        <4>5. IsFiniteSet(B[q])
          BY <3>2, <4>4, FS_Subset
        <4>6. B[q] = {}
          BY <4>4, <4>5, FS_EmptySet
        <4> QED
          BY <4>6
      <3>6. \A o \in S : ~Precedes(o, q)
        BY <3>5
      <3>7. q \in DOMAIN R
        BY <1>1, <3>6 DEF S
      <3>8. rank(q) = rank(p)
        BY DEF S
      <3> QED
        BY <3>7, <3>8 DEF rank, AsGood
    <2> QED
      BY <2>2, <2>3
  <1> QED
    BY <1>2, <1>3 DEF R

LEMMA PlacedRestricts ==
    ASSUME NEW K, Placed(K), NEW R, DOMAIN R \in SUBSET DOMAIN K,
           \A p \in DOMAIN R : R[p] = K[p]
    PROVE  Placed(R)
  <1>1. IsFiniteSet(DOMAIN R)
    BY FS_Subset DEF Placed
  <1> QED
    BY <1>1 DEF Placed

-----------------------------------------------------------------------------
(* The candidates of a request. *)

\* The image of a finite set is finite.
LEMMA ImageFinite ==
    ASSUME NEW S, IsFiniteSet(S), NEW f, DOMAIN f = S
    PROVE  IsFiniteSet({f[x] : x \in S})
  <1> DEFINE T == {f[x] : x \in S}
             g == [x \in S |-> f[x]]
  <1>1. g \in Surjection(S, T)
    BY DEF Surjection
  <1> HIDE DEF T, g
  <1>2. IsFiniteSet(T)
    BY <1>1, FS_Surjection
  <1> QED
    BY <1>2 DEF T

LEMMA PlatformsFinite ==
    ASSUME NEW d, DatabaseOK(d), NEW id
    PROVE  IsFiniteSet(ResolvePlatformIds(d, id))
  <1> DEFINE S == {x \in d.stops : x.parent = id /\ x.type = 0}
             f == [s \in S |-> s.id]
  <1>1. IsFiniteSet(S)
    BY FS_Subset DEF DatabaseOK
  <1>2. GetChildPlatformIds(d, id) = {f[s] : s \in S}
    BY DEF GetChildPlatformIds
  <1>3. DOMAIN f = S
    OBVIOUS
  <1> HIDE DEF S, f
  <1>4. IsFiniteSet(GetChildPlatformIds(d, id))
    BY <1>1, <1>2, <1>3, ImageFinite
  <1>5. IsFiniteSet({id})
    BY FS_Singleton
  <1> QED
    BY <1>4, <1>5 DEF ResolvePlatformIds

\* A finite set as a list has every member once.
LEMMA SetToSeqIs ==
    ASSUME NEW S, IsFiniteSet(S)
    PROVE  /\ Cardinality(S) \in Nat
           /\ SetToSeq(S) \in [1..Cardinality(S) -> S]
           /\ \A x \in S : \E n \in 1..Cardinality(S) : SetToSeq(S)[n] = x
           /\ \A m, n \in 1..Cardinality(S) : SetToSeq(S)[m] = SetToSeq(S)[n] => m = n
  <1> DEFINE N == Cardinality(S)
  <1>1. N \in Nat /\ ExistsBijection(1..N, S)
    BY FS_CardinalityType
  <1>2. PICK f \in [1..N -> S] : IsInjective(f)
    BY <1>1 DEF ExistsBijection, Bijection, Injection, IsInjective
  <1>3. SetToSeq(S) \in [1..N -> S] /\ IsInjective(SetToSeq(S))
    BY <1>2 DEF SetToSeq
  <1>4. SetToSeq(S) \in Injection(1..N, S)
    BY <1>3 DEF Injection
  <1>5. IsFiniteSet(1..N) /\ Cardinality(1..N) = N
    BY <1>1, 1 \in Int, N \in Int, FS_Interval
  <1>6. SetToSeq(S) \in Surjection(1..N, S)
    BY <1>4, <1>5, FS_Injection
  <1> QED
    BY <1>1, <1>3, <1>6 DEF IsInjective, Surjection

\* What the code that sorts, prunes and shows candidates relies on.
Shape(d, date, from, c) ==
    /\ c.date = date
    /\ c.legs[1] \in Legs(d, date) /\ c.legs[1].board.stop = from
    /\ Len(c.legs) \in {1, 2} /\ Changes(c) = Len(c.legs) - 1
    /\ c.dep = At(date, c.legs[1].board.dep) /\ c.dep \in Int
    /\ c.arr = At(date, Last(c.legs).alight.arr)
    /\ Last(c.legs).alight.arr \in Nat \cup {NULL}
    /\ Trip(c) \in Nat

LEMMA DirectShape ==
    ASSUME NEW d, DatabaseOK(d), NEW date \in Int, NEW from, NEW to, NEW after, NEW c,
           IsDirect(d, from, to, date, after, c)
    PROVE  Shape(d, date, from, c) /\ Len(c.legs) = 1
  <1>1. PICK l \in Legs(d, date) : l.board.stop = from /\ c = Direct(date, l)
    BY DEF IsDirect
  <1>2. l.board.dep \in Nat /\ l.board.trip \in Nat /\ l.alight.arr \in Nat \cup {NULL}
    BY LegFields
  <1>3. At(date, l.board.dep) \in Int
    BY <1>2, OriginIsInt, NullAssumption DEF At
  <1>4. /\ c.date = date /\ c.legs[1] = l /\ Last(c.legs) = l /\ Len(c.legs) = 1
        /\ Changes(c) = 0 /\ c.dep = At(date, l.board.dep) /\ c.arr = At(date, l.alight.arr)
    BY <1>1, DirectIs
  <1> QED
    BY <1>1, <1>2, <1>3, <1>4 DEF Shape, Trip

LEMMA JourneyShape ==
    ASSUME NEW d, DatabaseOK(d), NEW date \in Int, NEW from, NEW to, NEW after, NEW until, NEW c,
           IsJourney(d, from, to, date, after, until, c)
    PROVE  Shape(d, date, from, c) /\ Len(c.legs) = 2
  <1> DEFINE S == Outbound(d, from, Excluded(d, from, to), date, after, until)
             bucket(f) == SecondLegs(d, f, from, to, date, after)
  <1>1. PICK f \in S : \E i \in Feasible(d, f, bucket(f)) :
           c = Candidate(date, <<f, bucket(f)[i]>>, <<Connection(d, f, bucket(f)[i])>>)
    BY DEF IsJourney
  <1>2. PICK i \in Feasible(d, f, bucket(f)) :
           c = Candidate(date, <<f, bucket(f)[i]>>, <<Connection(d, f, bucket(f)[i])>>)
    BY <1>1
  <1> DEFINE s == bucket(f)[i]
  <1>3. f \in Legs(d, date) /\ f.board.stop = from
    BY DEF Outbound
  <1>4. f.board.dep \in Nat /\ f.board.trip \in Nat
    BY <1>3, LegFields
  <1>5. s.alight.arr \in Nat
    <2>1. PICK N \in Nat : DOMAIN bucket(f) = 1..N /\ \A n \in 1..N : bucket(f)[n].alight.arr \in Nat
      BY BucketOf DEF SecondLegs
    <2> QED
      BY <2>1 DEF Feasible, Reached
  <1> HIDE DEF s
  <1>6. At(date, f.board.dep) \in Int
    BY <1>4, OriginIsInt, NullAssumption DEF At
  <1>7. c = Candidate(date, <<f, s>>, <<Connection(d, f, s)>>)
    BY <1>2 DEF s
  <1>8. /\ c.date = date /\ c.legs[1] = f /\ Last(c.legs) = s /\ Len(c.legs) = 2
        /\ Changes(c) = 1 /\ c.dep = At(date, f.board.dep) /\ c.arr = At(date, s.alight.arr)
    BY <1>7, CandidateIs
  <1> HIDE DEF S
  <1> QED
    BY <1>3, <1>4, <1>5, <1>6, <1>8 DEF Shape, Trip

\* The platforms of a station in the order they are searched.
Platforms(d, id) == SetToSeq(ResolvePlatformIds(d, ResolveStop(d, id)))

\* What a request finds on one of its dates from one of the platforms.
OffersAt(d, r, u, i, j) ==
    CandidatesOf(d, Platforms(d, r.from)[j], ResolvePlatformIds(d, ResolveStop(d, r.to)),
                 CandidateDates(r, u)[i], AfterUnix(r, u), r.limit, EffectiveMaxTransfers(d, r))

\* Dates by platforms, and the places of one of these pairs.
Pairs(d, r, u) == (DOMAIN CandidateDates(r, u)) \X (DOMAIN Platforms(d, r.from))

PlacesAt(d, r, u, x) == {<<x[1], x[2], n>> : n \in DOMAIN OffersAt(d, r, u, x[1], x[2])}

InPlaces(d, r, u) ==
    /\ DOMAIN Candidates(d, r, u) = UNION {PlacesAt(d, r, u, x) : x \in Pairs(d, r, u)}
    /\ \A x \in Pairs(d, r, u) : \A n \in DOMAIN OffersAt(d, r, u, x[1], x[2]) :
          Candidates(d, r, u)[<<x[1], x[2], n>>] = OffersAt(d, r, u, x[1], x[2])[n]

LEMMA CandidatesAt == ASSUME NEW d, NEW r, NEW u PROVE InPlaces(d, r, u)
  <1> DEFINE K == Candidates(d, r, u)
             I == DOMAIN CandidateDates(r, u)
             J == DOMAIN Platforms(d, r.from)
             offers(x) == OffersAt(d, r, u, x[1], x[2])
             of == [x \in I \X J |-> offers(x)]
             places == UNION {{<<x[1], x[2], n>> : n \in DOMAIN of[x]} : x \in DOMAIN of}
  <1>1. K = [p \in places |-> of[<<p[1], p[2]>>][p[3]]]
    BY DEF Candidates, OffersAt, Platforms
  <1> HIDE DEF K, I, J, offers
  <1>2. DOMAIN of = I \X J /\ \A x \in I \X J : of[x] = offers(x)
    OBVIOUS
  <1> HIDE DEF of
  <1>3. places = UNION {{<<x[1], x[2], n>> : n \in DOMAIN offers(x)} : x \in I \X J}
    BY <1>2
  <1>4. ASSUME NEW x \in I \X J, NEW n \in DOMAIN offers(x)
        PROVE  K[<<x[1], x[2], n>>] = offers(x)[n]
    <2> DEFINE at(y) == {<<y[1], y[2], m>> : m \in DOMAIN offers(y)}
    <2>1. <<x[1], x[2], n>> \in places
      <3>1. <<x[1], x[2], n>> \in at(x)
        OBVIOUS
      <3>2. places = UNION {at(y) : y \in I \X J}
        BY <1>3
      <3> HIDE DEF at, places
      <3> QED
        BY <3>1, <3>2
    <2>2. <<x[1], x[2]>> = x
      OBVIOUS
    <2> HIDE DEF places
    <2>3. K[<<x[1], x[2], n>>] = of[<<x[1], x[2]>>][n]
      BY <1>1, <2>1
    <2> QED
      BY <1>2, <2>2, <2>3
  <1>5. DOMAIN K = places
    BY <1>1
  <1> HIDE DEF places
  <1> QED
    BY <1>3, <1>4, <1>5 DEF K, I, J, offers, Pairs, PlacesAt, InPlaces

RequestOK(r) == /\ r.after \in Int \cup {NULL} /\ r.date \in Int \cup {NULL}
                /\ r.limit \in Nat \ {0}

LEMMA DatesAre ==
    ASSUME NEW r, RequestOK(r), NEW u \in Int
    PROVE  /\ AfterUnix(r, u) \in Int
           /\ \E k \in Nat : CandidateDates(r, u) \in [1..k -> Int]
  <1>1. AfterUnix(r, u) \in Int
    BY OriginIsInt DEF AfterUnix, RequestOK
  <1>2. \A v \in Int : NyDate(v) \in Int
    BY ZoneAssumption DEF NyDate, Local, Offset, Day, Hour
  <1>3. Day \in Int
    BY DEF Day, Hour
  <1>4. \A v \in Int : GetScheduleServiceDates(v) \in [1..3 -> Int]
    BY <1>2, <1>3 DEF GetScheduleServiceDates
  <1>5. CASE r.date # NULL
    <2>1. r.date \in Int
      BY <1>5 DEF RequestOK
    <2>2. CandidateDates(r, u) \in [1..1 -> Int]
      BY <1>5, <2>1 DEF CandidateDates
    <2> QED
      BY <1>1, <2>2
  <1>6. CASE r.date = NULL
    <2>1. CandidateDates(r, u) \in [1..3 -> Int]
      BY <1>4, <1>6 DEF CandidateDates, RequestOK
    <2> QED
      BY <1>1, <2>1
  <1> QED
    BY <1>5, <1>6

\* What a request finds on one of its dates from one of the platforms.
LEMMA OffersAre ==
    ASSUME NEW d, DatabaseOK(d), NEW r, RequestOK(r), NEW u \in Int,
           NEW i \in DOMAIN CandidateDates(r, u), NEW j \in DOMAIN Platforms(d, r.from)
    PROVE  LET date == CandidateDates(r, u)[i]
               from == Platforms(d, r.from)[j]
               to == ResolvePlatformIds(d, ResolveStop(d, r.to))
               after == AfterSeconds(date, AfterUnix(r, u))
           IN  \E a, b \in Nat : \E until :
                  OffersIn(d, from, to, date, after, until, r.limit, EffectiveMaxTransfers(d, r),
                           OffersAt(d, r, u, i, j), a, b)
  <1> DEFINE list == OffersAt(d, r, u, i, j)
             date == CandidateDates(r, u)[i]
             from == Platforms(d, r.from)[j]
             to == ResolvePlatformIds(d, ResolveStop(d, r.to))
             au == AfterUnix(r, u)
             limit == r.limit
             most == EffectiveMaxTransfers(d, r)
  <1>1. date \in Int /\ au \in Int /\ limit \in Nat \ {0}
    BY DatesAre DEF RequestOK
  <1>2. list = CandidatesOf(d, from, to, date, au, limit, most)
    BY DEF OffersAt
  <1> HIDE DEF from, to, date, au, limit, most, list
  <1> DEFINE after == AfterSeconds(date, au)
             until == UntilSeconds(GetScheduledDepartures(d, from, to, date, after, limit), limit)
             raw == CandidatesOf(d, from, to, date, au, limit, most)
  <1>3. \E a, b \in Nat : OffersIn(d, from, to, date, after, until, limit, most, raw, a, b)
    BY <1>1, OffersOf
  <1> HIDE DEF after, until, raw
  <1>4. raw = list
    BY <1>2 DEF raw
  <1> QED
    BY <1>3, <1>4 DEF list, date, from, to, au, limit, most, after

\* The offers of one date from one platform, by their number.
LEMMA OffersShape ==
    ASSUME NEW d, DatabaseOK(d), NEW r, RequestOK(r), NEW u \in Int,
           NEW i \in DOMAIN CandidateDates(r, u), NEW j \in DOMAIN Platforms(d, r.from)
    PROVE  LET list == OffersAt(d, r, u, i, j)
               date == CandidateDates(r, u)[i]
               from == Platforms(d, r.from)[j]
               to == ResolvePlatformIds(d, ResolveStop(d, r.to))
               after == AfterSeconds(date, AfterUnix(r, u))
           IN  /\ \E N \in Nat : DOMAIN list = 1..N
               /\ \A n \in DOMAIN list : Shape(d, date, from, list[n])
               /\ \A m, n \in DOMAIN list : list[m] = list[n] => m = n
               /\ after <= MaxDeparture =>
                     \A l \in Boarding(d, from, to, date, after) :
                        \/ \E n \in DOMAIN list : list[n] = Direct(date, l)
                        \/ FullBefore(list, r.limit, after, Direct(date, l).dep)
  <1> DEFINE list == OffersAt(d, r, u, i, j)
             date == CandidateDates(r, u)[i]
             from == Platforms(d, r.from)[j]
             to == ResolvePlatformIds(d, ResolveStop(d, r.to))
             au == AfterUnix(r, u)
             after == AfterSeconds(date, au)
  <1>1. date \in Int /\ au \in Int /\ r.limit \in Nat \ {0}
    BY DatesAre DEF RequestOK
  <1>2. PICK a, b \in Nat : \E x :
               OffersIn(d, from, to, date, after, x, r.limit, EffectiveMaxTransfers(d, r), list, a, b)
    BY OffersAre
  <1> HIDE DEF list, from, to, date, au, after
  <1>3. PICK until :
               /\ DOMAIN list = 1..(a + b)
               /\ \A n \in 1..a : IsDirect(d, from, to, date, after, list[n])
               /\ \A n \in 1..(a + b) : n > a => IsJourney(d, from, to, date, after, until, list[n])
               /\ \A m, n \in 1..a : list[m] = list[n] => m = n
               /\ \A m, n \in 1..(a + b) :
                     m > a /\ n > a /\ list[m].legs[1] = list[n].legs[1] => m = n
               /\ after <= MaxDeparture =>
                     \A l \in Boarding(d, from, to, date, after) :
                        \/ \E n \in 1..a : list[n] = Direct(date, l)
                        \/ a = r.limit /\ \A n \in 1..a : list[n].dep <= Direct(date, l).dep
    BY <1>2 DEF OffersIn
  <1>4. \A n \in 1..a : Shape(d, date, from, list[n]) /\ Len(list[n].legs) = 1
    BY <1>1, <1>3, DirectShape
  <1>5. \A n \in 1..(a + b) : n > a => Shape(d, date, from, list[n]) /\ Len(list[n].legs) = 2
    <2>1. \A n \in 1..(a + b) : n > a => IsJourney(d, from, to, date, after, until, list[n])
      BY <1>3
    <2>2. \A c : IsJourney(d, from, to, date, after, until, c)
                    => Shape(d, date, from, c) /\ Len(c.legs) = 2
      BY <1>1, JourneyShape
    <2> QED
      BY <2>1, <2>2
  <1>6. \A n \in 1..(a + b) : ~(n > a) => n \in 1..a
    BY <1>3
  <1>7. 1..a \subseteq 1..(a + b)
    BY <1>3
  <1>8. \A n \in DOMAIN list : Shape(d, date, from, list[n])
    BY <1>3, <1>4, <1>5, <1>6
  <1>9. ASSUME NEW m \in DOMAIN list, NEW n \in DOMAIN list, list[m] = list[n] PROVE m = n
    <2>1. CASE m > a /\ n > a
      BY <1>3, <1>9, <2>1
    <2>2. CASE ~(m > a) /\ ~(n > a)
      BY <1>3, <1>6, <1>9, <2>2
    <2>3. ~(m > a) <=> ~(n > a)
      <3>1. ASSUME NEW k \in DOMAIN list
            PROVE  /\ k > a => Len(list[k].legs) = 2
                   /\ ~(k > a) => Len(list[k].legs) = 1
        <4>1. k \in 1..(a + b)
          BY <1>3
        <4> QED
          BY <1>4, <1>5, <1>6, <4>1
      <3> QED
        BY <1>9, <3>1
    <2> QED
      BY <2>1, <2>2, <2>3
  <1>10. ASSUME after <= MaxDeparture, NEW l \in Boarding(d, from, to, date, after),
                ~\E n \in DOMAIN list : list[n] = Direct(date, l),
                NEW n \in 1..r.limit
         PROVE  /\ n \in DOMAIN list /\ Changes(list[n]) = 0
                /\ list[n].dep <= Direct(date, l).dep
                /\ list[n].legs[1].board.dep >= after
    <2>1. a = r.limit /\ list[n].dep <= Direct(date, l).dep
      BY <1>3, <1>7, <1>10
    <2>2. n \in 1..a /\ n \in DOMAIN list
      BY <1>3, <1>7, <2>1
    <2>3. PICK k \in Legs(d, date) : k.board.dep >= after /\ list[n] = Direct(date, k)
      BY <1>3, <2>2 DEF IsDirect
    <2>4. list[n].legs[1] = k /\ Changes(list[n]) = 0
      BY <2>3, DirectIs
    <2> QED
      BY <2>1, <2>2, <2>3, <2>4
  <1>11. \E N \in Nat : DOMAIN list = 1..N
    BY <1>2, <1>3
  <1> QED
    BY <1>8, <1>9, <1>10, <1>11 DEF list, from, to, date, au, after, FullBefore

\* The candidates of a request have the shape, and no two of one date are equal.
LEMMA CandidatesAre ==
    ASSUME NEW d, DatabaseOK(d), NEW r, RequestOK(r), NEW u \in Int
    PROVE  LET K == Candidates(d, r, u)
               dates == CandidateDates(r, u)
               platforms == Platforms(d, r.from)
           IN  /\ Placed(K)
               /\ \A p \in DOMAIN K : /\ p[1] \in DOMAIN dates /\ p[2] \in DOMAIN platforms
                                      /\ Shape(d, dates[p[1]], platforms[p[2]], K[p])
               /\ \A p, q \in DOMAIN K : K[p] = K[q] /\ p[1] = q[1] => p = q
  <1> DEFINE K == Candidates(d, r, u)
             dates == CandidateDates(r, u)
             platforms == Platforms(d, r.from)
             I == DOMAIN dates
             J == DOMAIN platforms
             offers(x) == OffersAt(d, r, u, x[1], x[2])
             at(x) == PlacesAt(d, r, u, x)
             X == Pairs(d, r, u)
  <1>1. /\ DOMAIN K = UNION {at(x) : x \in X}
        /\ \A x \in X : \A n \in DOMAIN offers(x) : K[<<x[1], x[2], n>>] = offers(x)[n]
    <2>1. InPlaces(d, r, u)
      BY CandidatesAt
    <2> QED
      BY <2>1 DEF InPlaces
  <1>2. PICK k \in Nat : I = 1..k
    BY DatesAre
  <1>3. PICK m \in Nat : /\ J = 1..m
                         /\ \A i, j \in J : platforms[i] = platforms[j] => i = j
    BY PlatformsFinite, SetToSeqIs DEF Platforms
  <1>4. ASSUME NEW x \in X
        PROVE  /\ \E N \in Nat : DOMAIN offers(x) = 1..N
               /\ \A n \in DOMAIN offers(x) : Shape(d, dates[x[1]], platforms[x[2]], offers(x)[n])
               /\ \A n, o \in DOMAIN offers(x) : offers(x)[n] = offers(x)[o] => n = o
    <2>1. x[1] \in I /\ x[2] \in J
      BY DEF Pairs
    <2> QED
      BY <2>1, OffersShape
  <1> HIDE DEF K, offers, dates, platforms
  <1>5. ASSUME NEW p \in DOMAIN K
        PROVE  \E x \in X : \E n \in DOMAIN offers(x) :
                  /\ p = <<x[1], x[2], n>> /\ K[p] = offers(x)[n]
    <2>1. PICK x \in X : p \in at(x)
      BY <1>1
    <2>2. PICK n \in DOMAIN offers(x) : p = <<x[1], x[2], n>>
      BY <2>1 DEF PlacesAt, offers
    <2> QED
      BY <1>1, <2>2
  <1>6. ASSUME NEW p \in DOMAIN K
        PROVE  /\ p \in Nat \X Nat \X Nat
               /\ p[1] \in I /\ p[2] \in J
               /\ Shape(d, dates[p[1]], platforms[p[2]], K[p])
    <2>1. PICK x \in X : \E n \in DOMAIN offers(x) : p = <<x[1], x[2], n>> /\ K[p] = offers(x)[n]
      BY <1>5
    <2>2. PICK n \in DOMAIN offers(x) : p = <<x[1], x[2], n>> /\ K[p] = offers(x)[n]
      BY <2>1
    <2>3. x[1] \in I /\ x[2] \in J
      BY DEF Pairs, dates, platforms
    <2>4. n \in Nat /\ x[1] \in Nat /\ x[2] \in Nat
      BY <1>2, <1>3, <1>4, <2>3
    <2> HIDE DEF X
    <2> QED
      BY <1>4, <2>2, <2>3, <2>4
  <1>7. ASSUME NEW p \in DOMAIN K, NEW q \in DOMAIN K, K[p] = K[q], p[1] = q[1]
        PROVE  p = q
    <2>1. platforms[p[2]] = platforms[q[2]]
      BY <1>6, <1>7 DEF Shape
    <2>2. p[2] = q[2]
      BY <1>3, <1>6, <2>1
    <2>3. PICK x \in X : \E n \in DOMAIN offers(x) : p = <<x[1], x[2], n>> /\ K[p] = offers(x)[n]
      BY <1>5
    <2>4. PICK n \in DOMAIN offers(x) : p = <<x[1], x[2], n>> /\ K[p] = offers(x)[n]
      BY <2>3
    <2>5. PICK y \in X : \E o \in DOMAIN offers(y) : q = <<y[1], y[2], o>> /\ K[q] = offers(y)[o]
      BY <1>5
    <2>6. PICK o \in DOMAIN offers(y) : q = <<y[1], y[2], o>> /\ K[q] = offers(y)[o]
      BY <2>5
    <2>7. x = y
      <3>1. x[1] = y[1] /\ x[2] = y[2]
        BY <1>7, <2>2, <2>4, <2>6
      <3>2. x = <<x[1], x[2]>> /\ y = <<y[1], y[2]>>
        BY DEF Pairs
      <3> QED
        BY <3>1, <3>2
    <2>8. n = o
      BY <1>4, <1>7, <2>4, <2>6, <2>7
    <2> QED
      BY <2>4, <2>6, <2>7, <2>8
  <1>8. IsFiniteSet(DOMAIN K)
    <2>1. IsFiniteSet(I) /\ IsFiniteSet(J)
      BY <1>2, <1>3, 1 \in Int, FS_Interval
    <2>2. IsFiniteSet(X)
      <3>1. X = I \X J
        BY DEF Pairs, dates, platforms
      <3> HIDE DEF X, I, J
      <3> QED
        BY <2>1, <3>1, FS_Product
    <2> DEFINE f == [x \in X |-> at(x)]
               F == {f[x] : x \in X}
    <2>3. IsFiniteSet(F)
      <3>1. DOMAIN f = X
        OBVIOUS
      <3> HIDE DEF f, X
      <3> QED
        BY <2>2, <3>1, ImageFinite
    <2>4. ASSUME NEW x \in X PROVE IsFiniteSet(at(x))
      <3> DEFINE g == [n \in DOMAIN offers(x) |-> <<x[1], x[2], n>>]
      <3>1. IsFiniteSet(DOMAIN offers(x))
        <4>1. PICK N \in Nat : DOMAIN offers(x) = 1..N
          BY <1>4
        <4> QED
          BY <4>1, 1 \in Int, FS_Interval
      <3>2. DOMAIN g = DOMAIN offers(x) /\ at(x) = {g[n] : n \in DOMAIN offers(x)}
        BY DEF PlacesAt, offers
      <3> HIDE DEF g, at
      <3> QED
        BY <3>1, <3>2, ImageFinite
    <2>5. F = {at(x) : x \in X}
      OBVIOUS
    <2> HIDE DEF F, at
    <2>6. IsFiniteSet(UNION F)
      BY <2>3, <2>4, <2>5, FS_UNION
    <2> QED
      BY <1>1, <2>5, <2>6
  <1>9. ASSUME NEW p \in DOMAIN K
        PROVE  /\ p \in Int \X Int \X Int
               /\ K[p].dep \in Int /\ Trip(K[p]) \in Int /\ Len(K[p].legs) \in Int
    BY <1>6 DEF Shape
  <1>10. Placed(K)
    BY <1>8, <1>9 DEF Placed
  <1> HIDE DEF I, J
  <1> QED
    BY <1>6, <1>7, <1>10 DEF K, dates, platforms, I, J

-----------------------------------------------------------------------------
(* The answer to a request. *)

\* Where the candidates on a page come from.
PageAt(d, r, u, page, N, place) ==
    LET K == Candidates(d, r, u)
    IN  /\ Len(page.departures) = N
        /\ page.departures = [n \in 1..N |-> K[place[n]]]
        /\ \A m, n \in 1..N : place[m] = place[n] => m = n
        /\ \A m, n \in 1..N : m < n => K[place[m]].dep <= K[place[n]].dep
        /\ \A n \in 1..N : K[place[n]].dep >= page.after
        /\ \A p \in DOMAIN K :
              K[p].dep >= page.after /\ Changes(K[p]) = 0 =>
                  \/ \E n \in 1..N : place[n] = p
                  \/ N = r.limit /\ \A n \in 1..N : K[place[n]].dep <= K[p].dep

\* What it shows of journeys, against all candidates that leave late enough.
JourneysAt(d, r, u, page, N, place) ==
    LET K == Candidates(d, r, u)
        beaten(p) == \E q \in DOMAIN K : K[q].dep >= page.after /\ Dominates(K[q], K[p])
    IN  /\ \A n \in 1..N : Changes(K[place[n]]) = 0 \/ ~beaten(place[n])
        /\ \A p \in DOMAIN K :
              K[p].dep >= page.after /\ ~beaten(p) =>
                  \/ \E n \in 1..N : AsGood(K[place[n]], K[p])
                  \/ N = r.limit /\ \A n \in 1..N : K[place[n]].dep <= K[p].dep

LEMMA PageOf ==
    ASSUME NEW d, DatabaseOK(d), NEW r, RequestOK(r), NEW u \in Int,
           GetSchedule(d, r, u).status = "ok"
    PROVE  LET page == GetSchedule(d, r, u)
           IN  /\ page.serviceDates = CandidateDates(r, u)
               /\ page.after = AfterUnix(r, u) /\ page.after \in Int
               /\ page.nextAfter = NextAfter(page.departures, r.limit)
               /\ \E N \in 0..r.limit : \E place \in [1..N -> DOMAIN Candidates(d, r, u)] :
                     PageAt(d, r, u, page, N, place) /\ JourneysAt(d, r, u, page, N, place)
  <1> DEFINE page == GetSchedule(d, r, u)
             K == Candidates(d, r, u)
             au == AfterUnix(r, u)
             due == RestrictValues(K, LAMBDA c : c.dep >= au)
             kept == PruneDominated(due)
             list == Take(Sorted(kept), r.limit)
  <1>1. /\ page.serviceDates = CandidateDates(r, u)
        /\ page.after = au /\ page.departures = list
        /\ page.nextAfter = NextAfter(list, r.limit)
    <2>1. page # NotFound
      BY DEF NotFound
    <2>2. page = [status |-> "ok", serviceDates |-> CandidateDates(r, u), after |-> au,
                  departures |-> list, nextAfter |-> NextAfter(list, r.limit)]
      BY <2>1 DEF GetSchedule
    <2> HIDE DEF page, list
    <2> QED
      BY <2>2
  <1>2. au \in Int
    BY DatesAre
  <1>3. Placed(K) /\ \A p \in DOMAIN K : K[p].dep \in Int
    <2>1. Placed(K)
      BY CandidatesAre
    <2> QED
      BY <2>1 DEF Placed
  <1> HIDE DEF K, au, page
  <1>4. /\ DOMAIN due = {p \in DOMAIN K : K[p].dep >= au}
        /\ \A p \in DOMAIN due : due[p] = K[p]
    BY DEF RestrictValues, Restrict
  <1> HIDE DEF due
  <1>5. /\ DOMAIN kept \in SUBSET DOMAIN due
        /\ \A p \in DOMAIN kept : kept[p] = due[p]
        /\ \A p \in DOMAIN due : Changes(due[p]) = 0 => p \in DOMAIN kept
    BY PrunedIs
  <1> HIDE DEF kept
  <1>6. /\ DOMAIN kept \in SUBSET DOMAIN K
        /\ \A p \in DOMAIN kept : kept[p] = K[p] /\ K[p].dep >= au
        /\ \A p \in DOMAIN K : K[p].dep >= au /\ Changes(K[p]) = 0 => p \in DOMAIN kept
    BY <1>4, <1>5
  <1>7. Placed(kept)
    BY <1>3, <1>6, PlacedRestricts
  <1>8. r.limit \in Nat \ {0}
    BY DEF RequestOK
  <1>9. PICK N \in 0..r.limit : \E place \in [1..N -> DOMAIN kept] :
               /\ Len(list) = N
               /\ list = [n \in 1..N |-> kept[place[n]]]
               /\ \A m, n \in 1..N : place[m] = place[n] => m = n
               /\ \A m, n \in 1..N : m < n => list[m].dep <= list[n].dep
               /\ \A p \in DOMAIN kept : \/ \E n \in 1..N : place[n] = p
                                         \/ N = r.limit /\ \A n \in 1..N : list[n].dep <= kept[p].dep
    BY <1>7, <1>8, PageIs
  <1>10. PICK place \in [1..N -> DOMAIN kept] :
               /\ Len(list) = N
               /\ list = [n \in 1..N |-> kept[place[n]]]
               /\ \A m, n \in 1..N : place[m] = place[n] => m = n
               /\ \A m, n \in 1..N : m < n => list[m].dep <= list[n].dep
               /\ \A p \in DOMAIN kept : \/ \E n \in 1..N : place[n] = p
                                         \/ N = r.limit /\ \A n \in 1..N : list[n].dep <= kept[p].dep
    BY <1>9
  <1> HIDE DEF list
  <1>11. \A n \in 1..N : /\ place[n] \in DOMAIN kept /\ place[n] \in DOMAIN K
                         /\ kept[place[n]] = K[place[n]] /\ list[n] = K[place[n]]
                         /\ K[place[n]].dep >= au
    BY <1>6, <1>10
  <1>12. list = [n \in 1..N |-> K[place[n]]]
    BY <1>10, <1>11
  <1>13. place \in [1..N -> DOMAIN K]
    BY <1>6
  <1>14. ASSUME NEW p \in DOMAIN K, K[p].dep >= au, Changes(K[p]) = 0
         PROVE  \/ \E n \in 1..N : place[n] = p
                \/ N = r.limit /\ \A n \in 1..N : K[place[n]].dep <= K[p].dep
    BY <1>6, <1>10, <1>11, <1>14
  <1>15. PageAt(d, r, u, page, N, place)
    <2>1. \A m, n \in 1..N : m < n => K[place[m]].dep <= K[place[n]].dep
      BY <1>10, <1>11
    <2> QED
      BY <1>1, <1>10, <1>11, <1>12, <1>14, <2>1 DEF PageAt, K
  <1>16. /\ \A p \in DOMAIN kept : Changes(due[p]) = 0 \/ ~Dominated(due[p], due)
         /\ \A p \in DOMAIN due : ~Dominated(due[p], due) =>
               \E q \in DOMAIN kept : AsGood(due[q], due[p])
    <2>1. Placed(due)
      BY <1>3, <1>4, PlacedRestricts
    <2> QED
      BY <2>1, PrunedJourneys DEF kept
  <1> DEFINE beaten(p) == \E q \in DOMAIN K : K[q].dep >= au /\ Dominates(K[q], K[p])
  <1>17. \A p \in DOMAIN due : Dominated(due[p], due) <=> beaten(p)
    BY <1>4 DEF Dominated
  <1> HIDE DEF beaten
  <1>18. \A n \in 1..N : Changes(K[place[n]]) = 0 \/ ~beaten(place[n])
    BY <1>4, <1>5, <1>11, <1>16, <1>17
  <1>19. ASSUME NEW p \in DOMAIN K, K[p].dep >= au, ~beaten(p)
         PROVE  \/ \E n \in 1..N : AsGood(K[place[n]], K[p])
                \/ N = r.limit /\ \A n \in 1..N : K[place[n]].dep <= K[p].dep
    <2>1. p \in DOMAIN due /\ due[p] = K[p]
      BY <1>4, <1>19
    <2>2. PICK q \in DOMAIN kept : AsGood(due[q], due[p])
      BY <1>16, <1>17, <1>19, <2>1
    <2>3. AsGood(K[q], K[p]) /\ K[q].dep = K[p].dep /\ kept[q] = K[q]
      BY <1>4, <1>5, <2>1, <2>2 DEF AsGood
    <2>4. \/ \E n \in 1..N : place[n] = q
          \/ N = r.limit /\ \A n \in 1..N : list[n].dep <= kept[q].dep
      BY <1>10
    <2> QED
      BY <1>11, <2>3, <2>4
  <1>20. JourneysAt(d, r, u, page, N, place)
    BY <1>1, <1>18, <1>19 DEF JourneysAt, K, beaten
  <1> QED
    BY <1>1, <1>2, <1>13, <1>15, <1>20 DEF page, au, K

\* As many members of 1..n as 1..n has are all of them.
OneToOne(f, k, n) == f \in [1..k -> 1..n] /\ \A x, y \in 1..k : f[x] = f[y] => x = y

Onto(f, k, n) == \A m \in 1..n : \E x \in 1..k : f[x] = m

LEMMA AllTaken ==
    ASSUME NEW k \in Nat, NEW n \in Nat, n <= k, NEW f, OneToOne(f, k, n)
    PROVE  n = k /\ Onto(f, k, n)
  <1>1. \A m \in Nat : IsFiniteSet(1..m) /\ Cardinality(1..m) = m
    <2>1. ASSUME NEW m \in Nat PROVE IsFiniteSet(1..m) /\ Cardinality(1..m) = m
      BY 1 \in Int, m \in Int, FS_Interval
    <2> QED
      BY <2>1
  <1>2. f \in Injection(1..k, 1..n)
    BY DEF OneToOne, Injection, IsInjective
  <1>3. k <= n
    BY <1>1, <1>2, FS_Injection
  <1>4. f \in Surjection(1..k, 1..n)
    BY <1>1, <1>2, <1>3, FS_Injection
  <1> QED
    BY <1>3, <1>4 DEF Surjection, Onto

\* The cursor of a page is not before its beginning.
LEMMA CursorIs ==
    ASSUME NEW d, DatabaseOK(d), NEW r, RequestOK(r), NEW u \in Int,
           GetSchedule(d, r, u).status = "ok"
    PROVE  LET page == GetSchedule(d, r, u)
           IN  /\ page.after \in Int
               /\ page.nextAfter \in Int \cup {NULL}
               /\ page.nextAfter # NULL => page.after < page.nextAfter
               /\ r.after # NULL => page.after = r.after
               /\ DOMAIN page.departures = 1..Len(page.departures)
               /\ \A n \in DOMAIN page.departures :
                     /\ page.departures[n].dep \in Int
                     /\ page.departures[n].dep >= page.after
                     /\ page.nextAfter # NULL => page.departures[n].dep < page.nextAfter
  <1> DEFINE page == GetSchedule(d, r, u)
             K == Candidates(d, r, u)
  <1>1. /\ page.after = AfterUnix(r, u) /\ page.after \in Int
        /\ page.nextAfter = NextAfter(page.departures, r.limit)
    BY PageOf
  <1>2. PICK N \in 0..r.limit : \E place \in [1..N -> DOMAIN K] : PageAt(d, r, u, page, N, place)
    BY PageOf
  <1>3. PICK place \in [1..N -> DOMAIN K] : PageAt(d, r, u, page, N, place)
    BY <1>2
  <1>4. /\ page.departures = [n \in 1..N |-> K[place[n]]] /\ Len(page.departures) = N
        /\ \A m, n \in 1..N : m < n => K[place[m]].dep <= K[place[n]].dep
        /\ \A n \in 1..N : K[place[n]].dep >= page.after
    BY <1>3 DEF PageAt
  <1>5. r.limit \in Nat \ {0}
    BY DEF RequestOK
  <1>6. \A p \in DOMAIN K : K[p].dep \in Int
    BY CandidatesAre DEF Placed
  <1>7. r.after # NULL => page.after = r.after
    BY <1>1 DEF AfterUnix
  <1> HIDE DEF page, K
  <1>8. \A n \in 1..N : /\ page.departures[n] = K[place[n]] /\ page.departures[n].dep \in Int
                        /\ page.departures[n].dep >= page.after
    BY <1>4, <1>6
  <1>9. CASE N = r.limit
    <2>1. N \in 1..N
      BY <1>5, <1>9
    <2>2. page.nextAfter = page.departures[N].dep + 1
      BY <1>1, <1>4, <1>9 DEF NextAfter
    <2>3. \A n \in 1..N : page.departures[n].dep <= page.departures[N].dep
      BY <1>4, <1>8, <2>1
    <2> QED
      BY <1>1, <1>4, <1>7, <1>8, <2>1, <2>2, <2>3 DEF page
  <1>10. CASE N # r.limit
    <2>1. page.nextAfter = NULL
      BY <1>1, <1>4, <1>10 DEF NextAfter
    <2> QED
      BY <1>1, <1>4, <1>7, <1>8, <2>1 DEF page
  <1> QED
    BY <1>9, <1>10

\* A page is full with what leaves by t.
EndsBy(page, t) == page.nextAfter # NULL /\ t >= page.nextAfter - 1

\* It is, if nothing on a page that has its limit leaves later.
LEMMA PageEnds ==
    ASSUME NEW d, DatabaseOK(d), NEW r, RequestOK(r), NEW u \in Int,
           GetSchedule(d, r, u).status = "ok",
           NEW N \in 0..r.limit, NEW place \in [1..N -> DOMAIN Candidates(d, r, u)],
           PageAt(d, r, u, GetSchedule(d, r, u), N, place),
           NEW t \in Int, N = r.limit,
           \A n \in 1..N : Candidates(d, r, u)[place[n]].dep <= t
    PROVE  EndsBy(GetSchedule(d, r, u), t)
  <1> DEFINE page == GetSchedule(d, r, u)
             K == Candidates(d, r, u)
  <1>1. page.nextAfter = NextAfter(page.departures, r.limit)
    BY PageOf
  <1>2. page.departures = [n \in 1..N |-> K[place[n]]] /\ Len(page.departures) = N
    BY DEF PageAt
  <1>3. N \in 1..N
    BY DEF RequestOK
  <1>4. K[place[N]].dep \in Int
    BY <1>3, CandidatesAre DEF Placed
  <1> HIDE DEF page, K
  <1>5. page.nextAfter = K[place[N]].dep + 1
    BY <1>1, <1>2, <1>3 DEF NextAfter
  <1>6. K[place[N]].dep <= t
    BY <1>3 DEF K
  <1> QED
    BY <1>4, <1>5, <1>6, NullAssumption DEF EndsBy, page

\* An offer is a candidate.
LEMMA OfferPlace ==
    ASSUME NEW d, NEW r, NEW u,
           NEW i \in DOMAIN CandidateDates(r, u), NEW j \in DOMAIN Platforms(d, r.from)
    PROVE  \A n \in DOMAIN OffersAt(d, r, u, i, j) :
              /\ <<i, j, n>> \in DOMAIN Candidates(d, r, u)
              /\ Candidates(d, r, u)[<<i, j, n>>] = OffersAt(d, r, u, i, j)[n]
  <1> DEFINE K == Candidates(d, r, u)
             list == OffersAt(d, r, u, i, j)
             x == <<i, j>>
  <1>1. x \in Pairs(d, r, u) /\ x[1] = i /\ x[2] = j
    BY DEF Pairs
  <1>2. InPlaces(d, r, u)
    BY CandidatesAt
  <1> HIDE DEF x
  <1>3. \A n \in DOMAIN list : K[<<i, j, n>>] = list[n]
    BY <1>1, <1>2 DEF InPlaces
  <1>4. \A n \in DOMAIN list : <<i, j, n>> \in PlacesAt(d, r, u, x)
    BY <1>1 DEF PlacesAt
  <1>5. \A n \in DOMAIN list : <<i, j, n>> \in DOMAIN K
    BY <1>1, <1>2, <1>4 DEF InPlaces
  <1> QED
    BY <1>3, <1>5

\* If one query alone has as many trips that leave by t as the page has room for, the
\* page is full with what leaves by t.
LEMMA FullPage ==
    ASSUME NEW d, DatabaseOK(d), NEW r, RequestOK(r), NEW u \in Int,
           GetSchedule(d, r, u).status = "ok",
           NEW i \in DOMAIN CandidateDates(r, u), NEW j \in DOMAIN Platforms(d, r.from),
           NEW t \in Int,
           FullBefore(OffersAt(d, r, u, i, j), r.limit,
                      AfterSeconds(CandidateDates(r, u)[i], AfterUnix(r, u)), t)
    PROVE  EndsBy(GetSchedule(d, r, u), t)
  <1> DEFINE page == GetSchedule(d, r, u)
             K == Candidates(d, r, u)
             date == CandidateDates(r, u)[i]
             list == OffersAt(d, r, u, i, j)
             after == AfterSeconds(date, AfterUnix(r, u))
  <1>1. page.after = AfterUnix(r, u) /\ page.after \in Int
    BY PageOf
  <1>2. PICK N \in 0..r.limit : \E place \in [1..N -> DOMAIN K] : PageAt(d, r, u, page, N, place)
    BY PageOf
  <1>3. PICK place \in [1..N -> DOMAIN K] : PageAt(d, r, u, page, N, place)
    BY <1>2
  <1>4. \A p \in DOMAIN K :
           K[p].dep >= page.after /\ Changes(K[p]) = 0 =>
               \/ \E n \in 1..N : place[n] = p
               \/ N = r.limit /\ \A n \in 1..N : K[place[n]].dep <= K[p].dep
    BY <1>3 DEF PageAt
  <1>5. date \in Int /\ r.limit \in Nat \ {0} /\ N \in Nat /\ N <= r.limit
    <2>1. PICK k \in Nat : CandidateDates(r, u) \in [1..k -> Int]
      BY DatesAre
    <2> QED
      BY <2>1 DEF RequestOK
  <1>6. \A n \in DOMAIN list : <<i, j, n>> \in DOMAIN K /\ K[<<i, j, n>>] = list[n]
    BY OfferPlace
  <1>7. \A n \in DOMAIN list : Shape(d, date, Platforms(d, r.from)[j], list[n])
    BY OffersShape
  <1>8. \A n \in 1..r.limit : /\ n \in DOMAIN list /\ Changes(list[n]) = 0
                              /\ list[n].dep <= t /\ list[n].legs[1].board.dep >= after
    BY DEF FullBefore
  <1>9. \A n \in 1..N : K[place[n]].dep \in Int
    BY CandidatesAre DEF Placed
  <1>10. ASSUME N = r.limit, \A n \in 1..N : K[place[n]].dep <= t PROVE EndsBy(page, t)
    BY <1>3, <1>10, PageEnds
  <1> HIDE DEF page, K, date, list, after
  <1>11. ASSUME NEW n \in 1..r.limit
         PROVE  /\ <<i, j, n>> \in DOMAIN K /\ K[<<i, j, n>>] = list[n]
                /\ list[n].dep \in Int
                /\ \/ \E m \in 1..N : place[m] = <<i, j, n>>
                   \/ N = r.limit /\ \A m \in 1..N : K[place[m]].dep <= list[n].dep
    <2>1. n \in DOMAIN list
      BY <1>8
    <2>2. /\ list[n].dep = At(date, list[n].legs[1].board.dep) /\ list[n].dep \in Int
          /\ list[n].legs[1].board.dep \in Nat
      BY <1>7, <2>1, LegFields DEF Shape
    <2>3. list[n].dep >= page.after
      <3>1. \A m \in Nat : GetServiceDayOriginUnix(date) + m >= page.after <=> m >= after
        BY <1>1, <1>5, AfterIs DEF after
      <3> QED
        BY <1>8, <2>2, <3>1, NullAssumption DEF At
    <2> QED
      BY <1>4, <1>6, <1>8, <2>1, <2>2, <2>3
  \* They fill the page, if all are on it,
  <1>12. CASE \A n \in 1..r.limit : \E m \in 1..N : place[m] = <<i, j, n>>
    <2> DEFINE f == [n \in 1..r.limit |-> CHOOSE m \in 1..N : place[m] = <<i, j, n>>]
    <2>1. \A n \in 1..r.limit : f[n] \in 1..N /\ place[f[n]] = <<i, j, n>>
      BY <1>12
    <2>2. f \in [1..r.limit -> 1..N]
      BY <2>1
    <2> HIDE DEF f
    <2>3. OneToOne(f, r.limit, N)
      BY <2>1, <2>2 DEF OneToOne
    <2>4. N = r.limit /\ Onto(f, r.limit, N)
      BY <1>5, <2>3, AllTaken
    <2>5. ASSUME NEW m \in 1..N PROVE K[place[m]].dep <= t
      <3>1. PICK n \in 1..r.limit : f[n] = m
        BY <2>4 DEF Onto
      <3> QED
        BY <1>8, <1>11, <2>1, <3>1
    <2> QED
      BY <1>10, <2>4, <2>5 DEF page
  \* or what is there leaves earlier than one that is not.
  <1>13. CASE ~\A n \in 1..r.limit : \E m \in 1..N : place[m] = <<i, j, n>>
    <2>1. PICK n \in 1..r.limit : ~\E m \in 1..N : place[m] = <<i, j, n>>
      BY <1>13
    <2>2. N = r.limit /\ \A m \in 1..N : K[place[m]].dep <= list[n].dep
      BY <1>11, <2>1
    <2>3. list[n].dep <= t /\ list[n].dep \in Int
      BY <1>8, <1>11
    <2>4. \A m \in 1..N : K[place[m]].dep <= t
      BY <1>9, <2>2, <2>3
    <2> QED
      BY <1>10, <2>2, <2>4 DEF page
  <1> QED
    BY <1>12, <1>13

\* A trip that leaves in the time a page covers is on it, unless it leaves in the
\* last second of a page that is full.
LEMMA PageComplete ==
    ASSUME NEW d, DatabaseOK(d), NEW r, RequestOK(r), NEW u \in Int,
           GetSchedule(d, r, u).status = "ok",
           NEW i \in DOMAIN CandidateDates(r, u),
           NEW l \in Legs(d, CandidateDates(r, u)[i]),
           l.board.stop \in ResolvePlatformIds(d, ResolveStop(d, r.from)),
           l.alight.stop \in ResolvePlatformIds(d, ResolveStop(d, r.to)),
           l.board.dep <= MaxDeparture,
           Covers(GetSchedule(d, r, u), Direct(CandidateDates(r, u)[i], l).dep)
    PROVE  LET page == GetSchedule(d, r, u)
               c == Direct(CandidateDates(r, u)[i], l)
           IN  c \in ToSet(page.departures) \/ LastSecond(page, c.dep)
  <1> DEFINE page == GetSchedule(d, r, u)
             K == Candidates(d, r, u)
             date == CandidateDates(r, u)[i]
             c == Direct(date, l)
             to == ResolvePlatformIds(d, ResolveStop(d, r.to))
             after == AfterSeconds(date, page.after)
  <1>1. /\ page.after = AfterUnix(r, u) /\ page.after \in Int
        /\ page.nextAfter = NextAfter(page.departures, r.limit)
    BY PageOf
  <1>2. PICK N \in 0..r.limit : \E place \in [1..N -> DOMAIN K] : PageAt(d, r, u, page, N, place)
    BY PageOf
  <1>3. PICK place \in [1..N -> DOMAIN K] : PageAt(d, r, u, page, N, place)
    BY <1>2
  <1>4. /\ page.departures = [n \in 1..N |-> K[place[n]]] /\ Len(page.departures) = N
        /\ \A m, n \in 1..N : place[m] = place[n] => m = n
        /\ \A m, n \in 1..N : m < n => K[place[m]].dep <= K[place[n]].dep
        /\ \A p \in DOMAIN K :
              K[p].dep >= page.after /\ Changes(K[p]) = 0 =>
                  \/ \E n \in 1..N : place[n] = p
                  \/ N = r.limit /\ \A n \in 1..N : K[place[n]].dep <= K[p].dep
    BY <1>3 DEF PageAt
  <1>5. date \in Int /\ r.limit \in Nat \ {0}
    <2>1. PICK k \in Nat : CandidateDates(r, u) \in [1..k -> Int]
      BY DatesAre
    <2> QED
      BY <2>1 DEF RequestOK
  <1>6. PICK j \in DOMAIN Platforms(d, r.from) : Platforms(d, r.from)[j] = l.board.stop
    BY PlatformsFinite, SetToSeqIs DEF Platforms
  <1> DEFINE list == OffersAt(d, r, u, i, j)
  <1>7. l.board.dep \in Nat /\ c.dep = GetServiceDayOriginUnix(date) + l.board.dep /\ c.dep \in Int
    <2>1. l.board.dep \in Nat
      BY LegFields
    <2>2. c.dep = At(date, l.board.dep)
      BY DirectIs
    <2>3. GetServiceDayOriginUnix(date) \in Int
      BY <1>5, OriginIsInt
    <2> HIDE DEF c, date
    <2> QED
      BY <2>1, <2>2, <2>3, NullAssumption DEF At
  <1>8. /\ c.dep >= page.after
        /\ page.nextAfter = NULL \/ c.dep < page.nextAfter
    BY DEF Covers
  <1>9. after \in Nat /\ l.board.dep >= after /\ after <= MaxDeparture
    <2>1. /\ after \in Nat
          /\ \A n \in Nat : GetServiceDayOriginUnix(date) + n >= page.after <=> n >= after
      BY <1>1, <1>5, AfterIs
    <2>2. MaxDeparture \in Int
      BY DEF MaxDeparture, Hour
    <2> HIDE DEF after, date, page, c
    <2> QED
      BY <1>7, <1>8, <2>1, <2>2
  <1>10. l \in Boarding(d, Platforms(d, r.from)[j], to, date, after)
    BY <1>6, <1>9 DEF Boarding
  <1>11. /\ \A n \in DOMAIN list : Shape(d, date, Platforms(d, r.from)[j], list[n])
         /\ \A m, n \in DOMAIN list : list[m] = list[n] => m = n
         /\ \/ \E n \in DOMAIN list : list[n] = c
            \/ FullBefore(list, r.limit, after, c.dep)
    <2> DEFINE x == AfterSeconds(date, AfterUnix(r, u))
    <2>1. x = after
      BY <1>1
    <2>2. /\ \A n \in DOMAIN list : Shape(d, date, Platforms(d, r.from)[j], list[n])
          /\ \A m, n \in DOMAIN list : list[m] = list[n] => m = n
          /\ x <= MaxDeparture =>
                \A k \in Boarding(d, Platforms(d, r.from)[j], to, date, x) :
                   \/ \E n \in DOMAIN list : list[n] = Direct(date, k)
                   \/ FullBefore(list, r.limit, x, Direct(date, k).dep)
      BY OffersShape
    <2> HIDE DEF x, after, list, date, to
    <2> QED
      BY <1>9, <1>10, <2>1, <2>2
  <1>12. \A n \in DOMAIN list : <<i, j, n>> \in DOMAIN K /\ K[<<i, j, n>>] = list[n]
    BY OfferPlace
  <1>13. ASSUME EndsBy(page, c.dep) PROVE LastSecond(page, c.dep)
    <2>1. page.nextAfter \in Int
      BY <1>13, CursorIs DEF EndsBy
    <2> QED
      BY <1>7, <1>8, <1>13, <2>1 DEF EndsBy, LastSecond
  <1>14. ASSUME FullBefore(list, r.limit, after, c.dep) PROVE EndsBy(page, c.dep)
    BY <1>1, <1>7, <1>14, FullPage
  <1>15. ASSUME N = r.limit, \A m \in 1..N : K[place[m]].dep <= c.dep PROVE EndsBy(page, c.dep)
    BY <1>3, <1>7, <1>15, PageEnds
  <1> HIDE DEF page, K, c, date, list, after, to
  <1>16. \A n \in 1..N : K[place[n]] \in ToSet(page.departures)
    BY <1>4 DEF ToSet
  <1>17. CASE \E n \in DOMAIN list : list[n] = c
    <2>1. PICK n \in DOMAIN list : list[n] = c
      BY <1>17
    <2>2. Changes(c) = 0
      BY DirectIs DEF c
    <2>3. \/ \E m \in 1..N : place[m] = <<i, j, n>>
          \/ N = r.limit /\ \A m \in 1..N : K[place[m]].dep <= c.dep
      BY <1>4, <1>8, <1>12, <2>1, <2>2
    <2>4. c \in ToSet(page.departures) \/ LastSecond(page, c.dep)
      BY <1>12, <1>13, <1>15, <1>16, <2>1, <2>3
    <2> QED
      BY <2>4 DEF page, c, date
  <1>18. CASE FullBefore(list, r.limit, after, c.dep)
    <2>1. LastSecond(page, c.dep)
      BY <1>13, <1>14, <1>18
    <2> QED
      BY <2>1 DEF page, c, date
  <1> QED
    BY <1>11, <1>17, <1>18

\* Every candidate is a trip or a change of one of the dates.
LEMMA CandidatesFair ==
    ASSUME NEW d, DatabaseOK(d), NEW r, RequestOK(r), NEW u \in Int,
           NEW p \in DOMAIN Candidates(d, r, u)
    PROVE  \E i \in DOMAIN CandidateDates(r, u) :
           \E from \in ResolvePlatformIds(d, ResolveStop(d, r.from)) :
              IsFair(d, from, ResolvePlatformIds(d, ResolveStop(d, r.to)),
                     CandidateDates(r, u)[i], EffectiveMaxTransfers(d, r), Candidates(d, r, u)[p])
  <1> DEFINE K == Candidates(d, r, u)
             dates == CandidateDates(r, u)
             platforms == Platforms(d, r.from)
             to == ResolvePlatformIds(d, ResolveStop(d, r.to))
             most == EffectiveMaxTransfers(d, r)
  <1>1. InPlaces(d, r, u)
    BY CandidatesAt
  <1>2. PICK x \in Pairs(d, r, u) : p \in PlacesAt(d, r, u, x)
    BY <1>1 DEF InPlaces
  <1> DEFINE list == OffersAt(d, r, u, x[1], x[2])
  <1>3. PICK n \in DOMAIN list : p = <<x[1], x[2], n>>
    BY <1>2 DEF PlacesAt
  <1>4. K[p] = list[n]
    BY <1>1, <1>2, <1>3 DEF InPlaces
  <1>5. x[1] \in DOMAIN dates /\ x[2] \in DOMAIN platforms
    BY <1>2 DEF Pairs
  <1> DEFINE date == dates[x[1]]
             from == platforms[x[2]]
             after == AfterSeconds(date, AfterUnix(r, u))
  <1>6. date \in Int /\ AfterUnix(r, u) \in Int /\ r.limit \in Nat \ {0}
    BY <1>5, DatesAre DEF RequestOK
  <1>7. after \in Nat
    BY <1>6, AfterIs
  <1>8. from \in ResolvePlatformIds(d, ResolveStop(d, r.from))
    BY <1>5, PlatformsFinite, SetToSeqIs DEF Platforms
  <1>9. PICK a, b \in Nat : \E until :
            OffersIn(d, from, to, date, after, until, r.limit, most, list, a, b)
    BY <1>5, OffersAre
  <1> HIDE DEF list, date, from, to, after, most
  <1>10. PICK until : OffersIn(d, from, to, date, after, until, r.limit, most, list, a, b)
    BY <1>9
  <1>11. \A m \in DOMAIN list : IsFair(d, from, to, date, most, list[m])
    BY <1>6, <1>7, <1>9, <1>10, OffersChanges
  <1>12. IsFair(d, from, to, date, most, K[p])
    BY <1>3, <1>4, <1>11
  <1> QED
    BY <1>5, <1>8, <1>12 DEF date, to, most

\* A change that leaves while the page lasts is a candidate, or another that leaves with it
\* and arrives no later is, or the page is full with what leaves no later.
LEMMA ChangeOffered ==
    ASSUME NEW d, DatabaseOK(d), OrderlyTimetable(d), NEW r, RequestOK(r), NEW u \in Int,
           GetSchedule(d, r, u).status = "ok", ~(EffectiveMaxTransfers(d, r) < 1),
           NEW i \in DOMAIN CandidateDates(r, u),
           NEW f \in Legs(d, CandidateDates(r, u)[i]), NEW s \in Legs(d, CandidateDates(r, u)[i]),
           NEW from \in ResolvePlatformIds(d, ResolveStop(d, r.from)),
           ChangeAt(d, from, ResolvePlatformIds(d, ResolveStop(d, r.to)), f, s),
           f.board.dep <= MaxDeparture,
           At(CandidateDates(r, u)[i], f.board.dep) >= AfterUnix(r, u)
    PROVE  LET K == Candidates(d, r, u)
               dep == At(CandidateDates(r, u)[i], f.board.dep)
               arr == At(CandidateDates(r, u)[i], s.alight.arr)
           IN  \/ \E p \in DOMAIN K : /\ Changes(K[p]) = 1 /\ K[p].dep = dep
                                      /\ K[p].arr \in Int /\ K[p].arr <= arr
               \/ EndsBy(GetSchedule(d, r, u), dep)
  <1> DEFINE K == Candidates(d, r, u)
             date == CandidateDates(r, u)[i]
             dep == At(date, f.board.dep)
             arr == At(date, s.alight.arr)
             to == ResolvePlatformIds(d, ResolveStop(d, r.to))
             most == EffectiveMaxTransfers(d, r)
             after == AfterSeconds(date, AfterUnix(r, u))
  <1>1. PICK j \in DOMAIN Platforms(d, r.from) : Platforms(d, r.from)[j] = from
    BY PlatformsFinite, SetToSeqIs DEF Platforms
  <1> DEFINE list == OffersAt(d, r, u, i, j)
  <1>2. date \in Int /\ AfterUnix(r, u) \in Int /\ r.limit \in Nat \ {0}
    BY DatesAre DEF RequestOK
  <1>3. PICK a, b \in Nat : \E until :
            OffersIn(d, from, to, date, after, until, r.limit, most, list, a, b)
    BY <1>1, OffersAre
  <1>4. PICK until : OffersIn(d, from, to, date, after, until, r.limit, most, list, a, b)
    BY <1>3
  <1>5. f.board.dep \in Nat /\ dep = GetServiceDayOriginUnix(date) + f.board.dep /\ dep \in Int
    <2>1. f.board.dep \in Nat
      BY LegFields
    <2> QED
      BY <1>2, <2>1, OriginIsInt, NullAssumption DEF At
  <1>6. after \in Nat /\ f.board.dep \in after..MaxDeparture
    <2>1. /\ after \in Nat
          /\ GetServiceDayOriginUnix(date) + f.board.dep >= AfterUnix(r, u) <=> f.board.dep >= after
      BY <1>2, <1>5, AfterIs
    <2>2. MaxDeparture \in Int
      BY DEF MaxDeparture, Hour
    <2>3. dep >= AfterUnix(r, u)
      OBVIOUS
    <2> HIDE DEF after, date, dep
    <2> QED
      BY <1>5, <2>1, <2>2, <2>3
  <1>7. \A n \in DOMAIN list : <<i, j, n>> \in DOMAIN K /\ K[<<i, j, n>>] = list[n]
    BY OfferPlace
  <1>8. ASSUME FullBefore(list, r.limit, after, dep) PROVE EndsBy(GetSchedule(d, r, u), dep)
    BY <1>5, <1>8, FullPage
  <1> HIDE DEF K, list, date, to, after, most
  <1>9. f \in Legs(d, date) /\ s \in Legs(d, date) /\ ChangeAt(d, from, to, f, s) /\ ~(most < 1)
    BY DEF date, to, most
  <1>10. OffersChange(list, dep, arr) \/ FullBefore(list, r.limit, after, dep)
    BY <1>2, <1>3, <1>4, <1>6, <1>9, OffersChanges
  <1> HIDE DEF dep, arr
  <1>11. OffersChange(list, dep, arr) =>
             \E p \in DOMAIN K : /\ Changes(K[p]) = 1 /\ K[p].dep = dep
                                 /\ K[p].arr \in Int /\ K[p].arr <= arr
    BY <1>7 DEF OffersChange
  <1> QED
    BY <1>8, <1>10, <1>11 DEF K, date, dep, arr

-----------------------------------------------------------------------------
(* The screen of a client. *)

From(q, after) == [q EXCEPT !.after = after]

Pages == 1..Len(screen.pages)

\* While something is on the screen no request for arrivals is under way, so the clock
\* stands still.
ScreenInv ==
    /\ InArrivals => screen = Blank
    /\ screen = Blank \/ screen.kind \in {"board", "trip"}

\* A page is the answer to the request of the board with a cursor of its own, and begins
\* where an earlier one ends or later.
BoardInv ==
    screen.kind = "board" =>
        /\ screen = [kind |-> "board", query |-> screen.query, pages |-> screen.pages]
        /\ screen.query \in BoardQuery[db.feed]
        /\ Len(screen.pages) \in Nat \ {0}
        /\ screen.pages = [n \in Pages |-> screen.pages[n]]
        /\ \A n \in Pages : \E after \in Int \cup {NULL} :
              screen.pages[n] = GetSchedule(db, From(screen.query, after), now)
        /\ \A m, n \in Pages :
              m < n => /\ screen.pages[m].nextAfter \in Int
                       /\ screen.pages[m].nextAfter <= screen.pages[n].after

TripInv ==
    screen.kind = "trip" =>
        /\ screen.query \in TripQuery[db.feed]
        /\ screen.trip = GetTripSchedule(db, screen.query.id, screen.query.date, now)

DisplayInv == ScreenInv /\ BoardInv /\ TripInv

\* A request with another cursor is a request for the same board.
LEMMA RequestOf ==
    ASSUME WorldInv, NEW q \in BoardQuery[db.feed], NEW after \in Int \cup {NULL}
    PROVE  /\ DatabaseOK(db)
           /\ RequestOK(From(q, after)) /\ From(q, q.after) = q /\ q.after \in Int \cup {NULL}
           /\ From(q, after).after = after
           /\ From(q, after).from = q.from /\ From(q, after).to = q.to
           /\ From(q, after).date = q.date /\ From(q, after).limit = q.limit
           /\ q.limit \in Nat \ {0}
  <1>1. q \in [from : {q.from}, to : {q.to}, after : Int \cup {NULL},
               date : Int \cup {NULL}, limit : Nat \ {0}, maxTransfers : Nat \cup {NULL}]
    BY QueriesAssumption DEF WorldInv
  <1>2. DatabaseOK(db)
    BY QueriesAssumption DEF WorldInv
  <1> QED
    BY <1>1, <1>2 DEF From, RequestOK

LEMMA StatusOf ==
    ASSUME NEW d, NEW r, NEW u
    PROVE  GetSchedule(d, r, u).status = "ok" <=>
               ResolveStop(d, r.from) # NULL /\ ResolveStop(d, r.to) # NULL
  <1>1. NotFound.status # "ok"
    BY DEF NotFound
  <1> QED
    BY <1>1 DEF GetSchedule

-----------------------------------------------------------------------------

LEMMA InitDisplay == Init => DisplayInv
  BY DEF Init, ArrivalsInit, InArrivals, NoVisit, Blank, DisplayInv, ScreenInv, BoardInv, TripInv

\* Steps that have nothing on the screen, before or after.
LEMMA BlankStep ==
    ASSUME screen' = Blank
    PROVE  DisplayInv'
  BY DEF Blank, DisplayInv, ScreenInv, BoardInv, TripInv

LEMMA OpenBoardStep ==
    ASSUME TimeInv, WorldInv, DisplayInv, OpenBoard
    PROVE  DisplayInv'
  <1>1. PICK r \in BoardQuery[db.feed] :
            screen' = [kind |-> "board", query |-> r, pages |-> <<GetSchedule(db, r, now)>>]
    BY DEF OpenBoard
  <1>2. ~InArrivals' /\ UNCHANGED <<now, db, visit>>
    BY DEF OpenBoard, AtRest, Free, InArrivals
  <1> DEFINE page == GetSchedule(db, r, now)
             pages == <<page>>
  <1>3. Len(pages) = 1 /\ pages = [n \in 1..1 |-> pages[n]] /\ pages[1] = page
    OBVIOUS
  <1>4. From(r, r.after) = r /\ r.after \in Int \cup {NULL}
    BY RequestOf
  <1> HIDE DEF page
  <1>5. screen'.kind = "board" /\ screen'.query = r /\ screen'.pages = pages
    BY <1>1 DEF page
  <1>6. screen' = [kind |-> "board", query |-> screen'.query, pages |-> screen'.pages]
    BY <1>1, <1>5 DEF page
  <1> HIDE DEF pages
  <1>7. Pages' = 1..1
    BY <1>3, <1>5 DEF Pages
  <1>8. BoardInv'
    <2>1. \A n \in 1..1 : pages[n] = GetSchedule(db, From(r, r.after), now)
      BY <1>3, <1>4 DEF page
    <2>2. Len(pages) \in Nat \ {0}
      BY <1>3
    <2>3. ASSUME NEW m \in 1..1, NEW n \in 1..1, m < n PROVE FALSE
      BY <2>3
    <2> QED
      BY <1>2, <1>3, <1>4, <1>5, <1>6, <1>7, <2>1, <2>2, <2>3 DEF BoardInv
  <1> QED
    BY <1>2, <1>5, <1>8 DEF DisplayInv, ScreenInv, TripInv

LEMMA TurnPageStep ==
    ASSUME TimeInv, WorldInv, DisplayInv, TurnPage
    PROVE  DisplayInv'
  <1> DEFINE pages == screen.pages
             q == screen.query
             N == Len(pages)
             cursor == Last(pages).nextAfter
             page == GetSchedule(db, From(q, cursor), now)
             more == Append(pages, page)
  <1>1. /\ screen.kind = "board" /\ Last(pages).status = "ok" /\ cursor # NULL
        /\ UNCHANGED <<now, answer, visit, db>>
        /\ screen' = [screen EXCEPT !.pages = more]
    BY DEF TurnPage, From
  <1>2. /\ screen = [kind |-> "board", query |-> q, pages |-> pages]
        /\ q \in BoardQuery[db.feed] /\ N \in Nat \ {0}
        /\ pages = [n \in 1..N |-> pages[n]]
        /\ \A n \in 1..N : \E after \in Int \cup {NULL} :
              pages[n] = GetSchedule(db, From(q, after), now)
        /\ \A m, n \in 1..N :
              m < n => pages[m].nextAfter \in Int /\ pages[m].nextAfter <= pages[n].after
    BY <1>1 DEF DisplayInv, BoardInv, Pages
  <1>3. now \in Int /\ DatabaseOK(db)
    BY <1>2, RequestOf DEF TimeInv
  <1>4. N \in 1..N /\ Last(pages) = pages[N]
    BY <1>2 DEF Last
  <1>5. PICK before \in Int \cup {NULL} : pages[N] = GetSchedule(db, From(q, before), now)
    BY <1>2, <1>4
  <1>6. /\ pages[N].after \in Int /\ cursor \in Int
        /\ pages[N].after < cursor /\ cursor = pages[N].nextAfter
    <2> DEFINE r == From(q, before)
               last == GetSchedule(db, r, now)
    <2>1. RequestOK(r)
      BY <1>2, RequestOf
    <2>2. last.status = "ok" /\ last = pages[N]
      BY <1>1, <1>4, <1>5
    <2> HIDE DEF r
    <2>3. /\ last.after \in Int /\ last.nextAfter \in Int \cup {NULL}
          /\ last.nextAfter # NULL => last.after < last.nextAfter
      BY <1>3, <2>1, <2>2, CursorIs
    <2> HIDE DEF last
    <2> QED
      BY <1>1, <1>4, <2>2, <2>3
  <1>7. page.status = "ok"
    <2>1. pages[N].status = "ok"
      BY <1>1, <1>4
    <2> DEFINE r == From(q, before)
               s == From(q, cursor)
    <2>2. r.from = s.from /\ r.to = s.to
      BY <1>2, <1>6, RequestOf
    <2> HIDE DEF r, s
    <2>3. GetSchedule(db, r, now).status = "ok"
      BY <1>5, <2>1 DEF r
    <2>4. GetSchedule(db, s, now).status = "ok"
      BY <2>2, <2>3, StatusOf
    <2> QED
      BY <2>4 DEF s
  <1>8. page.after = cursor
    <2> DEFINE r == From(q, cursor)
    <2>1. RequestOK(r) /\ r.after = cursor
      BY <1>2, <1>6, RequestOf
    <2>2. GetSchedule(db, r, now).status = "ok"
      BY <1>7
    <2> HIDE DEF r
    <2>3. r.after # NULL => GetSchedule(db, r, now).after = r.after
      BY <1>3, <2>1, <2>2, CursorIs
    <2> QED
      BY <1>1, <2>1, <2>3 DEF r
  <1>9. /\ screen'.kind = "board" /\ screen'.query = q /\ screen'.pages = more
        /\ screen' = [kind |-> "board", query |-> screen'.query, pages |-> screen'.pages]
    <2> HIDE DEF more
    <2> QED
      BY <1>1, <1>2
  <1> HIDE DEF page, cursor
  <1>10. more = [n \in 1..(N + 1) |-> IF n = N + 1 THEN page ELSE pages[n]] /\ Len(more) = N + 1
    <2> DEFINE V == {pages[n] : n \in 1..N} \cup {page}
    <2>1. pages \in [1..N -> V]
      BY <1>2
    <2>2. pages \in Seq(V) /\ page \in V
      BY <1>2, <2>1
    <2> HIDE DEF V, pages
    <2>3. more = Append(pages, page)
      OBVIOUS
    <2> HIDE DEF more
    <2>4. /\ Len(more) = Len(pages) + 1 /\ DOMAIN more = 1..(Len(pages) + 1)
          /\ \A n \in 1..Len(pages) : more[n] = pages[n]
          /\ more[Len(pages) + 1] = page
          /\ more = [n \in 1..(Len(pages) + 1) |-> more[n]]
      <3>1. more \in Seq(V) /\ Len(more) = Len(pages) + 1
        BY <2>2, <2>3
      <3>2. \A n \in 1..Len(pages) : more[n] = pages[n]
        BY <2>2, <2>3
      <3>3. more[Len(pages) + 1] = page
        BY <2>2, <2>3
      <3>4. more \in [1..Len(more) -> V]
        BY <3>1
      <3> QED
        BY <3>1, <3>2, <3>3, <3>4
    <2>5. \A n \in 1..(N + 1) : n # N + 1 => n \in 1..N
      BY <1>2
    <2> QED
      BY <2>4, <2>5
  <1> HIDE DEF more, pages, q, N
  <1>11. Pages' = 1..(N + 1)
    BY <1>9, <1>10 DEF Pages
  <1>12. \A n \in 1..(N + 1) : (n \in 1..N /\ more[n] = pages[n]) \/ (n = N + 1 /\ more[n] = page)
    BY <1>2, <1>10
  <1>13. ASSUME NEW n \in 1..(N + 1)
         PROVE  \E after \in Int \cup {NULL} : more[n] = GetSchedule(db, From(q, after), now)
    BY <1>2, <1>6, <1>12 DEF page
  <1>14. ASSUME NEW m \in 1..(N + 1), NEW n \in 1..(N + 1), m < n
         PROVE  more[m].nextAfter \in Int /\ more[m].nextAfter <= more[n].after
    <2>1. m \in 1..N /\ more[m] = pages[m]
      <3>1. m # N + 1
        BY <1>2, <1>14
      <3> QED
        BY <1>12, <3>1
    <2>2. CASE n \in 1..N /\ more[n] = pages[n]
      BY <1>2, <1>14, <2>1, <2>2
    <2>3. CASE n = N + 1 /\ more[n] = page
      <3>1. CASE m = N
        BY <1>6, <1>8, <2>1, <2>3, <3>1
      <3>2. CASE m # N
        <4>1. m < N
          BY <1>2, <2>1, <3>2
        <4>2. pages[m].nextAfter \in Int /\ pages[m].nextAfter <= pages[N].after
          BY <1>2, <1>4, <2>1, <4>1
        <4> QED
          BY <1>6, <1>8, <2>1, <2>3, <4>2
      <3> QED
        BY <3>1, <3>2
    <2> QED
      BY <1>12, <2>2, <2>3
  <1>15. BoardInv'
    <2>1. more = [n \in 1..(N + 1) |-> more[n]] /\ Len(more) \in Nat \ {0}
      BY <1>2, <1>10
    <2> QED
      BY <1>1, <1>2, <1>9, <1>11, <1>13, <1>14, <2>1 DEF BoardInv
  <1>16. ~InArrivals'
    BY <1>1 DEF DisplayInv, ScreenInv, Blank, InArrivals
  <1> QED
    BY <1>9, <1>15, <1>16 DEF DisplayInv, ScreenInv, TripInv

LEMMA OpenTripStep ==
    ASSUME DisplayInv, OpenTrip
    PROVE  DisplayInv'
  <1>1. PICK r \in TripQuery[db.feed] :
            screen' = [kind |-> "trip", query |-> r, trip |-> GetTripSchedule(db, r.id, r.date, now)]
    BY DEF OpenTrip
  <1>2. ~InArrivals' /\ UNCHANGED <<now, db>>
    BY DEF OpenTrip, AtRest, Free, InArrivals
  <1> QED
    BY <1>1, <1>2 DEF DisplayInv, ScreenInv, BoardInv, TripInv

\* Pages and trips stay what the service would answer at the instant they were asked
\* for, and the pages of a board follow one another.
THEOREM DisplayIsAnswer == Spec => []DisplayInv
  <1>1. TimeInv /\ ServiceInv /\ DisplayInv /\ [Next]_vars => DisplayInv'
    <2> SUFFICES ASSUME TimeInv, ServiceInv, DisplayInv, [Next]_vars PROVE DisplayInv'
      OBVIOUS
    <2>1. WorldInv
      BY DEF ServiceInv
    <2>2. CASE OpenBoard
      BY <2>1, <2>2, OpenBoardStep
    <2>3. CASE TurnPage
      BY <2>1, <2>3, TurnPageStep
    <2>4. CASE OpenTrip
      BY <2>4, OpenTripStep
    <2>5. CASE Close
      BY <2>5, BlankStep DEF Close
    <2>6. CASE Request
      BY <2>6, BlankStep DEF Request, Free
    <2>7. CASE Serve \/ Read \/ Settles \/ Time
      <3>1. InArrivals /\ screen' = screen
        BY <2>7 DEF Serve, AskNext, Hear, Reply, Read, Leave, Settles, FetchSettles, Time, Tick,
                    InArrivals, TimeInv, OnTime
      <3> QED
        BY <3>1, BlankStep DEF DisplayInv, ScreenInv
    <2>8. CASE UNCHANGED vars
      BY <2>8 DEF vars, DisplayInv, ScreenInv, BoardInv, TripInv, InArrivals, Pages
    <2> QED
      BY <2>2, <2>3, <2>4, <2>5, <2>6, <2>7, <2>8 DEF Next
  <1> QED
    BY InitDisplay, TimeIsBudgeted, ServiceIsAccounted, <1>1, PTL DEF Spec

-----------------------------------------------------------------------------
(* Boards. *)

\* A page of a board, and the request it answers.
LEMMA BoardPage ==
    ASSUME TimeInv, WorldInv, DisplayInv, OnBoard, NEW n \in DOMAIN screen.pages
    PROVE  /\ n \in Pages /\ n \in Nat
           /\ now \in Int /\ DatabaseOK(db)
           /\ \E after \in Int \cup {NULL} :
                 LET r == From(screen.query, after)
                 IN  /\ RequestOK(r)
                     /\ screen.pages[n] = GetSchedule(db, r, now)
                     /\ GetSchedule(db, r, now).status = "ok"
                     /\ ResolvePlatformIds(db, ResolveStop(db, r.from)) = Origins
                     /\ ResolvePlatformIds(db, ResolveStop(db, r.to)) = Destinations
  <1>1. /\ screen.kind = "board" /\ screen.pages[1].status = "ok"
        /\ screen.query \in BoardQuery[db.feed]
        /\ Len(screen.pages) \in Nat \ {0}
        /\ screen.pages = [k \in Pages |-> screen.pages[k]]
        /\ \A k \in Pages : \E after \in Int \cup {NULL} :
              screen.pages[k] = GetSchedule(db, From(screen.query, after), now)
    BY DEF OnBoard, DisplayInv, BoardInv
  <1>2. n \in Pages /\ 1 \in Pages /\ n \in Nat
    BY <1>1 DEF Pages
  <1>3. PICK after \in Int \cup {NULL} :
            screen.pages[n] = GetSchedule(db, From(screen.query, after), now)
    BY <1>1, <1>2
  <1>4. PICK first \in Int \cup {NULL} :
            screen.pages[1] = GetSchedule(db, From(screen.query, first), now)
    BY <1>1, <1>2
  <1> DEFINE r == From(screen.query, after)
             s == From(screen.query, first)
  <1>5. DatabaseOK(db) /\ RequestOK(r) /\ now \in Int
    BY <1>1, RequestOf DEF TimeInv
  <1>6. r.from = s.from /\ r.to = s.to /\ r.from = screen.query.from /\ r.to = screen.query.to
    BY <1>1, RequestOf
  <1>7. GetSchedule(db, r, now).status = "ok"
    <2> HIDE DEF r, s
    <2>1. GetSchedule(db, s, now).status = "ok"
      BY <1>1, <1>4 DEF s
    <2> QED
      BY <1>6, <2>1, StatusOf
  <1>8. /\ ResolvePlatformIds(db, ResolveStop(db, r.from)) = Origins
        /\ ResolvePlatformIds(db, ResolveStop(db, r.to)) = Destinations
    BY <1>6 DEF Origins, Destinations
  <1> QED
    BY <1>2, <1>3, <1>5, <1>7, <1>8

\* However the pages are turned, and whatever the timetable, the limit and the clock, a
\* trip that leaves in the time a page covers is on it, or in its last second.
THEOREM NothingIsLost == Spec => []NothingLost
  <1>1. TimeInv /\ WorldInv /\ DisplayInv => NothingLost
    <2> SUFFICES ASSUME TimeInv, WorldInv, DisplayInv, OnBoard,
                        NEW n \in DOMAIN screen.pages,
                        NEW date \in ToSet(screen.pages[n].serviceDates),
                        NEW c \in Through(date), InHours(c), Covers(screen.pages[n], c.dep)
                 PROVE  \/ c \in ToSet(screen.pages[n].departures)
                        \/ LastSecond(screen.pages[n], c.dep)
      BY DEF NothingLost
    <2>1. now \in Int /\ DatabaseOK(db)
      BY BoardPage
    <2>2. PICK after \in Int \cup {NULL} :
              /\ RequestOK(From(screen.query, after))
              /\ screen.pages[n] = GetSchedule(db, From(screen.query, after), now)
              /\ GetSchedule(db, From(screen.query, after), now).status = "ok"
              /\ ResolvePlatformIds(db, ResolveStop(db, From(screen.query, after).from)) = Origins
              /\ ResolvePlatformIds(db, ResolveStop(db, From(screen.query, after).to)) = Destinations
      BY BoardPage
    <2> DEFINE r == From(screen.query, after)
               page == GetSchedule(db, r, now)
    <2> HIDE DEF r
    <2>3. /\ RequestOK(r) /\ screen.pages[n] = page /\ page.status = "ok"
          /\ ResolvePlatformIds(db, ResolveStop(db, r.from)) = Origins
          /\ ResolvePlatformIds(db, ResolveStop(db, r.to)) = Destinations
      BY <2>2 DEF r
    <2>4. page.serviceDates = CandidateDates(r, now)
      BY <2>1, <2>3, PageOf
    <2>5. PICK i \in DOMAIN CandidateDates(r, now) : CandidateDates(r, now)[i] = date
      BY <2>3, <2>4 DEF ToSet
    <2>6. PICK l \in Legs(db, date) :
              /\ l.board.stop \in Origins /\ l.board.dep <= MaxDeparture
              /\ l.alight.stop \in Destinations /\ c = Direct(date, l)
      <3>1. PICK k \in Legs(db, date) :
                k.board.stop \in Origins /\ k.alight.stop \in Destinations /\ c = Direct(date, k)
        BY DEF Through
      <3> QED
        BY <3>1, DirectIs DEF InHours
    <2>7. Covers(page, Direct(CandidateDates(r, now)[i], l).dep)
      BY <2>3, <2>5, <2>6
    <2>8. l \in Legs(db, CandidateDates(r, now)[i])
      BY <2>5
    <2>9. \/ Direct(CandidateDates(r, now)[i], l) \in ToSet(page.departures)
          \/ LastSecond(page, Direct(CandidateDates(r, now)[i], l).dep)
      BY <2>1, <2>3, <2>6, <2>7, <2>8, PageComplete
    <2> QED
      BY <2>3, <2>5, <2>6, <2>9
  <1>2. ServiceInv => WorldInv
    BY DEF ServiceInv
  <1> QED
    BY <1>1, <1>2, TimeIsBudgeted, ServiceIsAccounted, DisplayIsAnswer, PTL

\* Nothing is shown twice, on one page or on two, whatever the timetable, unless the
\* page has a date twice.
THEOREM NothingIsShownTwice == Spec => []ShownOnce
  <1>1. ASSUME TimeInv, WorldInv, DisplayInv, OnBoard, NEW n \in DOMAIN screen.pages,
               IsInjective(screen.pages[n].serviceDates),
               NEW i \in DOMAIN screen.pages[n].departures,
               NEW j \in DOMAIN screen.pages[n].departures,
               screen.pages[n].departures[i] = screen.pages[n].departures[j]
        PROVE  i = j
    <2>1. now \in Int /\ DatabaseOK(db)
      BY <1>1, BoardPage
    <2>2. PICK after \in Int \cup {NULL} :
              /\ RequestOK(From(screen.query, after))
              /\ screen.pages[n] = GetSchedule(db, From(screen.query, after), now)
              /\ GetSchedule(db, From(screen.query, after), now).status = "ok"
      BY <1>1, BoardPage
    <2> DEFINE r == From(screen.query, after)
               page == GetSchedule(db, r, now)
               K == Candidates(db, r, now)
               dates == CandidateDates(r, now)
    <2> HIDE DEF r
    <2>3. RequestOK(r) /\ screen.pages[n] = page /\ page.status = "ok"
      BY <2>2 DEF r
    <2>4. page.serviceDates = dates
      BY <2>1, <2>3, PageOf
    <2>5. PICK N \in 0..r.limit : \E place \in [1..N -> DOMAIN K] :
              PageAt(db, r, now, page, N, place)
      BY <2>1, <2>3, PageOf
    <2>6. PICK place \in [1..N -> DOMAIN K] : PageAt(db, r, now, page, N, place)
      BY <2>5
    <2>7. /\ page.departures = [k \in 1..N |-> K[place[k]]]
          /\ \A k, m \in 1..N : place[k] = place[m] => k = m
      BY <2>6 DEF PageAt
    <2>8. /\ \A p \in DOMAIN K : p[1] \in DOMAIN dates /\ K[p].date = dates[p[1]]
          /\ \A p, q \in DOMAIN K : K[p] = K[q] /\ p[1] = q[1] => p = q
      BY <2>1, <2>3, CandidatesAre DEF Shape
    <2> HIDE DEF K, page, dates
    <2>9. i \in 1..N /\ j \in 1..N /\ K[place[i]] = K[place[j]]
      BY <1>1, <2>3, <2>7
    <2>10. place[i][1] = place[j][1]
      BY <1>1, <2>3, <2>4, <2>8, <2>9 DEF IsInjective
    <2> QED
      BY <2>7, <2>8, <2>9, <2>10
  <1>2. ASSUME TimeInv, WorldInv, DisplayInv, OnBoard,
               NEW m \in DOMAIN screen.pages, NEW n \in DOMAIN screen.pages, m < n,
               NEW i \in DOMAIN screen.pages[m].departures,
               NEW j \in DOMAIN screen.pages[n].departures
        PROVE  screen.pages[m].departures[i] # screen.pages[n].departures[j]
    <2>1. m \in Pages /\ n \in Pages /\ now \in Int /\ DatabaseOK(db)
      BY <1>2, BoardPage
    <2>2. screen.pages[m].nextAfter \in Int /\ screen.pages[m].nextAfter <= screen.pages[n].after
      BY <1>2, <2>1 DEF OnBoard, DisplayInv, BoardInv
    <2>3. ASSUME NEW k \in DOMAIN screen.pages, NEW h \in DOMAIN screen.pages[k].departures
          PROVE  /\ screen.pages[k].after \in Int
                 /\ screen.pages[k].departures[h].dep \in Int
                 /\ screen.pages[k].departures[h].dep >= screen.pages[k].after
                 /\ screen.pages[k].nextAfter # NULL =>
                        screen.pages[k].departures[h].dep < screen.pages[k].nextAfter
      <3>1. PICK after \in Int \cup {NULL} :
                /\ RequestOK(From(screen.query, after))
                /\ screen.pages[k] = GetSchedule(db, From(screen.query, after), now)
                /\ GetSchedule(db, From(screen.query, after), now).status = "ok"
        BY <1>2, BoardPage
      <3> DEFINE r == From(screen.query, after)
      <3> HIDE DEF r
      <3>2. RequestOK(r) /\ screen.pages[k] = GetSchedule(db, r, now)
            /\ GetSchedule(db, r, now).status = "ok"
        BY <3>1 DEF r
      <3> QED
        BY <2>1, <3>2, CursorIs
    <2>4. screen.pages[m].departures[i].dep < screen.pages[m].nextAfter
      BY <2>2, <2>3, NullAssumption
    <2>5. /\ screen.pages[n].departures[j].dep >= screen.pages[n].after
          /\ screen.pages[n].departures[j].dep \in Int /\ screen.pages[n].after \in Int
          /\ screen.pages[m].departures[i].dep \in Int
      BY <2>3
    <2> QED
      BY <2>2, <2>4, <2>5
  <1>3. TimeInv /\ WorldInv /\ DisplayInv => ShownOnce
    <2> SUFFICES ASSUME TimeInv, WorldInv, DisplayInv, OnBoard,
                        NEW m \in DOMAIN screen.pages, NEW n \in DOMAIN screen.pages,
                        NEW i \in DOMAIN screen.pages[m].departures,
                        NEW j \in DOMAIN screen.pages[n].departures,
                        screen.pages[m].departures[i] = screen.pages[n].departures[j],
                        \A p \in {m, n} : IsInjective(screen.pages[p].serviceDates)
                 PROVE  <<m, i>> = <<n, j>>
      BY DEF ShownOnce
    <2>1. m \in Nat /\ n \in Nat
      BY BoardPage
    <2>2. ~(m < n) /\ ~(n < m)
      BY <1>2
    <2>3. m = n
      BY <2>1, <2>2
    <2> QED
      BY <1>1, <2>3
  <1>4. ServiceInv => WorldInv
    BY DEF ServiceInv
  <1> QED
    BY <1>3, <1>4, TimeIsBudgeted, ServiceIsAccounted, DisplayIsAnswer, PTL

-----------------------------------------------------------------------------
(* Journeys with a change. *)

\* One changes on one railroad only, whose stops are their own platforms.
LEMMA ChangesOf ==
    ASSUME WorldInv, NEW q \in BoardQuery[db.feed], NEW after \in Int \cup {NULL}
    PROVE  /\ EffectiveMaxTransfers(db, From(q, after)) = EffectiveMaxTransfers(db, q)
           /\ EffectiveMaxTransfers(db, q) # 0 <=> ~(EffectiveMaxTransfers(db, q) < 1)
           /\ EffectiveMaxTransfers(db, q) # 0 =>
                 /\ OrderlyTimetable(db)
                 /\ \A id : ResolvePlatformIds(db, id) = {id}
  <1> DEFINE most == MaxTransfers(db)
             wanted == q.maxTransfers
  <1>1. q \in [from : {q.from}, to : {q.to}, after : Int \cup {NULL},
               date : Int \cup {NULL}, limit : Nat \ {0}, maxTransfers : Nat \cup {NULL}]
    BY QueriesAssumption DEF WorldInv
  <1>2. From(q, after).maxTransfers = wanted /\ wanted \in Nat \cup {NULL}
    BY <1>1 DEF From
  <1>3. EffectiveMaxTransfers(db, From(q, after)) = EffectiveMaxTransfers(db, q)
    BY <1>2 DEF EffectiveMaxTransfers
  <1>4. most \in {0, 1} /\ (most = 1 <=> db.feed = "lirr")
    BY DEF MaxTransfers
  <1>5. EffectiveMaxTransfers(db, q) = IF wanted = NULL THEN most ELSE Min({wanted, most})
    BY DEF EffectiveMaxTransfers
  <1>6. most > 0 => OrderlyTimetable(db)
    BY TimetableAssumption DEF WorldInv
  <1> HIDE DEF most, wanted
  <1>7. CASE wanted = NULL
    BY <1>3, <1>4, <1>5, <1>6, <1>7 DEF ResolvePlatformIds
  <1>8. CASE wanted # NULL
    <2> DEFINE least == Min({wanted, most})
    <2>1. wanted \in Nat /\ {wanted, most} \in SUBSET Nat /\ {wanted, most} # {}
      BY <1>2, <1>4, <1>8
    <2>2. least \in {wanted, most} /\ least <= most
      BY <2>1, MinIs
    <2> HIDE DEF least
    <2>3. least \in Nat /\ (least # 0 => most = 1)
      BY <1>4, <2>1, <2>2
    <2>4. EffectiveMaxTransfers(db, q) = least
      BY <1>5, <1>8 DEF least
    <2> QED
      BY <1>3, <1>4, <1>6, <2>3, <2>4 DEF ResolvePlatformIds
  <1> QED
    BY <1>7, <1>8

\* A page of the board answers r.
Answers(r, page) ==
    /\ RequestOK(r) /\ page = GetSchedule(db, r, now) /\ page.status = "ok"
    /\ ResolvePlatformIds(db, ResolveStop(db, r.from)) = Origins
    /\ ResolvePlatformIds(db, ResolveStop(db, r.to)) = Destinations
    /\ EffectiveMaxTransfers(db, r) = EffectiveMaxTransfers(db, screen.query)

ChangesHere == EffectiveMaxTransfers(db, screen.query) # 0

\* Every page of a board answers a request of the same kind.
LEMMA BoardAnswers ==
    ASSUME TimeInv, WorldInv, DisplayInv, OnBoard
    PROVE  /\ now \in Int /\ DatabaseOK(db)
           /\ ChangesHere <=> ~(EffectiveMaxTransfers(db, screen.query) < 1)
           /\ ChangesHere => /\ OrderlyTimetable(db)
                             /\ \E from : Origins = {from}
           /\ \A n \in DOMAIN screen.pages : \E r : Answers(r, screen.pages[n])
  <1>1. screen.query \in BoardQuery[db.feed]
    BY DEF OnBoard, DisplayInv, BoardInv
  <1>2. now \in Int /\ DatabaseOK(db)
    BY <1>1, QueriesAssumption DEF TimeInv, WorldInv
  <1>3. /\ ChangesHere <=> ~(EffectiveMaxTransfers(db, screen.query) < 1)
        /\ ChangesHere => OrderlyTimetable(db) /\ \A id : ResolvePlatformIds(db, id) = {id}
    <2>1. NULL \in Int \cup {NULL}
      OBVIOUS
    <2> QED
      BY <1>1, <2>1, ChangesOf DEF ChangesHere
  <1>4. ASSUME NEW n \in DOMAIN screen.pages PROVE \E r : Answers(r, screen.pages[n])
    <2>1. PICK after \in Int \cup {NULL} :
              /\ RequestOK(From(screen.query, after))
              /\ screen.pages[n] = GetSchedule(db, From(screen.query, after), now)
              /\ GetSchedule(db, From(screen.query, after), now).status = "ok"
              /\ ResolvePlatformIds(db, ResolveStop(db, From(screen.query, after).from)) = Origins
              /\ ResolvePlatformIds(db, ResolveStop(db, From(screen.query, after).to)) = Destinations
      BY BoardPage
    <2>2. EffectiveMaxTransfers(db, From(screen.query, after))
              = EffectiveMaxTransfers(db, screen.query)
      BY <1>1, ChangesOf
    <2>3. Answers(From(screen.query, after), screen.pages[n])
      BY <2>1, <2>2 DEF Answers
    <2> QED
      BY <2>3
  <1> QED
    BY <1>2, <1>3, <1>4 DEF Origins

\* Where one may change, the way to change from the one platform is that of the board.
LEMMA ChangeHere ==
    ASSUME NEW from, Origins = {from}, NEW f, NEW s
    PROVE  Change(f, s) <=> ChangeAt(db, from, Destinations, f, s)
  BY DEF Change, ChangeAt, Excluded

\* A candidate that leaves late enough is one of the ways to travel.
LEMMA CandidateIsAlternative ==
    ASSUME TimeInv, WorldInv, DisplayInv, OnBoard, NEW r, NEW page, Answers(r, page),
           NEW p \in DOMAIN Candidates(db, r, now),
           Candidates(db, r, now)[p].dep >= page.after
    PROVE  LET c == Candidates(db, r, now)[p]
           IN  /\ c \in Alternatives(page)
               /\ c.dep \in Int /\ c.arr \in Int \cup {NULL}
               /\ Changes(c) \in {0, 1} /\ Len(c.legs) = Changes(c) + 1
               /\ Changes(c) = 1 => c.arr \in Int
  <1> DEFINE c == Candidates(db, r, now)[p]
  <1>1. now \in Int /\ DatabaseOK(db) /\ RequestOK(r)
    BY BoardAnswers DEF Answers
  <1>2. page.serviceDates = CandidateDates(r, now)
    BY <1>1, PageOf DEF Answers
  <1>3. PICK i \in DOMAIN CandidateDates(r, now) : \E from \in Origins :
            IsFair(db, from, Destinations, CandidateDates(r, now)[i],
                   EffectiveMaxTransfers(db, screen.query), c)
    BY <1>1, CandidatesFair DEF Answers
  <1> DEFINE date == CandidateDates(r, now)[i]
  <1>4. PICK from \in Origins :
            IsFair(db, from, Destinations, date, EffectiveMaxTransfers(db, screen.query), c)
    BY <1>3
  <1>5. date \in ToSet(page.serviceDates) /\ date \in Int
    <2>1. date \in ToSet(page.serviceDates)
      BY <1>2 DEF ToSet
    <2>2. PICK k \in Nat : CandidateDates(r, now) \in [1..k -> Int]
      BY <1>1, DatesAre
    <2> QED
      BY <2>1, <2>2
  <1>6. c.dep >= page.after
    OBVIOUS
  <1> HIDE DEF c, date
  <1>7. CASE IsTrip(db, from, Destinations, date, c)
    <2>1. PICK l \in Legs(db, date) : /\ l.board.stop = from /\ l.alight.stop \in Destinations
                                      /\ c = Direct(date, l)
      BY <1>7 DEF IsTrip
    <2>2. c \in Through(date)
      BY <1>4, <2>1 DEF Through
    <2>3. c \in Alternatives(page)
      BY <1>5, <1>6, <2>2 DEF Alternatives
    <2>4. /\ c.dep = At(date, l.board.dep) /\ c.arr = At(date, l.alight.arr)
          /\ Changes(c) = 0 /\ Len(c.legs) = 1
      BY <2>1, DirectIs
    <2>5. l.board.dep \in Nat /\ l.alight.arr \in Nat \cup {NULL}
      BY <1>1, LegFields
    <2>6. c.dep \in Int /\ c.arr \in Int \cup {NULL}
      BY <1>5, <2>4, <2>5, OriginIsInt, NullAssumption DEF At
    <2> QED
      BY <2>3, <2>4, <2>6 DEF c
  <1>8. CASE /\ ~(EffectiveMaxTransfers(db, screen.query) < 1)
             /\ IsChange(db, from, Destinations, date, c)
    <2>1. PICK f \in Legs(db, date), s \in Legs(db, date) :
              /\ ChangeAt(db, from, Destinations, f, s)
              /\ c = Candidate(date, <<f, s>>, <<Connection(db, f, s)>>)
      BY <1>8 DEF IsChange
    <2>2. ChangesHere /\ Origins = {from}
      <3>1. ChangesHere
        BY <1>8, BoardAnswers
      <3> QED
        BY <1>4, <3>1, BoardAnswers
    <2>3. Change(f, s)
      BY <2>1, <2>2, ChangeHere
    <2>4. c \in WithOneChange(date)
      <3> DEFINE x == <<f, s>>
      <3>1. x \in Legs(db, date) \X Legs(db, date) /\ x[1] = f /\ x[2] = s
        OBVIOUS
      <3>2. c = Candidate(date, x, <<Connection(db, x[1], x[2])>>) /\ Change(x[1], x[2])
        BY <2>1, <2>3, <3>1
      <3> HIDE DEF x
      <3> QED
        BY <3>1, <3>2 DEF WithOneChange
    <2>5. c \in Alternatives(page)
      BY <1>5, <1>6, <2>2, <2>4 DEF Alternatives, Journeys, ChangesHere
    <2>6. /\ c.dep = At(date, f.board.dep) /\ c.arr = At(date, s.alight.arr)
          /\ Changes(c) = 1 /\ Len(c.legs) = 2
      BY <2>1, CandidateIs
    <2>7. f.board.dep \in Nat /\ s.alight.arr \in Nat
      BY <1>1, <2>1, LegFields DEF ChangeAt
    <2>8. c.dep \in Int /\ c.arr \in Int
      BY <1>5, <2>6, <2>7, OriginIsInt, NullAssumption DEF At
    <2> QED
      BY <2>5, <2>6, <2>8 DEF c
  <1> QED
    BY <1>4, <1>7, <1>8 DEF IsFair

\* A candidate at p that is no worse than x.
Matches(r, page, p, x) ==
    LET c == Candidates(db, r, now)[p]
    IN  /\ p \in DOMAIN Candidates(db, r, now)
        /\ c.dep = x.dep /\ c.dep >= page.after
        /\ Changes(c) = Len(x.legs) - 1
        /\ c.arr = x.arr \/ (x.arr \in Int /\ c.arr \in Int /\ c.arr <= x.arr)

\* A way to travel within the hours of a timetable is a candidate, or another that is as
\* good is, unless the page is full with what leaves no later.
LEMMA AlternativeIsOffered ==
    ASSUME TimeInv, WorldInv, DisplayInv, OnBoard, NEW r, NEW page, Answers(r, page),
           NEW x \in Alternatives(page), InHours(x)
    PROVE  /\ x.dep \in Int /\ x.arr \in Int \cup {NULL} /\ Len(x.legs) \in {1, 2}
           /\ Len(x.legs) = 2 => x.arr \in Int
           /\ EndsBy(page, x.dep) \/ \E p : Matches(r, page, p, x)
  <1>1. now \in Int /\ DatabaseOK(db) /\ RequestOK(r) /\ page.status = "ok"
    BY BoardAnswers DEF Answers
  <1>2. page = GetSchedule(db, r, now)
    BY DEF Answers
  <1>3. page.serviceDates = CandidateDates(r, now) /\ page.after = AfterUnix(r, now)
    BY <1>1, <1>2, PageOf
  <1>4. \A date \in ToSet(page.serviceDates) :
            /\ date \in Int
            /\ \E i \in DOMAIN CandidateDates(r, now) : CandidateDates(r, now)[i] = date
    <2>1. PICK k \in Nat : CandidateDates(r, now) \in [1..k -> Int]
      BY <1>1, DatesAre
    <2> QED
      BY <1>3, <2>1 DEF ToSet
  <1>5. ASSUME NEW date \in ToSet(page.serviceDates), x \in Through(date), x.dep >= page.after
        PROVE  /\ x.dep \in Int /\ x.arr \in Int \cup {NULL} /\ Len(x.legs) \in {1, 2}
               /\ Len(x.legs) = 2 => x.arr \in Int
               /\ EndsBy(page, x.dep) \/ \E p : Matches(r, page, p, x)
    <2>1. PICK l \in Legs(db, date) : /\ l.board.stop \in Origins /\ l.alight.stop \in Destinations
                                      /\ x = Direct(date, l)
      BY <1>5 DEF Through
    <2>2. /\ x.dep = At(date, l.board.dep) /\ x.arr = At(date, l.alight.arr)
          /\ x.legs[1] = l /\ Len(x.legs) = 1 /\ Changes(x) = 0
      BY <2>1, DirectIs
    <2>3. l.board.dep \in Nat /\ l.alight.arr \in Nat \cup {NULL} /\ l.board.dep <= MaxDeparture
      BY <1>1, <2>2, LegFields DEF InHours
    <2>4. x.dep \in Int /\ x.arr \in Int \cup {NULL}
      BY <1>4, <2>2, <2>3, OriginIsInt, NullAssumption DEF At
    <2>5. page.nextAfter \in Int \cup {NULL}
      BY <1>1, <1>2, CursorIs
    <2>6. CASE Covers(page, x.dep)
      <3>1. PICK i \in DOMAIN CandidateDates(r, now) : CandidateDates(r, now)[i] = date
        BY <1>4
      <3>2. /\ l \in Legs(db, CandidateDates(r, now)[i])
            /\ l.board.stop \in ResolvePlatformIds(db, ResolveStop(db, r.from))
            /\ l.alight.stop \in ResolvePlatformIds(db, ResolveStop(db, r.to))
            /\ Covers(page, Direct(CandidateDates(r, now)[i], l).dep)
        BY <2>1, <2>6, <3>1 DEF Answers
      <3>3. x \in ToSet(page.departures) \/ LastSecond(page, x.dep)
        BY <1>1, <1>2, <2>1, <2>3, <3>1, <3>2, PageComplete
      <3>4. CASE LastSecond(page, x.dep)
        BY <2>2, <2>4, <2>5, <3>4 DEF LastSecond, EndsBy
      <3>5. CASE x \in ToSet(page.departures)
        <4> DEFINE K == Candidates(db, r, now)
        <4>1. PICK N \in 0..r.limit : \E place \in [1..N -> DOMAIN K] : PageAt(db, r, now, page, N, place)
          BY <1>1, <1>2, PageOf
        <4>2. PICK place \in [1..N -> DOMAIN K] : PageAt(db, r, now, page, N, place)
          BY <4>1
        <4>3. page.departures = [n \in 1..N |-> K[place[n]]]
          BY <4>2 DEF PageAt
        <4>4. PICK n \in 1..N : x = K[place[n]]
          BY <3>5, <4>3 DEF ToSet
        <4>5. Matches(r, page, place[n], x)
          BY <1>5, <2>2, <4>4 DEF Matches
        <4> QED
          BY <2>2, <2>4, <4>5
      <3> QED
        BY <3>3, <3>4, <3>5
    <2>7. CASE ~Covers(page, x.dep)
      <3>1. page.nextAfter # NULL /\ ~(x.dep < page.nextAfter)
        BY <1>5, <2>7 DEF Covers
      <3> QED
        BY <2>2, <2>4, <2>5, <3>1 DEF EndsBy
    <2> QED
      BY <2>6, <2>7
  <1>6. ASSUME NEW date \in ToSet(page.serviceDates), x \in WithOneChange(date), ChangesHere,
               x.dep >= page.after
        PROVE  /\ x.dep \in Int /\ x.arr \in Int \cup {NULL} /\ Len(x.legs) \in {1, 2}
               /\ Len(x.legs) = 2 => x.arr \in Int
               /\ EndsBy(page, x.dep) \/ \E p : Matches(r, page, p, x)
    <2>1. PICK f \in Legs(db, date), s \in Legs(db, date) :
              /\ Change(f, s) /\ x = Candidate(date, <<f, s>>, <<Connection(db, f, s)>>)
      <3>1. PICK y \in Legs(db, date) \X Legs(db, date) :
                /\ Change(y[1], y[2])
                /\ x = Candidate(date, y, <<Connection(db, y[1], y[2])>>)
        BY <1>6 DEF WithOneChange
      <3>2. y = <<y[1], y[2]>> /\ y[1] \in Legs(db, date) /\ y[2] \in Legs(db, date)
        OBVIOUS
      <3> QED
        BY <3>1, <3>2
    <2>2. /\ x.dep = At(date, f.board.dep) /\ x.arr = At(date, s.alight.arr)
          /\ x.legs[1] = f /\ Len(x.legs) = 2
      BY <2>1, CandidateIs
    <2>3. f.board.dep \in Nat /\ s.alight.arr \in Nat /\ f.board.dep <= MaxDeparture
      BY <1>1, <2>1, <2>2, LegFields DEF InHours, Change
    <2>4. x.dep \in Int /\ x.arr \in Int
      BY <1>4, <2>2, <2>3, OriginIsInt, NullAssumption DEF At
    <2>5. PICK from : Origins = {from} /\ ChangeAt(db, from, Destinations, f, s)
      BY <1>6, <2>1, BoardAnswers, ChangeHere
    <2>6. PICK i \in DOMAIN CandidateDates(r, now) : CandidateDates(r, now)[i] = date
      BY <1>4
    <2>7. /\ ~(EffectiveMaxTransfers(db, r) < 1) /\ OrderlyTimetable(db)
          /\ from \in ResolvePlatformIds(db, ResolveStop(db, r.from))
          /\ ChangeAt(db, from, ResolvePlatformIds(db, ResolveStop(db, r.to)), f, s)
          /\ f \in Legs(db, CandidateDates(r, now)[i]) /\ s \in Legs(db, CandidateDates(r, now)[i])
          /\ At(CandidateDates(r, now)[i], f.board.dep) >= AfterUnix(r, now)
      BY <1>3, <1>6, <2>1, <2>2, <2>5, <2>6, BoardAnswers DEF Answers
    <2>8. \/ \E p \in DOMAIN Candidates(db, r, now) :
                /\ Changes(Candidates(db, r, now)[p]) = 1
                /\ Candidates(db, r, now)[p].dep = At(CandidateDates(r, now)[i], f.board.dep)
                /\ Candidates(db, r, now)[p].arr \in Int
                /\ Candidates(db, r, now)[p].arr <= At(CandidateDates(r, now)[i], s.alight.arr)
          \/ EndsBy(GetSchedule(db, r, now), At(CandidateDates(r, now)[i], f.board.dep))
      BY <1>1, <1>2, <2>3, <2>7, ChangeOffered
    <2>9. EndsBy(page, x.dep) \/ \E p : Matches(r, page, p, x)
      BY <1>2, <1>6, <2>2, <2>4, <2>6, <2>8 DEF Matches
    <2> QED
      BY <2>2, <2>4, <2>9
  <1>7. \E date \in ToSet(page.serviceDates) :
            /\ x.dep >= page.after
            /\ x \in Through(date) \/ (x \in WithOneChange(date) /\ ChangesHere)
    BY DEF Alternatives, Journeys, ChangesHere
  <1> QED
    BY <1>5, <1>6, <1>7

\* What a page has comes from its candidates.
LEMMA PageJourneys ==
    ASSUME TimeInv, WorldInv, DisplayInv, OnBoard, NEW r, NEW page, Answers(r, page)
    PROVE  LET K == Candidates(db, r, now)
               beaten(p) == \E q \in DOMAIN K : K[q].dep >= page.after /\ Dominates(K[q], K[p])
           IN  /\ \A c \in ToSet(page.departures) : \E p \in DOMAIN K :
                     /\ c = K[p] /\ K[p].dep >= page.after
                     /\ Changes(c) = 0 \/ ~beaten(p)
               /\ \A p \in DOMAIN K : K[p].dep >= page.after /\ ~beaten(p) =>
                     \/ \E c \in ToSet(page.departures) : AsGood(c, K[p])
                     \/ EndsBy(page, K[p].dep)
  <1> DEFINE K == Candidates(db, r, now)
             beaten(p) == \E q \in DOMAIN K : K[q].dep >= page.after /\ Dominates(K[q], K[p])
  <1>1. /\ now \in Int /\ DatabaseOK(db) /\ RequestOK(r) /\ page.status = "ok"
        /\ page = GetSchedule(db, r, now)
    BY BoardAnswers DEF Answers
  <1>2. PICK N \in 0..r.limit : \E place \in [1..N -> DOMAIN K] :
            PageAt(db, r, now, page, N, place) /\ JourneysAt(db, r, now, page, N, place)
    BY <1>1, PageOf
  <1>3. PICK place \in [1..N -> DOMAIN K] :
            PageAt(db, r, now, page, N, place) /\ JourneysAt(db, r, now, page, N, place)
    BY <1>2
  <1>4. /\ page.departures = [n \in 1..N |-> K[place[n]]]
        /\ \A n \in 1..N : K[place[n]].dep >= page.after
    BY <1>3 DEF PageAt
  <1>5. /\ \A n \in 1..N : Changes(K[place[n]]) = 0 \/ ~beaten(place[n])
        /\ \A p \in DOMAIN K : K[p].dep >= page.after /\ ~beaten(p) =>
              \/ \E n \in 1..N : AsGood(K[place[n]], K[p])
              \/ N = r.limit /\ \A n \in 1..N : K[place[n]].dep <= K[p].dep
    BY <1>3 DEF JourneysAt
  <1>6. \A p \in DOMAIN K : K[p].dep \in Int
    BY <1>1, CandidatesAre DEF Placed
  <1>7. ASSUME NEW p \in DOMAIN K, N = r.limit, \A n \in 1..N : K[place[n]].dep <= K[p].dep
        PROVE  EndsBy(page, K[p].dep)
    <2> DEFINE t == K[p].dep
    <2>1. t \in Int /\ \A n \in 1..N : K[place[n]].dep <= t
      BY <1>6, <1>7
    <2> HIDE DEF t
    <2>2. EndsBy(page, t)
      BY <1>1, <1>3, <1>7, <2>1, PageEnds
    <2> QED
      BY <2>2 DEF t
  <1> HIDE DEF K, beaten
  <1>8. \A c \in ToSet(page.departures) : \E n \in 1..N : c = K[place[n]]
    BY <1>4 DEF ToSet
  <1>9. \A n \in 1..N : K[place[n]] \in ToSet(page.departures) /\ place[n] \in DOMAIN K
    BY <1>4 DEF ToSet
  <1>10. \A c \in ToSet(page.departures) : \E p \in DOMAIN K :
            c = K[p] /\ K[p].dep >= page.after /\ (Changes(c) = 0 \/ ~beaten(p))
    BY <1>4, <1>5, <1>8, <1>9
  <1>11. \A p \in DOMAIN K : K[p].dep >= page.after /\ ~beaten(p) =>
            \/ \E c \in ToSet(page.departures) : AsGood(c, K[p])
            \/ EndsBy(page, K[p].dep)
    BY <1>5, <1>7, <1>9
  <1> QED
    BY <1>10, <1>11 DEF K, beaten

\* A journey that is shown is the worse choice against nothing that leaves before the page
\* ends, for every timetable, limit and clock: LIMIT and the search's last departure cost
\* the pruning nothing that matters.
THEOREM JourneysAreUndominated == Spec => []ShownUndominated
  <1>1. TimeInv /\ WorldInv /\ DisplayInv => ShownUndominated
    <2> SUFFICES ASSUME TimeInv, WorldInv, DisplayInv, OnBoard,
                        NEW n \in DOMAIN screen.pages,
                        NEW c \in ToSet(screen.pages[n].departures), Changes(c) = 1,
                        NEW x \in Alternatives(screen.pages[n]), InHours(x), Worse(c, x)
                 PROVE  EndsBy(screen.pages[n], x.dep)
      BY DEF ShownUndominated, EndsBy
    <2> DEFINE page == screen.pages[n]
    <2>1. PICK r : Answers(r, page)
      BY BoardAnswers
    <2> DEFINE K == Candidates(db, r, now)
    <2>2. PICK o \in DOMAIN K : /\ c = K[o] /\ K[o].dep >= page.after
                                /\ ~\E q \in DOMAIN K : K[q].dep >= page.after /\ Dominates(K[q], K[o])
      BY <2>1, PageJourneys
    <2>3. c.dep \in Int /\ c.arr \in Int /\ Len(c.legs) = 2 /\ Changes(c) = 1
      <3>1. /\ K[o].dep \in Int /\ Len(K[o].legs) = Changes(K[o]) + 1
            /\ Changes(K[o]) = 1 => K[o].arr \in Int
        BY <2>1, <2>2, CandidateIsAlternative
      <3>2. Changes(K[o]) = 1
        BY <2>2
      <3> QED
        BY <2>2, <3>1, <3>2
    <2>4. /\ x.dep \in Int /\ x.arr \in Int \cup {NULL} /\ Len(x.legs) \in {1, 2}
          /\ EndsBy(page, x.dep) \/ \E p : Matches(r, page, p, x)
      BY <2>1, AlternativeIsOffered
    <2>5. ASSUME NEW p, Matches(r, page, p, x) PROVE FALSE
      <3> DEFINE k == K[p]
      <3>1. /\ p \in DOMAIN K /\ k.dep = x.dep /\ k.dep >= page.after
            /\ Changes(k) = Len(x.legs) - 1
            /\ k.arr = x.arr \/ (x.arr \in Int /\ k.arr \in Int /\ k.arr <= x.arr)
        BY <2>5 DEF Matches
      <3> HIDE DEF k
      <3>2. /\ x.arr # NULL /\ x.dep >= c.dep /\ x.arr <= c.arr
            /\ x.dep # c.dep \/ x.arr # c.arr \/ Len(x.legs) # Len(c.legs)
        BY DEF Worse
      <3>3. /\ Changes(k) \in {0, 1} /\ (Len(x.legs) # Len(c.legs) => Changes(k) = 0)
        BY <2>3, <2>4, <3>1
      <3>4. /\ k.arr \in Int /\ k.arr <= x.arr /\ x.arr \in Int /\ k.dep \in Int
        BY <2>4, <3>1, <3>2
      <3>5. k.arr # NULL /\ c.arr # NULL
        BY <2>3, <3>4, NullAssumption
      <3>6. k.dep >= c.dep /\ k.arr <= c.arr
        BY <2>3, <3>1, <3>2, <3>4
      <3>7. Changes(k) <= Changes(c)
        BY <2>3, <3>3
      <3>8. k.dep > c.dep \/ k.arr < c.arr \/ Changes(k) < Changes(c)
        <4>1. x.dep # c.dep => k.dep > c.dep
          BY <2>3, <3>1, <3>2, <3>4
        <4>2. x.arr # c.arr => k.arr < c.arr
          BY <2>3, <3>2, <3>4
        <4>3. Len(x.legs) # Len(c.legs) => Changes(k) < Changes(c)
          BY <2>3, <3>3
        <4> QED
          BY <3>2, <4>1, <4>2, <4>3
      <3> QED
        BY <2>2, <3>1, <3>5, <3>6, <3>7, <3>8 DEF Dominates, k
    <2> QED
      BY <2>4, <2>5
  <1>2. ServiceInv => WorldInv
    BY DEF ServiceInv
  <1> QED
    BY <1>1, <1>2, TimeIsBudgeted, ServiceIsAccounted, DisplayIsAnswer, PTL

\* Every journey that is no worse choice is shown, or one equal to it, for every timetable,
\* limit and clock.
THEOREM JourneysAreKept == Spec => []JourneysKept
  <1>1. TimeInv /\ WorldInv /\ DisplayInv => JourneysKept
    <2> SUFFICES ASSUME TimeInv, WorldInv, DisplayInv, OnBoard,
                        NEW n \in DOMAIN screen.pages,
                        NEW c \in Journeys(screen.pages[n]), InHours(c),
                        \A x \in Alternatives(screen.pages[n]) : ~Worse(c, x),
                        ~EndsBy(screen.pages[n], c.dep)
                 PROVE  \E s \in ToSet(screen.pages[n].departures) :
                           Changes(s) = 1 /\ s.dep = c.dep /\ s.arr = c.arr
      BY DEF JourneysKept, EndsBy
    <2> DEFINE page == screen.pages[n]
    <2>1. PICK r : Answers(r, page)
      BY BoardAnswers
    <2> DEFINE K == Candidates(db, r, now)
    <2>2. c \in Alternatives(page)
      BY DEF Alternatives
    <2>3. Len(c.legs) = 2 /\ c.arr \in Int /\ c.dep \in Int
      <3>1. PICK date \in ToSet(page.serviceDates) : c \in WithOneChange(date)
        BY DEF Journeys
      <3>2. PICK y \in Legs(db, date) \X Legs(db, date) :
                c = Candidate(date, y, <<Connection(db, y[1], y[2])>>)
        BY <3>1 DEF WithOneChange
      <3>3. y = <<y[1], y[2]>>
        OBVIOUS
      <3>4. Len(c.legs) = 2
        BY <3>2, <3>3, CandidateIs
      <3> QED
        BY <2>1, <2>2, <3>4, AlternativeIsOffered
    <2>4. PICK p : Matches(r, page, p, c)
      BY <2>1, <2>2, AlternativeIsOffered
    <2> DEFINE k == K[p]
    <2>5. /\ p \in DOMAIN K /\ k.dep = c.dep /\ k.dep >= page.after
          /\ Changes(k) = 1 /\ k.arr \in Int /\ k.arr <= c.arr
      BY <2>3, <2>4 DEF Matches
    \* Whatever is pushed is one of the ways to travel, so it is no better than c.
    <2>6. ASSUME NEW q \in DOMAIN K, K[q].dep >= page.after
          PROVE  /\ ~Worse(c, K[q])
                 /\ K[q].dep \in Int /\ K[q].arr \in Int \cup {NULL}
                 /\ Changes(K[q]) \in {0, 1} /\ Len(K[q].legs) = Changes(K[q]) + 1
      BY <2>1, <2>6, CandidateIsAlternative
    <2>7. k.arr = c.arr
      BY <2>3, <2>5, <2>6, NullAssumption DEF Worse
    <2>8. ASSUME NEW q \in DOMAIN K, K[q].dep >= page.after PROVE ~Dominates(K[q], k)
      <3> DEFINE o == K[q]
      <3>1. /\ ~Worse(c, o) /\ o.dep \in Int /\ o.arr \in Int \cup {NULL}
            /\ Changes(o) \in {0, 1} /\ Len(o.legs) = Changes(o) + 1
        BY <2>6, <2>8
      <3> HIDE DEF o, k
      <3>2. ~Dominates(o, k)
        BY <2>3, <2>5, <2>7, <3>1, NullAssumption DEF Worse, Dominates
      <3> QED
        BY <3>2 DEF o
    <2>9. \/ \E s \in ToSet(page.departures) : AsGood(s, k)
          \/ EndsBy(page, k.dep)
      BY <2>1, <2>5, <2>8, PageJourneys
    <2> QED
      BY <2>5, <2>7, <2>9 DEF AsGood
  <1>2. ServiceInv => WorldInv
    BY DEF ServiceInv
  <1> QED
    BY <1>1, <1>2, TimeIsBudgeted, ServiceIsAccounted, DisplayIsAnswer, PTL

-----------------------------------------------------------------------------
(* Times and dates. *)

\* An instant shown for a published time, or for none, keeps its reading.
LEMMA ReadingKept ==
    ASSUME NEW date \in Int, NEW seconds \in Nat \cup {NULL}
    PROVE  KeepsReading(date, seconds, At(date, seconds))
  <1>1. CASE seconds = NULL
    BY <1>1 DEF KeepsReading, At
  <1>2. CASE seconds # NULL
    <2>1. seconds \in Nat
      BY <1>2
    <2>2. At(date, seconds) = GetServiceDayOriginUnix(date) + seconds
      BY <1>2 DEF At
    <2> QED
      BY <2>1, <2>2, PublishedTimes DEF KeepsReading
  <1> QED
    BY <1>1, <1>2

\* The stop times of a trip in the order of their numbers.
LEMMA TripStopsAre ==
    ASSUME NEW d, DatabaseOK(d), NEW trip
    PROVE  LET S == {st \in d.stopTimes : st.trip = trip}
               rows == GetTripStops(d, trip)
           IN  /\ IsFiniteSet(S)
               /\ rows \in [1..Cardinality(S) -> S]
               /\ Len(rows) = Cardinality(S) /\ Cardinality(S) \in Nat
  <1> DEFINE S == {st \in d.stopTimes : st.trip = trip}
             N == Cardinality(S)
             B == [x \in S |-> {y \in S : y.seq < x.seq}]
             at(n) == CHOOSE x \in S : Cardinality({y \in S : Precedes(<<y.seq>>, <<x.seq>>)}) = n - 1
             rows == GetTripStops(d, trip)
  <1>1. IsFiniteSet(S)
    BY FS_Subset DEF DatabaseOK
  <1>2. \A x \in S : x.seq \in Nat /\ x.seq \in Int
    BY DEF DatabaseOK
  <1>3. \A x, y \in S : x.seq = y.seq => x = y
    BY DEF DatabaseOK
  <1>4. rows = [n \in 1..N |-> at(n)]
    BY DEF GetTripStops, OrderBy
  <1> HIDE DEF S, rows
  <1>5. TotalOrder(S, B)
    BY <1>2, <1>3 DEF TotalOrder
  <1>6. \A x, y \in S : Precedes(<<y.seq>>, <<x.seq>>) <=> y.seq < x.seq
    BY <1>2, PrecedesOne
  <1>7. \A x \in S : {y \in S : Precedes(<<y.seq>>, <<x.seq>>)} = B[x]
    BY <1>6
  <1>8. ASSUME NEW n \in 1..N PROVE at(n) = CHOOSE x \in S : Cardinality(B[x]) = n - 1
    <2> HIDE DEF B
    <2> QED
      BY <1>7
  <1> HIDE DEF at, B
  <1>9. InOrder(rows, S, B) /\ Len(rows) = N
    <2>1. DOMAIN rows = 1..N /\ rows = [n \in DOMAIN rows |-> rows[n]]
      BY <1>4
    <2>2. \A n \in DOMAIN rows : rows[n] = CHOOSE x \in S : Cardinality(B[x]) = n - 1
      BY <1>4, <1>8
    <2> QED
      BY <1>1, <1>5, <2>1, <2>2, OrderedByRank
  <1>10. N \in Nat
    BY <1>1, FS_CardinalityType
  <1> QED
    BY <1>1, <1>9, <1>10 DEF InOrder, S, rows

LEMMA WindowIs ==
    ASSUME NEW u \in Int
    PROVE  GetScheduleServiceDates(u) \in [1..3 -> Int]
  <1>1. \A v \in Int : NyDate(v) \in Int
    BY ZoneAssumption DEF NyDate, Local, Offset, Day, Hour
  <1>2. Day \in Int
    BY DEF Day, Hour
  <1> QED
    BY <1>1, <1>2 DEF GetScheduleServiceDates

\* The date of a trip: the one asked for, or one of the window on which it runs; none if
\* there is no such date.
LEMMA ServiceDateIs ==
    ASSUME NEW d, NEW trip, NEW date \in Int \cup {NULL}, NEW u \in Int
    PROVE  LET found == ResolveServiceDate(d, trip, date, u)
               window == ToSet(GetScheduleServiceDates(u))
           IN  /\ found \in Int \cup {NULL}
               /\ date = NULL /\ found # NULL =>
                     found \in window /\ IsTripActiveOnDate(d, trip, found)
               /\ date = NULL /\ found = NULL =>
                     \A other \in window : ~IsTripActiveOnDate(d, trip, other)
  <1> DEFINE dates == GetScheduleServiceDates(u)
             active == {n \in DOMAIN dates : IsTripActiveOnDate(d, trip, dates[n])}
             found == ResolveServiceDate(d, trip, date, u)
  <1>1. dates \in [1..3 -> Int]
    BY WindowIs
  <1>2. found = IF date # NULL THEN date ELSE IF active = {} THEN NULL ELSE dates[Min(active)]
    BY DEF ResolveServiceDate
  <1> HIDE DEF dates, found
  <1>3. active \in SUBSET Nat
    BY <1>1
  <1>4. active # {} => Min(active) \in active
    <2> HIDE DEF active
    <2> QED
      BY <1>3, MinIs
  <1>5. active # {} => /\ dates[Min(active)] \in Int /\ dates[Min(active)] \in ToSet(dates)
                       /\ IsTripActiveOnDate(d, trip, dates[Min(active)])
    BY <1>1, <1>4 DEF ToSet
  <1>6. active = {} => \A other \in ToSet(dates) : ~IsTripActiveOnDate(d, trip, other)
    BY DEF ToSet
  <1> HIDE DEF active
  <1> QED
    BY <1>2, <1>5, <1>6, NullAssumption DEF dates, found

\* What the page of a trip consists of.
LEMMA TripPage ==
    ASSUME NEW d, DatabaseOK(d), NEW id, NEW date \in Int \cup {NULL}, NEW u \in Int,
           GetTripSchedule(d, id, date, u) # NotFound
    PROVE  LET page == GetTripSchedule(d, id, date, u)
               trip == ResolveTripId(d, id, date, u)
           IN  /\ trip # NULL /\ page.status = "ok"
               /\ page.trip = trip /\ page.exact = (trip = id)
               /\ page.serviceDate = ResolveServiceDate(d, trip, date, u)
               /\ \A n \in DOMAIN page.stops :
                     page.stops[n] = ToTripStop(GetTripStops(d, trip)[n], page.serviceDate)
               /\ DOMAIN page.stops = DOMAIN GetTripStops(d, trip)
  <1> DEFINE page == GetTripSchedule(d, id, date, u)
             trip == ResolveTripId(d, id, date, u)
             rows == GetTripStops(d, trip)
             found == ResolveServiceDate(d, trip, date, u)
             stops == [n \in DOMAIN rows |-> ToTripStop(rows[n], found)]
  <1>1. ~(trip = NULL \/ rows = <<>>)
    BY DEF GetTripSchedule
  <1>2. page = [status |-> "ok", trip |-> trip, exact |-> trip = id,
                serviceDate |-> found, stops |-> stops]
    BY <1>1 DEF GetTripSchedule
  <1>3. stops = [n \in DOMAIN rows |-> ToTripStop(rows[n], found)]
    OBVIOUS
  <1> HIDE DEF page, rows, stops, trip, found
  <1>4. /\ page.status = "ok" /\ page.trip = trip /\ page.exact = (trip = id)
        /\ page.serviceDate = found /\ page.stops = stops
    BY <1>2
  <1>5. /\ DOMAIN stops = DOMAIN rows
        /\ \A n \in DOMAIN rows : stops[n] = ToTripStop(rows[n], found)
    BY <1>3
  <1> QED
    BY <1>1, <1>4, <1>5 DEF page, rows, trip, found

\* Every instant on a board or in a trip is that of a clock reading the published time,
\* for every timetable and every date, except next to a change of the clocks.
THEOREM PublishedTimesAreKept == Spec => []PublishedTimeKept
  <1>1. ASSUME TimeInv, WorldInv, DisplayInv, OnBoard, NEW n \in DOMAIN screen.pages,
               NEW c \in ToSet(screen.pages[n].departures)
        PROVE  /\ KeepsReading(c.date, c.legs[1].board.dep, c.dep)
               /\ KeepsReading(c.date, Last(c.legs).alight.arr, c.arr)
    <2>1. now \in Int /\ DatabaseOK(db)
      BY <1>1, BoardPage
    <2>2. PICK after \in Int \cup {NULL} :
              /\ RequestOK(From(screen.query, after))
              /\ screen.pages[n] = GetSchedule(db, From(screen.query, after), now)
              /\ GetSchedule(db, From(screen.query, after), now).status = "ok"
      BY <1>1, BoardPage
    <2> DEFINE r == From(screen.query, after)
               page == GetSchedule(db, r, now)
               K == Candidates(db, r, now)
               dates == CandidateDates(r, now)
    <2> HIDE DEF r
    <2>3. RequestOK(r) /\ screen.pages[n] = page /\ page.status = "ok"
      BY <2>2 DEF r
    <2>4. PICK N \in 0..r.limit : \E place \in [1..N -> DOMAIN K] :
              PageAt(db, r, now, page, N, place)
      BY <2>1, <2>3, PageOf
    <2>5. PICK place \in [1..N -> DOMAIN K] : PageAt(db, r, now, page, N, place)
      BY <2>4
    <2>6. page.departures = [k \in 1..N |-> K[place[k]]]
      BY <2>5 DEF PageAt
    <2>7. PICK p \in DOMAIN K : c = K[p]
      BY <1>1, <2>3, <2>6 DEF ToSet
    <2>8. /\ p[1] \in DOMAIN dates
          /\ Shape(db, dates[p[1]], Platforms(db, r.from)[p[2]], K[p])
      BY <2>1, <2>3, CandidatesAre
    <2>9. dates[p[1]] \in Int
      <3>1. PICK k \in Nat : dates \in [1..k -> Int]
        BY <2>1, <2>3, DatesAre
      <3> QED
        BY <2>8, <3>1
    <2> HIDE DEF K, page, dates
    <2>10. /\ c.date = dates[p[1]] /\ c.legs[1] \in Legs(db, dates[p[1]])
           /\ c.dep = At(c.date, c.legs[1].board.dep)
           /\ c.arr = At(c.date, Last(c.legs).alight.arr)
           /\ Last(c.legs).alight.arr \in Nat \cup {NULL}
      BY <2>7, <2>8 DEF Shape
    <2>11. c.legs[1].board.dep \in Nat
      BY <2>1, <2>10, LegFields
    <2> QED
      BY <2>9, <2>10, <2>11, ReadingKept
  <1>2. ASSUME TimeInv, WorldInv, DisplayInv, screen.kind = "trip", screen.trip.status = "ok",
               NEW n \in DOMAIN screen.trip.stops
        PROVE  LET s == screen.trip.stops[n] IN
               /\ KeepsReading(screen.trip.serviceDate, s.row.arr, s.arr)
               /\ KeepsReading(screen.trip.serviceDate, s.row.dep, s.dep)
    <2> DEFINE id == screen.query.id
               date == screen.query.date
               page == GetTripSchedule(db, id, date, now)
               trip == ResolveTripId(db, id, date, now)
               rows == GetTripStops(db, trip)
               s == screen.trip.stops[n]
    <2>1. screen.trip = page /\ date \in Int \cup {NULL} /\ DatabaseOK(db) /\ now \in Int
      BY <1>2, QueriesAssumption DEF DisplayInv, TripInv, TimeInv, WorldInv
    <2>2. page # NotFound
      BY <1>2, <2>1 DEF NotFound
    <2> HIDE DEF id, date
    <2>3. /\ page.serviceDate = ResolveServiceDate(db, trip, date, now)
          /\ \A k \in DOMAIN page.stops : page.stops[k] = ToTripStop(rows[k], page.serviceDate)
          /\ DOMAIN page.stops = DOMAIN rows
      BY <2>1, <2>2, TripPage
    <2>4. page.serviceDate \in Int \cup {NULL}
      BY <2>1, <2>3, ServiceDateIs
    <2>5. rows[n] \in db.stopTimes
      <3>1. rows \in [1..Cardinality({st \in db.stopTimes : st.trip = trip}) ->
                        {st \in db.stopTimes : st.trip = trip}]
        BY <2>1, TripStopsAre
      <3> HIDE DEF rows, page
      <3>2. n \in DOMAIN rows
        BY <1>2, <2>1, <2>3
      <3> QED
        BY <3>1, <3>2
    <2> HIDE DEF page, rows
    <2>6. s = ToTripStop(rows[n], page.serviceDate)
      BY <1>2, <2>1, <2>3
    <2>7. rows[n].arr \in Nat \cup {NULL} /\ rows[n].dep \in Nat \cup {NULL}
      BY <2>1, <2>5 DEF DatabaseOK
    <2>8. s.row = rows[n]
      BY <2>6 DEF ToTripStop
    <2>9. CASE page.serviceDate = NULL
      <3>1. s.arr = NULL /\ s.dep = NULL
        BY <2>6, <2>9 DEF ToTripStop
      <3> QED
        BY <2>1, <3>1 DEF KeepsReading
    <2>10. CASE page.serviceDate # NULL
      <3>1. page.serviceDate \in Int
        BY <2>4, <2>10
      <3>2. /\ s.arr = At(page.serviceDate, rows[n].arr)
            /\ s.dep = At(page.serviceDate, rows[n].dep)
        BY <2>6, <2>10 DEF ToTripStop
      <3> HIDE DEF s
      <3>3. /\ KeepsReading(page.serviceDate, s.row.arr, s.arr)
            /\ KeepsReading(page.serviceDate, s.row.dep, s.dep)
        BY <2>7, <2>8, <3>1, <3>2, ReadingKept
      <3> QED
        BY <2>1, <3>3 DEF s
    <2> QED
      BY <2>9, <2>10
  <1>3. TimeInv /\ WorldInv /\ DisplayInv => PublishedTimeKept
    BY <1>1, <1>2 DEF PublishedTimeKept
  <1>4. ServiceInv => WorldInv
    BY DEF ServiceInv
  <1> QED
    BY <1>3, <1>4, TimeIsBudgeted, ServiceIsAccounted, DisplayIsAnswer, PTL

\* What the identifier of a trip stands for.
LEMMA TripIdIs ==
    ASSUME NEW d, DatabaseOK(d), NEW id, NEW u \in Int
    PROVE  LET trip == ResolveTripId(d, id, NULL, u)
               window == ToSet(GetScheduleServiceDates(u))
               runs(t) == \E date \in window : ActiveServicePredicate(d, t.service, date)
           IN  /\ \/ /\ trip = NULL
                     /\ \A t \in d.trips : t.id # id
                     /\ d.feed = "subway" => \A t \in d.trips : id \in t.tails => ~runs(t)
                  \/ /\ trip # NULL
                     /\ \E t \in d.trips : /\ t.id = trip
                                           /\ t.id = id \/ (id \in t.tails /\ runs(t))
  <1> DEFINE trip == ResolveTripId(d, id, NULL, u)
             window == ToSet(GetScheduleServiceDates(u))
             runs(t) == \E date \in window : ActiveServicePredicate(d, t.service, date)
             matches == {t.id : t \in {x \in d.trips : id \in x.tails /\ runs(x)}}
  <1>1. trip = IF \E t \in d.trips : t.id = id THEN id
               ELSE IF d.feed = "subway" /\ matches # {} THEN Min(matches) ELSE NULL
    BY DEF ResolveTripId, FindSubwayTripIdsBySuffix
  <1>2. \A t \in d.trips : t.id \in Nat /\ t.id # NULL
    BY NullAssumption DEF DatabaseOK
  <1> HIDE DEF trip, window
  <1>3. matches # {} => Min(matches) \in matches
    <2>1. matches \in SUBSET Nat
      BY <1>2
    <2> HIDE DEF matches
    <2> QED
      BY <2>1, MinIs
  <1>4. CASE \E t \in d.trips : t.id = id
    <2>1. trip = id
      BY <1>1, <1>4
    <2> QED
      BY <1>2, <1>4, <2>1 DEF trip, window
  <1>5. CASE (\A t \in d.trips : t.id # id) /\ d.feed = "subway" /\ matches # {}
    <2>1. trip \in matches
      BY <1>1, <1>3, <1>5
    <2>2. PICK t \in d.trips : id \in t.tails /\ runs(t) /\ t.id = trip
      BY <2>1
    <2>3. trip # NULL
      BY <1>2, <2>2
    <2> QED
      BY <2>2, <2>3 DEF trip, window
  <1>6. CASE (\A t \in d.trips : t.id # id) /\ ~(d.feed = "subway" /\ matches # {})
    <2>1. trip = NULL
      BY <1>1, <1>6
    <2>2. ASSUME d.feed = "subway", NEW t \in d.trips, id \in t.tails PROVE ~runs(t)
      BY <1>6, <2>2
    <2> QED
      BY <1>6, <2>1, <2>2 DEF trip, window
  <1> QED
    BY <1>4, <1>5, <1>6

\* The page of a trip that is asked for without a date.
LEMMA TripFound ==
    ASSUME NEW d, DatabaseOK(d), NEW id, NEW u \in Int
    PROVE  LET page == GetTripSchedule(d, id, NULL, u)
               window == ToSet(GetScheduleServiceDates(u))
               named == {t \in d.trips : t.id = id \/ id \in t.tails}
               runs(t, date) == t.service \in GetActiveServiceIds(d, date)
           IN  IF page = NotFound
               THEN \/ \A t \in named :
                          /\ t.id # id
                          /\ d.feed = "subway" => \A date \in window : ~runs(t, date)
                    \/ \E t \in named : \A st \in d.stopTimes : st.trip # t.id
               ELSE \E t \in named :
                      /\ t.id = page.trip
                      /\ \/ /\ page.serviceDate # NULL
                            /\ page.serviceDate \in window /\ runs(t, page.serviceDate)
                         \/ /\ page.serviceDate = NULL /\ page.exact
                            /\ \A other \in window : ~runs(t, other)
  <1> DEFINE page == GetTripSchedule(d, id, NULL, u)
             window == ToSet(GetScheduleServiceDates(u))
             named == {t \in d.trips : t.id = id \/ id \in t.tails}
             runs(t, date) == t.service \in GetActiveServiceIds(d, date)
             trip == ResolveTripId(d, id, NULL, u)
             rows == GetTripStops(d, trip)
             found == ResolveServiceDate(d, trip, NULL, u)
  <1>1. \A t \in d.trips : \A date :
            ActiveServicePredicate(d, t.service, date) <=> runs(t, date)
    <2>1. \A x, y \in d.calendarDates : x.service = y.service /\ x.date = y.date => x = y
      BY DEF DatabaseOK
    <2> QED
      BY <2>1, CalendarFormsAgree
  <1>2. \A t \in d.trips : \A date : t.id = trip => (IsTripActiveOnDate(d, trip, date) <=> runs(t, date))
    <2> TAKE t \in d.trips
    <2> TAKE date
    <2>1. ASSUME t.id = trip PROVE (CHOOSE x \in d.trips : x.id = trip) = t
      BY <2>1 DEF DatabaseOK
    <2>2. ASSUME t.id = trip PROVE ServiceOf(d, trip) = t.service
      BY <2>1, <2>2 DEF ServiceOf
    <2> HIDE DEF trip, runs
    <2> QED
      BY <1>1, <2>2 DEF IsTripActiveOnDate
  <1>3. \/ /\ trip = NULL
           /\ \A t \in d.trips : t.id # id
           /\ d.feed = "subway" =>
                \A t \in d.trips : id \in t.tails =>
                    ~ \E date \in window : ActiveServicePredicate(d, t.service, date)
        \/ /\ trip # NULL
           /\ \E t \in d.trips :
                /\ t.id = trip
                /\ \/ t.id = id
                   \/ id \in t.tails
                      /\ \E date \in window : ActiveServicePredicate(d, t.service, date)
    BY TripIdIs
  <1>4. /\ found # NULL => found \in window /\ IsTripActiveOnDate(d, trip, found)
        /\ found = NULL => \A other \in window : ~IsTripActiveOnDate(d, trip, other)
    BY ServiceDateIs
  <1>5. page = NotFound => trip = NULL \/ rows = <<>>
    BY DEF GetTripSchedule, NotFound
  <1>6. rows = <<>> => \A st \in d.stopTimes : st.trip # trip
    <2> DEFINE S == {st \in d.stopTimes : st.trip = trip}
    <2>1. IsFiniteSet(S) /\ Len(rows) = Cardinality(S)
      BY TripStopsAre
    <2>2. ASSUME rows = <<>> PROVE Cardinality(S) = 0
      BY <2>1, <2>2
    <2>3. ASSUME rows = <<>> PROVE S = {}
      BY <2>1, <2>2, <2>3, FS_EmptySet
    <2> QED
      BY <2>3
  <1>7. page # NotFound => /\ trip # NULL /\ page.trip = trip /\ page.exact = (trip = id)
                           /\ page.serviceDate = found
    <2> DEFINE stops == [n \in DOMAIN rows |-> ToTripStop(rows[n], found)]
    <2>1. page = IF trip = NULL \/ rows = <<>> THEN NotFound
                 ELSE [status |-> "ok", trip |-> trip, exact |-> trip = id,
                       serviceDate |-> found, stops |-> stops]
      BY DEF GetTripSchedule
    <2> HIDE DEF page, trip, rows, found, stops
    <2> QED
      BY <2>1
  <1> HIDE DEF page, window, trip, rows, found, runs
  <1>8. CASE page = NotFound /\ trip = NULL
    <2>1. ASSUME NEW t \in named
          PROVE  t.id # id /\ (d.feed = "subway" => \A date \in window : ~runs(t, date))
      BY <1>1, <1>3, <1>8, <2>1
    <2> QED
      BY <1>8, <2>1 DEF page, window, runs
  <1>9. CASE page = NotFound /\ trip # NULL
    <2>1. PICK t \in named : t.id = trip
      BY <1>3, <1>9
    <2>2. \A st \in d.stopTimes : st.trip # t.id
      BY <1>5, <1>6, <1>9, <2>1
    <2>3. \E o \in named : \A st \in d.stopTimes : st.trip # o.id
      BY <2>1, <2>2
    <2> QED
      BY <1>9, <2>3 DEF page
  <1>10. CASE page # NotFound
    <2>1. PICK t \in named : /\ t.id = trip
                             /\ \/ t.id = id
                                \/ \E date \in window : ActiveServicePredicate(d, t.service, date)
      BY <1>3, <1>7, <1>10
    <2>2. t.id = page.trip
      BY <1>7, <1>10, <2>1
    <2>3. CASE page.serviceDate # NULL
      <3>1. page.serviceDate \in window /\ runs(t, page.serviceDate)
        BY <1>2, <1>4, <1>7, <1>10, <2>1, <2>3
      <3>2. \E o \in named : /\ o.id = page.trip
                             /\ page.serviceDate \in window /\ runs(o, page.serviceDate)
        BY <2>2, <3>1
      <3> QED
        BY <1>10, <2>3, <3>2 DEF page, window, runs
    <2>4. CASE page.serviceDate = NULL
      <3>1. \A other \in window : ~runs(t, other)
        BY <1>2, <1>4, <1>7, <1>10, <2>1, <2>4
      <3>2. t.id = id
        BY <1>1, <2>1, <3>1
      <3>3. page.exact
        BY <1>7, <1>10, <2>1, <3>2
      <3>4. \E o \in named : /\ o.id = page.trip
                             /\ page.serviceDate = NULL /\ page.exact
                             /\ \A other \in window : ~runs(o, other)
        BY <2>2, <2>4, <3>1, <3>3
      <3> QED
        BY <1>10, <3>4 DEF page, window, runs
    <2> QED
      BY <2>3, <2>4
  <1> QED
    BY <1>8, <1>9, <1>10

\* A trip that is looked up without a date is dated by a day on which it runs, whatever
\* the calendar, and what is not found names no trip that could be meant, or one without
\* stop times.
THEOREM TripsRunOnTheirDate == Spec => []TripRunsOnDate
  <1>1. TimeInv /\ WorldInv /\ DisplayInv => TripRunsOnDate
    <2> SUFFICES ASSUME TimeInv, WorldInv, DisplayInv, screen.kind = "trip", screen.query.date = NULL
                 PROVE  TripRunsOnDate
      BY DEF TripRunsOnDate
    <2> DEFINE id == screen.query.id
               page == GetTripSchedule(db, id, NULL, now)
               window == ToSet(GetScheduleServiceDates(now))
               named == {t \in db.trips : t.id = id \/ id \in t.tails}
               runs(t, date) == t.service \in GetActiveServiceIds(db, date)
               shown == CHOOSE x \in named : x.id = page.trip
    <2>1. screen.trip = page /\ DatabaseOK(db) /\ now \in Int
      BY QueriesAssumption DEF DisplayInv, TripInv, TimeInv, WorldInv
    <2>2. IF page = NotFound
          THEN \/ \A t \in named : /\ t.id # id
                                   /\ db.feed = "subway" => \A date \in window : ~runs(t, date)
               \/ \E t \in named : \A st \in db.stopTimes : st.trip # t.id
          ELSE \E t \in named :
                 /\ t.id = page.trip
                 /\ \/ /\ page.serviceDate # NULL
                       /\ page.serviceDate \in window /\ runs(t, page.serviceDate)
                    \/ /\ page.serviceDate = NULL /\ page.exact
                       /\ \A other \in window : ~runs(t, other)
      BY <2>1, TripFound
    <2>3. \A t, o \in named : t.id = o.id => t = o
      BY <2>1 DEF DatabaseOK
    <2> HIDE DEF page, window, named, runs
    <2>4. ASSUME NEW t \in named, t.id = page.trip PROVE shown = t
      BY <2>3, <2>4
    <2> HIDE DEF shown
    <2>5. page # NotFound => IF page.serviceDate # NULL
                             THEN page.serviceDate \in window /\ runs(shown, page.serviceDate)
                             ELSE page.exact /\ \A other \in window : ~runs(shown, other)
      BY <2>2, <2>4
    <2>6. CASE page = NotFound
      BY <2>1, <2>2, <2>6 DEF TripRunsOnDate, window, named, runs
    <2>7. CASE page # NotFound
      BY <2>1, <2>5, <2>7 DEF TripRunsOnDate, window, named, runs, shown
    <2> QED
      BY <2>6, <2>7
  <1>2. ServiceInv => WorldInv
    BY DEF ServiceInv
  <1> QED
    BY <1>1, <1>2, TimeIsBudgeted, ServiceIsAccounted, DisplayIsAnswer, PTL
=============================================================================
