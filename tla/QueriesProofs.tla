--------------------------- MODULE QueriesProofs ---------------------------
(***************************************************************************)
(* A reply to a request for arrivals or vehicles comes in time, is as fresh*)
(* as it says, and misses no train, for all timetables, feeds, timeouts    *)
(* and clocks.                                                             *)
(***************************************************************************)
EXTENDS Queries, ServiceDatesProofs, FiniteSetTheorems

\* The time that k feeds may take.
Budget(k) == 2 * Timeout * k

\* What the feeds asked so far may have taken.
Spent(v) == Budget(Cardinality(v.asked) - Cardinality(v.todo))

VisitField == {"st", "kind", "query", "started", "platforms", "asked", "todo", "heard",
               "matched", "stale", "feedError", "reply"}

\* The request is a record, and has feeds to ask among those it will have asked.
VisitOK ==
    /\ visit = [k \in DOMAIN visit |-> visit[k]]
    /\ visit.st \in {"none", "open", "replied"}
    /\ InArrivals => /\ DOMAIN visit = VisitField
                     /\ visit.started \in Int
                     /\ IsFiniteSet(visit.asked)
                     /\ visit.todo \subseteq visit.asked

AnswerOK == answer = [c \in Call |-> answer[c]]

\* Time spent so far, and time that the call under way may take yet.
OnTime ==
    /\ InArrivals => now - visit.started <= Spent(visit)
    /\ Waiting(Client) =>
        /\ visit.st = "open"
        /\ answer[Client].due \in Int
        /\ answer[Client].again \in BOOLEAN
        /\ now <= answer[Client].due
        /\ answer[Client].due + (IF answer[Client].again THEN Timeout ELSE 0)
               - visit.started <= Spent(visit)

TimeInv == now \in Int /\ AnswerOK /\ VisitOK /\ OnTime

-----------------------------------------------------------------------------

LEMMA BudgetStep ==
    ASSUME NEW k \in Int, NEW m \in Int
    PROVE  /\ Budget(k) \in Int
           /\ Budget(0) = 0
           /\ Budget(k + 1) = Budget(k) + Timeout + Timeout
           /\ k <= m => Budget(k) <= Budget(m)
  <1>1. Timeout \in Nat
    BY ContractAssumption
  <1>2. Budget(k) \in Int /\ Budget(0) = 0 /\ Budget(k + 1) = Budget(k) + Timeout + Timeout
    BY <1>1 DEF Budget
  <1>3. ASSUME k <= m PROVE Budget(k) <= Budget(m)
    <2>1. PICK j \in Nat : m = k + j
      <3>1. m - k \in Nat /\ m = k + (m - k)
        BY <1>3
      <3> QED
        BY <3>1
    <2>2. Budget(m) = Budget(k) + 2 * Timeout * j /\ 2 * Timeout * j >= 0
      BY <1>1, <2>1 DEF Budget
    <2> QED
      BY <1>1, <1>2, <2>1, <2>2
  <1> QED
    BY <1>2, <1>3

\* A request has finitely many feeds to ask.
LEMMA FeedPathsFinite ==
    ASSUME NEW d, NEW routes
    PROVE  IsFiniteSet(FeedPaths(d, routes))
  <1>1. CASE d.feed = "subway"
    <2>1. FeedPaths(d, routes) \subseteq Feed
      BY <1>1, ArrivalsAssumption DEF FeedPaths
    <2> QED
      BY <2>1, ArrivalsAssumption, FS_Subset
  <1>2. CASE d.feed # "subway"
    <2>1. FeedPaths(d, routes) \subseteq {d.feed}
      BY <1>2 DEF FeedPaths
    <2>2. IsFiniteSet({d.feed})
      BY FS_Singleton
    <2> QED
      BY <2>1, <2>2, FS_Subset
  <1> QED
    BY <1>1, <1>2

\* The counts of the feeds of a request.
LEMMA Counts ==
    ASSUME VisitOK, InArrivals
    PROVE  /\ Cardinality(visit.asked) \in Nat /\ Cardinality(visit.todo) \in Nat
           /\ IsFiniteSet(visit.todo)
           /\ Cardinality(visit.todo) <= Cardinality(visit.asked)
           /\ Spent(visit) \in Int
           /\ Spent(visit) <= Longest
  <1>1. IsFiniteSet(visit.asked) /\ visit.todo \in SUBSET visit.asked
    BY DEF VisitOK
  <1>2. IsFiniteSet(visit.todo) /\ Cardinality(visit.todo) <= Cardinality(visit.asked)
    BY <1>1, FS_Subset
  <1>3. Cardinality(visit.asked) \in Nat /\ Cardinality(visit.todo) \in Nat
    BY <1>1, <1>2, FS_CardinalityType
  <1> DEFINE k == Cardinality(visit.asked) - Cardinality(visit.todo)
             m == Cardinality(visit.asked)
  <1>4. k \in Int /\ m \in Int /\ k <= m
    BY <1>3
  <1>5. Spent(visit) = Budget(k) /\ Longest = Budget(m)
    BY DEF Spent, Longest, Asked, Budget
  <1> HIDE DEF k, m
  <1>6. Budget(k) \in Int /\ Budget(k) <= Budget(m)
    BY <1>4, BudgetStep
  <1> QED
    BY <1>2, <1>3, <1>5, <1>6

LEMMA InitTime == Init => TimeInv
  <1> SUFFICES ASSUME Init PROVE TimeInv
    OBVIOUS
  <1>1. now \in Int
    BY ContractAssumption DEF Init, ArrivalsInit, ContractInit
  <1>2. visit = NoVisit /\ ~InArrivals /\ VisitOK
    BY DEF Init, ArrivalsInit, NoVisit, InArrivals, VisitOK
  <1>3. AnswerOK /\ ~Waiting(Client)
    BY ArrivalsAssumption
       DEF Init, ArrivalsInit, ContractInit, AnswerOK, Waiting, Unasked
  <1> QED
    BY <1>1, <1>2, <1>3 DEF TimeInv, OnTime

-----------------------------------------------------------------------------
(* The steps of a request. *)

\* A request begins now, with finitely many feeds, or is answered at once.
LEMMA BeginStep ==
    ASSUME TimeInv, ~InArrivals, UNCHANGED <<now, answer>>,
           NEW kind, NEW query, NEW platforms, NEW paths, IsFiniteSet(paths),
           \/ visit' = Visit(kind, query, platforms, paths)
           \/ visit' = Replied(Visit(kind, query, platforms, paths), NotFound)
    PROVE  TimeInv'
  <1>1. ~Waiting(Client) /\ ~Waiting(Client)'
    BY DEF TimeInv, OnTime, InArrivals, Waiting
  <1>2. /\ DOMAIN visit' = VisitField
        /\ visit' = [k \in DOMAIN visit' |-> visit'[k]]
        /\ visit'.st \in {"open", "replied"}
        /\ visit'.started = now /\ visit'.asked = paths /\ visit'.todo = paths
    <2> DEFINE v == Visit(kind, query, platforms, paths)
    <2>1. /\ DOMAIN v = VisitField
          /\ v = [k \in DOMAIN v |-> v[k]]
          /\ v.st = "open"
          /\ v.started = now /\ v.asked = paths /\ v.todo = paths
      BY DEF Visit, VisitField
    <2> HIDE DEF v
    <2>2. CASE visit' = v
      BY <2>1, <2>2
    <2>3. CASE visit' = Replied(v, NotFound)
      <3> DEFINE w == Replied(v, NotFound)
      <3>1. DOMAIN w = VisitField
        BY <2>1 DEF Replied
      <3>2. w = [k \in DOMAIN w |-> w[k]]
        BY <2>1 DEF Replied
      <3>3. w.st = "replied" /\ w.started = now /\ w.asked = paths /\ w.todo = paths
        BY <2>1 DEF Replied, VisitField
      <3> HIDE DEF w
      <3>4. visit' = w
        BY <2>3 DEF w
      <3> QED
        BY <3>1, <3>2, <3>3, <3>4
    <2> QED
      BY <2>2, <2>3 DEF v
  <1>3. VisitOK'
    BY <1>2 DEF VisitOK, TimeInv
  <1>4. now - visit'.started = 0 /\ Spent(visit') = 0
    <2>1. Cardinality(paths) \in Nat
      BY FS_CardinalityType
    <2>2. Spent(visit') = Budget(0)
      BY <1>2, <2>1 DEF Spent
    <2> QED
      BY <1>2, <2>2, BudgetStep DEF TimeInv
  <1> QED
    BY <1>1, <1>3, <1>4 DEF TimeInv, OnTime, AnswerOK

LEMMA RequestStep == ASSUME TimeInv, Request PROVE TimeInv'
  <1>1. CASE \E q \in ArrivalsQuery[db.feed] : BeginArrivals(db, q)
    <2>1. PICK q \in ArrivalsQuery[db.feed] : BeginArrivals(db, q)
      BY <1>1
    <2> DEFINE stop == ResolveStop(db, q.stop)
               platforms == ResolvePlatformIds(db, stop)
               paths == FeedsToAsk(db, q, platforms, now)
    <2>2. /\ ~InArrivals /\ UNCHANGED <<now, answer>>
          /\ \/ visit' = Replied(Visit("arrivals", q, {}, {}), NotFound)
             \/ visit' = Visit("arrivals", q, platforms, paths)
      BY <2>1 DEF BeginArrivals
    <2>3. IsFiniteSet(paths) /\ IsFiniteSet({})
      BY FeedPathsFinite, FS_EmptySet DEF FeedsToAsk
    <2> HIDE DEF paths, platforms
    <2> QED
      BY <2>2, <2>3, BeginStep
  <1>2. CASE \E q \in VehiclesQuery[db.feed] : BeginVehicles(db, q)
    <2>1. PICK q \in VehiclesQuery[db.feed] : BeginVehicles(db, q)
      BY <1>2
    <2> DEFINE paths == IF q.route \in db.routes THEN FeedPaths(db, {q.route}) ELSE {}
    <2>2. /\ ~InArrivals /\ UNCHANGED <<now, answer>>
          /\ \/ visit' = Replied(Visit("vehicles", q, {}, paths), NotFound)
             \/ visit' = Visit("vehicles", q, {}, paths)
      BY <2>1 DEF BeginVehicles
    <2>3. IsFiniteSet(paths)
      BY FeedPathsFinite, FS_EmptySet
    <2> HIDE DEF paths
    <2> QED
      BY <2>2, <2>3, BeginStep
  <1> QED
    BY <1>1, <1>2 DEF Request

\* A call of getFeed takes one feed off the list, and with it two timeouts more.
LEMMA AskNextStep == ASSUME TimeInv, AskNext PROVE TimeInv'
  <1>1. PICK f \in visit.todo : \E reply \in FirstReply(f) :
            /\ answer' = [answer EXCEPT ![Client] = reply]
            /\ visit' = [visit EXCEPT !.todo = @ \ {f}]
    BY DEF AskNext
  <1>2. PICK reply \in FirstReply(f) : answer' = [answer EXCEPT ![Client] = reply]
    BY <1>1
  <1>3. visit.st = "open" /\ now' = now /\ now \in Int /\ Timeout \in Nat /\ InArrivals
    BY ContractAssumption DEF AskNext, TimeInv, InArrivals
  <1>4. /\ DOMAIN visit' = VisitField
        /\ visit' = [k \in DOMAIN visit' |-> visit'[k]]
        /\ visit'.st = "open" /\ visit'.started = visit.started
        /\ visit'.asked = visit.asked /\ visit'.todo = visit.todo \ {f}
    BY <1>1, <1>3 DEF TimeInv, VisitOK, VisitField
  <1>5. VisitOK' /\ InArrivals'
    BY <1>3, <1>4 DEF TimeInv, VisitOK, InArrivals
  <1>6. answer'[Client] = reply /\ AnswerOK'
    BY <1>2, ArrivalsAssumption DEF TimeInv, AnswerOK
  <1>7. Spent(visit') = Spent(visit) + Timeout + Timeout /\ Spent(visit) \in Int
    <2> DEFINE k == Cardinality(visit.asked) - Cardinality(visit.todo)
    <2>1. /\ Cardinality(visit.asked) \in Nat /\ Cardinality(visit.todo) \in Nat
          /\ IsFiniteSet(visit.todo) /\ Spent(visit) \in Int
      BY <1>3, Counts DEF TimeInv
    <2>2. Cardinality(visit.todo \ {f}) = Cardinality(visit.todo) - 1
      BY <2>1, FS_RemoveElement
    <2>3. k \in Int /\ Cardinality(visit'.asked) - Cardinality(visit'.todo) = k + 1
      BY <1>4, <2>1, <2>2
    <2>4. Spent(visit) = Budget(k) /\ Spent(visit') = Budget(k + 1)
      BY <2>3 DEF Spent
    <2> HIDE DEF k
    <2> QED
      BY <2>1, <2>3, <2>4, BudgetStep
  <1>8. visit.started \in Int /\ now - visit.started <= Spent(visit)
    BY <1>3 DEF TimeInv, VisitOK, OnTime
  <1>9. reply.st = "waiting" =>
            /\ reply.due \in Int /\ reply.again \in BOOLEAN
            /\ now <= reply.due /\ reply.due <= now + Timeout
    <2>1. CASE \E m \in Instant : reply = Answer(f, "fresh", m)
      BY <2>1 DEF Answer
    <2>2. CASE \E due \in now..(now + Timeout) : reply = Wait(f, due, TRUE)
      <3>1. PICK due \in now..(now + Timeout) : reply = Wait(f, due, TRUE)
        BY <2>2
      <3>2. reply.due = due /\ reply.again = TRUE
        BY <3>1 DEF Wait
      <3>3. due \in Int /\ now <= due /\ due <= now + Timeout
        BY <1>3
      <3> QED
        BY <3>2, <3>3
    <2>3. CASE \E due \in now..(now + Timeout) : reply = Wait(f, due, FALSE)
      <3>1. PICK due \in now..(now + Timeout) : reply = Wait(f, due, FALSE)
        BY <2>3
      <3>2. reply.due = due /\ reply.again = FALSE
        BY <3>1 DEF Wait
      <3>3. due \in Int /\ now <= due /\ due <= now + Timeout
        BY <1>3
      <3> QED
        BY <3>2, <3>3
    <2> QED
      BY <1>2, <2>1, <2>2, <2>3 DEF FirstReply
  <1>10. OnTime'
    <2>1. now' - visit'.started <= Spent(visit')
      BY <1>3, <1>4, <1>7, <1>8
    <2>2. ASSUME Waiting(Client)'
          PROVE  /\ visit'.st = "open"
                 /\ reply.due \in Int /\ reply.again \in BOOLEAN /\ now' <= reply.due
                 /\ reply.due + (IF reply.again THEN Timeout ELSE 0)
                        - visit'.started <= Spent(visit')
      <3>1. reply.st = "waiting"
        BY <1>6, <2>2 DEF Waiting
      <3> QED
        BY <1>3, <1>4, <1>7, <1>8, <1>9, <3>1
    <2> QED
      BY <1>6, <2>1, <2>2 DEF OnTime
  <1> QED
    BY <1>3, <1>5, <1>6, <1>10 DEF TimeInv

\* The other steps of a handler take no time and leave its lists of feeds.
LEMMA HandlerStep ==
    ASSUME TimeInv, visit.st = "open", now' = now, ~Waiting(Client)', AnswerOK',
           DOMAIN visit' = DOMAIN visit,
           visit' = [k \in DOMAIN visit' |-> visit'[k]],
           visit'.st \in {"open", "replied"},
           visit'.started = visit.started,
           visit'.asked = visit.asked, visit'.todo = visit.todo
    PROVE  TimeInv'
  <1>1. InArrivals
    BY DEF InArrivals
  <1>2. VisitOK'
    BY <1>1 DEF TimeInv, VisitOK
  <1>3. Spent(visit') = Spent(visit)
    BY DEF Spent
  <1> QED
    BY <1>1, <1>2, <1>3 DEF TimeInv, OnTime

LEMMA HearStep == ASSUME TimeInv, Hear(db) PROVE TimeInv'
  <1>1. /\ visit.st = "open" /\ now' = now /\ InArrivals
        /\ answer' = [answer EXCEPT ![Client] = Unasked]
        /\ visit' = WithAnswer(db, answer[Client])
    BY DEF Hear, InArrivals
  <1>2. answer'[Client] = Unasked /\ AnswerOK'
    BY <1>1, ArrivalsAssumption DEF TimeInv, AnswerOK
  <1>3. ~Waiting(Client)'
    BY <1>2 DEF Waiting, Unasked
  <1>4. /\ DOMAIN visit' = DOMAIN visit
        /\ visit' = [k \in DOMAIN visit' |-> visit'[k]]
        /\ visit'.st = "open" /\ visit'.started = visit.started
        /\ visit'.asked = visit.asked /\ visit'.todo = visit.todo
    BY <1>1 DEF TimeInv, VisitOK, VisitField, WithAnswer
  <1> QED
    BY <1>1, <1>2, <1>3, <1>4, HandlerStep

LEMMA ReplyStep == ASSUME TimeInv, Reply PROVE TimeInv'
  <1>1. /\ visit.st = "open" /\ UNCHANGED <<now, answer>> /\ answer[Client] = Unasked
        /\ InArrivals
    BY DEF Reply, InArrivals
  <1>2. PICK reply : visit' = Replied(visit, reply)
    BY DEF Reply
  <1>3. ~Waiting(Client)' /\ AnswerOK'
    BY <1>1 DEF Waiting, Unasked, TimeInv, AnswerOK
  <1>4. /\ DOMAIN visit' = DOMAIN visit
        /\ visit' = [k \in DOMAIN visit' |-> visit'[k]]
        /\ visit'.st = "replied" /\ visit'.started = visit.started
        /\ visit'.asked = visit.asked /\ visit'.todo = visit.todo
    BY <1>1, <1>2 DEF TimeInv, VisitOK, VisitField, Replied
  <1> QED
    BY <1>1, <1>3, <1>4, HandlerStep

LEMMA LeaveStep == ASSUME TimeInv, Leave PROVE TimeInv'
  <1>1. visit.st = "replied" /\ UNCHANGED <<now, answer>> /\ visit' = NoVisit
    BY DEF Leave
  <1>2. ~Waiting(Client)'
    BY <1>1 DEF TimeInv, OnTime, Waiting
  <1>3. VisitOK' /\ ~InArrivals'
    BY <1>1 DEF VisitOK, InArrivals, NoVisit
  <1> QED
    BY <1>1, <1>2, <1>3 DEF TimeInv, OnTime, AnswerOK

-----------------------------------------------------------------------------
(* The cache and the clock. *)

\* A fetch settles, or is followed by one more, for which time was kept.
LEMMA FetchSettlesStep == ASSUME TimeInv, FetchSettles PROVE TimeInv'
  <1>1. PICK outcome \in Outcome(Client) : answer' = [answer EXCEPT ![Client] = outcome]
    BY DEF FetchSettles
  <1>2. Waiting(Client) /\ UNCHANGED <<now, visit>>
    BY DEF FetchSettles
  <1>3. answer'[Client] = outcome /\ AnswerOK'
    BY <1>1, ArrivalsAssumption DEF TimeInv, AnswerOK
  <1>4. /\ visit.st = "open" /\ InArrivals
        /\ answer[Client].due \in Int /\ answer[Client].again \in BOOLEAN
        /\ now <= answer[Client].due
        /\ answer[Client].due + (IF answer[Client].again THEN Timeout ELSE 0)
               - visit.started <= Spent(visit)
        /\ now \in Int /\ Timeout \in Nat
    BY <1>2, ContractAssumption DEF TimeInv, OnTime, InArrivals
  <1>5. visit.started \in Int /\ Spent(visit) \in Int
    BY <1>4, Counts DEF TimeInv, VisitOK
  <1>6. outcome.st = "waiting" =>
            answer[Client].again /\ outcome.due = now + Timeout /\ outcome.again = FALSE
    BY <1>1, <1>4 DEF Outcome, Answer, Wait
  <1>7. Waiting(Client)' =>
            /\ outcome.due \in Int /\ outcome.again \in BOOLEAN /\ now <= outcome.due
            /\ outcome.due + (IF outcome.again THEN Timeout ELSE 0)
                   - visit.started <= Spent(visit)
    <2>1. SUFFICES ASSUME outcome.st = "waiting"
                   PROVE  /\ outcome.due \in Int /\ outcome.again \in BOOLEAN
                          /\ now <= outcome.due
                          /\ outcome.due + (IF outcome.again THEN Timeout ELSE 0)
                                 - visit.started <= Spent(visit)
      BY <1>3 DEF Waiting
    <2>2. answer[Client].again /\ outcome.due = now + Timeout /\ outcome.again = FALSE
      BY <1>6, <2>1
    <2>3. answer[Client].due + Timeout - visit.started <= Spent(visit)
      BY <1>4, <2>2
    <2>4. (IF outcome.again THEN Timeout ELSE 0) = 0
      BY <2>2
    <2>5. /\ outcome.due \in Int /\ now <= outcome.due
          /\ outcome.due + 0 - visit.started <= Spent(visit)
      BY <1>4, <1>5, <2>2, <2>3
    <2> QED
      BY <2>2, <2>4, <2>5
  <1> QED
    BY <1>2, <1>3, <1>4, <1>7 DEF TimeInv, OnTime, VisitOK, InArrivals

\* The clock does not pass the instant by which the awaited fetch is aborted.
LEMMA TickStep == ASSUME TimeInv, Tick PROVE TimeInv'
  <1>1. /\ Waiting(Client) /\ UNCHANGED <<answer, visit>> /\ now' = now + 1
        /\ now < answer[Client].due
    BY ArrivalsAssumption DEF Tick, ContractTick
  <1>2. /\ InArrivals
        /\ answer[Client].due \in Int /\ answer[Client].again \in BOOLEAN
        /\ answer[Client].due + (IF answer[Client].again THEN Timeout ELSE 0)
               - visit.started <= Spent(visit)
        /\ now \in Int /\ Timeout \in Nat
    BY <1>1, ContractAssumption DEF TimeInv, OnTime, InArrivals
  <1>3. visit.started \in Int /\ Spent(visit) \in Int
    BY <1>2, Counts DEF TimeInv, VisitOK
  <1>4. now' <= answer[Client].due /\ now' - visit.started <= Spent(visit)
    BY <1>1, <1>2, <1>3
  <1> QED
    BY <1>1, <1>2, <1>4 DEF TimeInv, OnTime, VisitOK, AnswerOK, InArrivals, Waiting

-----------------------------------------------------------------------------

\* Steps of the timetable do not touch a request, nor does the clock go on.
LEMMA StillStep == ASSUME TimeInv, UNCHANGED <<now, answer, visit>> PROVE TimeInv'
  BY DEF TimeInv, AnswerOK, VisitOK, OnTime, InArrivals, Waiting, Spent

\* What a request has spent, and may yet spend on the call under way, is never more
\* than two timeouts for each feed it has turned to.
THEOREM TimeIsBudgeted == Spec => []TimeInv
  <1>1. TimeInv /\ [Next]_vars => TimeInv'
    <2> SUFFICES ASSUME TimeInv, [Next]_vars PROVE TimeInv'
      OBVIOUS
    <2>1. CASE OpenBoard \/ TurnPage \/ OpenTrip \/ Close
      BY <2>1, StillStep DEF OpenBoard, TurnPage, OpenTrip, Close
    <2>2. CASE Request
      BY <2>2, RequestStep
    <2>3. CASE Serve
      BY <2>3, AskNextStep, HearStep, ReplyStep DEF Serve
    <2>4. CASE Read
      BY <2>4, LeaveStep DEF Read
    <2>5. CASE Settles
      BY <2>5, FetchSettlesStep DEF Settles
    <2>6. CASE Time
      BY <2>6, TickStep DEF Time
    <2>7. CASE UNCHANGED vars
      BY <2>7, StillStep DEF vars
    <2> QED
      BY <2>1, <2>2, <2>3, <2>4, <2>5, <2>6, <2>7 DEF Next
  <1> QED
    BY InitTime, <1>1, PTL DEF Spec

\* Every reply to a request for arrivals or vehicles comes within two timeouts for each
\* feed asked, whatever the feeds, the cache and the timetable do.
THEOREM RepliesComeInTime == Spec => []RepliesInTime
  <1>1. TimeInv => RepliesInTime
    <2> SUFFICES ASSUME TimeInv, InArrivals
                 PROVE  now - visit.started <= Longest
      BY DEF RepliesInTime
    <2>1. now - visit.started <= Spent(visit) /\ now \in Int /\ visit.started \in Int
      BY DEF TimeInv, OnTime, VisitOK
    <2>2. Spent(visit) \in Int /\ Spent(visit) <= Longest
      BY Counts DEF TimeInv
    <2>3. Longest \in Int
      <3>1. Cardinality(visit.asked) \in Nat
        BY Counts DEF TimeInv
      <3> QED
        BY <3>1, ContractAssumption DEF Longest, Asked
    <2> QED
      BY <2>1, <2>2, <2>3
  <1> QED
    BY TimeIsBudgeted, <1>1, PTL

-----------------------------------------------------------------------------
(* What a request has heard. *)

\* The feeds it has turned to, the one it is waiting for among them.
Turned(v) == v.asked \ v.todo

\* How old the message of a fresh answer may be when it is told.
ToldAge(f) == Ttl[f] + Timeout - 1

\* The oldest a message of f may get while the other feeds are asked.
AgeLimit(v, f) == ToldAge(f) + Spent(v) - 2 * Timeout

FreshAt(a, limit) == a.msg \in Int /\ a.msg <= now /\ now - a.msg <= limit

\* A request for arrivals that was not refused at once.
Serving == InArrivals /\ visit.kind = "arrivals" /\ (visit.st = "open" \/ HasReply)

WorldInv == \E w \in Worlds : db = w.db

\* It asks the feeds of the routes that serve its platforms around its beginning.
AskedInv ==
    /\ InArrivals => visit.asked \subseteq Feed /\ visit.started <= now
    /\ Serving => /\ visit.query \in ArrivalsQuery[db.feed]
                  /\ visit.asked = FeedsToAsk(db, visit.query, visit.platforms, visit.started)

\* The call under way is for a feed it has turned to; no time passes before its
\* answer is heard.
CallInv ==
    LET a == answer[Client] IN
    a # Unasked =>
        /\ visit.st = "open" /\ a.feed \in Turned(visit)
        /\ a.st = "fresh" => FreshAt(a, ToldAge(a.feed))

\* Every other feed it has turned to has answered, and what is fresh has aged no more
\* than the feeds asked since have had, or may yet have, to answer.
HeardInv ==
    InArrivals =>
        /\ \A f \in Turned(visit) : \/ \E a \in visit.heard : a.feed = f
                                    \/ answer[Client] # Unasked /\ answer[Client].feed = f
        /\ \A a \in visit.heard :
            /\ a.feed \in Turned(visit)
            /\ a.st = "fresh" => FreshAt(a, AgeLimit(visit, a.feed))
            /\ a.st = "fresh" /\ Waiting(Client) =>
                answer[Client].due + (IF answer[Client].again THEN Timeout ELSE 0)
                    - a.msg <= AgeLimit(visit, a.feed)

\* The warning of the reply is that of the answers.
WarningInv ==
    InArrivals => IF visit.stale
                  THEN \E a \in visit.heard : Degraded(a) /\ visit.feedError = a.feed
                  ELSE visit.feedError = NULL /\ \A a \in visit.heard : ~Degraded(a)

\* The trains of every answer are collected, and no others.
MatchedInv ==
    Serving =>
        /\ \A a \in visit.heard : Collected(db, a) \subseteq visit.matched
        /\ \A t \in visit.matched : /\ t.train \in Updates
                                    /\ t = ToArrival(db, t.train)
                                    /\ t.train.time > visit.started

ReplyInv ==
    HasReply /\ visit.kind = "arrivals" =>
        /\ visit.todo = {} /\ answer[Client] = Unasked
        /\ visit.reply.stale = visit.stale /\ visit.reply.feedError = visit.feedError
        /\ visit.reply.arrivals \in SoonestFirst(visit.query.limit)

ServiceInv ==
    WorldInv /\ AskedInv /\ CallInv /\ HeardInv /\ WarningInv /\ MatchedInv /\ ReplyInv

-----------------------------------------------------------------------------
(* What the steps do to it. *)

\* The instants and ages of a request are integers.
LEMMA Ages ==
    ASSUME TimeInv, AskedInv, InArrivals, NEW f \in Turned(visit)
    PROVE  /\ f \in Feed /\ Timeout \in Nat /\ now \in Int /\ visit.started \in Int
           /\ ToldAge(f) \in Int /\ Timeout <= ToldAge(f)
           /\ Spent(visit) \in Int /\ AgeLimit(visit, f) \in Int
           /\ ToldAge(f) <= AgeLimit(visit, f)
  <1>1. f \in Feed /\ f \in visit.asked /\ f \notin visit.todo
    BY DEF AskedInv, Turned
  <1>2. Ttl[f] \in Nat /\ Ttl[f] # 0 /\ Timeout \in Nat
    BY <1>1, ContractAssumption
  <1>3. ToldAge(f) \in Int /\ Timeout <= ToldAge(f)
    BY <1>2 DEF ToldAge
  <1>4. VisitOK /\ now \in Int /\ visit.started \in Int
    BY DEF TimeInv, VisitOK
  <1> DEFINE k == Cardinality(visit.asked) - Cardinality(visit.todo)
  <1>5. k \in Int /\ 1 <= k
    <2>1. IsFiniteSet(visit.asked) /\ visit.todo \in SUBSET (visit.asked \ {f})
      BY <1>1, <1>4 DEF VisitOK
    <2>2. /\ IsFiniteSet(visit.asked \ {f})
          /\ Cardinality(visit.asked \ {f}) = Cardinality(visit.asked) - 1
      BY <1>1, <2>1, FS_RemoveElement
    <2>3. Cardinality(visit.todo) <= Cardinality(visit.asked \ {f})
      BY <2>1, <2>2, FS_Subset
    <2>4. Cardinality(visit.asked) \in Nat /\ Cardinality(visit.todo) \in Nat
      BY <1>4, Counts
    <2> QED
      BY <2>2, <2>3, <2>4
  <1>6. Spent(visit) = Budget(k)
    BY DEF Spent
  <1> HIDE DEF k
  <1>7. Budget(1) = 2 * Timeout
    BY <1>2 DEF Budget
  <1>8. Spent(visit) \in Int /\ 2 * Timeout <= Spent(visit)
    BY <1>5, <1>6, <1>7, BudgetStep
  <1> QED
    BY <1>1, <1>2, <1>3, <1>4, <1>8 DEF AgeLimit

\* The paths of feeds are feeds.
LEMMA FeedPathsAreFeeds ==
    ASSUME WorldInv, NEW routes
    PROVE  FeedPaths(db, routes) \subseteq Feed
  BY ArrivalsAssumption, QueriesAssumption DEF WorldInv, FeedPaths

LEMMA InitService == Init => ServiceInv
  <1> SUFFICES ASSUME Init PROVE ServiceInv
    OBVIOUS
  <1>1. ~InArrivals /\ ~HasReply /\ ~Serving
    BY DEF Init, ArrivalsInit, NoVisit, InArrivals, HasReply, Serving
  <1>2. WorldInv
    BY DEF Init, WorldInv
  <1>3. answer[Client] = Unasked
    BY ArrivalsAssumption DEF Init, ArrivalsInit, ContractInit
  <1> QED
    BY <1>1, <1>2, <1>3
       DEF ServiceInv, AskedInv, CallInv, HeardInv, WarningInv, MatchedInv, ReplyInv

LEMMA StillService == ASSUME ServiceInv, UNCHANGED <<now, answer, visit, db>> PROVE ServiceInv'
  BY DEF ServiceInv, WorldInv, AskedInv, CallInv, HeardInv, WarningInv, MatchedInv, ReplyInv,
         InArrivals, HasReply, Serving, Waiting, FreshAt, SoonestFirst, Collected, ToArrival

\* A request begins, and has heard nothing; or it is answered at once.
LEMMA BeginService ==
    ASSUME TimeInv, ServiceInv, ~InArrivals, UNCHANGED <<now, answer, db>>,
           NEW kind, NEW query, NEW platforms, NEW paths, paths \subseteq Feed,
           \/ /\ visit' = Visit(kind, query, platforms, paths)
              /\ kind = "arrivals" => /\ query \in ArrivalsQuery[db.feed]
                                      /\ paths = FeedsToAsk(db, query, platforms, now)
           \/ visit' = Replied(Visit(kind, query, platforms, paths), NotFound)
    PROVE  ServiceInv'
  <1> DEFINE v == Visit(kind, query, platforms, paths)
  <1>1. /\ v.st = "open" /\ v.kind = kind /\ v.query = query /\ v.started = now
        /\ v.platforms = platforms /\ v.asked = paths /\ v.todo = paths /\ v.heard = {}
        /\ v.matched = {} /\ v.stale = FALSE /\ v.feedError = NULL
    BY DEF Visit
  <1>2. LET w == Replied(v, NotFound) IN
        /\ w.st = "replied" /\ w.kind = kind /\ w.started = now /\ w.reply = NotFound
        /\ w.asked = paths /\ w.todo = paths /\ w.heard = {}
        /\ w.matched = {} /\ w.stale = FALSE /\ w.feedError = NULL
    BY DEF Visit, Replied
  <1> HIDE DEF v
  <1>3. /\ visit'.kind = kind /\ visit'.started = now
        /\ visit'.asked = paths /\ visit'.todo = paths /\ visit'.heard = {}
        /\ visit'.matched = {} /\ visit'.stale = FALSE /\ visit'.feedError = NULL
        /\ visit'.st \in {"open", "replied"}
    BY <1>1, <1>2 DEF v
  <1>4. ~HasReply'
    BY <1>1, <1>2 DEF HasReply, NotFound, v
  <1>5. Serving' => /\ visit' = v /\ kind = "arrivals"
    BY <1>2, <1>3, <1>4 DEF Serving, v
  <1>6. answer[Client] = Unasked /\ answer'[Client] = Unasked
    BY DEF ServiceInv, CallInv, InArrivals
  <1>7. WorldInv'
    BY DEF ServiceInv, WorldInv
  <1>8. AskedInv'
    <2>1. visit'.asked \subseteq Feed /\ visit'.started <= now'
      BY <1>3 DEF TimeInv
    <2>2. Serving' => /\ visit'.query \in ArrivalsQuery[db'.feed]
                      /\ visit'.asked = FeedsToAsk(db', visit'.query, visit'.platforms,
                                                   visit'.started)
      BY <1>1, <1>2, <1>5 DEF v
    <2> QED
      BY <2>1, <2>2 DEF AskedInv
  <1>9. CallInv' /\ HeardInv' /\ WarningInv'
    BY <1>3, <1>6 DEF CallInv, HeardInv, WarningInv, Turned
  <1>10. MatchedInv' /\ ReplyInv'
    BY <1>3, <1>4 DEF MatchedInv, ReplyInv
  <1> QED
    BY <1>7, <1>8, <1>9, <1>10 DEF ServiceInv

LEMMA RequestService == ASSUME TimeInv, ServiceInv, Request PROVE ServiceInv'
  <1>1. WorldInv /\ UNCHANGED db
    BY DEF ServiceInv, Request
  <1>2. CASE \E q \in ArrivalsQuery[db.feed] : BeginArrivals(db, q)
    <2>1. PICK q \in ArrivalsQuery[db.feed] : BeginArrivals(db, q)
      BY <1>2
    <2> DEFINE stop == ResolveStop(db, q.stop)
               platforms == ResolvePlatformIds(db, stop)
               paths == FeedsToAsk(db, q, platforms, now)
    <2>2. /\ ~InArrivals /\ UNCHANGED <<now, answer>>
          /\ \/ visit' = Replied(Visit("arrivals", q, {}, {}), NotFound)
             \/ visit' = Visit("arrivals", q, platforms, paths)
      BY <2>1 DEF BeginArrivals
    <2>3. paths \subseteq Feed /\ {} \subseteq Feed
      BY <1>1, FeedPathsAreFeeds DEF FeedsToAsk
    <2>4. paths = FeedsToAsk(db, q, platforms, now)
      OBVIOUS
    <2> HIDE DEF paths, platforms
    <2> QED
      BY <1>1, <2>2, <2>3, <2>4, BeginService
  <1>3. CASE \E q \in VehiclesQuery[db.feed] : BeginVehicles(db, q)
    <2>1. PICK q \in VehiclesQuery[db.feed] : BeginVehicles(db, q)
      BY <1>3
    <2> DEFINE paths == IF q.route \in db.routes THEN FeedPaths(db, {q.route}) ELSE {}
    <2>2. /\ ~InArrivals /\ UNCHANGED <<now, answer>>
          /\ \/ visit' = Replied(Visit("vehicles", q, {}, paths), NotFound)
             \/ visit' = Visit("vehicles", q, {}, paths)
      BY <2>1 DEF BeginVehicles
    <2>3. paths \subseteq Feed
      BY <1>1, FeedPathsAreFeeds
    <2> HIDE DEF paths
    <2> QED
      BY <1>1, <2>2, <2>3, BeginService
  <1> QED
    BY <1>2, <1>3 DEF Request

\* A call of getFeed: one feed more, two timeouts more.
LEMMA AskNextService == ASSUME TimeInv, TimeInv', ServiceInv, AskNext, UNCHANGED db PROVE ServiceInv'
  <1>1. PICK f \in visit.todo : \E reply \in FirstReply(f) :
            /\ answer' = [answer EXCEPT ![Client] = reply]
            /\ visit' = [visit EXCEPT !.todo = @ \ {f}]
    BY DEF AskNext
  <1>2. PICK reply \in FirstReply(f) : answer' = [answer EXCEPT ![Client] = reply]
    BY <1>1
  <1>3. visit.st = "open" /\ now' = now /\ answer[Client] = Unasked /\ InArrivals
    BY DEF AskNext, InArrivals
  <1>4. /\ visit'.st = "open" /\ visit'.kind = visit.kind /\ visit'.query = visit.query
        /\ visit'.started = visit.started /\ visit'.platforms = visit.platforms
        /\ visit'.asked = visit.asked /\ visit'.todo = visit.todo \ {f}
        /\ visit'.heard = visit.heard /\ visit'.matched = visit.matched
        /\ visit'.stale = visit.stale /\ visit'.feedError = visit.feedError
    BY <1>1, <1>3 DEF TimeInv, VisitOK, VisitField
  <1>5. InArrivals' /\ ~HasReply' /\ (Serving' <=> Serving)
    BY <1>3, <1>4 DEF InArrivals, HasReply, Serving
  <1>6. answer'[Client] = reply
    BY <1>2, ArrivalsAssumption DEF TimeInv, AnswerOK
  <1>7. Turned(visit') = Turned(visit) \cup {f} /\ f \in visit.asked /\ f \notin Turned(visit)
    BY <1>1, <1>3, <1>4 DEF TimeInv, VisitOK, InArrivals, Turned
  <1>8. \/ \E m \in Instant : reply = Answer(f, "fresh", m) /\ Recent(m, ToldAge(f))
        \/ \E due \in now..(now + Timeout) : \E again \in BOOLEAN : reply = Wait(f, due, again)
    BY <1>2 DEF FirstReply, ToldAge
  <1>9. reply.feed = f /\ reply # Unasked
    <2>1. f # None
      BY <1>3, <1>7, ContractAssumption DEF ServiceInv, AskedInv
    <2> QED
      BY <1>8, <2>1 DEF Answer, Wait, Unasked
  <1>10. reply.st = "fresh" => FreshAt(reply, ToldAge(f))
    <2> SUFFICES ASSUME reply.st = "fresh" PROVE FreshAt(reply, ToldAge(f))
      OBVIOUS
    <2>1. PICK m \in Instant : reply = Answer(f, "fresh", m) /\ Recent(m, ToldAge(f))
      BY <1>8 DEF Wait
    <2>2. reply.msg = m /\ m \in Int
      BY <2>1, ContractAssumption DEF Answer
    <2> QED
      BY <2>1, <2>2 DEF Recent, FreshAt
  <1>11. WorldInv' /\ AskedInv'
    BY <1>3, <1>4, <1>5 DEF ServiceInv, WorldInv, AskedInv
  <1>12. CallInv'
    BY <1>3, <1>4, <1>6, <1>7, <1>9, <1>10 DEF CallInv, FreshAt, ToldAge
  <1>13. Spent(visit') = Spent(visit) + Timeout + Timeout
    <2> DEFINE k == Cardinality(visit.asked) - Cardinality(visit.todo)
    <2>1. /\ Cardinality(visit.asked) \in Nat /\ Cardinality(visit.todo) \in Nat
          /\ IsFiniteSet(visit.todo)
      BY <1>3, Counts DEF TimeInv, InArrivals
    <2>2. Cardinality(visit.todo \ {f}) = Cardinality(visit.todo) - 1
      BY <2>1, FS_RemoveElement
    <2>3. k \in Int /\ Cardinality(visit'.asked) - Cardinality(visit'.todo) = k + 1
      BY <1>4, <2>1, <2>2
    <2>4. Spent(visit) = Budget(k) /\ Spent(visit') = Budget(k + 1)
      BY <2>3 DEF Spent
    <2> HIDE DEF k
    <2> QED
      BY <2>3, <2>4, BudgetStep
  <1>14. HeardInv'
    <2>1. ASSUME NEW g \in Turned(visit')
          PROVE  \/ \E a \in visit'.heard : a.feed = g
                 \/ answer'[Client] # Unasked /\ answer'[Client].feed = g
      BY <1>3, <1>4, <1>6, <1>7, <1>9, <2>1 DEF ServiceInv, HeardInv
    <2>2. ASSUME NEW a \in visit'.heard
          PROVE  /\ a.feed \in Turned(visit')
                 /\ a.st = "fresh" => FreshAt(a, AgeLimit(visit, a.feed))'
                 /\ a.st = "fresh" /\ Waiting(Client)' =>
                        answer'[Client].due
                            + (IF answer'[Client].again THEN Timeout ELSE 0)
                            - a.msg <= AgeLimit(visit', a.feed)
      <3>1. a \in visit.heard /\ a.feed \in Turned(visit)
        BY <1>3, <1>4 DEF ServiceInv, HeardInv, InArrivals
      <3>2. /\ a.feed \in Feed /\ Timeout \in Nat /\ now \in Int
            /\ ToldAge(a.feed) \in Int /\ Spent(visit) \in Int
            /\ AgeLimit(visit, a.feed) \in Int
        BY <1>3, <3>1, Ages DEF ServiceInv, InArrivals
      <3>3. AgeLimit(visit', a.feed) = AgeLimit(visit, a.feed) + Timeout + Timeout
        BY <1>13, <3>2 DEF AgeLimit
      <3>4. CASE a.st = "fresh"
        <4>1. a.msg \in Int /\ a.msg <= now /\ now - a.msg <= AgeLimit(visit, a.feed)
          BY <1>3, <3>1, <3>4 DEF ServiceInv, HeardInv, FreshAt
        <4>2. FreshAt(a, AgeLimit(visit, a.feed))'
          BY <1>3, <3>2, <3>3, <4>1 DEF FreshAt
        <4>3. ASSUME Waiting(Client)'
              PROVE  reply.due \in Int /\ reply.due <= now + Timeout /\ reply.again \in BOOLEAN
          <5>1. reply.st = "waiting"
            BY <1>6, <4>3 DEF Waiting
          <5>2. PICK due \in now..(now + Timeout) : \E again \in BOOLEAN : reply = Wait(f, due, again)
            BY <1>8, <5>1 DEF Answer
          <5>3. reply.due = due /\ reply.again \in BOOLEAN
            BY <5>2 DEF Wait
          <5> QED
            BY <3>2, <5>3
        <4> HIDE DEF AgeLimit
        <4> QED
          BY <1>6, <3>1, <1>7, <3>2, <3>3, <4>1, <4>2, <4>3
      <3>5. CASE a.st # "fresh"
        BY <1>7, <3>1, <3>5
      <3> QED
        BY <3>4, <3>5
    <2> QED
      BY <2>1, <2>2 DEF HeardInv
  <1>15. WarningInv'
    BY <1>3, <1>4, <1>5 DEF ServiceInv, WarningInv, InArrivals, Degraded
  <1>16. MatchedInv'
    BY <1>4, <1>5 DEF ServiceInv, MatchedInv, Collected, ToArrival
  <1>17. ReplyInv'
    BY <1>5 DEF ReplyInv
  <1> QED
    BY <1>11, <1>12, <1>14, <1>15, <1>16, <1>17 DEF ServiceInv

\* An answer is heard: it is as fresh as when it was told.
LEMMA HearService == ASSUME TimeInv, ServiceInv, Hear(db), UNCHANGED db PROVE ServiceInv'
  <1> DEFINE a == answer[Client]
  <1>1. /\ visit.st = "open" /\ now' = now /\ InArrivals /\ a # Unasked
        /\ answer' = [answer EXCEPT ![Client] = Unasked]
        /\ visit' = WithAnswer(db, a)
    BY DEF Hear, InArrivals
  <1>2. answer'[Client] = Unasked /\ ~Waiting(Client)'
    BY <1>1, ArrivalsAssumption DEF TimeInv, AnswerOK, Waiting, Unasked
  <1> HIDE DEF a
  <1>3. /\ visit'.st = "open" /\ visit'.kind = visit.kind /\ visit'.query = visit.query
        /\ visit'.started = visit.started /\ visit'.platforms = visit.platforms
        /\ visit'.asked = visit.asked /\ visit'.todo = visit.todo
        /\ visit'.heard = visit.heard \cup {a}
        /\ visit'.matched = visit.matched \cup Collected(db, a)
        /\ visit'.stale = (visit.stale \/ Degraded(a))
        /\ visit'.feedError = IF Degraded(a) THEN a.feed ELSE visit.feedError
    BY <1>1 DEF TimeInv, VisitOK, VisitField, WithAnswer
  <1>4. InArrivals' /\ ~HasReply' /\ (Serving' <=> Serving)
    BY <1>1, <1>3 DEF InArrivals, HasReply, Serving
  <1>5. a.feed \in Turned(visit) /\ (a.st = "fresh" => FreshAt(a, ToldAge(a.feed)))
    BY <1>1 DEF ServiceInv, CallInv, a
  <1>6. Turned(visit') = Turned(visit)
    BY <1>3 DEF Turned
  <1>7. AgeLimit(visit', a.feed) = AgeLimit(visit, a.feed)
        /\ \A f : AgeLimit(visit', f) = AgeLimit(visit, f)
    BY <1>3 DEF AgeLimit, Spent
  <1>8. WorldInv' /\ AskedInv' /\ CallInv'
    BY <1>1, <1>2, <1>3, <1>4 DEF ServiceInv, WorldInv, AskedInv, CallInv
  <1>9. HeardInv'
    <2>1. ASSUME NEW g \in Turned(visit')
          PROVE  \E b \in visit'.heard : b.feed = g
      BY <1>1, <1>3, <1>6 DEF ServiceInv, HeardInv, a
    <2>2. ASSUME NEW b \in visit'.heard
          PROVE  /\ b.feed \in Turned(visit')
                 /\ b.st = "fresh" => FreshAt(b, AgeLimit(visit, b.feed))'
      <3>1. CASE b = a
        <4>1. ToldAge(a.feed) \in Int /\ now \in Int /\ AgeLimit(visit, a.feed) \in Int
              /\ ToldAge(a.feed) <= AgeLimit(visit, a.feed)
          BY <1>1, <1>5, Ages DEF ServiceInv
        <4>2. a.st = "fresh" => FreshAt(a, AgeLimit(visit, a.feed))
          BY <1>5, <4>1 DEF FreshAt
        <4> QED
          BY <1>1, <1>5, <1>6, <1>7, <3>1, <4>2 DEF FreshAt
      <3>2. CASE b \in visit.heard
        BY <1>1, <1>6, <1>7, <3>2 DEF ServiceInv, HeardInv, FreshAt
      <3> QED
        BY <1>3, <2>2, <3>1, <3>2
    <2> QED
      BY <1>2, <2>1, <2>2 DEF HeardInv
  <1>10. WarningInv'
    <2>1. CASE Degraded(a)
      BY <1>3, <2>1 DEF WarningInv, Degraded
    <2>2. CASE ~Degraded(a)
      BY <1>1, <1>3, <2>2 DEF ServiceInv, WarningInv, Degraded
    <2> QED
      BY <2>1, <2>2
  <1>11. MatchedInv'
    <2> SUFFICES ASSUME Serving'
                 PROVE  /\ \A b \in visit'.heard : Collected(db, b)' \subseteq visit'.matched
                        /\ \A t \in visit'.matched : /\ t.train \in Updates
                                                     /\ t = ToArrival(db, t.train)'
                                                     /\ t.train.time > visit'.started
      BY DEF MatchedInv
    <2>1. \A b : Collected(db, b)' = Collected(db, b)
      BY <1>3 DEF Collected, ToArrival
    <2>2. \A x : ToArrival(db, x)' = ToArrival(db, x)
      BY <1>3 DEF ToArrival
    <2>3. \A t \in Collected(db, a) : /\ t.train \in Updates
                                      /\ t = ToArrival(db, t.train)
                                      /\ t.train.time > visit.started
      <3> SUFFICES ASSUME NEW t \in Collected(db, a)
                   PROVE  /\ t.train \in Updates
                          /\ t = ToArrival(db, t.train)
                          /\ t.train.time > visit.started
        OBVIOUS
      <3>1. PICK x \in InSnapshot(a.feed, a.msg) : t = ToArrival(db, x) /\ x.time > visit.started
        BY DEF Collected
      <3>2. t.train = x /\ x \in Updates
        BY <3>1 DEF ToArrival, InSnapshot
      <3> QED
        BY <3>1, <3>2
    <2>4. Serving
      BY <1>4
    <2> QED
      BY <1>3, <2>1, <2>2, <2>3, <2>4 DEF ServiceInv, MatchedInv
  <1>12. ReplyInv'
    BY <1>4 DEF ReplyInv
  <1> QED
    BY <1>8, <1>9, <1>10, <1>11, <1>12 DEF ServiceInv

LEMMA ReplyService == ASSUME TimeInv, ServiceInv, Reply, UNCHANGED db PROVE ServiceInv'
  <1>1. /\ visit.st = "open" /\ UNCHANGED <<now, answer>> /\ answer[Client] = Unasked
        /\ visit.todo = {} /\ InArrivals /\ ~Waiting(Client) /\ ~Waiting(Client)'
    BY DEF Reply, InArrivals, Waiting, Unasked
  <1>2. \/ visit.kind = "arrivals" /\ \E arrivals \in SoonestFirst(visit.query.limit) :
               visit' = Replied(visit, ArrivalResponse(arrivals))
        \/ visit.kind = "vehicles" /\ \E reply : visit' = Replied(visit, reply)
    BY DEF Reply
  <1>3. /\ visit'.st = "replied" /\ visit'.kind = visit.kind /\ visit'.query = visit.query
        /\ visit'.started = visit.started /\ visit'.platforms = visit.platforms
        /\ visit'.asked = visit.asked /\ visit'.todo = visit.todo
        /\ visit'.heard = visit.heard /\ visit'.matched = visit.matched
        /\ visit'.stale = visit.stale /\ visit'.feedError = visit.feedError
    BY <1>1, <1>2 DEF TimeInv, VisitOK, VisitField, Replied
  <1>4. InArrivals' /\ (Serving' => Serving)
    BY <1>1, <1>3 DEF InArrivals, Serving
  <1>5. Turned(visit') = Turned(visit) /\ \A f : AgeLimit(visit', f) = AgeLimit(visit, f)
    BY <1>3 DEF Turned, AgeLimit, Spent
  <1>6. WorldInv' /\ AskedInv' /\ CallInv'
    BY <1>1, <1>3, <1>4 DEF ServiceInv, WorldInv, AskedInv, CallInv
  <1>7. HeardInv' /\ WarningInv'
    BY <1>1, <1>3, <1>5 DEF ServiceInv, HeardInv, WarningInv, FreshAt, Degraded
  <1>8. MatchedInv'
    BY <1>3, <1>4 DEF ServiceInv, MatchedInv, Collected, ToArrival
  <1>9. ReplyInv'
    <2> SUFFICES ASSUME visit'.kind = "arrivals"
                 PROVE  /\ visit'.todo = {} /\ answer'[Client] = Unasked
                        /\ visit'.reply.stale = visit'.stale
                        /\ visit'.reply.feedError = visit'.feedError
                        /\ visit'.reply.arrivals \in SoonestFirst(visit.query.limit)'
      BY DEF ReplyInv
    <2>1. PICK arrivals \in SoonestFirst(visit.query.limit) :
                visit' = Replied(visit, ArrivalResponse(arrivals))
      BY <1>2, <1>3
    <2>2. visit'.reply = ArrivalResponse(arrivals)
      BY <1>1, <2>1 DEF TimeInv, VisitOK, VisitField, Replied
    <2>3. visit'.reply.stale = visit.stale /\ visit'.reply.feedError = visit.feedError
          /\ visit'.reply.arrivals = arrivals
      BY <2>2 DEF ArrivalResponse
    <2>4. SoonestFirst(visit.query.limit)' = SoonestFirst(visit.query.limit)
      BY <1>3 DEF SoonestFirst
    <2> QED
      BY <1>1, <1>3, <2>3, <2>4
  <1> QED
    BY <1>6, <1>7, <1>8, <1>9 DEF ServiceInv

LEMMA LeaveService == ASSUME TimeInv, ServiceInv, Leave, UNCHANGED db PROVE ServiceInv'
  <1>1. /\ ~InArrivals' /\ ~HasReply' /\ ~Serving'
        /\ answer' = answer /\ visit.st = "replied"
    BY DEF Leave, InArrivals, NoVisit, HasReply, Serving
  <1>2. answer'[Client] = Unasked
    BY <1>1 DEF ServiceInv, CallInv
  <1> QED
    BY <1>1, <1>2 DEF ServiceInv, WorldInv, AskedInv, CallInv, HeardInv, WarningInv,
                      MatchedInv, ReplyInv

\* The answer of a fetch is told: a snapshot taken while the fetch was under way, or
\* one more fetch, for which time was kept.
LEMMA SettleService ==
    ASSUME TimeInv, TimeInv', ServiceInv, FetchSettles, UNCHANGED db PROVE ServiceInv'
  <1> DEFINE f == answer[Client].feed
  <1>1. PICK outcome \in Outcome(Client) : answer' = [answer EXCEPT ![Client] = outcome]
    BY DEF FetchSettles
  <1>2. Waiting(Client) /\ UNCHANGED <<now, visit>>
    BY DEF FetchSettles
  <1>3. answer'[Client] = outcome
    BY <1>1, ArrivalsAssumption DEF TimeInv, AnswerOK
  <1>4. visit.st = "open" /\ InArrivals /\ answer[Client] # Unasked
    BY <1>2 DEF TimeInv, OnTime, InArrivals, Waiting, Unasked
  <1>5. f \in Turned(visit)
    BY <1>4 DEF ServiceInv, CallInv
  <1> HIDE DEF f
  <1>6. f \in Feed /\ Timeout \in Nat /\ now \in Int /\ ToldAge(f) \in Int /\ Timeout <= ToldAge(f)
    BY <1>4, <1>5, Ages DEF ServiceInv
  <1>7. \/ \E m \in Instant : outcome = Answer(f, "fresh", m) /\ Recent(m, Timeout)
        \/ \E m : outcome = Answer(f, "stale", m) \/ outcome = Answer(f, "error", m)
        \/ answer[Client].again /\ outcome = Wait(f, now + Timeout, FALSE)
    BY <1>1 DEF Outcome, f
  <1>8. outcome.feed = f /\ outcome # Unasked
    BY <1>6, <1>7, ContractAssumption DEF Answer, Wait, Unasked
  <1>9. outcome.st = "fresh" => FreshAt(outcome, ToldAge(f))
    <2> SUFFICES ASSUME outcome.st = "fresh" PROVE FreshAt(outcome, ToldAge(f))
      OBVIOUS
    <2>1. PICK m \in Instant : outcome = Answer(f, "fresh", m) /\ Recent(m, Timeout)
      BY <1>7 DEF Answer, Wait
    <2>2. outcome.msg = m /\ m \in Int /\ m <= now /\ now - m <= Timeout
      BY <2>1, ContractAssumption DEF Answer, Recent
    <2> QED
      BY <1>6, <2>2 DEF FreshAt
  <1>10. WorldInv' /\ AskedInv' /\ WarningInv' /\ MatchedInv'
    BY <1>2 DEF ServiceInv, WorldInv, AskedInv, WarningInv, MatchedInv, InArrivals, HasReply,
                Serving, Degraded, Collected, ToArrival
  <1>11. CallInv'
    BY <1>2, <1>3, <1>4, <1>5, <1>8, <1>9 DEF CallInv, FreshAt
  <1>12. HeardInv'
    <2>1. ASSUME NEW g \in Turned(visit)
          PROVE  \/ \E a \in visit.heard : a.feed = g
                 \/ answer'[Client] # Unasked /\ answer'[Client].feed = g
      BY <1>3, <1>4, <1>8 DEF ServiceInv, HeardInv, f
    <2>2. ASSUME NEW a \in visit.heard, a.st = "fresh", Waiting(Client)'
          PROVE  answer'[Client].due + (IF answer'[Client].again THEN Timeout ELSE 0)
                    - a.msg <= AgeLimit(visit, a.feed)
      <3>1. answer[Client].again /\ outcome.due = now + Timeout /\ outcome.again = FALSE
        BY <1>3, <1>7, <2>2 DEF Waiting, Answer, Wait
      <3>2. answer[Client].due \in Int /\ now <= answer[Client].due
        BY <1>2 DEF TimeInv, OnTime
      <3>3. /\ a.feed \in Turned(visit) /\ a.msg \in Int
            /\ answer[Client].due + Timeout - a.msg <= AgeLimit(visit, a.feed)
        BY <1>2, <1>4, <2>2, <3>1 DEF ServiceInv, HeardInv, FreshAt
      <3>4. AgeLimit(visit, a.feed) \in Int
        BY <1>4, <3>3, Ages DEF ServiceInv
      <3>5. now + Timeout - a.msg <= AgeLimit(visit, a.feed)
        BY <1>6, <3>2, <3>3, <3>4
      <3> QED
        BY <1>3, <1>6, <3>1, <3>3, <3>4, <3>5
    <2> QED
      BY <1>2, <1>4, <2>1, <2>2 DEF ServiceInv, HeardInv, FreshAt
  <1>13. ReplyInv'
    BY <1>2, <1>4 DEF ReplyInv, HasReply
  <1> QED
    BY <1>10, <1>11, <1>12, <1>13 DEF ServiceInv

\* The clock goes on only while a call waits, and not past the time kept for it.
LEMMA TickService == ASSUME TimeInv, ServiceInv, Tick, UNCHANGED db PROVE ServiceInv'
  <1>1. /\ Waiting(Client) /\ now' = now + 1 /\ UNCHANGED <<answer, visit>>
        /\ now < answer[Client].due
    BY ArrivalsAssumption DEF Tick, ContractTick
  <1>2. /\ visit.st = "open" /\ InArrivals
        /\ answer[Client].due \in Int /\ answer[Client].again \in BOOLEAN /\ now \in Int
        /\ visit.started \in Int /\ Timeout \in Nat
    BY <1>1, ContractAssumption DEF TimeInv, OnTime, VisitOK, InArrivals
  <1>3. WorldInv' /\ AskedInv' /\ WarningInv' /\ MatchedInv'
    BY <1>1, <1>2 DEF ServiceInv, WorldInv, AskedInv, WarningInv, MatchedInv, InArrivals,
                HasReply, Serving, Degraded, Collected, ToArrival
  <1>4. CallInv'
    BY <1>1, <1>2 DEF ServiceInv, CallInv, Waiting
  <1>5. HeardInv'
    <2>1. ASSUME NEW a \in visit.heard, a.st = "fresh"
          PROVE  FreshAt(a, AgeLimit(visit, a.feed))'
      <3>1. /\ a.feed \in Turned(visit) /\ a.msg \in Int /\ a.msg <= now
            /\ answer[Client].due + (IF answer[Client].again THEN Timeout ELSE 0)
                    - a.msg <= AgeLimit(visit, a.feed)
        BY <1>1, <1>2, <2>1 DEF ServiceInv, HeardInv, FreshAt
      <3>2. AgeLimit(visit, a.feed) \in Int
        BY <1>2, <3>1, Ages DEF ServiceInv
      <3>3. now + 1 - a.msg <= AgeLimit(visit, a.feed)
        BY <1>1, <1>2, <3>1, <3>2
      <3>4. AgeLimit(visit', a.feed) = AgeLimit(visit, a.feed)
        BY <1>1
      <3> QED
        BY <1>1, <1>2, <3>1, <3>3, <3>4 DEF FreshAt
    <2> QED
      BY <1>1, <1>2, <2>1 DEF ServiceInv, HeardInv, Waiting
  <1>6. ReplyInv'
    BY <1>1, <1>2 DEF ReplyInv, HasReply
  <1> QED
    BY <1>3, <1>4, <1>5, <1>6 DEF ServiceInv

\* What a request has heard is from the feeds it asked, and aged no more than they let it.
THEOREM ServiceIsAccounted == Spec => []ServiceInv
  <1>1. TimeInv /\ TimeInv' /\ ServiceInv /\ [Next]_vars => ServiceInv'
    <2> SUFFICES ASSUME TimeInv, TimeInv', ServiceInv, [Next]_vars PROVE ServiceInv'
      OBVIOUS
    <2>1. CASE OpenBoard \/ TurnPage \/ OpenTrip \/ Close
      BY <2>1, StillService DEF OpenBoard, TurnPage, OpenTrip, Close
    <2>2. CASE Request
      BY <2>2, RequestService
    <2>3. CASE Serve
      BY <2>3, AskNextService, HearService, ReplyService DEF Serve
    <2>4. CASE Read
      BY <2>4, LeaveService DEF Read
    <2>5. CASE Settles
      BY <2>5, SettleService DEF Settles
    <2>6. CASE Time
      BY <2>6, TickService DEF Time
    <2>7. CASE UNCHANGED vars
      BY <2>7, StillService DEF vars
    <2> QED
      BY <2>1, <2>2, <2>3, <2>4, <2>5, <2>6, <2>7 DEF Next
  <1> QED
    BY InitService, TimeIsBudgeted, <1>1, PTL DEF Spec

-----------------------------------------------------------------------------
(* What a reply promises. *)

\* A reply tells what was heard, and has waited for all of it.
LEMMA ReplyHeard ==
    ASSUME TimeInv, ServiceInv, HasReply, visit.kind = "arrivals"
    PROVE  /\ InArrivals /\ Serving /\ visit.todo = {} /\ Turned(visit) = visit.asked
           /\ \A f \in visit.asked : \E a \in visit.heard : a.feed = f
           /\ visit.reply.stale = visit.stale /\ visit.reply.feedError = visit.feedError
  <1>1. InArrivals /\ Serving /\ visit.todo = {} /\ answer[Client] = Unasked
        /\ visit.reply.stale = visit.stale /\ visit.reply.feedError = visit.feedError
    BY DEF ServiceInv, ReplyInv, HasReply, Serving
  <1>2. Turned(visit) = visit.asked
    BY <1>1 DEF Turned
  <1> QED
    BY <1>1, <1>2 DEF ServiceInv, HeardInv

\* The trains of a reply are among those it collected.
LEMMA ReplyMatched ==
    ASSUME ServiceInv, HasReply, visit.kind = "arrivals",
           NEW n \in DOMAIN visit.reply.arrivals
    PROVE  visit.reply.arrivals[n] \in visit.matched
  BY DEF ServiceInv, ReplyInv, SoonestFirst

\* A reply lists no train that had left when the request began, and a reply that is not
\* marked stale rests on one fresh answer of every feed, no older than the cache and the
\* waits for the other feeds allow.
THEOREM RepliesAreFresh == Spec => []FreshnessOfReply
  <1>1. TimeInv /\ RepliesInTime /\ ServiceInv => FreshnessOfReply
    <2> SUFFICES ASSUME TimeInv, RepliesInTime, ServiceInv, HasReply, visit.kind = "arrivals"
                 PROVE  /\ \A n \in DOMAIN visit.reply.arrivals :
                                visit.reply.arrivals[n].train.time > now - Longest
                        /\ IF visit.reply.stale
                           THEN \E a \in visit.heard :
                                    a.st # "fresh" /\ a.feed = visit.reply.feedError
                           ELSE /\ visit.reply.feedError = NULL
                                /\ \A f \in visit.asked : \E a \in visit.heard :
                                    /\ a.feed = f /\ a.msg # None
                                    /\ now - a.msg
                                        <= Ttl[f] + Timeout - 1 + 2 * Timeout * (Asked - 1)
      BY DEF FreshnessOfReply
    <2>1. /\ InArrivals /\ Serving /\ visit.todo = {} /\ Turned(visit) = visit.asked
          /\ \A f \in visit.asked : \E a \in visit.heard : a.feed = f
          /\ visit.reply.stale = visit.stale /\ visit.reply.feedError = visit.feedError
      BY ReplyHeard
    <2>2. /\ now \in Int /\ visit.started \in Int /\ Timeout \in Nat /\ Asked \in Nat
          /\ Longest = 2 * Timeout * Asked /\ now - visit.started <= Longest
      BY <2>1, Counts, ContractAssumption
         DEF TimeInv, VisitOK, RepliesInTime, HasReply, Longest, Asked
    <2>3. ASSUME NEW n \in DOMAIN visit.reply.arrivals
          PROVE  visit.reply.arrivals[n].train.time > now - Longest
      <3> DEFINE x == visit.reply.arrivals[n].train
      <3>1. x \in Updates /\ x.time > visit.started
        BY <2>1, ReplyMatched DEF ServiceInv, MatchedInv
      <3>2. x.time \in Int
        BY <3>1, ArrivalsAssumption
      <3> HIDE DEF x
      <3>3. Longest \in Int
        BY <2>2
      <3>4. x.time > now - Longest
        BY <2>2, <3>1, <3>2, <3>3
      <3> QED
        BY <3>4 DEF x
    <2>4. CASE visit.stale
      BY <2>1, <2>3, <2>4 DEF ServiceInv, WarningInv, Degraded
    <2>5. CASE ~visit.stale
      <3>1. visit.feedError = NULL /\ \A a \in visit.heard : a.st = "fresh"
        BY <2>1, <2>5 DEF ServiceInv, WarningInv, Degraded
      <3>2. ASSUME NEW f \in visit.asked
            PROVE  \E a \in visit.heard :
                        /\ a.feed = f /\ a.msg # None
                        /\ now - a.msg <= Ttl[f] + Timeout - 1 + 2 * Timeout * (Asked - 1)
        <4>1. PICK a \in visit.heard : a.feed = f
          BY <2>1
        <4>2. a.msg \in Int /\ now - a.msg <= AgeLimit(visit, f)
          BY <2>1, <3>1, <4>1 DEF ServiceInv, HeardInv, FreshAt
        <4>3. Spent(visit) = 2 * Timeout * Asked
          BY <2>1, <2>2, FS_EmptySet DEF Spent, Budget, Asked
        <4>4. Ttl[f] \in Nat
          BY <2>1, ContractAssumption DEF ServiceInv, AskedInv
        <4>5. AgeLimit(visit, f) = Ttl[f] + Timeout - 1 + 2 * Timeout * (Asked - 1)
          <5> DEFINE p == 2 * Timeout * Asked
          <5>1. p \in Int /\ 2 * Timeout * (Asked - 1) = p - 2 * Timeout
            BY <2>2
          <5> HIDE DEF p
          <5> QED
            BY <2>2, <4>3, <4>4, <5>1 DEF AgeLimit, ToldAge, p
        <4>6. a.msg # None
          BY <4>2, ContractAssumption
        <4> QED
          BY <4>1, <4>2, <4>5, <4>6
      <3> QED
        BY <2>1, <2>3, <2>5, <3>1, <3>2
    <2> QED
      BY <2>4, <2>5
  <1> QED
    BY TimeIsBudgeted, RepliesComeInTime, ServiceIsAccounted, <1>1, PTL

\* A train of the timetable that is in reach is announced by a feed that is asked.
LEMMA FeedIsAsked ==
    ASSUME ServiceInv, TimeInv, Serving, NEW x \in Updates,
           Scheduled(x), InReach(x.date, visit.started),
           x.stop \in visit.platforms, RouteAllowed(visit.query, x.route)
    PROVE  x.feed \in visit.asked
  <1> DEFINE dates == ToSet(GetRelevantServiceDates(visit.started))
             served == GetServedRouteIdsByStopIds(db, visit.platforms, dates)
             allowed == {r \in served : RouteAllowed(visit.query, r)}
  <1>1. visit.asked = FeedPaths(db, allowed)
    BY DEF ServiceInv, AskedInv, FeedsToAsk
  <1>2. x.date \in dates
    <2>1. x.date \in Int /\ visit.started \in Int
      BY ArrivalsAssumption DEF TimeInv, VisitOK, Serving
    <2>2. \E i \in DOMAIN GetRelevantServiceDates(visit.started) :
                GetRelevantServiceDates(visit.started)[i] = x.date
      BY <2>1, RelevantDates
    <2> QED
      BY <2>2 DEF ToSet
  <1>3. PICK t \in db.trips : /\ t.id = x.trip /\ t.route = x.route
                              /\ t.service \in GetActiveServiceIds(db, x.date)
    BY DEF Scheduled
  <1>4. ActiveServicePredicate(db, t.service, x.date)
    <2>1. \A e, g \in db.calendarDates : e.service = g.service /\ e.date = g.date => e = g
      BY QueriesAssumption DEF ServiceInv, WorldInv, DatabaseOK
    <2> QED
      BY <1>3, <2>1, CalendarFormsAgree
  <1>5. \E st \in db.stopTimes : st.trip = t.id /\ st.stop \in visit.platforms
    BY <1>3 DEF Scheduled
  <1>6. x.route \in served
    BY <1>2, <1>3, <1>4, <1>5 DEF GetServedRouteIdsByStopIds
  <1>7. x.route \in allowed
    BY <1>6
  <1> HIDE DEF allowed
  <1>8. x.feed \in FeedPaths(db, {x.route})
    BY DEF Scheduled
  <1>9. x.feed \in FeedPaths(db, allowed)
    BY <1>7, <1>8 DEF FeedPaths
  <1> QED
    BY <1>1, <1>9

\* A fresh answer of its feed announces a train that has yet to come.
LEMMA TrainIsMatched ==
    ASSUME ServiceInv, TimeInv, HasReply, visit.kind = "arrivals", ~visit.reply.stale,
           NEW x \in Updates,
           Scheduled(x), InReach(x.date, visit.started),
           x.stop \in visit.platforms, x.time > now,
           RouteAllowed(visit.query, x.route), DirectionAllowed(db, visit.query, x.stop)
    PROVE  ToArrival(db, x) \in visit.matched
  <1>1. /\ InArrivals /\ Serving /\ Turned(visit) = visit.asked /\ ~visit.stale
        /\ \A f \in visit.asked : \E a \in visit.heard : a.feed = f
    BY ReplyHeard
  <1>2. PICK a \in visit.heard : a.feed = x.feed
    BY <1>1, FeedIsAsked
  <1>3. a.st = "fresh"
    BY <1>1, <1>2 DEF ServiceInv, WarningInv, Degraded
  <1>4. a.msg \in Int /\ a.msg <= now
    BY <1>1, <1>3 DEF ServiceInv, HeardInv, FreshAt
  <1>5. x.time \in Int /\ now \in Int /\ visit.started \in Int /\ visit.started <= now
    BY <1>1, ArrivalsAssumption DEF TimeInv, VisitOK, ServiceInv, AskedInv
  <1>6. x \in InSnapshot(a.feed, a.msg) /\ x.time > visit.started
    BY <1>2, <1>4, <1>5 DEF InSnapshot
  <1>7. ToArrival(db, x) \in Collected(db, a)
    BY <1>3, <1>6 DEF Collected
  <1> QED
    BY <1>1, <1>7 DEF ServiceInv, MatchedInv

\* Finitely many trains are matched.
LEMMA MatchedFinite == ASSUME ServiceInv, Serving PROVE IsFiniteSet(visit.matched)
  <1> DEFINE g == [x \in Updates |-> ToArrival(db, x)]
             T == {g[x] : x \in Updates}
  <1>1. g \in Surjection(Updates, T)
    BY DEF Surjection
  <1>2. IsFiniteSet(T)
    BY <1>1, FS_Surjection, ArrivalsAssumption
  <1>3. visit.matched \in SUBSET T
    BY DEF ServiceInv, MatchedInv
  <1> HIDE DEF T
  <1> QED
    BY <1>2, <1>3, FS_Subset

LEMMA MinOfTwo ==
    ASSUME NEW m \in Nat, NEW n \in Nat
    PROVE  Min({m, n}) = IF m <= n THEN m ELSE n
  BY DEF Min

\* Every train that is matched is sent, unless as many are as were asked for, none of
\* them later.
LEMMA SentOrFull ==
    ASSUME ServiceInv, HasReply, visit.kind = "arrivals", NEW y \in visit.matched
    PROVE  LET listed == {a.train : a \in ToSet(visit.reply.arrivals)} IN
           \/ y.train \in listed
           \/ /\ Cardinality(listed) = visit.query.limit
              /\ \A x \in listed : x.time <= y.train.time
  <1> DEFINE list == visit.reply.arrivals
             limit == visit.query.limit
             size == Cardinality(visit.matched)
             listed == {a.train : a \in ToSet(list)}
  <1>1. Serving
    BY DEF HasReply, Serving
  <1>2. IsFiniteSet(visit.matched) /\ size \in Nat /\ limit \in Nat
    BY <1>1, MatchedFinite, FS_CardinalityType, QueriesAssumption
       DEF ServiceInv, WorldInv, AskedInv
  <1> DEFINE k == IF limit <= size THEN limit ELSE size
  <1>3. k \in Nat /\ list \in [1..k -> visit.matched] /\ IsInjective(list)
        /\ \A a \in visit.matched \ ToSet(list) : \A n \in DOMAIN list :
                list[n].train.time <= a.train.time
    BY <1>2, MinOfTwo DEF ServiceInv, ReplyInv, SoonestFirst
  <1>4. CASE y \in ToSet(list)
    BY <1>4
  <1>5. CASE y \notin ToSet(list)
    <2>1. \A x \in listed : x.time <= y.train.time
      BY <1>3, <1>5 DEF ToSet
    <2>2. list \in Injection(1..k, visit.matched)
      BY <1>3 DEF Injection, IsInjective
    <2>3. limit <= size
      <3> SUFFICES ASSUME ~(limit <= size) PROVE FALSE
        OBVIOUS
      <3>1. k = size
        OBVIOUS
      <3>2. Cardinality(1..k) = k
        BY <1>3, FS_Interval
      <3>3. list \in Surjection(1..k, visit.matched)
        BY <1>2, <2>2, <3>1, <3>2, FS_Injection
      <3> QED
        BY <1>3, <1>5, <3>3 DEF Surjection, ToSet
    <2>4. Cardinality(listed) = limit
      <3> DEFINE g == [n \in 1..limit |-> list[n].train]
      <3>1. k = limit
        BY <2>3
      <3>2. \A a, b \in visit.matched : a.train = b.train => a = b
        BY <1>1 DEF ServiceInv, MatchedInv
      <3>3. g \in Injection(1..limit, listed)
        BY <1>3, <3>1, <3>2 DEF Injection, IsInjective, ToSet
      <3>4. g \in Surjection(1..limit, listed)
        BY <1>3, <3>1, <3>3 DEF Injection, Surjection, ToSet
      <3> HIDE DEF g, listed
      <3>5. IsFiniteSet(1..limit) /\ Cardinality(1..limit) = limit
        <4>1. limit \in Nat
          BY <1>2
        <4> HIDE DEF limit
        <4> QED
          BY <4>1, FS_Interval
      <3> QED
        BY <3>3, <3>4, <3>5, FS_Surjection
    <2> QED
      BY <2>1, <2>4
  <1> QED
    BY <1>4, <1>5

\* A reply that is not marked stale lists every scheduled train in reach that its feed
\* announces and that has yet to come, unless it is full of trains that come no later.
THEOREM NoTrainIsMissed == Spec => []NoTrainMissed
  <1>1. TimeInv /\ ServiceInv => NoTrainMissed
    <2> SUFFICES ASSUME TimeInv, ServiceInv, HasReply, visit.kind = "arrivals",
                        ~visit.reply.stale, NEW x \in Updates,
                        Scheduled(x), InReach(x.date, visit.started),
                        x.stop \in visit.platforms, x.time > now,
                        RouteAllowed(visit.query, x.route),
                        DirectionAllowed(db, visit.query, x.stop)
                 PROVE  LET listed == {a.train : a \in ToSet(visit.reply.arrivals)} IN
                        \/ x \in listed
                        \/ /\ Cardinality(listed) = visit.query.limit
                           /\ \A y \in listed : y.time <= x.time
      BY DEF NoTrainMissed
    <2> DEFINE y == ToArrival(db, x)
    <2>1. y \in visit.matched
      BY TrainIsMatched
    <2>2. y.train = x
      BY DEF ToArrival
    <2> HIDE DEF y
    <2> QED
      BY <2>1, <2>2, SentOrFull
  <1> QED
    BY TimeIsBudgeted, ServiceIsAccounted, <1>1, PTL
=============================================================================
