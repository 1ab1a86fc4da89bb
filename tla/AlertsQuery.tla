---------------------------- MODULE AlertsQuery ----------------------------
(***************************************************************************)
(* What a request to /alerts asks for: the parsing of its query, the       *)
(* filter of alerts.service.ts and the part of the ETag that names the     *)
(* query (alerts.routes.ts).                                               *)
(***************************************************************************)
EXTENDS Naturals, Sequences, SequencesExt

CONSTANTS
    Word,       \* runs of characters other than the two separators
    Comma, Bar, \* the separators, `,` and `|`
    Route,      \* route ids, as a feed has them or a caller writes them
    Stop,       \* stop ids, likewise
    Rank,       \* external: the place of each route in the order of sort()
    Blank,      \* a list item that is empty after trim()
    EmptyText,  \* a query parameter that is present but empty
    None        \* undefined

\* `routes` as it arrives, split at its commas; an empty one is falsy.
ParseRoutes(param) ==
    IF param \in {None, EmptyText} THEN None
    ELSE SelectSeq(param, LAMBDA r : r # Blank)

ParseDirection(value) ==
    CASE value \in {"N", "0"} -> 0
      [] value \in {"S", "1"} -> 1
      [] OTHER                -> None

\* A parsed query.  An empty stop_id is falsy wherever it is read.
ParseQuery(routes, stopId, direction) ==
    [routes    |-> ParseRoutes(routes),
     stopId    |-> IF stopId = EmptyText THEN None ELSE stopId,
     direction |-> ParseDirection(direction)]

\* Two words never meet, so that texts that differ are different sequences.
Text ==
    LET meets(t, i) == {t[i], t[i + 1]} \subseteq Word
    IN  {t \in Seq(Word \cup {Comma, Bar}) : \A i \in 1..Len(t) - 1 : ~meets(t, i)}

AlertFilter ==
    [routes : Seq(Route) \cup {None}, stopId : Stop \cup {None}, direction : {0, 1, None}]

-----------------------------------------------------------------------------
\* An informed entity of the response; a direction other than 0 or 1, or one the
\* feed did not set, is left out.
InformedEntity(e) ==
    [e EXCEPT !.direction = IF e.direction \in {0, 1} THEN e.direction ELSE None]

InformedEntities(alert) == {InformedEntity(e) : e \in alert.entities}

RouteMatches(q, alert) ==
    q.routes # None =>
        \E e \in InformedEntities(alert) : e.route # None /\ e.route \in ToSet(q.routes)

StopMatches(q, alert) ==
    q.stopId # None =>
        \E e \in InformedEntities(alert) :
            /\ e.stop = q.stopId
            /\ None \in {q.direction, e.direction} \/ e.direction = q.direction

GetAlerts(q, alerts) == {a \in alerts : RouteMatches(q, a) /\ StopMatches(q, a)}

-----------------------------------------------------------------------------
\* The routes in the order of sort().
SortedRoutes(routes) ==
    LET from == CHOOSE p \in Bijection(DOMAIN routes, DOMAIN routes) :
                    \A i, j \in DOMAIN routes : i < j => Rank[routes[p[i]]] <= Rank[routes[p[j]]]
    IN  [i \in DOMAIN routes |-> routes[from[i]]]

JoinRoutes(routes) ==
    FlattenSeq([i \in DOMAIN routes |-> (IF i = 1 THEN <<>> ELSE <<Comma>>) \o routes[i]])

\* Fault: the direction is left out of the key.
QueryKeyWithoutDirection(q) ==
    (IF q.routes = None THEN <<>> ELSE JoinRoutes(SortedRoutes(q.routes)))
        \o <<Bar>> \o (IF q.stopId = None THEN <<>> ELSE q.stopId)
        \o <<Bar>>

\* The text that etagFor hashes.  Nothing in it is escaped, so a caller's `,` and `|`
\* read like its own.
QueryKey(q) ==
    (IF q.routes = None THEN <<>> ELSE JoinRoutes(SortedRoutes(q.routes)))
        \o <<Bar>> \o (IF q.stopId = None THEN <<>> ELSE q.stopId)
        \o <<Bar>> \o (IF q.direction = None THEN <<>> ELSE <<q.direction>>)

\* The hash is taken to be injective.
EtagFor(generatedAt, q) == <<generatedAt, QueryKey(q)>>
=============================================================================
