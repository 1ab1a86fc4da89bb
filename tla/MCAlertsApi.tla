---------------------------- MODULE MCAlertsApi ----------------------------
(***************************************************************************)
(* Small instances of AlertsApi for TLC.                                   *)
(***************************************************************************)
EXTENDS AlertsApi, TLC

CONSTANTS A, C, X, Y, S

rA == <<A>>
rC == <<C>>
rX == <<X>>
rXY == <<X, Bar, Y>>
s1 == <<S>>
sY == <<Y, Bar>>
sAX == <<A, Comma, X>>

MCRoute == {rA, rC, rX, rXY}
MCStop == {s1, sY, sAX}
MCRank == rA :> 1 @@ rC :> 2 @@ rX :> 3 @@ rXY :> 4

MCTtl == [f \in Feed |-> 1]

\* Upstream republishes between two instants of the clock.
MCPublished == {0, 2}

Selector(route, stop, direction) == [route |-> route, stop |-> stop, direction |-> direction]

\* A delay on route A, a notice for one platform of stop s1, and later one for the
\* whole stop; direction 2 is a value the response leaves out.
MCAlertsAt ==
    LET delay    == [id |-> "delay", entities |-> {Selector(rA, None, None)}]
        platform == [id |-> "platform", entities |-> {Selector(None, s1, 0), Selector(rC, None, None)}]
        station  == [id |-> "station", entities |-> {Selector(None, s1, 2)}]
    IN  [p \in MCPublished |-> IF p = 0 THEN {delay, platform} ELSE {delay, station}]

\* No filter, a list that names no route, one route, and each direction of a stop; and
\* queries whose ETags nearly or really meet: `A,X`, `A,X` as a stop, `A,X|Y`, and
\* `A,X` at the stop `Y|`.
MCQuery ==
    {ParseQuery(None, None, None),
     ParseQuery(<<Blank>>, None, None),
     ParseQuery(<<rA, Blank, rA>>, None, None),
     ParseQuery(EmptyText, s1, "N"),
     ParseQuery(None, s1, "1"),
     ParseQuery(<<rX, rA>>, None, None),
     ParseQuery(None, sAX, None),
     ParseQuery(<<rXY, rA>>, None, None),
     ParseQuery(<<rA, rX>>, sY, None)}

\* The plain query only, where the history of the cache is what matters.
MCPlainQuery == {ParseQuery(None, None, None)}
=============================================================================
