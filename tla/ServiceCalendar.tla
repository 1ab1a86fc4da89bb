-------------------------- MODULE ServiceCalendar --------------------------
(***************************************************************************)
(* Which services run on a date, src/db/queries/serviceCalendar.ts.        *)
(*                                                                         *)
(* d is the content of the static database for the feed that the request   *)
(* names: every query filters on feed_id.  A table is a set of rows.       *)
(***************************************************************************)
EXTENDS ServiceDates

\* calendar_dates exceptions of one type on a date: 1 adds a service, 2 removes it.
Exceptions(d, date, type) ==
    {x.service : x \in {y \in d.calendarDates : y.date = date /\ y.type = type}}

\* The services whose calendar row covers the date and names its weekday.
InCalendar(d, date) ==
    {c.service : c \in {r \in d.calendar : /\ r.start <= date
                                           /\ date <= r.end
                                           /\ WeekdayColumn(date) \in r.days}}

\* One service on one date, as a predicate inside a query.
ActiveServicePredicate(d, service, date) ==
    \/ service \in Exceptions(d, date, 1)
    \/ service \in InCalendar(d, date) /\ service \notin Exceptions(d, date, 2)

\* Every service of one date: UNION, then EXCEPT.
GetActiveServiceIds(d, date) ==
    (Exceptions(d, date, 1) \cup InCalendar(d, date)) \ Exceptions(d, date, 2)
=============================================================================
