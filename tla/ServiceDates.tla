--------------------------- MODULE ServiceDates ----------------------------
(***************************************************************************)
(* New York dates and GTFS service days, src/utils/serviceDate.ts.         *)
(*                                                                         *)
(* An instant is a count of seconds, UTC; a date is a count of days, so    *)
(* that YYYYMMDD strings compare as dates do.  The zone is the part of it  *)
(* the code can see: one change to summer time and one back.               *)
(***************************************************************************)
EXTENDS Integers, Sequences

CONSTANTS
    Spring,     \* the instant at which summer time begins
    Fall,       \* the instant at which it ends
    Winter,     \* the offset of New York from UTC outside summer time
    Summer      \* and during it

Hour == 3600
Day  == 24 * Hour

\* Clocks change at two in the morning, local time, and service days keep clear
\* of each other's changes; New York is west of Greenwich.
ASSUME ZoneAssumption ==
    /\ Spring \in Int /\ Fall \in Int
    /\ Winter \in Int /\ -(10 * Hour) <= Winter /\ Winter <= -Hour
    /\ Summer = Winter + Hour
    /\ (Spring + Winter) % Day = 2 * Hour
    /\ (Fall + Summer) % Day = 2 * Hour
    /\ Spring + 3 * Day <= Fall

Offset(u) == IF u >= Spring /\ u < Fall THEN Summer ELSE Winter

\* The reading of a clock in New York, as seconds since the beginning of date 0.
Local(u) == u + Offset(u)

-----------------------------------------------------------------------------
(* getNyDateParts and weekdayColumnForDate. *)

NyDate(u) == Local(u) \div Day
NyHour(u) == (Local(u) % Day) \div Hour

WeekdayColumn(date) == date % 7

\* "What's running right now": today, and yesterday until five in the morning.
GetRelevantServiceDates(u) ==
    LET today == NyDate(u)
        previous == NyDate(u - Day)
    IN  IF NyHour(u) < 5 /\ previous # today THEN <<today, previous>> ELSE <<today>>

\* The window of a schedule board: the dates one real day before, at and after u.
GetScheduleServiceDates(u) == <<NyDate(u - Day), NyDate(u), NyDate(u + Day)>>

-----------------------------------------------------------------------------
(* getServiceDayOriginUnix: the instant from which the stop times of a date
   count, twelve real hours before its local noon. *)

UtcNoon(date) == date * Day + 12 * Hour

\* Fault: the origin is local midnight.
OriginAtMidnight(date) == date * Day - Offset(date * Day + 5 * Hour)

GetServiceDayOriginUnix(date) == UtcNoon(date) - Offset(UtcNoon(date)) - 12 * Hour

-----------------------------------------------------------------------------
(* What the two days of a clock change do to this; the properties refer to it,
   the code does not. *)

\* The stop times of a date whose published reading is not the one of the clock.
Shifted(date, seconds) ==
    LET spring == NyDate(Spring)
        fall == NyDate(Fall)
    IN  \/ date = spring /\ seconds < 3 * Hour
        \/ date = fall /\ seconds < Hour
        \/ date + 1 \in {spring, fall} /\ seconds >= 26 * Hour

\* The dates whose trains a request finds: today, and yesterday in the small
\* hours, but not in the first hour after a 23-hour day.
InReach(date, u) ==
    \/ date = NyDate(u)
    \/ date = NyDate(u) - 1 /\ NyHour(u) < 5 /\ ~(date = NyDate(Spring) /\ NyHour(u) = 0)
=============================================================================
