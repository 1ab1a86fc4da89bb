------------------------- MODULE ServiceDatesProofs -------------------------
(***************************************************************************)
(* Service dates for every zone of the shape ZoneAssumption allows and at  *)
(* every instant, and the two forms of the calendar query for every        *)
(* database.                                                               *)
(***************************************************************************)
EXTENDS ServiceCalendar, TLAPS

\* Division with remainder, as the arithmetic of one day needs it.
LEMMA DivMod ==
    ASSUME NEW n \in Int
    PROVE  /\ n \div 86400 \in Int /\ n % 86400 \in Int
           /\ n = 86400 * (n \div 86400) + (n % 86400)
           /\ 0 <= n % 86400 /\ n % 86400 < 86400
  OBVIOUS

LEMMA DivModUnique ==
    ASSUME NEW n \in Int, NEW q \in Int, NEW r \in Int,
           0 <= r, r < 86400, n = 86400 * q + r
    PROVE  n \div 86400 = q /\ n % 86400 = r
  <1> DEFINE p == n \div 86400
             t == n % 86400
  <1>1. p \in Int /\ t \in Int /\ 0 <= t /\ t < 86400 /\ n = 86400 * p + t
    BY DivMod
  <1> HIDE DEF p, t
  <1>2. p = q
    BY <1>1
  <1>3. t = r
    BY <1>1, <1>2
  <1> QED
    BY <1>2, <1>3 DEF p, t

-----------------------------------------------------------------------------
(* The zone: clocks change on date s at the end of its first two hours, and
   back on date f. *)

ClockChanges(s, f) ==
    /\ Spring = s * 86400 + 7200 - Winter
    /\ Fall = f * 86400 + 3600 - Winter
    /\ s + 3 <= f
    /\ NyDate(Spring) = s /\ NyDate(Fall) = f
    /\ Spring \in Int /\ Fall \in Int
    /\ Winter \in Int /\ -36000 <= Winter /\ Winter <= -3600 /\ Summer = Winter + 3600

LEMMA Zone == \E s, f \in Int : ClockChanges(s, f)
  <1> DEFINE s == (Spring + Winter) \div 86400
             f == (Fall + Summer) \div 86400
  <1>1. /\ Spring \in Int /\ Fall \in Int /\ Winter \in Int /\ Summer \in Int
        /\ Winter \in Int /\ -36000 <= Winter /\ Winter <= -3600 /\ Summer = Winter + 3600
        /\ (Spring + Winter) % 86400 = 7200
        /\ (Fall + Summer) % 86400 = 7200
        /\ Spring + 259200 <= Fall
    BY ZoneAssumption DEF Hour, Day
  <1>2. s \in Int /\ Spring + Winter = 86400 * s + 7200
    BY <1>1, DivMod
  <1>3. f \in Int /\ Fall + Summer = 86400 * f + 7200
    BY <1>1, DivMod
  <1> HIDE DEF s, f
  <1>4. NyDate(Spring) = s
    <2>1. Offset(Spring) = Summer
      BY <1>1 DEF Offset
    <2>2. Spring + Summer = 86400 * s + 10800
      BY <1>1, <1>2
    <2>3. (Spring + Summer) \div 86400 = s
      BY <1>1, <1>2, <2>2, DivModUnique
    <2> QED
      BY <2>1, <2>3 DEF NyDate, Local, Day, Hour
  <1>5. NyDate(Fall) = f
    <2>1. Offset(Fall) = Winter
      BY <1>1 DEF Offset
    <2>2. Fall + Winter = 86400 * f + 3600
      BY <1>1, <1>3
    <2>3. (Fall + Winter) \div 86400 = f
      BY <1>1, <1>3, <2>2, DivModUnique
    <2> QED
      BY <2>1, <2>3 DEF NyDate, Local, Day, Hour
  <1>6. s + 3 <= f
    BY <1>1, <1>2, <1>3
  <1>7. ClockChanges(s, f)
    BY <1>1, <1>2, <1>3, <1>4, <1>5, <1>6 DEF ClockChanges
  <1> QED
    BY <1>2, <1>3, <1>7

\* At u a clock in New York reads r seconds into date q.
Reads(u, q, r) ==
    /\ 0 <= r /\ r < 86400
    /\ Local(u) = q * 86400 + r
    /\ NyDate(u) = q
    /\ NyHour(u) \in 0..23
    /\ NyHour(u) = 0 <=> r < 3600
    /\ NyHour(u) = 23 <=> r >= 82800
    /\ NyHour(u) < 5 <=> r < 18000

LEMMA Reading ==
    ASSUME NEW u \in Int
    PROVE  \E q, r \in Int : Reads(u, q, r)
  <1> DEFINE q == Local(u) \div 86400
             r == Local(u) % 86400
  <1>1. Local(u) \in Int
    BY ZoneAssumption DEF Local, Offset, Hour, Day
  <1>2. q \in Int /\ r \in Int /\ 0 <= r /\ r < 86400 /\ Local(u) = q * 86400 + r
    BY <1>1, DivMod
  <1>3. NyDate(u) = q /\ NyHour(u) = r \div 3600
    BY DEF NyDate, NyHour, Day, Hour
  <1> HIDE DEF q, r
  <1> QED
    BY <1>2, <1>3 DEF Reads

LEMMA DayIs == Day = 86400
  BY DEF Day, Hour

-----------------------------------------------------------------------------
(* Stepping a real day (serviceDate.ts:66-104). *)

\* The date 24 hours before an instant is the day before, except in the first hour
\* after the 23-hour day, when it is the day before that, and in the last hour of the
\* 25-hour day, when it is the same date.
THEOREM DayBefore ==
    \A u \in Int :
        NyDate(u - Day) =
            IF NyDate(u) = NyDate(Spring) + 1 /\ NyHour(u) = 0 THEN NyDate(u) - 2
            ELSE IF NyDate(u) = NyDate(Fall) /\ NyHour(u) = 23 THEN NyDate(u)
            ELSE NyDate(u) - 1
  <1> SUFFICES ASSUME NEW u \in Int
               PROVE  NyDate(u - Day) =
                        IF NyDate(u) = NyDate(Spring) + 1 /\ NyHour(u) = 0 THEN NyDate(u) - 2
                        ELSE IF NyDate(u) = NyDate(Fall) /\ NyHour(u) = 23 THEN NyDate(u)
                        ELSE NyDate(u) - 1
    OBVIOUS
  <1>1. PICK s, f \in Int : ClockChanges(s, f)
    BY Zone
  <1>2. PICK q, r \in Int : Reads(u, q, r)
    BY Reading
  <1>3. u - Day \in Int
    BY DayIs
  <1>4. PICK p, t \in Int : Reads(u - Day, p, t)
    BY <1>3, Reading
  <1>5. p = IF q = s + 1 /\ r < 3600 THEN q - 2
            ELSE IF q = f /\ r >= 82800 THEN q
            ELSE q - 1
    BY <1>1, <1>2, <1>4, DayIs DEF ClockChanges, Reads, Local, Offset
  <1> QED
    BY <1>1, <1>2, <1>4, <1>5 DEF ClockChanges, Reads

\* The date 24 hours after an instant is the next day, except in the last hour before
\* the 23-hour day, which it steps over, and in the first hour of the 25-hour day, which
\* it does not leave.
THEOREM DayAfter ==
    \A u \in Int :
        NyDate(u + Day) =
            IF NyDate(u) = NyDate(Spring) - 1 /\ NyHour(u) = 23 THEN NyDate(u) + 2
            ELSE IF NyDate(u) = NyDate(Fall) /\ NyHour(u) = 0 THEN NyDate(u)
            ELSE NyDate(u) + 1
  <1> SUFFICES ASSUME NEW u \in Int
               PROVE  NyDate(u + Day) =
                        IF NyDate(u) = NyDate(Spring) - 1 /\ NyHour(u) = 23 THEN NyDate(u) + 2
                        ELSE IF NyDate(u) = NyDate(Fall) /\ NyHour(u) = 0 THEN NyDate(u)
                        ELSE NyDate(u) + 1
    OBVIOUS
  <1>1. PICK s, f \in Int : ClockChanges(s, f)
    BY Zone
  <1>2. PICK q, r \in Int : Reads(u, q, r)
    BY Reading
  <1>3. u + Day \in Int
    BY DayIs
  <1>4. PICK p, t \in Int : Reads(u + Day, p, t)
    BY <1>3, Reading
  <1>5. p = IF q = s - 1 /\ r >= 82800 THEN q + 2
            ELSE IF q = f /\ r < 3600 THEN q
            ELSE q + 1
    BY <1>1, <1>2, <1>4, DayIs DEF ClockChanges, Reads, Local, Offset
  <1> QED
    BY <1>1, <1>2, <1>4, <1>5 DEF ClockChanges, Reads

\* From one o'clock to eleven at night the board's window is yesterday, today and
\* tomorrow, on the days of a clock change too: every failure is confined to the two
\* hours around midnight.
THEOREM WindowExact ==
    \A u \in Int : NyHour(u) \in 1..22 =>
        GetScheduleServiceDates(u) = <<NyDate(u) - 1, NyDate(u), NyDate(u) + 1>>
  <1> SUFFICES ASSUME NEW u \in Int, NyHour(u) \in 1..22
               PROVE  GetScheduleServiceDates(u) = <<NyDate(u) - 1, NyDate(u), NyDate(u) + 1>>
    OBVIOUS
  <1>1. NyDate(u - Day) = NyDate(u) - 1
    BY DayBefore
  <1>2. NyDate(u + Day) = NyDate(u) + 1
    BY DayAfter
  <1> QED
    BY <1>1, <1>2 DEF GetScheduleServiceDates

\* The dates whose routes an arrivals request asks about contain every date in reach,
\* and no other except the day before yesterday in the first hour after the 23-hour day.
THEOREM RelevantDates ==
    \A u, date \in Int :
        (\E i \in DOMAIN GetRelevantServiceDates(u) : GetRelevantServiceDates(u)[i] = date)
            <=> \/ InReach(date, u)
                \/ /\ date = NyDate(Spring) - 1
                   /\ NyDate(u) = NyDate(Spring) + 1 /\ NyHour(u) = 0
  <1> SUFFICES ASSUME NEW u \in Int, NEW date \in Int
               PROVE  (\E i \in DOMAIN GetRelevantServiceDates(u) :
                            GetRelevantServiceDates(u)[i] = date)
                        <=> \/ InReach(date, u)
                            \/ /\ date = NyDate(Spring) - 1
                               /\ NyDate(u) = NyDate(Spring) + 1 /\ NyHour(u) = 0
    OBVIOUS
  <1> DEFINE today == NyDate(u)
             previous == NyDate(u - Day)
             night == NyHour(u) < 5 /\ previous # today
  <1>1. PICK s, f \in Int : ClockChanges(s, f)
    BY Zone
  <1>2. PICK q, r \in Int : Reads(u, q, r)
    BY Reading
  <1>3. /\ today \in Int /\ NyHour(u) \in 0..23
        /\ NyDate(Spring) \in Int /\ NyDate(Fall) \in Int
    BY <1>1, <1>2 DEF ClockChanges, Reads
  <1>4. previous = IF today = NyDate(Spring) + 1 /\ NyHour(u) = 0 THEN today - 2
                   ELSE IF today = NyDate(Fall) /\ NyHour(u) = 23 THEN today
                   ELSE today - 1
    BY DayBefore
  <1>5. GetRelevantServiceDates(u) = IF night THEN <<today, previous>> ELSE <<today>>
    BY DEF GetRelevantServiceDates
  <1>6. (\E i \in DOMAIN GetRelevantServiceDates(u) : GetRelevantServiceDates(u)[i] = date)
            <=> date = today \/ (night /\ date = previous)
    <2> HIDE DEF today, previous, night
    <2>1. CASE night
      <3>1. GetRelevantServiceDates(u) = <<today, previous>>
        BY <1>5, <2>1
      <3> QED
        BY <3>1, <2>1
    <2>2. CASE ~night
      <3>1. GetRelevantServiceDates(u) = <<today>>
        BY <1>5, <2>2
      <3> QED
        BY <3>1, <2>2
    <2> QED
      BY <2>1, <2>2
  <1> QED
    BY <1>3, <1>4, <1>6 DEF InReach

-----------------------------------------------------------------------------
(* Service day origins (serviceDate.ts:160-169). *)

\* Offset of the noon from which a date counts.
LEMMA NoonOffset ==
    ASSUME NEW date \in Int, NEW s \in Int, NEW f \in Int, ClockChanges(s, f)
    PROVE  Offset(UtcNoon(date)) = IF s <= date /\ date < f THEN Summer ELSE Winter
  BY DayIs DEF ClockChanges, Offset, UtcNoon, Hour

\* The instant shown for a stop time is the one at which a clock in New York reads the
\* published time, on every date and up to the end of the following day, exactly
\* unless the stop time is one of those listed by Shifted.
THEOREM PublishedTimes ==
    \A date \in Int, seconds \in Nat : seconds < 48 * Hour =>
        (Local(GetServiceDayOriginUnix(date) + seconds) = date * Day + seconds
            <=> ~Shifted(date, seconds))
  <1> SUFFICES ASSUME NEW date \in Int, NEW seconds \in Nat, seconds < 48 * Hour
               PROVE  Local(GetServiceDayOriginUnix(date) + seconds) = date * Day + seconds
                        <=> ~Shifted(date, seconds)
    OBVIOUS
  <1>1. PICK s, f \in Int : ClockChanges(s, f)
    BY Zone
  <1>2. Hour = 3600 /\ Day = 86400 /\ seconds \in Int /\ 0 <= seconds /\ seconds < 172800
    BY DayIs DEF Hour
  <1> DEFINE off == IF s <= date /\ date < f THEN Summer ELSE Winter
             u == date * 86400 - off + seconds
  <1>3. off \in Int /\ u \in Int
    BY <1>1, <1>2 DEF ClockChanges
  <1>4. GetServiceDayOriginUnix(date) + seconds = u
    <2>1. Offset(UtcNoon(date)) = off
      BY <1>1, NoonOffset
    <2> HIDE DEF off
    <2> QED
      BY <2>1, <1>2, <1>3 DEF GetServiceDayOriginUnix, UtcNoon
  <1>5. Shifted(date, seconds) <=> \/ date = s /\ seconds < 10800
                                   \/ date = f /\ seconds < 3600
                                   \/ (date + 1 = s \/ date + 1 = f) /\ seconds >= 93600
    BY <1>1, <1>2 DEF Shifted, ClockChanges
  <1>6. u + Offset(u) = date * 86400 + seconds
            <=> ~ \/ date = s /\ seconds < 10800
                  \/ date = f /\ seconds < 3600
                  \/ (date + 1 = s \/ date + 1 = f) /\ seconds >= 93600
    BY <1>1, <1>2 DEF ClockChanges, Offset
  <1> QED
    BY <1>2, <1>4, <1>5, <1>6 DEF Local

-----------------------------------------------------------------------------
(* The two forms of the calendar query (serviceCalendar.ts:32-104). *)

\* The predicate the trip lookups use and the set the timetable queries join agree, in
\* every database in which a service has at most one exception a date, which is the
\* primary key of calendar_dates (schema.ts:81-87).
THEOREM CalendarFormsAgree ==
    ASSUME NEW d, NEW service, NEW date,
           \A x, y \in d.calendarDates : x.service = y.service /\ x.date = y.date => x = y
    PROVE  ActiveServicePredicate(d, service, date) <=> service \in GetActiveServiceIds(d, date)
  <1>1. ~(service \in Exceptions(d, date, 1) /\ service \in Exceptions(d, date, 2))
    <2> SUFFICES ASSUME service \in Exceptions(d, date, 1), service \in Exceptions(d, date, 2)
                 PROVE  FALSE
      OBVIOUS
    <2>1. PICK x \in d.calendarDates : x.service = service /\ x.date = date /\ x.type = 1
      BY DEF Exceptions
    <2>2. PICK y \in d.calendarDates : y.service = service /\ y.date = date /\ y.type = 2
      BY DEF Exceptions
    <2> QED
      BY <2>1, <2>2
  <1> QED
    BY <1>1 DEF ActiveServicePredicate, GetActiveServiceIds
=============================================================================
