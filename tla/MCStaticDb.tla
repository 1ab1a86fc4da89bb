----------------------------- MODULE MCStaticDb -----------------------------
(* Values for TLC: two feeds, three archives and batches of two rows. *)
EXTENDS StaticDb

CONSTANTS k1, k2

MCRow(k, up) == [key |-> k, up |-> up]

\* Two stops, a trip listed twice, a stop time without trip and one without number,
\* one that is listed again after a full batch, and a transfer that occurs twice.
MCFull == [t \in Table |->
    CASE t = "stops"      -> <<MCRow(k1, {}), MCRow(Blank, {}), MCRow(k2, {})>>
      [] t = "routes"     -> <<MCRow(k1, {}), MCRow(k2, {})>>
      [] t = "trips"      -> <<MCRow(k1, {<<"routes", k1>>}), MCRow(k1, {<<"routes", k2>>})>>
      [] t = "stop_times" -> <<MCRow(k1, {<<"trips", k1>>, <<"stops", k1>>}), MCRow(Blank, {}),
                               MCRow(NoSeq, {}), MCRow(k1, {<<"trips", k1>>, <<"stops", k2>>})>>
      [] t = "transfers"  -> <<MCRow(k1, {}), MCRow(k1, {})>>
      [] OTHER            -> <<MCRow(k1, {})>>]

\* Another timetable, without calendar.txt and transfers.txt.
MCSmall == [t \in Table |->
    CASE t \in {"stops", "routes"} -> <<MCRow(k2, {})>>
      [] t = "trips"      -> <<MCRow(k2, {<<"routes", k2>>})>>
      [] t = "stop_times" -> <<MCRow(k1, {<<"trips", k2>>, <<"stops", k2>>})>>
      [] t = "calendar_dates" -> <<MCRow(k2, {})>>
      [] OTHER            -> <<>>]

\* The last stop time names a stop that is not in stops.txt.
MCBroken == [MCFull EXCEPT !["stops"] = <<MCRow(k1, {})>>]

MCKey == {k1, k2}
MCArchive == {MCFull, MCSmall, MCBroken}
=============================================================================
