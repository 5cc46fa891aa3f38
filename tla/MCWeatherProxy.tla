---------------------------- MODULE MCWeatherProxy ----------------------------
(* Two request threads, alike but for their names, a request lasts up to  *)
(* two units, an hour three, so that some requests lie within an hour and  *)
(* others on both sides of its end.  There are three letters, and the      *)
(* weather repeats after four hours: a fourth hour begins the alphabet     *)
(* again, and the next cycle begins with its first letter too.             *)
(*                                                                         *)
(* The proxy does not look into a report, so it runs with one severity;    *)
(* the others are there for the text of their reports, and forecasts of    *)
(* five hours that begin with them.                                        *)
EXTENDS WeatherProxy, MetarCodec, TLC

CONSTANTS kiosk, tower
VARIABLE severity

MCThreads == {kiosk, tower}
Symmetric == Permutations(MCThreads)
OffScale == 101

MCInit == Init /\ severity \in 0..OffScale
MCNext == UNCHANGED severity /\ IF severity = OffScale THEN Next ELSE UNCHANGED vars
MCSpec == MCInit /\ [][MCNext]_<<vars, severity>>

\* Conditions of this severity.
Sample(wdir, wspd, over, temp) ==
    [w |-> severity, wdir |-> wdir, wspd |-> wspd, gust |-> wspd + over,
     temp |-> temp + 10, dew |-> temp, inhg |-> 29600 + severity]

\* What the feed writes is what its readers take out of it: the decoder of
\* the flight data processor gets wind, gusts, visibility (of one token or two),
\* weather, layers, ceiling, category, temperatures below and above zero and
\* pressure back, and the groups of a forecast, which are written only when
\* the band changes, tell the band of every hour (metar_feed.py 98-214,
\* app.py 55-140).
WeatherIsReadBack ==
    severity # OffScale =>
        /\ \A wdir \in {0, 4, 5, 184, 355, 359}, wspd \in {0, 40, 95, 231},
              over \in {0, 40, 87}, temp \in {-104, -4, 5, 95} :
                  ReportKept(Sample(wdir, wspd, over, temp))
        /\ \A later \in [1..4 -> {0, 1, 3, 6}] : ForecastKept(<<Band(severity)>> \o later)
===============================================================================
