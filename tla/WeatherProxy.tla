----------------------------- MODULE WeatherProxy -----------------------------
(***************************************************************************)
(* The weather of the flight data processor: roles/atc_core/files/fdp/     *)
(* app.py weather(), run by the request threads of a web server over one   *)
(* cache without a lock, in front of the feed of                           *)
(* roles/atc_weather/files/weather/metar_feed.py.                          *)
(*                                                                         *)
(* A report is told by the time at which it was observed and its ATIS      *)
(* letter, a forecast by its presence.                                     *)
(***************************************************************************)
EXTENDS Integers

CONSTANTS
    Threads,      \* request threads
    Ttl,          \* the cache's time to live, 10 s in the code
    MaxLatency,   \* bound on the duration of a request: two fetches with a
                  \* timeout of 1.5 s each
    HourLength,   \* 3600 s
    Letters,      \* 26
    CycleLength,  \* 48 hours, after which the weather repeats
    MaxClock      \* bound on the time modelled

ASSUME WeatherAssumption ==
    /\ {Ttl, HourLength, Letters, CycleLength} \subseteq Nat \ {0}
    /\ {MaxLatency, MaxClock} \subseteq Nat

VARIABLES
    clock,      \* time.time(), the feed's clock too
    data,       \* _WX["data"]
    cachedAt,   \* _WX["t"]
    pc,         \* where a thread is in weather()
    began,      \* its local variable now
    out,        \* its local variable out
    reply       \* what it has returned

vars == <<clock, data, cachedAt, pc, began, out, reply>>

Times == 0..MaxClock
NoReport == [metar |-> 0, atis |-> 0, taf |-> FALSE, ok |-> FALSE]
Reports == [metar : Times, atis : 0..(Letters - 1), taf : BOOLEAN, ok : BOOLEAN]
NoReply == [report |-> NoReport, stale |-> FALSE, at |-> 0]

Init ==
    /\ clock = 0
    /\ data = NoReport
    /\ cachedAt = 0
    /\ pc = [i \in Threads |-> "idle"]
    /\ began = [i \in Threads |-> 0]
    /\ out = [i \in Threads |-> NoReport]
    /\ reply = [i \in Threads |-> NoReply]

-----------------------------------------------------------------------------
(* A request.  Threads may be switched between any two accesses of the     *)
(* cache and while they wait for the feed.                                 *)

Goto(i, at) == pc' = [pc EXCEPT ![i] = at]

Return(i, report, stale) ==
    /\ Goto(i, "returned")
    /\ reply' = [reply EXCEPT ![i] = [report |-> report, stale |-> stale, at |-> clock]]
    /\ out' = [out EXCEPT ![i] = NoReport]

Request(i) ==
    /\ pc[i] = "idle"
    /\ began' = [began EXCEPT ![i] = clock]
    /\ Goto(i, "check")
    /\ UNCHANGED <<clock, data, cachedAt, out, reply>>

\* There is weather and it is not old.
Fresh(i) == data.ok /\ began[i] - cachedAt < Ttl

Check(i) ==
    /\ pc[i] = "check"
    /\ Goto(i, IF Fresh(i) THEN "hit" ELSE "metar")
    /\ UNCHANGED <<clock, data, cachedAt, began, out, reply>>

Hit(i) ==
    /\ pc[i] = "hit"
    /\ Return(i, data, FALSE)
    /\ UNCHANGED <<clock, data, cachedAt, began>>

\* The exercise clock.
Position(t) == t % CycleLength

\* Mutant: the alphabet does not start again.
LetterUnwrapped(t) == Position(t) \div HourLength

\* Mutant: the hour is rounded.
LetterRounded(t) == ((Position(t) + HourLength \div 2) \div HourLength) % Letters

\* atis_at: a letter per hour of the cycle.
AtisLetter(t) == (Position(t) \div HourLength) % Letters

\* The feed takes the report and then the letter, each from the clock.
Observe(i) ==
    /\ pc[i] = "metar"
    /\ Goto(i, "letter")
    /\ out' = [out EXCEPT ![i].metar = clock]
    /\ UNCHANGED <<clock, data, cachedAt, began, reply>>

Letter(i) ==
    /\ pc[i] = "letter"
    /\ Goto(i, "taf")
    /\ out' = [out EXCEPT ![i].atis = AtisLetter(clock), ![i].ok = TRUE]
    /\ UNCHANGED <<clock, data, cachedAt, began, reply>>

\* Mutant: without a forecast there is none.
NoLastForecast == FALSE

LastForecast == data.ok /\ data.taf

\* Without a forecast the one in the cache is kept.
Forecast(i) ==
    /\ pc[i] = "taf"
    /\ Goto(i, "store")
    /\ \E answered \in BOOLEAN :
           out' = [out EXCEPT ![i].taf = answered \/ LastForecast]
    /\ UNCHANGED <<clock, data, cachedAt, began, reply>>

Store(i) ==
    /\ pc[i] = "store"
    /\ Goto(i, "stamp")
    /\ data' = out[i]
    /\ UNCHANGED <<clock, cachedAt, began, out, reply>>

\* Mutant: the cache is stamped when the fetch is over.
StampEnd(i) == clock

\* The cache is stamped with the time at which the request began.
StampOf(i) == began[i]

Stamp(i) ==
    /\ pc[i] = "stamp"
    /\ cachedAt' = StampOf(i)
    /\ Return(i, out[i], FALSE)
    /\ UNCHANGED <<clock, data, began>>

\* The last good report is flagged, an empty one is not.
Flag == data.ok

\* Mutant: the empty report is cached.
FailCached(i) ==
    /\ pc[i] \in {"metar", "letter"}
    /\ Return(i, data, Flag)
    /\ data' = [NoReport EXCEPT !.ok = TRUE]
    /\ UNCHANGED <<clock, cachedAt, began>>

\* No METAR: the last good report, or an empty one.
Fail(i) ==
    /\ pc[i] \in {"metar", "letter"}
    /\ Return(i, data, Flag)
    /\ UNCHANGED <<clock, data, cachedAt, began>>

Answered(i) ==
    /\ pc[i] = "returned"
    /\ Goto(i, "idle")
    /\ reply' = [reply EXCEPT ![i] = NoReply]
    /\ began' = [began EXCEPT ![i] = 0]
    /\ UNCHANGED <<clock, data, cachedAt, out>>

\* A request is over within its time-outs.
Elapse ==
    /\ clock < MaxClock
    /\ \A i \in Threads :
           pc[i] \notin {"idle", "returned"} => clock - began[i] < MaxLatency
    /\ clock' = clock + 1
    /\ UNCHANGED <<data, cachedAt, pc, began, out, reply>>

Next ==
    \/ \E i \in Threads :
           \/ Request(i) \/ Check(i) \/ Hit(i) \/ Observe(i) \/ Letter(i) \/ Forecast(i)
           \/ Store(i) \/ Stamp(i) \/ Fail(i) \/ Answered(i)
    \/ Elapse

Spec == Init /\ [][Next]_vars

-----------------------------------------------------------------------------
(* Properties *)

Places == {"idle", "check", "hit", "metar", "letter", "taf", "store", "stamp", "returned"}

TypeOK ==
    /\ clock \in Times
    /\ data \in Reports
    /\ cachedAt \in Times
    /\ pc \in [Threads -> Places]
    /\ began \in [Threads -> Times]
    /\ out \in [Threads -> Reports]
    /\ reply \in [Threads -> [report : Reports, stale : BOOLEAN, at : Times]]

\* Weather without the flag is recent although the cache is written by
\* several threads, data before stamp, the slow over the fast: at most its
\* time to live and the duration of two requests old (app.py 249-279).
UnflaggedIsRecent ==
    \A i \in Threads :
        pc[i] = "returned" /\ reply[i].report.ok /\ ~reply[i].stale =>
            reply[i].at - reply[i].report.metar < Ttl + 2 * MaxLatency

\* A slow request may put an older report in the place of a newer one, but
\* one that is older by no more than a request lasts (app.py 272).
CacheGoesBackLittle ==
    [][data.ok => data'.metar >= data.metar - MaxLatency]_vars

\* The letter of a report is that of the time of the report or of a time
\* at which the report is still being made (metar_feed.py 233-251).
LetterFitsReport ==
    data.ok =>
        data.atis \in {((t % CycleLength) \div HourLength) % Letters : t \in data.metar..(data.metar + MaxLatency)}

\* When forecasts fail, the last good one stays; it is only lost to a request
\* that was under way when it came in (app.py 270-274).
ForecastStays ==
    [][data.taf /\ ~data'.taf => data'.metar <= data.metar + MaxLatency]_vars
=============================================================================
