-------------------------- MODULE WeatherProxy_proofs --------------------------
(* Proofs about the weather cache of WeatherProxy, for any number of       *)
(* request threads and any of its times, and about the reports and the     *)
(* forecasts of MetarCodec, for any conditions and any number of hours.    *)
EXTENDS MCWeatherProxy, SequenceTheorems, WellFoundedInduction, TLAPS

\* The constants are numbers, and the divisors positive.
LEMMA ConstantsType ==
    /\ Ttl \in Nat /\ Ttl > 0
    /\ HourLength \in Nat /\ HourLength > 0
    /\ Letters \in Nat /\ Letters > 0
    /\ CycleLength \in Nat /\ CycleLength > 0
    /\ MaxLatency \in Nat /\ MaxClock \in Nat
  BY WeatherAssumption

\* A letter of the alphabet.
LEMMA LetterType == \A t \in Nat : AtisLetter(t) \in 0..(Letters - 1)
<1> TAKE t \in Nat
<1> DEFINE p == t % CycleLength
<1> DEFINE h == p \div HourLength
<1>1. p \in Nat
  BY ConstantsType
<1>2. h \in Nat
  <2> HIDE DEF p
  <2> QED BY <1>1, ConstantsType
<1>3. h % Letters \in 0..(Letters - 1)
  <2> HIDE DEF h
  <2> QED BY <1>2, ConstantsType
<1> QED BY <1>3 DEF AtisLetter, Position

\* The empty report is a report.
LEMMA EmptyReport == NoReport \in Reports
<1>1. 0 \in Times
  BY ConstantsType DEF Times
<1>2. 0 \in 0..(Letters - 1)
  BY ConstantsType
<1> QED BY <1>1, <1>2 DEF NoReport, Reports

\* Every step keeps the types.
LEMMA NextTypeOK == TypeOK /\ [Next]_vars => TypeOK'
<1> SUFFICES ASSUME TypeOK, [Next]_vars PROVE TypeOK'
  OBVIOUS
<1> USE DEF TypeOK
<1>0. CASE UNCHANGED vars
  BY <1>0 DEF vars
<1>1. ASSUME NEW i \in Threads, Request(i) PROVE TypeOK'
  BY <1>1 DEF Request, Goto, Places
<1>2. ASSUME NEW i \in Threads, Check(i) PROVE TypeOK'
  BY <1>2 DEF Check, Goto, Places
<1>3. ASSUME NEW i \in Threads, Hit(i) PROVE TypeOK'
  BY <1>3, EmptyReport DEF Hit, Return, Goto, Places
<1>4. ASSUME NEW i \in Threads, Observe(i) PROVE TypeOK'
  <2>1. [out[i] EXCEPT !.metar = clock] \in Reports
    BY DEF Reports
  <2>2. out' = [out EXCEPT ![i] = [out[i] EXCEPT !.metar = clock]]
    BY <1>4 DEF Observe
  <2> QED BY <1>4, <2>1, <2>2 DEF Observe, Goto, Places
<1>5. ASSUME NEW i \in Threads, Letter(i) PROVE TypeOK'
  <2>1. AtisLetter(clock) \in 0..(Letters - 1)
    BY LetterType, ConstantsType DEF Times
  <2>2. [out[i] EXCEPT !.atis = AtisLetter(clock), !.ok = TRUE] \in Reports
    BY <2>1 DEF Reports
  <2>3. out' = [out EXCEPT ![i] = [out[i] EXCEPT !.atis = AtisLetter(clock), !.ok = TRUE]]
    BY <1>5 DEF Letter
  <2> QED BY <1>5, <2>2, <2>3 DEF Letter, Goto, Places
<1>6. ASSUME NEW i \in Threads, Forecast(i) PROVE TypeOK'
  <2>1. PICK answered \in BOOLEAN :
            out' = [out EXCEPT ![i] = [out[i] EXCEPT !.taf = answered \/ LastForecast]]
    BY <1>6 DEF Forecast
  <2>2. [out[i] EXCEPT !.taf = answered \/ LastForecast] \in Reports
    BY DEF Reports
  <2> QED BY <1>6, <2>1, <2>2 DEF Forecast, Goto, Places
<1>7. ASSUME NEW i \in Threads, Store(i) PROVE TypeOK'
  BY <1>7 DEF Store, Goto, Places
<1>8. ASSUME NEW i \in Threads, Stamp(i) PROVE TypeOK'
  BY <1>8, EmptyReport DEF Stamp, StampOf, Return, Goto, Places
<1>9. ASSUME NEW i \in Threads, Fail(i) PROVE TypeOK'
  <2>1. Flag \in BOOLEAN
    BY DEF Flag, Reports
  <2> QED BY <1>9, <2>1, EmptyReport DEF Fail, Return, Goto, Places
<1>10. ASSUME NEW i \in Threads, Answered(i) PROVE TypeOK'
  <2>1. 0 \in Times
    BY ConstantsType DEF Times
  <2>2. NoReply \in [report : Reports, stale : BOOLEAN, at : Times]
    BY <2>1, EmptyReport DEF NoReply
  <2> QED BY <1>10, <2>1, <2>2 DEF Answered, Goto, Places
<1>11. CASE Elapse
  BY <1>11, ConstantsType DEF Elapse, Times
<1> QED
  BY <1>0, <1>1, <1>2, <1>3, <1>4, <1>5, <1>6, <1>7, <1>8, <1>9, <1>10, <1>11 DEF Next

\* The initial state is of its type.
LEMMA InitTypeOK == Init => TypeOK
<1>1. 0 \in Times
  BY ConstantsType DEF Times
<1>2. NoReply \in [report : Reports, stale : BOOLEAN, at : Times]
  BY <1>1, EmptyReport DEF NoReply
<1> QED BY <1>1, <1>2, EmptyReport DEF Init, TypeOK, Places

\* The shared cache and the threads' locals keep their types (app.py 249-278).
THEOREM TypeCorrect == Spec => []TypeOK
  BY InitTypeOK, NextTypeOK, PTL DEF Spec

-----------------------------------------------------------------------------
(* Recency.  No single conjunct of TimeInv is inductive: the age of what   *)
(* the cache answers follows from the stamp being at most one request      *)
(* ahead of the report beside it, which in turn holds because a writer     *)
(* between its data and its stamp began no later than anything that is in  *)
(* the cache could have been observed.                                     *)

\* A request is being answered.
Active(i) == pc[i] \notin {"idle", "returned"}

\* Where a request has a report.
Reporting == {"letter", "taf", "store", "stamp"}

\* The ages of a request and of its report.
RequestTimes ==
    \A i \in Threads :
        /\ began[i] <= clock
        /\ Active(i) => clock <= began[i] + MaxLatency
        /\ pc[i] \in Reporting => began[i] <= out[i].metar /\ out[i].metar <= clock

\* The ages of what is cached, against those of the requests beside it.
CacheTimes ==
    /\ data.metar <= clock
    /\ cachedAt <= clock
    /\ cachedAt <= data.metar + MaxLatency
    /\ \A i \in Threads :
          /\ pc[i] = "stamp" => began[i] <= data.metar + MaxLatency
          /\ pc[i] = "hit" => began[i] < data.metar + Ttl + MaxLatency

\* The inductive invariant of the times.
TimeInv == RequestTimes /\ CacheTimes /\ UnflaggedIsRecent

\* Types as the arithmetic below needs them.
LEMMA TimesAreNumbers ==
    ASSUME TypeOK
    PROVE  /\ clock \in Nat /\ cachedAt \in Nat /\ data.metar \in Nat
           /\ \A i \in Threads : began[i] \in Nat /\ out[i].metar \in Nat
  BY ConstantsType DEF TypeOK, Times, Reports

\* It holds initially.
LEMMA InitTimeInv == Init => TimeInv
  BY ConstantsType DEF Init, TimeInv, RequestTimes, CacheTimes, UnflaggedIsRecent,
     Active, Reporting, NoReport, NoReply

\* What an answer from thread i says of the others is what they said before.
LEMMA ReturnRecent ==
    ASSUME TypeOK, UnflaggedIsRecent, NEW i \in Threads, NEW report, NEW stale,
           Return(i, report, stale),
           report.ok /\ ~stale => clock - report.metar < Ttl + 2 * MaxLatency
    PROVE  UnflaggedIsRecent'
<1> SUFFICES ASSUME NEW j \in Threads, pc'[j] = "returned", reply'[j].report.ok, ~reply'[j].stale
             PROVE  reply'[j].at - reply'[j].report.metar < Ttl + 2 * MaxLatency
  BY DEF UnflaggedIsRecent
<1>1. CASE j = i
  <2>1. reply'[j] = [report |-> report, stale |-> stale, at |-> clock]
    BY <1>1 DEF Return, TypeOK
  <2> QED BY <2>1
<1>2. CASE j # i
  <2>1. reply'[j] = reply[j] /\ pc'[j] = pc[j]
    BY <1>2 DEF Return, Goto, TypeOK
  <2> QED BY <2>1 DEF UnflaggedIsRecent
<1> QED BY <1>1, <1>2

\* A step that gives no answer keeps the old ones.
LEMMA NoReturnRecent ==
    ASSUME TypeOK, UnflaggedIsRecent, NEW i \in Threads, NEW at \in Places \ {"returned"},
           Goto(i, at), UNCHANGED reply
    PROVE  UnflaggedIsRecent'
  BY DEF UnflaggedIsRecent, Goto, TypeOK

\* Every step keeps it.
LEMMA NextTimeInv == TypeOK /\ TimeInv /\ [Next]_vars => TimeInv'
<1> SUFFICES ASSUME TypeOK, TimeInv, [Next]_vars PROVE TimeInv'
  OBVIOUS
<1> USE ConstantsType, TimesAreNumbers DEF TimeInv
<1>0. CASE UNCHANGED vars
  BY <1>0 DEF vars, RequestTimes, CacheTimes, UnflaggedIsRecent, Active
<1>1. ASSUME NEW i \in Threads, Request(i) PROVE TimeInv'
  <2>1. RequestTimes' /\ CacheTimes'
    BY <1>1 DEF Request, Goto, RequestTimes, CacheTimes, Active, Reporting, TypeOK
  <2>2. UnflaggedIsRecent'
    BY <1>1, NoReturnRecent DEF Request, Places
  <2> QED BY <2>1, <2>2
<1>2. ASSUME NEW i \in Threads, Check(i) PROVE TimeInv'
  <2>1. RequestTimes'
    BY <1>2 DEF Check, Goto, RequestTimes, Active, Reporting, TypeOK
  <2>2. CacheTimes'
    BY <1>2 DEF Check, Fresh, Goto, CacheTimes, TypeOK
  <2>3. UnflaggedIsRecent'
    BY <1>2, NoReturnRecent DEF Check, Places
  <2> QED BY <2>1, <2>2, <2>3
<1>3. ASSUME NEW i \in Threads, Hit(i) PROVE TimeInv'
  <2>1. clock - data.metar < Ttl + 2 * MaxLatency
    BY <1>3 DEF Hit, RequestTimes, CacheTimes, Active
  <2>2. RequestTimes' /\ CacheTimes'
    BY <1>3 DEF Hit, Return, Goto, RequestTimes, CacheTimes, Active, Reporting, TypeOK
  <2>3. UnflaggedIsRecent'
    BY <1>3, <2>1, ReturnRecent DEF Hit
  <2> QED BY <2>2, <2>3
<1>4. ASSUME NEW i \in Threads, Observe(i) PROVE TimeInv'
  <2>1. RequestTimes' /\ CacheTimes'
    BY <1>4 DEF Observe, Goto, RequestTimes, CacheTimes, Active, Reporting, TypeOK, Reports
  <2>2. UnflaggedIsRecent'
    BY <1>4, NoReturnRecent DEF Observe, Places
  <2> QED BY <2>1, <2>2
<1>5. ASSUME NEW i \in Threads, Letter(i) PROVE TimeInv'
  <2>1. \A j \in Threads : out'[j].metar = out[j].metar
    BY <1>5 DEF Letter, TypeOK, Reports
  <2>2. RequestTimes' /\ CacheTimes'
    BY <1>5, <2>1 DEF Letter, Goto, RequestTimes, CacheTimes, Active, Reporting, TypeOK
  <2>3. UnflaggedIsRecent'
    BY <1>5, NoReturnRecent DEF Letter, Places
  <2> QED BY <2>2, <2>3
<1>6. ASSUME NEW i \in Threads, Forecast(i) PROVE TimeInv'
  <2>1. \A j \in Threads : out'[j].metar = out[j].metar
    BY <1>6 DEF Forecast, TypeOK, Reports
  <2>2. RequestTimes' /\ CacheTimes'
    BY <1>6, <2>1 DEF Forecast, Goto, RequestTimes, CacheTimes, Active, Reporting, TypeOK
  <2>3. UnflaggedIsRecent'
    BY <1>6, NoReturnRecent DEF Forecast, Places
  <2> QED BY <2>2, <2>3
<1>7. ASSUME NEW i \in Threads, Store(i) PROVE TimeInv'
  <2>1. data'.metar <= clock /\ clock <= data'.metar + MaxLatency
    BY <1>7 DEF Store, RequestTimes, Active, Reporting
  <2>2. data'.metar \in Nat
    BY <1>7 DEF Store
  <2>3. RequestTimes'
    BY <1>7 DEF Store, Goto, RequestTimes, Active, Reporting, TypeOK
  <2>4. cachedAt <= clock
    BY DEF RequestTimes, CacheTimes
  <2>5. CacheTimes'
    BY <1>7, <2>1, <2>2, <2>4 DEF Store, Goto, RequestTimes, CacheTimes, TypeOK
  <2>6. UnflaggedIsRecent'
    BY <1>7, NoReturnRecent DEF Store, Places
  <2> QED BY <2>3, <2>5, <2>6
<1>8. ASSUME NEW i \in Threads, Stamp(i) PROVE TimeInv'
  <2>1. clock - out[i].metar < Ttl + 2 * MaxLatency
    BY <1>8 DEF Stamp, RequestTimes, Active, Reporting
  <2>2. RequestTimes' /\ CacheTimes'
    BY <1>8 DEF Stamp, StampOf, Return, Goto, RequestTimes, CacheTimes, Active, Reporting, TypeOK
  <2>3. UnflaggedIsRecent'
    BY <1>8, <2>1, ReturnRecent DEF Stamp
  <2> QED BY <2>2, <2>3
<1>9. ASSUME NEW i \in Threads, Fail(i) PROVE TimeInv'
  <2>1. RequestTimes' /\ CacheTimes'
    BY <1>9 DEF Fail, Return, Goto, RequestTimes, CacheTimes, Active, Reporting, TypeOK
  <2>2. UnflaggedIsRecent'
    BY <1>9, ReturnRecent DEF Fail, Flag
  <2> QED BY <2>1, <2>2
<1>10. ASSUME NEW i \in Threads, Answered(i) PROVE TimeInv'
  <2>1. RequestTimes' /\ CacheTimes'
    BY <1>10 DEF Answered, Goto, RequestTimes, CacheTimes, Active, Reporting, TypeOK
  <2>2. \A j \in Threads : pc'[j] = "returned" => pc[j] = "returned" /\ reply'[j] = reply[j]
    BY <1>10 DEF Answered, Goto, TypeOK
  <2>3. UnflaggedIsRecent'
    BY <2>2 DEF UnflaggedIsRecent
  <2> QED BY <2>1, <2>3
<1>11. CASE Elapse
  <2>1. RequestTimes' /\ CacheTimes'
    BY <1>11 DEF Elapse, RequestTimes, CacheTimes, Active, Reporting
  <2>2. UnflaggedIsRecent'
    BY <1>11 DEF Elapse, UnflaggedIsRecent
  <2> QED BY <2>1, <2>2
<1> QED
  BY <1>0, <1>1, <1>2, <1>3, <1>4, <1>5, <1>6, <1>7, <1>8, <1>9, <1>10, <1>11 DEF Next

\* Unflagged weather is never older than the cache's time to live and two
\* requests, however the threads overtake each other (app.py 249-273).
THEOREM RecentCorrect == Spec => []UnflaggedIsRecent
<1>1. Init => TypeOK /\ TimeInv
  BY InitTypeOK, InitTimeInv
<1>2. TypeOK /\ TimeInv /\ [Next]_vars => (TypeOK /\ TimeInv)'
  BY NextTypeOK, NextTimeInv
<1>3. TimeInv => UnflaggedIsRecent
  BY DEF TimeInv
<1> QED BY <1>1, <1>2, <1>3, PTL DEF Spec

\* A request that is overtaken sets the cache back by less than it lasts
\* (app.py 272).
THEOREM BackCorrect == Spec => CacheGoesBackLittle
<1>1. ASSUME TypeOK, TimeInv, [Next]_vars
      PROVE  [data.ok => data'.metar >= data.metar - MaxLatency]_vars
  <2> USE ConstantsType, TimesAreNumbers
  <2>1. CASE UNCHANGED data
    BY <1>1, <2>1
  <2>2. ASSUME NEW i \in Threads, Store(i) PROVE data'.metar >= data.metar - MaxLatency
    BY <2>2, <1>1 DEF Store, TimeInv, RequestTimes, CacheTimes, Active, Reporting
  <2>3. UNCHANGED data \/ \E i \in Threads : Store(i)
    BY <1>1 DEF Next, vars, Request, Check, Hit, Observe, Letter, Forecast, Stamp, Fail,
       Answered, Elapse
  <2> QED BY <2>1, <2>2, <2>3
<1>2. Init => TypeOK /\ TimeInv
  BY InitTypeOK, InitTimeInv
<1>3. TypeOK /\ TimeInv /\ [Next]_vars => (TypeOK /\ TimeInv)'
  BY NextTypeOK, NextTimeInv
<1> QED BY <1>1, <1>2, <1>3, PTL DEF Spec, CacheGoesBackLittle

-----------------------------------------------------------------------------
(* Letters and forecasts.  Both are about what one thread carries from its *)
(* fetch to the cache while the others change the cache.                   *)

\* The letters of the times at which a report observed at m may be made.
LettersFrom(m) == {((t % CycleLength) \div HourLength) % Letters : t \in m..(m + MaxLatency)}

\* Where a report has its letter.
Lettered == {"taf", "store", "stamp"}

\* A report that has its letter has one that fits, in a thread and in the
\* cache, and no forecast is cached without a report.
LetterInv ==
    /\ \A i \in Threads :
          pc[i] \in Lettered => out[i].ok /\ out[i].atis \in LettersFrom(out[i].metar)
    /\ data.ok => data.atis \in LettersFrom(data.metar)
    /\ data.taf => data.ok

\* A thread that is about to store a report without a forecast over one
\* with a forecast was under way when that one came in.
ForecastInv ==
    \A i \in Threads :
        pc[i] = "store" /\ ~out[i].taf /\ data.taf => out[i].metar <= data.metar + MaxLatency

\* While a thread works, its report is no older than the others' by more
\* than a request.
LEMMA ReportsOverlap ==
    ASSUME TypeOK, RequestTimes, NEW i \in Threads, NEW j \in Threads,
           pc[i] \in Reporting, pc[j] \in Reporting
    PROVE  out[i].metar <= out[j].metar + MaxLatency
  BY ConstantsType, TimesAreNumbers DEF RequestTimes, Active, Reporting

\* Only a store changes the cached report.
LEMMA OnlyStoreWrites ==
    [Next]_vars => UNCHANGED data \/ \E i \in Threads : Store(i)
  BY DEF Next, vars, Request, Check, Hit, Observe, Letter, Forecast, Stamp, Fail,
     Answered, Elapse

\* What a step makes of the report of a thread that has its letter, and how
\* the thread came to have it.
LEMMA LetteredStep ==
    ASSUME TypeOK, TimeInv, LetterInv, [Next]_vars, NEW j \in Threads, pc'[j] \in Lettered
    PROVE  /\ out'[j].ok
           /\ out'[j].atis \in LettersFrom(out'[j].metar)
<1> USE DEF LetterInv, TypeOK
<1>1. CASE UNCHANGED <<pc, out>>
  BY <1>1
<1>2. ASSUME NEW i \in Threads,
             \/ Request(i) \/ Check(i) \/ Hit(i) \/ Observe(i) \/ Stamp(i) \/ Fail(i) \/ Answered(i)
      PROVE  /\ pc[j] \in Lettered
             /\ out'[j] = out[j]
  BY <1>2 DEF Request, Check, Hit, Observe, Stamp, Fail, Answered, Return, Goto, Lettered
<1>3. ASSUME NEW i \in Threads, Store(i)
      PROVE  /\ pc[j] \in Lettered
             /\ out'[j] = out[j]
  BY <1>3 DEF Store, Goto, Lettered
<1>4. ASSUME NEW i \in Threads, Letter(i)
      PROVE  out'[j].ok /\ out'[j].atis \in LettersFrom(out'[j].metar)
  <2>1. CASE j # i
    BY <1>4, <2>1 DEF Letter, Goto, Lettered
  <2>2. CASE j = i
    <3>1. out'[j].ok /\ out'[j].atis = AtisLetter(clock) /\ out'[j].metar = out[j].metar
      BY <1>4, <2>2 DEF Letter, Reports
    <3>2. clock \in out[j].metar..(out[j].metar + MaxLatency)
      BY <1>4, <2>2, ConstantsType, TimesAreNumbers
         DEF Letter, TimeInv, RequestTimes, Active, Reporting
    <3> QED BY <3>1, <3>2 DEF LettersFrom, AtisLetter, Position
  <2> QED BY <2>1, <2>2
<1>5. ASSUME NEW i \in Threads, Forecast(i)
      PROVE  /\ pc[j] \in Lettered
             /\ out'[j].ok = out[j].ok /\ out'[j].atis = out[j].atis
             /\ out'[j].metar = out[j].metar
  BY <1>5 DEF Forecast, Goto, Lettered, Reports
<1>6. CASE Elapse
  BY <1>6 DEF Elapse
<1>7. \/ UNCHANGED <<pc, out>> \/ Elapse
      \/ \E i \in Threads :
            \/ Request(i) \/ Check(i) \/ Hit(i) \/ Observe(i) \/ Stamp(i) \/ Fail(i) \/ Answered(i)
            \/ Store(i) \/ Letter(i) \/ Forecast(i)
  BY DEF Next, vars
<1> QED BY <1>1, <1>2, <1>3, <1>4, <1>5, <1>6, <1>7

\* The letters stay right in every step.
LEMMA NextLetterInv == TypeOK /\ TimeInv /\ LetterInv /\ [Next]_vars => LetterInv'
<1> SUFFICES ASSUME TypeOK, TimeInv, LetterInv, [Next]_vars PROVE LetterInv'
  OBVIOUS
<1>1. \A j \in Threads :
         pc'[j] \in Lettered => out'[j].ok /\ out'[j].atis \in LettersFrom(out'[j].metar)
  BY LetteredStep
<1>2. CASE UNCHANGED data
  BY <1>1, <1>2 DEF LetterInv, LettersFrom
<1>3. ASSUME NEW i \in Threads, Store(i) PROVE LetterInv'
  <2>1. data' = out[i] /\ pc[i] \in Lettered
    BY <1>3 DEF Store, Lettered
  <2>2. data'.ok /\ data'.atis \in LettersFrom(data'.metar)
    BY <2>1 DEF LetterInv
  <2> QED BY <1>1, <2>2 DEF LetterInv, LettersFrom
<1> QED BY <1>2, <1>3, OnlyStoreWrites

\* No step leaves a thread about to drop a forecast that is much older than
\* its own report.
LEMMA NextForecastInv ==
    TypeOK /\ TimeInv /\ LetterInv /\ ForecastInv /\ [Next]_vars => ForecastInv'
<1> SUFFICES ASSUME TypeOK, TimeInv, LetterInv, ForecastInv, [Next]_vars,
                    NEW j \in Threads, pc'[j] = "store", ~out'[j].taf, data'.taf
             PROVE  out'[j].metar <= data'.metar + MaxLatency
  BY DEF ForecastInv
<1> USE DEF TypeOK
<1>1. CASE \E i \in Threads : Store(i)
  <2>1. PICK i \in Threads : Store(i)
    BY <1>1
  <2>2. pc[j] \in Reporting /\ pc[i] \in Reporting /\ out'[j] = out[j] /\ data' = out[i]
    BY <2>1 DEF Store, Goto, Reporting
  <2> QED BY <2>2, ReportsOverlap DEF TimeInv
<1>2. CASE UNCHANGED data /\ pc[j] = "store"
  <2>1. out'[j] = out[j]
    BY <1>2 DEF Next, vars, Request, Check, Hit, Observe, Letter, Forecast, Store, Stamp,
       Fail, Return, Answered, Elapse, Goto
  <2> QED BY <1>2, <2>1 DEF ForecastInv
<1>3. CASE UNCHANGED data /\ pc[j] # "store"
  <2>1. Forecast(j)
    <3>1. ASSUME NEW i \in Threads, i # j,
                 \/ Request(i) \/ Check(i) \/ Hit(i) \/ Observe(i) \/ Letter(i) \/ Forecast(i)
                 \/ Store(i) \/ Stamp(i) \/ Fail(i) \/ Answered(i)
          PROVE  pc'[j] = pc[j]
      BY <3>1 DEF Request, Check, Hit, Observe, Letter, Forecast, Store, Stamp, Fail, Return,
         Answered, Goto
    <3>2. ASSUME \/ Request(j) \/ Check(j) \/ Hit(j) \/ Observe(j) \/ Letter(j)
                 \/ Store(j) \/ Stamp(j) \/ Fail(j) \/ Answered(j)
          PROVE  pc'[j] # "store"
      BY <3>2 DEF Request, Check, Hit, Observe, Letter, Store, Stamp, Fail, Return, Answered,
         Goto
    <3>3. ASSUME Elapse \/ UNCHANGED vars PROVE pc' = pc
      BY <3>3 DEF Elapse, vars
    <3> QED BY <1>3, <3>1, <3>2, <3>3 DEF Next
  <2>2. ~LastForecast
    BY <2>1 DEF Forecast, LastForecast, Reports
  <2>3. data.taf => data.ok
    BY DEF LetterInv
  <2> QED BY <1>3, <2>2, <2>3 DEF LastForecast
<1> QED BY <1>1, <1>2, <1>3, OnlyStoreWrites

\* Before the first request there is neither letter nor forecast.
LEMMA InitLetterInv == Init => LetterInv /\ ForecastInv
  BY DEF Init, LetterInv, ForecastInv, NoReport, Lettered

\* The letter in the cache is one that the feed gave out while the report
\* beside it was being made, whoever stored it (metar_feed.py 233-251).
THEOREM LetterCorrect == Spec => []LetterFitsReport
<1>1. Init => TypeOK /\ TimeInv /\ LetterInv
  BY InitTypeOK, InitTimeInv, InitLetterInv
<1>2. TypeOK /\ TimeInv /\ LetterInv /\ [Next]_vars => (TypeOK /\ TimeInv /\ LetterInv)'
  BY NextTypeOK, NextTimeInv, NextLetterInv
<1>3. LetterInv => LetterFitsReport
  BY DEF LetterInv, LetterFitsReport, LettersFrom
<1> QED BY <1>1, <1>2, <1>3, PTL DEF Spec

\* A cached forecast is only lost to a request that was under way when it
\* came in: every later one copies it before it stores (app.py 270-274).
THEOREM ForecastCorrect == Spec => ForecastStays
<1> DEFINE IInv == TypeOK /\ TimeInv /\ LetterInv /\ ForecastInv
<1>1. ASSUME IInv, [Next]_vars
      PROVE  [data.taf /\ ~data'.taf => data'.metar <= data.metar + MaxLatency]_vars
  <2>1. CASE UNCHANGED data
    BY <1>1, <2>1
  <2>2. ASSUME NEW i \in Threads, Store(i), data.taf, ~data'.taf
        PROVE  data'.metar <= data.metar + MaxLatency
    BY <1>1, <2>2 DEF Store, ForecastInv
  <2> QED BY <1>1, <2>1, <2>2, OnlyStoreWrites
<1>2. Init => IInv
  BY InitTypeOK, InitTimeInv, InitLetterInv
<1>3. IInv /\ [Next]_vars => IInv'
  BY NextTypeOK, NextTimeInv, NextLetterInv, NextForecastInv
<1> HIDE DEF IInv
<1> QED BY <1>1, <1>2, <1>3, PTL DEF Spec, ForecastStays

-----------------------------------------------------------------------------
(* Induction, and sequences made of parts *)

\* A set of natural numbers that is not empty has a least element.
LEMMA LeastOf ==
    ASSUME NEW S, S \subseteq Nat, S # {}
    PROVE  \E n \in S : \A m \in S : n <= m
<1>1. IsWellFoundedOn(OpToRel(<, Nat), Nat)
  BY NatLessThanWellFounded
<1>2. PICK n \in S : \A m \in S : ~(<<m, n>> \in OpToRel(<, Nat))
  BY <1>1, WFMin
<1>3. \A m \in S : ~(m < n)
  BY <1>2 DEF OpToRel
<1> QED BY <1>3

\* Induction from 0 to m, for a set of numbers.
LEMMA InductionTo ==
    ASSUME NEW m \in Nat, NEW G, 0 \in G, \A n \in 0..(m - 1) : n \in G => n + 1 \in G
    PROVE  0..m \subseteq G
<1> DEFINE bad == {n \in 0..m : n \notin G}
<1> SUFFICES ASSUME bad # {} PROVE FALSE
  OBVIOUS
<1>1. bad \subseteq Nat
  OBVIOUS
<1>2. PICK n \in bad : \A k \in bad : n <= k
  <2> HIDE DEF bad
  <2> QED BY <1>1, LeastOf
<1>3. n \in 0..m /\ n \notin G /\ n # 0
  BY <1>2
<1>4. n - 1 \in 0..(m - 1) /\ (n - 1) + 1 = n /\ ~(n <= n - 1)
  BY <1>3
<1>5. n - 1 \in G
  BY <1>2, <1>4
<1> QED BY <1>3, <1>4, <1>5

\* A sequence of two.
LEMMA TwoAppended ==
    ASSUME NEW S, NEW x \in S, NEW y \in S
    PROVE  Append(<<x>>, y) = <<x, y>>
<1> DEFINE a == Append(<<x>>, y)
           b == <<x, y>>
<1>1. a \in Seq(S) /\ Len(a) = 2 /\ a[1] = x /\ a[2] = y
  <2>1. <<x>> \in Seq(S) /\ Len(<<x>>) = 1 /\ <<x>>[1] = x
    OBVIOUS
  <2> QED BY <2>1
<1>2. b \in Seq(S) /\ Len(b) = 2 /\ b[1] = x /\ b[2] = y
  OBVIOUS
<1> HIDE DEF a, b
<1>3. \A i \in 1..2 : a[i] = b[i]
  <2>1. \A i \in 1..2 : i = 1 \/ i = 2
    OBVIOUS
  <2> QED BY <1>1, <1>2, <2>1
<1>4. a = b
  BY <1>1, <1>2, <1>3, SeqEqual
<1> QED BY <1>4 DEF a, b

\* The pieces of a sequence made of two.
LEMMA TwoPlaced ==
    ASSUME NEW T, NEW p \in Seq(T), NEW q \in Seq(T)
    PROVE  /\ p \o q \in Seq(T) /\ Len(p \o q) = Len(p) + Len(q)
           /\ \A i \in 1..Len(p) : (p \o q)[i] = p[i]
           /\ \A i \in 1..Len(q) : (p \o q)[Len(p) + i] = q[i]
<1>1. Len(p) \in Nat /\ Len(q) \in Nat
  OBVIOUS
<1>2. /\ p \o q \in Seq(T) /\ Len(p \o q) = Len(p) + Len(q)
      /\ \A i \in 1..(Len(p) + Len(q)) : (p \o q)[i] = IF i <= Len(p) THEN p[i] ELSE q[i - Len(p)]
  OBVIOUS
<1>3. \A i \in 1..Len(p) : i \in 1..(Len(p) + Len(q)) /\ i <= Len(p)
  BY <1>1
<1>4. \A i \in 1..Len(q) : /\ Len(p) + i \in 1..(Len(p) + Len(q)) /\ ~(Len(p) + i <= Len(p))
                          /\ (Len(p) + i) - Len(p) = i
  BY <1>1
<1> QED BY <1>2, <1>3, <1>4

\* Five parts and their places in the sequence that they make.
Placed(s, a, v, x, k, e) ==
    /\ Len(s) = Len(a) + Len(v) + Len(x) + Len(k) + Len(e)
    /\ \A i \in 1..Len(a) : s[i] = a[i]
    /\ \A i \in 1..Len(v) : s[Len(a) + i] = v[i]
    /\ \A i \in 1..Len(x) : s[Len(a) + Len(v) + i] = x[i]
    /\ \A i \in 1..Len(k) : s[Len(a) + Len(v) + Len(x) + i] = k[i]
    /\ \A i \in 1..Len(e) : s[Len(a) + Len(v) + Len(x) + Len(k) + i] = e[i]

\* The pieces of a sequence made of five.
LEMMA FivePlaced ==
    ASSUME NEW T, NEW a \in Seq(T), NEW v \in Seq(T), NEW x \in Seq(T), NEW k \in Seq(T), NEW e \in Seq(T)
    PROVE  Placed(a \o v \o x \o k \o e, a, v, x, k, e)
<1> DEFINE av == a \o v
           avx == av \o x
           avxk == avx \o k
           all == avxk \o e
<1>0. Len(a) \in Nat /\ Len(v) \in Nat /\ Len(x) \in Nat /\ Len(k) \in Nat /\ Len(e) \in Nat
  OBVIOUS
<1>11. \A p, q \in Seq(T) : /\ p \o q \in Seq(T) /\ Len(p \o q) = Len(p) + Len(q)
                            /\ \A i \in 1..Len(p) : (p \o q)[i] = p[i]
                            /\ \A i \in 1..Len(q) : (p \o q)[Len(p) + i] = q[i]
  BY TwoPlaced
<1>1. /\ av \in Seq(T) /\ Len(av) = Len(a) + Len(v)
      /\ \A i \in 1..Len(a) : av[i] = a[i]
      /\ \A i \in 1..Len(v) : av[Len(a) + i] = v[i]
  BY TwoPlaced
<1> HIDE DEF av
<1>2. /\ avx \in Seq(T) /\ Len(avx) = Len(av) + Len(x)
      /\ \A i \in 1..Len(av) : avx[i] = av[i]
      /\ \A i \in 1..Len(x) : avx[Len(av) + i] = x[i]
  <2>1. av \in Seq(T)
    BY <1>1
  <2> QED BY <2>1, <1>11
<1> HIDE DEF avx
<1>3. /\ avxk \in Seq(T) /\ Len(avxk) = Len(avx) + Len(k)
      /\ \A i \in 1..Len(avx) : avxk[i] = avx[i]
      /\ \A i \in 1..Len(k) : avxk[Len(avx) + i] = k[i]
  <2>1. avx \in Seq(T)
    BY <1>2
  <2> QED BY <2>1, <1>11
<1> HIDE DEF avxk
<1>4. /\ all \in Seq(T) /\ Len(all) = Len(avxk) + Len(e)
      /\ \A i \in 1..Len(avxk) : all[i] = avxk[i]
      /\ \A i \in 1..Len(e) : all[Len(avxk) + i] = e[i]
  <2>1. avxk \in Seq(T)
    BY <1>3
  <2> QED BY <2>1, <1>11
<1> HIDE DEF all
<1>5. /\ Len(av) = Len(a) + Len(v) /\ Len(avx) = Len(a) + Len(v) + Len(x)
      /\ Len(avxk) = Len(a) + Len(v) + Len(x) + Len(k)
  BY <1>1, <1>2, <1>3
<1>6. \A i \in 1..Len(a) : all[i] = a[i]
  <2> TAKE i \in 1..Len(a)
  <2>1. i \in 1..Len(av) /\ i \in 1..Len(avx) /\ i \in 1..Len(avxk)
    BY <1>0, <1>5
  <2> QED BY <1>1, <1>2, <1>3, <1>4, <2>1
<1>7. \A i \in 1..Len(v) : all[Len(a) + i] = v[i]
  <2> TAKE i \in 1..Len(v)
  <2>1. Len(a) + i \in 1..Len(av) /\ Len(a) + i \in 1..Len(avx) /\ Len(a) + i \in 1..Len(avxk)
    BY <1>0, <1>5
  <2> QED BY <1>1, <1>2, <1>3, <1>4, <2>1
<1>8. \A i \in 1..Len(x) : all[Len(a) + Len(v) + i] = x[i]
  <2> TAKE i \in 1..Len(x)
  <2>1. Len(av) + i \in 1..Len(avx) /\ Len(av) + i \in 1..Len(avxk) /\ Len(av) + i = Len(a) + Len(v) + i
    BY <1>0, <1>5
  <2> QED BY <1>2, <1>3, <1>4, <2>1
<1>9. \A i \in 1..Len(k) : all[Len(a) + Len(v) + Len(x) + i] = k[i]
  <2> TAKE i \in 1..Len(k)
  <2>1. Len(avx) + i \in 1..Len(avxk) /\ Len(avx) + i = Len(a) + Len(v) + Len(x) + i
    BY <1>0, <1>5
  <2> QED BY <1>3, <1>4, <2>1
<1>10. all = a \o v \o x \o k \o e
  BY DEF all, avxk, avx, av
<1>12. Placed(all, a, v, x, k, e)
  BY <1>4, <1>5, <1>6, <1>7, <1>8, <1>9 DEF Placed
<1> QED BY <1>10, <1>12

-----------------------------------------------------------------------------
(* Numbers *)

\* Rounding to tens is off by five at most.
LEMMA RoundTen ==
    ASSUME NEW n \in Int
    PROVE  Round(n, 10) \in Int /\ Near(Round(n, 10), n)
<1> DEFINE q == n \div 10
           p == n % 10
<1>1. q \in Int /\ p \in Int /\ 0 <= p /\ p < 10 /\ n = 10 * q + p
  OBVIOUS
<1>2. Round(n, 10) = IF 2 * p < 10 \/ (2 * p = 10 /\ q % 2 = 0) THEN q ELSE q + 1
  BY DEF Round
<1> HIDE DEF q, p
<1>3. CASE 2 * p < 10 \/ (2 * p = 10 /\ q % 2 = 0)
  BY <1>1, <1>2, <1>3 DEF Near
<1>4. CASE ~(2 * p < 10 \/ (2 * p = 10 /\ q % 2 = 0))
  BY <1>1, <1>2, <1>4 DEF Near
<1> QED BY <1>3, <1>4

\* A direction in whole tens is within five degrees, around the compass.
LEMMA AroundTheCompass ==
    ASSUME NEW wdir \in Int, NEW k \in Int, Near(k, wdir), NEW dir \in Int,
           dir = (IF (k * 10) % 360 = 0 THEN 360 ELSE (k * 10) % 360)
    PROVE  ((dir - wdir + 180) % 360) - 180 \in -5..5
<1> DEFINE j == (k * 10) \div 360
           e == k * 10 - wdir
<1>1. e \in Int /\ -5 <= e /\ e <= 5
  BY DEF Near
<1>2. PICK i \in Int : dir = k * 10 - 360 * i
  <2>1. j \in Int /\ (k * 10) % 360 = k * 10 - 360 * j
    OBVIOUS
  <2> HIDE DEF j
  <2>2. CASE (k * 10) % 360 = 0
    <3>1. dir = k * 10 - 360 * (j - 1) /\ j - 1 \in Int
      BY <2>1, <2>2
    <3> QED BY <3>1
  <2>3. CASE (k * 10) % 360 # 0
    BY <2>1, <2>3
  <2> QED BY <2>2, <2>3
<1>3. dir - wdir + 180 = e + 180 - 360 * i
  BY <1>2
<1> HIDE DEF e
<1>4. (e + 180 - 360 * i) % 360 = e + 180
  BY <1>1
<1> QED BY <1>1, <1>3, <1>4

\* Every severity is in one of the bands.
LEMMA BandType ==
    ASSUME NEW w \in Int
    PROVE  Band(w) \in 0..6
<1> DEFINE Is(b) == (b < 6 => w < Edges[b + 1]) /\ \A i \in 1..b : w >= Edges[i]
<1>1. /\ Edges[1] = 20 /\ Edges[2] = 40 /\ Edges[3] = 58 /\ Edges[4] = 72
      /\ Edges[5] = 85 /\ Edges[6] = 93
  BY DEF Edges
<1>2. \E b \in 0..6 : Is(b)
  <2>1. CASE w < 20
    BY <1>1, <2>1
  <2>2. CASE 20 <= w /\ w < 40
    <3>1. Is(1)
      BY <1>1, <2>2
    <3> QED BY <3>1
  <2>3. CASE 40 <= w /\ w < 58
    <3>1. Is(2)
      BY <1>1, <2>3
    <3> QED BY <3>1
  <2>4. CASE 58 <= w /\ w < 72
    <3>1. Is(3)
      BY <1>1, <2>4
    <3> QED BY <3>1
  <2>5. CASE 72 <= w /\ w < 85
    <3>1. Is(4)
      BY <1>1, <2>5
    <3> QED BY <3>1
  <2>6. CASE 85 <= w /\ w < 93
    <3>1. Is(5)
      BY <1>1, <2>6
    <3> QED BY <3>1
  <2>7. CASE 93 <= w
    <3>1. Is(6)
      BY <1>1, <2>7
    <3> QED BY <3>1
  <2> QED BY <2>1, <2>2, <2>3, <2>4, <2>5, <2>6, <2>7
<1>3. Band(w) = CHOOSE b \in 0..6 : Is(b)
  BY DEF Band
<1> HIDE DEF Is
<1> QED BY <1>2, <1>3

\* The ceiling that is computed is between 200 and 4500 feet.
LEMMA BaseType ==
    ASSUME NEW w \in Nat
    PROVE  Base(w) \in 2..45
<1> DEFINE x == 4500 - 42 * w
           q == x \div 100
           p == x % 100
           b == Round(x, 100)
<1>1. x \in Int /\ x <= 4500
  OBVIOUS
<1> HIDE DEF x
<1>2. q \in Int /\ p \in 0..99 /\ x = 100 * q + p
  BY <1>1
<1>3. b = IF 2 * p < 100 \/ (2 * p = 100 /\ q % 2 = 0) THEN q ELSE q + 1
  BY DEF Round
<1> HIDE DEF q, p, b
<1>4. b \in Int /\ b <= 45
  <2>1. CASE b = q
    BY <1>1, <1>2, <2>1
  <2>2. CASE b = q + 1 /\ 2 * p >= 100
    BY <1>1, <1>2, <2>2
  <2>3. b = q \/ (b = q + 1 /\ 2 * p >= 100)
    BY <1>2, <1>3
  <2> QED BY <2>1, <2>2, <2>3
<1>5. Base(w) = IF b < 2 THEN 2 ELSE b
  BY DEF Base, x, b
<1> QED BY <1>4, <1>5

\* A temperature is read as it was rounded.
LEMMA SignedIs ==
    ASSUME NEW tenths \in Int
    PROVE  Signed(FmtTemp(tenths)) = Round(tenths, 10)
<1> DEFINE t == Round(tenths, 10)
           field == FmtTemp(tenths)
<1>1. t \in Int
  BY RoundTen
<1>2. t < 0 => field.minus
  BY Zenon DEF FmtTemp
<1>3. ~(t < 0) => ~field.minus
  BY Zenon DEF FmtTemp
<1>4. field.digits = IF t < 0 THEN -t ELSE t
  BY Zenon DEF FmtTemp
<1>5. Signed(field) = IF field.minus THEN -field.digits ELSE field.digits
  BY Zenon DEF Signed
<1> HIDE DEF field, t
<1>6. (t < 0 => Signed(field) = -field.digits) /\ (~(t < 0) => Signed(field) = field.digits)
  BY <1>2, <1>3, <1>5, Zenon
<1>7. Signed(field) = t
  BY <1>1, <1>4, <1>6
<1> QED BY <1>7 DEF field, t

\* One layer.
OneLayer(w, c, b) == b \in 2..100 /\ Layers(w) = << <<c, b>> >>
\* One layer and a higher one.
TwoLayers(w, c1, c2, b1, b2) ==
    b1 \in 2..100 /\ b2 \in 2..100 /\ b1 < b2 /\ Layers(w) = << <<c1, b1>>, <<c2, b2>> >>

\* Every sky is one of these.
LEMMA LayersAre ==
    ASSUME NEW w \in Nat
    PROVE  \/ \E c, b : OneLayer(w, c, b)
           \/ \E c1, c2, b1, b2 : TwoLayers(w, c1, c2, b1, b2)
<1>1. Band(w) \in 0..6 /\ Base(w) \in 2..45
  BY BandType, BaseType
<1>2. CASE Band(w) \in {0, 1, 4, 5, 6}
  <2>1. \E c : Layers(w) = << <<c, Base(w)>> >>
    BY <1>2 DEF Layers
  <2> QED BY <1>1, <2>1 DEF OneLayer
<1>3. CASE Band(w) = 2
  <2> DEFINE b1 == IF Base(w) < 18 THEN 8 ELSE Base(w) - 10
             b2 == Base(w) + 20
  <2>1. b1 \in 2..100 /\ b2 \in 2..100 /\ b1 < b2
    BY <1>1
  <2>2. Layers(w) = << <<"SCT", b1>>, <<"BKN", b2>> >>
    BY <1>3 DEF Layers
  <2>3. TwoLayers(w, "SCT", "BKN", b1, b2)
    BY <2>1, <2>2 DEF TwoLayers
  <2> HIDE DEF b1, b2
  <2> QED BY <2>3, Zenon
<1>4. CASE Band(w) = 3
  <2> DEFINE b1 == Base(w)
             b2 == Base(w) + 25
  <2>1. b1 \in 2..100 /\ b2 \in 2..100 /\ b1 < b2
    BY <1>1
  <2>2. Layers(w) = << <<"BKN", b1>>, <<"OVC", b2>> >>
    BY <1>4 DEF Layers
  <2>3. TwoLayers(w, "BKN", "OVC", b1, b2)
    BY <2>1, <2>2 DEF TwoLayers
  <2> HIDE DEF b1, b2
  <2> QED BY <2>3, Zenon
<1>5. Band(w) \in {0, 1, 4, 5, 6} \/ Band(w) = 2 \/ Band(w) = 3
  BY <1>1
<1> QED BY <1>2, <1>3, <1>4, <1>5, Zenon

\* The ceiling of one layer.
LEMMA CeilingOfOne ==
    ASSUME NEW w, NEW c1, NEW b1, OneLayer(w, c1, b1)
    PROVE  CeilingOf(w) = IF IsCeiling(c1) THEN b1 ELSE NoCeiling
<1> DEFINE ceilings == {Layers(w)[i][2] : i \in {j \in DOMAIN Layers(w) : IsCeiling(Layers(w)[j][1])}}
<1>1. ceilings = IF IsCeiling(c1) THEN {b1} ELSE {}
  <2>1. DOMAIN Layers(w) = {1} /\ Layers(w)[1] = <<c1, b1>>
    BY DEF OneLayer
  <2> QED BY <2>1
<1>2. CeilingOf(w) = IF ceilings = {} THEN NoCeiling ELSE CHOOSE b \in ceilings : \A y \in ceilings : b <= y
  BY DEF CeilingOf
<1> HIDE DEF ceilings
<1>3. b1 \in Int
  BY DEF OneLayer
<1>4. CASE IsCeiling(c1)
  <2>1. ceilings = {b1}
    BY <1>1, <1>4
  <2> QED BY <1>2, <1>3, <1>4, <2>1
<1>5. CASE ~IsCeiling(c1)
  BY <1>1, <1>2, <1>5
<1> QED BY <1>4, <1>5

\* The ceiling of two layers.
LEMMA CeilingOfTwo ==
    ASSUME NEW w, NEW c1, NEW c2, NEW b1, NEW b2, TwoLayers(w, c1, c2, b1, b2)
    PROVE  CeilingOf(w) = IF IsCeiling(c1) THEN b1 ELSE IF IsCeiling(c2) THEN b2 ELSE NoCeiling
<1> DEFINE ceilings == {Layers(w)[i][2] : i \in {j \in DOMAIN Layers(w) : IsCeiling(Layers(w)[j][1])}}
<1>1. ceilings = (IF IsCeiling(c1) THEN {b1} ELSE {}) \cup (IF IsCeiling(c2) THEN {b2} ELSE {})
  <2>1. DOMAIN Layers(w) = {1, 2} /\ Layers(w)[1] = <<c1, b1>> /\ Layers(w)[2] = <<c2, b2>>
    BY DEF TwoLayers
  <2> QED BY <2>1
<1>2. CeilingOf(w) = IF ceilings = {} THEN NoCeiling ELSE CHOOSE b \in ceilings : \A y \in ceilings : b <= y
  BY DEF CeilingOf
<1> HIDE DEF ceilings
<1>7. b1 \in Int /\ b2 \in Int /\ b1 < b2
  BY DEF TwoLayers
<1>3. CASE IsCeiling(c1) /\ IsCeiling(c2)
  <2>1. ceilings = {b1, b2}
    BY <1>1, <1>3
  <2> QED BY <1>2, <1>3, <1>7, <2>1
<1>4. CASE IsCeiling(c1) /\ ~IsCeiling(c2)
  <2>1. ceilings = {b1}
    BY <1>1, <1>4
  <2> QED BY <1>2, <1>4, <2>1
<1>5. CASE ~IsCeiling(c1) /\ IsCeiling(c2)
  <2>1. ceilings = {b2}
    BY <1>1, <1>5
  <2> QED BY <1>2, <1>5, <2>1
<1>6. CASE ~IsCeiling(c1) /\ ~IsCeiling(c2)
  BY <1>1, <1>2, <1>6
<1> QED BY <1>3, <1>4, <1>5, <1>6

\* The decoder's category is the worse of the two.
LEMMA CategoryIs ==
    ASSUME NEW ceiling \in Int, NEW half \in Int
    PROVE  FlightCat(ceiling, half) = CategoryOf(ceiling, half)
<1> DEFINE x == IF ceiling < 5 THEN 3 ELSE IF ceiling < 10 THEN 2 ELSE IF ceiling <= 30 THEN 1 ELSE 0
           y == IF half < 2 THEN 3 ELSE IF half < 6 THEN 2 ELSE IF half <= 10 THEN 1 ELSE 0
           z == Worse(x, y)
<1>1. z \in 0..3
  BY DEF Worse
<1>2. FlightCat(ceiling, half) = IF z = 3 THEN "LIFR" ELSE IF z = 2 THEN "IFR" ELSE IF z = 1 THEN "MVFR" ELSE "VFR"
  <2>1. /\ ceiling < 5 \/ half < 2 => z = 3
        /\ ~(ceiling < 5 \/ half < 2) /\ (ceiling < 10 \/ half < 6) => z = 2
        /\ ~(ceiling < 10 \/ half < 6) /\ (ceiling <= 30 \/ half <= 10) => z = 1
        /\ ~(ceiling <= 30 \/ half <= 10) => z = 0
    BY DEF Worse
  <2>2. /\ ceiling < 5 \/ half < 2 => ceiling < 10 \/ half < 6
        /\ ceiling < 10 \/ half < 6 => ceiling <= 30 \/ half <= 10
    OBVIOUS
  <2> HIDE DEF z
  <2>3. CASE ceiling < 5 \/ half < 2
    BY <2>1, <2>3 DEF FlightCat
  <2>4. CASE ~(ceiling < 5 \/ half < 2) /\ (ceiling < 10 \/ half < 6)
    BY <2>1, <2>4 DEF FlightCat
  <2>5. CASE ~(ceiling < 10 \/ half < 6) /\ (ceiling <= 30 \/ half <= 10)
    BY <2>1, <2>2, <2>5 DEF FlightCat
  <2>6. CASE ~(ceiling <= 30 \/ half <= 10)
    BY <2>1, <2>2, <2>6 DEF FlightCat
  <2> QED BY <2>2, <2>3, <2>4, <2>5, <2>6
<1>3. CategoryOf(ceiling, half) = <<"VFR", "MVFR", "IFR", "LIFR">>[1 + z]
  BY Zenon DEF CategoryOf
<1> HIDE DEF z
<1> QED BY <1>1, <1>2, <1>3

\* One token of whole miles.
WholeMiles(v, half) == v = << [kind |-> "miles", whole |-> half \div 2] >> /\ 2 * (half \div 2) = half
\* Two tokens that say a mile and a half.
MileAndHalf(v, half) ==
    /\ v = << [kind |-> "digits", whole |-> 1], [kind |-> "fraction", num |-> 1, den |-> 2] >>
    /\ half = 3

\* Every visibility is one of these.
LEMMA VisIs ==
    ASSUME NEW w \in Nat
    PROVE  /\ Visibility(w) \in Nat
           /\ \/ WholeMiles(VisTokens(Visibility(w)), Visibility(w))
              \/ MileAndHalf(VisTokens(Visibility(w)), Visibility(w))
<1> DEFINE half == Visibility(w)
<1>1. half \in {20, 16, 12, 8, 4, 3}
  <2>1. Band(w) \in 0..6
    BY BandType
  <2> QED BY <2>1 DEF Visibility
<1> HIDE DEF half
<1>2. CASE half = 3
  <2>1. half % 2 = 1 /\ half \div 2 = 1
    BY <1>2
  <2>2. MileAndHalf(VisTokens(half), half)
    BY <1>2, <2>1 DEF VisTokens, MileAndHalf
  <2> QED BY <1>2, <2>2 DEF half
<1>3. CASE half # 3
  <2>1. half % 2 = 0 /\ 2 * (half \div 2) = half /\ half \in Nat
    BY <1>1, <1>3
  <2>2. WholeMiles(VisTokens(half), half)
    BY <2>1 DEF VisTokens, WholeMiles
  <2> QED BY <2>1, <2>2 DEF half
<1> QED BY <1>2, <1>3

\* The weather in a report.
WeatherTokens(w) ==
    IF Present(w) = "" THEN << >> ELSE << [kind |-> "weather", codes |-> Present(w)] >>
\* What follows the sky.
EndTokens(c) ==
    << [kind |-> "temp", temp |-> FmtTemp(c.temp), dew |-> FmtTemp(c.dew)],
       [kind |-> "altimeter", inhg |-> Round(c.inhg, 10)], [kind |-> "RMK"], [kind |-> "remark"] >>

\* The tokens of a report, by their places.
LEMMA Tokens ==
    ASSUME NEW c, c.w \in Nat
    PROVE  LET toks == Metar(c)
               v == VisTokens(Visibility(c.w))
               x == WeatherTokens(c.w)
               k == SkyTokens(c.w)
               e == EndTokens(c)
           IN  /\ Len(v) \in Nat /\ Len(x) \in Nat /\ Len(k) \in Nat
               /\ Len(toks) = 2 + Len(v) + Len(x) + Len(k) + 4
               /\ toks[1] = [kind |-> "word"] /\ toks[2] = WindToken(c)
               /\ \A i \in 1..Len(v) : toks[2 + i] = v[i]
               /\ \A i \in 1..Len(x) : toks[2 + Len(v) + i] = x[i]
               /\ \A i \in 1..Len(k) : toks[2 + Len(v) + Len(x) + i] = k[i]
               /\ \A i \in 1..4 : toks[2 + Len(v) + Len(x) + Len(k) + i] = e[i]
<1> DEFINE toks == Metar(c)
           a == << [kind |-> "word"], WindToken(c) >>
           v == VisTokens(Visibility(c.w))
           x == WeatherTokens(c.w)
           k == SkyTokens(c.w)
           e == EndTokens(c)
           T == {a[i] : i \in 1..2} \cup {v[i] : i \in 1..2} \cup {x[i] : i \in 1..1}
                  \cup {k[i] : i \in 1..2} \cup {e[i] : i \in 1..4}
<1>1. a \in Seq(T) /\ Len(a) = 2 /\ a[1] = [kind |-> "word"] /\ a[2] = WindToken(c)
  <2>1. a \in Seq({a[i] : i \in 1..2})
    OBVIOUS
  <2> QED BY <2>1
<1>2. v \in Seq(T)
  <2> DEFINE V == {v[i] : i \in 1..2}
  <2>1. v \in Seq(V)
    <3>1. CASE WholeMiles(v, Visibility(c.w))
      BY <3>1 DEF WholeMiles
    <3>2. CASE MileAndHalf(v, Visibility(c.w))
      BY <3>2 DEF MileAndHalf
    <3> QED BY <3>1, <3>2, VisIs
  <2>2. V \subseteq T
    OBVIOUS
  <2> HIDE DEF V, T, v
  <2> QED BY <2>1, <2>2
<1>3. x \in Seq(T)
  <2> DEFINE X == {x[i] : i \in 1..1}
  <2>1. x \in Seq(X)
    <3>1. CASE x = << >>
      <4> HIDE DEF X
      <4> QED BY <3>1
    <3>2. CASE x = << [kind |-> "weather", codes |-> Present(c.w)] >>
      <4>1. x[1] \in X /\ x = <<x[1]>>
        BY <3>2
      <4> HIDE DEF X, x
      <4>2. \A y \in X : <<y>> \in Seq(X)
        OBVIOUS
      <4> QED BY <4>1, <4>2
    <3>3. x = << >> \/ x = << [kind |-> "weather", codes |-> Present(c.w)] >>
      BY DEF WeatherTokens
    <3> QED BY <3>1, <3>2, <3>3
  <2>2. X \subseteq T
    OBVIOUS
  <2> HIDE DEF X, T, x
  <2> QED BY <2>1, <2>2
<1>4. k \in Seq(T)
  <2>1. Len(Layers(c.w)) \in 1..2 /\ DOMAIN Layers(c.w) = 1..Len(Layers(c.w))
    <3>1. CASE \E p, b : OneLayer(c.w, p, b)
      BY <3>1 DEF OneLayer
    <3>2. CASE \E p1, p2, b1, b2 : TwoLayers(c.w, p1, p2, b1, b2)
      BY <3>2 DEF TwoLayers
    <3> QED BY <3>1, <3>2, LayersAre
  <2> DEFINE n == Len(Layers(c.w))
  <2>2. k = [i \in 1..n |-> k[i]] /\ n \in 1..2
    BY <2>1 DEF SkyTokens
  <2>3. \A i \in 1..n : k[i] \in T
    BY <2>2
  <2> HIDE DEF T, k, n
  <2> QED BY <2>2, <2>3
<1>5. e \in Seq(T) /\ Len(e) = 4
  <2>1. e \in Seq({e[i] : i \in 1..4}) /\ Len(e) = 4
    BY DEF EndTokens
  <2> QED BY <2>1
<1>6. toks = a \o v \o x \o k \o e
  BY DEF Metar, WeatherTokens, EndTokens
<1> HIDE DEF a, v, x, k, e, T, toks
<1>7. /\ Len(toks) = Len(a) + Len(v) + Len(x) + Len(k) + Len(e)
      /\ \A i \in 1..Len(a) : toks[i] = a[i]
      /\ \A i \in 1..Len(v) : toks[Len(a) + i] = v[i]
      /\ \A i \in 1..Len(x) : toks[Len(a) + Len(v) + i] = x[i]
      /\ \A i \in 1..Len(k) : toks[Len(a) + Len(v) + Len(x) + i] = k[i]
      /\ \A i \in 1..Len(e) : toks[Len(a) + Len(v) + Len(x) + Len(k) + i] = e[i]
  <2>1. \A a1, v1, x1, k1, e1 \in Seq(T) : Placed(a1 \o v1 \o x1 \o k1 \o e1, a1, v1, x1, k1, e1)
    BY FivePlaced
  <2>2. Placed(a \o v \o x \o k \o e, a, v, x, k, e)
    <3>1. a \in Seq(T) /\ v \in Seq(T) /\ x \in Seq(T) /\ k \in Seq(T) /\ e \in Seq(T)
      BY <1>1, <1>2, <1>3, <1>4, <1>5
    <3> QED BY <2>1, <3>1
  <2> QED BY <1>6, <2>2 DEF Placed
<1>8. Len(v) \in Nat /\ Len(x) \in Nat /\ Len(k) \in Nat
  BY <1>2, <1>3, <1>4
<1>9. toks[1] = [kind |-> "word"] /\ toks[2] = WindToken(c)
  BY <1>1, <1>7
<1>10. /\ Len(toks) = 2 + Len(v) + Len(x) + Len(k) + 4
       /\ \A i \in 1..Len(v) : toks[2 + i] = v[i]
       /\ \A i \in 1..Len(x) : toks[2 + Len(v) + i] = x[i]
       /\ \A i \in 1..Len(k) : toks[2 + Len(v) + Len(x) + i] = k[i]
       /\ \A i \in 1..4 : toks[2 + Len(v) + Len(x) + Len(k) + i] = e[i]
  BY <1>1, <1>5, <1>7
<1> QED BY <1>8, <1>9, <1>10 DEF toks, v, x, k, e

-----------------------------------------------------------------------------
(* The decoder *)

\* The fields that it has read.
Has(d, wt, vis, wx, layers, ceiling, temp, dew, inhg) ==
    d = [dir |-> wt.dir, spd |-> wt.spd, gust |-> wt.gust, vis |-> vis, wx |-> wx, layers |-> layers,
         ceiling |-> ceiling, temp |-> temp, dew |-> dew, inhg |-> inhg]

\* Its state after token n, from the one before.
ReadNext(d, toks, n) ==
    IF n = 0 THEN Blank
    ELSE IF \E j \in 1..n : toks[j].kind = "RMK" THEN d
    ELSE ReadToken(d, toks, n)
\* The states that it goes through up to token k.
Reading(read, toks, k) == read = [n \in 0..k |-> ReadNext(read[n - 1], toks, n)]

\* It reads every report to its end.
LEMMA ReadingExists ==
    ASSUME NEW toks, Len(toks) \in Nat
    PROVE  \E read : Reading(read, toks, Len(toks)) /\ Decode(toks) = read[Len(toks)]
<1> DEFINE m == Len(toks)
           G == {k \in 0..m : \E read : Reading(read, toks, k)}
<1>1. 0 \in G
  <2>1. Reading([n \in 0..0 |-> Blank], toks, 0)
    BY DEF Reading, ReadNext
  <2> QED BY <2>1
<1>2. ASSUME NEW k \in 0..(m - 1), k \in G PROVE k + 1 \in G
  <2>1. PICK f : Reading(f, toks, k)
    BY <1>2
  <2> DEFINE g == [n \in 0..(k + 1) |-> IF n <= k THEN f[n] ELSE ReadNext(f[k], toks, k + 1)]
  <2>2. ASSUME NEW n \in 0..(k + 1) PROVE g[n] = ReadNext(g[n - 1], toks, n)
    <3>1. CASE n = 0
      <4>1. g[n] = f[n] /\ n \in 0..k
        BY <3>1
      <4> HIDE DEF g
      <4> QED BY <2>1, <3>1, <4>1 DEF Reading, ReadNext
    <3>2. CASE n # 0 /\ n <= k
      <4>1. g[n] = f[n] /\ g[n - 1] = f[n - 1] /\ n \in 0..k
        BY <3>2
      <4> HIDE DEF g
      <4> QED BY <2>1, <4>1 DEF Reading
    <3>3. CASE n = k + 1
      <4>1. g[n] = ReadNext(f[k], toks, k + 1) /\ g[n - 1] = f[k]
        BY <3>3
      <4> HIDE DEF g
      <4> QED BY <3>3, <4>1
    <3> QED BY <3>1, <3>2, <3>3
  <2>3. g = [n \in 0..(k + 1) |-> g[n]]
    OBVIOUS
  <2> HIDE DEF g
  <2>4. Reading(g, toks, k + 1)
    BY <2>2, <2>3 DEF Reading
  <2> QED BY <2>4
<1>3. PICK f : Reading(f, toks, m)
  <2>1. \A k \in 0..(m - 1) : k \in G => k + 1 \in G
    BY <1>2
  <2> HIDE DEF G
  <2>2. 0..m \subseteq G
    BY <1>1, <2>1, InductionTo
  <2>3. m \in G
    BY <2>2
  <2> QED BY <2>3 DEF G
<1> DEFINE read == CHOOSE g : Reading(g, toks, m)
<1>4. Reading(read, toks, m)
  BY <1>3
<1>5. Decode(toks) = read[m]
  BY DEF Decode, Reading, ReadNext
<1> HIDE DEF read
<1> QED BY <1>4, <1>5

\* A token that says nothing.
LEMMA ReadNothing ==
    ASSUME NEW d, NEW toks, NEW i, toks[i].kind \in {"word", "digits"}
    PROVE  ReadToken(d, toks, i) = d
BY DEF ReadToken, ReadMiles

\* Wind.
LEMMA ReadWind ==
    ASSUME NEW d, NEW wt, NEW vis, NEW wx, NEW layers, NEW ceiling, NEW temp, NEW dew, NEW inhg,
           NEW toks, NEW i, Has(d, wt, vis, wx, layers, ceiling, temp, dew, inhg),
           toks[i].kind = "wind"
    PROVE  Has(ReadToken(d, toks, i), toks[i], vis, wx, layers, ceiling, temp, dew, inhg)
BY DEF ReadToken, Has

\* Whole miles.
LEMMA ReadWhole ==
    ASSUME NEW d, NEW wt, NEW vis, NEW wx, NEW layers, NEW ceiling, NEW temp, NEW dew, NEW inhg,
           NEW toks, NEW i, Has(d, wt, vis, wx, layers, ceiling, temp, dew, inhg),
           toks[i].kind = "miles"
    PROVE  Has(ReadToken(d, toks, i), wt, 2 * toks[i].whole, wx, layers, ceiling, temp, dew, inhg)
BY DEF ReadToken, ReadMiles, Has

\* Half a mile, after a number of whole ones.
LEMMA ReadFraction ==
    ASSUME NEW d, NEW wt, NEW vis, NEW wx, NEW layers, NEW ceiling, NEW temp, NEW dew, NEW inhg,
           NEW toks, NEW i, NEW half, Has(d, wt, vis, wx, layers, ceiling, temp, dew, inhg),
           i > 1, i \in Nat, toks[i - 1].kind = "digits", toks[i - 1].whole \in Int,
           half = 2 * toks[i - 1].whole + 1,
           toks[i] = [kind |-> "fraction", num |-> 1, den |-> 2]
    PROVE  Has(ReadToken(d, toks, i), wt, half, wx, layers, ceiling, temp, dew, inhg)
BY DEF ReadToken, ReadMiles, Has

\* Weather.
LEMMA ReadWeather ==
    ASSUME NEW d, NEW wt, NEW vis, NEW wx, NEW layers, NEW ceiling, NEW temp, NEW dew, NEW inhg,
           NEW toks, NEW i, Has(d, wt, vis, wx, layers, ceiling, temp, dew, inhg),
           toks[i].kind = "weather"
    PROVE  Has(ReadToken(d, toks, i), wt, vis, toks[i].codes, layers, ceiling, temp, dew, inhg)
BY DEF ReadToken, Has

\* A layer, of which the first that is a ceiling counts.
LEMMA ReadSky ==
    ASSUME NEW d, NEW wt, NEW vis, NEW wx, NEW layers, NEW ceiling, NEW temp, NEW dew, NEW inhg,
           NEW toks, NEW i, NEW more, NEW lowest, Has(d, wt, vis, wx, layers, ceiling, temp, dew, inhg),
           toks[i].kind = "sky", more = Append(layers, <<toks[i].cover, toks[i].base>>),
           lowest = (IF IsCeiling(toks[i].cover) /\ ceiling = NoCeiling THEN toks[i].base ELSE ceiling)
    PROVE  Has(ReadToken(d, toks, i), wt, vis, wx, more, lowest, temp, dew, inhg)
BY DEF ReadToken, Has

\* Temperatures.
LEMMA ReadTemp ==
    ASSUME NEW d, NEW wt, NEW vis, NEW wx, NEW layers, NEW ceiling, NEW temp, NEW dew, NEW inhg,
           NEW toks, NEW i, Has(d, wt, vis, wx, layers, ceiling, temp, dew, inhg),
           toks[i].kind = "temp"
    PROVE  Has(ReadToken(d, toks, i), wt, vis, wx, layers, ceiling,
               Signed(toks[i].temp), Signed(toks[i].dew), inhg)
BY DEF ReadToken, Has

\* Pressure.
LEMMA ReadAltimeter ==
    ASSUME NEW d, NEW wt, NEW vis, NEW wx, NEW layers, NEW ceiling, NEW temp, NEW dew, NEW inhg,
           NEW toks, NEW i, Has(d, wt, vis, wx, layers, ceiling, temp, dew, inhg),
           toks[i].kind = "altimeter"
    PROVE  Has(ReadToken(d, toks, i), wt, vis, wx, layers, ceiling, temp, dew, toks[i].inhg)
BY DEF ReadToken, Has

\* The layers as they are spelt.
LEMMA SkyIs ==
    ASSUME NEW w \in Nat
    PROVE  LET k == SkyTokens(w)
           IN  \A i \in 1..Len(k) : k[i].kind = "sky"
<1>1. DOMAIN Layers(w) = 1..Len(Layers(w)) /\ Len(Layers(w)) \in Nat
  <2>1. CASE \E p, b : OneLayer(w, p, b)
    BY <2>1 DEF OneLayer
  <2>2. CASE \E p1, p2, b1, b2 : TwoLayers(w, p1, p2, b1, b2)
    BY <2>2 DEF TwoLayers
  <2> QED BY <2>1, <2>2, LayersAre
<1>2. Len(SkyTokens(w)) = Len(Layers(w))
  BY <1>1 DEF SkyTokens
<1> QED BY <1>1, <1>2 DEF SkyTokens

\* The decoder gets every part of a report back.
LEMMA ReportRead ==
    ASSUME NEW c, c.w \in Nat
    PROVE  Has(Decode(Metar(c)), WindToken(c), Visibility(c.w), Present(c.w), Layers(c.w),
               CeilingOf(c.w), Signed(FmtTemp(c.temp)), Signed(FmtTemp(c.dew)), Round(c.inhg, 10))
<1> DEFINE toks == Metar(c)
           wt == WindToken(c)
           half == Visibility(c.w)
           v == VisTokens(half)
           x == WeatherTokens(c.w)
           k == SkyTokens(c.w)
           e == EndTokens(c)
           n2 == 2 + Len(v)
           n3 == n2 + Len(x)
           n4 == n3 + Len(k)
<1>1. /\ Len(v) \in Nat /\ Len(x) \in Nat /\ Len(k) \in Nat
      /\ Len(toks) = n4 + 4
      /\ toks[1] = [kind |-> "word"] /\ toks[2] = wt
      /\ \A i \in 1..Len(v) : toks[2 + i] = v[i]
      /\ \A i \in 1..Len(x) : toks[n2 + i] = x[i]
      /\ \A i \in 1..Len(k) : toks[n3 + i] = k[i]
      /\ \A i \in 1..4 : toks[n4 + i] = e[i]
  BY Tokens
<1>2. wt.kind = "wind"
  BY DEF WindToken
<1>3. \A i \in 1..Len(v) : v[i].kind # "RMK"
  <2>1. CASE WholeMiles(v, half)
    BY <2>1 DEF WholeMiles
  <2>2. CASE MileAndHalf(v, half)
    BY <2>2 DEF MileAndHalf
  <2> QED BY <2>1, <2>2, VisIs
<1>4. \A i \in 1..Len(x) : x[i].kind # "RMK"
  <2>1. x = << >> \/ x = << [kind |-> "weather", codes |-> Present(c.w)] >>
    BY DEF WeatherTokens
  <2> HIDE DEF x
  <2> QED BY <2>1
<1>5. \A i \in 1..Len(k) : k[i].kind = "sky"
  BY SkyIs
<1>6. e[1].kind = "temp" /\ e[2].kind = "altimeter" /\ e[3].kind = "RMK"
  BY DEF EndTokens
<1>7. n2 \in Nat /\ n3 \in Nat /\ n4 \in Nat /\ 2 <= n2 /\ n2 <= n3 /\ n3 <= n4
  BY <1>1
<1> HIDE DEF toks, wt, half, v, x, k, e, n2, n3, n4
<1>8. ASSUME NEW j \in 1..(n4 + 2) PROVE toks[j].kind # "RMK"
  <2>1. CASE j <= 2
    BY <1>1, <1>2, <2>1
  <2>2. CASE 2 < j /\ j <= n2
    <3>1. j - 2 \in 1..Len(v) /\ 2 + (j - 2) = j
      BY <1>1, <2>2 DEF n2
    <3> QED BY <1>1, <1>3, <3>1
  <2>3. CASE n2 < j /\ j <= n3
    <3>1. j - n2 \in 1..Len(x) /\ n2 + (j - n2) = j
      BY <1>1, <1>7, <2>3 DEF n3
    <3> QED BY <1>1, <1>4, <3>1
  <2>4. CASE n3 < j /\ j <= n4
    <3>1. j - n3 \in 1..Len(k) /\ n3 + (j - n3) = j
      BY <1>1, <1>7, <2>4 DEF n4
    <3> QED BY <1>1, <1>5, <3>1
  <2>5. CASE j \in {n4 + 1, n4 + 2}
    <3>1. toks[n4 + 1] = e[1] /\ toks[n4 + 2] = e[2]
      BY <1>1
    <3> QED BY <1>6, <2>5, <3>1
  <2> QED BY <1>7, <2>1, <2>2, <2>3, <2>4, <2>5
<1>9. PICK read : Reading(read, toks, n4 + 4) /\ Decode(toks) = read[n4 + 4]
  <2>1. Len(toks) \in Nat
    BY <1>1, <1>7
  <2> QED BY <1>1, <2>1, ReadingExists
<1>10. ASSUME NEW n \in 1..(n4 + 2) PROVE read[n] = ReadToken(read[n - 1], toks, n)
  <2>1. n \in 0..(n4 + 4) /\ n # 0 /\ \A j \in 1..n : j \in 1..(n4 + 2)
    BY <1>7
  <2>2. ~(\E j \in 1..n : toks[j].kind = "RMK")
    BY <1>8, <2>1
  <2>3. read[n] = ReadNext(read[n - 1], toks, n)
    BY <1>9, <2>1 DEF Reading
  <2> QED BY <2>1, <2>2, <2>3 DEF ReadNext
<1>11. read[n4 + 4] = read[n4 + 2]
  <2>1. ASSUME NEW n \in {n4 + 3, n4 + 4} PROVE read[n] = read[n - 1]
    <3>1. n \in 0..(n4 + 4) /\ n # 0 /\ n4 + 3 \in 1..n
      BY <1>7
    <3>2. toks[n4 + 3].kind = "RMK"
      BY <1>1, <1>6
    <3>3. read[n] = ReadNext(read[n - 1], toks, n)
      BY <1>9, <3>1 DEF Reading
    <3> QED BY <3>1, <3>2, <3>3 DEF ReadNext
  <2>2. (n4 + 4) - 1 = n4 + 3 /\ (n4 + 3) - 1 = n4 + 2
    BY <1>7
  <2> QED BY <2>1, <2>2
<1>12. Has(read[2], wt, 198, "", << >>, NoCeiling, 0, 0, 0)
  <2> DEFINE calm == [dir |-> 0, spd |-> 0, gust |-> 0]
  <2>1. Has(read[0], calm, 198, "", << >>, NoCeiling, 0, 0, 0)
    <3>1. 0 \in 0..(n4 + 4)
      BY <1>7
    <3> QED BY <1>9, <3>1 DEF Reading, ReadNext, Blank, Has
  <2>2. read[1] = read[0]
    <3>1. 1 \in 1..(n4 + 2) /\ 1 - 1 = 0
      BY <1>7
    <3>2. read[1] = ReadToken(read[0], toks, 1)
      BY <1>10, <3>1
    <3>3. toks[1].kind \in {"word", "digits"}
      BY <1>1
    <3> QED BY <3>2, <3>3, ReadNothing
  <2>3. 2 \in 1..(n4 + 2) /\ 2 - 1 = 1
    BY <1>7
  <2>4. read[2] = ReadToken(read[1], toks, 2)
    BY <1>10, <2>3
  <2> HIDE DEF calm
  <2>5. Has(read[1], calm, 198, "", << >>, NoCeiling, 0, 0, 0)
    BY <2>1, <2>2
  <2>6. toks[2] = wt /\ toks[2].kind = "wind"
    BY <1>1, <1>2
  <2>7. Has(ReadToken(read[1], toks, 2), toks[2], 198, "", << >>, NoCeiling, 0, 0, 0)
    BY <2>5, <2>6, ReadWind
  <2> QED BY <2>4, <2>6, <2>7
<1>13. Has(read[n2], wt, half, "", << >>, NoCeiling, 0, 0, 0)
  <2>1. CASE WholeMiles(v, half)
    <3>1. Len(v) = 1 /\ v[1].kind = "miles" /\ 2 * v[1].whole = half
      BY <2>1 DEF WholeMiles
    <3>2. n2 = 3 /\ 1 \in 1..Len(v)
      BY <3>1 DEF n2
    <3>3. toks[3] = v[1]
      BY <1>1, <3>2
    <3>4. read[3] = ReadToken(read[2], toks, 3)
      <4>1. 3 \in 1..(n4 + 2) /\ 3 - 1 = 2
        BY <1>7, <3>2
      <4> QED BY <1>10, <4>1
    <3> QED BY <1>12, <3>1, <3>2, <3>3, <3>4, ReadWhole
  <2>2. CASE MileAndHalf(v, half)
    <3>1. Len(v) = 2 /\ v[1].kind = "digits" /\ v[1].whole = 1 /\ half = 3
          /\ v[2] = [kind |-> "fraction", num |-> 1, den |-> 2]
      BY <2>2 DEF MileAndHalf
    <3>2. n2 = 4 /\ 1 \in 1..Len(v) /\ 2 \in 1..Len(v)
      BY <3>1 DEF n2
    <3>3. toks[3] = v[1] /\ toks[4] = v[2]
      <4>1. toks[2 + 1] = v[1] /\ toks[2 + 2] = v[2]
        BY <1>1, <3>2
      <4> QED BY <4>1
    <3>4. read[3] = ReadToken(read[2], toks, 3) /\ read[4] = ReadToken(read[3], toks, 4)
      <4>1. 3 \in 1..(n4 + 2) /\ 3 - 1 = 2 /\ 4 \in 1..(n4 + 2) /\ 4 - 1 = 3
        BY <1>7, <3>2
      <4> QED BY <1>10, <4>1
    <3>5. read[3] = read[2]
      BY <3>1, <3>3, <3>4, ReadNothing
    <3>6. /\ toks[4 - 1].kind = "digits" /\ toks[4 - 1].whole = 1
          /\ toks[4] = [kind |-> "fraction", num |-> 1, den |-> 2]
      BY <3>1, <3>3
    <3>7. half = 2 * toks[4 - 1].whole + 1 /\ 4 \in Nat /\ 4 > 1 /\ toks[4 - 1].whole \in Int
      BY <3>1, <3>6
    <3>8. Has(ReadToken(read[2], toks, 4), wt, half, "", << >>, NoCeiling, 0, 0, 0)
      BY <1>12, <3>6, <3>7, ReadFraction
    <3> QED BY <3>2, <3>4, <3>5, <3>8
  <2> QED BY <2>1, <2>2, VisIs DEF v, half
<1>14. Has(read[n3], wt, half, Present(c.w), << >>, NoCeiling, 0, 0, 0)
  <2>1. CASE Present(c.w) = ""
    <3>1. Len(x) = 0
      BY <2>1 DEF x, WeatherTokens
    <3>2. n3 = n2
      BY <1>7, <3>1 DEF n3
    <3> QED BY <1>13, <2>1, <3>2
  <2>2. CASE Present(c.w) # ""
    <3>1. Len(x) = 1 /\ x[1].kind = "weather" /\ x[1].codes = Present(c.w)
      BY <2>2 DEF x, WeatherTokens
    <3>2. n3 = n2 + 1 /\ 1 \in 1..Len(x) /\ n3 \in 1..(n4 + 2) /\ n3 - 1 = n2
      BY <1>7, <3>1 DEF n3
    <3>3. toks[n3] = x[1] /\ read[n3] = ReadToken(read[n2], toks, n3)
      BY <1>1, <1>10, <3>2
    <3> QED BY <1>13, <3>1, <3>3, ReadWeather
  <2> QED BY <2>1, <2>2
<1>15. Has(read[n4], wt, half, Present(c.w), Layers(c.w), CeilingOf(c.w), 0, 0, 0)
  <2>1. CASE \E p, b : OneLayer(c.w, p, b)
    <3>1. PICK p, b : OneLayer(c.w, p, b)
      BY <2>1
    <3>2. Len(k) = 1 /\ k[1].kind = "sky" /\ k[1].cover = p /\ k[1].base = b
      BY <3>1 DEF k, SkyTokens, OneLayer
    <3>3. n4 = n3 + 1 /\ 1 \in 1..Len(k) /\ n4 \in 1..(n4 + 2) /\ n4 - 1 = n3
      BY <1>7, <3>2 DEF n4
    <3>4. toks[n4] = k[1] /\ read[n4] = ReadToken(read[n3], toks, n4)
      BY <1>1, <1>10, <3>3
    <3>5. Layers(c.w) = Append(<< >>, <<toks[n4].cover, toks[n4].base>>)
      BY <3>1, <3>2, <3>4 DEF OneLayer
    <3>6. CeilingOf(c.w) = (IF IsCeiling(toks[n4].cover) /\ NoCeiling = NoCeiling THEN toks[n4].base ELSE NoCeiling)
      BY <3>1, <3>2, <3>4, CeilingOfOne
    <3>7. toks[n4].kind = "sky"
      BY <3>2, <3>4
    <3>8. Has(ReadToken(read[n3], toks, n4), wt, half, Present(c.w), Layers(c.w), CeilingOf(c.w), 0, 0, 0)
      BY <1>14, <3>5, <3>6, <3>7, ReadSky
    <3> QED BY <3>4, <3>8
  <2>2. CASE \E p1, p2, b1, b2 : TwoLayers(c.w, p1, p2, b1, b2)
    <3>1. PICK p1, p2, b1, b2 : TwoLayers(c.w, p1, p2, b1, b2)
      BY <2>2
    <3>2. /\ Len(k) = 2 /\ k[1].kind = "sky" /\ k[1].cover = p1 /\ k[1].base = b1
          /\ k[2].kind = "sky" /\ k[2].cover = p2 /\ k[2].base = b2
      BY <3>1 DEF k, SkyTokens, TwoLayers
    <3>3. /\ n4 = n3 + 2 /\ 1 \in 1..Len(k) /\ 2 \in 1..Len(k) /\ n4 \in 1..(n4 + 2) /\ n4 - 1 = n3 + 1
          /\ n3 + 1 \in 1..(n4 + 2) /\ (n3 + 1) - 1 = n3
      BY <1>7, <3>2 DEF n4
    <3>4. /\ toks[n3 + 1] = k[1] /\ read[n3 + 1] = ReadToken(read[n3], toks, n3 + 1)
          /\ toks[n4] = k[2] /\ read[n4] = ReadToken(read[n3 + 1], toks, n4)
      BY <1>1, <1>10, <3>3
    <3> DEFINE first == IF IsCeiling(p1) /\ NoCeiling = NoCeiling THEN b1 ELSE NoCeiling
               one == Append(<< >>, <<p1, b1>>)
    <3>5. Has(ReadToken(read[n3], toks, n3 + 1), wt, half, Present(c.w), one, first, 0, 0, 0)
      <4>1. /\ toks[n3 + 1].kind = "sky"
            /\ one = Append(<< >>, <<toks[n3 + 1].cover, toks[n3 + 1].base>>)
            /\ first = (IF IsCeiling(toks[n3 + 1].cover) /\ NoCeiling = NoCeiling
                        THEN toks[n3 + 1].base ELSE NoCeiling)
        BY <3>2, <3>4
      <4> HIDE DEF one, first
      <4> QED BY <1>14, <4>1, ReadSky
    <3>6. Has(read[n3 + 1], wt, half, Present(c.w), one, first, 0, 0, 0)
      BY <3>4, <3>5
    <3>7. Layers(c.w) = Append(one, <<p2, b2>>)
      <4> DEFINE y == <<p1, b1>>
                 z == <<p2, b2>>
      <4>1. Layers(c.w) = <<y, z>> /\ one = <<y>>
        BY <3>1 DEF TwoLayers
      <4> HIDE DEF y, z, one
      <4>2. y \in {y, z} /\ z \in {y, z}
        OBVIOUS
      <4>3. Append(<<y>>, z) = <<y, z>>
        BY <4>2, TwoAppended
      <4> QED BY <4>1, <4>3 DEF z
    <3>8. b1 # NoCeiling
      BY <3>1 DEF TwoLayers, NoCeiling
    <3>9. CeilingOf(c.w) = IF IsCeiling(p2) /\ first = NoCeiling THEN b2 ELSE first
      <4>1. CeilingOf(c.w) = IF IsCeiling(p1) THEN b1 ELSE IF IsCeiling(p2) THEN b2 ELSE NoCeiling
        BY <3>1, CeilingOfTwo
      <4> QED BY <3>8, <4>1
    <3> HIDE DEF one, first
    <3>10. /\ toks[n4].kind = "sky"
           /\ Layers(c.w) = Append(one, <<toks[n4].cover, toks[n4].base>>)
           /\ CeilingOf(c.w) = (IF IsCeiling(toks[n4].cover) /\ first = NoCeiling THEN toks[n4].base ELSE first)
      BY <3>2, <3>4, <3>7, <3>9
    <3>11. Has(ReadToken(read[n3 + 1], toks, n4), wt, half, Present(c.w), Layers(c.w), CeilingOf(c.w), 0, 0, 0)
      BY <3>6, <3>10, ReadSky
    <3> QED BY <3>4, <3>11
  <2> QED BY <2>1, <2>2, LayersAre
<1>16. Has(read[n4 + 2], wt, half, Present(c.w), Layers(c.w), CeilingOf(c.w),
                        Signed(FmtTemp(c.temp)), Signed(FmtTemp(c.dew)), Round(c.inhg, 10))
  <2>1. /\ n4 + 1 \in 1..(n4 + 2) /\ (n4 + 1) - 1 = n4
        /\ n4 + 2 \in 1..(n4 + 2) /\ (n4 + 2) - 1 = n4 + 1
    BY <1>7
  <2>2. /\ toks[n4 + 1] = e[1] /\ read[n4 + 1] = ReadToken(read[n4], toks, n4 + 1)
        /\ toks[n4 + 2] = e[2] /\ read[n4 + 2] = ReadToken(read[n4 + 1], toks, n4 + 2)
    BY <1>1, <1>10, <2>1
  <2>3. e[1].temp = FmtTemp(c.temp) /\ e[1].dew = FmtTemp(c.dew) /\ e[2].inhg = Round(c.inhg, 10)
    BY DEF e, EndTokens
  <2>4. Has(read[n4 + 1], wt, half, Present(c.w), Layers(c.w), CeilingOf(c.w),
                         Signed(FmtTemp(c.temp)), Signed(FmtTemp(c.dew)), 0)
    BY <1>6, <1>15, <2>2, <2>3, ReadTemp
  <2> QED BY <1>6, <2>2, <2>3, <2>4, ReadAltimeter
<1> QED BY <1>9, <1>11, <1>16 DEF toks, wt, half

\* Every report is kept: of any severity, wind, temperature and pressure.
THEOREM AllReportsKept ==
    ASSUME NEW c, c.w \in Nat, c.wdir \in Int, c.wspd \in Int, c.gust \in Int,
           c.temp \in Int, c.dew \in Int, c.inhg \in Int
    PROVE  ReportKept(c)
<1> DEFINE d == Decode(Metar(c))
           wt == WindToken(c)
<1>1. Has(d, wt, Visibility(c.w), Present(c.w), Layers(c.w), CeilingOf(c.w),
          Signed(FmtTemp(c.temp)), Signed(FmtTemp(c.dew)), Round(c.inhg, 10))
  BY ReportRead
<1>2. /\ d.dir = wt.dir /\ d.spd = wt.spd /\ d.gust = wt.gust /\ d.inhg = Round(c.inhg, 10)
      /\ d.vis = Visibility(c.w) /\ d.wx = Present(c.w)
      /\ d.layers = Layers(c.w) /\ d.ceiling = CeilingOf(c.w)
      /\ d.temp = Signed(FmtTemp(c.temp)) /\ d.dew = Signed(FmtTemp(c.dew))
  <2> HIDE DEF d, wt
  <2> QED BY <1>1 DEF Has
<1>3. Near(d.temp, c.temp) /\ Near(d.dew, c.dew) /\ Near(d.inhg, c.inhg)
  <2>1. d.temp = Round(c.temp, 10) /\ d.dew = Round(c.dew, 10)
    BY <1>2, SignedIs
  <2>2. Near(d.inhg, c.inhg)
    BY <1>2, RoundTen
  <2> QED BY <2>1, <2>2, RoundTen
<1>4. c.wspd >= 30 => ((d.dir - c.wdir + 180) % 360) - 180 \in -5..5 /\ Near(d.spd, c.wspd)
  <2> SUFFICES ASSUME c.wspd >= 30
               PROVE  ((d.dir - c.wdir + 180) % 360) - 180 \in -5..5 /\ Near(d.spd, c.wspd)
    OBVIOUS
  <2> DEFINE k == Round(c.wdir, 10)
             q == (k * 10) % 360
  <2>1. k \in Int /\ Near(k, c.wdir) /\ Near(Round(c.wspd, 10), c.wspd)
    BY RoundTen
  <2>2. ~(c.wspd < 30)
    OBVIOUS
  <2>3. wt.dir = (IF q = 0 THEN 360 ELSE q) /\ wt.spd = Round(c.wspd, 10)
    BY <2>2 DEF WindToken
  <2> HIDE DEF k, d, wt
  <2>4. q \in Int
    BY <2>1
  <2>5. d.dir \in Int /\ d.dir = (IF (k * 10) % 360 = 0 THEN 360 ELSE (k * 10) % 360)
    BY <1>2, <2>3, <2>4
  <2>6. ((d.dir - c.wdir + 180) % 360) - 180 \in -5..5
    <3> DEFINE wdir == c.wdir
               dir == d.dir
    <3>1. /\ wdir \in Int /\ k \in Int /\ Near(k, wdir) /\ dir \in Int
          /\ dir = (IF (k * 10) % 360 = 0 THEN 360 ELSE (k * 10) % 360)
      BY <2>1, <2>5
    <3> HIDE DEF wdir, dir
    <3>2. ((dir - wdir + 180) % 360) - 180 \in -5..5
      BY <3>1, AroundTheCompass
    <3> QED BY <3>2 DEF wdir, dir
  <2> QED BY <1>2, <2>1, <2>3, <2>6
<1>5. FlightCat(d.ceiling, d.vis) = CategoryOf(CeilingOf(c.w), Visibility(c.w))
  <2>1. Visibility(c.w) \in Int
    BY VisIs
  <2>2. CeilingOf(c.w) \in Int
    <3>1. CASE \E p, b : OneLayer(c.w, p, b)
      <4>1. PICK p, b : OneLayer(c.w, p, b)
        BY <3>1
      <4> QED BY <4>1, CeilingOfOne DEF OneLayer, NoCeiling
    <3>2. CASE \E p1, p2, b1, b2 : TwoLayers(c.w, p1, p2, b1, b2)
      <4>1. PICK p1, p2, b1, b2 : TwoLayers(c.w, p1, p2, b1, b2)
        BY <3>2
      <4> QED BY <4>1, CeilingOfTwo DEF TwoLayers, NoCeiling
    <3> QED BY <3>1, <3>2, LayersAre
  <2> HIDE DEF d
  <2> QED BY <1>2, <2>1, <2>2, CategoryIs
<1>6. IF Gusty(c) THEN Near(d.gust, c.gust) ELSE d.gust = 0
  <2>1. wt.gust = IF Gusty(c) THEN Round(c.gust, 10) ELSE 0
    BY DEF WindToken, Gusty
  <2>2. Near(Round(c.gust, 10), c.gust)
    BY RoundTen
  <2> HIDE DEF d, wt
  <2> QED BY <1>2, <2>1, <2>2
<1> QED BY <1>2, <1>3, <1>4, <1>5, <1>6 DEF ReportKept

-----------------------------------------------------------------------------
(* The forecast *)

\* The forecast after the hour h, from the one before.
TafNext(before, bands, h) ==
    IF h = 0 THEN << >>
    ELSE IF h = 1 \/ bands[h] # before[Len(before)].band
    THEN Append(before, [from |-> h, band |-> bands[h]]) ELSE before
\* The forecasts up to every hour.
Forecasting(taf, bands, k) == taf = [h \in 0..k |-> TafNext(taf[h - 1], bands, h)]

\* It covers every hour.
LEMMA ForecastingExists ==
    ASSUME NEW bands, Len(bands) \in Nat
    PROVE  \E taf : Forecasting(taf, bands, Len(bands)) /\ Taf(bands) = taf[Len(bands)]
<1> DEFINE m == Len(bands)
           G == {k \in 0..m : \E taf : Forecasting(taf, bands, k)}
<1>1. 0 \in G
  <2>1. Forecasting([n \in 0..0 |-> << >>], bands, 0)
    BY DEF Forecasting, TafNext
  <2> QED BY <2>1
<1>2. ASSUME NEW k \in 0..(m - 1), k \in G PROVE k + 1 \in G
  <2>1. PICK f : Forecasting(f, bands, k)
    BY <1>2
  <2> DEFINE g == [n \in 0..(k + 1) |-> IF n <= k THEN f[n] ELSE TafNext(f[k], bands, k + 1)]
  <2>2. ASSUME NEW n \in 0..(k + 1) PROVE g[n] = TafNext(g[n - 1], bands, n)
    <3>1. CASE n = 0
      <4>1. g[n] = f[n] /\ n \in 0..k
        BY <3>1
      <4> HIDE DEF g
      <4> QED BY <2>1, <3>1, <4>1 DEF Forecasting, TafNext
    <3>2. CASE n # 0 /\ n <= k
      <4>1. g[n] = f[n] /\ g[n - 1] = f[n - 1] /\ n \in 0..k
        BY <3>2
      <4> HIDE DEF g
      <4> QED BY <2>1, <4>1 DEF Forecasting
    <3>3. CASE n = k + 1
      <4>1. g[n] = TafNext(f[k], bands, k + 1) /\ g[n - 1] = f[k]
        BY <3>3
      <4> HIDE DEF g
      <4> QED BY <3>3, <4>1
    <3> QED BY <3>1, <3>2, <3>3
  <2>3. g = [n \in 0..(k + 1) |-> g[n]]
    OBVIOUS
  <2> HIDE DEF g
  <2>4. Forecasting(g, bands, k + 1)
    BY <2>2, <2>3 DEF Forecasting
  <2> QED BY <2>4
<1>3. PICK f : Forecasting(f, bands, m)
  <2>1. \A k \in 0..(m - 1) : k \in G => k + 1 \in G
    BY <1>2
  <2> HIDE DEF G
  <2>2. 0..m \subseteq G
    BY <1>1, <2>1, InductionTo
  <2>3. m \in G
    BY <2>2
  <2> QED BY <2>3 DEF G
<1> DEFINE taf == CHOOSE g : Forecasting(g, bands, m)
<1>4. Forecasting(taf, bands, m)
  BY <1>3
<1>5. Taf(bands) = taf[m]
  BY DEF Taf, Forecasting, TafNext
<1> HIDE DEF taf
<1> QED BY <1>4, <1>5

\* What a group of a forecast can say.
Groups == [from : Nat, band : 0..6]

\* The groups up to an hour k begin one after the other by then, the first
\* in the first hour, and the one in force tells the band of every hour.
TellsUpTo(taf, bands, k) ==
    /\ taf \in Seq(Groups) /\ Len(taf) > 0 /\ taf[1].from = 1
    /\ \A n \in 1..Len(taf) : taf[n].from <= k
    /\ \A n \in 1..(Len(taf) - 1) : taf[n].from < taf[n + 1].from
    /\ taf[Len(taf)].band = bands[k]
    /\ \A h \in 1..k : \E n \in 1..Len(taf) :
          /\ taf[n].from <= h /\ taf[n].band = bands[h]
          /\ \A j \in 1..Len(taf) : taf[j].from <= h => j <= n

\* The next hour keeps that.
LEMMA TellsNext ==
    ASSUME NEW bands, NEW k \in Nat, k > 0, bands[k + 1] \in 0..6, NEW taf, TellsUpTo(taf, bands, k)
    PROVE  TellsUpTo(TafNext(taf, bands, k + 1), bands, k + 1)
<1> DEFINE m == Len(taf)
           b == bands[k + 1]
           new == TafNext(taf, bands, k + 1)
<1>1. /\ taf \in Seq(Groups) /\ m \in Nat /\ m > 0 /\ taf[1].from = 1
      /\ \A n \in 1..m : taf[n].from <= k
      /\ \A n \in 1..(m - 1) : taf[n].from < taf[n + 1].from
      /\ taf[m].band = bands[k]
  BY DEF TellsUpTo
<1>2. \A h \in 1..k : \E n \in 1..m : /\ taf[n].from <= h /\ taf[n].band = bands[h]
                                      /\ \A j \in 1..m : taf[j].from <= h => j <= n
  BY DEF TellsUpTo
<1>3. \A n \in 1..m : taf[n] \in Groups /\ taf[n].from \in Nat
  <2>1. \A n \in 1..m : taf[n] \in Groups
    BY <1>1
  <2> QED BY <2>1 DEF Groups
<1>4. CASE b = taf[m].band
  <2>1. new = taf
    BY <1>4 DEF TafNext
  <2>2. \A n \in 1..m : taf[n].from <= k + 1
    BY <1>1, <1>3
  <2>3. ASSUME NEW h \in 1..(k + 1)
        PROVE  \E n \in 1..m : /\ taf[n].from <= h /\ taf[n].band = bands[h]
                               /\ \A j \in 1..m : taf[j].from <= h => j <= n
    <3>1. CASE h \in 1..k
      BY <1>2, <3>1
    <3>2. CASE h = k + 1
      <4>1. m \in 1..m /\ taf[m].from <= h /\ taf[m].band = bands[h]
        BY <1>1, <1>4, <2>2, <3>2
      <4>2. \A j \in 1..m : j <= m
        BY <1>1
      <4> QED BY <4>1, <4>2
    <3> QED BY <3>1, <3>2
  <2> QED BY <1>1, <1>4, <2>1, <2>2, <2>3 DEF TellsUpTo
<1>5. CASE b # taf[m].band
  <2> DEFINE g == [from |-> k + 1, band |-> b]
  <2>1. new = Append(taf, g)
    BY <1>5 DEF TafNext
  <2>2. g \in Groups /\ g.from = k + 1 /\ g.band = b
    BY DEF Groups
  <2> HIDE DEF g, new
  <2>3. /\ new \in Seq(Groups) /\ Len(new) = m + 1 /\ new[m + 1] = g
        /\ \A n \in 1..m : new[n] = taf[n]
    BY <1>1, <2>1, <2>2
  <2>4. \A n \in 1..(m + 1) : n \in 1..m \/ n = m + 1
    BY <1>1
  <2>5. ASSUME NEW n \in 1..(m + 1) PROVE new[n].from <= k + 1
    <3>1. CASE n \in 1..m
      <4>1. taf[n].from <= k /\ taf[n].from \in Nat
        BY <1>1, <1>3, <3>1
      <4> QED BY <2>3, <3>1, <4>1
    <3>2. CASE n = m + 1
      BY <2>2, <2>3, <3>2
    <3> QED BY <2>4, <3>1, <3>2
  <2>6. ASSUME NEW n \in 1..((m + 1) - 1) PROVE new[n].from < new[n + 1].from
    <3>1. CASE n = m
      <4>1. taf[n].from <= k /\ taf[n].from \in Nat /\ m \in 1..m
        BY <1>1, <1>3, <3>1
      <4> QED BY <2>2, <2>3, <3>1, <4>1
    <3>2. CASE n # m
      <4>1. n \in 1..(m - 1) /\ n \in 1..m /\ n + 1 \in 1..m
        BY <1>1, <3>2
      <4> QED BY <1>1, <2>3, <4>1
    <3> QED BY <3>1, <3>2
  <2>7. ASSUME NEW h \in 1..(k + 1)
        PROVE  \E n \in 1..(m + 1) : /\ new[n].from <= h /\ new[n].band = bands[h]
                                     /\ \A j \in 1..(m + 1) : new[j].from <= h => j <= n
    <3>1. CASE h \in 1..k
      <4>1. PICK n \in 1..m : /\ taf[n].from <= h /\ taf[n].band = bands[h]
                              /\ \A j \in 1..m : taf[j].from <= h => j <= n
        BY <1>2, <3>1
      <4>2. n \in 1..(m + 1) /\ new[n] = taf[n]
        BY <1>1, <2>3
      <4>3. ~(new[m + 1].from <= h)
        BY <2>2, <2>3, <3>1
      <4>4. \A j \in 1..(m + 1) : new[j].from <= h => j <= n
        BY <2>3, <2>4, <4>1, <4>3
      <4> QED BY <4>1, <4>2, <4>4
    <3>2. CASE h = k + 1
      <4>1. m + 1 \in 1..(m + 1) /\ new[m + 1].from <= h /\ new[m + 1].band = bands[h]
        BY <1>1, <2>2, <2>3, <3>2
      <4>2. \A j \in 1..(m + 1) : j <= m + 1
        BY <1>1
      <4> QED BY <4>1, <4>2
    <3> QED BY <3>1, <3>2
  <2>8. new[1].from = 1 /\ new[m + 1].band = bands[k + 1] /\ m + 1 > 0
    <3>1. 1 \in 1..m
      BY <1>1
    <3> QED BY <1>1, <2>2, <2>3, <3>1
  <2>9. TellsUpTo(new, bands, k + 1)
    BY <2>3, <2>5, <2>6, <2>7, <2>8 DEF TellsUpTo
  <2> QED BY <2>9 DEF new
<1> QED BY <1>4, <1>5

\* Every forecast is kept, however long.
THEOREM AllForecastsKept ==
    ASSUME NEW bands \in Seq(0..6)
    PROVE  ForecastKept(bands)
<1> DEFINE m == Len(bands)
<1>1. m \in Nat /\ DOMAIN bands = 1..m /\ \A h \in 1..m : bands[h] \in 0..6
  OBVIOUS
<1>2. PICK taf : Forecasting(taf, bands, m) /\ Taf(bands) = taf[m]
  BY <1>1, ForecastingExists
<1>3. \A h \in 0..m : taf[h] = TafNext(taf[h - 1], bands, h)
  BY <1>2 DEF Forecasting
<1> HIDE DEF m
<1> DEFINE G == {k \in 0..m : k > 0 => TellsUpTo(taf[k], bands, k)}
<1>4. 0 \in G
  BY <1>1
<1>5. ASSUME NEW k \in 0..(m - 1), k \in G PROVE k + 1 \in G
  <2>1. k + 1 \in 0..m /\ (k + 1) - 1 = k /\ k \in Nat /\ k + 1 \in 1..m
    BY <1>1
  <2>2. taf[k + 1] = TafNext(taf[k], bands, k + 1) /\ bands[k + 1] \in 0..6
    BY <1>1, <1>3, <2>1
  <2>3. CASE k > 0
    <3>1. TellsUpTo(taf[k], bands, k)
      BY <1>5, <2>3
    <3>2. TellsUpTo(TafNext(taf[k], bands, k + 1), bands, k + 1)
      BY <2>1, <2>2, <2>3, <3>1, TellsNext
    <3> QED BY <2>1, <2>2, <3>2
  <2>4. CASE k = 0
    <3> DEFINE g == [from |-> 1, band |-> bands[1]]
    <3>1. taf[0] = << >>
      <4>1. 0 \in 0..m
        BY <1>1
      <4> QED BY <1>3, <4>1 DEF TafNext
    <3>2. taf[1] = Append(<< >>, g)
      BY <2>2, <2>4, <3>1 DEF TafNext
    <3>3. g \in Groups /\ g.from = 1 /\ g.band = bands[1]
      BY <2>2, <2>4 DEF Groups
    <3> HIDE DEF g
    <3>4. taf[1] \in Seq(Groups) /\ Len(taf[1]) = 1 /\ taf[1][1] = g
      BY <3>2, <3>3
    <3>5. \A h \in 1..1 : h = 1
      OBVIOUS
    <3>6. TellsUpTo(taf[1], bands, 1)
      BY <3>3, <3>4, <3>5 DEF TellsUpTo
    <3> QED BY <2>1, <2>4, <3>6
  <2> QED BY <2>1, <2>3, <2>4
<1>6. 0..m \subseteq G
  <2>1. \A k \in 0..(m - 1) : k \in G => k + 1 \in G
    BY <1>5
  <2> HIDE DEF G
  <2> QED BY <1>1, <1>4, <2>1, InductionTo
<1>7. ASSUME NEW h \in 1..m PROVE Taf(bands)[InForce(Taf(bands), h)].band = bands[h]
  <2> DEFINE t == taf[m]
             Is(n) == t[n].from <= h /\ \A j \in DOMAIN t : t[j].from <= h => j <= n
  <2>1. TellsUpTo(t, bands, m)
    <3>1. m \in 0..m /\ m > 0
      BY <1>1
    <3> QED BY <1>6, <3>1
  <2> HIDE DEF t
  <2>2. DOMAIN t = 1..Len(t) /\ Len(t) \in Nat
    BY <2>1 DEF TellsUpTo
  <2>3. PICK n \in DOMAIN t : Is(n) /\ t[n].band = bands[h]
    <3>1. PICK n \in 1..Len(t) : /\ t[n].from <= h /\ t[n].band = bands[h]
                                 /\ \A j \in 1..Len(t) : t[j].from <= h => j <= n
      BY <2>1 DEF TellsUpTo
    <3> QED BY <2>2, <3>1
  <2>4. InForce(t, h) = CHOOSE n1 \in DOMAIN t : Is(n1)
    BY DEF InForce
  <2>5. InForce(t, h) \in DOMAIN t /\ Is(InForce(t, h))
    <3>1. (CHOOSE n1 \in DOMAIN t : Is(n1)) \in DOMAIN t /\ Is(CHOOSE n1 \in DOMAIN t : Is(n1))
      <4> HIDE DEF Is
      <4> QED BY <2>3
    <3> QED BY <2>4, <3>1
  <2>6. InForce(t, h) <= n /\ n <= InForce(t, h)
    BY <2>3, <2>5
  <2>7. InForce(t, h) = n
    BY <2>2, <2>3, <2>5, <2>6
  <2> QED BY <1>2, <2>3, <2>7 DEF t
<1> QED BY <1>1, <1>7 DEF ForecastKept

\* The run has one of the severities.
LEMMA SeverityKept == MCSpec => [](severity \in 0..OffScale)
<1>1. MCInit => severity \in 0..OffScale
  BY DEF MCInit
<1>2. severity \in 0..OffScale /\ [MCNext]_<<vars, severity>> => (severity \in 0..OffScale)'
  BY DEF MCNext
<1> QED BY <1>1, <1>2, PTL DEF MCSpec

\* What the feed writes is what its readers take out of it, reports and
\* forecasts (metar_feed.py 98-214, app.py 55-140).
THEOREM WeatherCorrect == MCSpec => []WeatherIsReadBack
<1>1. ASSUME severity \in 0..OffScale PROVE WeatherIsReadBack
  <2>1. severity \in Nat
    BY <1>1 DEF OffScale
  <2>2. ASSUME NEW wdir \in {0, 4, 5, 184, 355, 359}, NEW wspd \in {0, 40, 95, 231},
               NEW over \in {0, 40, 87}, NEW temp \in {-104, -4, 5, 95}
        PROVE  ReportKept(Sample(wdir, wspd, over, temp))
    <3> DEFINE c == Sample(wdir, wspd, over, temp)
    <3>1. /\ c.w \in Nat /\ c.wdir \in Int /\ c.wspd \in Int /\ c.gust \in Int
          /\ c.temp \in Int /\ c.dew \in Int /\ c.inhg \in Int
      BY <2>1 DEF Sample
    <3> HIDE DEF c
    <3>2. ReportKept(c)
      BY <3>1, AllReportsKept
    <3> QED BY <3>2 DEF c
  <2>3. ASSUME NEW later \in [1..4 -> {0, 1, 3, 6}] PROVE ForecastKept(<<Band(severity)>> \o later)
    <3>1. later \in Seq(0..6)
      <4>1. later \in [1..4 -> 0..6] /\ 4 \in Nat
        OBVIOUS
      <4> QED BY <4>1, SeqDef
    <3>2. Band(severity) \in 0..6
      BY <2>1, BandType
    <3>3. <<Band(severity)>> \o later \in Seq(0..6)
      BY <3>1, <3>2
    <3> QED BY <3>3, AllForecastsKept
  <2> QED BY <2>2, <2>3 DEF WeatherIsReadBack
<1> QED BY <1>1, SeverityKept, PTL
=============================================================================
