----------------------------- MODULE MetarCodec -----------------------------
(***************************************************************************)
(* Weather as text: the METAR and the TAF that the feed composes from the  *)
(* conditions (metar_feed.py), and the fields that the flight data         *)
(* processor takes out of a METAR (app.py decode_metar).                   *)
(*                                                                         *)
(* A token is a record of what it spells; its kind stands for its shape,   *)
(* by which the decoder tells tokens apart.  Severity is in hundredths,    *)
(* temperature and wind speed in tenths, pressure in thousandths of an     *)
(* inch, visibility in half miles, heights in hundreds of feet; the        *)
(* conditions themselves are inputs.                                       *)
(***************************************************************************)
EXTENDS Integers, Sequences

\* Python's round(n / d): a half goes to the even neighbour.
Round(n, d) ==
    LET q == n \div d
        r == 2 * (n % d)
    IN  IF r < d \/ (r = d /\ q % 2 = 0) THEN q ELSE q + 1

-----------------------------------------------------------------------------
(* The feed *)

Edges == <<20, 40, 58, 72, 85, 93>>

\* The first band whose edge is not reached.
Band(w) == CHOOSE b \in 0..6 : (b < 6 => w < Edges[b + 1]) /\ \A i \in 1..b : w >= Edges[i]

Base(w) == LET b == Round(4500 - 42 * w, 100) IN IF b < 2 THEN 2 ELSE b

Layers(w) ==
    LET b == Base(w)
    IN  CASE Band(w) = 0 -> << <<"FEW", b>> >>
          [] Band(w) = 1 -> << <<"SCT", b>> >>
          [] Band(w) = 2 -> << <<"SCT", IF b < 18 THEN 8 ELSE b - 10>>, <<"BKN", b + 20>> >>
          [] Band(w) = 3 -> << <<"BKN", b>>, <<"OVC", b + 25>> >>
          [] OTHER       -> << <<"OVC", b>> >>

\* In half miles; the last is "1 1/2SM", two tokens.
Visibility(w) == <<20, 20, 16, 12, 8, 4, 3>>[Band(w) + 1]

VisTokens(half) ==
    IF half % 2 = 0 THEN << [kind |-> "miles", whole |-> half \div 2] >>
    ELSE << [kind |-> "digits", whole |-> half \div 2], [kind |-> "fraction", num |-> 1, den |-> 2] >>

Present(w) == <<"", "", "", "BR", "-RA BR", "RA BR", "+RA BR">>[Band(w) + 1]

SkyTokens(w) == [i \in DOMAIN Layers(w) |->
                    [kind |-> "sky", cover |-> Layers(w)[i][1], base |-> Layers(w)[i][2]]]

\* Due north is 360; no wind is 00000KT.
WindToken(c) ==
    LET dir == (Round(c.wdir, 10) * 10) % 360
    IN  IF c.wspd < 30 THEN [kind |-> "wind", dir |-> 0, spd |-> 0, gust |-> 0]
        ELSE [kind |-> "wind", dir |-> IF dir = 0 THEN 360 ELSE dir, spd |-> Round(c.wspd, 10),
              gust |-> IF c.gust > c.wspd + 40 THEN Round(c.gust, 10) ELSE 0]

\* "M" and the digits of the magnitude.
FmtTemp(tenths) == LET t == Round(tenths, 10) IN [minus |-> t < 0, digits |-> IF t < 0 THEN -t ELSE t]

Metar(c) ==
    << [kind |-> "word"], WindToken(c) >>
    \o VisTokens(Visibility(c.w))
    \o (IF Present(c.w) = "" THEN << >> ELSE << [kind |-> "weather", codes |-> Present(c.w)] >>)
    \o SkyTokens(c.w)
    \o << [kind |-> "temp", temp |-> FmtTemp(c.temp), dew |-> FmtTemp(c.dew)],
          [kind |-> "altimeter", inhg |-> Round(c.inhg, 10)],
          [kind |-> "RMK"], [kind |-> "remark"] >>

\* A group for the first hour, and one for every hour whose band is another.
Taf(bands) ==
    LET taf[h \in 0..Len(bands)] ==
            IF h = 0 THEN << >>
            ELSE LET before == taf[h - 1]
                 IN  IF h = 1 \/ bands[h] # before[Len(before)].band
                     THEN Append(before, [from |-> h, band |-> bands[h]]) ELSE before
    IN  taf[Len(bands)]

-----------------------------------------------------------------------------
(* The flight data processor *)

Signed(t) == IF t.minus THEN -t.digits ELSE t.digits

IsCeiling(cover) == cover \in {"BKN", "OVC", "VV"}

FlightCat(ceiling, half) ==
    IF ceiling < 5 \/ half < 2 THEN "LIFR"
    ELSE IF ceiling < 10 \/ half < 6 THEN "IFR"
    ELSE IF ceiling <= 30 \/ half <= 10 THEN "MVFR"
    ELSE "VFR"

NoCeiling == 99999

Blank == [dir |-> 0, spd |-> 0, gust |-> 0, vis |-> 198, wx |-> "", layers |-> << >>,
          ceiling |-> NoCeiling, temp |-> 0, dew |-> 0, inhg |-> 0]

\* Mutant: a fraction is read without the whole number before it.
ReadMilesAlone(d, toks, i) ==
    LET t == toks[i]
    IN  CASE t.kind = "miles"    -> [d EXCEPT !.vis = 2 * t.whole]
          [] t.kind = "fraction" -> [d EXCEPT !.vis = (2 * t.num) \div t.den]
          [] OTHER               -> d

\* A whole number counts when a fraction follows it, and takes it along.
ReadMiles(d, toks, i) ==
    LET t == toks[i]
        AfterWhole == i > 1 /\ toks[i - 1].kind = "digits"
    IN  CASE t.kind = "miles"    -> [d EXCEPT !.vis = 2 * t.whole]
          [] t.kind = "fraction" ->
                [d EXCEPT !.vis = (2 * t.num) \div t.den + (IF AfterWhole THEN 2 * toks[i - 1].whole ELSE 0)]
          [] OTHER               -> d

ReadToken(d, toks, i) ==
    LET t == toks[i]
    IN  CASE t.kind = "wind" -> [d EXCEPT !.dir = t.dir, !.spd = t.spd, !.gust = t.gust]
          [] t.kind = "sky" ->
                [d EXCEPT !.layers = Append(@, <<t.cover, t.base>>),
                          !.ceiling = IF IsCeiling(t.cover) /\ @ = NoCeiling THEN t.base ELSE @]
          [] t.kind = "temp" -> [d EXCEPT !.temp = Signed(t.temp), !.dew = Signed(t.dew)]
          [] t.kind = "altimeter" -> [d EXCEPT !.inhg = t.inhg]
          [] t.kind = "weather" -> [d EXCEPT !.wx = t.codes]
          [] OTHER -> ReadMiles(d, toks, i)

\* Nothing after RMK is read.
Decode(toks) ==
    LET read[i \in 0..Len(toks)] ==
            IF i = 0 THEN Blank
            ELSE IF \E j \in 1..i : toks[j].kind = "RMK" THEN read[i - 1]
            ELSE ReadToken(read[i - 1], toks, i)
    IN  read[Len(toks)]

-----------------------------------------------------------------------------
(* What a report must keep *)

\* The lowest layer that covers more than half of the sky.
CeilingOf(w) ==
    LET ceilings == {Layers(w)[i][2] : i \in {j \in DOMAIN Layers(w) : IsCeiling(Layers(w)[j][1])}}
    IN  IF ceilings = {} THEN NoCeiling ELSE CHOOSE b \in ceilings : \A x \in ceilings : b <= x

Near(n, tenths) == n * 10 \in (tenths - 5)..(tenths + 5)

\* Gusts are told when there is wind and they exceed it by more than 4 kt.
Gusty(c) == c.wspd >= 30 /\ c.gust > c.wspd + 40

Worse(a, b) == IF a > b THEN a ELSE b

\* The category as it is defined: the worse of what the ceiling and the
\* visibility are each good for.
CategoryOf(ceiling, half) ==
    <<"VFR", "MVFR", "IFR", "LIFR">>[1 +
        Worse(IF ceiling < 5 THEN 3 ELSE IF ceiling < 10 THEN 2 ELSE IF ceiling <= 30 THEN 1 ELSE 0,
              IF half < 2 THEN 3 ELSE IF half < 6 THEN 2 ELSE IF half <= 10 THEN 1 ELSE 0)]

\* Direction within five degrees around the compass, speeds, temperatures and
\* pressure to half a unit of theirs, everything else exactly.
ReportKept(c) ==
    LET d == Decode(Metar(c))
    IN  /\ c.wspd >= 30 => ((d.dir - c.wdir + 180) % 360) - 180 \in -5..5 /\ Near(d.spd, c.wspd)
        /\ IF Gusty(c) THEN Near(d.gust, c.gust) ELSE d.gust = 0
        /\ d.vis = Visibility(c.w) /\ d.wx = Present(c.w)
        /\ d.layers = Layers(c.w) /\ d.ceiling = CeilingOf(c.w)
        /\ FlightCat(d.ceiling, d.vis) = CategoryOf(CeilingOf(c.w), Visibility(c.w))
        /\ Near(d.temp, c.temp) /\ Near(d.dew, c.dew) /\ Near(d.inhg, c.inhg)

\* The group in force at an hour is the last that began by then.
InForce(taf, h) ==
    CHOOSE n \in DOMAIN taf : taf[n].from <= h /\ \A k \in DOMAIN taf : taf[k].from <= h => k <= n

ForecastKept(bands) == \A h \in DOMAIN bands : Taf(bands)[InForce(Taf(bands), h)].band = bands[h]
=============================================================================
