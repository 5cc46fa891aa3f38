---------------------------- MODULE MCFeedServer ----------------------------
(* Two clients of the beast port and one of the other; a round of two      *)
(* ticks; a buffer takes one frame.  The server does not look at the bytes *)
(* it sends, so it runs with one sample of them; the others are there for  *)
(* their encoding.                                                         *)
EXTENDS FeedServer, SquitterCodec

CONSTANTS readsb, map, tap
VARIABLE sample

MCClients == {readsb, map, tap}
MCPort == [c \in MCClients |-> IF c = tap THEN "sbs" ELSE "beast"]

MCInit == Init /\ sample \in -1050..1050
MCNext == UNCHANGED sample /\ IF sample = 0 THEN Next ELSE UNCHANGED vars
MCSpec ==
    /\ MCInit /\ [][MCNext]_<<vars, sample>>
    /\ WF_vars(Send)
    /\ \A p \in Ports : WF_vars(Accept(p)) /\ SF_vars(Enlist(p))
    /\ \A c \in Clients : WF_vars(Read(c))

\* Six bytes out of three, from the digits of a sample to the base of three.
Byte(k) == <<0, Escape, LongFrame>>[((Magnitude(sample) \div k) % 3) + 1]

\* What a receiver decodes is what was sent: frames whose payload contains
\* the escape anywhere, at the seam of two frames too, altitudes from the
\* sea to the ceiling, and speeds up to what the field can hold (atc_feed.py
\* 70-72, 106-127).
SquittersKeepContent ==
    /\ FramesKept(<<Byte(1), Byte(3), Byte(9)>>, <<Byte(27), Byte(81), Byte(243)>>)
    /\ AltitudeKept(23 * sample + 24500)
    /\ SpeedKept(sample)
=============================================================================
