---------------------------- MODULE SquitterCodec ----------------------------
(***************************************************************************)
(* Conversions of the traffic feed, roles/atc_inject/files/feed/           *)
(* atc_feed.py 70-127: the altitude and speed fields of a squitter, and    *)
(* the escaping of a beast frame, against what a receiver makes of them.   *)
(***************************************************************************)
EXTENDS Integers, Sequences

CONSTANTS
    Escape,     \* 0x1A
    LongFrame   \* 0x33, the type of a frame with a long message

ASSUME SquitterAssumption == Escape # LongFrame

-----------------------------------------------------------------------------
(* Altitude: steps of 25 ft from -1000 ft, 11 bits around the Q bit        *)

\* (n & 0x7F0) << 1
UpperBits(n) == ((n \div 16) % 128) * 32

EncodeAltitude(feet) ==
    LET n == (feet + 1000) \div 25
    IN  UpperBits(n) + 16 + (n % 16)

DecodeAltitude(field) == 25 * ((field \div 32) * 16 + (field % 16)) - 1000

\* The altitude is kept to its step, and the Q bit that says so is set.
AltitudeKept(feet) ==
    LET field == EncodeAltitude(feet)
    IN  /\ feet - DecodeAltitude(field) \in 0..24
        /\ (field \div 16) % 2 = 1 /\ field < 4096

-----------------------------------------------------------------------------
(* A component of the velocity: a sign and a magnitude, where 0 would mean *)
(* that there is no information                                            *)

Magnitude(v) == IF v < 0 THEN -v ELSE v

EncodeSpeed(v) ==
    [minus |-> v < 0, size |-> IF Magnitude(v) + 1 > 1023 THEN 1023 ELSE Magnitude(v) + 1]

DecodeSpeed(field) == (field.size - 1) * (IF field.minus THEN -1 ELSE 1)

\* A speed is kept, and a fast one is the fastest that can be said.
SpeedKept(v) ==
    LET back == DecodeSpeed(EncodeSpeed(v))
    IN  IF Magnitude(v) <= 1022 THEN back = v ELSE back * v > 0 /\ Magnitude(back) = 1022

-----------------------------------------------------------------------------
(* The beast frame: an escape, the type, and the payload with every escape *)
(* in it doubled                                                           *)

\* Mutant: the payload is sent as it is.
StuffedNot(payload) == payload

Stuffed(payload) ==
    LET out[n \in 0..Len(payload)] ==
            IF n = 0 THEN <<>>
            ELSE out[n - 1] \o (IF payload[n] = Escape THEN <<Escape, Escape>> ELSE <<payload[n]>>)
    IN  out[Len(payload)]

Beast(payload) == <<Escape, LongFrame>> \o Stuffed(payload)

\* A receiver: an escape that is not doubled begins a frame.
Take(seen, byte) ==
    CASE ~seen.escaped /\ byte = Escape -> [frames |-> seen.frames, escaped |-> TRUE]
      [] seen.escaped /\ byte # Escape ->
             [frames |-> Append(seen.frames, <<>>), escaped |-> FALSE]
      [] OTHER ->
             [frames |-> [seen.frames EXCEPT ![Len(seen.frames)] = Append(@, byte)],
              escaped |-> FALSE]

Seen(stream) ==
    LET after[n \in 0..Len(stream)] ==
            IF n = 0 THEN [frames |-> <<>>, escaped |-> FALSE]
            ELSE Take(after[n - 1], stream[n])
    IN  after[Len(stream)]
Received(stream) == Seen(stream).frames

\* Frames that follow each other are told apart whatever is in them.
FramesKept(p, q) == Received(Beast(p) \o Beast(q)) = <<p, q>>
=============================================================================
