---------------------------- MODULE RegisterCodec ----------------------------
(***************************************************************************)
(* How the simulator puts numbers into 16-bit registers                    *)
(* (roles/fuel_sim/files/fuelsim/modbus.py 139-178) and how the historian  *)
(* takes them out (roles/fuel_historian/templates/telegraf.conf.j2).       *)
(*                                                                         *)
(* A measurement is an integer in the smallest unit told apart, a register *)
(* counts Scale of those units.                                            *)
(***************************************************************************)
EXTENDS Integers

CONSTANTS
    Word,       \* 2^16
    Scales      \* units per count: of a level, a temperature, a meter

ASSUME CodecAssumption ==
    /\ Word \in Nat \ {0} /\ Word % 2 = 0
    /\ Scales \subseteq Nat \ {0}

\* round() of Python, ties to the even neighbour.
RoundDiv(n, d) ==
    LET q == n \div d
        rest == 2 * (n % d)
    IN  IF rest > d \/ (rest = d /\ q % 2 = 1) THEN q + 1 ELSE q

\* Mutant: the low 16 bits are kept.
Masked(n) == n % Word

\* Registers saturate.
Clamped(n) == IF n < 0 THEN 0 ELSE IF n >= Word THEN Word - 1 ELSE n

\* SimState.set and get of a register.
SetRegister(v, scale) == Clamped(RoundDiv(v, scale))
GetRegister(raw, scale) == raw * scale

\* A totalizer is two registers.  They are written without a look at
\* totalizer_word_order of the configuration, and read with one.
SetTotalizer(v) ==
    LET masked == v % (Word * Word)
    IN  [hi |-> masked \div Word, lo |-> masked % Word]

GetTotalizer(reg, order) ==
    IF order = "hi_first" THEN reg.hi * Word + reg.lo ELSE reg.lo * Word + reg.hi

\* The historian reads every register as a signed number.
Signed(raw) == IF raw >= Word \div 2 THEN raw - Word ELSE raw

-----------------------------------------------------------------------------

\* What is in a register is the measurement to half a count, and beyond the
\* range the nearest that a register can say.
MeasurementKept(v, scale) ==
    LET back == GetRegister(SetRegister(v, scale), scale)
    IN  CASE v < 0 -> back = 0
          [] v > scale * (Word - 1) -> back = scale * (Word - 1)
          [] OTHER -> 2 * (back - v) \in -scale..scale

\* A total is read back modulo its width.
TotalKept(v, order) == GetTotalizer(SetTotalizer(v), order) = v % (Word * Word)

\* Its two words are the same.
EqualWords(v) == SetTotalizer(v).hi = SetTotalizer(v).lo

\* The historian puts the same number together from signed words.
TotalRecorded(v) ==
    LET reg == SetTotalizer(v)
    IN  (Signed(reg.hi) % Word) * Word + (Signed(reg.lo) % Word) = v % (Word * Word)
=============================================================================
