---------------------------- MODULE FuelPlc_proofs ----------------------------
(* Theorems about FuelPlc, for any number of racks, faults of a rack and   *)
(* commands, and any periods of the poll and the scan.  The invariant      *)
(* behind them follows the age of what the program knows: from the field   *)
(* to the last poll, from there to the last scan, and on to the coils.     *)
(* The registers, and the numbers beside which the runs put the PLC, come  *)
(* last.                                                                   *)
EXTENDS MCFuelPlc, TLAPS

\* The racks, and the farm as a whole.
Places == Racks \cup {"farm"}

\* Nothing in block stands against a rack, or against the farm.
Well(x, block) == IF x \in Racks THEN Against(x) \cap block = {} ELSE Esd \notin block

\* A fault has an age from the moment it came.
FieldInv == \A x \in Places : Well(x, field) => blockedFor[x] = 0

\* An answered poll is as old as it says ...
PolledInv ==
    behind # "failed" =>
        \A x \in Places : Well(x, polled) => blockedFor[x] <= pollAge

\* ... a scan took over what was at most a period old then ...
SeenInv ==
    behind = "no" =>
        \A x \in Places : Well(x, seen) => blockedFor[x] <= PollPeriod + scanAge

\* ... and what a scan switched on it had permitted,
OnInv ==
    /\ \A r \in Racks : (coils \ written) \cap Computed(r) # {} => Well(r, seen)
    /\ (coils \ written) \cap Commands # {} => Esd \notin seen

\* and what it left off it had not.
OffInv == \A r \in Racks : PermitOut(r) \notin coils \cup written => ~Well(r, seen)

\* The inductive invariant of controller and outstations.
PlcInv == TypeOK /\ FieldInv /\ PolledInv /\ SeenInv /\ OnInv /\ OffInv

-----------------------------------------------------------------------------
(* Operators *)

\* The coils that the program computes are told apart by rack and by kind,
\* and none is a command.
LEMMA CoilsDiffer ==
    ASSUME NEW r \in Racks
    PROVE  /\ \A q \in Racks : PermitOut(q) = PermitOut(r) => q = r
           /\ \A q \in Racks : Valve(q) = Valve(r) => q = r
           /\ \A q \in Racks : PermitOut(q) # Valve(r)
           /\ PermitOut(r) \notin Commands /\ Valve(r) \notin Commands
           /\ {PermitOut(r), Valve(r)} \subseteq Coils
BY PlcAssumption DEF PermitOut, Valve, Computed, Coils

\* A scan computes coils.
LEMMA OutputsType ==
    ASSUME NEW block \in SUBSET Faults
    PROVE  Outputs(block) \subseteq Coils
BY CoilsDiffer DEF Outputs, Coils

\* A scan switches the permit of a rack on exactly when nothing stands
\* against the rack; the valve and the commands need no less.
LEMMA OutputsPermitted ==
    ASSUME NEW block \in SUBSET Faults
    PROVE  /\ \A r \in Racks : PermitOut(r) \in Outputs(block) <=> Well(r, block)
           /\ \A r \in Racks : Valve(r) \in Outputs(block) => Well(r, block)
           /\ Outputs(block) \cap Commands # {} => Esd \notin block
<1> DEFINE permitted == {r \in Racks : Permit(r, block)}
           mirrors == {PermitOut(r) : r \in permitted}
           valves == {Valve(r) : r \in permitted}
<1>1. Outputs(block) = IF Esd \in block THEN mirrors
                       ELSE mirrors \cup valves \cup (coils \cap Commands)
  BY DEF Outputs
<1>2. \A r \in Racks : r \in permitted <=> Well(r, block)
  BY DEF Permit, Well
<1>3. \A r \in Racks : /\ PermitOut(r) \in mirrors <=> r \in permitted
                       /\ PermitOut(r) \notin valves \cup Commands
                       /\ Valve(r) \in valves <=> r \in permitted
                       /\ Valve(r) \notin mirrors \cup Commands
  BY CoilsDiffer
<1>4. mirrors \cap Commands = {}
  BY CoilsDiffer
<1>5. \A r \in Racks : PermitOut(r) \in Outputs(block) <=> r \in permitted
  BY <1>1, <1>3
<1>6. \A r \in Racks : Valve(r) \in Outputs(block) => r \in permitted
  BY <1>1, <1>3
<1>7. Outputs(block) \cap Commands # {} => Esd \notin block
  BY <1>1, <1>4
<1> QED
  BY <1>2, <1>5, <1>6, <1>7

\* The places of blockedFor are the racks and the farm, which is no rack.
LEMMA ClearIsWell ==
    /\ \A x \in Places : Clear(x) <=> Well(x, field)
    /\ \A x \in Places : Clear(x)' <=> Well(x, field')
BY DEF Clear, Well

-----------------------------------------------------------------------------
(* Steps *)

\* It holds at power-up.
LEMMA InitInv == Init => PlcInv
<1> SUFFICES ASSUME Init PROVE PlcInv
  OBVIOUS
<1>1. Zeros \subseteq Faults
  BY PlcAssumption DEF Zeros, Faults
<1>2. TypeOK
  BY <1>1, PlcAssumption DEF Init, TypeOK
<1>3. \A x \in Places : blockedFor[x] = 0
  BY DEF Init, Places
<1>4. FieldInv /\ PolledInv /\ SeenInv
  BY <1>3, PlcAssumption DEF Init, FieldInv, PolledInv, SeenInv
<1>5. OnInv
  BY DEF Init, OnInv
<1>6. \A r \in Racks : Against(r) \cap Zeros # {}
  <2> SUFFICES ASSUME NEW r \in Racks PROVE Against(r) \cap Zeros # {}
    OBVIOUS
  <2>1. PICK k \in OffMeansFault : k \in RackFaults
    BY PlcAssumption
  <2>2. <<r, k>> \in Zeros /\ <<r, k>> \in {r} \X RackFaults
    BY <2>1 DEF Zeros
  <2> QED
    BY <2>2 DEF Against
<1>7. OffInv
  BY <1>6 DEF Init, OffInv, Well
<1> QED
  BY <1>2, <1>4, <1>5, <1>7 DEF PlcInv

\* Steps of the poll and the inputs leave the coils and what explains them.
LEMMA CoilsKept ==
    ASSUME PlcInv, UNCHANGED <<seen, coils, written>>
    PROVE  OnInv' /\ OffInv'
BY DEF PlcInv, OnInv, OffInv

\* A scan computes the outputs from the image of the inputs.
LEMMA ScanInv == PlcInv /\ Scan => PlcInv'
<1> SUFFICES ASSUME PlcInv, Scan PROVE PlcInv'
  OBVIOUS
<1>1. /\ seen' = polled /\ coils' = Outputs(polled) /\ scanAge' = 0 /\ written' = {}
      /\ behind' = IF behind = "answered" THEN "no" ELSE behind
      /\ UNCHANGED <<field, polled, pollAge, blockedFor>>
  BY DEF Scan, ScanDone
<1>2. polled \in SUBSET Faults /\ TypeOK
  BY DEF PlcInv, TypeOK
<1>3. TypeOK'
  BY <1>1, <1>2, OutputsType, PlcAssumption DEF TypeOK
<1>4. FieldInv' /\ PolledInv'
  BY <1>1 DEF PlcInv, FieldInv, PolledInv
<1>5. SeenInv'
  <2> SUFFICES ASSUME behind' = "no", NEW x \in Places, Well(x, polled)
               PROVE  blockedFor[x] <= PollPeriod + 0
    BY <1>1 DEF SeenInv
  <2>1. blockedFor[x] <= pollAge
    BY <1>1 DEF PlcInv, PolledInv
  <2>2. blockedFor[x] \in Nat /\ pollAge \in 0..PollPeriod
    BY <1>2 DEF TypeOK, Places
  <2> QED
    BY <2>1, <2>2, PlcAssumption
<1>6. OnInv' /\ OffInv'
  BY <1>1, <1>2, OutputsPermitted DEF OnInv, OffInv, Computed
<1> QED
  BY <1>3, <1>4, <1>5, <1>6 DEF PlcInv

\* An answered poll brings the image of the inputs up to date.
LEMMA PollAnsweredInv == PlcInv /\ PollAnswered => PlcInv'
<1> SUFFICES ASSUME PlcInv, PollAnswered PROVE PlcInv'
  OBVIOUS
<1>1. /\ polled' = field /\ pollAge' = 0
      /\ behind' = IF behind = "failed" THEN "answered" ELSE behind
      /\ UNCHANGED <<field, seen, coils, scanAge, written, blockedFor>>
  BY DEF PollAnswered
<1>2. TypeOK'
  BY <1>1, PlcAssumption DEF PlcInv, TypeOK
<1>3. FieldInv' /\ SeenInv'
  BY <1>1 DEF PlcInv, FieldInv, SeenInv
<1>4. PolledInv'
  BY <1>1 DEF PlcInv, FieldInv, PolledInv
<1> QED
  BY <1>1, <1>2, <1>3, <1>4, CoilsKept DEF PlcInv

\* An unanswered poll is marked as such.
LEMMA PollUnansweredInv == PlcInv /\ PollUnanswered => PlcInv'
<1> SUFFICES ASSUME PlcInv, PollUnanswered PROVE PlcInv'
  OBVIOUS
<1>1. /\ pollAge' = 0 /\ behind' = "failed"
      /\ UNCHANGED <<field, polled, seen, coils, scanAge, written, blockedFor>>
  BY DEF PollUnanswered
<1>2. TypeOK'
  BY <1>1, PlcAssumption DEF PlcInv, TypeOK
<1>3. FieldInv' /\ PolledInv' /\ SeenInv'
  BY <1>1 DEF PlcInv, FieldInv, PolledInv, SeenInv
<1> QED
  BY <1>1, <1>2, <1>3, CoilsKept DEF PlcInv

\* An input that changes is seen at a later poll only.
LEMMA InputChangesInv == PlcInv /\ InputChanges => PlcInv'
<1> SUFFICES ASSUME PlcInv, InputChanges PROVE PlcInv'
  OBVIOUS
<1>1. PICK f \in Faults :
        /\ field' = Toggle(field, f)
        /\ blockedFor' = [x \in DOMAIN blockedFor |-> IF Clear(x)' THEN 0 ELSE blockedFor[x]]
        /\ UNCHANGED <<polled, seen, coils, pollAge, scanAge, written, behind>>
  BY DEF InputChanges
<1>2. blockedFor \in [Places -> 0..MaxBlocked] /\ pollAge \in Nat /\ scanAge \in Nat
  BY DEF PlcInv, TypeOK, Places
<1>3. \A x \in Places : blockedFor'[x] = IF Well(x, field') THEN 0 ELSE blockedFor[x]
  BY <1>1, <1>2, ClearIsWell
<1>4. blockedFor' \in [Places -> 0..MaxBlocked]
  BY <1>1, <1>2, PlcAssumption
<1>5. \A x \in Places : blockedFor'[x] <= blockedFor[x] /\ blockedFor[x] \in Nat
                                                       /\ blockedFor'[x] \in Nat
  BY <1>2, <1>3
<1>6. TypeOK'
  BY <1>1, <1>4 DEF PlcInv, TypeOK, Toggle, Places
<1>7. FieldInv'
  BY <1>3 DEF FieldInv
<1>8. PolledInv'
  BY <1>1, <1>2, <1>5 DEF PlcInv, PolledInv
<1>9. SeenInv'
  BY <1>1, <1>2, <1>5, PlcAssumption DEF PlcInv, SeenInv
<1> QED
  BY <1>1, <1>6, <1>7, <1>8, <1>9, CoilsKept DEF PlcInv

\* A coil that a master writes is no longer the word of the scan.
LEMMA MasterWritesInv == PlcInv /\ MasterWrites => PlcInv'
<1> SUFFICES ASSUME PlcInv, MasterWrites PROVE PlcInv'
  OBVIOUS
<1>1. PICK c \in Coils :
        /\ coils' = Toggle(coils, c)
        /\ written' = written \cup {c}
        /\ UNCHANGED <<field, polled, seen, pollAge, scanAge, behind, blockedFor>>
  BY DEF MasterWrites
<1>2. TypeOK'
  BY <1>1 DEF PlcInv, TypeOK, Toggle
<1>3. FieldInv' /\ PolledInv' /\ SeenInv'
  BY <1>1 DEF PlcInv, FieldInv, PolledInv, SeenInv
<1>4. coils' \ written' \subseteq coils \ written /\ coils \cup written \subseteq coils' \cup written'
  BY <1>1 DEF Toggle
<1>5. OnInv' /\ OffInv'
  BY <1>1, <1>4 DEF PlcInv, OnInv, OffInv
<1> QED
  BY <1>2, <1>3, <1>5 DEF PlcInv

\* Time that passes ages poll, scan and faults alike.
LEMMA ElapseInv == PlcInv /\ Elapse => PlcInv'
<1> SUFFICES ASSUME PlcInv, Elapse PROVE PlcInv'
  OBVIOUS
<1>1. /\ pollAge < PollPeriod /\ pollAge' = pollAge + 1
      /\ scanAge < ScanPeriod /\ scanAge' = scanAge + 1
      /\ UNCHANGED <<field, polled, seen, coils, written, behind>>
      /\ blockedFor' = [x \in DOMAIN blockedFor |->
                           IF Clear(x) \/ blockedFor[x] = MaxBlocked
                           THEN blockedFor[x] ELSE blockedFor[x] + 1]
  BY DEF Elapse
<1>2. blockedFor \in [Places -> 0..MaxBlocked] /\ pollAge \in Nat /\ scanAge \in Nat
  BY DEF PlcInv, TypeOK, Places
<1>3. blockedFor' \in [Places -> 0..MaxBlocked]
  BY <1>1, <1>2, PlcAssumption
<1>4. \A x \in Places : /\ {blockedFor[x], blockedFor'[x]} \subseteq Nat
                        /\ blockedFor'[x] <= blockedFor[x] + 1
                        /\ Clear(x) => blockedFor'[x] = blockedFor[x]
  BY <1>1, <1>2, PlcAssumption
<1>5. TypeOK'
  BY <1>1, <1>2, <1>3, PlcAssumption DEF PlcInv, TypeOK, Places
<1>6. FieldInv'
  BY <1>1, <1>4, ClearIsWell DEF PlcInv, FieldInv
<1>7. PolledInv'
  BY <1>1, <1>2, <1>4 DEF PlcInv, PolledInv
<1>8. SeenInv'
  <2> SUFFICES ASSUME behind = "no", NEW x \in Places, Well(x, seen)
               PROVE  blockedFor'[x] <= PollPeriod + (scanAge + 1)
    BY <1>1 DEF SeenInv
  <2>1. blockedFor[x] <= PollPeriod + scanAge
    BY DEF PlcInv, SeenInv
  <2> QED
    BY <1>2, <1>4, <2>1, PlcAssumption
<1> QED
  BY <1>1, <1>5, <1>6, <1>7, <1>8, CoilsKept DEF PlcInv

-----------------------------------------------------------------------------
(* The theorems *)

\* The poll, the scan, the masters and the outside keep the invariant.
THEOREM PlcInvariant == Spec => []PlcInv
<1>1. PlcInv /\ [Next]_vars => PlcInv'
  <2> SUFFICES ASSUME PlcInv, [Next]_vars PROVE PlcInv'
    OBVIOUS
  <2>1. CASE UNCHANGED vars
    <3>1. UNCHANGED <<field, polled, seen, coils, pollAge, scanAge, written, behind, blockedFor>>
      BY <2>1 DEF vars, history
    <3> QED
      BY <3>1 DEF PlcInv, TypeOK, FieldInv, PolledInv, SeenInv, OnInv, OffInv
  <2> QED
    BY <2>1, ScanInv, PollAnsweredInv, PollUnansweredInv, InputChangesInv,
       MasterWritesInv, ElapseInv DEF Next
<1> QED
  BY <1>1, InitInv, PTL DEF Spec

\* Inputs, coils and ages stay in their ranges.
THEOREM TypeCorrect == Spec => []TypeOK
<1>1. PlcInv => TypeOK
  BY DEF PlcInv
<1> QED
  BY <1>1, PlcInvariant, PTL

\* A valve, a permit or a command that is on tells of inputs no older than a
\* poll and a scan, for any two periods (fuel_farm.st 107-147).
THEOREM OutputsRecent == Spec => []OutputsAreRecent
<1>1. PlcInv => OutputsAreRecent
  <2> SUFFICES ASSUME PlcInv, behind = "no"
               PROVE  /\ \A r \in Racks : (coils \ written) \cap Computed(r) # {} =>
                             blockedFor[r] <= PollPeriod + ScanPeriod
                      /\ (coils \ written) \cap Commands # {} =>
                             blockedFor["farm"] <= PollPeriod + ScanPeriod
    BY DEF OutputsAreRecent
  <2>1. \A x \in Places : Well(x, seen) => blockedFor[x] <= PollPeriod + ScanPeriod
    <3>1. scanAge \in 0..ScanPeriod /\ \A x \in Places : blockedFor[x] \in Nat
      BY DEF PlcInv, TypeOK, Places
    <3> QED
      BY <3>1, PlcAssumption DEF PlcInv, SeenInv
  <2>2. \A r \in Racks : (coils \ written) \cap Computed(r) # {} => Well(r, seen)
    BY DEF PlcInv, OnInv
  <2>3. (coils \ written) \cap Commands # {} => Well("farm", seen)
    BY PlcAssumption DEF PlcInv, OnInv, Well
  <2> QED
    BY <2>1, <2>2, <2>3 DEF Places
<1> QED
  BY <1>1, PlcInvariant, PTL

\* A permit that is off beside inputs without a shutdown has its cause among
\* those inputs (fuel_farm.st 140-146).
THEOREM BlockExplained == Spec => []BlockIsExplained
<1>1. PlcInv => BlockIsExplained
  BY DEF PlcInv, OffInv, Well, BlockIsExplained
<1> QED
  BY <1>1, PlcInvariant, PTL

-----------------------------------------------------------------------------
(* Registers, of any width *)

\* Division with remainder, as TLA+ defines it ...
LEMMA DivMod ==
    ASSUME NEW n \in Int, NEW d \in Nat \ {0}
    PROVE  /\ n \div d \in Int /\ n % d \in 0..d - 1
           /\ n = d * (n \div d) + (n % d)
OBVIOUS

\* ... and its quotient and remainder are the only ones.
LEMMA QuotientUnique ==
    ASSUME NEW d \in Nat \ {0},
           NEW q \in Int, NEW r \in 0..d - 1, NEW p \in Int, NEW s \in 0..d - 1,
           d * q + r = d * p + s
    PROVE  q = p /\ r = s
<1>1. d * (q - p) = s - r
  OBVIOUS
<1>2. s - r < d /\ s - r > -d
  OBVIOUS
<1>3. ~(q - p >= 1)
  <2> SUFFICES ASSUME q - p >= 1 PROVE FALSE
    OBVIOUS
  <2>1. d * (q - p) >= d
    OBVIOUS
  <2> QED
    BY <1>1, <1>2, <2>1
<1>4. ~(q - p <= -1)
  <2> SUFFICES ASSUME q - p <= -1 PROVE FALSE
    OBVIOUS
  <2>1. d * (q - p) <= -d
    OBVIOUS
  <2> QED
    BY <1>1, <1>2, <2>1
<1> QED
  BY <1>1, <1>3, <1>4

\* What is added in multiples of the divisor is lost again.
LEMMA Wraps ==
    ASSUME NEW d \in Nat \ {0}, NEW q \in Int, NEW r \in 0..d - 1
    PROVE  (d * q + r) % d = r /\ (d * q + r) \div d = q
<1> DEFINE n == d * q + r
<1>1. n \in Int
  OBVIOUS
<1>2. n \div d \in Int /\ n % d \in 0..d - 1 /\ n = d * (n \div d) + (n % d)
  BY <1>1, DivMod
<1> HIDE DEF n
<1>3. q = n \div d /\ r = n % d
  <2>1. d * q + r = d * (n \div d) + (n % d)
    BY <1>2 DEF n
  <2> QED
    BY <1>2, <2>1, QuotientUnique
<1> QED
  BY <1>3 DEF n

\* Rounding goes to one of the two neighbours, off by half a divisor at
\* most.
LEMMA RoundBounds ==
    ASSUME NEW v \in Int, NEW s \in Nat \ {0}
    PROVE  /\ RoundDiv(v, s) \in Int
           /\ 2 * (RoundDiv(v, s) * s - v) \in -s..s
           /\ RoundDiv(v, s) \in {v \div s, (v \div s) + 1}
           /\ RoundDiv(v, s) = (v \div s) + 1 => v % s > 0
<1> DEFINE q == v \div s
           r == v % s
<1>1. q \in Int /\ r \in 0..s - 1 /\ v = s * q + r
  BY DivMod
<1>2. CASE RoundDiv(v, s) = q + 1 /\ 2 * r >= s
  <2>1. (q + 1) * s - v = s - r
    <3>1. (q + 1) * s = s * q + s
      BY <1>1
    <3> QED
      BY <3>1, <1>1
  <2> HIDE DEF q, r
  <2>2. 2 * (s - r) \in -s..s
    BY <1>1, <1>2
  <2> QED
    BY <1>2, <2>1, <2>2, <1>1 DEF q, r
<1>3. CASE RoundDiv(v, s) = q /\ 2 * r <= s
  <2>1. q * s - v = -r
    BY <1>1
  <2> HIDE DEF q, r
  <2>2. 2 * (-r) \in -s..s
    BY <1>1, <1>3
  <2> QED
    BY <1>3, <2>1, <2>2, <1>1 DEF q, r
<1>4. \/ RoundDiv(v, s) = q + 1 /\ 2 * r >= s
      \/ RoundDiv(v, s) = q /\ 2 * r <= s
  <2>1. RoundDiv(v, s) = IF 2 * r > s \/ (2 * r = s /\ q % 2 = 1) THEN q + 1 ELSE q
    BY DEF RoundDiv
  <2> HIDE DEF q, r
  <2> QED
    BY <2>1, <1>1
<1> QED
  BY <1>2, <1>3, <1>4

\* A register keeps every measurement, also a negative one, to half a count
\* or saturates, whatever the width and the scale (modbus.py 147-157).
THEOREM MeasurementsKept ==
    ASSUME NEW v \in Int, NEW scale \in Scales
    PROVE  MeasurementKept(v, scale)
<1> DEFINE n == RoundDiv(v, scale)
           q == v \div scale
           r == v % scale
<1>s. scale \in Nat \ {0} /\ Word \in Nat /\ Word >= 2
  <2>1. Word # 1
    BY CodecAssumption
  <2> QED
    BY <2>1, CodecAssumption
<1>1. q \in Int /\ r \in 0..scale-1 /\ v = scale * q + r
  BY <1>s, DivMod
<1>2. /\ n \in Int /\ n \in {q, q + 1} /\ (n = q + 1 => r > 0)
      /\ 2 * (n * scale - v) \in -scale..scale
  <2>1. n = q + 1 => r > 0
    BY <1>s, RoundBounds
  <2> QED
    BY <2>1, <1>s, RoundBounds
<1> DEFINE back == GetRegister(SetRegister(v, scale), scale)
<1>3. back = Clamped(n) * scale
  BY DEF GetRegister, SetRegister
<1>4. MeasurementKept(v, scale) =
        CASE v < 0 -> back = 0
          [] v > scale * (Word - 1) -> back = scale * (Word - 1)
          [] OTHER -> 2 * (back - v) \in -scale..scale
  BY DEF MeasurementKept
<1> HIDE DEF n, q, r, back
<1>5. CASE v < 0
  <2>1. q < 0
    <3> SUFFICES ASSUME q >= 0 PROVE FALSE
      BY <1>1
    <3>1. scale * q >= 0 /\ scale * q \in Int
      BY <1>s, <1>1
    <3> QED
      BY <3>1, <1>5, <1>1
  <2>2. n < 0 \/ n = 0
    BY <2>1, <1>1, <1>2
  <2>3. Clamped(n) = 0
    BY <2>2, <1>s DEF Clamped
  <2>4. back = 0
    BY <2>3, <1>3, <1>s
  <2>5. ~(v > scale * (Word - 1))
    <3>1. scale * (Word - 1) >= 0 /\ scale * (Word - 1) \in Int
      BY <1>s
    <3> QED
      BY <3>1, <1>5
  <2> QED
    BY <2>4, <2>5, <1>5, <1>4
<1>6. CASE v > scale * (Word - 1)
  <2>1. q >= Word - 1
    <3> SUFFICES ASSUME q <= Word - 2 PROVE FALSE
      BY <1>1, <1>s
    <3>1. scale * q <= scale * (Word - 2)
      BY <1>s, <1>1
    <3>2. scale * (Word - 2) + scale = scale * (Word - 1)
      BY <1>s
    <3>3. scale * (Word - 2) \in Int /\ scale * (Word - 1) \in Int /\ scale * q \in Int
      BY <1>s, <1>1
    <3> QED
      BY <3>1, <3>2, <3>3, <1>6, <1>1, <1>s
  <2>2. n >= Word - 1
    BY <2>1, <1>1, <1>2, <1>s
  <2>3. Clamped(n) = Word - 1
    BY <2>2, <1>2, <1>s DEF Clamped
  <2>4. back = scale * (Word - 1)
    BY <2>3, <1>3, <1>s
  <2>5. ~(v < 0)
    <3>1. scale * (Word - 1) >= 0
      BY <1>s
    <3>2. scale * (Word - 1) \in Int
      BY <1>s
    <3> QED
      BY <3>1, <3>2, <1>6
  <2> QED
    BY <2>4, <2>5, <1>6, <1>4
<1>7. CASE ~(v < 0) /\ ~(v > scale * (Word - 1))
  <2>1. q >= 0
    <3> SUFFICES ASSUME q <= -1 PROVE FALSE
      BY <1>1
    <3>1. scale * q <= -scale
      BY <1>s, <1>1
    <3>2. scale * q \in Int
      BY <1>s, <1>1
    <3> QED
      BY <3>1, <3>2, <1>7, <1>1, <1>s
  <2>2. q <= Word - 1 /\ (q = Word - 1 => r = 0)
    <3>1. ~(q >= Word)
      <4> SUFFICES ASSUME q >= Word PROVE FALSE
        OBVIOUS
      <4>1. scale * q >= scale * Word
        BY <1>s, <1>1
      <4>2. scale * Word = scale * (Word - 1) + scale
        BY <1>s
      <4>3. scale * (Word - 1) \in Int /\ scale * q \in Int /\ scale * Word \in Int
        BY <1>s, <1>1
      <4> QED
        BY <4>1, <4>2, <4>3, <1>7, <1>1, <1>s
    <3>2. scale * (Word - 1) \in Int
      BY <1>s
    <3>3. q = Word - 1 => r = 0
      BY <3>2, <1>7, <1>1, <1>s
    <3> QED
      BY <3>1, <3>3, <1>1, <1>s
  <2>3. n >= 0 /\ n <= Word - 1
    BY <2>1, <2>2, <1>1, <1>2, <1>s
  <2>4. Clamped(n) = n
    BY <2>3, <1>2, <1>s DEF Clamped
  <2>5. 2 * (back - v) \in -scale..scale
    BY <2>4, <1>2, <1>3
  <2> QED
    BY <2>5, <1>7, <1>4
<1> QED
  BY <1>5, <1>6, <1>7

\* The words of a total, and that they make it up again.
LEMMA WordsOfTotal ==
    ASSUME NEW v \in Nat
    PROVE  LET reg == SetTotalizer(v)
           IN  /\ reg.hi \in 0..Word - 1 /\ reg.lo \in 0..Word - 1
               /\ reg.hi * Word + reg.lo = v % (Word * Word)
               /\ \A raw \in 0..Word - 1 : Signed(raw) % Word = raw
<1> DEFINE m == v % (Word * Word)
           hi == m \div Word
           lo == m % Word
<1>s. Word \in Nat \ {0}
  BY CodecAssumption
<1>1. Word * Word \in Nat \ {0}
  BY <1>s
<1>2. m \in 0..(Word * Word) - 1
  BY <1>1, DivMod
<1> HIDE DEF m
<1>3. hi \in Int /\ lo \in 0..Word - 1 /\ m = Word * hi + lo
  BY <1>s, <1>1, <1>2, DivMod
<1>4. SetTotalizer(v) = [hi |-> hi, lo |-> lo]
  BY DEF SetTotalizer, m
<1> HIDE DEF hi, lo
<1>5. hi \in 0..Word - 1
  <2>1. ~(hi <= -1)
    <3> SUFFICES ASSUME hi <= -1 PROVE FALSE
      OBVIOUS
    <3>1. Word * hi <= -Word /\ Word * hi \in Int
      BY <1>s, <1>3
    <3> QED
      BY <3>1, <1>2, <1>3, <1>s
  <2>2. ~(hi >= Word)
    <3> SUFFICES ASSUME hi >= Word PROVE FALSE
      OBVIOUS
    <3>1. Word * hi >= Word * Word /\ Word * hi \in Int
      BY <1>s, <1>3
    <3> QED
      BY <3>1, <1>1, <1>2, <1>3, <1>s
  <2> QED
    BY <2>1, <2>2, <1>3, <1>s
<1>6. \A raw \in 0..Word - 1 : Signed(raw) % Word = raw
  <2> SUFFICES ASSUME NEW raw \in 0..Word - 1 PROVE Signed(raw) % Word = raw
    OBVIOUS
  <2>1. (Word * 0 + raw) % Word = raw /\ (Word * (-1) + raw) % Word = raw
    BY <1>s, Wraps
  <2>2. Word * 0 + raw = raw /\ Word * (-1) + raw = raw - Word
    BY <1>s
  <2>3. Signed(raw) \in {raw, raw - Word}
    BY DEF Signed
  <2> QED
    BY <2>1, <2>2, <2>3
<1>7. hi * Word = Word * hi
  BY <1>3, <1>s
<1> QED
  BY <1>3, <1>4, <1>5, <1>6, <1>7 DEF m

\* In the order that the role configures (group_vars/fuel.yml 85), a totalizer
\* reads back every total modulo its two words (modbus.py 159-175).
THEOREM TotalsKept ==
    ASSUME NEW v \in Nat
    PROVE  TotalKept(v, "hi_first")
BY WordsOfTotal DEF TotalKept, GetTotalizer

\* In the other order, which the simulator accepts too (modbus.py 107-111), it
\* reads back a total only when its two words are the same: the reader looks
\* at the order and the writer does not (164-166, 170-175).
THEOREM TotalsSwapped ==
    ASSUME NEW v \in Nat
    PROVE  TotalKept(v, "lo_first") <=> EqualWords(v)
<1> DEFINE hi == SetTotalizer(v).hi
           lo == SetTotalizer(v).lo
<1>1. /\ hi \in 0..Word - 1 /\ lo \in 0..Word - 1
      /\ hi * Word + lo = v % (Word * Word)
  BY WordsOfTotal
<1>2. GetTotalizer(SetTotalizer(v), "lo_first") = lo * Word + hi
  BY DEF GetTotalizer
<1> HIDE DEF hi, lo
<1>3. Word \in Nat \ {0}
  BY CodecAssumption
<1>4. lo * Word = Word * lo /\ hi * Word = Word * hi
  BY <1>1, <1>3
<1>5. Word * lo + hi = Word * hi + lo => hi = lo
  BY <1>1, <1>3, QuotientUnique
<1>6. hi = lo => lo * Word + hi = hi * Word + lo
  OBVIOUS
<1> QED
  BY <1>1, <1>2, <1>4, <1>5, <1>6 DEF TotalKept, EqualWords, hi, lo

\* The historian records every total modulo its two words, in either order,
\* although it takes the words for signed (telegraf.conf.j2 69).
THEOREM TotalsRecorded ==
    ASSUME NEW v \in Nat
    PROVE  TotalRecorded(v)
BY WordsOfTotal DEF TotalRecorded

\* The same of the measurements that the runs put beside the PLC, in both
\* orders of words.
THEOREM RegistersKept == MCSpec => []RegistersKeepMeasurements
<1>1. MCInit => measured \in Int
  <2>1. Word \in Nat
    BY CodecAssumption
  <2> QED
    BY <2>1 DEF MCInit
<1>2. measured \in Int /\ [MCNext]_<<vars, measured>> => (measured \in Int)'
  BY DEF MCNext
<1>3. measured \in Int => RegistersKeepMeasurements
  BY MeasurementsKept, TotalsKept, TotalsSwapped, TotalsRecorded
     DEF RegistersKeepMeasurements
<1> QED
  BY <1>1, <1>2, <1>3, PTL DEF MCSpec
=============================================================================
