---------------------------- MODULE FuelSim_proofs ----------------------------
(* Theorems about FuelPhysics, for any number of racks and tanks, any      *)
(* levels, flow and meter width, and about FuelSim, which is built on it,  *)
(* for any fleet, any sorties and any bounds.                              *)
EXTENDS FuelSim, FiniteSetTheorems, WellFoundedInduction, TLAPS

-----------------------------------------------------------------------------
(* The physics on its own, under any outside writes *)

\* There are NRacks racks.
LEMMA RacksFinite ==
    IsFiniteSet(Racks) /\ Cardinality(Racks) = NRacks
  BY PhysicsAssumption, FS_Interval DEF Racks

\* No more racks draw from a tank than there are racks.
LEMMA DrawnByBound ==
    ASSUME NEW t \in Tanks
    PROVE  Cardinality(DrawnBy(t)) \in 0..NRacks
<1>1. DrawnBy(t) \subseteq Racks
  BY DEF DrawnBy
<1>2. /\ IsFiniteSet(DrawnBy(t))
      /\ Cardinality(DrawnBy(t)) <= Cardinality(Racks)
  BY <1>1, RacksFinite, FS_Subset
<1>3. Cardinality(DrawnBy(t)) \in Nat
  BY <1>2, FS_CardinalityType
<1> QED
  BY <1>2, <1>3, RacksFinite, PhysicsAssumption

\* What a step leaves in a tank is a quantity, at most a step of every rack
\* less than before, and unchanged when nobody draws.
LEMMA DrainBound ==
    ASSUME NEW t \in Tanks, level[t] \in Nat
    PROVE  /\ Drain(t) \in Nat
           /\ Drain(t) >= level[t] - NRacks * FlowPerTick
           /\ DrawnBy(t) = {} => Drain(t) = level[t]
<1> DEFINE n == Cardinality(DrawnBy(t))
<1>1. n \in 0..NRacks
  BY DrawnByBound
<1>2. /\ FlowPerTick * n \in Nat
      /\ FlowPerTick * n <= NRacks * FlowPerTick
  <2>1. \A a, b, f \in Nat : a <= b => f * a \in Nat /\ f * a <= b * f
    OBVIOUS
  <2> QED
    BY <1>1, <2>1, PhysicsAssumption
<1>3. DrawnBy(t) = {} => n = 0
  BY FS_EmptySet
<1>4. NRacks * FlowPerTick \in Nat
  BY PhysicsAssumption
<1> HIDE DEF n
<1>5. Drain(t) = LET rest == level[t] - FlowPerTick * n IN IF rest < 0 THEN 0 ELSE rest
  BY DEF Drain, n
<1>6. n = 0 => FlowPerTick * n = 0
  BY PhysicsAssumption
<1> QED
  BY <1>2, <1>3, <1>4, <1>5, <1>6

\* A meter stays on its dial.
LEMMA MeteredType ==
    ASSUME NEW r \in Racks, totalizer[r] \in 0..(MeterMod - 1)
    PROVE  Metered(r) \in 0..(MeterMod - 1)
<1>1. FlowPerTick \div UnitsPerGal \in Nat
  BY PhysicsAssumption
<1>2. \A x \in Nat : x % MeterMod \in 0..(MeterMod - 1)
  BY PhysicsAssumption
<1> QED
  BY <1>1, <1>2, PhysicsAssumption DEF Metered

-----------------------------------------------------------------------------

\* The initial plant is of its type.
LEMMA PhysInitTypeOK == PhysInit => PhysTypeOK
<1>1. NoTank \in 0..BadTank /\ 0 \in 0..(MeterMod - 1)
  BY PhysicsAssumption DEF NoTank, BadTank
<1>2. InitLevel \in [Tanks -> Nat]
  BY PhysicsAssumption
<1> SUFFICES ASSUME PhysInit PROVE PhysTypeOK
  OBVIOUS
<1>3. srcTank \in [Racks -> 0..BadTank]
  BY <1>1 DEF PhysInit, Unassigned
<1>4. totalizer \in [Racks -> 0..(MeterMod - 1)] /\ dispensed \in [Racks -> Nat]
  BY <1>1 DEF PhysInit, AllZero
<1>5. level \in [Tanks -> Nat]
  BY <1>2 DEF PhysInit
<1> QED
  BY <1>3, <1>4, <1>5 DEF PhysInit, PhysTypeOK, AllOff, AllClosed, AllNormal

\* A restarted physics is typed as a new one.
LEMMA PhysRestartTypeOK == PhysRestart => PhysTypeOK'
<1>1. NoTank \in 0..BadTank /\ 0 \in 0..(MeterMod - 1)
  BY PhysicsAssumption DEF NoTank, BadTank
<1>2. InitLevel \in [Tanks -> Nat]
  BY PhysicsAssumption
<1> SUFFICES ASSUME PhysRestart PROVE PhysTypeOK'
  OBVIOUS
<1>3. srcTank' \in [Racks -> 0..BadTank]
  BY <1>1 DEF PhysRestart, Unassigned
<1>4. totalizer' \in [Racks -> 0..(MeterMod - 1)] /\ dispensed' \in [Racks -> Nat]
  BY <1>1 DEF PhysRestart, AllZero
<1>5. level' \in [Tanks -> Nat]
  BY <1>2 DEF PhysRestart
<1> QED
  BY <1>3, <1>4, <1>5 DEF PhysRestart, PhysTypeOK, AllOff, AllClosed, AllNormal

\* A physics step and every write from outside leave each tag and each
\* quantity in its type.
LEMMA TickTypeOK == PhysTypeOK /\ Tick => PhysTypeOK'
<1> SUFFICES ASSUME PhysTypeOK, Tick PROVE PhysTypeOK'
  OBVIOUS
<1> USE DEF PhysTypeOK, Tick
<1>1. /\ runCmd' \in [Racks -> BOOLEAN] /\ loadVlv' \in [Racks -> BOOLEAN]
      /\ outVlv' \in [Tanks -> BOOLEAN] /\ esdReset' \in BOOLEAN
      /\ ground' \in [Racks -> BOOLEAN] /\ deadman' \in [Racks -> BOOLEAN]
      /\ overfill' \in [Racks -> BOOLEAN] /\ srcTank' \in [Racks -> 0..BadTank]
  BY DEF fieldInputs
<1>2. esdLatched' \in BOOLEAN /\ esdActive' \in BOOLEAN
  BY DEF Latched
<1>3. runSts' \in [Racks -> BOOLEAN]
  BY DEF RunStatus, PumpRuns, InterlockOK
<1>4. loLvl' \in [LoTagged -> BOOLEAN]
  OBVIOUS
<1>5. level' \in [Tanks -> Nat]
  BY DrainBound
<1>6. totalizer' \in [Racks -> 0..(MeterMod - 1)]
  BY MeteredType
<1>7. dispensed' \in [Racks -> Nat]
  BY PhysicsAssumption
<1> QED
  BY <1>1, <1>2, <1>3, <1>4, <1>5, <1>6, <1>7

\* Whatever the outside world writes is of its type.
LEMMA OutsideTypeOK == PhysTypeOK /\ Outside => PhysTypeOK'
<1> SUFFICES ASSUME PhysTypeOK, Outside PROVE PhysTypeOK'
  OBVIOUS
<1> USE DEF PhysTypeOK, coils, fieldInputs, plant, Toggle
<1>1. ASSUME NEW r \in Racks, WriteRackCoil(r) PROVE PhysTypeOK'
  BY <1>1 DEF WriteRackCoil
<1>2. ASSUME NEW r \in Racks, WriteSrcTank(r) PROVE PhysTypeOK'
  BY <1>2 DEF WriteSrcTank
<1>3. ASSUME NEW r \in Racks, ChangeFieldInput(r) PROVE PhysTypeOK'
  BY <1>3 DEF ChangeFieldInput
<1>4. ASSUME NEW t \in Tanks, WriteOutletCoil(t) PROVE PhysTypeOK'
  BY <1>4 DEF WriteOutletCoil
<1>5. ASSUME RequestReset PROVE PhysTypeOK'
  BY <1>5 DEF RequestReset
<1>6. ASSUME DriveESD PROVE PhysTypeOK'
  BY <1>6 DEF DriveESD
<1> QED
  BY <1>1, <1>2, <1>3, <1>4, <1>5, <1>6 DEF Outside

\* Type correctness of the physics under any outside writes.
THEOREM PhysTypeCorrect == PhysSpec => []PhysTypeOK
<1>1. PhysTypeOK /\ [PhysNext]_physVars => PhysTypeOK'
  <2> SUFFICES ASSUME PhysTypeOK, [PhysNext]_physVars PROVE PhysTypeOK'
    OBVIOUS
  <2>1. CASE Tick
    BY <2>1, TickTypeOK
  <2>2. CASE Outside
    BY <2>2, OutsideTypeOK
  <2>3. CASE UNCHANGED physVars
    BY <2>3 DEF physVars, coils, fieldInputs, plant, PhysTypeOK
  <2> QED
    BY <2>1, <2>2, <2>3 DEF PhysNext
<1> QED
  BY PhysInitTypeOK, <1>1, PTL DEF PhysSpec

-----------------------------------------------------------------------------

\* A tank somebody draws from is above its low switch.
LEMMA DrawnAboveSwitch ==
    ASSUME NEW t \in Tanks, DrawnBy(t) # {}, level \in [Tanks -> Nat]
    PROVE  level[t] > LoLevel[t]
<1>1. PICK r \in Racks : PumpRuns(r) /\ SourceTank(r) = t
  BY DEF DrawnBy
<1>2. ~LoSwitch(t)
  BY <1>1 DEF PumpRuns, InterlockOK
<1> QED
  BY <1>2, PhysicsAssumption DEF LoSwitch

\* No tank is drawn further below its low switch than one step of all racks.
THEOREM CutoutCorrect == PhysSpec => []CutoutHolds
<1>1. PhysInit => CutoutHolds
  <2> SUFFICES ASSUME PhysInit, NEW t \in Tanks, InitLevel[t] > LoLevel[t]
               PROVE  level[t] > LoLevel[t] - NRacks * FlowPerTick
    BY DEF CutoutHolds
  <2>1. level[t] = InitLevel[t] /\ InitLevel[t] \in Nat /\ LoLevel[t] \in Nat
    BY PhysicsAssumption DEF PhysInit
  <2>2. NRacks * FlowPerTick \in Nat
    BY PhysicsAssumption
  <2> QED
    BY <2>1, <2>2
<1>2. PhysTypeOK /\ CutoutHolds /\ [PhysNext]_physVars => CutoutHolds'
  <2> SUFFICES ASSUME PhysTypeOK, CutoutHolds, [PhysNext]_physVars,
                      NEW t \in Tanks, InitLevel[t] > LoLevel[t]
               PROVE  level'[t] > LoLevel[t] - NRacks * FlowPerTick
    BY DEF CutoutHolds
  <2>1. level[t] > LoLevel[t] - NRacks * FlowPerTick
    BY DEF CutoutHolds
  <2>2. CASE Tick
    <3>1. level'[t] = Drain(t)
      BY <2>2 DEF Tick
    <3>2. level[t] \in Nat /\ LoLevel[t] \in Nat /\ NRacks * FlowPerTick \in Nat
      BY PhysicsAssumption DEF PhysTypeOK
    <3>3. CASE DrawnBy(t) = {}
      BY <2>1, <3>1, <3>2, <3>3, DrainBound
    <3>4. CASE DrawnBy(t) # {}
      <4>1. level[t] > LoLevel[t]
        BY <3>4, DrawnAboveSwitch DEF PhysTypeOK
      <4>2. Drain(t) \in Nat /\ Drain(t) >= level[t] - NRacks * FlowPerTick
        BY <3>2, DrainBound
      <4> HIDE DEF PhysTypeOK
      <4> QED
        BY <3>1, <3>2, <4>1, <4>2
    <3> QED
      BY <3>3, <3>4
  <2>3. CASE Outside \/ UNCHANGED physVars
    <3>1. level' = level
      BY <2>3 DEF Outside, WriteRackCoil, WriteSrcTank, ChangeFieldInput,
                  WriteOutletCoil, RequestReset, DriveESD, physVars, plant
    <3> QED
      BY <2>1, <3>1
  <2> QED
    BY <2>2, <2>3 DEF PhysNext
<1> QED
  BY <1>1, <1>2, PhysTypeCorrect, PTL DEF PhysSpec

\* A latched shutdown stops every flow, whatever is written meanwhile.
THEOREM ShutdownCorrect == PhysSpec => ShutdownStopsFlow
<1>1. ASSUME PhysTypeOK, [PhysNext]_physVars,
             esdLatched \/ esdActive, ~esdReset
      PROVE  UNCHANGED <<level, totalizer, dispensed>>
  <2>1. CASE Tick
    <3>1. \A r \in Racks : ~PumpRuns(r)
      BY <1>1 DEF PumpRuns, InterlockOK, Latched
    <3>2. \A t \in Tanks : DrawnBy(t) = {}
      BY <3>1 DEF DrawnBy
    <3>3. level' = level
      <4>1. \A t \in Tanks : Drain(t) = level[t]
        BY <1>1, <3>2, DrainBound DEF PhysTypeOK
      <4>2. level' = [t \in Tanks |-> level[t]]
        BY <2>1, <4>1 DEF Tick
      <4> QED
        BY <1>1, <4>2 DEF PhysTypeOK
    <3>4. totalizer' = totalizer
      <4>1. totalizer' = [r \in Racks |-> totalizer[r]]
        BY <2>1, <3>1 DEF Tick, Metered
      <4> QED
        BY <1>1, <4>1 DEF PhysTypeOK
    <3>5. dispensed' = dispensed
      <4>1. dispensed' = [r \in Racks |-> dispensed[r] + 0]
        BY <2>1, <3>1 DEF Tick
      <4>2. \A r \in Racks : dispensed[r] + 0 = dispensed[r]
        BY <1>1 DEF PhysTypeOK
      <4>3. dispensed' = [r \in Racks |-> dispensed[r]]
        BY <4>1, <4>2
      <4> QED
        BY <1>1, <4>3 DEF PhysTypeOK
    <3> QED
      BY <3>3, <3>4, <3>5
  <2>2. CASE Outside \/ UNCHANGED physVars
    BY <2>2 DEF Outside, WriteRackCoil, WriteSrcTank, ChangeFieldInput,
                WriteOutletCoil, RequestReset, DriveESD, physVars, plant
  <2> QED
    BY <1>1, <2>1, <2>2 DEF PhysNext
<1>2. PhysTypeOK /\ [PhysNext]_physVars
        => [(esdLatched \/ esdActive) /\ ~esdReset
               => UNCHANGED <<level, totalizer, dispensed>>]_physVars
  BY <1>1
<1> QED
  BY <1>2, PhysTypeCorrect, PTL DEF PhysSpec, ShutdownStopsFlow

\* Only a step that consumes a reset request clears the latch.
THEOREM UnlatchCorrect == PhysSpec => OnlyResetUnlatches
<1>1. PhysTypeOK /\ [PhysNext]_physVars
        => [esdLatched /\ ~esdLatched'
               => esdReset /\ ~esdReset' /\ ~esdActive']_physVars
  <2> SUFFICES ASSUME PhysNext, esdLatched, ~esdLatched'
               PROVE  esdReset /\ ~esdReset' /\ ~esdActive'
    OBVIOUS
  <2>1. ~Outside
    BY DEF Outside, WriteRackCoil, WriteSrcTank, ChangeFieldInput,
           WriteOutletCoil, RequestReset, DriveESD, plant
  <2>2. Tick
    BY <2>1 DEF PhysNext
  <2> QED
    BY <2>2 DEF Tick, Latched
<1> QED
  BY <1>1, PhysTypeCorrect, PTL DEF PhysSpec, OnlyResetUnlatches

-----------------------------------------------------------------------------
(* Totals: induction over the subsets of a finite set *)

\* The element that a fold over a set takes next.
Pick(s) == CHOOSE x \in s : TRUE

\* sum adds f over the subsets of S in the order in which Total does.
AddsUp(sum, f, S) ==
    /\ sum[{}] = 0
    /\ \A s \in SUBSET S : s # {} => sum[s] = f[Pick(s)] + sum[s \ {Pick(s)}]

\* A set of subsets of a finite set has a minimal member.
LEMMA FiniteMinimal ==
    ASSUME NEW S, IsFiniteSet(S), NEW T \in SUBSET (SUBSET S), T # {}
    PROVE  \E s \in T : \A u \in T : ~(u \subseteq s /\ u # s)
<1>1. IsWellFoundedOn(StrictSubsetOrdering(S), SUBSET S)
  BY FS_StrictSubsetOrderingWellFounded, FS_FiniteSubsetsOfFinite
<1>2. PICK s \in T : \A u \in T : ~(<<u, s>> \in StrictSubsetOrdering(S))
  BY <1>1, WFMin
<1> QED BY <1>2 DEF StrictSubsetOrdering

\* A nonempty set holds the element taken from it.
LEMMA PickIn == ASSUME NEW s, s # {} PROVE Pick(s) \in s
  BY DEF Pick

\* Induction over the subsets of a finite set in the order of Total.
LEMMA PickInduction ==
    ASSUME NEW S, IsFiniteSet(S), NEW G \in SUBSET (SUBSET S), {} \in G,
           \A s \in SUBSET S : s # {} /\ s \ {Pick(s)} \in G => s \in G
    PROVE  G = SUBSET S
<1> DEFINE bad == (SUBSET S) \ G
<1> SUFFICES ASSUME bad # {} PROVE FALSE
  OBVIOUS
<1>1. bad \in SUBSET (SUBSET S)
  OBVIOUS
<1>2. PICK s \in bad : \A u \in bad : ~(u \subseteq s /\ u # s)
  <2> HIDE DEF bad
  <2> QED BY <1>1, FiniteMinimal
<1>3. s # {}
  BY <1>2
<1>4. Pick(s) \in s
  BY <1>3, PickIn
<1>5. s \ {Pick(s)} \notin bad /\ s \ {Pick(s)} \in SUBSET S
  BY <1>2, <1>4
<1> QED BY <1>2, <1>3, <1>5

\* A column of f[x] cells over every x of s.
Cells(f, s) == UNION {{<<x, i>> : i \in 1..f[x]} : x \in s}

\* The column over x.
Cell(f, x) == {<<x, i>> : i \in 1..f[x]}

\* The column over x is as high as f[x].
LEMMA CellCount ==
  ASSUME NEW S, NEW f \in [S -> Nat], NEW x \in S
  PROVE  IsFiniteSet(Cell(f, x)) /\ Cardinality(Cell(f, x)) = f[x]
<1> DEFINE b == [i \in 1..f[x] |-> <<x, i>>]
<1>1. IsFiniteSet(1..f[x]) /\ Cardinality(1..f[x]) = f[x]
  BY FS_Interval
<1>2. b \in Bijection(1..f[x], Cell(f, x))
  BY DEF Bijection, Injection, Surjection, IsInjective, Cell
<1>3. ExistsBijection(1..f[x], Cell(f, x))
  BY <1>2 DEF ExistsBijection
<1> QED BY <1>1, <1>3, FS_Bijection

\* The columns over a finite set have finitely many cells.
LEMMA CellsFinite ==
  ASSUME NEW S, IsFiniteSet(S), NEW f \in [S -> Nat], NEW s \in SUBSET S
  PROVE  IsFiniteSet(Cells(f, s))
<1>1. IsFiniteSet(s)
  BY FS_Subset
<1> DEFINE cs == {Cell(f, x) : x \in s}
<1>2. IsFiniteSet(cs)
  <2> DEFINE m == [x \in s |-> Cell(f, x)]
  <2>1. m \in Surjection(s, cs)
    BY DEF Surjection
  <2> QED BY <1>1, <2>1, FS_Surjection
<1>3. \A c \in cs : IsFiniteSet(c)
  BY CellCount
<1>4. IsFiniteSet(UNION cs)
  BY <1>2, <1>3, FS_UNION
<1> QED BY <1>4 DEF Cells, Cell

\* The recursion of Total, as its fold is defined.
IsSum(sum, f, S) ==
    sum = [s \in SUBSET S |->
              IF s = {} THEN 0
              ELSE f[CHOOSE x \in s : TRUE] + sum[s \ {CHOOSE x \in s : TRUE}]]

\* That recursion has a solution: the number of cells.
LEMMA SumExists ==
  ASSUME NEW S, IsFiniteSet(S), NEW f \in [S -> Nat]
  PROVE  \E sum : IsSum(sum, f, S)
<1> DEFINE g == [s \in SUBSET S |-> Cardinality(Cells(f, s))]
<1>1. ASSUME NEW s \in SUBSET S, s # {}
      PROVE  g[s] = f[Pick(s)] + g[s \ {Pick(s)}]
  <2> DEFINE x == Pick(s)
             r == s \ {x}
  <2>0. x \in s
    BY <1>1, PickIn
  <2> HIDE DEF x
  <2>1. Cells(f, s) = Cell(f, x) \cup Cells(f, r) /\ Cell(f, x) \cap Cells(f, r) = {}
    BY <2>0 DEF Cells, Cell
  <2>2. IsFiniteSet(Cell(f, x)) /\ Cardinality(Cell(f, x)) = f[x]
    BY <2>0, CellCount
  <2>3. r \in SUBSET S /\ IsFiniteSet(Cells(f, r))
    BY CellsFinite
  <2>4. Cardinality(Cells(f, s)) = f[x] + Cardinality(Cells(f, r)) - Cardinality({})
    <3> HIDE DEF r
    <3> QED BY <2>1, <2>2, <2>3, FS_Union
  <2>5. Cardinality({}) = 0 /\ f[x] \in Nat /\ Cardinality(Cells(f, r)) \in Nat
    BY <2>0, <2>3, FS_EmptySet, FS_CardinalityType
  <2>6. Cardinality(Cells(f, s)) = f[x] + Cardinality(Cells(f, r))
    BY <2>4, <2>5
  <2> QED BY <2>3, <2>6 DEF x
<1>2. g[{}] = 0
  BY FS_EmptySet DEF Cells
<1>3. g = [s \in SUBSET S |-> IF s = {} THEN 0 ELSE f[Pick(s)] + g[s \ {Pick(s)}]]
  <2> DEFINE h == [s \in SUBSET S |-> IF s = {} THEN 0 ELSE f[Pick(s)] + g[s \ {Pick(s)}]]
  <2> SUFFICES g = h
    OBVIOUS
  <2>1. \A s \in SUBSET S : g[s] = IF s = {} THEN 0 ELSE f[Pick(s)] + g[s \ {Pick(s)}]
    BY <1>1, <1>2
  <2>2. \A s \in SUBSET S : g[s] = h[s]
    <3> HIDE DEF g
    <3> QED BY <2>1
  <2>3. g = [s \in SUBSET S |-> g[s]] /\ h = [s \in SUBSET S |-> h[s]]
    OBVIOUS
  <2> HIDE DEF g, h
  <2> QED BY <2>2, <2>3
<1> HIDE DEF g
<1> QED BY <1>3 DEF Pick, IsSum

\* Total adds a finite function up, an element at a time.
LEMMA TotalUnfolds ==
  ASSUME NEW S, IsFiniteSet(S), NEW f \in [S -> Nat]
  PROVE  \E sum \in [SUBSET S -> Nat] : AddsUp(sum, f, S) /\ Total(f) = sum[S]
<1> DEFINE it == CHOOSE sum : IsSum(sum, f, S)
<1>1. IsSum(it, f, S)
  BY SumExists
<1>2. DOMAIN f = S
  OBVIOUS
<1>3. Total(f) = it[S]
  BY <1>2 DEF Total, FoldFunction, FoldFunctionOnSet, MapThenFoldSet, IsSum
<1> HIDE DEF it
<1>4. AddsUp(it, f, S)
  BY <1>1 DEF AddsUp, Pick, IsSum
<1>5. \A s \in SUBSET S : it[s] \in Nat
  <2> DEFINE G == {s \in SUBSET S : it[s] \in Nat}
  <2>1. {} \in G
    BY <1>4 DEF AddsUp
  <2>2. ASSUME NEW s \in SUBSET S, s # {}, s \ {Pick(s)} \in G PROVE s \in G
    BY <1>4, <2>2, PickIn DEF AddsUp
  <2>3. G \in SUBSET (SUBSET S)
    OBVIOUS
  <2>4. G = SUBSET S
    <3> HIDE DEF G
    <3> QED BY <2>1, <2>2, <2>3, PickInduction
  <2> QED BY <2>4
<1>6. it \in [SUBSET S -> Nat]
  BY <1>1, <1>5 DEF IsSum
<1> QED BY <1>3, <1>4, <1>6

\* A total of quantities is a quantity.
LEMMA TotalType ==
  ASSUME NEW S, IsFiniteSet(S), NEW f \in [S -> Nat]
  PROVE  Total(f) \in Nat
<1>1. PICK sum \in [SUBSET S -> Nat] : AddsUp(sum, f, S) /\ Total(f) = sum[S]
  BY TotalUnfolds
<1> QED BY <1>1

\* The total of a pointwise sum is the sum of the totals.
LEMMA TotalPlus ==
  ASSUME NEW S, IsFiniteSet(S), NEW f \in [S -> Nat], NEW g \in [S -> Nat], NEW h \in [S -> Nat],
         \A x \in S : f[x] = g[x] + h[x]
  PROVE  Total(f) = Total(g) + Total(h)
<1>1. PICK sf \in [SUBSET S -> Nat] : AddsUp(sf, f, S) /\ Total(f) = sf[S]
  BY TotalUnfolds
<1>2. PICK sg \in [SUBSET S -> Nat] : AddsUp(sg, g, S) /\ Total(g) = sg[S]
  BY TotalUnfolds
<1>3. PICK sh \in [SUBSET S -> Nat] : AddsUp(sh, h, S) /\ Total(h) = sh[S]
  BY TotalUnfolds
<1> DEFINE G == {s \in SUBSET S : sf[s] = sg[s] + sh[s]}
<1>4. {} \in G
  BY <1>1, <1>2, <1>3 DEF AddsUp
<1>5. ASSUME NEW s \in SUBSET S, s # {}, s \ {Pick(s)} \in G PROVE s \in G
  <2>1. Pick(s) \in S
    BY <1>5, PickIn
  <2>2. /\ sf[s] = f[Pick(s)] + sf[s \ {Pick(s)}]
        /\ sg[s] = g[Pick(s)] + sg[s \ {Pick(s)}]
        /\ sh[s] = h[Pick(s)] + sh[s \ {Pick(s)}]
    BY <1>1, <1>2, <1>3, <1>5 DEF AddsUp
  <2>3. sf[s \ {Pick(s)}] = sg[s \ {Pick(s)}] + sh[s \ {Pick(s)}]
    BY <1>5
  <2>4. f[Pick(s)] = g[Pick(s)] + h[Pick(s)]
    BY <2>1
  <2>5. /\ sg[s \ {Pick(s)}] \in Nat /\ sh[s \ {Pick(s)}] \in Nat
        /\ g[Pick(s)] \in Nat /\ h[Pick(s)] \in Nat
    BY <2>1
  <2> QED BY <2>2, <2>3, <2>4, <2>5
<1>6. G = SUBSET S
  <2>1. G \in SUBSET (SUBSET S)
    OBVIOUS
  <2>2. \A s \in SUBSET S : s # {} /\ s \ {Pick(s)} \in G => s \in G
    BY <1>5
  <2> HIDE DEF G
  <2> QED BY <1>4, <2>1, <2>2, PickInduction
<1> QED BY <1>1, <1>2, <1>3, <1>6

\* The total of a multiple is the multiple of the total.
LEMMA TotalTimes ==
  ASSUME NEW S, IsFiniteSet(S), NEW c \in Nat, NEW f \in [S -> Nat], NEW g \in [S -> Nat],
         \A x \in S : f[x] = c * g[x]
  PROVE  Total(f) = c * Total(g)
<1>1. PICK sf \in [SUBSET S -> Nat] : AddsUp(sf, f, S) /\ Total(f) = sf[S]
  BY TotalUnfolds
<1>2. PICK sg \in [SUBSET S -> Nat] : AddsUp(sg, g, S) /\ Total(g) = sg[S]
  BY TotalUnfolds
<1> DEFINE G == {s \in SUBSET S : sf[s] = c * sg[s]}
<1>4. {} \in G
  BY <1>1, <1>2 DEF AddsUp
<1>5. ASSUME NEW s \in SUBSET S, s # {}, s \ {Pick(s)} \in G PROVE s \in G
  <2>1. Pick(s) \in S
    BY <1>5, PickIn
  <2>2. /\ sf[s] = f[Pick(s)] + sf[s \ {Pick(s)}]
        /\ sg[s] = g[Pick(s)] + sg[s \ {Pick(s)}]
    BY <1>1, <1>2, <1>5 DEF AddsUp
  <2>3. \A a, b \in Nat : c * (a + b) = c * a + c * b
    OBVIOUS
  <2> QED BY <1>5, <2>1, <2>2, <2>3
<1>6. G = SUBSET S
  <2>1. G \in SUBSET (SUBSET S)
    OBVIOUS
  <2>2. \A s \in SUBSET S : s # {} /\ s \ {Pick(s)} \in G => s \in G
    BY <1>5
  <2> HIDE DEF G
  <2> QED BY <1>4, <2>1, <2>2, PickInduction
<1> QED BY <1>1, <1>2, <1>6

\* The total over the keys k of the numbers of elements that src takes to k,
\* c for each, counts every element of A once.
LEMMA TotalCounts ==
  ASSUME NEW S, IsFiniteSet(S), NEW A, IsFiniteSet(A), NEW src \in [A -> S],
         NEW c \in Nat, NEW f \in [S -> Nat],
         \A x \in S : f[x] = c * Cardinality({a \in A : src[a] = x})
  PROVE  Total(f) = c * Cardinality(A)
<1> DEFINE from(s) == {a \in A : src[a] \in s}
<1>1. PICK sf \in [SUBSET S -> Nat] : AddsUp(sf, f, S) /\ Total(f) = sf[S]
  BY TotalUnfolds
<1> DEFINE G == {s \in SUBSET S : sf[s] = c * Cardinality(from(s))}
<1>4. {} \in G
  <2>1. from({}) = {}
    OBVIOUS
  <2>2. Cardinality(from({})) = 0
    BY <2>1, FS_EmptySet
  <2>3. sf[{}] = 0
    BY <1>1 DEF AddsUp
  <2> HIDE DEF from
  <2>4. c * Cardinality(from({})) = 0
    BY <2>2
  <2> QED BY <2>3, <2>4
<1>5. ASSUME NEW s \in SUBSET S, s # {}, s \ {Pick(s)} \in G PROVE s \in G
  <2> DEFINE x == Pick(s)
             r == s \ {x}
             here == {a \in A : src[a] = x}
  <2>1. x \in s
    BY <1>5, PickIn
  <2>2. sf[s] = f[x] + sf[r]
    BY <1>1, <1>5 DEF AddsUp
  <2>3. sf[r] = c * Cardinality(from(r)) /\ r \in SUBSET S
    BY <1>5
  <2> HIDE DEF x
  <2>4. from(s) = here \cup from(r) /\ here \cap from(r) = {}
    BY <2>1
  <2>5. IsFiniteSet(here) /\ IsFiniteSet(from(r))
    BY FS_Subset
  <2>6. Cardinality(here) \in Nat /\ Cardinality(from(r)) \in Nat
    BY <2>5, FS_CardinalityType
  <2>7. Cardinality(from(s)) = Cardinality(here) + Cardinality(from(r))
    <3> HIDE DEF from, here
    <3>1. Cardinality(from(s)) = Cardinality(here) + Cardinality(from(r)) - Cardinality({})
      BY <2>4, <2>5, FS_Union
    <3> QED BY <3>1, <2>6, FS_EmptySet
  <2>8. f[x] = c * Cardinality(here)
    BY <2>1
  <2>9. \A a, b \in Nat : c * (a + b) = c * a + c * b
    OBVIOUS
  <2>10. sf[s] = c * Cardinality(from(s))
    <3> HIDE DEF from, here, r
    <3> QED BY <2>2, <2>3, <2>6, <2>7, <2>8, <2>9
  <2> QED BY <2>10
<1>6. G = SUBSET S
  <2>1. G \in SUBSET (SUBSET S)
    OBVIOUS
  <2>2. \A s \in SUBSET S : s # {} /\ s \ {Pick(s)} \in G => s \in G
    BY <1>5
  <2> HIDE DEF G
  <2> QED BY <1>4, <2>1, <2>2, PickInduction
<1>7. from(S) = A
  OBVIOUS
<1>8. S \in G
  BY <1>6
<1> QED BY <1>1, <1>7, <1>8

\* The total of a function that is c on A and 0 elsewhere.
LEMMA TotalOfSet ==
    ASSUME NEW S, IsFiniteSet(S), NEW A \in SUBSET S, NEW c \in Nat, NEW f \in [S -> Nat],
           \A x \in S : f[x] = IF x \in A THEN c ELSE 0
    PROVE  Total(f) = c * Cardinality(A)
<1> DEFINE src == [x \in A |-> x]
<1>1. src \in [A -> S] /\ IsFiniteSet(A)
  BY FS_Subset
<1>2. ASSUME NEW x \in S
      PROVE  f[x] = c * Cardinality({a \in A : src[a] = x})
  <2>1. CASE x \in A
    <3>1. {a \in A : src[a] = x} = {x}
      BY <2>1
    <3>2. Cardinality({x}) = 1
      BY FS_Singleton
    <3>3. f[x] = c /\ c * Cardinality({x}) = c
      BY <2>1, <3>2
    <3> QED BY <3>1, <3>3
  <2>2. CASE x \notin A
    <3>1. {a \in A : src[a] = x} = {}
      BY <2>2
    <3>2. Cardinality({}) = 0
      BY FS_EmptySet
    <3>3. f[x] = 0 /\ c * Cardinality({}) = 0
      BY <2>2, <3>2
    <3> QED BY <3>1, <3>3
  <2> QED BY <2>1, <2>2
<1>3. \A x \in S : f[x] = c * Cardinality({a \in A : src[a] = x})
  BY <1>2
<1> HIDE DEF src
<1> QED BY <1>1, <1>3, TotalCounts

-----------------------------------------------------------------------------
(* Tanks and meters *)

\* A step of the physics moves whole gallons (600 gallons a minute in steps
\* of a fifth of a second) ...
WholeGallons == FlowPerTick % UnitsPerGal = 0

\* ... and a tank that is not below its low switch holds a step of all racks
\* (5 percent of 500000 gallons).
SwitchCoversStep == \A t \in Tanks : LoLevel[t] + 1 >= NRacks * FlowPerTick

\* Quotient and remainder.
LEMMA DivMod ==
    ASSUME NEW n \in Int, NEW d \in Nat \ {0}
    PROVE  /\ n \div d \in Int /\ n % d \in 0..d - 1
           /\ n = d * (n \div d) + (n % d)
OBVIOUS

\* The quotient of a quantity is a quantity.
LEMMA DivModNat ==
    ASSUME NEW n \in Nat, NEW d \in Nat \ {0}
    PROVE  n \div d \in Nat
OBVIOUS

\* A multiple leaves no remainder.
LEMMA Multiples ==
    ASSUME NEW d \in Nat \ {0}, NEW k \in Int
    PROVE  (d * k) % d = 0
<1> DEFINE n == d * k
<1>1. n \in Int
  OBVIOUS
<1>2. /\ n \div d \in Int /\ n % d \in 0..d - 1
      /\ n = d * (n \div d) + (n % d)
  <2> HIDE DEF n
  <2> QED BY <1>1, DivMod
<1>3. d * (k - (n \div d)) = n % d
  <2>1. \A a \in Int : d * (k - a) = d * k - d * a
    OBVIOUS
  <2> QED BY <1>2, <2>1
<1>4. \A a \in Int : d * a \in 0..d - 1 => a = 0
  <2>1. \A a \in Int : a >= 1 => d * a >= d
    OBVIOUS
  <2>2. \A a \in Int : a <= -1 => d * a <= -d
    OBVIOUS
  <2> QED BY <2>1, <2>2
<1>5. k - (n \div d) = 0
  BY <1>2, <1>3, <1>4
<1> QED BY <1>3, <1>5

\* The racks whose pump runs in this step.
Pumping == {r \in Racks : PumpRuns(r)}

\* Finitely many pumps run.
LEMMA PumpingFinite == IsFiniteSet(Pumping) /\ Cardinality(Pumping) \in Nat
  BY RacksFinite, FS_Subset, FS_CardinalityType DEF Pumping

\* There are finitely many tanks.
LEMMA TanksFinite == IsFiniteSet(Tanks)
  BY PhysicsAssumption, FS_Interval DEF Tanks

\* A pump that runs draws from a tank.
LEMMA SourceOfPumping ==
    ASSUME NEW r \in Racks, PumpRuns(r)
    PROVE  SourceTank(r) \in Tanks
<1>1. SourceTank(r) # NoTank
  BY DEF PumpRuns, InterlockOK
<1>2. CASE srcTank[r] \in Tanks
  BY <1>2 DEF SourceTank
<1>3. CASE srcTank[r] \notin Tanks
  <2> DEFINE P(t) == outVlv[t] /\ \A u \in 1..(t - 1) : ~outVlv[u]
  <2>1. \E t \in Tanks : outVlv[t]
    BY <1>1, <1>3 DEF SourceTank
  <2>2. \E t \in Tanks : P(t)
    <3> DEFINE open == {t \in Tanks : outVlv[t]}
    <3>1. IsWellFoundedOn(OpToRel(<, Nat), Nat)
      BY NatLessThanWellFounded
    <3>2. open \subseteq Nat /\ open # {}
      BY <2>1, PhysicsAssumption DEF Tanks
    <3>3. PICK t \in open : \A u \in open : ~(<<u, t>> \in OpToRel(<, Nat))
      <4> HIDE DEF open
      <4> QED BY <3>1, <3>2, WFMin
    <3>4. \A u \in open : ~(u < t)
      BY <3>2, <3>3 DEF OpToRel
    <3>5. t \in 1..NTanks /\ NTanks \in Nat
      BY PhysicsAssumption DEF Tanks
    <3>6. \A u \in 1..(t - 1) : u \in Tanks /\ u < t
      BY <3>5 DEF Tanks
    <3> QED BY <3>3, <3>4, <3>6
  <2>3. (CHOOSE t \in Tanks : P(t)) \in Tanks
    <3> HIDE DEF P
    <3> QED BY <2>2
  <2>4. SourceTank(r) = CHOOSE t \in Tanks : P(t)
    BY <1>3, <2>1 DEF SourceTank
  <2> HIDE DEF P
  <2> QED BY <2>3, <2>4
<1> QED BY <1>2, <1>3

\* A step takes from a tank what its racks draw, never less.
LEMMA TankDrains ==
    ASSUME level \in [Tanks -> Nat], SwitchCoversStep, Tick, NEW t \in Tanks
    PROVE  /\ level'[t] \in Nat
           /\ level[t] = level'[t] + FlowPerTick * Cardinality(DrawnBy(t))
<1> DEFINE n == Cardinality(DrawnBy(t))
           d == FlowPerTick * n
<1>1. n \in 0..NRacks
  BY DrawnByBound
<1>2. level'[t] = LET rest == level[t] - d IN IF rest < 0 THEN 0 ELSE rest
  BY DEF Tick, Drain
<1> HIDE DEF n
<1>3. d \in Nat /\ level[t] \in Nat
  BY <1>1, PhysicsAssumption
<1>4. d <= level[t]
  <2>1. CASE DrawnBy(t) = {}
    <3>1. n = 0
      BY <2>1, FS_EmptySet DEF n
    <3> QED BY <1>3, <3>1, PhysicsAssumption
  <2>2. CASE DrawnBy(t) # {}
    <3>1. level[t] > LoLevel[t] /\ LoLevel[t] \in Nat
      BY <2>2, DrawnAboveSwitch, PhysicsAssumption
    <3>2. LoLevel[t] + 1 >= NRacks * FlowPerTick
      BY DEF SwitchCoversStep
    <3>3. \A a \in 0..NRacks : FlowPerTick * a <= NRacks * FlowPerTick
      BY PhysicsAssumption
    <3>4. d <= NRacks * FlowPerTick
      BY <1>1, <3>3
    <3>5. NRacks * FlowPerTick \in Nat
      BY PhysicsAssumption
    <3> HIDE DEF d
    <3> QED BY <1>3, <3>1, <3>2, <3>4, <3>5
  <2> QED BY <2>1, <2>2
<1>5. level'[t] \in Nat /\ level[t] = level'[t] + d
  <2> HIDE DEF d
  <2> QED BY <1>2, <1>3, <1>4
<1> QED BY <1>5 DEF n

\* What a step takes from all tanks is what it counts on all pumping racks.
LEMMA StepDrains ==
    ASSUME level \in [Tanks -> Nat], SwitchCoversStep, Tick
    PROVE  /\ level' \in [Tanks -> Nat]
           /\ Total(level') = Total(level) - FlowPerTick * Cardinality(Pumping)
<1> DEFINE n(t) == Cardinality(DrawnBy(t))
           d == [t \in Tanks |-> FlowPerTick * n(t)]
           src == [r \in Pumping |-> SourceTank(r)]
<1>1. \A t \in Tanks : n(t) \in 0..NRacks
  BY DrawnByBound
<1>2. d \in [Tanks -> Nat]
  <2>1. \A t \in Tanks : n(t) \in Nat
    BY <1>1, PhysicsAssumption
  <2> HIDE DEF n
  <2> QED BY <2>1, PhysicsAssumption
<1>3. src \in [Pumping -> Tanks]
  BY SourceOfPumping DEF Pumping
<1>4. \A t \in Tanks : {r \in Pumping : src[r] = t} = DrawnBy(t)
  BY DEF Pumping, DrawnBy
<1>5. \A t \in Tanks : d[t] = FlowPerTick * Cardinality({r \in Pumping : src[r] = t})
  BY <1>4
<1>6. Total(d) = FlowPerTick * Cardinality(Pumping)
  <2>1. FlowPerTick \in Nat
    BY PhysicsAssumption
  <2> HIDE DEF d, src
  <2> QED BY <1>2, <1>3, <1>5, <2>1, TanksFinite, PumpingFinite, TotalCounts
<1>7. ASSUME NEW t \in Tanks
      PROVE  level'[t] \in Nat /\ level[t] = level'[t] + d[t]
  BY TankDrains
<1>8. level' \in [Tanks -> Nat]
  <2>1. level' = [t \in Tanks |-> Drain(t)]
    BY DEF Tick
  <2> QED BY <1>7, <2>1
<1>9. Total(level) = Total(level') + Total(d)
  <2> HIDE DEF d
  <2> QED BY <1>2, <1>7, <1>8, TanksFinite, TotalPlus
<1>10. Total(level') \in Nat /\ Total(level) \in Nat
  BY <1>8, TanksFinite, TotalType
<1>11. FlowPerTick * Cardinality(Pumping) \in Nat
  BY PumpingFinite, PhysicsAssumption
<1> QED
  <2> HIDE DEF d
  <2> QED BY <1>6, <1>8, <1>9, <1>10, <1>11

\* What a step counts on all meters, but for whole turns of a meter.
LEMMA StepMeters ==
    ASSUME totalizer \in [Racks -> 0..(MeterMod - 1)], Tick
    PROVE  \E turns \in Nat :
              Total(totalizer') + MeterMod * turns
                 = Total(totalizer) + (FlowPerTick \div UnitsPerGal) * Cardinality(Pumping)
<1> DEFINE q == FlowPerTick \div UnitsPerGal
           p == [r \in Racks |-> IF PumpRuns(r) THEN q ELSE 0]
           s == [r \in Racks |-> totalizer[r] + p[r]]
           w == [r \in Racks |-> s[r] \div MeterMod]
           mw == [r \in Racks |-> MeterMod * w[r]]
<1>1. q \in Nat /\ MeterMod \in Nat \ {0}
  BY PhysicsAssumption, DivModNat
<1> HIDE DEF q
<1>2. p \in [Racks -> Nat]
  BY <1>1
<1>3. totalizer \in [Racks -> Nat]
  BY <1>1
<1>4. s \in [Racks -> Nat]
  <2> HIDE DEF p
  <2> QED BY <1>2, <1>3
<1>5. w \in [Racks -> Nat]
  <2> HIDE DEF s
  <2>1. \A r \in Racks : s[r] \div MeterMod \in Nat
    BY <1>1, <1>4, DivModNat
  <2> QED BY <2>1
<1>6. mw \in [Racks -> Nat]
  <2> HIDE DEF w
  <2> QED BY <1>1, <1>5
<1>7. ASSUME NEW r \in Racks
      PROVE  totalizer'[r] \in Nat /\ s[r] = mw[r] + totalizer'[r]
  <2>1. totalizer'[r] = s[r] % MeterMod
    <3>1. totalizer'[r] = Metered(r)
      BY DEF Tick
    <3>2. CASE PumpRuns(r)
      BY <3>1, <3>2 DEF Metered, q
    <3>3. CASE ~PumpRuns(r)
      <4>1. s[r] = totalizer[r]
        BY <3>3, <1>3
      <4>2. \A x \in 0..(MeterMod - 1) : x % MeterMod = x
        BY <1>1
      <4> QED BY <3>1, <3>3, <4>1, <4>2 DEF Metered
    <3> QED BY <3>2, <3>3
  <2>2. s[r] \in Nat
    BY <1>4
  <2> HIDE DEF s
  <2>3. s[r] % MeterMod \in Nat /\ s[r] = MeterMod * (s[r] \div MeterMod) + (s[r] % MeterMod)
    <3>1. s[r] \in Int /\ MeterMod \in Nat \ {0}
      BY <1>1, <2>2
    <3>2. /\ s[r] % MeterMod \in 0..MeterMod - 1
          /\ s[r] = MeterMod * (s[r] \div MeterMod) + (s[r] % MeterMod)
      BY <3>1, DivMod
    <3> QED BY <3>2, <1>1
  <2>4. mw[r] = MeterMod * (s[r] \div MeterMod)
    OBVIOUS
  <2> QED BY <2>1, <2>3, <2>4
<1>8. totalizer' \in [Racks -> Nat]
  <2>1. totalizer' = [r \in Racks |-> Metered(r)]
    BY DEF Tick
  <2> QED BY <1>7, <2>1
<1>9. Total(p) = q * Cardinality(Pumping)
  <2>1. \A r \in Racks : p[r] = IF r \in Pumping THEN q ELSE 0
    BY DEF Pumping
  <2>2. Pumping \in SUBSET Racks
    BY DEF Pumping
  <2> HIDE DEF p
  <2> QED BY <1>1, <1>2, <2>1, <2>2, RacksFinite, TotalOfSet
<1>10. Total(s) = Total(totalizer) + Total(p)
  <2>1. \A r \in Racks : s[r] = totalizer[r] + p[r]
    OBVIOUS
  <2> HIDE DEF s, p
  <2> QED BY <1>2, <1>3, <1>4, <2>1, RacksFinite, TotalPlus
<1>11. Total(mw) = MeterMod * Total(w)
  <2>1. \A r \in Racks : mw[r] = MeterMod * w[r]
    OBVIOUS
  <2> HIDE DEF mw, w
  <2> QED BY <1>1, <1>5, <1>6, <2>1, RacksFinite, TotalTimes
<1>12. Total(s) = Total(mw) + Total(totalizer')
  <2> HIDE DEF s, mw
  <2> QED BY <1>4, <1>6, <1>7, <1>8, RacksFinite, TotalPlus
<1> HIDE DEF s, p, mw, w
<1>13. Total(w) \in Nat /\ Total(mw) \in Nat /\ Total(totalizer) \in Nat /\ Total(totalizer') \in Nat
  BY <1>3, <1>5, <1>6, <1>8, RacksFinite, TotalType
<1>14. Total(totalizer') + MeterMod * Total(w) = Total(totalizer) + q * Cardinality(Pumping)
  BY <1>9, <1>10, <1>11, <1>12, <1>13
<1> QED BY <1>13, <1>14 DEF q

\* MetersAccountForTanks with the number of whole turns named.
Accounted ==
    \E turns \in Nat :
        Total(InitLevel) - Total(level) = UnitsPerGal * (Total(totalizer) + MeterMod * turns)

\* It says what MetersAccountForTanks says.
LEMMA AccountedMeans ==
    ASSUME level \in [Tanks -> Nat], totalizer \in [Racks -> 0..(MeterMod - 1)], Accounted
    PROVE  MetersAccountForTanks
<1>1. PICK turns \in Nat :
        Total(InitLevel) - Total(level) = UnitsPerGal * (Total(totalizer) + MeterMod * turns)
  BY DEF Accounted
<1>2. /\ UnitsPerGal \in Nat \ {0} /\ MeterMod \in Nat \ {0}
      /\ InitLevel \in [Tanks -> Nat] /\ totalizer \in [Racks -> Nat]
  BY PhysicsAssumption
<1>3. Total(InitLevel) \in Nat /\ Total(level) \in Nat /\ Total(totalizer) \in Nat
  BY <1>2, TanksFinite, RacksFinite, TotalType
<1>4. /\ UnitsPerGal * MeterMod \in Nat \ {0}
      /\ UnitsPerGal * (Total(totalizer) + MeterMod * turns)
            = UnitsPerGal * Total(totalizer) + (UnitsPerGal * MeterMod) * turns
  BY <1>2, <1>3
<1>5. Total(InitLevel) - Total(level) - UnitsPerGal * Total(totalizer) = (UnitsPerGal * MeterMod) * turns
  BY <1>1, <1>2, <1>3, <1>4
<1>6. ((UnitsPerGal * MeterMod) * turns) % (UnitsPerGal * MeterMod) = 0
  BY <1>4, Multiples
<1> QED BY <1>5, <1>6 DEF MetersAccountForTanks

\* A step's flow is a whole number of gallons.
LEMMA FlowInGallons ==
    ASSUME WholeGallons
    PROVE  /\ FlowPerTick = UnitsPerGal * (FlowPerTick \div UnitsPerGal)
           /\ FlowPerTick \div UnitsPerGal \in Nat
<1> DEFINE q == FlowPerTick \div UnitsPerGal
<1>1. FlowPerTick \in Int /\ FlowPerTick \in Nat /\ UnitsPerGal \in Nat \ {0}
  BY PhysicsAssumption
<1>2. /\ q \in Nat
      /\ FlowPerTick = UnitsPerGal * q + (FlowPerTick % UnitsPerGal)
  BY <1>1, DivMod, DivModNat
<1>3. UnitsPerGal * q \in Int
  BY <1>1, <1>2
<1> QED BY <1>2, <1>3 DEF WholeGallons

\* A step of the physics keeps tanks and meters in account, through a wrap of
\* any meter.
LEMMA TickAccounted ==
    ASSUME level \in [Tanks -> Nat], totalizer \in [Racks -> 0..(MeterMod - 1)],
           WholeGallons, SwitchCoversStep, Accounted, Tick
    PROVE  Accounted'
<1> DEFINE q == FlowPerTick \div UnitsPerGal
           n == Cardinality(Pumping)
<1>1. PICK k \in Nat :
        Total(InitLevel) - Total(level) = UnitsPerGal * (Total(totalizer) + MeterMod * k)
  BY DEF Accounted
<1>2. PICK j \in Nat : Total(totalizer') + MeterMod * j = Total(totalizer) + q * n
  BY StepMeters
<1>3. /\ level' \in [Tanks -> Nat]
      /\ Total(level') = Total(level) - FlowPerTick * n
  BY StepDrains
<1>4. FlowPerTick = UnitsPerGal * q /\ q \in Nat
  BY FlowInGallons
<1>5. n \in Nat
  BY PumpingFinite
<1>6. /\ UnitsPerGal \in Nat \ {0} /\ MeterMod \in Nat \ {0}
      /\ InitLevel \in [Tanks -> Nat] /\ totalizer \in [Racks -> Nat]
  BY PhysicsAssumption
<1>7. totalizer' \in [Racks -> Nat]
  BY <1>6, MeteredType DEF Tick
<1>8. /\ Total(InitLevel) \in Nat /\ Total(level) \in Nat /\ Total(level') \in Nat
      /\ Total(totalizer) \in Nat /\ Total(totalizer') \in Nat
  BY <1>3, <1>6, <1>7, TanksFinite, RacksFinite, TotalType
<1> HIDE DEF q, n
<1>9. FlowPerTick * n = UnitsPerGal * (q * n) /\ q * n \in Nat
  BY <1>4, <1>5, <1>6
<1>10. Total(InitLevel) - Total(level')
         = UnitsPerGal * (Total(totalizer) + MeterMod * k) + UnitsPerGal * (q * n)
  <2>1. /\ UnitsPerGal * (Total(totalizer) + MeterMod * k) \in Int
        /\ UnitsPerGal * (q * n) \in Int
    BY <1>6, <1>8, <1>9
  <2> QED BY <1>1, <1>3, <1>8, <1>9, <2>1
<1>11. MeterMod * k \in Nat /\ MeterMod * j \in Nat /\ MeterMod * (k + j) = MeterMod * k + MeterMod * j
  BY <1>6
<1>12. \A a, b \in Nat : UnitsPerGal * a + UnitsPerGal * b = UnitsPerGal * (a + b)
  BY <1>6
<1>13. Total(InitLevel) - Total(level')
         = UnitsPerGal * ((Total(totalizer) + MeterMod * k) + q * n)
  BY <1>8, <1>9, <1>10, <1>11, <1>12
<1>14. (Total(totalizer) + MeterMod * k) + q * n = Total(totalizer') + MeterMod * (k + j)
  BY <1>2, <1>8, <1>9, <1>11
<1>15. k + j \in Nat
  OBVIOUS
<1> QED BY <1>13, <1>14, <1>15 DEF Accounted

\* New tanks and meters at zero account for each other.
LEMMA ZeroAccounted ==
    Total(InitLevel) - Total(InitLevel) = UnitsPerGal * (Total(AllZero) + MeterMod * 0)
<1>1. /\ UnitsPerGal \in Nat \ {0} /\ MeterMod \in Nat \ {0} /\ InitLevel \in [Tanks -> Nat]
      /\ 0 \in Nat
  BY PhysicsAssumption
<1>2. Total(InitLevel) \in Nat
  BY <1>1, TanksFinite, TotalType
<1>3. Total(AllZero) = 0 * Total(AllZero) /\ Total(AllZero) \in Nat
  <2>1. AllZero \in [Racks -> Nat] /\ \A r \in Racks : AllZero[r] = 0 * AllZero[r]
    BY DEF AllZero
  <2> QED BY <1>1, <2>1, RacksFinite, TotalTimes, TotalType
<1> QED BY <1>1, <1>2, <1>3

\* A tank from which somebody draws in a step falls.
LEMMA DrainFalls ==
    ASSUME NEW t \in Tanks, DrawnBy(t) # {}, level[t] \in Nat, level[t] > 0
    PROVE  Drain(t) < level[t]
<1> DEFINE n == Cardinality(DrawnBy(t))
<1>1. n \in Nat /\ n # 0
  <2>1. DrawnBy(t) \subseteq Racks
    BY DEF DrawnBy
  <2>2. IsFiniteSet(DrawnBy(t))
    BY <2>1, RacksFinite, FS_Subset
  <2> QED BY <2>2, FS_CardinalityType, FS_EmptySet
<1> HIDE DEF n
<1>2. FlowPerTick * n \in Nat /\ FlowPerTick * n > 0
  <2>1. \A a, b \in Nat \ {0} : a * b \in Nat /\ a * b > 0
    OBVIOUS
  <2> QED BY <1>1, <2>1, PhysicsAssumption
<1>3. Drain(t) = LET rest == level[t] - FlowPerTick * n IN IF rest < 0 THEN 0 ELSE rest
  BY DEF Drain, n
<1> QED BY <1>2, <1>3

\* A meter account kept by the physics alone, whatever its clients write.
THEOREM MetersPhysCorrect ==
    ASSUME WholeGallons, SwitchCoversStep
    PROVE  PhysSpec => []MetersAccountForTanks
<1>1. PhysInit => PhysTypeOK /\ Accounted
  BY PhysInitTypeOK, ZeroAccounted DEF PhysInit, Accounted
<1>2. PhysTypeOK /\ Accounted /\ [PhysNext]_physVars => (PhysTypeOK /\ Accounted)'
  <2> SUFFICES ASSUME PhysTypeOK, Accounted, [PhysNext]_physVars
               PROVE  PhysTypeOK' /\ Accounted'
    OBVIOUS
  <2>1. CASE Tick
    BY <2>1, TickTypeOK, TickAccounted DEF PhysTypeOK
  <2>2. CASE Outside
    <3>1. UNCHANGED <<level, totalizer>>
      BY <2>2 DEF Outside, WriteRackCoil, WriteSrcTank, ChangeFieldInput,
                  WriteOutletCoil, RequestReset, DriveESD, plant
    <3> QED BY <2>2, <3>1, OutsideTypeOK DEF Accounted
  <2>3. CASE UNCHANGED physVars
    BY <2>3 DEF PhysTypeOK, Accounted, physVars, plant, coils, fieldInputs
  <2> QED BY <2>1, <2>2, <2>3 DEF PhysNext
<1>3. PhysTypeOK /\ Accounted => MetersAccountForTanks
  BY AccountedMeans DEF PhysTypeOK
<1> QED BY <1>1, <1>2, <1>3, PTL DEF PhysSpec

-----------------------------------------------------------------------------
(* What each statement of AuditTables writes *)

\* A new order.
LEMMA ExecInsertOrder ==
    ASSUME NEW d, NEW o
    PROVE  Sql!Exec(d, Sql!InsertOrder(o)) = [d EXCEPT !.orders[o] = Sql!OrderInserted(@)]
  BY DEF Sql!Exec, Sql!InsertOrder

\* The status of a truck.
LEMMA ExecSetTruck ==
    ASSUME NEW d, NEW k, NEW q
    PROVE  Sql!Exec(d, Sql!SetTruck(k, q)) = [d EXCEPT !.trucks[k] = q]
  BY DEF Sql!Exec, Sql!SetTruck

\* A new row in the truck queue.
LEMMA ExecEnqueue ==
    ASSUME NEW d, NEW k
    PROVE  Sql!Exec(d, Sql!Enqueue(k)) = [d EXCEPT !.queue[k]["QUEUED"] = @ + 1]
  BY DEF Sql!Exec, Sql!Enqueue

\* Rows of the truck queue move to another status.
LEMMA ExecAdvance ==
    ASSUME NEW d, NEW k, NEW p, NEW q
    PROVE  Sql!Exec(d, Sql!Advance(k, p, q))
              = [d EXCEPT !.queue[k] = Sql!RowsAdvanced(@, p, q)]
  BY DEF Sql!Exec, Sql!Advance

\* The two totals that a recorded load raises.
Raised(f, x, by) == [f EXCEPT ![x] = @ + by]
\* A database with other load tables.
WithLoads(d, gallons, loads) == [[d EXCEPT !.loaded = gallons] EXCEPT !.loads = loads]

\* A load, in the table and in the total of its tank.
LEMMA ExecInsertLoad ==
    ASSUME NEW d, NEW k, NEW t, NEW g, NEW a, NEW b
    PROVE  Sql!Exec(d, Sql!InsertLoad(k, t, g, a, b))
              = WithLoads(d, Raised(d.loaded, t, g), Raised(d.loads, k, 1))
  BY DEF Sql!Exec, Sql!InsertLoad, WithLoads, Raised

\* A delivery.
LEMMA ExecInsertDelivery ==
    ASSUME NEW d, NEW k, NEW o
    PROVE  Sql!Exec(d, Sql!InsertDelivery(k, o)) = [d EXCEPT !.deliveries = @ \cup {<<k, o>>}]
  BY DEF Sql!Exec, Sql!InsertDelivery

\* A filled order.
LEMMA ExecFillOrder ==
    ASSUME NEW d, NEW o
    PROVE  Sql!Exec(d, Sql!FillOrder(o)) = [d EXCEPT !.orders = Sql!OrdersFilled(@, o)]
  BY DEF Sql!Exec, Sql!FillOrder

\* An event.
LEMMA ExecInsertEvent ==
    ASSUME NEW d, NEW c
    PROVE  Sql!Exec(d, Sql!InsertEvent(c)) = [d EXCEPT !.events[c] = @ + 1]
  BY DEF Sql!Exec, Sql!InsertEvent

\* A tank level.
LEMMA ExecInsertSnap ==
    ASSUME NEW d, NEW t, NEW l
    PROVE  Sql!Exec(d, Sql!InsertSnap(t, l)) = [d EXCEPT !.snap[t] = {l}]
  BY DEF Sql!Exec, Sql!InsertSnap

-----------------------------------------------------------------------------
(* Types *)

\* What the event queue holds: events of the sorties.
SortieEvents == {EventOf(s, i) : s \in Sorties, i \in 1..Len(Script)}

\* The invariant that types every variable the theorems below speak of.
TypeInv ==
    /\ SmTypeOK
    /\ stage \in [Sorties -> 0..Len(Script)]
    /\ eventQueue \in Seq(SortieEvents)

\* An event names a rack, a tank and a truck that exist.
LEMMA SortieEventType ==
    ASSUME NEW e \in SortieEvents
    PROVE  /\ e.rack \in Racks /\ e.tank \in Tanks /\ e.truck \in Trucks
           /\ e.order \in Orders /\ e.preset \in Nat
<1>1. PICK s \in Sorties, i \in 1..Len(Script) : e = EventOf(s, i)
  BY DEF SortieEvents
<1>2. s \in [order : Orders, truck : Trucks, tank : Tanks,
             rack : Racks, preset : Nat]
  BY SortieAssumption
<1> QED
  BY <1>1, <1>2 DEF EventOf

\* A sortie is six events.
LEMMA ScriptLength == Len(Script) = 6
  BY DEF Script

\* The head of a queue is of its elements, and so is its tail.
LEMMA HeadTail ==
    ASSUME NEW S, NEW q \in Seq(S), q # <<>>
    PROVE  Head(q) \in S /\ Tail(q) \in Seq(S)
  OBVIOUS

\* Every open load is told from NoLoad by its truck.
LEMMA LoadIsNotNoLoad ==
    ASSUME NEW l \in Loads
    PROVE  l # NoLoad /\ l.truck \in Trucks /\ l.tank \in Tanks
  BY FleetAssumption DEF Loads, NoLoad

\* The number of a tank fits the source register.
LEMMA TankRegister == \A t \in Tanks : t \in 0..BadTank
  BY PhysicsAssumption DEF Tanks, BadTank

\* So does the absence of one.
LEMMA NoTankRegister == NoTank \in 0..BadTank
  BY PhysicsAssumption DEF NoTank, BadTank

-----------------------------------------------------------------------------
(* Type correctness *)

\* The initial state is of its type.
LEMMA InitTypeInv == Init => TypeInv
<1> SUFFICES ASSUME Init PROVE TypeInv
  OBVIOUS
<1>1. PhysTypeOK
  BY PhysInitTypeOK DEF Init
<1>2. /\ activeTruck \in [Racks -> Trucks \cup {NoTruck}]
      /\ openLoads \in [Racks -> Loads \cup {NoLoad}]
      /\ openDeliveries \in [Trucks -> Orders \cup {NoOrder}]
  BY DEF Init, SmInit
<1>3. presetReg \in [Racks -> Nat]
  BY DEF Init, SmInit, AllZero
<1>4. eventQueue \in Seq(SortieEvents) /\ stage \in [Sorties -> 0..Len(Script)]
  BY ScriptLength DEF Init
<1> QED
  BY <1>1, <1>2, <1>3, <1>4 DEF TypeInv, SmTypeOK

\* A change of the state machine's side only.
LEMMA PlantSideTypeOK ==
    ASSUME SmTypeOK, UNCHANGED plantSide,
           openDeliveries' \in [Trucks -> Orders \cup {NoOrder}]
    PROVE  SmTypeOK'
  BY DEF SmTypeOK, PhysTypeOK, plantSide, physVars, coils, fieldInputs, plant

\* load_start keeps the types.
LEMMA LoadStartTypeOK ==
    ASSUME SmTypeOK, NEW e \in SortieEvents, OnLoadStart(e)
    PROVE  SmTypeOK'
<1> DEFINE r == e.rack
<1>1. /\ r \in Racks /\ e.tank \in Tanks /\ e.truck \in Trucks
      /\ e.preset \in Nat
  BY SortieEventType
<1>2. [truck |-> e.truck, tank |-> e.tank, preset |-> e.preset,
       meterStart |-> totalizer[r]] \in Loads
  BY <1>1 DEF SmTypeOK, PhysTypeOK, Loads
<1> HIDE DEF r
<1>3. openLoads' \in [Racks -> Loads \cup {NoLoad}]
  BY <1>1, <1>2 DEF SmTypeOK, OnLoadStart, r
<1>4. dispensed' \in [Racks -> Nat]
  BY <1>1 DEF SmTypeOK, PhysTypeOK, OnLoadStart, BatchReset, r
<1>5. srcTank' \in [Racks -> 0..BadTank]
  BY <1>1, TankRegister DEF SmTypeOK, PhysTypeOK, OnLoadStart, r
<1>6. /\ activeTruck' \in [Racks -> Trucks \cup {NoTruck}]
      /\ presetReg' \in [Racks -> Nat]
  BY <1>1 DEF SmTypeOK, OnLoadStart, r
<1>7. /\ ground' \in [Racks -> BOOLEAN] /\ deadman' \in [Racks -> BOOLEAN]
      /\ outVlv' \in [Tanks -> BOOLEAN] /\ loadVlv' \in [Racks -> BOOLEAN]
      /\ runCmd' \in [Racks -> BOOLEAN]
  BY <1>1 DEF SmTypeOK, PhysTypeOK, OnLoadStart, r
<1>8. UNCHANGED <<esdReset, overfill, esdActive, runSts, loLvl, esdLatched,
                  level, totalizer, openDeliveries>>
  BY DEF OnLoadStart
<1> QED
  BY <1>3, <1>4, <1>5, <1>6, <1>7, <1>8 DEF SmTypeOK, PhysTypeOK

\* load_end keeps the types.
LEMMA LoadEndTypeOK ==
    ASSUME SmTypeOK, NEW e \in SortieEvents, OnLoadEnd(e)
    PROVE  SmTypeOK'
<1>1. CASE UNCHANGED <<plantSide, openDeliveries, dbQueue>>
  BY <1>1, PlantSideTypeOK DEF SmTypeOK
<1>2. CASE ~UNCHANGED <<plantSide, openDeliveries, dbQueue>>
  <2>1. PICK r \in RacksOfTruck(e.truck) :
          /\ openLoads' = [openLoads EXCEPT ![r] = NoLoad]
          /\ runCmd' = PumpStopped(r)
          /\ loadVlv' = [loadVlv EXCEPT ![r] = FALSE]
          /\ deadman' = [deadman EXCEPT ![r] = FALSE]
          /\ outVlv' = [outVlv EXCEPT ![openLoads[r].tank] = FALSE]
          /\ activeTruck' = [activeTruck EXCEPT ![r] = NoTruck]
          /\ srcTank' = [srcTank EXCEPT ![r] = NoTank]
          /\ presetReg' = [presetReg EXCEPT ![r] = 0]
          /\ dispensed' = [dispensed EXCEPT ![r] = 0]
          /\ UNCHANGED <<esdReset, ground, overfill, esdActive, runSts, loLvl,
                         esdLatched, level, totalizer, openDeliveries>>
    BY <1>2 DEF OnLoadEnd
  <2>2. r \in Racks
    BY DEF RacksOfTruck
  <2>3. srcTank' \in [Racks -> 0..BadTank]
    BY <2>1, <2>2, NoTankRegister DEF SmTypeOK, PhysTypeOK
  <2>4. /\ openLoads' \in [Racks -> Loads \cup {NoLoad}]
        /\ activeTruck' \in [Racks -> Trucks \cup {NoTruck}]
        /\ presetReg' \in [Racks -> Nat]
    BY <2>1 DEF SmTypeOK
  <2>5. /\ runCmd' \in [Racks -> BOOLEAN] /\ loadVlv' \in [Racks -> BOOLEAN]
        /\ deadman' \in [Racks -> BOOLEAN] /\ outVlv' \in [Tanks -> BOOLEAN]
        /\ dispensed' \in [Racks -> Nat]
    BY <2>1 DEF SmTypeOK, PhysTypeOK, PumpStopped
  <2> QED
    BY <2>1, <2>3, <2>4, <2>5 DEF SmTypeOK, PhysTypeOK
<1> QED
  BY <1>1, <1>2

\* Every handler keeps the types.
LEMMA ApplyTypeOK ==
    ASSUME SmTypeOK, NEW e \in SortieEvents, ApplyEvent(e)
    PROVE  SmTypeOK'
<1>1. e.truck \in Trucks /\ e.order \in Orders
  BY SortieEventType
<1>2. CASE OnOrderCreated(e) \/ OnTruckArrival(e)
  BY <1>2, PlantSideTypeOK DEF OnOrderCreated, OnTruckArrival, SmTypeOK
<1>3. CASE OnLoadStart(e)
  BY <1>3, LoadStartTypeOK
<1>4. CASE OnLoadEnd(e)
  BY <1>4, LoadEndTypeOK
<1>5. CASE OnDeliveryStart(e)
  <2>1. openDeliveries' \in [Trucks -> Orders \cup {NoOrder}]
    BY <1>1, <1>5 DEF OnDeliveryStart, SmTypeOK
  <2> QED
    BY <1>5, <2>1, PlantSideTypeOK DEF OnDeliveryStart
<1>6. CASE OnDeliveryEnd(e)
  <2>1. openDeliveries' \in [Trucks -> Orders \cup {NoOrder}]
    BY <1>1, <1>6 DEF OnDeliveryEnd, SmTypeOK
  <2>2. UNCHANGED plantSide
    BY <1>6 DEF OnDeliveryEnd
  <2> QED
    BY <2>1, <2>2, PlantSideTypeOK
<1> QED
  BY <1>2, <1>3, <1>4, <1>5, <1>6 DEF ApplyEvent

\* Every step keeps the types.
LEMMA NextTypeInv == TypeInv /\ [Next]_vars => TypeInv'
<1> SUFFICES ASSUME TypeInv, [Next]_vars PROVE TypeInv'
  OBVIOUS
<1>0. /\ SmTypeOK /\ PhysTypeOK /\ stage \in [Sorties -> 0..Len(Script)]
      /\ eventQueue \in Seq(SortieEvents)
  BY DEF TypeInv, SmTypeOK
<1>1. CASE Replay
  <2>1. UNCHANGED <<physVars, smVars>>
    BY <1>1 DEF Replay, ReplayEvent, ReplayWraps
  <2>2. SmTypeOK'
    BY <1>0, <2>1, PlantSideTypeOK DEF smVars, plantSide, SmTypeOK
  <2>3. eventQueue' \in Seq(SortieEvents)
    <3>1. ASSUME NEW s \in Sorties, ReplayEvent(s)
          PROVE  eventQueue' \in Seq(SortieEvents)
      <4>1. stage[s] + 1 \in 1..Len(Script)
        BY <1>0, <3>1 DEF ReplayEvent
      <4>2. EventOf(s, stage[s] + 1) \in SortieEvents
        BY <4>1 DEF SortieEvents
      <4> QED
        BY <1>0, <3>1, <4>2 DEF ReplayEvent
    <3>2. CASE ReplayWraps
      BY <1>0, <3>2 DEF ReplayWraps
    <3> QED
      BY <1>1, <3>1, <3>2 DEF Replay
  <2>4. stage' \in [Sorties -> 0..Len(Script)]
    <3>1. ASSUME NEW s \in Sorties, ReplayEvent(s)
          PROVE  stage' \in [Sorties -> 0..Len(Script)]
      <4>1. stage[s] + 1 \in 0..Len(Script)
        BY <1>0, <3>1, ScriptLength DEF ReplayEvent
      <4> QED
        BY <1>0, <3>1, <4>1 DEF ReplayEvent
    <3>2. ASSUME ReplayWraps PROVE stage' \in [Sorties -> 0..Len(Script)]
      BY <3>2, ScriptLength DEF ReplayWraps
    <3> QED
      BY <1>1, <3>1, <3>2 DEF Replay
  <2> QED
    BY <2>2, <2>3, <2>4 DEF TypeInv
<1>2. CASE Dispatch
  <2>1. Head(eventQueue) \in SortieEvents /\ Tail(eventQueue) \in Seq(SortieEvents)
    BY <1>0, <1>2, HeadTail DEF Dispatch
  <2>2. SmTypeOK'
    BY <1>0, <1>2, <2>1, ApplyTypeOK DEF Dispatch
  <2> QED
    BY <1>0, <1>2, <2>1, <2>2 DEF Dispatch, TypeInv, replayVars
<1>3. CASE PhysicsTick
  <2>1. PhysTypeOK'
    BY <1>0, <1>3, TickTypeOK DEF PhysicsTick
  <2> QED
    BY <1>0, <1>3, <2>1 DEF PhysicsTick, smVars, replayVars, SmTypeOK, TypeInv
<1>4. CASE Shutdown
  <2>1. PhysTypeOK'
    BY <1>0, <1>4, OutsideTypeOK DEF Shutdown, Outside
  <2> QED
    BY <1>0, <1>4, <2>1 DEF Shutdown, smVars, replayVars, SmTypeOK, TypeInv
<1>5. CASE TakeSnapshot \/ FlushSucceeds \/ FlushRefused \/ UNCHANGED vars
  <2>1. UNCHANGED <<physVars, smVars, eventQueue, stage>>
    BY <1>5 DEF replayVars, TakeSnapshot, Snapshot, plantSide, FlushSucceeds, FlushRefused, vars, smVars
  <2>2. SmTypeOK'
    BY <1>0, <2>1, PlantSideTypeOK DEF smVars, plantSide, SmTypeOK
  <2> QED
    BY <1>0, <2>1, <2>2 DEF TypeInv
<1>6. CASE Restart
  <2>1. PhysTypeOK'
    BY <1>6, PhysRestartTypeOK DEF Restart
  <2>2. /\ activeTruck' \in [Racks -> Trucks \cup {NoTruck}]
        /\ openLoads' \in [Racks -> Loads \cup {NoLoad}]
        /\ openDeliveries' \in [Trucks -> Orders \cup {NoOrder}]
        /\ presetReg' \in [Racks -> Nat]
    BY <1>6 DEF Restart, SmRestart, AllZero
  <2>3. eventQueue' \in Seq(SortieEvents) /\ stage' \in [Sorties -> 0..Len(Script)]
    BY <1>6, ScriptLength DEF Restart
  <2> QED
    BY <2>1, <2>2, <2>3 DEF TypeInv, SmTypeOK
<1> QED
  BY <1>1, <1>2, <1>3, <1>4, <1>5, <1>6 DEF Next

\* The bounds of the counters and of the event queue.
Bounds ==
    /\ conn \in BOOLEAN
    /\ lap \in 0..MaxLaps
    /\ Len(eventQueue) \in 0..MaxBacklog
    /\ restarts \in Nat
    /\ failures \in Nat
    /\ restarts + failures <= MaxMishaps

\* The bounds hold initially.
LEMMA InitBounds == Init => Bounds
<1>1. {MaxBacklog, MaxLaps, MaxMishaps} \subseteq Nat
  BY SortieAssumption
<1>2. 0 \in 0..MaxBacklog /\ 0 \in 0..MaxLaps /\ Len(<<>>) = 0
  BY <1>1
<1>3. MaxMishaps \in Nat
  BY <1>1
<1>4. 0 + 0 <= MaxMishaps /\ 0 \in Nat
  BY <1>3
<1> SUFFICES ASSUME Init PROVE Bounds
  OBVIOUS
<1>5. restarts + failures <= MaxMishaps /\ restarts \in Nat /\ failures \in Nat
  BY <1>4 DEF Init
<1>6. conn \in BOOLEAN /\ lap \in 0..MaxLaps /\ Len(eventQueue) \in 0..MaxBacklog
  BY <1>2 DEF Init
<1> QED
  BY <1>5, <1>6 DEF Bounds

\* Every step keeps to the bounds.
LEMMA NextBounds == TypeInv /\ Bounds /\ [Next]_vars => Bounds'
<1> SUFFICES ASSUME TypeInv, Bounds, [Next]_vars PROVE Bounds'
  OBVIOUS
<1>0. /\ {MaxBacklog, MaxLaps, MaxMishaps} \subseteq Nat
      /\ eventQueue \in Seq(SortieEvents)
  BY SortieAssumption DEF TypeInv
<1>9. 0 \in 0..MaxBacklog /\ 0 \in 0..MaxLaps /\ Len(<<>>) = 0
  BY <1>0
<1> USE DEF Bounds
<1>1. CASE Replay
  <2>1. ASSUME NEW s \in Sorties, ReplayEvent(s) PROVE Bounds'
    <3>1. Len(eventQueue') = Len(eventQueue) + 1
      BY <1>0, <2>1 DEF ReplayEvent
    <3>2. Len(eventQueue') \in 0..MaxBacklog
      BY <1>0, <2>1, <3>1 DEF ReplayEvent
    <3> QED
      BY <2>1, <3>2 DEF ReplayEvent, dbVars, mishaps
  <2>2. ASSUME ReplayWraps PROVE Bounds'
    BY <1>0, <2>2 DEF ReplayWraps, dbVars, mishaps
  <2> QED
    BY <1>1, <2>1, <2>2 DEF Replay
<1>2. CASE Dispatch
  <2>1. Len(eventQueue') \in 0..MaxBacklog
    BY <1>0, <1>2 DEF Dispatch
  <2> QED
    BY <1>2, <2>1 DEF Dispatch, replayVars, mishaps
<1>3. CASE PhysicsTick \/ TakeSnapshot \/ Shutdown \/ UNCHANGED vars
  BY <1>3 DEF PhysicsTick, TakeSnapshot, Shutdown, vars, dbVars, replayVars, mishaps
<1>4. CASE FlushSucceeds
  BY <1>4 DEF FlushSucceeds, FlushCommits, FlushCommitsUnseen, replayVars, mishaps
<1>5. CASE FlushRefused
  <2>1. /\ failures' \in Nat /\ restarts' \in Nat
        /\ restarts' + failures' <= MaxMishaps
    BY <1>0, <1>5 DEF FlushRefused
  <2> QED
    BY <1>9, <1>5, <2>1 DEF FlushRefused, FlushFails
<1>6. CASE Restart
  <2>1. /\ failures' \in Nat /\ restarts' \in Nat
        /\ restarts' + failures' <= MaxMishaps
    BY <1>0, <1>6 DEF Restart
  <2> QED
    BY <1>9, <1>6, <2>1 DEF Restart, FlusherRestart
<1> QED
  BY <1>1, <1>2, <1>3, <1>4, <1>5, <1>6 DEF Next

\* Type correctness of the whole simulator: the registers, the open loads
\* and deliveries, the event queue and the counters.
THEOREM TypeCorrect == Spec => []TypeOK
<1>1. Init => TypeInv /\ Bounds
  BY InitTypeInv, InitBounds
<1>2. TypeInv /\ Bounds /\ [Next]_vars => (TypeInv /\ Bounds)'
  BY NextTypeInv, NextBounds
<1>3. TypeInv /\ Bounds => TypeOK
  BY DEF TypeInv, Bounds, TypeOK
<1> QED
  BY <1>1, <1>2, <1>3, PTL DEF Spec

-----------------------------------------------------------------------------
(* The registers mirror the open loads *)

\* load_start sets commands and registers of the rack it opens a load on.
LEMMA LoadStartMirrors ==
    ASSUME SmTypeOK, RegistersMirrorOpenLoads,
           NEW e \in SortieEvents, OnLoadStart(e)
    PROVE  RegistersMirrorOpenLoads'
<1>1. /\ e.rack \in Racks /\ e.tank \in Tanks /\ e.truck \in Trucks
      /\ e.preset \in Nat
  BY SortieEventType
<1>2. SUFFICES ASSUME NEW r \in Racks PROVE RackMirrorsLoad(r)'
  BY DEF RegistersMirrorOpenLoads
<1>3. RackMirrorsLoad(r)
  BY DEF RegistersMirrorOpenLoads
<1>4. CASE r # e.rack
  BY <1>1, <1>3, <1>4 DEF SmTypeOK, PhysTypeOK, OnLoadStart, BatchReset, RackMirrorsLoad
<1>5. CASE r = e.rack
  <2> DEFINE l == [truck |-> e.truck, tank |-> e.tank, preset |-> e.preset,
                   meterStart |-> totalizer[r]]
  <2>1. openLoads'[r] = l
    BY <1>5 DEF OnLoadStart, SmTypeOK
  <2>2. l # NoLoad
    BY <1>1, FleetAssumption DEF NoLoad
  <2>3. /\ runCmd'[r] /\ loadVlv'[r] /\ deadman'[r] /\ ground'[r]
        /\ srcTank'[r] = e.tank /\ activeTruck'[r] = e.truck
        /\ presetReg'[r] = e.preset
    BY <1>5 DEF OnLoadStart, SmTypeOK, PhysTypeOK
  <2> QED
    BY <2>1, <2>2, <2>3 DEF RackMirrorsLoad
<1> QED
  BY <1>4, <1>5

\* load_end clears those of the rack whose load it closes.
LEMMA LoadEndMirrors ==
    ASSUME SmTypeOK, RegistersMirrorOpenLoads,
           NEW e \in SortieEvents, OnLoadEnd(e)
    PROVE  RegistersMirrorOpenLoads'
<1>1. SUFFICES ASSUME NEW r \in Racks PROVE RackMirrorsLoad(r)'
  BY DEF RegistersMirrorOpenLoads
<1>2. RackMirrorsLoad(r)
  BY DEF RegistersMirrorOpenLoads
<1>3. CASE UNCHANGED plantSide
  BY <1>2, <1>3 DEF RackMirrorsLoad, plantSide, physVars, coils, fieldInputs, plant
<1>4. CASE ~UNCHANGED plantSide
  <2>1. PICK x \in RacksOfTruck(e.truck) :
          /\ openLoads' = [openLoads EXCEPT ![x] = NoLoad]
          /\ runCmd' = PumpStopped(x)
          /\ loadVlv' = [loadVlv EXCEPT ![x] = FALSE]
          /\ deadman' = [deadman EXCEPT ![x] = FALSE]
          /\ activeTruck' = [activeTruck EXCEPT ![x] = NoTruck]
          /\ srcTank' = [srcTank EXCEPT ![x] = NoTank]
          /\ presetReg' = [presetReg EXCEPT ![x] = 0]
          /\ dispensed' = [dispensed EXCEPT ![x] = 0]
          /\ UNCHANGED ground
    BY <1>4 DEF OnLoadEnd
  <2>2. x \in Racks
    BY DEF RacksOfTruck
  <2>3. CASE r # x
    BY <1>2, <2>1, <2>3 DEF SmTypeOK, PhysTypeOK, PumpStopped, RackMirrorsLoad
  <2>4. CASE r = x
    BY <2>1, <2>4 DEF SmTypeOK, PhysTypeOK, PumpStopped, RackMirrorsLoad
  <2> QED
    BY <2>3, <2>4
<1> QED
  BY <1>3, <1>4

\* No step of the simulator lets the tags of a rack and the memory of its
\* load drift apart: neither an overwritten load, nor a dropped load_end, nor
\* the physics, a shutdown or a restart.
THEOREM MirrorCorrect == Spec => []RegistersMirrorOpenLoads
<1>1. Init => RegistersMirrorOpenLoads
  BY DEF Init, PhysInit, SmInit, AllOff, AllZero, Unassigned,
         RegistersMirrorOpenLoads, RackMirrorsLoad
<1>2. TypeInv /\ RegistersMirrorOpenLoads /\ [Next]_vars => RegistersMirrorOpenLoads'
  <2> SUFFICES ASSUME TypeInv, RegistersMirrorOpenLoads, [Next]_vars
               PROVE  RegistersMirrorOpenLoads'
    OBVIOUS
  <2>0. SmTypeOK /\ PhysTypeOK /\ eventQueue \in Seq(SortieEvents)
    BY DEF TypeInv, SmTypeOK
  <2>1. CASE Dispatch
    <3> DEFINE e == Head(eventQueue)
    <3>1. e \in SortieEvents
      BY <2>0, <2>1, HeadTail DEF Dispatch
    <3>2. ApplyEvent(e)
      BY <2>1 DEF Dispatch
    <3> HIDE DEF e
    <3>3. CASE OnLoadStart(e)
      BY <2>0, <3>1, <3>3, LoadStartMirrors
    <3>4. CASE OnLoadEnd(e)
      BY <2>0, <3>1, <3>4, LoadEndMirrors
    <3>5. CASE UNCHANGED plantSide
      BY <3>5 DEF RegistersMirrorOpenLoads, RackMirrorsLoad, plantSide,
                  physVars, coils, fieldInputs, plant
    <3> QED
      BY <3>2, <3>3, <3>4, <3>5 DEF ApplyEvent, OnOrderCreated, OnTruckArrival,
                                    OnDeliveryStart, OnDeliveryEnd
  <2>2. CASE PhysicsTick
    <3>1. SUFFICES ASSUME NEW r \in Racks PROVE RackMirrorsLoad(r)'
      BY DEF RegistersMirrorOpenLoads
    <3>2. RackMirrorsLoad(r)
      BY DEF RegistersMirrorOpenLoads
    <3>3. UNCHANGED <<runCmd, loadVlv, fieldInputs, srcTank, smVars>>
      BY <2>2 DEF PhysicsTick, Tick
    <3>4. ~runCmd[r] => dispensed'[r] = dispensed[r]
      <4>1. dispensed'[r] = dispensed[r] + (IF PumpRuns(r) THEN FlowPerTick ELSE 0)
        BY <2>2 DEF PhysicsTick, Tick
      <4>2. ~runCmd[r] => ~PumpRuns(r)
        BY DEF PumpRuns
      <4>3. dispensed[r] \in Nat
        BY <2>0 DEF PhysTypeOK
      <4> QED
        BY <4>1, <4>2, <4>3
    <3> QED
      BY <3>2, <3>3, <3>4 DEF RackMirrorsLoad, fieldInputs, smVars
  <2>3. CASE Shutdown
    BY <2>3 DEF Shutdown, DriveESD, RequestReset, RegistersMirrorOpenLoads,
                RackMirrorsLoad, coils, fieldInputs, plant, smVars
  <2>4. CASE Replay \/ TakeSnapshot \/ FlushSucceeds \/ FlushRefused \/ UNCHANGED vars
    <3>1. UNCHANGED <<physVars, smVars>>
      BY <2>4 DEF Replay, ReplayEvent, ReplayWraps, TakeSnapshot, Snapshot,
                  plantSide, FlushSucceeds, FlushRefused, vars, smVars
    <3> QED
      BY <3>1 DEF RegistersMirrorOpenLoads, RackMirrorsLoad, physVars, coils,
                  fieldInputs, plant, smVars
  <2>5. CASE Restart
    BY <2>5 DEF Restart, PhysRestart, SmRestart, AllOff, AllZero, Unassigned,
                RegistersMirrorOpenLoads, RackMirrorsLoad
  <2> QED
    BY <2>1, <2>2, <2>3, <2>4, <2>5 DEF Next
<1>3. Init => TypeInv
  BY InitTypeInv
<1>4. TypeInv /\ [Next]_vars => TypeInv'
  BY NextTypeInv
<1> QED
  BY <1>1, <1>2, <1>3, <1>4, PTL DEF Spec

-----------------------------------------------------------------------------
(* Tanks, meters and batch counters *)

\* Only the physics and a restart touch tanks and meters.
LEMMA FuelKept ==
    [Next]_vars => \/ PhysicsTick
                   \/ Restart
                   \/ UNCHANGED <<level, totalizer>>
<1> SUFFICES ASSUME [Next]_vars, ~PhysicsTick, ~Restart PROVE UNCHANGED <<level, totalizer>>
  OBVIOUS
<1>1. CASE Dispatch
  BY <1>1 DEF Dispatch, ApplyEvent, OnOrderCreated, OnTruckArrival, OnLoadStart, OnLoadEnd,
     OnDeliveryStart, OnDeliveryEnd, plantSide, physVars, plant
<1>2. CASE Shutdown
  BY <1>2 DEF Shutdown, DriveESD, RequestReset, plant
<1>3. CASE Replay \/ TakeSnapshot \/ FlushSucceeds \/ FlushRefused \/ UNCHANGED vars
  BY <1>3 DEF Replay, ReplayEvent, ReplayWraps, TakeSnapshot, Snapshot, plantSide,
     FlushSucceeds, FlushRefused, vars, physVars, plant
<1> QED BY <1>1, <1>2, <1>3 DEF Next

\* The meters of the racks account for what has left the tanks, in every
\* state and across restarts, wraps of the meters and shared tanks.
THEOREM MetersCorrect ==
    ASSUME WholeGallons, SwitchCoversStep
    PROVE  Spec => []MetersAccountForTanks
<1>1. Init => TypeInv /\ Accounted
  <2> SUFFICES ASSUME Init PROVE TypeInv /\ Accounted
    OBVIOUS
  <2>1. level = InitLevel /\ totalizer = AllZero
    BY DEF Init, PhysInit
  <2>2. Accounted
    BY <2>1, ZeroAccounted DEF Accounted
  <2> QED BY <2>2, InitTypeInv
<1>2. TypeInv /\ Accounted /\ [Next]_vars => (TypeInv /\ Accounted)'
  <2> SUFFICES ASSUME TypeInv, Accounted, [Next]_vars PROVE TypeInv' /\ Accounted'
    OBVIOUS
  <2>0. level \in [Tanks -> Nat] /\ totalizer \in [Racks -> 0..(MeterMod - 1)]
    BY DEF TypeInv, SmTypeOK, PhysTypeOK
  <2>1. CASE PhysicsTick
    BY <2>0, <2>1, TickAccounted, NextTypeInv DEF PhysicsTick
  <2>2. CASE Restart
    <3>1. level' = InitLevel /\ totalizer' = AllZero
      BY <2>2 DEF Restart, PhysRestart
    <3>2. Accounted'
      BY <3>1, ZeroAccounted DEF Accounted
    <3> QED BY <3>2, NextTypeInv
  <2>3. CASE UNCHANGED <<level, totalizer>>
    BY <2>3, NextTypeInv DEF Accounted
  <2> QED BY <2>1, <2>2, <2>3, FuelKept
<1>3. TypeInv /\ Accounted => MetersAccountForTanks
  BY AccountedMeans DEF TypeInv, SmTypeOK, PhysTypeOK
<1> QED BY <1>1, <1>2, <1>3, PTL DEF Spec

-----------------------------------------------------------------------------

\* The counter of rack r is what its meter has advanced since m.
MeteredSince(r, m) ==
    \E turns \in Nat :
        dispensed[r] = UnitsPerGal * ((totalizer[r] + MeterMod * turns) - m)

\* A step of the physics counts the same on the batch counter and the meter.
LEMMA TickMetered ==
    ASSUME SmTypeOK, WholeGallons, Tick, NEW r \in Racks, NEW m \in Nat, MeteredSince(r, m)
    PROVE  MeteredSince(r, m)'
<1> DEFINE q == FlowPerTick \div UnitsPerGal
<1>0. totalizer[r] \in 0..(MeterMod - 1) /\ dispensed[r] \in Nat
  BY DEF SmTypeOK, PhysTypeOK
<1>1. PICK k \in Nat : dispensed[r] = UnitsPerGal * ((totalizer[r] + MeterMod * k) - m)
  BY DEF MeteredSince
<1>2. /\ dispensed'[r] = dispensed[r] + (IF PumpRuns(r) THEN FlowPerTick ELSE 0)
      /\ totalizer'[r] = Metered(r)
  BY DEF Tick
<1>3. UnitsPerGal \in Nat \ {0} /\ MeterMod \in Nat \ {0}
  BY PhysicsAssumption
<1>4. CASE ~PumpRuns(r)
  <2>1. dispensed'[r] = dispensed[r] /\ totalizer'[r] = totalizer[r]
    BY <1>0, <1>2, <1>4 DEF Metered
  <2> QED BY <1>1, <2>1 DEF MeteredSince
<1>5. CASE PumpRuns(r)
  <2>1. FlowPerTick = UnitsPerGal * q /\ q \in Nat
    BY FlowInGallons
  <2> DEFINE w == (totalizer[r] + q) \div MeterMod
  <2>2. totalizer'[r] = (totalizer[r] + q) % MeterMod
    BY <1>2, <1>5 DEF Metered
  <2> HIDE DEF q
  <2>3. totalizer[r] + q \in Nat /\ totalizer[r] + q \in Int
    BY <1>0, <1>3, <2>1
  <2>4. /\ w \in Nat
        /\ totalizer[r] + q = MeterMod * w + totalizer'[r]
    BY <1>3, <2>2, <2>3, DivMod, DivModNat
  <2>5. totalizer'[r] \in Nat
    BY <1>3, <2>2, <2>3
  <2> HIDE DEF w
  <2>6. dispensed'[r] = UnitsPerGal * ((totalizer[r] + MeterMod * k) - m) + UnitsPerGal * q
    BY <1>1, <1>2, <1>5, <2>1
  <2>7. \A a, b \in Int : UnitsPerGal * a + UnitsPerGal * b = UnitsPerGal * (a + b)
    BY <1>3
  <2>8. MeterMod * k \in Nat /\ MeterMod * w \in Nat /\ MeterMod * (k + w) = MeterMod * k + MeterMod * w
    BY <1>3, <2>4
  <2>9. (totalizer[r] + MeterMod * k) - m \in Int
    BY <1>0, <1>3, <2>8
  <2>10. dispensed'[r] = UnitsPerGal * (((totalizer[r] + MeterMod * k) - m) + q)
    BY <2>1, <2>6, <2>7, <2>9
  <2>11. ((totalizer[r] + MeterMod * k) - m) + q = (totalizer'[r] + MeterMod * (k + w)) - m
    BY <1>0, <1>3, <2>1, <2>4, <2>5, <2>8
  <2>12. k + w \in Nat
    BY <2>4
  <2> QED BY <2>10, <2>11, <2>12 DEF MeteredSince
<1> QED BY <1>4, <1>5

\* What is a whole number of turns off is nothing off for the property.
LEMMA MeteredMeans ==
    ASSUME SmTypeOK, NEW r \in Racks, NEW m \in Nat, MeteredSince(r, m)
    PROVE  (dispensed[r] - UnitsPerGal * (totalizer[r] - m)) % (UnitsPerGal * MeterMod) = 0
<1>0. totalizer[r] \in Nat /\ UnitsPerGal \in Nat \ {0} /\ MeterMod \in Nat \ {0}
  BY PhysicsAssumption DEF SmTypeOK, PhysTypeOK
<1>1. PICK k \in Nat : dispensed[r] = UnitsPerGal * ((totalizer[r] + MeterMod * k) - m)
  BY DEF MeteredSince
<1>2. /\ UnitsPerGal * MeterMod \in Nat \ {0}
      /\ UnitsPerGal * ((totalizer[r] + MeterMod * k) - m)
            = UnitsPerGal * (totalizer[r] - m) + (UnitsPerGal * MeterMod) * k
  BY <1>0
<1>3. UnitsPerGal * (totalizer[r] - m) \in Int /\ (UnitsPerGal * MeterMod) * k \in Int
  BY <1>0
<1>4. dispensed[r] - UnitsPerGal * (totalizer[r] - m) = (UnitsPerGal * MeterMod) * k
  BY <1>1, <1>2, <1>3
<1>5. ((UnitsPerGal * MeterMod) * k) % (UnitsPerGal * MeterMod) = 0
  BY <1>2, Multiples
<1> QED BY <1>4, <1>5

\* Every open load is metered since its start.
BatchInv == \A r \in Racks : openLoads[r] # NoLoad => MeteredSince(r, openLoads[r].meterStart)

\* An event of another rack leaves a load metered, its own start begins anew.
LEMMA DispatchMetered ==
    ASSUME SmTypeOK, BatchInv, NEW e \in SortieEvents, ApplyEvent(e)
    PROVE  BatchInv'
<1> SUFFICES ASSUME NEW r \in Racks, openLoads'[r] # NoLoad
             PROVE  MeteredSince(r, openLoads[r].meterStart)'
  BY DEF BatchInv
<1>1. totalizer' = totalizer
  BY DEF ApplyEvent, OnOrderCreated, OnTruckArrival, OnLoadStart, OnLoadEnd,
     OnDeliveryStart, OnDeliveryEnd, plantSide, physVars, plant
<1>2. CASE openLoads'[r] = openLoads[r] /\ dispensed'[r] = dispensed[r]
  BY <1>1, <1>2 DEF BatchInv, MeteredSince
<1>3. CASE OnLoadStart(e)
  <2>1. CASE r # e.rack
    <3>1. openLoads'[r] = openLoads[r] /\ dispensed'[r] = dispensed[r]
      BY <1>3, <2>1 DEF OnLoadStart, BatchReset, SmTypeOK, PhysTypeOK
    <3> QED BY <1>2, <3>1
  <2>2. CASE r = e.rack
    <3>1. openLoads'[r].meterStart = totalizer[r] /\ dispensed'[r] = 0
      BY <1>3, <2>2 DEF OnLoadStart, BatchReset, SmTypeOK, PhysTypeOK
    <3>2. totalizer[r] \in Nat /\ UnitsPerGal \in Nat \ {0} /\ MeterMod \in Nat \ {0} /\ 0 \in Nat
      BY PhysicsAssumption DEF SmTypeOK, PhysTypeOK
    <3>3. 0 = UnitsPerGal * ((totalizer[r] + MeterMod * 0) - totalizer[r])
      BY <3>2
    <3> QED BY <1>1, <3>1, <3>2, <3>3 DEF MeteredSince
  <2> QED BY <2>1, <2>2
<1>4. CASE OnLoadEnd(e)
  <2>1. CASE UNCHANGED plantSide
    BY <1>2, <2>1 DEF plantSide, physVars, plant
  <2>2. CASE ~UNCHANGED plantSide
    <3>1. PICK x \in RacksOfTruck(e.truck) :
            /\ openLoads' = [openLoads EXCEPT ![x] = NoLoad]
            /\ dispensed' = [dispensed EXCEPT ![x] = 0]
      BY <1>4, <2>2 DEF OnLoadEnd
    <3>2. x \in Racks
      BY DEF RacksOfTruck
    <3>3. r # x
      BY <3>1, <3>2 DEF SmTypeOK
    <3>4. openLoads'[r] = openLoads[r] /\ dispensed'[r] = dispensed[r]
      BY <3>1, <3>3 DEF SmTypeOK, PhysTypeOK
    <3> QED BY <1>2, <3>4
  <2> QED BY <2>1, <2>2
<1>5. CASE UNCHANGED plantSide
  BY <1>2, <1>5 DEF plantSide, physVars, plant
<1> QED
  BY <1>3, <1>4, <1>5 DEF ApplyEvent, OnOrderCreated, OnTruckArrival, OnDeliveryStart,
     OnDeliveryEnd

\* The batch counter, the totalizer and the meter reading of the open load
\* agree in every state, modulo the turns of the meter.
THEOREM BatchCorrect ==
    ASSUME WholeGallons
    PROVE  Spec => []BatchAgreesWithMeter
<1>1. Init => TypeInv /\ BatchInv
  BY InitTypeInv DEF Init, SmInit, BatchInv
<1>2. TypeInv /\ BatchInv /\ [Next]_vars => (TypeInv /\ BatchInv)'
  <2> SUFFICES ASSUME TypeInv, BatchInv, [Next]_vars PROVE BatchInv'
    BY NextTypeInv
  <2>0. SmTypeOK /\ eventQueue \in Seq(SortieEvents)
    BY DEF TypeInv
  <2>1. CASE Dispatch
    <3>1. Head(eventQueue) \in SortieEvents
      BY <2>0, <2>1, HeadTail DEF Dispatch
    <3> QED BY <2>0, <2>1, <3>1, DispatchMetered DEF Dispatch
  <2>2. CASE PhysicsTick
    <3>1. Tick /\ openLoads' = openLoads
      BY <2>2 DEF PhysicsTick, smVars
    <3> SUFFICES ASSUME NEW r \in Racks, openLoads[r] # NoLoad
                 PROVE  MeteredSince(r, openLoads[r].meterStart)'
      BY <3>1 DEF BatchInv
    <3>2. openLoads[r].meterStart \in Nat
      BY <2>0, PhysicsAssumption DEF SmTypeOK, Loads
    <3>3. MeteredSince(r, openLoads[r].meterStart)
      BY DEF BatchInv
    <3>4. \A m \in Nat : MeteredSince(r, m) => MeteredSince(r, m)'
      BY <2>0, <3>1, TickMetered
    <3> QED BY <3>1, <3>2, <3>3, <3>4 DEF MeteredSince
  <2>3. CASE Restart
    BY <2>3 DEF Restart, SmRestart, BatchInv
  <2>4. CASE UNCHANGED <<openLoads, dispensed, totalizer>>
    BY <2>4 DEF BatchInv, MeteredSince
  <2> QED
    BY <2>1, <2>2, <2>3, <2>4 DEF Next, Replay, ReplayEvent, ReplayWraps, TakeSnapshot,
       Snapshot, plantSide, FlushSucceeds, FlushRefused, Shutdown, DriveESD, RequestReset,
       vars, smVars, physVars, plant
<1>3. TypeInv /\ BatchInv => BatchAgreesWithMeter
  <2> SUFFICES ASSUME TypeInv, BatchInv, NEW r \in Racks, openLoads[r] # NoLoad
               PROVE  (dispensed[r] - UnitsPerGal * (totalizer[r] - openLoads[r].meterStart))
                         % (UnitsPerGal * MeterMod) = 0
    BY DEF BatchAgreesWithMeter
  <2>1. openLoads[r].meterStart \in Nat /\ SmTypeOK
    BY PhysicsAssumption DEF TypeInv, SmTypeOK, Loads
  <2>2. MeteredSince(r, openLoads[r].meterStart)
    BY DEF BatchInv
  <2> QED BY <2>1, <2>2, MeteredMeans
<1> QED BY <1>1, <1>2, <1>3, PTL DEF Spec

-----------------------------------------------------------------------------
(* Fuel leaves through loads *)

\* A pump that runs is that of an open load, and draws from its tank.
LEMMA PumpServesLoad ==
    ASSUME RegistersMirrorOpenLoads, SmTypeOK, NEW r \in Racks, PumpRuns(r)
    PROVE  openLoads[r] # NoLoad /\ openLoads[r].tank = SourceTank(r)
<1>1. RackMirrorsLoad(r) /\ runCmd[r]
  BY DEF RegistersMirrorOpenLoads, PumpRuns
<1>2. openLoads[r] # NoLoad /\ srcTank[r] = openLoads[r].tank
  BY <1>1 DEF RackMirrorsLoad
<1>3. srcTank[r] \in Tanks
  BY <1>2, LoadIsNotNoLoad DEF SmTypeOK
<1> QED BY <1>2, <1>3 DEF SourceTank

\* What the type theorem rests on, for the theorems that need all of it.
LEMMA TypesAndBounds == Spec => [](TypeInv /\ Bounds)
<1>1. Init => TypeInv /\ Bounds
  BY InitTypeInv, InitBounds
<1>2. TypeInv /\ Bounds /\ [Next]_vars => (TypeInv /\ Bounds)'
  BY NextTypeInv, NextBounds
<1> QED BY <1>1, <1>2, PTL DEF Spec

\* Nothing but an open load takes fuel from a tank, and nothing but a
\* restart gives it back.
THEOREM LeavesCorrect == Spec => FuelLeavesThroughLoads
<1>1. ASSUME TypeInv, Bounds, RegistersMirrorOpenLoads, [Next]_vars,
             NEW t \in Tanks, level'[t] # level[t], restarts' = restarts
      PROVE  /\ level'[t] < level[t]
             /\ \E r \in Racks : openLoads[r] # NoLoad /\ openLoads[r].tank = t
  <2>0. SmTypeOK /\ PhysTypeOK
    BY <1>1 DEF TypeInv, SmTypeOK
  <2>1. ~Restart
    <3>1. Restart => restarts' = restarts + 1
      BY DEF Restart
    <3>2. restarts \in Nat
      BY <1>1 DEF Bounds
    <3> QED BY <1>1, <3>1, <3>2
  <2>2. Tick
    BY <1>1, <2>1, FuelKept DEF PhysicsTick
  <2>3. level'[t] = Drain(t) /\ level[t] \in Nat /\ LoLevel[t] \in Nat
    BY <2>0, <2>2, PhysicsAssumption DEF Tick, PhysTypeOK
  <2>4. DrawnBy(t) # {}
    BY <1>1, <2>3, DrainBound
  <2>5. level[t] > LoLevel[t]
    BY <2>0, <2>4, DrawnAboveSwitch DEF PhysTypeOK
  <2>6. level'[t] < level[t]
    BY <2>3, <2>4, <2>5, <1>1, DrainFalls
  <2>7. PICK r \in Racks : PumpRuns(r) /\ SourceTank(r) = t
    BY <2>4 DEF DrawnBy
  <2> QED BY <1>1, <2>0, <2>6, <2>7, PumpServesLoad
<1>2. TypeInv /\ Bounds /\ RegistersMirrorOpenLoads /\ [Next]_vars
        => [\A t \in Tanks :
              level'[t] # level[t] =>
                 \/ restarts' # restarts
                 \/ /\ level'[t] < level[t]
                    /\ \E r \in Racks : openLoads[r] # NoLoad /\ openLoads[r].tank = t]_vars
  BY <1>1
<1> QED
  BY <1>2, TypesAndBounds, MirrorCorrect, PTL DEF Spec, FuelLeavesThroughLoads

-----------------------------------------------------------------------------
(* Batches of statements *)

\* Induction over the natural numbers, for a set of them.
LEMMA NatSetInduction ==
    ASSUME NEW G, 0 \in G, \A n \in Nat : n \in G => n + 1 \in G
    PROVE  Nat \subseteq G
<1> DEFINE bad == Nat \ G
<1> SUFFICES ASSUME bad # {} PROVE FALSE
  OBVIOUS
<1>1. IsWellFoundedOn(OpToRel(<, Nat), Nat)
  BY NatLessThanWellFounded
<1>2. bad \subseteq Nat
  OBVIOUS
<1>3. PICK n \in bad : \A m \in bad : ~(<<m, n>> \in OpToRel(<, Nat))
  <2> HIDE DEF bad
  <2> QED BY <1>1, <1>2, WFMin
<1>4. \A m \in bad : ~(m < n)
  BY <1>2, <1>3 DEF OpToRel
<1>5. n \in Nat /\ n # 0
  BY <1>3
<1>6. n - 1 \in Nat /\ (n - 1) + 1 = n
  <2> HIDE DEF bad
  <2> QED BY <1>5
<1>7. n - 1 \notin bad
  BY <1>4, <1>6
<1> QED BY <1>3, <1>6, <1>7

\* The recursion of ExecBatch up to statement m.
IsAfter(after, d, batch, m) ==
    after = [n \in 0..m |-> IF n = 0 THEN d ELSE Sql!Exec(after[n - 1], batch[n])]

\* Every batch can be executed.
LEMMA AfterExists ==
    ASSUME NEW d, NEW batch
    PROVE  \A m \in Nat : \E after : IsAfter(after, d, batch, m)
<1> DEFINE G == {m \in Nat : \E after : IsAfter(after, d, batch, m)}
<1>1. 0 \in G
  <2> DEFINE a == [n \in 0..0 |-> d]
  <2>1. IsAfter(a, d, batch, 0)
    BY DEF IsAfter
  <2> QED BY <2>1
<1>2. ASSUME NEW m \in Nat, m \in G PROVE m + 1 \in G
  <2>1. PICK a : IsAfter(a, d, batch, m)
    BY <1>2
  <2> DEFINE b == [n \in 0..(m + 1) |-> IF n <= m THEN a[n] ELSE Sql!Exec(a[m], batch[m + 1])]
  <2>2. \A n \in 0..(m + 1) : b[n] = IF n = 0 THEN d ELSE Sql!Exec(b[n - 1], batch[n])
    <3> SUFFICES ASSUME NEW n \in 0..(m + 1)
                 PROVE  b[n] = IF n = 0 THEN d ELSE Sql!Exec(b[n - 1], batch[n])
      OBVIOUS
    <3>1. CASE n = 0
      <4>1. a[0] = d
        BY <2>1 DEF IsAfter
      <4> QED BY <3>1, <4>1
    <3>2. CASE n # 0 /\ n <= m
      <4>1. a[n] = Sql!Exec(a[n - 1], batch[n])
        BY <2>1, <3>2 DEF IsAfter
      <4>2. b[n - 1] = a[n - 1]
        BY <3>2
      <4> QED BY <3>2, <4>1, <4>2
    <3>3. CASE n = m + 1
      <4>1. b[n - 1] = a[m] /\ n # 0 /\ ~(n <= m)
        BY <3>3
      <4> QED BY <3>3, <4>1
    <3> QED BY <3>1, <3>2, <3>3
  <2>3. b = [n \in 0..(m + 1) |-> IF n = 0 THEN d ELSE Sql!Exec(b[n - 1], batch[n])]
    <3>1. b = [n \in 0..(m + 1) |-> b[n]]
      OBVIOUS
    <3> HIDE DEF b
    <3> QED BY <2>2, <3>1
  <2> HIDE DEF b
  <2>4. IsAfter(b, d, batch, m + 1)
    BY <2>3 DEF IsAfter
  <2> QED BY <2>4
<1>3. Nat \subseteq G
  <2>1. \A m \in Nat : m \in G => m + 1 \in G
    BY <1>2
  <2> HIDE DEF G
  <2> QED BY <1>1, <2>1, NatSetInduction
<1> QED BY <1>3

\* run goes from d through the statements of a batch, one by one.
SqlRun(run, d, batch) ==
    /\ run[0] = d
    /\ \A n \in 1..Len(batch) : run[n] = Sql!Exec(run[n - 1], batch[n])

\* What a batch does is the end of such a run.
LEMMA ExecRun ==
    ASSUME NEW S, NEW batch \in Seq(S), NEW d
    PROVE  \E run : SqlRun(run, d, batch) /\ Sql!ExecBatch(d, batch) = run[Len(batch)]
<1> DEFINE a == CHOOSE after : IsAfter(after, d, batch, Len(batch))
<1>1. Len(batch) \in Nat
  OBVIOUS
<1>2. IsAfter(a, d, batch, Len(batch))
  BY <1>1, AfterExists
<1>3. Sql!ExecBatch(d, batch) = a[Len(batch)]
  BY DEF Sql!ExecBatch, IsAfter
<1> HIDE DEF a
<1>4. SqlRun(a, d, batch)
  BY <1>1, <1>2 DEF IsAfter, SqlRun
<1> QED BY <1>3, <1>4

\* There is one such run, so any of them tells what a batch does.
LEMMA ExecUnique ==
    ASSUME NEW S, NEW batch \in Seq(S), NEW d, NEW run, SqlRun(run, d, batch)
    PROVE  Sql!ExecBatch(d, batch) = run[Len(batch)]
<1>1. PICK a : SqlRun(a, d, batch) /\ Sql!ExecBatch(d, batch) = a[Len(batch)]
  BY ExecRun
<1>2. Len(batch) \in Nat
  OBVIOUS
<1> DEFINE G == {n \in Nat : n <= Len(batch) => a[n] = run[n]}
<1>3. 0 \in G
  BY <1>1 DEF SqlRun
<1>4. ASSUME NEW n \in Nat, n \in G PROVE n + 1 \in G
  <2> SUFFICES ASSUME n + 1 <= Len(batch) PROVE a[n + 1] = run[n + 1]
    OBVIOUS
  <2>1. n + 1 \in 1..Len(batch) /\ (n + 1) - 1 = n
    BY <1>2
  <2>2. a[n] = run[n]
    BY <1>2, <1>4
  <2> QED BY <1>1, <2>1, <2>2 DEF SqlRun
<1>5. Nat \subseteq G
  <2>1. \A n \in Nat : n \in G => n + 1 \in G
    BY <1>4
  <2> HIDE DEF G
  <2> QED BY <1>3, <2>1, NatSetInduction
<1>6. a[Len(batch)] = run[Len(batch)]
  BY <1>2, <1>5
<1> QED BY <1>1, <1>6

\* A batch that follows another starts from what that one leaves.
LEMMA ExecConcat ==
    ASSUME NEW S, NEW b \in Seq(S), NEW c \in Seq(S), NEW d
    PROVE  Sql!ExecBatch(d, b \o c) = Sql!ExecBatch(Sql!ExecBatch(d, b), c)
<1>1. PICK x : SqlRun(x, d, b) /\ Sql!ExecBatch(d, b) = x[Len(b)]
  BY ExecRun
<1>2. PICK y : SqlRun(y, x[Len(b)], c) /\ Sql!ExecBatch(x[Len(b)], c) = y[Len(c)]
  BY ExecRun
<1> DEFINE z == [n \in 0..(Len(b) + Len(c)) |-> IF n <= Len(b) THEN x[n] ELSE y[n - Len(b)]]
<1>3. /\ Len(b) \in Nat /\ Len(c) \in Nat /\ b \o c \in Seq(S)
      /\ Len(b \o c) = Len(b) + Len(c)
      /\ \A n \in 1..Len(b) : (b \o c)[n] = b[n]
      /\ \A n \in 1..Len(c) : (b \o c)[Len(b) + n] = c[n]
  OBVIOUS
<1>4. SqlRun(z, d, b \o c)
  <2>1. z[0] = d
    BY <1>1, <1>3 DEF SqlRun
  <2>2. ASSUME NEW n \in 1..Len(b \o c)
        PROVE  z[n] = Sql!Exec(z[n - 1], (b \o c)[n])
    <3>1. CASE n <= Len(b)
      <4>1. n \in 1..Len(b)
        BY <1>3, <3>1
      <4>2. x[n] = Sql!Exec(x[n - 1], b[n])
        BY <1>1, <4>1 DEF SqlRun
      <4>3. z[n] = x[n] /\ z[n - 1] = x[n - 1]
        BY <1>3, <4>1
      <4> QED BY <1>3, <4>1, <4>2, <4>3
    <3>2. CASE ~(n <= Len(b))
      <4> DEFINE m == n - Len(b)
      <4>1. m \in 1..Len(c) /\ n = Len(b) + m
        BY <1>3, <3>2
      <4>2. y[m] = Sql!Exec(y[m - 1], c[m])
        BY <1>2, <4>1 DEF SqlRun
      <4>3. z[n] = y[m]
        BY <1>3, <3>2
      <4>4. z[n - 1] = y[m - 1]
        <5>1. CASE m = 1
          <6>1. n - 1 = Len(b) /\ z[n - 1] = x[Len(b)]
            BY <1>3, <4>1, <5>1
          <6>2. y[0] = x[Len(b)]
            BY <1>2 DEF SqlRun
          <6> QED BY <5>1, <6>1, <6>2
        <5>2. CASE m # 1
          BY <1>3, <4>1, <5>2
        <5> QED BY <5>1, <5>2
      <4>5. (b \o c)[n] = c[m]
        BY <1>3, <4>1
      <4> HIDE DEF z, m
      <4> QED BY <4>2, <4>3, <4>4, <4>5
    <3> QED BY <3>1, <3>2
  <2> HIDE DEF z
  <2> QED BY <2>1, <2>2 DEF SqlRun
<1>5. z[Len(b \o c)] = y[Len(c)]
  <2>1. CASE Len(c) = 0
    <3>1. y[0] = x[Len(b)]
      BY <1>2 DEF SqlRun
    <3> QED BY <1>3, <2>1, <3>1
  <2>2. CASE Len(c) # 0
    BY <1>3, <2>2
  <2> QED BY <2>1, <2>2
<1> HIDE DEF z
<1>6. Sql!ExecBatch(d, b \o c) = z[Len(b \o c)]
  BY <1>3, <1>4, ExecUnique
<1> QED BY <1>1, <1>2, <1>5, <1>6

\* The empty batch changes nothing.
LEMMA ExecEmpty ==
    ASSUME NEW d
    PROVE  Sql!ExecBatch(d, <<>>) = d
<1>1. <<>> \in Seq({}) /\ Len(<<>>) = 0
  OBVIOUS
<1>2. PICK a : SqlRun(a, d, <<>>) /\ Sql!ExecBatch(d, <<>>) = a[0]
  BY <1>1, ExecRun
<1> QED BY <1>2 DEF SqlRun

\* Batches of one to four statements.
LEMMA ExecOne ==
    ASSUME NEW d, NEW s
    PROVE  Sql!ExecBatch(d, <<s>>) = Sql!Exec(d, s)
<1>1. <<s>> \in Seq({s}) /\ Len(<<s>>) = 1 /\ <<s>>[1] = s
  OBVIOUS
<1>2. PICK a : SqlRun(a, d, <<s>>) /\ Sql!ExecBatch(d, <<s>>) = a[1]
  BY <1>1, ExecRun
<1>3. a[0] = d /\ a[1] = Sql!Exec(a[0], s)
  BY <1>1, <1>2 DEF SqlRun
<1> QED BY <1>2, <1>3

\* Two statements.
LEMMA ExecTwo ==
    ASSUME NEW d, NEW s, NEW t
    PROVE  Sql!ExecBatch(d, <<s, t>>) = Sql!Exec(Sql!Exec(d, s), t)
<1>1. <<s, t>> \in Seq({s, t}) /\ Len(<<s, t>>) = 2 /\ <<s, t>>[1] = s /\ <<s, t>>[2] = t
  OBVIOUS
<1>2. PICK a : SqlRun(a, d, <<s, t>>) /\ Sql!ExecBatch(d, <<s, t>>) = a[2]
  BY <1>1, ExecRun
<1>3. a[0] = d /\ a[1] = Sql!Exec(a[0], s) /\ a[2] = Sql!Exec(a[1], t)
  BY <1>1, <1>2 DEF SqlRun
<1> QED BY <1>2, <1>3

\* Three statements.
LEMMA ExecThree ==
    ASSUME NEW d, NEW s, NEW t, NEW u
    PROVE  Sql!ExecBatch(d, <<s, t, u>>) = Sql!Exec(Sql!Exec(Sql!Exec(d, s), t), u)
<1> DEFINE b == <<s, t, u>>
<1>1. b \in Seq({s, t, u}) /\ Len(b) = 3 /\ b[1] = s /\ b[2] = t /\ b[3] = u
  OBVIOUS
<1> HIDE DEF b
<1>2. PICK a : SqlRun(a, d, b) /\ Sql!ExecBatch(d, b) = a[3]
  BY <1>1, ExecRun
<1>3. a[0] = d /\ a[1] = Sql!Exec(a[0], s) /\ a[2] = Sql!Exec(a[1], t) /\ a[3] = Sql!Exec(a[2], u)
  BY <1>1, <1>2 DEF SqlRun
<1> QED BY <1>2, <1>3 DEF b

\* Four statements.
LEMMA ExecFour ==
    ASSUME NEW d, NEW s, NEW t, NEW u, NEW v
    PROVE  Sql!ExecBatch(d, <<s, t, u, v>>)
              = Sql!Exec(Sql!Exec(Sql!Exec(Sql!Exec(d, s), t), u), v)
<1> DEFINE b == <<s, t, u, v>>
<1>1. b \in Seq({s, t, u, v}) /\ Len(b) = 4 /\ b[1] = s /\ b[2] = t /\ b[3] = u /\ b[4] = v
  OBVIOUS
<1> HIDE DEF b
<1>2. PICK a : SqlRun(a, d, b) /\ Sql!ExecBatch(d, b) = a[4]
  BY <1>1, ExecRun
<1>3. /\ a[0] = d /\ a[1] = Sql!Exec(a[0], s) /\ a[2] = Sql!Exec(a[1], t)
      /\ a[3] = Sql!Exec(a[2], u) /\ a[4] = Sql!Exec(a[3], v)
  BY <1>1, <1>2 DEF SqlRun
<1> QED BY <1>2, <1>3 DEF b

\* What every statement of a batch keeps, the batch keeps.
LEMMA ExecKeeps ==
    ASSUME NEW S, NEW batch \in Seq(S), NEW Good,
           \A d \in Good : \A s \in S : Sql!Exec(d, s) \in Good
    PROVE  \A d \in Good : Sql!ExecBatch(d, batch) \in Good
<1> TAKE d \in Good
<1>1. PICK a : SqlRun(a, d, batch) /\ Sql!ExecBatch(d, batch) = a[Len(batch)]
  BY ExecRun
<1>2. Len(batch) \in Nat
  OBVIOUS
<1> DEFINE G == {n \in Nat : n <= Len(batch) => a[n] \in Good}
<1>3. 0 \in G
  BY <1>1 DEF SqlRun
<1>4. ASSUME NEW n \in Nat, n \in G PROVE n + 1 \in G
  <2> SUFFICES ASSUME n + 1 <= Len(batch) PROVE a[n + 1] \in Good
    OBVIOUS
  <2>1. n + 1 \in 1..Len(batch) /\ (n + 1) - 1 = n
    BY <1>2
  <2>2. a[n] \in Good /\ batch[n + 1] \in S
    BY <1>2, <1>4, <2>1
  <2> QED BY <1>1, <2>1, <2>2 DEF SqlRun
<1>5. Nat \subseteq G
  <2>1. \A n \in Nat : n \in G => n + 1 \in G
    BY <1>4
  <2> HIDE DEF G
  <2> QED BY <1>3, <2>1, NatSetInduction
<1> QED BY <1>1, <1>2, <1>5

-----------------------------------------------------------------------------
(* The tables are in step *)

\* The databases that the statements of the simulator can produce.
Databases ==
    [orders     : [Orders -> Sql!OrderStates],
     trucks     : [Trucks -> Sql!TruckStates],
     queue      : [Trucks -> [Sql!QueueStates -> Nat]],
     loaded     : [Tanks -> Nat],
     loads      : [Trucks -> Nat],
     deliveries : SUBSET (Trucks \X Orders),
     snap       : [Tanks -> SUBSET Nat],
     events     : [Sql!EventCodes -> Nat]]

\* The tables that tell of loads and fillings.
Told(d) == <<d.orders, d.loads, d.deliveries, d.events["LOAD_END"]>>

\* The tables that tell where the trucks are.
Placed(d) == <<d.trucks, d.queue, d.loaded>>

\* A new order fills none and moves no truck.
LEMMA InsertOrderEffect ==
    ASSUME NEW d \in Databases, NEW o \in Orders
    PROVE  LET e == Sql!Exec(d, Sql!InsertOrder(o))
           IN  /\ e \in Databases
               /\ \A u \in Orders : e.orders[u] = "FILLED" => d.orders[u] = "FILLED"
               /\ e.loads = d.loads /\ e.deliveries = d.deliveries
               /\ e.events = d.events
               /\ Placed(e) = Placed(d)
<1> DEFINE e == Sql!Exec(d, Sql!InsertOrder(o))
           w == Sql!OrderInserted(d.orders[o])
<1>1. e = [d EXCEPT !.orders[o] = w]
  BY ExecInsertOrder
<1>2. w \in Sql!OrderStates /\ (w = "FILLED" => d.orders[o] = "FILLED")
  BY DEF Databases, Sql!OrderInserted, Sql!OrderStates
<1> HIDE DEF e, w
<1>3. e \in Databases
  BY <1>1, <1>2 DEF Databases
<1>4. \A u \in Orders : e.orders[u] = "FILLED" => d.orders[u] = "FILLED"
  BY <1>1, <1>2 DEF Databases
<1>5. e.loads = d.loads /\ e.deliveries = d.deliveries /\ e.events = d.events
  BY <1>1 DEF Databases
<1>6. Placed(e) = Placed(d)
  BY <1>1 DEF Databases, Placed
<1> QED BY <1>3, <1>4, <1>5, <1>6 DEF e

\* A truck status changes that status and nothing else.
LEMMA SetTruckEffect ==
    ASSUME NEW d \in Databases, NEW k \in Trucks, NEW q \in Sql!TruckStates
    PROVE  LET e == Sql!Exec(d, Sql!SetTruck(k, q))
           IN  /\ e \in Databases
               /\ Told(e) = Told(d)
               /\ e.trucks = [d.trucks EXCEPT ![k] = q]
               /\ e.queue = d.queue /\ e.loaded = d.loaded
<1> DEFINE e == Sql!Exec(d, Sql!SetTruck(k, q))
<1>1. e = [d EXCEPT !.trucks[k] = q]
  BY ExecSetTruck
<1> HIDE DEF e
<1>2. e \in Databases
  BY <1>1 DEF Databases
<1>3. Told(e) = Told(d)
  BY <1>1 DEF Databases, Told
<1>4. e.trucks = [d.trucks EXCEPT ![k] = q] /\ e.queue = d.queue /\ e.loaded = d.loaded
  BY <1>1 DEF Databases
<1> QED BY <1>2, <1>3, <1>4 DEF e

\* A new row changes the truck queue and nothing else.
LEMMA EnqueueEffect ==
    ASSUME NEW d \in Databases, NEW k \in Trucks
    PROVE  LET e == Sql!Exec(d, Sql!Enqueue(k))
           IN  /\ e \in Databases
               /\ Told(e) = Told(d)
               /\ e.queue = [d.queue EXCEPT ![k]["QUEUED"] = @ + 1]
               /\ e.trucks = d.trucks /\ e.loaded = d.loaded
<1> DEFINE e == Sql!Exec(d, Sql!Enqueue(k))
           n == d.queue[k]["QUEUED"] + 1
<1>1. e = [d EXCEPT !.queue[k]["QUEUED"] = n]
  BY ExecEnqueue
<1>2. "QUEUED" \in Sql!QueueStates
  BY DEF Sql!QueueStates
<1>3. n \in Nat
  BY <1>2 DEF Databases
<1> HIDE DEF e, n
<1>4. e \in Databases
  BY <1>1, <1>3 DEF Databases
<1>5. Told(e) = Told(d)
  BY <1>1 DEF Databases, Told
<1>6. e.queue = [d.queue EXCEPT ![k]["QUEUED"] = n] /\ e.trucks = d.trucks /\ e.loaded = d.loaded
  BY <1>1 DEF Databases
<1> QED BY <1>4, <1>5, <1>6 DEF e, n

\* The rows of truck k in state p moved to state q.
QueueAdvanced(queue, k, p, q) ==
    [queue EXCEPT ![k] = Sql!RowsAdvanced(queue[k], p, q)]

\* So do rows that move.
LEMMA AdvanceEffect ==
    ASSUME NEW d \in Databases, NEW k \in Trucks,
           NEW p \in Sql!QueueStates, NEW q \in Sql!QueueStates
    PROVE  LET e == Sql!Exec(d, Sql!Advance(k, p, q))
           IN  /\ e \in Databases
               /\ Told(e) = Told(d)
               /\ e.queue = QueueAdvanced(d.queue, k, p, q)
               /\ e.trucks = d.trucks /\ e.loaded = d.loaded
<1> DEFINE e == Sql!Exec(d, Sql!Advance(k, p, q))
           rows == Sql!RowsAdvanced(d.queue[k], p, q)
<1>1. e = [d EXCEPT !.queue[k] = rows]
  BY ExecAdvance
<1>2. rows \in [Sql!QueueStates -> Nat]
  <2>1. d.queue[k] \in [Sql!QueueStates -> Nat]
    BY DEF Databases
  <2>2. \A f \in [Sql!QueueStates -> Nat] :
           Sql!RowsAdvanced(f, p, q) \in [Sql!QueueStates -> Nat]
    <3> TAKE f \in [Sql!QueueStates -> Nat]
    <3> DEFINE n == f[q] + f[p]
    <3>1. n \in Nat /\ 0 \in Nat
      OBVIOUS
    <3>2. Sql!RowsAdvanced(f, p, q) = [f EXCEPT ![p] = 0, ![q] = n]
      BY DEF Sql!RowsAdvanced
    <3> HIDE DEF n
    <3> QED BY <3>1, <3>2
  <2> QED BY <2>1, <2>2
<1> HIDE DEF e, rows
<1>3. e \in Databases
  BY <1>1, <1>2 DEF Databases
<1>4. Told(e) = Told(d)
  BY <1>1 DEF Databases, Told
<1>5. e.queue = [d.queue EXCEPT ![k] = rows] /\ e.trucks = d.trucks /\ e.loaded = d.loaded
  BY <1>1 DEF Databases
<1> QED BY <1>3, <1>4, <1>5 DEF e, rows, QueueAdvanced

\* A load changes the loads and the gallons of its tank.
LEMMA InsertLoadEffect ==
    ASSUME NEW d \in Databases, NEW k \in Trucks, NEW t \in Tanks,
           NEW g \in Nat, NEW a \in Nat, NEW b \in Nat
    PROVE  LET e == Sql!Exec(d, Sql!InsertLoad(k, t, g, a, b))
           IN  /\ e \in Databases
               /\ e.loaded = Raised(d.loaded, t, g)
               /\ e.loads = Raised(d.loads, k, 1)
               /\ e.orders = d.orders /\ e.deliveries = d.deliveries
               /\ e.events = d.events
               /\ e.trucks = d.trucks /\ e.queue = d.queue
<1> DEFINE e == Sql!Exec(d, Sql!InsertLoad(k, t, g, a, b))
           gallons == Raised(d.loaded, t, g)
           loads == Raised(d.loads, k, 1)
<1>1. e = WithLoads(d, gallons, loads)
  BY ExecInsertLoad
<1>2. gallons \in [Tanks -> Nat] /\ loads \in [Trucks -> Nat]
  BY DEF Databases, Raised
<1> HIDE DEF e, gallons, loads
<1>3. e \in Databases
  BY <1>1, <1>2 DEF Databases, WithLoads
<1>4. e.loaded = gallons /\ e.loads = loads
  BY <1>1 DEF Databases, WithLoads
<1>5. /\ e.orders = d.orders /\ e.deliveries = d.deliveries
      /\ e.events = d.events
      /\ e.trucks = d.trucks /\ e.queue = d.queue
  BY <1>1 DEF Databases, WithLoads
<1> QED BY <1>3, <1>4, <1>5 DEF e, gallons, loads

\* A delivery changes the deliveries.
LEMMA InsertDeliveryEffect ==
    ASSUME NEW d \in Databases, NEW k \in Trucks, NEW o \in Orders
    PROVE  LET e == Sql!Exec(d, Sql!InsertDelivery(k, o))
           IN  /\ e \in Databases
               /\ e.deliveries = d.deliveries \cup {<<k, o>>}
               /\ e.orders = d.orders /\ e.loads = d.loads /\ e.events = d.events
               /\ Placed(e) = Placed(d)
<1> DEFINE e == Sql!Exec(d, Sql!InsertDelivery(k, o))
           s == d.deliveries \cup {<<k, o>>}
<1>1. e = [d EXCEPT !.deliveries = s]
  BY ExecInsertDelivery
<1>2. s \in SUBSET (Trucks \X Orders)
  BY DEF Databases
<1> HIDE DEF e, s
<1>3. e \in Databases
  BY <1>1, <1>2 DEF Databases
<1>4. e.deliveries = s /\ e.orders = d.orders /\ e.loads = d.loads /\ e.events = d.events
  BY <1>1 DEF Databases
<1>5. Placed(e) = Placed(d)
  BY <1>1 DEF Databases, Placed
<1> QED BY <1>3, <1>4, <1>5 DEF e, s

\* Filling an order changes orders alone, and fills no other.
LEMMA FillOrderEffect ==
    ASSUME NEW d \in Databases, NEW o \in Orders
    PROVE  LET e == Sql!Exec(d, Sql!FillOrder(o))
           IN  /\ e \in Databases
               /\ \A u \in Orders : e.orders[u] = "FILLED" => u = o \/ d.orders[u] = "FILLED"
               /\ e.loads = d.loads /\ e.deliveries = d.deliveries
               /\ e.events = d.events
               /\ Placed(e) = Placed(d)
<1> DEFINE e == Sql!Exec(d, Sql!FillOrder(o))
           f == Sql!OrdersFilled(d.orders, o)
<1>1. e = [d EXCEPT !.orders = f]
  BY ExecFillOrder
<1>2. /\ f \in [Orders -> Sql!OrderStates]
      /\ \A u \in Orders : f[u] = "FILLED" => u = o \/ d.orders[u] = "FILLED"
  BY DEF Databases, Sql!OrdersFilled, Sql!OrderStates
<1> HIDE DEF e, f
<1>3. e \in Databases
  BY <1>1, <1>2 DEF Databases
<1>4. e.orders = f /\ e.loads = d.loads /\ e.deliveries = d.deliveries /\ e.events = d.events
  BY <1>1 DEF Databases
<1>5. Placed(e) = Placed(d)
  BY <1>1 DEF Databases, Placed
<1> QED BY <1>2, <1>3, <1>4, <1>5 DEF e

\* An event changes the number of its events.
LEMMA InsertEventEffect ==
    ASSUME NEW d \in Databases, NEW c \in Sql!EventCodes
    PROVE  LET e == Sql!Exec(d, Sql!InsertEvent(c))
           IN  /\ e \in Databases
               /\ e.events = [d.events EXCEPT ![c] = @ + 1]
               /\ e.orders = d.orders /\ e.loads = d.loads /\ e.deliveries = d.deliveries
               /\ Placed(e) = Placed(d)
<1> DEFINE e == Sql!Exec(d, Sql!InsertEvent(c))
           n == d.events[c] + 1
<1>1. e = [d EXCEPT !.events[c] = n]
  BY ExecInsertEvent
<1>2. n \in Nat
  BY DEF Databases
<1> HIDE DEF e, n
<1>3. e \in Databases
  BY <1>1, <1>2 DEF Databases
<1>4. /\ e.events = [d.events EXCEPT ![c] = n]
      /\ e.orders = d.orders /\ e.loads = d.loads /\ e.deliveries = d.deliveries
  BY <1>1 DEF Databases
<1>5. Placed(e) = Placed(d)
  BY <1>1 DEF Databases, Placed
<1> QED BY <1>3, <1>4, <1>5 DEF e, n

\* A level changes the levels.
LEMMA InsertSnapEffect ==
    ASSUME NEW d \in Databases, NEW t \in Tanks, NEW l \in Nat
    PROVE  LET e == Sql!Exec(d, Sql!InsertSnap(t, l))
           IN  /\ e \in Databases
               /\ Told(e) = Told(d)
               /\ Placed(e) = Placed(d)
<1> DEFINE e == Sql!Exec(d, Sql!InsertSnap(t, l))
<1>1. e = [d EXCEPT !.snap[t] = {l}]
  BY ExecInsertSnap
<1> HIDE DEF e
<1>2. e \in Databases
  BY <1>1 DEF Databases
<1>3. Told(e) = Told(d)
  BY <1>1 DEF Databases, Told
<1>4. Placed(e) = Placed(d)
  BY <1>1 DEF Databases, Placed
<1> QED BY <1>2, <1>3, <1>4 DEF e

\* Raising a quantity raises the total by as much.
LEMMA TotalRaised ==
    ASSUME NEW S, IsFiniteSet(S), NEW f \in [S -> Nat], NEW x \in S, NEW by \in Nat
    PROVE  /\ Raised(f, x, by) \in [S -> Nat]
           /\ Total(Raised(f, x, by)) = Total(f) + by
<1> DEFINE g == Raised(f, x, by)
           only == [y \in S |-> IF y = x THEN by ELSE 0]
           src == [a \in {x} |-> x]
<1>1. g \in [S -> Nat] /\ only \in [S -> Nat] /\ \A y \in S : g[y] = f[y] + only[y]
  BY DEF Raised
<1>2. Total(g) = Total(f) + Total(only)
  <2> HIDE DEF g, only
  <2> QED BY <1>1, TotalPlus
<1>3. Total(only) = by * Cardinality({x})
  <2>1. src \in [{x} -> S] /\ IsFiniteSet({x}) /\ Cardinality({x}) = 1
    BY FS_Singleton
  <2>2. \A y \in S : only[y] = by * Cardinality({a \in {x} : src[a] = y})
    <3> TAKE y \in S
    <3>1. CASE y = x
      <4>1. {a \in {x} : src[a] = y} = {x} /\ only[y] = by
        BY <3>1
      <4>2. by * 1 = by
        OBVIOUS
      <4> QED BY <2>1, <4>1, <4>2
    <3>2. CASE y # x
      <4>1. {a \in {x} : src[a] = y} = {} /\ only[y] = 0
        BY <3>2
      <4>2. Cardinality({}) = 0
        BY FS_EmptySet
      <4> QED BY <4>1, <4>2
    <3> QED BY <3>1, <3>2
  <2>3. by \in Nat /\ only \in [S -> Nat]
    BY <1>1
  <2> HIDE DEF only, src
  <2> QED BY <2>1, <2>2, <2>3, TotalCounts
<1>4. Cardinality({x}) = 1
  BY FS_Singleton
<1> QED
  <2> HIDE DEF g, only
  <2> QED BY <1>1, <1>2, <1>3, <1>4 DEF g

\* TablesAgree, of any database.
Agree(d) ==
    /\ d.events["LOAD_END"] = Total(d.loads)
    /\ \A o \in Orders :
          d.orders[o] = "FILLED" => \E k \in Trucks : <<k, o>> \in d.deliveries

\* The databases whose tables are in step.
GoodDbs == {d \in Databases : Agree(d)}

\* Statements that keep the tables in step by themselves, and all that the
\* simulator queues.
Harmless ==
    {Sql!InsertOrder(o) : o \in Orders}
       \cup {Sql!SetTruck(k, q) : k \in Trucks, q \in Sql!TruckStates}
       \cup {Sql!Enqueue(k) : k \in Trucks}
       \cup {Sql!Advance(k, p, q) : k \in Trucks, p \in Sql!QueueStates, q \in Sql!QueueStates}
       \cup {Sql!InsertDelivery(k, o) : k \in Trucks, o \in Orders}
       \cup {Sql!InsertEvent("LOAD_START")}
       \cup {Sql!InsertSnap(t, l) : t \in Tanks, l \in Nat}

\* All that the simulator queues.
Statements ==
    Harmless
       \cup {Sql!InsertLoad(k, t, g, a, b) : k \in Trucks, t \in Tanks, g \in Nat, a \in Nat, b \in Nat}
       \cup {Sql!FillOrder(o) : o \in Orders}
       \cup {Sql!InsertEvent("LOAD_END")}

\* Transactions that keep the tables in step.
SafeBatches ==
    {b \in Seq(Statements) : \A d \in GoodDbs : Sql!ExecBatch(d, b) \in GoodDbs}

\* A statement that does not touch loads and fillings keeps the tables in step.
LEMMA ToldAgree ==
    ASSUME NEW d \in GoodDbs, NEW e \in Databases, Told(e) = Told(d)
    PROVE  e \in GoodDbs
  BY DEF GoodDbs, Agree, Told

\* A harmless statement keeps the tables in step.
LEMMA HarmlessKeeps ==
    ASSUME NEW d \in GoodDbs, NEW s \in Harmless
    PROVE  Sql!Exec(d, s) \in GoodDbs
<1> DEFINE e == Sql!Exec(d, s)
<1>0. d \in Databases /\ Agree(d)
  BY DEF GoodDbs
<1>1. ASSUME NEW o \in Orders, s = Sql!InsertOrder(o) PROVE e \in GoodDbs
  <2>1. /\ e \in Databases
        /\ \A u \in Orders : e.orders[u] = "FILLED" => d.orders[u] = "FILLED"
        /\ e.loads = d.loads /\ e.deliveries = d.deliveries
        /\ e.events = d.events
    BY <1>0, <1>1, InsertOrderEffect
  <2> HIDE DEF e
  <2> QED BY <1>0, <2>1 DEF GoodDbs, Agree
<1>2. ASSUME NEW k \in Trucks, NEW q \in Sql!TruckStates, s = Sql!SetTruck(k, q)
      PROVE  e \in GoodDbs
  <2>1. e \in Databases /\ Told(e) = Told(d)
    BY <1>0, <1>2, SetTruckEffect
  <2> QED BY <2>1, ToldAgree
<1>3. ASSUME NEW k \in Trucks, s = Sql!Enqueue(k) PROVE e \in GoodDbs
  <2>1. e \in Databases /\ Told(e) = Told(d)
    BY <1>0, <1>3, EnqueueEffect
  <2> QED BY <2>1, ToldAgree
<1>4. ASSUME NEW k \in Trucks, NEW p \in Sql!QueueStates, NEW q \in Sql!QueueStates,
             s = Sql!Advance(k, p, q)
      PROVE  e \in GoodDbs
  <2>1. e \in Databases /\ Told(e) = Told(d)
    BY <1>0, <1>4, AdvanceEffect
  <2> QED BY <2>1, ToldAgree
<1>5. ASSUME NEW k \in Trucks, NEW o \in Orders, s = Sql!InsertDelivery(k, o)
      PROVE  e \in GoodDbs
  <2>1. /\ e \in Databases
        /\ e.deliveries = d.deliveries \cup {<<k, o>>}
        /\ e.orders = d.orders /\ e.loads = d.loads /\ e.events = d.events
    BY <1>0, <1>5, InsertDeliveryEffect
  <2> HIDE DEF e
  <2> QED BY <1>0, <2>1 DEF GoodDbs, Agree
<1>6. ASSUME s = Sql!InsertEvent("LOAD_START") PROVE e \in GoodDbs
  <2>1. "LOAD_START" \in Sql!EventCodes
    BY DEF Sql!EventCodes
  <2>2. /\ e \in Databases
        /\ e.events = [d.events EXCEPT !["LOAD_START"] = @ + 1]
        /\ e.orders = d.orders /\ e.loads = d.loads /\ e.deliveries = d.deliveries
    BY <1>0, <1>6, <2>1, InsertEventEffect
  <2>3. e.events["LOAD_END"] = d.events["LOAD_END"]
    <3>1. d.events \in [Sql!EventCodes -> Nat] /\ "LOAD_END" \in Sql!EventCodes
      BY <1>0 DEF Databases, Sql!EventCodes
    <3> HIDE DEF e
    <3> QED BY <2>2, <3>1
  <2> HIDE DEF e
  <2> QED BY <1>0, <2>2, <2>3 DEF GoodDbs, Agree
<1>7. ASSUME NEW t \in Tanks, NEW l \in Nat, s = Sql!InsertSnap(t, l) PROVE e \in GoodDbs
  <2>1. e \in Databases /\ Told(e) = Told(d)
    BY <1>0, <1>7, InsertSnapEffect
  <2> QED BY <2>1, ToldAgree
<1> HIDE DEF e
<1>8. e \in GoodDbs
  BY <1>1, <1>2, <1>3, <1>4, <1>5, <1>6, <1>7 DEF Harmless
<1> QED BY <1>8 DEF e

\* A batch of such statements keeps them in step too.
LEMMA HarmlessBatch ==
    ASSUME NEW b \in Seq(Harmless)
    PROVE  b \in SafeBatches
<1>1. b \in Seq(Statements)
  BY DEF Statements
<1>2. \A d \in GoodDbs : \A s \in Harmless : Sql!Exec(d, s) \in GoodDbs
  BY HarmlessKeeps
<1>3. \A d \in GoodDbs : Sql!ExecBatch(d, b) \in GoodDbs
  BY <1>2, ExecKeeps
<1> QED BY <1>1, <1>3 DEF SafeBatches

\* And so does one safe batch after another.
LEMMA SafeConcat ==
    ASSUME NEW b \in SafeBatches, NEW c \in SafeBatches
    PROVE  b \o c \in SafeBatches
<1>1. b \in Seq(Statements) /\ c \in Seq(Statements)
  BY DEF SafeBatches
<1>2. b \o c \in Seq(Statements)
  BY <1>1
<1>3. ASSUME NEW d \in GoodDbs PROVE Sql!ExecBatch(d, b \o c) \in GoodDbs
  <2>1. Sql!ExecBatch(d, b \o c) = Sql!ExecBatch(Sql!ExecBatch(d, b), c)
    BY <1>1, ExecConcat
  <2> QED BY <2>1 DEF SafeBatches
<1> QED BY <1>2, <1>3 DEF SafeBatches

\* The four statements of a finished load record it and its event together.
LEMMA LoadEndSafe ==
    ASSUME NEW k \in Trucks, NEW t \in Tanks, NEW g \in Nat,
           NEW a \in Nat, NEW b \in Nat
    PROVE  <<Sql!InsertLoad(k, t, g, a, b), Sql!SetTruck(k, "ENROUTE"),
             Sql!Advance(k, "LOADING", "ENROUTE"), Sql!InsertEvent("LOAD_END")>> \in SafeBatches
<1> DEFINE s1 == Sql!InsertLoad(k, t, g, a, b)
           s2 == Sql!SetTruck(k, "ENROUTE")
           s3 == Sql!Advance(k, "LOADING", "ENROUTE")
           s4 == Sql!InsertEvent("LOAD_END")
<1>1. /\ "ENROUTE" \in Sql!TruckStates /\ "LOADING" \in Sql!QueueStates
      /\ "ENROUTE" \in Sql!QueueStates /\ "LOAD_END" \in Sql!EventCodes
  BY DEF Sql!TruckStates, Sql!QueueStates, Sql!EventCodes
<1>2. s1 \in Statements /\ s2 \in Statements /\ s3 \in Statements /\ s4 \in Statements
  BY <1>1 DEF Statements, Harmless
<1>3. ASSUME NEW d \in GoodDbs PROVE Sql!ExecBatch(d, <<s1, s2, s3, s4>>) \in GoodDbs
  <2> DEFINE d1 == Sql!Exec(d, s1)
             d2 == Sql!Exec(d1, s2)
             d3 == Sql!Exec(d2, s3)
             d4 == Sql!Exec(d3, s4)
  <2>0. d \in Databases /\ Agree(d)
    BY DEF GoodDbs
  <2>1. /\ d1 \in Databases
        /\ d1.loads = Raised(d.loads, k, 1) /\ d1.events = d.events
        /\ d1.orders = d.orders /\ d1.deliveries = d.deliveries
    BY <2>0, InsertLoadEffect
  <2> HIDE DEF d1
  <2>2. d2 \in Databases /\ Told(d2) = Told(d1)
    BY <1>1, <2>1, SetTruckEffect
  <2> HIDE DEF d2
  <2>3. d3 \in Databases /\ Told(d3) = Told(d2)
    BY <1>1, <2>2, AdvanceEffect
  <2> HIDE DEF d3
  <2>4. /\ d4 \in Databases
        /\ d4.events = [d3.events EXCEPT !["LOAD_END"] = @ + 1]
        /\ d4.orders = d3.orders /\ d4.loads = d3.loads /\ d4.deliveries = d3.deliveries
    BY <1>1, <2>3, InsertEventEffect
  <2> HIDE DEF d4
  <2>5. /\ d3.orders = d1.orders /\ d3.loads = d1.loads /\ d3.deliveries = d1.deliveries
        /\ d3.events["LOAD_END"] = d1.events["LOAD_END"]
    BY <2>2, <2>3 DEF Told
  <2>6. d4.events["LOAD_END"] = d3.events["LOAD_END"] + 1
    <3>1. d3.events \in [Sql!EventCodes -> Nat]
      BY <2>3 DEF Databases
    <3> QED BY <1>1, <2>4, <3>1
  <2>7. d.loads \in [Trucks -> Nat]
    BY <2>0 DEF Databases
  <2>8. Total(d1.loads) = Total(d.loads) + 1
    BY <2>1, <2>7, FleetAssumption, TotalRaised
  <2>9. d4.events["LOAD_END"] = Total(d4.loads)
    BY <2>0, <2>1, <2>4, <2>5, <2>6, <2>8 DEF Agree
  <2>10. \A o \in Orders :
            d4.orders[o] = "FILLED" => \E x \in Trucks : <<x, o>> \in d4.deliveries
    BY <2>0, <2>1, <2>4, <2>5 DEF Agree
  <2>11. d4 \in GoodDbs
    BY <2>4, <2>9, <2>10 DEF GoodDbs, Agree
  <2> HIDE DEF s1, s2, s3, s4
  <2>12. Sql!ExecBatch(d, <<s1, s2, s3, s4>>) = d4
    BY ExecFour DEF d1, d2, d3, d4
  <2> QED BY <2>11, <2>12
<1> HIDE DEF s1, s2, s3, s4
<1>4. <<s1, s2, s3, s4>> \in SafeBatches
  BY <1>2, <1>3 DEF SafeBatches
<1> QED BY <1>4 DEF s1, s2, s3, s4

\* The statements of a delivery record it before they fill its order.
LEMMA DeliverySafe ==
    ASSUME NEW k \in Trucks, NEW o \in Orders
    PROVE  <<Sql!InsertDelivery(k, o), Sql!FillOrder(o)>> \in SafeBatches
<1> DEFINE s1 == Sql!InsertDelivery(k, o)
           s2 == Sql!FillOrder(o)
<1>1. s1 \in Statements /\ s2 \in Statements
  BY DEF Statements, Harmless
<1>2. ASSUME NEW d \in GoodDbs PROVE Sql!ExecBatch(d, <<s1, s2>>) \in GoodDbs
  <2> DEFINE d1 == Sql!Exec(d, s1)
             d2 == Sql!Exec(d1, s2)
  <2>0. d \in Databases /\ Agree(d)
    BY DEF GoodDbs
  <2>1. /\ d1 \in Databases
        /\ d1.deliveries = d.deliveries \cup {<<k, o>>}
        /\ d1.orders = d.orders /\ d1.loads = d.loads /\ d1.events = d.events
    BY <2>0, InsertDeliveryEffect
  <2> HIDE DEF d1
  <2>2. /\ d2 \in Databases
        /\ \A u \in Orders : d2.orders[u] = "FILLED" => u = o \/ d1.orders[u] = "FILLED"
        /\ d2.loads = d1.loads /\ d2.deliveries = d1.deliveries
        /\ d2.events = d1.events
    BY <2>1, FillOrderEffect
  <2> HIDE DEF d2
  <2>3. d2 \in GoodDbs
    BY <2>0, <2>1, <2>2 DEF GoodDbs, Agree
  <2> HIDE DEF s1, s2
  <2>4. Sql!ExecBatch(d, <<s1, s2>>) = d2
    BY ExecTwo DEF d1, d2
  <2> QED BY <2>3, <2>4
<1> HIDE DEF s1, s2
<1>3. <<s1, s2>> \in SafeBatches
  BY <1>1, <1>2 DEF SafeBatches
<1> QED BY <1>3 DEF s1, s2

\* The committed tables are in step, and what is queued keeps them so.
TablesInv == db \in GoodDbs /\ dbQueue \in SafeBatches

\* No statement is a safe transaction.
LEMMA EmptySafe == <<>> \in SafeBatches
<1>1. <<>> \in Seq(Harmless)
  OBVIOUS
<1> QED BY <1>1, HarmlessBatch

\* The empty database is in step.
LEMMA EmptyDbGood == Sql!EmptyDb \in GoodDbs
<1> DEFINE none == [k \in Trucks |-> 0]
<1>1. Sql!EmptyDb \in Databases
  BY DEF Sql!EmptyDb, Databases, Sql!OrderStates, Sql!TruckStates, Sql!QueueStates, Sql!EventCodes
<1>2. none \in [Trucks -> Nat] /\ 0 \in Nat /\ \A k \in Trucks : none[k] = 0 * none[k]
  OBVIOUS
<1>3. Total(none) = 0
  <2> HIDE DEF none
  <2>1. Total(none) \in Nat /\ Total(none) = 0 * Total(none)
    BY <1>2, FleetAssumption, TotalType, TotalTimes
  <2> QED BY <2>1
<1>4. Sql!EmptyDb.events["LOAD_END"] = 0 /\ Sql!EmptyDb.loads = none
  BY DEF Sql!EmptyDb, Sql!EventCodes
<1>5. \A o \in Orders : Sql!EmptyDb.orders[o] # "FILLED"
  BY DEF Sql!EmptyDb
<1> HIDE DEF none
<1>6. Agree(Sql!EmptyDb)
  BY <1>3, <1>4, <1>5 DEF Agree
<1> QED BY <1>1, <1>6 DEF GoodDbs

\* Every handler queues a safe batch.
LEMMA ApplySafe ==
    ASSUME SmTypeOK, NEW e \in SortieEvents, ApplyEvent(e),
           dbQueue \in SafeBatches
    PROVE  dbQueue' \in SafeBatches
<1>0. e.rack \in Racks /\ e.tank \in Tanks /\ e.truck \in Trucks /\ e.order \in Orders
  BY SortieEventType
<1>s. /\ {"QUEUED", "LOADING", "ENROUTE", "DISPENSING", "RETURNING", "AVAILABLE"} \subseteq Sql!TruckStates
      /\ {"QUEUED", "LOADING", "ENROUTE", "DISPENSING", "RETURNING"} \subseteq Sql!QueueStates
  BY DEF Sql!TruckStates, Sql!QueueStates
<1>1. CASE OnOrderCreated(e)
  <2> DEFINE b == <<Sql!InsertOrder(e.order)>>
  <2>1. Sql!InsertOrder(e.order) \in Harmless
    BY <1>0 DEF Harmless
  <2>2. b \in Seq(Harmless)
    BY <2>1
  <2>3. dbQueue' = dbQueue \o b
    BY <1>1 DEF OnOrderCreated, Put
  <2> HIDE DEF b
  <2> QED BY <2>2, <2>3, HarmlessBatch, SafeConcat
<1>2. CASE OnTruckArrival(e)
  <2> DEFINE b == <<Sql!SetTruck(e.truck, "QUEUED"), Sql!Enqueue(e.truck)>>
  <2>1. Sql!SetTruck(e.truck, "QUEUED") \in Harmless /\ Sql!Enqueue(e.truck) \in Harmless
    BY <1>0, <1>s DEF Harmless
  <2>2. b \in Seq(Harmless)
    BY <2>1
  <2>3. dbQueue' = dbQueue \o b
    BY <1>2 DEF OnTruckArrival, Put
  <2> HIDE DEF b
  <2> QED BY <2>2, <2>3, HarmlessBatch, SafeConcat
<1>3. CASE OnLoadStart(e)
  <2> DEFINE b == <<Sql!SetTruck(e.truck, "LOADING"), Sql!Advance(e.truck, "QUEUED", "LOADING"),
                    Sql!InsertEvent("LOAD_START")>>
  <2>1. /\ Sql!SetTruck(e.truck, "LOADING") \in Harmless
        /\ Sql!Advance(e.truck, "QUEUED", "LOADING") \in Harmless
        /\ Sql!InsertEvent("LOAD_START") \in Harmless
    BY <1>0, <1>s DEF Harmless
  <2>2. b \in Seq(Harmless)
    BY <2>1
  <2>3. dbQueue' = dbQueue \o b
    BY <1>3 DEF OnLoadStart, Put
  <2> HIDE DEF b
  <2> QED BY <2>2, <2>3, HarmlessBatch, SafeConcat
<1>4. CASE OnLoadEnd(e)
  <2>1. CASE UNCHANGED dbQueue
    BY <2>1
  <2>2. CASE ~UNCHANGED dbQueue
    <3>1. PICK r \in RacksOfTruck(e.truck) :
            dbQueue' = dbQueue \o <<LoadRecord(e.truck, r), Sql!SetTruck(e.truck, "ENROUTE"),
                                    Sql!Advance(e.truck, "LOADING", "ENROUTE"),
                                    Sql!InsertEvent("LOAD_END")>>
      BY <1>4, <2>2 DEF OnLoadEnd, Put
    <3> DEFINE t == openLoads[r].tank
               a == openLoads[r].meterStart
    <3>2. r \in Racks /\ openLoads[r] \in Loads
      BY DEF RacksOfTruck, SmTypeOK
    <3>3. t \in Tanks /\ a \in Nat
      BY <3>2, PhysicsAssumption DEF Loads
    <3>4. dispensed[r] \in Nat /\ totalizer[r] \in Nat
      BY <3>2, PhysicsAssumption DEF SmTypeOK, PhysTypeOK
    <3> HIDE DEF t, a
    <3>5. <<Sql!InsertLoad(e.truck, t, dispensed[r], a, totalizer[r]),
            Sql!SetTruck(e.truck, "ENROUTE"),
            Sql!Advance(e.truck, "LOADING", "ENROUTE"),
            Sql!InsertEvent("LOAD_END")>> \in SafeBatches
      BY <1>0, <3>3, <3>4, LoadEndSafe
    <3>6. LoadRecord(e.truck, r) = Sql!InsertLoad(e.truck, t, dispensed[r], a, totalizer[r])
      BY DEF LoadRecord, t, a
    <3> QED BY <3>1, <3>5, <3>6, SafeConcat
  <2> QED BY <2>1, <2>2
<1>5. CASE OnDeliveryStart(e)
  <2> DEFINE b == <<Sql!SetTruck(e.truck, "DISPENSING"),
                    Sql!Advance(e.truck, "ENROUTE", "DISPENSING")>>
  <2>1. /\ Sql!SetTruck(e.truck, "DISPENSING") \in Harmless
        /\ Sql!Advance(e.truck, "ENROUTE", "DISPENSING") \in Harmless
    BY <1>0, <1>s DEF Harmless
  <2>2. b \in Seq(Harmless)
    BY <2>1
  <2>3. dbQueue' = dbQueue \o b
    BY <1>5 DEF OnDeliveryStart, Put
  <2> HIDE DEF b
  <2> QED BY <2>2, <2>3, HarmlessBatch, SafeConcat
<1>6. CASE OnDeliveryEnd(e)
  <2>1. CASE UNCHANGED dbQueue
    BY <2>1
  <2>2. CASE ~UNCHANGED dbQueue
    <3> DEFINE o == openDeliveries[e.truck]
               b == <<Sql!InsertDelivery(e.truck, o), Sql!FillOrder(o)>>
               c == DeliveryClosed(e.truck)
    <3>1. o \in Orders
      BY <1>0, <1>6, <2>2 DEF OnDeliveryEnd, SmTypeOK
    <3>2. dbQueue' = dbQueue \o (b \o c)
      BY <1>6, <2>2 DEF OnDeliveryEnd, Put
    <3> HIDE DEF o
    <3>3. b \in SafeBatches
      BY <1>0, <3>1, DeliverySafe
    <3>4. /\ Sql!SetTruck(e.truck, "RETURNING") \in Harmless
          /\ Sql!Advance(e.truck, "DISPENSING", "RETURNING") \in Harmless
          /\ Sql!SetTruck(e.truck, "AVAILABLE") \in Harmless
      BY <1>0, <1>s DEF Harmless
    <3>5. c \in Seq(Harmless)
      BY <3>4 DEF DeliveryClosed
    <3> HIDE DEF b, c
    <3>6. b \o c \in SafeBatches
      BY <3>3, <3>5, HarmlessBatch, SafeConcat
    <3> QED BY <3>2, <3>6, SafeConcat
  <2> QED BY <2>1, <2>2
<1> QED
  BY <1>1, <1>2, <1>3, <1>4, <1>5, <1>6 DEF ApplyEvent

\* The rows of a snapshot are safe.
LEMMA SnapshotSafe ==
    ASSUME SmTypeOK, Snapshot, dbQueue \in SafeBatches
    PROVE  dbQueue' \in SafeBatches
<1> DEFINE b == [t \in Tanks |-> Sql!InsertSnap(t, level[t])]
<1>1. dbQueue' = dbQueue \o b
  BY DEF Snapshot, Put
<1>2. \A t \in Tanks : Sql!InsertSnap(t, level[t]) \in Harmless
  <2> TAKE t \in Tanks
  <2>1. level[t] \in Nat
    BY DEF SmTypeOK, PhysTypeOK
  <2> QED BY <2>1 DEF Harmless
<1>3. NTanks \in Nat /\ b \in [1..NTanks -> Harmless]
  BY <1>2, PhysicsAssumption DEF Tanks
<1> HIDE DEF b
<1>4. b \in Seq(Harmless)
  BY <1>3
<1> QED BY <1>1, <1>4, HarmlessBatch, SafeConcat

\* Every step keeps them so.
LEMMA TablesInvariant == Spec => []TablesInv
<1>1. Init => TypeInv /\ TablesInv
  <2>1. Init => db = Sql!EmptyDb /\ dbQueue = <<>>
    BY DEF Init
  <2> QED BY <2>1, InitTypeInv, EmptyDbGood, EmptySafe DEF TablesInv
<1>2. TypeInv /\ TablesInv /\ [Next]_vars => (TypeInv /\ TablesInv)'
  <2> SUFFICES ASSUME TypeInv, TablesInv, [Next]_vars PROVE TablesInv'
    BY NextTypeInv
  <2>0. /\ SmTypeOK /\ eventQueue \in Seq(SortieEvents)
        /\ db \in GoodDbs /\ dbQueue \in SafeBatches
    BY DEF TypeInv, TablesInv
  <2>1. CASE Dispatch
    <3>1. Head(eventQueue) \in SortieEvents
      BY <2>0, <2>1, HeadTail DEF Dispatch
    <3>2. ApplyEvent(Head(eventQueue)) /\ db' = db
      BY <2>1 DEF Dispatch
    <3> QED BY <2>0, <3>1, <3>2, ApplySafe DEF TablesInv
  <2>2. CASE TakeSnapshot
    BY <2>0, <2>2, SnapshotSafe DEF TakeSnapshot, TablesInv
  <2>3. CASE FlushSucceeds
    <3>1. db' = Sql!ExecBatch(db, dbQueue) /\ dbQueue' = <<>>
      BY <2>3 DEF FlushSucceeds, FlushCommits, FlushCommitsUnseen
    <3>2. Sql!ExecBatch(db, dbQueue) \in GoodDbs
      BY <2>0 DEF SafeBatches
    <3> QED BY <3>1, <3>2, EmptySafe DEF TablesInv
  <2>4. CASE FlushRefused \/ Restart
    <3>1. db' = db /\ dbQueue' = <<>>
      BY <2>4 DEF FlushRefused, FlushFails, Restart, FlusherRestart
    <3> QED BY <2>0, <3>1, EmptySafe DEF TablesInv
  <2>5. CASE Replay \/ PhysicsTick \/ Shutdown \/ UNCHANGED vars
    <3>1. db' = db /\ dbQueue' = dbQueue
      BY <2>5 DEF Replay, ReplayEvent, ReplayWraps, PhysicsTick, Shutdown, vars, dbVars
    <3> QED BY <2>0, <3>1 DEF TablesInv
  <2> QED BY <2>1, <2>2, <2>3, <2>4, <2>5 DEF Next
<1> QED BY <1>1, <1>2, PTL DEF Spec

\* The tables of loads, events, orders and deliveries are in step at every
\* commit, whatever batches are refused, commit unseen or die with the
\* process: a transaction holds whole batches of handlers.
THEOREM TablesCorrect == Spec => []TablesAgree
<1>1. TablesInv => TablesAgree
  BY DEF TablesInv, GoodDbs, Agree, TablesAgree
<1> QED BY <1>1, TablesInvariant, PTL

-----------------------------------------------------------------------------
(* Recorded levels *)

\* Only a snapshot's row writes recorded levels.
LEMMA SnapEffect ==
    ASSUME NEW d \in Databases, NEW s \in Statements
    PROVE  LET e == Sql!Exec(d, s)
           IN  /\ e \in Databases
               /\ s.op # "InsertSnap" => e.snap = d.snap
               /\ s.op = "InsertSnap" =>
                     /\ s.tank \in Tanks /\ s.level \in Nat
                     /\ e.snap = [d.snap EXCEPT ![s.tank] = {s.level}]
<1> DEFINE e == Sql!Exec(d, s)
<1>1. CASE \E o \in Orders : s = Sql!InsertOrder(o)
  <2>1. PICK o \in Orders : s = Sql!InsertOrder(o)
    BY <1>1
  <2>2. e \in Databases
    BY <2>1, InsertOrderEffect
  <2>3. e.snap = d.snap
    BY <2>1, ExecInsertOrder DEF Databases
  <2> QED BY <2>1, <2>2, <2>3 DEF Sql!InsertOrder
<1>2. CASE \E k \in Trucks, q \in Sql!TruckStates : s = Sql!SetTruck(k, q)
  <2>1. PICK k \in Trucks, q \in Sql!TruckStates : s = Sql!SetTruck(k, q)
    BY <1>2
  <2>2. e \in Databases
    BY <2>1, SetTruckEffect
  <2>3. e.snap = d.snap
    BY <2>1, ExecSetTruck DEF Databases
  <2> QED BY <2>1, <2>2, <2>3 DEF Sql!SetTruck
<1>3. CASE \E k \in Trucks : s = Sql!Enqueue(k)
  <2>1. PICK k \in Trucks : s = Sql!Enqueue(k)
    BY <1>3
  <2>2. e \in Databases
    BY <2>1, EnqueueEffect
  <2>3. e.snap = d.snap
    BY <2>1, ExecEnqueue DEF Databases
  <2> QED BY <2>1, <2>2, <2>3 DEF Sql!Enqueue
<1>4. CASE \E k \in Trucks, p \in Sql!QueueStates, q \in Sql!QueueStates : s = Sql!Advance(k, p, q)
  <2>1. PICK k \in Trucks, p \in Sql!QueueStates, q \in Sql!QueueStates : s = Sql!Advance(k, p, q)
    BY <1>4
  <2>2. e \in Databases
    BY <2>1, AdvanceEffect
  <2>3. e.snap = d.snap
    BY <2>1, ExecAdvance DEF Databases
  <2> QED BY <2>1, <2>2, <2>3 DEF Sql!Advance
<1>5. CASE \E k \in Trucks, o \in Orders : s = Sql!InsertDelivery(k, o)
  <2>1. PICK k \in Trucks, o \in Orders : s = Sql!InsertDelivery(k, o)
    BY <1>5
  <2>2. e \in Databases
    BY <2>1, InsertDeliveryEffect
  <2>3. e.snap = d.snap
    BY <2>1, ExecInsertDelivery DEF Databases
  <2> QED BY <2>1, <2>2, <2>3 DEF Sql!InsertDelivery
<1>6. CASE \E c \in Sql!EventCodes : s = Sql!InsertEvent(c)
  <2>1. PICK c \in Sql!EventCodes : s = Sql!InsertEvent(c)
    BY <1>6
  <2>2. e \in Databases
    BY <2>1, InsertEventEffect
  <2>3. e.snap = d.snap
    BY <2>1, ExecInsertEvent DEF Databases
  <2> QED BY <2>1, <2>2, <2>3 DEF Sql!InsertEvent
<1>7. CASE \E t \in Tanks, l \in Nat : s = Sql!InsertSnap(t, l)
  <2>1. PICK t \in Tanks, l \in Nat : s = Sql!InsertSnap(t, l)
    BY <1>7
  <2>2. e \in Databases
    BY <2>1, InsertSnapEffect
  <2>5. e = [d EXCEPT !.snap[t] = {l}]
    BY <2>1, ExecInsertSnap
  <2>3. e.snap = [d.snap EXCEPT ![t] = {l}]
    <3> HIDE DEF e
    <3> QED BY <2>5 DEF Databases
  <2>4. s.op = "InsertSnap" /\ s.tank = t /\ s.level = l
    BY <2>1 DEF Sql!InsertSnap
  <2> QED BY <2>2, <2>3, <2>4
<1>8. CASE \E k \in Trucks, t \in Tanks, g \in Nat, a \in Nat, b \in Nat :
             s = Sql!InsertLoad(k, t, g, a, b)
  <2>1. PICK k \in Trucks, t \in Tanks, g \in Nat, a \in Nat, b \in Nat :
          s = Sql!InsertLoad(k, t, g, a, b)
    BY <1>8
  <2>2. e \in Databases
    BY <2>1, InsertLoadEffect
  <2>4. PICK gallons, loads : e = WithLoads(d, gallons, loads)
    BY <2>1, ExecInsertLoad
  <2>3. e.snap = d.snap
    <3> HIDE DEF e
    <3> QED BY <2>4 DEF Databases, WithLoads
  <2> QED BY <2>1, <2>2, <2>3 DEF Sql!InsertLoad
<1>9. CASE \E o \in Orders : s = Sql!FillOrder(o)
  <2>1. PICK o \in Orders : s = Sql!FillOrder(o)
    BY <1>9
  <2>2. e \in Databases
    BY <2>1, FillOrderEffect
  <2>3. e.snap = d.snap
    BY <2>1, ExecFillOrder DEF Databases
  <2> QED BY <2>1, <2>2, <2>3 DEF Sql!FillOrder
<1> HIDE DEF e
<1>10. "LOAD_START" \in Sql!EventCodes /\ "LOAD_END" \in Sql!EventCodes
  BY DEF Sql!EventCodes
<1> QED
  BY <1>1, <1>2, <1>3, <1>4, <1>5, <1>6, <1>7, <1>8, <1>9, <1>10 DEF Statements, Harmless, e

\* Rows that record no level below the present one, nor above a recorded one.
Falling ==
    {s \in Statements :
        s.op = "InsertSnap" =>
            /\ level[s.tank] <= s.level
            /\ \A a \in db.snap[s.tank] : s.level <= a}

\* At most one level of a tank is the last one recorded, and the tank is not
\* above it.
Recorded(snap) ==
    \A t \in Tanks : \A a \in snap[t] : level[t] <= a /\ \A b \in snap[t] : a = b

\* From the tables through the queue to the tank, levels fall.
SnapInv == restarts = 0 => Recorded(db.snap) /\ dbQueue \in Seq(Falling)

\* A committed batch records levels between the last recorded and the present.
LEMMA CommitFalls ==
    ASSUME level \in [Tanks -> Nat], db \in Databases,
           Recorded(db.snap), dbQueue \in Seq(Falling)
    PROVE  LET e == Sql!ExecBatch(db, dbQueue)
           IN  /\ Recorded(e.snap)
               /\ \A t \in Tanks : \A a \in db.snap[t], b \in e.snap[t] : b <= a
<1> DEFINE good == {d \in Databases :
                      /\ Recorded(d.snap)
                      /\ \A t \in Tanks : \A a \in db.snap[t], b \in d.snap[t] : b <= a}
           Fits(d) == /\ d \in Databases
                      /\ Recorded(d.snap)
                      /\ \A t \in Tanks : \A a \in db.snap[t], b \in d.snap[t] : b <= a
<1>0. \A d : d \in good <=> Fits(d)
  OBVIOUS
<1>1. db \in good
  <2>1. Fits(db)
    <3>1. \A t \in Tanks : db.snap[t] \subseteq Nat
      BY DEF Databases
    <3> QED BY <3>1 DEF Recorded
  <2> HIDE DEF good
  <2> QED BY <1>0, <2>1
<1>2. ASSUME NEW d \in good, NEW s \in Falling PROVE Sql!Exec(d, s) \in good
  <2> DEFINE e == Sql!Exec(d, s)
  <2>1. /\ e \in Databases
        /\ s.op # "InsertSnap" => e.snap = d.snap
        /\ s.op = "InsertSnap" =>
              /\ s.tank \in Tanks /\ s.level \in Nat
              /\ e.snap = [d.snap EXCEPT ![s.tank] = {s.level}]
    BY SnapEffect DEF Falling
  <2> HIDE DEF e, good
  <2>0. Fits(d)
    BY <1>0, <1>2
  <2>2. ASSUME s.op # "InsertSnap" PROVE Fits(e)
    <3>1. e \in Databases /\ e.snap = d.snap
      BY <2>1, <2>2
    <3> QED BY <2>0, <3>1
  <2>3. ASSUME s.op = "InsertSnap" PROVE Fits(e)
    <3>1. level[s.tank] <= s.level /\ \A a \in db.snap[s.tank] : s.level <= a
      BY <2>3 DEF Falling
    <3>2. \A t \in Tanks : e.snap[t] = IF t = s.tank THEN {s.level} ELSE d.snap[t]
      BY <2>0, <2>1, <2>3 DEF Databases
    <3>3. Recorded(e.snap)
      BY <2>0, <3>1, <3>2 DEF Recorded
    <3>4. \A t \in Tanks : \A a \in db.snap[t], b \in e.snap[t] : b <= a
      BY <2>0, <3>1, <3>2
    <3> QED BY <2>1, <3>3, <3>4
  <2>4. Fits(e)
    BY <2>2, <2>3
  <2>5. e \in good
    BY <1>0, <2>4
  <2> QED BY <2>5 DEF e
<1>3. Sql!ExecBatch(db, dbQueue) \in good
  <2>1. \A d \in good : \A s \in Falling : Sql!Exec(d, s) \in good
    BY <1>2
  <2> HIDE DEF good
  <2> QED BY <1>1, <2>1, ExecKeeps
<1> QED BY <1>3

\* Where tanks only fall and no level is committed, what was between stays so.
LEMMA FallingStays ==
    ASSUME level \in [Tanks -> Nat], level' \in [Tanks -> Nat], db \in Databases,
           db' = db, \A t \in Tanks : level'[t] <= level[t], Recorded(db.snap)
    PROVE  /\ Recorded(db.snap)'
           /\ Falling \subseteq Falling'
<1>1. \A t \in Tanks : db.snap[t] \subseteq Nat
  BY DEF Databases
<1>2. Recorded(db.snap)'
  <2> SUFFICES ASSUME NEW t \in Tanks, NEW a \in db.snap[t]
               PROVE  level'[t] <= a /\ \A b \in db.snap[t] : a = b
    BY DEF Recorded
  <2>1. level[t] <= a /\ \A b \in db.snap[t] : a = b
    BY DEF Recorded
  <2>2. level[t] \in Nat /\ level'[t] \in Nat /\ level'[t] <= level[t] /\ a \in Nat
    BY <1>1
  <2> QED BY <2>1, <2>2
<1>3. ASSUME NEW s \in Falling PROVE s \in Falling'
  <2>1. s \in Statements
    BY DEF Falling
  <2>2. CASE s.op = "InsertSnap"
    <3>1. s.tank \in Tanks /\ s.level \in Nat
      BY <2>1, <2>2, SnapEffect
    <3>2. level[s.tank] <= s.level /\ \A a \in db.snap[s.tank] : s.level <= a
      BY <2>2 DEF Falling
    <3>3. level'[s.tank] <= s.level
      BY <3>1, <3>2
    <3> QED BY <2>1, <3>2, <3>3 DEF Falling
  <2>3. CASE s.op # "InsertSnap"
    BY <2>1, <2>3 DEF Falling
  <2> QED BY <2>2, <2>3
<1> QED BY <1>2, <1>3

\* Only a restart counts as one.
LEMMA RestartsCount == [Next]_vars => Restart \/ restarts' = restarts
  BY DEF Next, Replay, ReplayEvent, ReplayWraps, Dispatch, PhysicsTick, TakeSnapshot,
     FlushSucceeds, FlushRefused, Shutdown, vars, replayVars, mishaps

\* No step raises a level in the lifetime of a process.
LEMMA LevelsFall ==
    ASSUME TypeInv, [Next]_vars, ~Restart
    PROVE  \A t \in Tanks : level'[t] <= level[t]
<1>0. SmTypeOK /\ PhysTypeOK
  BY DEF TypeInv, SmTypeOK
<1>3. CASE level' = level
  BY <1>0, <1>3 DEF PhysTypeOK
<1>4. CASE level' # level
  <2>1. Tick
    BY <1>4, FuelKept DEF PhysicsTick
  <2> SUFFICES ASSUME NEW t \in Tanks PROVE level'[t] <= level[t]
    OBVIOUS
  <2>2. level'[t] = Drain(t) /\ level[t] \in Nat
    BY <1>0, <2>1 DEF Tick, PhysTypeOK
  <2>3. CASE DrawnBy(t) = {}
    BY <2>2, <2>3, DrainBound
  <2>4. CASE DrawnBy(t) # {}
    <3>1. level[t] > LoLevel[t] /\ LoLevel[t] \in Nat
      BY <1>0, <2>4, DrawnAboveSwitch, PhysicsAssumption DEF PhysTypeOK
    <3>2. Drain(t) < level[t] /\ Drain(t) \in Nat
      BY <2>2, <2>4, <3>1, DrainFalls, DrainBound
    <3> QED BY <2>2, <3>2
  <2> QED BY <2>3, <2>4
<1> QED BY <1>3, <1>4

\* Statements that record no level.
Levelless == {s \in Statements : s.op # "InsertSnap"}

\* Every handler queues such statements.
LEMMA HandlersTellNoLevel ==
    ASSUME SmTypeOK, NEW e \in SortieEvents, ApplyEvent(e)
    PROVE  \E b \in Seq(Levelless) : dbQueue' = dbQueue \o b
<1>0. e.rack \in Racks /\ e.tank \in Tanks /\ e.truck \in Trucks /\ e.order \in Orders
  BY SortieEventType
<1>s. /\ {"QUEUED", "LOADING", "ENROUTE", "DISPENSING", "RETURNING", "AVAILABLE"}
            \subseteq Sql!TruckStates
      /\ {"QUEUED", "LOADING", "ENROUTE", "DISPENSING", "RETURNING"} \subseteq Sql!QueueStates
  BY DEF Sql!TruckStates, Sql!QueueStates
<1>1. ASSUME NEW q \in Sql!TruckStates PROVE Sql!SetTruck(e.truck, q) \in Levelless
  <2>1. Sql!SetTruck(e.truck, q) \in Statements
    BY <1>0 DEF Statements, Harmless
  <2>2. Sql!SetTruck(e.truck, q).op # "InsertSnap"
    BY DEF Sql!SetTruck
  <2> QED BY <2>1, <2>2 DEF Levelless
<1>2. ASSUME NEW p \in Sql!QueueStates, NEW q \in Sql!QueueStates
      PROVE  Sql!Advance(e.truck, p, q) \in Levelless
  <2>1. Sql!Advance(e.truck, p, q) \in Statements
    BY <1>0 DEF Statements, Harmless
  <2>2. Sql!Advance(e.truck, p, q).op # "InsertSnap"
    BY DEF Sql!Advance
  <2> QED BY <2>1, <2>2 DEF Levelless
<1>3. ASSUME NEW o \in Orders
      PROVE  /\ Sql!InsertOrder(o) \in Levelless
             /\ Sql!InsertDelivery(e.truck, o) \in Levelless
             /\ Sql!FillOrder(o) \in Levelless
  <2>1. /\ Sql!InsertOrder(o) \in Statements
        /\ Sql!InsertDelivery(e.truck, o) \in Statements
        /\ Sql!FillOrder(o) \in Statements
    BY <1>0 DEF Statements, Harmless
  <2>2. /\ Sql!InsertOrder(o).op # "InsertSnap"
        /\ Sql!InsertDelivery(e.truck, o).op # "InsertSnap"
        /\ Sql!FillOrder(o).op # "InsertSnap"
    BY DEF Sql!InsertOrder, Sql!InsertDelivery, Sql!FillOrder
  <2> QED BY <2>1, <2>2 DEF Levelless
<1>4. /\ Sql!Enqueue(e.truck) \in Levelless
      /\ Sql!InsertEvent("LOAD_START") \in Levelless
      /\ Sql!InsertEvent("LOAD_END") \in Levelless
  <2>1. /\ Sql!Enqueue(e.truck) \in Statements
        /\ Sql!InsertEvent("LOAD_START") \in Statements
        /\ Sql!InsertEvent("LOAD_END") \in Statements
    BY <1>0 DEF Statements, Harmless
  <2>2. /\ Sql!Enqueue(e.truck).op # "InsertSnap"
        /\ Sql!InsertEvent("LOAD_START").op # "InsertSnap"
        /\ Sql!InsertEvent("LOAD_END").op # "InsertSnap"
    BY DEF Sql!Enqueue, Sql!InsertEvent
  <2> QED BY <2>1, <2>2 DEF Levelless
<1>5. CASE UNCHANGED dbQueue /\ (OnLoadEnd(e) \/ OnDeliveryEnd(e))
  <2>1. dbQueue' = dbQueue \o <<>> /\ <<>> \in Seq(Levelless)
    BY <1>5
  <2> QED BY <2>1
<1>6. CASE OnOrderCreated(e)
  <2>1. dbQueue' = dbQueue \o <<Sql!InsertOrder(e.order)>>
    BY <1>6 DEF OnOrderCreated, Put
  <2>2. <<Sql!InsertOrder(e.order)>> \in Seq(Levelless)
    BY <1>0, <1>3
  <2> QED BY <2>1, <2>2
<1>7. CASE OnTruckArrival(e)
  <2> DEFINE b == <<Sql!SetTruck(e.truck, "QUEUED"), Sql!Enqueue(e.truck)>>
  <2>1. dbQueue' = dbQueue \o b
    BY <1>7 DEF OnTruckArrival, Put
  <2>2. b \in Seq(Levelless)
    BY <1>s, <1>1, <1>4
  <2> QED BY <2>1, <2>2
<1>8. CASE OnLoadStart(e)
  <2> DEFINE b == <<Sql!SetTruck(e.truck, "LOADING"), Sql!Advance(e.truck, "QUEUED", "LOADING"),
                    Sql!InsertEvent("LOAD_START")>>
  <2>1. dbQueue' = dbQueue \o b
    BY <1>8 DEF OnLoadStart, Put
  <2>2. b \in Seq(Levelless)
    BY <1>s, <1>1, <1>2, <1>4
  <2> QED BY <2>1, <2>2
<1>9. CASE OnLoadEnd(e) /\ ~UNCHANGED dbQueue
  <2>1. PICK r \in RacksOfTruck(e.truck) :
          dbQueue' = dbQueue \o <<LoadRecord(e.truck, r), Sql!SetTruck(e.truck, "ENROUTE"),
                                  Sql!Advance(e.truck, "LOADING", "ENROUTE"),
                                  Sql!InsertEvent("LOAD_END")>>
    BY <1>9 DEF OnLoadEnd, Put
  <2>2. r \in Racks /\ openLoads[r] \in Loads
    BY DEF RacksOfTruck, SmTypeOK
  <2>3. openLoads[r].tank \in Tanks /\ openLoads[r].meterStart \in Nat
    BY <2>2, PhysicsAssumption DEF Loads
  <2>4. dispensed[r] \in Nat /\ totalizer[r] \in Nat
    BY <2>2, PhysicsAssumption DEF SmTypeOK, PhysTypeOK
  <2>5. LoadRecord(e.truck, r) \in Statements
    BY <1>0, <2>3, <2>4 DEF Statements, LoadRecord
  <2>6. LoadRecord(e.truck, r).op # "InsertSnap"
    BY DEF LoadRecord, Sql!InsertLoad
  <2>7. LoadRecord(e.truck, r) \in Levelless
    BY <2>5, <2>6 DEF Levelless
  <2>8. <<LoadRecord(e.truck, r), Sql!SetTruck(e.truck, "ENROUTE"),
          Sql!Advance(e.truck, "LOADING", "ENROUTE"), Sql!InsertEvent("LOAD_END")>>
        \in Seq(Levelless)
    BY <1>s, <1>1, <1>2, <1>4, <2>7
  <2> QED BY <2>1, <2>8
<1>10. CASE OnDeliveryStart(e)
  <2> DEFINE b == <<Sql!SetTruck(e.truck, "DISPENSING"),
                    Sql!Advance(e.truck, "ENROUTE", "DISPENSING")>>
  <2>1. dbQueue' = dbQueue \o b
    BY <1>10 DEF OnDeliveryStart, Put
  <2>2. b \in Seq(Levelless)
    BY <1>s, <1>1, <1>2
  <2> QED BY <2>1, <2>2
<1>11. CASE OnDeliveryEnd(e) /\ ~UNCHANGED dbQueue
  <2> DEFINE o == openDeliveries[e.truck]
             b == <<Sql!InsertDelivery(e.truck, o), Sql!FillOrder(o)>>
  <2>1. o \in Orders
    BY <1>0, <1>11 DEF OnDeliveryEnd, SmTypeOK
  <2>2. dbQueue' = dbQueue \o (b \o DeliveryClosed(e.truck))
    BY <1>11 DEF OnDeliveryEnd, Put
  <2> HIDE DEF o
  <2>3. b \in Seq(Levelless)
    BY <1>3, <2>1
  <2>4. DeliveryClosed(e.truck) \in Seq(Levelless)
    BY <1>s, <1>1, <1>2 DEF DeliveryClosed
  <2> HIDE DEF b
  <2>5. b \o DeliveryClosed(e.truck) \in Seq(Levelless)
    BY <2>3, <2>4
  <2> QED BY <2>2, <2>5
<1> QED
  BY <1>5, <1>6, <1>7, <1>8, <1>9, <1>10, <1>11 DEF ApplyEvent

\* Every step keeps the levels falling, and records none that rises.
LEMMA SnapStep ==
    ASSUME TypeInv, Bounds, TablesInv, SnapInv, [Next]_vars
    PROVE  /\ SnapInv'
           /\ restarts = 0 =>
                 \A t \in Tanks : \A a \in db.snap[t], b \in db'.snap[t] : b <= a
<1>r. CASE Restart
  <2>1. restarts \in Nat /\ restarts' = restarts + 1 /\ db' = db
    BY <1>r DEF Bounds, Restart, FlusherRestart
  <2>2. \A t \in Tanks : db.snap[t] \subseteq Nat
    BY DEF TablesInv, GoodDbs, Databases
  <2> QED BY <2>1, <2>2 DEF SnapInv, Recorded
<1> SUFFICES ASSUME restarts = 0, ~Restart
             PROVE  /\ Recorded(db.snap)' /\ dbQueue' \in Seq(Falling')
                    /\ \A t \in Tanks : \A a \in db.snap[t], b \in db'.snap[t] : b <= a
  <2>1. ~Restart => restarts' = restarts
    BY RestartsCount
  <2> QED BY <1>r, <2>1 DEF SnapInv
<1>0. /\ \A t \in Tanks : level'[t] <= level[t]
      /\ level \in [Tanks -> Nat] /\ level' \in [Tanks -> Nat]
      /\ db \in Databases /\ Recorded(db.snap) /\ dbQueue \in Seq(Falling)
  <2>1. level \in [Tanks -> Nat] /\ level' \in [Tanks -> Nat]
    BY NextTypeInv DEF TypeInv, SmTypeOK, PhysTypeOK
  <2> QED BY <2>1, LevelsFall DEF SnapInv, TablesInv, GoodDbs
<1>1. ASSUME db' = db
      PROVE  /\ Recorded(db.snap)' /\ Falling \subseteq Falling'
             /\ \A t \in Tanks : \A a \in db.snap[t], b \in db'.snap[t] : b <= a
  <2>1. Recorded(db.snap)' /\ Falling \subseteq Falling'
    BY <1>0, <1>1, FallingStays
  <2>2. \A t \in Tanks : db.snap[t] \subseteq Nat
    BY <1>0 DEF Databases
  <2>3. \A t \in Tanks : \A a \in db.snap[t], b \in db.snap[t] : b <= a
    BY <1>0, <2>2 DEF Recorded
  <2> QED BY <1>1, <2>1, <2>3
<1>2. ASSUME NEW b, b \in Seq(Falling'), db' = db, dbQueue' = dbQueue \o b
      PROVE  dbQueue' \in Seq(Falling')
  <2>1. dbQueue \in Seq(Falling')
    BY <1>0, <1>1, <1>2
  <2> QED BY <1>2, <2>1
<1>3. CASE Dispatch
  <2>1. Head(eventQueue) \in SortieEvents
    BY <1>3, HeadTail DEF TypeInv, Dispatch
  <2>2. ApplyEvent(Head(eventQueue)) /\ db' = db
    BY <1>3 DEF Dispatch
  <2>3. PICK b \in Seq(Levelless) : dbQueue' = dbQueue \o b
    BY <2>1, <2>2, HandlersTellNoLevel DEF TypeInv
  <2>4. Levelless \subseteq Falling'
    BY DEF Levelless, Falling
  <2>5. b \in Seq(Falling')
    BY <2>4
  <2> QED BY <1>1, <1>2, <2>2, <2>3, <2>5
<1>4. CASE TakeSnapshot
  <2> DEFINE b == [t \in Tanks |-> Sql!InsertSnap(t, level[t])]
  <2>1. db' = db /\ dbQueue' = dbQueue \o b /\ level' = level
    BY <1>4 DEF TakeSnapshot, Snapshot, Put, plantSide, physVars, plant
  <2>2. ASSUME NEW t \in Tanks PROVE Sql!InsertSnap(t, level[t]) \in Falling
    <3>1. level[t] \in Nat
      BY <1>0
    <3>2. Sql!InsertSnap(t, level[t]) \in Statements
      BY <3>1 DEF Statements, Harmless
    <3>3. Sql!InsertSnap(t, level[t]).tank = t /\ Sql!InsertSnap(t, level[t]).level = level[t]
      BY DEF Sql!InsertSnap
    <3> QED BY <1>0, <3>1, <3>2, <3>3 DEF Falling, Recorded
  <2>3. NTanks \in Nat /\ b \in [1..NTanks -> Falling']
    BY <1>1, <2>1, <2>2, PhysicsAssumption DEF Tanks
  <2> HIDE DEF b
  <2>4. b \in Seq(Falling')
    BY <2>3
  <2> QED BY <1>1, <1>2, <2>1, <2>4
<1>5. CASE FlushSucceeds
  <2>1. db' = Sql!ExecBatch(db, dbQueue) /\ dbQueue' = <<>> /\ level' = level
    BY <1>5 DEF FlushSucceeds, FlushCommits, FlushCommitsUnseen, physVars, plant
  <2>2. /\ Recorded(db'.snap)
        /\ \A t \in Tanks : \A a \in db.snap[t], b \in db'.snap[t] : b <= a
    BY <1>0, <2>1, CommitFalls
  <2>3. Recorded(db.snap)'
    BY <2>1, <2>2 DEF Recorded
  <2> QED BY <2>1, <2>2, <2>3
<1>6. CASE FlushRefused
  <2>1. db' = db /\ dbQueue' = <<>>
    BY <1>6 DEF FlushRefused, FlushFails
  <2> QED BY <1>1, <2>1
<1>7. CASE Replay \/ PhysicsTick \/ Shutdown \/ UNCHANGED vars
  <2>1. db' = db /\ dbQueue' = dbQueue
    BY <1>7 DEF Replay, ReplayEvent, ReplayWraps, PhysicsTick, Shutdown, vars, dbVars
  <2> QED BY <1>0, <1>1, <2>1
<1> QED BY <1>3, <1>4, <1>5, <1>6, <1>7 DEF Next

\* From one commit to the next no recorded level rises, whatever batches were
\* refused in between, as long as the process lives.
THEOREM SnapshotsCorrect == Spec => SnapshotsFall
<1>1. Init => SnapInv
  <2> SUFFICES ASSUME Init PROVE Recorded(db.snap) /\ dbQueue \in Seq(Falling)
    BY DEF SnapInv
  <2>1. dbQueue = <<>> /\ db = Sql!EmptyDb
    BY DEF Init
  <2>2. \A t \in Tanks : db.snap[t] = {}
    BY <2>1 DEF Sql!EmptyDb
  <2> QED BY <2>1, <2>2 DEF Recorded
<1>2. TypeInv /\ Bounds /\ TablesInv /\ SnapInv /\ [Next]_vars => SnapInv'
  BY SnapStep
<1>3. TypeInv /\ Bounds /\ TablesInv /\ SnapInv /\ [Next]_vars
        => [\A t \in Tanks : \A a \in db.snap[t], b \in db'.snap[t] :
               b <= a \/ restarts > 0]_vars
  <2> SUFFICES ASSUME TypeInv, Bounds, TablesInv, SnapInv, [Next]_vars, ~(restarts > 0),
                      NEW t \in Tanks, NEW a \in db.snap[t], NEW b \in db'.snap[t]
               PROVE  b <= a
    OBVIOUS
  <2>1. restarts = 0
    BY DEF Bounds
  <2> QED BY <2>1, SnapStep
<1> QED
  BY <1>1, <1>2, <1>3, TypesAndBounds, TablesInvariant, PTL DEF Spec, SnapshotsFall

-----------------------------------------------------------------------------
(* The progress of the sorties *)

\* How far each sortie is in its cycle: events of it handled, or replayed,
\* since its last cycle ended.
Progress == [Sorties -> 0..5]

\* A truck is between its arrival and its return.
Under(n) == n \in 2..5

\* A truck is in one cycle at a time and a rack in one load.
Exclusive(L) ==
    \A s \in Sorties : \A u \in Sorties \ {s} :
        /\ s.truck = u.truck => ~(Under(L[s]) /\ Under(L[u]))
        /\ s.rack = u.rack => ~(L[s] = 3 /\ L[u] = 3)

\* What a paced timeline can have reached.
PacedProgress == {L \in Progress : Exclusive(L)}

\* The next event of sortie s; its sixth event closes the cycle.
Bumped(L, s) == [L EXCEPT ![s] = IF @ = 5 THEN 0 ELSE @ + 1]

\* Event e is the next one of some sortie, and takes progress L to M.
Moves(L, e, M) == \E s \in Sorties : e = EventOf(s, L[s] + 1) /\ M = Bumped(L, s)

\* The events of q take progress K to L, through paced progress all along.
Leads(K, q, L) ==
    \E path \in [0..Len(q) -> PacedProgress] :
        /\ path[0] = K
        /\ path[Len(q)] = L
        /\ \A i \in 1..Len(q) : Moves(path[i - 1], q[i], path[i])

\* What the timeline has replayed.
Replayed == [s \in Sorties |-> IF stage[s] = 6 THEN 0 ELSE stage[s]]

\* The database when all that is queued is executed.
Projected == Sql!ExecBatch(db, dbQueue)

\* The status of a truck after the first n events of its sortie.
Status(n) == <<"AVAILABLE", "QUEUED", "LOADING", "ENROUTE", "DISPENSING">>[n]

\* QueueFollowsTruck, of any database.
Follows(d) ==
    \A k \in Trucks : \A q \in Sql!QueueStates \ {"RETURNING"} :
        d.queue[k][q] = IF d.trucks[k] = q THEN 1 ELSE 0

\* The tables place every truck where the progress of its sorties does.
TrucksPlaced(K, d) ==
    /\ \A s \in Sorties : Under(K[s]) => d.trucks[s.truck] = Status(K[s])
    /\ \A k \in Trucks :
          (\A s \in Sorties : s.truck = k => ~Under(K[s])) => d.trucks[k] = "AVAILABLE"
    /\ Follows(d)

\* A load is open exactly for a sortie between its load_start and load_end.
LoadsPlaced(K, loads) ==
    /\ \A s \in Sorties : K[s] = 3 => loads[s.rack] # NoLoad
    /\ \A r \in Racks :
          loads[r] # NoLoad =>
             \E s \in Sorties : K[s] = 3 /\ s.rack = r /\ s.truck = loads[r].truck

\* A delivery is open between its start and its end.
DeliveriesPlaced(K, deliveries) ==
    \A s \in Sorties : K[s] = 5 => deliveries[s.truck] # NoOrder

\* Tables and memory are where the progress of the sorties puts them.
Placing(K, d, loads, deliveries) ==
    /\ d \in Databases
    /\ TrucksPlaced(K, d)
    /\ LoadsPlaced(K, loads)
    /\ DeliveriesPlaced(K, deliveries)

\* Without a mishap, the events still queued lead from the progress that tables
\* and memory show, once the queued statements are executed, to the progress of
\* the timeline, and no way there leaves the paced ones.
PlacedInv ==
    Undisturbed =>
        /\ Follows(db)
        /\ \E K \in PacedProgress :
              /\ Leads(K, eventQueue, Replayed)
              /\ Placing(K, Projected, openLoads, openDeliveries)

\* The gallons that open loads have taken from tank t so far.
Loading(t, loads, counts) ==
    [r \in Racks |-> IF loads[r] # NoLoad /\ loads[r].tank = t THEN counts[r] ELSE 0]

\* What has left a tank is recorded or on its way into a truck.
FuelPlaced(d) ==
    \A t \in Tanks :
        InitLevel[t] - level[t] = d.loaded[t] + Total(Loading(t, openLoads, dispensed))

\* Without a mishap, what has left a tank is in the load table, in a statement
\* of the queue or on the batch counter of an open load.
FuelInv == Undisturbed => FuelPlaced(Projected)

\* Progress keeps its type.
LEMMA BumpedType ==
    ASSUME NEW L \in Progress, NEW s \in Sorties
    PROVE  Bumped(L, s) \in Progress
<1>1. L[s] \in 0..5
  BY DEF Progress
<1>2. (IF L[s] = 5 THEN 0 ELSE L[s] + 1) \in 0..5
  BY <1>1
<1> QED BY <1>2 DEF Progress, Bumped

\* No event takes no progress.
LEMMA LeadsEmpty ==
    ASSUME NEW K \in PacedProgress
    PROVE  Leads(K, <<>>, K)
<1> DEFINE p == [i \in 0..0 |-> K]
<1>1. Len(<<>>) = 0 /\ p \in [0..0 -> PacedProgress] /\ p[0] = K /\ 1..0 = {}
  OBVIOUS
<1> HIDE DEF p
<1> QED BY <1>1 DEF Leads

\* An event appended leads one step on.
LEMMA LeadsAppend ==
    ASSUME NEW K, NEW L, NEW M \in PacedProgress, NEW S, NEW q \in Seq(S), NEW e \in S,
           Leads(K, q, L), Moves(L, e, M)
    PROVE  Leads(K, Append(q, e), M)
<1>1. PICK p \in [0..Len(q) -> PacedProgress] :
        /\ p[0] = K
        /\ p[Len(q)] = L
        /\ \A i \in 1..Len(q) : Moves(p[i - 1], q[i], p[i])
  BY DEF Leads
<1> DEFINE n == Len(q)
           r == Append(q, e)
           z == [i \in 0..(n + 1) |-> IF i <= n THEN p[i] ELSE M]
<1>2. /\ n \in Nat /\ Len(r) = n + 1 /\ r[n + 1] = e
      /\ \A i \in 1..n : r[i] = q[i]
  OBVIOUS
<1>3. z \in [0..(n + 1) -> PacedProgress] /\ z[0] = K /\ z[n + 1] = M
  BY <1>1, <1>2
<1>4. ASSUME NEW i \in 1..(n + 1) PROVE Moves(z[i - 1], r[i], z[i])
  <2>1. CASE i <= n
    <3>1. i \in 1..n /\ z[i] = p[i] /\ z[i - 1] = p[i - 1]
      BY <1>2, <2>1
    <3> QED BY <1>1, <1>2, <3>1
  <2>2. CASE i = n + 1
    <3>1. z[i] = M /\ z[i - 1] = L
      BY <1>1, <1>2, <2>2
    <3> QED BY <1>2, <2>2, <3>1
  <2> QED BY <1>2, <2>1, <2>2
<1> HIDE DEF n, r, z
<1>5. \E path \in [0..Len(r) -> PacedProgress] :
        /\ path[0] = K
        /\ path[Len(r)] = M
        /\ \A i \in 1..Len(r) : Moves(path[i - 1], r[i], path[i])
  BY <1>2, <1>3, <1>4
<1> QED BY <1>5 DEF Leads, r

\* The event at the head takes the first step of the way.
LEMMA LeadsTail ==
    ASSUME NEW K, NEW L, NEW S, NEW q \in Seq(S), q # <<>>, Leads(K, q, L)
    PROVE  \E J \in PacedProgress : Moves(K, Head(q), J) /\ Leads(J, Tail(q), L)
<1>1. PICK p \in [0..Len(q) -> PacedProgress] :
        /\ p[0] = K
        /\ p[Len(q)] = L
        /\ \A i \in 1..Len(q) : Moves(p[i - 1], q[i], p[i])
  BY DEF Leads
<1> DEFINE n == Len(q)
           r == Tail(q)
           z == [i \in 0..(n - 1) |-> p[i + 1]]
<1>2. /\ n \in Nat \ {0} /\ Len(r) = n - 1 /\ Head(q) = q[1]
      /\ \A i \in 1..(n - 1) : r[i] = q[i + 1]
  OBVIOUS
<1>3. z \in [0..(n - 1) -> PacedProgress] /\ z[0] = p[1] /\ z[n - 1] = L
  BY <1>1, <1>2
<1>4. ASSUME NEW i \in 1..(n - 1) PROVE Moves(z[i - 1], r[i], z[i])
  <2>1. z[i] = p[i + 1] /\ z[i - 1] = p[i] /\ i + 1 \in 1..n /\ (i + 1) - 1 = i
    BY <1>2
  <2>2. Moves(p[(i + 1) - 1], q[i + 1], p[i + 1])
    BY <1>1, <2>1
  <2> QED BY <1>2, <2>1, <2>2
<1>5. Moves(K, Head(q), p[1]) /\ p[1] \in PacedProgress
  <2>1. 1 \in 1..n /\ 1 - 1 = 0
    BY <1>2
  <2> QED BY <1>1, <1>2, <2>1
<1> HIDE DEF n, r, z
<1>6. \E path \in [0..Len(r) -> PacedProgress] :
        /\ path[0] = p[1]
        /\ path[Len(r)] = L
        /\ \A i \in 1..Len(r) : Moves(path[i - 1], r[i], path[i])
  BY <1>2, <1>3, <1>4
<1>7. Leads(p[1], r, L)
  BY <1>6 DEF Leads
<1> QED BY <1>5, <1>7 DEF r

\* A paced replay keeps the cycles of a truck and the loads of a rack apart.
LEMMA ReplayPaced ==
    ASSUME Paced, stage \in [Sorties -> 0..6], Replayed \in PacedProgress,
           NEW s \in Sorties, ReplayEvent(s)
    PROVE  /\ Replayed' \in PacedProgress
           /\ Moves(Replayed, EventOf(s, stage[s] + 1), Replayed')
<1>1. /\ stage[s] \in 0..5 /\ stage' = [stage EXCEPT ![s] = @ + 1]
      /\ MayFollow(s)
  BY ScriptLength DEF ReplayEvent
<1>2. Replayed' = [u \in Sorties |-> IF stage'[u] = 6 THEN 0 ELSE stage'[u]]
  BY DEF Replayed
<1>3. Replayed' = Bumped(Replayed, s) /\ Replayed[s] = stage[s]
  BY <1>1, <1>2 DEF Replayed, Bumped
<1>4. Moves(Replayed, EventOf(s, stage[s] + 1), Replayed')
  BY <1>3 DEF Moves
<1>5. Replayed' \in Progress
  BY <1>3, BumpedType DEF PacedProgress
<1>6. Exclusive(Replayed')
  <2>0. /\ \A u \in Sorties \ {s} : Replayed'[u] = Replayed[u] /\ stage[u] \in 0..6
        /\ Replayed'[s] = IF stage[s] = 5 THEN 0 ELSE stage[s] + 1
    BY <1>1, <1>2, <1>3 DEF Replayed
  <2>1. ASSUME NEW u \in Sorties \ {s}, u.truck = s.truck
        PROVE  ~(Under(Replayed'[s]) /\ Under(Replayed'[u]))
    <3>1. CASE stage[s] = 1
      <4>1. stage[u] \in {0, 1, 6}
        BY <1>1, <2>1, <3>1 DEF MayFollow
      <4>2. Replayed[u] \in {0, 1}
        BY <4>1 DEF Replayed
      <4> QED BY <2>0, <4>2 DEF Under
    <3>2. CASE stage[s] # 1
      <4>1. Under(Replayed'[s]) => Under(Replayed[s])
        BY <1>1, <1>3, <2>0, <3>2 DEF Under
      <4>2. ~(Under(Replayed[s]) /\ Under(Replayed[u]))
        BY <2>1 DEF PacedProgress, Exclusive
      <4> QED BY <2>0, <4>1, <4>2
    <3> QED BY <3>1, <3>2
  <2>2. ASSUME NEW u \in Sorties \ {s}, u.rack = s.rack
        PROVE  ~(Replayed'[s] = 3 /\ Replayed'[u] = 3)
    <3>1. CASE stage[s] = 2
      <4>1. stage[u] # 3
        BY <1>1, <2>2, <3>1 DEF MayFollow
      <4>2. Replayed[u] # 3
        BY <4>1 DEF Replayed
      <4> QED BY <2>0, <4>2
    <3>2. CASE stage[s] # 2
      BY <1>1, <2>0, <3>2
    <3> QED BY <3>1, <3>2
  <2>3. ASSUME NEW v \in Sorties, NEW u \in Sorties \ {v}
        PROVE  /\ v.truck = u.truck => ~(Under(Replayed'[v]) /\ Under(Replayed'[u]))
               /\ v.rack = u.rack => ~(Replayed'[v] = 3 /\ Replayed'[u] = 3)
    <3>1. CASE v = s
      BY <2>1, <2>2, <3>1
    <3>2. CASE u = s
      BY <2>1, <2>2, <3>2
    <3>3. CASE v # s /\ u # s
      BY <2>0, <3>3 DEF PacedProgress, Exclusive
    <3> QED BY <3>1, <3>2, <3>3
  <2> HIDE DEF Replayed
  <2> QED BY <2>3 DEF Exclusive
<1> QED BY <1>4, <1>5, <1>6 DEF PacedProgress

-----------------------------------------------------------------------------
(* What each event does to trucks, loads and deliveries *)

\* What a step of sortie s leaves of the progress of the others.
LEMMA OthersKept ==
    ASSUME NEW K \in Progress, NEW s \in Sorties
    PROVE  /\ Bumped(K, s)[s] = IF K[s] = 5 THEN 0 ELSE K[s] + 1
           /\ \A u \in Sorties \ {s} : Bumped(K, s)[u] = K[u]
  BY DEF Bumped, Progress

\* A sortie names a truck and a rack.
LEMMA SortieTruck == \A s \in Sorties : s.truck \in Trucks /\ s.rack \in Racks
  BY SortieAssumption

\* The statuses, by name.
LEMMA Statuses ==
    /\ Status(2) = "QUEUED" /\ Status(3) = "LOADING"
    /\ Status(4) = "ENROUTE" /\ Status(5) = "DISPENSING"
  BY DEF Status

\* A truck that moves from one busy status to the next takes its row along.
LEMMA MovePlaces ==
    ASSUME NEW K \in PacedProgress, NEW s \in Sorties, K[s] \in 2..4,
           Bumped(K, s) \in PacedProgress,
           NEW d \in Databases, NEW e \in Databases, TrucksPlaced(K, d),
           e.trucks = [d.trucks EXCEPT ![s.truck] = Status(K[s] + 1)],
           e.queue = QueueAdvanced(d.queue, s.truck, Status(K[s]), Status(K[s] + 1))
    PROVE  TrucksPlaced(Bumped(K, s), e)
<1> DEFINE J == Bumped(K, s)
           k == s.truck
           p == Status(K[s])
           q == Status(K[s] + 1)
<1>1. /\ J[s] = K[s] + 1 /\ K[s] \in 2..4
      /\ \A u \in Sorties \ {s} : J[u] = K[u]
  BY OthersKept DEF PacedProgress
<1>2. k \in Trucks
  BY SortieTruck
<1>3. /\ p \in Sql!QueueStates \ {"RETURNING"} /\ q \in Sql!QueueStates \ {"RETURNING"}
      /\ p # q
  <2>1. K[s] = 2 \/ K[s] = 3 \/ K[s] = 4
    BY <1>1
  <2> QED BY <2>1, Statuses DEF Sql!QueueStates
<1>4. Under(K[s]) /\ Under(J[s])
  BY <1>1 DEF Under
<1>5. \A u \in Sorties \ {s} : u.truck = k => ~Under(J[u])
  BY <1>4 DEF PacedProgress, Exclusive
<1>6. d.trucks \in [Trucks -> Sql!TruckStates] /\ d.queue \in [Trucks -> [Sql!QueueStates -> Nat]]
  BY DEF Databases
<1>7. d.trucks[k] = p
  BY <1>4 DEF TrucksPlaced
<1>8. e.trucks[k] = q /\ \A x \in Trucks \ {k} : e.trucks[x] = d.trucks[x]
  BY <1>2, <1>6
<1>9. \A x \in Trucks \ {k} : e.queue[x] = d.queue[x]
  BY <1>2, <1>6 DEF QueueAdvanced
<1>10. ASSUME NEW x \in Sql!QueueStates \ {"RETURNING"}
       PROVE  e.queue[k][x] = IF q = x THEN 1 ELSE 0
  <2> DEFINE rows == d.queue[k]
  <2>1. rows \in [Sql!QueueStates -> Nat]
    BY <1>2, <1>6
  <2>2. \A y \in Sql!QueueStates \ {"RETURNING"} : rows[y] = IF p = y THEN 1 ELSE 0
    BY <1>2, <1>7 DEF TrucksPlaced, Follows
  <2> HIDE DEF rows, p, q
  <2> DEFINE n == rows[q] + rows[p]
  <2>3. n = 1
    BY <1>3, <2>2
  <2>4. e.queue[k] = Sql!RowsAdvanced(rows, p, q)
    BY <1>2, <1>6 DEF QueueAdvanced, rows, p, q
  <2>5. Sql!RowsAdvanced(rows, p, q) = [rows EXCEPT ![p] = 0, ![q] = n]
    BY DEF Sql!RowsAdvanced
  <2>6. rows[p] = 1 /\ rows[q] = 0
    BY <1>3, <2>2
  <2>7. e.queue[k] = [rows EXCEPT ![p] = 0, ![q] = 1]
    BY <2>3, <2>4, <2>5
  <2> HIDE DEF n
  <2>8. CASE x = p
    BY <1>3, <2>1, <2>7, <2>8
  <2>9. CASE x = q
    BY <1>3, <2>1, <2>7, <2>9
  <2>10. CASE x # p /\ x # q
    BY <1>3, <2>1, <2>2, <2>7, <2>10
  <2> QED BY <2>8, <2>9, <2>10
<1> HIDE DEF p, q, J, k
<1>11. \A u \in Sorties : Under(J[u]) => e.trucks[u.truck] = Status(J[u])
  <2> TAKE u \in Sorties
  <2> HAVE Under(J[u])
  <2>1. CASE u = s
    BY <1>1, <1>8, <2>1 DEF k, q
  <2>2. CASE u # s
    <3>1. u.truck \in Trucks \ {k} /\ J[u] = K[u]
      BY <1>1, <1>5, <2>2, SortieTruck
    <3> QED BY <1>8, <3>1 DEF TrucksPlaced
  <2> QED BY <2>1, <2>2
<1>12. ASSUME NEW x \in Trucks, \A u \in Sorties : u.truck = x => ~Under(J[u])
       PROVE  e.trucks[x] = "AVAILABLE"
  <2>1. x # k
    BY <1>4, <1>12 DEF k
  <2>2. \A u \in Sorties : u.truck = x => ~Under(K[u])
    BY <1>1, <1>12, <2>1 DEF k
  <2> QED BY <1>8, <2>1, <2>2 DEF TrucksPlaced
<1>13. Follows(e)
  <2> SUFFICES ASSUME NEW x \in Trucks, NEW y \in Sql!QueueStates \ {"RETURNING"}
               PROVE  e.queue[x][y] = IF e.trucks[x] = y THEN 1 ELSE 0
    BY DEF Follows
  <2>1. CASE x = k
    BY <1>8, <1>10, <2>1
  <2>2. CASE x # k
    BY <1>8, <1>9, <2>2 DEF TrucksPlaced, Follows
  <2> QED BY <2>1, <2>2
<1> QED BY <1>11, <1>12, <1>13 DEF TrucksPlaced, J

\* A truck that arrives was available and gets its only row.
LEMMA ArrivalPlaces ==
    ASSUME NEW K \in PacedProgress, NEW s \in Sorties, K[s] = 1,
           Bumped(K, s) \in PacedProgress,
           NEW d \in Databases, NEW e \in Databases, TrucksPlaced(K, d),
           e.trucks = [d.trucks EXCEPT ![s.truck] = "QUEUED"],
           e.queue = [d.queue EXCEPT ![s.truck]["QUEUED"] = @ + 1]
    PROVE  TrucksPlaced(Bumped(K, s), e)
<1> DEFINE J == Bumped(K, s)
           k == s.truck
           n == d.queue[k]["QUEUED"] + 1
<1>1. J[s] = 2 /\ \A u \in Sorties \ {s} : J[u] = K[u]
  BY OthersKept DEF PacedProgress
<1>2. k \in Trucks /\ "QUEUED" \in Sql!QueueStates /\ "AVAILABLE" \notin Sql!QueueStates
  BY SortieTruck DEF Sql!QueueStates
<1>4. Under(J[s]) /\ ~Under(K[s])
  BY <1>1 DEF Under
<1>5. \A u \in Sorties \ {s} : u.truck = k => ~Under(J[u])
  BY <1>4 DEF PacedProgress, Exclusive
<1>6. d.trucks \in [Trucks -> Sql!TruckStates] /\ d.queue \in [Trucks -> [Sql!QueueStates -> Nat]]
  BY DEF Databases
<1>7. d.trucks[k] = "AVAILABLE"
  <2>1. \A u \in Sorties : u.truck = k => ~Under(K[u])
    BY <1>1, <1>4, <1>5
  <2> QED BY <1>2, <2>1 DEF TrucksPlaced
<1>8. e.trucks[k] = "QUEUED" /\ \A x \in Trucks \ {k} : e.trucks[x] = d.trucks[x]
  BY <1>2, <1>6
<1>9. e.queue = [d.queue EXCEPT ![k]["QUEUED"] = n]
  OBVIOUS
<1>10. /\ \A x \in Trucks \ {k} : e.queue[x] = d.queue[x]
       /\ e.queue[k] = [d.queue[k] EXCEPT !["QUEUED"] = n]
  <2> HIDE DEF n
  <2> QED BY <1>2, <1>6, <1>9
<1>11. ASSUME NEW x \in Sql!QueueStates \ {"RETURNING"}
       PROVE  e.queue[k][x] = IF x = "QUEUED" THEN 1 ELSE 0
  <2>1. \A y \in Sql!QueueStates \ {"RETURNING"} : d.queue[k][y] = 0
    BY <1>2, <1>7 DEF TrucksPlaced, Follows
  <2>2. n = 1
    BY <1>2, <2>1
  <2>3. d.queue[k] \in [Sql!QueueStates -> Nat]
    BY <1>2, <1>6
  <2> HIDE DEF n
  <2> QED BY <1>10, <2>1, <2>2, <2>3
<1> HIDE DEF J, k
<1>12. \A u \in Sorties : Under(J[u]) => e.trucks[u.truck] = Status(J[u])
  <2> TAKE u \in Sorties
  <2> HAVE Under(J[u])
  <2>1. CASE u = s
    BY <1>1, <1>8, <2>1, Statuses DEF k
  <2>2. CASE u # s
    <3>1. u.truck \in Trucks \ {k} /\ J[u] = K[u]
      BY <1>1, <1>5, <2>2, SortieTruck
    <3> QED BY <1>8, <3>1 DEF TrucksPlaced
  <2> QED BY <2>1, <2>2
<1>13. ASSUME NEW x \in Trucks, \A u \in Sorties : u.truck = x => ~Under(J[u])
       PROVE  e.trucks[x] = "AVAILABLE"
  <2>1. x # k
    BY <1>4, <1>13 DEF k
  <2>2. \A u \in Sorties : u.truck = x => ~Under(K[u])
    BY <1>1, <1>13, <2>1 DEF k
  <2> QED BY <1>8, <2>1, <2>2 DEF TrucksPlaced
<1>14. Follows(e)
  <2> SUFFICES ASSUME NEW x \in Trucks, NEW y \in Sql!QueueStates \ {"RETURNING"}
               PROVE  e.queue[x][y] = IF e.trucks[x] = y THEN 1 ELSE 0
    BY DEF Follows
  <2>1. CASE x = k
    BY <1>8, <1>11, <2>1
  <2>2. CASE x # k
    BY <1>8, <1>10, <2>2 DEF TrucksPlaced, Follows
  <2> QED BY <2>1, <2>2
<1> QED BY <1>12, <1>13, <1>14 DEF TrucksPlaced, J

\* A truck that returns leaves no open row.
LEMMA ReturnPlaces ==
    ASSUME NEW K \in PacedProgress, NEW s \in Sorties, K[s] = 5,
           Bumped(K, s) \in PacedProgress,
           NEW d \in Databases, NEW e \in Databases, TrucksPlaced(K, d),
           e.trucks[s.truck] = "AVAILABLE",
           \A x \in Trucks \ {s.truck} : e.trucks[x] = d.trucks[x],
           e.queue = QueueAdvanced(d.queue, s.truck, "DISPENSING", "RETURNING")
    PROVE  TrucksPlaced(Bumped(K, s), e)
<1> DEFINE J == Bumped(K, s)
           k == s.truck
<1>1. J[s] = 0 /\ \A u \in Sorties \ {s} : J[u] = K[u]
  BY OthersKept DEF PacedProgress
<1>2. k \in Trucks
  BY SortieTruck
<1>4. Under(K[s]) /\ ~Under(J[s])
  BY <1>1 DEF Under
<1>5. \A u \in Sorties \ {s} : u.truck = k => ~Under(K[u])
  BY <1>4 DEF PacedProgress, Exclusive
<1>6. d.queue \in [Trucks -> [Sql!QueueStates -> Nat]]
  BY DEF Databases
<1>7. d.trucks[k] = "DISPENSING"
  BY <1>4, Statuses DEF TrucksPlaced
<1>9. \A x \in Trucks \ {k} : e.queue[x] = d.queue[x]
  BY <1>2, <1>6 DEF QueueAdvanced
<1>10. ASSUME NEW x \in Sql!QueueStates \ {"RETURNING"}
       PROVE  e.queue[k][x] = 0
  <2> DEFINE rows == d.queue[k]
             n == rows["RETURNING"] + rows["DISPENSING"]
  <2>1. rows \in [Sql!QueueStates -> Nat] /\ "DISPENSING" \in Sql!QueueStates
        /\ "RETURNING" \in Sql!QueueStates
    BY <1>2, <1>6 DEF Sql!QueueStates
  <2>2. \A y \in Sql!QueueStates \ {"RETURNING"} : y # "DISPENSING" => rows[y] = 0
    BY <1>2, <1>7 DEF TrucksPlaced, Follows
  <2>3. e.queue[k] = Sql!RowsAdvanced(rows, "DISPENSING", "RETURNING")
    BY <1>2, <1>6 DEF QueueAdvanced
  <2>4. Sql!RowsAdvanced(rows, "DISPENSING", "RETURNING")
          = [rows EXCEPT !["DISPENSING"] = 0, !["RETURNING"] = n]
    BY DEF Sql!RowsAdvanced
  <2> HIDE DEF n, rows
  <2> QED BY <2>1, <2>2, <2>3, <2>4
<1> HIDE DEF J, k
<1>11. \A u \in Sorties : Under(J[u]) => e.trucks[u.truck] = Status(J[u])
  <2> TAKE u \in Sorties
  <2> HAVE Under(J[u])
  <2>1. u # s
    BY <1>4
  <2>2. u.truck \in Trucks \ {k} /\ J[u] = K[u]
    BY <1>1, <1>5, <2>1, SortieTruck
  <2> QED BY <2>2 DEF TrucksPlaced, k
<1>12. ASSUME NEW x \in Trucks, \A u \in Sorties : u.truck = x => ~Under(J[u])
       PROVE  e.trucks[x] = "AVAILABLE"
  <2>1. CASE x = k
    BY <2>1 DEF k
  <2>2. CASE x # k
    <3>1. \A u \in Sorties : u.truck = x => ~Under(K[u])
      BY <1>1, <1>12, <2>2 DEF k
    <3> QED BY <2>2, <3>1 DEF TrucksPlaced, k
  <2> QED BY <2>1, <2>2
<1>13. Follows(e)
  <2> SUFFICES ASSUME NEW x \in Trucks, NEW y \in Sql!QueueStates \ {"RETURNING"}
               PROVE  e.queue[x][y] = IF e.trucks[x] = y THEN 1 ELSE 0
    BY DEF Follows
  <2>1. CASE x = k
    BY <1>10, <2>1 DEF k, Sql!QueueStates
  <2>2. CASE x # k
    BY <1>9, <2>2 DEF TrucksPlaced, Follows, k
  <2> QED BY <2>1, <2>2
<1> QED BY <1>11, <1>12, <1>13 DEF TrucksPlaced, J

\* Statements about other tables, and a step that leaves a truck as busy as
\* it was, change nothing here.
LEMMA SameTrucks ==
    ASSUME NEW K \in Progress, NEW J \in Progress, NEW d, NEW e,
           TrucksPlaced(K, d), e.trucks = d.trucks, e.queue = d.queue,
           \A u \in Sorties : (Under(J[u]) \/ Under(K[u])) => J[u] = K[u]
    PROVE  TrucksPlaced(J, e)
  BY DEF TrucksPlaced, Follows

\* All the statuses and events that the handlers name exist.
LEMMA StatusTypes ==
    /\ {"QUEUED", "LOADING", "ENROUTE", "DISPENSING", "RETURNING", "AVAILABLE"} \subseteq Sql!TruckStates
    /\ {"QUEUED", "LOADING", "ENROUTE", "DISPENSING", "RETURNING"} \subseteq Sql!QueueStates
    /\ {"LOAD_START", "LOAD_END"} \subseteq Sql!EventCodes
  BY DEF Sql!TruckStates, Sql!QueueStates, Sql!EventCodes

\* The batch of each handler, as a change of the tables.
LEMMA OrderBatch ==
    ASSUME NEW d \in Databases, NEW o \in Orders
    PROVE  LET e == Sql!ExecBatch(d, <<Sql!InsertOrder(o)>>)
           IN  e \in Databases /\ Placed(e) = Placed(d)
  BY ExecOne, InsertOrderEffect

\* truck_arrival sets the status and adds a row.
LEMMA ArrivalBatch ==
    ASSUME NEW d \in Databases, NEW k \in Trucks
    PROVE  LET e == Sql!ExecBatch(d, <<Sql!SetTruck(k, "QUEUED"), Sql!Enqueue(k)>>)
           IN  /\ e \in Databases
               /\ e.trucks = [d.trucks EXCEPT ![k] = "QUEUED"]
               /\ e.queue = [d.queue EXCEPT ![k]["QUEUED"] = @ + 1]
               /\ e.loaded = d.loaded
<1> DEFINE s1 == Sql!SetTruck(k, "QUEUED")
           s2 == Sql!Enqueue(k)
           d1 == Sql!Exec(d, s1)
           d2 == Sql!Exec(d1, s2)
<1>1. /\ d1 \in Databases
      /\ d1.trucks = [d.trucks EXCEPT ![k] = "QUEUED"]
      /\ d1.queue = d.queue /\ d1.loaded = d.loaded
  BY StatusTypes, SetTruckEffect
<1> HIDE DEF d1
<1>2. /\ d2 \in Databases
      /\ d2.queue = [d1.queue EXCEPT ![k]["QUEUED"] = @ + 1]
      /\ d2.trucks = d1.trucks /\ d2.loaded = d1.loaded
  BY <1>1, EnqueueEffect
<1> HIDE DEF d2, s1, s2
<1>3. Sql!ExecBatch(d, <<s1, s2>>) = d2
  BY ExecTwo DEF d1, d2
<1>4. /\ d2.queue = [d.queue EXCEPT ![k]["QUEUED"] = @ + 1]
      /\ d2.trucks = [d.trucks EXCEPT ![k] = "QUEUED"] /\ d2.loaded = d.loaded
  BY <1>1, <1>2
<1> QED BY <1>2, <1>3, <1>4 DEF s1, s2

\* A truck set to busy status q, and its row taken there from p.
LEMMA MoveBatch ==
    ASSUME NEW d \in Databases, NEW k \in Trucks, NEW p \in Sql!QueueStates,
           NEW q \in Sql!QueueStates
    PROVE  LET e == Sql!ExecBatch(d, <<Sql!SetTruck(k, q), Sql!Advance(k, p, q)>>)
           IN  /\ e \in Databases
               /\ e.trucks = [d.trucks EXCEPT ![k] = q]
               /\ e.queue = QueueAdvanced(d.queue, k, p, q)
               /\ e.loaded = d.loaded
<1> DEFINE s1 == Sql!SetTruck(k, q)
           s2 == Sql!Advance(k, p, q)
           d1 == Sql!Exec(d, s1)
           d2 == Sql!Exec(d1, s2)
<1>0. q \in Sql!TruckStates
  BY DEF Sql!TruckStates
<1>1. /\ d1 \in Databases
      /\ d1.trucks = [d.trucks EXCEPT ![k] = q]
      /\ d1.queue = d.queue /\ d1.loaded = d.loaded
  BY <1>0, SetTruckEffect
<1> HIDE DEF d1
<1>2. /\ d2 \in Databases
      /\ d2.queue = QueueAdvanced(d1.queue, k, p, q)
      /\ d2.trucks = d1.trucks /\ d2.loaded = d1.loaded
  BY <1>1, AdvanceEffect
<1> HIDE DEF d2, s1, s2
<1>3. Sql!ExecBatch(d, <<s1, s2>>) = d2
  BY ExecTwo DEF d1, d2
<1> QED BY <1>1, <1>2, <1>3 DEF s1, s2

\* The same with an event.
LEMMA MoveEventBatch ==
    ASSUME NEW d \in Databases, NEW k \in Trucks, NEW p \in Sql!QueueStates,
           NEW q \in Sql!QueueStates, NEW c \in Sql!EventCodes
    PROVE  LET e == Sql!ExecBatch(d, <<Sql!SetTruck(k, q), Sql!Advance(k, p, q), Sql!InsertEvent(c)>>)
           IN  /\ e \in Databases
               /\ e.trucks = [d.trucks EXCEPT ![k] = q]
               /\ e.queue = QueueAdvanced(d.queue, k, p, q)
               /\ e.loaded = d.loaded
<1> DEFINE s1 == Sql!SetTruck(k, q)
           s2 == Sql!Advance(k, p, q)
           s3 == Sql!InsertEvent(c)
           d2 == Sql!ExecBatch(d, <<s1, s2>>)
           d3 == Sql!Exec(d2, s3)
<1>1. /\ d2 \in Databases
      /\ d2.trucks = [d.trucks EXCEPT ![k] = q]
      /\ d2.queue = QueueAdvanced(d.queue, k, p, q) /\ d2.loaded = d.loaded
  BY MoveBatch
<1>2. d2 = Sql!Exec(Sql!Exec(d, s1), s2)
  <2> HIDE DEF s1, s2
  <2> QED BY ExecTwo
<1> HIDE DEF d2
<1>3. d3 \in Databases /\ Placed(d3) = Placed(d2)
  BY <1>1, InsertEventEffect
<1> HIDE DEF d3, s1, s2, s3
<1>4. Sql!ExecBatch(d, <<s1, s2, s3>>) = d3
  BY <1>2, ExecThree DEF d3
<1> QED BY <1>1, <1>3, <1>4 DEF s1, s2, s3, Placed

\* load_end records the load and moves the truck on.
LEMMA LoadEndBatch ==
    ASSUME NEW d \in Databases, NEW k \in Trucks, NEW t \in Tanks, NEW g \in Nat,
           NEW a \in Nat, NEW b \in Nat
    PROVE  LET e == Sql!ExecBatch(d, <<Sql!InsertLoad(k, t, g, a, b), Sql!SetTruck(k, "ENROUTE"),
                                       Sql!Advance(k, "LOADING", "ENROUTE"),
                                       Sql!InsertEvent("LOAD_END")>>)
           IN  /\ e \in Databases
               /\ e.trucks = [d.trucks EXCEPT ![k] = "ENROUTE"]
               /\ e.queue = QueueAdvanced(d.queue, k, "LOADING", "ENROUTE")
               /\ e.loaded = Raised(d.loaded, t, g)
<1> DEFINE s1 == Sql!InsertLoad(k, t, g, a, b)
           s2 == Sql!SetTruck(k, "ENROUTE")
           s3 == Sql!Advance(k, "LOADING", "ENROUTE")
           s4 == Sql!InsertEvent("LOAD_END")
           d1 == Sql!Exec(d, s1)
           d4 == Sql!ExecBatch(d1, <<s2, s3, s4>>)
<1>0. d \in Databases /\ k \in Trucks /\ t \in Tanks /\ g \in Nat /\ a \in Nat /\ b \in Nat
  OBVIOUS
<1>1. /\ d1 \in Databases
      /\ d1.loaded = Raised(d.loaded, t, g)
      /\ d1.trucks = d.trucks /\ d1.queue = d.queue
  BY <1>0, InsertLoadEffect, SMTT(60)
<1> HIDE DEF d1
<1>2. /\ d4 \in Databases
      /\ d4.trucks = [d1.trucks EXCEPT ![k] = "ENROUTE"]
      /\ d4.queue = QueueAdvanced(d1.queue, k, "LOADING", "ENROUTE")
      /\ d4.loaded = d1.loaded
  BY <1>1, StatusTypes, MoveEventBatch
<1> HIDE DEF d4, s1, s2, s3, s4
<1>3. Sql!ExecBatch(d, <<s1, s2, s3, s4>>) = d4
  <2>1. Sql!ExecBatch(d, <<s1, s2, s3, s4>>) = Sql!Exec(Sql!Exec(Sql!Exec(d1, s2), s3), s4)
    BY ExecFour DEF d1
  <2> HIDE DEF d1
  <2>2. d4 = Sql!Exec(Sql!Exec(Sql!Exec(d1, s2), s3), s4)
    BY ExecThree DEF d4
  <2> QED BY <2>1, <2>2
<1> QED BY <1>1, <1>2, <1>3 DEF s1, s2, s3, s4

\* delivery_end closes the row of the truck and makes it available.
LEMMA DeliveryEndBatch ==
    ASSUME NEW d \in Databases, NEW k \in Trucks, NEW o \in Orders
    PROVE  LET e == Sql!ExecBatch(d, <<Sql!InsertDelivery(k, o), Sql!FillOrder(o)>> \o DeliveryClosed(k))
           IN  /\ e \in Databases
               /\ e.trucks[k] = "AVAILABLE"
               /\ \A x \in Trucks \ {k} : e.trucks[x] = d.trucks[x]
               /\ e.queue = QueueAdvanced(d.queue, k, "DISPENSING", "RETURNING")
               /\ e.loaded = d.loaded
<1> DEFINE s1 == Sql!InsertDelivery(k, o)
           s2 == Sql!FillOrder(o)
           s3 == Sql!SetTruck(k, "RETURNING")
           s4 == Sql!Advance(k, "DISPENSING", "RETURNING")
           s5 == Sql!SetTruck(k, "AVAILABLE")
           d1 == Sql!Exec(d, s1)
           d2 == Sql!Exec(d1, s2)
           d4 == Sql!ExecBatch(d2, <<s3, s4>>)
           d5 == Sql!Exec(d4, s5)
<1>1. d1 \in Databases /\ Placed(d1) = Placed(d)
  BY InsertDeliveryEffect
<1> HIDE DEF d1
<1>2. d2 \in Databases /\ Placed(d2) = Placed(d1)
  BY <1>1, FillOrderEffect
<1> HIDE DEF d2
<1>3. /\ d4 \in Databases
      /\ d4.trucks = [d2.trucks EXCEPT ![k] = "RETURNING"]
      /\ d4.queue = QueueAdvanced(d2.queue, k, "DISPENSING", "RETURNING")
      /\ d4.loaded = d2.loaded
  BY <1>2, StatusTypes, MoveBatch
<1>4. d4 = Sql!Exec(Sql!Exec(d2, s3), s4)
  <2> HIDE DEF s3, s4
  <2> QED BY ExecTwo
<1> HIDE DEF d4
<1>5. /\ d5 \in Databases
      /\ d5.trucks = [d4.trucks EXCEPT ![k] = "AVAILABLE"]
      /\ d5.queue = d4.queue /\ d5.loaded = d4.loaded
  BY <1>3, StatusTypes, SetTruckEffect
<1> HIDE DEF d5
<1>6. /\ DeliveryClosed(k) = <<s3, s4, s5>>
      /\ <<s1, s2>> \in Seq({s1, s2}) /\ <<s3, s4, s5>> \in Seq({s3, s4, s5})
  BY DEF DeliveryClosed
<1> HIDE DEF s1, s2, s3, s4, s5
<1>7. <<s1, s2>> \in Seq({s1, s2, s3, s4, s5}) /\ <<s3, s4, s5>> \in Seq({s1, s2, s3, s4, s5})
  OBVIOUS
<1>8. Sql!ExecBatch(d, <<s1, s2>> \o <<s3, s4, s5>>)
        = Sql!ExecBatch(Sql!ExecBatch(d, <<s1, s2>>), <<s3, s4, s5>>)
  BY <1>7, ExecConcat
<1>9. Sql!ExecBatch(d, <<s1, s2>>) = d2
  BY ExecTwo DEF d1, d2
<1>10. Sql!ExecBatch(d2, <<s3, s4, s5>>) = d5
  BY <1>4, ExecThree DEF d5
<1>11. d2.trucks = d.trucks /\ d2.queue = d.queue /\ d2.loaded = d.loaded
  BY <1>1, <1>2 DEF Placed
<1>12. d.trucks \in [Trucks -> Sql!TruckStates]
  BY DEF Databases
<1>13. d5.trucks[k] = "AVAILABLE" /\ \A x \in Trucks \ {k} : d5.trucks[x] = d.trucks[x]
  BY <1>3, <1>5, <1>11, <1>12
<1> QED BY <1>3, <1>5, <1>6, <1>8, <1>9, <1>10, <1>11, <1>13 DEF s1, s2

\* A snapshot writes elsewhere.
LEMMA SnapshotBatch ==
    ASSUME NEW d \in Databases, level \in [Tanks -> Nat]
    PROVE  LET b == [t \in Tanks |-> Sql!InsertSnap(t, level[t])]
           IN  /\ b \in Seq(Statements)
               /\ Sql!ExecBatch(d, b) \in Databases
               /\ Placed(Sql!ExecBatch(d, b)) = Placed(d)
<1> DEFINE b == [t \in Tanks |-> Sql!InsertSnap(t, level[t])]
           snaps == {Sql!InsertSnap(t, l) : t \in Tanks, l \in Nat}
           good == {e \in Databases : Placed(e) = Placed(d)}
<1>1. NTanks \in Nat /\ b \in [1..NTanks -> snaps]
  BY PhysicsAssumption DEF Tanks
<1>2. snaps \subseteq Statements
  BY DEF Statements, Harmless
<1>3. ASSUME NEW e \in good, NEW s \in snaps PROVE Sql!Exec(e, s) \in good
  <2>1. PICK t \in Tanks, l \in Nat : s = Sql!InsertSnap(t, l)
    OBVIOUS
  <2>2. Sql!Exec(e, s) \in Databases /\ Placed(Sql!Exec(e, s)) = Placed(e)
    BY <2>1, InsertSnapEffect
  <2> QED BY <2>2
<1>4. d \in good
  OBVIOUS
<1> HIDE DEF b, snaps
<1>5. b \in Seq(snaps)
  BY <1>1
<1>6. Sql!ExecBatch(d, b) \in good
  <2>1. \A e \in good : \A s \in snaps : Sql!Exec(e, s) \in good
    BY <1>3
  <2> HIDE DEF good
  <2> QED BY <1>4, <1>5, <2>1, ExecKeeps
<1>7. b \in Seq(Statements)
  BY <1>2, <1>5
<1> QED BY <1>6, <1>7 DEF b

\* What is put on the queue is executed last.
LEMMA PutProjected ==
    ASSUME dbQueue \in Seq(Statements), NEW b \in Seq(Statements), Put(b), db' = db
    PROVE  Projected' = Sql!ExecBatch(Projected, b)
<1>1. dbQueue' = dbQueue \o b
  BY DEF Put
<1>2. Projected' = Sql!ExecBatch(db, dbQueue \o b)
  BY <1>1 DEF Projected
<1> QED BY <1>2, ExecConcat DEF Projected

\* Between other events than those of loads, loads stay where they are.
LEMMA SameLoads ==
    ASSUME NEW K \in Progress, NEW J \in Progress, NEW loads,
           LoadsPlaced(K, loads), \A u \in Sorties : (K[u] = 3) = (J[u] = 3)
    PROVE  LoadsPlaced(J, loads)
  BY DEF LoadsPlaced

\* ... and between other events than those of deliveries, deliveries.
LEMMA SameDeliveries ==
    ASSUME NEW K \in Progress, NEW J \in Progress, NEW deliveries,
           DeliveriesPlaced(K, deliveries), \A u \in Sorties : J[u] = 5 => K[u] = 5
    PROVE  DeliveriesPlaced(J, deliveries)
  BY DEF DeliveriesPlaced

\* A sortie that starts to load finds its rack free, and takes it.
LEMMA StartPlacesLoad ==
    ASSUME NEW K \in PacedProgress, NEW s \in Sorties, K[s] = 2,
           Bumped(K, s) \in PacedProgress, LoadsPlaced(K, openLoads),
           openLoads \in [Racks -> Loads \cup {NoLoad}],
           NEW l \in Loads, l.truck = s.truck
    PROVE  /\ openLoads[s.rack] = NoLoad
           /\ LoadsPlaced(Bumped(K, s), [openLoads EXCEPT ![s.rack] = l])
<1> DEFINE J == Bumped(K, s)
           r == s.rack
           after == [openLoads EXCEPT ![r] = l]
<1>1. /\ J[s] = 3 /\ \A u \in Sorties \ {s} : J[u] = K[u]
      /\ r \in Racks
  BY OthersKept, SortieTruck DEF PacedProgress
<1>2. \A u \in Sorties \ {s} : J[u] = 3 => u.rack # r
  BY <1>1 DEF PacedProgress, Exclusive
<1>3. openLoads[r] = NoLoad
  <2> SUFFICES ASSUME openLoads[r] # NoLoad PROVE FALSE
    OBVIOUS
  <2>1. PICK u \in Sorties : K[u] = 3 /\ u.rack = r
    BY <1>1 DEF LoadsPlaced
  <2>2. u # s
    BY <2>1
  <2> QED BY <1>1, <1>2, <2>1, <2>2
<1>4. after[r] = l /\ l # NoLoad /\ \A x \in Racks \ {r} : after[x] = openLoads[x]
  BY <1>1, LoadIsNotNoLoad
<1> HIDE DEF J, r, after
<1>5. \A u \in Sorties : J[u] = 3 => after[u.rack] # NoLoad
  <2> TAKE u \in Sorties
  <2> HAVE J[u] = 3
  <2>1. CASE u = s
    BY <1>4, <2>1 DEF r
  <2>2. CASE u # s
    <3>1. u.rack \in Racks \ {r} /\ K[u] = 3
      BY <1>1, <1>2, <2>2, SortieTruck
    <3> QED BY <1>4, <3>1 DEF LoadsPlaced
  <2> QED BY <2>1, <2>2
<1>6. ASSUME NEW x \in Racks, after[x] # NoLoad
      PROVE  \E u \in Sorties : J[u] = 3 /\ u.rack = x /\ u.truck = after[x].truck
  <2>1. CASE x = r
    BY <1>1, <1>4, <2>1 DEF r
  <2>2. CASE x # r
    <3>1. PICK u \in Sorties : K[u] = 3 /\ u.rack = x /\ u.truck = openLoads[x].truck
      BY <1>4, <1>6, <2>2 DEF LoadsPlaced
    <3>2. u # s
      BY <3>1
    <3> QED BY <1>1, <1>4, <2>2, <3>1, <3>2
  <2> QED BY <2>1, <2>2
<1>7. LoadsPlaced(J, after)
  BY <1>5, <1>6 DEF LoadsPlaced
<1> QED BY <1>3, <1>7 DEF J, r, after

\* A sortie that ends its load has the only one of its truck, on its rack.
LEMMA EndFindsLoad ==
    ASSUME NEW K \in PacedProgress, NEW s \in Sorties, K[s] = 3, LoadsPlaced(K, openLoads)
    PROVE  RacksOfTruck(s.truck) = {s.rack}
<1>0. s.rack \in Racks
  BY SortieTruck
<1>1. openLoads[s.rack] # NoLoad
  BY DEF LoadsPlaced
<1>2. openLoads[s.rack].truck = s.truck
  <2>1. PICK u \in Sorties : K[u] = 3 /\ u.rack = s.rack /\ u.truck = openLoads[s.rack].truck
    BY <1>0, <1>1 DEF LoadsPlaced
  <2>2. u = s
    BY <2>1 DEF PacedProgress, Exclusive
  <2> QED BY <2>1, <2>2
<1>3. ASSUME NEW r \in Racks, openLoads[r] # NoLoad, openLoads[r].truck = s.truck
      PROVE  r = s.rack
  <2>1. PICK u \in Sorties : K[u] = 3 /\ u.rack = r /\ u.truck = openLoads[r].truck
    BY <1>3 DEF LoadsPlaced
  <2>2. Under(K[u]) /\ Under(K[s])
    BY <2>1 DEF Under
  <2>3. u = s
    BY <1>3, <2>1, <2>2 DEF PacedProgress, Exclusive
  <2> QED BY <2>1, <2>3
<1> QED BY <1>0, <1>1, <1>2, <1>3 DEF RacksOfTruck

\* The end of a load frees its rack.
LEMMA EndPlacesLoad ==
    ASSUME NEW K \in PacedProgress, NEW s \in Sorties, K[s] = 3,
           Bumped(K, s) \in PacedProgress, LoadsPlaced(K, openLoads),
           openLoads \in [Racks -> Loads \cup {NoLoad}]
    PROVE  LoadsPlaced(Bumped(K, s), [openLoads EXCEPT ![s.rack] = NoLoad])
<1> DEFINE J == Bumped(K, s)
           r == s.rack
           after == [openLoads EXCEPT ![r] = NoLoad]
<1>1. /\ J[s] = 4 /\ \A u \in Sorties \ {s} : J[u] = K[u]
      /\ r \in Racks
  BY OthersKept, SortieTruck DEF PacedProgress
<1>2. \A u \in Sorties \ {s} : K[u] = 3 => u.rack # r
  BY DEF PacedProgress, Exclusive
<1>4. after[r] = NoLoad /\ \A x \in Racks \ {r} : after[x] = openLoads[x]
  BY <1>1
<1> HIDE DEF J, r, after
<1>5. \A u \in Sorties : J[u] = 3 => after[u.rack] # NoLoad
  <2> TAKE u \in Sorties
  <2> HAVE J[u] = 3
  <2>1. u # s
    BY <1>1
  <2>2. u.rack \in Racks \ {r} /\ K[u] = 3
    BY <1>1, <1>2, <2>1, SortieTruck
  <2> QED BY <1>4, <2>2 DEF LoadsPlaced
<1>6. ASSUME NEW x \in Racks, after[x] # NoLoad
      PROVE  \E u \in Sorties : J[u] = 3 /\ u.rack = x /\ u.truck = after[x].truck
  <2>1. x # r
    BY <1>4, <1>6
  <2>2. PICK u \in Sorties : K[u] = 3 /\ u.rack = x /\ u.truck = openLoads[x].truck
    BY <1>4, <1>6, <2>1 DEF LoadsPlaced
  <2>3. u # s
    BY <2>1, <2>2 DEF r
  <2> QED BY <1>1, <1>4, <2>1, <2>2, <2>3
<1>7. LoadsPlaced(J, after)
  BY <1>5, <1>6 DEF LoadsPlaced
<1> QED BY <1>7 DEF J, r, after

\* The event that EventOf(s, n) names and the sortie it names.
LEMMA EventOfIs ==
    ASSUME NEW s \in Sorties, NEW n \in 1..6
    PROVE  /\ EventOf(s, n).event = Script[n]
           /\ EventOf(s, n).truck = s.truck /\ EventOf(s, n).rack = s.rack
           /\ EventOf(s, n).order = s.order /\ EventOf(s, n).tank = s.tank
           /\ EventOf(s, n).preset = s.preset
           /\ EventOf(s, n) \in SortieEvents
<1>1. n \in 1..Len(Script)
  BY ScriptLength
<1>2. EventOf(s, n) \in SortieEvents
  BY <1>1 DEF SortieEvents
<1> QED BY <1>2 DEF EventOf

\* Which handler an event reaches.
LEMMA HandlerOf ==
    ASSUME NEW s \in Sorties, NEW n \in 1..6, ApplyEvent(EventOf(s, n))
    PROVE  /\ n = 1 => OnOrderCreated(EventOf(s, n))
           /\ n = 2 => OnTruckArrival(EventOf(s, n))
           /\ n = 3 => OnLoadStart(EventOf(s, n))
           /\ n = 4 => OnLoadEnd(EventOf(s, n))
           /\ n = 5 => OnDeliveryStart(EventOf(s, n))
           /\ n = 6 => OnDeliveryEnd(EventOf(s, n))
<1> DEFINE e == EventOf(s, n)
<1>1. e.event = Script[n] /\ ApplyEvent(e)
  BY EventOfIs
<1> HIDE DEF e
<1>2. /\ n = 1 => e.event = "order_created"
      /\ n = 2 => e.event = "truck_arrival"
      /\ n = 3 => e.event = "load_start"
      /\ n = 4 => e.event = "load_end"
      /\ n = 5 => e.event = "delivery_start"
      /\ n = 6 => e.event = "delivery_end"
  BY <1>1 DEF Script
<1>3. /\ e.event = "order_created" => OnOrderCreated(e)
      /\ e.event = "truck_arrival" => OnTruckArrival(e)
      /\ e.event = "load_start" => OnLoadStart(e)
      /\ e.event = "load_end" => OnLoadEnd(e)
      /\ e.event = "delivery_start" => OnDeliveryStart(e)
      /\ e.event = "delivery_end" => OnDeliveryEnd(e)
  BY <1>1 DEF ApplyEvent
<1>4. /\ n = 1 => OnOrderCreated(e)
      /\ n = 2 => OnTruckArrival(e)
      /\ n = 3 => OnLoadStart(e)
      /\ n = 4 => OnLoadEnd(e)
      /\ n = 5 => OnDeliveryStart(e)
      /\ n = 6 => OnDeliveryEnd(e)
  BY <1>2, <1>3
<1> QED BY <1>4 DEF e

\* What the handlers queue are statements.
LEMMA StatementTypes ==
    /\ \A o \in Orders : Sql!InsertOrder(o) \in Statements /\ Sql!FillOrder(o) \in Statements
    /\ \A k \in Trucks :
          /\ Sql!Enqueue(k) \in Statements
          /\ \A q \in Sql!TruckStates : Sql!SetTruck(k, q) \in Statements
          /\ \A p \in Sql!QueueStates : \A q \in Sql!QueueStates :
                Sql!Advance(k, p, q) \in Statements
          /\ \A o \in Orders : Sql!InsertDelivery(k, o) \in Statements
          /\ \A t \in Tanks : \A g \in Nat : \A a \in Nat : \A b \in Nat :
                Sql!InsertLoad(k, t, g, a, b) \in Statements
    /\ \A c \in Sql!EventCodes : Sql!InsertEvent(c) \in Statements
<1>1. /\ \A o \in Orders : Sql!InsertOrder(o) \in Statements /\ Sql!FillOrder(o) \in Statements
      /\ \A c \in Sql!EventCodes : Sql!InsertEvent(c) \in Statements
  BY DEF Statements, Harmless, Sql!EventCodes
<1>2. ASSUME NEW k \in Trucks
      PROVE  /\ Sql!Enqueue(k) \in Statements
             /\ \A q \in Sql!TruckStates : Sql!SetTruck(k, q) \in Statements
             /\ \A p \in Sql!QueueStates : \A q \in Sql!QueueStates :
                   Sql!Advance(k, p, q) \in Statements
             /\ \A o \in Orders : Sql!InsertDelivery(k, o) \in Statements
  BY DEF Statements, Harmless
<1>3. ASSUME NEW k \in Trucks, NEW t \in Tanks, NEW g \in Nat, NEW a \in Nat, NEW b \in Nat
      PROVE  Sql!InsertLoad(k, t, g, a, b) \in Statements
  BY DEF Statements
<1> QED BY <1>1, <1>2, <1>3

\* order_created touches no truck.
LEMMA OrderPlaces ==
    ASSUME dbQueue \in Seq(Statements), db' = db,
           NEW K \in PacedProgress, NEW s \in Sorties, K[s] = 0, Bumped(K, s) \in PacedProgress,
           OnOrderCreated(EventOf(s, 1)), Placing(K, Projected, openLoads, openDeliveries)
    PROVE  /\ Placing(Bumped(K, s), Projected', openLoads', openDeliveries')
           /\ Projected'.loaded = Projected.loaded
<1> DEFINE J == Bumped(K, s)
           b == <<Sql!InsertOrder(s.order)>>
<1>1. s.order \in Orders /\ EventOf(s, 1).order = s.order
  BY SortieAssumption, EventOfIs
<1>2. J[s] = 1 /\ \A u \in Sorties \ {s} : J[u] = K[u]
  BY OthersKept DEF PacedProgress
<1>3. openLoads' = openLoads /\ openDeliveries' = openDeliveries /\ Put(b)
  BY <1>1 DEF OnOrderCreated, plantSide
<1>4. b \in Seq(Statements)
  BY <1>1, StatementTypes
<1>5. Projected' = Sql!ExecBatch(Projected, b)
  <2> HIDE DEF b
  <2> QED BY <1>3, <1>4, PutProjected
<1>6. Projected' \in Databases /\ Placed(Projected') = Placed(Projected)
  BY <1>1, <1>5, OrderBatch DEF Placing
<1> HIDE DEF J, b
<1>7. \A u \in Sorties : (Under(J[u]) \/ Under(K[u])) => J[u] = K[u]
  BY <1>2 DEF Under
<1>8. TrucksPlaced(J, Projected')
  BY <1>6, <1>7, SameTrucks DEF Placing, Placed, PacedProgress, J
<1>9. LoadsPlaced(J, openLoads) /\ DeliveriesPlaced(J, openDeliveries)
  <2>1. K \in Progress /\ J \in Progress
    BY DEF PacedProgress, J
  <2>2. \A u \in Sorties : (K[u] = 3) = (J[u] = 3) /\ (J[u] = 5 => K[u] = 5)
    BY <1>2
  <2> QED BY <2>1, <2>2, SameLoads, SameDeliveries DEF Placing
<1> QED BY <1>3, <1>6, <1>8, <1>9 DEF Placing, Placed, J

\* truck_arrival queues an available truck.
LEMMA ArrivalOfPlaces ==
    ASSUME dbQueue \in Seq(Statements), db' = db,
           NEW K \in PacedProgress, NEW s \in Sorties, K[s] = 1, Bumped(K, s) \in PacedProgress,
           OnTruckArrival(EventOf(s, 2)), Placing(K, Projected, openLoads, openDeliveries)
    PROVE  /\ Placing(Bumped(K, s), Projected', openLoads', openDeliveries')
           /\ Projected'.loaded = Projected.loaded
<1> DEFINE J == Bumped(K, s)
           k == s.truck
           b == <<Sql!SetTruck(k, "QUEUED"), Sql!Enqueue(k)>>
<1>1. k \in Trucks /\ EventOf(s, 2).truck = k
  BY SortieTruck, EventOfIs
<1>2. J[s] = 2 /\ \A u \in Sorties \ {s} : J[u] = K[u]
  BY OthersKept DEF PacedProgress
<1>3. openLoads' = openLoads /\ openDeliveries' = openDeliveries /\ Put(b)
  BY <1>1 DEF OnTruckArrival, plantSide
<1>4. b \in Seq(Statements)
  <2>1. Sql!SetTruck(k, "QUEUED") \in Statements /\ Sql!Enqueue(k) \in Statements
    BY <1>1, StatementTypes, StatusTypes
  <2> QED BY <2>1
<1>5. Projected' = Sql!ExecBatch(Projected, b)
  <2> HIDE DEF b
  <2> QED BY <1>3, <1>4, PutProjected
<1>6. /\ Projected' \in Databases
      /\ Projected'.trucks = [Projected.trucks EXCEPT ![k] = "QUEUED"]
      /\ Projected'.queue = [Projected.queue EXCEPT ![k]["QUEUED"] = @ + 1]
      /\ Projected'.loaded = Projected.loaded
  <2> DEFINE d == Projected
  <2>1. d \in Databases
    BY DEF Placing
  <2> HIDE DEF d, k
  <2>2. LET e == Sql!ExecBatch(d, b)
        IN  /\ e \in Databases
            /\ e.trucks = [d.trucks EXCEPT ![k] = "QUEUED"]
            /\ e.queue = [d.queue EXCEPT ![k]["QUEUED"] = @ + 1]
            /\ e.loaded = d.loaded
    BY <1>1, <2>1, ArrivalBatch
  <2> HIDE DEF b
  <2> QED BY <1>5, <2>2 DEF d
<1>7. TrucksPlaced(J, Projected')
  BY <1>6, ArrivalPlaces DEF Placing
<1>8. LoadsPlaced(J, openLoads) /\ DeliveriesPlaced(J, openDeliveries)
  <2>1. K \in Progress /\ J \in Progress
    BY DEF PacedProgress
  <2>2. \A u \in Sorties : (K[u] = 3) = (J[u] = 3) /\ (J[u] = 5 => K[u] = 5)
    BY <1>2
  <2> HIDE DEF J
  <2> QED BY <2>1, <2>2, SameLoads, SameDeliveries DEF Placing
<1> QED BY <1>3, <1>6, <1>7, <1>8 DEF Placing

\* load_start takes a queued truck to its free rack.
LEMMA StartOfPlaces ==
    ASSUME SmTypeOK, dbQueue \in Seq(Statements), db' = db,
           NEW K \in PacedProgress, NEW s \in Sorties, K[s] = 2, Bumped(K, s) \in PacedProgress,
           OnLoadStart(EventOf(s, 3)), Placing(K, Projected, openLoads, openDeliveries)
    PROVE  /\ Placing(Bumped(K, s), Projected', openLoads', openDeliveries')
           /\ Projected'.loaded = Projected.loaded
           /\ openLoads[s.rack] = NoLoad
<1> DEFINE J == Bumped(K, s)
           k == s.truck
           b == <<Sql!SetTruck(k, "LOADING"), Sql!Advance(k, "QUEUED", "LOADING"),
                  Sql!InsertEvent("LOAD_START")>>
           l == [truck |-> k, tank |-> s.tank, preset |-> s.preset,
                 meterStart |-> totalizer[s.rack]]
<1>1. /\ k \in Trucks /\ EventOf(s, 3).truck = k /\ EventOf(s, 3).rack = s.rack
      /\ EventOf(s, 3).tank = s.tank /\ EventOf(s, 3).preset = s.preset
      /\ s.rack \in Racks /\ s.tank \in Tanks /\ s.preset \in Nat
  BY SortieAssumption, EventOfIs
<1>2. J[s] = 3 /\ \A u \in Sorties \ {s} : J[u] = K[u]
  BY OthersKept DEF PacedProgress
<1>3. openLoads' = [openLoads EXCEPT ![s.rack] = l] /\ openDeliveries' = openDeliveries /\ Put(b)
  BY <1>1 DEF OnLoadStart
<1>4. b \in Seq(Statements)
  <2>1. /\ Sql!SetTruck(k, "LOADING") \in Statements
        /\ Sql!Advance(k, "QUEUED", "LOADING") \in Statements
        /\ Sql!InsertEvent("LOAD_START") \in Statements
    BY <1>1, StatementTypes, StatusTypes
  <2> QED BY <2>1
<1>5. Projected' = Sql!ExecBatch(Projected, b)
  <2> HIDE DEF b
  <2> QED BY <1>3, <1>4, PutProjected
<1>6. /\ Projected' \in Databases
      /\ Projected'.trucks = [Projected.trucks EXCEPT ![k] = "LOADING"]
      /\ Projected'.queue = QueueAdvanced(Projected.queue, k, "QUEUED", "LOADING")
      /\ Projected'.loaded = Projected.loaded
  BY <1>1, <1>5, StatusTypes, MoveEventBatch DEF Placing
<1>7. TrucksPlaced(J, Projected')
  <2>1. K[s] + 1 = 3 /\ K[s] \in 2..4
    OBVIOUS
  <2> HIDE DEF J
  <2> QED BY <1>6, <2>1, Statuses, MovePlaces DEF Placing, J
<1>8. l \in Loads /\ l.truck = s.truck
  BY <1>1 DEF Loads, SmTypeOK, PhysTypeOK
<1>9. openLoads[s.rack] = NoLoad /\ LoadsPlaced(J, openLoads')
  <2> HIDE DEF l
  <2> QED BY <1>3, <1>8, StartPlacesLoad DEF Placing, SmTypeOK
<1>10. DeliveriesPlaced(J, openDeliveries)
  <2>1. K \in Progress /\ J \in Progress
    BY DEF PacedProgress
  <2>2. \A u \in Sorties : J[u] = 5 => K[u] = 5
    BY <1>2
  <2> HIDE DEF J
  <2> QED BY <2>1, <2>2, SameDeliveries DEF Placing
<1> QED BY <1>3, <1>6, <1>7, <1>9, <1>10 DEF Placing

\* load_end finds the load of its truck and records it.
LEMMA EndOfPlaces ==
    ASSUME SmTypeOK, dbQueue \in Seq(Statements), db' = db,
           NEW K \in PacedProgress, NEW s \in Sorties, K[s] = 3, Bumped(K, s) \in PacedProgress,
           OnLoadEnd(EventOf(s, 4)), Placing(K, Projected, openLoads, openDeliveries)
    PROVE  /\ Placing(Bumped(K, s), Projected', openLoads', openDeliveries')
           /\ openLoads[s.rack] \in Loads
           /\ Projected'.loaded
                = Raised(Projected.loaded, openLoads[s.rack].tank, dispensed[s.rack])
           /\ openLoads' = [openLoads EXCEPT ![s.rack] = NoLoad]
           /\ dispensed' = [dispensed EXCEPT ![s.rack] = 0]
           /\ level' = level
<1> DEFINE J == Bumped(K, s)
           k == s.truck
           r == s.rack
           t == openLoads[r].tank
           m == openLoads[r].meterStart
           b == <<Sql!InsertLoad(k, t, dispensed[r], m, totalizer[r]),
                  Sql!SetTruck(k, "ENROUTE"), Sql!Advance(k, "LOADING", "ENROUTE"),
                  Sql!InsertEvent("LOAD_END")>>
<1>1. k \in Trucks /\ EventOf(s, 4).truck = k /\ r \in Racks
  BY SortieTruck, EventOfIs
<1>2. J[s] = 4 /\ \A u \in Sorties \ {s} : J[u] = K[u]
  BY OthersKept DEF PacedProgress
<1>3. RacksOfTruck(k) = {r}
  BY EndFindsLoad DEF Placing
<1>4. /\ openLoads' = [openLoads EXCEPT ![r] = NoLoad]
      /\ dispensed' = [dispensed EXCEPT ![r] = 0]
      /\ openDeliveries' = openDeliveries /\ level' = level
      /\ Put(b)
  BY <1>1, <1>3 DEF OnLoadEnd, LoadRecord
<1>5. openLoads[r] \in Loads
  <2>1. openLoads[r] \in Loads \cup {NoLoad}
    BY <1>1 DEF SmTypeOK
  <2>2. r \in RacksOfTruck(k)
    BY <1>3
  <2> HIDE DEF r, k
  <2> QED BY <2>1, <2>2 DEF RacksOfTruck
<1>6. t \in Tanks /\ m \in Nat /\ dispensed[r] \in Nat /\ totalizer[r] \in Nat
  BY <1>1, <1>5, PhysicsAssumption DEF Loads, SmTypeOK, PhysTypeOK
<1>7. b \in Seq(Statements)
  <2> HIDE DEF k, t, m, r
  <2>1. /\ Sql!InsertLoad(k, t, dispensed[r], m, totalizer[r]) \in Statements
        /\ Sql!SetTruck(k, "ENROUTE") \in Statements
        /\ Sql!Advance(k, "LOADING", "ENROUTE") \in Statements
        /\ Sql!InsertEvent("LOAD_END") \in Statements
    BY <1>1, <1>6, StatementTypes, StatusTypes
  <2> QED BY <2>1
<1>8. Projected' = Sql!ExecBatch(Projected, b)
  <2> HIDE DEF b
  <2> QED BY <1>4, <1>7, PutProjected
<1>9. /\ Projected' \in Databases
      /\ Projected'.trucks = [Projected.trucks EXCEPT ![k] = "ENROUTE"]
      /\ Projected'.queue = QueueAdvanced(Projected.queue, k, "LOADING", "ENROUTE")
      /\ Projected'.loaded = Raised(Projected.loaded, t, dispensed[r])
  <2> DEFINE d == Projected
             g == dispensed[r]
             n == totalizer[r]
  <2>1. /\ d \in Databases /\ k \in Trucks /\ t \in Tanks
        /\ g \in Nat /\ m \in Nat /\ n \in Nat
    BY <1>1, <1>6 DEF Placing
  <2>2. Projected' = Sql!ExecBatch(d, <<Sql!InsertLoad(k, t, g, m, n), Sql!SetTruck(k, "ENROUTE"),
                                     Sql!Advance(k, "LOADING", "ENROUTE"),
                                     Sql!InsertEvent("LOAD_END")>>)
    BY <1>8
  <2> HIDE DEF k, t, m, r, g, n, d, b
  <2>3. LET e == Sql!ExecBatch(d, <<Sql!InsertLoad(k, t, g, m, n), Sql!SetTruck(k, "ENROUTE"),
                                    Sql!Advance(k, "LOADING", "ENROUTE"),
                                    Sql!InsertEvent("LOAD_END")>>)
        IN  /\ e \in Databases
            /\ e.trucks = [d.trucks EXCEPT ![k] = "ENROUTE"]
            /\ e.queue = QueueAdvanced(d.queue, k, "LOADING", "ENROUTE")
            /\ e.loaded = Raised(d.loaded, t, g)
    BY <2>1, SMTT(60), LoadEndBatch
  <2> QED BY <2>2, <2>3 DEF d, g
<1>10. TrucksPlaced(J, Projected')
  <2>1. K[s] + 1 = 4 /\ K[s] \in 2..4
    OBVIOUS
  <2> HIDE DEF J
  <2> QED BY <1>9, <2>1, Statuses, MovePlaces DEF Placing, J
<1>11. LoadsPlaced(J, openLoads')
  BY <1>4, EndPlacesLoad DEF Placing, SmTypeOK
<1>12. DeliveriesPlaced(J, openDeliveries)
  <2>1. K \in Progress /\ J \in Progress
    BY DEF PacedProgress
  <2>2. \A u \in Sorties : J[u] = 5 => K[u] = 5
    BY <1>2
  <2> HIDE DEF J
  <2> QED BY <2>1, <2>2, SameDeliveries DEF Placing
<1> QED BY <1>4, <1>5, <1>9, <1>10, <1>11, <1>12 DEF Placing

\* delivery_start opens a delivery for a truck on its way.
LEMMA DeliveryStartPlaces ==
    ASSUME SmTypeOK, dbQueue \in Seq(Statements), db' = db,
           NEW K \in PacedProgress, NEW s \in Sorties, K[s] = 4, Bumped(K, s) \in PacedProgress,
           OnDeliveryStart(EventOf(s, 5)), Placing(K, Projected, openLoads, openDeliveries)
    PROVE  /\ Placing(Bumped(K, s), Projected', openLoads', openDeliveries')
           /\ Projected'.loaded = Projected.loaded
<1> DEFINE J == Bumped(K, s)
           k == s.truck
           b == <<Sql!SetTruck(k, "DISPENSING"), Sql!Advance(k, "ENROUTE", "DISPENSING")>>
<1>1. /\ k \in Trucks /\ EventOf(s, 5).truck = k /\ EventOf(s, 5).order = s.order
      /\ s.order \in Orders
  BY SortieAssumption, EventOfIs
<1>2. J[s] = 5 /\ \A u \in Sorties \ {s} : J[u] = K[u]
  BY OthersKept DEF PacedProgress
<1>3. /\ openLoads' = openLoads
      /\ openDeliveries' = [openDeliveries EXCEPT ![k] = s.order]
      /\ Put(b)
  BY <1>1 DEF OnDeliveryStart, plantSide
<1>4. b \in Seq(Statements)
  <2>1. /\ Sql!SetTruck(k, "DISPENSING") \in Statements
        /\ Sql!Advance(k, "ENROUTE", "DISPENSING") \in Statements
    BY <1>1, StatementTypes, StatusTypes
  <2> QED BY <2>1
<1>5. Projected' = Sql!ExecBatch(Projected, b)
  <2> HIDE DEF b
  <2> QED BY <1>3, <1>4, PutProjected
<1>6. /\ Projected' \in Databases
      /\ Projected'.trucks = [Projected.trucks EXCEPT ![k] = "DISPENSING"]
      /\ Projected'.queue = QueueAdvanced(Projected.queue, k, "ENROUTE", "DISPENSING")
      /\ Projected'.loaded = Projected.loaded
  BY <1>1, <1>5, StatusTypes, MoveBatch DEF Placing
<1>7. TrucksPlaced(J, Projected')
  <2>1. K[s] + 1 = 5 /\ K[s] \in 2..4
    OBVIOUS
  <2> HIDE DEF J
  <2> QED BY <1>6, <2>1, Statuses, MovePlaces DEF Placing, J
<1>8. LoadsPlaced(J, openLoads)
  <2>1. K \in Progress /\ J \in Progress
    BY DEF PacedProgress
  <2>2. \A u \in Sorties : (K[u] = 3) = (J[u] = 3)
    BY <1>2
  <2> HIDE DEF J
  <2> QED BY <2>1, <2>2, SameLoads DEF Placing
<1>9. DeliveriesPlaced(J, openDeliveries')
  <2> SUFFICES ASSUME NEW u \in Sorties, J[u] = 5 PROVE openDeliveries'[u.truck] # NoOrder
    BY DEF DeliveriesPlaced
  <2>1. openDeliveries \in [Trucks -> Orders \cup {NoOrder}] /\ s.order # NoOrder
    BY <1>1, FleetAssumption DEF SmTypeOK
  <2>2. CASE u.truck = k
    BY <1>1, <1>3, <2>1, <2>2
  <2>3. CASE u.truck # k
    <3>1. K[u] = 5
      BY <1>2, <2>3
    <3> QED BY <1>1, <1>3, <2>1, <2>3, <3>1, SortieTruck DEF Placing, DeliveriesPlaced
  <2> QED BY <2>2, <2>3
<1> QED BY <1>3, <1>6, <1>7, <1>8, <1>9 DEF Placing

\* delivery_end finds the delivery of its truck and closes its row.
LEMMA DeliveryEndPlaces ==
    ASSUME SmTypeOK, dbQueue \in Seq(Statements), db' = db,
           NEW K \in PacedProgress, NEW s \in Sorties, K[s] = 5, Bumped(K, s) \in PacedProgress,
           OnDeliveryEnd(EventOf(s, 6)), Placing(K, Projected, openLoads, openDeliveries)
    PROVE  /\ Placing(Bumped(K, s), Projected', openLoads', openDeliveries')
           /\ Projected'.loaded = Projected.loaded
<1> DEFINE J == Bumped(K, s)
           k == s.truck
           o == openDeliveries[k]
           b == <<Sql!InsertDelivery(k, o), Sql!FillOrder(o)>> \o DeliveryClosed(k)
<1>1. k \in Trucks /\ EventOf(s, 6).truck = k
  BY SortieTruck, EventOfIs
<1>2. J[s] = 0 /\ \A u \in Sorties \ {s} : J[u] = K[u]
  BY OthersKept DEF PacedProgress
<1>3. o # NoOrder /\ o \in Orders
  <2>1. o # NoOrder
    BY DEF Placing, DeliveriesPlaced
  <2> QED BY <1>1, <2>1 DEF SmTypeOK
<1>4. /\ openLoads' = openLoads
      /\ openDeliveries' = [openDeliveries EXCEPT ![k] = NoOrder]
      /\ Put(b)
  BY <1>1, <1>3 DEF OnDeliveryEnd, plantSide
<1>5. b \in Seq(Statements)
  <2> HIDE DEF k, o
  <2>1. /\ Sql!InsertDelivery(k, o) \in Statements /\ Sql!FillOrder(o) \in Statements
        /\ Sql!SetTruck(k, "RETURNING") \in Statements
        /\ Sql!Advance(k, "DISPENSING", "RETURNING") \in Statements
        /\ Sql!SetTruck(k, "AVAILABLE") \in Statements
    BY <1>1, <1>3, StatementTypes, StatusTypes
  <2>2. <<Sql!InsertDelivery(k, o), Sql!FillOrder(o)>> \in Seq(Statements)
    BY <2>1
  <2>3. DeliveryClosed(k) \in Seq(Statements)
    BY <2>1 DEF DeliveryClosed
  <2> QED BY <2>2, <2>3
<1>6. Projected' = Sql!ExecBatch(Projected, b)
  <2> HIDE DEF b
  <2> QED BY <1>4, <1>5, PutProjected
<1>7. /\ Projected' \in Databases
      /\ Projected'.trucks[k] = "AVAILABLE"
      /\ \A x \in Trucks \ {k} : Projected'.trucks[x] = Projected.trucks[x]
      /\ Projected'.queue = QueueAdvanced(Projected.queue, k, "DISPENSING", "RETURNING")
      /\ Projected'.loaded = Projected.loaded
  <2> HIDE DEF k, o
  <2> QED BY <1>1, <1>3, <1>6, DeliveryEndBatch DEF Placing
<1>8. TrucksPlaced(J, Projected')
  BY <1>7, ReturnPlaces DEF Placing
<1>9. LoadsPlaced(J, openLoads)
  <2>1. K \in Progress /\ J \in Progress
    BY DEF PacedProgress
  <2>2. \A u \in Sorties : (K[u] = 3) = (J[u] = 3)
    BY <1>2
  <2> HIDE DEF J
  <2> QED BY <2>1, <2>2, SameLoads DEF Placing
<1>10. DeliveriesPlaced(J, openDeliveries')
  <2> SUFFICES ASSUME NEW u \in Sorties, J[u] = 5 PROVE openDeliveries'[u.truck] # NoOrder
    BY DEF DeliveriesPlaced
  <2>1. u # s /\ K[u] = 5
    BY <1>2
  <2>2. u.truck # k
    <3>1. Under(K[u]) /\ Under(K[s])
      BY <2>1 DEF Under
    <3> QED BY <2>1, <3>1 DEF PacedProgress, Exclusive
  <2>3. openDeliveries \in [Trucks -> Orders \cup {NoOrder}]
    BY DEF SmTypeOK
  <2> QED BY <1>1, <1>4, <2>1, <2>2, <2>3, SortieTruck DEF Placing, DeliveriesPlaced
<1> QED BY <1>4, <1>7, <1>8, <1>9, <1>10 DEF Placing

\* The event of each stage, in terms of what it does to loads and batches.
LoadsKept == openLoads' = openLoads /\ dispensed' = dispensed /\ Projected'.loaded = Projected.loaded

\* A load opens on a free rack, with nothing on its batch counter.
LoadOpened ==
    \E r \in Racks :
        /\ openLoads[r] = NoLoad
        /\ \A x \in Racks \ {r} : openLoads'[x] = openLoads[x] /\ dispensed'[x] = dispensed[x]
        /\ dispensed'[r] = 0
        /\ Projected'.loaded = Projected.loaded

\* A load closes and what its batch counter shows is queued for the table.
LoadClosed ==
    \E r \in Racks :
        /\ openLoads[r] \in Loads
        /\ openLoads' = [openLoads EXCEPT ![r] = NoLoad]
        /\ dispensed' = [dispensed EXCEPT ![r] = 0]
        /\ Projected'.loaded = Raised(Projected.loaded, openLoads[r].tank, dispensed[r])

\* Whatever event comes next, its handler takes tables and memory along.
LEMMA DispatchPlaces ==
    ASSUME SmTypeOK, dbQueue \in Seq(Statements), db' = db,
           NEW K \in PacedProgress, NEW J \in PacedProgress, NEW e,
           Moves(K, e, J), ApplyEvent(e),
           Placing(K, Projected, openLoads, openDeliveries)
    PROVE  /\ Placing(J, Projected', openLoads', openDeliveries')
           /\ LoadsKept \/ LoadOpened \/ LoadClosed
<1>1. PICK s \in Sorties : e = EventOf(s, K[s] + 1) /\ J = Bumped(K, s)
  BY DEF Moves
<1>2. K[s] \in 0..5
  BY DEF PacedProgress, Progress
<1>3. Bumped(K, s) \in PacedProgress /\ ApplyEvent(EventOf(s, K[s] + 1))
  BY <1>1
<1>4. s.truck \in Trucks /\ s.rack \in Racks
  BY SortieTruck
<1>5. CASE K[s] = 0
  <2>1. OnOrderCreated(EventOf(s, 1))
    BY <1>3, <1>5, HandlerOf
  <2>2. Placing(J, Projected', openLoads', openDeliveries') /\ Projected'.loaded = Projected.loaded
    BY <1>1, <1>3, <1>5, <2>1, OrderPlaces
  <2>3. openLoads' = openLoads /\ dispensed' = dispensed
    BY <2>1 DEF OnOrderCreated, plantSide, physVars, plant
  <2> QED BY <2>2, <2>3 DEF LoadsKept
<1>6. CASE K[s] = 1
  <2>1. OnTruckArrival(EventOf(s, 2))
    BY <1>3, <1>6, HandlerOf
  <2>2. Placing(J, Projected', openLoads', openDeliveries') /\ Projected'.loaded = Projected.loaded
    BY <1>1, <1>3, <1>6, <2>1, ArrivalOfPlaces
  <2>3. openLoads' = openLoads /\ dispensed' = dispensed
    BY <2>1 DEF OnTruckArrival, plantSide, physVars, plant
  <2> QED BY <2>2, <2>3 DEF LoadsKept
<1>7. CASE K[s] = 2
  <2>1. OnLoadStart(EventOf(s, 3))
    BY <1>3, <1>7, HandlerOf
  <2>2. /\ Placing(J, Projected', openLoads', openDeliveries')
        /\ Projected'.loaded = Projected.loaded
        /\ openLoads[s.rack] = NoLoad
    BY <1>1, <1>3, <1>7, <2>1, StartOfPlaces
  <2>3. EventOf(s, 3).rack = s.rack
    BY EventOfIs
  <2>4. /\ dispensed' = [dispensed EXCEPT ![s.rack] = 0]
        /\ openLoads \in [Racks -> Loads \cup {NoLoad}] /\ dispensed \in [Racks -> Nat]
    BY <2>1, <2>3 DEF OnLoadStart, BatchReset, SmTypeOK, PhysTypeOK
  <2>5. \A x \in Racks \ {s.rack} : openLoads'[x] = openLoads[x]
    BY <2>1, <2>3, <2>4 DEF OnLoadStart
  <2>6. dispensed'[s.rack] = 0 /\ \A x \in Racks \ {s.rack} : dispensed'[x] = dispensed[x]
    BY <1>4, <2>4
  <2> QED BY <1>4, <2>2, <2>5, <2>6 DEF LoadOpened
<1>8. CASE K[s] = 3
  <2>1. OnLoadEnd(EventOf(s, 4))
    BY <1>3, <1>8, HandlerOf
  <2>2. /\ Placing(J, Projected', openLoads', openDeliveries')
        /\ openLoads[s.rack] \in Loads
        /\ Projected'.loaded
             = Raised(Projected.loaded, openLoads[s.rack].tank, dispensed[s.rack])
        /\ openLoads' = [openLoads EXCEPT ![s.rack] = NoLoad]
        /\ dispensed' = [dispensed EXCEPT ![s.rack] = 0]
    BY <1>1, <1>3, <1>8, <2>1, EndOfPlaces
  <2> QED BY <1>4, <2>2 DEF LoadClosed
<1>9. CASE K[s] = 4
  <2>1. OnDeliveryStart(EventOf(s, 5))
    BY <1>3, <1>9, HandlerOf
  <2>2. Placing(J, Projected', openLoads', openDeliveries') /\ Projected'.loaded = Projected.loaded
    BY <1>1, <1>3, <1>9, <2>1, DeliveryStartPlaces
  <2>3. openLoads' = openLoads /\ dispensed' = dispensed
    BY <2>1 DEF OnDeliveryStart, plantSide, physVars, plant
  <2> QED BY <2>2, <2>3 DEF LoadsKept
<1>10. CASE K[s] = 5
  <2>1. OnDeliveryEnd(EventOf(s, 6))
    BY <1>3, <1>10, HandlerOf
  <2>2. Placing(J, Projected', openLoads', openDeliveries') /\ Projected'.loaded = Projected.loaded
    BY <1>1, <1>3, <1>10, <2>1, DeliveryEndPlaces
  <2>3. openLoads' = openLoads /\ dispensed' = dispensed
    BY <2>1 DEF OnDeliveryEnd, plantSide, physVars, plant
  <2> QED BY <2>2, <2>3 DEF LoadsKept
<1> QED BY <1>2, <1>5, <1>6, <1>7, <1>8, <1>9, <1>10

-----------------------------------------------------------------------------
(* Tables, memory and timeline together *)

\* A way ends in paced progress.
LEMMA LeadsEnd ==
    ASSUME NEW K, NEW L, NEW S, NEW q \in Seq(S), Leads(K, q, L)
    PROVE  L \in PacedProgress
<1>1. PICK p \in [0..Len(q) -> PacedProgress] : p[Len(q)] = L
  BY DEF Leads
<1>2. Len(q) \in 0..Len(q)
  OBVIOUS
<1> QED BY <1>1, <1>2

\* Before the first event every truck is available.
LEMMA InitPlaced == Init => PlacedInv
<1> SUFFICES ASSUME Init PROVE PlacedInv
  OBVIOUS
<1> DEFINE Z == [s \in Sorties |-> 0]
<1>1. Z \in PacedProgress
  BY DEF PacedProgress, Progress, Exclusive, Under
<1>2. Replayed = Z /\ eventQueue = <<>>
  BY DEF Init, Replayed
<1>3. Leads(Z, eventQueue, Replayed)
  <2> HIDE DEF Z
  <2> QED BY <1>1, <1>2, LeadsEmpty
<1>4. Projected = db
  <2>1. dbQueue = <<>>
    BY DEF Init
  <2> QED BY <2>1, ExecEmpty DEF Projected
<1>5. db = Sql!EmptyDb /\ db \in Databases
  BY EmptyDbGood DEF Init, GoodDbs
<1>6. /\ \A k \in Trucks : db.trucks[k] = "AVAILABLE"
      /\ \A k \in Trucks : \A q \in Sql!QueueStates : db.queue[k][q] = 0
  BY <1>5 DEF Sql!EmptyDb
<1>7. Follows(db)
  BY <1>6 DEF Follows, Sql!QueueStates
<1>8. TrucksPlaced(Z, db)
  BY <1>6, <1>7 DEF TrucksPlaced, Under
<1>9. LoadsPlaced(Z, openLoads) /\ DeliveriesPlaced(Z, openDeliveries)
  BY DEF Init, SmInit, LoadsPlaced, DeliveriesPlaced
<1>10. Placing(Z, Projected, openLoads, openDeliveries)
  BY <1>4, <1>5, <1>8, <1>9 DEF Placing
<1> HIDE DEF Z
<1> QED BY <1>1, <1>3, <1>7, <1>10 DEF PlacedInv

\* What a step that touches neither tables nor memory keeps.
LEMMA PlacedKept ==
    ASSUME PlacedInv,
           UNCHANGED <<restarts, failures, db, dbQueue, eventQueue, openLoads, openDeliveries>>,
           Replayed' = Replayed
    PROVE  PlacedInv'
<1>1. Projected' = Projected /\ Undisturbed' = Undisturbed
  BY DEF Projected, Undisturbed
<1> QED BY <1>1 DEF PlacedInv

\* Every step keeps progress, tables and memory together.
LEMMA NextPlaced ==
    ASSUME Paced, TypeInv, Bounds, TablesInv, PlacedInv, [Next]_vars
    PROVE  PlacedInv'
<1>0. /\ SmTypeOK /\ eventQueue \in Seq(SortieEvents) /\ stage \in [Sorties -> 0..6]
      /\ dbQueue \in Seq(Statements)
      /\ restarts \in Nat /\ failures \in Nat
  BY ScriptLength DEF TypeInv, TablesInv, SafeBatches, Bounds
<1>1. CASE \E s \in Sorties : ReplayEvent(s)
  <2>1. PICK s \in Sorties : ReplayEvent(s)
    BY <1>1
  <2> DEFINE e == EventOf(s, stage[s] + 1)
  <2>2. /\ UNCHANGED <<restarts, failures, db, dbQueue, openLoads, openDeliveries>>
        /\ eventQueue' = Append(eventQueue, e)
        /\ stage[s] + 1 \in 1..Len(Script)
    BY <1>0, <2>1, ScriptLength DEF ReplayEvent, smVars, dbVars, mishaps
  <2>3. e \in SortieEvents
    BY <2>2 DEF SortieEvents
  <2> SUFFICES ASSUME Undisturbed' PROVE PlacedInv'
    BY DEF PlacedInv
  <2>4. Undisturbed
    BY <2>2 DEF Undisturbed
  <2>5. Follows(db)
    BY <2>4 DEF PlacedInv
  <2>6. PICK K \in PacedProgress :
          /\ Leads(K, eventQueue, Replayed)
          /\ Placing(K, Projected, openLoads, openDeliveries)
    BY <2>4 DEF PlacedInv
  <2>7. Replayed \in PacedProgress
    BY <1>0, <2>6, LeadsEnd
  <2>8. Replayed' \in PacedProgress /\ Moves(Replayed, e, Replayed')
    BY <1>0, <2>1, <2>7, ReplayPaced
  <2> HIDE DEF e
  <2>9. Leads(K, eventQueue', Replayed')
    BY <1>0, <2>2, <2>3, <2>6, <2>8, LeadsAppend
  <2>10. Projected' = Projected
    BY <2>2 DEF Projected
  <2> QED BY <2>2, <2>5, <2>6, <2>9, <2>10 DEF PlacedInv
<1>2. CASE ReplayWraps
  <2>1. Replayed' = Replayed
    BY <1>0, <1>2, ScriptLength DEF ReplayWraps, Replayed
  <2> QED BY <1>2, <2>1, PlacedKept DEF ReplayWraps, smVars, dbVars, mishaps
<1>3. CASE Dispatch
  <2>1. /\ UNCHANGED <<restarts, failures, db, stage>>
        /\ eventQueue # <<>> /\ eventQueue' = Tail(eventQueue)
        /\ ApplyEvent(Head(eventQueue))
    BY <1>3 DEF Dispatch, replayVars, mishaps
  <2> SUFFICES ASSUME Undisturbed' PROVE PlacedInv'
    BY DEF PlacedInv
  <2>2. Undisturbed /\ Replayed' = Replayed
    BY <2>1 DEF Undisturbed, Replayed
  <2>3. Follows(db)
    BY <2>2 DEF PlacedInv
  <2>4. PICK K \in PacedProgress :
          /\ Leads(K, eventQueue, Replayed)
          /\ Placing(K, Projected, openLoads, openDeliveries)
    BY <2>2 DEF PlacedInv
  <2>5. PICK J \in PacedProgress :
          Moves(K, Head(eventQueue), J) /\ Leads(J, Tail(eventQueue), Replayed)
    BY <1>0, <2>1, <2>4, LeadsTail
  <2>6. Placing(J, Projected', openLoads', openDeliveries')
    BY <1>0, <2>1, <2>4, <2>5, DispatchPlaces
  <2>7. Leads(J, eventQueue', Replayed')
    BY <2>1, <2>2, <2>5
  <2> QED BY <2>1, <2>3, <2>6, <2>7 DEF PlacedInv
<1>4. CASE TakeSnapshot
  <2> DEFINE b == [t \in Tanks |-> Sql!InsertSnap(t, level[t])]
  <2>1. /\ UNCHANGED <<restarts, failures, db, stage, eventQueue, openLoads, openDeliveries>>
        /\ Put(b)
    BY <1>4 DEF TakeSnapshot, Snapshot, plantSide, replayVars, mishaps
  <2> SUFFICES ASSUME Undisturbed' PROVE PlacedInv'
    BY DEF PlacedInv
  <2>2. Undisturbed /\ Replayed' = Replayed
    BY <2>1 DEF Undisturbed, Replayed
  <2>3. Follows(db)
    BY <2>2 DEF PlacedInv
  <2>4. PICK K \in PacedProgress :
          /\ Leads(K, eventQueue, Replayed)
          /\ Placing(K, Projected, openLoads, openDeliveries)
    BY <2>2 DEF PlacedInv
  <2>5. Projected \in Databases /\ level \in [Tanks -> Nat]
    BY <1>0, <2>4 DEF Placing, SmTypeOK, PhysTypeOK
  <2>6. /\ b \in Seq(Statements)
        /\ Sql!ExecBatch(Projected, b) \in Databases
        /\ Placed(Sql!ExecBatch(Projected, b)) = Placed(Projected)
    BY <2>5, SnapshotBatch
  <2> HIDE DEF b
  <2>7. Projected' = Sql!ExecBatch(Projected, b)
    BY <1>0, <2>1, <2>6, PutProjected
  <2>8. Projected' \in Databases /\ Placed(Projected') = Placed(Projected)
    BY <2>6, <2>7
  <2>9. TrucksPlaced(K, Projected')
    BY <2>4, <2>8, SameTrucks DEF Placing, Placed, PacedProgress
  <2>10. Placing(K, Projected', openLoads', openDeliveries')
    BY <2>1, <2>4, <2>8, <2>9 DEF Placing
  <2> QED BY <2>1, <2>2, <2>3, <2>4, <2>10 DEF PlacedInv
<1>5. CASE FlushSucceeds
  <2>1. /\ UNCHANGED <<restarts, failures, stage, eventQueue, openLoads, openDeliveries>>
        /\ db' = Projected /\ dbQueue' = <<>>
    BY <1>5 DEF FlushSucceeds, FlushCommits, FlushCommitsUnseen, Projected, smVars, replayVars, mishaps
  <2>2. Projected' = db' /\ Undisturbed' = Undisturbed /\ Replayed' = Replayed
    BY <2>1, ExecEmpty DEF Projected, Undisturbed, Replayed
  <2> SUFFICES ASSUME Undisturbed' PROVE PlacedInv'
    BY DEF PlacedInv
  <2>3. PICK K \in PacedProgress :
          /\ Leads(K, eventQueue, Replayed)
          /\ Placing(K, Projected, openLoads, openDeliveries)
    BY <2>2 DEF PlacedInv
  <2>4. Follows(db')
    BY <2>1, <2>3 DEF Placing, TrucksPlaced
  <2> QED BY <2>1, <2>2, <2>3, <2>4 DEF PlacedInv
<1>6. CASE FlushRefused \/ Restart
  <2>1. ~Undisturbed'
    BY <1>0, <1>6 DEF FlushRefused, Restart, Undisturbed
  <2> QED BY <2>1 DEF PlacedInv
<1>7. CASE PhysicsTick \/ Shutdown \/ UNCHANGED vars
  <2>1. /\ UNCHANGED <<restarts, failures, db, dbQueue, eventQueue, openLoads, openDeliveries>>
        /\ Replayed' = Replayed
    BY <1>7 DEF PhysicsTick, Shutdown, vars, smVars, dbVars, replayVars, mishaps, Replayed
  <2> QED BY <2>1, PlacedKept
<1> QED
  BY <1>1, <1>2, <1>3, <1>4, <1>5, <1>6, <1>7 DEF Next, Replay

\* So they are together throughout.
LEMMA PlacedInvariant ==
    ASSUME Paced
    PROVE  Spec => []PlacedInv
<1>1. Init => PlacedInv
  BY InitPlaced
<1>2. TypeInv /\ Bounds /\ TablesInv /\ PlacedInv /\ [Next]_vars => PlacedInv'
  BY NextPlaced
<1> QED BY <1>1, <1>2, TypesAndBounds, TablesInvariant, PTL DEF Spec

\* With a paced timeline and no mishap, at every commit each busy truck has
\* its one open row and no other truck has any.
THEOREM QueueFollowsCorrect ==
    ASSUME Paced
    PROVE  Spec => []QueueFollowsTruck
<1>1. PlacedInv => QueueFollowsTruck
  BY DEF PlacedInv, Follows, QueueFollowsTruck
<1> QED BY <1>1, PlacedInvariant, PTL

-----------------------------------------------------------------------------
(* Fuel from tank to table *)

\* Open loads have taken gallons.
LEMMA LoadingType ==
    ASSUME NEW t, NEW loads, NEW counts \in [Racks -> Nat]
    PROVE  /\ Loading(t, loads, counts) \in [Racks -> Nat]
           /\ Total(Loading(t, loads, counts)) \in Nat
<1>1. Loading(t, loads, counts) \in [Racks -> Nat]
  BY DEF Loading
<1> QED BY <1>1, RacksFinite, TotalType

\* A step moves what leaves a tank to the loads that are open from it.
LEMMA TickFuel ==
    ASSUME SmTypeOK, RegistersMirrorOpenLoads, SwitchCoversStep, Tick, NEW t \in Tanks
    PROVE  level[t] - level'[t] = Total(Loading(t, openLoads, dispensed'))
                                    - Total(Loading(t, openLoads, dispensed))
<1> DEFINE before == Loading(t, openLoads, dispensed)
           after == Loading(t, openLoads, dispensed')
           p == [r \in Racks |-> IF r \in DrawnBy(t) THEN FlowPerTick ELSE 0]
<1>1. /\ dispensed \in [Racks -> Nat] /\ dispensed' \in [Racks -> Nat]
      /\ FlowPerTick \in Nat /\ level \in [Tanks -> Nat]
  BY PhysicsAssumption DEF Tick, SmTypeOK, PhysTypeOK
<1>2. before \in [Racks -> Nat] /\ after \in [Racks -> Nat] /\ p \in [Racks -> Nat]
      /\ Total(before) \in Nat /\ Total(after) \in Nat
  BY <1>1, LoadingType
<1>3. ASSUME NEW r \in Racks PROVE after[r] = before[r] + p[r]
  <2>1. dispensed'[r] = dispensed[r] + (IF PumpRuns(r) THEN FlowPerTick ELSE 0)
    BY DEF Tick
  <2>2. CASE PumpRuns(r)
    <3>1. openLoads[r] # NoLoad /\ openLoads[r].tank = SourceTank(r)
      BY <2>2, PumpServesLoad
    <3>2. r \in DrawnBy(t) <=> openLoads[r].tank = t
      BY <2>2, <3>1 DEF DrawnBy
    <3>3. CASE openLoads[r].tank = t
      BY <1>1, <2>1, <2>2, <3>1, <3>2, <3>3 DEF Loading
    <3>4. CASE openLoads[r].tank # t
      BY <1>1, <3>2, <3>4 DEF Loading
    <3> QED BY <3>3, <3>4
  <2>3. CASE ~PumpRuns(r)
    <3>1. r \notin DrawnBy(t) /\ dispensed'[r] = dispensed[r]
      BY <1>1, <2>1, <2>3 DEF DrawnBy
    <3> QED BY <1>1, <3>1 DEF Loading
  <2> QED BY <2>2, <2>3
<1>4. Total(p) = FlowPerTick * Cardinality(DrawnBy(t))
  <2>1. DrawnBy(t) \in SUBSET Racks
    BY DEF DrawnBy
  <2>2. \A r \in Racks : p[r] = IF r \in DrawnBy(t) THEN FlowPerTick ELSE 0
    OBVIOUS
  <2> HIDE DEF p
  <2> QED BY <1>1, <1>2, <2>1, <2>2, RacksFinite, TotalOfSet
<1> HIDE DEF before, after, p
<1>5. Total(after) = Total(before) + Total(p)
  BY <1>2, <1>3, RacksFinite, TotalPlus
<1>6. level'[t] \in Nat /\ level[t] = level'[t] + Total(p)
  BY <1>1, <1>4, TankDrains
<1>7. Total(p) \in Nat
  BY <1>2, RacksFinite, TotalType
<1>8. level[t] - level'[t] = Total(after) - Total(before)
  BY <1>2, <1>5, <1>6, <1>7
<1> QED BY <1>8 DEF before, after

\* A load that opens has taken nothing.
LEMMA OpenedFuel ==
    ASSUME SmTypeOK, LoadOpened, NEW t \in Tanks
    PROVE  Loading(t, openLoads', dispensed') = Loading(t, openLoads, dispensed)
<1>1. PICK r \in Racks :
        /\ openLoads[r] = NoLoad
        /\ \A x \in Racks \ {r} : openLoads'[x] = openLoads[x] /\ dispensed'[x] = dispensed[x]
        /\ dispensed'[r] = 0
  BY DEF LoadOpened
<1> DEFINE value(x, l, c) == IF l # NoLoad /\ l.tank = t THEN c ELSE 0
<1>2. ASSUME NEW x \in Racks
      PROVE  value(x, openLoads'[x], dispensed'[x]) = value(x, openLoads[x], dispensed[x])
  BY <1>1
<1> QED BY <1>2 DEF Loading

\* A load that closes is recorded with what it has taken.
LEMMA ClosedFuel ==
    ASSUME SmTypeOK, LoadClosed, Projected \in Databases, NEW t \in Tanks
    PROVE  Projected'.loaded[t] + Total(Loading(t, openLoads', dispensed'))
             = Projected.loaded[t] + Total(Loading(t, openLoads, dispensed))
<1>1. PICK r \in Racks :
        /\ openLoads[r] \in Loads
        /\ openLoads' = [openLoads EXCEPT ![r] = NoLoad]
        /\ dispensed' = [dispensed EXCEPT ![r] = 0]
        /\ Projected'.loaded = Raised(Projected.loaded, openLoads[r].tank, dispensed[r])
  BY DEF LoadClosed
<1> DEFINE u == openLoads[r].tank
           g == dispensed[r]
           before == Loading(t, openLoads, dispensed)
           after == Loading(t, openLoads', dispensed')
<1>2. /\ u \in Tanks /\ g \in Nat /\ openLoads[r] # NoLoad
      /\ dispensed \in [Racks -> Nat] /\ dispensed' \in [Racks -> Nat]
  BY <1>1, LoadIsNotNoLoad DEF SmTypeOK, PhysTypeOK
<1>3. /\ openLoads'[r] = NoLoad /\ dispensed'[r] = 0
      /\ \A x \in Racks \ {r} : openLoads'[x] = openLoads[x] /\ dispensed'[x] = dispensed[x]
  BY <1>1 DEF SmTypeOK, PhysTypeOK
<1>4. /\ before \in [Racks -> Nat] /\ after \in [Racks -> Nat]
      /\ Total(before) \in Nat /\ Total(after) \in Nat
  BY <1>2, LoadingType
<1>5. \A x \in Racks \ {r} : after[x] = before[x]
  BY <1>3 DEF Loading
<1>6. after[r] = 0 /\ before[r] = IF u = t THEN g ELSE 0
  BY <1>2, <1>3 DEF Loading
<1>7. Projected.loaded \in [Tanks -> Nat]
  BY DEF Databases
<1>8. Projected'.loaded[t] = IF u = t THEN Projected.loaded[t] + g ELSE Projected.loaded[t]
  <2> HIDE DEF u, g
  <2>1. Projected'.loaded = [Projected.loaded EXCEPT ![u] = @ + g]
    BY <1>1 DEF Raised, u, g
  <2> QED BY <1>2, <1>7, <2>1
<1> HIDE DEF u, g, before, after
<1>9. CASE u = t
  <2>1. before = Raised(after, r, g)
    <3>1. Raised(after, r, g) = [x \in Racks |-> IF x = r THEN after[x] + g ELSE after[x]]
      BY <1>4 DEF Raised
    <3>2. \A x \in Racks : before[x] = IF x = r THEN after[x] + g ELSE after[x]
      BY <1>2, <1>4, <1>5, <1>6, <1>9
    <3> QED BY <1>4, <3>1, <3>2
  <2>2. Total(before) = Total(after) + g
    BY <1>2, <1>4, <2>1, RacksFinite, TotalRaised
  <2>3. Projected'.loaded[t] + Total(after) = Projected.loaded[t] + Total(before)
    BY <1>2, <1>4, <1>7, <1>8, <1>9, <2>2
  <2> QED BY <2>3 DEF before, after
<1>10. CASE u # t
  <2>1. before = after
    BY <1>4, <1>5, <1>6, <1>10
  <2>2. Projected'.loaded[t] + Total(after) = Projected.loaded[t] + Total(before)
    BY <1>8, <1>10, <2>1
  <2> QED BY <2>2 DEF before, after
<1> QED BY <1>9, <1>10

\* A load total of nothing.
LEMMA NothingLoading ==
    ASSUME NEW t, NEW counts, \A r \in Racks : openLoads[r] = NoLoad
    PROVE  Total(Loading(t, openLoads, counts)) = 0
<1> DEFINE f == Loading(t, openLoads, counts)
<1>1. f = [r \in Racks |-> 0]
  BY DEF Loading
<1>2. f \in [Racks -> Nat] /\ 0 \in Nat /\ \A r \in Racks : f[r] = 0 * f[r]
  BY <1>1
<1> HIDE DEF f
<1>3. Total(f) \in Nat /\ Total(f) = 0 * Total(f)
  BY <1>2, RacksFinite, TotalType, TotalTimes
<1>4. Total(f) = 0
  BY <1>3
<1> QED BY <1>4 DEF f

\* Nothing has left a tank before the first step.
LEMMA InitFuel == Init => FuelInv
<1> SUFFICES ASSUME Init, NEW t \in Tanks
             PROVE  InitLevel[t] - level[t]
                      = Projected.loaded[t] + Total(Loading(t, openLoads, dispensed))
  BY DEF FuelInv, FuelPlaced
<1>1. Projected = Sql!EmptyDb
  BY ExecEmpty DEF Init, Projected
<1>2. Projected.loaded[t] = 0
  BY <1>1 DEF Sql!EmptyDb
<1>3. Total(Loading(t, openLoads, dispensed)) = 0
  BY NothingLoading DEF Init, SmInit
<1>4. InitLevel[t] - level[t] = 0
  BY PhysicsAssumption DEF Init, PhysInit
<1> QED BY <1>2, <1>3, <1>4

\* No step loses fuel between tank, counter, queue and table.
LEMMA NextFuel ==
    ASSUME SwitchCoversStep, TypeInv, Bounds, TablesInv, RegistersMirrorOpenLoads,
           PlacedInv, FuelInv, [Next]_vars
    PROVE  FuelInv'
<1> SUFFICES ASSUME Undisturbed', NEW t \in Tanks
             PROVE  InitLevel[t] - level'[t]
                      = Projected'.loaded[t] + Total(Loading(t, openLoads', dispensed'))
  BY DEF FuelInv, FuelPlaced, Loading
<1>0. /\ SmTypeOK /\ eventQueue \in Seq(SortieEvents) /\ dbQueue \in Seq(Statements)
      /\ restarts \in Nat /\ failures \in Nat
  BY DEF TypeInv, TablesInv, SafeBatches, Bounds
<1>1. ~Restart /\ ~FlushRefused
  BY <1>0 DEF FlushRefused, Restart, Undisturbed
<1>2. Undisturbed
  <2>1. restarts' = restarts /\ failures' = failures
    BY <1>1 DEF Next, Replay, ReplayEvent, ReplayWraps, Dispatch, PhysicsTick, TakeSnapshot,
                FlushSucceeds, Shutdown, vars, mishaps
  <2> QED BY <2>1 DEF Undisturbed
<1>3. /\ InitLevel[t] - level[t]
           = Projected.loaded[t] + Total(Loading(t, openLoads, dispensed))
      /\ Projected \in Databases
  BY <1>2 DEF FuelInv, FuelPlaced, PlacedInv, Placing
<1>4. /\ InitLevel[t] \in Nat /\ level[t] \in Nat /\ Projected.loaded[t] \in Nat
      /\ Total(Loading(t, openLoads, dispensed)) \in Nat
  BY <1>0, <1>3, PhysicsAssumption, LoadingType DEF SmTypeOK, PhysTypeOK, Databases
<1>5. CASE Dispatch
  <2>1. PICK K \in PacedProgress :
          /\ Leads(K, eventQueue, Replayed)
          /\ Placing(K, Projected, openLoads, openDeliveries)
    BY <1>2 DEF PlacedInv
  <2>2. /\ eventQueue # <<>> /\ ApplyEvent(Head(eventQueue)) /\ db' = db
    BY <1>5 DEF Dispatch
  <2>3. PICK J \in PacedProgress :
          Moves(K, Head(eventQueue), J) /\ Leads(J, Tail(eventQueue), Replayed)
    BY <1>0, <2>1, <2>2, LeadsTail
  <2>4. LoadsKept \/ LoadOpened \/ LoadClosed
    BY <1>0, <2>1, <2>2, <2>3, DispatchPlaces
  <2>5. level' = level
    BY <2>2 DEF ApplyEvent, OnOrderCreated, OnTruckArrival, OnLoadStart, OnLoadEnd,
                OnDeliveryStart, OnDeliveryEnd, plantSide, physVars, plant
  <2>6. CASE LoadsKept
    BY <1>3, <2>5, <2>6 DEF LoadsKept
  <2>7. CASE LoadOpened
    <3>1. Projected'.loaded = Projected.loaded
      BY <2>7 DEF LoadOpened
    <3> QED BY <1>0, <1>3, <2>5, <2>7, <3>1, OpenedFuel
  <2>8. CASE LoadClosed
    BY <1>0, <1>3, <2>5, <2>8, ClosedFuel
  <2> QED BY <2>4, <2>6, <2>7, <2>8
<1>6. CASE PhysicsTick
  <2>1. Tick /\ openLoads' = openLoads /\ Projected' = Projected
    BY <1>6 DEF PhysicsTick, smVars, dbVars, Projected
  <2>2. level[t] - level'[t] = Total(Loading(t, openLoads, dispensed'))
                                 - Total(Loading(t, openLoads, dispensed))
    BY <1>0, <2>1, TickFuel
  <2>3. level'[t] \in Nat /\ dispensed' \in [Racks -> Nat]
    <3>1. PhysTypeOK'
      BY <1>0, <2>1, TickTypeOK DEF SmTypeOK
    <3> QED BY <3>1 DEF PhysTypeOK
  <2>4. Total(Loading(t, openLoads, dispensed')) \in Nat
    BY <2>3, LoadingType
  <2> QED BY <1>3, <1>4, <2>1, <2>2, <2>3, <2>4
<1>7. CASE TakeSnapshot
  <2> DEFINE b == [s \in Tanks |-> Sql!InsertSnap(s, level[s])]
  <2>1. /\ UNCHANGED <<db, level, openLoads, dispensed>> /\ Put(b)
    BY <1>7 DEF TakeSnapshot, Snapshot, plantSide, physVars, plant
  <2>2. level \in [Tanks -> Nat]
    BY <1>0 DEF SmTypeOK, PhysTypeOK
  <2>3. b \in Seq(Statements) /\ Placed(Sql!ExecBatch(Projected, b)) = Placed(Projected)
    BY <1>3, <2>2, SnapshotBatch
  <2> HIDE DEF b
  <2>4. Projected' = Sql!ExecBatch(Projected, b)
    BY <1>0, <2>1, <2>3, PutProjected
  <2>5. Projected'.loaded = Projected.loaded
    BY <2>3, <2>4 DEF Placed
  <2> QED BY <1>3, <2>1, <2>5
<1>8. CASE FlushSucceeds
  <2>1. /\ UNCHANGED <<level, openLoads, dispensed>> /\ db' = Projected /\ dbQueue' = <<>>
    BY <1>8 DEF FlushSucceeds, FlushCommits, FlushCommitsUnseen, Projected, smVars, physVars, plant
  <2>2. Projected' = Projected
    BY <2>1, ExecEmpty DEF Projected
  <2> QED BY <1>3, <2>1, <2>2
<1>9. CASE Replay \/ Shutdown \/ UNCHANGED vars
  <2>1. UNCHANGED <<level, openLoads, dispensed, db, dbQueue>>
    BY <1>9 DEF Replay, ReplayEvent, ReplayWraps, Shutdown, DriveESD, RequestReset, vars,
                smVars, dbVars, physVars, plant
  <2>2. Projected' = Projected
    BY <2>1 DEF Projected
  <2> QED BY <1>3, <2>1, <2>2
<1> QED
  BY <1>1, <1>5, <1>6, <1>7, <1>8, <1>9 DEF Next

\* With a paced timeline and no mishap, what has left a tank is what the load
\* table sums up, whenever no load is open and all statements are committed:
\* no step of a pump is lost between the physics and the records.
THEOREM DrawdownCorrect ==
    ASSUME Paced, SwitchCoversStep
    PROVE  Spec => []DrawdownIsRecorded
<1>1. Init => FuelInv
  BY InitFuel
<1>2. TypeInv /\ Bounds /\ TablesInv /\ RegistersMirrorOpenLoads /\ PlacedInv /\ FuelInv
        /\ [Next]_vars => FuelInv'
  BY NextFuel
<1>3. TablesInv /\ FuelInv /\ PlacedInv => DrawdownIsRecorded
  <2> SUFFICES ASSUME TablesInv, FuelInv, PlacedInv, Undisturbed, dbQueue = <<>>,
                      \A r \in Racks : openLoads[r] = NoLoad, NEW t \in Tanks
               PROVE  InitLevel[t] - level[t] = db.loaded[t]
    BY DEF DrawdownIsRecorded
  <2>1. Projected = db
    BY ExecEmpty DEF Projected
  <2>2. Total(Loading(t, openLoads, dispensed)) = 0
    BY NothingLoading
  <2>3. db.loaded[t] \in Nat
    BY DEF TablesInv, GoodDbs, Databases
  <2> QED BY <2>1, <2>2, <2>3 DEF FuelInv, FuelPlaced
<1> QED
  BY <1>1, <1>2, <1>3, TypesAndBounds, TablesInvariant, MirrorCorrect, PlacedInvariant, PTL
     DEF Spec

=============================================================================
