----------------------------- MODULE Deploy_proofs -----------------------------
(* Theorems about Deploy, for any inventory, any list of plays and any     *)
(* number of runs.  The invariant behind them says what a sweep that is    *)
(* under way has done so far, and whose failures limited it.               *)
EXTENDS Deploy, TLAPS

\* An attempt is under way.
Sweeping == outcome = "running" /\ play > 0
\* A run is between two attempts.
Deciding == outcome = "running" /\ play = 0

\* The loop is left at its last attempt.
AttemptInv ==
    /\ Sweeping => attempt > 0
    /\ Deciding => attempt < MaxAttempts

\* The retry file limits the second attempt for as long as it lasts, unless
\* the user selected the hosts.
ScopeInv == Sweeping =>
    scope = IF IsLimited /\ selected = Hosts THEN retryFile ELSE selected

\* A sweep without failures completed the plays before this one.
ProgressInv ==
    Sweeping /\ failed = {} =>
        \A p \in 1..Len(Targets) :
            p < play => \A h \in Targets[p] \cap scope : <<p, h>> \in ran

\* What the retry file says, up to the second attempt: what the first one
\* left in it, or what an earlier run did when the first had no failed host.
RetryInv ==
    /\ outcome = "running" /\ attempt = 0 => before = {}
    /\ Sweeping /\ attempt = 1 => before = {}
    /\ Deciding /\ attempt = 1 => before \in {retryFile, {}}
    /\ Sweeping /\ attempt = 2 /\ retryFile # {} => before \in {retryFile, {}}

\* The inductive invariant of a run.
DeployInv ==
    /\ TypeOK /\ AttemptInv /\ ScopeInv
    /\ ProgressInv /\ SuccessIsFullSweep
    /\ RetryInv

-----------------------------------------------------------------------------
(* Steps *)

\* It holds before the first run.
LEMMA InitInv == Init => DeployInv
<1> SUFFICES ASSUME Init PROVE DeployInv
  OBVIOUS
<1>1. TypeOK
  BY DeployAssumption DEF Init, TypeOK
<1> QED
  BY <1>1 DEF Init, DeployInv, AttemptInv, ScopeInv, ProgressInv, SuccessIsFullSweep,
              RetryInv, Sweeping, Deciding

\* A new run forgets what the last one left.
LEMMA StartRunInv == DeployInv /\ StartRun => DeployInv'
<1> SUFFICES ASSUME DeployInv, StartRun PROVE DeployInv'
  OBVIOUS
<1> USE DEF DeployInv, StartRun
<1>1. TypeOK'
  BY DeployAssumption DEF TypeOK
<1>2. outcome' = "running" /\ play' = 0 /\ attempt' = 0 /\ before' = {}
  OBVIOUS
<1>3. AttemptInv'
  BY <1>2, DeployAssumption DEF AttemptInv, Sweeping, Deciding
<1>4. ScopeInv' /\ ProgressInv' /\ SuccessIsFullSweep'
  BY <1>2 DEF ScopeInv, ProgressInv, SuccessIsFullSweep, Sweeping
<1>5. RetryInv'
  BY <1>2 DEF RetryInv, Sweeping, Deciding
<1> QED
  BY <1>1, <1>3, <1>4, <1>5

\* An attempt takes up the plays that failed, or all of them.
LEMMA BeginAttemptInv == DeployInv /\ BeginAttempt => DeployInv'
<1> SUFFICES ASSUME DeployInv, BeginAttempt PROVE DeployInv'
  OBVIOUS
<1> USE DEF DeployInv, BeginAttempt
<1>1. attempt \in Nat /\ attempt < MaxAttempts /\ attempt' = attempt + 1
  BY DeployAssumption DEF TypeOK, AttemptInv, Deciding
<1>2. Sweeping' /\ ~Deciding' /\ play' = 1
  BY DEF Sweeping, Deciding
<1>3. TypeOK'
  <2>1. attempt' \in 0..MaxAttempts
    BY <1>1, DeployAssumption
  <2>2. play' \in 0..Len(Targets) + 1
    BY DeployAssumption
  <2>3. {selected, retryFile} \subseteq SUBSET Hosts
    BY DeployAssumption DEF TypeOK
  <2>4. scope' \in SUBSET Hosts
    BY <2>3
  <2> QED
    BY <2>1, <2>2, <2>4 DEF TypeOK
<1>4. AttemptInv'
  BY <1>1, <1>2 DEF AttemptInv
<1>5. ScopeInv'
  BY DEF ScopeInv, IsLimited, Limited
<1>6. ProgressInv'
  BY <1>2, DeployAssumption DEF ProgressInv
<1>7. SuccessIsFullSweep'
  BY DEF SuccessIsFullSweep
<1>8. RetryInv'
  BY <1>1, <1>2 DEF RetryInv, Deciding
<1> QED
  BY <1>3, <1>4, <1>5, <1>6, <1>7, <1>8

\* A play that is run is ticked off, on the list it belongs to.
LEMMA RunPlayInv == DeployInv /\ RunPlay => DeployInv'
<1> SUFFICES ASSUME DeployInv, RunPlay PROVE DeployInv'
  OBVIOUS
<1> USE DEF DeployInv
<1>1. PICK bad \in SUBSET Left(play) :
        /\ failed' = failed \cup bad
        /\ ran' = ran \cup {<<play, h>> : h \in Left(play) \ bad}
        /\ play' = IF bad # {} /\ bad = Targets[play] \cap scope
                   THEN Len(Targets) + 1 ELSE play + 1
  BY DEF RunPlay
<1>2. /\ outcome = "running" /\ play \in 1..Len(Targets)
      /\ UNCHANGED <<outcome, attempt, selected, scope, retryFile, runs, before>>
  BY DEF RunPlay
<1>3. Len(Targets) \in Nat /\ Targets[play] \subseteq Hosts
  BY <1>2, DeployAssumption
<1>4. Sweeping /\ Sweeping' /\ ~Deciding' /\ play' \in 0..Len(Targets) + 1
  BY <1>1, <1>2, <1>3 DEF Sweeping, Deciding
<1>5. TypeOK'
  <2>1. Left(play) \subseteq Hosts
    BY <1>3 DEF Left
  <2>2. ran' \subseteq (1..Len(Targets)) \X Hosts
    BY <1>1, <1>2, <2>1 DEF TypeOK
  <2> QED
    BY <1>1, <1>2, <1>4, <2>1, <2>2 DEF TypeOK
<1>6. AttemptInv' /\ ScopeInv' /\ RetryInv'
  BY <1>2, <1>4 DEF AttemptInv, ScopeInv, RetryInv, IsLimited, Limited, Deciding, Sweeping
<1>7. ProgressInv'
  <2> SUFFICES ASSUME failed' = {},
                      NEW p \in 1..Len(Targets), p < play',
                      NEW h \in Targets[p] \cap scope
               PROVE  <<p, h>> \in ran'
    BY <1>2 DEF ProgressInv
  <2>1. failed = {} /\ bad = {} /\ play' = play + 1
    BY <1>1
  <2>2. CASE p < play
    BY <1>1, <1>4, <2>1, <2>2 DEF ProgressInv
  <2>3. CASE p = play
    BY <1>1, <2>1, <2>3 DEF Left
  <2> QED
    BY <1>2, <1>3, <2>1, <2>2, <2>3
<1>8. SuccessIsFullSweep'
  BY <1>2 DEF SuccessIsFullSweep
<1> QED
  BY <1>5, <1>6, <1>7, <1>8

\* What both ends of a sweep do to the loop.
LEMMA DecideInv ==
    ASSUME DeployInv, Sweeping, play' = 0, UNCHANGED <<attempt, selected, scope, failed, ran, runs>>,
           NEW clean \in BOOLEAN, NEW file \in SUBSET Hosts, Decide(clean, file),
           before' \in SUBSET Hosts,
           ~clean /\ attempt = 1 => before' \in {file, {}},
           clean => failed = {} /\ play > Len(Targets)
    PROVE  DeployInv'
<1> USE DEF DeployInv
<1>1. attempt \in 1..MaxAttempts /\ MaxAttempts \in Nat \ {0, 2}
  BY DeployAssumption DEF TypeOK, AttemptInv, Sweeping
<1>2. outcome' = "success" => clean /\ ~IsLimited
  BY DEF Decide
<1>3. outcome' = "running" => attempt < MaxAttempts
  BY <1>1 DEF Decide, IsLimited, Limited
<1>4. retryFile' \in SUBSET Hosts
  BY DEF Decide, TypeOK
<1>5. outcome' \in {"running", "success", "failed"}
  BY DEF Decide
<1>6. TypeOK'
  BY <1>4, <1>5, DeployAssumption DEF TypeOK
<1>7. ~Sweeping'
  BY DEF Sweeping
<1>8. AttemptInv' /\ ScopeInv' /\ ProgressInv'
  BY <1>3, <1>7 DEF AttemptInv, ScopeInv, ProgressInv, Deciding
<1>9. SuccessIsFullSweep'
  <2> SUFFICES ASSUME outcome' = "success",
                      NEW p \in 1..Len(Targets), NEW h \in Targets[p] \cap selected
               PROVE  <<p, h>> \in ran'
    BY DEF SuccessIsFullSweep
  <2>1. failed = {} /\ p < play /\ scope = selected
    BY <1>2, DeployAssumption DEF ScopeInv, TypeOK
  <2>2. h \in Targets[p] \cap scope
    BY <2>1, DeployAssumption
  <2> QED
    BY <2>1, <2>2 DEF ProgressInv
<1>10. RetryInv'
  <2>1. outcome' = "running" /\ attempt = 1 => ~clean /\ retryFile' = file
    BY DEF Decide, IsLimited, Limited
  <2> QED
    BY <1>1, <1>7, <2>1 DEF RetryInv, Deciding
<1> QED
  BY <1>6, <1>8, <1>9, <1>10

\* The end of a sweep turns its failures into the next list.
LEMMA SweepEndsInv == DeployInv /\ SweepEnds => DeployInv'
<1> SUFFICES ASSUME DeployInv, SweepEnds PROVE DeployInv'
  OBVIOUS
<1>1. Sweeping /\ play > Len(Targets)
  BY DeployAssumption DEF SweepEnds, Sweeping, DeployInv, TypeOK
<1>2. {failed, retryFile} \subseteq SUBSET Hosts
  BY DEF DeployInv, TypeOK
<1> DEFINE clean == failed = {}
           file == IF failed = {} THEN retryFile ELSE failed
<1>3. clean \in BOOLEAN /\ file \in SUBSET Hosts
  BY <1>2
<1>4. play' = 0 /\ before' = failed /\ UNCHANGED <<attempt, selected, scope, failed, ran, runs>>
  BY DEF SweepEnds
<1>5. Decide(clean, file)
  BY DEF SweepEnds
<1>6. ~clean /\ attempt = 1 => before' \in {file, {}}
  BY <1>4
<1> QED
  BY <1>1, <1>2, <1>3, <1>4, <1>5, <1>6, DecideInv

\* A global error ends the attempt without a list.
LEMMA GlobalErrorInv == DeployInv /\ GlobalError => DeployInv'
<1> SUFFICES ASSUME DeployInv, GlobalError PROVE DeployInv'
  OBVIOUS
<1>1. Sweeping /\ retryFile \in SUBSET Hosts
  BY DEF GlobalError, Sweeping, DeployInv, TypeOK
<1>2. play' = 0 /\ before' = {} /\ UNCHANGED <<attempt, selected, scope, failed, ran, runs>>
  BY DEF GlobalError
<1>3. Decide(FALSE, retryFile)
  BY DEF GlobalError
<1> QED
  BY <1>1, <1>2, <1>3, DecideInv

\* An interrupt ends the run in the middle of a sweep.
LEMMA InterruptInv == DeployInv /\ Interrupt => DeployInv'
BY DEF DeployInv, Interrupt, TypeOK, AttemptInv, ScopeInv, ProgressInv, SuccessIsFullSweep,
       RetryInv, Sweeping, Deciding

-----------------------------------------------------------------------------
(* The theorems *)

\* The loop of deploy.sh keeps the invariant.
THEOREM DeployInvariant == Spec => []DeployInv
<1>1. DeployInv /\ [Next]_vars => DeployInv'
  <2> SUFFICES ASSUME DeployInv, [Next]_vars PROVE DeployInv'
    OBVIOUS
  <2>1. CASE UNCHANGED vars
    BY <2>1 DEF vars, DeployInv, TypeOK, AttemptInv, ScopeInv, ProgressInv,
                SuccessIsFullSweep, RetryInv, Sweeping, Deciding, IsLimited, Limited
  <2> QED
    BY <2>1, StartRunInv, BeginAttemptInv, RunPlayInv, SweepEndsInv, GlobalErrorInv,
       InterruptInv DEF Next
<1> QED
  BY <1>1, InitInv, PTL DEF Spec

\* The attempt, the play that comes next and the sets of hosts stay in their
\* ranges; the attempt only does because no repair pass is the last one.
THEOREM TypeCorrect == Spec => []TypeOK
<1>1. DeployInv => TypeOK
  BY DEF DeployInv
<1> QED
  BY <1>1, DeployInvariant, PTL

\* Success is reported over a range on which every play ran on all its
\* selected hosts in one attempt, whatever failed before (deploy.sh 430-449).
THEOREM SuccessFullSweep == Spec => []SuccessIsFullSweep
<1>1. DeployInv => SuccessIsFullSweep
  BY DEF DeployInv
<1> QED
  BY <1>1, DeployInvariant, PTL

\* Only the second attempt is limited, to the hosts that failed in the first
\* (deploy.sh 426-429, 482-488).
THEOREM RepairsOnlyFailures == Spec => []RepairsFollowFailures
<1>1. DeployInv => RepairsFollowFailures
  <2> SUFFICES ASSUME DeployInv, Sweeping, scope # selected
               PROVE  attempt = 2 /\ before \in {scope, {}}
    BY DEF RepairsFollowFailures, Sweeping
  <2>1. IsLimited /\ scope = retryFile
    BY DEF DeployInv, ScopeInv
  <2> QED
    BY <2>1 DEF IsLimited, Limited, DeployInv, RetryInv
<1> QED
  BY <1>1, DeployInvariant, PTL
=============================================================================
