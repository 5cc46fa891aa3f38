------------------------------- MODULE Deploy -------------------------------
(***************************************************************************)
(* deploy.sh: up to three runs of the playbook, of which the second is     *)
(* limited to the hosts that failed when Ansible left a retry file.        *)
(*                                                                         *)
(* Ansible is not part of the repository and is taken as the script takes  *)
(* it: the plays of site.yml in order, each on those of its hosts that are *)
(* in scope and have not failed before; a play all of whose hosts fail     *)
(* ends the sweep; a sweep with failed hosts writes their names to the     *)
(* retry file and returns an error; an error that is no host's (inventory, *)
(* syntax, vault) returns one too and writes nothing.  Of two --limit      *)
(* options the last counts.                                                *)
(***************************************************************************)
EXTENDS Naturals, Sequences

CONSTANTS
    Hosts,        \* the inventory
    Targets,      \* the hosts of each play of site.yml
    Selections,   \* what the user's own --limit may select; Hosts: none given
    MaxAttempts,  \* MAX_ATTEMPTS
    MaxRuns       \* bound on runs of the script

ASSUME DeployAssumption ==
    /\ Targets \in Seq(SUBSET Hosts)
    /\ Selections \subseteq SUBSET Hosts
    /\ MaxAttempts \in Nat \ {0, 2}  \* a repair pass is never the last attempt
    /\ MaxRuns \in Nat

VARIABLES
    outcome,    \* "idle", "running", or how the last run ended
    attempt,    \* i
    selected,   \* the hosts that the user's arguments, "$@", leave in the run
    scope,      \* the hosts of this attempt
    play,       \* the play that comes next, 0 while no sweep is under way
    failed,     \* hosts that failed in this attempt
    ran,        \* <<play, host>> that this attempt completed
    retryFile,  \* the hosts it names; empty: there is no file
    runs,
    before      \* history: hosts that failed in the attempt before

vars ==
    <<outcome, attempt, selected, scope, play, failed, ran, retryFile, runs, before>>

Init ==
    /\ outcome = "idle" /\ attempt = 0 /\ play = 0
    /\ selected = Hosts /\ scope = Hosts
    /\ failed = {} /\ ran = {} /\ runs = 0
    /\ retryFile = {} /\ before = {}

-----------------------------------------------------------------------------
(* The loop *)

StartRun ==
    /\ outcome # "running" /\ runs < MaxRuns
    /\ outcome' = "running" /\ attempt' = 0 /\ play' = 0
    /\ runs' = runs + 1
    /\ selected' \in Selections
    /\ before' = {}
    /\ UNCHANGED <<scope, failed, ran, retryFile>>

\* Mutant: any retry file limits the attempt.
LimitedByAnyFile(i) == retryFile # {}

Limited(i) == i = 2 /\ retryFile # {}

\* ansible-playbook starts.  The user's arguments follow the script's on its
\* command line, so a --limit among them overrules the one of the retry file.
BeginAttempt ==
    /\ outcome = "running" /\ play = 0
    /\ attempt' = attempt + 1
    /\ scope' = IF Limited(attempt') /\ selected = Hosts THEN retryFile ELSE selected
    /\ play' = 1 /\ failed' = {} /\ ran' = {}
    /\ UNCHANGED <<outcome, selected, retryFile, runs, before>>

IsLimited == Limited(attempt)

\* Mutant: a clean repair pass is a deployed range.
DecideByStatus(clean, file) ==
    /\ outcome' = IF clean THEN "success"
                  ELSE IF attempt = MaxAttempts THEN "failed" ELSE "running"
    /\ retryFile' = IF IsLimited \/ (~clean /\ attempt >= 2) THEN {} ELSE file

\* What the script does with Ansible's exit status, "clean" being 0, and the
\* retry file it finds then.
Decide(clean, file) ==
    /\ outcome' = IF IsLimited THEN "running"
                  ELSE IF clean THEN "success"
                  ELSE IF attempt = MaxAttempts THEN "failed" ELSE "running"
    /\ retryFile' = IF IsLimited \/ (~clean /\ attempt >= 2) THEN {} ELSE file

\* Ctrl-C or a signal: the trap reports and exits.
Interrupt ==
    /\ outcome = "running"
    /\ outcome' = "interrupted" /\ play' = 0
    /\ UNCHANGED <<attempt, selected, scope, failed, ran, retryFile, runs, before>>

-----------------------------------------------------------------------------
(* Ansible *)

Left(p) == (Targets[p] \cap scope) \ failed

RunPlay ==
    /\ outcome = "running" /\ play \in 1..Len(Targets)
    /\ \E bad \in SUBSET Left(play) :
          /\ failed' = failed \cup bad
          /\ ran' = ran \cup {<<play, h>> : h \in Left(play) \ bad}
          /\ play' = IF bad # {} /\ bad = Targets[play] \cap scope
                     THEN Len(Targets) + 1 ELSE play + 1
    /\ UNCHANGED <<outcome, attempt, selected, scope, retryFile, runs, before>>

SweepEnds ==
    /\ outcome = "running" /\ play > Len(Targets)
    /\ play' = 0
    /\ before' = failed
    /\ Decide(failed = {}, IF failed = {} THEN retryFile ELSE failed)
    /\ UNCHANGED <<attempt, selected, scope, failed, ran, runs>>

GlobalError ==
    /\ outcome = "running" /\ play = 1
    /\ play' = 0
    /\ before' = {}
    /\ Decide(FALSE, retryFile)
    /\ UNCHANGED <<attempt, selected, scope, failed, ran, runs>>

Next ==
    \/ StartRun
    \/ BeginAttempt
    \/ RunPlay
    \/ SweepEnds
    \/ GlobalError
    \/ Interrupt

Spec == Init /\ [][Next]_vars

-----------------------------------------------------------------------------
(* Properties *)

TypeOK ==
    /\ outcome \in {"idle", "running", "success", "failed", "interrupted"}
    /\ attempt \in 0..MaxAttempts /\ play \in 0..Len(Targets) + 1 /\ runs \in 0..MaxRuns
    /\ ran \subseteq (1..Len(Targets)) \X Hosts
    /\ selected \in Selections \cup {Hosts}
    /\ {scope, failed, retryFile, before} \subseteq SUBSET Hosts

\* "A CLEAN REPAIR PASS IS NOT A DEPLOYED RANGE" (deploy.sh 430-449): a run
\* that reports success has seen every play complete on every one of its
\* hosts that the user selected, in one and the same attempt, those included
\* that an earlier attempt skipped because their hosts had failed.
SuccessIsFullSweep ==
    outcome = "success" =>
        \A p \in 1..Len(Targets) : \A h \in Targets[p] \cap selected : <<p, h>> \in ran

\* An attempt that leaves out hosts the user selected is the second of its
\* run and names the hosts that failed in the first (deploy.sh 426-429, 482-488); but for a
\* file that an interrupted run left behind, when the first attempt ended in
\* a global error and wrote none.
RepairsFollowFailures ==
    outcome = "running" /\ play > 0 /\ scope # selected =>
        attempt = 2 /\ before \in {scope, {}}
=============================================================================
