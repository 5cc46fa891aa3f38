----------------------------- MODULE AuditJournal -----------------------------
(***************************************************************************)
(* What the audit trail promises, without queue, batch or connection:      *)
(* the groups of statements that handlers tell are kept at most once,      *)
(* whole, and in the order in which they were told; a run of them can be   *)
(* missing for good.                                                       *)
(***************************************************************************)
EXTENDS Integers

CONSTANT MaxGroups

VARIABLES
    told,   \* number of groups told so far
    kept    \* the groups that are in the database

Tell ==
    /\ told < MaxGroups
    /\ told' = told + 1
    /\ UNCHANGED kept

\* A run of consecutive groups is kept, all later than any group kept before.
Keep ==
    \E a, b \in 1..told :
        /\ a <= b
        /\ \A g \in kept : g < a
        /\ kept' = kept \cup a..b
        /\ UNCHANGED told

JournalInit == told = 0 /\ kept = {}

JournalSpec == JournalInit /\ [][Tell \/ Keep]_<<told, kept>>
=============================================================================
