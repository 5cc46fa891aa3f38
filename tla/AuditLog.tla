------------------------------- MODULE AuditLog -------------------------------
(***************************************************************************)
(* The delivery guarantee of the audit trail.  Every handler of the state  *)
(* machine is told as a group of numbered statements; the database is the  *)
(* sequence of the statements committed to it, through crashes of the      *)
(* simulator and outages of the database (DbFlusher).                      *)
(***************************************************************************)
EXTENDS Integers, SequencesExt

CONSTANTS
    MaxGroups,     \* bound on the handlers that run
    GroupSize,     \* statements each handler queues
    MaxRestarts    \* bound on the restarts of the simulator

ASSUME AuditLogAssumption ==
    /\ MaxGroups \in Nat
    /\ GroupSize \in [1..MaxGroups -> Nat \ {0}]
    /\ MaxRestarts \in Nat

VARIABLES
    told,       \* handlers that have run
    dbQueue, conn, db,
    restarts

vars == <<told, dbQueue, conn, db, restarts>>

Appended(log, batch) == log \o batch

INSTANCE DbFlusher WITH Apply <- Appended

\* The statements of the g-th handler.  The code does not number them; the
\* numbers stand for their text and tell them apart.
Group(g) == [k \in 1..GroupSize[g] |-> <<g, k>>]

Init ==
    /\ told = 0
    /\ dbQueue = <<>>
    /\ conn = FALSE
    /\ db = <<>>
    /\ restarts = 0

Handle ==
    /\ told < MaxGroups
    /\ told' = told + 1
    /\ Put(Group(told'))
    /\ UNCHANGED <<conn, db, restarts>>

FlushBatch == Flush /\ UNCHANGED <<told, restarts>>

Restart ==
    /\ restarts < MaxRestarts
    /\ restarts' = restarts + 1
    /\ FlusherRestart
    /\ UNCHANGED told

Next == Handle \/ FlushBatch \/ Restart

Spec == Init /\ [][Next]_vars

-----------------------------------------------------------------------------

Statements == (1..MaxGroups) \X (Nat \ {0})

TypeOK ==
    /\ told \in 0..MaxGroups
    /\ dbQueue \in Seq(Statements)
    /\ conn \in BOOLEAN
    /\ db \in Seq(Statements)
    /\ restarts \in 0..MaxRestarts

Before(s, t) == s[1] < t[1] \/ (s[1] = t[1] /\ s[2] < t[2])

Ordered(log) == \A i, j \in 1..Len(log) : i < j => Before(log[i], log[j])

Whole(log) ==
    \A i \in 1..Len(log) : \A k \in 1..GroupSize[log[i][1]] :
        \E j \in 1..Len(log) : log[j] = <<log[i][1], k>>

\* The database holds statements in the order the handlers ran, none of them
\* twice, however often the flusher fails and the simulator restarts.
InOrderAtMostOnce == Ordered(db)

\* The database never holds a part of what a handler wrote: handlers queue
\* without suspending and a batch takes the whole queue.
HandlersWhole == Whole(db)

\* The detailed log implements the journal.
Journal == INSTANCE AuditJournal WITH kept <- {s[1] : s \in ToSet(db)}
ImplementsJournal == Journal!JournalSpec
=============================================================================
