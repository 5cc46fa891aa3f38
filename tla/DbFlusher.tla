------------------------------ MODULE DbFlusher ------------------------------
(***************************************************************************)
(* The database flusher of the simulator, state_machine.py db_flusher: a   *)
(* task that once a second drains the statement queue into one             *)
(* transaction.  The drained batch lives in a local variable only, so a    *)
(* failed connection or a failed statement loses it.                       *)
(***************************************************************************)
EXTENDS Integers, Sequences

CONSTANT Apply(_, _)   \* Apply(db, batch): the database after the transaction

VARIABLES
    dbQueue,   \* StateMachine.db_queue
    conn,      \* TRUE iff the flusher holds a connection
    db         \* the committed state of the database

\* db_queue.put on an unbounded queue never waits: a handler's statements
\* enter the queue together.
Put(stmts) == dbQueue' = dbQueue \o stmts

\* Mutant: the queue is read from the wrong end, a statement at a time.
FlushNewestFirst ==
    /\ dbQueue # <<>>
    /\ db' = Apply(db, <<dbQueue[Len(dbQueue)]>>)
    /\ dbQueue' = SubSeq(dbQueue, 1, Len(dbQueue) - 1)
    /\ conn' = TRUE

\* The batch is executed and committed.
FlushCommits ==
    /\ dbQueue # <<>>
    /\ db' = Apply(db, dbQueue)
    /\ dbQueue' = <<>>
    /\ conn' = TRUE

\* Mutant: a failed batch keeps the statements that had been executed.
FlushFailsHalfway ==
    /\ dbQueue # <<>>
    /\ db' = Apply(db, <<Head(dbQueue)>>)
    /\ dbQueue' = <<>>
    /\ conn' = FALSE

\* No connection can be made, or a statement or the commit raises and the
\* transaction is rolled back: either way the batch is gone.
FlushFails ==
    /\ dbQueue # <<>>
    /\ dbQueue' = <<>>
    /\ conn' = FALSE
    /\ UNCHANGED db

\* Mutant: an unacknowledged batch is kept for a retry.
FlushRetriesUnseen ==
    /\ dbQueue # <<>>
    /\ db' = Apply(db, dbQueue)
    /\ conn' = FALSE
    /\ UNCHANGED dbQueue

\* The server commits but the acknowledgement is lost: the code handles it
\* as a failure.
FlushCommitsUnseen ==
    /\ dbQueue # <<>>
    /\ db' = Apply(db, dbQueue)
    /\ dbQueue' = <<>>
    /\ conn' = FALSE

Flush == FlushCommits \/ FlushFails \/ FlushCommitsUnseen

\* The process dies: what was queued dies with it, the database stays.
FlusherRestart ==
    /\ dbQueue' = <<>>
    /\ conn' = FALSE
    /\ UNCHANGED db
=============================================================================
