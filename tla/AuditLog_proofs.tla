---------------------------- MODULE AuditLog_proofs ----------------------------
(* Theorems about AuditLog, for any number of handlers, of statements per  *)
(* handler and of restarts.  The invariant behind them is that what is in  *)
(* the database followed by what is queued is ordered.                     *)
EXTENDS AuditLog, SequenceTheorems, TLAPS

\* A group of statements is a sequence of statements.
LEMMA GroupType ==
    ASSUME NEW g \in 1..MaxGroups
    PROVE  /\ Group(g) \in Seq(Statements)
           /\ Len(Group(g)) = GroupSize[g]
           /\ \A k \in 1..GroupSize[g] : Group(g)[k] = <<g, k>>
<1>1. GroupSize[g] \in Nat \ {0}
  BY AuditLogAssumption
<1>2. \A k \in 1..GroupSize[g] : <<g, k>> \in Statements
  BY <1>1 DEF Statements
<1>3. Group(g) \in Seq(Statements) /\ Len(Group(g)) = GroupSize[g]
  BY <1>1, <1>2 DEF Group
<1>4. \A k \in 1..GroupSize[g] : Group(g)[k] = <<g, k>>
  <2> SUFFICES ASSUME NEW k \in 1..GroupSize[g] PROVE Group(g)[k] = <<g, k>>
    OBVIOUS
  <2> QED
    BY DEF Group
<1> QED
  BY <1>3, <1>4

\* The state of the writer and of the journal is always of its type.
THEOREM TypeCorrect == Spec => []TypeOK
<1>1. Init => TypeOK
  <2>1. <<>> \in Seq(Statements) /\ 0 \in 0..MaxGroups /\ 0 \in 0..MaxRestarts
    BY AuditLogAssumption
  <2> QED
    BY <2>1 DEF Init, TypeOK
<1>2. TypeOK /\ [Next]_vars => TypeOK'
  <2> SUFFICES ASSUME TypeOK, [Next]_vars PROVE TypeOK'
    OBVIOUS
  <2> USE DEF TypeOK
  <2>1. CASE Handle
    <3>1. told' \in 1..MaxGroups
      BY <2>1, AuditLogAssumption DEF Handle
    <3>2. Group(told') \in Seq(Statements)
      BY <3>1, GroupType
    <3>3. dbQueue' = dbQueue \o Group(told')
      BY <2>1 DEF Handle, Put
    <3>4. dbQueue' \in Seq(Statements)
      BY <3>2, <3>3
    <3> QED
      BY <2>1, <3>1, <3>4 DEF Handle
  <2>2. CASE FlushBatch
    <3>1. db \o dbQueue \in Seq(Statements) /\ <<>> \in Seq(Statements)
      OBVIOUS
    <3> QED
      BY <2>2, <3>1 DEF FlushBatch, Flush, FlushCommits, FlushFails,
                        FlushCommitsUnseen, Appended
  <2>3. CASE Restart
    <3>1. restarts' \in 0..MaxRestarts
      BY <2>3, AuditLogAssumption DEF Restart
    <3>2. dbQueue' = <<>> /\ conn' = FALSE /\ db' = db /\ told' = told
      BY <2>3 DEF Restart, FlusherRestart
    <3>3. <<>> \in Seq(Statements)
      OBVIOUS
    <3> QED
      BY <3>1, <3>2, <3>3
  <2>4. CASE UNCHANGED vars
    BY <2>4 DEF vars
  <2> QED
    BY <2>1, <2>2, <2>3, <2>4 DEF Next
<1> QED
  BY <1>1, <1>2, PTL DEF Spec

-----------------------------------------------------------------------------
(* Order *)

\* Every statement of a sequence belongs to a handler that has run.
Told(log) == \A i \in 1..Len(log) : log[i][1] <= told

\* What is in the database followed by what is queued is ordered, and told.
OrderInv == Ordered(db \o dbQueue) /\ Told(db \o dbQueue)

\* A prefix of an ordered sequence is ordered.
LEMMA OrderedPrefix ==
    ASSUME NEW a \in Seq(Statements), NEW b \in Seq(Statements), Ordered(a \o b)
    PROVE  Ordered(a)
<1>1. /\ Len(a \o b) = Len(a) + Len(b)
      /\ \A i \in 1..Len(a) : (a \o b)[i] = a[i] /\ i \in 1..Len(a \o b)
  OBVIOUS
<1> QED
  BY <1>1 DEF Ordered

\* Statements put later leave what was told as a beginning.
LEMMA ToldPrefix ==
    ASSUME NEW a \in Seq(Statements), NEW b \in Seq(Statements), Told(a \o b)
    PROVE  Told(a)
<1>1. /\ Len(a \o b) = Len(a) + Len(b)
      /\ \A i \in 1..Len(a) : (a \o b)[i] = a[i] /\ i \in 1..Len(a \o b)
  OBVIOUS
<1> QED
  BY <1>1 DEF Told

\* The statements of the next handler come after everything told so far.
LEMMA OrderedAppend ==
    ASSUME NEW a \in Seq(Statements), Ordered(a), Told(a), told \in Nat,
           told + 1 \in 1..MaxGroups
    PROVE  Ordered(a \o Group(told + 1))
<1> DEFINE g == told + 1
           c == a \o Group(g)
<1>1. /\ Group(g) \in Seq(Statements)
      /\ \A k \in 1..Len(Group(g)) : Group(g)[k] = <<g, k>>
  BY GroupType
<1>2. /\ Len(c) = Len(a) + Len(Group(g))
      /\ \A i \in 1..Len(a) : c[i] = a[i]
      /\ \A i \in 1..Len(c) : i > Len(a) => i - Len(a) \in 1..Len(Group(g))
                                            /\ c[i] = Group(g)[i - Len(a)]
  BY <1>1
<1>3. \A i \in 1..Len(c) : i > Len(a) => c[i] = <<g, i - Len(a)>>
  BY <1>1, <1>2
<1>4. \A i \in 1..Len(a) : a[i][1] \in 1..MaxGroups /\ a[i][1] <= told
  BY DEF Told, Statements
<1> SUFFICES ASSUME NEW i \in 1..Len(c), NEW j \in 1..Len(c), i < j
             PROVE  Before(c[i], c[j])
  BY DEF Ordered
<1>n. Len(a) \in Nat /\ Len(c) \in Nat /\ Len(Group(g)) \in Nat
  BY <1>1, <1>2
<1>5. CASE j <= Len(a)
  <2>1. i \in 1..Len(a) /\ j \in 1..Len(a)
    BY <1>n, <1>5
  <2>2. Before(a[i], a[j])
    BY <2>1 DEF Ordered
  <2> QED
    BY <1>2, <2>1, <2>2
<1>6. CASE i <= Len(a) /\ j > Len(a)
  <2>1. i \in 1..Len(a)
    BY <1>n, <1>6
  <2>2. c[i] = a[i] /\ a[i][1] \in 1..MaxGroups /\ a[i][1] <= told
    BY <1>2, <1>4, <2>1
  <2>3. c[j] = <<g, j - Len(a)>>
    BY <1>3, <1>6
  <2>4. c[j][1] = told + 1
    BY <2>3
  <2>5. a[i][1] < told + 1
    BY <2>2, AuditLogAssumption
  <2>6. c[i][1] < c[j][1]
    BY <2>2, <2>4, <2>5
  <2> HIDE DEF c
  <2> QED
    BY <2>6 DEF Before
<1>7. CASE i > Len(a)
  <2>0. j > Len(a)
    BY <1>7, <1>n
  <2>1. c[i] = <<g, i - Len(a)>> /\ c[j] = <<g, j - Len(a)>>
    <3> HIDE DEF c, g
    <3> QED
      BY <1>3, <1>7, <2>0
  <2>2. i - Len(a) < j - Len(a)
    <3> HIDE DEF c
    <3> QED
      BY <1>n
  <2>3. c[i][1] = c[j][1] /\ c[i][2] < c[j][2]
    BY <2>1, <2>2
  <2> HIDE DEF c
  <2> QED
    BY <2>3 DEF Before
<1> QED
  BY <1>1, <1>2, <1>5, <1>6, <1>7

\* Every step keeps the order.
LEMMA OrderInductive == TypeOK /\ OrderInv /\ [Next]_vars => OrderInv'
<1> SUFFICES ASSUME TypeOK, OrderInv, [Next]_vars PROVE OrderInv'
  OBVIOUS
<1>0. db \in Seq(Statements) /\ dbQueue \in Seq(Statements) /\ told \in Nat
  BY AuditLogAssumption DEF TypeOK
<1>1. CASE Handle
  <2>1. told' = told + 1 /\ told + 1 \in 1..MaxGroups
    BY <1>0, <1>1, AuditLogAssumption DEF Handle
  <2>2. db' \o dbQueue' = (db \o dbQueue) \o Group(told + 1)
    <3>1. db' = db /\ dbQueue' = dbQueue \o Group(told + 1)
      BY <1>1, <2>1 DEF Handle, Put
    <3>2. Group(told + 1) \in Seq(Statements)
      BY <2>1, GroupType
    <3> QED
      BY <1>0, <3>1, <3>2
  <2>3. db \o dbQueue \in Seq(Statements)
    BY <1>0
  <2>4. Ordered(db' \o dbQueue')
    BY <1>0, <2>1, <2>2, <2>3, OrderedAppend DEF OrderInv
  <2>5. \A i \in 1..Len(db' \o dbQueue') : (db' \o dbQueue')[i][1] <= told'
    <3> DEFINE a == db \o dbQueue
               c == a \o Group(told + 1)
    <3>1. /\ Group(told + 1) \in Seq(Statements)
          /\ \A k \in 1..Len(Group(told + 1)) : Group(told + 1)[k] = <<told + 1, k>>
      BY <2>1, GroupType
    <3>2. \A i \in 1..Len(a) : a[i][1] \in 1..MaxGroups /\ a[i][1] <= told
      BY <2>3 DEF OrderInv, Told, Statements
    <3>3. \A i \in 1..Len(c) :
             \/ i \in 1..Len(a) /\ c[i] = a[i]
             \/ i - Len(a) \in 1..Len(Group(told + 1))
                /\ c[i] = Group(told + 1)[i - Len(a)]
      BY <2>3, <3>1
    <3>4. ASSUME NEW i \in 1..Len(c) PROVE c[i][1] <= told + 1
      <4>1. CASE i \in 1..Len(a) /\ c[i] = a[i]
        BY <1>0, <3>2, <4>1, AuditLogAssumption
      <4>2. CASE /\ i - Len(a) \in 1..Len(Group(told + 1))
                 /\ c[i] = Group(told + 1)[i - Len(a)]
        <5>1. c[i] = <<told + 1, i - Len(a)>>
          BY <3>1, <4>2
        <5> QED
          BY <1>0, <5>1
      <4> QED
        BY <3>3, <4>1, <4>2
    <3> QED
      BY <2>1, <2>2, <3>4
  <2> QED
    BY <2>4, <2>5 DEF OrderInv, Told
<1>2. CASE FlushBatch
  <2>1. told' = told
    BY <1>2 DEF FlushBatch
  <2>2. \/ db' \o dbQueue' = db \o dbQueue
        \/ db' = db /\ dbQueue' = <<>>
    <3>1. CASE FlushFails
      BY <3>1 DEF FlushFails
    <3>2. CASE FlushCommits \/ FlushCommitsUnseen
      <4>1. db' = db \o dbQueue /\ dbQueue' = <<>>
        BY <3>2 DEF FlushCommits, FlushCommitsUnseen, Appended
      <4>2. db \o dbQueue \in Seq(Statements)
        BY <1>0
      <4>3. (db \o dbQueue) \o <<>> = db \o dbQueue
        BY <4>2
      <4> QED
        BY <4>1, <4>3
    <3> QED
      BY <1>2, <3>1, <3>2 DEF FlushBatch, Flush
  <2>3. db \o <<>> = db
    BY <1>0
  <2>4. Ordered(db) /\ Told(db)
    BY <1>0, OrderedPrefix, ToldPrefix DEF OrderInv
  <2> QED
    BY <2>1, <2>2, <2>3, <2>4 DEF OrderInv, Told
<1>3. CASE Restart
  <2>1. told' = told /\ db' = db /\ dbQueue' = <<>>
    BY <1>3 DEF Restart, FlusherRestart
  <2>2. db \o <<>> = db
    BY <1>0
  <2>3. Ordered(db) /\ Told(db)
    BY <1>0, OrderedPrefix, ToldPrefix DEF OrderInv
  <2> QED
    BY <2>1, <2>2, <2>3 DEF OrderInv, Told
<1>4. CASE UNCHANGED vars
  BY <1>4 DEF vars, OrderInv, Told
<1> QED
  BY <1>1, <1>2, <1>3, <1>4 DEF Next

\* Statements reach the database in the order they were told, none twice.
THEOREM OrderCorrect == Spec => []InOrderAtMostOnce
<1>1. Init => OrderInv
  <2> SUFFICES ASSUME Init PROVE OrderInv
    OBVIOUS
  <2>1. Len(db \o dbQueue) = 0
    BY DEF Init
  <2> QED
    BY <2>1 DEF OrderInv, Ordered, Told
<1>2. TypeOK /\ OrderInv => InOrderAtMostOnce
  BY OrderedPrefix DEF TypeOK, OrderInv, InOrderAtMostOnce
<1> QED
  BY <1>1, <1>2, OrderInductive, TypeCorrect, PTL DEF Spec

-----------------------------------------------------------------------------
(* Atomicity of handlers *)

\* Whole batches one after the other are whole batches.
LEMMA WholeConcat ==
    ASSUME NEW a \in Seq(Statements), NEW b \in Seq(Statements),
           Whole(a), Whole(b)
    PROVE  Whole(a \o b)
<1> DEFINE c == a \o b
<1>1. /\ Len(a) \in Nat /\ Len(b) \in Nat /\ Len(c) = Len(a) + Len(b)
      /\ \A i \in 1..Len(a) : c[i] = a[i] /\ i \in 1..Len(c)
      /\ \A i \in 1..Len(b) : c[Len(a) + i] = b[i] /\ Len(a) + i \in 1..Len(c)
  OBVIOUS
<1>2. \A i \in 1..Len(c) :
         \/ i \in 1..Len(a) /\ c[i] = a[i]
         \/ i - Len(a) \in 1..Len(b) /\ c[i] = b[i - Len(a)]
  OBVIOUS
<1> HIDE DEF c
<1> SUFFICES ASSUME NEW i \in 1..Len(c), NEW k \in 1..GroupSize[c[i][1]]
             PROVE  \E j \in 1..Len(c) : c[j] = <<c[i][1], k>>
  BY DEF Whole, c
<1>3. CASE i \in 1..Len(a) /\ c[i] = a[i]
  <2>1. PICK j \in 1..Len(a) : a[j] = <<c[i][1], k>>
    BY <1>3 DEF Whole
  <2> QED
    BY <1>1, <2>1
<1>4. CASE i - Len(a) \in 1..Len(b) /\ c[i] = b[i - Len(a)]
  <2>1. PICK j \in 1..Len(b) : b[j] = <<c[i][1], k>>
    BY <1>4 DEF Whole
  <2>2. c[Len(a) + j] = <<c[i][1], k>> /\ Len(a) + j \in 1..Len(c)
    BY <1>1, <2>1
  <2> QED
    BY <2>2
<1> QED
  BY <1>2, <1>3, <1>4

\* The statements of one handler are a whole batch.
LEMMA WholeGroup ==
    ASSUME NEW g \in 1..MaxGroups
    PROVE  Whole(Group(g))
<1>1. /\ Len(Group(g)) = GroupSize[g]
      /\ \A k \in 1..GroupSize[g] : Group(g)[k] = <<g, k>>
  BY GroupType
<1> SUFFICES ASSUME NEW i \in 1..Len(Group(g)),
                    NEW k \in 1..GroupSize[Group(g)[i][1]]
             PROVE  \E j \in 1..Len(Group(g)) : Group(g)[j] = <<Group(g)[i][1], k>>
  BY DEF Whole
<1>2. Group(g)[i][1] = g
  BY <1>1
<1> QED
  BY <1>1, <1>2

\* So is nothing.
LEMMA WholeEmpty == Whole(<<>>)
  BY DEF Whole

\* Database and queue hold whole batches.
WholeInv == Whole(db) /\ Whole(dbQueue)

\* The database holds all that a handler queued or nothing of it.
THEOREM WholeCorrect == Spec => []HandlersWhole
<1>1. Init => WholeInv
  BY WholeEmpty DEF Init, WholeInv
<1>2. TypeOK /\ WholeInv /\ [Next]_vars => WholeInv'
  <2> SUFFICES ASSUME TypeOK, WholeInv, [Next]_vars PROVE Whole(db') /\ Whole(dbQueue')
    BY DEF WholeInv, Whole
  <2>0. /\ db \in Seq(Statements) /\ dbQueue \in Seq(Statements)
        /\ Whole(db) /\ Whole(dbQueue)
    BY DEF TypeOK, WholeInv
  <2>1. CASE Handle
    <3>1. told' \in 1..MaxGroups
      BY <2>1, AuditLogAssumption DEF Handle, TypeOK
    <3>2. db' = db /\ dbQueue' = dbQueue \o Group(told')
      BY <2>1 DEF Handle, Put
    <3>3. Group(told') \in Seq(Statements) /\ Whole(Group(told'))
      BY <3>1, GroupType, WholeGroup
    <3>4. Whole(dbQueue \o Group(told'))
      BY <2>0, <3>3, WholeConcat
    <3> QED
      BY <2>0, <3>2, <3>4
  <2>2. CASE FlushBatch
    <3>1. Whole(db \o dbQueue)
      BY <2>0, WholeConcat
    <3>2. (db' = db \/ db' = db \o dbQueue) /\ dbQueue' = <<>>
      BY <2>2 DEF FlushBatch, Flush, FlushCommits, FlushFails,
                  FlushCommitsUnseen, Appended
    <3> QED
      BY <2>0, <3>1, <3>2, WholeEmpty
  <2>3. CASE Restart
    BY <2>0, <2>3, WholeEmpty DEF Restart, FlusherRestart
  <2>4. CASE UNCHANGED vars
    BY <2>0, <2>4 DEF vars
  <2> QED
    BY <2>1, <2>2, <2>3, <2>4 DEF Next
<1>3. WholeInv => HandlersWhole
  BY DEF WholeInv, HandlersWhole
<1> QED
  BY <1>1, <1>2, <1>3, TypeCorrect, PTL DEF Spec

-----------------------------------------------------------------------------
(* The journal *)

\* The handlers of which a sequence holds a statement.
Handlers(log) == {s[1] : s \in ToSet(log)}

\* The handlers of two sequences in a row.
LEMMA HandlersConcat ==
    ASSUME NEW a \in Seq(Statements), NEW b \in Seq(Statements)
    PROVE  Handlers(a \o b) = Handlers(a) \cup Handlers(b)
<1> DEFINE c == a \o b
<1>1. /\ \A i \in 1..Len(c) : \/ i \in 1..Len(a) /\ c[i] = a[i]
                              \/ i - Len(a) \in 1..Len(b) /\ c[i] = b[i - Len(a)]
      /\ \A i \in 1..Len(a) : i \in 1..Len(c) /\ c[i] = a[i]
      /\ \A i \in 1..Len(b) : Len(a) + i \in 1..Len(c) /\ c[Len(a) + i] = b[i]
  OBVIOUS
<1>d. DOMAIN a = 1..Len(a) /\ DOMAIN b = 1..Len(b) /\ DOMAIN c = 1..Len(c)
  OBVIOUS
<1> HIDE DEF c
<1>2. ToSet(c) = ToSet(a) \cup ToSet(b)
  <2>1. ASSUME NEW x \in ToSet(c) PROVE x \in ToSet(a) \cup ToSet(b)
    BY <1>1, <1>d, <2>1 DEF ToSet
  <2>2. ASSUME NEW x \in ToSet(a) PROVE x \in ToSet(c)
    BY <1>1, <1>d, <2>2 DEF ToSet
  <2>3. ASSUME NEW x \in ToSet(b) PROVE x \in ToSet(c)
    BY <1>1, <1>d, <2>3 DEF ToSet
  <2> QED
    BY <2>1, <2>2, <2>3
<1> QED
  BY <1>2 DEF Handlers, c

\* One group is the work of one handler.
LEMMA HandlersGroup ==
    ASSUME NEW g \in 1..MaxGroups
    PROVE  Handlers(Group(g)) = {g}
<1>1. /\ DOMAIN Group(g) = 1..GroupSize[g]
      /\ \A k \in 1..GroupSize[g] : Group(g)[k] = <<g, k>>
      /\ 1 \in 1..GroupSize[g]
  BY AuditLogAssumption, GroupType DEF Group
<1>2. ToSet(Group(g)) = {<<g, k>> : k \in 1..GroupSize[g]}
  BY <1>1 DEF ToSet
<1> QED
  BY <1>1, <1>2 DEF Handlers

\* No statement is the work of no handler, any is that of one.
LEMMA HandlersNone ==
    /\ Handlers(<<>>) = {}
    /\ \A log \in Seq(Statements) : log # <<>> => Handlers(log) # {}
<1>1. Handlers(<<>>) = {}
  BY DEF Handlers, ToSet
<1>2. ASSUME NEW log \in Seq(Statements), log # <<>> PROVE Handlers(log) # {}
  <2>1. 1 \in DOMAIN log
    BY <1>2
  <2>2. log[1] \in ToSet(log)
    BY <2>1 DEF ToSet
  <2> QED
    BY <2>2 DEF Handlers
<1> QED
  BY <1>1, <1>2

\* The queue holds the handlers from some on, all later than those in the
\* database.
JournalInv ==
    \E a \in 1..(told + 1) :
        /\ Handlers(dbQueue) = a..told
        /\ \A g \in Handlers(db) : g < a

\* A flush that commits keeps the run of handlers that is queued; every other
\* step of the log leaves the journal alone or tells it one more.
LEMMA JournalStep ==
    ASSUME TypeOK, JournalInv, [Next]_vars
    PROVE  /\ JournalInv'
           /\ [Journal!Tell \/ Journal!Keep]_<<told, Handlers(db)>>
<1>0. db \in Seq(Statements) /\ dbQueue \in Seq(Statements) /\ told \in Nat
  BY AuditLogAssumption DEF TypeOK
<1>1. PICK a \in 1..(told + 1) :
        /\ Handlers(dbQueue) = a..told
        /\ \A g \in Handlers(db) : g < a
  BY DEF JournalInv
<1>2. \A g \in Handlers(db) : g \in Nat /\ g < told + 1
  <2>1. \A g \in Handlers(db) : g \in Nat
    BY <1>0 DEF Handlers, ToSet, Statements
  <2> QED
    BY <1>0, <1>1, <2>1
<1>3. CASE Handle
  <2>1. /\ told' = told + 1 /\ told < MaxGroups /\ told + 1 \in 1..MaxGroups
        /\ db' = db /\ dbQueue' = dbQueue \o Group(told + 1)
    BY <1>0, <1>3, AuditLogAssumption DEF Handle, Put
  <2>2. Handlers(dbQueue') = Handlers(dbQueue) \cup {told + 1}
    BY <1>0, <2>1, HandlersConcat, HandlersGroup, GroupType
  <2>3. Handlers(dbQueue') = a..told'
    <3>1. a..(told + 1) = (a..told) \cup {told + 1}
      BY <1>0
    <3> QED
      BY <1>1, <2>1, <2>2, <3>1
  <2>4. a \in 1..(told' + 1)
    BY <1>0, <2>1
  <2>5. JournalInv'
    BY <1>1, <2>1, <2>3, <2>4 DEF JournalInv, Handlers
  <2>6. Journal!Tell
    BY <2>1 DEF Journal!Tell
  <2> QED
    BY <2>5, <2>6
<1>4. ASSUME told' = told, db' = db, dbQueue' = <<>>
      PROVE  JournalInv' /\ UNCHANGED <<told, Handlers(db)>>
  <2>1. told + 1 \in 1..(told + 1) /\ (told + 1)..told = {}
    BY <1>0
  <2> QED
    BY <1>2, <1>4, <2>1, HandlersNone DEF JournalInv, Handlers
<1>5. CASE FlushBatch
  <2>1. told' = told /\ dbQueue # <<>> /\ dbQueue' = <<>>
    BY <1>5 DEF FlushBatch, Flush, FlushCommits, FlushFails, FlushCommitsUnseen
  <2>2. CASE db' = db
    BY <1>4, <2>1, <2>2
  <2>3. CASE db' = db \o dbQueue
    <3>1. Handlers(db') = Handlers(db) \cup a..told
      BY <1>0, <1>1, <2>3, HandlersConcat
    <3>2. a \in 1..told /\ told \in 1..told
      <4>1. a..told # {}
        BY <1>0, <1>1, <2>1, HandlersNone
      <4> QED
        BY <1>0, <4>1
    <3>3. Journal!Keep
      <4>1. a <= told /\ (\A g \in Handlers(db) : g < a)
        BY <1>0, <1>1, <3>2
      <4>2. Handlers(db') = Handlers(db) \cup a..told /\ told' = told
        BY <2>1, <3>1
      <4> QED
        BY <3>2, <4>1, <4>2 DEF Journal!Keep, Handlers
    <3>4. JournalInv'
      <4>1. told + 1 \in 1..(told + 1) /\ (told + 1)..told = {}
        BY <1>0
      <4>2. \A g \in Handlers(db') : g < told + 1
        BY <1>0, <1>2, <3>1
      <4>3. Handlers(dbQueue') = (told' + 1)..told'
        BY <2>1, <4>1, HandlersNone
      <4> QED
        BY <2>1, <4>1, <4>2, <4>3 DEF JournalInv, Handlers
    <3> QED
      BY <3>3, <3>4
  <2> QED
    BY <1>5, <2>2, <2>3 DEF FlushBatch, Flush, FlushCommits, FlushFails,
                            FlushCommitsUnseen, Appended
<1>6. CASE Restart
  BY <1>4, <1>6 DEF Restart, FlusherRestart
<1>7. CASE UNCHANGED vars
  BY <1>7 DEF vars, JournalInv, Handlers
<1> QED
  BY <1>3, <1>5, <1>6, <1>7 DEF Next

\* The detailed log, with its queue, its batches and its failures, implements
\* the journal: handlers are kept in runs, each later than all kept before.
THEOREM JournalCorrect == Spec => ImplementsJournal
<1>1. Init => JournalInv /\ Journal!JournalInit
  <2> SUFFICES ASSUME Init PROVE JournalInv /\ Journal!JournalInit
    OBVIOUS
  <2>1. told = 0 /\ Handlers(db) = {} /\ Handlers(dbQueue) = {}
    BY HandlersNone DEF Init
  <2>2. 1 \in 1..(told + 1) /\ 1..told = {}
    BY <2>1
  <2> QED
    BY <2>1, <2>2 DEF JournalInv, Journal!JournalInit, Handlers
<1>2. TypeOK /\ JournalInv /\ [Next]_vars
        => JournalInv' /\ [Journal!Tell \/ Journal!Keep]_<<told, {s[1] : s \in ToSet(db)}>>
  BY JournalStep DEF Handlers
<1> QED
  BY <1>1, <1>2, TypeCorrect, PTL DEF Spec, ImplementsJournal, Journal!JournalSpec
=============================================================================
