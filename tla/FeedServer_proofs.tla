-------------------------- MODULE FeedServer_proofs --------------------------
(* Theorems about FeedServer, for any clients, frames of any number of     *)
(* parts, buffers of any size and identifications at any interval, and     *)
(* about SquitterCodec, for any payloads and any values.                   *)
EXTENDS MCFeedServer, SequenceTheorems, WellFoundedInduction, TLAPS

-----------------------------------------------------------------------------
(* Natural numbers *)

\* A set of natural numbers that is not empty has a least element.
LEMMA LeastOf ==
    ASSUME NEW S, S \subseteq Nat, S # {}
    PROVE  \E n \in S : \A m \in S : n <= m
<1>1. IsWellFoundedOn(OpToRel(<, Nat), Nat)
  BY NatLessThanWellFounded
<1>2. PICK n \in S : \A m \in S : ~(<<m, n>> \in OpToRel(<, Nat))
  BY <1>1, WFMin
<1>3. \A m \in S : ~(m < n)
  BY <1>2 DEF OpToRel
<1> QED BY <1>3

\* Remainders of what is less than two moduli.
LEMMA SmallRemainders ==
    ASSUME NEW n \in Nat \ {0}, NEW a \in Nat
    PROVE  /\ a < n => a % n = a
           /\ n <= a /\ a < 2 * n => a % n = a - n
<1> DEFINE q == a \div n
           r == a % n
<1>1. q \in Int /\ r \in 0..(n - 1) /\ a = n * q + r
  OBVIOUS
<1> HIDE DEF q, r
<1>2. q >= 0
  <2>1. \A x, y \in Int : x < 0 /\ y > 0 => y * x <= -y
    OBVIOUS
  <2> QED BY <1>1, <2>1
<1>3. q # 0 => n * q >= n
  <2>1. \A x, y \in Nat : x # 0 => y * x >= y
    OBVIOUS
  <2> QED BY <1>1, <1>2, <2>1
<1>4. q > 1 => n * q >= 2 * n
  <2>1. \A x, y \in Nat : x > 1 => y * x >= 2 * y
    OBVIOUS
  <2> QED BY <1>1, <1>2, <2>1
<1>5. q = 0 => n * q = 0
  OBVIOUS
<1>6. q = 1 => n * q = n
  OBVIOUS
<1> QED BY <1>1, <1>2, <1>3, <1>4, <1>5, <1>6 DEF r

\* A whole turn more leaves the same.
LEMMA OneRoundMore ==
    ASSUME NEW n \in Nat \ {0}, NEW p \in 1..n
    PROVE  (p + n - 1) % n = p - 1
<1> DEFINE a == p + n - 1
<1>1. a \in Nat /\ n <= a /\ a < 2 * n /\ a - n = p - 1
  OBVIOUS
<1> HIDE DEF a
<1>2. a % n = p - 1
  BY <1>1, SmallRemainders
<1> QED BY <1>2 DEF a

-----------------------------------------------------------------------------
(* The round *)

\* The round is a sequence of frames for two ports, and has some of both.
LEMMA RoundIs ==
    /\ Len(Round) \in Nat /\ Len(Round) >= 7
    /\ \A p \in Places : Round[p].port \in Ports
    /\ Round[1].port = "beast" /\ Round[2].port = "sbs"
<1>1. IdentEvery \in Nat \ {0}
  BY FeedAssumption
<1>2. Len(Round) = 2 + 5 * IdentEvery
  BY <1>1 DEF Round
<1>3. /\ IdentFrames[1].port = "beast" /\ IdentFrames[2].port = "sbs"
  BY DEF IdentFrames, On
<1>4. /\ TickFrames[1].port = "beast" /\ TickFrames[2].port = "beast"
      /\ TickFrames[3].port = "beast" /\ TickFrames[4].port = "sbs"
      /\ TickFrames[5].port = "sbs"
  BY DEF TickFrames, On
<1>5. ASSUME NEW p \in Places PROVE Round[p].port \in Ports
  <2>1. p \in Nat /\ (p - 3) % 5 \in 0..4
    BY <1>2 DEF Places
  <2>2. CASE p <= 2
    <3>1. p \in {1, 2}
      BY <1>1, <1>2, <2>2 DEF Places
    <3>2. Round[p] = IdentFrames[p]
      BY <1>1, <1>2, <2>2 DEF Round, Places
    <3> QED BY <1>3, <3>1, <3>2 DEF Ports
  <2>3. CASE ~(p <= 2)
    <3> DEFINE k == ((p - 3) % 5) + 1
    <3>1. k \in {1, 2, 3, 4, 5}
      BY <2>1
    <3>2. Round[p] = TickFrames[k]
      BY <1>1, <1>2, <2>3 DEF Round, Places
    <3> HIDE DEF k
    <3> QED BY <1>4, <3>1, <3>2 DEF Ports
  <2> QED BY <2>2, <2>3
<1>6. Round[1] = IdentFrames[1] /\ Round[2] = IdentFrames[2]
  BY <1>1 DEF Round
<1> QED BY <1>1, <1>2, <1>5, <1>6, <1>3

\* The place so many frames ahead.
Ahead(p, d) == ((p + d - 1) % Len(Round)) + 1
\* That it is the first on a port.
FirstOn(to, p, d) ==
    /\ d \in Places /\ Round[Ahead(p, d)].port = to
    /\ \A e \in 1..(d - 1) : Round[Ahead(p, e)].port # to

\* Going ahead stays in the round, one ahead is the next place, a whole
\* round ahead is the same place, and one further from a place is as far
\* from the next.
LEMMA AheadIs ==
    ASSUME NEW p \in Places, NEW d \in Places
    PROVE  /\ Ahead(p, d) \in Places
           /\ After(p) \in Places /\ Ahead(p, 1) = After(p)
           /\ Ahead(p, Len(Round)) = p
           /\ Ahead(p, d + 1) = Ahead(After(p), d)
<1> DEFINE N == Len(Round)
<1>1. N \in Nat \ {0} /\ p \in 1..N /\ d \in 1..N
  BY RoundIs DEF Places
<1>2. \A a \in Nat : a % N \in 0..(N - 1)
  BY <1>1
<1>3. Ahead(p, d) \in Places /\ After(p) \in Places
  <2>1. p + d - 1 \in Nat /\ p \in Nat
    BY <1>1
  <2>2. (p + d - 1) % N \in 0..(N - 1) /\ p % N \in 0..(N - 1)
    BY <1>2, <2>1
  <2> QED BY <1>1, <2>2 DEF Ahead, After, Places
<1>4. Ahead(p, 1) = After(p)
  BY <1>1 DEF Ahead, After
<1>5. (p + N - 1) % N = p - 1
  BY <1>1, OneRoundMore
<1>6. p < N => p % N = p
  BY <1>1, SmallRemainders
<1>7. p = N => p % N = 0
  BY <1>1, SmallRemainders
<1>8. (N + d) % N = d % N
  <2>1. CASE d < N
    <3>1. d % N = d
      BY <1>1, <2>1, SmallRemainders
    <3> DEFINE b == d + 1
    <3>2. b \in 1..N /\ b - 1 = d /\ b + N - 1 = N + d
      BY <1>1, <2>1
    <3> HIDE DEF b
    <3>3. (b + N - 1) % N = b - 1
      BY <1>1, <3>2, OneRoundMore
    <3> QED BY <3>1, <3>2, <3>3
  <2>2. CASE d = N
    <3>1. (N + N) % N = 0
      <4>1. N * 2 = N + N
        BY <1>1
      <4>2. \A a \in Int : (N * a) % N = 0
        BY <1>1
      <4> QED BY <1>1, <4>1, <4>2
    <3> QED BY <2>2, <3>1, <1>1, SmallRemainders
  <2> QED BY <1>1, <2>1, <2>2
<1>9. Ahead(p, d + 1) = Ahead(After(p), d)
  <2>1. p + (d + 1) - 1 = p + d
    BY <1>1
  <2>2. CASE p < N
    BY <1>1, <1>6, <2>2 DEF Ahead, After
  <2>3. CASE p = N
    <3>1. After(p) = 1
      BY <1>1, <1>7, <2>3 DEF After
    <3>2. Ahead(After(p), d) = (d % N) + 1
      BY <1>1, <3>1 DEF Ahead
    <3> QED BY <1>1, <1>8, <2>1, <2>3, <3>2 DEF Ahead
  <2> QED BY <1>1, <2>2, <2>3
<1>10. Ahead(p, N) = p
  BY <1>1, <1>5 DEF Ahead
<1> QED BY <1>3, <1>4, <1>9, <1>10

\* There is a next frame on each port, and only one.
LEMMA FirstExists ==
    ASSUME NEW to \in Ports, NEW p \in Places
    PROVE  \E d \in Places : FirstOn(to, p, d)
<1> DEFINE N == Len(Round)
           q == IF to = "beast" THEN 1 ELSE 2
           S == {d \in Places : Round[Ahead(p, d)].port = to}
<1>1. N \in Nat /\ N >= 7 /\ p \in 1..N /\ q \in 1..2 /\ Round[q].port = to
  BY RoundIs DEF Places, Ports
<1>2. S # {}
  <2> DEFINE d == IF q > p THEN q - p ELSE q - p + N
  <2>1. d \in Places
    BY <1>1 DEF Places
  <2>2. Ahead(p, d) = q
    <3>1. p + d - 1 = IF q > p THEN q - 1 ELSE q + N - 1
      BY <1>1
    <3>2. q - 1 \in Nat /\ q - 1 < N /\ q \in 1..N
      BY <1>1
    <3> HIDE DEF q, d
    <3>3. (q - 1) % N = q - 1
      BY <1>1, <3>2, SmallRemainders
    <3>4. (q + N - 1) % N = q - 1
      BY <1>1, <3>2, OneRoundMore
    <3>5. (p + d - 1) % N = q - 1
      BY <3>1, <3>3, <3>4
    <3>6. (q - 1) + 1 = q
      BY <1>1
    <3> QED BY <3>5, <3>6 DEF Ahead
  <2> HIDE DEF d, q
  <2> QED BY <1>1, <2>1, <2>2
<1>3. S \subseteq Nat
  BY DEF Places
<1> HIDE DEF q
<1>4. PICK d \in S : \A e \in S : d <= e
  <2> HIDE DEF S
  <2> QED BY <1>2, <1>3, LeastOf
<1>5. ASSUME NEW e \in 1..(d - 1) PROVE Round[Ahead(p, e)].port # to
  <2>1. e \in Places /\ ~(d <= e)
    BY <1>1, <1>4 DEF Places
  <2> QED BY <1>4, <2>1
<1> QED BY <1>4, <1>5 DEF FirstOn

\* What is first is what NextOn says.
LEMMA NextIsFirst ==
    ASSUME NEW to \in Ports, NEW p \in Places, NEW d, FirstOn(to, p, d)
    PROVE  NextOn(to, p) = Ahead(p, d)
<1> DEFINE c == CHOOSE x \in Places :
                  Round[Ahead(p, x)].port = to /\ \A e \in 1..(x - 1) : Round[Ahead(p, e)].port # to
<1>1. FirstOn(to, p, c)
  BY DEF FirstOn
<1>2. NextOn(to, p) = Ahead(p, c)
  BY DEF NextOn, Ahead
<1> HIDE DEF c
<1>3. c \in Nat /\ d \in Nat /\ c >= 1 /\ d >= 1
  BY <1>1, RoundIs DEF FirstOn, Places
<1>4. ~(c < d) /\ ~(d < c)
  BY <1>1, <1>3 DEF FirstOn
<1> QED BY <1>2, <1>3, <1>4

\* The next frame on a port is of that port.
LEMMA NextOnPort ==
    ASSUME NEW to \in Ports, NEW p \in Places
    PROVE  NextOn(to, p) \in Places /\ Round[NextOn(to, p)].port = to
<1>1. PICK d \in Places : FirstOn(to, p, d)
  BY FirstExists
<1>2. NextOn(to, p) = Ahead(p, d)
  BY <1>1, NextIsFirst
<1> QED BY <1>1, <1>2, AheadIs DEF FirstOn

\* When run() goes on, the next frame on a port is the one it comes to, or
\* still the same.
LEMMA NextOnAfter ==
    ASSUME NEW to \in Ports, NEW p \in Places
    PROVE  NextOn(to, p) = IF Round[After(p)].port = to THEN After(p) ELSE NextOn(to, After(p))
<1>1. /\ Len(Round) \in Nat /\ Len(Round) >= 7
      /\ 1 \in Places /\ After(p) \in Places /\ Ahead(p, 1) = After(p)
  BY RoundIs, AheadIs DEF Places
<1>2. CASE Round[After(p)].port = to
  <2>1. FirstOn(to, p, 1)
    BY <1>1, <1>2 DEF FirstOn
  <2> QED BY <1>1, <1>2, <2>1, NextIsFirst
<1>3. CASE Round[After(p)].port # to
  <2>1. PICK d \in Places : FirstOn(to, After(p), d)
    BY <1>1, FirstExists
  <2>2. Ahead(After(p), Len(Round)) = After(p)
    BY <1>1, AheadIs
  <2>3. d # Len(Round)
    BY <1>3, <2>1, <2>2 DEF FirstOn
  <2>4. d + 1 \in Places /\ d \in Nat
    BY <1>1, <2>3 DEF Places
  <2>5. Ahead(p, d + 1) = Ahead(After(p), d)
    BY AheadIs
  <2>6. ASSUME NEW e \in 1..((d + 1) - 1) PROVE Round[Ahead(p, e)].port # to
    <3>1. CASE e = 1
      BY <1>1, <1>3, <3>1
    <3>2. CASE e # 1
      <4>1. e - 1 \in 1..(d - 1) /\ e - 1 \in Places /\ (e - 1) + 1 = e
        BY <1>1, <2>4, <3>2 DEF Places
      <4>2. Ahead(p, e) = Ahead(After(p), e - 1)
        BY <4>1, AheadIs
      <4> QED BY <2>1, <4>1, <4>2 DEF FirstOn
    <3> QED BY <3>1, <3>2
  <2>7. FirstOn(to, p, d + 1)
    BY <2>1, <2>4, <2>5, <2>6 DEF FirstOn
  <2>8. NextOn(to, p) = Ahead(p, d + 1) /\ NextOn(to, After(p)) = Ahead(After(p), d)
    BY <1>1, <2>1, <2>7, NextIsFirst
  <2> QED BY <1>3, <2>5, <2>8
<1> QED BY <1>2, <1>3

-----------------------------------------------------------------------------
(* Functions that recur over the positions of a sequence *)

\* Induction from 0 to m, for a set of numbers.
LEMMA InductionTo ==
    ASSUME NEW m \in Nat, NEW G, 0 \in G, \A n \in 0..(m - 1) : n \in G => n + 1 \in G
    PROVE  0..m \subseteq G
<1> DEFINE bad == {n \in 0..m : n \notin G}
<1> SUFFICES ASSUME bad # {} PROVE FALSE
  OBVIOUS
<1>1. bad \subseteq Nat
  OBVIOUS
<1>2. PICK n \in bad : \A k \in bad : n <= k
  <2> HIDE DEF bad
  <2> QED BY <1>1, LeastOf
<1>3. n \in 0..m /\ n \notin G /\ n # 0
  BY <1>2
<1>4. n - 1 \in 0..(m - 1) /\ (n - 1) + 1 = n /\ ~(n <= n - 1)
  BY <1>3
<1>5. n - 1 \in G
  BY <1>2, <1>4
<1> QED BY <1>3, <1>4, <1>5

\* Steps by position that stay within a set.
StepsIn(A, step, m) == step \in [A \X (1..m) -> A]
\* Where they lead.
Follows(f, A, start, step, k) ==
    /\ f \in [0..k -> A] /\ f[0] = start
    /\ \A n \in 1..k : f[n] = step[<<f[n - 1], n>>]

\* What starts in a set and steps within it can be followed to any number.
LEMMA Recursion ==
    ASSUME NEW A, NEW start \in A, NEW m \in Nat, NEW step, StepsIn(A, step, m)
    PROVE  \E f : Follows(f, A, start, step, m)
<1> DEFINE G == {k \in 0..m : \E f : Follows(f, A, start, step, k)}
<1>1. 0 \in G
  <2>1. Follows([n \in 0..0 |-> start], A, start, step, 0)
    BY DEF Follows
  <2> QED BY <2>1
<1>2. ASSUME NEW k \in 0..(m - 1), k \in G PROVE k + 1 \in G
  <2>1. PICK f : Follows(f, A, start, step, k)
    BY <1>2
  <2> DEFINE g == [n \in 0..(k + 1) |-> IF n <= k THEN f[n] ELSE step[<<f[k], k + 1>>]]
  <2>2. k + 1 \in 1..m /\ f[k] \in A
    BY <2>1 DEF Follows
  <2>3. g \in [0..(k + 1) -> A]
    BY <2>1, <2>2 DEF Follows, StepsIn
  <2>4. g[0] = start
    BY <2>1 DEF Follows
  <2>5. ASSUME NEW n \in 1..(k + 1) PROVE g[n] = step[<<g[n - 1], n>>]
    <3>1. CASE n <= k
      <4>1. n \in 1..k /\ g[n] = f[n] /\ g[n - 1] = f[n - 1]
        BY <3>1
      <4> QED BY <2>1, <4>1 DEF Follows
    <3>2. CASE n = k + 1
      <4>1. g[n] = step[<<f[k], k + 1>>] /\ g[n - 1] = f[k]
        BY <3>2
      <4> QED BY <3>2, <4>1
    <3> QED BY <3>1, <3>2
  <2> HIDE DEF g
  <2>6. Follows(g, A, start, step, k + 1)
    BY <2>3, <2>4, <2>5 DEF Follows
  <2> QED BY <2>2, <2>6
<1>3. 0..m \subseteq G
  <2>1. \A k \in 0..(m - 1) : k \in G => k + 1 \in G
    BY <1>2
  <2> HIDE DEF G
  <2> QED BY <1>1, <2>1, InductionTo
<1>4. m \in G
  BY <1>3
<1> QED BY <1>4

\* A client in a list.
In(c, list) == \E i \in 1..Len(list) : list[i] = c
\* A list that has none twice.
Once(list) == \A i, j \in 1..Len(list) : list[i] = list[j] => i = j

\* Another client at the end of a list.
LEMMA InAppend ==
    ASSUME NEW S, NEW list \in Seq(S), NEW x \in S
    PROVE  /\ Append(list, x) \in Seq(S)
           /\ \A c : In(c, Append(list, x)) <=> In(c, list) \/ c = x
           /\ Once(list) /\ ~In(x, list) => Once(Append(list, x))
<1> DEFINE q == Append(list, x)
<1>1. /\ q \in Seq(S) /\ Len(q) = Len(list) + 1 /\ Len(list) \in Nat
      /\ q[Len(list) + 1] = x
      /\ \A i \in 1..Len(list) : q[i] = list[i]
  OBVIOUS
<1> HIDE DEF q
<1>2. \A i \in 1..Len(q) : i \in 1..Len(list) \/ i = Len(list) + 1
  BY <1>1
<1>3. \A c : In(c, q) <=> In(c, list) \/ c = x
  <2>1. ASSUME NEW c, In(c, q) PROVE In(c, list) \/ c = x
    BY <1>1, <1>2, <2>1 DEF In
  <2>2. ASSUME NEW c, In(c, list) PROVE In(c, q)
    <3>1. PICK i \in 1..Len(list) : list[i] = c
      BY <2>2 DEF In
    <3>2. i \in 1..Len(q) /\ q[i] = c
      BY <1>1, <3>1
    <3> QED BY <3>2 DEF In
  <2>3. In(x, q)
    <3>1. Len(list) + 1 \in 1..Len(q)
      BY <1>1
    <3> QED BY <1>1, <3>1 DEF In
  <2> QED BY <2>1, <2>2, <2>3
<1>4. ASSUME Once(list), ~In(x, list) PROVE Once(q)
  <2>1. \A i \in 1..Len(list) : list[i] # x
    BY <1>4 DEF In
  <2> QED BY <1>1, <1>2, <1>4, <2>1 DEF Once
<1> QED BY <1>1, <1>3, <1>4 DEF q

\* A list without its first client.
LEMMA InTail ==
    ASSUME NEW S, NEW list \in Seq(S), list # <<>>, Once(list)
    PROVE  /\ Tail(list) \in Seq(S) /\ Head(list) \in S /\ In(Head(list), list)
           /\ \A c : In(c, Tail(list)) <=> In(c, list) /\ c # Head(list)
           /\ Once(Tail(list))
<1> DEFINE q == Tail(list)
           h == Head(list)
<1>1. /\ q \in Seq(S) /\ Len(list) = Len(q) + 1 /\ Len(q) \in Nat
      /\ list[1] = h /\ h \in S
      /\ \A i \in 1..Len(q) : q[i] = list[i + 1]
  OBVIOUS
<1> HIDE DEF q, h
<1>2. /\ \A i \in 1..Len(q) : i + 1 \in 1..Len(list) /\ i + 1 # 1
      /\ \A i \in 1..Len(list) : i = 1 \/ (i - 1 \in 1..Len(q) /\ (i - 1) + 1 = i)
      /\ 1 \in 1..Len(list)
  BY <1>1
<1>3. In(h, list)
  BY <1>1, <1>2 DEF In
<1>4. ASSUME NEW c, In(c, q) PROVE In(c, list) /\ c # h
  <2>1. PICK i \in 1..Len(q) : q[i] = c
    BY <1>4 DEF In
  <2>2. i + 1 \in 1..Len(list) /\ list[i + 1] = c /\ i + 1 # 1
    BY <1>1, <1>2, <2>1
  <2>3. list[i + 1] # list[1]
    BY <1>2, <2>2 DEF Once
  <2> QED BY <1>1, <2>2, <2>3 DEF In
<1>5. ASSUME NEW c, In(c, list), c # h PROVE In(c, q)
  <2>1. PICK i \in 1..Len(list) : list[i] = c
    BY <1>5 DEF In
  <2>2. i - 1 \in 1..Len(q) /\ (i - 1) + 1 = i
    BY <1>1, <1>2, <1>5, <2>1
  <2> QED BY <1>1, <2>1, <2>2 DEF In
<1>6. Once(q)
  <2> SUFFICES ASSUME NEW i \in 1..Len(q), NEW j \in 1..Len(q), q[i] = q[j] PROVE i = j
    BY DEF Once
  <2>1. i + 1 = j + 1
    BY <1>1, <1>2 DEF Once
  <2> QED BY <2>1
<1> QED BY <1>1, <1>3, <1>4, <1>5, <1>6 DEF q, h

\* A list without those that are gone has the others, each once.
LEMMA WithoutIs ==
    ASSUME NEW S, NEW list \in Seq(S), Once(list), NEW gone
    PROVE  /\ Without(list, gone) \in Seq(S) /\ Once(Without(list, gone))
           /\ \A c : In(c, Without(list, gone)) <=> In(c, list) /\ c \notin gone
<1> DEFINE m == Len(list)
           IsKept(f) == f = [n \in 0..m |->
               IF n = 0 THEN <<>>
               ELSE IF list[n] \in gone THEN f[n - 1] ELSE Append(f[n - 1], list[n])]
           f == CHOOSE g : IsKept(g)
<1>1. m \in Nat /\ list \in [1..m -> S]
  OBVIOUS
<1>2. \E g : IsKept(g)
  <2> DEFINE step == [x \in Seq(S) \X (1..m) |->
                         IF list[x[2]] \in gone THEN x[1] ELSE Append(x[1], list[x[2]])]
  <2>1. step \in [Seq(S) \X (1..m) -> Seq(S)]
    BY <1>1
  <2>2. <<>> \in Seq(S)
    OBVIOUS
  <2>3. \A q \in Seq(S), n \in 1..m :
            step[<<q, n>>] = IF list[n] \in gone THEN q ELSE Append(q, list[n])
    OBVIOUS
  <2> HIDE DEF step
  <2>4. PICK g : Follows(g, Seq(S), <<>>, step, m)
    BY <1>1, <2>1, <2>2, Recursion DEF StepsIn
  <2>5. ASSUME NEW n \in 0..m
        PROVE  g[n] = IF n = 0 THEN <<>>
                      ELSE IF list[n] \in gone THEN g[n - 1] ELSE Append(g[n - 1], list[n])
    <3>1. n # 0 => n \in 1..m /\ n - 1 \in 0..m
      BY <1>1
    <3> QED BY <2>3, <2>4, <3>1 DEF Follows
  <2>6. g = [n \in 0..m |-> g[n]]
    BY <2>4 DEF Follows
  <2> QED BY <2>5, <2>6
<1>3. IsKept(f)
  BY <1>2
<1>4. Without(list, gone) = f[m]
  BY DEF Without
<1> HIDE DEF f
<1>5. f[0] = <<>>
  BY <1>1, <1>3
<1>6. ASSUME NEW n \in 0..(m - 1)
      PROVE  f[n + 1] = IF list[n + 1] \in gone THEN f[n] ELSE Append(f[n], list[n + 1])
  <2>1. n + 1 \in 0..m /\ n + 1 # 0 /\ (n + 1) - 1 = n
    BY <1>1
  <2> QED BY <1>3, <2>1
<1> DEFINE Kept(n) ==
              /\ f[n] \in Seq(S) /\ Once(f[n])
              /\ \A c : In(c, f[n]) <=> c \notin gone /\ \E i \in 1..n : list[i] = c
           G == {n \in 0..m : Kept(n)}
<1>7. 0 \in G
  <2>1. f[0] \in Seq(S) /\ Len(f[0]) = 0
    BY <1>5
  <2>2. \A i \in 1..0 : FALSE
    OBVIOUS
  <2>3. Kept(0)
    BY <2>1, <2>2 DEF Once, In
  <2> HIDE DEF Kept
  <2> QED BY <1>1, <2>3
<1>8. ASSUME NEW n \in 0..(m - 1), n \in G PROVE n + 1 \in G
  <2>1. n + 1 \in 1..m /\ n \in Nat /\ list[n + 1] \in S
    BY <1>1
  <2>2. Kept(n)
    BY <1>8
  <2>3. \A c : (\E i \in 1..(n + 1) : list[i] = c) <=> list[n + 1] = c \/ \E i \in 1..n : list[i] = c
    BY <2>1
  <2>4. CASE list[n + 1] \in gone
    <3>1. f[n + 1] = f[n]
      BY <1>6, <2>4
    <3>2. Kept(n + 1)
      BY <2>2, <2>3, <2>4, <3>1
    <3> QED BY <2>1, <3>2
  <2>5. CASE list[n + 1] \notin gone
    <3> DEFINE q == Append(f[n], list[n + 1])
    <3>1. f[n + 1] = q
      BY <1>6, <2>5
    <3>2. ~In(list[n + 1], f[n])
      <4>1. \A i \in 1..n : list[i] # list[n + 1]
        <5>1. \A i \in 1..n : i \in 1..m /\ i # n + 1
          BY <1>1, <2>1
        <5> QED BY <2>1, <5>1 DEF Once
      <4> QED BY <2>2, <4>1
    <3>3. /\ q \in Seq(S) /\ Once(q)
          /\ \A c : In(c, q) <=> In(c, f[n]) \/ c = list[n + 1]
      <4>1. f[n] \in Seq(S) /\ Once(f[n])
        BY <2>2
      <4> QED BY <2>1, <3>2, <4>1, InAppend
    <3> HIDE DEF q
    <3>4. Kept(n + 1)
      <4>1. f[n + 1] \in Seq(S) /\ Once(f[n + 1])
        BY <3>1, <3>3
      <4>2. \A c : In(c, f[n + 1]) <=> c \notin gone /\ \E i \in 1..(n + 1) : list[i] = c
        BY <2>2, <2>3, <2>5, <3>1, <3>3
      <4> QED BY <4>1, <4>2
    <3> QED BY <2>1, <3>4
  <2> QED BY <2>4, <2>5
<1>9. 0..m \subseteq G
  <2>1. \A n \in 0..(m - 1) : n \in G => n + 1 \in G
    BY <1>8
  <2> HIDE DEF G
  <2> QED BY <1>1, <1>7, <2>1, InductionTo
<1>10. Kept(m)
  <2> HIDE DEF Kept
  <2> QED BY <1>1, <1>9
<1> QED BY <1>4, <1>10 DEF In

-----------------------------------------------------------------------------
(* Where the clients are *)

\* The sender holds a lock in the middle of a list only, a frame is begun
\* anew for every client, and who is to be removed is on that list and
\* has been reset.
SenderInv ==
    /\ ~sending => at = 0 /\ part = 1 /\ dead = {}
    /\ sending => at \in 1..(Len(socks[port]) + 1)
    /\ sending /\ at > Len(socks[port]) => part = 1
    /\ \A c \in dead : side[c] = "reset" /\ In(c, socks[port])

\* A connection is in one place at a time, once, and on its own port.
PlaceInv ==
    /\ \A p \in Ports : Once(socks[p]) /\ Once(backlog[p])
    /\ \A p \in Ports, c \in Clients :
        /\ In(c, socks[p]) <=> conn[c] = "listed" /\ Port[c] = p
        /\ In(c, backlog[p]) <=> conn[c] = "backlog" /\ Port[c] = p
        /\ accepted[p] = c <=> conn[c] = "accepted" /\ Port[c] = p

\* A client that is not listed has been sent nothing, and one that is being
\* sent a frame of which a part is out has got that part.
StreamInv ==
    /\ \A c \in Clients :
        side[c] = "open" /\ conn[c] # "listed" => last[c] = Nothing /\ buffer[c] = <<>>
    /\ InLoop /\ part > 1 /\ side[Target] = "open" =>
          last[Target] # Nothing \/ buffer[Target] # <<>>

\* Constants are what they are for.
LEMMA Constants ==
    /\ Port \in [Clients -> Ports] /\ NoClient \notin Clients
    /\ Parts \in Nat \ {0} /\ Room \in Nat \ {0} /\ 1 \in 1..Parts
  BY FeedAssumption DEF Ports

\* The port of a place, and of the client that is being sent to.
LEMMA TargetIs ==
    ASSUME TypeOK, SenderInv
    PROVE  /\ port \in Ports /\ socks[port] \in Seq(Clients) /\ Len(socks[port]) \in Nat
           /\ InLoop => Target \in Clients /\ at \in 1..Len(socks[port]) /\ In(Target, socks[port])
<1>1. port \in Ports
  BY RoundIs DEF TypeOK, port
<1>2. socks[port] \in Seq(Clients) /\ Len(socks[port]) \in Nat
  BY <1>1 DEF TypeOK
<1>3. ASSUME InLoop PROVE at \in 1..Len(socks[port])
  BY <1>2, <1>3 DEF InLoop, SenderInv, TypeOK
<1> QED BY <1>1, <1>2, <1>3 DEF Target, In

\* Next, action by action.
LEMMA NextCases ==
    ASSUME [Next]_vars
    PROVE  \/ TakeLock \/ SendPart \/ SendPartInVain \/ SendFails \/ Release
           \/ \E p \in Ports : Accept(p) \/ Enlist(p)
           \/ \E c \in Clients : Connect(c) \/ Read(c) \/ Close(c)
           \/ UNCHANGED vars
  BY DEF Next, Send

\* The lists of the initial state are empty.
LEMMA InitHolds == Init => TypeOK /\ SenderInv /\ PlaceInv /\ StreamInv /\ StreamsAreGapless
<1> SUFFICES ASSUME Init PROVE TypeOK /\ SenderInv /\ PlaceInv /\ StreamInv /\ StreamsAreGapless
  OBVIOUS
<1>1. 1 \in Places
  BY RoundIs DEF Places
<1>2. TypeOK
  <2>1. buffer \in [Clients -> Seq(Pieces)] /\ \A c \in Clients : Len(buffer[c]) <= Room
    <3>1. \A c \in Clients : buffer[c] = <<>> /\ Len(buffer[c]) = 0
      BY DEF Init
    <3>2. 0 <= Room
      BY Constants
    <3> QED BY <3>1, <3>2 DEF Init
  <2>2. socks \in [Ports -> Seq(Clients)] /\ backlog \in [Ports -> Seq(Clients)]
    BY DEF Init
  <2>3. place \in Places /\ sending \in BOOLEAN /\ at \in Nat /\ part \in 1..Parts /\ dead = {}
    BY <1>1, Constants DEF Init
  <2>4. /\ accepted \in [Ports -> Clients \cup {NoClient}]
        /\ conn \in [Clients -> {"away", "backlog", "accepted", "listed"}]
        /\ side \in [Clients -> {"open", "closed", "reset"}]
        /\ last \in [Clients -> Pieces \cup {Nothing}]
    BY DEF Init
  <2> QED BY <2>1, <2>2, <2>3, <2>4 DEF TypeOK
<1>3. SenderInv
  <2>1. port \in Ports /\ socks[port] = <<>>
    BY <1>1, RoundIs DEF Init, port
  <2> QED BY <2>1 DEF Init, SenderInv
<1>4. PlaceInv
  <2>1. \A p \in Ports : Len(socks[p]) = 0 /\ Len(backlog[p]) = 0
    BY DEF Init
  <2>2. \A i \in 1..0 : FALSE
    OBVIOUS
  <2>3. \A p \in Ports : Once(socks[p]) /\ Once(backlog[p])
    BY <2>1, <2>2 DEF Once
  <2>4. \A p \in Ports, c \in Clients : ~In(c, socks[p]) /\ ~In(c, backlog[p])
    BY <2>1, <2>2 DEF In
  <2> QED BY <2>3, <2>4, Constants DEF Init, PlaceInv
<1>5. StreamInv
  BY DEF Init, StreamInv, InLoop
<1>6. StreamsAreGapless
  <2>1. \A c \in Clients : Stream(c) = <<>>
    BY DEF Init, Stream
  <2> QED BY <2>1 DEF StreamsAreGapless
<1> QED BY <1>2, <1>3, <1>4, <1>5, <1>6

\* Types are kept.
LEMMA TypeStep == TypeOK /\ SenderInv /\ PlaceInv /\ [Next]_vars => TypeOK'
<1> SUFFICES ASSUME TypeOK, SenderInv, PlaceInv, [Next]_vars PROVE TypeOK'
  OBVIOUS
<1> USE Constants DEF TypeOK
<1>1. CASE TakeLock
  BY <1>1 DEF TakeLock
<1>2. CASE SendPart
  <2>1. /\ Target \in Clients /\ buffer[Target] \in Seq(Pieces)
        /\ [place |-> place, part |-> part] \in Pieces
    BY <1>2, TargetIs DEF SendPart, Pieces
  <2>2. buffer' = [buffer EXCEPT ![Target] = Append(@, [place |-> place, part |-> part])]
    BY <1>2 DEF SendPart
  <2>3. /\ Append(buffer[Target], [place |-> place, part |-> part]) \in Seq(Pieces)
        /\ Len(Append(buffer[Target], [place |-> place, part |-> part])) <= Room
    BY <1>2, <2>1 DEF SendPart
  <2>4. buffer' \in [Clients -> Seq(Pieces)] /\ \A c \in Clients : Len(buffer'[c]) <= Room
    BY <2>1, <2>2, <2>3
  <2>5. at' \in Nat /\ part' \in 1..Parts
    BY <1>2 DEF SendPart, NextPart
  <2> QED BY <1>2, <2>4, <2>5 DEF SendPart, NextPart
<1>3. CASE SendPartInVain
  <2>1. at' \in Nat /\ part' \in 1..Parts
    BY <1>3 DEF SendPartInVain, NextPart
  <2> QED BY <1>3, <2>1 DEF SendPartInVain, NextPart
<1>4. CASE SendFails
  <2>1. Target \in Clients
    BY <1>4, TargetIs DEF SendFails
  <2> QED BY <1>4, <2>1 DEF SendFails
<1>5. CASE Release
  <2>1. place' \in Places
    BY <1>5, AheadIs, RoundIs DEF Release, Places
  <2>2. Without(socks[port], dead) \in Seq(Clients)
    BY TargetIs, WithoutIs DEF PlaceInv
  <2>3. socks' \in [Ports -> Seq(Clients)]
    BY <1>5, <2>2 DEF Release
  <2>4. conn' \in [Clients -> {"away", "backlog", "accepted", "listed"}]
    BY <1>5 DEF Release
  <2> QED BY <1>5, <2>1, <2>3, <2>4 DEF Release
<1>6. ASSUME NEW p \in Ports, Accept(p) PROVE TypeOK'
  <2>1. Head(backlog[p]) \in Clients /\ Tail(backlog[p]) \in Seq(Clients)
    BY <1>6 DEF Accept
  <2> QED BY <1>6, <2>1 DEF Accept, sender
<1>7. ASSUME NEW p \in Ports, Enlist(p) PROVE TypeOK'
  <2>1. accepted[p] \in Clients /\ Append(socks[p], accepted[p]) \in Seq(Clients)
    BY <1>7 DEF Enlist
  <2> QED BY <1>7, <2>1 DEF Enlist, sender
<1>8. ASSUME NEW c \in Clients, Connect(c) PROVE TypeOK'
  <2>1. Append(backlog[Port[c]], c) \in Seq(Clients)
    OBVIOUS
  <2>2. backlog' \in [Ports -> Seq(Clients)]
    BY <1>8, <2>1 DEF Connect
  <2>3. buffer' \in [Clients -> Seq(Pieces)] /\ \A d \in Clients : Len(buffer'[d]) <= Room
    BY <1>8 DEF Connect
  <2> QED BY <1>8, <2>2, <2>3 DEF Connect, sender
<1>9. ASSUME NEW c \in Clients, Read(c) PROVE TypeOK'
  <2>1. /\ Head(buffer[c]) \in Pieces /\ Tail(buffer[c]) \in Seq(Pieces)
        /\ Len(Tail(buffer[c])) <= Room
    BY <1>9 DEF Read
  <2>2. buffer' \in [Clients -> Seq(Pieces)] /\ \A d \in Clients : Len(buffer'[d]) <= Room
    BY <1>9, <2>1 DEF Read
  <2>3. last' \in [Clients -> Pieces \cup {Nothing}]
    BY <1>9, <2>1 DEF Read
  <2> QED BY <1>9, <2>2, <2>3 DEF Read, sender
<1>10. ASSUME NEW c \in Clients, Close(c) PROVE TypeOK'
  <2>1. buffer' \in [Clients -> Seq(Pieces)] /\ \A d \in Clients : Len(buffer'[d]) <= Room
    BY <1>10 DEF Close
  <2> QED BY <1>10, <2>1 DEF Close, sender
<1>11. CASE UNCHANGED vars
  BY <1>11 DEF vars, sender
<1> QED BY <1>1, <1>2, <1>3, <1>4, <1>5, <1>6, <1>7, <1>8, <1>9, <1>10, <1>11, NextCases

\* What the sender works on changes only by itself.
LEMMA SenderStep == TypeOK /\ SenderInv /\ PlaceInv /\ [Next]_vars => SenderInv'
<1> SUFFICES ASSUME TypeOK, SenderInv, PlaceInv, [Next]_vars PROVE SenderInv'
  OBVIOUS
<1>1. /\ at \in Nat /\ part \in 1..Parts /\ Len(socks[port]) \in Nat /\ port \in Ports
      /\ Parts \in Nat
  BY TargetIs, Constants DEF TypeOK
<1>2. CASE TakeLock
  <2>1. UNCHANGED <<port, socks, side, dead>>
    BY <1>2 DEF TakeLock, port
  <2>2. dead = {} /\ part = 1
    BY <1>2 DEF TakeLock, SenderInv
  <2> QED BY <1>1, <1>2, <2>1, <2>2 DEF TakeLock, SenderInv
<1>3. ASSUME InLoop, NextPart,
             \A c \in Clients : side[c] = "reset" => side'[c] = "reset"
      PROVE  SenderInv'
  <2>1. UNCHANGED <<port, socks, dead, sending>>
    BY <1>3 DEF NextPart, port
  <2>2. at \in 1..Len(socks[port]) /\ sending
    BY <1>1, <1>3 DEF InLoop, SenderInv
  <2>3. at' \in 1..(Len(socks[port]) + 1) /\ (at' > Len(socks[port]) => part' = 1)
    BY <1>1, <1>3, <2>2 DEF NextPart
  <2>4. \A c \in dead : side'[c] = "reset" /\ In(c, socks[port])
    BY <1>3 DEF SenderInv, TypeOK
  <2> QED BY <2>1, <2>2, <2>3, <2>4 DEF SenderInv
<1>4. CASE SendPart
  BY <1>3, <1>4 DEF SendPart
<1>5. CASE SendPartInVain
  <2>1. \A c \in Clients : side[c] = "reset" => side'[c] = "reset"
    BY <1>5 DEF SendPartInVain, TypeOK
  <2> QED BY <1>3, <1>5, <2>1 DEF SendPartInVain
<1>6. CASE SendFails
  <2>1. UNCHANGED <<port, socks, side, sending>>
    BY <1>6 DEF SendFails, port
  <2>2. at \in 1..Len(socks[port]) /\ sending /\ In(Target, socks[port])
    BY <1>6, TargetIs DEF SendFails, InLoop
  <2>3. at' \in 1..(Len(socks[port]) + 1) /\ part' = 1
    BY <1>1, <1>6, <2>2 DEF SendFails
  <2>4. \A c \in dead' : side[c] = "reset" /\ In(c, socks[port])
    BY <1>6, <2>2 DEF SendFails, SenderInv
  <2> QED BY <2>1, <2>2, <2>3, <2>4 DEF SenderInv
<1>7. CASE Release
  <2>1. part = 1
    BY <1>1, <1>7 DEF Release, SenderInv
  <2> QED BY <1>7, <2>1 DEF Release, SenderInv
<1>8. ASSUME NEW p \in Ports, Accept(p) PROVE SenderInv'
  BY <1>8 DEF Accept, SenderInv, sender, port
<1>9. ASSUME NEW p \in Ports, Enlist(p) PROVE SenderInv'
  <2>1. UNCHANGED <<port, sender, side>>
    BY <1>9 DEF Enlist, sender, port
  <2>2. CASE sending
    <3>1. p # port
      BY <1>9, <2>2 DEF Enlist, Unlocked
    <3>2. socks'[port] = socks[port]
      BY <1>1, <1>9, <3>1 DEF Enlist, TypeOK
    <3> QED BY <2>1, <2>2, <3>2 DEF SenderInv, sender
  <2>3. CASE ~sending
    BY <2>1, <2>3 DEF SenderInv, sender
  <2> QED BY <2>2, <2>3
<1>10. ASSUME NEW c \in Clients, Connect(c) PROVE SenderInv'
  <2>1. UNCHANGED <<port, sender, socks>>
    BY <1>10 DEF Connect, sender, port
  <2>2. c \notin dead
    BY <1>1, <1>10 DEF Connect, SenderInv, PlaceInv
  <2>3. \A d \in dead : side'[d] = side[d]
    BY <1>10, <2>2 DEF Connect, TypeOK
  <2> QED BY <2>1, <2>3 DEF SenderInv, sender
<1>11. ASSUME NEW c \in Clients, Read(c) PROVE SenderInv'
  BY <1>11 DEF Read, SenderInv, sender, port
<1>12. ASSUME NEW c \in Clients, Close(c) PROVE SenderInv'
  <2>1. UNCHANGED <<port, sender, socks>>
    BY <1>12 DEF Close, sender, port
  <2>2. c \notin dead
    BY <1>12 DEF Close, SenderInv
  <2>3. \A d \in dead : side'[d] = side[d]
    BY <1>12, <2>2 DEF Close, TypeOK
  <2> QED BY <2>1, <2>3 DEF SenderInv, sender
<1>13. CASE UNCHANGED vars
  BY <1>13 DEF vars, sender, SenderInv, port
<1> QED BY <1>2, <1>4, <1>5, <1>6, <1>7, <1>8, <1>9, <1>10, <1>11, <1>12, <1>13, NextCases

\* Clients go from place to place, with their connections.
LEMMA PlaceStep == TypeOK /\ SenderInv /\ PlaceInv /\ [Next]_vars => PlaceInv'
<1> SUFFICES ASSUME TypeOK, SenderInv, PlaceInv, [Next]_vars PROVE PlaceInv'
  OBVIOUS
<1>1. UNCHANGED <<socks, backlog, accepted, conn>> => PlaceInv'
  BY DEF PlaceInv
<1>2. CASE TakeLock \/ SendPart \/ SendPartInVain \/ SendFails
  BY <1>1, <1>2 DEF TakeLock, SendPart, SendPartInVain, SendFails, NextPart
<1>3. CASE Release
  <2>1. port \in Ports /\ socks[port] \in Seq(Clients) /\ Once(socks[port])
    BY TargetIs DEF PlaceInv
  <2> DEFINE q == Without(socks[port], dead)
  <2>2. Once(q) /\ \A c : In(c, q) <=> In(c, socks[port]) /\ c \notin dead
    BY <2>1, WithoutIs
  <2> HIDE DEF q
  <2>3. \A p \in Ports : socks'[p] = IF p = port THEN q ELSE socks[p]
    BY <1>3, <2>1 DEF Release, TypeOK, q
  <2>4. \A c \in Clients : conn'[c] = IF c \in dead THEN "away" ELSE conn[c]
    BY <1>3 DEF Release
  <2>5. \A c \in dead : c \in Clients /\ conn[c] = "listed" /\ Port[c] = port
    BY <2>1 DEF SenderInv, PlaceInv, TypeOK
  <2>6. \A p \in Ports, c \in Clients : In(c, socks'[p]) <=> conn'[c] = "listed" /\ Port[c] = p
    BY <2>2, <2>3, <2>4, <2>5 DEF PlaceInv
  <2>7. UNCHANGED <<backlog, accepted>>
    BY <1>3 DEF Release
  <2>8. \A p \in Ports : Once(socks'[p]) /\ Once(backlog'[p])
    BY <2>2, <2>3, <2>7 DEF PlaceInv
  <2>9. \A p \in Ports, c \in Clients :
           /\ In(c, backlog[p]) <=> conn'[c] = "backlog" /\ Port[c] = p
           /\ accepted[p] = c <=> conn'[c] = "accepted" /\ Port[c] = p
    BY <2>4, <2>5 DEF PlaceInv
  <2> QED BY <2>6, <2>7, <2>8, <2>9 DEF PlaceInv
<1>4. ASSUME NEW p \in Ports, Accept(p) PROVE PlaceInv'
  <2> DEFINE h == Head(backlog[p])
             q == Tail(backlog[p])
  <2>1. /\ h \in Clients /\ In(h, backlog[p]) /\ Once(q)
        /\ \A c : In(c, q) <=> In(c, backlog[p]) /\ c # h
    BY <1>4, InTail DEF Accept, TypeOK, PlaceInv
  <2>2. /\ accepted' = [accepted EXCEPT ![p] = h] /\ accepted[p] = NoClient
        /\ backlog' = [backlog EXCEPT ![p] = q]
        /\ conn' = [conn EXCEPT ![h] = "accepted"] /\ socks' = socks
    BY <1>4 DEF Accept
  <2> HIDE DEF h, q
  <2>3. conn[h] = "backlog" /\ Port[h] = p
    BY <2>1 DEF PlaceInv
  <2>4. \A r \in Ports : /\ backlog'[r] = IF r = p THEN q ELSE backlog[r]
                        /\ accepted'[r] = IF r = p THEN h ELSE accepted[r]
    BY <2>2 DEF TypeOK
  <2>5. \A c \in Clients : conn'[c] = IF c = h THEN "accepted" ELSE conn[c]
    BY <2>2 DEF TypeOK
  <2>6. \A c \in Clients : accepted[p] # c
    BY <2>2, Constants
  <2>7. \A r \in Ports : Once(socks'[r]) /\ Once(backlog'[r])
    BY <2>1, <2>2, <2>4 DEF PlaceInv
  <2>8. ASSUME NEW r \in Ports, NEW c \in Clients
        PROVE  /\ In(c, socks'[r]) <=> conn'[c] = "listed" /\ Port[c] = r
               /\ In(c, backlog'[r]) <=> conn'[c] = "backlog" /\ Port[c] = r
               /\ accepted'[r] = c <=> conn'[c] = "accepted" /\ Port[c] = r
    BY <2>1, <2>2, <2>3, <2>4, <2>5, <2>6 DEF PlaceInv
  <2> QED BY <2>7, <2>8 DEF PlaceInv
<1>5. ASSUME NEW p \in Ports, Enlist(p) PROVE PlaceInv'
  <2> DEFINE h == accepted[p]
             q == Append(socks[p], h)
  <2>1. h \in Clients
    BY <1>5 DEF Enlist, TypeOK
  <2>2. conn[h] = "accepted" /\ Port[h] = p /\ ~In(h, socks[p])
    BY <2>1 DEF PlaceInv
  <2>3. Once(q) /\ \A c : In(c, q) <=> In(c, socks[p]) \/ c = h
    BY <2>1, <2>2, InAppend DEF TypeOK, PlaceInv
  <2>4. /\ socks' = [socks EXCEPT ![p] = q]
        /\ accepted' = [accepted EXCEPT ![p] = NoClient]
        /\ conn' = [conn EXCEPT ![h] = "listed"] /\ backlog' = backlog
    BY <1>5 DEF Enlist
  <2>5. accepted[p] = h
    OBVIOUS
  <2> HIDE DEF h, q
  <2>6. \A r \in Ports : /\ socks'[r] = IF r = p THEN q ELSE socks[r]
                        /\ accepted'[r] = IF r = p THEN NoClient ELSE accepted[r]
    BY <2>4 DEF TypeOK
  <2>7. \A c \in Clients : conn'[c] = IF c = h THEN "listed" ELSE conn[c]
    BY <2>1, <2>4 DEF TypeOK
  <2>8. \A c \in Clients : c # NoClient
    BY Constants
  <2>9. \A r \in Ports : Once(socks'[r]) /\ Once(backlog'[r])
    BY <2>3, <2>4, <2>6 DEF PlaceInv
  <2>10. ASSUME NEW r \in Ports, NEW c \in Clients
         PROVE  /\ In(c, socks'[r]) <=> conn'[c] = "listed" /\ Port[c] = r
                /\ In(c, backlog'[r]) <=> conn'[c] = "backlog" /\ Port[c] = r
                /\ accepted'[r] = c <=> conn'[c] = "accepted" /\ Port[c] = r
    BY <2>1, <2>2, <2>3, <2>4, <2>5, <2>6, <2>7, <2>8 DEF PlaceInv
  <2> QED BY <2>9, <2>10 DEF PlaceInv
<1>6. ASSUME NEW d \in Clients, Connect(d) PROVE PlaceInv'
  <2> DEFINE p == Port[d]
             q == Append(backlog[p], d)
  <2>1. p \in Ports /\ conn[d] = "away" /\ ~In(d, backlog[p])
    BY <1>6, Constants DEF Connect, PlaceInv
  <2>2. Once(q) /\ \A c : In(c, q) <=> In(c, backlog[p]) \/ c = d
    BY <2>1, InAppend DEF TypeOK, PlaceInv
  <2>3. /\ backlog' = [backlog EXCEPT ![p] = q] /\ conn' = [conn EXCEPT ![d] = "backlog"]
        /\ UNCHANGED <<socks, accepted>>
    BY <1>6 DEF Connect
  <2>4. Port[d] = p
    OBVIOUS
  <2> HIDE DEF p, q
  <2>5. \A r \in Ports : backlog'[r] = IF r = p THEN q ELSE backlog[r]
    BY <2>3 DEF TypeOK
  <2>6. \A c \in Clients : conn'[c] = IF c = d THEN "backlog" ELSE conn[c]
    BY <2>3 DEF TypeOK
  <2>7. \A r \in Ports : Once(socks'[r]) /\ Once(backlog'[r])
    BY <2>2, <2>3, <2>5 DEF PlaceInv
  <2>8. ASSUME NEW r \in Ports, NEW c \in Clients
        PROVE  /\ In(c, socks'[r]) <=> conn'[c] = "listed" /\ Port[c] = r
               /\ In(c, backlog'[r]) <=> conn'[c] = "backlog" /\ Port[c] = r
               /\ accepted'[r] = c <=> conn'[c] = "accepted" /\ Port[c] = r
    BY <2>1, <2>2, <2>3, <2>4, <2>5, <2>6 DEF PlaceInv
  <2> QED BY <2>7, <2>8 DEF PlaceInv
<1>7. ASSUME NEW c \in Clients, Read(c) \/ Close(c) PROVE PlaceInv'
  BY <1>1, <1>7 DEF Read, Close
<1>8. CASE UNCHANGED vars
  BY <1>1, <1>8 DEF vars
<1> QED BY <1>2, <1>3, <1>4, <1>5, <1>6, <1>7, <1>8, NextCases

-----------------------------------------------------------------------------
(* What the clients receive *)

\* Nothing is no piece.
LEMMA NothingIs == Nothing \notin Pieces
  BY RoundIs DEF Nothing, Pieces, Places

\* What has been read last comes before what is in the buffer.
LEMMA StreamIs ==
    ASSUME TypeOK, NEW c \in Clients
    PROVE  /\ Stream(c) \in Seq(Pieces)
           /\ last[c] = Nothing => Stream(c) = buffer[c]
           /\ last[c] # Nothing => Stream(c) = <<last[c]>> \o buffer[c] /\ last[c] \in Pieces
           /\ Stream(c) = <<>> <=> last[c] = Nothing /\ buffer[c] = <<>>
  BY DEF TypeOK, Stream

\* A stream without a gap, of which a first piece is known to begin a frame
\* unless pieces before it have been read, up to the one that is due.
Gapless(s, read, due) ==
    s # <<>> =>
       /\ ~read => s[1].part = 1
       /\ \A i \in 1..(Len(s) - 1) : s[i + 1] = PieceAfter(s[i])
       /\ PieceAfter(s[Len(s)]) = due

\* The piece that is due goes on a stream without a gap.
LEMMA GaplessAppend ==
    ASSUME NEW s \in Seq(Pieces), NEW read, NEW due \in Pieces, Gapless(s, read, due),
           s = <<>> => due.part = 1
    PROVE  Gapless(Append(s, due), read, PieceAfter(due))
<1> DEFINE q == Append(s, due)
           n == Len(s)
<1>1. /\ Len(q) = n + 1 /\ n \in Nat /\ q[n + 1] = due /\ \A i \in 1..n : q[i] = s[i]
      /\ s = <<>> <=> n = 0
  OBVIOUS
<1> HIDE DEF q, n
<1>2. ~read => q[1].part = 1
  BY <1>1 DEF Gapless, n
<1>3. ASSUME NEW i \in 1..n PROVE q[i + 1] = PieceAfter(q[i])
  <2>1. CASE i = n
    BY <1>1, <2>1 DEF Gapless, n
  <2>2. CASE i # n
    <3>1. i \in 1..(n - 1) /\ i + 1 \in 1..n
      BY <1>1, <2>2
    <3> QED BY <1>1, <3>1 DEF Gapless, n
  <2> QED BY <2>1, <2>2
<1> QED BY <1>1, <1>2, <1>3 DEF Gapless, q

\* So does a stream of which the first piece is gone.
LEMMA GaplessTail ==
    ASSUME NEW s \in Seq(Pieces), NEW x, NEW read, NEW due, Gapless(<<x>> \o s, read, due)
    PROVE  Gapless(s, TRUE, due)
<1> DEFINE q == <<x>> \o s
           n == Len(s)
<1>1. Len(q) = n + 1 /\ n \in Nat /\ \A i \in 1..n : q[i + 1] = s[i]
  OBVIOUS
<1>2. q # <<>>
  BY <1>1
<1> HIDE DEF q
<1>3. Gapless(q, read, due)
  BY DEF q
<1> SUFFICES ASSUME s # <<>>
             PROVE  /\ \A i \in 1..(n - 1) : s[i + 1] = PieceAfter(s[i])
                    /\ PieceAfter(s[n]) = due
  BY DEF Gapless
<1>4. n >= 1
  OBVIOUS
<1> HIDE DEF n
<1>5. ASSUME NEW i \in 1..(n - 1) PROVE s[i + 1] = PieceAfter(s[i])
  <2>1. i + 1 \in 1..(Len(q) - 1) /\ i \in 1..n /\ i + 1 \in 1..n
    BY <1>1
  <2>2. q[(i + 1) + 1] = PieceAfter(q[i + 1])
    BY <1>2, <1>3, <2>1 DEF Gapless
  <2> QED BY <1>1, <2>1, <2>2
<1>6. PieceAfter(s[n]) = due
  BY <1>1, <1>2, <1>3, <1>4 DEF Gapless
<1> QED BY <1>5, <1>6

\* StreamsAreGapless, client by client.
ClientGapless(c) == side[c] = "open" => Gapless(Stream(c), last[c] # Nothing, Due(c))
\* It is a property of every client.
LEMMA GaplessIs == StreamsAreGapless <=> \A c \in Clients : ClientGapless(c)
  BY DEF StreamsAreGapless, ClientGapless, Gapless

\* Due, of a client at an index of the list.
DueAt(c, i, busy, a, pt, pl) ==
    IF Round[pl].port # Port[c] \/ (busy /\ i < a)
    THEN [place |-> NextOn(Port[c], pl), part |-> 1]
    ELSE [place |-> pl, part |-> IF busy /\ i = a THEN pt ELSE 1]
\* Due, of a client of a list.
DueIn(c, list, busy, a, pt, pl) ==
    DueAt(c, CHOOSE i \in 1..Len(list) : list[i] = c, busy, a, pt, pl)

\* A client that is on a list once is at one index of it.
LEMMA DueAtIndex ==
    ASSUME NEW list, Once(list), NEW i \in 1..Len(list), NEW c, list[i] = c,
           NEW busy, NEW a, NEW pt, NEW pl
    PROVE  DueIn(c, list, busy, a, pt, pl) = DueAt(c, i, busy, a, pt, pl)
<1> DEFINE k == CHOOSE j \in 1..Len(list) : list[j] = c
<1>1. k = i
  BY DEF Once
<1> HIDE DEF k
<1> QED BY <1>1 DEF DueIn, k

\* Without the lock, or on the other port, the list does not matter.
LEMMA DueIdle ==
    ASSUME NEW c, NEW list, NEW busy \in BOOLEAN, NEW a, NEW pt, NEW pl,
           ~busy \/ Round[pl].port # Port[c]
    PROVE  DueIn(c, list, busy, a, pt, pl) =
              IF Round[pl].port # Port[c]
              THEN [place |-> NextOn(Port[c], pl), part |-> 1]
              ELSE [place |-> pl, part |-> 1]
  BY DEF DueIn, DueAt

\* A client that has received something and stays is listed.
LEMMA ReceiverListed ==
    ASSUME TypeOK, PlaceInv, StreamInv, NEW c \in Clients, side[c] = "open", Stream(c) # <<>>
    PROVE  /\ conn[c] = "listed"
           /\ Port[c] = port => \E i \in 1..Len(socks[port]) : socks[port][i] = c
<1>1. conn[c] = "listed"
  BY StreamIs DEF StreamInv
<1>2. In(c, socks[Port[c]])
  BY <1>1, Constants DEF PlaceInv
<1> QED BY <1>1, <1>2 DEF In

\* What is sent is remembered until it is read, and nothing is sent before.
LEMMA StreamStep == TypeOK /\ SenderInv /\ PlaceInv /\ StreamInv /\ [Next]_vars => StreamInv'
<1> SUFFICES ASSUME TypeOK, SenderInv, PlaceInv, StreamInv, [Next]_vars PROVE StreamInv'
  OBVIOUS
<1> DEFINE Unsent(c) == side[c] = "open" /\ conn[c] # "listed" => last[c] = Nothing /\ buffer[c] = <<>>
           Begun == InLoop /\ part > 1 /\ side[Target] = "open" =>
                       last[Target] # Nothing \/ buffer[Target] # <<>>
<1>1. (\A c \in Clients : Unsent(c)') /\ Begun' => StreamInv'
  BY DEF StreamInv
<1>2. (\A c \in Clients : Unsent(c)) /\ Begun
  BY DEF StreamInv
<1>3. port \in Ports /\ (InLoop => Target \in Clients /\ conn[Target] = "listed")
  BY TargetIs DEF PlaceInv
<1>4. CASE TakeLock
  <2>1. part' = 1
    BY <1>4 DEF TakeLock, SenderInv
  <2> QED BY <1>1, <1>2, <1>4, <2>1 DEF TakeLock
<1>5. CASE SendPart
  <2>1. /\ buffer' = [buffer EXCEPT ![Target] = Append(@, [place |-> place, part |-> part])]
        /\ UNCHANGED <<conn, side, last, socks, place, sending>> /\ InLoop
    BY <1>5 DEF SendPart, NextPart
  <2>2. ASSUME NEW c \in Clients PROVE Unsent(c)'
    <3>1. conn[c] # "listed" => buffer'[c] = buffer[c]
      BY <1>3, <2>1 DEF TypeOK
    <3> QED BY <1>2, <2>1, <3>1
  <2>3. Begun'
    <3> SUFFICES ASSUME part' > 1 PROVE buffer'[Target'] # <<>>
      OBVIOUS
    <3>1. at' = at
      BY <1>5 DEF SendPart, NextPart
    <3>2. Target' = Target
      BY <2>1, <3>1 DEF Target, port
    <3>3. buffer'[Target] = Append(buffer[Target], [place |-> place, part |-> part])
      BY <1>3, <2>1 DEF TypeOK
    <3>4. buffer[Target] \in Seq(Pieces)
      BY <1>3, <2>1 DEF TypeOK
    <3>5. Len(buffer'[Target]) = Len(buffer[Target]) + 1 /\ Len(buffer[Target]) \in Nat
      BY <3>3, <3>4
    <3> QED BY <3>2, <3>5
  <2> QED BY <1>1, <2>2, <2>3
<1>6. CASE SendPartInVain
  <2>1. /\ side' = [side EXCEPT ![Target] = "reset"]
        /\ UNCHANGED <<conn, buffer, last, socks, place, sending>> /\ InLoop
    BY <1>6 DEF SendPartInVain, NextPart
  <2>2. \A c \in Clients : side'[c] = "open" => side[c] = "open"
    BY <1>3, <2>1 DEF TypeOK
  <2>3. Begun'
    <3> SUFFICES ASSUME part' > 1 PROVE side'[Target'] # "open"
      OBVIOUS
    <3>1. at' = at
      BY <1>6 DEF SendPartInVain, NextPart
    <3>2. Target' = Target
      BY <2>1, <3>1 DEF Target, port
    <3> QED BY <1>3, <2>1, <3>2 DEF TypeOK
  <2> QED BY <1>1, <1>2, <2>1, <2>2, <2>3
<1>7. CASE SendFails
  <2>1. part' = 1
    BY <1>7 DEF SendFails
  <2> QED BY <1>1, <1>2, <1>7, <2>1 DEF SendFails
<1>8. CASE Release
  <2>1. ~sending' /\ UNCHANGED <<side, last, buffer>>
    BY <1>8 DEF Release
  <2>2. \A c \in Clients : side[c] = "open" => conn'[c] = conn[c]
    BY <1>8 DEF Release, SenderInv
  <2> QED BY <1>1, <1>2, <2>1, <2>2 DEF InLoop
<1>9. ASSUME NEW p \in Ports, Accept(p) PROVE StreamInv'
  <2>1. /\ conn' = [conn EXCEPT ![Head(backlog[p])] = "accepted"] /\ backlog[p] # <<>>
        /\ UNCHANGED <<place, sending, at, part, socks, side, last, buffer>>
    BY <1>9 DEF Accept, sender
  <2>2. Begun'
    BY <1>2, <2>1 DEF InLoop, Target, port
  <2>3. Head(backlog[p]) \in Clients /\ In(Head(backlog[p]), backlog[p])
    BY <2>1, InTail DEF TypeOK, PlaceInv
  <2>4. conn[Head(backlog[p])] = "backlog"
    BY <2>3 DEF PlaceInv
  <2>5. \A c \in Clients : conn'[c] # "listed" => conn[c] # "listed"
    BY <2>1, <2>4 DEF TypeOK
  <2> QED BY <1>1, <1>2, <2>1, <2>2, <2>5
<1>10. ASSUME NEW p \in Ports, Enlist(p) PROVE StreamInv'
  <2>1. /\ conn' = [conn EXCEPT ![accepted[p]] = "listed"]
        /\ socks' = [socks EXCEPT ![p] = Append(@, accepted[p])]
        /\ UNCHANGED <<place, sending, at, part, side, last, buffer>>
        /\ ~(sending /\ port = p)
    BY <1>10 DEF Enlist, Unlocked, sender
  <2>2. Begun'
    <3>1. sending => socks'[port] = socks[port]
      BY <1>3, <2>1 DEF TypeOK
    <3> QED BY <1>2, <2>1, <3>1 DEF InLoop, Target, port
  <2>3. \A c \in Clients : conn'[c] # "listed" => conn[c] # "listed"
    BY <2>1 DEF TypeOK
  <2> QED BY <1>1, <1>2, <2>1, <2>2, <2>3
<1>11. ASSUME NEW d \in Clients, Connect(d) PROVE StreamInv'
  <2>1. /\ conn[d] = "away" /\ UNCHANGED <<place, sending, at, part, socks>>
        /\ conn' = [conn EXCEPT ![d] = "backlog"] /\ side' = [side EXCEPT ![d] = "open"]
        /\ buffer' = [buffer EXCEPT ![d] = <<>>] /\ last' = [last EXCEPT ![d] = Nothing]
    BY <1>11 DEF Connect, sender
  <2>2. \A c \in Clients : c # d => /\ conn'[c] = conn[c] /\ side'[c] = side[c]
                                  /\ buffer'[c] = buffer[c] /\ last'[c] = last[c]
    BY <2>1 DEF TypeOK
  <2>3. buffer'[d] = <<>> /\ last'[d] = Nothing
    BY <2>1 DEF TypeOK
  <2>4. Begun'
    <3>1. Target' = Target /\ (InLoop' <=> InLoop)
      BY <2>1 DEF Target, port, InLoop
    <3> QED BY <1>2, <1>3, <2>1, <2>2, <3>1
  <2> QED BY <1>1, <1>2, <2>2, <2>3, <2>4
<1>12. ASSUME NEW d \in Clients, Read(d) PROVE StreamInv'
  <2>1. /\ UNCHANGED <<place, sending, at, part, socks, conn, side>>
        /\ side[d] = "open" /\ buffer[d] # <<>>
        /\ last' = [last EXCEPT ![d] = Head(buffer[d])]
        /\ buffer' = [buffer EXCEPT ![d] = Tail(@)]
    BY <1>12 DEF Read, sender
  <2>2. \A c \in Clients : c # d => buffer'[c] = buffer[c] /\ last'[c] = last[c]
    BY <2>1 DEF TypeOK
  <2>3. conn[d] = "listed" /\ last'[d] \in Pieces
    BY <1>2, <2>1 DEF TypeOK
  <2>4. Begun'
    <3>1. Target' = Target /\ (InLoop' <=> InLoop)
      BY <2>1 DEF Target, port, InLoop
    <3> QED BY <1>2, <1>3, <2>1, <2>2, <2>3, <3>1, NothingIs
  <2> QED BY <1>1, <1>2, <2>1, <2>2, <2>3, <2>4
<1>13. ASSUME NEW d \in Clients, Close(d) PROVE StreamInv'
  <2>1. /\ UNCHANGED <<place, sending, at, part, socks, conn>>
        /\ side' = [side EXCEPT ![d] = IF buffer[d] = <<>> THEN "closed" ELSE "reset"]
        /\ buffer' = [buffer EXCEPT ![d] = <<>>] /\ last' = [last EXCEPT ![d] = Nothing]
    BY <1>13 DEF Close, sender
  <2>2. \A c \in Clients : c # d => side'[c] = side[c] /\ buffer'[c] = buffer[c] /\ last'[c] = last[c]
    BY <2>1 DEF TypeOK
  <2>3. side'[d] # "open"
    BY <2>1 DEF TypeOK
  <2>4. Begun'
    <3>1. Target' = Target /\ (InLoop' <=> InLoop)
      BY <2>1 DEF Target, port, InLoop
    <3> QED BY <1>2, <1>3, <2>1, <2>2, <2>3, <3>1
  <2> QED BY <1>1, <1>2, <2>1, <2>2, <2>3, <2>4
<1>0. CASE UNCHANGED vars
  BY <1>1, <1>2, <1>0 DEF vars, sender, InLoop, Target, port
<1> QED BY <1>4, <1>5, <1>6, <1>7, <1>8, <1>9, <1>10, <1>11, <1>12, <1>13, <1>0, NextCases

\* What is due to a client, in the terms of the list of the port.
LEMMA DueIs ==
    ASSUME NEW c
    PROVE  /\ Due(c) = DueIn(c, socks[port], sending, at, part, place)
           /\ Due(c)' = DueIn(c, socks'[port'], sending', at', part', place')
  BY DEF Due, DueIn, DueAt, port

\* A client to which nothing happens keeps its stream, if the same piece
\* stays due to it.
LEMMA GaplessKept ==
    ASSUME NEW c \in Clients, ClientGapless(c),
           side'[c] = "open" => side[c] = "open", buffer'[c] = buffer[c], last'[c] = last[c],
           side[c] = "open" /\ Stream(c) # <<>> => Due(c)' = Due(c)
    PROVE  ClientGapless(c)'
<1>1. Stream(c)' = Stream(c)
  BY DEF Stream
<1>2. Gapless(Stream(c), last[c] # Nothing, Due(c))' = Gapless(Stream(c)', last'[c] # Nothing, Due(c)')
  BY DEF Gapless
<1> QED BY <1>1, <1>2 DEF ClientGapless, Gapless

\* The piece that is sent is the one that was due, and then the one after it
\* is due: the next part, or the next frame on the port.
LEMMA SendPartGapless ==
    ASSUME TypeOK, SenderInv, PlaceInv, StreamInv, StreamsAreGapless, SendPart,
           NEW c \in Clients, c = Target
    PROVE  ClientGapless(c)'
<1> DEFINE piece == [place |-> place, part |-> part]
<1>1. /\ Target \in Clients /\ sending /\ InLoop
      /\ socks[port] \in Seq(Clients) /\ In(Target, socks[port])
  BY TargetIs DEF SendPart, InLoop
<1>2. c = Target
  OBVIOUS
<1>3. socks[port][at] = c /\ Port[c] = port /\ Round[place].port = port
  BY <1>1, <1>2, TargetIs DEF PlaceInv, Target, port
<1>4. at \in 1..Len(socks[port]) /\ Once(socks[port]) /\ socks[port][at] = c
  BY <1>1, <1>3, TargetIs DEF PlaceInv
<1>5. /\ buffer' = [buffer EXCEPT ![c] = Append(@, piece)]
      /\ UNCHANGED <<side, last, place, sending, socks, port>>
      /\ part' = (IF part < Parts THEN part + 1 ELSE 1) /\ at' = (IF part < Parts THEN at ELSE at + 1)
      /\ side[c] = "open"
  BY <1>2 DEF SendPart, NextPart, port
<1>6. piece \in Pieces /\ part \in 1..Parts /\ place \in Places
  BY DEF TypeOK, Pieces
<1>7. Due(c) = piece
  <2>1. Due(c) = DueIn(c, socks[port], sending, at, part, place)
    BY DueIs
  <2>2. DueIn(c, socks[port], sending, at, part, place) = DueAt(c, at, sending, at, part, place)
    BY <1>4, DueAtIndex
  <2>3. ~(at < at)
    BY DEF TypeOK
  <2>4. DueAt(c, at, sending, at, part, place) = piece
    BY <1>1, <1>3, <2>3 DEF DueAt
  <2> HIDE DEF piece
  <2> QED BY <2>1, <2>2, <2>4
<1>8. Due(c)' = PieceAfter(piece)
  <2>1. Due(c)' = DueIn(c, socks[port], sending, at', part', place)
    BY <1>5, DueIs
  <2>2. Due(c)' = IF at < at' THEN [place |-> NextOn(port, place), part |-> 1]
                  ELSE [place |-> place, part |-> IF at = at' THEN part' ELSE 1]
    <3>1. DueIn(c, socks[port], sending, at', part', place) = DueAt(c, at, sending, at', part', place)
      BY <1>4, DueAtIndex
    <3> QED BY <1>1, <1>3, <1>4, <2>1, <3>1 DEF DueAt
  <2>3. CASE part < Parts
    <3>1. Due(c)' = [place |-> place, part |-> part + 1]
      BY <1>1, <1>4, <1>5, <2>2, <2>3
    <3>2. PieceAfter(piece) = [place |-> place, part |-> part + 1]
      BY <2>3 DEF PieceAfter
    <3> QED BY <3>1, <3>2
  <2>4. CASE ~(part < Parts)
    <3>1. Due(c)' = [place |-> NextOn(port, place), part |-> 1]
      BY <1>1, <1>4, <1>5, <2>2, <2>4
    <3>2. PieceAfter(piece) = [place |-> NextOn(port, place), part |-> 1]
      BY <1>3, <2>4 DEF PieceAfter
    <3> QED BY <3>1, <3>2
  <2> QED BY <2>3, <2>4
<1>9. Stream(c)' = Append(Stream(c), piece)
  <2>1. buffer'[c] = Append(buffer[c], piece) /\ buffer[c] \in Seq(Pieces)
    BY <1>5 DEF TypeOK
  <2>2. CASE last[c] = Nothing
    <3>1. Stream(c) = buffer[c]
      BY <2>2, StreamIs
    <3>2. Stream(c)' = Append(buffer[c], piece)
      BY <1>5, <1>6, <2>1, <2>2 DEF Stream
    <3> QED BY <3>1, <3>2
  <2>3. CASE last[c] # Nothing
    <3>1. Stream(c) = <<last[c]>> \o buffer[c] /\ last[c] \in Pieces
      BY <2>3, StreamIs
    <3>2. Stream(c)' = <<last[c]>> \o Append(buffer[c], piece)
      BY <1>5, <2>1, <2>3 DEF Stream
    <3>3. ASSUME NEW x \in Pieces, NEW q \in Seq(Pieces), NEW y \in Pieces
          PROVE  <<x>> \o Append(q, y) = Append(<<x>> \o q, y)
      OBVIOUS
    <3> QED BY <1>6, <2>1, <3>1, <3>2, <3>3
  <2> QED BY <2>2, <2>3
<1>10. Gapless(Stream(c), last[c] # Nothing, piece)
  BY <1>5, <1>7, GaplessIs DEF ClientGapless
<1>11. Stream(c) = <<>> => part = 1
  <2>1. Stream(c) = <<>> => last[c] = Nothing /\ buffer[c] = <<>>
    BY StreamIs
  <2>2. ~(part > 1) => part = 1
    BY <1>6, Constants
  <2> QED BY <1>1, <1>2, <1>5, <2>1, <2>2 DEF StreamInv
<1>12. Stream(c) \in Seq(Pieces) /\ (Stream(c) = <<>> => piece.part = 1)
  BY <1>11, StreamIs
<1> HIDE DEF piece
<1>13. Gapless(Append(Stream(c), piece), last[c] # Nothing, PieceAfter(piece))
  BY <1>6, <1>10, <1>12, GaplessAppend
<1> QED BY <1>5, <1>8, <1>9, <1>13 DEF ClientGapless, Gapless

\* When the sender goes on, the same piece stays due to a client that it
\* does not send to.
LEMMA OthersDue ==
    ASSUME TypeOK, SenderInv, PlaceInv, StreamInv, InLoop,
           UNCHANGED <<place, sending, socks>>, at' = at \/ (at' = at + 1 /\ part' = 1),
           NEW c \in Clients, c # Target, side[c] = "open", Stream(c) # <<>>
    PROVE  Due(c)' = Due(c)
<1>1. /\ at \in Nat /\ at' \in Nat /\ port' = port /\ port \in Ports /\ Once(socks[port])
      /\ Round[place].port = port
  BY TargetIs DEF TypeOK, port, PlaceInv
<1>2. CASE Port[c] = port
  <2>1. PICK i \in 1..Len(socks[port]) : socks[port][i] = c
    BY <1>2, ReceiverListed
  <2>2. i # at /\ i \in Nat
    BY <2>1 DEF Target
  <2>3. DueIn(c, socks[port], sending, at, part, place) = DueAt(c, i, sending, at, part, place)
    BY <1>1, <2>1, DueAtIndex
  <2>4. DueIn(c, socks[port], sending, at', part', place) = DueAt(c, i, sending, at', part', place)
    BY <1>1, <2>1, DueAtIndex
  <2>5. DueAt(c, i, sending, at', part', place) = DueAt(c, i, sending, at, part, place)
    <3>1. (i < at' <=> i < at) /\ (i = at' => part' = 1)
      BY <1>1, <2>2
    <3> QED BY <2>2, <3>1 DEF DueAt
  <2> QED BY <1>1, <2>3, <2>4, <2>5, DueIs
<1>3. CASE Port[c] # port
  <2>1. /\ Due(c) = DueIn(c, socks[port], sending, at, part, place)
        /\ Due(c)' = DueIn(c, socks[port], sending, at', part', place)
    BY <1>1, DueIs
  <2> QED BY <1>1, <1>3, <2>1 DEF DueIn, DueAt
<1> QED BY <1>2, <1>3

\* When the lock is taken, what was due is what is sent first.
LEMMA TakeLockDue ==
    ASSUME TypeOK, SenderInv, PlaceInv, StreamInv, TakeLock,
           NEW c \in Clients, side[c] = "open", Stream(c) # <<>>
    PROVE  Due(c)' = Due(c)
<1>1. /\ ~sending /\ at' = 1 /\ part' = 1 /\ UNCHANGED <<place, socks, port>>
      /\ Round[place].port = port /\ Once(socks[port]) /\ sending' = TRUE
  BY TargetIs DEF TakeLock, port, SenderInv, PlaceInv
<1>2. /\ Due(c) = DueIn(c, socks[port], sending, at, part, place)
      /\ Due(c)' = DueIn(c, socks[port], sending', 1, 1, place)
  BY <1>1, DueIs
<1>3. Due(c) = IF port # Port[c] THEN [place |-> NextOn(Port[c], place), part |-> 1]
               ELSE [place |-> place, part |-> 1]
  BY <1>1, <1>2 DEF DueIn, DueAt
<1>4. CASE Port[c] = port
  <2>1. PICK i \in 1..Len(socks[port]) : socks[port][i] = c
    BY <1>4, ReceiverListed
  <2>2. DueIn(c, socks[port], sending', 1, 1, place) = DueAt(c, i, sending', 1, 1, place)
    <3>1. Once(socks[port])
      BY <1>1
    <3> QED BY <2>1, <3>1, DueAtIndex
  <2>3. ~(i < 1)
    BY <2>1
  <2>4. DueAt(c, i, sending', 1, 1, place) = [place |-> place, part |-> 1]
    BY <1>1, <1>4, <2>3 DEF DueAt
  <2> QED BY <1>2, <1>3, <1>4, <2>2, <2>4
<1>5. CASE Port[c] # port
  BY <1>1, <1>2, <1>3, <1>5 DEF DueIn, DueAt
<1> QED BY <1>4, <1>5

\* When the lock is released, every client has the frame, and what is due is
\* of the next frame on its port.
LEMMA ReleaseDue ==
    ASSUME TypeOK, SenderInv, PlaceInv, StreamInv, Release,
           NEW c \in Clients, side[c] = "open", Stream(c) # <<>>
    PROVE  Due(c)' = Due(c)
<1>1. /\ sending /\ at > Len(socks[port]) /\ at \in Nat /\ Len(socks[port]) \in Nat
      /\ Round[place].port = port /\ place \in Places /\ Port[c] \in Ports
  BY TargetIs, Constants DEF Release, port, TypeOK
<1>2. place' = After(place) /\ sending' = FALSE
  BY DEF Release
<1>3. Due(c) = [place |-> NextOn(Port[c], place), part |-> 1]
  <2>1. Due(c) = DueIn(c, socks[port], sending, at, part, place)
    BY DueIs
  <2>2. CASE Port[c] = port
    <3>1. PICK i \in 1..Len(socks[port]) : socks[port][i] = c
      BY <2>2, ReceiverListed
    <3>2. Once(socks[port])
      BY TargetIs DEF PlaceInv
    <3>3. DueIn(c, socks[port], sending, at, part, place) = DueAt(c, i, sending, at, part, place)
      BY <3>1, <3>2, DueAtIndex
    <3>4. i < at
      BY <1>1, <3>1
    <3> QED BY <1>1, <2>1, <3>3, <3>4 DEF DueAt
  <2>3. CASE Port[c] # port
    BY <1>1, <2>1, <2>3 DEF DueIn, DueAt
  <2> QED BY <2>2, <2>3
<1>4. Due(c)' = IF Round[After(place)].port # Port[c]
                THEN [place |-> NextOn(Port[c], After(place)), part |-> 1]
                ELSE [place |-> After(place), part |-> 1]
  <2>1. Due(c)' = DueIn(c, socks'[port'], sending', at', part', After(place))
    BY <1>2, DueIs
  <2> QED BY <1>2, <2>1 DEF DueIn, DueAt
<1>5. NextOn(Port[c], place)
         = IF Round[After(place)].port = Port[c] THEN After(place) ELSE NextOn(Port[c], After(place))
  BY <1>1, NextOnAfter
<1> QED BY <1>3, <1>4, <1>5

\* What a client that is enlisted misses is no part of its stream.
LEMMA EnlistDue ==
    ASSUME TypeOK, NEW p \in Ports, Enlist(p), NEW c \in Clients
    PROVE  Due(c)' = Due(c)
<1>1. /\ UNCHANGED <<place, sending, at, part, port>> /\ ~(sending /\ port = p)
      /\ socks' = [socks EXCEPT ![p] = Append(@, accepted[p])]
  BY DEF Enlist, Unlocked, sender, port
<1>2. /\ Due(c) = DueIn(c, socks[port], sending, at, part, place)
      /\ Due(c)' = DueIn(c, socks'[port], sending, at, part, place)
  BY <1>1, DueIs
<1>3. CASE sending
  <2>1. socks'[port] = socks[port]
    BY <1>1, <1>3 DEF TypeOK
  <2> QED BY <1>2, <2>1
<1>4. CASE ~sending
  BY <1>2, <1>4 DEF DueIn, DueAt
<1> QED BY <1>3, <1>4

\* A client that reads keeps its stream.
LEMMA ReadGapless ==
    ASSUME TypeOK, NEW c \in Clients, ClientGapless(c), Read(c)
    PROVE  ClientGapless(c)'
<1> DEFINE h == Head(buffer[c])
           t == Tail(buffer[c])
<1>1. /\ side[c] = "open" /\ buffer'[c] = t /\ last'[c] = h /\ buffer[c] # <<>>
      /\ UNCHANGED <<place, sending, at, part, socks, port, side>>
  BY DEF Read, TypeOK, sender, port
<1>2. /\ h \in Pieces /\ t \in Seq(Pieces) /\ buffer[c] = <<h>> \o t
      /\ buffer[c] \in Seq(Pieces)
  BY <1>1 DEF TypeOK
<1>3. Due(c)' = Due(c)
  BY <1>1, DueIs
<1> HIDE DEF h, t
<1>4. Stream(c)' = buffer[c] /\ last'[c] # Nothing
  BY <1>1, <1>2, NothingIs DEF Stream
<1>5. Gapless(Stream(c), last[c] # Nothing, Due(c))
  BY <1>1 DEF ClientGapless
<1>6. Gapless(buffer[c], TRUE, Due(c))
  <2>1. CASE last[c] = Nothing
    <3>1. Stream(c) = buffer[c]
      BY <2>1, StreamIs
    <3> QED BY <1>5, <3>1 DEF Gapless
  <2>2. CASE last[c] # Nothing
    <3>1. Stream(c) = <<last[c]>> \o buffer[c]
      BY <2>2, StreamIs
    <3>2. Gapless(<<last[c]>> \o buffer[c], last[c] # Nothing, Due(c))
      BY <1>5, <3>1
    <3> QED BY <1>2, <3>2, GaplessTail
  <2> QED BY <2>1, <2>2
<1> QED BY <1>3, <1>4, <1>6 DEF ClientGapless, Gapless

\* Every step keeps every stream without a gap.
LEMMA GaplessStep ==
    TypeOK /\ SenderInv /\ PlaceInv /\ StreamInv /\ StreamsAreGapless /\ [Next]_vars
       => StreamsAreGapless'
<1> SUFFICES ASSUME TypeOK, SenderInv, PlaceInv, StreamInv, StreamsAreGapless, [Next]_vars,
                    NEW c \in Clients
             PROVE  ClientGapless(c)'
  <2>1. StreamsAreGapless' <=> \A c \in Clients : ClientGapless(c)'
    BY DEF StreamsAreGapless, ClientGapless, Gapless
  <2> QED BY <2>1
<1>1. ClientGapless(c)
  BY GaplessIs
<1>2. CASE TakeLock
  <2>1. UNCHANGED <<side, last, buffer>>
    BY <1>2 DEF TakeLock
  <2> QED BY <1>1, <1>2, <2>1, TakeLockDue, GaplessKept
<1>3. ASSUME InLoop, NextPart, side'[c] = side[c], buffer'[c] = buffer[c], c # Target
      PROVE  ClientGapless(c)'
  <2>1. UNCHANGED <<place, sending, socks, last>> /\ (at' = at \/ (at' = at + 1 /\ part' = 1))
    BY <1>3 DEF NextPart
  <2>2. side[c] = "open" /\ Stream(c) # <<>> => Due(c)' = Due(c)
    BY <1>3, <2>1, OthersDue
  <2> QED BY <1>1, <1>3, <2>1, <2>2, GaplessKept
<1>4. CASE SendPart
  <2>1. CASE c = Target
    BY <1>4, <2>1, SendPartGapless
  <2>2. CASE c # Target
    <3>1. InLoop /\ NextPart /\ side'[c] = side[c] /\ buffer'[c] = buffer[c]
      BY <1>4, <2>2 DEF SendPart, TypeOK
    <3> QED BY <1>3, <2>2, <3>1
  <2> QED BY <2>1, <2>2
<1>5. CASE SendPartInVain
  <2>1. CASE c = Target
    <3>1. side'[c] = "reset"
      BY <1>5, <2>1 DEF SendPartInVain, TypeOK
    <3> QED BY <3>1 DEF ClientGapless
  <2>2. CASE c # Target
    <3>1. InLoop /\ NextPart /\ side'[c] = side[c] /\ buffer'[c] = buffer[c]
      BY <1>5, <2>2 DEF SendPartInVain, TypeOK
    <3> QED BY <1>3, <2>2, <3>1
  <2> QED BY <2>1, <2>2
<1>6. CASE SendFails
  <2>1. /\ UNCHANGED <<place, sending, socks, side, last, buffer>> /\ at' = at + 1 /\ part' = 1
        /\ InLoop /\ side[Target] = "reset"
    BY <1>6 DEF SendFails
  <2>2. CASE side[c] = "open"
    <3>1. Stream(c) # <<>> => Due(c)' = Due(c)
      BY <2>1, <2>2, OthersDue
    <3> QED BY <1>1, <2>1, <3>1, GaplessKept
  <2>3. CASE side[c] # "open"
    BY <2>1, <2>3 DEF ClientGapless
  <2> QED BY <2>2, <2>3
<1>7. CASE Release
  <2>1. UNCHANGED <<side, last, buffer>>
    BY <1>7 DEF Release
  <2> QED BY <1>1, <1>7, <2>1, ReleaseDue, GaplessKept
<1>8. ASSUME NEW p \in Ports, Accept(p) PROVE ClientGapless(c)'
  <2>1. UNCHANGED <<place, sending, at, part, socks, port, side, last, buffer>>
    BY <1>8 DEF Accept, sender, port
  <2>2. Due(c)' = Due(c)
    BY <2>1, DueIs
  <2> QED BY <1>1, <2>1, <2>2, GaplessKept
<1>9. ASSUME NEW p \in Ports, Enlist(p) PROVE ClientGapless(c)'
  <2>1. UNCHANGED <<side, last, buffer>>
    BY <1>9 DEF Enlist
  <2> QED BY <1>1, <1>9, <2>1, EnlistDue, GaplessKept
<1>10. ASSUME NEW d \in Clients, Connect(d) \/ Read(d) \/ Close(d) PROVE ClientGapless(c)'
  <2>1. UNCHANGED <<place, sending, at, part, socks, port>>
    BY <1>10 DEF Connect, Read, Close, sender, port
  <2>2. Due(c)' = Due(c)
    BY <2>1, DueIs
  <2>3. CASE c # d
    <3>1. side'[c] = side[c] /\ last'[c] = last[c] /\ buffer'[c] = buffer[c]
      BY <1>10, <2>3 DEF Connect, Read, Close, TypeOK
    <3> QED BY <1>1, <2>2, <3>1, GaplessKept
  <2>4. CASE c = d /\ Connect(d)
    <3>1. last'[c] = Nothing /\ buffer'[c] = <<>>
      BY <2>4 DEF Connect, TypeOK
    <3>2. Stream(c)' = <<>>
      BY <3>1 DEF Stream
    <3> QED BY <3>2 DEF ClientGapless, Gapless
  <2>5. CASE c = d /\ Read(d)
    BY <1>1, <2>5, ReadGapless
  <2>6. CASE c = d /\ Close(d)
    <3>1. side'[c] # "open"
      BY <2>6 DEF Close, TypeOK
    <3> QED BY <3>1 DEF ClientGapless
  <2> QED BY <1>10, <2>3, <2>4, <2>5, <2>6
<1>11. CASE UNCHANGED vars
  <2>1. UNCHANGED <<place, sending, at, part, socks, port, side, last, buffer>>
    BY <1>11 DEF vars, sender, port
  <2>2. Due(c)' = Due(c)
    BY <2>1, DueIs
  <2> QED BY <1>1, <2>1, <2>2, GaplessKept
<1> QED BY <1>2, <1>4, <1>5, <1>6, <1>7, <1>8, <1>9, <1>10, <1>11, NextCases

\* The inductive invariant: types, the work of the sender, the places of the
\* clients, and what each of them has been sent.
FeedInv == TypeOK /\ SenderInv /\ PlaceInv /\ StreamInv /\ StreamsAreGapless

\* It holds in every state of the feed.
THEOREM FeedInvariant == Spec => []FeedInv
<1>1. Init => FeedInv
  BY InitHolds DEF FeedInv
<1>2. FeedInv /\ [Next]_vars => FeedInv'
  BY TypeStep, SenderStep, PlaceStep, StreamStep, GaplessStep DEF FeedInv
<1> QED BY <1>1, <1>2, PTL DEF Spec

\* Every variable of the feed keeps its type.
THEOREM FeedTypeCorrect == Spec => []TypeOK
<1>1. FeedInv => TypeOK
  BY DEF FeedInv
<1> QED BY <1>1, FeedInvariant, PTL

\* Whatever clients come, go and fail, for any number of them, any size of
\* frame and any buffers, the stream of each is without a gap up to the piece
\* that is due (atc_feed.py 149-171, 224-237).
THEOREM StreamsCorrect == Spec => []StreamsAreGapless
<1>1. FeedInv => StreamsAreGapless
  BY DEF FeedInv
<1> QED BY <1>1, FeedInvariant, PTL

-----------------------------------------------------------------------------
(* Beast frames: escaping, and what a receiver makes of it *)

\* What a receiver holds of a stream of bytes of a set.
Held(B) == [frames : Seq(Seq(B)), escaped : BOOLEAN]
\* It begins with nothing.
Start == [frames |-> <<>>, escaped |-> FALSE]

\* Another byte leaves such a state.
LEMMA TakeHeld ==
    ASSUME NEW B, NEW seen \in Held(B), NEW byte \in B
    PROVE  Take(seen, byte) \in Held(B)
<1> DEFINE F == seen.frames
<1>1. /\ F \in Seq(Seq(B)) /\ seen.escaped \in BOOLEAN
      /\ seen = [frames |-> F, escaped |-> seen.escaped]
  BY DEF Held
<1>2. CASE ~seen.escaped /\ byte = Escape
  BY <1>2 DEF Take, Held
<1>3. CASE seen.escaped /\ byte # Escape
  <2>1. Append(F, <<>>) \in Seq(Seq(B))
    <3>1. <<>> \in Seq(B)
      OBVIOUS
    <3> HIDE DEF F
    <3> QED BY <1>1, <3>1
  <2> QED BY <1>3, <2>1 DEF Take, Held
<1>4. CASE ~(~seen.escaped /\ byte = Escape) /\ ~(seen.escaped /\ byte # Escape)
  <2> DEFINE q == [F EXCEPT ![Len(F)] = Append(@, byte)]
  <2>1. q \in Seq(Seq(B))
    <3>1. Len(F) \in Nat /\ F \in [1..Len(F) -> Seq(B)]
      BY <1>1
    <3>2. ASSUME NEW x \in Seq(B) PROVE Append(x, byte) \in Seq(B)
      OBVIOUS
    <3> HIDE DEF F
    <3>3. q \in [1..Len(F) -> Seq(B)]
      BY <3>1, <3>2
    <3> HIDE DEF q
    <3> QED BY <3>1, <3>3
  <2>2. Take(seen, byte) = [frames |-> q, escaped |-> FALSE]
    BY <1>4 DEF Take
  <2> HIDE DEF q
  <2> QED BY <2>1, <2>2 DEF Held
<1> QED BY <1>2, <1>3, <1>4

\* The receiver goes through a stream byte by byte.
SeenRun(a, stream) ==
    a = [n \in 0..Len(stream) |-> IF n = 0 THEN Start ELSE Take(a[n - 1], stream[n])]

\* There is such a run of every stream, and Seen is its end.
LEMMA SeenExists ==
    ASSUME NEW B, NEW stream \in Seq(B)
    PROVE  \E a : SeenRun(a, stream) /\ Seen(stream) = a[Len(stream)]
<1> DEFINE m == Len(stream)
           step == [x \in Held(B) \X (1..m) |-> Take(x[1], stream[x[2]])]
<1>1. m \in Nat /\ \A n \in 1..m : stream[n] \in B
  OBVIOUS
<1>2. Start \in Held(B)
  BY DEF Start, Held
<1>3. \A x \in Held(B), n \in 1..m : Take(x, stream[n]) \in Held(B)
  BY <1>1, TakeHeld
<1>4. StepsIn(Held(B), step, m)
  BY <1>3 DEF StepsIn
<1>5. \A x \in Held(B), n \in 1..m : step[<<x, n>>] = Take(x, stream[n])
  OBVIOUS
<1> HIDE DEF step, m
<1>6. PICK g : Follows(g, Held(B), Start, step, m)
  BY <1>1, <1>2, <1>4, Recursion
<1>7. ASSUME NEW n \in 0..m PROVE g[n] = IF n = 0 THEN Start ELSE Take(g[n - 1], stream[n])
  <2>1. n # 0 => n \in 1..m /\ n - 1 \in 0..m
    BY <1>1
  <2> QED BY <1>5, <1>6, <2>1 DEF Follows
<1>8. g = [n \in 0..m |-> g[n]]
  BY <1>6 DEF Follows
<1>9. SeenRun(g, stream)
  BY <1>7, <1>8 DEF SeenRun, m
<1> DEFINE a == CHOOSE f : SeenRun(f, stream)
<1>10. SeenRun(a, stream)
  BY <1>9
<1>11. Seen(stream) = a[Len(stream)]
  BY DEF Seen, SeenRun, Start
<1> HIDE DEF a
<1> QED BY <1>10, <1>11

\* A byte at the end of a stream is the last that the receiver takes.
LEMMA SeenAppend ==
    ASSUME NEW B, NEW stream \in Seq(B), NEW byte \in B
    PROVE  Seen(Append(stream, byte)) = Take(Seen(stream), byte)
<1> DEFINE m == Len(stream)
           longer == Append(stream, byte)
<1>1. /\ m \in Nat /\ longer \in Seq(B) /\ Len(longer) = m + 1 /\ longer[m + 1] = byte
      /\ \A n \in 1..m : longer[n] = stream[n]
  OBVIOUS
<1>2. PICK a : SeenRun(a, stream) /\ Seen(stream) = a[m]
  BY SeenExists
<1>3. PICK b : SeenRun(b, longer) /\ Seen(longer) = b[m + 1]
  <2> HIDE DEF longer, m
  <2> QED BY <1>1, SeenExists
<1> HIDE DEF longer
<1>4. \A n \in 0..m : a[n] = IF n = 0 THEN Start ELSE Take(a[n - 1], stream[n])
  BY <1>2 DEF SeenRun
<1>5. \A n \in 0..(m + 1) : b[n] = IF n = 0 THEN Start ELSE Take(b[n - 1], longer[n])
  BY <1>1, <1>3 DEF SeenRun
<1> HIDE DEF m
<1> DEFINE G == {n \in 0..m : a[n] = b[n]}
<1>6. 0 \in G
  BY <1>1, <1>4, <1>5
<1>7. ASSUME NEW n \in 0..(m - 1), n \in G PROVE n + 1 \in G
  <2>1. n + 1 \in 1..m /\ n + 1 \in 0..m /\ n + 1 \in 0..(m + 1) /\ n + 1 # 0 /\ (n + 1) - 1 = n
    BY <1>1
  <2>2. a[n + 1] = Take(a[n], stream[n + 1]) /\ b[n + 1] = Take(b[n], longer[n + 1])
    BY <1>4, <1>5, <2>1
  <2> QED BY <1>1, <1>7, <2>1, <2>2
<1>8. 0..m \subseteq G
  <2>1. \A n \in 0..(m - 1) : n \in G => n + 1 \in G
    BY <1>7
  <2> HIDE DEF G
  <2> QED BY <1>1, <1>6, <2>1, InductionTo
<1>9. a[m] = b[m]
  BY <1>1, <1>8
<1>10. b[m + 1] = Take(b[m], byte)
  <2>1. m + 1 \in 0..(m + 1) /\ m + 1 # 0 /\ (m + 1) - 1 = m
    BY <1>1
  <2> QED BY <1>1, <1>5, <2>1
<1> QED BY <1>2, <1>3, <1>9, <1>10 DEF longer

\* A receiver of nothing has nothing.
LEMMA SeenNothing == Seen(<<>>) = Start
<1>1. <<>> \in Seq({}) /\ Len(<<>>) = 0
  OBVIOUS
<1>2. PICK a : SeenRun(a, <<>>) /\ Seen(<<>>) = a[Len(<<>>)]
  BY <1>1, SeenExists
<1> QED BY <1>1, <1>2 DEF SeenRun

\* What beast() puts out for the first bytes of a payload.
Out(out, payload) ==
    out = [n \in 0..Len(payload) |->
              IF n = 0 THEN <<>>
              ELSE out[n - 1] \o (IF payload[n] = Escape THEN <<Escape, Escape>> ELSE <<payload[n]>>)]

\* It goes through every payload.
LEMMA OutExists ==
    ASSUME NEW B, Escape \in B, NEW payload \in Seq(B)
    PROVE  \E out : /\ Out(out, payload) /\ Stuffed(payload) = out[Len(payload)]
                   /\ \A n \in 0..Len(payload) : out[n] \in Seq(B)
<1> DEFINE m == Len(payload)
           Code(byte) == IF byte = Escape THEN <<Escape, Escape>> ELSE <<byte>>
           step == [x \in Seq(B) \X (1..m) |-> x[1] \o Code(payload[x[2]])]
<1>1. m \in Nat /\ \A n \in 1..m : payload[n] \in B
  OBVIOUS
<1>2. ASSUME NEW x \in Seq(B), NEW n \in 1..m PROVE x \o Code(payload[n]) \in Seq(B)
  <2>1. Code(payload[n]) \in Seq(B)
    BY <1>1
  <2> HIDE DEF Code
  <2> QED BY <2>1
<1>3. StepsIn(Seq(B), step, m)
  <2> HIDE DEF Code
  <2> QED BY <1>2 DEF StepsIn
<1>4. \A x \in Seq(B), n \in 1..m : step[<<x, n>>] = x \o Code(payload[n])
  OBVIOUS
<1>5. <<>> \in Seq(B)
  OBVIOUS
<1> HIDE DEF step, m, Code
<1>6. PICK g : Follows(g, Seq(B), <<>>, step, m)
  BY <1>1, <1>3, <1>5, Recursion
<1>7. ASSUME NEW n \in 0..m PROVE g[n] = IF n = 0 THEN <<>> ELSE g[n - 1] \o Code(payload[n])
  <2>1. n # 0 => n \in 1..m /\ n - 1 \in 0..m
    BY <1>1
  <2> QED BY <1>4, <1>6, <2>1 DEF Follows
<1>8. g = [n \in 0..m |-> g[n]]
  BY <1>6 DEF Follows
<1>9. Out(g, payload)
  BY <1>7, <1>8 DEF Out, m, Code
<1> DEFINE out == CHOOSE f : Out(f, payload)
<1>10. Out(out, payload)
  BY <1>9
<1>11. Stuffed(payload) = out[Len(payload)]
  BY DEF Stuffed, Out
<1> HIDE DEF out
<1>12. ASSUME NEW n \in 0..m PROVE out[n] = IF n = 0 THEN <<>> ELSE out[n - 1] \o Code(payload[n])
  BY <1>10 DEF Out, m, Code
<1> DEFINE G == {n \in 0..m : out[n] \in Seq(B)}
<1>13. 0 \in G
  <2>1. 0 \in 0..m
    BY <1>1
  <2>2. out[0] = <<>>
    BY <1>12, <2>1
  <2> QED BY <1>5, <2>1, <2>2
<1>14. ASSUME NEW n \in 0..(m - 1), n \in G PROVE n + 1 \in G
  <2>1. n + 1 \in 1..m /\ n + 1 \in 0..m /\ n + 1 # 0 /\ (n + 1) - 1 = n
    BY <1>1
  <2>2. out[n + 1] = out[n] \o Code(payload[n + 1])
    BY <1>12, <2>1
  <2> QED BY <1>2, <1>14, <2>1, <2>2
<1>15. 0..m \subseteq G
  <2>1. \A n \in 0..(m - 1) : n \in G => n + 1 \in G
    BY <1>14
  <2> HIDE DEF G
  <2> QED BY <1>1, <1>13, <2>1, InductionTo
<1> QED BY <1>10, <1>11, <1>15 DEF m

\* The frames so far and one with the payload, and no escape is pending.
Ended(frames, payload) == [frames |-> Append(frames, payload), escaped |-> FALSE]

\* An escape outside of one is held back.
LEMMA TakeEscape ==
    ASSUME NEW frames
    PROVE  Take([frames |-> frames, escaped |-> FALSE], Escape) = [frames |-> frames, escaped |-> TRUE]
  BY DEF Take

\* A sequence of two.
LEMMA TwoAppended ==
    ASSUME NEW S, NEW x \in S, NEW y \in S
    PROVE  Append(<<x>>, y) = <<x, y>>
<1> DEFINE a == Append(<<x>>, y)
           b == <<x, y>>
<1>1. a \in Seq(S) /\ Len(a) = 2 /\ a[1] = x /\ a[2] = y
  <2>1. <<x>> \in Seq(S) /\ Len(<<x>>) = 1 /\ <<x>>[1] = x
    OBVIOUS
  <2> QED BY <2>1
<1>2. b \in Seq(S) /\ Len(b) = 2 /\ b[1] = x /\ b[2] = y
  OBVIOUS
<1> HIDE DEF a, b
<1>3. \A i \in 1..2 : a[i] = b[i]
  <2>1. \A i \in 1..2 : i = 1 \/ i = 2
    OBVIOUS
  <2> QED BY <1>1, <1>2, <2>1
<1>4. a = b
  BY <1>1, <1>2, <1>3, SeqEqual
<1> QED BY <1>4 DEF a, b

\* One or two bytes at the end of a stream.
LEMMA BytesAppended ==
    ASSUME NEW B, NEW x \in Seq(B), NEW z \in B
    PROVE  /\ x \o <<z>> = Append(x, z)
           /\ x \o <<z, z>> = Append(Append(x, z), z)
<1>1. \A u \in Seq(B) : u \o <<z>> = Append(u, z)
  OBVIOUS
<1>2. <<z, z>> = <<z>> \o <<z>>
  <2>1. <<z>> \o <<z>> = Append(<<z>>, z)
    OBVIOUS
  <2> QED BY <2>1, TwoAppended
<1>3. x \o (<<z>> \o <<z>>) = (x \o <<z>>) \o <<z>>
  <2>1. <<z>> \in Seq(B)
    OBVIOUS
  <2> QED BY <2>1, ConcatAssociative
<1>4. Append(x, z) \in Seq(B)
  OBVIOUS
<1>5. x \o <<z, z>> = Append(x, z) \o <<z>>
  BY <1>1, <1>2, <1>3
<1>6. Append(x, z) \o <<z>> = Append(Append(x, z), z)
  BY <1>1, <1>4
<1> QED BY <1>1, <1>5, <1>6

\* A byte of the payload, escaped if it must be, goes to the last frame.
LEMMA TakeByte ==
    ASSUME NEW B, NEW frames \in Seq(Seq(B)), NEW x \in Seq(B), NEW byte \in B
    PROVE  /\ byte # Escape => Take(Ended(frames, x), byte) = Ended(frames, Append(x, byte))
           /\ Take(Take(Ended(frames, x), Escape), Escape) = Ended(frames, Append(x, Escape))
<1> DEFINE q == Append(frames, x)
           open == [frames |-> q, escaped |-> TRUE]
<1>1. ASSUME NEW y
      PROVE  [q EXCEPT ![Len(q)] = Append(@, y)] = Append(frames, Append(x, y))
  <2> DEFINE left == [q EXCEPT ![Len(q)] = Append(@, y)]
             right == Append(frames, Append(x, y))
             T == Seq(B) \cup {Append(x, y)}
  <2>1. /\ Len(frames) \in Nat /\ Len(q) = Len(frames) + 1 /\ q \in Seq(T)
        /\ q[Len(q)] = x /\ \A i \in 1..Len(frames) : q[i] = frames[i]
    OBVIOUS
  <2>2. /\ right \in Seq(T) /\ Len(right) = Len(frames) + 1
        /\ right[Len(frames) + 1] = Append(x, y)
        /\ \A i \in 1..Len(frames) : right[i] = frames[i]
    OBVIOUS
  <2> HIDE DEF q, right, T
  <2>3. Len(q) \in 1..Len(q) /\ Append(x, y) \in T
    BY <2>1 DEF T
  <2>4. /\ left \in Seq(T) /\ Len(left) = Len(q)
        /\ \A i \in 1..Len(q) : left[i] = IF i = Len(q) THEN Append(x, y) ELSE q[i]
    BY <2>1, <2>3, ExceptSeq
  <2> HIDE DEF left
  <2>5. \A i \in 1..Len(q) : left[i] = right[i]
    <3>1. \A i \in 1..Len(q) : i # Len(q) => i \in 1..Len(frames)
      BY <2>1
    <3>2. left[Len(q)] = right[Len(q)]
      BY <2>1, <2>2, <2>3, <2>4
    <3>3. \A i \in 1..Len(frames) : i \in 1..Len(q) /\ i # Len(q)
      BY <2>1
    <3>4. \A i \in 1..Len(frames) : left[i] = right[i]
      BY <2>1, <2>2, <2>4, <3>3
    <3> QED BY <3>1, <3>2, <3>4
  <2>6. left = right
    BY <2>1, <2>2, <2>4, <2>5, SeqEqual
  <2> QED BY <2>6 DEF left, right
<1>2. Ended(frames, x) = [frames |-> q, escaped |-> FALSE]
  BY DEF Ended
<1> HIDE DEF q
<1>3. byte # Escape => Take(Ended(frames, x), byte)
                          = [frames |-> [q EXCEPT ![Len(q)] = Append(@, byte)], escaped |-> FALSE]
  BY <1>2 DEF Take
<1>4. Take(Ended(frames, x), Escape) = open
  BY <1>2, TakeEscape
<1>5. Take(open, Escape) = [frames |-> [q EXCEPT ![Len(q)] = Append(@, Escape)], escaped |-> FALSE]
  BY DEF Take
<1> QED BY <1>1, <1>3, <1>4, <1>5 DEF Ended

\* The start of a frame, and the payload after it, byte by byte.
LEMMA FrameSeen ==
    ASSUME NEW B, {Escape, LongFrame} \subseteq B, NEW stream \in Seq(B), NEW payload \in Seq(B),
           NEW frames \in Seq(Seq(B)), Seen(stream) = [frames |-> frames, escaped |-> FALSE]
    PROVE  /\ stream \o Beast(payload) \in Seq(B)
           /\ Seen(stream \o Beast(payload)) = Ended(frames, payload)
<1> DEFINE m == Len(payload)
           r == Append(Append(stream, Escape), LongFrame)
<1>1. m \in Nat /\ r \in Seq(B) /\ Append(stream, Escape) \in Seq(B)
  OBVIOUS
<1>0. \A p, q, w \in Seq(B) : (p \o q) \o w = p \o (q \o w)
  BY ConcatAssociative
<1>2. Seen(r) = Ended(frames, <<>>)
  <2>1. Seen(Append(stream, Escape)) = [frames |-> frames, escaped |-> TRUE]
    <3>1. Seen(Append(stream, Escape)) = Take(Seen(stream), Escape)
      BY SeenAppend
    <3> QED BY <3>1, TakeEscape
  <2>2. Seen(r) = Take(Seen(Append(stream, Escape)), LongFrame)
    BY <1>1, SeenAppend
  <2> QED BY <2>1, <2>2, SquitterAssumption DEF Take, Ended
<1>3. PICK out : /\ Out(out, payload) /\ Stuffed(payload) = out[m]
                 /\ \A n \in 0..m : out[n] \in Seq(B)
  BY OutExists
<1>4. \A n \in 0..m : out[n] = IF n = 0 THEN <<>>
                              ELSE out[n - 1] \o (IF payload[n] = Escape THEN <<Escape, Escape>>
                                                  ELSE <<payload[n]>>)
  BY <1>3 DEF Out
<1>5. stream \o Beast(payload) = r \o out[m]
  <2>1. out[m] \in Seq(B)
    BY <1>1, <1>3
  <2>2. ASSUME NEW q \in Seq(B)
        PROVE  stream \o (<<Escape, LongFrame>> \o q) = Append(Append(stream, Escape), LongFrame) \o q
    OBVIOUS
  <2> QED BY <1>3, <2>1, <2>2 DEF Beast
<1> HIDE DEF r
<1> DEFINE First(n) == SubSeq(payload, 1, n)
           G == {n \in 0..m : Seen(r \o out[n]) = Ended(frames, First(n))}
<1>6. 0 \in G
  <2>1. 0 \in 0..m
    BY <1>1
  <2>2. out[0] = <<>>
    BY <1>4, <2>1
  <2>3. r \o <<>> = r /\ First(0) = <<>>
    BY <1>1
  <2> QED BY <1>2, <2>1, <2>2, <2>3
<1>7. ASSUME NEW n \in 0..(m - 1), n \in G PROVE n + 1 \in G
  <2> DEFINE b == payload[n + 1]
             s == r \o out[n]
  <2>1. n + 1 \in 1..m /\ n + 1 \in 0..m /\ n + 1 # 0 /\ (n + 1) - 1 = n /\ n \in 0..m
    BY <1>1
  <2>2. b \in B /\ out[n] \in Seq(B) /\ s \in Seq(B)
    BY <1>1, <1>3, <2>1
  <2>3. First(n) \in Seq(B) /\ First(n + 1) = Append(First(n), b)
    BY <2>1
  <2>4. Seen(s) = Ended(frames, First(n))
    BY <1>7
  <2>5. out[n + 1] = out[n] \o (IF b = Escape THEN <<Escape, Escape>> ELSE <<b>>)
    BY <1>4, <2>1
  <2> HIDE DEF First
  <2>6. CASE b # Escape
    <3>1. r \o out[n + 1] = Append(s, b)
      <4> DEFINE y == out[n]
      <4>1. out[n + 1] = y \o <<b>>
        BY <2>5, <2>6
      <4>2. y \in Seq(B)
        BY <2>2
      <4>3. s \in Seq(B) /\ b \in B /\ <<b>> \in Seq(B)
        BY <2>2
      <4> HIDE DEF b, y
      <4>4. r \o (y \o <<b>>) = (r \o y) \o <<b>>
        <5> DEFINE t == <<b>>
        <5>1. r \in Seq(B) /\ t \in Seq(B)
          BY <1>1, <4>3
        <5> HIDE DEF t
        <5>2. (r \o y) \o t = r \o (y \o t)
          BY <4>2, <5>1, <1>0
        <5> QED BY <5>2 DEF t
      <4>5. s = r \o y
        BY DEF y
      <4> HIDE DEF s
      <4>6. s \o <<b>> = Append(s, b)
        BY <4>3, BytesAppended
      <4> QED BY <4>1, <4>4, <4>5, <4>6
    <3>2. Seen(Append(s, b)) = Take(Seen(s), b)
      BY <2>2, SeenAppend
    <3>3. Take(Ended(frames, First(n)), b) = Ended(frames, Append(First(n), b))
      BY <2>2, <2>3, <2>6, TakeByte
    <3> QED BY <2>1, <2>3, <2>4, <3>1, <3>2, <3>3
  <2>7. CASE b = Escape
    <3>1. r \o out[n + 1] = Append(Append(s, Escape), Escape)
      <4> DEFINE y == out[n]
      <4>1. out[n + 1] = y \o <<Escape, Escape>>
        BY <2>5, <2>7
      <4>2. y \in Seq(B)
        BY <2>2
      <4>3. s \in Seq(B) /\ Escape \in B /\ <<Escape, Escape>> \in Seq(B)
        BY <2>2
      <4> HIDE DEF b, y
      <4>4. r \o (y \o <<Escape, Escape>>) = (r \o y) \o <<Escape, Escape>>
        <5> DEFINE t == <<Escape, Escape>>
        <5>1. r \in Seq(B) /\ t \in Seq(B)
          BY <1>1, <4>3
        <5> HIDE DEF t
        <5>2. (r \o y) \o t = r \o (y \o t)
          BY <4>2, <5>1, <1>0
        <5> QED BY <5>2 DEF t
      <4>5. s = r \o y
        BY DEF y
      <4> HIDE DEF s
      <4>6. s \o <<Escape, Escape>> = Append(Append(s, Escape), Escape)
        BY <4>3, BytesAppended
      <4> QED BY <4>1, <4>4, <4>5, <4>6
    <3>2. Append(s, Escape) \in Seq(B)
      BY <2>2
    <3>3. Seen(Append(s, Escape)) = Take(Seen(s), Escape)
      BY <2>2, SeenAppend
    <3>4. Seen(Append(Append(s, Escape), Escape)) = Take(Seen(Append(s, Escape)), Escape)
      BY <3>2, SeenAppend
    <3>5. Take(Take(Ended(frames, First(n)), Escape), Escape) = Ended(frames, Append(First(n), Escape))
      BY <2>3, TakeByte
    <3> QED BY <2>1, <2>3, <2>4, <2>7, <3>1, <3>3, <3>4, <3>5
  <2> QED BY <2>6, <2>7
<1>8. 0..m \subseteq G
  <2>1. \A n \in 0..(m - 1) : n \in G => n + 1 \in G
    BY <1>7
  <2> HIDE DEF G
  <2> QED BY <1>1, <1>6, <2>1, InductionTo
<1>9. Seen(r \o out[m]) = Ended(frames, First(m))
  BY <1>1, <1>8
<1>10. First(m) = payload
  OBVIOUS
<1>11. r \o out[m] \in Seq(B)
  BY <1>1, <1>3
<1> QED BY <1>5, <1>9, <1>10, <1>11

\* Frames with any two payloads are told apart and kept.
THEOREM AllFramesKept ==
    ASSUME NEW S, NEW p \in Seq(S), NEW q \in Seq(S)
    PROVE  FramesKept(p, q)
<1> DEFINE B == S \cup {Escape, LongFrame}
<1>1. /\ p \in Seq(B) /\ q \in Seq(B) /\ <<>> \in Seq(B) /\ <<>> \in Seq(Seq(B))
      /\ {Escape, LongFrame} \subseteq B
  OBVIOUS
<1> HIDE DEF B
<1>2. Seen(<<>>) = [frames |-> <<>>, escaped |-> FALSE]
  BY SeenNothing DEF Start
<1>3. <<>> \o Beast(p) \in Seq(B) /\ Seen(<<>> \o Beast(p)) = Ended(<<>>, p)
  BY <1>1, <1>2, FrameSeen
<1>4. Beast(p) \in Seq(B) /\ <<>> \o Beast(p) = Beast(p)
  <2>1. PICK out : Stuffed(p) = out[Len(p)] /\ \A n \in 0..Len(p) : out[n] \in Seq(B)
    BY <1>1, OutExists
  <2>2. Len(p) \in 0..Len(p)
    BY <1>1
  <2>3. Stuffed(p) \in Seq(B)
    BY <2>1, <2>2
  <2>4. Beast(p) \in Seq(B)
    BY <1>1, <2>3 DEF Beast
  <2> QED BY <2>4
<1>5. Append(<<>>, p) = <<p>> /\ <<p>> \in Seq(Seq(B))
  BY <1>1
<1>6. Seen(Beast(p)) = [frames |-> <<p>>, escaped |-> FALSE]
  BY <1>3, <1>4, <1>5 DEF Ended
<1>7. Seen(Beast(p) \o Beast(q)) = Ended(<<p>>, q)
  BY <1>1, <1>4, <1>5, <1>6, FrameSeen
<1>8. Append(<<p>>, q) = <<p, q>>
  BY <1>1, TwoAppended
<1> QED BY <1>7, <1>8 DEF FramesKept, Received, Ended

-----------------------------------------------------------------------------
(* Altitudes and speeds *)

\* The Q bit and the four bits under it, below the upper ones.
LEMMA QBitApart ==
    ASSUME NEW high \in Int, NEW low \in Int, 0 <= low, low < 16
    PROVE  /\ (high * 32 + 16 + low) \div 32 = high
           /\ (high * 32 + 16 + low) % 16 = low
           /\ ((high * 32 + 16 + low) \div 16) % 2 = 1
<1>1. (high * 32 + 16 + low) \div 32 = high
  OBVIOUS
<1>2. (high * 32 + 16 + low) % 16 = low
  OBVIOUS
<1>3. ((high * 32 + 16 + low) \div 16) % 2 = 1
  OBVIOUS
<1> QED BY <1>1, <1>2, <1>3

\* The seven upper bits of eleven.
LEMMA SevenBits ==
    ASSUME NEW high \in Int, 0 <= high, high < 128
    PROVE  high % 128 = high
OBVIOUS

\* An altitude that the field can say is kept to its step.
THEOREM AllAltitudesKept ==
    ASSUME NEW feet \in Int, -1000 <= feet, feet < 50200
    PROVE  AltitudeKept(feet)
<1> DEFINE n == (feet + 1000) \div 25
           high == n \div 16
           low == n % 16
<1>1. n \in Int /\ 0 <= n /\ n < 2048 /\ feet + 1000 - 25 * n \in 0..24
  OBVIOUS
<1> HIDE DEF n
<1>2. /\ high \in Int /\ 0 <= high /\ high < 128
      /\ low \in Int /\ 0 <= low /\ low < 16 /\ n = 16 * high + low
  BY <1>1
<1>3. EncodeAltitude(feet) = (high % 128) * 32 + 16 + low
  BY DEF EncodeAltitude, UpperBits, n
<1> HIDE DEF high, low
<1>4. high % 128 = high
  BY <1>2, SevenBits
<1> DEFINE field == high * 32 + 16 + low
<1>5. field \div 32 = high /\ field % 16 = low /\ (field \div 16) % 2 = 1
  BY <1>2, QBitApart
<1>6. field < 4096
  BY <1>2
<1>7. EncodeAltitude(feet) = field
  BY <1>3, <1>4
<1> HIDE DEF field
<1>8. DecodeAltitude(field) = 25 * (high * 16 + low) - 1000
  BY <1>5 DEF DecodeAltitude
<1>9. feet - DecodeAltitude(field) \in 0..24
  <2>1. DecodeAltitude(field) = 25 * n - 1000
    BY <1>2, <1>8
  <2> QED BY <1>1, <2>1
<1> QED BY <1>5, <1>6, <1>7, <1>9 DEF AltitudeKept

\* Every speed is kept, or said to be the fastest in its direction.
THEOREM AllSpeedsKept ==
    ASSUME NEW v \in Int
    PROVE  SpeedKept(v)
<1> DEFINE field == EncodeSpeed(v)
           s == Magnitude(v)
           n == IF s <= 1022 THEN s ELSE 1022
<1>1. s \in Nat /\ (v < 0 => v = -s) /\ (~(v < 0) => v = s)
  BY DEF Magnitude
<1>2. field.size - 1 = n
  <2>1. field.size = IF s + 1 > 1023 THEN 1023 ELSE s + 1
    BY <1>1 DEF EncodeSpeed
  <2> HIDE DEF s, field
  <2> QED BY <1>1, <2>1
<1>3. v < 0 => field.minus
  BY Zenon DEF EncodeSpeed
<1>4. ~(v < 0) => ~field.minus
  BY Zenon DEF EncodeSpeed
<1>5. DecodeSpeed(field) = n * (IF field.minus THEN -1 ELSE 1)
  <2> HIDE DEF n, field
  <2> QED BY <1>2, Zenon DEF DecodeSpeed
<1>6. (v < 0 => DecodeSpeed(field) = n * (-1)) /\ (~(v < 0) => DecodeSpeed(field) = n * 1)
  <2> HIDE DEF n, field
  <2> QED BY <1>3, <1>4, <1>5, Zenon
<1> DEFINE back == DecodeSpeed(field)
<1>7. (v < 0 => back = -n) /\ (~(v < 0) => back = n)
  <2> HIDE DEF back, field, s
  <2>1. n \in Nat
    BY <1>1
  <2> HIDE DEF n
  <2>2. n * (-1) = -n /\ n * 1 = n
    BY <2>1
  <2> QED BY <1>6, <2>2, Zenon DEF back
<1>8. SpeedKept(v) <=> IF s <= 1022 THEN back = v ELSE back * v > 0 /\ Magnitude(back) = 1022
  BY Zenon DEF SpeedKept
<1> HIDE DEF back, field, s
<1>9. CASE s <= 1022
  BY <1>1, <1>7, <1>8, <1>9
<1>10. CASE ~(s <= 1022)
  <2>1. (v < 0 => back = -1022) /\ (~(v < 0) => back = 1022)
    BY <1>7, <1>10
  <2>2. Magnitude(back) = 1022
    BY <2>1 DEF Magnitude
  <2>3. back * v > 0
    <3>1. CASE v < 0
      BY <2>1, <3>1
    <3>2. CASE ~(v < 0)
      <4>1. v > 0
        BY <1>1, <1>10, <3>2
      <4> QED BY <2>1, <3>2, <4>1
    <3> QED BY <3>1, <3>2
  <2> QED BY <1>8, <1>10, <2>2, <2>3
<1> QED BY <1>9, <1>10

\* The feed runs with one of the samples.
LEMMA SampleKept == MCSpec => [](sample \in -1050..1050)
<1>1. MCInit => sample \in -1050..1050
  BY DEF MCInit
<1>2. sample \in -1050..1050 /\ [MCNext]_<<vars, sample>> => (sample \in -1050..1050)'
  BY DEF MCNext
<1> QED BY <1>1, <1>2, PTL DEF MCSpec

\* What a receiver decodes is what was sent, for every sample: payloads with
\* escapes anywhere, altitudes and speeds (atc_feed.py 70-72, 106-127).
THEOREM SquittersCorrect == MCSpec => []SquittersKeepContent
<1>1. ASSUME sample \in -1050..1050 PROVE SquittersKeepContent
  <2> DEFINE S == {0, Escape, LongFrame}
  <2>1. ASSUME NEW k \in Nat \ {0} PROVE Byte(k) \in S
    <3> DEFINE j == ((Magnitude(sample) \div k) % 3) + 1
    <3>1. Magnitude(sample) \in Nat
      BY <1>1 DEF Magnitude
    <3>2. Magnitude(sample) \div k \in Int
      BY <3>1
    <3>3. j \in {1, 2, 3}
      BY <3>2
    <3>4. Byte(k) = <<0, Escape, LongFrame>>[j]
      BY DEF Byte
    <3> HIDE DEF j
    <3> QED BY <3>3, <3>4
  <2> HIDE DEF S
  <2>2. /\ <<Byte(1), Byte(3), Byte(9)>> \in Seq(S)
        /\ <<Byte(27), Byte(81), Byte(243)>> \in Seq(S)
    BY <2>1
  <2>3. FramesKept(<<Byte(1), Byte(3), Byte(9)>>, <<Byte(27), Byte(81), Byte(243)>>)
    BY <2>2, AllFramesKept
  <2>4. sample \in Int /\ -1050 <= sample /\ sample <= 1050
    BY <1>1
  <2>5. AltitudeKept(23 * sample + 24500)
    <3>1. /\ 23 * sample + 24500 \in Int
          /\ -1000 <= 23 * sample + 24500 /\ 23 * sample + 24500 < 50200
      BY <2>4
    <3> QED BY <3>1, AllAltitudesKept
  <2>6. SpeedKept(sample)
    BY <2>4, AllSpeedsKept
  <2> QED BY <2>3, <2>5, <2>6 DEF SquittersKeepContent
<1> QED BY <1>1, SampleKept, PTL
=============================================================================
