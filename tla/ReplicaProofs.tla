----------------------------- MODULE ReplicaProofs ----------------------------
(***************************************************************************)
(* The followers' copies of the lock table: what is ahead of a follower,   *)
(* in its queue and still to be written by the master, turns its copy into *)
(* the master's table.  What a step adds at one end of it, or takes away   *)
(* at the other, is followed by the lemmas below.                          *)
(***************************************************************************)
EXTENDS RegistryProofs, DlockReplicas, WellFoundedInduction

-----------------------------------------------------------------------------
(* What AfterAll computes.  Induction is over the least number for which   *)
(* a fact does not hold.                                                   *)

\* A set of numbers has a least one.
LEMMA LeastNumber ==
    ASSUME NEW T, T \subseteq Nat, T # {}
    PROVE  \E x \in T : \A y \in T : x <= y
  <1>1. PICK x \in T : \A y \in T : ~(<<y, x>> \in OpToRel(<, Nat))
    BY NatLessThanWellFounded, WFMin
  <1>2. \A y \in T : ~(y < x)
    BY <1>1 DEF OpToRel
  <1>3. QED BY <1>2

\* A set that has 0, and the next of each of its numbers up to k, has them all.
LEMMA UpTo ==
    ASSUME NEW k \in Nat, NEW T, 0 \in T, \A i \in 0..(k - 1) : i \in T => i + 1 \in T
    PROVE  \A i \in 0..k : i \in T
  <1> SUFFICES ASSUME (0..k) \ T # {} PROVE FALSE
    OBVIOUS
  <1>0. PICK S : S = (0..k) \ T
    OBVIOUS
  <1>1. PICK x \in S : \A y \in S : x <= y
    <2>1. S \subseteq Nat /\ S # {}
      BY <1>0
    <2>2. QED BY <2>1, LeastNumber
  <1>2. x # 0 /\ x - 1 \in 0..(k - 1) /\ x - 1 \in 0..k
    BY <1>0, <1>1
  <1>3. x - 1 \in T
    BY <1>0, <1>1, <1>2
  <1>4. x \in T
    BY <1>0, <1>1, <1>2, <1>3
  <1>5. QED BY <1>0, <1>1, <1>4

\* The records the follower n has of l after each of the writes a.
Course(n, l, u, a, g, k) ==
    g = [i \in 0..k |-> IF i = 0 THEN u ELSE After(n, l, g[i - 1], a[i])]

\* There is a course of any finite number of writes.
LEMMA CourseExists ==
    ASSUME NEW n, NEW l, NEW u, NEW a, Len(a) \in Nat
    PROVE  \E g : Course(n, l, u, a, g, Len(a))
  <1> DEFINE T == {k \in Nat : \E g : Course(n, l, u, a, g, k)}
  <1>1. 0 \in T
    <2>1. PICK g : g = [i \in 0..0 |-> u]
      OBVIOUS
    <2>2. g = [i \in 0..0 |-> IF i = 0 THEN u ELSE After(n, l, g[i - 1], a[i])]
      BY <2>1
    <2>3. QED BY <2>2 DEF Course
  <1>2. ASSUME NEW k \in Nat, k \in T PROVE k + 1 \in T
    <2>1. PICK g : Course(n, l, u, a, g, k)
      BY <1>2
    <2>2. PICK h : h = [i \in 0..(k + 1) |-> IF i <= k THEN g[i]
                                             ELSE After(n, l, g[k], a[k + 1])]
      OBVIOUS
    <2>3. \A i \in 0..k : g[i] = IF i = 0 THEN u ELSE After(n, l, g[i - 1], a[i])
      BY <2>1 DEF Course
    <2>4. \A i \in 0..k : h[i] = g[i] /\ i \in 0..(k + 1)
      BY <2>2
    <2>5. h[k + 1] = After(n, l, g[k], a[k + 1])
      BY <2>2
    <2>6. \A i \in 0..(k + 1) :
             h[i] = IF i = 0 THEN u ELSE After(n, l, h[i - 1], a[i])
      <3> SUFFICES ASSUME NEW i \in 0..(k + 1)
                   PROVE  h[i] = IF i = 0 THEN u ELSE After(n, l, h[i - 1], a[i])
        OBVIOUS
      <3>1. CASE i = k + 1
        <4>1. k \in 0..k /\ i - 1 = k /\ i # 0
          BY <3>1
        <4>2. QED BY <2>4, <2>5, <3>1, <4>1
      <3>2. CASE i # k + 1 /\ i # 0
        <4>1. i \in 0..k /\ i - 1 \in 0..k
          BY <3>2
        <4>2. QED BY <2>3, <2>4, <3>2, <4>1
      <3>3. CASE i = 0
        BY <2>3, <2>4, <3>3
      <3>4. QED BY <3>1, <3>2, <3>3
    <2>7. h = [i \in 0..(k + 1) |-> IF i = 0 THEN u ELSE After(n, l, h[i - 1], a[i])]
      BY <2>2, <2>6
    <2>8. QED BY <2>7 DEF Course
  <1> HIDE DEF T
  <1>3. \A i \in 0..Len(a) : i \in T
    <2>1. PICK k \in Nat : k = Len(a)
      OBVIOUS
    <2>2. \A i \in 0..(k - 1) : i \in T => i + 1 \in T
      BY <1>2
    <2>3. \A i \in 0..k : i \in T
      BY <1>1, <2>2, UpTo
    <2>4. QED BY <2>1, <2>3
  <1>4. Len(a) \in T
    BY <1>3
  <1>5. QED BY <1>4 DEF T

\* Two courses of the same writes are the same.
LEMMA CourseUnique ==
    ASSUME NEW n, NEW l, NEW u, NEW a, NEW k \in Nat, NEW g, NEW h,
           Course(n, l, u, a, g, k), Course(n, l, u, a, h, k)
    PROVE  \A i \in 0..k : g[i] = h[i]
  <1> DEFINE T == {i \in 0..k : g[i] = h[i]}
  <1>1. /\ \A i \in 0..k : g[i] = IF i = 0 THEN u ELSE After(n, l, g[i - 1], a[i])
        /\ \A i \in 0..k : h[i] = IF i = 0 THEN u ELSE After(n, l, h[i - 1], a[i])
    BY DEF Course
  <1>2. 0 \in T
    BY <1>1
  <1>3. ASSUME NEW i \in 0..(k - 1), i \in T PROVE i + 1 \in T
    <2>1. i + 1 \in 0..k /\ i + 1 # 0 /\ i + 1 - 1 = i
      OBVIOUS
    <2>2. g[i] = h[i]
      BY <1>3
    <2>3. QED BY <1>1, <2>1, <2>2
  <1> HIDE DEF T
  <1>4. \A i \in 0..k : i \in T
    BY <1>2, <1>3, UpTo
  <1>5. QED BY <1>4 DEF T

\* AfterAll is the end of the course of all writes.
LEMMA AfterAllIs ==
    ASSUME NEW n, NEW l, NEW u, NEW a, Len(a) \in Nat,
           NEW g, Course(n, l, u, a, g, Len(a))
    PROVE  AfterAll(n, l, u, a) = g[Len(a)]
  <1> DEFINE r == CHOOSE r : r = [i \in 0..Len(a) |->
                     IF i = 0 THEN u ELSE After(n, l, r[i - 1], a[i])]
  <1>1. AfterAll(n, l, u, a) = r[Len(a)]
    BY DEF AfterAll
  <1>2. \E h : h = [i \in 0..Len(a) |->
                     IF i = 0 THEN u ELSE After(n, l, h[i - 1], a[i])]
    BY DEF Course
  <1>3. Course(n, l, u, a, r, Len(a))
    BY <1>2 DEF Course
  <1> HIDE DEF r
  <1>4. QED BY <1>1, <1>3, CourseUnique

\* The course of some writes is a course, and ends in AfterAll.
LEMMA AfterCourse ==
    ASSUME NEW n, NEW l, NEW u, NEW a, Len(a) \in Nat
    PROVE  \E g : /\ Course(n, l, u, a, g, Len(a))
                  /\ AfterAll(n, l, u, a) = g[Len(a)]
  <1>1. PICK g : Course(n, l, u, a, g, Len(a))
    BY CourseExists
  <1>2. QED BY <1>1, AfterAllIs

\* A write that is no sync of l for n changes nothing, nor do many.
Skipped(n, l, w) == w.to # n \/ w.msg.type \notin Syncs \/ w.msg.lock # l

\* Writes that are no syncs of l for n change nothing.
LEMMA AfterSkipped ==
    ASSUME NEW n, NEW l, NEW u, NEW a, Len(a) \in Nat,
           \A i \in 1..Len(a) : Skipped(n, l, a[i])
    PROVE  AfterAll(n, l, u, a) = u
  <1>1. PICK g : g = [i \in 0..Len(a) |-> u]
    OBVIOUS
  <1>2. \A i \in 0..Len(a) : g[i] = IF i = 0 THEN u ELSE After(n, l, g[i - 1], a[i])
    <2> SUFFICES ASSUME NEW i \in 0..Len(a), i # 0
                 PROVE  g[i] = After(n, l, g[i - 1], a[i])
      BY <1>1
    <2>1. i - 1 \in 0..Len(a) /\ i \in 1..Len(a)
      OBVIOUS
    <2>2. QED BY <1>1, <2>1 DEF After, Skipped
  <1>3. Course(n, l, u, a, g, Len(a))
    BY <1>1, <1>2 DEF Course
  <1>4. QED BY <1>1, <1>3, AfterAllIs

\* AfterAll of a single write.
LEMMA AfterOne ==
    ASSUME NEW n, NEW l, NEW u, NEW a, Len(a) = 1
    PROVE  AfterAll(n, l, u, a) = After(n, l, u, a[1])
  <1>0. Len(a) \in Nat
    OBVIOUS
  <1>1. PICK g : /\ Course(n, l, u, a, g, Len(a))
                 /\ AfterAll(n, l, u, a) = g[Len(a)]
    BY <1>0, AfterCourse
  <1>2. \A i \in 0..1 : g[i] = IF i = 0 THEN u ELSE After(n, l, g[i - 1], a[i])
    BY <1>1 DEF Course
  <1>3. g[0] = u /\ g[1] = After(n, l, g[0], a[1])
    BY <1>2
  <1>4. QED BY <1>1, <1>3

\* The writes b come after the writes a.
LEMMA AfterBoth ==
    ASSUME NEW n, NEW l, NEW u, NEW a, NEW b, NEW ab,
           Len(a) \in Nat, Len(b) \in Nat, Len(ab) = Len(a) + Len(b),
           \A i \in 1..Len(a) : ab[i] = a[i],
           \A i \in 1..Len(b) : ab[Len(a) + i] = b[i]
    PROVE  AfterAll(n, l, u, ab) = AfterAll(n, l, AfterAll(n, l, u, a), b)
  <1>1. PICK g : /\ Course(n, l, u, a, g, Len(a))
                 /\ AfterAll(n, l, u, a) = g[Len(a)]
    BY AfterCourse
  <1>2. PICK v : v = AfterAll(n, l, u, a)
    OBVIOUS
  <1>3. PICK h : /\ Course(n, l, v, b, h, Len(b))
                 /\ AfterAll(n, l, v, b) = h[Len(b)]
    BY AfterCourse
  <1>4. \A i \in 0..Len(a) : g[i] = IF i = 0 THEN u ELSE After(n, l, g[i - 1], a[i])
    BY <1>1 DEF Course
  <1>5. \A i \in 0..Len(b) : h[i] = IF i = 0 THEN v ELSE After(n, l, h[i - 1], b[i])
    BY <1>3 DEF Course
  <1>6. PICK A : A = Len(a)
    OBVIOUS
  <1>7. PICK B : B = Len(b)
    OBVIOUS
  <1>8. A \in Nat /\ B \in Nat /\ Len(ab) = A + B
    BY <1>6, <1>7
  <1>9. PICK f : f = [i \in 0..(A + B) |-> IF i <= A THEN g[i] ELSE h[i - A]]
    OBVIOUS
  <1>10. \A i \in 0..(A + B) : f[i] = IF i = 0 THEN u ELSE After(n, l, f[i - 1], ab[i])
    <2> SUFFICES ASSUME NEW i \in 0..(A + B)
                 PROVE  f[i] = IF i = 0 THEN u ELSE After(n, l, f[i - 1], ab[i])
      OBVIOUS
    <2>1. CASE i = 0
      BY <1>4, <1>6, <1>8, <1>9, <2>1
    <2>2. CASE i # 0 /\ i <= A
      <3>1. i \in 1..A /\ i \in 0..A /\ i - 1 \in 0..(A + B) /\ i - 1 <= A
        BY <1>8, <2>2
      <3>2. f[i] = g[i] /\ f[i - 1] = g[i - 1]
        BY <1>9, <2>2, <3>1
      <3>3. g[i] = After(n, l, g[i - 1], a[i]) /\ ab[i] = a[i]
        BY <1>4, <1>6, <2>2, <3>1
      <3>4. QED BY <2>2, <3>2, <3>3
    <2>3. CASE i > A
      <3>1. PICK j : j = i - A
        OBVIOUS
      <3>2. j \in 1..B /\ j \in 0..B /\ j # 0 /\ i = A + j /\ i # 0 /\ i - 1 \in 0..(A + B)
        BY <1>8, <2>3, <3>1
      <3>3. f[i] = h[j] /\ ab[i] = b[j]
        <4>1. ~(i <= A)
          BY <1>8, <2>3
        <4>2. f[i] = h[i - A]
          BY <1>9, <4>1
        <4>3. ab[Len(a) + j] = b[j]
          BY <1>7, <3>2
        <4>4. QED BY <1>6, <3>1, <3>2, <4>2, <4>3
      <3>4. h[j] = After(n, l, h[j - 1], b[j])
        BY <1>5, <1>7, <3>2
      <3>5. f[i - 1] = h[j - 1]
        <4>1. CASE j = 1
          <5>1. i - 1 = A /\ j - 1 = 0
            BY <1>8, <3>2, <4>1
          <5>2. f[i - 1] = g[A]
            BY <1>8, <1>9, <3>2, <5>1
          <5>3. h[0] = v /\ g[A] = v
            BY <1>1, <1>2, <1>5, <1>6, <1>7, <1>8
          <5>4. QED BY <5>1, <5>2, <5>3
        <4>2. CASE j # 1
          <5>1. ~(i - 1 <= A) /\ i - 1 - A = j - 1
            BY <1>8, <3>2, <4>2
          <5>2. QED BY <1>9, <3>2, <5>1
        <4>3. QED BY <4>1, <4>2
      <3>6. QED BY <3>2, <3>3, <3>4, <3>5
    <2>4. QED BY <1>8, <2>1, <2>2, <2>3
  <1>11. Course(n, l, u, ab, f, Len(ab))
    BY <1>8, <1>9, <1>10 DEF Course
  <1>12. AfterAll(n, l, u, ab) = f[A + B]
    BY <1>8, <1>11, AfterAllIs
  <1>13. f[A + B] = h[B]
    <2>1. CASE B = 0
      <3>1. f[A + B] = g[A] /\ h[B] = v /\ g[A] = v
        BY <1>1, <1>2, <1>5, <1>6, <1>7, <1>8, <1>9, <2>1
      <3>2. QED BY <3>1
    <2>2. CASE B # 0
      <3>1. ~(A + B <= A) /\ A + B - A = B /\ A + B \in 0..(A + B)
        BY <1>8, <2>2
      <3>2. f[A + B] = h[A + B - A]
        <4>1. PICK z : z = A + B
          OBVIOUS
        <4>2. z \in 0..(A + B) /\ ~(z <= A)
          BY <3>1, <4>1
        <4>3. f[z] = h[z - A]
          BY <1>9, <4>2
        <4>4. QED BY <1>8, <4>1, <4>3
      <3>3. QED BY <3>1, <3>2
    <2>3. QED BY <2>1, <2>2
  <1>14. QED BY <1>2, <1>3, <1>7, <1>12, <1>13

\* The writes a are the same push m to all the followers fo.
Pushes(a, fo, m) ==
    /\ Len(fo) \in Nat /\ Len(a) = Len(fo)
    /\ \A i \in 1..Len(fo) : a[i] = Send(fo[i], m)

\* It reaches n when n is one of them.
LEMMA AfterPushes ==
    ASSUME NEW n, NEW l, NEW u, NEW fo, NEW m, NEW a, Pushes(a, fo, m)
    PROVE  /\ In(fo, n) => AfterAll(n, l, u, a) = After(n, l, u, Send(n, m))
           /\ ~In(fo, n) => AfterAll(n, l, u, a) = u
  <1>0. /\ Len(fo) \in Nat /\ Len(a) = Len(fo)
        /\ \A i \in 1..Len(fo) : a[i] = Send(fo[i], m)
    BY DEF Pushes
  <1>1. PICK k : k = Len(fo)
    OBVIOUS
  <1>2. PICK v : v = After(n, l, u, Send(n, m))
    OBVIOUS
  <1>3. v = After(n, l, v, Send(n, m))
    BY <1>2 DEF After, Send
  <1>4. \A x, y : x # n => After(n, l, y, Send(x, m)) = y
    BY DEF After, Send
  <1>5. PICK g : g = [i \in 0..k |-> IF \E j \in 1..i : fo[j] = n THEN v ELSE u]
    OBVIOUS
  <1>6. \A i \in 0..k : g[i] = IF i = 0 THEN u ELSE After(n, l, g[i - 1], a[i])
    <2> SUFFICES ASSUME NEW i \in 0..k
                 PROVE  g[i] = IF i = 0 THEN u ELSE After(n, l, g[i - 1], a[i])
      OBVIOUS
    <2>1. CASE i = 0
      <3>1. ~\E j \in 1..i : fo[j] = n
        BY <2>1
      <3>2. QED BY <1>5, <2>1, <3>1
    <2>2. CASE i # 0
      <3>1. i - 1 \in 0..k /\ i \in 1..k /\ 1..i = (1..(i - 1)) \cup {i}
        BY <1>0, <1>1, <2>2
      <3>2. g[i] = (IF \E j \in 1..i : fo[j] = n THEN v ELSE u)
            /\ g[i - 1] = (IF \E j \in 1..(i - 1) : fo[j] = n THEN v ELSE u)
        BY <1>5, <3>1
      <3>3. a[i] = Send(fo[i], m)
        BY <1>0, <1>1, <3>1
      <3>4. CASE fo[i] = n
        <4>1. g[i] = v
          BY <3>1, <3>2, <3>4
        <4>2. After(n, l, g[i - 1], a[i]) = v
          BY <1>2, <1>3, <3>2, <3>3, <3>4
        <4>3. QED BY <2>2, <4>1, <4>2
      <3>5. CASE fo[i] # n
        <4>1. g[i] = g[i - 1]
          BY <3>1, <3>2, <3>5
        <4>2. After(n, l, g[i - 1], a[i]) = g[i - 1]
          BY <1>4, <3>3, <3>5
        <4>3. QED BY <2>2, <4>1, <4>2
      <3>6. QED BY <3>4, <3>5
    <2>3. QED BY <2>1, <2>2
  <1>7. Course(n, l, u, a, g, Len(a))
    BY <1>0, <1>1, <1>5, <1>6 DEF Course
  <1>8. AfterAll(n, l, u, a) = g[k]
    BY <1>0, <1>1, <1>7, AfterAllIs
  <1>9. (In(fo, n) => g[k] = v) /\ (~In(fo, n) => g[k] = u)
    BY <1>0, <1>1, <1>5 DEF In
  <1>10. QED BY <1>2, <1>8, <1>9

-----------------------------------------------------------------------------
(* What a follower's record is to become, as messages move.                *)

\* The messages s as writes to n.
LEMMA AddressedType ==
    ASSUME NEW n \in Int, NEW s \in Seq(Msg)
    PROVE  /\ Addressed(n, s) \in Seq(Write) /\ Len(Addressed(n, s)) = Len(s)
           /\ Len(s) \in Nat
           /\ \A i \in 1..Len(s) : Addressed(n, s)[i] = Send(n, s[i])
  <1>1. \A i \in 1..Len(s) : Send(n, s[i]) \in Write
    BY DEF Send, Write
  <1>2. Len(s) \in Nat
    OBVIOUS
  <1>3. PICK a : a = Addressed(n, s)
    OBVIOUS
  <1>4. a = [i \in 1..Len(s) |-> Send(n, s[i])]
    BY <1>3 DEF Addressed
  <1>5. a \in Seq(Write) /\ Len(a) = Len(s)
    BY <1>1, <1>2, <1>4, FunctionIsSeq
  <1>6. QED BY <1>2, <1>3, <1>4, <1>5

\* The record of l at n, u now, when n has handled the messages s that are in
\* its queue and what the master writes with v.
Catch(n, l, u, s, v) == AfterAll(n, l, u, Addressed(n, s) \o v)

\* First what is in the queue, then what the master has still to write.
LEMMA CatchIs ==
    ASSUME NEW n \in Int, NEW l, NEW u, NEW s \in Seq(Msg), NEW v \in Seq(Write)
    PROVE  Catch(n, l, u, s, v) = AfterAll(n, l, AfterAll(n, l, u, Addressed(n, s)), v)
  <1>1. PICK a : a = Addressed(n, s)
    OBVIOUS
  <1>2. a \in Seq(Write)
    BY <1>1, AddressedType
  <1>3. PICK av : av = a \o v
    OBVIOUS
  <1>4. /\ Len(av) = Len(a) + Len(v)
        /\ \A i \in 1..(Len(a) + Len(v)) : av[i] = IF i <= Len(a) THEN a[i] ELSE v[i - Len(a)]
    BY <1>2, <1>3, ConcatProperties
  <1>5. Len(a) \in Nat /\ Len(v) \in Nat
    BY <1>2
  <1>6. \A i \in 1..Len(a) : av[i] = a[i]
    <2> SUFFICES ASSUME NEW i \in 1..Len(a) PROVE av[i] = a[i]
      OBVIOUS
    <2>1. i \in 1..(Len(a) + Len(v)) /\ i <= Len(a)
      BY <1>5
    <2>2. QED BY <1>4, <2>1
  <1>7. \A i \in 1..Len(v) : av[Len(a) + i] = v[i]
    <2> SUFFICES ASSUME NEW i \in 1..Len(v) PROVE av[Len(a) + i] = v[i]
      OBVIOUS
    <2>1. PICK k : k = Len(a) + i
      OBVIOUS
    <2>2. k \in 1..(Len(a) + Len(v)) /\ ~(k <= Len(a)) /\ k - Len(a) = i
      BY <1>5, <2>1
    <2>3. av[k] = v[k - Len(a)]
      BY <1>4, <2>2
    <2>4. QED BY <2>1, <2>2, <2>3
  <1>8. /\ Len(a) \in Nat /\ Len(v) \in Nat /\ Len(av) = Len(a) + Len(v)
        /\ \A i \in 1..Len(a) : av[i] = a[i]
        /\ \A i \in 1..Len(v) : av[Len(a) + i] = v[i]
    BY <1>4, <1>5, <1>6, <1>7
  <1>9. AfterAll(n, l, u, av) = AfterAll(n, l, AfterAll(n, l, u, a), v)
    BY <1>8, AfterBoth
  <1>10. QED BY <1>1, <1>3, <1>9 DEF Catch

\* The first write of v comes first.
LEMMA AfterFirst ==
    ASSUME NEW n, NEW l, NEW u, NEW v \in Seq(Write), v # <<>>
    PROVE  AfterAll(n, l, u, v) = AfterAll(n, l, After(n, l, u, Head(v)), Tail(v))
  <1>1. PICK a : a = <<Head(v)>>
    OBVIOUS
  <1>2. PICK b : b = Tail(v)
    OBVIOUS
  <1>3. /\ Len(a) = 1 /\ a[1] = Head(v) /\ \A i \in 1..Len(a) : i = 1
    BY <1>1
  <1>4. /\ Len(v) \in Nat /\ b \in Seq(Write) /\ Len(b) = Len(v) - 1 /\ Head(v) = v[1]
        /\ \A i \in 1..Len(b) : b[i] = v[i + 1]
    BY <1>2
  <1>5. /\ Len(a) \in Nat /\ Len(b) \in Nat /\ Len(v) = Len(a) + Len(b)
        /\ \A i \in 1..Len(a) : v[i] = a[i]
        /\ \A i \in 1..Len(b) : v[Len(a) + i] = b[i]
    <2>1. Len(b) \in Nat
      BY <1>4
    <2>2. \A i \in 1..Len(b) : 1 + i = i + 1
      BY <2>1
    <2>3. QED BY <1>3, <1>4, <2>1, <2>2
  <1>6. AfterAll(n, l, u, v) = AfterAll(n, l, AfterAll(n, l, u, a), b)
    BY <1>5, AfterBoth
  <1>7. AfterAll(n, l, u, a) = After(n, l, u, Head(v))
    BY <1>3, AfterOne
  <1>8. QED BY <1>2, <1>6, <1>7

\* The message that is handled comes first.
LEMMA AfterHead ==
    ASSUME NEW n \in Int, NEW l, NEW u, NEW s \in Seq(Msg), s # <<>>
    PROVE  AfterAll(n, l, u, Addressed(n, s))
             = AfterAll(n, l, After(n, l, u, Send(n, Head(s))), Addressed(n, Tail(s)))
  <1>1. PICK v : v = Addressed(n, s)
    OBVIOUS
  <1>2. PICK t : t = Addressed(n, Tail(s))
    OBVIOUS
  <1>3. Len(s) \in Nat /\ 1 \in 1..Len(s) /\ Head(s) = s[1]
    OBVIOUS
  <1>4. v \in Seq(Write) /\ Len(v) = Len(s) /\ \A i \in 1..Len(s) : v[i] = Send(n, s[i])
    BY <1>1, AddressedType
  <1>5. v # <<>> /\ Head(v) = Send(n, Head(s))
    BY <1>3, <1>4
  <1>6. /\ Tail(s) \in Seq(Msg) /\ Len(Tail(s)) = Len(s) - 1
        /\ \A i \in 1..Len(Tail(s)) : Tail(s)[i] = s[i + 1]
    OBVIOUS
  <1>7. /\ t \in Seq(Write) /\ Len(t) = Len(s) - 1
        /\ \A i \in 1..(Len(s) - 1) : t[i] = Send(n, s[i + 1])
    <2>1. PICK r \in Seq(Msg) : r = Tail(s)
      BY <1>6
    <2>2. /\ Addressed(n, r) \in Seq(Write) /\ Len(Addressed(n, r)) = Len(r)
          /\ \A i \in 1..Len(r) : Addressed(n, r)[i] = Send(n, r[i])
      BY AddressedType
    <2>3. Len(r) = Len(s) - 1 /\ \A i \in 1..Len(r) : r[i] = s[i + 1]
      BY <1>6, <2>1
    <2>4. t = Addressed(n, r)
      BY <1>2, <2>1
    <2>5. QED BY <2>2, <2>3, <2>4
  <1>8. /\ Tail(v) \in Seq(Write) /\ Len(Tail(v)) = Len(s) - 1
        /\ \A i \in 1..(Len(s) - 1) : Tail(v)[i] = v[i + 1]
    BY <1>4, <1>5
  <1>9. Tail(v) = t
    <2>1. \A i \in 1..(Len(s) - 1) : i + 1 \in 1..Len(s)
      BY <1>3
    <2>2. \A i \in 1..(Len(s) - 1) : Tail(v)[i] = t[i]
      BY <1>4, <1>7, <1>8, <2>1
    <2>3. Len(Tail(v)) = Len(t) /\ \A i \in 1..Len(t) : Tail(v)[i] = t[i]
      BY <1>7, <1>8, <2>2
    <2>4. QED BY <1>7, <1>8, <2>3, SeqEqual
  <1>10. AfterAll(n, l, u, v) = AfterAll(n, l, After(n, l, u, Head(v)), Tail(v))
    BY <1>4, <1>5, AfterFirst
  <1>11. QED BY <1>1, <1>2, <1>5, <1>9, <1>10

\* The message that is put at the end comes last.
LEMMA AfterLast ==
    ASSUME NEW n \in Int, NEW l, NEW u, NEW s \in Seq(Msg), NEW m \in Msg
    PROVE  AfterAll(n, l, u, Addressed(n, Append(s, m)))
             = After(n, l, AfterAll(n, l, u, Addressed(n, s)), Send(n, m))
  <1>1. PICK ab : ab = Addressed(n, Append(s, m))
    OBVIOUS
  <1>2. PICK a : a = Addressed(n, s)
    OBVIOUS
  <1>3. PICK b : b = <<Send(n, m)>>
    OBVIOUS
  <1>4. /\ Len(s) \in Nat /\ Len(Append(s, m)) = Len(s) + 1 /\ Append(s, m) \in Seq(Msg)
        /\ \A i \in 1..Len(s) : Append(s, m)[i] = s[i] /\ i \in 1..(Len(s) + 1)
        /\ Append(s, m)[Len(s) + 1] = m /\ Len(s) + 1 \in 1..(Len(s) + 1)
    OBVIOUS
  <1>5. /\ Len(a) = Len(s) /\ Len(ab) = Len(s) + 1
        /\ \A i \in 1..Len(s) : a[i] = Send(n, s[i])
        /\ \A i \in 1..(Len(s) + 1) : ab[i] = Send(n, Append(s, m)[i])
    BY <1>1, <1>2, <1>4, AddressedType
  <1>6. Len(b) = 1 /\ b[1] = Send(n, m) /\ \A i \in 1..Len(b) : i = 1
    BY <1>3
  <1>7. ab[Len(s) + 1] = Send(n, m)
    BY <1>4, <1>5
  <1>8. /\ Len(a) \in Nat /\ Len(b) \in Nat /\ Len(ab) = Len(a) + Len(b)
        /\ \A i \in 1..Len(a) : ab[i] = a[i]
        /\ \A i \in 1..Len(b) : ab[Len(a) + i] = b[i]
    <2>1. \A i \in 1..Len(b) : ab[Len(a) + i] = b[i]
      BY <1>5, <1>6, <1>7
    <2>2. \A i \in 1..Len(a) : ab[i] = a[i]
      BY <1>4, <1>5
    <2>3. QED BY <1>4, <1>5, <1>6, <2>1, <2>2
  <1>9. AfterAll(n, l, u, ab) = AfterAll(n, l, AfterAll(n, l, u, a), b)
    BY <1>8, AfterBoth
  <1>10. \A w : AfterAll(n, l, w, b) = After(n, l, w, Send(n, m))
    BY <1>6, AfterOne
  <1>11. QED BY <1>1, <1>2, <1>9, <1>10

\* Writes that are no syncs of l for n do not count.
LEMMA CatchSkips ==
    ASSUME NEW n \in Int, NEW l, NEW u, NEW s \in Seq(Msg), NEW v \in Seq(Write),
           \A i \in 1..Len(v) : Skipped(n, l, v[i])
    PROVE  Catch(n, l, u, s, v) = AfterAll(n, l, u, Addressed(n, s))
  <1>1. Len(v) \in Nat
    OBVIOUS
  <1>2. \A w : AfterAll(n, l, w, v) = w
    BY <1>1, AfterSkipped
  <1>3. QED BY <1>2, CatchIs

\* Nothing changes n's record when there is no sync of l for it.
LEMMA CatchNothing ==
    ASSUME NEW n \in Int, NEW l, NEW u, NEW s \in Seq(Msg), NEW v \in Seq(Write),
           \A i \in 1..Len(s) : Skipped(n, l, Send(n, s[i])),
           \A i \in 1..Len(v) : Skipped(n, l, v[i])
    PROVE  Catch(n, l, u, s, v) = u
  <1>1. PICK a : a = Addressed(n, s)
    OBVIOUS
  <1>2. Len(a) \in Nat /\ \A i \in 1..Len(a) : Skipped(n, l, a[i])
    BY <1>1, AddressedType
  <1>3. AfterAll(n, l, u, a) = u
    BY <1>2, AfterSkipped
  <1>4. QED BY <1>1, <1>3, CatchSkips

\* The write that is completed was the next of all after the queue.
LEMMA CatchMoves ==
    ASSUME NEW n \in Int, NEW l, NEW u, NEW s \in Seq(Msg), NEW v \in Seq(Write),
           v # <<>>, Head(v).to = n
    PROVE  Catch(n, l, u, Append(s, Head(v).msg), Tail(v)) = Catch(n, l, u, s, v)
  <1>1. PICK m : m = Head(v).msg
    OBVIOUS
  <1>2. Head(v) \in Write /\ Tail(v) \in Seq(Write)
    OBVIOUS
  <1>3. m \in Msg /\ Head(v) = Send(n, m)
    BY <1>1, <1>2 DEF Write, Send
  <1>4. PICK s1 : s1 = Append(s, m)
    OBVIOUS
  <1>5. s1 \in Seq(Msg)
    BY <1>3, <1>4
  <1>6. PICK w : w = AfterAll(n, l, u, Addressed(n, s))
    OBVIOUS
  <1>7. Catch(n, l, u, s1, Tail(v)) = AfterAll(n, l, After(n, l, w, Head(v)), Tail(v))
    <2>1. AfterAll(n, l, u, Addressed(n, s1)) = After(n, l, w, Head(v))
      BY <1>3, <1>4, <1>6, AfterLast
    <2>2. PICK t : t = Tail(v)
      OBVIOUS
    <2>3. t \in Seq(Write)
      BY <1>2, <2>2
    <2>4. Catch(n, l, u, s1, t) = AfterAll(n, l, AfterAll(n, l, u, Addressed(n, s1)), t)
      BY <1>5, <2>3, CatchIs
    <2>5. QED BY <2>1, <2>2, <2>4
  <1>8. Catch(n, l, u, s, v) = AfterAll(n, l, w, v)
    BY <1>6, CatchIs
  <1>9. AfterAll(n, l, w, v) = AfterAll(n, l, After(n, l, w, Head(v)), Tail(v))
    BY AfterFirst
  <1>10. QED BY <1>1, <1>4, <1>7, <1>8, <1>9

\* A write that is no sync of l for n is completed.
LEMMA CatchDrops ==
    ASSUME NEW n \in Int, NEW l, NEW u, NEW s \in Seq(Msg), NEW v \in Seq(Write),
           v # <<>>, Skipped(n, l, Head(v))
    PROVE  Catch(n, l, u, s, Tail(v)) = Catch(n, l, u, s, v)
  <1>1. Tail(v) \in Seq(Write)
    OBVIOUS
  <1>2. PICK w : w = AfterAll(n, l, u, Addressed(n, s))
    OBVIOUS
  <1>3. After(n, l, w, Head(v)) = w
    BY DEF After, Skipped
  <1>4. AfterAll(n, l, w, v) = AfterAll(n, l, w, Tail(v))
    <2>1. AfterAll(n, l, w, v) = AfterAll(n, l, After(n, l, w, Head(v)), Tail(v))
      BY AfterFirst
    <2>2. QED BY <1>3, <2>1
  <1>5. Catch(n, l, u, s, Tail(v)) = AfterAll(n, l, w, Tail(v))
    <2>1. PICK t \in Seq(Write) : t = Tail(v)
      BY <1>1
    <2>2. Catch(n, l, u, s, t) = AfterAll(n, l, w, t)
      BY <1>2, CatchIs
    <2>3. QED BY <2>1, <2>2
  <1>6. Catch(n, l, u, s, v) = AfterAll(n, l, w, v)
    BY <1>2, CatchIs
  <1>7. QED BY <1>4, <1>5, <1>6

\* Another process writes to n what is no sync.
LEMMA CatchQuiet ==
    ASSUME NEW n \in Int, NEW l, NEW u, NEW s \in Seq(Msg), NEW v \in Seq(Write),
           NEW m \in Msg, m.type \notin Syncs
    PROVE  Catch(n, l, u, Append(s, m), v) = Catch(n, l, u, s, v)
  <1>1. PICK s1 : s1 = Append(s, m)
    OBVIOUS
  <1>2. s1 \in Seq(Msg)
    BY <1>1
  <1>3. \A w : After(n, l, w, Send(n, m)) = w
    BY DEF After, Send
  <1>4. AfterAll(n, l, u, Addressed(n, s1)) = AfterAll(n, l, u, Addressed(n, s))
    BY <1>1, <1>3, AfterLast
  <1>5. Catch(n, l, u, s1, v) = AfterAll(n, l, AfterAll(n, l, u, Addressed(n, s1)), v)
    BY <1>2, CatchIs
  <1>6. Catch(n, l, u, s, v) = AfterAll(n, l, AfterAll(n, l, u, Addressed(n, s)), v)
    BY CatchIs
  <1>7. QED BY <1>1, <1>4, <1>5, <1>6

\* The message that is handled has been counted.
LEMMA CatchHandles ==
    ASSUME NEW n \in Int, NEW l, NEW u, NEW s \in Seq(Msg), NEW v \in Seq(Write), s # <<>>
    PROVE  Catch(n, l, After(n, l, u, Send(n, Head(s))), Tail(s), v) = Catch(n, l, u, s, v)
  <1>1. PICK w : w = After(n, l, u, Send(n, Head(s)))
    OBVIOUS
  <1>2. PICK t : t = Tail(s)
    OBVIOUS
  <1>3. t \in Seq(Msg)
    BY <1>2
  <1>4. AfterAll(n, l, u, Addressed(n, s)) = AfterAll(n, l, w, Addressed(n, t))
    BY <1>1, <1>2, AfterHead
  <1>5. Catch(n, l, w, t, v) = AfterAll(n, l, AfterAll(n, l, w, Addressed(n, t)), v)
    BY <1>3, CatchIs
  <1>6. Catch(n, l, u, s, v) = AfterAll(n, l, AfterAll(n, l, u, Addressed(n, s)), v)
    BY CatchIs
  <1>7. QED BY <1>1, <1>2, <1>4, <1>5, <1>6

\* After an answer the master tells all the followers fo.
LEMMA CatchPushes ==
    ASSUME NEW n \in Int, NEW l, NEW u, NEW s \in Seq(Msg), NEW z \in Write,
           NEW g \in Seq(Write), NEW fo, NEW m, Skipped(n, l, z), Pushes(g, fo, m)
    PROVE  /\ In(fo, n) => Catch(n, l, u, s, <<z>> \o g)
                               = After(n, l, Catch(n, l, u, s, <<>>), Send(n, m))
           /\ ~In(fo, n) => Catch(n, l, u, s, <<z>> \o g) = Catch(n, l, u, s, <<>>)
  <1>1. PICK v : v = <<z>> \o g
    OBVIOUS
  <1>2. v \in Seq(Write) /\ v # <<>> /\ Head(v) = z /\ Tail(v) = g
    <2>1. <<z>> \in Seq(Write) /\ Len(<<z>>) = 1 /\ <<z>>[1] = z
      BY ShortSeqs
    <2>2. /\ v \in Seq(Write) /\ Len(v) = 1 + Len(g)
          /\ \A i \in 1..(1 + Len(g)) : v[i] = IF i <= 1 THEN <<z>>[i] ELSE g[i - 1]
      BY <1>1, <2>1, ConcatProperties
    <2>3. Len(g) \in Nat
      OBVIOUS
    <2>4. v # <<>> /\ Head(v) = z
      BY <2>1, <2>2, <2>3
    <2>5. /\ Tail(v) \in Seq(Write) /\ Len(Tail(v)) = Len(g)
          /\ \A i \in 1..Len(g) : Tail(v)[i] = v[i + 1]
      BY <2>2, <2>3, <2>4
    <2>6. \A i \in 1..Len(g) : v[i + 1] = g[i]
      <3> SUFFICES ASSUME NEW i \in 1..Len(g) PROVE v[i + 1] = g[i]
        OBVIOUS
      <3>1. PICK k : k = i + 1
        OBVIOUS
      <3>2. k \in 1..(1 + Len(g)) /\ ~(k <= 1) /\ k - 1 = i
        BY <2>3, <3>1
      <3>3. v[k] = g[k - 1]
        BY <2>2, <3>2
      <3>4. QED BY <3>1, <3>2, <3>3
    <2>7. Tail(v) = g
      <3>1. Len(Tail(v)) = Len(g) /\ \A i \in 1..Len(Tail(v)) : Tail(v)[i] = g[i]
        BY <2>5, <2>6
      <3>2. QED BY <2>5, <3>1, SeqEqual
    <2>8. QED BY <2>2, <2>4, <2>7
  <1>3. PICK w : w = AfterAll(n, l, u, Addressed(n, s))
    OBVIOUS
  <1>4. Catch(n, l, u, s, v) = Catch(n, l, u, s, g)
    BY <1>2, CatchDrops
  <1>5. Catch(n, l, u, s, g) = AfterAll(n, l, w, g)
    BY <1>3, CatchIs
  <1>6. /\ In(fo, n) => AfterAll(n, l, w, g) = After(n, l, w, Send(n, m))
        /\ ~In(fo, n) => AfterAll(n, l, w, g) = w
    BY AfterPushes
  <1>7. Catch(n, l, u, s, <<>>) = w
    <2>1. <<>> \in Seq(Write) /\ 1..Len(<<>>) = {}
      OBVIOUS
    <2>2. QED BY <1>3, <2>1, CatchSkips
  <1>8. QED BY <1>1, <1>4, <1>5, <1>6, <1>7

-----------------------------------------------------------------------------
(* What is ahead of a follower, step by step.                              *)

\* What there is to catch up with.
LEMMA CaughtUpIs ==
    ASSUME SafeInv, NEW f \in Followers, NEW l
    PROVE  /\ pname[f] \in Int /\ out[Master] \in Seq(Write)
           /\ Unread(queue, pname[f]) \in Seq(Msg)
           /\ CaughtUp(f, l) = Catch(pname[f], l, lockDict[f][l],
                                     Unread(queue, pname[f]), out[Master])
  <1>1. TypeOK /\ f \in Procs /\ Master \in Procs
    BY DEF SafeInv, TypeInv, Procs, Servers
  <1>2. pname[f] \in Int /\ out[Master] \in Seq(Write)
    BY <1>1 DEF TypeOK, Write
  <1>3. Unread(queue, pname[f]) \in Seq(Msg)
    BY <1>1 DEF TypeOK, Unread
  <1>4. CaughtUp(f, l) = Catch(pname[f], l, lockDict[f][l],
                               Unread(queue, pname[f]), out[Master])
    BY DEF CaughtUp, Catch, Ahead
  <1>5. QED BY <1>2, <1>3, <1>4

\* What f has caught up with when f's name, record and queue and the master's
\* writes are these.
LEMMA CaughtUpNext ==
    ASSUME NEW f, NEW l, NEW n, NEW u, NEW s, NEW v,
           pname'[f] = n, lockDict'[f][l] = u, Unread(queue', n) = s, out'[Master] = v
    PROVE  CaughtUp(f, l)' = Catch(n, l, u, s, v)
  <1>1. Unread(queue', pname'[f]) = s
    OBVIOUS
  <1>2. CaughtUp(f, l)' = AfterAll(pname'[f], l, lockDict'[f][l],
                Addressed(pname'[f], Unread(queue', pname'[f])) \o out'[Master])
    BY DEF CaughtUp, Ahead
  <1>3. QED BY <1>1, <1>2 DEF Catch

\* The names of followers.
LEMMA FollowerNames ==
    ASSUME SafeInv, RegisterInv, NEW f \in Followers
    PROVE  /\ f \in Procs /\ f \in Servers /\ f # Master /\ f \notin Clients
           /\ pname[f] = NoName \/ (pname[f] >= 1 /\ pname[f] < Oldest)
           /\ pname[f] \in Int /\ pname[f] # MasterNode /\ pname[f] # DnsNode
           /\ pname[Master] = MasterNode
           /\ \A p \in Procs \ {f} : pname[p] \in DOMAIN queue => pname[p] # pname[f]
           /\ NoName \notin DOMAIN queue
  <1>1. f \in Procs /\ f \in Servers /\ f # Master /\ f \notin Clients
    BY ServerAssumption DEF Procs, Servers
  <1>2. TypeOK /\ NameInv /\ pname[f] \in Int
    BY <1>1 DEF SafeInv, TypeInv, TypeOK
  <1>3. pname[f] = NoName \/ (pname[f] >= 1 /\ pname[f] < Oldest)
    <2>1. f \in Procs \ {Master}
      BY <1>1
    <2>2. QED BY <1>2, <2>1 DEF NameInv
  <1>4. pname[f] # MasterNode /\ pname[f] # DnsNode /\ pname[Master] = MasterNode
    BY <1>2, <1>3 DEF NameInv, NoName, MasterNode, DnsNode
  <1>5. NoName \notin DOMAIN queue
    BY DEF RegisterInv, NoName
  <1>6. ASSUME NEW p \in Procs, p # f, pname[p] \in DOMAIN queue
        PROVE  pname[p] # pname[f]
    BY <1>1, <1>2, <1>5, <1>6 DEF NameInv
  <1>7. QED BY <1>1, <1>2, <1>3, <1>4, <1>5, <1>6

\* A handler takes the head of its own queue.
LEMMA HandledUnread ==
    ASSUME SafeInv, NEW s, NEW m, NEW v, Handles(s, m, v), NEW n
    PROVE  /\ pname[s] \in DOMAIN queue
           /\ n # pname[s] => Unread(queue', n) = Unread(queue, n)
           /\ n = pname[s] => /\ Unread(queue, n) # <<>> /\ m = Head(Unread(queue, n))
                              /\ Unread(queue', n) = Tail(Unread(queue, n))
  <1>1. /\ pname[s] \in DOMAIN queue /\ queue[pname[s]] # <<>>
        /\ m = Head(queue[pname[s]])
        /\ DOMAIN queue \subseteq DOMAIN queue'
        /\ \A x \in DOMAIN queue' :
              \/ x \in DOMAIN queue /\ x # pname[s] /\ queue'[x] = queue[x]
              \/ x = pname[s] /\ queue'[x] = Tail(queue[x])
              \/ x \notin DOMAIN queue /\ queue'[x] = <<>>
    BY HandledQueues
  <1>2. CASE n = pname[s]
    BY <1>1, <1>2 DEF Unread
  <1>3. CASE n # pname[s]
    <2>1. CASE n \in DOMAIN queue
      BY <1>1, <1>3, <2>1 DEF Unread
    <2>2. CASE n \notin DOMAIN queue
      BY <1>1, <1>3, <2>2 DEF Unread
    <2>3. QED BY <2>1, <2>2
  <1>4. QED BY <1>1, <1>2, <1>3

\* A write that is begun reaches nobody yet.
LEMMA BegunUnread ==
    ASSUME NEW p, NEW w, Writes(p, w), NEW n
    PROVE  Unread(queue', n) = Unread(queue, n)
  BY DEF Writes, Unread

-----------------------------------------------------------------------------
(* Steps that change nothing of what a follower is to know.                *)

\* A follower handles a message: its own is counted already.
LEMMA FollowerKeeps ==
    ASSUME SafeInv, RegisterInv, NEW f \in Followers, NEW l, NEW s \in Followers,
           NEW m, NEW v, Handles(s, m, v),
           lockDict'[f][l] = IF s = f THEN After(pname[f], l, lockDict[f][l], Send(pname[f], m))
                             ELSE lockDict[f][l]
    PROVE  CaughtUp(f, l)' = CaughtUp(f, l)
  <1>1. PICK n : n = pname[f]
    OBVIOUS
  <1>2. PICK u : u = lockDict[f][l]
    OBVIOUS
  <1>3. PICK q : q = Unread(queue, n)
    OBVIOUS
  <1>4. PICK o : o = out[Master]
    OBVIOUS
  <1>5. /\ n \in Int /\ o \in Seq(Write) /\ q \in Seq(Msg)
        /\ CaughtUp(f, l) = Catch(n, l, u, q, o)
    BY <1>1, <1>2, <1>3, <1>4, CaughtUpIs
  <1>6. pname'[f] = n
    BY <1>1 DEF Handles
  <1>7. out'[Master] = o
    <2>1. Master \in Procs \ {s}
      BY ServerAssumption DEF Procs, Servers
    <2>2. QED BY <1>4, <2>1, HandledFlight
  <1>8. CASE s = f
    <2>1. q # <<>> /\ m = Head(q) /\ Unread(queue', n) = Tail(q)
      <3>1. n = pname[s]
        BY <1>1, <1>8
      <3>2. /\ Unread(queue, n) # <<>> /\ m = Head(Unread(queue, n))
            /\ Unread(queue', n) = Tail(Unread(queue, n))
        BY <3>1, HandledUnread
      <3>3. QED BY <1>3, <3>2
    <2>2. PICK w : w = After(n, l, u, Send(n, Head(q)))
      OBVIOUS
    <2>3. lockDict'[f][l] = w
      BY <1>1, <1>2, <1>8, <2>1, <2>2
    <2>4. CaughtUp(f, l)' = Catch(n, l, w, Tail(q), o)
      <3>1. PICK r : r = Tail(q)
        OBVIOUS
      <3>2. /\ pname'[f] = n /\ lockDict'[f][l] = w
            /\ Unread(queue', n) = r /\ out'[Master] = o
        BY <1>6, <1>7, <2>1, <2>3, <3>1
      <3>3. CaughtUp(f, l)' = Catch(n, l, w, r, o)
        BY ONLY <3>2, CaughtUpNext
      <3>4. QED BY <3>1, <3>3
    <2>5. QED BY <1>5, <2>1, <2>2, <2>4, CatchHandles
  <1>9. CASE s # f
    <2>1. n # pname[s]
      BY <1>1, <1>9, HandledUnread, FollowerNames
    <2>2. Unread(queue', n) = q
      BY <1>3, <2>1, HandledUnread
    <2>3. QED BY <1>2, <1>5, <1>6, <1>7, <1>9, <2>2, CaughtUpNext
  <1>10. QED BY <1>8, <1>9

\* The master handles a message and tells f nothing of l.
LEMMA MasterKeeps ==
    ASSUME SafeInv, RegisterInv, NEW f \in Followers, NEW l, NEW m, NEW v,
           Handles(Master, m, v), lockDict'[f][l] = lockDict[f][l],
           \A i \in 1..Len(v) : Skipped(pname[f], l, v[i])
    PROVE  CaughtUp(f, l)' = CaughtUp(f, l)
  <1>1. PICK n : n = pname[f]
    OBVIOUS
  <1>2. PICK u : u = lockDict[f][l]
    OBVIOUS
  <1>3. PICK q : q = Unread(queue, n)
    OBVIOUS
  <1>4. /\ n \in Int /\ out[Master] \in Seq(Write) /\ q \in Seq(Msg)
        /\ CaughtUp(f, l) = Catch(n, l, u, q, out[Master])
    BY <1>1, <1>2, <1>3, CaughtUpIs
  <1>5. pname'[f] = n /\ v \in Seq(Write)
    BY <1>1 DEF Handles
  <1>6. out[Master] = <<>> /\ out'[Master] = v
    BY HandledFlight
  <1>7. Unread(queue', n) = q
    <2>1. n # pname[Master]
      BY <1>1, FollowerNames
    <2>2. QED BY <1>3, <2>1, HandledUnread
  <1>8. CaughtUp(f, l)' = Catch(n, l, u, q, v)
    BY <1>2, <1>5, <1>6, <1>7, CaughtUpNext
  <1>9. Catch(n, l, u, q, v) = AfterAll(n, l, u, Addressed(n, q))
    BY <1>1, <1>4, <1>5, CatchSkips
  <1>10. Catch(n, l, u, q, <<>>) = AfterAll(n, l, u, Addressed(n, q))
    <2>1. <<>> \in Seq(Write) /\ 1..Len(<<>>) = {}
      OBVIOUS
    <2>2. QED BY <1>4, <2>1, CatchSkips
  <1>11. QED BY <1>4, <1>6, <1>8, <1>9, <1>10

\* Steps that leave alone f's name and record, its queue and what the master
\* has still to write.
LEMMA UntouchedKeeps ==
    ASSUME SafeInv, NEW f \in Followers, NEW l, pname'[f] = pname[f],
           lockDict'[f][l] = lockDict[f][l], out'[Master] = out[Master],
           Unread(queue', pname[f]) = Unread(queue, pname[f])
    PROVE  CaughtUp(f, l)' = CaughtUp(f, l)
  <1>1. PICK n : n = pname[f]
    OBVIOUS
  <1>2. PICK u : u = lockDict[f][l]
    OBVIOUS
  <1>3. PICK q : q = Unread(queue, n)
    OBVIOUS
  <1>4. PICK o : o = out[Master]
    OBVIOUS
  <1>5. CaughtUp(f, l) = Catch(n, l, u, q, o)
    BY <1>1, <1>2, <1>3, <1>4, CaughtUpIs
  <1>6. pname'[f] = n /\ lockDict'[f][l] = u /\ Unread(queue', n) = q /\ out'[Master] = o
    BY <1>1, <1>2, <1>3, <1>4
  <1>7. QED BY <1>5, <1>6, CaughtUpNext

\* The master completes a write: to f, or to somebody else.
LEMMA MasterWriteKeeps ==
    ASSUME SafeInv, RegisterInv, PushInv, NEW f \in Followers, NEW l, MqWrite(Master)
    PROVE  CaughtUp(f, l)' = CaughtUp(f, l)
  <1>1. PICK n : n = pname[f]
    OBVIOUS
  <1>2. PICK u : u = lockDict[f][l]
    OBVIOUS
  <1>3. PICK q : q = Unread(queue, n)
    OBVIOUS
  <1>4. PICK o : o = out[Master]
    OBVIOUS
  <1>5. /\ n \in Int /\ o \in Seq(Write) /\ q \in Seq(Msg)
        /\ CaughtUp(f, l) = Catch(n, l, u, q, o)
    BY <1>1, <1>2, <1>3, <1>4, CaughtUpIs
  <1>6. PICK h : h = Head(o)
    OBVIOUS
  <1>7. o # <<>> /\ 1 \in 1..Len(o) /\ h = o[1] /\ h \in Write
    <2>1. o # <<>>
      BY <1>4 DEF MqWrite
    <2>2. o \in Seq(Write)
      BY <1>5
    <2>3. QED BY <1>6, <2>1, <2>2
  <1>8. /\ \/ h.to = DnsNode /\ UNCHANGED queue
           \/ h.to = NoName /\ UNCHANGED queue
           \/ h.to \in DOMAIN queue /\ queue' = [queue EXCEPT ![h.to] = Append(@, h.msg)]
        /\ pname'[f] = n /\ lockDict'[f][l] = u
    BY <1>1, <1>2, <1>4, <1>6 DEF MqWrite
  <1>9. out'[Master] = Tail(o)
    <2>1. out \in [Procs -> Seq(Write)] /\ Master \in Procs
      BY DEF SafeInv, TypeInv, TypeOK, Write, Procs, Servers
    <2>2. QED BY <1>4, <2>1 DEF MqWrite
  <1>10. n # DnsNode /\ NoName \notin DOMAIN queue
    BY <1>1, FollowerNames
  <1>11. CASE h.to \in DOMAIN queue /\ h.to = n
    <2>1. queue' = [queue EXCEPT ![n] = Append(@, h.msg)]
      BY <1>8, <1>10, <1>11 DEF NoName
    <2>2. Unread(queue', n) = Append(q, h.msg)
      BY <1>3, <1>11, <2>1 DEF Unread
    <2>3. CaughtUp(f, l)' = Catch(n, l, u, Append(q, h.msg), Tail(o))
      <3>1. PICK s : s = Append(q, h.msg)
        OBVIOUS
      <3>2. PICK t : t = Tail(o)
        OBVIOUS
      <3>3. /\ pname'[f] = n /\ lockDict'[f][l] = u
            /\ Unread(queue', n) = s /\ out'[Master] = t
        BY <1>8, <1>9, <2>2, <3>1, <3>2
      <3>4. CaughtUp(f, l)' = Catch(n, l, u, s, t)
        BY <3>3, CaughtUpNext
      <3>5. QED BY <3>1, <3>2, <3>4
    <2>4. Catch(n, l, u, Append(q, h.msg), Tail(o)) = Catch(n, l, u, q, o)
      BY <1>5, <1>6, <1>7, <1>11, CatchMoves
    <2>5. QED BY <1>5, <2>3, <2>4
  <1>12. CASE h.to \notin DOMAIN queue \/ h.to # n
    <2>1. Skipped(n, l, h)
      <3>1. CASE h.to # n
        BY <3>1 DEF Skipped
      <3>2. CASE h.to = n
        <4>1. h.to = NoName
          BY <1>8, <1>10, <1>12, <3>2
        <4>2. h.msg.type \notin Syncs
          BY <1>4, <1>7, <4>1 DEF PushInv
        <4>3. QED BY <4>2 DEF Skipped
      <3>3. QED BY <3>1, <3>2
    <2>2. Unread(queue', n) = q
      BY <1>3, <1>8, <1>12 DEF Unread
    <2>3. CaughtUp(f, l)' = Catch(n, l, u, q, Tail(o))
      <3>1. PICK t : t = Tail(o)
        OBVIOUS
      <3>2. /\ pname'[f] = n /\ lockDict'[f][l] = u
            /\ Unread(queue', n) = q /\ out'[Master] = t
        BY <1>8, <1>9, <2>2, <3>1
      <3>3. CaughtUp(f, l)' = Catch(n, l, u, q, t)
        BY <3>2, CaughtUpNext
      <3>4. QED BY <3>1, <3>3
    <2>4. Catch(n, l, u, q, Tail(o)) = Catch(n, l, u, q, o)
      BY <1>5, <1>6, <1>7, <2>1, CatchDrops
    <2>5. QED BY <1>5, <2>3, <2>4
  <1>13. QED BY <1>11, <1>12

\* Another process completes a write: no sync.
LEMMA OthersWriteKeeps ==
    ASSUME SafeInv, RegisterInv, PushInv, NEW f \in Followers, NEW l,
           NEW p \in Procs, p # Master, MqWrite(p)
    PROVE  CaughtUp(f, l)' = CaughtUp(f, l)
  <1>1. PICK n : n = pname[f]
    OBVIOUS
  <1>2. PICK u : u = lockDict[f][l]
    OBVIOUS
  <1>3. PICK q : q = Unread(queue, n)
    OBVIOUS
  <1>4. PICK o : o = out[Master]
    OBVIOUS
  <1>5. /\ n \in Int /\ o \in Seq(Write) /\ q \in Seq(Msg)
        /\ CaughtUp(f, l) = Catch(n, l, u, q, o)
    BY <1>1, <1>2, <1>3, <1>4, CaughtUpIs
  <1>6. PICK h : h = Head(out[p])
    OBVIOUS
  <1>7. out \in [Procs -> Seq(Write)] /\ Master \in Procs /\ p \in Procs \ {Master}
    BY DEF SafeInv, TypeInv, TypeOK, Write, Procs, Servers
  <1>8. out[p] # <<>> /\ 1 \in 1..Len(out[p]) /\ h = out[p][1] /\ h \in Write
    BY <1>6, <1>7 DEF MqWrite
  <1>9. h.msg \in Msg /\ h.msg.type \notin Syncs
    BY <1>7, <1>8 DEF PushInv, Write
  <1>10. /\ \/ h.to = DnsNode /\ UNCHANGED queue
            \/ h.to = NoName /\ UNCHANGED queue
            \/ h.to \in DOMAIN queue /\ queue' = [queue EXCEPT ![h.to] = Append(@, h.msg)]
         /\ pname'[f] = n /\ lockDict'[f][l] = u
    BY <1>1, <1>2, <1>6 DEF MqWrite
  <1>11. out'[Master] = o
    BY <1>4, <1>7 DEF MqWrite
  <1>12. Unread(queue', n) = q \/ Unread(queue', n) = Append(q, h.msg)
    BY <1>3, <1>10 DEF Unread
  <1>13. CASE Unread(queue', n) = q
    BY <1>5, <1>10, <1>11, <1>13, CaughtUpNext
  <1>14. CASE Unread(queue', n) = Append(q, h.msg)
    <2>1. CaughtUp(f, l)' = Catch(n, l, u, Append(q, h.msg), o)
      <3>1. PICK s : s = Append(q, h.msg)
        OBVIOUS
      <3>2. /\ pname'[f] = n /\ lockDict'[f][l] = u
            /\ Unread(queue', n) = s /\ out'[Master] = o
        BY <1>10, <1>11, <1>14, <3>1
      <3>3. CaughtUp(f, l)' = Catch(n, l, u, s, o)
        BY <3>2, CaughtUpNext
      <3>4. QED BY <3>1, <3>3
    <2>2. Catch(n, l, u, Append(q, h.msg), o) = Catch(n, l, u, q, o)
      BY <1>5, <1>9, CatchQuiet
    <2>3. QED BY <1>5, <2>1, <2>2
  <1>15. QED BY <1>12, <1>13, <1>14

\* A client that connects or calls begins a write; that is all.
LEMMA ClientBeginsKeeps ==
    ASSUME SafeInv, RegisterInv, NEW f \in Followers, NEW l, NEW c \in Clients,
           NEW w, Applies(c, w) \/ CallsWith(c, w), UNCHANGED lockDict
    PROVE  CaughtUp(f, l)' = CaughtUp(f, l)
  <1>1. Writes(c, w) /\ c # Master
    BY DEF Applies, CallsWith
  <1>2. f # c /\ f \in Procs /\ Master \in Procs
    BY FollowerNames DEF Procs, Servers
  <1>3. pname'[f] = pname[f]
    BY <1>2 DEF Applies, CallsWith, SafeInv, TypeInv, TypeOK
  <1>4. out'[Master] = out[Master]
    BY <1>1, <1>2, WrittenFlight
  <1>5. Unread(queue', pname[f]) = Unread(queue, pname[f])
    BY <1>1, BegunUnread
  <1>6. QED BY <1>3, <1>4, <1>5, UntouchedKeeps

\* What a client reads, or closes, is its own queue.
LEMMA ClientReadsKeeps ==
    ASSUME SafeInv, RegisterInv, NEW f \in Followers, NEW l, NEW c \in Clients,
           RecvAck(c) \/ Return(c) \/ Close(c) \/ LookupServer(c)
    PROVE  CaughtUp(f, l)' = CaughtUp(f, l)
  <1>1. UNCHANGED <<lockDict, out, pname>>
    BY DEF RecvAck, Return, Close, LookupServer
  <1>2. Unread(queue', pname[f]) = Unread(queue, pname[f])
    <2>1. CASE LookupServer(c)
      BY <2>1 DEF LookupServer, Unread
    <2>2. CASE RecvAck(c) \/ Return(c) \/ Close(c)
      <3>1. Connected(c)
        BY <2>2 DEF RecvAck, Return, Close, Connected
      <3>2. pname[f] # pname[c]
        BY <3>1, FollowerNames, ClientNames DEF SafeInv
      <3>3. CASE RecvAck(c)
        <4>1. PICK z : queue' = [queue EXCEPT ![pname[c]] = z]
          BY <3>3 DEF RecvAck
        <4>2. QED BY <3>2, <4>1 DEF Unread
      <3>4. CASE Return(c)
        BY <3>2, <3>4 DEF Return, Unread
      <3>5. CASE Close(c)
        BY <3>2, <3>5 DEF Close, Unread
      <3>6. QED BY <2>2, <3>3, <3>4, <3>5
    <2>3. QED BY <2>1, <2>2
  <1>3. QED BY <1>1, <1>2, UntouchedKeeps

\* A follower that starts has no sync in its queue, nor is one on its way.
LEMMA StartKeeps ==
    ASSUME SafeInv, RegisterInv, PushInv, NEW f \in Followers, NEW l,
           NEW g \in Followers, NEW w, Introduces(g, w), UNCHANGED lockDict
    PROVE  CaughtUp(f, l)' = CaughtUp(f, l)
  <1>1. Writes(g, w) /\ g # Master /\ Master \in Procs
    BY DEF Introduces, Procs, Servers
  <1>2. out'[Master] = out[Master]
    BY <1>1, WrittenFlight
  <1>3. \A n : Unread(queue', n) = Unread(queue, n)
    BY <1>1, BegunUnread
  <1>4. pname \in [Procs -> Int] /\ f \in Procs
    BY FollowerNames DEF SafeInv, TypeInv, TypeOK
  <1>5. CASE f # g
    <2>1. pname'[f] = pname[f]
      BY <1>4, <1>5 DEF Introduces
    <2>2. QED BY <1>2, <1>3, <2>1, UntouchedKeeps
  <1>6. CASE f = g
    <2>1. PICK u : u = lockDict[f][l]
      OBVIOUS
    <2>2. PICK o : o = out[Master]
      OBVIOUS
    <2>3. PICK n : n = pname'[f]
      OBVIOUS
    <2>4. n = Oldest /\ n \in Int /\ n # NoName /\ pname[f] = NoName
      BY <1>4, <1>6, <2>3 DEF Introduces, NoName, Oldest, SafeInv, TypeInv, TypeOK
    <2>5. /\ o \in Seq(Write) /\ pname[f] \in Int
          /\ CaughtUp(f, l) = Catch(NoName, l, u, Unread(queue, NoName), o)
      BY <2>1, <2>2, <2>4, CaughtUpIs
    <2>6. Unread(queue, NoName) = <<>>
      BY FollowerNames DEF Unread
    <2>7. \A i \in 1..Len(o) : Skipped(NoName, l, o[i])
      BY <2>2 DEF PushInv, Skipped
    <2>8. 1..Len(<<>>) = {} /\ <<>> \in Seq(Msg)
      OBVIOUS
    <2>9. CaughtUp(f, l) = u
      <3>1. PICK e : e = Unread(queue, NoName)
        OBVIOUS
      <3>2. e \in Seq(Msg) /\ \A i \in 1..Len(e) : Skipped(NoName, l, Send(NoName, e[i]))
        BY <2>6, <2>8, <3>1
      <3>3. QED BY <2>4, <2>5, <2>7, <3>1, <3>2, CatchNothing
    <2>10. PICK q : q = Unread(queue, n)
      OBVIOUS
    <2>11. q \in Seq(Msg)
      BY <2>10, <2>8 DEF Unread, SafeInv, TypeInv, TypeOK
    <2>12. \A i \in 1..Len(q) : FALSE
      <3> SUFFICES ASSUME NEW i \in 1..Len(q) PROVE FALSE
        OBVIOUS
      <3>1. n \in DOMAIN queue /\ q = queue[n]
        BY <2>8, <2>10 DEF Unread
      <3>2. PICK z : z = Send(n, queue[n][i])
        OBVIOUS
      <3>3. z \in InFlight(queue, out) /\ z.to = n
        BY <3>1, <3>2, FlightCases DEF Send
      <3>4. z.to < Oldest
        BY <3>3 DEF SafeInv, FlightInv, WellFormed
      <3>5. QED BY <2>4, <3>3, <3>4
    <2>13. \A i \in 1..Len(o) : Skipped(n, l, o[i])
      <3> SUFFICES ASSUME NEW i \in 1..Len(o) PROVE o[i].to # n
        BY DEF Skipped
      <3>1. o[i] \in InFlight(queue, out)
        BY <1>1, <2>2, FlightCases
      <3>2. o[i].to < Oldest
        BY <3>1 DEF SafeInv, FlightInv, WellFormed
      <3>3. QED BY <2>4, <3>2
    <2>14. CaughtUp(f, l)' = Catch(n, l, u, q, o)
      BY <1>2, <1>3, <2>1, <2>2, <2>3, <2>10, CaughtUpNext
    <2>15. Catch(n, l, u, q, o) = u
      BY <2>4, <2>5, <2>11, <2>12, <2>13, CatchNothing
    <2>16. QED BY <2>9, <2>14, <2>15
  <1>7. QED BY <1>5, <1>6

-----------------------------------------------------------------------------
(* What the servers write, and what they record.                           *)

\* What a step may do to f's record of l: leave both ends alone, or change the
\* master's record and tell f when f is enrolled.
Followed(f, l) ==
    \/ lockDict'[Master][l] = lockDict[Master][l] /\ CaughtUp(f, l)' = CaughtUp(f, l)
    \/ /\ UNCHANGED <<mqFoers, pname>>
       /\ IsFoer(f) => CaughtUp(f, l)' = lockDict'[Master][l]
       /\ ~IsFoer(f) => CaughtUp(f, l)' = CaughtUp(f, l)

\* The write that tells n of what the message m changed.
Told(n, m, t) == Send(n, [m EXCEPT !.type = t])

\* An answer, and the change of the record that goes to all that are enrolled.
LEMMA PushesKeep ==
    ASSUME SafeInv, RegisterInv, NEW f \in Followers, NEW l,
           NEW t \in {"LOCK_NEW", "LOCK_DELETE"}, NEW m, NEW z \in Write,
           z.msg.type \notin Syncs, Handles(Master, m, <<z>> \o ToFoers(m, t)),
           lockDict'[f][l] = lockDict[f][l]
    PROVE  /\ IsFoer(f) => CaughtUp(f, l)' = After(pname[f], l, CaughtUp(f, l),
                                                  Told(pname[f], m, t))
           /\ ~IsFoer(f) => CaughtUp(f, l)' = CaughtUp(f, l)
  <1>1. PICK n : n = pname[f]
    OBVIOUS
  <1>2. PICK u : u = lockDict[f][l]
    OBVIOUS
  <1>3. PICK q : q = Unread(queue, n)
    OBVIOUS
  <1>4. PICK g : g = ToFoers(m, t)
    OBVIOUS
  <1>5. PICK x : x = [m EXCEPT !.type = t]
    OBVIOUS
  <1>6. /\ n \in Int /\ q \in Seq(Msg)
        /\ CaughtUp(f, l) = Catch(n, l, u, q, out[Master])
    BY <1>1, <1>2, <1>3, CaughtUpIs
  <1>7. PICK v : v = <<z>> \o g
    OBVIOUS
  <1>8. m \in Msg /\ out[Master] = <<>> /\ out'[Master] = v
    BY <1>7, <1>4, HandledFlight
  <1>9. pname'[f] = n
    BY <1>1 DEF Handles
  <1>10. Unread(queue', n) = q
    <2>1. n # pname[Master]
      BY <1>1, FollowerNames
    <2>2. QED BY <1>3, <2>1, HandledUnread
  <1>11. g \in Seq(Write) /\ Pushes(g, mqFoers, x)
    <2>1. TypeOK /\ t \in MsgTypes
      BY DEF SafeInv, TypeInv, MsgTypes
    <2>2. /\ g \in Seq(Write) /\ Len(g) = Len(mqFoers)
          /\ \A i \in 1..Len(mqFoers) : g[i] = Send(mqFoers[i], x)
      BY <1>4, <1>5, <1>8, <2>1, ToFoersType
    <2>3. Len(mqFoers) \in Nat
      BY <2>1 DEF TypeOK
    <2>4. QED BY <2>2, <2>3 DEF Pushes
  <1>12. CaughtUp(f, l)' = Catch(n, l, u, q, v)
    <2>1. /\ pname'[f] = n /\ lockDict'[f][l] = u
          /\ Unread(queue', n) = q /\ out'[Master] = v
      BY <1>2, <1>8, <1>9, <1>10
    <2>2. QED BY ONLY <2>1, CaughtUpNext
  <1>13. Skipped(n, l, z)
    BY DEF Skipped
  <1>14. /\ In(mqFoers, n) => Catch(n, l, u, q, <<z>> \o g)
                                = After(n, l, Catch(n, l, u, q, <<>>), Send(n, x))
         /\ ~In(mqFoers, n) => Catch(n, l, u, q, <<z>> \o g) = Catch(n, l, u, q, <<>>)
    BY <1>6, <1>11, <1>13, CatchPushes
  <1>15. IsFoer(f) <=> In(mqFoers, n)
    BY <1>1 DEF IsFoer, In
  <1>16. Told(n, m, t) = Send(n, x)
    BY <1>5 DEF Told
  <1>17. QED BY <1>7, <1>1, <1>6, <1>8, <1>12, <1>14, <1>15, <1>16

\* What the master writes when it grants or releases.
LEMMA ChangeWrites ==
    ASSUME SafeInv, MasterGrant \/ MasterRelease, UNCHANGED <<cstate, cmsg, held>>
    PROVE  \E m \in Msg : \E v \in Seq(Write) : \E z \in Write :
              /\ Handles(Master, m, v) /\ z.msg.type \in AnswerTypes
              /\ m = Received(Master) /\ m.lock \in Locks
              /\ v = <<z>> \o ToFoers(m, IF MasterGrant THEN "LOCK_NEW" ELSE "LOCK_DELETE")
  <1>1. PICK m \in Msg : \E v \in Seq(Write) : Handles(Master, m, v)
    BY MasterCalls DEF QuietStep
  <1>2. PICK v \in Seq(Write) : Handles(Master, m, v)
    BY <1>1
  <1>3. m = Received(Master) /\ HasMsg(Master) /\ m.type \in Calls /\ out'[Master] = v
    BY <1>2, HandledFlight DEF Handles, MasterGrant, MasterRelease, Calls
  <1>4. PICK t : t = IF MasterGrant THEN "LOCK_GRANT" ELSE "LOCK_IDLE"
    OBVIOUS
  <1>5. PICK z : z = Reply(Master, m, t)
    OBVIOUS
  <1>6. z \in Write /\ z.msg.type = t
    <2>1. TypeOK /\ t \in MsgTypes /\ Master \in Servers
      BY <1>4 DEF SafeInv, TypeInv, MsgTypes, Servers
    <2>2. z \in Write
      BY <1>5, <2>1, ReplyType
    <2>3. [m EXCEPT !.type = t].type = t
      BY DEF Msg
    <2>4. QED BY <1>5, <2>2, <2>3 DEF Reply, Send
  <1>7. v = <<z>> \o ToFoers(m, IF MasterGrant THEN "LOCK_NEW" ELSE "LOCK_DELETE")
    <2>1. out \in [Procs -> Seq(Write)] /\ Master \in Procs
      BY DEF SafeInv, TypeInv, TypeOK, Write, Procs, Servers
    <2>2. CASE MasterGrant
      BY <1>3, <1>4, <1>5, <2>1, <2>2 DEF MasterGrant
    <2>3. CASE ~MasterGrant
      BY <1>3, <1>4, <1>5, <2>1, <2>3 DEF MasterRelease
    <2>4. QED BY <2>2, <2>3
  <1>8. m.lock \in Locks
    <2>1. Master \in Servers
      BY DEF Servers
    <2>2. QED BY <1>3, <2>1, CallHandled
  <1>9. z.msg.type \in AnswerTypes
    BY <1>4, <1>6 DEF AnswerTypes
  <1>10. QED BY <1>1, <1>2, <1>3, <1>6, <1>7, <1>8, <1>9

\* A grant or a release is followed by all that are enrolled.
LEMMA ChangeFollowed ==
    ASSUME SafeInv, RegisterInv, ReplicaNeverWrong, MasterGrant \/ MasterRelease,
           UNCHANGED <<cstate, cmsg, held>>, NEW f \in Followers, NEW l \in Locks
    PROVE  Followed(f, l)
  <1>1. PICK t : t = IF MasterGrant THEN "LOCK_NEW" ELSE "LOCK_DELETE"
    OBVIOUS
  <1>2. PICK m \in Msg, v \in Seq(Write), z \in Write :
           /\ Handles(Master, m, v) /\ z.msg.type \in AnswerTypes
           /\ m = Received(Master) /\ m.lock \in Locks
           /\ v = <<z>> \o ToFoers(m, t)
    BY <1>1, ChangeWrites
  <1>3. PICK n : n = pname[f]
    OBVIOUS
  <1>4. PICK w : w = Told(n, m, t)
    OBVIOUS
  <1>5. PICK u : u = IF MasterGrant THEN m.uuid ELSE 0
    OBVIOUS
  <1>6. /\ lockDict' = [lockDict EXCEPT ![Master][m.lock] = u]
        /\ MasterGrant => lockDict[Master][m.lock] = 0
        /\ UNCHANGED <<mqFoers, pname>>
    BY <1>2, <1>5 DEF MasterGrant, MasterRelease, Recorded, IsFree
  <1>7. lockDict \in [Servers -> [Locks -> Nat]] /\ Master \in Servers /\ f \in Servers
        /\ f # Master
    BY ServerAssumption DEF SafeInv, TypeInv, TypeOK, Servers
  <1>8. /\ lockDict'[f] = lockDict[f] /\ lockDict'[Master][m.lock] = u
        /\ l # m.lock => lockDict'[Master][l] = lockDict[Master][l]
    BY <1>2, <1>6, <1>7
  <1>9. z.msg.type \notin Syncs /\ t \in {"LOCK_NEW", "LOCK_DELETE"}
    BY <1>1, <1>2 DEF AnswerTypes, Syncs
  <1>10. /\ IsFoer(f) => CaughtUp(f, l)' = After(n, l, CaughtUp(f, l), w)
         /\ ~IsFoer(f) => CaughtUp(f, l)' = CaughtUp(f, l)
    <2>1. Handles(Master, m, <<z>> \o ToFoers(m, t))
      BY <1>2
    <2>2. lockDict'[f][l] = lockDict[f][l]
      BY <1>8
    <2>3. /\ n = pname[f] /\ w = Told(n, m, t) /\ z.msg.type \notin Syncs
          /\ SafeInv /\ RegisterInv /\ f \in Followers /\ z \in Write
      BY <1>2, <1>3, <1>4, <1>9
    <2>4. t \in {"LOCK_NEW", "LOCK_DELETE"}
      BY <1>9
    <2>5. QED BY ONLY <2>1, <2>2, <2>3, <2>4, PushesKeep
  <1>11. w.to = n /\ w.msg.type = t /\ w.msg.lock = m.lock /\ w.msg.uuid = m.uuid
    <2>1. PICK x : x = [m EXCEPT !.type = t]
      OBVIOUS
    <2>2. x.type = t /\ x.lock = m.lock /\ x.uuid = m.uuid
      BY <1>2, <2>1 DEF Msg
    <2>3. QED BY <1>4, <2>1, <2>2 DEF Send, Told
  <1>12. CASE l # m.lock
    <2>1. After(n, l, CaughtUp(f, l), w) = CaughtUp(f, l)
      BY <1>11, <1>12 DEF After
    <2>2. QED BY <1>8, <1>10, <1>12, <2>1 DEF Followed
  <1>13. CASE l = m.lock
    <2>1. CaughtUp(f, l) \in {0, lockDict[Master][l]}
      BY DEF ReplicaNeverWrong
    <2>2. CASE MasterGrant
      <3>1. CaughtUp(f, l) = 0 /\ t = "LOCK_NEW" /\ u = m.uuid
        BY <1>1, <1>5, <1>6, <1>13, <2>1, <2>2
      <3>2. After(n, l, CaughtUp(f, l), w) = m.uuid
        BY <1>9, <1>11, <1>13, <3>1 DEF After, Syncs
      <3>3. QED BY <1>6, <1>8, <1>10, <1>13, <3>1, <3>2 DEF Followed
    <2>3. CASE ~MasterGrant
      <3>1. t = "LOCK_DELETE" /\ u = 0
        BY <1>1, <1>5, <2>3
      <3>2. After(n, l, CaughtUp(f, l), w) = 0
        BY <1>11, <1>13, <3>1 DEF After, Syncs
      <3>3. QED BY <1>6, <1>8, <1>10, <1>13, <3>1, <3>2 DEF Followed
    <2>4. QED BY <2>2, <2>3
  <1>14. QED BY <1>12, <1>13

\* The master's handlers that change no record.
MasterRest ==
    MasterRegisterClient \/ MasterRegisterFoer \/ MasterRefuse \/ MasterInquire

\* What they write is no sync.
LEMMA MasterSilence ==
    ASSUME SafeInv, RegisterInv, MasterRest, UNCHANGED <<cstate, cmsg, held>>
    PROVE  \E m \in Msg : \E v \in Seq(Write) :
              Handles(Master, m, v) /\ \A i \in 1..Len(v) : v[i].msg.type \notin Syncs
  <1>1. CASE MasterRegisterClient
    <2>1. PICK m \in Msg : \E v \in Seq(Write) : Acknowledges(m, v)
      BY <1>1, RegisterClientStep
    <2>2. PICK v \in Seq(Write) : Acknowledges(m, v)
      BY <2>1
    <2>3. \A i \in 1..Len(v) : i = 1 \/ i = 2
      BY <2>2 DEF Acknowledges
    <2>4. QED BY <2>2, <2>3 DEF Acknowledges, Syncs
  <1>2. CASE MasterRegisterFoer
    <2>1. PICK m \in Msg : \E v \in Seq(Write) : Enrols(m, v)
      BY <1>2, RegisterFoerStep
    <2>2. PICK v \in Seq(Write) : Enrols(m, v)
      BY <2>1
    <2>3. QED BY <2>2 DEF Enrols, Syncs
  <1>3. CASE MasterRefuse \/ MasterInquire
    <2>1. PICK m \in Msg : \E v \in Seq(Write) : Handles(Master, m, v)
      BY <1>3, MasterCalls DEF QuietStep
    <2>2. PICK v \in Seq(Write) : Handles(Master, m, v)
      BY <2>1
    <2>3. m = Received(Master) /\ out'[Master] = v
      BY <2>2, HandledFlight DEF Handles
    <2>4. PICK t : t = IF MasterRefuse THEN "LOCK_BUSY" ELSE InquiryAnswer(Master, m)
      OBVIOUS
    <2>5. PICK z : z = Reply(Master, m, t)
      OBVIOUS
    <2>6. v = <<z>>
      <3>1. out \in [Procs -> Seq(Write)] /\ Master \in Procs
        BY DEF SafeInv, TypeInv, TypeOK, Write, Procs, Servers
      <3>2. CASE MasterRefuse
        BY <2>3, <2>4, <2>5, <3>1, <3>2 DEF MasterRefuse, Refusal
      <3>3. CASE ~MasterRefuse
        BY <1>3, <2>3, <2>4, <2>5, <3>1, <3>3 DEF MasterInquire
      <3>4. QED BY <3>2, <3>3
    <2>7. z.msg.type \notin Syncs
      <3>1. t \notin Syncs
        BY <2>4 DEF InquiryAnswer, Syncs
      <3>2. [m EXCEPT !.type = t].type = t
        BY DEF Msg
      <3>3. QED BY <2>5, <3>1, <3>2 DEF Reply, Send
    <2>8. \A i \in 1..Len(v) : v[i] = z
      BY <2>6
    <2>9. QED BY <2>2, <2>7, <2>8
  <1>4. QED BY <1>1, <1>2, <1>3 DEF MasterRest

\* A follower's handlers.
FollowerHandles(s) ==
    \/ FollowerForward(s) \/ FollowerInquire(s)
    \/ FollowerAdd(s) \/ FollowerDelete(s) \/ FollowerIgnore(s)

\* A follower writes no syncs, whatever it handles.
LEMMA FollowerSilence ==
    ASSUME SafeInv, RegisterInv, NEW s \in Followers, FollowerHandles(s),
           UNCHANGED <<cstate, cmsg, held>>
    PROVE  \E m \in Msg : \E v \in Seq(Write) :
              /\ Handles(s, m, v) /\ m = Received(s)
              /\ \A i \in 1..Len(v) : v[i].msg.type \notin Syncs
  <1>0. QuietStep(s) \/ PassesOn(s)
    BY FollowerPasses, FollowerCalls, FollowerCopies DEF FollowerHandles
  <1>1. PICK m \in Msg : \E v \in Seq(Write) : Handles(s, m, v)
    BY <1>0 DEF QuietStep, PassesOn
  <1>2. PICK v \in Seq(Write) : Handles(s, m, v)
    BY <1>1
  <1>3. m = Received(s) /\ out'[s] = v /\ out[s] = <<>>
    BY <1>2, HandledFlight DEF Handles
  <1>4. out \in [Procs -> Seq(Write)] /\ s \in Procs
    BY DEF SafeInv, TypeInv, TypeOK, Write, Procs, Servers
  <1>5. CASE FollowerForward(s)
    <2>1. PICK z : z = Send(MasterNode, m)
      OBVIOUS
    <2>2. v = <<z>> /\ m.type \notin Syncs
      BY <1>3, <1>4, <1>5, <2>1 DEF FollowerForward, Forwarded, Syncs
    <2>3. z.msg = m
      BY <2>1 DEF Send
    <2>4. \A i \in 1..Len(v) : v[i] = z
      BY <2>2
    <2>5. QED BY <1>2, <1>3, <2>2, <2>3, <2>4
  <1>6. CASE FollowerInquire(s)
    <2>1. PICK t : t = InquiryAnswer(s, m)
      OBVIOUS
    <2>2. PICK x : x = mqDict'[s][m.uuid]
      OBVIOUS
    <2>3. PICK z : z = Send(x, [m EXCEPT !.type = t])
      OBVIOUS
    <2>4. v = <<z>>
      BY <1>3, <1>4, <1>6, <2>1, <2>2, <2>3 DEF FollowerInquire
    <2>5. z.msg.type \notin Syncs
      <3>1. t \notin Syncs
        BY <2>1 DEF InquiryAnswer, Syncs
      <3>2. [m EXCEPT !.type = t].type = t
        BY DEF Msg
      <3>3. QED BY <2>3, <3>1, <3>2 DEF Send
    <2>6. \A i \in 1..Len(v) : v[i] = z
      BY <2>4
    <2>7. QED BY <1>2, <1>3, <2>5, <2>6
  <1>7. CASE FollowerAdd(s) \/ FollowerDelete(s) \/ FollowerIgnore(s)
    <2>1. v = <<>>
      BY <1>3, <1>7 DEF FollowerAdd, FollowerDelete, FollowerIgnore
    <2>2. 1..Len(v) = {}
      BY <2>1
    <2>3. QED BY <1>2, <1>3, <2>2
  <1>8. QED BY <1>5, <1>6, <1>7 DEF FollowerHandles

\* What a follower records is what After says.
LEMMA FollowerRecords ==
    ASSUME SafeInv, NEW s \in Followers, FollowerHandles(s), NEW f \in Followers,
           NEW l \in Locks, NEW m, m = Received(s), NEW n
    PROVE  /\ lockDict'[Master] = lockDict[Master]
           /\ lockDict'[f][l] = IF s = f THEN After(n, l, lockDict[f][l], Send(n, m))
                                ELSE lockDict[f][l]
  <1>1. /\ lockDict \in [Servers -> [Locks -> Nat]] /\ Master \in Servers
        /\ s \in Servers /\ f \in Servers /\ s # Master
    BY ServerAssumption DEF SafeInv, TypeInv, TypeOK, Servers
  <1>2. PICK u : u = After(n, l, lockDict[f][l], Send(n, m))
    OBVIOUS
  <1>3. PICK w : w = Send(n, m)
    OBVIOUS
  <1>4. w.to = n /\ w.msg = m
    BY <1>3 DEF Send
  <1>5. CASE FollowerForward(s) \/ FollowerInquire(s) \/ FollowerIgnore(s)
    <2>1. UNCHANGED lockDict /\ m.type \notin Syncs
      BY <1>5 DEF FollowerForward, FollowerInquire, FollowerIgnore, Syncs
    <2>2. u = lockDict[f][l]
      BY <1>2, <1>3, <1>4, <2>1 DEF After
    <2>3. QED BY <1>2, <2>1, <2>2
  <1>6. CASE FollowerAdd(s)
    <2>1. /\ m.type \in {"LOCK_SYNC", "LOCK_NEW"}
          /\ lockDict' = IF lockDict[s][m.lock] = 0
                           THEN [lockDict EXCEPT ![s][m.lock] = m.uuid] ELSE lockDict
      BY <1>6 DEF FollowerAdd
    <2>2. lockDict'[Master] = lockDict[Master] /\ (s # f => lockDict'[f] = lockDict[f])
      BY <1>1, <2>1
    <2>3. CASE s = f
      <3>1. u = IF m.lock # l THEN lockDict[f][l]
                ELSE IF lockDict[f][l] = 0 THEN m.uuid ELSE lockDict[f][l]
        BY <1>2, <1>3, <1>4, <2>1 DEF After, Syncs
      <3>2. lockDict'[f][l] = u
        BY <1>1, <2>1, <2>3, <3>1
      <3>3. QED BY <1>2, <2>2, <2>3, <3>2
    <2>4. QED BY <2>2, <2>3
  <1>7. CASE FollowerDelete(s)
    <2>1. m.type = "LOCK_DELETE" /\ lockDict' = [lockDict EXCEPT ![s][m.lock] = 0]
      BY <1>7 DEF FollowerDelete, Forgotten
    <2>2. lockDict'[Master] = lockDict[Master] /\ (s # f => lockDict'[f] = lockDict[f])
      BY <1>1, <2>1
    <2>3. CASE s = f
      <3>1. u = IF m.lock # l THEN lockDict[f][l] ELSE 0
        BY <1>2, <1>3, <1>4, <2>1 DEF After, Syncs
      <3>2. lockDict'[f][l] = u
        BY <1>1, <2>1, <2>3, <3>1
      <3>3. QED BY <1>2, <2>2, <2>3, <3>2
    <2>4. QED BY <2>2, <2>3
  <1>8. QED BY <1>5, <1>6, <1>7 DEF FollowerHandles

\* Every step is followed by every follower.
LEMMA FollowNext ==
    ASSUME SafeInv, RegisterInv, PushInv, ReplicaNeverWrong, Next,
           NEW f \in Followers, NEW l \in Locks
    PROVE  Followed(f, l)
  <1>1. ASSUME UNCHANGED lockDict, CaughtUp(f, l)' = CaughtUp(f, l) PROVE Followed(f, l)
    BY <1>1 DEF Followed
  <1>2. CASE ServerStep
    <2>0. UNCHANGED <<cstate, cmsg, held>>
      BY <1>2 DEF ServerStep
    <2>1. CASE MasterGrant \/ MasterRelease
      BY <2>0, <2>1, ChangeFollowed
    <2>2. CASE MasterRest
      <3>1. UNCHANGED lockDict
        BY <2>2 DEF MasterRest, MasterRegisterClient, MasterRegisterFoer, MasterRefuse,
                    MasterInquire
      <3>2. PICK m \in Msg : \E v \in Seq(Write) :
               Handles(Master, m, v) /\ \A i \in 1..Len(v) : v[i].msg.type \notin Syncs
        BY <2>0, <2>2, MasterSilence
      <3>3. PICK v \in Seq(Write) :
               Handles(Master, m, v) /\ \A i \in 1..Len(v) : v[i].msg.type \notin Syncs
        BY <3>2
      <3>4. \A i \in 1..Len(v) : Skipped(pname[f], l, v[i])
        BY <3>3 DEF Skipped
      <3>5. CaughtUp(f, l)' = CaughtUp(f, l)
        BY <3>1, <3>3, <3>4, MasterKeeps
      <3>6. QED BY <1>1, <3>1, <3>5
    <2>3. ASSUME NEW s \in Followers, FollowerHandles(s) PROVE Followed(f, l)
      <3>1. PICK m \in Msg : \E v \in Seq(Write) : Handles(s, m, v) /\ m = Received(s)
        BY <2>0, <2>3, FollowerSilence
      <3>2. PICK v \in Seq(Write) : Handles(s, m, v) /\ m = Received(s)
        BY <3>1
      <3>3. PICK n : n = pname[f]
        OBVIOUS
      <3>4. /\ lockDict'[Master] = lockDict[Master]
            /\ lockDict'[f][l] = IF s = f THEN After(n, l, lockDict[f][l], Send(n, m))
                                 ELSE lockDict[f][l]
        BY <2>3, <3>2, FollowerRecords
      <3>5. CaughtUp(f, l)' = CaughtUp(f, l)
        BY <2>3, <3>2, <3>3, <3>4, FollowerKeeps
      <3>6. QED BY <3>4, <3>5 DEF Followed
    <2>4. ASSUME NEW s \in Followers, FollowerStart(s) PROVE Followed(f, l)
      <3>1. UNCHANGED lockDict
        BY <2>4 DEF FollowerStart
      <3>2. \E w \in Write : Introduces(s, w)
        BY <2>0, <2>4, FollowerStarts
      <3>3. QED BY <1>1, <2>4, <3>1, <3>2, StartKeeps
    <2>5. ASSUME NEW s \in Servers, MqWrite(s) PROVE Followed(f, l)
      <3>1. UNCHANGED lockDict /\ s \in Procs
        BY <2>5 DEF MqWrite, Procs
      <3>2. QED BY <1>1, <2>5, <3>1, MasterWriteKeeps, OthersWriteKeeps
    <2>6. QED BY <1>2, <2>1, <2>2, <2>3, <2>4, <2>5
             DEF ServerStep, ServerNext, MasterStep, MasterRest, FollowerStep, FollowerHandles
  <1>3. ASSUME NEW c \in Clients, ClientWrite(c) PROVE Followed(f, l)
    <2>1. MqWrite(c) /\ UNCHANGED lockDict /\ c \in Procs /\ c # Master
      BY <1>3, ServerAssumption DEF ClientWrite, MqWrite, Procs, Servers
    <2>2. QED BY <1>1, <2>1, OthersWriteKeeps
  <1>4. ASSUME NEW c \in Clients, ClientStep(c) PROVE Followed(f, l)
    <2>1. UNCHANGED lockDict
      BY <1>4 DEF ClientStep, ClientConnect, LookupServer, LookupName, RecvAck, Call,
                  Return, Close
    <2>2. CASE LookupName(c) \/ \E t \in Calls, k \in Locks : Call(c, t, k)
      <3>1. \E w \in Write : Applies(c, w) \/ CallsWith(c, w)
        BY <2>2, ClientApplies, ClientCalls
      <3>2. QED BY <1>1, <2>1, <3>1, ClientBeginsKeeps
    <2>3. CASE RecvAck(c) \/ Return(c) \/ Close(c) \/ LookupServer(c)
      BY <1>1, <2>1, <2>3, ClientReadsKeeps
    <2>4. QED BY <1>4, <2>2, <2>3 DEF ClientStep, ClientConnect
  <1>5. QED BY <1>2, <1>3, <1>4 DEF Next

-----------------------------------------------------------------------------
(* Who writes syncs.                                                       *)

\* Only p's writes change, and to no sync, or to one for a follower.
LEMMA WritersKept ==
    ASSUME PushInv, NEW p \in Procs, \A r \in Procs \ {p} : out'[r] = out[r],
           \A i \in 1..Len(out'[p]) :
              \/ out'[p][i].msg.type \notin Syncs
              \/ p = Master /\ out'[p][i].to # NoName
    PROVE  PushInv'
  <1>1. Master \in Procs
    BY DEF Procs, Servers
  <1>2. ASSUME NEW r \in Procs \ {Master}, NEW i \in 1..Len(out'[r])
        PROVE  out'[r][i].msg.type \notin Syncs
    BY <1>2 DEF PushInv
  <1>3. ASSUME NEW i \in 1..Len(out'[Master]), out'[Master][i].msg.type \in Syncs
        PROVE  out'[Master][i].to # NoName
    BY <1>1, <1>3 DEF PushInv
  <1>4. QED BY <1>2, <1>3 DEF PushInv

\* Completing a write leaves the rest as it is.
LEMMA WritePush ==
    ASSUME SafeInv, PushInv, NEW p \in Procs, MqWrite(p)
    PROVE  PushInv'
  <1>1. /\ out \in [Procs -> Seq(Write)] /\ out[p] # <<>>
        /\ out' = [out EXCEPT ![p] = Tail(@)]
    BY DEF SafeInv, TypeInv, TypeOK, Write, MqWrite
  <1>2. out'[p] = Tail(out[p]) /\ \A r \in Procs \ {p} : out'[r] = out[r]
    BY <1>1
  <1>3. PICK o : o = out[p]
    OBVIOUS
  <1>4. /\ o \in Seq(Write) /\ o # <<>> /\ Len(Tail(o)) = Len(o) - 1
        /\ \A i \in 1..Len(Tail(o)) : Tail(o)[i] = o[i + 1] /\ i + 1 \in 1..Len(o)
    BY <1>1, <1>3
  <1>5. \A j \in 1..Len(o) : o[j].msg.type \notin Syncs \/ (p = Master /\ o[j].to # NoName)
    BY <1>3 DEF PushInv
  <1>6. \A i \in 1..Len(out'[p]) :
              \/ out'[p][i].msg.type \notin Syncs
              \/ p = Master /\ out'[p][i].to # NoName
    <2> SUFFICES ASSUME NEW i \in 1..Len(Tail(o))
                 PROVE  Tail(o)[i].msg.type \notin Syncs \/ (p = Master /\ Tail(o)[i].to # NoName)
      BY <1>2, <1>3
    <2>1. Tail(o)[i] = o[i + 1] /\ i + 1 \in 1..Len(o)
      BY <1>4
    <2>2. QED BY <1>5, <2>1
  <1>7. QED BY <1>2, <1>6, WritersKept

\* The changes of records go to those that are enrolled.
LEMMA ChangePush ==
    ASSUME SafeInv, PushInv, MasterGrant \/ MasterRelease, UNCHANGED <<cstate, cmsg, held>>
    PROVE  PushInv'
  <1>1. PICK t : t = IF MasterGrant THEN "LOCK_NEW" ELSE "LOCK_DELETE"
    OBVIOUS
  <1>2. PICK m \in Msg, v \in Seq(Write), z \in Write :
           /\ Handles(Master, m, v) /\ z.msg.type \in AnswerTypes
           /\ v = <<z>> \o ToFoers(m, t)
    BY <1>1, ChangeWrites
  <1>3. Master \in Procs /\ out'[Master] = v /\ \A r \in Procs \ {Master} : out'[r] = out[r]
    BY <1>2, HandledFlight DEF Procs, Servers
  <1>4. PICK g : g = ToFoers(m, t)
    OBVIOUS
  <1>5. TypeOK /\ t \in MsgTypes
    BY <1>1 DEF SafeInv, TypeInv, MsgTypes
  <1>6. /\ g \in Seq(Write) /\ Len(g) = Len(mqFoers)
        /\ \A i \in 1..Len(mqFoers) : g[i] = Send(mqFoers[i], [m EXCEPT !.type = t])
    BY <1>2, <1>4, <1>5, ToFoersType
  <1>7. \A i \in 1..Len(g) : g[i].to # NoName
    <2> SUFFICES ASSUME NEW i \in 1..Len(g) PROVE g[i].to # NoName
      OBVIOUS
    <2>1. g[i].to = mqFoers[i] /\ i \in 1..Len(mqFoers)
      <3>1. i \in 1..Len(mqFoers) /\ g[i] = Send(mqFoers[i], [m EXCEPT !.type = t])
        BY <1>6
      <3>2. PICK x : x = [m EXCEPT !.type = t]
        OBVIOUS
      <3>3. QED BY <3>1, <3>2 DEF Send
    <2>2. IsFollower(mqFoers[i])
      BY <2>1 DEF SafeInv, DictInv
    <2>3. QED BY <2>1, <2>2 DEF IsFollower
  <1>8. z.msg.type \notin Syncs
    BY <1>2 DEF AnswerTypes, Syncs
  <1>9. \A i \in 1..Len(v) : v[i].msg.type \notin Syncs \/ v[i].to # NoName
    <2> SUFFICES ASSUME NEW i \in 1..Len(v)
                 PROVE  v[i].msg.type \notin Syncs \/ v[i].to # NoName
      OBVIOUS
    <2>1. /\ <<z>> \in Seq(Write) /\ Len(<<z>>) = 1 /\ <<z>>[1] = z
      BY ShortSeqs
    <2>2. /\ Len(v) = 1 + Len(g) /\ Len(g) \in Nat
          /\ \A j \in 1..(1 + Len(g)) : v[j] = IF j <= 1 THEN <<z>>[j] ELSE g[j - 1]
      BY <1>2, <1>4, <1>6, <2>1, ConcatProperties
    <2>3. CASE i = 1
      BY <1>8, <2>1, <2>2, <2>3
    <2>4. CASE i # 1
      <3>1. i - 1 \in 1..Len(g) /\ v[i] = g[i - 1]
        BY <2>2, <2>4
      <3>2. QED BY <1>7, <3>1
    <2>5. QED BY <2>3, <2>4
  <1>10. \A i \in 1..Len(out'[Master]) :
              \/ out'[Master][i].msg.type \notin Syncs
              \/ Master = Master /\ out'[Master][i].to # NoName
    BY <1>3, <1>9
  <1>11. QED BY <1>3, <1>10, WritersKept

\* No step makes another process write a sync.
LEMMA PushNext ==
    ASSUME SafeInv, RegisterInv, PushInv, Next
    PROVE  PushInv'
  <1>1. ASSUME UNCHANGED out PROVE PushInv'
    BY <1>1 DEF PushInv
  <1>2. ASSUME NEW s \in Servers, NEW m \in Msg, NEW v \in Seq(Write), Handles(s, m, v),
               \A i \in 1..Len(v) : v[i].msg.type \notin Syncs
        PROVE  PushInv'
    <2>1. s \in Procs /\ out'[s] = v /\ \A r \in Procs \ {s} : out'[r] = out[r]
      BY <1>2, HandledFlight DEF Procs
    <2>2. QED BY <1>2, <2>1, WritersKept
  <1>3. ASSUME NEW p, NEW w, Writes(p, w), w.msg.type \notin Syncs PROVE PushInv'
    <2>1. /\ p \in Procs /\ Len(out'[p]) = 1 /\ out'[p][1] = w
          /\ \A r \in Procs \ {p} : out'[r] = out[r]
      BY <1>3, WrittenFlight DEF Writes
    <2>2. \A i \in 1..Len(out'[p]) : out'[p][i].msg.type \notin Syncs
      BY <1>3, <2>1
    <2>3. QED BY <2>1, <2>2, WritersKept
  <1>4. CASE ServerStep
    <2>0. UNCHANGED <<cstate, cmsg, held>>
      BY <1>4 DEF ServerStep
    <2>1. CASE MasterGrant \/ MasterRelease
      BY <2>0, <2>1, ChangePush
    <2>2. CASE MasterRest
      <3>1. Master \in Servers
        BY DEF Servers
      <3>2. QED BY <1>2, <2>0, <2>2, <3>1, MasterSilence
    <2>3. ASSUME NEW s \in Followers, FollowerHandles(s) PROVE PushInv'
      <3>1. s \in Servers
        BY DEF Servers
      <3>2. QED BY <1>2, <2>0, <2>3, <3>1, FollowerSilence
    <2>4. ASSUME NEW s \in Followers, FollowerStart(s) PROVE PushInv'
      <3>1. PICK w \in Write : Introduces(s, w)
        BY <2>0, <2>4, FollowerStarts
      <3>2. Writes(s, w) /\ w.msg.type \notin Syncs
        BY <3>1 DEF Introduces, IsFoerReg, Syncs
      <3>3. QED BY <1>3, <3>2
    <2>5. ASSUME NEW s \in Servers, MqWrite(s) PROVE PushInv'
      <3>1. s \in Procs
        BY DEF Procs
      <3>2. QED BY <2>5, <3>1, WritePush
    <2>6. QED BY <1>4, <2>1, <2>2, <2>3, <2>4, <2>5
             DEF ServerStep, ServerNext, MasterStep, MasterRest, FollowerStep, FollowerHandles
  <1>5. ASSUME NEW c \in Clients, ClientWrite(c) PROVE PushInv'
    BY <1>5, WritePush DEF ClientWrite, Procs
  <1>6. ASSUME NEW c \in Clients, ClientStep(c) PROVE PushInv'
    <2>1. CASE LookupName(c) \/ \E t \in Calls, k \in Locks : Call(c, t, k)
      <3>1. PICK w \in Write : Applies(c, w) \/ CallsWith(c, w)
        BY <2>1, ClientApplies, ClientCalls
      <3>2. Writes(c, w) /\ w.msg.type \notin Syncs
        BY <3>1 DEF Applies, CallsWith, Calls, Syncs
      <3>3. QED BY <1>3, <3>2
    <2>2. CASE RecvAck(c) \/ Return(c) \/ Close(c) \/ LookupServer(c)
      <3>1. UNCHANGED out
        BY <2>2 DEF RecvAck, Return, Close, LookupServer
      <3>2. QED BY <1>1, <3>1
    <2>3. QED BY <1>6, <2>1, <2>2 DEF ClientStep, ClientConnect
  <1>7. QED BY <1>4, <1>5, <1>6 DEF Next

-----------------------------------------------------------------------------
(* Followers stay enrolled, and the replicas are right.                    *)

\* An enrolled follower stays enrolled.
LEMMA StaysFoer ==
    ASSUME SafeInv, RegisterInv, Next, NEW f \in Followers, IsFoer(f)
    PROVE  IsFoer(f)'
  <1>1. In(mqFoers, pname[f])
    BY DEF IsFoer, In
  <1>2. pname[f] # NoName
    BY <1>1 DEF In, SafeInv, DictInv, IsFollower
  <1>3. pname'[f] = pname[f] /\ In(mqFoers', pname[f])
    BY <1>1, <1>2, NamesStay
  <1>4. QED BY <1>3 DEF IsFoer, In

\* There is nothing to follow at first.
LEMMA ReplicaInit ==
    ASSUME Init
    PROVE  /\ ReplicaInv
           /\ \A f \in Followers : ~IsFoer(f)
  <1>1. SafeInv /\ RegisterInv
    BY SafeInit, CycleInit DEF CycleInv
  <1>2. /\ mqFoers = <<>> /\ out = [p \in Procs |-> <<>>]
        /\ lockDict = [s \in Servers |-> [l \in Locks |-> 0]]
        /\ pname = [p \in Procs |-> IF p = Master THEN MasterNode ELSE NoName]
    BY DEF Init, ServerInit
  <1>3. 1..Len(<<>>) = {} /\ <<>> \in Seq(Msg) /\ <<>> \in Seq(Write)
    OBVIOUS
  <1>4. Master \in Procs /\ \A p \in Procs : out[p] = <<>>
    BY <1>2 DEF Procs, Servers
  <1>5. PushInv
    BY <1>3, <1>4 DEF PushInv
  <1>6. \A f \in Followers : ~IsFoer(f)
    BY <1>2, <1>3 DEF IsFoer
  <1>7. ASSUME NEW f \in Followers, NEW l \in Locks PROVE CaughtUp(f, l) = 0
    <2>1. pname[f] = NoName /\ lockDict[f][l] = 0 /\ NoName \notin DOMAIN queue
      BY <1>1, <1>2, FollowerNames DEF Servers
    <2>2. PICK e : e = <<>>
      OBVIOUS
    <2>3. Unread(queue, pname[f]) = e /\ out[Master] = e
      BY <1>4, <2>1, <2>2 DEF Unread
    <2>4. CaughtUp(f, l) = Catch(NoName, l, 0, e, e)
      BY <1>1, <2>1, <2>3, CaughtUpIs
    <2>5. /\ e \in Seq(Msg) /\ e \in Seq(Write) /\ NoName \in Int
          /\ \A i \in 1..Len(e) : FALSE
      BY <1>3, <2>2 DEF NoName
    <2>6. Catch(NoName, l, 0, e, e) = 0
      BY <2>5, CatchNothing
    <2>7. QED BY <2>4, <2>6
  <1>8. QED BY <1>5, <1>6, <1>7 DEF ReplicaInv, ReplicaNeverWrong

\* A follower that has caught up is never wrong, and knows nothing before it
\* is enrolled.
LEMMA ReplicaNext ==
    ASSUME SafeInv, RegisterInv, ReplicaInv, [Next]_vars
    PROVE  ReplicaInv'
  <1>1. PushInv /\ ReplicaNeverWrong
    BY DEF ReplicaInv
  <1>2. CASE Next
    <2>1. PushInv'
      BY <1>1, <1>2, PushNext
    <2>2. ASSUME NEW f \in Followers, NEW l \in Locks
          PROVE  /\ CaughtUp(f, l)' \in {0, lockDict'[Master][l]}
                 /\ ~IsFoer(f)' => CaughtUp(f, l)' = 0
      <3>1. Followed(f, l)
        BY <1>1, <1>2, FollowNext
      <3>2. CaughtUp(f, l) \in {0, lockDict[Master][l]}
        BY <1>1 DEF ReplicaNeverWrong
      <3>3. ~IsFoer(f) => CaughtUp(f, l) = 0
        BY DEF ReplicaInv
      <3>4. IsFoer(f) => IsFoer(f)'
        BY <1>2, StaysFoer
      <3>5. CASE lockDict'[Master][l] = lockDict[Master][l] /\ CaughtUp(f, l)' = CaughtUp(f, l)
        BY <3>2, <3>3, <3>4, <3>5
      <3>6. CASE /\ IsFoer(f) => CaughtUp(f, l)' = lockDict'[Master][l]
                 /\ ~IsFoer(f) => CaughtUp(f, l)' = CaughtUp(f, l)
        BY <3>3, <3>4, <3>6
      <3>7. QED BY <3>1, <3>5, <3>6 DEF Followed
    <2>3. ReplicaNeverWrong'
      BY <2>2 DEF ReplicaNeverWrong
    <2>4. \A f \in Followers : ~IsFoer(f)' => \A l \in Locks : CaughtUp(f, l)' = 0
      BY <2>2
    <2>5. QED BY <2>1, <2>3, <2>4 DEF ReplicaInv
  <1>3. CASE UNCHANGED vars
    <2>1. UNCHANGED <<queue, lockDict, mqFoers, out, pname>>
      BY <1>3 DEF vars, serverVars
    <2>2. ASSUME NEW f \in Followers, NEW l PROVE CaughtUp(f, l)' = CaughtUp(f, l)
      <3>1. Unread(queue', pname[f]) = Unread(queue, pname[f])
        BY <2>1
      <3>2. QED BY <2>1, <3>1, UntouchedKeeps
    <2>3. PushInv'
      BY <1>1, <2>1 DEF PushInv
    <2>4. ReplicaNeverWrong'
      BY <1>1, <2>1, <2>2 DEF ReplicaNeverWrong
    <2>5. \A f \in Followers : ~IsFoer(f)' => \A l \in Locks : CaughtUp(f, l)' = 0
      <3>1. \A f \in Followers : IsFoer(f)' <=> IsFoer(f)
        BY <2>1 DEF IsFoer
      <3>2. QED BY <2>2, <3>1 DEF ReplicaInv
    <2>6. QED BY <2>3, <2>4, <2>5 DEF ReplicaInv
  <1>4. QED BY <1>2, <1>3

\* Whatever a follower has missed, it never has, once it has handled what the
\* master sent it, an owner of a lock that the master does not have
\* (server.cpp, add_lock_record and delete_lock_record).
THEOREM ReplicasNeverWrong == Spec => []ReplicaNeverWrong
  <1> DEFINE I == SafeInv /\ RegisterInv /\ ReplicaInv
  <1>1. Init => I
    BY SafeInit, CycleInit, ReplicaInit DEF CycleInv
  <1>2. I /\ [Next]_vars => I'
    <2> SUFFICES ASSUME I, [Next]_vars PROVE I'
      OBVIOUS
    <2>1. SafeInv /\ RegisterInv /\ ReplicaInv
      OBVIOUS
    <2>2. SafeInv' /\ RegisterInv'
      BY <2>1, SafeNext, RegisterNext
    <2>3. ReplicaInv'
      BY <2>1, ReplicaNext
    <2>4. QED BY <2>2, <2>3
  <1>3. I => ReplicaNeverWrong
    BY DEF ReplicaInv
  <1>4. QED BY <1>1, <1>2, <1>3, PTL DEF Spec

\* A follower that is enrolled while no lock is held has the master's records
\* once it has handled what the master sent it.
LEMMA SyncedNext ==
    ASSUME CycleInv, ReplicaInv, ReplicaSynced, [OrderedNext]_vars
    PROVE  ReplicaSynced'
  <1>1. TableInv /\ SafeInv /\ RegisterInv /\ OrderInv /\ PushInv /\ ReplicaNeverWrong
    BY DEF CycleInv, TableInv, ReplicaInv
  <1>2. CASE OrderedNext
    <2> SUFFICES ASSUME NEW f \in Followers, NEW l \in Locks, IsFoer(f)'
                 PROVE  CaughtUp(f, l)' = lockDict'[Master][l]
      BY DEF ReplicaSynced
    <2>1. Followed(f, l)
      BY <1>1, <1>2, FollowNext DEF OrderedNext
    <2>2. CASE IsFoer(f)
      BY <2>1, <2>2 DEF Followed, ReplicaSynced
    <2>3. CASE ~IsFoer(f)
      <3>1. CaughtUp(f, l) = 0
        BY <2>3 DEF ReplicaInv
      <3>2. ~FollowersUp
        BY <2>3 DEF FollowersUp, In, IsFoer
      <3>3. lockDict[Master][l] = 0
        BY <1>1, <3>2, NothingHeld DEF OrderInv, HeldLocks
      <3>4. ~UNCHANGED <<mqFoers, pname>>
        BY <2>3 DEF IsFoer
      <3>5. QED BY <2>1, <3>1, <3>3, <3>4 DEF Followed
    <2>4. QED BY <2>2, <2>3
  <1>3. CASE UNCHANGED vars
    <2>1. UNCHANGED <<queue, lockDict, mqFoers, out, pname>>
      BY <1>3 DEF vars, serverVars
    <2>2. ASSUME NEW f \in Followers, NEW l PROVE CaughtUp(f, l)' = CaughtUp(f, l)
      <3>1. Unread(queue', pname[f]) = Unread(queue, pname[f])
        BY <2>1
      <3>2. QED BY <1>1, <2>1, <3>1, UntouchedKeeps
    <2>3. \A f \in Followers : IsFoer(f)' <=> IsFoer(f)
      BY <2>1 DEF IsFoer
    <2>4. QED BY <2>1, <2>2, <2>3 DEF ReplicaSynced
  <1>4. QED BY <1>2, <1>3

\* When the followers register before a client starts, every update reaches
\* them: a follower that has handled what the master sent it has the master's
\* table (README.md of project1).
THEOREM ReplicasSynced == OrderedSpec => []ReplicaSynced
  <1> DEFINE I == CycleInv /\ ReplicaInv /\ ReplicaSynced
  <1>1. Init => I
    BY CycleInit, ReplicaInit DEF ReplicaSynced
  <1>2. I /\ [OrderedNext]_vars => I'
    <2> SUFFICES ASSUME I, [OrderedNext]_vars PROVE I'
      OBVIOUS
    <2>1. CycleInv /\ ReplicaInv /\ ReplicaSynced
      OBVIOUS
    <2>2. SafeInv /\ RegisterInv /\ [Next]_vars
      BY <2>1 DEF CycleInv, TableInv, OrderedNext
    <2>3. CycleInv' /\ ReplicaInv' /\ ReplicaSynced'
      BY <2>1, <2>2, CycleNext, ReplicaNext, SyncedNext
    <2>4. QED BY <2>3
  <1>3. QED BY <1>1, <1>2, PTL DEF OrderedSpec
===============================================================================
