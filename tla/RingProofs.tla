----------------------------- MODULE RingProofs -----------------------------
(***************************************************************************)
(* Proofs about the ring of data servers, for any number of them: when one *)
(* registers at a time, with messages of earlier registrations still on    *)
(* the way, the neighbours end up as a ring.                               *)
(***************************************************************************)
EXTENDS DSRing, SequenceTheorems, TLAPS

\* What a neighbour is in the end when it is v now and the fields q are on the
\* way: the last one that is set, or v.
Ends(q, v, x) ==
    \/ \E i \in 1..Len(q) :
          /\ q[i] = x /\ x # NoServer
          /\ \A j \in 1..Len(q) : j > i => q[j] = NoServer
    \/ /\ v = x
       /\ \A j \in 1..Len(q) : q[j] = NoServer

Fronts(q) == [i \in 1..Len(q) |-> q[i].f]
Behinds(q) == [i \in 1..Len(q) |-> q[i].e]

\* The neighbours of s once every message on the way to it has arrived.
WillFront(s, x) == Ends(Fronts(toDs[s]), front[s], x)
WillBehind(s, x) == Ends(Behinds(toDs[s]), behind[s], x)

\* The first k servers are neighbours of each other in their order, and the last
\* of them is the neighbour of the first.
Chain(k) == \A i \in 1..(k - 1) : WillBehind(srvs[i], srvs[i + 1]) /\ WillFront(srvs[i + 1], srvs[i])
Closed(k) == k >= 2 => WillBehind(srvs[k], srvs[1]) /\ WillFront(srvs[1], srvs[k])

Busy(s) == nsAt[s] \notin {"off", "done"}
Told(s) == nsAt[s] \in {"new", "front", "first"}

OneAtATime == \A s, t \in Servers : Busy(s) /\ Busy(t) => s = t

\* The servers in srvs are those whose thread has added its entry, and one that
\* is still telling its neighbours is the last.
Entered ==
    /\ \A s \in Servers : nsAt[s] \in {"off", "push"} => \A i \in 1..Len(srvs) : srvs[i] # s
    /\ \A s \in Servers : Told(s) => Len(srvs) >= 1 /\ srvs[Len(srvs)] = s
    /\ \A s \in Servers : nsAt[s] \in {"front", "first"} => Len(srvs) >= 2

\* How much of the ring stands, by how far the thread of the last server is.
Standing ==
    \A n \in Nat : n = Len(srvs) =>
        /\ (\A s \in Servers : ~Told(s)) => Chain(n) /\ Closed(n)
        /\ \A s \in Servers : nsAt[s] = "new" => Chain(n - 1) /\ Closed(n - 1)
        /\ \A s \in Servers : nsAt[s] = "front" =>
              /\ Chain(n - 1) /\ Closed(n - 1)
              /\ WillFront(srvs[n], srvs[n - 1]) /\ WillBehind(srvs[n], srvs[1])
        /\ \A s \in Servers : nsAt[s] = "first" => Chain(n) /\ WillBehind(srvs[n], srvs[1])

RingInv == TypeOK /\ OneAtATime /\ Entered /\ Standing
-----------------------------------------------------------------------------
\* A message that leaves the field unset changes nothing.
LEMMA EndsUnset ==
    ASSUME NEW S, NEW q \in Seq(S), NoServer \in S, NEW v, NEW x, Ends(q, v, x)
    PROVE  Ends(Append(q, NoServer), v, x)
  <1>1. /\ Len(Append(q, NoServer)) = Len(q) + 1
        /\ \A i \in 1..Len(q) : Append(q, NoServer)[i] = q[i]
        /\ Append(q, NoServer)[Len(q) + 1] = NoServer
    OBVIOUS
  <1>2. CASE v = x /\ \A j \in 1..Len(q) : q[j] = NoServer
    <2>1. \A j \in 1..(Len(q) + 1) : Append(q, NoServer)[j] = NoServer  BY <1>1, <1>2
    <2> QED  BY <1>1, <1>2, <2>1 DEF Ends
  <1>3. CASE \E i \in 1..Len(q) : /\ q[i] = x /\ x # NoServer
                                  /\ \A j \in 1..Len(q) : j > i => q[j] = NoServer
    <2>1. PICK i \in 1..Len(q) : /\ q[i] = x /\ x # NoServer
                                /\ \A j \in 1..Len(q) : j > i => q[j] = NoServer
      BY <1>3
    <2>2. \A j \in 1..(Len(q) + 1) : j > i => Append(q, NoServer)[j] = NoServer  BY <1>1, <2>1
    <2>3. i \in 1..(Len(q) + 1) /\ Append(q, NoServer)[i] = x  BY <1>1, <2>1
    <2> QED  BY <1>1, <2>1, <2>2, <2>3 DEF Ends
  <1> QED  BY <1>2, <1>3 DEF Ends

\* A message that sets the field decides.
LEMMA EndsSet ==
    ASSUME NEW S, NEW q \in Seq(S), NEW x \in S, x # NoServer, NEW v
    PROVE  Ends(Append(q, x), v, x)
  <1>1. /\ Len(Append(q, x)) = Len(q) + 1
        /\ Append(q, x)[Len(q) + 1] = x
        /\ Len(q) + 1 \in 1..(Len(q) + 1)
    OBVIOUS
  <1>2. \A j \in 1..(Len(q) + 1) : ~ (j > Len(q) + 1)  OBVIOUS
  <1> QED  BY <1>1, <1>2 DEF Ends

\* The first message arrives.
LEMMA EndsTail ==
    ASSUME NEW S, NEW q \in Seq(S), q # <<>>, NEW v, NEW x, Ends(q, v, x)
    PROVE  Ends(Tail(q), Updated(v, Head(q)), x)
  <1>1. /\ Len(q) \in Nat /\ Len(q) >= 1 /\ Len(Tail(q)) = Len(q) - 1
        /\ \A i \in 1..(Len(q) - 1) : Tail(q)[i] = q[i + 1]
        /\ Head(q) = q[1]
    OBVIOUS
  <1>2. CASE v = x /\ \A j \in 1..Len(q) : q[j] = NoServer
    <2>1. Updated(v, Head(q)) = x  BY <1>1, <1>2 DEF Updated
    <2>2. \A j \in 1..Len(Tail(q)) : Tail(q)[j] = NoServer  BY <1>1, <1>2
    <2> QED  BY <2>1, <2>2 DEF Ends
  <1>3. CASE \E i \in 1..Len(q) : /\ q[i] = x /\ x # NoServer
                                  /\ \A j \in 1..Len(q) : j > i => q[j] = NoServer
    <2>1. PICK i \in 1..Len(q) : /\ q[i] = x /\ x # NoServer
                                /\ \A j \in 1..Len(q) : j > i => q[j] = NoServer
      BY <1>3
    <2>2. \A j \in 1..Len(Tail(q)) : j > i - 1 => Tail(q)[j] = NoServer  BY <1>1, <2>1
    <2>3. CASE i = 1
      <3>1. Updated(v, Head(q)) = x  BY <1>1, <2>1, <2>3 DEF Updated
      <3> QED  BY <1>1, <2>2, <2>3, <3>1 DEF Ends
    <2>4. CASE i > 1
      <3>1. i - 1 \in 1..Len(Tail(q)) /\ Tail(q)[i - 1] = x  BY <1>1, <2>1, <2>4
      <3> QED  BY <2>1, <2>2, <3>1 DEF Ends
    <2> QED  BY <2>3, <2>4
  <1> QED  BY <1>2, <1>3 DEF Ends

\* Nothing is on the way.
LEMMA EndsEmpty ==
    ASSUME NEW q, Len(q) = 0, NEW v, NEW x, Ends(q, v, x)
    PROVE  v = x
  BY DEF Ends

\* The fields of a message sequence, with one message more or the first one gone.
LEMMA FieldsOf ==
    ASSUME NEW q \in Seq(Info)
    PROVE  /\ Fronts(q) \in Seq(Servers \cup {NoServer}) /\ Behinds(q) \in Seq(Servers \cup {NoServer})
           /\ Len(Fronts(q)) = Len(q) /\ Len(Behinds(q)) = Len(q)
           /\ \A m \in Info : /\ Fronts(Append(q, m)) = Append(Fronts(q), m.f)
                              /\ Behinds(Append(q, m)) = Append(Behinds(q), m.e)
           /\ q # <<>> => /\ Fronts(Tail(q)) = Tail(Fronts(q)) /\ Head(Fronts(q)) = Head(q).f
                          /\ Behinds(Tail(q)) = Tail(Behinds(q)) /\ Head(Behinds(q)) = Head(q).e
                          /\ Fronts(q) # <<>> /\ Behinds(q) # <<>>
  <1>1. Fronts(q) \in Seq(Servers \cup {NoServer}) /\ Behinds(q) \in Seq(Servers \cup {NoServer})
    <2>1. \A i \in 1..Len(q) : /\ q[i].f \in Servers \cup {NoServer}
                               /\ q[i].e \in Servers \cup {NoServer}
      <3>1. \A i \in 1..Len(q) : q[i] \in Info  OBVIOUS
      <3>2. \A m \in Info : m.f \in Servers \cup {NoServer} /\ m.e \in Servers \cup {NoServer}
        BY DEF Info
      <3> QED  BY <3>1, <3>2
    <2>2. /\ Fronts(q) \in [1..Len(q) -> Servers \cup {NoServer}]
          /\ Behinds(q) \in [1..Len(q) -> Servers \cup {NoServer}]
      BY <2>1 DEF Fronts, Behinds
    <2>3. Len(q) \in Nat  OBVIOUS
    <2> QED  BY <2>2, <2>3, SeqDef
  <1>2. Len(Fronts(q)) = Len(q) /\ Len(Behinds(q)) = Len(q)
    BY DEF Fronts, Behinds
  <1>3. ASSUME NEW m \in Info
        PROVE  /\ Fronts(Append(q, m)) = Append(Fronts(q), m.f)
               /\ Behinds(Append(q, m)) = Append(Behinds(q), m.e)
    BY <1>1, <1>2 DEF Fronts, Behinds, Info
  <1>4. ASSUME q # <<>>
        PROVE  /\ Fronts(Tail(q)) = Tail(Fronts(q)) /\ Head(Fronts(q)) = Head(q).f
               /\ Behinds(Tail(q)) = Tail(Behinds(q)) /\ Head(Behinds(q)) = Head(q).e
               /\ Fronts(q) # <<>> /\ Behinds(q) # <<>>
    BY <1>1, <1>2, <1>4 DEF Fronts, Behinds, Info
  <1> QED  BY <1>1, <1>2, <1>3, <1>4
-----------------------------------------------------------------------------
\* What a message changes of a server's neighbours to be, and what it leaves.
LEMMA Sent ==
    ASSUME TypeOK, NoServer \notin Servers,
           NEW r \in Servers, NEW m \in Info, Write(r, m), UNCHANGED <<front, behind>>
    PROVE  /\ toDs' \in [Servers -> Seq(Info)]
           /\ \A s \in Servers, x \in Servers :
                 /\ WillFront(s, x) /\ (s # r \/ m.f = NoServer) => WillFront(s, x)'
                 /\ WillBehind(s, x) /\ (s # r \/ m.e = NoServer) => WillBehind(s, x)'
           /\ m.f # NoServer => WillFront(r, m.f)'
           /\ m.e # NoServer => WillBehind(r, m.e)'
  <1> DEFINE q == toDs[r]
  <1>1. /\ toDs' = [toDs EXCEPT ![r] = Append(q, m)]
        /\ q \in Seq(Info) /\ toDs \in [Servers -> Seq(Info)]
        /\ front' = front /\ behind' = behind
    BY DEF Write, TypeOK
  <1>2. /\ Append(q, m) \in Seq(Info)
        /\ toDs'[r] = Append(q, m)
        /\ \A s \in Servers : s # r => toDs'[s] = toDs[s]
    BY <1>1
  <1>3. toDs' \in [Servers -> Seq(Info)]
    BY <1>1, <1>2
  <1> DEFINE T == Servers \cup {NoServer}
             F == Fronts(q)
             B == Behinds(q)
  <1>4. /\ m.f \in T /\ m.e \in T
        /\ F \in Seq(T) /\ B \in Seq(T)
        /\ Fronts(toDs'[r]) = Append(F, m.f)
        /\ Behinds(toDs'[r]) = Append(B, m.e)
    BY <1>1, <1>2, FieldsOf DEF Info
  <1>5. ASSUME NEW s \in Servers, NEW x \in Servers, WillFront(s, x), s # r \/ m.f = NoServer
        PROVE  WillFront(s, x)'
    <2>1. CASE s # r
      BY <1>1, <1>2, <1>5, <2>1 DEF WillFront
    <2>2. CASE s = r /\ m.f = NoServer
      <3>1. Ends(F, front[s], x)  BY <1>5, <2>2 DEF WillFront
      <3>2. Ends(Append(F, NoServer), front[s], x)
        <4> HIDE DEF F, T
        <4> QED  BY <1>4, <2>2, <3>1, EndsUnset
      <3> QED  BY <1>1, <1>4, <2>2, <3>2 DEF WillFront
    <2> QED  BY <1>5, <2>1, <2>2
  <1>6. ASSUME NEW s \in Servers, NEW x \in Servers, WillBehind(s, x), s # r \/ m.e = NoServer
        PROVE  WillBehind(s, x)'
    <2>1. CASE s # r
      BY <1>1, <1>2, <1>6, <2>1 DEF WillBehind
    <2>2. CASE s = r /\ m.e = NoServer
      <3>1. Ends(B, behind[s], x)  BY <1>6, <2>2 DEF WillBehind
      <3>2. Ends(Append(B, NoServer), behind[s], x)
        <4> HIDE DEF B, T
        <4> QED  BY <1>4, <2>2, <3>1, EndsUnset
      <3> QED  BY <1>1, <1>4, <2>2, <3>2 DEF WillBehind
    <2> QED  BY <1>6, <2>1, <2>2
  <1>7. m.f # NoServer => WillFront(r, m.f)'
    <2>1. m.f # NoServer => Ends(Append(F, m.f), front[r], m.f)
      <3> HIDE DEF F, T
      <3> QED  BY <1>4, EndsSet
    <2> QED  BY <1>1, <1>4, <2>1 DEF WillFront
  <1>8. m.e # NoServer => WillBehind(r, m.e)'
    <2>1. m.e # NoServer => Ends(Append(B, m.e), behind[r], m.e)
      <3> HIDE DEF B, T
      <3> QED  BY <1>4, EndsSet
    <2> QED  BY <1>1, <1>4, <2>1 DEF WillBehind
  <1> QED  BY <1>3, <1>5, <1>6, <1>7, <1>8

\* A message that arrives changes nothing of the neighbours to be.
LEMMA Arrived ==
    ASSUME TypeOK, NEW r \in Servers, UpdateMyNeighbors(r)
    PROVE  /\ toDs' \in [Servers -> Seq(Info)]
           /\ front' \in [Servers -> Servers \cup {NoServer}]
           /\ behind' \in [Servers -> Servers \cup {NoServer}]
           /\ \A s \in Servers, x \in Servers :
                 /\ WillFront(s, x) => WillFront(s, x)'
                 /\ WillBehind(s, x) => WillBehind(s, x)'
  <1> DEFINE q == toDs[r]
             T == Servers \cup {NoServer}
             F == Fronts(q)
             B == Behinds(q)
  <1>1. /\ q # <<>> /\ q \in Seq(Info)
        /\ toDs \in [Servers -> Seq(Info)]
        /\ front \in [Servers -> T] /\ behind \in [Servers -> T]
        /\ toDs' = [toDs EXCEPT ![r] = Tail(q)]
        /\ front' = [front EXCEPT ![r] = Updated(@, Head(q).f)]
        /\ behind' = [behind EXCEPT ![r] = Updated(@, Head(q).e)]
    BY DEF UpdateMyNeighbors, TypeOK
  <1>2. Tail(q) \in Seq(Info) /\ Head(q) \in Info
    BY <1>1
  <1>3. Head(q).f \in T /\ Head(q).e \in T
    BY <1>2 DEF Info
  <1>4. /\ toDs' \in [Servers -> Seq(Info)]
        /\ front' \in [Servers -> T] /\ behind' \in [Servers -> T]
    BY <1>1, <1>2, <1>3 DEF Updated
  <1>5. /\ F \in Seq(T) /\ B \in Seq(T) /\ F # <<>> /\ B # <<>>
        /\ Fronts(toDs'[r]) = Tail(F) /\ Head(F) = Head(q).f
        /\ Behinds(toDs'[r]) = Tail(B) /\ Head(B) = Head(q).e
    BY <1>1, FieldsOf
  <1>6. ASSUME NEW s \in Servers, NEW x \in Servers, WillFront(s, x)
        PROVE  WillFront(s, x)'
    <2>1. CASE s # r
      BY <1>1, <1>6, <2>1 DEF WillFront
    <2>2. CASE s = r
      <3>1. Ends(F, front[r], x)  BY <1>6, <2>2 DEF WillFront
      <3>2. Ends(Tail(F), Updated(front[r], Head(F)), x)
        <4> HIDE DEF F, T
        <4> QED  BY <1>5, <3>1, EndsTail
      <3>3. front'[r] = Updated(front[r], Head(F))  BY <1>1, <1>5
      <3> QED  BY <1>5, <2>2, <3>2, <3>3 DEF WillFront
    <2> QED  BY <2>1, <2>2
  <1>7. ASSUME NEW s \in Servers, NEW x \in Servers, WillBehind(s, x)
        PROVE  WillBehind(s, x)'
    <2>1. CASE s # r
      BY <1>1, <1>7, <2>1 DEF WillBehind
    <2>2. CASE s = r
      <3>1. Ends(B, behind[r], x)  BY <1>7, <2>2 DEF WillBehind
      <3>2. Ends(Tail(B), Updated(behind[r], Head(B)), x)
        <4> HIDE DEF B, T
        <4> QED  BY <1>5, <3>1, EndsTail
      <3>3. behind'[r] = Updated(behind[r], Head(B))  BY <1>1, <1>5
      <3> QED  BY <1>5, <2>2, <3>2, <3>3 DEF WillBehind
    <2> QED  BY <2>1, <2>2
  <1> QED  BY <1>4, <1>6, <1>7
-----------------------------------------------------------------------------
\* RingInv holds when nobody has registered.
LEMMA RingStart ==
    ASSUME NoServer \notin Servers, Init
    PROVE  RingInv
  <1>1. srvs = <<>> /\ Len(srvs) = 0  BY DEF Init
  <1>2. TypeOK  BY <1>1 DEF Init, TypeOK
  <1>3. OneAtATime /\ Entered  BY <1>1 DEF Init, OneAtATime, Entered, Busy, Told
  <1>4. Standing  BY <1>1 DEF Init, Standing, Chain, Closed, Told
  <1> QED  BY <1>2, <1>3, <1>4 DEF RingInv

\* A registration that starts while no other runs keeps RingInv.
LEMMA RegisterKeeps ==
    ASSUME RingInv, NEW s \in Servers, Idle, Register(s)
    PROVE  RingInv'
  <1>1. /\ nsAt[s] = "off" /\ nsAt' = [nsAt EXCEPT ![s] = "push"]
        /\ srvs' = srvs /\ toDs' = toDs /\ front' = front /\ behind' = behind
        /\ nsAt \in [Servers -> {"off", "push", "new", "front", "first", "done"}]
    BY DEF Register, Goto, RingInv, TypeOK
  <1>2. \A t \in Servers : nsAt'[t] = IF t = s THEN "push" ELSE nsAt[t]  BY <1>1
  <1>3. \A t \in Servers : nsAt[t] \in {"off", "done"}  BY DEF Idle
  <1>4. TypeOK'  BY <1>1 DEF RingInv, TypeOK
  <1>5. OneAtATime'  BY <1>2, <1>3 DEF OneAtATime, Busy
  <1>6. Entered'  BY <1>1, <1>2, <1>3 DEF RingInv, Entered, Told
  <1>7. ASSUME NEW n \in Nat, n = Len(srvs)
        PROVE  Chain(n)' /\ Closed(n)'
    <2>1. Chain(n) /\ Closed(n)  BY <1>3, <1>7 DEF RingInv, Standing, Told
    <2> QED  BY <1>1, <2>1 DEF Chain, Closed, WillFront, WillBehind
  <1>8. /\ \A t \in Servers : nsAt'[t] \in {"off", "push", "done"}
        /\ Len(srvs') = Len(srvs)
    BY <1>1, <1>2, <1>3
  <1>9. Standing'  BY <1>7, <1>8 DEF Standing
  <1> QED  BY <1>4, <1>5, <1>6, <1>9 DEF RingInv

\* While s is busy every other thread has not started or is done.
LEMMA OthersRest ==
    ASSUME RingInv, NEW s \in Servers, Busy(s), NEW t \in Servers, t # s
    PROVE  nsAt[t] \in {"off", "done"}
  BY DEF RingInv, OneAtATime, Busy

\* The first k servers stay a chain when they stay where they are, and so do the
\* neighbours to be on which the chain depends.
LEMMA ChainKept ==
    ASSUME TypeOK, NEW k \in Nat, k <= Len(srvs), Chain(k),
           \A i \in 1..k : srvs'[i] = srvs[i],
           NEW A, \A i \in 2..k : srvs[i] \in A,
           NEW B, \A i \in 1..(k - 1) : srvs[i] \in B,
           \A t \in A, x \in Servers : WillFront(t, x) => WillFront(t, x)',
           \A t \in B, x \in Servers : WillBehind(t, x) => WillBehind(t, x)'
    PROVE  Chain(k)'
  <1>1. ASSUME NEW i \in 2..k, NEW j \in 1..k
        PROVE  WillFront(srvs[i], srvs[j]) => WillFront(srvs[i], srvs[j])'
    <2>1. PICK t \in A, x \in Servers : t = srvs[i] /\ x = srvs[j]  BY DEF TypeOK
    <2>2. t = srvs'[i] /\ x = srvs'[j]  BY <2>1
    <2>3. WillFront(t, x) => WillFront(t, x)'  OBVIOUS
    <2> QED  BY <2>1, <2>2, <2>3 DEF WillFront
  <1>2. ASSUME NEW i \in 1..(k - 1), NEW j \in 1..k
        PROVE  WillBehind(srvs[i], srvs[j]) => WillBehind(srvs[i], srvs[j])'
    <2>1. PICK t \in B, x \in Servers : t = srvs[i] /\ x = srvs[j]  BY DEF TypeOK
    <2>2. t = srvs'[i] /\ x = srvs'[j]  BY <2>1
    <2>3. WillBehind(t, x) => WillBehind(t, x)'  OBVIOUS
    <2> QED  BY <2>1, <2>2, <2>3 DEF WillBehind
  <1>3. \A i \in 1..(k - 1) : i \in 1..k /\ i + 1 \in 2..k /\ i + 1 \in 1..k  OBVIOUS
  <1> QED  BY <1>1, <1>2, <1>3 DEF Chain

\* The first k servers stay closed, in the same way.
LEMMA ClosedKept ==
    ASSUME TypeOK, NEW k \in Nat, k <= Len(srvs), Closed(k),
           \A i \in 1..k : srvs'[i] = srvs[i],
           NEW A, \A i \in 1..k : srvs[i] \in A,
           \A t \in A, x \in Servers :
              /\ WillFront(t, x) => WillFront(t, x)'
              /\ WillBehind(t, x) => WillBehind(t, x)'
    PROVE  Closed(k)'
  <1> SUFFICES ASSUME k >= 2
               PROVE  WillBehind(srvs[k], srvs[1])' /\ WillFront(srvs[1], srvs[k])'
    BY DEF Closed
  <1>0. srvs \in Seq(Servers) /\ 1 \in 1..k /\ k \in 1..k  BY DEF TypeOK
  <1>1. PICK t \in A, x \in A : t = srvs[k] /\ x = srvs[1]  BY <1>0
  <1>2. /\ t \in Servers /\ x \in Servers
        /\ t = srvs'[k] /\ x = srvs'[1]
    BY <1>0, <1>1
  <1>3. WillBehind(t, x) /\ WillFront(x, t)  BY <1>1 DEF Closed, WillFront, WillBehind
  <1>4. WillBehind(t, x)' /\ WillFront(x, t)'  BY <1>2, <1>3
  <1> QED  BY <1>2, <1>4 DEF WillFront, WillBehind

\* The new server's entry keeps RingInv: nobody is told of it yet.
LEMMA PushKeeps ==
    ASSUME RingInv, NEW s \in Servers, PushBack(s)
    PROVE  RingInv'
  <1>0. PICK n \in Nat : n = Len(srvs)  BY DEF RingInv, TypeOK
  <1>1. /\ nsAt[s] = "push" /\ nsAt' = [nsAt EXCEPT ![s] = "new"]
        /\ srvs' = Append(srvs, s) /\ toDs' = toDs /\ front' = front /\ behind' = behind
        /\ nsAt \in [Servers -> {"off", "push", "new", "front", "first", "done"}]
        /\ srvs \in Seq(Servers)
    BY DEF PushBack, Pushed, Goto, RingInv, TypeOK
  <1>2. \A t \in Servers : nsAt'[t] = IF t = s THEN "new" ELSE nsAt[t]  BY <1>1
  <1>3. \A t \in Servers : t # s => nsAt[t] \in {"off", "done"}
    BY <1>1, OthersRest DEF Busy
  <1>4. /\ srvs' \in Seq(Servers) /\ Len(srvs') = n + 1 /\ srvs'[n + 1] = s
        /\ \A i \in 1..n : srvs'[i] = srvs[i]
    BY <1>0, <1>1
  <1>5. \A i \in 1..n : srvs[i] # s  BY <1>0, <1>1 DEF RingInv, Entered
  <1>6. \A i, j \in 1..(n + 1) : srvs'[i] = srvs'[j] => i = j
    BY <1>0, <1>1, <1>4, <1>5 DEF RingInv, TypeOK
  <1>7. TypeOK'  BY <1>0, <1>1, <1>4, <1>6 DEF RingInv, TypeOK
  <1>8. OneAtATime'  BY <1>2, <1>3 DEF OneAtATime, Busy
  <1>9. Entered'
    BY <1>0, <1>1, <1>2, <1>3, <1>4, <1>5 DEF RingInv, Entered, Told
  <1>10. Chain(n) /\ Closed(n)
    BY <1>0, <1>1, <1>3 DEF RingInv, Standing, Told
  <1>11. Chain(n)' /\ Closed(n)'
    <2>1. \A t \in Servers, x \in Servers :
             /\ WillFront(t, x) => WillFront(t, x)'
             /\ WillBehind(t, x) => WillBehind(t, x)'
      BY <1>1 DEF WillFront, WillBehind
    <2>2. TypeOK /\ n <= Len(srvs)  BY <1>0 DEF RingInv
    <2>3. \A i \in 1..n : srvs'[i] = srvs[i]  BY <1>4
    <2>4. \A i \in 1..n : srvs[i] \in Servers  BY <1>0, <1>1
    <2>5. /\ \A i \in 2..n : srvs[i] \in Servers
          /\ \A i \in 1..(n - 1) : srvs[i] \in Servers
      BY <2>4
    <2>6. Chain(n)'  BY <1>10, <2>1, <2>2, <2>3, <2>5, ChainKept
    <2>7. Closed(n)'  BY <1>10, <2>1, <2>2, <2>3, <2>4, ClosedKept
    <2> QED  BY <2>6, <2>7
  <1>12. Standing'
    <2> SUFFICES ASSUME NEW k \in Nat, k = Len(srvs')
                 PROVE  /\ (\A t \in Servers : ~Told(t)') => Chain(k)' /\ Closed(k)'
                        /\ \A t \in Servers : nsAt'[t] = "new" => Chain(k - 1)' /\ Closed(k - 1)'
                        /\ \A t \in Servers : nsAt'[t] \notin {"front", "first"}
      BY DEF Standing
    <2>1. k - 1 = n  BY <1>0, <1>4
    <2>2. Told(s)'  BY <1>1 DEF Told
    <2> QED  BY <1>2, <1>3, <1>11, <2>1, <2>2
  <1> QED  BY <1>7, <1>8, <1>9, <1>12 DEF RingInv

\* What the steps of a thread that tells the neighbours have in common.
LEMMA TellSteps ==
    ASSUME RingInv, NEW s \in Servers, Told(s),
           NEW place \in {"front", "first", "done"}, Goto(s, place),
           place # "done" => Len(srvs) >= 2,
           UNCHANGED <<srvs, front, behind>>, toDs' \in [Servers -> Seq(Info)]
    PROVE  /\ TypeOK' /\ OneAtATime' /\ Entered'
           /\ nsAt'[s] = place
           /\ \A t \in Servers : t # s => nsAt'[t] \in {"off", "done"}
  <1>1. /\ nsAt' = [nsAt EXCEPT ![s] = place] /\ srvs' = srvs
        /\ front' = front /\ behind' = behind
        /\ nsAt \in [Servers -> {"off", "push", "new", "front", "first", "done"}]
        /\ nsAt[s] \in {"new", "front", "first"}
    BY DEF Goto, RingInv, TypeOK, Told
  <1>2. \A t \in Servers : nsAt'[t] = IF t = s THEN place ELSE nsAt[t]  BY <1>1
  <1>3. \A t \in Servers : t # s => nsAt[t] \in {"off", "done"}
    BY <1>1, OthersRest DEF Busy
  <1>4. TypeOK'  BY <1>1 DEF RingInv, TypeOK
  <1>5. OneAtATime'  BY <1>2, <1>3 DEF OneAtATime, Busy
  <1>6. Len(srvs) >= 1 /\ srvs[Len(srvs)] = s  BY DEF RingInv, Entered
  <1>7. Entered'
    BY <1>1, <1>2, <1>3, <1>6 DEF RingInv, Entered, Told
  <1> QED  BY <1>2, <1>3, <1>4, <1>5, <1>7

\* After the first message the new server will know its neighbours.
LEMMA TellNewKeeps ==
    ASSUME RingInv, NoServer \notin Servers, NEW s \in Servers, TellNew(s)
    PROVE  RingInv'
  <1>1. TypeOK /\ Told(s) /\ nsAt[s] = "new" /\ UNCHANGED <<srvs, front, behind>>
    BY DEF TellNew, RingInv, Told
  <1>2. PICK n \in Nat : n = Len(srvs)  BY <1>1 DEF TypeOK
  <1>3. /\ n >= 1 /\ srvs[n] = s /\ srvs' = srvs
        /\ \A i \in 1..n : srvs[i] \in Servers
        /\ \A i, j \in 1..n : srvs[i] = srvs[j] => i = j
    BY <1>1, <1>2 DEF RingInv, Entered, TypeOK
  <1>4. CASE Len(srvs) < 2 /\ Goto(s, "done") /\ UNCHANGED toDs
    <2>1. toDs' \in [Servers -> Seq(Info)]  BY <1>1, <1>4 DEF TypeOK
    <2>2. /\ TypeOK' /\ OneAtATime' /\ Entered' /\ nsAt'[s] = "done"
          /\ \A t \in Servers : t # s => nsAt'[t] \in {"off", "done"}
      BY <1>1, <1>4, <2>1, TellSteps
    <2>3. n = 1  BY <1>2, <1>3, <1>4
    <2>4. Chain(n)' /\ Closed(n)'  BY <2>3 DEF Chain, Closed
    <2>5. Standing'  BY <1>2, <1>3, <2>2, <2>4 DEF Standing
    <2> QED  BY <2>2, <2>5 DEF RingInv
  <1>5. CASE Len(srvs) >= 2 /\ Write(s, [f |-> LastBut1, e |-> srvs[1]]) /\ Goto(s, "front")
    <2>0. PICK l \in Servers, h \in Servers : l = srvs[n - 1] /\ h = srvs[1]
      BY <1>2, <1>3, <1>5
    <2>1. PICK m \in Info : m = [f |-> l, e |-> h]  BY DEF Info
    <2>2. Write(s, m) /\ m.f = l /\ m.e = h /\ l # NoServer /\ h # NoServer
      BY <1>2, <1>5, <2>0, <2>1 DEF LastBut1
    <2>3. /\ toDs' \in [Servers -> Seq(Info)]
          /\ \A t \in Servers, x \in Servers : t # s =>
                /\ WillFront(t, x) => WillFront(t, x)'
                /\ WillBehind(t, x) => WillBehind(t, x)'
          /\ WillFront(s, l)' /\ WillBehind(s, h)'
      BY <1>1, <2>2, Sent
    <2>4. /\ TypeOK' /\ OneAtATime' /\ Entered' /\ nsAt'[s] = "front"
          /\ \A t \in Servers : t # s => nsAt'[t] \in {"off", "done"}
      BY <1>1, <1>5, <2>3, TellSteps
    <2>5. PICK k \in Nat : k = n - 1  BY <1>3
    <2>6. Chain(k) /\ Closed(k)  BY <1>1, <1>2, <2>5 DEF RingInv, Standing
    <2> DEFINE Rest == Servers \ {s}
    <2>7. /\ k <= Len(srvs)
          /\ \A i \in 1..k : srvs'[i] = srvs[i]
          /\ \A i \in 1..k : srvs[i] \in Rest
          /\ \A i \in 2..k : srvs[i] \in Rest
          /\ \A i \in 1..(k - 1) : srvs[i] \in Rest
      BY <1>2, <1>3, <2>5
    <2>8. \A t \in Rest, x \in Servers :
             /\ WillFront(t, x) => WillFront(t, x)'
             /\ WillBehind(t, x) => WillBehind(t, x)'
      BY <2>3
    <2> HIDE DEF Rest
    <2>9. Chain(k)'  BY <1>1, <2>6, <2>7, <2>8, ChainKept
    <2>10. Closed(k)'  BY <1>1, <2>6, <2>7, <2>8, ClosedKept
    <2>11. WillFront(srvs[n], srvs[n - 1])' /\ WillBehind(srvs[n], srvs[1])'
      BY <1>3, <2>0, <2>3 DEF WillFront, WillBehind
    <2>12. Standing'
      BY <1>2, <1>3, <2>4, <2>5, <2>9, <2>10, <2>11 DEF Standing, Told
    <2> QED  BY <2>4, <2>12 DEF RingInv
  <1> QED  BY <1>4, <1>5 DEF TellNew

\* After the second the server before it will know the new one.
LEMMA TellFrontKeeps ==
    ASSUME RingInv, NoServer \notin Servers, NEW s \in Servers, TellFront(s)
    PROVE  RingInv'
  <1>1. /\ TypeOK /\ Told(s) /\ nsAt[s] = "front" /\ UNCHANGED <<srvs, front, behind>>
        /\ Goto(s, "first") /\ Len(srvs) >= 2
    BY DEF TellFront, RingInv, Entered, Told
  <1>2. PICK n \in Nat : n = Len(srvs)  BY <1>1 DEF TypeOK
  <1>3. /\ n >= 2 /\ srvs[n] = s /\ srvs' = srvs
        /\ \A i \in 1..n : srvs[i] \in Servers
        /\ \A i, j \in 1..n : srvs[i] = srvs[j] => i = j
    BY <1>1, <1>2 DEF RingInv, Entered, TypeOK
  <1>4. PICK l \in Servers, h \in Servers : l = srvs[n - 1] /\ h = srvs[1]  BY <1>3
  <1>5. PICK m \in Info : m = [f |-> NoServer, e |-> s]  BY DEF Info
  <1>6. Write(l, m) /\ m.f = NoServer /\ m.e = s /\ s # NoServer /\ l # s
    BY <1>2, <1>3, <1>4, <1>5 DEF TellFront, LastBut1
  <1>7. /\ toDs' \in [Servers -> Seq(Info)]
        /\ \A t \in Servers, x \in Servers :
              /\ WillFront(t, x) => WillFront(t, x)'
              /\ t # l => (WillBehind(t, x) => WillBehind(t, x)')
        /\ WillBehind(l, s)'
    BY <1>1, <1>6, Sent
  <1>8. /\ TypeOK' /\ OneAtATime' /\ Entered' /\ nsAt'[s] = "first"
        /\ \A t \in Servers : t # s => nsAt'[t] \in {"off", "done"}
    BY <1>1, <1>7, TellSteps
  <1>9. PICK k \in Nat : k = n - 1  BY <1>3
  <1>10. /\ Chain(k)
         /\ WillFront(srvs[n], srvs[n - 1]) /\ WillBehind(srvs[n], srvs[1])
    BY <1>1, <1>2, <1>9 DEF RingInv, Standing
  <1>11. WillFront(s, l) /\ WillBehind(s, h)
    BY <1>3, <1>4, <1>10 DEF WillFront, WillBehind
  <1>12. WillFront(s, l)' /\ WillBehind(s, h)'
    BY <1>6, <1>7, <1>11
  <1> DEFINE Rest == Servers \ {l}
  <1>13. /\ k <= Len(srvs)
         /\ \A i \in 1..k : srvs'[i] = srvs[i]
         /\ \A i \in 2..k : srvs[i] \in Servers
         /\ \A i \in 1..(k - 1) : srvs[i] \in Rest
    BY <1>2, <1>3, <1>4, <1>9
  <1>14. /\ \A t \in Servers, x \in Servers : WillFront(t, x) => WillFront(t, x)'
         /\ \A t \in Rest, x \in Servers : WillBehind(t, x) => WillBehind(t, x)'
    BY <1>7
  <1> HIDE DEF Rest
  <1>15. Chain(k)'  BY <1>1, <1>10, <1>13, <1>14, ChainKept
  <1>16. WillBehind(srvs[k], srvs[k + 1])' /\ WillFront(srvs[k + 1], srvs[k])'
    <2>1. srvs'[k] = l /\ srvs'[k + 1] = s  BY <1>3, <1>4, <1>9
    <2> QED  BY <1>7, <1>12, <2>1 DEF WillFront, WillBehind
  <1>17. Chain(n)'
    <2>1. \A i \in 1..(n - 1) : i = k \/ i \in 1..(k - 1)  BY <1>9
    <2> QED  BY <1>15, <1>16, <2>1 DEF Chain
  <1>18. WillBehind(srvs[n], srvs[1])'
    BY <1>3, <1>4, <1>12 DEF WillBehind
  <1>19. Standing'
    BY <1>2, <1>3, <1>8, <1>17, <1>18 DEF Standing, Told
  <1> QED  BY <1>8, <1>19 DEF RingInv

\* After the third the first server will, and the ring is closed again.
LEMMA TellFirstKeeps ==
    ASSUME RingInv, NoServer \notin Servers, NEW s \in Servers, TellFirst(s)
    PROVE  RingInv'
  <1>1. /\ TypeOK /\ Told(s) /\ nsAt[s] = "first" /\ UNCHANGED <<srvs, front, behind>>
        /\ Goto(s, "done") /\ Len(srvs) >= 2
    BY DEF TellFirst, RingInv, Entered, Told
  <1>2. PICK n \in Nat : n = Len(srvs)  BY <1>1 DEF TypeOK
  <1>3. /\ n >= 2 /\ srvs[n] = s /\ srvs' = srvs
        /\ \A i \in 1..n : srvs[i] \in Servers
        /\ \A i, j \in 1..n : srvs[i] = srvs[j] => i = j
    BY <1>1, <1>2 DEF RingInv, Entered, TypeOK
  <1>4. PICK h \in Servers : h = srvs[1]  BY <1>3
  <1>5. PICK m \in Info : m = [f |-> s, e |-> NoServer]  BY DEF Info
  <1>6. Write(h, m) /\ m.e = NoServer /\ m.f = s /\ s # NoServer
    BY <1>4, <1>5 DEF TellFirst, ToFirst
  <1>7. /\ toDs' \in [Servers -> Seq(Info)]
        /\ \A t \in Servers, x \in Servers :
              /\ t # h => (WillFront(t, x) => WillFront(t, x)')
              /\ WillBehind(t, x) => WillBehind(t, x)'
        /\ WillFront(h, s)'
    BY <1>1, <1>6, Sent
  <1>8. /\ TypeOK' /\ OneAtATime' /\ Entered' /\ nsAt'[s] = "done"
        /\ \A t \in Servers : t # s => nsAt'[t] \in {"off", "done"}
    BY <1>1, <1>7, TellSteps
  <1>9. Chain(n) /\ WillBehind(srvs[n], srvs[1])
    BY <1>1, <1>2 DEF RingInv, Standing
  <1>10. WillBehind(s, h)  BY <1>3, <1>4, <1>9 DEF WillBehind
  <1>11. WillBehind(s, h)'  BY <1>7, <1>10
  <1> DEFINE Rest == Servers \ {h}
  <1>12. /\ n <= Len(srvs)
         /\ \A i \in 1..n : srvs'[i] = srvs[i]
         /\ \A i \in 2..n : srvs[i] \in Rest
         /\ \A i \in 1..(n - 1) : srvs[i] \in Servers
    BY <1>2, <1>3, <1>4
  <1>13. /\ \A t \in Rest, x \in Servers : WillFront(t, x) => WillFront(t, x)'
         /\ \A t \in Servers, x \in Servers : WillBehind(t, x) => WillBehind(t, x)'
    BY <1>7
  <1> HIDE DEF Rest
  <1>14. Chain(n)'  BY <1>1, <1>9, <1>12, <1>13, ChainKept
  <1>15. Closed(n)'
    BY <1>3, <1>4, <1>7, <1>11 DEF Closed, WillFront, WillBehind
  <1>16. Standing'
    BY <1>2, <1>3, <1>8, <1>14, <1>15 DEF Standing, Told
  <1> QED  BY <1>8, <1>16 DEF RingInv

\* A message that arrives keeps RingInv: it was counted when it was sent.
LEMMA UpdateKeeps ==
    ASSUME RingInv, NEW s \in Servers, UpdateMyNeighbors(s)
    PROVE  RingInv'
  <1>1. TypeOK /\ srvs' = srvs /\ nsAt' = nsAt  BY DEF UpdateMyNeighbors, RingInv
  <1>2. /\ toDs' \in [Servers -> Seq(Info)]
        /\ front' \in [Servers -> Servers \cup {NoServer}]
        /\ behind' \in [Servers -> Servers \cup {NoServer}]
        /\ \A t \in Servers, x \in Servers :
              /\ WillFront(t, x) => WillFront(t, x)'
              /\ WillBehind(t, x) => WillBehind(t, x)'
    BY <1>1, Arrived
  <1>3. TypeOK'  BY <1>1, <1>2 DEF TypeOK
  <1>4. OneAtATime' /\ Entered'
    BY <1>1 DEF RingInv, OneAtATime, Entered, Busy, Told
  <1>5. PICK n \in Nat : n = Len(srvs)  BY <1>1 DEF TypeOK
  <1>6. \A i \in 1..n : srvs[i] \in Servers  BY <1>1, <1>5 DEF TypeOK
  <1>7. ASSUME NEW k \in Nat, k <= n
        PROVE  (Chain(k) => Chain(k)') /\ (Closed(k) => Closed(k)')
    <2>1. /\ k <= Len(srvs)
          /\ \A i \in 1..k : srvs'[i] = srvs[i]
          /\ \A i \in 1..k : srvs[i] \in Servers
          /\ \A i \in 2..k : srvs[i] \in Servers
          /\ \A i \in 1..(k - 1) : srvs[i] \in Servers
      BY <1>1, <1>5, <1>6, <1>7
    <2>2. ASSUME Chain(k) PROVE Chain(k)'  BY <1>1, <1>2, <2>1, <2>2, ChainKept
    <2>3. ASSUME Closed(k) PROVE Closed(k)'  BY <1>1, <1>2, <2>1, <2>3, ClosedKept
    <2> QED  BY <2>2, <2>3
  <1>8. ASSUME NEW i \in 1..n, NEW j \in 1..n
        PROVE  /\ WillFront(srvs[i], srvs[j]) => WillFront(srvs[i], srvs[j])'
               /\ WillBehind(srvs[i], srvs[j]) => WillBehind(srvs[i], srvs[j])'
    <2>1. PICK t \in Servers, x \in Servers : t = srvs[i] /\ x = srvs[j]  BY <1>6
    <2>2. /\ WillFront(t, x) => WillFront(t, x)'
          /\ WillBehind(t, x) => WillBehind(t, x)'
      BY <1>2
    <2> QED  BY <1>1, <2>1, <2>2 DEF WillFront, WillBehind
  <1>9. ASSUME (\A t \in Servers : ~Told(t))' PROVE Chain(n)' /\ Closed(n)'
    <2>1. \A t \in Servers : ~Told(t)  BY <1>1, <1>9 DEF Told
    <2>2. Chain(n) /\ Closed(n)  BY <1>5, <2>1 DEF RingInv, Standing
    <2> QED  BY <1>7, <2>2
  <1>10. ASSUME NEW t \in Servers, nsAt'[t] \in {"new", "front", "first"}
         PROVE  n - 1 \in Nat /\ n - 1 <= n /\ (n >= 1) /\ (nsAt'[t] \in {"front", "first"} => n >= 2)
    BY <1>1, <1>5, <1>10 DEF RingInv, Entered, Told
  <1>11. ASSUME NEW t \in Servers, nsAt'[t] = "new"
         PROVE  Chain(n - 1)' /\ Closed(n - 1)'
    <2>1. Chain(n - 1) /\ Closed(n - 1)  BY <1>1, <1>5, <1>11 DEF RingInv, Standing
    <2> QED  BY <1>7, <1>10, <1>11, <2>1
  <1>12. ASSUME NEW t \in Servers, nsAt'[t] = "front"
         PROVE  /\ Chain(n - 1)' /\ Closed(n - 1)'
                /\ WillFront(srvs[n], srvs[n - 1])' /\ WillBehind(srvs[n], srvs[1])'
    <2>1. /\ Chain(n - 1) /\ Closed(n - 1)
          /\ WillFront(srvs[n], srvs[n - 1]) /\ WillBehind(srvs[n], srvs[1])
      BY <1>1, <1>5, <1>12 DEF RingInv, Standing
    <2>2. n \in 1..n /\ n - 1 \in 1..n /\ 1 \in 1..n  BY <1>10, <1>12
    <2>3. Chain(n - 1)' /\ Closed(n - 1)'  BY <1>7, <1>10, <1>12, <2>1
    <2> QED  BY <1>8, <2>1, <2>2, <2>3
  <1>13. ASSUME NEW t \in Servers, nsAt'[t] = "first"
         PROVE  Chain(n)' /\ WillBehind(srvs[n], srvs[1])'
    <2>1. Chain(n) /\ WillBehind(srvs[n], srvs[1])
      BY <1>1, <1>5, <1>13 DEF RingInv, Standing
    <2>2. n \in 1..n /\ 1 \in 1..n  BY <1>10, <1>13
    <2> QED  BY <1>7, <1>8, <2>1, <2>2
  <1>14. Standing'
    BY <1>1, <1>5, <1>9, <1>11, <1>12, <1>13 DEF Standing
  <1> QED  BY <1>3, <1>4, <1>14 DEF RingInv
-----------------------------------------------------------------------------
\* Every step of registrations one at a time keeps RingInv.
LEMMA RingStep ==
    ASSUME RingInv, NoServer \notin Servers, [SerialNext]_vars
    PROVE  RingInv'
  <1>1. CASE UNCHANGED vars
    BY <1>1 DEF vars, RingInv, TypeOK, OneAtATime, Entered, Standing, Busy, Told, Chain, Closed,
                WillFront, WillBehind
  <1>2. CASE SerialNext
    <2>1. PICK s \in Servers : (Idle /\ Register(s)) \/ DSRegister(s) \/ UpdateMyNeighbors(s)
      BY <1>2 DEF SerialNext
    <2> QED
      BY <2>1, RegisterKeeps, PushKeeps, TellNewKeeps, TellFrontKeeps, TellFirstKeeps, UpdateKeeps
         DEF DSRegister
  <1> QED  BY <1>1, <1>2

\* When nothing is on the way the neighbours to be are the neighbours.
LEMMA RingNow ==
    ASSUME RingInv
    PROVE  RingClosed
  <1> SUFFICES ASSUME Settled, Len(srvs) >= 2, NEW i \in 1..Len(srvs)
               PROVE  LET next == (i % Len(srvs)) + 1 IN
                      /\ behind[srvs[i]] = srvs[next]
                      /\ front[srvs[next]] = srvs[i]
    BY DEF RingClosed
  <1>1. PICK n \in Nat : n = Len(srvs) /\ n >= 2  BY DEF RingInv, TypeOK
  <1>2. /\ \A j \in 1..n : srvs[j] \in Servers
        /\ \A t \in Servers : Len(toDs[t]) = 0 /\ ~Told(t)
    BY <1>1 DEF RingInv, TypeOK, Settled, Idle, Told
  <1>3. Chain(n) /\ Closed(n)  BY <1>1, <1>2 DEF RingInv, Standing
  <1>4. ASSUME NEW t \in Servers, NEW x
        PROVE  (WillFront(t, x) => front[t] = x) /\ (WillBehind(t, x) => behind[t] = x)
    <2>1. Len(Fronts(toDs[t])) = 0 /\ Len(Behinds(toDs[t])) = 0
      BY <1>2, FieldsOf DEF RingInv, TypeOK
    <2> QED  BY <2>1, EndsEmpty DEF WillFront, WillBehind
  <1>5. CASE i < n
    <2>1. i % n = i /\ i + 1 \in 1..n /\ i \in 1..(n - 1)  BY <1>1, <1>5
    <2>2. WillBehind(srvs[i], srvs[i + 1]) /\ WillFront(srvs[i + 1], srvs[i])
      BY <1>3, <2>1 DEF Chain
    <2> QED  BY <1>1, <1>2, <1>4, <2>1, <2>2
  <1>6. CASE i = n
    <2>1. i % n = 0  BY <1>1, <1>6
    <2>2. WillBehind(srvs[n], srvs[1]) /\ WillFront(srvs[1], srvs[n])
      BY <1>1, <1>3 DEF Closed
    <2>3. 1 \in 1..n /\ n \in 1..n  BY <1>1
    <2> QED  BY <1>1, <1>2, <1>4, <1>6, <2>1, <2>2, <2>3
  <1> QED  BY <1>1, <1>5, <1>6

\* RingInv holds in every reachable state.
LEMMA RingInvHolds ==
    ASSUME NoServer \notin Servers
    PROVE  SerialSpec => []RingInv
  <1>1. Init => RingInv  BY RingStart
  <1>2. RingInv /\ [SerialNext]_vars => RingInv'  BY RingStep
  <1> QED  BY <1>1, <1>2, PTL DEF SerialSpec

\* When one data server registers at a time, DSRegister's vector holds each of
\* them at most once, and no neighbour is other than a data server or unset.
THEOREM RingTypes ==
    ASSUME NoServer \notin Servers
    PROVE  SerialSpec => []TypeOK
  <1>1. RingInv => TypeOK  BY DEF RingInv
  <1> QED  BY <1>1, RingInvHolds, PTL

\* One data server registers at a time, and however late the messages of
\* DSRegister arrive, the data servers end up as a ring in the order of their
\* registration: updateMyNeighbors takes the messages to one server in order,
\* and none undoes what another one did.
THEOREM RingCloses ==
    ASSUME NoServer \notin Servers
    PROVE  SerialSpec => []RingClosed
  <1> QED  BY RingNow, RingInvHolds, PTL
-----------------------------------------------------------------------------
\* No message on the way to s sets its front, and it has none.
Unset(s) ==
    /\ front[s] = NoServer
    /\ \A i \in 1..Len(toDs[s]) : toDs[s][i].f = NoServer

\* The front of s is set once: by one message on the way, or it is set already.
Once(s) ==
    \A i \in 1..Len(toDs[s]) : toDs[s][i].f # NoServer =>
        /\ front[s] = NoServer
        /\ \A j \in 1..Len(toDs[s]) : toDs[s][j].f # NoServer => i = j

\* A server that was not told of its neighbours yet has none, and one other than
\* the first is told once of a front.
FrontsInv ==
    /\ \A s \in Servers :
          nsAt[s] = "new" \/ (\A i \in 1..Len(srvs) : srvs[i] # s) => Unset(s)
    /\ \A i \in 2..Len(srvs) : Once(srvs[i])

\* x may become the neighbour behind s.
MayFollow(s, x) ==
    \/ x = srvs[1]
    \/ \E i \in 1..(Len(srvs) - 1) : s = srvs[i] /\ x = srvs[i + 1]

\* A message gives no other neighbour behind, and none is sent before a server is
\* known.
BehindsInv ==
    /\ srvs = <<>> => \A s \in Servers : toDs[s] = <<>>
    /\ \A s \in Servers : \A i \in 1..Len(toDs[s]) :
          toDs[s][i].e # NoServer => MayFollow(s, toDs[s][i].e)

StayInv == FrontsInv /\ BehindsInv

Stay ==
    \A s \in Servers :
        /\ front[s] # NoServer /\ s # srvs[1] => front'[s] = front[s]
        /\ behind'[s] # behind[s] =>
              \/ behind'[s] = srvs[1]
              \/ \E i \in 1..(Len(srvs) - 1) : s = srvs[i] /\ behind'[s] = srvs[i + 1]

\* What a message to r does to the fronts that are set once.
LEMMA SentOnce ==
    ASSUME TypeOK, NEW r \in Servers, NEW m \in Info, Write(r, m), UNCHANGED front
    PROVE  /\ \A s \in Servers : s # r \/ m.f = NoServer =>
                 (Unset(s) => Unset(s)') /\ (Once(s) => Once(s)')
           /\ Unset(r) => Once(r)'
  <1>1. /\ toDs' = [toDs EXCEPT ![r] = Append(toDs[r], m)] /\ front' = front
        /\ toDs \in [Servers -> Seq(Info)]
    BY DEF Write, TypeOK
  <1>2. PICK n \in Nat : n = Len(toDs[r])  BY <1>1
  <1>3. /\ \A s \in Servers : s # r => toDs'[s] = toDs[s]
        /\ Len(toDs'[r]) = n + 1 /\ toDs'[r][n + 1] = m
        /\ \A i \in 1..n : toDs'[r][i] = toDs[r][i]
    BY <1>1, <1>2
  <1>4. ASSUME NEW s \in Servers, s # r
        PROVE  (Unset(s) => Unset(s)') /\ (Once(s) => Once(s)')
    BY <1>1, <1>3, <1>4 DEF Unset, Once
  <1>5. \A i \in 1..(n + 1) : i \in 1..n \/ i = n + 1  BY <1>2
  <1>6. ASSUME m.f = NoServer
        PROVE  (Unset(r) => Unset(r)') /\ (Once(r) => Once(r)')
    BY <1>1, <1>2, <1>3, <1>5, <1>6 DEF Unset, Once
  <1>7. ASSUME Unset(r) PROVE Once(r)'
    BY <1>1, <1>2, <1>3, <1>5, <1>7 DEF Unset, Once
  <1> QED  BY <1>4, <1>6, <1>7

\* What a message to r does to the neighbours behind.
LEMMA SentBehind ==
    ASSUME TypeOK, BehindsInv, NEW r \in Servers, NEW m \in Info, Write(r, m), UNCHANGED srvs,
           srvs # <<>>, m.e # NoServer => MayFollow(r, m.e)
    PROVE  BehindsInv'
  <1>1. /\ toDs' = [toDs EXCEPT ![r] = Append(toDs[r], m)] /\ srvs' = srvs
        /\ toDs \in [Servers -> Seq(Info)]
    BY DEF Write, TypeOK
  <1>2. PICK n \in Nat : n = Len(toDs[r])  BY <1>1
  <1>3. /\ \A s \in Servers : s # r => toDs'[s] = toDs[s]
        /\ Len(toDs'[r]) = n + 1 /\ toDs'[r][n + 1] = m
        /\ \A i \in 1..n : toDs'[r][i] = toDs[r][i]
    BY <1>1, <1>2
  <1>4. ASSUME NEW s \in Servers, NEW i \in 1..Len(toDs'[s]), toDs'[s][i].e # NoServer
        PROVE  MayFollow(s, toDs'[s][i].e)
    <2>1. CASE s # r
      BY <1>3, <1>4, <2>1 DEF BehindsInv
    <2>2. CASE s = r /\ i = n + 1
      BY <1>3, <1>4, <2>2
    <2>3. CASE s = r /\ i # n + 1
      <3>1. i \in 1..n  BY <1>2, <1>3, <2>3
      <3> QED  BY <1>2, <1>3, <1>4, <2>3, <3>1 DEF BehindsInv
    <2> QED  BY <2>1, <2>2, <2>3
  <1>5. ASSUME NEW s \in Servers, NEW i \in 1..Len(toDs'[s]), toDs'[s][i].e # NoServer
        PROVE  MayFollow(s, toDs[s][i].e)'
    <2>1. MayFollow(s, toDs'[s][i].e)  BY <1>4, <1>5
    <2> QED  BY <1>1, <2>1 DEF MayFollow
  <1> QED  BY <1>1, <1>5 DEF BehindsInv

\* A message that arrives.
LEMMA ArrivedStay ==
    ASSUME RingInv, StayInv, NEW r \in Servers, UpdateMyNeighbors(r)
    PROVE  StayInv' /\ Stay
  <1>1. /\ toDs[r] # <<>> /\ toDs \in [Servers -> Seq(Info)]
        /\ front \in [Servers -> Servers \cup {NoServer}]
        /\ behind \in [Servers -> Servers \cup {NoServer}]
        /\ srvs \in Seq(Servers) /\ srvs' = srvs /\ nsAt' = nsAt
        /\ front' = [front EXCEPT ![r] = Updated(@, Head(toDs[r]).f)]
        /\ behind' = [behind EXCEPT ![r] = Updated(@, Head(toDs[r]).e)]
        /\ toDs' = [toDs EXCEPT ![r] = Tail(@)]
    BY DEF UpdateMyNeighbors, RingInv, TypeOK
  <1>2. PICK n \in Nat : n = Len(toDs[r]) /\ n >= 1  BY <1>1
  <1>3. /\ \A s \in Servers : s # r =>
              toDs'[s] = toDs[s] /\ front'[s] = front[s] /\ behind'[s] = behind[s]
        /\ front'[r] = Updated(front[r], toDs[r][1].f)
        /\ behind'[r] = Updated(behind[r], toDs[r][1].e)
        /\ Len(toDs'[r]) = n - 1
        /\ \A i \in 1..(n - 1) : toDs'[r][i] = toDs[r][i + 1] /\ i + 1 \in 1..n
        /\ 1 \in 1..n
    BY <1>1, <1>2
  <1>4. ASSUME NEW s \in Servers, Unset(s) PROVE Unset(s)'
    <2>1. CASE s # r  BY <1>3, <1>4, <2>1 DEF Unset
    <2>2. CASE s = r  BY <1>2, <1>3, <1>4, <2>2 DEF Unset, Updated
    <2> QED  BY <2>1, <2>2
  <1>5. ASSUME NEW s \in Servers, Once(s) PROVE Once(s)'
    <2>1. CASE s # r  BY <1>3, <1>5, <2>1 DEF Once
    <2>2. CASE s = r
      <3>1. ASSUME NEW i \in 1..(n - 1), toDs[r][i + 1].f # NoServer
            PROVE  /\ front'[r] = NoServer
                   /\ \A j \in 1..(n - 1) : toDs[r][j + 1].f # NoServer => i = j
        <4>1. i + 1 \in 1..n /\ i + 1 # 1  BY <1>3
        <4>2. front[r] = NoServer /\ \A j \in 1..n : toDs[r][j].f # NoServer => i + 1 = j
          BY <1>2, <1>5, <2>2, <3>1, <4>1 DEF Once
        <4>3. toDs[r][1].f = NoServer  BY <1>3, <4>1, <4>2
        <4> QED  BY <1>3, <4>2, <4>3 DEF Updated
      <3>2. ASSUME NEW i \in 1..Len(toDs'[r]), toDs'[r][i].f # NoServer
            PROVE  /\ front'[r] = NoServer
                   /\ \A j \in 1..Len(toDs'[r]) : toDs'[r][j].f # NoServer => i = j
        BY <1>3, <3>1, <3>2
      <3> QED  BY <2>2, <3>2 DEF Once
    <2> QED  BY <2>1, <2>2
  <1>6. FrontsInv'
    <2>1. \A i \in 2..Len(srvs) : srvs[i] \in Servers  BY <1>1
    <2>2. \A i \in 2..Len(srvs) : Once(srvs[i])'
      <3>1. ASSUME NEW i \in 2..Len(srvs) PROVE Once(srvs[i])'
        <4>1. PICK s \in Servers : s = srvs[i] /\ s = srvs'[i]  BY <1>1, <2>1
        <4>2. Once(s)  BY <4>1 DEF StayInv, FrontsInv
        <4>3. Once(s)'  BY <1>5, <4>2
        <4> QED  BY <4>1, <4>3 DEF Once
      <3> QED  BY <3>1
    <2> QED  BY <1>1, <1>4, <2>2 DEF StayInv, FrontsInv
  <1>7. BehindsInv'
    <2>1. srvs # <<>>  BY <1>1 DEF StayInv, BehindsInv
    <2>2. ASSUME NEW s \in Servers, NEW i \in 1..Len(toDs'[s]), toDs'[s][i].e # NoServer
          PROVE  MayFollow(s, toDs[s][i].e)'
      <3>1. MayFollow(s, toDs'[s][i].e)
        <4>1. CASE s # r  BY <1>3, <2>2, <4>1 DEF StayInv, BehindsInv
        <4>2. CASE s = r  BY <1>2, <1>3, <2>2, <4>2 DEF StayInv, BehindsInv
        <4> QED  BY <4>1, <4>2
      <3> QED  BY <1>1, <3>1 DEF MayFollow
    <2> QED  BY <1>1, <2>1, <2>2 DEF BehindsInv
  <1>8. Stay
    <2>1. ASSUME NEW s \in Servers, front[s] # NoServer, s # srvs[1]
          PROVE  front'[s] = front[s]
      <3>1. Once(s)
        <4>1. CASE \E i \in 1..Len(srvs) : srvs[i] = s
          <5>1. PICK i \in 1..Len(srvs) : srvs[i] = s  BY <4>1
          <5>2. i \in 2..Len(srvs)  BY <1>1, <2>1, <5>1
          <5> QED  BY <5>1, <5>2 DEF StayInv, FrontsInv
        <4>2. CASE \A i \in 1..Len(srvs) : srvs[i] # s
          BY <4>2 DEF StayInv, FrontsInv, Unset, Once
        <4> QED  BY <4>1, <4>2
      <3> QED  BY <1>2, <1>3, <2>1, <3>1 DEF Once, Updated
    <2>2. ASSUME NEW s \in Servers, behind'[s] # behind[s]
          PROVE  MayFollow(s, behind'[s])
      <3>1. s = r /\ toDs[r][1].e # NoServer /\ behind'[s] = toDs[r][1].e
        BY <1>3, <2>2 DEF Updated
      <3> QED  BY <1>2, <1>3, <3>1 DEF StayInv, BehindsInv
    <2> QED  BY <2>1, <2>2 DEF Stay, MayFollow
  <1> QED  BY <1>6, <1>7, <1>8 DEF StayInv

\* StayInv holds when nobody has registered.
LEMMA StayStart ==
    ASSUME Init
    PROVE  StayInv
  <1>1. /\ srvs = <<>> /\ Len(srvs) = 0
        /\ \A s \in Servers : toDs[s] = <<>> /\ Len(toDs[s]) = 0 /\ front[s] = NoServer
    BY DEF Init
  <1> QED  BY <1>1 DEF StayInv, FrontsInv, BehindsInv, Unset

\* A new entry.
LEMMA PushStay ==
    ASSUME RingInv, StayInv, NEW s \in Servers, PushBack(s)
    PROVE  StayInv'
  <1>1. /\ nsAt[s] = "push" /\ nsAt' = [nsAt EXCEPT ![s] = "new"]
        /\ srvs' = Append(srvs, s) /\ toDs' = toDs /\ front' = front /\ behind' = behind
        /\ nsAt \in [Servers -> {"off", "push", "new", "front", "first", "done"}]
        /\ srvs \in Seq(Servers) /\ toDs \in [Servers -> Seq(Info)]
    BY DEF PushBack, Pushed, Goto, RingInv, TypeOK
  <1>2. PICK n \in Nat : n = Len(srvs)  BY <1>1
  <1>3. /\ Len(srvs') = n + 1 /\ srvs'[n + 1] = s /\ srvs' # <<>>
        /\ \A i \in 1..n : srvs'[i] = srvs[i]
    <2>1. Len(srvs') = n + 1 /\ srvs'[n + 1] = s  BY <1>1, <1>2
    <2>2. \A i \in 1..n : srvs'[i] = srvs[i]  BY <1>1, <1>2
    <2>3. srvs' # <<>>  BY <1>2, <2>1
    <2> QED  BY <2>1, <2>2, <2>3
  <1>4. \A i \in 1..n : srvs[i] # s  BY <1>1, <1>2 DEF RingInv, Entered
  <1>5. Unset(s)  BY <1>2, <1>4 DEF StayInv, FrontsInv
  <1>6. \A t \in Servers : (Unset(t) => Unset(t)') /\ (Once(t) => Once(t)') /\ (Unset(t) => Once(t))
    BY <1>1 DEF Unset, Once
  <1>7. ASSUME NEW t \in Servers, nsAt'[t] = "new" \/ \A i \in 1..(n + 1) : srvs'[i] # t
        PROVE  Unset(t)'
    <2>1. t = s \/ nsAt[t] = "new" \/ \A i \in 1..n : srvs[i] # t
      BY <1>1, <1>3, <1>7
    <2>2. Unset(t)  BY <1>2, <1>5, <2>1 DEF StayInv, FrontsInv
    <2> QED  BY <1>6, <2>2
  <1>8. ASSUME NEW i \in 2..(n + 1) PROVE Once(srvs[i])'
    <2>1. CASE i = n + 1
      <3>1. Once(s)'  BY <1>5, <1>6
      <3> QED  BY <1>3, <2>1, <3>1 DEF Once
    <2>2. CASE i # n + 1
      <3>1. i \in 2..n /\ i \in 1..n  BY <1>2, <2>2
      <3>2. PICK t \in Servers : t = srvs[i] /\ t = srvs'[i]  BY <1>1, <1>2, <1>3, <3>1
      <3>3. Once(t)'
        <4>1. Once(t)  BY <1>2, <3>1, <3>2 DEF StayInv, FrontsInv
        <4> QED  BY <1>6, <4>1
      <3> QED  BY <3>2, <3>3 DEF Once
    <2> QED  BY <2>1, <2>2
  <1>9. FrontsInv'  BY <1>3, <1>7, <1>8 DEF FrontsInv
  <1>10. BehindsInv'
    <2>1. ASSUME NEW t \in Servers, NEW i \in 1..Len(toDs[t]), toDs[t][i].e # NoServer
          PROVE  MayFollow(t, toDs[t][i].e)'
      <3>1. MayFollow(t, toDs[t][i].e)  BY <2>1 DEF StayInv, BehindsInv
      <3>2. n >= 1
        <4>1. toDs[t] # <<>>  BY <1>1
        <4> QED  BY <1>1, <1>2, <4>1 DEF StayInv, BehindsInv
      <3>3. 1 \in 1..n /\ \A k \in 1..(n - 1) : k \in 1..n /\ k + 1 \in 1..n /\ k \in 1..(n + 1 - 1)
        BY <1>2, <3>2
      <3> QED  BY <1>1, <1>2, <1>3, <3>1, <3>3 DEF MayFollow
    <2> QED  BY <1>1, <1>3, <2>1 DEF BehindsInv
  <1> QED  BY <1>9, <1>10 DEF StayInv

\* A thread tells r of m: r is the new server itself, which knows of no front yet,
\* or the first server, or is told of no front.
LEMMA TellStay ==
    ASSUME RingInv, StayInv, NEW s \in Servers, Told(s), Len(srvs) >= 2,
           NEW place \in {"front", "first", "done"}, Goto(s, place),
           UNCHANGED <<srvs, front, behind>>,
           NEW r \in Servers, NEW m \in Info, Write(r, m),
           \/ m.f = NoServer
           \/ r = srvs[1]
           \/ r = s /\ nsAt[s] = "new",
           r = srvs[1] \/ m.f # NoServer \/ r # s,
           \E i \in 1..Len(srvs) : r = srvs[i],
           m.e # NoServer => MayFollow(r, m.e)
    PROVE  StayInv'
  <1>1. /\ nsAt' = [nsAt EXCEPT ![s] = place] /\ srvs' = srvs /\ front' = front
        /\ nsAt \in [Servers -> {"off", "push", "new", "front", "first", "done"}]
        /\ srvs \in Seq(Servers) /\ srvs # <<>> /\ TypeOK
    BY DEF Goto, RingInv, TypeOK
  <1>2. PICK n \in Nat : n = Len(srvs) /\ n >= 2  BY <1>1
  <1>3. BehindsInv'  BY <1>1, SentBehind DEF StayInv
  <1>4. /\ \A t \in Servers : t # r \/ m.f = NoServer =>
              (Unset(t) => Unset(t)') /\ (Once(t) => Once(t)')
        /\ Unset(r) => Once(r)'
    BY <1>1, SentOnce
  <1>5. /\ srvs[n] = s
        /\ \A i, j \in 1..n : srvs[i] = srvs[j] => i = j
    BY <1>2 DEF RingInv, Entered, TypeOK
  <1>6. ASSUME NEW t \in Servers, nsAt'[t] = "new" \/ \A i \in 1..n : srvs'[i] # t
        PROVE  Unset(t)'
    <2>1. t # s
      <3>1. nsAt'[s] # "new"  BY <1>1
      <3>2. n \in 1..n  BY <1>2
      <3> QED  BY <1>1, <1>5, <1>6, <3>1, <3>2
    <2>2. nsAt[t] = "new" \/ \A i \in 1..n : srvs[i] # t  BY <1>1, <1>6, <2>1
    <2>3. nsAt[t] # "new"  BY <2>1, OthersRest DEF Told, Busy
    <2>4. t # r  BY <1>2, <2>2, <2>3
    <2>5. Unset(t)  BY <1>2, <2>2 DEF StayInv, FrontsInv
    <2> QED  BY <1>4, <2>4, <2>5
  <1>7. ASSUME NEW i \in 2..n PROVE Once(srvs[i])'
    <2>1. PICK t \in Servers : t = srvs[i] /\ t = srvs'[i]  BY <1>1, <1>2
    <2>2. Once(t)  BY <1>2, <2>1 DEF StayInv, FrontsInv
    <2>3. t # srvs[1]  BY <1>2, <1>5, <2>1
    <2>4. Once(t)'
      <3>1. CASE t # r \/ m.f = NoServer  BY <1>4, <2>2, <3>1
      <3>2. CASE t = r /\ m.f # NoServer
        <4>1. Unset(r)  BY <2>3, <3>2 DEF StayInv, FrontsInv
        <4> QED  BY <1>4, <3>2, <4>1
      <3> QED  BY <3>1, <3>2
    <2> QED  BY <2>1, <2>4 DEF Once
  <1>8. FrontsInv'  BY <1>1, <1>2, <1>6, <1>7 DEF FrontsInv
  <1> QED  BY <1>3, <1>8 DEF StayInv

\* Every step keeps StayInv and lets neighbours stay.
LEMMA StayStep ==
    ASSUME RingInv, StayInv, NoServer \notin Servers, [SerialNext]_vars
    PROVE  StayInv' /\ [Stay]_vars
  <1>1. CASE UNCHANGED vars
    BY <1>1 DEF vars, StayInv, FrontsInv, BehindsInv, Unset, Once, MayFollow
  <1>2. ASSUME NEW s \in Servers, Register(s) PROVE StayInv' /\ Stay
    <2>1. /\ srvs' = srvs /\ toDs' = toDs /\ front' = front /\ behind' = behind
          /\ \A t \in Servers : nsAt'[t] = "new" => nsAt[t] = "new"
      BY <1>2 DEF Register, Goto, RingInv, TypeOK
    <2> QED  BY <2>1 DEF StayInv, FrontsInv, BehindsInv, Unset, Once, MayFollow, Stay
  <1>3. ASSUME NEW s \in Servers, PushBack(s) PROVE StayInv' /\ Stay
    BY <1>3, PushStay DEF PushBack, Stay
  <1>4. ASSUME NEW s \in Servers, Told(s) PROVE \E n \in Nat :
           /\ n = Len(srvs) /\ n >= 1 /\ srvs[n] = s /\ srvs[1] \in Servers
           /\ nsAt[s] \in {"front", "first"} => n >= 2
           /\ n >= 2 => srvs[n - 1] \in Servers
    <2>1. PICK n \in Nat : n = Len(srvs)  BY DEF RingInv, TypeOK
    <2>2. /\ n >= 1 /\ srvs[n] = s
          /\ nsAt[s] \in {"front", "first"} => n >= 2
          /\ srvs \in Seq(Servers)
      BY <1>4, <2>1 DEF RingInv, Entered, TypeOK
    <2> QED  BY <2>1, <2>2
  <1>5. ASSUME NEW s \in Servers, TellNew(s) PROVE StayInv' /\ Stay
    <2>1. Told(s) /\ nsAt[s] = "new" /\ UNCHANGED <<srvs, front, behind>>
      BY <1>5 DEF TellNew, Told
    <2>2. Stay  BY <2>1 DEF Stay
    <2>3. PICK n \in Nat : /\ n = Len(srvs) /\ n >= 1 /\ srvs[n] = s /\ srvs[1] \in Servers
                           /\ n >= 2 => srvs[n - 1] \in Servers
      BY <1>4, <2>1
    <2>4. CASE Len(srvs) < 2 /\ Goto(s, "done") /\ UNCHANGED toDs
      <3>1. /\ srvs' = srvs /\ toDs' = toDs /\ front' = front
            /\ \A t \in Servers : nsAt'[t] = "new" => nsAt[t] = "new"
        BY <2>1, <2>4 DEF Goto, RingInv, TypeOK
      <3> QED  BY <2>2, <3>1 DEF StayInv, FrontsInv, BehindsInv, Unset, Once, MayFollow
    <2>5. CASE Len(srvs) >= 2 /\ Write(s, [f |-> LastBut1, e |-> srvs[1]]) /\ Goto(s, "front")
      <3>1. PICK m \in Info : m = [f |-> srvs[n - 1], e |-> srvs[1]]
        BY <2>3, <2>5 DEF Info
      <3>2. Write(s, m) /\ m.f # NoServer /\ m.e = srvs[1]
        BY <2>3, <2>5, <3>1 DEF LastBut1
      <3>3. MayFollow(s, m.e)  BY <3>2 DEF MayFollow
      <3>4. \E i \in 1..Len(srvs) : s = srvs[i]  BY <2>3
      <3>5. "front" \in {"front", "first", "done"}  OBVIOUS
      <3>6. StayInv'  BY <2>1, <2>5, <3>2, <3>3, <3>4, <3>5, TellStay
      <3> QED  BY <2>2, <3>6
    <2> QED  BY <1>5, <2>4, <2>5 DEF TellNew
  <1>6. ASSUME NEW s \in Servers, TellFront(s) PROVE StayInv' /\ Stay
    <2>1. Told(s) /\ nsAt[s] = "front" /\ UNCHANGED <<srvs, front, behind>> /\ Goto(s, "first")
      BY <1>6 DEF TellFront, Told
    <2>2. Stay  BY <2>1 DEF Stay
    <2>3. PICK n \in Nat : n = Len(srvs) /\ n >= 2 /\ srvs[n] = s /\ srvs[n - 1] \in Servers
      BY <1>4, <2>1
    <2>4. PICK r \in Servers, m \in Info : r = srvs[n - 1] /\ m = [f |-> NoServer, e |-> s]
      BY <2>3 DEF Info
    <2>5. Write(r, m) /\ m.f = NoServer /\ m.e = s
      BY <1>6, <2>3, <2>4 DEF TellFront, LastBut1
    <2>6. n - 1 \in 1..(n - 1) /\ n - 1 \in 1..n /\ n - 1 + 1 = n  BY <2>3
    <2>7. MayFollow(r, m.e)  BY <2>3, <2>4, <2>5, <2>6 DEF MayFollow
    <2>8. \E i \in 1..Len(srvs) : r = srvs[i]  BY <2>3, <2>4, <2>6
    <2>9. r # s
      <3>1. \A i, j \in 1..n : srvs[i] = srvs[j] => i = j  BY <2>3 DEF RingInv, TypeOK
      <3>2. n \in 1..n /\ n - 1 # n  BY <2>3
      <3> QED  BY <2>3, <2>4, <2>6, <3>1, <3>2
    <2>10. "first" \in {"front", "first", "done"} /\ Len(srvs) >= 2  BY <2>3
    <2>11. StayInv'  BY <2>1, <2>5, <2>7, <2>8, <2>9, <2>10, TellStay
    <2> QED  BY <2>2, <2>11
  <1>7. ASSUME NEW s \in Servers, TellFirst(s) PROVE StayInv' /\ Stay
    <2>1. Told(s) /\ nsAt[s] = "first" /\ UNCHANGED <<srvs, front, behind>> /\ Goto(s, "done")
      BY <1>7 DEF TellFirst, Told
    <2>2. Stay  BY <2>1 DEF Stay
    <2>3. PICK n \in Nat : n = Len(srvs) /\ n >= 2 /\ srvs[n] = s /\ srvs[1] \in Servers
      BY <1>4, <2>1
    <2>4. PICK r \in Servers, m \in Info : r = srvs[1] /\ m = [f |-> s, e |-> NoServer]
      BY <2>3 DEF Info
    <2>5. Write(r, m) /\ m.e = NoServer
      BY <1>7, <2>4 DEF TellFirst, ToFirst
    <2>6. 1 \in 1..Len(srvs) /\ Len(srvs) >= 2  BY <2>3
    <2>7. \E i \in 1..Len(srvs) : r = srvs[i]  BY <2>4, <2>6
    <2>8. "done" \in {"front", "first", "done"}  OBVIOUS
    <2>9. StayInv'  BY <2>1, <2>4, <2>5, <2>6, <2>7, <2>8, TellStay
    <2> QED  BY <2>2, <2>9
  <1>8. ASSUME SerialNext PROVE StayInv' /\ Stay
    <2>1. PICK s \in Servers : (Idle /\ Register(s)) \/ DSRegister(s) \/ UpdateMyNeighbors(s)
      BY <1>8 DEF SerialNext
    <2> QED  BY <2>1, <1>2, <1>3, <1>5, <1>6, <1>7, ArrivedStay DEF DSRegister
  <1> QED  BY <1>1, <1>8

\* One data server registers at a time, and however late the messages of
\* DSRegister arrive, updateMyNeighbors changes the neighbours only where a new
\* server goes in.
THEOREM NeighboursStayPut ==
    ASSUME NoServer \notin Servers
    PROVE  SerialSpec => NeighboursStay
  <1>1. Init => RingInv /\ StayInv  BY RingStart, StayStart
  <1>2. RingInv /\ StayInv /\ [SerialNext]_vars => RingInv' /\ StayInv' /\ [Stay]_vars
    BY RingStep, StayStep
  <1> QED  BY <1>1, <1>2, PTL DEF SerialSpec, NeighboursStay, Stay
=============================================================================
