---------------------------- MODULE RegistryProofs ----------------------------
(***************************************************************************)
(* Registrations, and what they change: who is enrolled, where the name of *)
(* each server is, and what can be in the master's queue.  A server is in  *)
(* the rotation, with one client, or about to be put back by the master,   *)
(* and never in two of these places; and servers whose followers           *)
(* registered before any client started do not block each other.           *)
(***************************************************************************)
EXTENDS TableProofs

-----------------------------------------------------------------------------
(* What stays in flight.                                                   *)

\* All but the message that is removed stays in the queues.
LEMMA TakenOutKeeps ==
    ASSUME NEW q, NEW q1, NEW o, NEW x, NEW i, Queues(q), Without(q, q1, x, i),
           NEW w \in InFlight(q, o)
    PROVE  w \in InFlight(q1, o) \/ w = Send(x, q[x][i])
  <1>1. Len(q[x]) \in Nat /\ Len(q1[x]) = Len(q[x]) - 1 /\ i \in 1..Len(q[x])
    BY DEF Queues, Without
  <1>2. CASE \E y \in DOMAIN q : \E j \in 1..Len(q[y]) : w = Send(y, q[y][j])
    <2>1. PICK y \in DOMAIN q : \E j \in 1..Len(q[y]) : w = Send(y, q[y][j])
      BY <1>2
    <2>2. PICK j \in 1..Len(q[y]) : w = Send(y, q[y][j])
      BY <2>1
    <2>3. CASE y # x
      <3>1. y \in DOMAIN q1 /\ q1[y] = q[y]
        BY <2>3 DEF Without
      <3>2. QED BY <2>2, <3>1, FlightCases
    <2>4. CASE y = x /\ j # i
      <3>1. PICK k : k = IF j < i THEN j ELSE j - 1
        OBVIOUS
      <3>2. k \in 1..Len(q1[x]) /\ (IF k < i THEN k ELSE k + 1) = j
        BY <1>1, <2>4, <3>1
      <3>3. q1[x][k] = q[x][j] /\ x \in DOMAIN q1
        BY <3>2 DEF Without
      <3>4. QED BY <2>2, <2>4, <3>2, <3>3, FlightCases
    <2>5. QED BY <2>2, <2>3, <2>4
  <1>3. CASE \E p \in Procs : \E j \in 1..Len(o[p]) : w = o[p][j]
    BY <1>3, FlightCases
  <1>4. QED BY <1>2, <1>3, FlightCases

\* The writes of others, and the messages in queues, stay; the new writes are
\* in flight.
LEMMA GivenKeeps ==
    ASSUME NEW q, NEW o, NEW o1, NEW p \in Procs, OnlyGiven(o, o1, p)
    PROVE  /\ o[p] = <<>> => InFlight(q, o) \subseteq InFlight(q, o1)
           /\ \A i \in 1..Len(o1[p]) : o1[p][i] \in InFlight(q, o1)
  <1>1. ASSUME o[p] = <<>>, NEW w \in InFlight(q, o) PROVE w \in InFlight(q, o1)
    <2>1. CASE \E y \in DOMAIN q : \E j \in 1..Len(q[y]) : w = Send(y, q[y][j])
      BY <2>1, FlightCases
    <2>2. CASE \E r \in Procs : \E j \in 1..Len(o[r]) : w = o[r][j]
      <3>1. PICK r \in Procs : \E j \in 1..Len(o[r]) : w = o[r][j]
        BY <2>2
      <3>2. r # p
        BY <1>1, <3>1
      <3>3. o1[r] = o[r]
        BY <3>2 DEF OnlyGiven
      <3>4. QED BY <3>1, <3>3, FlightCases
    <2>3. QED BY <2>1, <2>2, FlightCases
  <1>2. QED BY <1>1, FlightCases

\* All but the first write stays.
LEMMA FirstDoneKeeps ==
    ASSUME NEW q, NEW o, NEW o1, NEW p \in Procs, Outs(o), o[p] # <<>>,
           o1[p] = Tail(o[p]), \A r \in Procs \ {p} : o1[r] = o[r],
           NEW w \in InFlight(q, o)
    PROVE  w \in InFlight(q, o1) \/ w = Head(o[p])
  <1>1. o1[p] = Tail(o[p]) /\ \A r \in Procs \ {p} : o1[r] = o[r]
    OBVIOUS
  <1>2. o[p] \in Seq(Write)
    BY DEF Outs
  <1>3. /\ Len(o[p]) \in Nat /\ Len(o1[p]) = Len(o[p]) - 1
        /\ Head(o[p]) = o[p][1]
        /\ \A j \in 1..Len(o1[p]) : o1[p][j] = o[p][j + 1]
    BY <1>1, <1>2
  <1>4. CASE \E y \in DOMAIN q : \E j \in 1..Len(q[y]) : w = Send(y, q[y][j])
    BY <1>4, FlightCases
  <1>5. CASE \E r \in Procs : \E j \in 1..Len(o[r]) : w = o[r][j]
    <2>1. PICK r \in Procs : \E j \in 1..Len(o[r]) : w = o[r][j]
      BY <1>5
    <2>2. PICK j \in 1..Len(o[r]) : w = o[r][j]
      BY <2>1
    <2>3. CASE r # p
      <3>1. o1[r] = o[r]
        BY <1>1, <2>3
      <3>2. QED BY <2>2, <3>1, FlightCases
    <2>4. CASE r = p /\ j # 1
      <3>1. PICK k : k = j - 1
        OBVIOUS
      <3>2. k \in 1..Len(o1[p]) /\ k + 1 = j
        BY <1>3, <2>4, <3>1
      <3>3. o1[p][k] = w
        BY <1>3, <2>2, <2>4, <3>2
      <3>4. QED BY <3>2, <3>3, FlightCases
    <2>5. QED BY <1>3, <2>2, <2>3, <2>4
  <1>6. QED BY <1>4, <1>5, FlightCases

\* A message that is put into a queue is in flight, and the others stay.
LEMMA AppendedKeeps ==
    ASSUME NEW q, NEW q1, NEW o, NEW x \in DOMAIN q, NEW m \in Msg, Queues(q),
           DOMAIN q1 = DOMAIN q, q1[x] = Append(q[x], m),
           \A y \in DOMAIN q \ {x} : q1[y] = q[y]
    PROVE  /\ InFlight(q, o) \subseteq InFlight(q1, o)
           /\ Send(x, m) \in InFlight(q1, o)
  <1>1. /\ DOMAIN q1 = DOMAIN q /\ q1[x] = Append(q[x], m)
        /\ \A y \in DOMAIN q \ {x} : q1[y] = q[y]
    OBVIOUS
  <1>2. q[x] \in Seq(Msg)
    BY DEF Queues
  <1>3. /\ Len(q[x]) \in Nat /\ Len(q1[x]) = Len(q[x]) + 1
        /\ q1[x][Len(q[x]) + 1] = m
        /\ \A j \in 1..Len(q[x]) : q1[x][j] = q[x][j]
    BY <1>1, <1>2
  <1>4. ASSUME NEW w \in InFlight(q, o) PROVE w \in InFlight(q1, o)
    <2>1. CASE \E y \in DOMAIN q : \E j \in 1..Len(q[y]) : w = Send(y, q[y][j])
      <3>1. PICK y \in DOMAIN q : \E j \in 1..Len(q[y]) : w = Send(y, q[y][j])
        BY <2>1
      <3>2. PICK j \in 1..Len(q[y]) : w = Send(y, q[y][j])
        BY <3>1
      <3>3. j \in 1..Len(q1[y]) /\ q1[y][j] = q[y][j]
        BY <1>1, <1>3, <3>2
      <3>4. QED BY <1>1, <3>2, <3>3, FlightCases
    <2>2. CASE \E r \in Procs : \E j \in 1..Len(o[r]) : w = o[r][j]
      BY <2>2, FlightCases
    <2>3. QED BY <2>1, <2>2, FlightCases
  <1>5. Send(x, m) \in InFlight(q1, o)
    <2>1. PICK k \in 1..Len(q1[x]) : q1[x][k] = m
      BY <1>3
    <2>2. QED BY <1>1, <2>1, FlightCases
  <1>6. QED BY <1>4, <1>5

\* Closing a queue only loses what is in it.
LEMMA ClosedKeeps ==
    ASSUME NEW q, NEW q1, NEW o, DOMAIN q1 \subseteq DOMAIN q,
           \A x \in DOMAIN q1 : q1[x] = q[x], NEW w \in InFlight(q, o)
    PROVE  w \in InFlight(q1, o) \/ w.to \in DOMAIN q \ DOMAIN q1
  <1>1. CASE \E y \in DOMAIN q : \E j \in 1..Len(q[y]) : w = Send(y, q[y][j])
    <2>1. PICK y \in DOMAIN q : \E j \in 1..Len(q[y]) : w = Send(y, q[y][j])
      BY <1>1
    <2>2. w.to = y
      BY <2>1 DEF Send
    <2>3. CASE y \in DOMAIN q1
      <3>1. q1[y] = q[y]
        BY <2>3
      <3>2. QED BY <2>1, <2>3, <3>1, FlightCases
    <2>4. QED BY <2>2, <2>3
  <1>2. CASE \E r \in Procs : \E j \in 1..Len(o[r]) : w = o[r][j]
    BY <1>2, FlightCases
  <1>3. QED BY <1>1, <1>2, FlightCases

\* A server takes the message it handles; its writes and all else are in flight.
LEMMA HandlerKeeps ==
    ASSUME TypeInv, NEW s \in Servers, HasMsg(s), NEW v,
           out' = [out EXCEPT ![s] = v],
           queue' = Popped(s) \/ \E y \in Int : queue' = MqOpen(Popped(s), y)
    PROVE  /\ \A w \in InFlight(queue, out) :
                 w \in InFlight(queue', out') \/ w = Send(pname[s], Received(s))
           /\ \A i \in 1..Len(v) : v[i] \in InFlight(queue', out')
  <1> DEFINE q1 == Popped(s)
             x == pname[s]
  <1>1. /\ Queues(queue) /\ Outs(out) /\ s \in Procs /\ out[s] = <<>>
        /\ x \in DOMAIN queue /\ queue[x] # <<>> /\ queue[x] \in Seq(Msg)
    BY DEF TypeInv, TypeOK, Queues, Outs, Write, HasMsg, Procs
  <1>2. Without(queue, q1, x, 1) /\ Received(s) = queue[x][1]
    <2>1. DOMAIN q1 = DOMAIN queue /\ q1[x] = Tail(queue[x])
          /\ \A y \in DOMAIN queue \ {x} : q1[y] = queue[y]
      BY <1>1 DEF Popped
    <2>2. /\ Len(queue[x]) \in Nat /\ 1 \in 1..Len(queue[x])
          /\ Tail(queue[x]) \in Seq(Msg)
          /\ Len(Tail(queue[x])) = Len(queue[x]) - 1
          /\ \A j \in 1..Len(Tail(queue[x])) :
                /\ Tail(queue[x])[j] = queue[x][j + 1]
                /\ ~(j < 1)
          /\ Head(queue[x]) = queue[x][1]
      BY <1>1
    <2>3. QED BY <1>1, <2>1, <2>2 DEF Without, Received
  <1>3. \A y \in Int : /\ DOMAIN q1 \subseteq DOMAIN MqOpen(q1, y)
                       /\ \A z \in DOMAIN q1 : MqOpen(q1, y)[z] = q1[z]
                       /\ \A z \in DOMAIN MqOpen(q1, y) \ DOMAIN q1 :
                             MqOpen(q1, y)[z] = <<>>
    BY DEF MqOpen
  <1>4. /\ DOMAIN q1 \subseteq DOMAIN queue'
        /\ \A z \in DOMAIN q1 : queue'[z] = q1[z]
        /\ \A z \in DOMAIN queue' \ DOMAIN q1 : queue'[z] = <<>>
    BY <1>3
  <1> HIDE DEF q1, x
  <1>5. \A w \in InFlight(queue, out) : w \in InFlight(q1, out) \/ w = Send(x, queue[x][1])
    BY <1>1, <1>2, TakenOutKeeps
  <1>6. InFlight(queue', out) = InFlight(q1, out)
    BY <1>4, Opened
  <1> DEFINE o1 == out'
  <1>7. o1[s] = v /\ OnlyGiven(out, o1, s)
    BY <1>1 DEF Outs, OnlyGiven
  <1> HIDE DEF o1
  <1>8. /\ InFlight(queue', out) \subseteq InFlight(queue', o1)
        /\ \A i \in 1..Len(o1[s]) : o1[s][i] \in InFlight(queue', o1)
    BY <1>1, <1>7, GivenKeeps
  <1>9. QED BY <1>2, <1>5, <1>6, <1>7, <1>8 DEF x, o1

\* A write whose queue exists is put there.
LEMMA WriteKeeps ==
    ASSUME TypeInv, NEW p \in Procs, MqWrite(p), NEW w \in InFlight(queue, out)
    PROVE  w \in InFlight(queue', out') \/ w.to \in {NoName, DnsNode}
  <1> DEFINE x == Head(out[p]).to
             m == Head(out[p]).msg
  <1>1. Queues(queue) /\ Outs(out) /\ out[p] \in Seq(Write) /\ out[p] # <<>>
    BY DEF TypeInv, TypeOK, Queues, Outs, Write, MqWrite
  <1>2. Head(out[p]) \in Write
    BY <1>1
  <1>3. m \in Msg /\ Head(out[p]) = Send(x, m) /\ Head(out[p]).to = x
    BY <1>2 DEF Write, Send
  <1>4. out'[p] = Tail(out[p]) /\ \A r \in Procs \ {p} : out'[r] = out[r]
    BY <1>1 DEF MqWrite, Outs
  <1>5. \/ x \in {NoName, DnsNode} /\ UNCHANGED queue
        \/ x \in DOMAIN queue /\ queue' = [queue EXCEPT ![x] = Append(@, m)]
    BY DEF MqWrite
  <1> HIDE DEF x, m
  <1> DEFINE o1 == out'
             q1 == queue'
  <1>6. o1[p] = Tail(out[p]) /\ \A r \in Procs \ {p} : o1[r] = out[r]
    BY <1>4
  <1>7. \/ x \in {NoName, DnsNode} /\ q1 = queue
        \/ /\ x \in DOMAIN queue /\ DOMAIN q1 = DOMAIN queue
           /\ q1[x] = Append(queue[x], m)
           /\ \A y \in DOMAIN queue \ {x} : q1[y] = queue[y]
    BY <1>5
  <1> HIDE DEF o1, q1
  <1>8. w \in InFlight(queue, o1) \/ w = Send(x, m)
    BY <1>1, <1>3, <1>6, FirstDoneKeeps
  <1>9. CASE x \in {NoName, DnsNode} /\ q1 = queue
    <2>1. Send(x, m).to = x
      BY DEF Send
    <2>2. QED BY <1>8, <1>9, <2>1 DEF o1, q1
  <1>10. CASE x \in DOMAIN queue /\ DOMAIN q1 = DOMAIN queue
              /\ q1[x] = Append(queue[x], m)
              /\ \A y \in DOMAIN queue \ {x} : q1[y] = queue[y]
    <2>1. /\ m \in Msg /\ Queues(queue) /\ x \in DOMAIN queue
          /\ DOMAIN q1 = DOMAIN queue /\ q1[x] = Append(queue[x], m)
          /\ \A y \in DOMAIN queue \ {x} : q1[y] = queue[y]
      BY <1>1, <1>3, <1>10
    <2>2. InFlight(queue, o1) \subseteq InFlight(q1, o1) /\ Send(x, m) \in InFlight(q1, o1)
      BY ONLY <2>1, AppendedKeeps
    <2>3. QED BY <1>8, <2>2 DEF o1, q1
  <1>11. QED BY <1>7, <1>9, <1>10

-----------------------------------------------------------------------------
(* What a handler does to registrations.                                   *)

\* Server s takes the message m, and writes v.
Handles(s, m, v) ==
    /\ s \in Servers /\ HasMsg(s) /\ m = Received(s) /\ v \in Seq(Write)
    /\ out' = [out EXCEPT ![s] = v]
    /\ \/ queue' = Popped(s)
       \/ \E y \in Int : y >= 0 /\ queue' = MqOpen(Popped(s), y)
    /\ UNCHANGED <<pname, cstate, cmsg>>

\* What is in flight before, and after; the queues lose m.
LEMMA HandledFlight ==
    ASSUME SafeInv, NEW s, NEW m, NEW v, Handles(s, m, v)
    PROVE  /\ m \in Msg /\ Send(pname[s], m) \in InFlight(queue, out)
           /\ \A w \in InFlight(queue', out') :
                 w \in InFlight(queue, out) \/ \E i \in 1..Len(v) : w = v[i]
           /\ \A w \in InFlight(queue, out) :
                 w \in InFlight(queue', out') \/ w = Send(pname[s], m)
           /\ \A i \in 1..Len(v) : v[i] \in InFlight(queue', out')
           /\ out[s] = <<>> /\ out'[s] = v
           /\ \A p \in Procs \ {s} : out'[p] = out[p]
  <1>1. /\ TypeInv /\ s \in Servers /\ HasMsg(s) /\ m = Received(s) /\ v \in Seq(Write)
        /\ out' = [out EXCEPT ![s] = v]
        /\ queue' = Popped(s) \/ \E y \in Int : queue' = MqOpen(Popped(s), y)
    BY DEF Handles, SafeInv
  <1>2. m \in Msg
    BY <1>1, ReceivedFits
  <1>3. /\ Send(pname[s], m) \in InFlight(queue, out)
        /\ \A w \in InFlight(queue', out') :
              w \in InFlight(queue, out) \/ \E i \in 1..Len(v) : w = v[i]
    BY <1>1, HandlerFlight
  <1>4. /\ \A w \in InFlight(queue, out) :
              w \in InFlight(queue', out') \/ w = Send(pname[s], m)
        /\ \A i \in 1..Len(v) : v[i] \in InFlight(queue', out')
    BY <1>1, HandlerKeeps
  <1>5. out \in [Procs -> Seq(Write)] /\ s \in Procs
    BY <1>1 DEF TypeInv, TypeOK, Write, Procs
  <1>6. out[s] = <<>> /\ out'[s] = v /\ \A p \in Procs \ {s} : out'[p] = out[p]
    BY <1>1, <1>5 DEF HasMsg
  <1>7. QED BY <1>2, <1>3, <1>4, <1>6

\* The queue that m was in loses its head, and a queue may be new.
LEMMA HandledQueues ==
    ASSUME SafeInv, NEW s, NEW m, NEW v, Handles(s, m, v)
    PROVE  /\ pname[s] \in DOMAIN queue /\ queue[pname[s]] \in Seq(Msg)
           /\ queue[pname[s]] # <<>> /\ m = Head(queue[pname[s]])
           /\ DOMAIN queue \subseteq DOMAIN queue'
           /\ \A x \in DOMAIN queue' :
                 \/ x \in DOMAIN queue /\ x # pname[s] /\ queue'[x] = queue[x]
                 \/ x = pname[s] /\ queue'[x] = Tail(queue[x])
                 \/ x >= 0 /\ x \notin DOMAIN queue /\ queue'[x] = <<>>
  <1>1. /\ TypeInv /\ HasMsg(s) /\ m = Received(s)
        /\ \/ queue' = Popped(s)
           \/ \E y \in Int : y >= 0 /\ queue' = MqOpen(Popped(s), y)
    BY DEF Handles, SafeInv
  <1>2. /\ pname[s] \in DOMAIN queue /\ queue[pname[s]] \in Seq(Msg)
        /\ queue[pname[s]] # <<>> /\ m = Head(queue[pname[s]])
    BY <1>1 DEF HasMsg, Received, TypeInv, TypeOK
  <1>3. /\ DOMAIN Popped(s) = DOMAIN queue
        /\ Popped(s)[pname[s]] = Tail(queue[pname[s]])
        /\ \A x \in DOMAIN queue \ {pname[s]} : Popped(s)[x] = queue[x]
    BY <1>2 DEF Popped
  <1>4. CASE queue' = Popped(s)
    BY <1>2, <1>3, <1>4
  <1>5. ASSUME NEW y \in Int, y >= 0, queue' = MqOpen(Popped(s), y)
        PROVE  /\ DOMAIN queue' = DOMAIN queue \cup {y}
               /\ \A x \in DOMAIN queue : queue'[x] = Popped(s)[x]
               /\ \A x \in DOMAIN queue' \ DOMAIN queue : x = y /\ queue'[x] = <<>>
    <2>1. y # NoName
      BY <1>5 DEF NoName
    <2>2. QED BY <1>3, <1>5, <2>1 DEF MqOpen
  <1>6. CASE \E y \in Int : y >= 0 /\ queue' = MqOpen(Popped(s), y)
    <2>1. PICK y \in Int : y >= 0 /\ queue' = MqOpen(Popped(s), y)
      BY <1>6
    <2>2. /\ DOMAIN queue' = DOMAIN queue \cup {y}
          /\ \A x \in DOMAIN queue : queue'[x] = Popped(s)[x]
          /\ \A x \in DOMAIN queue' \ DOMAIN queue : x = y /\ queue'[x] = <<>>
      BY <1>5, <2>1
    <2>3. QED BY <1>2, <1>3, <2>1, <2>2
  <1>7. QED BY <1>1, <1>2, <1>4, <1>6

\* A message that is no registration is handled, and what is written is no
\* registration, puts no server back, and is a call when the master gets it.
QuietStep(s) ==
    /\ \E m \in Msg : \E v \in Seq(Write) :
          /\ Handles(s, m, v)
          /\ m.type # "REGISTER"
          /\ \A i \in 1..Len(v) :
                /\ v[i].msg.type # "REGISTER"
                /\ v[i].to # DnsNode
                /\ v[i].to = MasterNode => v[i].msg.type \in Calls
    /\ UNCHANGED <<serverNames, mqFoers>>

\* A follower forwards a registration.
PassesOn(s) ==
    /\ s # Master
    /\ \E m \in Msg : \E v \in Seq(Write) :
          /\ Handles(s, m, v)
          /\ m.type = "REGISTER"
          /\ Len(v) = 1 /\ v[1] = Send(MasterNode, m)
    /\ UNCHANGED <<serverNames, mqFoers>>

\* The answer to a call, alone or before what the followers are told, is for a
\* client.
LEMMA AnswerIsQuiet ==
    ASSUME SafeInv, NEW m \in Msg, NEW c \in Clients, CallerOf(m, c),
           NEW t \in AnswerTypes, NEW w, w = Send(pname[c], [m EXCEPT !.type = t]),
           NEW v, Answering(v, w, m)
    PROVE  /\ v \in Seq(Write)
           /\ \A i \in 1..Len(v) :
                /\ v[i].msg.type # "REGISTER"
                /\ v[i].to # DnsNode
                /\ v[i].to = MasterNode => v[i].msg.type \in Calls
  <1>1. TypeInv /\ TypeOK /\ NameInv
    BY DEF SafeInv, TypeInv
  <1>2. pname[c] \in Int /\ pname[c] # DnsNode /\ pname[c] # MasterNode
    BY <1>1, ClientNames DEF CallerOf
  <1>3. /\ w \in Write /\ w.msg.type # "REGISTER"
        /\ w.to # DnsNode /\ w.to # MasterNode
    <2>1. [m EXCEPT !.type = t] \in Msg /\ [m EXCEPT !.type = t].type # "REGISTER"
      BY DEF Msg, MsgTypes, AnswerTypes
    <2>2. QED BY <1>2, <2>1 DEF Send, Write
  <1>4. CASE v = <<w>>
    BY <1>3, <1>4
  <1>5. ASSUME NEW u \in {"LOCK_NEW", "LOCK_DELETE"}, v = <<w>> \o ToFoers(m, u)
        PROVE  /\ v \in Seq(Write)
               /\ \A i \in 1..Len(v) :
                    /\ v[i].msg.type # "REGISTER"
                    /\ v[i].to # DnsNode
                    /\ v[i].to # MasterNode
    <2>1. PICK g : g = ToFoers(m, u)
      OBVIOUS
    <2>2. u \in MsgTypes
      BY DEF MsgTypes
    <2>3. /\ g \in Seq(Write) /\ Len(g) = Len(mqFoers)
          /\ \A i \in 1..Len(mqFoers) : g[i] = Send(mqFoers[i], [m EXCEPT !.type = u])
      BY <1>1, <2>1, <2>2, ToFoersType
    <2>4. ASSUME NEW i \in 1..Len(g)
          PROVE  g[i].msg.type # "REGISTER" /\ g[i].to # DnsNode /\ g[i].to # MasterNode
      <3>1. g[i] = Send(mqFoers[i], [m EXCEPT !.type = u]) /\ i \in 1..Len(mqFoers)
        BY <2>3
      <3>2. mqFoers[i] >= 1
        <4>1. IsFollower(mqFoers[i])
          BY <3>1 DEF SafeInv, DictInv
        <4>2. QED BY <1>1, <4>1, ServerAssumption DEF IsFollower, NameInv, Procs, Servers
      <3>3. PICK z : z = [m EXCEPT !.type = u]
        OBVIOUS
      <3>4. g[i].msg.type = u /\ g[i].to = mqFoers[i]
        <4>1. z.type = u
          BY <3>3 DEF Msg
        <4>2. g[i] = Send(mqFoers[i], z)
          BY <3>1, <3>3
        <4>3. QED BY <4>1, <4>2 DEF Send
      <3>5. mqFoers[i] # DnsNode /\ mqFoers[i] # MasterNode
        BY <3>2 DEF DnsNode, MasterNode
      <3>6. QED BY <3>4, <3>5
    <2>5. v = <<w>> \o g
      BY <1>5, <2>1
    <2>6. /\ <<w>> \in Seq(Write) /\ Len(<<w>>) = 1 /\ <<w>>[1] = w
      BY <1>3, ShortSeqs
    <2>7. /\ v \in Seq(Write) /\ Len(v) = 1 + Len(g)
          /\ \A i \in 1..(1 + Len(g)) : v[i] = IF i <= 1 THEN <<w>>[i] ELSE g[i - 1]
      BY <2>3, <2>5, <2>6, ConcatProperties
    <2>8. ASSUME NEW i \in 1..Len(v) PROVE v[i] = w \/ \E j \in 1..Len(g) : v[i] = g[j]
      <3>1. Len(g) \in Nat
        BY <2>3
      <3>2. CASE i = 1
        BY <2>6, <2>7, <3>1, <3>2
      <3>3. CASE i # 1
        <4>1. i - 1 \in 1..Len(g) /\ v[i] = g[i - 1]
          BY <2>7, <3>1, <3>3
        <4>2. QED BY <4>1
      <3>4. QED BY <3>2, <3>3
    <2>9. QED BY <1>3, <2>4, <2>7, <2>8
  <1>6. QED BY <1>4, <1>5 DEF Answering, Announced

\* The master's handlers of calls.
LEMMA MasterCalls ==
    ASSUME SafeInv, MasterGrant \/ MasterRelease \/ MasterRefuse \/ MasterInquire,
           UNCHANGED <<cstate, cmsg, held>>
    PROVE  QuietStep(Master)
  <1>1. PICK m : m = Received(Master)
    OBVIOUS
  <1>2. PICK t : t = IF MasterGrant THEN "LOCK_GRANT"
                     ELSE IF MasterRelease THEN "LOCK_IDLE"
                     ELSE IF MasterRefuse THEN "LOCK_BUSY"
                     ELSE InquiryAnswer(Master, m)
    OBVIOUS
  <1>3. PICK w : w = Reply(Master, m, t)
    OBVIOUS
  <1>4. PICK v : v = IF MasterGrant THEN <<w>> \o ToFoers(m, "LOCK_NEW")
                     ELSE IF MasterRelease THEN <<w>> \o ToFoers(m, "LOCK_DELETE")
                     ELSE <<w>>
    OBVIOUS
  <1>5. t \in AnswerTypes /\ Answering(v, w, m)
    BY <1>2, <1>4 DEF AnswerTypes, InquiryAnswer, Answering, Announced
  <1>6. /\ HasMsg(Master) /\ m.type \in Calls /\ queue' = Popped(Master)
        /\ UNCHANGED <<serverNames, mqFoers, pname>>
    BY <1>1 DEF MasterGrant, MasterRelease, MasterRefuse, MasterInquire, Calls
  <1>7. out' = [out EXCEPT ![Master] = v]
    <2>1. CASE MasterGrant
      BY <1>1, <1>2, <1>3, <1>4, <2>1 DEF MasterGrant
    <2>2. CASE MasterRelease /\ ~MasterGrant
      BY <1>1, <1>2, <1>3, <1>4, <2>2 DEF MasterRelease
    <2>3. CASE MasterRefuse /\ ~MasterGrant /\ ~MasterRelease
      BY <1>1, <1>2, <1>3, <1>4, <2>3 DEF MasterRefuse, Refusal
    <2>4. CASE MasterInquire /\ ~MasterGrant /\ ~MasterRelease /\ ~MasterRefuse
      BY <1>1, <1>2, <1>3, <1>4, <2>4 DEF MasterInquire
    <2>5. QED BY <2>1, <2>2, <2>3, <2>4
  <1>8. m \in Msg /\ \E c \in Clients : CallerOf(m, c)
    BY <1>1, <1>6, CallHandled DEF Servers
  <1>9. PICK c \in Clients : CallerOf(m, c)
    BY <1>8
  <1>10. w = Send(pname[c], [m EXCEPT !.type = t])
    BY <1>3, <1>9 DEF Reply, ClientMq, CallerOf
  <1>11. /\ v \in Seq(Write)
         /\ \A i \in 1..Len(v) :
               /\ v[i].msg.type # "REGISTER" /\ v[i].to # DnsNode
               /\ v[i].to = MasterNode => v[i].msg.type \in Calls
    BY <1>5, <1>8, <1>9, <1>10, AnswerIsQuiet
  <1>12. Handles(Master, m, v)
    BY <1>1, <1>6, <1>7, <1>11 DEF Handles, Servers
  <1>13. m.type # "REGISTER"
    BY <1>6 DEF Calls
  <1>14. QED BY <1>6, <1>8, <1>11, <1>12, <1>13 DEF QuietStep

\* A follower answers an inquiry, and forwards the calls.
LEMMA FollowerCalls ==
    ASSUME SafeInv, NEW f \in Followers, FollowerInquire(f),
           UNCHANGED <<cstate, cmsg, held>>
    PROVE  QuietStep(f)
  <1>1. PICK m : m = Received(f)
    OBVIOUS
  <1>2. PICK t : t = InquiryAnswer(f, m)
    OBVIOUS
  <1>3. PICK x : x = mqDict'[f][m.uuid]
    OBVIOUS
  <1>4. PICK w : w = Send(x, [m EXCEPT !.type = t])
    OBVIOUS
  <1>5. PICK v : v = <<w>>
    OBVIOUS
  <1>6. /\ HasMsg(f) /\ m.type = "LOCK_INQUIRY" /\ m.type \in Calls
        /\ f \in Servers /\ f \in Procs /\ t \in AnswerTypes
        /\ mqDict' = [mqDict EXCEPT ![f] = Insert(mqDict[f], m.uuid, m.name)]
        /\ queue' = Popped(f) \/ queue' = MqOpen(Popped(f), m.name)
        /\ out' = [out EXCEPT ![f] = v]
        /\ UNCHANGED <<serverNames, mqFoers, pname>>
    BY <1>1, <1>2, <1>3, <1>4, <1>5
       DEF FollowerInquire, InquiryAnswer, Calls, Servers, Procs, AnswerTypes
  <1>7. m \in Msg /\ \E c \in Clients : CallerOf(m, c)
    BY <1>1, <1>6, CallHandled
  <1>8. PICK c \in Clients : CallerOf(m, c)
    BY <1>7
  <1>9. m.name = pname[c] /\ m.name \in Int /\ m.name >= 0
    BY <1>8, ClientNames DEF SafeInv, CallerOf
  <1>10. x = pname[c]
    <2>1. DOMAIN mqDict = Servers
      BY DEF SafeInv, TypeInv, TypeOK
    <2>2. mqDict'[f] = Insert(mqDict[f], m.uuid, m.name)
      BY <1>6, <2>1
    <2>3. m.uuid \in DOMAIN mqDict[f] => mqDict[f][m.uuid] = pname[c]
      BY <1>8 DEF CallerOf, SafeInv, DictInv
    <2>4. QED BY <1>3, <1>9, <2>2, <2>3 DEF Insert
  <1>11. /\ v \in Seq(Write)
         /\ \A i \in 1..Len(v) :
               /\ v[i].msg.type # "REGISTER" /\ v[i].to # DnsNode
               /\ v[i].to = MasterNode => v[i].msg.type \in Calls
    <2>1. w = Send(pname[c], [m EXCEPT !.type = t])
      BY <1>4, <1>10
    <2>2. Answering(v, w, m)
      BY <1>5 DEF Answering
    <2>3. QED BY <1>6, <1>7, <1>8, <2>1, <2>2, AnswerIsQuiet
  <1>12. Handles(f, m, v)
    BY <1>1, <1>6, <1>9, <1>11 DEF Handles
  <1>13. m.type # "REGISTER"
    BY <1>6
  <1>14. QED BY <1>6, <1>7, <1>11, <1>12, <1>13 DEF QuietStep

\* message2master, of a call or of a registration.
LEMMA FollowerPasses ==
    ASSUME SafeInv, NEW f \in Followers, FollowerForward(f),
           UNCHANGED <<cstate, cmsg, held>>
    PROVE  QuietStep(f) \/ PassesOn(f)
  <1>1. PICK m : m = Received(f)
    OBVIOUS
  <1>2. PICK w : w = Send(MasterNode, m)
    OBVIOUS
  <1>3. PICK v : v = <<w>>
    OBVIOUS
  <1>4. /\ HasMsg(f) /\ queue' = Popped(f) /\ f \in Servers /\ f # Master
        /\ m.type \in {"REGISTER", "LOCK_REQUEST", "LOCK_RELEASE"}
        /\ out' = [out EXCEPT ![f] = v]
        /\ UNCHANGED <<serverNames, mqFoers, pname>>
    BY <1>1, <1>2, <1>3, ServerAssumption DEF FollowerForward, Forwarded, Servers
  <1>5. m \in Msg
    BY <1>1, <1>4, ReceivedFits
  <1>6. w \in Write /\ w.msg = m /\ w.to = MasterNode /\ w.to # DnsNode
    BY <1>2, <1>5 DEF Send, Write, MasterNode, DnsNode
  <1>7. v \in Seq(Write) /\ Len(v) = 1 /\ v[1] = w /\ \A i \in 1..Len(v) : v[i] = w
    BY <1>3, <1>6
  <1>8. Handles(f, m, v)
    BY <1>1, <1>4, <1>7 DEF Handles
  <1>9. CASE m.type = "REGISTER"
    BY <1>2, <1>4, <1>5, <1>7, <1>8, <1>9 DEF PassesOn
  <1>10. CASE m.type # "REGISTER"
    <2>1. m.type \in Calls
      BY <1>4, <1>10 DEF Calls
    <2>2. QED BY <1>4, <1>5, <1>6, <1>7, <1>8, <1>10, <2>1 DEF QuietStep
  <1>11. QED BY <1>9, <1>10

\* The handlers of a follower that write nothing.
LEMMA FollowerCopies ==
    ASSUME SafeInv, NEW f \in Followers,
           FollowerAdd(f) \/ FollowerDelete(f) \/ FollowerIgnore(f),
           UNCHANGED <<cstate, cmsg, held>>
    PROVE  QuietStep(f)
  <1>1. PICK m : m = Received(f)
    OBVIOUS
  <1>2. PICK v : v = out[f]
    OBVIOUS
  <1>3. /\ HasMsg(f) /\ queue' = Popped(f) /\ v = <<>> /\ out' = out
        /\ m.type # "REGISTER" /\ f \in Servers /\ f \in Procs
        /\ UNCHANGED <<serverNames, mqFoers, pname>>
    BY <1>1, <1>2 DEF FollowerAdd, FollowerDelete, FollowerIgnore, HasMsg, Servers, Procs
  <1>4. out \in [Procs -> Seq(Write)]
    BY DEF SafeInv, TypeInv, TypeOK, Write
  <1>5. out' = [out EXCEPT ![f] = v] /\ v \in Seq(Write) /\ Len(v) = 0
    BY <1>2, <1>3, <1>4
  <1>6. m \in Msg
    BY <1>1, <1>3, ReceivedFits
  <1>7. Handles(f, m, v)
    BY <1>1, <1>3, <1>5 DEF Handles
  <1>8. 1..Len(v) = {}
    BY <1>5
  <1>9. QED BY <1>3, <1>5, <1>6, <1>7, <1>8 DEF QuietStep

\* What the servers do: they answer, forward, register, start and write.
LEMMA ServerSteps ==
    ASSUME SafeInv, ServerStep
    PROVE  /\ UNCHANGED <<cstate, cmsg, held>>
           /\ \/ \E s \in Servers : QuietStep(s) \/ PassesOn(s)
              \/ MasterRegisterClient \/ MasterRegisterFoer
              \/ \E f \in Followers : FollowerStart(f)
              \/ \E s \in Servers : MqWrite(s)
  <1>1. UNCHANGED <<cstate, cmsg, held>>
    BY DEF ServerStep
  <1>2. CASE MasterStep
    <2>1. Master \in Servers
      BY DEF Servers
    <2>2. QED BY <1>1, <1>2, <2>1, MasterCalls DEF MasterStep
  <1>3. ASSUME NEW f \in Followers, FollowerStep(f)
        PROVE  QuietStep(f) \/ PassesOn(f) \/ FollowerStart(f)
    BY <1>1, <1>3, FollowerCalls, FollowerPasses, FollowerCopies DEF FollowerStep
  <1>4. Followers \subseteq Servers
    BY DEF Servers
  <1>5. QED BY <1>1, <1>2, <1>3, <1>4 DEF ServerStep, ServerNext

\* The master acknowledges a client, and puts its server back.
Acknowledges(m, v) ==
    /\ Handles(Master, m, v)
    /\ m.type = "REGISTER" /\ m.ctype # "FOER" /\ m.name >= 1
    /\ Len(v) = 2
    /\ v[1].to # DnsNode /\ v[1].to # MasterNode /\ v[1].msg.type = "REGISTER_ACK"
    /\ v[2].to = DnsNode /\ v[2].msg.type = "SERVER_NAME"
    /\ v[2].msg.server = m.server
    /\ UNCHANGED <<serverNames, mqFoers>>

\* The master enrols a follower, and sends the records it holds.
Enrols(m, v) ==
    /\ Handles(Master, m, v)
    /\ IsFoerReg(m) /\ IsFollower(m.name) /\ m.server = NoName
    /\ \A i \in 1..Len(v) :
          /\ v[i].msg.type = "REGISTER" /\ v[i].msg.ctype = "LOCK_SYNC"
          /\ v[i].msg.name = m.name /\ v[i].msg.server = NoName
          /\ v[i].to # DnsNode
    /\ HeldLocks = {} => v = <<>>
    /\ mqFoers' = Append(mqFoers, m.name)
    /\ serverNames' = Append(serverNames, m.name)

\* A registration comes from a follower, or from a client that waits for the
\* ACK.
LEMMA Registrant ==
    ASSUME SafeInv, RegisterInv, NEW w \in InFlight(queue, out),
           w.msg.type = "REGISTER"
    PROVE  /\ w.msg.name \in Int /\ w.msg.name >= 1
           /\ \/ w.msg.server = NoName /\ IsFollower(w.msg.name)
              \/ \E c \in Clients : /\ cstate[c] = "registering"
                                    /\ Conversation(w.msg, pname[c])
                                    /\ w.msg.name = pname[c]
                                    /\ w.msg.server = cmsg[c].server
                                    /\ w.to \in {cmsg[c].server, MasterNode}
  <1>1. WellFormed(w) /\ Fits(w.msg) /\ Registers(w)
    BY DEF SafeInv, FlightInv, RegisterInv
  <1>2. CASE w.msg.server = NoName /\ IsFollower(w.msg.name)
    <2>1. w.msg.name \in Int /\ w.msg.name >= 1
      BY <1>2, ServerAssumption
         DEF IsFollower, SafeInv, TypeInv, TypeOK, NameInv, Procs, Servers
    <2>2. QED BY <1>2, <2>1
  <1>3. ASSUME NEW c \in Clients, Connected(c), w.msg.name = pname[c]
        PROVE  /\ cstate[c] = "registering" /\ Conversation(w.msg, pname[c])
               /\ pname[c] \in Int /\ pname[c] >= 1
    <2>1. Conversation(w.msg, pname[c])
      BY <1>3 DEF Conversation
    <2>2. OfRegistration(w.msg, c) \/ OfCall(w.msg, c)
      BY <1>1, <1>3, <2>1 DEF Fits
    <2>3. cstate[c] = "waiting" => cmsg[c].type \in Calls
      BY DEF SafeInv, ClientInv
    <2>4. ~OfCall(w.msg, c)
      BY <2>3 DEF OfCall, Calls, Answers
    <2>5. QED BY <1>3, <2>1, <2>2, <2>4, ClientNames DEF OfRegistration, SafeInv
  <1>4. QED BY <1>1, <1>2, <1>3 DEF Registers

\* The ACK of a client and what the master publishes with it.
LEMMA RegisterClientStep ==
    ASSUME SafeInv, RegisterInv, MasterRegisterClient, UNCHANGED <<cstate, cmsg, held>>
    PROVE  \E m \in Msg : \E v \in Seq(Write) : Acknowledges(m, v)
  <1>1. PICK m : m = Received(Master)
    OBVIOUS
  <1>2. PICK u : u = nextUuid
    OBVIOUS
  <1>3. PICK a : a = Send(m.name, [[m EXCEPT !.uuid = u] EXCEPT !.type = "REGISTER_ACK"])
    OBVIOUS
  <1>4. PICK b : b = Send(DnsNode, [[m EXCEPT !.uuid = u] EXCEPT !.type = "SERVER_NAME"])
    OBVIOUS
  <1>5. PICK v : v = <<a, b>>
    OBVIOUS
  <1>6. /\ HasMsg(Master) /\ Master \in Servers
        /\ m.type = "REGISTER" /\ m.ctype # "FOER"
        /\ queue' = MqOpen(Popped(Master), m.name)
        /\ out' = [out EXCEPT ![Master] = v]
        /\ UNCHANGED <<serverNames, mqFoers, pname>>
    BY <1>1, <1>2, <1>3, <1>4, <1>5 DEF MasterRegisterClient, Acknowledge, Servers
  <1>7. m \in Msg /\ u \in Nat
    <2>1. m \in Msg
      BY <1>1, <1>6, ReceivedFits
    <2>2. u \in Nat
      BY <1>2 DEF SafeInv, TypeInv, TypeOK
    <2>3. QED BY <2>1, <2>2
  <1>8. m.name \in Int /\ m.name >= 1
    <2>1. pname[Master] \in DOMAIN queue /\ queue[pname[Master]] \in Seq(Msg)
          /\ queue[pname[Master]] # <<>>
      BY <1>6 DEF HasMsg, SafeInv, TypeInv, TypeOK
    <2>2. 1 \in 1..Len(queue[pname[Master]]) /\ m = queue[pname[Master]][1]
      BY <1>1, <2>1 DEF Received
    <2>3. PICK z : z = Send(pname[Master], m)
      OBVIOUS
    <2>4. z \in InFlight(queue, out) /\ z.msg = m
      BY <2>1, <2>2, <2>3, FlightCases DEF Send
    <2>5. QED BY <1>6, <2>4, Registrant
  <1>9. /\ a \in Write /\ a.msg.type = "REGISTER_ACK" /\ a.to = m.name
    BY <1>3, <1>7, <1>8 DEF Send, Write, Msg, MsgTypes
  <1>10. /\ b \in Write /\ b.msg.type = "SERVER_NAME" /\ b.to = DnsNode
         /\ b.msg.server = m.server
    <2>1. PICK z : z = [[m EXCEPT !.uuid = u] EXCEPT !.type = "SERVER_NAME"]
      OBVIOUS
    <2>2. z \in Msg /\ z.type = "SERVER_NAME" /\ z.server = m.server
      BY <1>7, <2>1 DEF Msg, MsgTypes
    <2>3. b = Send(DnsNode, z) /\ DnsNode \in Int
      BY <1>4, <2>1 DEF DnsNode
    <2>4. QED BY <2>2, <2>3 DEF Send, Write
  <1>11. v \in Seq(Write) /\ Len(v) = 2 /\ v[1] = a /\ v[2] = b
    BY <1>5, <1>9, <1>10
  <1>12. m.name # DnsNode /\ m.name # MasterNode /\ m.name >= 0
    BY <1>8 DEF DnsNode, MasterNode
  <1>13. Handles(Master, m, v)
    BY <1>1, <1>6, <1>8, <1>11, <1>12 DEF Handles
  <1>14. Acknowledges(m, v)
    BY <1>6, <1>8, <1>9, <1>10, <1>11, <1>12, <1>13 DEF Acknowledges
  <1>15. QED BY <1>7, <1>11, <1>14

\* The registration of a follower: the master adds its name, and writes it no ACK.
LEMMA RegisterFoerStep ==
    ASSUME SafeInv, RegisterInv, MasterRegisterFoer, UNCHANGED <<cstate, cmsg, held>>
    PROVE  \E m \in Msg : \E v \in Seq(Write) : Enrols(m, v)
  <1>0. TypeOK /\ NameInv
    BY DEF SafeInv, TypeInv
  <1>1. PICK m : m = Received(Master)
    OBVIOUS
  <1>2. PICK foers : foers = Append(mqFoers, m.name)
    OBVIOUS
  <1>3. PICK order \in Orders(HeldLocks) :
           out' = [out EXCEPT ![Master] = SyncMsgs(m, order, foers)]
    BY <1>1, <1>2 DEF MasterRegisterFoer
  <1>4. PICK v : v = SyncMsgs(m, order, foers)
    OBVIOUS
  <1>5. /\ HasMsg(Master) /\ Master \in Servers /\ IsFoerReg(m)
        /\ queue' = MqOpen(Popped(Master), m.name)
        /\ out' = [out EXCEPT ![Master] = v]
        /\ mqFoers' = Append(mqFoers, m.name)
        /\ serverNames' = Append(serverNames, m.name)
        /\ UNCHANGED pname
    BY <1>1, <1>2, <1>3, <1>4 DEF MasterRegisterFoer, Servers, IsFoerReg
  <1>6. m \in Msg /\ m.name \in Int
    BY <1>1, <1>5, ReceivedFits DEF Msg
  <1>7. IsFollower(m.name) /\ m.server = NoName /\ m.name >= 1
    <2>1. pname[Master] \in DOMAIN queue /\ queue[pname[Master]] \in Seq(Msg)
          /\ queue[pname[Master]] # <<>>
      BY <1>0, <1>5 DEF HasMsg, TypeOK
    <2>2. 1 \in 1..Len(queue[pname[Master]]) /\ m = queue[pname[Master]][1]
      BY <1>1, <2>1 DEF Received
    <2>3. PICK z : z = Send(pname[Master], m)
      OBVIOUS
    <2>4. z \in InFlight(queue, out) /\ z.msg = m
      BY <2>1, <2>2, <2>3, FlightCases DEF Send
    <2>5. IsFollower(m.name)
      BY <1>5, <2>4 DEF SafeInv, FlightInv, WellFormed, IsFoerReg
    <2>6. ASSUME NEW c \in Clients, cstate[c] = "registering", m.name = pname[c]
          PROVE  FALSE
      BY <2>5, <2>6, ClientNames DEF Connected, SafeInv
    <2>7. QED BY <1>5, <2>4, <2>5, <2>6, Registrant DEF IsFoerReg
  <1>8. foers \in Seq(Int)
    BY <1>0, <1>2, <1>6 DEF TypeOK
  <1>9. v \in Seq(Write) /\ \A k \in 1..Len(v) : IsSync(v[k], m, foers)
    BY <1>0, <1>4, <1>6, <1>8, SyncMsgsType
  <1>10. \A i \in 1..Len(foers) : foers[i] # DnsNode
    <2>1. \A i \in 1..Len(mqFoers) : mqFoers[i] >= 1
      <3> SUFFICES ASSUME NEW i \in 1..Len(mqFoers) PROVE mqFoers[i] >= 1
        OBVIOUS
      <3>1. IsFollower(mqFoers[i])
        BY DEF SafeInv, DictInv
      <3>2. QED BY <1>0, <3>1, ServerAssumption DEF IsFollower, NameInv, Procs, Servers
    <2>2. mqFoers \in Seq(Int)
      BY <1>0 DEF TypeOK
    <2>3. \A i \in 1..Len(foers) : foers[i] >= 1
      BY <1>2, <1>6, <1>7, <2>1, <2>2
    <2>4. QED BY <1>8, <2>3 DEF DnsNode
  <1>11. \A i \in 1..Len(v) :
            /\ v[i].msg.type = "REGISTER" /\ v[i].msg.ctype = "LOCK_SYNC"
            /\ v[i].msg.name = m.name /\ v[i].msg.server = NoName
            /\ v[i].to # DnsNode
    BY <1>5, <1>7, <1>9, <1>10 DEF IsSync, IsFoerReg
  <1>12. HeldLocks = {} => v = <<>>
    <2> SUFFICES ASSUME HeldLocks = {} PROVE v = <<>>
      OBVIOUS
    <2>1. Cardinality({}) = 0
      BY FS_EmptySet
    <2>2. order \in [1..0 -> {}]
      BY <2>1 DEF Orders
    <2>3. Len(order) = 0
      <3>1. order \in Seq({}) /\ Len(order) = 0
        BY <2>2, FunctionIsSeq
      <3>2. QED BY <3>1
    <2>4. Len(order) * Len(foers) = 0
      BY <1>8, <2>3
    <2>5. 1..0 = {}
      OBVIOUS
    <2>6. DOMAIN v = 1..0
      BY <1>4, <2>4 DEF SyncMsgs
    <2>7. v \in Seq(Write) /\ Len(v) = 0
      BY <1>9, <2>6
    <2>8. QED BY <2>7
  <1>13. Handles(Master, m, v)
    <2>1. m.name >= 0
      BY <1>6, <1>7
    <2>2. QED BY <1>1, <1>5, <1>6, <1>9, <2>1 DEF Handles
  <1>14. Enrols(m, v)
    BY <1>5, <1>7, <1>11, <1>12, <1>13 DEF Enrols
  <1>15. QED BY <1>6, <1>9, <1>14

-----------------------------------------------------------------------------
(* What the steps of clients and followers do to what is in flight.        *)

\* The key of a server: nobody's, or one that was handed out.
LEMMA ServerKey ==
    ASSUME SafeInv, NEW x, IsServer(x)
    PROVE  x \in Int /\ (x = NoName \/ x >= 0) /\ x # DnsNode
  <1>1. TypeOK /\ NameInv
    BY DEF SafeInv, TypeInv
  <1>2. CASE x # NoName
    <2>1. PICK s \in Servers : x = pname[s]
      BY <1>2 DEF IsServer
    <2>2. CASE s = Master
      BY <1>1, <2>1, <2>2 DEF NameInv, MasterNode, DnsNode
    <2>3. CASE s # Master
      <3>1. s \in Procs \ {Master} /\ pname[s] # NoName /\ pname[s] \in Int
        BY <1>1, <1>2, <2>1, <2>3 DEF Procs, TypeOK
      <3>2. pname[s] >= 1
        BY <1>1, <3>1 DEF NameInv
      <3>3. QED BY <2>1, <3>1, <3>2 DEF DnsNode
    <2>4. QED BY <2>2, <2>3
  <1>3. QED BY <1>2 DEF NoName, DnsNode

\* The process p has one more message w to write, and empty queues may be new.
Writes(p, w) ==
    /\ p \in Procs /\ out[p] = <<>> /\ w \in Write
    /\ out' = [out EXCEPT ![p] = <<w>>]
    /\ DOMAIN queue \subseteq DOMAIN queue'
    /\ \A x \in DOMAIN queue : queue'[x] = queue[x]
    /\ \A x \in DOMAIN queue' \ DOMAIN queue : x >= 0 /\ queue'[x] = <<>>

\* What a process that has just begun to write has in flight.
LEMMA WrittenFlight ==
    ASSUME SafeInv, NEW p, NEW w, Writes(p, w)
    PROVE  /\ \A z : z \in InFlight(queue', out') <=> z \in InFlight(queue, out) \/ z = w
           /\ Len(out'[p]) = 1 /\ out'[p][1] = w
           /\ \A r \in Procs \ {p} : out'[r] = out[r]
  <1>1. /\ p \in Procs /\ out[p] = <<>> /\ w \in Write /\ Outs(out)
        /\ out' = [out EXCEPT ![p] = <<w>>]
        /\ DOMAIN queue \subseteq DOMAIN queue'
        /\ \A x \in DOMAIN queue : queue'[x] = queue[x]
        /\ \A x \in DOMAIN queue' \ DOMAIN queue : queue'[x] = <<>>
    BY DEF Writes, SafeInv, TypeInv, TypeOK, Outs, Write
  <1> DEFINE o1 == out'
             q1 == queue'
  <1>2. o1[p] = <<w>> /\ OnlyGiven(out, o1, p)
    BY <1>1 DEF Outs, OnlyGiven
  <1>3. /\ DOMAIN queue \subseteq DOMAIN q1
        /\ \A x \in DOMAIN queue : q1[x] = queue[x]
        /\ \A x \in DOMAIN q1 \ DOMAIN queue : q1[x] = <<>>
    BY <1>1
  <1> HIDE DEF o1, q1
  <1>4. InFlight(q1, out) = InFlight(queue, out)
    BY <1>3, Opened
  <1>5. Len(o1[p]) = 1 /\ o1[p][1] = w /\ \A r \in Procs \ {p} : o1[r] = out[r]
    BY <1>2 DEF OnlyGiven
  <1>6. \A z \in InFlight(q1, o1) : z \in InFlight(q1, out) \/ z = w
    <2>1. \A z \in InFlight(q1, o1) :
             z \in InFlight(q1, out) \/ \E i \in 1..Len(o1[p]) : z = o1[p][i]
      BY <1>2, GivenFlight
    <2>2. \A i \in 1..Len(o1[p]) : o1[p][i] = w
      BY <1>5
    <2>3. QED BY <2>1, <2>2
  <1>7. InFlight(q1, out) \subseteq InFlight(q1, o1) /\ w \in InFlight(q1, o1)
    <2>1. /\ InFlight(q1, out) \subseteq InFlight(q1, o1)
          /\ \A i \in 1..Len(o1[p]) : o1[p][i] \in InFlight(q1, o1)
      BY <1>1, <1>2, GivenKeeps
    <2>2. 1 \in 1..Len(o1[p])
      BY <1>5
    <2>3. QED BY <1>5, <2>1, <2>2
  <1>8. QED BY <1>4, <1>5, <1>6, <1>7 DEF o1, q1

\* A follower that has its name writes its registration.
Introduces(f, w) ==
    /\ Writes(f, w)
    /\ f # Master /\ f \notin Clients
    /\ IsFoerReg(w.msg) /\ w.msg.name = Oldest /\ w.msg.server = NoName
    /\ w.to = MasterNode
    /\ pname[f] = NoName /\ pname' = [pname EXCEPT ![f] = Oldest] /\ Oldest >= 1
    /\ UNCHANGED <<serverNames, mqFoers, cstate, cmsg>>

\* A follower that starts takes the oldest free name and writes its registration.
LEMMA FollowerStarts ==
    ASSUME SafeInv, RegisterInv, NEW f \in Followers, FollowerStart(f),
           UNCHANGED <<cstate, cmsg, held>>
    PROVE  \E w \in Write : Introduces(f, w)
  <1>1. /\ f \in Procs /\ f \notin Clients /\ f # Master
        /\ TypeOK /\ NameInv
    BY ServerAssumption DEF Servers, Procs, SafeInv, TypeInv
  <1>2. PICK n : n = Head(freeNames)
    OBVIOUS
  <1>3. PICK m : m = [type |-> "REGISTER", ctype |-> "FOER",
                      uuid |-> 0, name |-> n, server |-> NoName, lock |-> NoLock]
    OBVIOUS
  <1>4. PICK w : w = Send(MasterNode, m)
    OBVIOUS
  <1>5. /\ pname[f] = NoName /\ freeNames # <<>>
        /\ pname' = [pname EXCEPT ![f] = n] /\ freeNames' = Tail(freeNames)
        /\ queue' = MqOpen(queue, n)
        /\ out' = [out EXCEPT ![f] = <<w>>]
        /\ UNCHANGED <<serverNames, mqFoers, nextName>>
    BY <1>2, <1>3, <1>4 DEF FollowerStart
  <1>6. n = Oldest /\ n >= 1
    <2>1. f \in Procs \ {Master}
      BY <1>1
    <2>2. QED BY <1>1, <1>2, <1>5, <2>1, NameTaken
  <1>7. n \in Int
    BY <1>1, <1>2, <1>5 DEF TypeOK
  <1>8. m \in Msg /\ m.name = n /\ m.server = NoName /\ IsFoerReg(m)
    BY <1>3, <1>7 DEF Msg, MsgTypes, NoName, IsFoerReg
  <1>9. w \in Write /\ w.msg = m /\ w.to = MasterNode
    BY <1>4, <1>8 DEF Send, Write, MasterNode
  <1>10. out[f] = <<>>
    BY <1>5 DEF RegisterInv, IdleInv
  <1>11. /\ DOMAIN queue \subseteq DOMAIN queue'
         /\ \A x \in DOMAIN queue : queue'[x] = queue[x]
         /\ \A x \in DOMAIN queue' \ DOMAIN queue : x >= 0 /\ queue'[x] = <<>>
    BY <1>5, <1>6, <1>7 DEF MqOpen
  <1>12. Writes(f, w)
    BY <1>1, <1>5, <1>9, <1>10, <1>11 DEF Writes
  <1>13. Introduces(f, w)
    BY <1>1, <1>5, <1>6, <1>8, <1>9, <1>12 DEF Introduces
  <1>14. QED BY <1>9, <1>13

\* A client that has its name writes its registration.
Applies(c, w) ==
    /\ Writes(c, w)
    /\ c # Master
    /\ w.msg.type = "REGISTER" /\ w.msg.ctype = "CLIENT" /\ w.msg.name = Oldest
    /\ w.msg.server = cmsg[c].server /\ w.to = cmsg[c].server
    /\ cstate[c] = "lookup" /\ cstate' = [cstate EXCEPT ![c] = "registering"]
    /\ pname' = [pname EXCEPT ![c] = Oldest] /\ Oldest >= 1
    /\ \E m \in Msg : m.server = cmsg[c].server /\ cmsg' = [cmsg EXCEPT ![c] = m]
    /\ UNCHANGED <<serverNames, mqFoers>>

\* A client that has drawn a server takes a name and registers there.
LEMMA ClientApplies ==
    ASSUME SafeInv, RegisterInv, NEW c \in Clients, LookupName(c)
    PROVE  \E w \in Write : Applies(c, w)
  <1>1. /\ c \in Procs /\ c \notin Servers /\ c # Master /\ TypeOK /\ NameInv
        /\ cmsg[c] \in Msg /\ cmsg[c].server \in Int
    BY ServerAssumption DEF Servers, Procs, SafeInv, TypeInv, TypeOK, Msg
  <1>2. PICK n : n = Head(freeNames)
    OBVIOUS
  <1>3. PICK m : m = [cmsg[c] EXCEPT !.type = "REGISTER", !.ctype = "CLIENT",
                                     !.name = n]
    OBVIOUS
  <1>4. PICK w : w = Send(m.server, m)
    OBVIOUS
  <1>5. /\ cstate[c] = "lookup" /\ freeNames # <<>>
        /\ cstate' = [cstate EXCEPT ![c] = "registering"]
        /\ pname' = [pname EXCEPT ![c] = n] /\ freeNames' = Tail(freeNames)
        /\ queue' = MqOpen(MqOpen(queue, m.server), n)
        /\ cmsg' = [cmsg EXCEPT ![c] = m]
        /\ out' = [out EXCEPT ![c] = <<w>>]
        /\ UNCHANGED <<serverNames, mqFoers, nextName>>
    BY <1>2, <1>3, <1>4 DEF LookupName
  <1>6. n = Oldest /\ n >= 1
    <2>1. c \in Procs \ {Master}
      BY <1>1
    <2>2. QED BY <1>1, <1>2, <1>5, <2>1, NameTaken
  <1>7. n \in Int
    BY <1>1, <1>2, <1>5 DEF TypeOK
  <1>8. /\ m \in Msg /\ m.name = n /\ m.server = cmsg[c].server
        /\ m.type = "REGISTER" /\ m.ctype = "CLIENT"
    BY <1>1, <1>3, <1>7 DEF Msg, MsgTypes
  <1>9. w \in Write /\ w.msg = m /\ w.to = m.server
    BY <1>1, <1>4, <1>8 DEF Send, Write
  <1>10. out[c] = <<>>
    BY <1>5 DEF RegisterInv, IdleInv
  <1>11. m.server = NoName \/ m.server >= 0
    <2>1. IsServer(m.server)
      BY <1>5, <1>8 DEF SafeInv, ClientInv
    <2>2. QED BY <2>1, ServerKey
  <1>12. /\ DOMAIN queue \subseteq DOMAIN queue'
         /\ \A x \in DOMAIN queue : queue'[x] = queue[x]
         /\ \A x \in DOMAIN queue' \ DOMAIN queue : x >= 0 /\ queue'[x] = <<>>
    <2>1. PICK q : q = MqOpen(queue, m.server)
      OBVIOUS
    <2>2. /\ DOMAIN queue \subseteq DOMAIN q
          /\ \A x \in DOMAIN queue : q[x] = queue[x]
          /\ \A x \in DOMAIN q \ DOMAIN queue : x >= 0 /\ q[x] = <<>>
      BY <1>11, <2>1 DEF MqOpen
    <2>3. queue' = MqOpen(q, n)
      BY <1>5, <2>1
    <2>4. /\ DOMAIN q \subseteq DOMAIN queue'
          /\ \A x \in DOMAIN q : queue'[x] = q[x]
          /\ \A x \in DOMAIN queue' \ DOMAIN q : x = n /\ queue'[x] = <<>>
      BY <2>3 DEF MqOpen
    <2>5. n >= 0
      BY <1>6, <1>7
    <2>6. QED BY <2>2, <2>4, <2>5
  <1>13. Writes(c, w)
    BY <1>1, <1>5, <1>9, <1>10, <1>12 DEF Writes
  <1>14. Applies(c, w)
    BY <1>1, <1>5, <1>6, <1>8, <1>9, <1>13 DEF Applies
  <1>15. QED BY <1>9, <1>14

\* A client writes a call.
CallsWith(c, w) ==
    /\ Writes(c, w)
    /\ c # Master /\ w.msg.type \in Calls /\ w.to # DnsNode
    /\ cstate[c] = "idle" /\ cstate' = [cstate EXCEPT ![c] = "waiting"]
    /\ \E m \in Msg : m.server = cmsg[c].server /\ cmsg' = [cmsg EXCEPT ![c] = m]
    /\ UNCHANGED <<serverNames, mqFoers, pname>>

\* A call of a client is one write to its server, and no registration.
LEMMA ClientCalls ==
    ASSUME SafeInv, RegisterInv, NEW c \in Clients, NEW t \in Calls, NEW l \in Locks,
           Call(c, t, l)
    PROVE  \E w \in Write : CallsWith(c, w)
  <1>1. /\ c \in Procs /\ c \notin Servers /\ c # Master /\ TypeOK /\ NameInv
        /\ cmsg[c] \in Msg /\ cmsg[c].server \in Int
    BY ServerAssumption DEF Servers, Procs, SafeInv, TypeInv, TypeOK, Msg
  <1>2. PICK m : m = [cmsg[c] EXCEPT !.type = t, !.lock = l]
    OBVIOUS
  <1>3. PICK w : w = Send(m.server, m)
    OBVIOUS
  <1>4. /\ cstate[c] = "idle" /\ cstate' = [cstate EXCEPT ![c] = "waiting"]
        /\ queue' = queue /\ cmsg' = [cmsg EXCEPT ![c] = m]
        /\ out' = [out EXCEPT ![c] = <<w>>]
        /\ UNCHANGED <<serverNames, mqFoers, pname>>
    BY <1>2, <1>3 DEF Call
  <1>5. m \in Msg /\ m.type = t /\ m.server = cmsg[c].server
    BY <1>1, <1>2 DEF Msg, MsgTypes, Calls
  <1>6. w \in Write /\ w.msg = m /\ w.to = m.server
    BY <1>1, <1>3, <1>5 DEF Send, Write
  <1>7. m.server # DnsNode
    <2>1. IsServer(m.server)
      BY <1>4, <1>5 DEF SafeInv, ClientInv
    <2>2. QED BY <2>1, ServerKey
  <1>8. Writes(c, w)
    BY <1>1, <1>4, <1>6 DEF Writes, RegisterInv, IdleInv
  <1>9. CallsWith(c, w)
    BY <1>1, <1>4, <1>5, <1>6, <1>7, <1>8 DEF CallsWith
  <1>10. QED BY <1>6, <1>9

\* The client c reads an answer, or closes its queue: what is lost is no
\* registration.
Takes(c) ==
    /\ c \in Clients /\ c \in Procs /\ c # Master
    /\ UNCHANGED <<out, pname, serverNames, mqFoers>>
    /\ InFlight(queue', out') \subseteq InFlight(queue, out)
    /\ \A w \in InFlight(queue, out) :
          w \in InFlight(queue', out') \/ w.msg.type \notin Calls \cup {"REGISTER"}
    /\ DOMAIN queue' \subseteq DOMAIN queue
    /\ \A x \in DOMAIN queue' : queue'[x] = queue[x] \/ x = pname[c]
    /\ \A d \in Clients \ {c} : cstate'[d] = cstate[d] /\ cmsg'[d] = cmsg[d]
    /\ cstate[c] \in {"registering", "waiting", "idle"}
    /\ out[c] = <<>>
    /\ cstate'[c] \in {"idle", "closed"}
    /\ cstate[c] = "registering" => Quiet(queue', out, pname[c])

\* A client that reads its ACK or its answer removes it, and writes nothing.
LEMMA ClientTakes ==
    ASSUME SafeInv, RegisterInv, NEW c \in Clients, RecvAck(c) \/ Return(c)
    PROVE  Takes(c)
  <1>1. /\ c \in Procs /\ c # Master /\ Queues(queue) /\ Outs(out)
        /\ cstate \in [Clients -> CStates] /\ cmsg \in [Clients -> Msg]
    BY ServerAssumption DEF Servers, Procs, SafeInv, TypeInv, TypeOK, Queues, Outs, Write
  <1>2. /\ cstate[c] \in {"registering", "waiting"} /\ out[c] = <<>>
        /\ cstate' = [cstate EXCEPT ![c] = "idle"]
        /\ UNCHANGED <<out, pname, serverNames, mqFoers>>
        /\ \E m : cmsg' = [cmsg EXCEPT ![c] = m]
    BY DEF RecvAck, Return
  <1>3. \E i \in 1..Len(queue[pname[c]]) : Without(queue, queue', pname[c], i)
    BY AckTaken, AnswerTaken
  <1>4. PICK i \in 1..Len(queue[pname[c]]) : Without(queue, queue', pname[c], i)
    BY <1>3
  <1>5. PICK z : z = queue[pname[c]][i]
    OBVIOUS
  <1>6. /\ Connected(c) /\ Conversation(z, pname[c])
        /\ z.type \in AnswerTypes \cup {"REGISTER_ACK"}
    BY <1>2, <1>4, <1>5, QueueOfClient
  <1> DEFINE q1 == queue'
  <1>7. Without(queue, q1, pname[c], i)
    BY <1>4
  <1> HIDE DEF q1
  <1>8. /\ InFlight(q1, out) \subseteq InFlight(queue, out)
        /\ \A n : Single(queue, out, n) /\ Conversation(z, n) => Quiet(q1, out, n)
    BY <1>1, <1>5, <1>7, TakenOut
  <1>9. \A w \in InFlight(queue, out) : w \in InFlight(q1, out) \/ w = Send(pname[c], z)
    BY <1>1, <1>5, <1>7, TakenOutKeeps
  <1>10. Quiet(q1, out, pname[c])
    BY <1>6, <1>8 DEF SafeInv, SingleInv
  <1>11. Send(pname[c], z).msg.type \notin Calls \cup {"REGISTER"}
    BY <1>6 DEF Send, AnswerTypes, Calls
  <1>12. /\ DOMAIN q1 \subseteq DOMAIN queue
         /\ \A x \in DOMAIN q1 : q1[x] = queue[x] \/ x = pname[c]
    BY <1>7 DEF Without
  <1>13. /\ cstate'[c] = "idle"
         /\ \A d \in Clients \ {c} : cstate'[d] = cstate[d] /\ cmsg'[d] = cmsg[d]
    BY <1>1, <1>2
  <1>14. /\ InFlight(queue', out') \subseteq InFlight(queue, out)
         /\ \A w \in InFlight(queue, out) :
               w \in InFlight(queue', out') \/ w.msg.type \notin Calls \cup {"REGISTER"}
    BY <1>2, <1>8, <1>9, <1>11 DEF q1
  <1>15. QED BY <1>1, <1>2, <1>10, <1>12, <1>13, <1>14 DEF Takes, q1

\* The destructor of a client removes its queue, which has nothing in it.
LEMMA ClientCloses ==
    ASSUME SafeInv, RegisterInv, NEW c \in Clients, Close(c)
    PROVE  Takes(c)
  <1>1. /\ c \in Procs /\ c # Master /\ Queues(queue) /\ Outs(out)
        /\ cstate \in [Clients -> CStates] /\ cmsg \in [Clients -> Msg]
    BY ServerAssumption DEF Servers, Procs, SafeInv, TypeInv, TypeOK, Queues, Outs, Write
  <1>2. /\ cstate[c] = "idle" /\ cstate' = [cstate EXCEPT ![c] = "closed"]
        /\ queue' = [n \in DOMAIN queue \ {pname[c]} |-> queue[n]]
        /\ UNCHANGED <<out, pname, serverNames, mqFoers, cmsg>>
    BY DEF Close
  <1>3. out[c] = <<>>
    BY <1>2 DEF RegisterInv, IdleInv
  <1> DEFINE q1 == queue'
  <1>4. /\ DOMAIN q1 = DOMAIN queue \ {pname[c]}
        /\ \A x \in DOMAIN q1 : q1[x] = queue[x]
    BY <1>2
  <1> HIDE DEF q1
  <1>5. InFlight(q1, out) \subseteq InFlight(queue, out)
    BY <1>4, Closed
  <1>6. ASSUME NEW w \in InFlight(queue, out)
        PROVE  w \in InFlight(q1, out) \/ w.msg.type \notin Calls \cup {"REGISTER"}
    <2>1. w \in InFlight(q1, out) \/ w.to \in DOMAIN queue \ DOMAIN q1
      BY <1>4, ClosedKeeps
    <2>2. WellFormed(w)
      BY DEF SafeInv, FlightInv
    <2>3. Connected(c)
      BY <1>2 DEF Connected
    <2>4. w.to = pname[c] => w.msg.type \notin Calls \cup {"REGISTER"}
      BY <2>2, <2>3 DEF WellFormed, AnswerTypes, Calls
    <2>5. QED BY <1>4, <2>1, <2>4
  <1>7. /\ cstate'[c] = "closed"
        /\ \A d \in Clients \ {c} : cstate'[d] = cstate[d] /\ cmsg'[d] = cmsg[d]
    BY <1>1, <1>2
  <1>8. /\ InFlight(queue', out') \subseteq InFlight(queue, out)
        /\ \A w \in InFlight(queue, out) :
              w \in InFlight(queue', out') \/ w.msg.type \notin Calls \cup {"REGISTER"}
    BY <1>2, <1>5, <1>6 DEF q1
  <1>9. QED BY <1>1, <1>2, <1>3, <1>4, <1>7, <1>8 DEF Takes, q1

-----------------------------------------------------------------------------
(* Every registration is known by its name and its server.                 *)

\* A handler keeps RegisterInv when all it writes registers properly.
LEMMA HandledRegisters ==
    ASSUME SafeInv, RegisterInv, NEW s, NEW m, NEW v, Handles(s, m, v),
           s = Master \/ \A i \in 1..Len(v) : v[i].to # DnsNode,
           \A i \in 1..Len(v) : Registers(v[i])
    PROVE  RegisterInv'
  <1>1. UNCHANGED <<pname, cstate, cmsg>> /\ s \in Servers
    BY DEF Handles
  <1>2. \A w : Registers(w)' <=> Registers(w)
    BY <1>1 DEF Registers, IsFollower, Connected
  <1>3. /\ \A w \in InFlight(queue', out') :
              w \in InFlight(queue, out) \/ \E i \in 1..Len(v) : w = v[i]
        /\ out'[s] = v /\ \A p \in Procs \ {s} : out'[p] = out[p]
    BY HandledFlight
  <1>4. \A w \in InFlight(queue', out') : Registers(w)'
    BY <1>2, <1>3 DEF RegisterInv
  <1>5. \A x \in DOMAIN queue' : x >= 0
    BY HandledQueues DEF RegisterInv
  <1>6. \A p \in Procs \ {Master} : \A i \in 1..Len(out'[p]) : out'[p][i].to # DnsNode
    BY <1>3 DEF RegisterInv
  <1>7. s \notin Clients /\ Clients \subseteq Procs /\ Followers \subseteq Procs
    BY <1>1, ServerAssumption DEF Servers, Procs
  <1>8. pname[s] # NoName
    BY HandledQueues DEF RegisterInv, NoName
  <1>9. IdleInv'
    <2>1. \A c \in Clients : out'[c] = out[c]
      BY <1>3, <1>7
    <2>2. \A f \in Followers : pname[f] = NoName => out'[f] = out[f]
      BY <1>3, <1>7, <1>8
    <2>3. QED BY <1>1, <2>1, <2>2 DEF RegisterInv, IdleInv
  <1>10. QED BY <1>4, <1>5, <1>6, <1>9 DEF RegisterInv

\* A write that arrives keeps RegisterInv.
LEMMA WriteRegisters ==
    ASSUME SafeInv, RegisterInv, NEW p \in Procs, MqWrite(p),
           UNCHANGED <<cstate, cmsg, held>>
    PROVE  RegisterInv'
  <1>1. /\ UNCHANGED <<pname, cstate, cmsg>> /\ DOMAIN queue' = DOMAIN queue
        /\ out' = [out EXCEPT ![p] = Tail(@)] /\ out[p] # <<>>
        /\ out \in [Procs -> Seq(Write)]
    BY DEF MqWrite, SafeInv, TypeInv, TypeOK, Write
  <1>2. \A w : Registers(w)' <=> Registers(w)
    BY <1>1 DEF Registers, IsFollower, Connected
  <1>3. InFlight(queue', out') \subseteq InFlight(queue, out)
    BY WriteFlight DEF SafeInv
  <1>4. out'[p] = Tail(out[p]) /\ \A r \in Procs \ {p} : out'[r] = out[r]
    BY <1>1
  <1>5. /\ out[p] \in Seq(Write) /\ Len(out[p]) \in Nat
        /\ Len(out'[p]) = Len(out[p]) - 1
        /\ \A i \in 1..Len(out'[p]) : i + 1 \in 1..Len(out[p]) /\ out'[p][i] = out[p][i + 1]
    <2>1. out[p] \in Seq(Write)
      BY <1>1
    <2>2. QED BY <1>1, <1>4, <2>1
  <1>6. \A r \in Procs \ {Master} : \A i \in 1..Len(out'[r]) : out'[r][i].to # DnsNode
    <2>1. \A r \in Procs \ {Master} : \A i \in 1..Len(out[r]) : out[r][i].to # DnsNode
      BY DEF RegisterInv
    <2>2. ASSUME NEW r \in Procs \ {Master}, NEW i \in 1..Len(out'[r])
          PROVE  out'[r][i].to # DnsNode
      <3>1. CASE r = p
        <4>1. i + 1 \in 1..Len(out[p]) /\ out'[p][i] = out[p][i + 1]
          BY <1>5, <3>1
        <4>2. QED BY <2>1, <3>1, <4>1
      <3>2. CASE r # p
        BY <1>4, <2>1, <3>2
      <3>3. QED BY <3>1, <3>2
    <2>3. QED BY <2>2
  <1>7. Clients \subseteq Procs /\ Followers \subseteq Procs
    BY DEF Servers, Procs
  <1>8. \A r \in Procs : out[r] = <<>> => out'[r] = out[r]
    BY <1>1, <1>4
  <1>9. IdleInv'
    BY <1>1, <1>7, <1>8 DEF RegisterInv, IdleInv
  <1>10. QED BY <1>1, <1>2, <1>3, <1>6, <1>9 DEF RegisterInv

\* The start of a follower keeps RegisterInv: its name is new.
LEMMA IntroducesRegisters ==
    ASSUME SafeInv, RegisterInv, NEW f \in Followers, NEW w, Introduces(f, w)
    PROVE  RegisterInv'
  <1>1. /\ Writes(f, w) /\ f \notin Clients
        /\ IsFoerReg(w.msg) /\ w.msg.name = Oldest /\ w.msg.server = NoName
        /\ w.to = MasterNode /\ pname \in [Procs -> Int]
        /\ pname[f] = NoName /\ pname' = [pname EXCEPT ![f] = Oldest] /\ Oldest >= 1
        /\ UNCHANGED <<cstate, cmsg>>
    BY DEF Introduces, SafeInv, TypeInv, TypeOK
  <1>2. /\ \A z : z \in InFlight(queue', out') <=> z \in InFlight(queue, out) \/ z = w
        /\ Len(out'[f]) = 1 /\ out'[f][1] = w
        /\ \A r \in Procs \ {f} : out'[r] = out[r]
    BY <1>1, WrittenFlight
  <1>3. /\ f \in Procs /\ Clients \subseteq Procs /\ Followers \subseteq Procs
        /\ Oldest # NoName
    BY <1>1 DEF Servers, Procs, NoName
  <1>4. /\ pname'[f] = Oldest /\ \A p \in Procs \ {f} : pname'[p] = pname[p]
    BY <1>1, <1>3
  <1>5. \A x : IsFollower(x) => IsFollower(x)'
    BY <1>1, <1>3, <1>4 DEF IsFollower
  <1>6. \A c \in Clients : pname'[c] = pname[c] /\ (Connected(c)' <=> Connected(c))
    BY <1>1, <1>3, <1>4 DEF Connected
  <1>7. ASSUME NEW z, Registers(z) PROVE Registers(z)'
    BY <1>1, <1>5, <1>6, <1>7 DEF Registers
  <1>8. Registers(w)'
    <2>1. IsFollower(w.msg.name)'
      BY <1>1, <1>3, <1>4 DEF IsFollower
    <2>2. QED BY <1>1, <2>1 DEF Registers, IsFoerReg
  <1>9. \A z \in InFlight(queue', out') : Registers(z)'
    BY <1>2, <1>7, <1>8 DEF RegisterInv
  <1>10. \A x \in DOMAIN queue' : x >= 0
    BY <1>1 DEF Writes, RegisterInv
  <1>11. \A r \in Procs \ {Master} : \A i \in 1..Len(out'[r]) : out'[r][i].to # DnsNode
    <2>1. w.to # DnsNode
      BY <1>1 DEF MasterNode, DnsNode
    <2>2. \A i \in 1..Len(out'[f]) : out'[f][i] = w
      BY <1>2
    <2>3. QED BY <1>2, <2>1, <2>2 DEF RegisterInv
  <1>12. IdleInv'
    <2>1. \A c \in Clients : out'[c] = out[c]
      BY <1>1, <1>2, <1>3
    <2>2. \A g \in Followers : pname'[g] = NoName => pname[g] = NoName /\ out'[g] = out[g]
      BY <1>2, <1>3, <1>4
    <2>3. QED BY <1>1, <2>1, <2>2 DEF RegisterInv, IdleInv
  <1>13. QED BY <1>9, <1>10, <1>11, <1>12 DEF RegisterInv

\* What other clients and followers registered is known by the same names.
LEMMA OthersRegister ==
    ASSUME SafeInv, RegisterInv, NEW c \in Clients,
           \A d \in Clients \ {c} : /\ cstate'[d] = cstate[d] /\ cmsg'[d] = cmsg[d]
                                    /\ pname'[d] = pname[d],
           \A f \in Followers : pname'[f] = pname[f],
           NEW w \in InFlight(queue, out),
           ~(cstate[c] = "registering" /\ Conversation(w.msg, pname[c]))
    PROVE  Registers(w)'
  <1>1. Registers(w)
    BY DEF RegisterInv
  <1>2. CASE w.msg.type # "REGISTER"
    BY <1>1, <1>2 DEF Registers
  <1>3. CASE w.msg.type = "REGISTER" /\ w.msg.server = NoName /\ IsFollower(w.msg.name)
    BY <1>1, <1>3 DEF Registers, IsFollower
  <1>4. CASE w.msg.type = "REGISTER"
             /\ \E d \in Clients : /\ cstate[d] = "registering"
                                   /\ Conversation(w.msg, pname[d])
                                   /\ w.msg.name = pname[d]
                                   /\ w.msg.server = cmsg[d].server
                                   /\ w.to \in {cmsg[d].server, MasterNode}
    <2>1. PICK d \in Clients : /\ cstate[d] = "registering"
                               /\ Conversation(w.msg, pname[d])
                               /\ w.msg.name = pname[d]
                               /\ w.msg.server = cmsg[d].server
                               /\ w.to \in {cmsg[d].server, MasterNode}
      BY <1>4
    <2>2. d # c
      BY <2>1
    <2>3. cstate'[d] = "registering" /\ cmsg'[d] = cmsg[d] /\ pname'[d] = pname[d]
      BY <2>1, <2>2
    <2>4. QED BY <1>4, <2>1, <2>3 DEF Registers, Connected
  <1>5. QED BY <1>2, <1>3, <1>4, Registrant

\* The registration of a client keeps RegisterInv: its name is new.
LEMMA AppliesRegisters ==
    ASSUME SafeInv, RegisterInv, NEW c \in Clients, NEW w, Applies(c, w)
    PROVE  RegisterInv'
  <1>1. /\ Writes(c, w) /\ c # Master
        /\ w.msg.type = "REGISTER" /\ w.msg.name = Oldest
        /\ w.msg.server = cmsg[c].server /\ w.to = cmsg[c].server
        /\ cstate[c] = "lookup" /\ cstate' = [cstate EXCEPT ![c] = "registering"]
        /\ pname' = [pname EXCEPT ![c] = Oldest]
        /\ \E m \in Msg : m.server = cmsg[c].server /\ cmsg' = [cmsg EXCEPT ![c] = m]
        /\ pname \in [Procs -> Int] /\ cstate \in [Clients -> CStates]
        /\ cmsg \in [Clients -> Msg]
    BY DEF Applies, SafeInv, TypeInv, TypeOK
  <1>2. /\ \A z : z \in InFlight(queue', out') <=> z \in InFlight(queue, out) \/ z = w
        /\ Len(out'[c]) = 1 /\ out'[c][1] = w
        /\ \A r \in Procs \ {c} : out'[r] = out[r]
    BY <1>1, WrittenFlight
  <1>3. /\ c \in Procs /\ c \notin Followers
        /\ Clients \subseteq Procs /\ Followers \subseteq Procs
    BY ServerAssumption DEF Servers, Procs
  <1>4. /\ pname'[c] = Oldest /\ \A p \in Procs \ {c} : pname'[p] = pname[p]
        /\ cstate'[c] = "registering" /\ cmsg'[c].server = cmsg[c].server
        /\ \A d \in Clients \ {c} : cstate'[d] = cstate[d] /\ cmsg'[d] = cmsg[d]
    BY <1>1, <1>3
  <1>5. ASSUME NEW z \in InFlight(queue, out) PROVE Registers(z)'
    <2>1. /\ \A d \in Clients \ {c} : /\ cstate'[d] = cstate[d] /\ cmsg'[d] = cmsg[d]
                                      /\ pname'[d] = pname[d]
          /\ \A f \in Followers : pname'[f] = pname[f]
          /\ ~(cstate[c] = "registering" /\ Conversation(z.msg, pname[c]))
      BY <1>1, <1>3, <1>4
    <2>2. QED BY <2>1, OthersRegister
  <1>6. w.to # DnsNode
    <2>1. IsServer(cmsg[c].server)
      BY <1>1 DEF SafeInv, ClientInv
    <2>2. QED BY <1>1, <2>1, ServerKey
  <1>7. Registers(w)'
    BY <1>1, <1>4 DEF Registers, Connected
  <1>8. \A z \in InFlight(queue', out') : Registers(z)'
    BY <1>2, <1>5, <1>7
  <1>9. \A x \in DOMAIN queue' : x >= 0
    BY <1>1 DEF Writes, RegisterInv
  <1>10. \A r \in Procs \ {Master} : \A i \in 1..Len(out'[r]) : out'[r][i].to # DnsNode
    <2>1. \A i \in 1..Len(out'[c]) : out'[c][i] = w
      BY <1>2
    <2>2. QED BY <1>2, <1>6, <2>1 DEF RegisterInv
  <1>11. IdleInv'
    <2>1. \A d \in Clients \ {c} : out'[d] = out[d]
      BY <1>2, <1>3
    <2>2. \A f \in Followers : pname'[f] = pname[f] /\ out'[f] = out[f]
      BY <1>2, <1>3, <1>4
    <2>3. QED BY <1>4, <2>1, <2>2 DEF RegisterInv, IdleInv
  <1>12. QED BY <1>8, <1>9, <1>10, <1>11 DEF RegisterInv

\* A call keeps RegisterInv.
LEMMA CallRegisters ==
    ASSUME SafeInv, RegisterInv, NEW c \in Clients, NEW w, CallsWith(c, w)
    PROVE  RegisterInv'
  <1>1. /\ Writes(c, w) /\ c # Master /\ w.msg.type \in Calls /\ w.to # DnsNode
        /\ cstate[c] = "idle" /\ cstate' = [cstate EXCEPT ![c] = "waiting"]
        /\ \E m \in Msg : m.server = cmsg[c].server /\ cmsg' = [cmsg EXCEPT ![c] = m]
        /\ UNCHANGED pname /\ cstate \in [Clients -> CStates]
        /\ cmsg \in [Clients -> Msg]
    BY DEF CallsWith, SafeInv, TypeInv, TypeOK
  <1>2. /\ \A z : z \in InFlight(queue', out') <=> z \in InFlight(queue, out) \/ z = w
        /\ Len(out'[c]) = 1 /\ out'[c][1] = w
        /\ \A r \in Procs \ {c} : out'[r] = out[r]
    BY <1>1, WrittenFlight
  <1>3. /\ c \in Procs /\ c \notin Followers
        /\ Clients \subseteq Procs /\ Followers \subseteq Procs
    BY ServerAssumption DEF Servers, Procs
  <1>4. /\ cstate'[c] = "waiting"
        /\ \A d \in Clients \ {c} : cstate'[d] = cstate[d] /\ cmsg'[d] = cmsg[d]
    BY <1>1
  <1>5. ASSUME NEW z \in InFlight(queue, out) PROVE Registers(z)'
    <2>1. /\ \A d \in Clients \ {c} : /\ cstate'[d] = cstate[d] /\ cmsg'[d] = cmsg[d]
                                      /\ pname'[d] = pname[d]
          /\ \A f \in Followers : pname'[f] = pname[f]
          /\ ~(cstate[c] = "registering" /\ Conversation(z.msg, pname[c]))
      BY <1>1, <1>4
    <2>2. QED BY <2>1, OthersRegister
  <1>6. Registers(w)'
    BY <1>1 DEF Registers, Calls
  <1>7. \A z \in InFlight(queue', out') : Registers(z)'
    BY <1>2, <1>5, <1>6
  <1>8. \A x \in DOMAIN queue' : x >= 0
    BY <1>1 DEF Writes, RegisterInv
  <1>9. \A r \in Procs \ {Master} : \A i \in 1..Len(out'[r]) : out'[r][i].to # DnsNode
    <2>1. \A i \in 1..Len(out'[c]) : out'[c][i] = w
      BY <1>2
    <2>2. QED BY <1>1, <1>2, <2>1 DEF RegisterInv
  <1>10. IdleInv'
    <2>1. \A d \in Clients \ {c} : out'[d] = out[d]
      BY <1>2, <1>3
    <2>2. \A f \in Followers : out'[f] = out[f]
      BY <1>2, <1>3
    <2>3. QED BY <1>1, <1>4, <2>1, <2>2 DEF RegisterInv, IdleInv
  <1>11. QED BY <1>7, <1>8, <1>9, <1>10 DEF RegisterInv

\* What a client reads is no longer in flight, so it keeps RegisterInv.
LEMMA TakesRegisters ==
    ASSUME SafeInv, RegisterInv, NEW c, Takes(c)
    PROVE  RegisterInv'
  <1>1. /\ c \in Clients /\ UNCHANGED <<out, pname>>
        /\ InFlight(queue', out') \subseteq InFlight(queue, out)
        /\ DOMAIN queue' \subseteq DOMAIN queue
        /\ \A d \in Clients \ {c} : cstate'[d] = cstate[d] /\ cmsg'[d] = cmsg[d]
        /\ out[c] = <<>> /\ cstate'[c] \in {"idle", "closed"}
        /\ cstate[c] = "registering" => Quiet(queue', out', pname[c])
    BY DEF Takes
  <1>2. ASSUME NEW z \in InFlight(queue', out') PROVE Registers(z)'
    <2>1. /\ \A d \in Clients \ {c} : /\ cstate'[d] = cstate[d] /\ cmsg'[d] = cmsg[d]
                                      /\ pname'[d] = pname[d]
          /\ \A f \in Followers : pname'[f] = pname[f]
          /\ z \in InFlight(queue, out)
          /\ ~(cstate[c] = "registering" /\ Conversation(z.msg, pname[c]))
      BY <1>1 DEF Quiet
    <2>2. QED BY <1>1, <2>1, OthersRegister
  <1>3. IdleInv'
    BY <1>1 DEF RegisterInv, IdleInv
  <1>4. QED BY <1>1, <1>2, <1>3 DEF RegisterInv

\* The drawing of a server keeps RegisterInv.
LEMMA LookupRegisters ==
    ASSUME SafeInv, RegisterInv, NEW c \in Clients, LookupServer(c)
    PROVE  RegisterInv'
  <1>1. /\ cstate[c] = "start" /\ UNCHANGED <<queue, out, pname>>
        /\ cstate' = [cstate EXCEPT ![c] = "lookup"]
        /\ cmsg' = [cmsg EXCEPT ![c].server = Head(serverNames)]
        /\ cstate \in [Clients -> CStates] /\ cmsg \in [Clients -> Msg]
    BY DEF LookupServer, SafeInv, TypeInv, TypeOK
  <1>2. /\ cstate'[c] = "lookup"
        /\ \A d \in Clients \ {c} : cstate'[d] = cstate[d] /\ cmsg'[d] = cmsg[d]
    BY <1>1
  <1>3. ASSUME NEW z \in InFlight(queue, out) PROVE Registers(z)'
    <2>1. /\ \A d \in Clients \ {c} : /\ cstate'[d] = cstate[d] /\ cmsg'[d] = cmsg[d]
                                      /\ pname'[d] = pname[d]
          /\ \A f \in Followers : pname'[f] = pname[f]
          /\ ~(cstate[c] = "registering" /\ Conversation(z.msg, pname[c]))
      BY <1>1, <1>2
    <2>2. QED BY <2>1, OthersRegister
  <1>4. IdleInv'
    BY <1>1, <1>2 DEF RegisterInv, IdleInv
  <1>5. QED BY <1>1, <1>3, <1>4 DEF RegisterInv

\* All the steps there are.
LEMMA Steps ==
    ASSUME SafeInv, RegisterInv, Next
    PROVE  \/ \E s \in Servers : QuietStep(s) \/ PassesOn(s)
           \/ \E m \in Msg : \E v \in Seq(Write) : Acknowledges(m, v) \/ Enrols(m, v)
           \/ \E f \in Followers : \E w \in Write : Introduces(f, w)
           \/ \E p \in Procs : MqWrite(p) /\ UNCHANGED <<cstate, cmsg, held>>
           \/ \E c \in Clients : \E w \in Write : Applies(c, w) \/ CallsWith(c, w)
           \/ \E c \in Clients : Takes(c)
           \/ \E c \in Clients : LookupServer(c)
  <1>1. CASE ServerStep
    <2>1. Servers \subseteq Procs
      BY DEF Procs
    <2>2. QED BY <1>1, <2>1, ServerSteps, RegisterClientStep, RegisterFoerStep, FollowerStarts
  <1>2. ASSUME NEW c \in Clients, ClientStep(c)
        PROVE  \/ \E w \in Write : Applies(c, w) \/ CallsWith(c, w)
               \/ Takes(c) \/ LookupServer(c)
    BY <1>2, ClientApplies, ClientTakes, ClientCalls, ClientCloses
       DEF ClientStep, ClientConnect
  <1>3. ASSUME NEW c \in Clients, ClientWrite(c)
        PROVE  c \in Procs /\ MqWrite(c) /\ UNCHANGED <<cstate, cmsg, held>>
    BY <1>3 DEF ClientWrite, Procs
  <1>4. QED BY <1>1, <1>2, <1>3 DEF Next

\* The handlers' registrations.
LEMMA HandlersRegister ==
    ASSUME SafeInv, RegisterInv, NEW s \in Servers
    PROVE  /\ QuietStep(s) \/ PassesOn(s) => RegisterInv'
           /\ \A m \in Msg : \A v \in Seq(Write) :
                 Acknowledges(m, v) \/ Enrols(m, v) => RegisterInv'
  <1>1. CASE QuietStep(s)
    <2>1. PICK m \in Msg : \E v \in Seq(Write) :
             /\ Handles(s, m, v)
             /\ \A i \in 1..Len(v) :
                   /\ v[i].msg.type # "REGISTER"
                   /\ v[i].to # DnsNode
                   /\ v[i].to = MasterNode => v[i].msg.type \in Calls
      BY <1>1 DEF QuietStep
    <2>2. PICK v \in Seq(Write) :
             /\ Handles(s, m, v)
             /\ \A i \in 1..Len(v) :
                   /\ v[i].msg.type # "REGISTER"
                   /\ v[i].to # DnsNode
                   /\ v[i].to = MasterNode => v[i].msg.type \in Calls
      BY <2>1
    <2>3. \A i \in 1..Len(v) : Registers(v[i]) /\ v[i].to # DnsNode
      BY <2>2 DEF Registers
    <2>4. QED BY <2>2, <2>3, HandledRegisters
  <1>2. CASE PassesOn(s)
    <2>1. PICK m \in Msg : \E v \in Seq(Write) :
             /\ Handles(s, m, v) /\ m.type = "REGISTER"
             /\ Len(v) = 1 /\ v[1] = Send(MasterNode, m)
      BY <1>2 DEF PassesOn
    <2>2. PICK v \in Seq(Write) :
             /\ Handles(s, m, v) /\ m.type = "REGISTER"
             /\ Len(v) = 1 /\ v[1] = Send(MasterNode, m)
      BY <2>1
    <2>3. PICK w : w = Send(pname[s], m)
      OBVIOUS
    <2>4. w \in InFlight(queue, out) /\ w.msg = m
      BY <2>2, <2>3, HandledFlight DEF Send
    <2>5. Registers(w)
      BY <2>4 DEF RegisterInv
    <2>6. v[1].msg = m /\ v[1].to = MasterNode
      BY <2>2 DEF Send
    <2>7. Registers(v[1])
      BY <2>2, <2>4, <2>5, <2>6 DEF Registers
    <2>8. \A i \in 1..Len(v) : Registers(v[i]) /\ v[i].to # DnsNode
      BY <2>2, <2>6, <2>7 DEF MasterNode, DnsNode
    <2>9. QED BY <2>2, <2>8, HandledRegisters
  <1>3. ASSUME NEW m \in Msg, NEW v \in Seq(Write), Acknowledges(m, v)
        PROVE  RegisterInv'
    <2>1. Handles(Master, m, v)
      BY <1>3 DEF Acknowledges
    <2>2. \A i \in 1..Len(v) : i = 1 \/ i = 2
      BY <1>3 DEF Acknowledges
    <2>3. \A i \in 1..Len(v) : Registers(v[i])
      BY <1>3, <2>2 DEF Acknowledges, Registers, MasterNode, DnsNode
    <2>4. QED BY <2>1, <2>3, HandledRegisters
  <1>4. ASSUME NEW m \in Msg, NEW v \in Seq(Write), Enrols(m, v)
        PROVE  RegisterInv'
    <2>1. Handles(Master, m, v)
      BY <1>4 DEF Enrols
    <2>2. \A i \in 1..Len(v) : Registers(v[i])
      BY <1>4 DEF Enrols, Registers
    <2>3. QED BY <2>1, <2>2, HandledRegisters
  <1>5. QED BY <1>1, <1>2, <1>3, <1>4

\* Every step keeps RegisterInv.
LEMMA RegisterNext ==
    ASSUME SafeInv, RegisterInv, [Next]_vars
    PROVE  RegisterInv'
  <1>1. CASE Next
    <2>1. Master \in Servers
      BY DEF Servers
    <2>2. QED BY <1>1, <2>1, Steps, HandlersRegister, IntroducesRegisters,
             WriteRegisters, AppliesRegisters, CallRegisters, TakesRegisters, LookupRegisters
  <1>2. CASE UNCHANGED vars
    BY <1>2 DEF vars, serverVars, RegisterInv, IdleInv, Registers, IsFollower, Connected
  <1>3. QED BY <1>1, <1>2

-----------------------------------------------------------------------------
(* A follower registers once.                                              *)

\* Nothing about the registrations of followers changes but that some leave:
\* what is left is where it was, or one place further on in its queue.
LEMMA FoerFrame ==
    ASSUME NEW q, NEW q1, NEW o, NEW o1, NEW nm, NEW nm1, FoerOnce(q, o, nm),
           \A x \in DOMAIN q1 : \E d \in {0, 1} : \A j \in 1..Len(q1[x]) :
              IsFoerReg(q1[x][j]) =>
                 x \in DOMAIN q /\ j + d \in 1..Len(q[x]) /\ q[x][j + d] = q1[x][j],
           \A p \in Procs : \A i \in 1..Len(o1[p]) :
              IsFoerReg(o1[p][i].msg) => o1[p] = o[p] /\ nm1[p] = nm[p]
    PROVE  FoerOnce(q1, o1, nm1)
  <1>1. ASSUME NEW x \in DOMAIN q1, NEW j \in 1..Len(q1[x]), IsFoerReg(q1[x][j])
        PROVE  x \in DOMAIN q /\ \E k \in 1..Len(q[x]) : q[x][k] = q1[x][j]
    BY <1>1
  <1>2. ASSUME NEW p \in Procs, NEW i \in 1..Len(o1[p]), IsFoerReg(o1[p][i].msg)
        PROVE  /\ p \in Followers /\ Len(o1[p]) = 1
               /\ o1[p][i].to = MasterNode /\ o1[p][i].msg.name = nm1[p]
               /\ \A x \in DOMAIN q1 : \A j \in 1..Len(q1[x]) :
                     IsFoerReg(q1[x][j]) => q1[x][j].name # nm1[p]
    <2>1. o1[p] = o[p] /\ nm1[p] = nm[p]
      BY <1>2
    <2>2. /\ p \in Followers /\ Len(o[p]) = 1
          /\ o[p][i].to = MasterNode /\ o[p][i].msg.name = nm[p]
          /\ \A x \in DOMAIN q : \A j \in 1..Len(q[x]) :
                IsFoerReg(q[x][j]) => q[x][j].name # nm[p]
      BY <1>2, <2>1 DEF FoerOnce
    <2>3. ASSUME NEW x \in DOMAIN q1, NEW j \in 1..Len(q1[x]), IsFoerReg(q1[x][j])
          PROVE  q1[x][j].name # nm1[p]
      <3>1. PICK k \in 1..Len(q[x]) : q[x][k] = q1[x][j]
        BY <1>1, <2>3
      <3>2. x \in DOMAIN q
        BY <1>1, <2>3
      <3>3. QED BY <2>1, <2>2, <2>3, <3>1, <3>2
    <2>4. QED BY <2>1, <2>2, <2>3
  <1>3. ASSUME NEW x \in DOMAIN q1, NEW i \in 1..Len(q1[x]), IsFoerReg(q1[x][i])
        PROVE  /\ x = MasterNode
               /\ \A j \in 1..Len(q1[x]) :
                     IsFoerReg(q1[x][j]) /\ q1[x][j].name = q1[x][i].name => j = i
    <2>1. PICK d \in {0, 1} : \A j \in 1..Len(q1[x]) :
              IsFoerReg(q1[x][j]) =>
                 x \in DOMAIN q /\ j + d \in 1..Len(q[x]) /\ q[x][j + d] = q1[x][j]
      OBVIOUS
    <2>2. x \in DOMAIN q /\ i + d \in 1..Len(q[x]) /\ q[x][i + d] = q1[x][i]
      BY <1>3, <2>1
    <2>3. /\ x = MasterNode
          /\ \A j \in 1..Len(q[x]) :
                IsFoerReg(q[x][j]) /\ q[x][j].name = q[x][i + d].name => j = i + d
      BY <1>3, <2>2 DEF FoerOnce
    <2>4. ASSUME NEW j \in 1..Len(q1[x]),
                 IsFoerReg(q1[x][j]), q1[x][j].name = q1[x][i].name
          PROVE  j = i
      <3>1. j + d \in 1..Len(q[x]) /\ q[x][j + d] = q1[x][j]
        BY <2>1, <2>4
      <3>2. j + d = i + d
        BY <2>2, <2>3, <2>4, <3>1
      <3>3. QED BY <3>2
    <2>5. QED BY <2>3, <2>4
  <1>4. QED BY <1>2, <1>3 DEF FoerOnce

\* The registration of a follower is for the master.
LEMMA FoerToMaster ==
    ASSUME FoerInv, NEW w \in InFlight(queue, out), IsFoerReg(w.msg)
    PROVE  w.to = MasterNode
  <1>1. CASE \E x \in DOMAIN queue : \E i \in 1..Len(queue[x]) : w = Send(x, queue[x][i])
    <2>1. PICK x \in DOMAIN queue : \E i \in 1..Len(queue[x]) : w = Send(x, queue[x][i])
      BY <1>1
    <2>2. PICK i \in 1..Len(queue[x]) : w = Send(x, queue[x][i])
      BY <2>1
    <2>3. w.msg = queue[x][i] /\ w.to = x
      BY <2>2 DEF Send
    <2>4. QED BY <2>3 DEF FoerInv, FoerOnce
  <1>2. CASE \E p \in Procs : \E i \in 1..Len(out[p]) : w = out[p][i]
    BY <1>2 DEF FoerInv, FoerOnce
  <1>3. QED BY <1>1, <1>2, FlightCases

\* A handler that writes no registration of a follower.
LEMMA HandledFoers ==
    ASSUME SafeInv, FoerInv, NEW s, NEW m, NEW v, Handles(s, m, v),
           \A i \in 1..Len(v) : ~IsFoerReg(v[i].msg)
    PROVE  /\ FoerOnce(queue', out', pname')
           /\ \A w \in InFlight(queue', out') : IsFoerReg(w.msg) => w \in InFlight(queue, out)
           /\ UNCHANGED mqFoers => FoerInv'
  <1>1. /\ \A w \in InFlight(queue', out') :
              w \in InFlight(queue, out) \/ \E i \in 1..Len(v) : w = v[i]
        /\ out'[s] = v /\ \A p \in Procs \ {s} : out'[p] = out[p]
    BY HandledFlight
  <1>2. /\ queue[pname[s]] \in Seq(Msg) /\ queue[pname[s]] # <<>>
        /\ pname[s] \in DOMAIN queue
        /\ \A x \in DOMAIN queue' :
              \/ x \in DOMAIN queue /\ x # pname[s] /\ queue'[x] = queue[x]
              \/ x = pname[s] /\ queue'[x] = Tail(queue[x])
              \/ x >= 0 /\ queue'[x] = <<>>
    BY HandledQueues
  <1>3. pname' = pname
    BY DEF Handles
  <1>4. \A w \in InFlight(queue', out') : IsFoerReg(w.msg) => w \in InFlight(queue, out)
    BY <1>1
  <1> DEFINE q1 == queue'
             o1 == out'
             nm1 == pname'
  <1>5. FoerOnce(q1, o1, nm1)
    <2>1. FoerOnce(queue, out, pname)
      BY DEF FoerInv
    <2>2. ASSUME NEW x \in DOMAIN q1
          PROVE  \E d \in {0, 1} : \A j \in 1..Len(q1[x]) :
              IsFoerReg(q1[x][j]) =>
                 x \in DOMAIN queue /\ j + d \in 1..Len(queue[x]) /\ queue[x][j + d] = q1[x][j]
      <3>1. CASE x \in DOMAIN queue /\ q1[x] = queue[x]
        <4>1. \A j \in 1..Len(q1[x]) : j + 0 \in 1..Len(queue[x]) /\ queue[x][j + 0] = q1[x][j]
          BY <3>1
        <4>2. QED BY <3>1, <4>1
      <3>2. CASE x = pname[s] /\ q1[x] = Tail(queue[x])
        <4>1. queue[x] \in Seq(Msg) /\ queue[x] # <<>>
          BY <1>2, <3>2
        <4>2. \A j \in 1..Len(Tail(queue[x])) :
                 j + 1 \in 1..Len(queue[x]) /\ queue[x][j + 1] = Tail(queue[x])[j]
          BY <4>1
        <4>3. QED BY <1>2, <3>2, <4>2
      <3>3. CASE q1[x] = <<>>
        <4>1. 1..Len(q1[x]) = {}
          BY <3>3
        <4>2. QED BY <4>1
      <3>4. QED BY <1>2, <3>1, <3>2, <3>3
    <2>3. ASSUME NEW p \in Procs, NEW i \in 1..Len(o1[p]), IsFoerReg(o1[p][i].msg)
          PROVE  o1[p] = out[p] /\ nm1[p] = pname[p]
      BY <1>1, <1>3, <2>3
    <2> HIDE DEF q1, o1, nm1
    <2>4. QED BY <2>1, <2>2, <2>3, FoerFrame
  <1>6. UNCHANGED mqFoers => FoerInv'
    BY <1>4, <1>5 DEF FoerInv
  <1>7. QED BY <1>4, <1>5, <1>6

\* Handlers keep FoerInv: calls and registrations of clients leave the
\* registrations of followers as they are, and a follower passes on no other's.
LEMMA HandlersFoers ==
    ASSUME SafeInv, RegisterInv, FoerInv, NEW s \in Servers
    PROVE  /\ QuietStep(s) \/ PassesOn(s) => FoerInv'
           /\ \A m \in Msg : \A v \in Seq(Write) : Acknowledges(m, v) => FoerInv'
  <1>1. CASE QuietStep(s)
    <2>1. PICK m \in Msg : \E v \in Seq(Write) :
             Handles(s, m, v) /\ \A i \in 1..Len(v) : v[i].msg.type # "REGISTER"
      BY <1>1 DEF QuietStep
    <2>2. PICK v \in Seq(Write) :
             Handles(s, m, v) /\ \A i \in 1..Len(v) : v[i].msg.type # "REGISTER"
      BY <2>1
    <2>3. \A i \in 1..Len(v) : ~IsFoerReg(v[i].msg)
      BY <2>2 DEF IsFoerReg
    <2>4. UNCHANGED mqFoers
      BY <1>1 DEF QuietStep
    <2>5. QED BY <2>2, <2>3, <2>4, HandledFoers
  <1>2. CASE PassesOn(s)
    <2>1. PICK m \in Msg : \E v \in Seq(Write) :
             /\ Handles(s, m, v) /\ m.type = "REGISTER"
             /\ Len(v) = 1 /\ v[1] = Send(MasterNode, m)
      BY <1>2 DEF PassesOn
    <2>2. PICK v \in Seq(Write) :
             /\ Handles(s, m, v) /\ m.type = "REGISTER"
             /\ Len(v) = 1 /\ v[1] = Send(MasterNode, m)
      BY <2>1
    <2>3. PICK w : w = Send(pname[s], m)
      OBVIOUS
    <2>4. w \in InFlight(queue, out) /\ w.msg = m /\ w.to = pname[s]
      BY <2>2, <2>3, HandledFlight DEF Send
    <2>5. pname[s] # MasterNode
      <3>1. pname[s] \in DOMAIN queue /\ pname[s] >= 0
        BY <2>2, HandledQueues DEF RegisterInv
      <3>2. s \in Procs \ {Master} /\ NameInv
        BY <1>2 DEF PassesOn, Procs, SafeInv, TypeInv
      <3>3. QED BY <3>1, <3>2 DEF NameInv, MasterNode, NoName
    <2>6. ~IsFoerReg(m)
      BY <2>4, <2>5, FoerToMaster
    <2>7. \A i \in 1..Len(v) : ~IsFoerReg(v[i].msg)
      BY <2>2, <2>6 DEF Send
    <2>8. UNCHANGED mqFoers
      BY <1>2 DEF PassesOn
    <2>9. QED BY <2>2, <2>7, <2>8, HandledFoers
  <1>3. ASSUME NEW m \in Msg, NEW v \in Seq(Write), Acknowledges(m, v)
        PROVE  FoerInv'
    <2>1. Handles(Master, m, v) /\ UNCHANGED mqFoers
      BY <1>3 DEF Acknowledges
    <2>2. \A i \in 1..Len(v) : i = 1 \/ i = 2
      BY <1>3 DEF Acknowledges
    <2>3. \A i \in 1..Len(v) : ~IsFoerReg(v[i].msg)
      BY <1>3, <2>2 DEF Acknowledges, IsFoerReg
    <2>4. QED BY <2>1, <2>3, HandledFoers
  <1>4. QED BY <1>1, <1>2, <1>3

\* The follower is new to the master, and no other registration of it is left.
LEMMA EnrolsFoers ==
    ASSUME SafeInv, FoerInv, NEW m, NEW v, Enrols(m, v)
    PROVE  FoerInv' /\ ~In(mqFoers, m.name)
  <1>1. /\ Handles(Master, m, v) /\ IsFoerReg(m)
        /\ \A i \in 1..Len(v) : ~IsFoerReg(v[i].msg)
        /\ mqFoers' = Append(mqFoers, m.name)
    BY DEF Enrols, IsFoerReg
  <1>2. /\ FoerOnce(queue', out', pname')
        /\ \A w \in InFlight(queue', out') : IsFoerReg(w.msg) => w \in InFlight(queue, out)
    BY <1>1, HandledFoers
  <1>3. /\ Send(pname[Master], m) \in InFlight(queue, out)
        /\ out'[Master] = v /\ \A p \in Procs \ {Master} : out'[p] = out[p]
    BY <1>1, HandledFlight
  <1>4. ~In(mqFoers, m.name)
    <2>1. Send(pname[Master], m).msg = m
      BY DEF Send
    <2>2. QED BY <1>1, <1>3, <2>1 DEF FoerInv
  <1>5. /\ queue[pname[Master]] \in Seq(Msg) /\ queue[pname[Master]] # <<>>
        /\ m = Head(queue[pname[Master]]) /\ pname[Master] \in DOMAIN queue
        /\ \A x \in DOMAIN queue' :
              \/ x \in DOMAIN queue /\ x # pname[Master] /\ queue'[x] = queue[x]
              \/ x = pname[Master] /\ queue'[x] = Tail(queue[x])
              \/ x >= 0 /\ queue'[x] = <<>>
    BY <1>1, HandledQueues
  <1>6. 1 \in 1..Len(queue[pname[Master]]) /\ m = queue[pname[Master]][1]
        /\ \A j \in 1..Len(Tail(queue[pname[Master]])) :
              /\ j + 1 \in 1..Len(queue[pname[Master]]) /\ j + 1 # 1
              /\ Tail(queue[pname[Master]])[j] = queue[pname[Master]][j + 1]
    BY <1>5
  <1>7. ASSUME NEW w \in InFlight(queue', out'), IsFoerReg(w.msg)
        PROVE  w.msg.name # m.name
    <2>1. CASE \E x \in DOMAIN queue' : \E i \in 1..Len(queue'[x]) : w = Send(x, queue'[x][i])
      <3>1. PICK x \in DOMAIN queue' : \E i \in 1..Len(queue'[x]) : w = Send(x, queue'[x][i])
        BY <2>1
      <3>2. PICK i \in 1..Len(queue'[x]) : w = Send(x, queue'[x][i])
        BY <3>1
      <3>3. w.msg = queue'[x][i]
        BY <3>2 DEF Send
      <3>4. CASE x \in DOMAIN queue /\ x # pname[Master] /\ queue'[x] = queue[x]
        <4>1. x = MasterNode
          BY <1>7, <3>3, <3>4 DEF FoerInv, FoerOnce
        <4>2. QED BY <3>4, <4>1 DEF SafeInv, TypeInv, NameInv
      <3>5. CASE x = pname[Master] /\ queue'[x] = Tail(queue[x])
        <4>1. /\ i + 1 \in 1..Len(queue[x]) /\ i + 1 # 1
              /\ w.msg = queue[x][i + 1] /\ m = queue[x][1] /\ 1 \in 1..Len(queue[x])
          BY <1>6, <3>3, <3>5
        <4>2. w.msg.name = m.name => i + 1 = 1
          BY <1>1, <1>5, <1>7, <3>5, <4>1 DEF FoerInv, FoerOnce
        <4>3. QED BY <4>1, <4>2
      <3>6. CASE queue'[x] = <<>>
        BY <3>6
      <3>7. QED BY <1>5, <3>4, <3>5, <3>6
    <2>2. CASE \E p \in Procs : \E i \in 1..Len(out'[p]) : w = out'[p][i]
      <3>1. PICK p \in Procs : \E i \in 1..Len(out'[p]) : w = out'[p][i]
        BY <2>2
      <3>2. PICK i \in 1..Len(out'[p]) : w = out'[p][i]
        BY <3>1
      <3>3. p # Master
        BY <1>1, <1>3, <1>7, <3>2
      <3>4. i \in 1..Len(out[p]) /\ w = out[p][i]
        BY <1>3, <3>2, <3>3
      <3>5. w.msg.name = pname[p]
        BY <1>7, <3>4 DEF FoerInv, FoerOnce
      <3>6. m.name # pname[p]
        BY <1>1, <1>5, <1>6, <1>7, <3>4 DEF FoerInv, FoerOnce
      <3>7. QED BY <3>5, <3>6
    <2> DEFINE q1 == queue'
               o1 == out'
    <2>3. w \in InFlight(q1, o1)
      OBVIOUS
    <2>4. \/ \E x \in DOMAIN q1 : \E i \in 1..Len(q1[x]) : w = Send(x, q1[x][i])
          \/ \E p \in Procs : \E i \in 1..Len(o1[p]) : w = o1[p][i]
      <3> HIDE DEF q1, o1
      <3>1. QED BY <2>3, FlightCases
    <2>5. QED BY <2>1, <2>2, <2>4
  <1>8. \A n : In(mqFoers', n) => In(mqFoers, n) \/ n = m.name
    <2>1. mqFoers \in Seq(Int) /\ m.name \in Int
      <3>1. m \in Msg
        BY <1>1, HandledFlight
      <3>2. QED BY <3>1 DEF Msg, SafeInv, TypeInv, TypeOK
    <2>2. QED BY <1>1, <2>1 DEF In
  <1>9. ASSUME NEW w \in InFlight(queue', out'), IsFoerReg(w.msg)
        PROVE  ~In(mqFoers', w.msg.name)
    <2>1. w \in InFlight(queue, out) /\ w.msg.name # m.name
      BY <1>2, <1>7, <1>9
    <2>2. ~In(mqFoers, w.msg.name)
      BY <1>9, <2>1 DEF FoerInv
    <2>3. QED BY <1>8, <2>1, <2>2
  <1>10. QED BY <1>2, <1>4, <1>9 DEF FoerInv

\* A write: the registration of a follower moves to the master's queue.
LEMMA WriteFoers ==
    ASSUME SafeInv, RegisterInv, FoerInv, NEW p \in Procs, MqWrite(p),
           UNCHANGED <<cstate, cmsg, held>>
    PROVE  FoerInv'
  <1>1. PICK x : x = Head(out[p]).to
    OBVIOUS
  <1>2. PICK m : m = Head(out[p]).msg
    OBVIOUS
  <1>3. /\ out[p] \in Seq(Write) /\ out[p] # <<>> /\ Queues(queue)
        /\ out' = [out EXCEPT ![p] = Tail(out[p])]
        /\ out \in [Procs -> Seq(Write)] /\ UNCHANGED <<pname, mqFoers>>
        /\ TypeInv /\ NameInv
    BY DEF SafeInv, TypeInv, TypeOK, Queues, Write, MqWrite
  <1>4. out'[p] = Tail(out[p]) /\ \A r \in Procs \ {p} : out'[r] = out[r]
    BY <1>3
  <1>5. /\ \/ x \in {NoName, DnsNode} /\ queue' = queue
           \/ x \in DOMAIN queue /\ queue' = [queue EXCEPT ![x] = Append(@, m)]
        /\ x = MasterNode => x \in DOMAIN queue /\ queue' = [queue EXCEPT ![x] = Append(@, m)]
    <2>1. \/ x \in {NoName, DnsNode} /\ queue' = queue
          \/ x \in DOMAIN queue /\ queue' = [queue EXCEPT ![x] = Append(@, m)]
      BY <1>1, <1>2 DEF MqWrite
    <2>2. MasterNode # NoName /\ MasterNode # DnsNode
      BY DEF MasterNode, NoName, DnsNode
    <2>3. QED BY <2>1, <2>2
  <1>6. 1 \in 1..Len(out[p]) /\ out[p][1].to = x /\ out[p][1].msg = m
        /\ out[p][1] \in Write
    BY <1>1, <1>2, <1>3
  <1>7. InFlight(queue', out') \subseteq InFlight(queue, out)
    BY <1>3, WriteFlight
  <1>8. m \in Msg
    BY <1>6 DEF Write
  <1>9. ASSUME x \in DOMAIN queue, queue' = [queue EXCEPT ![x] = Append(@, m)]
        PROVE  /\ DOMAIN queue' = DOMAIN queue /\ Len(queue[x]) \in Nat
               /\ \A y \in DOMAIN queue \ {x} : queue'[y] = queue[y]
               /\ Len(queue'[x]) = Len(queue[x]) + 1
               /\ \A j \in 1..Len(queue'[x]) :
                    queue'[x][j] = IF j <= Len(queue[x]) THEN queue[x][j] ELSE m
    <2>1. queue[x] \in Seq(Msg)
      BY <1>3, <1>9 DEF Queues
    <2>2. queue'[x] = Append(queue[x], m)
      BY <1>9
    <2>3. QED BY <1>8, <1>9, <2>1, <2>2
  <1>10. \A i \in 1..Len(Tail(out[p])) : Len(out[p]) # 1
    BY <1>3
  <1> DEFINE q1 == queue'
             o1 == out'
             nm1 == pname'
  <1>11. ASSUME NEW r \in Procs, NEW i \in 1..Len(o1[r]), IsFoerReg(o1[r][i].msg)
         PROVE  /\ o1[r] = out[r] /\ nm1[r] = pname[r] /\ r # p
                /\ i \in 1..Len(out[r]) /\ IsFoerReg(out[r][i].msg)
    <2>1. CASE r = p
      <3>1. Len(out[p]) # 1
        BY <1>4, <1>10, <1>11, <2>1
      <3>2. i + 1 \in 1..Len(out[p]) /\ o1[r][i] = out[p][i + 1]
        BY <1>3, <1>4, <1>11, <2>1
      <3>3. QED BY <1>11, <3>1, <3>2, <2>1 DEF FoerInv, FoerOnce
    <2>2. CASE r # p
      BY <1>3, <1>4, <1>11, <2>2
    <2>3. QED BY <2>1, <2>2
  <1>12. FoerOnce(q1, o1, nm1)
    <2>1. CASE ~IsFoerReg(m)
      <3>1. FoerOnce(queue, out, pname)
        BY DEF FoerInv
      <3>2. ASSUME NEW y \in DOMAIN q1
            PROVE  \E d \in {0, 1} : \A j \in 1..Len(q1[y]) :
                IsFoerReg(q1[y][j]) =>
                   y \in DOMAIN queue /\ j + d \in 1..Len(queue[y]) /\ queue[y][j + d] = q1[y][j]
        <4>1. CASE y \in DOMAIN queue /\ q1[y] = queue[y]
          <5>1. \A j \in 1..Len(q1[y]) : j + 0 \in 1..Len(queue[y]) /\ queue[y][j + 0] = q1[y][j]
            BY <4>1
          <5>2. QED BY <4>1, <5>1
        <4>2. CASE y = x /\ x \in DOMAIN queue /\ queue' = [queue EXCEPT ![x] = Append(@, m)]
          <5>1. \A j \in 1..Len(q1[x]) : IsFoerReg(q1[x][j]) =>
                   j + 0 \in 1..Len(queue[x]) /\ queue[x][j + 0] = q1[x][j]
            BY <1>9, <2>1, <4>2
          <5>2. QED BY <4>2, <5>1
        <4>3. QED BY <1>5, <1>9, <4>1, <4>2
      <3>3. \A r \in Procs : \A i \in 1..Len(o1[r]) :
               IsFoerReg(o1[r][i].msg) => o1[r] = out[r] /\ nm1[r] = pname[r]
        BY <1>11
      <3> HIDE DEF q1, o1, nm1
      <3>4. QED BY <3>1, <3>2, <3>3, FoerFrame
    <2>2. CASE IsFoerReg(m)
      <3>1. /\ p \in Followers /\ x = MasterNode /\ m.name = pname[p]
            /\ \A y \in DOMAIN queue : \A j \in 1..Len(queue[y]) :
                  IsFoerReg(queue[y][j]) => queue[y][j].name # pname[p]
        BY <1>6, <2>2 DEF FoerInv, FoerOnce
      <3>2. /\ DOMAIN q1 = DOMAIN queue /\ Len(queue[x]) \in Nat
            /\ \A y \in DOMAIN queue \ {x} : q1[y] = queue[y]
            /\ Len(q1[x]) = Len(queue[x]) + 1
            /\ \A j \in 1..Len(q1[x]) :
                 q1[x][j] = IF j <= Len(queue[x]) THEN queue[x][j] ELSE m
        BY <1>5, <1>9, <3>1
      <3>3. pname[p] # NoName
        <4>1. out[p][1] \in InFlight(queue, out)
          BY <1>6, FlightCases
        <4>2. IsFollower(m.name)
          BY <1>6, <2>2, <4>1 DEF SafeInv, FlightInv, WellFormed, IsFoerReg
        <4>3. QED BY <3>1, <4>2 DEF IsFollower
      <3>4. \A r \in Procs \ {p} : pname[r] # pname[p]
        BY <1>3, <3>3 DEF NameInv
      <3>5. ASSUME NEW y \in DOMAIN q1, NEW j \in 1..Len(q1[y]), IsFoerReg(q1[y][j])
            PROVE  /\ y = MasterNode
                   /\ \/ j \in 1..Len(queue[y]) /\ q1[y][j] = queue[y][j]
                      \/ j = Len(queue[y]) + 1 /\ q1[y][j] = m
        <4>1. CASE y # x
          BY <3>1, <3>2, <3>5, <4>1 DEF FoerInv, FoerOnce
        <4>2. CASE y = x
          BY <3>1, <3>2, <3>5, <4>2
        <4>3. QED BY <4>1, <4>2
      <3>6. ASSUME NEW r \in Procs, NEW i \in 1..Len(o1[r]), IsFoerReg(o1[r][i].msg)
            PROVE  /\ r \in Followers /\ Len(o1[r]) = 1
                   /\ o1[r][i].to = MasterNode /\ o1[r][i].msg.name = nm1[r]
                   /\ \A y \in DOMAIN q1 : \A j \in 1..Len(q1[y]) :
                         IsFoerReg(q1[y][j]) => q1[y][j].name # nm1[r]
        <4>1. /\ o1[r] = out[r] /\ nm1[r] = pname[r] /\ r # p
              /\ i \in 1..Len(out[r]) /\ IsFoerReg(out[r][i].msg)
          BY <1>11, <3>6
        <4>2. /\ r \in Followers /\ Len(out[r]) = 1
              /\ out[r][i].to = MasterNode /\ out[r][i].msg.name = pname[r]
              /\ \A y \in DOMAIN queue : \A j \in 1..Len(queue[y]) :
                    IsFoerReg(queue[y][j]) => queue[y][j].name # pname[r]
          BY <4>1 DEF FoerInv, FoerOnce
        <4>3. m.name # pname[r]
          BY <3>1, <3>4, <4>1
        <4> HIDE DEF q1, o1, nm1
        <4>4. \A y \in DOMAIN q1 : \A j \in 1..Len(q1[y]) :
                 IsFoerReg(q1[y][j]) => q1[y][j].name # pname[r]
          BY <3>2, <3>5, <4>2, <4>3
        <4>5. QED BY <4>1, <4>2, <4>4
      <3>7. ASSUME NEW y \in DOMAIN q1, NEW i \in 1..Len(q1[y]), IsFoerReg(q1[y][i]),
                   NEW j \in 1..Len(q1[y]), IsFoerReg(q1[y][j]),
                   q1[y][j].name = q1[y][i].name
            PROVE  j = i
        <4> HIDE DEF q1
        <4>1. y \in DOMAIN queue
          BY <3>2
        <4>2. /\ \/ j \in 1..Len(queue[y]) /\ q1[y][j] = queue[y][j]
                 \/ j = Len(queue[y]) + 1 /\ q1[y][j] = m
              /\ \/ i \in 1..Len(queue[y]) /\ q1[y][i] = queue[y][i]
                 \/ i = Len(queue[y]) + 1 /\ q1[y][i] = m
          BY <3>5, <3>7
        <4>3. \A k \in 1..Len(queue[y]) : IsFoerReg(queue[y][k]) => queue[y][k].name # m.name
          BY <3>1, <4>1
        <4>4. CASE i \in 1..Len(queue[y]) /\ j \in 1..Len(queue[y])
                   /\ q1[y][j] = queue[y][j] /\ q1[y][i] = queue[y][i]
          BY <3>7, <4>1, <4>4 DEF FoerInv, FoerOnce
        <4>5. QED BY <3>7, <4>2, <4>3, <4>4
      <3>8. \A y \in DOMAIN q1 : \A i \in 1..Len(q1[y]) : IsFoerReg(q1[y][i]) => y = MasterNode
        BY <3>5
      <3> HIDE DEF q1, o1, nm1
      <3>9. QED BY <3>6, <3>7, <3>8 DEF FoerOnce
    <2>3. QED BY <2>1, <2>2
  <1>13. QED BY <1>3, <1>7, <1>12 DEF FoerInv

\* A write that is given to a process and registers no follower.
LEMMA WrittenFoers ==
    ASSUME SafeInv, FoerInv, NEW p, NEW w, Writes(p, w), ~IsFoerReg(w.msg),
           \A r \in Procs \ {p} : pname'[r] = pname[r], UNCHANGED mqFoers
    PROVE  FoerInv'
  <1>1. /\ \A z : z \in InFlight(queue', out') <=> z \in InFlight(queue, out) \/ z = w
        /\ Len(out'[p]) = 1 /\ out'[p][1] = w
        /\ \A r \in Procs \ {p} : out'[r] = out[r]
    BY WrittenFlight
  <1>2. /\ \A x \in DOMAIN queue : queue'[x] = queue[x]
        /\ \A x \in DOMAIN queue' \ DOMAIN queue : queue'[x] = <<>>
    BY DEF Writes
  <1> DEFINE q1 == queue'
             o1 == out'
             nm1 == pname'
  <1>3. FoerOnce(q1, o1, nm1)
    <2>1. FoerOnce(queue, out, pname)
      BY DEF FoerInv
    <2>2. ASSUME NEW x \in DOMAIN q1
          PROVE  \E d \in {0, 1} : \A j \in 1..Len(q1[x]) :
              IsFoerReg(q1[x][j]) =>
                 x \in DOMAIN queue /\ j + d \in 1..Len(queue[x]) /\ queue[x][j + d] = q1[x][j]
      <3>1. CASE x \in DOMAIN queue
        <4>1. \A j \in 1..Len(q1[x]) : j + 0 \in 1..Len(queue[x]) /\ queue[x][j + 0] = q1[x][j]
          BY <1>2, <3>1
        <4>2. QED BY <3>1, <4>1
      <3>2. CASE x \notin DOMAIN queue
        <4>1. 1..Len(q1[x]) = {}
          BY <1>2, <3>2
        <4>2. QED BY <4>1
      <3>3. QED BY <3>1, <3>2
    <2>3. ASSUME NEW r \in Procs, NEW i \in 1..Len(o1[r]), IsFoerReg(o1[r][i].msg)
          PROVE  o1[r] = out[r] /\ nm1[r] = pname[r]
      <3>1. r # p
        <4>1. \A k \in 1..Len(o1[p]) : o1[p][k] = w
          BY <1>1
        <4>2. QED BY <2>3, <4>1
      <3>2. QED BY <1>1, <3>1
    <2> HIDE DEF q1, o1, nm1
    <2>4. QED BY <2>1, <2>2, <2>3, FoerFrame
  <1>4. QED BY <1>1, <1>3 DEF FoerInv

\* A follower introduces itself, under a name nobody has had.
LEMMA IntroducesFoers ==
    ASSUME SafeInv, RegisterInv, FoerInv, NEW f \in Followers, NEW w, Introduces(f, w)
    PROVE  FoerInv' /\ ~In(mqFoers, Oldest)
  <1>1. /\ Writes(f, w)
        /\ IsFoerReg(w.msg) /\ w.msg.name = Oldest /\ w.to = MasterNode
        /\ pname[f] = NoName /\ pname' = [pname EXCEPT ![f] = Oldest]
        /\ UNCHANGED mqFoers /\ pname \in [Procs -> Int] /\ f \in Procs /\ TypeInv
    BY DEF Introduces, SafeInv, TypeInv, TypeOK, Procs, Servers
  <1>2. /\ \A z : z \in InFlight(queue', out') <=> z \in InFlight(queue, out) \/ z = w
        /\ Len(out'[f]) = 1 /\ out'[f][1] = w
        /\ \A r \in Procs \ {f} : out'[r] = out[r]
    BY <1>1, WrittenFlight
  <1>3. /\ \A x \in DOMAIN queue : queue'[x] = queue[x]
        /\ \A x \in DOMAIN queue' \ DOMAIN queue : queue'[x] = <<>>
    BY <1>1 DEF Writes
  <1>4. pname'[f] = Oldest /\ \A r \in Procs \ {f} : pname'[r] = pname[r]
    BY <1>1
  <1>5. ~In(mqFoers, Oldest)
    <2>1. \A i \in 1..Len(mqFoers) : mqFoers[i] # Oldest
      <3> SUFFICES ASSUME NEW i \in 1..Len(mqFoers) PROVE mqFoers[i] # Oldest
        OBVIOUS
      <3>1. IsFollower(mqFoers[i])
        BY DEF SafeInv, DictInv
      <3>2. QED BY <1>1, <3>1, ServerNames
    <2>2. QED BY <2>1 DEF In
  <1>6. ASSUME NEW x \in DOMAIN queue, NEW j \in 1..Len(queue[x]), IsFoerReg(queue[x][j])
        PROVE  queue[x][j].name # Oldest
    <2>1. PICK z : z = Send(x, queue[x][j])
      OBVIOUS
    <2>2. z \in InFlight(queue, out) /\ z.msg = queue[x][j]
      BY <2>1, FlightCases DEF Send
    <2>3. IsFollower(queue[x][j].name)
      BY <1>6, <2>2 DEF SafeInv, FlightInv, WellFormed, IsFoerReg
    <2>4. QED BY <1>1, <2>3, ServerNames
  <1> DEFINE q1 == queue'
             o1 == out'
             nm1 == pname'
  <1>7. ASSUME NEW x \in DOMAIN q1, NEW j \in 1..Len(q1[x])
        PROVE  x \in DOMAIN queue /\ q1[x] = queue[x]
    <2>1. CASE x \notin DOMAIN queue
      <3>1. 1..Len(q1[x]) = {}
        BY <1>3, <2>1
      <3>2. QED BY <3>1, <1>7
    <2>2. QED BY <1>3, <2>1
  <1>8. ASSUME NEW r \in Procs, NEW i \in 1..Len(o1[r]), IsFoerReg(o1[r][i].msg)
        PROVE  /\ r \in Followers /\ Len(o1[r]) = 1
               /\ o1[r][i].to = MasterNode /\ o1[r][i].msg.name = nm1[r]
               /\ \A x \in DOMAIN q1 : \A j \in 1..Len(q1[x]) :
                     IsFoerReg(q1[x][j]) => q1[x][j].name # nm1[r]
    <2>1. CASE r = f
      <3>1. i = 1 /\ o1[r][i] = w /\ Len(o1[r]) = 1 /\ nm1[r] = Oldest
        BY <1>2, <1>4, <1>8, <2>1
      <3> HIDE DEF q1, o1, nm1
      <3>2. \A x \in DOMAIN q1 : \A j \in 1..Len(q1[x]) :
               IsFoerReg(q1[x][j]) => q1[x][j].name # Oldest
        BY <1>6, <1>7
      <3>3. QED BY <1>1, <2>1, <3>1, <3>2
    <2>2. CASE r # f
      <3>1. o1[r] = out[r] /\ nm1[r] = pname[r]
        BY <1>2, <1>4, <2>2
      <3>2. /\ r \in Followers /\ Len(out[r]) = 1
            /\ out[r][i].to = MasterNode /\ out[r][i].msg.name = pname[r]
            /\ \A x \in DOMAIN queue : \A j \in 1..Len(queue[x]) :
                  IsFoerReg(queue[x][j]) => queue[x][j].name # pname[r]
        BY <1>8, <3>1 DEF FoerInv, FoerOnce
      <3> HIDE DEF q1, o1, nm1
      <3>3. \A x \in DOMAIN q1 : \A j \in 1..Len(q1[x]) :
               IsFoerReg(q1[x][j]) => q1[x][j].name # pname[r]
        BY <1>7, <3>2
      <3>4. QED BY <3>1, <3>2, <3>3
    <2>3. QED BY <2>1, <2>2
  <1>9. ASSUME NEW x \in DOMAIN q1, NEW i \in 1..Len(q1[x]), IsFoerReg(q1[x][i])
        PROVE  /\ x = MasterNode
               /\ \A j \in 1..Len(q1[x]) :
                     IsFoerReg(q1[x][j]) /\ q1[x][j].name = q1[x][i].name => j = i
    <2>1. x \in DOMAIN queue /\ q1[x] = queue[x]
      BY <1>7
    <2>2. QED BY <1>9, <2>1 DEF FoerInv, FoerOnce
  <1>10. FoerOnce(q1, o1, nm1)
    <2> HIDE DEF q1, o1, nm1
    <2>1. QED BY <1>8, <1>9 DEF FoerOnce
  <1>11. QED BY <1>1, <1>2, <1>5, <1>10 DEF FoerInv

\* A client's read takes no registration of a follower.
LEMMA TakesFoers ==
    ASSUME SafeInv, FoerInv, NEW c, Takes(c)
    PROVE  FoerInv'
  <1>1. /\ c \in Clients /\ UNCHANGED <<out, pname, mqFoers>>
        /\ InFlight(queue', out') \subseteq InFlight(queue, out)
        /\ DOMAIN queue' \subseteq DOMAIN queue
        /\ \A x \in DOMAIN queue' : queue'[x] = queue[x] \/ x = pname[c]
        /\ Connected(c)
    BY DEF Takes, Connected
  <1>2. pname[c] # MasterNode
    BY <1>1, ClientNames DEF SafeInv
  <1> DEFINE q1 == queue'
             o1 == out'
             nm1 == pname'
  <1>3. FoerOnce(q1, o1, nm1)
    <2>1. FoerOnce(queue, out, pname)
      BY DEF FoerInv
    <2>2. ASSUME NEW x \in DOMAIN q1
          PROVE  \E d \in {0, 1} : \A j \in 1..Len(q1[x]) :
              IsFoerReg(q1[x][j]) =>
                 x \in DOMAIN queue /\ j + d \in 1..Len(queue[x]) /\ queue[x][j + d] = q1[x][j]
      <3>1. CASE q1[x] = queue[x]
        <4>1. \A j \in 1..Len(q1[x]) : j + 0 \in 1..Len(queue[x]) /\ queue[x][j + 0] = q1[x][j]
          BY <3>1
        <4>2. QED BY <1>1, <4>1
      <3>2. CASE x = pname[c]
        <4>1. ASSUME NEW j \in 1..Len(q1[x]), IsFoerReg(q1[x][j]) PROVE FALSE
          <5>1. PICK z : z = Send(x, q1[x][j])
            OBVIOUS
          <5>2. z.msg = q1[x][j] /\ z.to = x
            BY <5>1 DEF Send
          <5>3. z \in InFlight(q1, out)
            <6> HIDE DEF q1
            <6>1. QED BY <5>1, FlightCases
          <5>4. z \in InFlight(queue, out)
            BY <1>1, <5>3
          <5>5. QED BY <1>2, <3>2, <4>1, <5>2, <5>4, FoerToMaster
        <4>2. QED BY <4>1
      <3>3. QED BY <1>1, <3>1, <3>2
    <2>3. \A r \in Procs : \A i \in 1..Len(o1[r]) :
             IsFoerReg(o1[r][i].msg) => o1[r] = out[r] /\ nm1[r] = pname[r]
      BY <1>1
    <2> HIDE DEF q1, o1, nm1
    <2>4. QED BY <2>1, <2>2, <2>3, FoerFrame
  <1>4. QED BY <1>1, <1>3 DEF FoerInv

\* Every step keeps FoerInv.
LEMMA FoerNext ==
    ASSUME SafeInv, RegisterInv, FoerInv, [Next]_vars
    PROVE  FoerInv'
  <1>1. ASSUME NEW c \in Clients, NEW w, Applies(c, w) \/ CallsWith(c, w)
        PROVE  FoerInv'
    <2>1. Writes(c, w) /\ ~IsFoerReg(w.msg) /\ UNCHANGED mqFoers
      BY <1>1 DEF Applies, CallsWith, IsFoerReg, Calls
    <2>2. \A r \in Procs \ {c} : pname'[r] = pname[r]
      BY <1>1 DEF Applies, CallsWith, SafeInv, TypeInv, TypeOK
    <2>3. QED BY <2>1, <2>2, WrittenFoers
  <1>2. ASSUME NEW c \in Clients, LookupServer(c) PROVE FoerInv'
    BY <1>2 DEF LookupServer, FoerInv
  <1>3. CASE Next
    <2>1. Master \in Servers
      BY DEF Servers
    <2>2. QED BY <1>1, <1>2, <1>3, <2>1, Steps, HandlersFoers, EnrolsFoers, WriteFoers,
             IntroducesFoers, TakesFoers
  <1>4. CASE UNCHANGED vars
    BY <1>4 DEF vars, serverVars, FoerInv
  <1>5. QED BY <1>3, <1>4

-----------------------------------------------------------------------------
(* Followers that registered before the clients started.                   *)

\* A client that has a name keeps it, and so does a follower; once started, a
\* client has started; the master forgets no follower.
LEMMA NamesStay ==
    ASSUME SafeInv, RegisterInv, Next
    PROVE  /\ \A c \in Clients : Connected(c) => Connected(c)' /\ pname'[c] = pname[c]
           /\ \A f \in Followers : pname[f] # NoName => pname'[f] = pname[f]
           /\ \A n : In(mqFoers, n) => In(mqFoers', n)
  <1>1. /\ Clients \subseteq Procs /\ Followers \subseteq Procs
        /\ Clients \cap Followers = {} /\ Clients \cap Servers = {}
    BY ServerAssumption DEF Procs, Servers
  <1>2. /\ pname \in [Procs -> Int] /\ cstate \in [Clients -> CStates]
        /\ mqFoers \in Seq(Int)
    BY DEF SafeInv, TypeInv, TypeOK
  <1>3. CASE UNCHANGED <<pname, cstate, mqFoers>>
    BY <1>3 DEF Connected, In
  <1>4. ASSUME NEW m \in Msg, NEW v \in Seq(Write), Enrols(m, v)
        PROVE  UNCHANGED <<pname, cstate>> /\ \A n : In(mqFoers, n) => In(mqFoers', n)
    <2>1. UNCHANGED <<pname, cstate>> /\ mqFoers' = Append(mqFoers, m.name)
      BY <1>4 DEF Enrols, Handles
    <2>2. \A i \in 1..Len(mqFoers) : i \in 1..Len(mqFoers') /\ mqFoers'[i] = mqFoers[i]
      BY <1>2, <2>1
    <2>3. QED BY <2>1, <2>2 DEF In
  <1>5. ASSUME NEW f \in Followers, NEW w \in Write, Introduces(f, w)
        PROVE  /\ UNCHANGED <<cstate, mqFoers>> /\ pname[f] = NoName
               /\ \A p \in Procs \ {f} : pname'[p] = pname[p]
    BY <1>2, <1>5 DEF Introduces
  <1>6. ASSUME NEW c \in Clients, NEW w \in Write, Applies(c, w)
        PROVE  /\ UNCHANGED mqFoers /\ ~Connected(c)
               /\ \A d \in Clients \ {c} : cstate'[d] = cstate[d]
               /\ \A p \in Procs \ {c} : pname'[p] = pname[p]
    BY <1>2, <1>6 DEF Applies, Connected
  <1>7. ASSUME NEW c \in Clients, NEW w \in Write, CallsWith(c, w)
        PROVE  /\ UNCHANGED <<mqFoers, pname>> /\ Connected(c)'
               /\ \A d \in Clients \ {c} : cstate'[d] = cstate[d]
    BY <1>2, <1>7 DEF CallsWith, Connected
  <1>8. ASSUME NEW c \in Clients, Takes(c)
        PROVE  /\ UNCHANGED <<mqFoers, pname>> /\ Connected(c)'
               /\ \A d \in Clients \ {c} : cstate'[d] = cstate[d]
    BY <1>8 DEF Takes, Connected
  <1>9. ASSUME NEW c \in Clients, LookupServer(c)
        PROVE  /\ UNCHANGED <<mqFoers, pname>> /\ ~Connected(c)
               /\ \A d \in Clients \ {c} : cstate'[d] = cstate[d]
    BY <1>2, <1>9 DEF LookupServer, Connected
  <1>10. ASSUME NEW s \in Servers, QuietStep(s) \/ PassesOn(s)
         PROVE  UNCHANGED <<pname, cstate, mqFoers>>
    BY <1>10 DEF QuietStep, PassesOn, Handles
  <1>11. ASSUME NEW m \in Msg, NEW v \in Seq(Write), Acknowledges(m, v)
         PROVE  UNCHANGED <<pname, cstate, mqFoers>>
    BY <1>11 DEF Acknowledges, Handles
  <1>12. ASSUME NEW p \in Procs, MqWrite(p), UNCHANGED <<cstate, cmsg, held>>
         PROVE  UNCHANGED <<pname, cstate, mqFoers>>
    BY <1>12 DEF MqWrite
  <1>13. CASE \E m \in Msg : \E v \in Seq(Write) : Enrols(m, v)
    BY <1>4, <1>13 DEF Connected
  <1>14. CASE \E f \in Followers : \E w \in Write : Introduces(f, w)
    BY <1>1, <1>5, <1>14 DEF Connected, In
  <1>15. CASE \E c \in Clients : \E w \in Write : Applies(c, w)
    BY <1>1, <1>6, <1>15 DEF Connected, In
  <1>16. CASE \E c \in Clients : \/ \E w \in Write : CallsWith(c, w)
                                 \/ Takes(c) \/ LookupServer(c)
    BY <1>7, <1>8, <1>9, <1>16 DEF Connected, In
  <1>17. QED BY <1>3, <1>10, <1>11, <1>12, <1>13, <1>14, <1>15, <1>16, Steps

\* No record is left when no client has started.
LEMMA NothingHeld ==
    ASSUME TableInv, NobodyStarted
    PROVE  HeldLocks = {}
  <1> SUFFICES ASSUME NEW l \in Locks, lockDict[Master][l] # 0 PROVE FALSE
    BY DEF HeldLocks
  <1>1. PICK c \in Clients : cmsg[c].uuid = lockDict[Master][l]
    BY DEF TableInv, RecordsInv, OwnedInv
  <1>2. QED BY <1>1 DEF NobodyStarted, TableInv, RecordsInv, UuidInv

\* A follower that is up has not its registration in flight.
LEMMA UpIsQuiet ==
    ASSUME SafeInv, FoerInv, FollowersUp, NEW w \in InFlight(queue, out)
    PROVE  ~IsFoerReg(w.msg)
  <1> SUFFICES ASSUME IsFoerReg(w.msg) PROVE FALSE
    OBVIOUS
  <1>1. IsFollower(w.msg.name)
    BY DEF SafeInv, FlightInv, WellFormed, IsFoerReg
  <1>2. QED BY <1>1 DEF IsFollower, FoerInv, FollowersUp

\* A step of a client starts it.
LEMMA ClientStarts ==
    ASSUME SafeInv, NEW c \in Clients,
           (\E w \in Write : Applies(c, w) \/ CallsWith(c, w)) \/ Takes(c) \/ LookupServer(c)
    PROVE  ~NobodyStarted'
  <1>1. cstate \in [Clients -> CStates]
    BY DEF SafeInv, TypeInv, TypeOK
  <1>2. cstate'[c] # "start"
    BY <1>1 DEF Applies, CallsWith, Takes, LookupServer
  <1>3. QED BY <1>2 DEF NobodyStarted

\* While no client has started, the master only enrols followers.
LEMMA MasterIdle ==
    ASSUME CycleInv, NobodyStarted
    PROVE  /\ ~QuietStep(Master)
           /\ \A m \in Msg : \A v \in Seq(Write) : ~Acknowledges(m, v)
  <1>0. SafeInv /\ RegisterInv /\ OrderInv
    BY DEF CycleInv, TableInv
  <1>1. \A c \in Clients : ~Connected(c)
    BY DEF NobodyStarted, Connected
  <1>2. pname[Master] = MasterNode
    BY <1>0 DEF SafeInv, TypeInv, NameInv
  <1>3. ASSUME NEW m \in Msg, NEW v, Handles(Master, m, v)
        PROVE  IsFoerReg(m)
    <2>1. PICK w : w = Send(pname[Master], m)
      OBVIOUS
    <2>2. w \in InFlight(queue, out) /\ w.to = MasterNode /\ w.msg = m
      BY <1>0, <1>2, <1>3, <2>1, HandledFlight DEF Send
    <2>3. Registers(w) /\ WellFormed(w)
      BY <1>0, <2>2 DEF SafeInv, FlightInv, RegisterInv
    <2>4. m.type \in Calls \cup {"REGISTER"}
      BY <2>2, <2>3 DEF Registers
    <2>5. m.type \notin Calls
      BY <1>1, <2>2, <2>3 DEF WellFormed
    <2>6. QED BY <1>0, <1>1, <2>2, <2>4, <2>5 DEF OrderInv
  <1>4. QED BY <1>3 DEF QuietStep, Acknowledges, IsFoerReg

\* A client that has started does not go back to its start.
LEMMA StartedOrNot ==
    ASSUME SafeInv, RegisterInv, Next
    PROVE  UNCHANGED cstate \/ ~NobodyStarted'
  <1>1. ASSUME NEW s \in Servers, QuietStep(s) \/ PassesOn(s) PROVE UNCHANGED cstate
    BY <1>1 DEF QuietStep, PassesOn, Handles
  <1>2. ASSUME NEW m \in Msg, NEW v \in Seq(Write), Acknowledges(m, v) \/ Enrols(m, v)
        PROVE  UNCHANGED cstate
    BY <1>2 DEF Acknowledges, Enrols, Handles
  <1>3. ASSUME NEW f \in Followers, NEW w \in Write, Introduces(f, w)
        PROVE  UNCHANGED cstate
    BY <1>3 DEF Introduces
  <1>4. QED BY <1>1, <1>2, <1>3, Steps, ClientStarts

\* While no client has started the master writes nothing.
LEMMA MasterSilent ==
    ASSUME CycleInv, OrderedNext, NobodyStarted'
    PROVE  out'[Master] = <<>>
  <1>0. TableInv /\ SafeInv /\ RegisterInv /\ FoerInv /\ OrderInv /\ Next
    BY DEF CycleInv, TableInv, OrderedNext
  <1>1. NobodyStarted
    BY <1>0, StartedOrNot DEF NobodyStarted
  <1>2. out[Master] = <<>> /\ HeldLocks = {} /\ Master \in Procs
    BY <1>0, <1>1, NothingHeld DEF OrderInv, Procs, Servers
  <1>3. ASSUME NEW s \in Servers, s # Master, QuietStep(s) \/ PassesOn(s)
        PROVE  out'[Master] = <<>>
    <2>1. PICK m \in Msg : \E v \in Seq(Write) : Handles(s, m, v)
      BY <1>3 DEF QuietStep, PassesOn
    <2>2. PICK v \in Seq(Write) : Handles(s, m, v)
      BY <2>1
    <2>3. \A p \in Procs \ {s} : out'[p] = out[p]
      BY <1>0, <2>2, HandledFlight
    <2>4. QED BY <1>2, <1>3, <2>3
  <1>4. ~QuietStep(Master) /\ ~PassesOn(Master)
    BY <1>1, MasterIdle DEF PassesOn
  <1>5. ASSUME NEW m \in Msg, NEW v \in Seq(Write), Acknowledges(m, v) \/ Enrols(m, v)
        PROVE  out'[Master] = <<>>
    <2>1. Enrols(m, v)
      BY <1>1, <1>5, MasterIdle
    <2>2. Handles(Master, m, v) /\ v = <<>>
      BY <1>2, <2>1 DEF Enrols
    <2>3. QED BY <1>0, <2>2, HandledFlight
  <1>6. ASSUME NEW f \in Followers, NEW w \in Write, Introduces(f, w)
        PROVE  out'[Master] = <<>>
    <2>1. Writes(f, w) /\ f # Master
      BY <1>6 DEF Introduces
    <2>2. QED BY <1>0, <1>2, <2>1, WrittenFlight
  <1>7. ASSUME NEW p \in Procs, MqWrite(p) PROVE out'[Master] = <<>>
    <2>1. p # Master
      BY <1>2, <1>7 DEF MqWrite
    <2>2. out' = [out EXCEPT ![p] = Tail(@)] /\ out \in [Procs -> Seq(Write)]
      BY <1>0, <1>7 DEF MqWrite, SafeInv, TypeInv, TypeOK, Write
    <2>3. QED BY <1>2, <2>1, <2>2
  <1>8. QED BY <1>0, <1>3, <1>4, <1>5, <1>6, <1>7, Steps, ClientStarts

\* A registration is a follower's or a client's, when no record is sent.
LEMMA OrderedFlight ==
    ASSUME CycleInv, OrderedNext, NEW w \in InFlight(queue', out'),
           w.msg.type = "REGISTER"
    PROVE  IsFoerReg(w.msg) \/ \E c \in Clients : Connected(c)' /\ w.msg.name = pname'[c]
  <1>0. TableInv /\ SafeInv /\ RegisterInv /\ FoerInv /\ OrderInv /\ Next
    BY DEF CycleInv, TableInv, OrderedNext
  <1>1. \A c \in Clients : Connected(c) => Connected(c)' /\ pname'[c] = pname[c]
    BY <1>0, NamesStay
  <1>2. CASE \E z \in InFlight(queue, out) : z.msg = w.msg
    BY <1>0, <1>1, <1>2 DEF OrderInv
  <1>3. ASSUME NEW s \in Servers, QuietStep(s)
        PROVE  \E z \in InFlight(queue, out) : z.msg = w.msg
    <2>1. PICK m \in Msg : \E v \in Seq(Write) :
             Handles(s, m, v) /\ \A i \in 1..Len(v) : v[i].msg.type # "REGISTER"
      BY <1>3 DEF QuietStep
    <2>2. PICK v \in Seq(Write) :
             Handles(s, m, v) /\ \A i \in 1..Len(v) : v[i].msg.type # "REGISTER"
      BY <2>1
    <2>3. QED BY <1>0, <2>2, HandledFlight
  <1>4. ASSUME NEW s \in Servers, PassesOn(s)
        PROVE  \E z \in InFlight(queue, out) : z.msg = w.msg
    <2>1. PICK m \in Msg : \E v \in Seq(Write) :
             /\ Handles(s, m, v) /\ Len(v) = 1 /\ v[1] = Send(MasterNode, m)
      BY <1>4 DEF PassesOn
    <2>2. PICK v \in Seq(Write) :
             /\ Handles(s, m, v) /\ Len(v) = 1 /\ v[1] = Send(MasterNode, m)
      BY <2>1
    <2>3. /\ Send(pname[s], m) \in InFlight(queue, out)
          /\ w \in InFlight(queue, out) \/ \E i \in 1..Len(v) : w = v[i]
      BY <1>0, <2>2, HandledFlight
    <2>4. Send(pname[s], m).msg = m /\ v[1].msg = m
      BY <2>2 DEF Send
    <2>5. QED BY <2>2, <2>3, <2>4
  <1>5. ASSUME NEW m \in Msg, NEW v \in Seq(Write), Acknowledges(m, v)
        PROVE  \E z \in InFlight(queue, out) : z.msg = w.msg
    <2>1. Handles(Master, m, v) /\ \A i \in 1..Len(v) : v[i].msg.type # "REGISTER"
      <3>1. \A i \in 1..Len(v) : i = 1 \/ i = 2
        BY <1>5 DEF Acknowledges
      <3>2. QED BY <1>5, <3>1 DEF Acknowledges
    <2>2. QED BY <1>0, <2>1, HandledFlight
  <1>6. ASSUME NEW m \in Msg, NEW v \in Seq(Write), Enrols(m, v)
        PROVE  \E z \in InFlight(queue, out) : z.msg = w.msg
    <2>1. Handles(Master, m, v) /\ IsFoerReg(m) /\ (HeldLocks = {} => v = <<>>)
      BY <1>6 DEF Enrols
    <2>2. Send(pname[Master], m) \in InFlight(queue, out) /\ Send(pname[Master], m).msg = m
      BY <1>0, <2>1, HandledFlight DEF Send
    <2>3. ~FollowersUp
      BY <1>0, <2>1, <2>2, UpIsQuiet
    <2>4. v = <<>>
      BY <1>0, <2>1, <2>3, NothingHeld DEF OrderInv
    <2>5. w \in InFlight(queue, out) \/ \E i \in 1..Len(v) : w = v[i]
      BY <1>0, <2>1, HandledFlight
    <2>6. QED BY <2>4, <2>5
  <1>7. ASSUME NEW f \in Followers, NEW z \in Write, Introduces(f, z)
        PROVE  w \in InFlight(queue, out) \/ IsFoerReg(w.msg)
    <2>1. Writes(f, z) /\ IsFoerReg(z.msg)
      BY <1>7 DEF Introduces
    <2>2. QED BY <1>0, <2>1, WrittenFlight
  <1>8. ASSUME NEW p \in Procs, MqWrite(p) PROVE w \in InFlight(queue, out)
    BY <1>0, <1>8, WriteFlight DEF SafeInv
  <1>9. ASSUME NEW c \in Clients, NEW z \in Write, Applies(c, z)
        PROVE  w \in InFlight(queue, out) \/ (Connected(c)' /\ w.msg.name = pname'[c])
    <2>1. Writes(c, z) /\ z.msg.name = pname'[c] /\ Connected(c)'
      <3>1. /\ c \in Procs /\ pname \in [Procs -> Int]
            /\ cstate \in [Clients -> CStates]
        BY <1>0 DEF Procs, SafeInv, TypeInv, TypeOK
      <3>2. QED BY <1>9, <3>1 DEF Applies, Connected
    <2>2. QED BY <1>0, <2>1, WrittenFlight
  <1>10. ASSUME NEW c \in Clients, NEW z \in Write, CallsWith(c, z)
         PROVE  w \in InFlight(queue, out)
    <2>1. Writes(c, z) /\ z.msg.type # "REGISTER"
      BY <1>10 DEF CallsWith, Calls
    <2>2. QED BY <1>0, <2>1, WrittenFlight
  <1>11. ASSUME NEW c \in Clients, Takes(c) PROVE w \in InFlight(queue, out)
    BY <1>11 DEF Takes
  <1>12. ASSUME NEW c \in Clients, LookupServer(c) PROVE w \in InFlight(queue, out)
    BY <1>12 DEF LookupServer
  <1>13. QED BY <1>0, <1>2, <1>3, <1>4, <1>5, <1>6, <1>7, <1>8, <1>9, <1>10, <1>11,
            <1>12, Steps

\* A step in a deployment whose followers come first keeps OrderInv.
LEMMA OrderNext ==
    ASSUME CycleInv, [OrderedNext]_vars
    PROVE  OrderInv'
  <1>0. SafeInv /\ RegisterInv /\ OrderInv
    BY DEF CycleInv, TableInv
  <1>1. CASE UNCHANGED vars
    BY <1>0, <1>1 DEF vars, serverVars, OrderInv, NobodyStarted, FollowersUp, Connected
  <1>2. CASE OrderedNext
    <2>0. Next /\ (FollowersUp \/ UNCHANGED cstate)
      BY <1>2 DEF OrderedNext
    <2>1. /\ \A f \in Followers : pname[f] # NoName => pname'[f] = pname[f]
          /\ \A n : In(mqFoers, n) => In(mqFoers', n)
      BY <1>0, <2>0, NamesStay
    <2>2. NobodyStarted' \/ FollowersUp'
      <3>1. CASE FollowersUp
        <4>1. \A n : In(mqFoers, n) => n # NoName
          BY <1>0 DEF In, SafeInv, DictInv, IsFollower
        <4>2. QED BY <2>1, <3>1, <4>1 DEF FollowersUp
      <3>2. CASE ~FollowersUp
        BY <1>0, <2>0, <3>2 DEF OrderInv, NobodyStarted
      <3>3. QED BY <3>1, <3>2
    <2>3. NobodyStarted' => out'[Master] = <<>>
      BY <1>2, MasterSilent
    <2>4. \A w \in InFlight(queue', out') : w.msg.type = "REGISTER" =>
             IsFoerReg(w.msg) \/ \E c \in Clients : Connected(c)' /\ w.msg.name = pname'[c]
      BY <1>2, OrderedFlight
    <2>5. QED BY <2>2, <2>3, <2>4 DEF OrderInv
  <1>3. QED BY <1>1, <1>2

\* CycleInv holds when nobody has started.
LEMMA CycleInit == Init => CycleInv
  <1> SUFFICES ASSUME Init PROVE CycleInv
    OBVIOUS
  <1>1. TableInv
    BY TableInvInit
  <1>2. /\ queue = [n \in {MasterNode} |-> <<>>] /\ out = [p \in Procs |-> <<>>]
        /\ pname = [p \in Procs |-> IF p = Master THEN MasterNode ELSE NoName]
        /\ cstate = [c \in Clients |-> "start"] /\ cmsg = [c \in Clients |-> NoMsg]
    BY DEF Init, ServerInit
  <1>3. /\ Master \in Procs /\ Clients \subseteq Procs /\ Followers \subseteq Procs
    BY DEF Procs, Servers
  <1>4. /\ \A p \in Procs : out[p] = <<>>
        /\ \A x \in DOMAIN queue : x = MasterNode /\ queue[x] = <<>>
        /\ \A c \in Clients : cstate[c] = "start" /\ cmsg[c].server = NoName
    BY <1>2 DEF NoMsg
  <1>5. 1..Len(<<>>) = {}
    OBVIOUS
  <1>6. \A w : w \notin InFlight(queue, out)
    BY <1>4, <1>5, FlightCases
  <1>7. RegisterInv
    BY <1>3, <1>4, <1>5, <1>6 DEF RegisterInv, IdleInv, MasterNode
  <1>8. FoerInv
    BY <1>4, <1>5, <1>6 DEF FoerInv, FoerOnce
  <1>9. OrderInv
    BY <1>3, <1>4, <1>6 DEF OrderInv, NobodyStarted
  <1>10. QED BY <1>1, <1>7, <1>8, <1>9 DEF CycleInv

\* CycleInv is inductive, in deployments whose followers come first.
LEMMA CycleNext == CycleInv /\ [OrderedNext]_vars => CycleInv'
  <1> SUFFICES ASSUME CycleInv, [OrderedNext]_vars PROVE CycleInv'
    OBVIOUS
  <1>1. TableInv /\ SafeInv /\ RegisterInv /\ FoerInv /\ [Next]_vars
    BY DEF CycleInv, TableInv, OrderedNext
  <1>2. QED BY <1>1, TableInvNext, RegisterNext, FoerNext, OrderNext DEF CycleInv

\* In a deployment whose followers register before a client starts, no record
\* is sent to a follower, and all the master gets after that is calls and
\* registrations of clients (server.cpp, client_register and master_run).
THEOREM CycleInvariant == OrderedSpec => []CycleInv
  BY CycleInit, CycleNext, PTL DEF OrderedSpec

-----------------------------------------------------------------------------
(* The master's queue always has room for what a follower forwards.        *)

\* The client whose message is on its way to the master.
LEMMA SenderToMaster ==
    ASSUME CycleInv, FollowersUp, NEW w \in InFlight(queue, out), w.to = MasterNode
    PROVE  \E c \in Clients : Connected(c) /\ Conversation(w.msg, pname[c])
  <1>0. SafeInv /\ RegisterInv /\ FoerInv /\ OrderInv
    BY DEF CycleInv, TableInv
  <1>1. w.msg.type \in Calls \cup {"REGISTER"} /\ WellFormed(w)
    BY <1>0 DEF RegisterInv, Registers, SafeInv, FlightInv
  <1>2. \E c \in Clients : Connected(c) /\ w.msg.name = pname[c]
    <2>1. CASE w.msg.type \in Calls
      BY <1>1, <2>1 DEF WellFormed
    <2>2. CASE w.msg.type = "REGISTER"
      BY <1>0, <2>2, UpIsQuiet DEF OrderInv
    <2>3. QED BY <1>1, <2>1, <2>2
  <1>3. QED BY <1>1, <1>2 DEF Conversation, Calls

\* When a message is on its way from a process to the master, the master's
\* queue has fewer messages than there are clients: each is of another client.
LEMMA QueueIsShort ==
    ASSUME CycleInv, FollowersUp, IsFiniteSet(Clients), NEW p \in Procs,
           out[p] # <<>>, Head(out[p]).to = MasterNode, MasterNode \in DOMAIN queue
    PROVE  Len(queue[MasterNode]) < Cardinality(Clients)
  <1>0. SafeInv /\ TypeInv
    BY DEF CycleInv, TableInv, SafeInv
  <1>1. PICK q : q = queue[MasterNode]
    OBVIOUS
  <1>2. q \in Seq(Msg) /\ Len(q) \in Nat
    BY <1>0, <1>1 DEF TypeInv, TypeOK
  <1>3. 1 \in 1..Len(out[p]) /\ Head(out[p]) = out[p][1]
    BY <1>0 DEF TypeInv, TypeOK
  <1>4. PICK d \in Clients : Connected(d) /\ Conversation(out[p][1].msg, pname[d])
    <2>1. out[p][1] \in InFlight(queue, out)
      BY <1>3, FlightCases
    <2>2. QED BY <1>3, <2>1, SenderToMaster
  <1>5. \A i \in 1..Len(q) :
           \E c \in Clients : Connected(c) /\ Conversation(q[i], pname[c])
    <2> SUFFICES ASSUME NEW i \in 1..Len(q)
                 PROVE  \E c \in Clients : Connected(c) /\ Conversation(q[i], pname[c])
      OBVIOUS
    <2>1. PICK w : w = Send(MasterNode, q[i])
      OBVIOUS
    <2>2. w \in InFlight(queue, out)
      BY <1>1, <2>1, FlightCases
    <2>3. w.to = MasterNode /\ w.msg = q[i]
      BY <2>1 DEF Send
    <2>4. QED BY <2>2, <2>3, SenderToMaster
  <1> DEFINE F == [i \in 1..Len(q) |->
                     CHOOSE c \in Clients : Connected(c) /\ Conversation(q[i], pname[c])]
  <1>6. \A i \in 1..Len(q) :
           F[i] \in Clients /\ Connected(F[i]) /\ Conversation(q[i], pname[F[i]])
    BY <1>5
  <1> HIDE DEF F
  <1>7. \A c \in Clients : Connected(c) => Single(queue, out, pname[c])
    BY <1>0 DEF SafeInv, SingleInv
  <1>8. \A i \in 1..Len(q) : F[i] # d
    <2> SUFFICES ASSUME NEW i \in 1..Len(q), F[i] = d PROVE FALSE
      OBVIOUS
    <2>1. Conversation(q[i], pname[d])
      BY <1>6
    <2>2. NoneIn(q, pname[d]) \/ NoneOut(out[p], pname[d])
      BY <1>1, <1>4, <1>7 DEF Single
    <2>3. QED BY <1>3, <1>4, <2>1, <2>2 DEF NoneIn, NoneOut
  <1>9. \A i, j \in 1..Len(q) : F[i] = F[j] => i = j
    <2> SUFFICES ASSUME NEW i \in 1..Len(q), NEW j \in 1..Len(q), F[i] = F[j]
                 PROVE  i = j
      OBVIOUS
    <2>1. OneIn(q, pname[F[i]])
      BY <1>1, <1>6, <1>7 DEF Single
    <2>2. Conversation(q[i], pname[F[i]]) /\ Conversation(q[j], pname[F[i]])
      BY <1>6
    <2>3. QED BY <2>1, <2>2 DEF OneIn
  <1>10. F \in [1..Len(q) -> Clients \ {d}]
    <2>1. F = [i \in 1..Len(q) |-> F[i]]
      BY DEF F
    <2>2. QED BY <1>6, <1>8, <2>1
  <1>11. /\ IsFiniteSet(Clients \ {d}) /\ Cardinality(Clients) \in Nat
         /\ Cardinality(Clients \ {d}) = Cardinality(Clients) - 1
    BY FS_RemoveElement, FS_CardinalityType
  <1>12. IsFiniteSet(1..Len(q)) /\ Cardinality(1..Len(q)) = Len(q)
    <2>1. /\ IsFiniteSet(1..Len(q))
          /\ Cardinality(1..Len(q)) = IF 1 > Len(q) THEN 0 ELSE Len(q) - 1 + 1
      BY <1>2, FS_Interval
    <2>2. QED BY <1>2, <2>1
  <1>13. ~(Cardinality(Clients \ {d}) < Cardinality(1..Len(q)))
    BY <1>9, <1>10, <1>11, <1>12, FS_PigeonHole
  <1>14. QED BY <1>1, <1>2, <1>11, <1>12, <1>13

\* When every queue has room for one message of each client (81 in the code),
\* and the followers have registered before a client starts, the master's
\* queue is never full while a follower writes to it: two servers never spin on
\* each other's queue for ever (mqueue.cpp mq_write, server.cpp
\* message2master).
THEOREM NoServersSpin ==
    ASSUME IsFiniteSet(Clients), Cap >= Cardinality(Clients)
    PROVE  OrderedSpec => []NoSendCycle
  <1>1. CycleInv => NoSendCycle
    <2> SUFFICES ASSUME CycleInv, NEW f \in Followers,
                        Blocked(Master, pname[f]), Blocked(f, MasterNode)
                 PROVE  FALSE
      BY DEF NoSendCycle
    <2>1. FollowersUp
      BY DEF CycleInv, OrderInv, Blocked
    <2>2. f \in Procs
      BY DEF Procs, Servers
    <2>3. Len(queue[MasterNode]) < Cardinality(Clients)
      BY <2>1, <2>2, QueueIsShort DEF Blocked
    <2>4. MasterNode \in DOMAIN queue /\ Len(queue[MasterNode]) \in Nat
      BY DEF Blocked, CycleInv, TableInv, SafeInv, TypeInv, TypeOK
    <2>5. Cap \in Nat /\ Cardinality(Clients) \in Nat
      BY ServerAssumption, FS_CardinalityType
    <2>6. QED BY <2>3, <2>4, <2>5 DEF Blocked, Full
  <1>2. QED BY <1>1, CycleInvariant, PTL

-----------------------------------------------------------------------------
(* The name of a server is in one place.                                   *)

\* Who carries n when nothing about the client c or its registration changes.
LEMMA SameCarries ==
    ASSUME NEW c \in Clients, NEW n, cstate'[c] = cstate[c],
           cmsg'[c].server = cmsg[c].server, pname'[c] = pname[c],
           cstate[c] = "registering" /\ cmsg[c].server = n =>
              (OnItsWay(InFlight(queue', out'), pname[c])
                 <=> OnItsWay(InFlight(queue, out), pname[c]))
    PROVE  Carries(c, n)' <=> Carries(c, n)
  BY DEF Carries

\* The place of n when the rotation is the same, and so are the clients that
\* carry n, and whether the master puts it back.
LEMMA SameToken ==
    ASSUME NEW n, Token(n), UNCHANGED <<serverNames, mqFoers>>,
           \A c \in Clients : Carries(c, n)' <=> Carries(c, n),
           PutBy(out'[Master], n) <=> PutBy(out[Master], n),
           PutOnceBy(out'[Master], n)
    PROVE  Token(n)'
  BY DEF Token, Carried, CarriedOnce, Enrolled

\* The name of a server is a number that was handed out, and no name a client
\* has.
LEMMA KeyIsServer ==
    ASSUME SafeInv, NEW n \in ServerKeys
    PROVE  IsServer(n) /\ n \in Int /\ n # NoName /\ n # DnsNode
  <1>1. IsServer(n) /\ n # NoName
    BY DEF ServerKeys, IsServer
  <1>2. QED BY <1>1, ServerKey

\* A client's registration, as what its name and its server are.
LEMMA ClientsOwn ==
    ASSUME SafeInv, RegisterInv, NEW c \in Clients, cstate[c] = "registering",
           NEW w \in InFlight(queue, out), w.msg.type = "REGISTER",
           w.msg.name = pname[c]
    PROVE  /\ Conversation(w.msg, pname[c])
           /\ w.msg.server = cmsg[c].server
           /\ w.to \in {cmsg[c].server, MasterNode}
           /\ \A n : cmsg[c].server = n /\ n \in ServerKeys =>
                        w.to # NoName /\ w.to # DnsNode
  <1>1. Connected(c) /\ TypeInv
    BY DEF Connected, SafeInv
  <1>2. /\ c \in Procs /\ ~IsFollower(pname[c])
        /\ \A p \in Procs \ {c} : pname[p] # pname[c]
    BY <1>1, ClientNames
  <1>3. PICK d \in Clients : /\ cstate[d] = "registering"
                             /\ w.msg.name = pname[d]
                             /\ w.msg.server = cmsg[d].server
                             /\ w.to \in {cmsg[d].server, MasterNode}
    BY <1>2, Registrant
  <1>4. d = c
    BY <1>2, <1>3 DEF Procs
  <1>5. ASSUME NEW n \in ServerKeys, cmsg[c].server = n
        PROVE  w.to # NoName /\ w.to # DnsNode
    BY <1>3, <1>4, <1>5, KeyIsServer DEF MasterNode, NoName, DnsNode
  <1>6. QED BY <1>3, <1>4, <1>5 DEF Conversation

\* A handler that takes no registration and writes none, or the same one.
LEMMA QuietToken ==
    ASSUME SafeInv, NEW s \in Servers, QuietStep(s), NEW n, Token(n)
    PROVE  Token(n)'
  <1>1. PICK m \in Msg : \E v \in Seq(Write) :
          /\ Handles(s, m, v)
          /\ m.type # "REGISTER"
          /\ \A i \in 1..Len(v) : v[i].msg.type # "REGISTER" /\ v[i].to # DnsNode
    BY DEF QuietStep
  <1>2. PICK v \in Seq(Write) :
          /\ Handles(s, m, v)
          /\ m.type # "REGISTER"
          /\ \A i \in 1..Len(v) : v[i].msg.type # "REGISTER" /\ v[i].to # DnsNode
    BY <1>1
  <1>3. /\ UNCHANGED <<serverNames, mqFoers, pname, cstate, cmsg>>
    BY <1>2 DEF QuietStep, Handles
  <1>4. /\ \A w \in InFlight(queue', out') :
              w \in InFlight(queue, out) \/ \E i \in 1..Len(v) : w = v[i]
        /\ \A w \in InFlight(queue, out) :
              w \in InFlight(queue', out') \/ w = Send(pname[s], m)
        /\ out[s] = <<>> /\ out'[s] = v
        /\ \A p \in Procs \ {s} : out'[p] = out[p]
    BY <1>2, HandledFlight
  <1>5. Send(pname[s], m).msg = m
    BY DEF Send
  <1>6. \A x : OnItsWay(InFlight(queue', out'), x) <=> OnItsWay(InFlight(queue, out), x)
    BY <1>2, <1>4, <1>5 DEF OnItsWay
  <1>7. \A c \in Clients : Carries(c, n)' <=> Carries(c, n)
    BY <1>3, <1>6, SameCarries
  <1>8. /\ PutBy(out'[Master], n) <=> PutBy(out[Master], n)
        /\ PutOnceBy(out'[Master], n)
    <2>1. CASE s = Master
      <3>1. 1..Len(<<>>) = {}
        OBVIOUS
      <3>2. ~PutBy(out[Master], n)
        BY <1>4, <2>1, <3>1 DEF PutBy
      <3>3. \A i \in 1..Len(out'[Master]) : ~PutsBack(out'[Master][i], n)
        BY <1>2, <1>4, <2>1 DEF PutsBack
      <3>4. QED BY <3>2, <3>3 DEF PutBy, PutOnceBy
    <2>2. CASE s # Master
      BY <1>4, <2>2 DEF Token, Procs, Servers
    <2>3. QED BY <2>1, <2>2
  <1>9. QED BY <1>3, <1>7, <1>8, SameToken

\* A registration that a follower forwards stays on its way.
LEMMA PassedToken ==
    ASSUME SafeInv, NEW s \in Servers, PassesOn(s), NEW n, Token(n)
    PROVE  Token(n)'
  <1>1. PICK m \in Msg : \E v \in Seq(Write) :
          Handles(s, m, v) /\ m.type = "REGISTER" /\ Len(v) = 1 /\ v[1] = Send(MasterNode, m)
    BY DEF PassesOn
  <1>2. PICK v \in Seq(Write) :
          Handles(s, m, v) /\ m.type = "REGISTER" /\ Len(v) = 1 /\ v[1] = Send(MasterNode, m)
    BY <1>1
  <1>3. UNCHANGED <<serverNames, mqFoers, pname, cstate, cmsg>> /\ s # Master
    BY <1>2 DEF PassesOn, Handles
  <1>4. /\ Send(pname[s], m) \in InFlight(queue, out)
        /\ \A w \in InFlight(queue', out') :
              w \in InFlight(queue, out) \/ \E i \in 1..Len(v) : w = v[i]
        /\ \A w \in InFlight(queue, out) :
              w \in InFlight(queue', out') \/ w = Send(pname[s], m)
        /\ \A i \in 1..Len(v) : v[i] \in InFlight(queue', out')
        /\ \A p \in Procs \ {s} : out'[p] = out[p]
    BY <1>2, HandledFlight
  <1>5. Send(pname[s], m).msg = m /\ v[1].msg = m /\ 1..Len(v) = {1}
    BY <1>2 DEF Send
  <1>6. \A x : OnItsWay(InFlight(queue', out'), x) <=> OnItsWay(InFlight(queue, out), x)
    BY <1>2, <1>4, <1>5 DEF OnItsWay
  <1>7. \A c \in Clients : Carries(c, n)' <=> Carries(c, n)
    BY <1>3, <1>6, SameCarries
  <1>8. out'[Master] = out[Master]
    BY <1>3, <1>4 DEF Procs, Servers
  <1>9. PutOnceBy(out'[Master], n)
    BY <1>8 DEF Token
  <1>10. QED BY <1>3, <1>7, <1>8, <1>9, SameToken

-----------------------------------------------------------------------------
(* A registration moves the name of a server.                              *)

\* The registration of a client is handled: the write that follows the ACK
\* puts back the server the client carried.
LEMMA AcknowledgedToken ==
    ASSUME SafeInv, RegisterInv, NEW m \in Msg, NEW v \in Seq(Write),
           Acknowledges(m, v), NEW n \in ServerKeys, Token(n)
    PROVE  Token(n)'
  <1>1. /\ Handles(Master, m, v) /\ m.type = "REGISTER"
        /\ Len(v) = 2 /\ v[1].to # DnsNode /\ v[1].msg.type = "REGISTER_ACK"
        /\ v[2].to = DnsNode /\ v[2].msg.type = "SERVER_NAME"
        /\ v[2].msg.server = m.server
        /\ UNCHANGED <<serverNames, mqFoers, pname, cstate, cmsg>>
    BY DEF Acknowledges, Handles
  <1>2. /\ Send(pname[Master], m) \in InFlight(queue, out)
        /\ \A w \in InFlight(queue', out') :
              w \in InFlight(queue, out) \/ \E i \in 1..Len(v) : w = v[i]
        /\ \A w \in InFlight(queue, out) :
              w \in InFlight(queue', out') \/ w = Send(pname[Master], m)
        /\ out[Master] = <<>> /\ out'[Master] = v
    BY <1>1, HandledFlight
  <1>3. PICK z : z = Send(pname[Master], m)
    OBVIOUS
  <1>4. z.msg = m /\ z \in InFlight(queue, out)
    BY <1>2, <1>3 DEF Send
  <1>5. 1..Len(v) = {1, 2} /\ 1..Len(<<>>) = {}
    BY <1>1
  <1>6. n # NoName
    BY KeyIsServer
  <1>7. ~PutBy(out[Master], n)
    BY <1>2, <1>5 DEF PutBy
  <1>8. \A i \in 1..Len(v) : PutsBack(v[i], n) <=> i = 2 /\ m.server = n
    BY <1>1, <1>5 DEF PutsBack
  <1>9. PutOnceBy(out'[Master], n) /\ (PutBy(out'[Master], n) <=> m.server = n)
    BY <1>2, <1>5, <1>8 DEF PutBy, PutOnceBy
  <1>10. \A x : x # m.name =>
            (OnItsWay(InFlight(queue', out'), x) <=> OnItsWay(InFlight(queue, out), x))
    BY <1>1, <1>2, <1>3, <1>4, <1>5 DEF OnItsWay
  <1>11. \A c \in Clients : cstate[c] = "registering" => ~IsFollower(pname[c])
    BY ClientNames DEF SafeInv, Connected
  <1>12. CASE m.server = NoName /\ IsFollower(m.name)
    <2>1. \A c \in Clients : Carries(c, n)' <=> Carries(c, n)
      BY <1>1, <1>10, <1>11, <1>12, SameCarries
    <2>2. QED BY <1>1, <1>6, <1>7, <1>9, <1>12, <2>1, SameToken
  <1>13. ASSUME NEW c \in Clients, cstate[c] = "registering",
                Conversation(m, pname[c]), m.name = pname[c],
                m.server = cmsg[c].server
         PROVE  Token(n)'
    <2>1. Connected(c) /\ TypeInv /\ c \in Procs
      BY <1>13 DEF Connected, SafeInv, Procs
    <2>2. \A d \in Clients \ {c} : pname[d] # m.name
      BY <1>13, <2>1, ClientNames DEF Procs
    <2>3. \A d \in Clients \ {c} : Carries(d, n)' <=> Carries(d, n)
      BY <1>1, <1>10, <2>2, SameCarries
    <2>4. ~OnItsWay(InFlight(queue', out'), pname[c])
      <3> SUFFICES ASSUME NEW w \in InFlight(queue', out'), w.msg.type = "REGISTER",
                          w.msg.name = pname[c]
                   PROVE  FALSE
        BY DEF OnItsWay
      <3>1. Conversation(w.msg, pname[c])
        BY DEF Conversation
      <3>2. Single(queue, out, pname[c])
        BY <2>1 DEF SafeInv, SingleInv
      <3>3. /\ HasMsg(Master) /\ m = Received(Master) /\ Master \in Servers
            /\ out' = [out EXCEPT ![Master] = v]
            /\ queue' = Popped(Master) \/ \E y \in Int : queue' = MqOpen(Popped(Master), y)
        BY <1>1 DEF Handles
      <3>4. \E i \in 1..Len(v) : w = v[i]
        BY <1>13, <2>1, <3>1, <3>2, <3>3, HandlerFlight
      <3>5. QED BY <1>1, <1>5, <3>4
    <2>5. ~Carries(c, n)'
      BY <1>1, <1>13, <2>4 DEF Carries
    <2>6. Carries(c, n) <=> m.server = n
      BY <1>1, <1>4, <1>13 DEF Carries, OnItsWay
    <2>7. CASE m.server # n
      <3>1. \A d \in Clients : Carries(d, n)' <=> Carries(d, n)
        BY <2>3, <2>5, <2>6, <2>7
      <3>2. QED BY <1>1, <1>7, <1>9, <2>7, <3>1, SameToken
    <2>8. CASE m.server = n
      <3>1. Carried(n) /\ ~In(serverNames, n) /\ Enrolled(n) /\ Once(serverNames, n)
        BY <2>6, <2>8 DEF Carried, Token
      <3>2. \A d \in Clients \ {c} : ~Carries(d, n)
        BY <2>6, <2>8 DEF CarriedOnce, Token
      <3>3. \A d \in Clients : ~Carries(d, n)'
        BY <2>3, <2>5, <3>2
      <3>4. QED BY <1>1, <1>9, <2>8, <3>1, <3>3
              DEF Token, Carried, CarriedOnce, Enrolled
    <2>9. QED BY <2>7, <2>8
  <1>14. QED BY <1>1, <1>4, <1>12, <1>13, Registrant

\* One more name in the rotation.
LEMMA InAppended ==
    ASSUME NEW s \in Seq(Int), NEW x \in Int, NEW n
    PROVE  /\ In(Append(s, x), n) <=> In(s, n) \/ x = n
           /\ Once(s, n) /\ (x = n => ~In(s, n)) => Once(Append(s, x), n)
  <1>1. /\ Len(s) \in Nat /\ Len(Append(s, x)) = Len(s) + 1
        /\ \A i \in 1..Len(s) : Append(s, x)[i] = s[i]
        /\ Append(s, x)[Len(s) + 1] = x
    OBVIOUS
  <1>2. PICK a : a = Append(s, x)
    OBVIOUS
  <1>3. /\ Len(s) \in Nat /\ Len(a) = Len(s) + 1
        /\ \A i \in 1..Len(s) : a[i] = s[i]
        /\ a[Len(s) + 1] = x
        /\ \A i \in 1..Len(a) : i \in 1..Len(s) \/ i = Len(s) + 1
        /\ \A i \in 1..Len(s) : i \in 1..Len(a)
        /\ Len(s) + 1 \in 1..Len(a)
    BY <1>1, <1>2
  <1>4. In(a, n) <=> In(s, n) \/ x = n
    BY <1>3 DEF In
  <1>5. ASSUME Once(s, n), x = n => ~In(s, n) PROVE Once(a, n)
    BY <1>3, <1>5 DEF Once, In
  <1>6. QED BY <1>2, <1>4, <1>5

\* The first name leaves the rotation.
LEMMA InTail ==
    ASSUME NEW s \in Seq(Int), s # <<>>, NEW n
    PROVE  /\ Once(s, n) => /\ Once(Tail(s), n)
                            /\ In(Tail(s), n) <=> In(s, n) /\ Head(s) # n
           /\ Head(s) # n => (In(Tail(s), n) <=> In(s, n))
  <1>1. PICK a : a = Tail(s)
    OBVIOUS
  <1>2. /\ Len(s) \in Nat /\ 1 \in 1..Len(s) /\ Len(a) = Len(s) - 1
        /\ Head(s) = s[1]
        /\ \A i \in 1..Len(a) : i + 1 \in 1..Len(s) /\ a[i] = s[i + 1] /\ i + 1 # 1
        /\ \A i \in 1..Len(s) : i = 1 \/ (i - 1 \in 1..Len(a) /\ a[i - 1] = s[i])
        /\ \A i, j \in 1..Len(a) : i + 1 = j + 1 => i = j
    BY <1>1
  <1>3. Once(s, n) => Once(a, n)
    BY <1>2 DEF Once
  <1>4. Once(s, n) /\ Head(s) = n => ~In(a, n)
    BY <1>2 DEF Once, In
  <1>5. Head(s) # n => (In(a, n) <=> In(s, n))
    <2>1. ASSUME In(a, n) PROVE In(s, n)
      <3>1. PICK i \in 1..Len(a) : a[i] = n
        BY <2>1 DEF In
      <3>2. i + 1 \in 1..Len(s) /\ s[i + 1] = n
        BY <1>2, <3>1
      <3>3. QED BY <3>2 DEF In
    <2>2. ASSUME In(s, n), Head(s) # n PROVE In(a, n)
      <3>1. PICK i \in 1..Len(s) : s[i] = n
        BY <2>2 DEF In
      <3>2. i # 1
        BY <1>2, <2>2, <3>1
      <3>3. i - 1 \in 1..Len(a) /\ a[i - 1] = n
        BY <1>2, <3>1, <3>2
      <3>4. QED BY <3>3 DEF In
    <2>3. QED BY <2>1, <2>2
  <1>6. QED BY <1>1, <1>3, <1>4, <1>5

\* A follower is enrolled, and offered for the first time.
LEMMA EnrolledToken ==
    ASSUME SafeInv, RegisterInv, FoerInv, NEW m \in Msg, NEW v \in Seq(Write),
           Enrols(m, v), NEW n \in ServerKeys, Token(n)
    PROVE  Token(n)'
  <1>1. /\ Handles(Master, m, v) /\ IsFollower(m.name) /\ m.name \in Int
        /\ \A i \in 1..Len(v) : v[i].msg.name = m.name /\ v[i].to # DnsNode
        /\ mqFoers' = Append(mqFoers, m.name)
        /\ serverNames' = Append(serverNames, m.name)
        /\ UNCHANGED <<pname, cstate, cmsg>>
    BY DEF Enrols, Handles, Msg
  <1>2. /\ \A w \in InFlight(queue', out') :
              w \in InFlight(queue, out) \/ \E i \in 1..Len(v) : w = v[i]
        /\ \A w \in InFlight(queue, out) :
              w \in InFlight(queue', out') \/ w = Send(pname[Master], m)
        /\ out[Master] = <<>> /\ out'[Master] = v
    BY <1>1, HandledFlight
  <1>3. Send(pname[Master], m).msg = m
    BY DEF Send
  <1>4. serverNames \in Seq(Int) /\ mqFoers \in Seq(Int)
    BY DEF SafeInv, TypeInv, TypeOK
  <1>5. ~In(mqFoers, m.name) /\ m.name # MasterNode
    <2>1. ~In(mqFoers, m.name)
      BY EnrolsFoers
    <2>2. PICK f \in Followers : m.name = pname[f] /\ pname[f] # NoName
      BY <1>1 DEF IsFollower
    <2>3. f \in Procs \ {Master}
      BY ServerAssumption DEF Procs, Servers
    <2>4. QED BY <2>1, <2>2, <2>3 DEF SafeInv, TypeInv, NameInv, MasterNode
  <1>6. \A x : x # m.name =>
            (OnItsWay(InFlight(queue', out'), x) <=> OnItsWay(InFlight(queue, out), x))
    BY <1>1, <1>2, <1>3 DEF OnItsWay
  <1>7. \A c \in Clients : cstate[c] = "registering" => pname[c] # m.name
    BY <1>1, ClientNames DEF SafeInv, Connected
  <1>8. \A c \in Clients : Carries(c, n)' <=> Carries(c, n)
    BY <1>1, <1>6, <1>7, SameCarries
  <1>9. 1..Len(<<>>) = {}
    OBVIOUS
  <1>10. /\ ~PutBy(out[Master], n) /\ ~PutBy(out'[Master], n)
         /\ PutOnceBy(out'[Master], n)
    BY <1>1, <1>2, <1>9 DEF PutBy, PutOnceBy, PutsBack
  <1>11. /\ In(serverNames', n) <=> In(serverNames, n) \/ m.name = n
         /\ In(mqFoers', n) <=> In(mqFoers, n) \/ m.name = n
         /\ Once(serverNames, n) /\ (m.name = n => ~In(serverNames, n))
               => Once(serverNames', n)
    BY <1>1, <1>4, InAppended
  <1>12. m.name = n => ~In(serverNames, n) /\ ~Carried(n)
    BY <1>5 DEF Token, Enrolled
  <1>13. Once(serverNames', n)
    BY <1>11, <1>12 DEF Token
  <1>14. (Carried(n)' <=> Carried(n)) /\ CarriedOnce(n)'
    BY <1>8 DEF Token, Carried, CarriedOnce
  <1>15. Enrolled(n)' <=> Enrolled(n) \/ m.name = n
    BY <1>11 DEF Enrolled
  <1>16. QED BY <1>10, <1>11, <1>12, <1>13, <1>14, <1>15 DEF Token

\* A follower has its name: no server of that name is offered or known.
LEMMA IntroducedToken ==
    ASSUME SafeInv, RegisterInv, FoerInv, NEW f \in Followers, NEW w \in Write,
           Introduces(f, w), TokensOnce, NEW n \in ServerKeys'
    PROVE  Token(n)'
  <1>1. /\ Writes(f, w) /\ f # Master
        /\ w.msg.name = Oldest /\ pname' = [pname EXCEPT ![f] = Oldest] /\ Oldest >= 1
        /\ UNCHANGED <<serverNames, mqFoers, cstate, cmsg>>
    BY DEF Introduces
  <1>2. /\ pname \in [Procs -> Int] /\ f \in Procs /\ Servers \subseteq Procs
        /\ Master \in Procs /\ Clients \cap Followers = {} /\ Clients \subseteq Procs
    BY ServerAssumption DEF SafeInv, TypeInv, TypeOK, Procs, Servers
  <1>3. /\ \A z : z \in InFlight(queue', out') <=> z \in InFlight(queue, out) \/ z = w
        /\ out'[Master] = out[Master]
    BY <1>1, <1>2, WrittenFlight
  <1>4. \A c \in Clients : cstate[c] = "registering" => pname[c] # Oldest
    BY ClientNames DEF SafeInv, Connected
  <1>5. \A x : x # Oldest =>
           (OnItsWay(InFlight(queue', out'), x) <=> OnItsWay(InFlight(queue, out), x))
    BY <1>1, <1>3 DEF OnItsWay
  <1>6. \A c \in Clients : pname'[c] = pname[c]
    BY <1>1, <1>2
  <1>7. \A c \in Clients : Carries(c, n)' <=> Carries(c, n)
    BY <1>1, <1>4, <1>5, <1>6, SameCarries
  <1>8. CASE n \in ServerKeys
    <2>1. Token(n)
      BY <1>8 DEF TokensOnce
    <2>2. PutOnceBy(out'[Master], n)
      BY <1>3, <2>1 DEF Token
    <2>3. QED BY <1>1, <1>3, <1>7, <2>1, <2>2, SameToken
  <1>9. CASE n \notin ServerKeys
    <2>1. n = Oldest
      BY <1>1, <1>2, <1>9 DEF ServerKeys
    <2>2. \A x : IsServer(x) => x # Oldest
      BY ServerNames DEF SafeInv
    <2>3. ~In(serverNames, n)
      BY <2>1, <2>2 DEF In, SafeInv, DictInv
    <2>4. \A c \in Clients : ~Carries(c, n)
      BY <2>1, <2>2 DEF Carries, SafeInv, ClientInv
    <2>5. \A i \in 1..Len(out[Master]) : ~PutsBack(out[Master][i], n)
      <3>1. \A i \in 1..Len(out[Master]) : out[Master][i] \in InFlight(queue, out)
        BY <1>2, FlightCases
      <3>2. QED BY <2>1, <2>2, <3>1 DEF PutsBack, SafeInv, FlightInv, WellFormed
    <2>6. ~In(mqFoers, n) /\ n # MasterNode
      BY <1>1, <2>1, IntroducesFoers DEF MasterNode
    <2>7. /\ Once(serverNames, n)
          /\ PutOnceBy(out[Master], n) /\ ~PutBy(out[Master], n)
      BY <2>3, <2>5 DEF Once, In, PutOnceBy, PutBy
    <2>8. Token(n)
      BY <2>3, <2>4, <2>6, <2>7 DEF Token, Carried, CarriedOnce, Enrolled
    <2>9. QED BY <1>1, <1>3, <1>7, <2>7, <2>8, SameToken
  <1>10. QED BY <1>8, <1>9

\* A client's registration is written: it carries its server as before.
LEMMA AppliedToken ==
    ASSUME SafeInv, NEW c \in Clients, NEW w \in Write, Applies(c, w), NEW n, Token(n)
    PROVE  Token(n)'
  <1>1. /\ Writes(c, w) /\ c # Master
        /\ w.msg.type = "REGISTER" /\ w.msg.name = Oldest
        /\ cstate[c] = "lookup" /\ cstate' = [cstate EXCEPT ![c] = "registering"]
        /\ pname' = [pname EXCEPT ![c] = Oldest]
        /\ \E m \in Msg : m.server = cmsg[c].server /\ cmsg' = [cmsg EXCEPT ![c] = m]
        /\ UNCHANGED <<serverNames, mqFoers>>
    BY DEF Applies
  <1>2. /\ pname \in [Procs -> Int] /\ cstate \in [Clients -> CStates]
        /\ cmsg \in [Clients -> Msg] /\ c \in Procs
        /\ Master \in Procs /\ Clients \subseteq Procs
    BY DEF SafeInv, TypeInv, TypeOK, Procs, Servers
  <1>3. /\ \A z : z \in InFlight(queue', out') <=> z \in InFlight(queue, out) \/ z = w
        /\ out'[Master] = out[Master]
    BY <1>1, <1>2, WrittenFlight
  <1>4. \A d \in Clients : cstate[d] = "registering" => pname[d] # Oldest
    BY ClientNames DEF SafeInv, Connected
  <1>5. \A x : x # Oldest =>
           (OnItsWay(InFlight(queue', out'), x) <=> OnItsWay(InFlight(queue, out), x))
    BY <1>1, <1>3 DEF OnItsWay
  <1>6. \A d \in Clients \ {c} : /\ pname'[d] = pname[d] /\ cstate'[d] = cstate[d]
                                 /\ cmsg'[d] = cmsg[d]
    BY <1>1, <1>2
  <1>7. \A d \in Clients \ {c} : Carries(d, n)' <=> Carries(d, n)
    BY <1>4, <1>5, <1>6, SameCarries
  <1>8. /\ pname'[c] = Oldest /\ cstate'[c] = "registering"
        /\ cmsg'[c].server = cmsg[c].server
    BY <1>1, <1>2
  <1>9. OnItsWay(InFlight(queue', out'), Oldest)
    BY <1>1, <1>3 DEF OnItsWay
  <1>10. Carries(c, n)' <=> Carries(c, n)
    BY <1>1, <1>8, <1>9 DEF Carries
  <1>11. PutOnceBy(out'[Master], n)
    BY <1>3 DEF Token
  <1>12. QED BY <1>1, <1>3, <1>7, <1>10, <1>11, SameToken

\* A client writes a call: no registration comes or goes.
LEMMA CalledToken ==
    ASSUME SafeInv, NEW c \in Clients, NEW w \in Write, CallsWith(c, w), NEW n, Token(n)
    PROVE  Token(n)'
  <1>1. /\ Writes(c, w) /\ c # Master /\ w.msg.type # "REGISTER"
        /\ cstate[c] = "idle" /\ cstate' = [cstate EXCEPT ![c] = "waiting"]
        /\ \E m \in Msg : m.server = cmsg[c].server /\ cmsg' = [cmsg EXCEPT ![c] = m]
        /\ UNCHANGED <<serverNames, mqFoers, pname>>
    BY DEF CallsWith, Calls
  <1>2. /\ cstate \in [Clients -> CStates] /\ cmsg \in [Clients -> Msg]
        /\ Master \in Procs
    BY DEF SafeInv, TypeInv, TypeOK, Procs, Servers
  <1>3. /\ \A z : z \in InFlight(queue', out') <=> z \in InFlight(queue, out) \/ z = w
        /\ out'[Master] = out[Master]
    BY <1>1, <1>2, WrittenFlight
  <1>4. \A x : OnItsWay(InFlight(queue', out'), x) <=> OnItsWay(InFlight(queue, out), x)
    BY <1>1, <1>3 DEF OnItsWay
  <1>5. \A d \in Clients \ {c} : cstate'[d] = cstate[d] /\ cmsg'[d] = cmsg[d]
    BY <1>1, <1>2
  <1>6. \A d \in Clients \ {c} : Carries(d, n)' <=> Carries(d, n)
    BY <1>1, <1>4, <1>5, SameCarries
  <1>7. cstate'[c] = "waiting"
    BY <1>1, <1>2
  <1>8. Carries(c, n)' <=> Carries(c, n)
    BY <1>1, <1>7 DEF Carries
  <1>9. PutOnceBy(out'[Master], n)
    BY <1>3 DEF Token
  <1>10. QED BY <1>1, <1>3, <1>6, <1>8, <1>9, SameToken

\* A client that reads its ACK has no registration on its way.
LEMMA TakenToken ==
    ASSUME SafeInv, NEW c, Takes(c), NEW n, Token(n)
    PROVE  Token(n)'
  <1>1. /\ c \in Clients
        /\ UNCHANGED <<out, pname, serverNames, mqFoers>>
        /\ InFlight(queue', out') \subseteq InFlight(queue, out)
        /\ \A w \in InFlight(queue, out) :
              w \in InFlight(queue', out') \/ w.msg.type # "REGISTER"
        /\ \A d \in Clients \ {c} : cstate'[d] = cstate[d] /\ cmsg'[d] = cmsg[d]
        /\ cstate[c] \in {"registering", "waiting", "idle"}
        /\ cstate'[c] \in {"idle", "closed"}
        /\ cstate[c] = "registering" => Quiet(queue', out, pname[c])
    BY DEF Takes
  <1>2. \A x : OnItsWay(InFlight(queue', out'), x) <=> OnItsWay(InFlight(queue, out), x)
    BY <1>1 DEF OnItsWay
  <1>3. \A d \in Clients \ {c} : Carries(d, n)' <=> Carries(d, n)
    BY <1>1, <1>2, SameCarries
  <1>4. cstate[c] = "registering" => ~OnItsWay(InFlight(queue', out'), pname[c])
    BY <1>1 DEF OnItsWay, Quiet, Conversation
  <1>5. Carries(c, n)' <=> Carries(c, n)
    BY <1>1, <1>2, <1>4 DEF Carries
  <1>6. PutOnceBy(out'[Master], n)
    BY <1>1 DEF Token
  <1>7. QED BY <1>1, <1>3, <1>5, <1>6, SameToken

\* A client takes the first server of the rotation: it carries it now.
LEMMA LookedUpToken ==
    ASSUME SafeInv, NEW c \in Clients, LookupServer(c), NEW n, Token(n)
    PROVE  Token(n)'
  <1>1. /\ cstate[c] = "start" /\ serverNames # <<>>
        /\ cmsg' = [cmsg EXCEPT ![c].server = Head(serverNames)]
        /\ serverNames' = Tail(serverNames)
        /\ cstate' = [cstate EXCEPT ![c] = "lookup"]
        /\ UNCHANGED <<queue, out, mqFoers, pname>>
    BY DEF LookupServer
  <1>2. /\ cstate \in [Clients -> CStates] /\ cmsg \in [Clients -> Msg]
        /\ serverNames \in Seq(Int)
    BY DEF SafeInv, TypeInv, TypeOK
  <1>3. /\ \A d \in Clients \ {c} : cstate'[d] = cstate[d] /\ cmsg'[d] = cmsg[d]
        /\ cstate'[c] = "lookup" /\ cmsg'[c].server = Head(serverNames)
    BY <1>1, <1>2 DEF Msg
  <1>4. \A d \in Clients \ {c} : Carries(d, n)' <=> Carries(d, n)
    BY <1>1, <1>3, SameCarries
  <1>5. ~Carries(c, n) /\ (Carries(c, n)' <=> Head(serverNames) = n)
    BY <1>1, <1>3 DEF Carries
  <1>6. Once(serverNames, n)
    BY DEF Token
  <1>7. /\ Once(serverNames', n)
        /\ In(serverNames', n) <=> In(serverNames, n) /\ Head(serverNames) # n
    BY <1>1, <1>2, <1>6, InTail
  <1>8. Head(serverNames) = n => In(serverNames, n)
    BY <1>1, <1>2 DEF In
  <1>9. CASE Head(serverNames) # n
    BY <1>1, <1>4, <1>5, <1>7, <1>9 DEF Token, Carried, CarriedOnce, Enrolled
  <1>10. CASE Head(serverNames) = n
    <2>1. /\ ~Carried(n) /\ ~PutBy(out[Master], n) /\ PutOnceBy(out[Master], n)
          /\ Enrolled(n)
      BY <1>8, <1>10 DEF Token
    <2>2. Carried(n)' /\ CarriedOnce(n)'
      BY <1>4, <1>5, <1>10, <2>1 DEF Carried, CarriedOnce
    <2>3. Enrolled(n)'
      BY <1>1, <2>1 DEF Enrolled
    <2>4. QED BY <1>1, <1>7, <1>10, <2>1, <2>2, <2>3 DEF Token
  <1>11. QED BY <1>9, <1>10

\* A write of another process than the master moves no server; the master's
\* first write to the DNS queue offers the server again.
LEMMA WrittenToken ==
    ASSUME SafeInv, RegisterInv, NEW p \in Procs, MqWrite(p),
           UNCHANGED <<cstate, cmsg, held>>, NEW n \in ServerKeys, Token(n)
    PROVE  Token(n)'
  <1>1. /\ TypeInv /\ serverNames \in Seq(Int) /\ out \in [Procs -> Seq(Write)]
        /\ out[p] # <<>> /\ out' = [out EXCEPT ![p] = Tail(@)]
        /\ UNCHANGED <<mqFoers, pname, cstate, cmsg>>
    BY DEF SafeInv, TypeInv, TypeOK, Write, MqWrite
  <1>2. PICK h : h = Head(out[p])
    OBVIOUS
  <1>3. h \in Write /\ out[p][1] = h /\ 1 \in 1..Len(out[p])
    BY <1>1, <1>2
  <1>4. /\ h.to = DnsNode => serverNames' = Append(serverNames, h.msg.server)
        /\ h.to # DnsNode => serverNames' = serverNames
    <2>1. h.to = DnsNode => DnsNode \notin DOMAIN queue
      BY DEF RegisterInv, DnsNode
    <2>2. QED BY <1>2, <2>1 DEF MqWrite, DnsNode, NoName
  <1>5. \A c \in Clients : Carries(c, n)' <=> Carries(c, n)
    <2> SUFFICES ASSUME NEW c \in Clients PROVE Carries(c, n)' <=> Carries(c, n)
      OBVIOUS
    <2>1. InFlight(queue', out') \subseteq InFlight(queue, out)
      BY <1>1, WriteFlight
    <2>2. ASSUME cstate[c] = "registering", cmsg[c].server = n,
                 NEW w \in InFlight(queue, out), w.msg.type = "REGISTER",
                 w.msg.name = pname[c]
          PROVE  w \in InFlight(queue', out')
      <3>1. w.to # NoName /\ w.to # DnsNode
        BY <2>2, ClientsOwn
      <3>2. QED BY <1>1, <3>1, WriteKeeps
    <2>3. cstate[c] = "registering" /\ cmsg[c].server = n =>
             (OnItsWay(InFlight(queue', out'), pname[c])
                <=> OnItsWay(InFlight(queue, out), pname[c]))
      BY <2>1, <2>2 DEF OnItsWay
    <2>4. QED BY <1>1, <2>3, SameCarries
  <1>6. CASE p # Master
    <2>1. h.to # DnsNode
      BY <1>3, <1>6 DEF RegisterInv
    <2>2. out'[Master] = out[Master]
      BY <1>1, <1>6 DEF Procs, Servers
    <2>3. PutOnceBy(out'[Master], n)
      BY <2>2 DEF Token
    <2>4. QED BY <1>1, <1>4, <1>5, <2>1, <2>2, <2>3, SameToken
  <1>7. CASE p = Master
    <2>1. PICK a : a = out[Master]
      OBVIOUS
    <2>2. PICK b : b = Tail(a)
      OBVIOUS
    <2>3. out'[Master] = b /\ a \in Seq(Write) /\ a # <<>> /\ h = a[1]
      BY <1>1, <1>3, <1>7, <2>1, <2>2
    <2>4. /\ Len(a) \in Nat /\ 1 \in 1..Len(a)
          /\ \A i \in 1..Len(b) : i + 1 \in 1..Len(a) /\ b[i] = a[i + 1] /\ i + 1 # 1
          /\ \A i \in 1..Len(a) : i = 1 \/ (i - 1 \in 1..Len(b) /\ b[i - 1] = a[i])
          /\ \A i, j \in 1..Len(b) : i + 1 = j + 1 => i = j
      BY <2>2, <2>3
    <2>5. PutOnceBy(a, n)
      BY <2>1 DEF Token
    <2>6. PutOnceBy(b, n)
      BY <2>4, <2>5 DEF PutOnceBy
    <2>7. CASE PutsBack(h, n)
      <3>1. PutBy(out[Master], n) /\ ~PutBy(b, n)
        BY <2>1, <2>3, <2>4, <2>5, <2>7 DEF PutBy, PutOnceBy
      <3>2. h.msg.server = n /\ h.to = DnsNode /\ n \in Int
        BY <2>7, KeyIsServer DEF PutsBack
      <3>3. ~In(serverNames, n) /\ ~Carried(n) /\ Enrolled(n) /\ Once(serverNames, n)
        BY <3>1 DEF Token
      <3>4. In(serverNames', n) /\ Once(serverNames', n)
        <4>1. serverNames' = Append(serverNames, n)
          BY <1>4, <3>2
        <4>2. In(Append(serverNames, n), n) /\ Once(Append(serverNames, n), n)
          BY <1>1, <3>2, <3>3, InAppended
        <4>3. QED BY <4>1, <4>2
      <3>5. ~Carried(n)' /\ CarriedOnce(n)'
        BY <1>5, <3>3 DEF Carried, CarriedOnce
      <3>6. Enrolled(n)'
        BY <1>1, <3>3 DEF Enrolled
      <3>7. QED BY <2>3, <2>6, <3>1, <3>4, <3>5, <3>6 DEF Token
    <2>8. CASE ~PutsBack(h, n)
      <3>1. PutBy(b, n) <=> PutBy(out[Master], n)
        BY <2>1, <2>3, <2>4, <2>8 DEF PutBy
      <3>2. CASE h.to # DnsNode
        BY <1>1, <1>4, <1>5, <2>3, <2>6, <3>1, <3>2, SameToken
      <3>3. CASE h.to = DnsNode
        <4>1. h.msg.server # n /\ h.msg.server \in Int
          BY <1>3, <2>8, <3>3 DEF PutsBack, Write, Msg
        <4>2. /\ In(serverNames', n) <=> In(serverNames, n)
              /\ Once(serverNames, n) => Once(serverNames', n)
          <5>1. PICK x : x = h.msg.server
            OBVIOUS
          <5>2. serverNames' = Append(serverNames, x) /\ x # n /\ x \in Int
            BY <1>4, <3>3, <4>1, <5>1
          <5>3. /\ In(Append(serverNames, x), n) <=> In(serverNames, n)
                /\ Once(serverNames, n) => Once(Append(serverNames, x), n)
            BY <1>1, <5>2, InAppended
          <5>4. QED BY <5>2, <5>3
        <4>3. /\ Carried(n)' <=> Carried(n)
              /\ CarriedOnce(n) => CarriedOnce(n)'
          BY <1>5 DEF Carried, CarriedOnce
        <4>4. Enrolled(n)' <=> Enrolled(n)
          BY <1>1 DEF Enrolled
        <4>5. QED BY <2>3, <2>6, <3>1, <4>2, <4>3, <4>4 DEF Token
      <3>4. QED BY <3>2, <3>3
    <2>9. QED BY <2>7, <2>8
  <1>8. QED BY <1>6, <1>7

\* No step gives a name to the master or takes one from a server: only a
\* follower that starts has a new name.
LEMMA KeysStay ==
    ASSUME SafeInv, RegisterInv, Next
    PROVE  \/ ServerKeys' = ServerKeys
           \/ \E f \in Followers : \E w \in Write : Introduces(f, w)
  <1>1. ASSUME UNCHANGED pname PROVE ServerKeys' = ServerKeys
    BY <1>1 DEF ServerKeys
  <1>2. ASSUME NEW c \in Clients, NEW w \in Write, Applies(c, w)
        PROVE  ServerKeys' = ServerKeys
    <2>1. /\ pname \in [Procs -> Int] /\ c \notin Servers /\ Servers \subseteq Procs
          /\ pname' = [pname EXCEPT ![c] = Oldest]
      BY <1>2, ServerAssumption DEF SafeInv, TypeInv, TypeOK, Procs, Servers, Applies
    <2>2. \A s \in Servers : pname'[s] = pname[s]
      BY <2>1
    <2>3. QED BY <2>2 DEF ServerKeys
  <1>3. ASSUME NEW s \in Servers, QuietStep(s) \/ PassesOn(s) PROVE UNCHANGED pname
    BY <1>3 DEF QuietStep, PassesOn, Handles
  <1>4. ASSUME NEW m \in Msg, NEW v \in Seq(Write), Acknowledges(m, v) \/ Enrols(m, v)
        PROVE  UNCHANGED pname
    BY <1>4 DEF Acknowledges, Enrols, Handles
  <1>5. ASSUME NEW p \in Procs, MqWrite(p) PROVE UNCHANGED pname
    BY <1>5 DEF MqWrite
  <1>6. ASSUME NEW c \in Clients, NEW w \in Write, CallsWith(c, w) PROVE UNCHANGED pname
    BY <1>6 DEF CallsWith
  <1>7. ASSUME NEW c \in Clients, Takes(c) \/ LookupServer(c) PROVE UNCHANGED pname
    BY <1>7 DEF Takes, LookupServer
  <1>8. QED BY <1>1, <1>2, <1>3, <1>4, <1>5, <1>6, <1>7, Steps

\* Every server stays in one place.
LEMMA TokenStep ==
    ASSUME SafeInv, RegisterInv, FoerInv, TokensOnce, Next
    PROVE  TokensOnce'
  <1> SUFFICES ASSUME NEW n \in ServerKeys' PROVE Token(n)'
    BY DEF TokensOnce
  <1>1. CASE \E f \in Followers : \E w \in Write : Introduces(f, w)
    BY <1>1, IntroducedToken
  <1>2. CASE ServerKeys' = ServerKeys
    <2>1. n \in ServerKeys /\ Token(n)
      BY <1>2 DEF TokensOnce
    <2>2. ASSUME NEW s \in Servers, QuietStep(s) \/ PassesOn(s) PROVE Token(n)'
      BY <2>1, <2>2, QuietToken, PassedToken
    <2>3. ASSUME NEW m \in Msg, NEW v \in Seq(Write), Acknowledges(m, v) \/ Enrols(m, v)
          PROVE  Token(n)'
      BY <2>1, <2>3, AcknowledgedToken, EnrolledToken
    <2>4. ASSUME NEW p \in Procs, MqWrite(p) /\ UNCHANGED <<cstate, cmsg, held>>
          PROVE  Token(n)'
      BY <2>1, <2>4, WrittenToken
    <2>5. ASSUME NEW c \in Clients, NEW w \in Write, Applies(c, w) \/ CallsWith(c, w)
          PROVE  Token(n)'
      BY <2>1, <2>5, AppliedToken, CalledToken
    <2>6. ASSUME NEW c \in Clients, Takes(c) PROVE Token(n)'
      BY <2>1, <2>6, TakenToken
    <2>7. ASSUME NEW c \in Clients, LookupServer(c) PROVE Token(n)'
      BY <2>1, <2>7, LookedUpToken
    <2>8. QED BY <1>1, <2>2, <2>3, <2>4, <2>5, <2>6, <2>7, Steps
  <1>3. QED BY <1>1, <1>2, KeysStay

\* The first server is the master, and it is offered.
LEMMA TokenInit == Init => TokenInv
  <1> SUFFICES ASSUME Init PROVE TokenInv
    OBVIOUS
  <1>1. SafeInv /\ RegisterInv /\ FoerInv
    BY SafeInit, CycleInit DEF CycleInv
  <1>2. /\ serverNames = <<MasterNode>> /\ mqFoers = <<>> /\ out = [p \in Procs |-> <<>>]
        /\ pname = [p \in Procs |-> IF p = Master THEN MasterNode ELSE NoName]
        /\ cstate = [c \in Clients |-> "start"]
    BY DEF Init, ServerInit
  <1>3. Master \in Procs /\ Servers \subseteq Procs
    BY DEF Procs, Servers
  <1>4. 1..Len(<<>>) = {} /\ Len(<<MasterNode>>) = 1 /\ 1..1 = {1}
    OBVIOUS
  <1>5. \A c \in Clients : cstate[c] = "start"
    BY <1>2
  <1>6. ASSUME NEW n \in ServerKeys PROVE Token(n)
    <2>1. n = MasterNode
      BY <1>2, <1>3, <1>6 DEF ServerKeys
    <2>2. Once(serverNames, n) /\ In(serverNames, n) /\ Enrolled(n)
      BY <1>2, <1>4, <2>1 DEF Once, In, Enrolled
    <2>3. out[Master] = <<>>
      BY <1>2, <1>3
    <2>4. PutOnceBy(out[Master], n) /\ ~PutBy(out[Master], n)
      BY <1>4, <2>3 DEF PutOnceBy, PutBy
    <2>5. ~Carried(n) /\ CarriedOnce(n)
      BY <1>5 DEF Carried, CarriedOnce, Carries
    <2>6. QED BY <2>2, <2>4, <2>5 DEF Token
  <1>7. QED BY <1>1, <1>6 DEF TokenInv, TokensOnce

\* Each server is in one place in every state: nobody offers it twice, and a
\* client that takes it and registers gives it back.
THEOREM TokenInvariant == Spec => []TokenInv
  <1>1. TokenInv /\ [Next]_vars => TokenInv'
    <2> SUFFICES ASSUME TokenInv, [Next]_vars PROVE TokenInv'
      OBVIOUS
    <2>1. SafeInv /\ RegisterInv /\ FoerInv /\ TokensOnce
      BY DEF TokenInv
    <2>2. SafeInv' /\ RegisterInv' /\ FoerInv'
      BY <2>1, SafeNext, RegisterNext, FoerNext
    <2>3. CASE Next
      BY <2>1, <2>2, <2>3, TokenStep DEF TokenInv
    <2>4. CASE UNCHANGED vars
      <3>1. UNCHANGED <<serverNames, mqFoers, out, queue, pname, cstate, cmsg>>
        BY <2>4 DEF vars, serverVars
      <3>2. ServerKeys' = ServerKeys
        BY <3>1 DEF ServerKeys
      <3>3. ASSUME NEW n \in ServerKeys PROVE Token(n)'
        <4>1. \A c \in Clients : Carries(c, n)' <=> Carries(c, n)
          BY <3>1, SameCarries
        <4>2. Token(n)
          BY <2>1 DEF TokensOnce
        <4>3. PutOnceBy(out'[Master], n)
          BY <3>1, <4>2 DEF Token
        <4>4. QED BY <3>1, <4>1, <4>2, <4>3, SameToken
      <3>4. QED BY <2>2, <3>2, <3>3 DEF TokenInv, TokensOnce
    <2>5. QED BY <2>3, <2>4
  <1>2. QED BY <1>1, TokenInit, PTL DEF Spec

-----------------------------------------------------------------------------
(* One token for each server.                                              *)

\* Only a message of the conversation n that is in some queue or write is in a
\* slot of it, and every such message is.
LEMMA SlotsAreAll ==
    ASSUME NEW n
    PROVE  /\ \A x \in DOMAIN queue : \A i \in 1..Len(queue[x]) :
                 Conversation(queue[x][i], n) => <<x, i>> \in QueueSlots(n)
           /\ \A p \in Procs : \A i \in 1..Len(out[p]) :
                 Conversation(out[p][i].msg, n) => <<p, i>> \in OutSlots(n)
  <1> DEFINE A(x) == {x} \X (1..Len(queue[x]))
             B(p) == {p} \X (1..Len(out[p]))
             U == UNION {A(x) : x \in DOMAIN queue}
             V == UNION {B(p) : p \in Procs}
  <1>1. /\ \A x : \A i \in 1..Len(queue[x]) : <<x, i>> \in A(x)
        /\ \A p : \A i \in 1..Len(out[p]) : <<p, i>> \in B(p)
    OBVIOUS
  <1>2. /\ \A s \in U : Conversation(queue[s[1]][s[2]], n) => s \in QueueSlots(n)
        /\ \A s \in V : Conversation(out[s[1]][s[2]].msg, n) => s \in OutSlots(n)
    BY DEF QueueSlots, OutSlots
  <1> HIDE DEF A, B
  <1>3. /\ \A x \in DOMAIN queue : A(x) \subseteq U
        /\ \A p \in Procs : B(p) \subseteq V
    OBVIOUS
  <1> HIDE DEF U, V
  <1>4. ASSUME NEW x \in DOMAIN queue, NEW i \in 1..Len(queue[x]),
               Conversation(queue[x][i], n)
        PROVE  <<x, i>> \in QueueSlots(n)
    <2>1. PICK s : s = <<x, i>>
      OBVIOUS
    <2>2. s \in U /\ s[1] = x /\ s[2] = i
      BY <1>1, <1>3, <2>1
    <2>3. QED BY <1>2, <1>4, <2>1, <2>2
  <1>5. ASSUME NEW p \in Procs, NEW i \in 1..Len(out[p]), Conversation(out[p][i].msg, n)
        PROVE  <<p, i>> \in OutSlots(n)
    <2>1. PICK s : s = <<p, i>>
      OBVIOUS
    <2>2. s \in V /\ s[1] = p /\ s[2] = i
      BY <1>1, <1>3, <2>1
    <2>3. QED BY <1>2, <1>5, <2>1, <2>2
  <1>6. QED BY <1>4, <1>5

\* A registration in the conversation of the client c is there when c carries
\* its server.
CarriedIn(c) ==
    \/ \E s \in QueueSlots(pname[c]) : queue[s[1]][s[2]].type = "REGISTER"
    \/ \E s \in OutSlots(pname[c]) : out[s[1]][s[2]].msg.type = "REGISTER"

\* A client carries a server from its draw until its registration has arrived.
LEMMA CarriedWhere ==
    ASSUME SafeInv, RegisterInv, NEW c \in Clients, NEW n
    PROVE  Carries(c, n) <=>
              cmsg[c].server = n /\ (cstate[c] = "lookup" \/ CarriedIn(c))
  <1>1. ASSUME CarriedIn(c) PROVE OnItsWay(InFlight(queue, out), pname[c])
    <2>1. CASE \E s \in QueueSlots(pname[c]) : queue[s[1]][s[2]].type = "REGISTER"
      <3>1. PICK s \in QueueSlots(pname[c]) : queue[s[1]][s[2]].type = "REGISTER"
        BY <2>1
      <3>2. PICK x \in DOMAIN queue : \E i \in 1..Len(queue[x]) :
               s = <<x, i>> /\ Conversation(queue[x][i], pname[c])
        BY SlotCases
      <3>3. PICK i \in 1..Len(queue[x]) : s = <<x, i>> /\ Conversation(queue[x][i], pname[c])
        BY <3>2
      <3>4. queue[x][i].type = "REGISTER" /\ queue[x][i].name = pname[c]
        BY <3>1, <3>3 DEF Conversation
      <3>5. PICK w : w = Send(x, queue[x][i])
        OBVIOUS
      <3>6. w \in InFlight(queue, out) /\ w.msg = queue[x][i]
        BY <3>5, FlightCases DEF Send
      <3>7. QED BY <3>4, <3>6 DEF OnItsWay
    <2>2. CASE \E s \in OutSlots(pname[c]) : out[s[1]][s[2]].msg.type = "REGISTER"
      <3>1. PICK s \in OutSlots(pname[c]) : out[s[1]][s[2]].msg.type = "REGISTER"
        BY <2>2
      <3>2. PICK p \in Procs : \E i \in 1..Len(out[p]) :
               s = <<p, i>> /\ Conversation(out[p][i].msg, pname[c])
        BY SlotCases
      <3>3. PICK i \in 1..Len(out[p]) : s = <<p, i>> /\ Conversation(out[p][i].msg, pname[c])
        BY <3>2
      <3>4. out[p][i].msg.type = "REGISTER" /\ out[p][i].msg.name = pname[c]
        BY <3>1, <3>3 DEF Conversation
      <3>5. out[p][i] \in InFlight(queue, out)
        BY FlightCases
      <3>6. QED BY <3>4, <3>5 DEF OnItsWay
    <2>3. QED BY <1>1, <2>1, <2>2 DEF CarriedIn
  <1>2. ASSUME OnItsWay(InFlight(queue, out), pname[c])
        PROVE  CarriedIn(c)
    <2>1. PICK w \in InFlight(queue, out) : w.msg.type = "REGISTER" /\ w.msg.name = pname[c]
      BY <1>2 DEF OnItsWay
    <2>2. Conversation(w.msg, pname[c])
      BY <2>1 DEF Conversation
    <2>3. CASE \E x \in DOMAIN queue : \E i \in 1..Len(queue[x]) : w = Send(x, queue[x][i])
      <3>1. PICK x \in DOMAIN queue : \E i \in 1..Len(queue[x]) : w = Send(x, queue[x][i])
        BY <2>3
      <3>2. PICK i \in 1..Len(queue[x]) : w = Send(x, queue[x][i])
        BY <3>1
      <3>3. w.msg = queue[x][i]
        BY <3>2 DEF Send
      <3>4. <<x, i>> \in QueueSlots(pname[c])
        BY <2>2, <3>3, SlotsAreAll
      <3>5. QED BY <2>1, <3>3, <3>4 DEF CarriedIn
    <2>4. CASE \E p \in Procs : \E i \in 1..Len(out[p]) : w = out[p][i]
      <3>1. PICK p \in Procs : \E i \in 1..Len(out[p]) : w = out[p][i]
        BY <2>4
      <3>2. PICK i \in 1..Len(out[p]) : w = out[p][i]
        BY <3>1
      <3>3. <<p, i>> \in OutSlots(pname[c])
        BY <2>2, <3>2, SlotsAreAll
      <3>4. QED BY <2>1, <3>2, <3>3 DEF CarriedIn
    <2>5. QED BY <2>3, <2>4, FlightCases
  <1>3. ASSUME OnItsWay(InFlight(queue, out), pname[c])
        PROVE  cstate[c] = "registering"
    <2>1. PICK w \in InFlight(queue, out) : w.msg.type = "REGISTER" /\ w.msg.name = pname[c]
      BY <1>3 DEF OnItsWay
    <2>2. pname[c] >= 1
      BY <2>1, Registrant
    <2>3. Connected(c) /\ TypeInv
      BY <2>2 DEF Connected, SafeInv, TypeInv, QueueInv, NoName
    <2>4. ~IsFollower(pname[c]) /\ \A p \in Procs \ {c} : pname[p] # pname[c]
      BY <2>3, ClientNames
    <2>5. \E d \in Clients : cstate[d] = "registering" /\ w.msg.name = pname[d]
      BY <2>1, <2>4, Registrant
    <2>6. QED BY <2>1, <2>4, <2>5 DEF Procs
  <1>4. QED BY <1>1, <1>2, <1>3 DEF Carries

\* The size of a set with at most one element, by whether it has one.
LEMMA OneOrNone ==
    ASSUME NEW S, \A s, t \in S : s = t
    PROVE  Cardinality(S) = IF \E s : s \in S THEN 1 ELSE 0
  <1>1. CASE S = {}
    BY <1>1, FS_EmptySet
  <1>2. ASSUME NEW s \in S PROVE Cardinality(S) = 1
    <2>1. S = {s}
      BY <1>2
    <2>2. QED BY <2>1, FS_Singleton
  <1>3. QED BY <1>1, <1>2

\* lookup_server takes a server's name out of the DNS queue and
\* client_register puts it back after the ACK: whoever takes it and registers,
\* the name of a registered server is never lost and never there twice.
THEOREM ServersKept == Spec => []OneTokenPerServer
  <1>1. TokenInv => OneTokenPerServer
    <2> SUFFICES ASSUME TokenInv, NEW s \in Servers,
                        s = Master \/ \E i \in 1..Len(mqFoers) : mqFoers[i] = pname[s]
                 PROVE  Tokens(pname[s]) = 1
      BY DEF OneTokenPerServer
    <2>1. SafeInv /\ RegisterInv /\ TokensOnce
      BY DEF TokenInv
    <2>2. PICK n : n = pname[s]
      OBVIOUS
    <2>3. n = MasterNode \/ In(mqFoers, n)
      BY <2>1, <2>2 DEF In, SafeInv, TypeInv, NameInv
    <2>4. n # NoName
      BY <2>1, <2>3 DEF In, SafeInv, DictInv, IsFollower, MasterNode, NoName
    <2>5. Token(n) /\ Enrolled(n)
      BY <2>1, <2>2, <2>3, <2>4 DEF TokensOnce, ServerKeys, Enrolled
    <2> DEFINE A == {i \in 1..Len(serverNames) : serverNames[i] = n}
               B == {c \in Clients :
                       /\ cmsg[c].server = n
                       /\ \/ cstate[c] = "lookup"
                          \/ \E t \in QueueSlots(pname[c]) :
                                queue[t[1]][t[2]].type = "REGISTER"
                          \/ \E t \in OutSlots(pname[c]) :
                                out[t[1]][t[2]].msg.type = "REGISTER"}
               C == {i \in 1..Len(out[Master]) :
                       out[Master][i].to = DnsNode /\ out[Master][i].msg.server = n}
    <2>6. /\ \A i, j \in A : i = j
          /\ In(serverNames, n) <=> \E i : i \in A
      BY <2>5 DEF Token, Once, In
    <2>7. /\ \A c, d \in B : c = d
          /\ Carried(n) <=> \E c : c \in B
      <3>1. \A c : c \in B <=> c \in Clients /\ Carries(c, n)
        BY <2>1, CarriedWhere DEF CarriedIn
      <3> HIDE DEF B
      <3>2. QED BY <2>5, <3>1 DEF Token, Carried, CarriedOnce
    <2>8. /\ \A i, j \in C : i = j
          /\ PutBy(out[Master], n) <=> \E i : i \in C
      BY <2>5 DEF Token, PutOnceBy, PutBy, PutsBack
    <2>9. Tokens(n) = Cardinality(A) + Cardinality(B) + Cardinality(C)
      BY DEF Tokens
    <2> HIDE DEF A, B, C
    <2>10. /\ Cardinality(A) = IF In(serverNames, n) THEN 1 ELSE 0
           /\ Cardinality(B) = IF Carried(n) THEN 1 ELSE 0
           /\ Cardinality(C) = IF PutBy(out[Master], n) THEN 1 ELSE 0
      BY <2>6, <2>7, <2>8, OneOrNone
    <2>11. Tokens(n) = 1
      BY <2>5, <2>9, <2>10 DEF Token
    <2>12. QED BY <2>2, <2>11
  <1>2. QED BY <1>1, TokenInvariant, PTL
===============================================================================
