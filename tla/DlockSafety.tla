------------------------------ MODULE DlockSafety -----------------------------
(***************************************************************************)
(* The types and the safety of the lock service.  Names of queues are      *)
(* never shared; the servers' handlers and the clients' steps keep         *)
(* SafeInv, so it is inductive, and it implies that a lock has one holder, *)
(* that holders are on record, and that a client gets the true answer to   *)
(* its own call.  First the types, and what the operations on queues do to *)
(* the messages in flight; then what all handlers have in common: the      *)
(* message handled fits the client it is about, the answer does, and the   *)
(* messages of other clients still do.                                     *)
(***************************************************************************)
EXTENDS DlockInv, SequenceTheorems, FiniteSetTheorems, TLAPS

-----------------------------------------------------------------------------
(* Lemmas on the operators of LockServer.                                  *)

\* A message a server is about to handle is well formed.
LEMMA ReceivedType ==
    ASSUME TypeOK, NEW s \in Servers, HasMsg(s)
    PROVE  /\ Received(s) \in Msg
           /\ DOMAIN Popped(s) = DOMAIN queue
           /\ \A n \in DOMAIN queue : Popped(s)[n] \in Seq(Msg)
  BY DEF TypeOK, HasMsg, Received, Popped

\* mq_open keeps the queues there are and adds at most an empty one.
LEMMA MqOpenType ==
    ASSUME NEW q, DOMAIN q \subseteq Int,
           \A x \in DOMAIN q : q[x] \in Seq(Msg), NEW n \in Int
    PROVE  /\ DOMAIN MqOpen(q, n) = DOMAIN q \cup ({n} \ {NoName})
           /\ \A x \in DOMAIN MqOpen(q, n) : MqOpen(q, n)[x] \in Seq(Msg)
           /\ \A x \in DOMAIN q : MqOpen(q, n)[x] = q[x]
           /\ \A x \in DOMAIN MqOpen(q, n) \ DOMAIN q : MqOpen(q, n)[x] = <<>>
  BY DEF MqOpen

\* A function on 1..n is a sequence of length n.
LEMMA FunctionIsSeq ==
    ASSUME NEW S, NEW n \in Nat, NEW f \in [1..n -> S]
    PROVE  f \in Seq(S) /\ Len(f) = n
  <1>1. f \in Seq(S)
    BY SeqDef
  <1>2. Len(f) \in Nat /\ DOMAIN f = 1..Len(f)
    BY <1>1, LenProperties
  <1>3. 1..Len(f) = 1..n
    BY <1>2
  <1>4. QED BY <1>1, <1>2, <1>3

\* What ToFoers writes.
LEMMA ToFoersType ==
    ASSUME TypeOK, NEW m \in Msg, NEW t \in MsgTypes
    PROVE  /\ ToFoers(m, t) \in Seq(Write)
           /\ Len(ToFoers(m, t)) = Len(mqFoers)
           /\ \A i \in 1..Len(mqFoers) :
                 ToFoers(m, t)[i] = Send(mqFoers[i], [m EXCEPT !.type = t])
  <1>1. mqFoers \in Seq(Int)
    BY DEF TypeOK
  <1>2. Len(mqFoers) \in Nat /\ \A i \in 1..Len(mqFoers) : mqFoers[i] \in Int
    BY <1>1
  <1>3. [m EXCEPT !.type = t] \in Msg
    BY DEF Msg
  <1>4. ToFoers(m, t) \in [1..Len(mqFoers) -> Write]
    BY <1>2, <1>3 DEF ToFoers, Send, Write
  <1>5. QED BY <1>2, <1>4, FunctionIsSeq DEF ToFoers

\* The row and the column of the k-th of a rows of b.
LEMMA DivMod ==
    ASSUME NEW a \in Nat, NEW b \in Nat, NEW k \in 1..(a * b)
    PROVE  /\ ((k - 1) \div b) + 1 \in 1..a
           /\ ((k - 1) % b) + 1 \in 1..b
  <1>1. b >= 1
    <2>1. CASE b = 0
      BY <2>1, SMT
    <2>2. QED BY <2>1
  <1>2. PICK q \in Int : q = (k - 1) \div b
    BY <1>1
  <1>3. PICK r \in Int : r = (k - 1) % b
    BY <1>1
  <1>4. k - 1 = b * q + r /\ 0 <= r /\ r < b
    BY <1>1, <1>2, <1>3, SMT
  <1>5. q >= 0
    <2>1. CASE q <= -1
      <3>1. b * q <= -b
        BY <2>1, <1>1, SMT
      <3>2. QED BY <3>1, <1>4
    <2>2. QED BY <2>1
  <1>6. q < a
    <2>1. CASE q >= a
      <3>1. b * q >= b * a
        BY <2>1, <1>1, SMT
      <3>2. b * a = a * b
        BY SMT
      <3>3. QED BY <3>1, <3>2, <1>4
    <2>2. QED BY <2>1
  <1>7. QED BY <1>2, <1>3, <1>4, <1>5, <1>6

\* w sends a copy of m of ctype LOCK_SYNC to one of foers.
IsSync(w, m, foers) ==
    /\ \E i \in 1..Len(foers) : w.to = foers[i]
    /\ w.msg.type = m.type /\ w.msg.ctype = "LOCK_SYNC"
    /\ w.msg.name = m.name /\ w.msg.server = m.server

\* What SyncMsgs writes.
LEMMA SyncMsgsType ==
    ASSUME TypeOK, NEW m \in Msg, NEW foers \in Seq(Int),
           NEW order \in Orders(HeldLocks)
    PROVE  /\ SyncMsgs(m, order, foers) \in Seq(Write)
           /\ \A k \in 1..Len(SyncMsgs(m, order, foers)) :
                 IsSync(SyncMsgs(m, order, foers)[k], m, foers)
  <1> DEFINE a == Len(order)
             b == Len(foers)
             L(k) == order[((k - 1) \div b) + 1]
             N(k) == foers[((k - 1) % b) + 1]
             W(k) == Send(N(k), [m EXCEPT !.ctype = "LOCK_SYNC", !.lock = L(k),
                                          !.uuid = lockDict[Master][L(k)]])
  <1>1. IsFiniteSet(HeldLocks)
    BY ServerAssumption, FS_Subset DEF HeldLocks
  <1>2. Cardinality(HeldLocks) \in Nat
    BY <1>1, FS_CardinalityType
  <1>3. order \in [1..Cardinality(HeldLocks) -> HeldLocks]
    BY DEF Orders
  <1>4. order \in Seq(HeldLocks)
    BY <1>2, <1>3, FunctionIsSeq
  <1>5. a \in Nat /\ \A i \in 1..a : order[i] \in Locks
    BY <1>4 DEF HeldLocks
  <1>6. b \in Nat /\ \A i \in 1..b : foers[i] \in Int
    OBVIOUS
  <1> HIDE DEF a, b
  <1>7. a * b \in Nat
    BY <1>5, <1>6
  <1>8. \A k \in 1..(a * b) : L(k) \in Locks
    BY <1>5, <1>6, DivMod
  <1>9. \A k \in 1..(a * b) : \E i \in 1..b : N(k) = foers[i]
    BY <1>5, <1>6, DivMod
  <1>10. \A l \in Locks : lockDict[Master][l] \in Nat
    BY DEF TypeOK, Servers
  <1>11. \A l \in Locks : [m EXCEPT !.ctype = "LOCK_SYNC", !.lock = l,
                                    !.uuid = lockDict[Master][l]] \in Msg
    BY <1>10 DEF Msg
  <1>12. \A k \in 1..(a * b) : W(k) \in Write
    BY <1>6, <1>8, <1>9, <1>11 DEF Send, Write
  <1> DEFINE F == [k \in 1..(a * b) |-> W(k)]
  <1>13. F \in [1..(a * b) -> Write]
    BY <1>12
  <1>14. SyncMsgs(m, order, foers) = F
    BY DEF SyncMsgs, a, b
  <1>15. F \in Seq(Write) /\ Len(F) = a * b
    BY <1>7, <1>13, FunctionIsSeq
  <1>16. ASSUME NEW k \in 1..(a * b)
         PROVE  IsSync(F[k], m, foers)
    <2>1. PICK l \in Locks : l = L(k)
      BY <1>8
    <2>2. PICK i \in 1..b : foers[i] = N(k)
      BY <1>9
    <2>3. F[k] = Send(foers[i], [m EXCEPT !.ctype = "LOCK_SYNC", !.lock = l,
                                          !.uuid = lockDict[Master][l]])
      BY <2>1, <2>2
    <2> HIDE DEF F, L, N, W
    <2>4. PICK r : r = [m EXCEPT !.ctype = "LOCK_SYNC", !.lock = l,
                                 !.uuid = lockDict[Master][l]]
      OBVIOUS
    <2>5. /\ r.type = m.type /\ r.ctype = "LOCK_SYNC"
          /\ r.name = m.name /\ r.server = m.server
      BY <2>4 DEF Msg
    <2>6. F[k].to = foers[i] /\ F[k].msg = r
      BY <2>3, <2>4 DEF Send
    <2>7. QED BY <2>5, <2>6 DEF IsSync, b
  <1> HIDE DEF F, L, N, W
  <1>17. QED BY <1>14, <1>15, <1>16

\* A sequence of one or two writes.
LEMMA ShortSeqs ==
    ASSUME NEW S, NEW a \in S, NEW b \in S
    PROVE  /\ <<a>> \in Seq(S) /\ Len(<<a>>) = 1 /\ <<a>>[1] = a
           /\ <<a, b>> \in Seq(S) /\ Len(<<a, b>>) = 2
           /\ <<a, b>>[1] = a /\ <<a, b>>[2] = b
  OBVIOUS

\* An answer is a write.
LEMMA ReplyType ==
    ASSUME TypeOK, NEW s \in Servers, NEW m \in Msg, NEW t \in MsgTypes
    PROVE  Reply(s, m, t) \in Write
  <1>1. ClientMq(s, m.uuid) \in Int
    BY DEF TypeOK, ClientMq, NoName
  <1>2. [m EXCEPT !.type = t] \in Msg
    BY DEF Msg
  <1>3. QED BY <1>1, <1>2 DEF Reply, Send, Write

\* Every process's name is still its own, and the queues it needs are there,
\* when a step names nobody and removes no queue.
LEMMA NamesKept ==
    ASSUME NameInv, QueueInv, DOMAIN queue \subseteq DOMAIN queue',
           UNCHANGED <<freeNames, nextName, pname, cstate, cmsg>>
    PROVE  NameInv' /\ QueueInv'
  BY DEF NameInv, QueueInv, Oldest

\* publish_name continues the free names.
LEMMA NamesPublished ==
    ASSUME TypeOK, NameInv, freeNames' = Append(freeNames, nextName),
           nextName' = nextName + 1, UNCHANGED pname
    PROVE  NameInv'
  <1>1. freeNames \in Seq(Nat) /\ nextName \in Nat /\ Len(freeNames) \in Nat
    BY DEF TypeOK
  <1>2. Len(freeNames') = Len(freeNames) + 1
    BY <1>1
  <1>3. Oldest' = Oldest
    BY <1>1, <1>2 DEF Oldest
  <1>4. \A i \in 1..Len(freeNames') : freeNames'[i] = Oldest + i - 1
    <2> SUFFICES ASSUME NEW i \in 1..Len(freeNames')
                 PROVE  freeNames'[i] = Oldest + i - 1
      OBVIOUS
    <2>1. CASE i \in 1..Len(freeNames)
      BY <1>1, <2>1 DEF NameInv
    <2>2. CASE i = Len(freeNames) + 1
      BY <1>1, <2>2 DEF Oldest
    <2>3. QED BY <1>1, <1>2, <2>1, <2>2
  <1>5. QED BY <1>3, <1>4 DEF NameInv

\* lookup_name gives a process a name no other has.
LEMMA NameTaken ==
    ASSUME TypeOK, NameInv, NEW p \in Procs \ {Master},
           freeNames # <<>>, freeNames' = Tail(freeNames),
           pname' = [pname EXCEPT ![p] = Head(freeNames)], UNCHANGED nextName
    PROVE  NameInv' /\ Head(freeNames) = Oldest /\ Head(freeNames) >= 1
  <1>1. freeNames \in Seq(Nat) /\ nextName \in Nat /\ Len(freeNames) \in Nat
        /\ Len(freeNames) >= 1
    BY DEF TypeOK
  <1>2. Head(freeNames) = Oldest /\ Oldest >= 1 /\ Oldest \in Int
    BY <1>1 DEF NameInv, Oldest
  <1>3. Len(freeNames') = Len(freeNames) - 1
        /\ \A i \in 1..Len(freeNames') : freeNames'[i] = freeNames[i + 1]
    BY <1>1
  <1>4. Oldest' = Oldest + 1
    BY <1>1, <1>3 DEF Oldest
  <1>5. \A i \in 1..Len(freeNames') : freeNames'[i] = Oldest' + i - 1
    BY <1>1, <1>2, <1>3, <1>4 DEF NameInv
  <1>6. pname \in [Procs -> Int]
    BY DEF TypeOK
  <1>7. pname'[p] = Oldest /\ \A q \in Procs \ {p} : pname'[q] = pname[q]
    BY <1>2, <1>6
  <1>8. \A q \in Procs : pname[q] # Oldest
    <2> SUFFICES ASSUME NEW q \in Procs PROVE pname[q] # Oldest
      OBVIOUS
    <2>1. CASE q = Master
      BY <1>2, <2>1 DEF NameInv, MasterNode
    <2>2. CASE q # Master /\ pname[q] # NoName
      BY <1>2, <1>6, <2>2 DEF NameInv
    <2>3. CASE pname[q] = NoName
      BY <1>2, <2>3 DEF NoName
    <2>4. QED BY <2>1, <2>2, <2>3
  <1>9. Master \in Procs
    BY DEF Procs, Servers
  <1>10. pname'[Master] = MasterNode
    BY <1>7, <1>9 DEF NameInv
  <1>11. \A q \in Procs \ {Master} :
            pname'[q] # NoName => pname'[q] >= 1 /\ pname'[q] < Oldest'
    BY <1>2, <1>4, <1>6, <1>7 DEF NameInv
  <1>12. \A q, r \in Procs :
            q # r /\ pname'[q] # NoName => pname'[q] # pname'[r]
    BY <1>7, <1>8 DEF NameInv
  <1>13. QED BY <1>2, <1>4, <1>5, <1>10, <1>11, <1>12 DEF NameInv

-----------------------------------------------------------------------------
\* Initially everything has its type.
THEOREM TypeInit == Init => TypeInv
  <1> SUFFICES ASSUME Init PROVE TypeInv
    OBVIOUS
  <1> USE DEF Init, ServerInit, MasterNode, NoName
  <1>1. [i \in 1..InitNames |-> i] \in Seq(Nat)
        /\ Len([i \in 1..InitNames |-> i]) = InitNames
    <2>1. [i \in 1..InitNames |-> i] \in [1..InitNames -> Nat]
      OBVIOUS
    <2>2. QED BY <2>1, ServerAssumption, FunctionIsSeq
  <1>2. \A c \in Clients : c # Master /\ c \in Procs
    BY ServerAssumption DEF Servers, Procs
  <1>3. TypeOK
    <2>1. NoMsg \in Msg
      BY DEF NoMsg, Msg, MsgTypes
    <2>2. QED BY <1>1, <2>1, ServerAssumption DEF TypeOK, CStates
  <1>4. NameInv
    BY <1>1, ServerAssumption DEF NameInv, Oldest, Procs, Servers
  <1>5. QueueInv
    BY <1>2 DEF QueueInv
  <1>6. QED BY <1>3, <1>4, <1>5 DEF TypeInv

\* What the message handlers of the servers have in common.
LEMMA HandlerType ==
    ASSUME TypeInv, NEW s \in Servers, HasMsg(s), queue' = Popped(s),
           NEW v \in Seq(Write), out' = [out EXCEPT ![s] = v],
           UNCHANGED <<freeNames, serverNames, nextName, nextUuid, mqFoers,
                       pname, cstate, cmsg, held>>,
           lockDict' \in [Servers -> [Locks -> Nat]],
           UNCHANGED mqDict
    PROVE  TypeInv'
  <1>1. /\ DOMAIN queue' = DOMAIN queue
        /\ \A n \in DOMAIN queue : queue'[n] \in Seq(Msg)
    BY ReceivedType DEF TypeInv
  <1>2. out' \in [Procs -> Seq([to : Int, msg : Msg])]
    BY DEF TypeInv, TypeOK, Write
  <1>3. TypeOK'
    BY <1>1, <1>2 DEF TypeInv, TypeOK
  <1>4. QED BY <1>1, <1>3, NamesKept DEF TypeInv

\* Each step of the master.
LEMMA MasterType ==
    ASSUME TypeInv, MasterStep, UNCHANGED <<cstate, cmsg, held>>
    PROVE  TypeInv'
  <1> DEFINE m == Received(Master)
  <1>1. Master \in Servers
    BY DEF Servers
  <1>2. HasMsg(Master)
    BY DEF MasterStep, MasterRegisterClient, MasterRegisterFoer, MasterGrant,
           MasterRelease, MasterRefuse, MasterInquire
  <1>3. /\ m \in Msg
        /\ DOMAIN Popped(Master) = DOMAIN queue
        /\ \A n \in DOMAIN queue : Popped(Master)[n] \in Seq(Msg)
    BY <1>1, <1>2, ReceivedType DEF TypeInv
  <1> HIDE DEF m
  <1>4. m.name \in Int /\ m.uuid \in Nat /\ m.server \in Int
    BY <1>3 DEF Msg
  <1>5. \A t \in MsgTypes : Reply(Master, m, t) \in Write
    BY <1>1, <1>3, ReplyType DEF TypeInv
  <1>6. \A t \in MsgTypes : ToFoers(m, t) \in Seq(Write)
    BY <1>3, ToFoersType DEF TypeInv
  <1>7. /\ DOMAIN queue \subseteq DOMAIN MqOpen(Popped(Master), m.name)
        /\ DOMAIN MqOpen(Popped(Master), m.name) \subseteq Int
        /\ \A n \in DOMAIN MqOpen(Popped(Master), m.name) :
              MqOpen(Popped(Master), m.name)[n] \in Seq(Msg)
    <2> DEFINE pq == Popped(Master)
    <2>1. DOMAIN pq = DOMAIN queue /\ DOMAIN pq \subseteq Int
          /\ \A n \in DOMAIN pq : pq[n] \in Seq(Msg)
      BY <1>3 DEF TypeInv, TypeOK
    <2> HIDE DEF pq
    <2>2. /\ DOMAIN MqOpen(pq, m.name) = DOMAIN pq \cup ({m.name} \ {NoName})
          /\ \A n \in DOMAIN MqOpen(pq, m.name) : MqOpen(pq, m.name)[n] \in Seq(Msg)
      BY <1>4, <2>1, MqOpenType
    <2>3. QED BY <1>4, <2>1, <2>2 DEF pq
  <1>8. CASE MasterRegisterClient
    <2> DEFINE r == [m EXCEPT !.uuid = nextUuid]
    <2>1. r \in Msg /\ nextUuid \in Nat
      BY <1>3 DEF TypeInv, TypeOK, Msg
    <2> HIDE DEF r
    <2>2. Acknowledge(r) \in Seq(Write)
      <3>1. [r EXCEPT !.type = "REGISTER_ACK"] \in Msg
            /\ [r EXCEPT !.type = "SERVER_NAME"] \in Msg /\ r.name \in Int
        BY <2>1 DEF Msg, MsgTypes
      <3>2. Send(r.name, [r EXCEPT !.type = "REGISTER_ACK"]) \in Write
            /\ Send(DnsNode, [r EXCEPT !.type = "SERVER_NAME"]) \in Write
        BY <3>1 DEF Send, Write, DnsNode
      <3>3. QED BY <3>2, ShortSeqs DEF Acknowledge
    <2>3. /\ queue' = MqOpen(Popped(Master), m.name)
          /\ freeNames' = Append(freeNames, nextName)
          /\ nextName' = nextName + 1
          /\ nextUuid' = nextUuid + 1
          /\ mqDict' = [mqDict EXCEPT ![Master] =
                          Insert(mqDict[Master], nextUuid, m.name)]
          /\ out' = [out EXCEPT ![Master] = Acknowledge(r)]
          /\ UNCHANGED <<serverNames, lockDict, mqFoers, pname, cstate, cmsg,
                         held>>
      BY <1>8 DEF MasterRegisterClient, PublishName, m, r
    <2>4. /\ DOMAIN mqDict'[Master] \subseteq Nat
          /\ \A u \in DOMAIN mqDict'[Master] : mqDict'[Master][u] \in Int
          /\ \A s \in Servers \ {Master} : mqDict'[s] = mqDict[s]
      BY <1>1, <1>4, <2>1, <2>3 DEF TypeInv, TypeOK, Insert
    <2>5. TypeOK'
      <3>1. out' \in [Procs -> Seq([to : Int, msg : Msg])]
        BY <2>2, <2>3 DEF TypeInv, TypeOK, Write
      <3>2. freeNames' \in Seq(Nat) /\ nextName' \in Nat /\ nextUuid' \in Nat
        BY <2>3 DEF TypeInv, TypeOK
      <3>3. \A s \in Servers :
              /\ DOMAIN mqDict'[s] \subseteq Nat
              /\ \A u \in DOMAIN mqDict'[s] : mqDict'[s][u] \in Int
        BY <2>4 DEF TypeInv, TypeOK
      <3>4. DOMAIN queue' \subseteq Int
            /\ \A n \in DOMAIN queue' : queue'[n] \in Seq(Msg)
        BY <1>7, <2>3
      <3>5. QED BY <2>3, <3>1, <3>2, <3>3, <3>4 DEF TypeInv, TypeOK
    <2>6. NameInv'
      BY <2>3, NamesPublished DEF TypeInv
    <2>7. QueueInv'
      BY <1>7, <2>3 DEF TypeInv, QueueInv
    <2>8. QED BY <2>5, <2>6, <2>7 DEF TypeInv
  <1>9. CASE MasterRegisterFoer
    <2> DEFINE foers == Append(mqFoers, m.name)
    <2>1. foers \in Seq(Int)
      BY <1>4 DEF TypeInv, TypeOK
    <2> HIDE DEF foers
    <2>2. PICK order \in Orders(HeldLocks) :
             out' = [out EXCEPT ![Master] = SyncMsgs(m, order, foers)]
      BY <1>9 DEF MasterRegisterFoer, m, foers
    <2>3. SyncMsgs(m, order, foers) \in Seq(Write)
      BY <1>3, <2>1, SyncMsgsType DEF TypeInv
    <2>4. /\ queue' = MqOpen(Popped(Master), m.name)
          /\ freeNames' = Append(freeNames, nextName)
          /\ nextName' = nextName + 1
          /\ mqFoers' = foers
          /\ serverNames' = Append(serverNames, m.name)
          /\ UNCHANGED <<nextUuid, lockDict, mqDict, pname, cstate, cmsg, held>>
      BY <1>9 DEF MasterRegisterFoer, PublishName, m, foers
    <2>5. TypeOK'
      <3>1. out' \in [Procs -> Seq([to : Int, msg : Msg])]
        BY <2>2, <2>3 DEF TypeInv, TypeOK, Write
      <3>2. /\ freeNames' \in Seq(Nat) /\ nextName' \in Nat
            /\ serverNames' \in Seq(Int) /\ mqFoers' \in Seq(Int)
        BY <1>4, <2>1, <2>4 DEF TypeInv, TypeOK
      <3>3. DOMAIN queue' \subseteq Int
            /\ \A n \in DOMAIN queue' : queue'[n] \in Seq(Msg)
        BY <1>7, <2>4
      <3>4. QED BY <2>4, <3>1, <3>2, <3>3 DEF TypeInv, TypeOK
    <2>6. NameInv'
      BY <2>4, NamesPublished DEF TypeInv
    <2>7. QueueInv'
      BY <1>7, <2>4 DEF TypeInv, QueueInv
    <2>8. QED BY <2>5, <2>6, <2>7 DEF TypeInv
  <1>10. CASE MasterGrant
    <2>1. <<Reply(Master, m, "LOCK_GRANT")>> \o ToFoers(m, "LOCK_NEW")
             \in Seq(Write)
      BY <1>5, <1>6 DEF MsgTypes
    <2>2. lockDict' \in [Servers -> [Locks -> Nat]]
      BY <1>1, <1>4, <1>10 DEF TypeInv, TypeOK, MasterGrant, Recorded, m
    <2>3. QED BY <1>1, <1>2, <1>10, <2>1, <2>2, HandlerType
              DEF MasterGrant, m
  <1>11. CASE MasterRelease
    <2>1. <<Reply(Master, m, "LOCK_IDLE")>> \o ToFoers(m, "LOCK_DELETE")
             \in Seq(Write)
      BY <1>5, <1>6 DEF MsgTypes
    <2>2. lockDict' \in [Servers -> [Locks -> Nat]]
      BY <1>1, <1>11 DEF TypeInv, TypeOK, MasterRelease, Recorded, m
    <2>3. QED BY <1>1, <1>2, <1>11, <2>1, <2>2, HandlerType
              DEF MasterRelease, m
  <1>12. CASE MasterRefuse
    <2>1. Refusal(m) \in Seq(Write)
      BY <1>5 DEF MsgTypes, Refusal
    <2>2. lockDict' \in [Servers -> [Locks -> Nat]]
      BY <1>12 DEF TypeInv, TypeOK, MasterRefuse
    <2>3. QED BY <1>1, <1>2, <1>12, <2>1, <2>2, HandlerType
              DEF MasterRefuse, m
  <1>13. CASE MasterInquire
    <2>1. <<Reply(Master, m, InquiryAnswer(Master, m))>> \in Seq(Write)
      BY <1>5 DEF MsgTypes, InquiryAnswer
    <2>2. lockDict' \in [Servers -> [Locks -> Nat]]
      BY <1>13 DEF TypeInv, TypeOK, MasterInquire
    <2>3. QED BY <1>1, <1>2, <1>13, <2>1, <2>2, HandlerType
              DEF MasterInquire, m
  <1>14. QED BY <1>8, <1>9, <1>10, <1>11, <1>12, <1>13 DEF MasterStep

\* Each step of a follower.
LEMMA FollowerType ==
    ASSUME TypeInv, NEW f \in Followers, FollowerStep(f),
           UNCHANGED <<cstate, cmsg, held>>
    PROVE  TypeInv'
  <1> DEFINE m == Received(f)
             pq == Popped(f)
  <1>1. f \in Servers /\ f \in Procs /\ f # Master /\ f \notin Clients
    BY ServerAssumption DEF Servers, Procs
  <1>2. HasMsg(f) => /\ m \in Msg
                     /\ DOMAIN pq = DOMAIN queue
                     /\ \A n \in DOMAIN pq : pq[n] \in Seq(Msg)
    BY <1>1, ReceivedType DEF TypeInv
  <1>3. DOMAIN queue \subseteq Int
    BY DEF TypeInv, TypeOK
  <1> HIDE DEF m, pq
  <1>4. CASE FollowerStart(f)
    <2> DEFINE n == Head(freeNames)
               r == [type |-> "REGISTER", ctype |-> "FOER", uuid |-> 0,
                     name |-> n, server |-> NoName, lock |-> NoLock]
    <2>1. n \in Nat
      BY <1>4 DEF FollowerStart, TypeInv, TypeOK
    <2>2. r \in Msg
      BY <2>1 DEF Msg, MsgTypes, NoName
    <2> HIDE DEF n, r
    <2>3. /\ pname[f] = NoName
          /\ freeNames # <<>> /\ freeNames' = Tail(freeNames)
          /\ pname' = [pname EXCEPT ![f] = n]
          /\ queue' = MqOpen(queue, n)
          /\ out' = [out EXCEPT ![f] = <<Send(MasterNode, r)>>]
          /\ UNCHANGED <<serverNames, nextName, nextUuid, lockDict, mqDict,
                         mqFoers, cstate, cmsg, held>>
      BY <1>4 DEF FollowerStart, n, r
    <2>4. <<Send(MasterNode, r)>> \in Seq(Write)
      BY <2>2 DEF Send, Write, MasterNode
    <2>5. /\ DOMAIN queue \subseteq DOMAIN queue'
          /\ DOMAIN queue' \subseteq Int
          /\ \A x \in DOMAIN queue' : queue'[x] \in Seq(Msg)
      <3>1. n \in Int /\ \A x \in DOMAIN queue : queue[x] \in Seq(Msg)
        BY <2>1 DEF TypeInv, TypeOK
      <3>2. /\ DOMAIN MqOpen(queue, n) = DOMAIN queue \cup ({n} \ {NoName})
            /\ \A x \in DOMAIN MqOpen(queue, n) : MqOpen(queue, n)[x] \in Seq(Msg)
        BY <1>3, <3>1, MqOpenType
      <3>3. QED BY <1>3, <2>3, <3>1, <3>2
    <2>6. TypeOK'
      <3>1. out' \in [Procs -> Seq([to : Int, msg : Msg])]
        BY <2>3, <2>4 DEF TypeInv, TypeOK, Write
      <3>2. freeNames' \in Seq(Nat) /\ pname' \in [Procs -> Int]
        <4>1. freeNames \in Seq(Nat) /\ pname \in [Procs -> Int]
          BY DEF TypeInv, TypeOK
        <4>2. Tail(freeNames) \in Seq(Nat)
          BY <2>3, <4>1
        <4>3. n \in Int
          BY <2>1
        <4>4. [pname EXCEPT ![f] = n] \in [Procs -> Int]
          BY <4>1, <4>3
        <4>5. QED BY <2>3, <4>2, <4>4
      <3>3. QED BY <2>3, <2>5, <3>1, <3>2 DEF TypeInv, TypeOK
    <2>7. NameInv'
      BY <1>1, <2>3, NameTaken DEF TypeInv, n
    <2>8. QueueInv'
      BY <1>1, <2>3, <2>5 DEF TypeInv, TypeOK, QueueInv, Procs
    <2>9. QED BY <2>6, <2>7, <2>8 DEF TypeInv
  <1>5. CASE FollowerForward(f)
    <2>1. Forwarded(m) \in Seq(Write)
      BY <1>2, <1>5 DEF FollowerForward, Forwarded, Send, Write, MasterNode
    <2>2. lockDict' \in [Servers -> [Locks -> Nat]]
      BY <1>5 DEF TypeInv, TypeOK, FollowerForward
    <2>3. QED BY <1>1, <1>5, <2>1, <2>2, HandlerType DEF FollowerForward, m
  <1>6. CASE FollowerInquire(f)
    <2> DEFINE w == Send(mqDict'[f][m.uuid],
                         [m EXCEPT !.type = InquiryAnswer(f, m)])
    <2>1. m \in Msg /\ m.uuid \in Nat /\ m.name \in Int
      BY <1>2, <1>6 DEF FollowerInquire, Msg
    <2>2. /\ mqDict' = [mqDict EXCEPT ![f] = Insert(mqDict[f], m.uuid, m.name)]
          /\ queue' = pq \/ queue' = MqOpen(pq, m.name)
          /\ out' = [out EXCEPT ![f] = <<w>>]
          /\ UNCHANGED <<freeNames, serverNames, nextName, nextUuid, lockDict,
                         mqFoers, pname, cstate, cmsg, held>>
      BY <1>6 DEF FollowerInquire, m, pq
    <2>3. \A s \in Servers :
             /\ DOMAIN mqDict'[s] \subseteq Nat
             /\ \A u \in DOMAIN mqDict'[s] : mqDict'[s][u] \in Int
      BY <1>1, <2>1, <2>2 DEF TypeInv, TypeOK, Insert
    <2>4. mqDict'[f][m.uuid] \in Int
      <3>1. m.uuid \in DOMAIN mqDict'[f]
        BY <1>1, <2>2 DEF TypeInv, TypeOK, Insert
      <3>2. QED BY <1>1, <2>3, <3>1
    <2>5. [m EXCEPT !.type = InquiryAnswer(f, m)] \in Msg
      BY <2>1 DEF Msg, MsgTypes, InquiryAnswer
    <2>6. <<w>> \in Seq(Write)
      BY <2>4, <2>5 DEF Send, Write
    <2> HIDE DEF w
    <2>7. /\ DOMAIN queue \subseteq DOMAIN queue'
          /\ DOMAIN queue' \subseteq Int
          /\ \A x \in DOMAIN queue' : queue'[x] \in Seq(Msg)
      <3>1. DOMAIN pq = DOMAIN queue /\ DOMAIN pq \subseteq Int
            /\ \A x \in DOMAIN pq : pq[x] \in Seq(Msg)
        BY <1>2, <1>3, <1>6 DEF FollowerInquire
      <3>2. /\ DOMAIN MqOpen(pq, m.name) = DOMAIN pq \cup ({m.name} \ {NoName})
            /\ \A x \in DOMAIN MqOpen(pq, m.name) : MqOpen(pq, m.name)[x] \in Seq(Msg)
        BY <2>1, <3>1, MqOpenType
      <3>3. CASE queue' = pq
        BY <3>1, <3>3
      <3>4. CASE queue' = MqOpen(pq, m.name)
        BY <2>1, <3>1, <3>2, <3>4
      <3>5. QED BY <2>2, <3>3, <3>4
    <2>8. TypeOK'
      <3>1. out' \in [Procs -> Seq([to : Int, msg : Msg])]
        BY <2>2, <2>6 DEF TypeInv, TypeOK, Write
      <3>2. QED BY <2>2, <2>3, <2>7, <3>1 DEF TypeInv, TypeOK
    <2>9. QED BY <2>2, <2>7, <2>8, NamesKept DEF TypeInv
  <1>7. CASE FollowerAdd(f) \/ FollowerDelete(f) \/ FollowerIgnore(f)
    <2>1. lockDict' \in [Servers -> [Locks -> Nat]]
      <3>1. CASE FollowerAdd(f)
        BY <1>1, <1>2, <3>1 DEF TypeInv, TypeOK, FollowerAdd, Msg, m
      <3>2. CASE FollowerDelete(f)
        BY <1>1, <3>2 DEF TypeInv, TypeOK, FollowerDelete, Forgotten, m
      <3>3. CASE FollowerIgnore(f)
        BY <3>3 DEF TypeInv, TypeOK, FollowerIgnore
      <3>4. QED BY <1>7, <3>1, <3>2, <3>3
    <2>2. out[f] \in Seq(Write) /\ out = [out EXCEPT ![f] = out[f]]
      BY <1>1 DEF TypeInv, TypeOK, Write
    <2>3. /\ HasMsg(f)
          /\ queue' = Popped(f)
          /\ UNCHANGED <<freeNames, serverNames, nextName, nextUuid, mqFoers,
                         pname, mqDict, out>>
      BY <1>7 DEF FollowerAdd, FollowerDelete, FollowerIgnore
    <2>4. out' = [out EXCEPT ![f] = out[f]]
      BY <2>2, <2>3
    <2>5. QED BY <1>1, <2>1, <2>2, <2>3, <2>4, HandlerType
  <1>8. QED BY <1>4, <1>5, <1>6, <1>7 DEF FollowerStep

\* Each write to a queue.
LEMMA WriteType ==
    ASSUME TypeInv, NEW p \in Procs, MqWrite(p), UNCHANGED <<cstate, cmsg, held>>
    PROVE  TypeInv'
  <1> DEFINE n == Head(out[p]).to
             m == Head(out[p]).msg
  <1>1. out[p] \in Seq(Write) /\ out[p] # <<>>
    BY DEF MqWrite, TypeInv, TypeOK, Write
  <1>2. n \in Int /\ m \in Msg
    <2>1. Head(out[p]) \in Write
      BY <1>1
    <2>2. QED BY <2>1 DEF Write
  <1>3. m.server \in Int
    BY <1>2 DEF Msg
  <1> HIDE DEF n, m
  <1>4. out' \in [Procs -> Seq([to : Int, msg : Msg])]
    <2>1. Tail(out[p]) \in Seq(Write)
      BY <1>1
    <2>2. out' = [out EXCEPT ![p] = Tail(out[p])]
      BY DEF MqWrite
    <2>3. out \in [Procs -> Seq(Write)]
      BY DEF TypeInv, TypeOK, Write
    <2>4. QED BY <2>1, <2>2, <2>3 DEF Write
  <1>5. serverNames' \in Seq(Int)
    <2>1. serverNames' = serverNames \/ serverNames' = Append(serverNames, m.server)
      BY DEF MqWrite, m
    <2>2. serverNames \in Seq(Int)
      BY DEF TypeInv, TypeOK
    <2>3. QED BY <1>3, <2>1, <2>2
  <1>6. /\ DOMAIN queue' = DOMAIN queue
        /\ \A x \in DOMAIN queue : queue'[x] \in Seq(Msg)
    <2>1. \/ queue' = queue
          \/ n \in DOMAIN queue /\ queue' = [queue EXCEPT ![n] = Append(queue[n], m)]
      BY DEF MqWrite, m, n
    <2>2. \A x \in DOMAIN queue : queue[x] \in Seq(Msg)
      BY DEF TypeInv, TypeOK
    <2>3. n \in DOMAIN queue => Append(queue[n], m) \in Seq(Msg)
      BY <1>2, <2>2
    <2>4. QED BY <2>1, <2>2, <2>3
  <1>7. TypeOK'
    BY <1>4, <1>5, <1>6 DEF MqWrite, TypeInv, TypeOK
  <1>8. QED BY <1>6, <1>7, NamesKept DEF MqWrite, TypeInv

\* Each step of a client.
LEMMA ClientType ==
    ASSUME TypeInv, NEW c \in Clients, ClientStep(c)
    PROVE  TypeInv'
  <1>1. c \in Procs /\ c # Master
    BY ServerAssumption DEF Servers, Procs
  <1>2. /\ cstate \in [Clients -> CStates] /\ cmsg \in [Clients -> Msg]
        /\ held \in [Clients -> SUBSET Locks]
        /\ pname \in [Procs -> Int] /\ out \in [Procs -> Seq(Write)]
        /\ DOMAIN queue \subseteq Int
        /\ \A n \in DOMAIN queue : queue[n] \in Seq(Msg)
        /\ freeNames \in Seq(Nat) /\ serverNames \in Seq(Int)
    BY DEF TypeInv, TypeOK, Write
  <1>3. cmsg[c] \in Msg /\ cmsg[c].server \in Int
    BY <1>2 DEF Msg
  <1>4. cstate[c] \in {"registering", "idle", "waiting"} =>
           pname[c] \in DOMAIN queue
    BY DEF TypeInv, QueueInv
  <1>5. CASE LookupServer(c)
    <2>1. Head(serverNames) \in Int /\ Tail(serverNames) \in Seq(Int)
      BY <1>2, <1>5 DEF LookupServer
    <2>2. cmsg' \in [Clients -> Msg]
      <3>1. [cmsg[c] EXCEPT !.server = Head(serverNames)] \in Msg
        BY <1>3, <2>1 DEF Msg
      <3>2. cmsg' = [cmsg EXCEPT ![c] =
                       [cmsg[c] EXCEPT !.server = Head(serverNames)]]
        BY <1>5 DEF LookupServer
      <3>3. QED BY <1>2, <3>1, <3>2
    <2>3. cstate' \in [Clients -> CStates]
      BY <1>2, <1>5 DEF LookupServer, CStates
    <2>4. TypeOK'
      BY <1>5, <2>1, <2>2, <2>3 DEF LookupServer, TypeInv, TypeOK
    <2>5. NameInv'
      BY <1>5 DEF LookupServer, TypeInv, NameInv, Oldest
    <2>6. QueueInv'
      BY <1>2, <1>5 DEF LookupServer, TypeInv, QueueInv
    <2>7. QED BY <2>4, <2>5, <2>6 DEF TypeInv
  <1>6. CASE LookupName(c)
    <2> DEFINE n == Head(freeNames)
               m == [cmsg[c] EXCEPT !.type = "REGISTER", !.ctype = "CLIENT",
                                    !.name = n]
               q1 == MqOpen(queue, m.server)
    <2>1. freeNames # <<>> /\ n \in Nat /\ n \in Int /\ Tail(freeNames) \in Seq(Nat)
      BY <1>2, <1>6 DEF LookupName
    <2>2. m \in Msg /\ m.server \in Int
      BY <1>3, <2>1 DEF Msg, MsgTypes
    <2>3. NameInv' /\ n >= 1
      <3>1. /\ freeNames' = Tail(freeNames)
            /\ pname' = [pname EXCEPT ![c] = Head(freeNames)]
            /\ freeNames # <<>> /\ UNCHANGED nextName
        BY <1>6 DEF LookupName
      <3>2. TypeOK /\ NameInv /\ c \in Procs \ {Master}
        BY <1>1 DEF TypeInv
      <3>3. QED BY <3>1, <3>2, NameTaken
    <2> HIDE DEF n, m
    <2>4. /\ DOMAIN q1 = DOMAIN queue \cup ({m.server} \ {NoName})
          /\ \A x \in DOMAIN q1 : q1[x] \in Seq(Msg)
      BY <1>2, <2>2, MqOpenType
    <2>5. DOMAIN q1 \subseteq Int
      BY <1>2, <2>2, <2>4
    <2>6. queue' = MqOpen(q1, n)
      BY <1>6 DEF LookupName, n, m
    <2> HIDE DEF q1
    <2>7. /\ DOMAIN MqOpen(q1, n) = DOMAIN q1 \cup ({n} \ {NoName})
          /\ \A x \in DOMAIN MqOpen(q1, n) : MqOpen(q1, n)[x] \in Seq(Msg)
      BY <2>1, <2>4, <2>5, MqOpenType
    <2>8. /\ DOMAIN queue \subseteq DOMAIN queue'
          /\ DOMAIN queue' \subseteq Int /\ n \in DOMAIN queue'
          /\ \A x \in DOMAIN queue' : queue'[x] \in Seq(Msg)
      BY <2>1, <2>3, <2>4, <2>5, <2>6, <2>7 DEF NoName
    <2>9. <<Send(m.server, m)>> \in Seq(Write)
      BY <2>2 DEF Send, Write
    <2>10. /\ pname' = [pname EXCEPT ![c] = n]
           /\ cmsg' = [cmsg EXCEPT ![c] = m]
           /\ out' = [out EXCEPT ![c] = <<Send(m.server, m)>>]
           /\ freeNames' = Tail(freeNames)
           /\ cstate' = [cstate EXCEPT ![c] = "registering"]
           /\ UNCHANGED <<serverNames, nextName, nextUuid, lockDict, mqDict,
                          mqFoers, held>>
      BY <1>6 DEF LookupName, n, m
    <2>11. TypeOK'
      <3>1. out' \in [Procs -> Seq(Write)]
        BY <1>2, <2>9, <2>10
      <3>2. pname' \in [Procs -> Int] /\ cmsg' \in [Clients -> Msg]
        BY <1>2, <2>1, <2>2, <2>10
      <3>3. cstate' \in [Clients -> CStates] /\ freeNames' \in Seq(Nat)
        BY <1>2, <2>1, <2>10 DEF CStates
      <3>4. QED BY <2>8, <2>10, <3>1, <3>2, <3>3 DEF TypeInv, TypeOK, Write
    <2>12. QueueInv'
      <3>1. /\ pname'[c] = n /\ cstate'[c] = "registering"
            /\ \A d \in Clients \ {c} :
                  /\ pname'[d] = pname[d] /\ cstate'[d] = cstate[d]
                  /\ cmsg'[d] = cmsg[d]
        BY <1>1, <1>2, <2>10 DEF Procs
      <3>2. n # NoName
        BY <2>1, <2>3 DEF NoName
      <3>3. QED BY <2>8, <3>1, <3>2 DEF TypeInv, QueueInv
    <2>13. QED BY <2>3, <2>11, <2>12 DEF TypeInv
  <1>7. CASE RecvAck(c)
    <2> DEFINE q == queue[pname[c]]
    <2>1. q \in Seq(Msg) /\ pname[c] \in DOMAIN queue
      BY <1>2, <1>4, <1>7 DEF RecvAck
    <2>2. PICK i \in 1..Len(q) :
             /\ queue' = [queue EXCEPT ![pname[c]] =
                            SubSeq(q, 1, i - 1) \o SubSeq(q, i + 1, Len(q))]
             /\ cmsg' = [cmsg EXCEPT ![c] = Buffered(q[i])]
      BY <1>7 DEF RecvAck
    <2>3. q[i] \in Msg /\ Len(q) \in Nat
      BY <2>1
    <2>4. Buffered(q[i]) \in Msg
      BY <2>3 DEF Buffered, Msg, MsgTypes
    <2> HIDE DEF q
    <2>5. SubSeq(q, 1, i - 1) \in Seq(Msg) /\ SubSeq(q, i + 1, Len(q)) \in Seq(Msg)
      BY <2>1, <2>3, SubSeqProperties
    <2>6. SubSeq(q, 1, i - 1) \o SubSeq(q, i + 1, Len(q)) \in Seq(Msg)
      BY <2>5
    <2>7. /\ DOMAIN queue' = DOMAIN queue
          /\ \A n \in DOMAIN queue : queue'[n] \in Seq(Msg)
      BY <1>2, <2>2, <2>6
    <2>8. cmsg' \in [Clients -> Msg] /\ cstate' \in [Clients -> CStates]
      BY <1>2, <1>7, <2>2, <2>4 DEF RecvAck, CStates
    <2>9. TypeOK'
      BY <1>7, <2>7, <2>8 DEF RecvAck, TypeInv, TypeOK
    <2>10. NameInv'
      BY <1>7 DEF RecvAck, TypeInv, NameInv, Oldest
    <2>11. QueueInv'
      BY <1>2, <1>7, <2>7 DEF RecvAck, TypeInv, QueueInv
    <2>12. QED BY <2>9, <2>10, <2>11 DEF TypeInv
  <1>8. ASSUME NEW t \in Calls, NEW l \in Locks, Call(c, t, l)
        PROVE  TypeInv'
    <2> DEFINE m == [cmsg[c] EXCEPT !.type = t, !.lock = l]
    <2>1. m \in Msg /\ m.server \in Int
      BY <1>3 DEF Msg, MsgTypes, Calls
    <2> HIDE DEF m
    <2>2. <<Send(m.server, m)>> \in Seq(Write)
      BY <2>1 DEF Send, Write
    <2>3. out' \in [Procs -> Seq(Write)] /\ cmsg' \in [Clients -> Msg]
      BY <1>2, <1>8, <2>1, <2>2 DEF Call, m
    <2>4. cstate' \in [Clients -> CStates] /\ held' \in [Clients -> SUBSET Locks]
      BY <1>2, <1>8 DEF Call, CStates
    <2>5. TypeOK'
      BY <1>8, <2>3, <2>4 DEF Call, TypeInv, TypeOK, Write
    <2>6. NameInv'
      BY <1>8 DEF Call, TypeInv, NameInv, Oldest
    <2>7. QueueInv'
      <3>1. m.lock = l
        BY <1>3 DEF m, Msg
      <3>2. /\ cmsg'[c] = m /\ \A d \in Clients \ {c} : cmsg'[d] = cmsg[d]
            /\ cstate' = [cstate EXCEPT ![c] = "waiting"]
            /\ cstate[c] = "idle" /\ UNCHANGED <<pname, queue>>
        BY <1>2, <1>8 DEF Call, m
      <3>3. QED BY <1>2, <3>1, <3>2 DEF TypeInv, QueueInv
    <2>8. QED BY <2>5, <2>6, <2>7 DEF TypeInv
  <1>9. CASE Return(c)
    <2>1. queue[pname[c]] \in Seq(Msg) /\ queue[pname[c]] # <<>>
      BY <1>2, <1>4, <1>9 DEF Return
    <2>2. Answer(c) \in Msg /\ Tail(queue[pname[c]]) \in Seq(Msg)
      BY <2>1 DEF Answer
    <2>3. Buffered(Answer(c)) \in Msg
      BY <2>2 DEF Buffered, Msg, MsgTypes
    <2>4. /\ DOMAIN queue' = DOMAIN queue
          /\ \A n \in DOMAIN queue : queue'[n] \in Seq(Msg)
      BY <1>2, <1>9, <2>2 DEF Return
    <2>5. cmsg' \in [Clients -> Msg] /\ cstate' \in [Clients -> CStates]
      BY <1>2, <1>9, <2>3 DEF Return, CStates
    <2>6. held' \in [Clients -> SUBSET Locks]
      <3>1. CASE cmsg[c].lock \in Locks
        BY <1>2, <1>9, <3>1 DEF Return
      <3>2. CASE cmsg[c].lock \notin Locks
        BY <1>9, <3>2 DEF Return, TypeInv, QueueInv
      <3>3. QED BY <3>1, <3>2
    <2>7. TypeOK'
      BY <1>9, <2>4, <2>5, <2>6 DEF Return, TypeInv, TypeOK
    <2>8. NameInv'
      BY <1>9 DEF Return, TypeInv, NameInv, Oldest
    <2>9. QueueInv'
      BY <1>2, <1>9, <2>4 DEF Return, TypeInv, QueueInv
    <2>10. QED BY <2>7, <2>8, <2>9 DEF TypeInv
  <1>10. CASE Close(c)
    <2>1. DOMAIN queue' = DOMAIN queue \ {pname[c]}
          /\ \A n \in DOMAIN queue' : queue'[n] = queue[n]
      BY <1>10 DEF Close
    <2>2. held' \in [Clients -> SUBSET Locks] /\ cstate' \in [Clients -> CStates]
      BY <1>2, <1>10 DEF Close, CStates
    <2>3. TypeOK'
      BY <1>10, <2>1, <2>2 DEF Close, TypeInv, TypeOK
    <2>4. NameInv'
      BY <1>10 DEF Close, TypeInv, NameInv, Oldest
    <2>5. QueueInv'
      <3>1. /\ cstate'[c] = "closed"
            /\ \A d \in Clients \ {c} : cstate'[d] = cstate[d]
            /\ pname' = pname /\ cmsg' = cmsg
        BY <1>2, <1>10 DEF Close
      <3>2. pname[c] # NoName
        BY <1>10 DEF Close, TypeInv, QueueInv
      <3>3. \A d \in Clients \ {c} : pname[d] # pname[c]
        BY <1>1, <3>2 DEF TypeInv, NameInv, Procs
      <3>4. QED BY <2>1, <3>1, <3>2, <3>3 DEF TypeInv, QueueInv
    <2>6. QED BY <2>3, <2>4, <2>5 DEF TypeInv
  <1>11. QED BY <1>5, <1>6, <1>7, <1>8, <1>9, <1>10 DEF ClientStep, ClientConnect

-----------------------------------------------------------------------------
\* Every step keeps the invariant.
LEMMA TypeNext == TypeInv /\ [Next]_vars => TypeInv'
  <1> SUFFICES ASSUME TypeInv, [Next]_vars PROVE TypeInv'
    OBVIOUS
  <1>1. CASE ServerStep
    <2>1. CASE MasterStep
      BY <1>1, <2>1, MasterType DEF ServerStep
    <2>2. ASSUME NEW f \in Followers, FollowerStep(f) PROVE TypeInv'
      BY <1>1, <2>2, FollowerType DEF ServerStep
    <2>3. ASSUME NEW s \in Servers, MqWrite(s) PROVE TypeInv'
      BY <1>1, <2>3, WriteType DEF ServerStep, Procs
    <2>4. QED BY <1>1, <2>1, <2>2, <2>3 DEF ServerStep, ServerNext
  <1>2. ASSUME NEW c \in Clients, ClientStep(c) PROVE TypeInv'
    BY <1>2, ClientType
  <1>3. ASSUME NEW c \in Clients, ClientWrite(c) PROVE TypeInv'
    BY <1>3, WriteType DEF ClientWrite, Procs
  <1>4. CASE UNCHANGED vars
    BY <1>4 DEF vars, serverVars, TypeInv, TypeOK, NameInv, QueueInv, Oldest
  <1>5. QED BY <1>1, <1>2, <1>3, <1>4 DEF Next

\* The invariant of the next theorems, and of every other proof.
THEOREM TypeInvariant == Spec => []TypeInv
  BY TypeInit, TypeNext, PTL DEF Spec

\* Every variable keeps its type, for every number of servers, clients and
\* locks and every capacity of the queues: whatever server.cpp and lock.cpp write
\* to a queue or a table is well formed, and a client reads a queue that exists.
THEOREM TypeCorrect == Spec => []TypeOK
  BY TypeInvariant, PTL DEF TypeInv

\* publish_name and lookup_name never give one name to two processes, and
\* no free name is in use or offered twice.
THEOREM NamesNeverShared == Spec => []NamesDistinct
  <1>1. TypeInv => NamesDistinct
    <2> SUFFICES ASSUME TypeInv PROVE NamesDistinct
      OBVIOUS
    <2>1. /\ \A i \in 1..Len(freeNames) : freeNames[i] = Oldest + i - 1
          /\ Oldest \in Int /\ Oldest >= 1 /\ Len(freeNames) \in Nat
      BY DEF TypeInv, TypeOK, NameInv, Oldest
    <2>2. ASSUME NEW p \in Procs PROVE pname[p] < Oldest
      <3>1. CASE p = Master
        BY <2>1, <3>1 DEF TypeInv, NameInv, MasterNode
      <3>2. CASE pname[p] = NoName
        BY <2>1, <3>2 DEF NoName
      <3>3. QED BY <3>1, <3>2 DEF TypeInv, NameInv
    <2>3. pname \in [Procs -> Int]
      BY DEF TypeInv, TypeOK
    <2>4. \A i \in 1..Len(freeNames) :
             /\ \A p \in Procs : freeNames[i] # pname[p]
             /\ \A j \in 1..Len(freeNames) : i # j => freeNames[i] # freeNames[j]
      BY <2>1, <2>2, <2>3
    <2>5. QED BY <2>4 DEF TypeInv, NameInv, NamesDistinct
  <1>2. QED BY <1>1, TypeInvariant, PTL
-----------------------------------------------------------------------------
(* Messages in flight: what removing a message, opening a queue, closing   *)
(* one, and setting or completing the writes of a process do to them, and  *)
(* to their being single.  The lemmas are about any queues q and writes o. *)

\* Well typed queues and writes.
Queues(q) == \A x \in DOMAIN q : q[x] \in Seq(Msg)
Outs(o) == o \in [Procs -> Seq(Write)]

\* What is in flight.
LEMMA FlightCases ==
    ASSUME NEW q, NEW o, NEW w
    PROVE  w \in InFlight(q, o) <=>
              \/ \E x \in DOMAIN q : \E i \in 1..Len(q[x]) : w = Send(x, q[x][i])
              \/ \E p \in Procs : \E i \in 1..Len(o[p]) : w = o[p][i]
  <1> DEFINE A(x) == {Send(x, q[x][i]) : i \in 1..Len(q[x])}
             B(p) == {o[p][i] : i \in 1..Len(o[p])}
  <1>1. \A x : w \in A(x) <=> \E i \in 1..Len(q[x]) : w = Send(x, q[x][i])
    OBVIOUS
  <1>2. \A p : w \in B(p) <=> \E i \in 1..Len(o[p]) : w = o[p][i]
    OBVIOUS
  <1> DEFINE U == UNION {A(x) : x \in DOMAIN q}
             V == UNION {B(p) : p \in Procs}
  <1>3. InFlight(q, o) = U \cup V
    BY DEF InFlight
  <1> HIDE DEF A, B
  <1>4. (w \in U <=> \E x \in DOMAIN q : w \in A(x))
        /\ (w \in V <=> \E p \in Procs : w \in B(p))
    OBVIOUS
  <1> HIDE DEF U, V
  <1>5. w \in InFlight(q, o) <=> w \in U \/ w \in V
    BY <1>3
  <1>6. QED BY <1>1, <1>2, <1>4, <1>5, Zenon

\* No message in flight is of the conversation n.
Quiet(q, o, n) == \A w \in InFlight(q, o) : ~Conversation(w.msg, n)

\* The same in terms of the queues and of what is still to be written.
LEMMA QuietCases ==
    ASSUME NEW q, NEW o, NEW n
    PROVE  Quiet(q, o, n) <=> /\ \A x \in DOMAIN q : NoneIn(q[x], n)
                              /\ \A p \in Procs : NoneOut(o[p], n)
  <1>1. ASSUME Quiet(q, o, n), NEW x \in DOMAIN q PROVE NoneIn(q[x], n)
    <2>1. \A i \in 1..Len(q[x]) : Send(x, q[x][i]) \in InFlight(q, o)
      BY FlightCases
    <2>2. QED BY <1>1, <2>1 DEF Quiet, NoneIn, Send
  <1>2. ASSUME Quiet(q, o, n), NEW p \in Procs PROVE NoneOut(o[p], n)
    <2>1. \A i \in 1..Len(o[p]) : o[p][i] \in InFlight(q, o)
      BY FlightCases
    <2>2. QED BY <1>2, <2>1 DEF Quiet, NoneOut
  <1>3. ASSUME \A x \in DOMAIN q : NoneIn(q[x], n),
               \A p \in Procs : NoneOut(o[p], n),
               NEW w \in InFlight(q, o)
        PROVE  ~Conversation(w.msg, n)
    <2>1. CASE \E x \in DOMAIN q : \E i \in 1..Len(q[x]) : w = Send(x, q[x][i])
      BY <1>3, <2>1 DEF NoneIn, Send
    <2>2. CASE \E p \in Procs : \E i \in 1..Len(o[p]) : w = o[p][i]
      BY <1>3, <2>2 DEF NoneOut
    <2>3. QED BY <2>1, <2>2, FlightCases
  <1>4. QED BY <1>1, <1>2, <1>3 DEF Quiet

\* A quiet conversation is single.
LEMMA QuietSingle ==
    ASSUME NEW q, NEW o, NEW n, Quiet(q, o, n)
    PROVE  Single(q, o, n)
  BY QuietCases DEF Single, NoneIn, NoneOut, OneIn, OneOut

\* q1 is q with message i of queue x removed.
Without(q, q1, x, i) ==
    /\ DOMAIN q1 = DOMAIN q /\ x \in DOMAIN q /\ i \in 1..Len(q[x])
    /\ q1[x] \in Seq(Msg)
    /\ Len(q1[x]) = Len(q[x]) - 1
    /\ \A j \in 1..Len(q1[x]) : q1[x][j] = q[x][IF j < i THEN j ELSE j + 1]
    /\ \A y \in DOMAIN q \ {x} : q1[y] = q[y]

\* Removing one message keeps the others single; what was single is gone.
LEMMA TakenOut ==
    ASSUME NEW q, NEW q1, NEW o, NEW x, NEW i, Queues(q), Outs(o),
           Without(q, q1, x, i)
    PROVE  /\ Queues(q1)
           /\ Send(x, q[x][i]) \in InFlight(q, o)
           /\ InFlight(q1, o) \subseteq InFlight(q, o)
           /\ \A n : Single(q, o, n) => Single(q1, o, n)
           /\ \A n : Single(q, o, n) /\ Conversation(q[x][i], n)
                        => Quiet(q1, o, n)
  <1> USE DEF Without
  <1>0. Len(q[x]) \in Nat /\ Len(q1[x]) \in Nat /\ i \in Int
    BY DEF Queues
  <1>1. Queues(q1)
    BY DEF Queues
  <1>2. Send(x, q[x][i]) \in InFlight(q, o)
    BY FlightCases
  <1>3. \A j \in 1..Len(q1[x]) :
           (IF j < i THEN j ELSE j + 1) \in 1..Len(q[x]) \ {i}
    BY <1>0
  <1>4. ASSUME NEW w \in InFlight(q1, o) PROVE w \in InFlight(q, o)
    <2>1. CASE \E y \in DOMAIN q1 : \E j \in 1..Len(q1[y]) : w = Send(y, q1[y][j])
      <3>0. PICK y \in DOMAIN q1 : \E j \in 1..Len(q1[y]) : w = Send(y, q1[y][j])
        BY <2>1
      <3>1. PICK j \in 1..Len(q1[y]) : w = Send(y, q1[y][j])
        BY <3>0
      <3>2. CASE y # x
        BY <3>1, <3>2, FlightCases
      <3>3. CASE y = x
        <4>1. PICK k \in 1..Len(q[x]) : q1[x][j] = q[x][k]
          BY <1>3, <3>1, <3>3
        <4>2. QED BY <3>1, <3>3, <4>1, FlightCases
      <3>4. QED BY <3>2, <3>3
    <2>2. CASE \E p \in Procs : \E j \in 1..Len(o[p]) : w = o[p][j]
      BY <2>2, FlightCases
    <2>3. QED BY <2>1, <2>2, FlightCases
  <1>5. ASSUME NEW n, Single(q, o, n) PROVE Single(q1, o, n)
    <2>1. OneIn(q1[x], n)
      <3> SUFFICES ASSUME NEW j \in 1..Len(q1[x]), NEW k \in 1..Len(q1[x]),
                          Conversation(q1[x][j], n), Conversation(q1[x][k], n)
                   PROVE  j = k
        BY DEF OneIn
      <3> DEFINE a == IF j < i THEN j ELSE j + 1
                 b == IF k < i THEN k ELSE k + 1
      <3>1. a \in 1..Len(q[x]) /\ b \in 1..Len(q[x])
        BY <1>3
      <3>2. Conversation(q[x][a], n) /\ Conversation(q[x][b], n)
        OBVIOUS
      <3>3. a = b
        BY <1>5, <3>1, <3>2 DEF Single, OneIn
      <3>4. QED BY <1>0, <3>3
    <2>2. NoneIn(q[x], n) => NoneIn(q1[x], n)
      BY <1>3 DEF NoneIn
    <2>3. \A y \in DOMAIN q1 : OneIn(q1[y], n)
      BY <1>5, <2>1 DEF Single
    <2>4. \A y \in DOMAIN q : NoneIn(q[y], n) => NoneIn(q1[y], n)
      BY <2>2
    <2>5. QED BY <1>5, <2>3, <2>4 DEF Single
  <1>6. ASSUME NEW n, Single(q, o, n), Conversation(q[x][i], n)
        PROVE  Quiet(q1, o, n)
    <2>1. ~NoneIn(q[x], n)
      BY <1>6 DEF NoneIn
    <2>2. \A y \in DOMAIN q1 \ {x} : NoneIn(q1[y], n)
      BY <1>6, <2>1 DEF Single
    <2>3. \A p \in Procs : NoneOut(o[p], n)
      BY <1>6, <2>1 DEF Single
    <2>4. NoneIn(q1[x], n)
      <3> SUFFICES ASSUME NEW j \in 1..Len(q1[x]), Conversation(q1[x][j], n)
                   PROVE  FALSE
        BY DEF NoneIn
      <3> DEFINE a == IF j < i THEN j ELSE j + 1
      <3>1. a \in 1..Len(q[x]) /\ a # i
        BY <1>3
      <3>2. Conversation(q[x][a], n)
        OBVIOUS
      <3>3. QED BY <1>6, <3>1, <3>2 DEF Single, OneIn
    <2>5. QED BY <2>2, <2>3, <2>4, QuietCases
  <1>7. QED BY <1>1, <1>2, <1>4, <1>5, <1>6

\* Opening queues, which are empty, changes nothing.
LEMMA Opened ==
    ASSUME NEW q, NEW q1, NEW o, DOMAIN q \subseteq DOMAIN q1,
           \A x \in DOMAIN q : q1[x] = q[x],
           \A x \in DOMAIN q1 \ DOMAIN q : q1[x] = <<>>
    PROVE  /\ InFlight(q1, o) = InFlight(q, o)
           /\ \A n : Single(q, o, n) => Single(q1, o, n)
  <1>1. ASSUME NEW w \in InFlight(q1, o) PROVE w \in InFlight(q, o)
    <2>1. CASE \E y \in DOMAIN q1 : \E j \in 1..Len(q1[y]) : w = Send(y, q1[y][j])
      <3>0. PICK y \in DOMAIN q1 : \E j \in 1..Len(q1[y]) : w = Send(y, q1[y][j])
        BY <2>1
      <3>1. PICK j \in 1..Len(q1[y]) : w = Send(y, q1[y][j])
        BY <3>0
      <3>2. y \in DOMAIN q
        BY <3>1
      <3>3. QED BY <3>1, <3>2, FlightCases
    <2>2. CASE \E p \in Procs : \E j \in 1..Len(o[p]) : w = o[p][j]
      BY <2>2, FlightCases
    <2>3. QED BY <2>1, <2>2, FlightCases
  <1>2. ASSUME NEW w \in InFlight(q, o) PROVE w \in InFlight(q1, o)
    BY FlightCases
  <1>3. ASSUME NEW n, Single(q, o, n) PROVE Single(q1, o, n)
    <2>1. \A x \in DOMAIN q1 \ DOMAIN q : NoneIn(q1[x], n) /\ OneIn(q1[x], n)
      BY DEF NoneIn, OneIn
    <2>2. QED BY <1>3, <2>1 DEF Single
  <1>4. QED BY <1>1, <1>2, <1>3

\* Closing queues loses their messages.
LEMMA Closed ==
    ASSUME NEW q, NEW q1, NEW o, DOMAIN q1 \subseteq DOMAIN q,
           \A x \in DOMAIN q1 : q1[x] = q[x]
    PROVE  /\ InFlight(q1, o) \subseteq InFlight(q, o)
           /\ \A n : Single(q, o, n) => Single(q1, o, n)
  <1>1. ASSUME NEW w \in InFlight(q1, o) PROVE w \in InFlight(q, o)
    BY FlightCases
  <1>2. ASSUME NEW n, Single(q, o, n) PROVE Single(q1, o, n)
    BY <1>2 DEF Single
  <1>3. QED BY <1>1, <1>2

\* A process is given other writes to do.
LEMMA GivenWrites ==
    ASSUME NEW q, NEW o, NEW o1, NEW p \in Procs, Outs(o),
           \A r \in Procs \ {p} : o1[r] = o[r]
    PROVE  /\ \A w \in InFlight(q, o1) :
                 w \in InFlight(q, o) \/ \E i \in 1..Len(o1[p]) : w = o1[p][i]
           /\ \A n : /\ Single(q, o, n)
                     /\ OneOut(o1[p], n)
                     /\ NoneOut(o1[p], n) \/ Quiet(q, o, n)
                     => Single(q, o1, n)
  <1>1. \A r \in Procs \ {p} : o1[r] = o[r]
    OBVIOUS
  <1>2. ASSUME NEW w \in InFlight(q, o1)
        PROVE  w \in InFlight(q, o) \/ \E i \in 1..Len(o1[p]) : w = o1[p][i]
    BY <1>1, FlightCases
  <1>3. ASSUME NEW n, Single(q, o, n), OneOut(o1[p], n),
               NoneOut(o1[p], n) \/ Quiet(q, o, n)
        PROVE  Single(q, o1, n)
    <2>1. CASE NoneOut(o1[p], n)
      BY <1>1, <1>3, <2>1 DEF Single
    <2>2. CASE Quiet(q, o, n)
      <3>1. /\ \A x \in DOMAIN q : NoneIn(q[x], n)
            /\ \A r \in Procs \ {p} : NoneOut(o1[r], n)
        BY <1>1, <2>2, QuietCases
      <3>2. QED BY <1>1, <1>3, <3>1 DEF Single
    <2>3. QED BY <1>3, <2>1, <2>2
  <1>4. QED BY <1>2, <1>3

\* The first write of a process leaves its list.
LEMMA FirstDone ==
    ASSUME NEW q, NEW o, NEW o1, NEW p \in Procs, Outs(o), o[p] # <<>>,
           o1[p] = Tail(o[p]), \A r \in Procs \ {p} : o1[r] = o[r]
    PROVE  /\ Head(o[p]) \in InFlight(q, o)
           /\ InFlight(q, o1) \subseteq InFlight(q, o)
           /\ \A n : Single(q, o, n) => Single(q, o1, n)
           /\ \A n : Single(q, o, n) /\ Conversation(Head(o[p]).msg, n)
                        => Quiet(q, o1, n)
  <1>1. o1[p] = Tail(o[p]) /\ \A r \in Procs \ {p} : o1[r] = o[r]
    OBVIOUS
  <1>2. o[p] \in Seq(Write)
    BY DEF Outs
  <1>3. /\ Len(o[p]) \in Nat /\ Len(o[p]) >= 1 /\ Len(o1[p]) = Len(o[p]) - 1
        /\ Head(o[p]) = o[p][1]
        /\ \A j \in 1..Len(o1[p]) : /\ o1[p][j] = o[p][j + 1]
                                    /\ j + 1 \in 1..Len(o[p]) \ {1}
    BY <1>1, <1>2
  <1>4. Head(o[p]) \in InFlight(q, o)
    <2>1. 1 \in 1..Len(o[p])
      BY <1>3
    <2>2. QED BY <1>3, <2>1, FlightCases
  <1>5. ASSUME NEW w \in InFlight(q, o1) PROVE w \in InFlight(q, o)
    <2>1. CASE \E x \in DOMAIN q : \E i \in 1..Len(q[x]) : w = Send(x, q[x][i])
      BY <2>1, FlightCases
    <2>2. CASE \E r \in Procs : \E i \in 1..Len(o1[r]) : w = o1[r][i]
      <3>0. PICK r \in Procs : \E i \in 1..Len(o1[r]) : w = o1[r][i]
        BY <2>2
      <3>1. PICK i \in 1..Len(o1[r]) : w = o1[r][i]
        BY <3>0
      <3>2. CASE r # p
        BY <1>1, <3>1, <3>2, FlightCases
      <3>3. CASE r = p
        <4>1. PICK k \in 1..Len(o[p]) : w = o[p][k]
          BY <1>3, <3>1, <3>3
        <4>2. QED BY <4>1, FlightCases
      <3>4. QED BY <3>2, <3>3
    <2>3. QED BY <2>1, <2>2, FlightCases
  <1>6. ASSUME NEW n, Single(q, o, n) PROVE Single(q, o1, n)
    <2>1. OneOut(o1[p], n)
      <3> SUFFICES ASSUME NEW j \in 1..Len(o1[p]), NEW k \in 1..Len(o1[p]),
                          Conversation(o1[p][j].msg, n),
                          Conversation(o1[p][k].msg, n)
                   PROVE  j = k
        BY DEF OneOut
      <3>1. j + 1 = k + 1
        BY <1>3, <1>6 DEF Single, OneOut
      <3>2. QED BY <3>1
    <2>2. NoneOut(o[p], n) => NoneOut(o1[p], n)
      BY <1>3 DEF NoneOut
    <2>3. \A r \in Procs : OneOut(o1[r], n)
      BY <1>1, <1>6, <2>1 DEF Single
    <2>4. \A r \in Procs : NoneOut(o[r], n) => NoneOut(o1[r], n)
      BY <1>1, <2>2
    <2>5. QED BY <1>6, <2>3, <2>4 DEF Single
  <1>7. ASSUME NEW n, Single(q, o, n), Conversation(Head(o[p]).msg, n)
        PROVE  Quiet(q, o1, n)
    <2>1. ~NoneOut(o[p], n)
      BY <1>3, <1>7 DEF NoneOut
    <2>2. /\ \A x \in DOMAIN q : NoneIn(q[x], n)
          /\ \A r \in Procs \ {p} : NoneOut(o1[r], n)
      BY <1>1, <1>7, <2>1 DEF Single
    <2>3. NoneOut(o1[p], n)
      <3> SUFFICES ASSUME NEW j \in 1..Len(o1[p]), Conversation(o1[p][j].msg, n)
                   PROVE  FALSE
        BY DEF NoneOut
      <3>1. Conversation(o[p][j + 1].msg, n) /\ j + 1 \in 1..Len(o[p])
            /\ 1 \in 1..Len(o[p]) /\ Conversation(o[p][1].msg, n)
        BY <1>3, <1>7
      <3>2. j + 1 = 1
        BY <1>7, <3>1 DEF Single, OneOut
      <3>3. QED BY <3>2
    <2>4. QED BY <2>2, <2>3, QuietCases
  <1>8. QED BY <1>4, <1>5, <1>6, <1>7

\* A message is put at the end of a queue.
LEMMA Appended ==
    ASSUME NEW q, NEW q1, NEW o, NEW x \in DOMAIN q, NEW m \in Msg, Queues(q),
           DOMAIN q1 = DOMAIN q, q1[x] = Append(q[x], m),
           \A y \in DOMAIN q \ {x} : q1[y] = q[y]
    PROVE  /\ \A w \in InFlight(q1, o) :
                 w \in InFlight(q, o) \/ w = Send(x, m)
           /\ \A n : Single(q, o, n)
                       /\ (Conversation(m, n) => Quiet(q, o, n))
                       => Single(q1, o, n)
  <1>1. /\ DOMAIN q1 = DOMAIN q /\ q1[x] = Append(q[x], m)
        /\ \A y \in DOMAIN q \ {x} : q1[y] = q[y]
    OBVIOUS
  <1>2. q[x] \in Seq(Msg)
    BY DEF Queues
  <1>3. /\ Len(q[x]) \in Nat /\ Len(q1[x]) = Len(q[x]) + 1
        /\ q1[x][Len(q[x]) + 1] = m
        /\ \A j \in 1..Len(q[x]) : q1[x][j] = q[x][j]
    BY <1>1, <1>2
  <1>4. \A j \in 1..Len(q1[x]) : \/ j \in 1..Len(q[x]) /\ q1[x][j] = q[x][j]
                                 \/ j = Len(q[x]) + 1 /\ q1[x][j] = m
    BY <1>3
  <1>5. ASSUME NEW w \in InFlight(q1, o)
        PROVE  w \in InFlight(q, o) \/ w = Send(x, m)
    <2>1. CASE \E y \in DOMAIN q1 : \E j \in 1..Len(q1[y]) : w = Send(y, q1[y][j])
      <3>0. PICK y \in DOMAIN q1 : \E j \in 1..Len(q1[y]) : w = Send(y, q1[y][j])
        BY <2>1
      <3>1. PICK j \in 1..Len(q1[y]) : w = Send(y, q1[y][j])
        BY <3>0
      <3>2. CASE y # x
        BY <1>1, <3>1, <3>2, FlightCases
      <3>3. CASE y = x
        BY <1>4, <3>1, <3>3, FlightCases
      <3>4. QED BY <3>2, <3>3
    <2>2. CASE \E p \in Procs : \E j \in 1..Len(o[p]) : w = o[p][j]
      BY <2>2, FlightCases
    <2>3. QED BY <2>1, <2>2, FlightCases
  <1>6. ASSUME NEW n, Single(q, o, n), Conversation(m, n) => Quiet(q, o, n)
        PROVE  Single(q1, o, n)
    <2>1. CASE ~Conversation(m, n)
      <3>1. OneIn(q1[x], n) /\ (NoneIn(q[x], n) => NoneIn(q1[x], n))
        BY <1>4, <1>6, <2>1 DEF Single, OneIn, NoneIn
      <3>2. QED BY <1>1, <1>6, <3>1 DEF Single
    <2>2. CASE Quiet(q, o, n)
      <3>1. /\ \A y \in DOMAIN q : NoneIn(q[y], n)
            /\ \A p \in Procs : NoneOut(o[p], n)
        BY <2>2, QuietCases
      <3>2. OneIn(q1[x], n)
        BY <1>4, <3>1 DEF OneIn, NoneIn
      <3>3. QED BY <1>1, <1>6, <3>1, <3>2 DEF Single
    <2>3. QED BY <1>6, <2>1, <2>2
  <1>7. QED BY <1>5, <1>6

-----------------------------------------------------------------------------
(* Names.                                                                  *)

\* The name of a connected client is no other process's.
LEMMA ClientNames ==
    ASSUME TypeInv, NEW c \in Clients, Connected(c)
    PROVE  /\ c \in Procs /\ pname[c] \in Int
           /\ pname[c] >= 1 /\ pname[c] < Oldest
           /\ \A p \in Procs \ {c} : pname[p] # pname[c]
           /\ ~IsServer(pname[c]) /\ ~IsFollower(pname[c])
           /\ pname[c] # MasterNode /\ pname[c] # DnsNode /\ pname[c] # NoName
  <1>1. c \in Procs \ {Master} /\ c \notin Servers
    BY ServerAssumption DEF Servers, Procs
  <1>2. pname[c] # NoName /\ pname[c] \in Int
    BY <1>1 DEF TypeInv, TypeOK, QueueInv, Connected
  <1>3. pname[c] >= 1 /\ pname[c] < Oldest
    BY <1>1, <1>2 DEF TypeInv, NameInv
  <1>4. \A p \in Procs \ {c} : pname[p] # pname[c]
    BY <1>1, <1>2 DEF TypeInv, NameInv
  <1>5. \A s \in Servers : s \in Procs \ {c}
    BY <1>1 DEF Procs
  <1>6. ~IsServer(pname[c]) /\ ~IsFollower(pname[c])
    BY <1>2, <1>4, <1>5 DEF IsServer, IsFollower, Servers
  <1>7. QED BY <1>1, <1>2, <1>3, <1>4, <1>6 DEF MasterNode, DnsNode, NoName

\* The name of a server was handed out.
LEMMA ServerNames ==
    ASSUME TypeInv, NEW x, IsServer(x) \/ IsFollower(x)
    PROVE  x \in Int /\ x < Oldest /\ Oldest \in Int /\ Oldest >= 1
  <1>1. Oldest \in Int /\ Oldest >= 1
    BY DEF TypeInv, TypeOK, NameInv, Oldest
  <1>2. CASE x = NoName
    BY <1>1, <1>2 DEF NoName
  <1>3. ASSUME NEW s \in Servers, x = pname[s] PROVE x \in Int /\ x < Oldest
    <2>1. s \in Procs /\ x \in Int
      BY <1>3 DEF TypeInv, TypeOK, Procs
    <2>2. CASE s = Master
      BY <1>1, <1>3, <2>2 DEF TypeInv, NameInv, MasterNode
    <2>3. CASE s # Master /\ x # NoName
      BY <1>3, <2>1, <2>3 DEF TypeInv, NameInv
    <2>4. QED BY <1>2, <2>1, <2>2, <2>3
  <1>4. QED BY <1>1, <1>2, <1>3 DEF IsServer, IsFollower, Servers

\* A follower's name is a server's.
LEMMA FollowerIsServer ==
    ASSUME NEW x, IsFollower(x)
    PROVE  IsServer(x)
  BY DEF IsFollower, IsServer, Servers

-----------------------------------------------------------------------------
(* What a server's handling of a message does to the messages in flight.   *)

\* What was in flight stays, but for the message that is handled, and what
\* the handler writes is new.
LEMMA HandlerFlight ==
    ASSUME TypeInv, NEW s \in Servers, HasMsg(s), NEW v \in Seq(Write),
           out' = [out EXCEPT ![s] = v],
           queue' = Popped(s) \/ \E y \in Int : queue' = MqOpen(Popped(s), y)
    PROVE  /\ Send(pname[s], Received(s)) \in InFlight(queue, out)
           /\ \A w \in InFlight(queue', out') :
                 w \in InFlight(queue, out) \/ \E i \in 1..Len(v) : w = v[i]
           /\ \A n : Single(queue, out, n) /\ Conversation(Received(s), n) =>
                 \A w \in InFlight(queue', out') :
                    ~Conversation(w.msg, n) \/ \E i \in 1..Len(v) : w = v[i]
           /\ \A n : /\ Single(queue, out, n)
                     /\ OneOut(v, n)
                     /\ NoneOut(v, n) \/ Conversation(Received(s), n)
                     => Single(queue', out', n)
  <1> DEFINE q1 == Popped(s)
             x == pname[s]
  <1>1. /\ Queues(queue) /\ Outs(out) /\ s \in Procs
        /\ x \in DOMAIN queue /\ queue[x] # <<>> /\ queue[x] \in Seq(Msg)
    BY DEF TypeInv, TypeOK, Queues, Outs, Write, HasMsg, Procs
  <1>2. Without(queue, q1, x, 1) /\ Received(s) = queue[x][1]
    <2>1. DOMAIN q1 = DOMAIN queue /\ q1[x] = Tail(queue[x])
          /\ \A y \in DOMAIN queue \ {x} : q1[y] = queue[y]
      BY <1>1 DEF Popped
    <2>2. /\ Len(queue[x]) \in Nat /\ 1 \in 1..Len(queue[x])
          /\ Tail(queue[x]) \in Seq(Msg)
          /\ Len(Tail(queue[x])) = Len(queue[x]) - 1
          /\ \A j \in 1..Len(Tail(queue[x])) :
                /\ Tail(queue[x])[j] = queue[x][j + 1]
                /\ ~(j < 1)
          /\ Head(queue[x]) = queue[x][1]
      BY <1>1
    <2>3. QED BY <1>1, <2>1, <2>2 DEF Without, Received
  <1>3. \A y \in Int : /\ DOMAIN q1 \subseteq DOMAIN MqOpen(q1, y)
                       /\ \A z \in DOMAIN q1 : MqOpen(q1, y)[z] = q1[z]
                       /\ \A z \in DOMAIN MqOpen(q1, y) \ DOMAIN q1 :
                             MqOpen(q1, y)[z] = <<>>
    BY DEF MqOpen
  <1>4. /\ DOMAIN q1 \subseteq DOMAIN queue'
        /\ \A z \in DOMAIN q1 : queue'[z] = q1[z]
        /\ \A z \in DOMAIN queue' \ DOMAIN q1 : queue'[z] = <<>>
    BY <1>3
  <1> HIDE DEF q1, x
  <1>5. /\ Send(x, queue[x][1]) \in InFlight(queue, out)
        /\ InFlight(q1, out) \subseteq InFlight(queue, out)
        /\ \A n : Single(queue, out, n) => Single(q1, out, n)
        /\ \A n : Single(queue, out, n) /\ Conversation(queue[x][1], n)
                     => Quiet(q1, out, n)
    BY <1>1, <1>2, TakenOut
  <1>6. /\ InFlight(queue', out) = InFlight(q1, out)
        /\ \A n : Single(q1, out, n) => Single(queue', out, n)
    BY <1>4, Opened
  <1> DEFINE o1 == out'
  <1>0. o1[s] = v /\ \A r \in Procs \ {s} : o1[r] = out[r]
    BY <1>1 DEF Outs
  <1> HIDE DEF o1
  <1>7. /\ \A w \in InFlight(queue', o1) :
              w \in InFlight(queue', out) \/ \E i \in 1..Len(o1[s]) : w = o1[s][i]
        /\ \A n : /\ Single(queue', out, n)
                  /\ OneOut(o1[s], n)
                  /\ NoneOut(o1[s], n) \/ Quiet(queue', out, n)
                  => Single(queue', o1, n)
    BY <1>0, <1>1, GivenWrites
  <1>8. \A n : Quiet(q1, out, n) => Quiet(queue', out, n)
    BY <1>6 DEF Quiet
  <1>9. ASSUME NEW w \in InFlight(queue', o1)
        PROVE  w \in InFlight(queue, out) \/ \E i \in 1..Len(v) : w = v[i]
    BY <1>0, <1>5, <1>6, <1>7
  <1>10. ASSUME NEW n, Single(queue, out, n), Conversation(Received(s), n),
                NEW w \in InFlight(queue', o1)
         PROVE  ~Conversation(w.msg, n) \/ \E i \in 1..Len(v) : w = v[i]
    <2>1. Quiet(queue', out, n)
      BY <1>2, <1>5, <1>8, <1>10
    <2>2. QED BY <1>0, <1>7, <2>1 DEF Quiet
  <1>11. ASSUME NEW n, Single(queue, out, n), OneOut(v, n),
                NoneOut(v, n) \/ Conversation(Received(s), n)
         PROVE  Single(queue', o1, n)
    <2>1. NoneOut(v, n) \/ Quiet(queue', out, n)
      BY <1>2, <1>5, <1>8, <1>11
    <2>2. QED BY <1>0, <1>5, <1>6, <1>7, <1>11, <2>1
  <1>12. QED BY <1>2, <1>5, <1>9, <1>10, <1>11 DEF x, o1

\* What the completion of a write does to them.
LEMMA WriteFlight ==
    ASSUME TypeInv, NEW p \in Procs, MqWrite(p)
    PROVE  /\ Head(out[p]) \in InFlight(queue, out)
           /\ InFlight(queue', out') \subseteq InFlight(queue, out)
           /\ \A n : Single(queue, out, n) => Single(queue', out', n)
  <1> DEFINE x == Head(out[p]).to
             m == Head(out[p]).msg
  <1>1. Queues(queue) /\ Outs(out) /\ out[p] \in Seq(Write) /\ out[p] # <<>>
    BY DEF TypeInv, TypeOK, Queues, Outs, Write, MqWrite
  <1>2. Head(out[p]) \in Write
    BY <1>1
  <1>3. m \in Msg /\ Head(out[p]) = Send(x, m)
    BY <1>2 DEF Write, Send
  <1>4. out'[p] = Tail(out[p]) /\ \A r \in Procs \ {p} : out'[r] = out[r]
    BY <1>1 DEF MqWrite, Outs
  <1>5. \/ queue' = queue
        \/ /\ x \in DOMAIN queue /\ DOMAIN queue' = DOMAIN queue
           /\ queue'[x] = Append(queue[x], m)
           /\ \A y \in DOMAIN queue \ {x} : queue'[y] = queue[y]
    BY DEF MqWrite
  <1> HIDE DEF x, m
  <1>6. /\ Head(out[p]) \in InFlight(queue, out)
        /\ InFlight(queue, out') \subseteq InFlight(queue, out)
        /\ \A n : Single(queue, out, n) => Single(queue, out', n)
        /\ \A n : Single(queue, out, n) /\ Conversation(Head(out[p]).msg, n)
                     => Quiet(queue, out', n)
    BY <1>1, <1>4, FirstDone
  <1>7. CASE queue' = queue
    BY <1>6, <1>7
  <1>8. CASE /\ x \in DOMAIN queue /\ DOMAIN queue' = DOMAIN queue
             /\ queue'[x] = Append(queue[x], m)
             /\ \A y \in DOMAIN queue \ {x} : queue'[y] = queue[y]
    <2>1. /\ \A w \in InFlight(queue', out') :
                w \in InFlight(queue, out') \/ w = Send(x, m)
          /\ \A n : Single(queue, out', n)
                      /\ (Conversation(m, n) => Quiet(queue, out', n))
                      => Single(queue', out', n)
      BY <1>1, <1>3, <1>8, Appended
    <2>2. QED BY <1>3, <1>6, <2>1 DEF m
  <1>9. QED BY <1>5, <1>7, <1>8

-----------------------------------------------------------------------------
(* Frames: what a step that leaves names and clients alone preserves.      *)

\* Facts on names.
LEMMA SameNames ==
    ASSUME UNCHANGED <<pname, cstate>>, Oldest' = Oldest
    PROVE  /\ \A x : IsServer(x)' <=> IsServer(x)
           /\ \A x : IsFollower(x)' <=> IsFollower(x)
           /\ \A c : Connected(c)' <=> Connected(c)
           /\ \A w : WellFormed(w)' <=> WellFormed(w)
  BY DEF IsServer, IsFollower, Connected, WellFormed

\* What messages say of clients.
LEMMA SameFits ==
    ASSUME UNCHANGED <<pname, cstate, cmsg>>,
           lockDict'[Master] = lockDict[Master],
           mqDict'[Master] = mqDict[Master]
    PROVE  /\ \A m, c : OfRegistration(m, c)' <=> OfRegistration(m, c)
           /\ \A m, c : OfCall(m, c)' <=> OfCall(m, c)
           /\ \A m : Fits(m)' <=> Fits(m)
  BY DEF OfRegistration, OfCall, Fits, Connected

\* What is known of clients.
LEMMA SameClients ==
    ASSUME ClientInv, UNCHANGED <<pname, cstate, cmsg, held>>,
           lockDict'[Master] = lockDict[Master],
           mqDict'[Master] = mqDict[Master]
    PROVE  ClientInv'
  BY DEF ClientInv, IsServer

\* A server's handler: the answers v fit, the other messages still do, and v
\* continues no conversation but that of the message handled.
LEMMA HandlerSafe ==
    ASSUME SafeInv, NEW s \in Servers, HasMsg(s), NEW v \in Seq(Write),
           out' = [out EXCEPT ![s] = v],
           queue' = Popped(s) \/ \E y \in Int : queue' = MqOpen(Popped(s), y),
           UNCHANGED <<pname, cstate>>, Oldest' = Oldest,
           \A i \in 1..Len(v) : WellFormed(v[i]) /\ Fits(v[i].msg)',
           \A m, c : /\ c \in Clients /\ Connected(c)
                     /\ Conversation(m, pname[c])
                     /\ ~Conversation(Received(s), pname[c])
                     /\ OfRegistration(m, c) \/ OfCall(m, c)
                     => OfRegistration(m, c)' \/ OfCall(m, c)',
           \A c \in Clients : Connected(c) =>
               /\ OneOut(v, pname[c])
               /\ NoneOut(v, pname[c]) \/ Conversation(Received(s), pname[c])
    PROVE  FlightInv' /\ SingleInv'
  <1>1. /\ \A w \in InFlight(queue', out') :
              w \in InFlight(queue, out) \/ \E i \in 1..Len(v) : w = v[i]
        /\ \A n : Single(queue, out, n) /\ Conversation(Received(s), n) =>
              \A w \in InFlight(queue', out') :
                 ~Conversation(w.msg, n) \/ \E i \in 1..Len(v) : w = v[i]
        /\ \A n : /\ Single(queue, out, n)
                  /\ OneOut(v, n)
                  /\ NoneOut(v, n) \/ Conversation(Received(s), n)
                  => Single(queue', out', n)
    BY HandlerFlight DEF SafeInv
  <1>2. /\ \A c : Connected(c)' <=> Connected(c)
        /\ \A w : WellFormed(w)' <=> WellFormed(w)
    BY SameNames
  <1>3. SingleInv'
    BY <1>1, <1>2 DEF SafeInv, SingleInv
  <1>4. ASSUME NEW w \in InFlight(queue', out')
        PROVE  WellFormed(w)' /\ Fits(w.msg)'
    <2>1. CASE \E i \in 1..Len(v) : w = v[i]
      BY <1>2, <2>1
    <2>2. CASE ~\E i \in 1..Len(v) : w = v[i]
      <3>1. w \in InFlight(queue, out)
        BY <1>1, <2>2
      <3>2. WellFormed(w)' /\ Fits(w.msg)
        BY <1>2, <3>1 DEF SafeInv, FlightInv
      <3>3. ASSUME NEW c \in Clients, Connected(c), Conversation(w.msg, pname[c])
            PROVE  OfRegistration(w.msg, c)' \/ OfCall(w.msg, c)'
        <4>1. Single(queue, out, pname[c])
          BY <3>3 DEF SafeInv, SingleInv
        <4>2. ~Conversation(Received(s), pname[c])
          BY <1>1, <2>2, <3>3, <4>1
        <4>3. OfRegistration(w.msg, c) \/ OfCall(w.msg, c)
          BY <3>2, <3>3 DEF Fits
        <4>4. QED BY <3>3, <4>2, <4>3
      <3>4. QED BY <1>2, <3>2, <3>3 DEF Fits
    <2>3. QED BY <2>1, <2>2
  <1>5. QED BY <1>3, <1>4 DEF FlightInv

-----------------------------------------------------------------------------
(* Callers and their answers.                                              *)

\* The message a server handles is in flight.
LEMMA ReceivedFits ==
    ASSUME SafeInv, NEW s \in Servers, HasMsg(s), NEW m, m = Received(s)
    PROVE  m \in Msg /\ WellFormed(Send(pname[s], m)) /\ Fits(m)
  <1>1. m \in Msg
    BY ReceivedType DEF SafeInv, TypeInv
  <1>2. /\ pname[s] \in DOMAIN queue /\ queue[pname[s]] \in Seq(Msg)
        /\ queue[pname[s]] # <<>> /\ m = Head(queue[pname[s]])
    BY DEF SafeInv, TypeInv, TypeOK, HasMsg, Received
  <1>3. 1 \in 1..Len(queue[pname[s]]) /\ m = queue[pname[s]][1]
    BY <1>2
  <1>4. Send(pname[s], m) \in InFlight(queue, out)
    BY <1>2, <1>3, FlightCases
  <1>5. Send(pname[s], m).msg = m
    BY DEF Send
  <1>6. QED BY <1>1, <1>4, <1>5 DEF SafeInv, FlightInv

\* Two registered clients have different uuids.
LEMMA UuidsDistinct ==
    ASSUME SafeInv, NEW c \in Clients, cstate[c] \in {"idle", "waiting"}
    PROVE  /\ cmsg[c].uuid \in Nat /\ cmsg[c].uuid >= 1
           /\ \A d \in Clients \ {c} : cstate[d] \in {"idle", "waiting"} =>
                 cmsg[d].uuid # cmsg[c].uuid
  <1>1. cmsg[c] \in Msg
    BY DEF SafeInv, TypeInv, TypeOK
  <1>2. cmsg[c].uuid \in Nat
    BY <1>1 DEF Msg
  <1>3. /\ cmsg[c].uuid \in DOMAIN mqDict[Master]
        /\ mqDict[Master][cmsg[c].uuid] = pname[c]
    BY DEF SafeInv, ClientInv
  <1>4. cmsg[c].uuid >= 1
    BY <1>3 DEF SafeInv, DictInv
  <1>5. ASSUME NEW d \in Clients \ {c}, cstate[d] \in {"idle", "waiting"}
        PROVE  cmsg[d].uuid # cmsg[c].uuid
    <2>1. mqDict[Master][cmsg[d].uuid] = pname[d]
      BY <1>5 DEF SafeInv, ClientInv
    <2>2. Connected(c) /\ d \in Procs \ {c}
      BY DEF Connected, Procs
    <2>3. pname[d] # pname[c]
      BY <2>2, ClientNames DEF SafeInv
    <2>4. QED BY <1>3, <2>1, <2>3
  <1>6. QED BY <1>2, <1>4, <1>5

\* Client c made the call m, and the master knows its queue.
CallerOf(m, c) ==
    /\ Connected(c) /\ Conversation(m, pname[c])
    /\ cstate[c] = "waiting"
    /\ m.name = pname[c]
    /\ m.uuid = cmsg[c].uuid
    /\ m.lock = cmsg[c].lock
    /\ m.type = cmsg[c].type
    /\ m.uuid \in DOMAIN mqDict[Master]
    /\ mqDict[Master][m.uuid] = pname[c]

\* A call that fits is of the client whose name it carries.
LEMMA Caller ==
    ASSUME SafeInv, NEW x, NEW m \in Msg, m.type \in Calls,
           WellFormed(Send(x, m)), Fits(m)
    PROVE  \E c \in Clients : CallerOf(m, c)
  <1>1. Send(x, m).msg = m
    BY DEF Send
  <1>2. PICK c \in Clients : Connected(c) /\ m.name = pname[c]
    BY <1>1 DEF WellFormed
  <1>3. Conversation(m, pname[c])
    BY <1>2 DEF Conversation, Calls
  <1>4. OfCall(m, c)
    BY <1>2, <1>3 DEF Fits, OfRegistration, Calls
  <1>5. cstate[c] = "waiting" /\ cmsg[c].type \in Calls
    BY <1>4 DEF OfCall, SafeInv, ClientInv
  <1>6. m.type = cmsg[c].type
    BY <1>4, <1>5 DEF OfCall, Answers, Calls
  <1>7. /\ cmsg[c].uuid \in DOMAIN mqDict[Master]
        /\ mqDict[Master][cmsg[c].uuid] = pname[c]
    BY <1>5 DEF SafeInv, ClientInv
  <1>8. QED BY <1>2, <1>3, <1>4, <1>5, <1>6, <1>7 DEF CallerOf, OfCall

\* An answer to a call fits, if what it says of the lock is so after the step.
LEMMA AnswerFits ==
    ASSUME SafeInv, NEW x, NEW m \in Msg, m.type \in Calls,
           WellFormed(Send(x, m)), NEW c \in Clients, CallerOf(m, c),
           NEW t \in Answers[m.type],
           NEW w, w = Send(pname[c], [m EXCEPT !.type = t]),
           UNCHANGED <<pname, cstate, cmsg>>,
           t = "LOCK_GRANT" => lockDict'[Master][m.lock] = m.uuid,
           t = "LOCK_IDLE" => lockDict'[Master][m.lock] # m.uuid
    PROVE  /\ w \in Write /\ WellFormed(w) /\ Fits(w.msg)'
           /\ \A n : Conversation(w.msg, n) => Conversation(m, n)
  <1>1. t \in AnswerTypes /\ t \in MsgTypes /\ t \notin Calls
    BY DEF Answers, Calls, AnswerTypes, MsgTypes
  <1>2. [m EXCEPT !.type = t] \in Msg
    BY <1>1 DEF Msg
  <1>3. /\ w.to = pname[c] /\ w.msg = [m EXCEPT !.type = t]
        /\ w.msg.type = t /\ w.msg.name = m.name /\ w.msg.uuid = m.uuid
        /\ w.msg.lock = m.lock /\ w.msg.server = m.server
    BY <1>2 DEF Send, Msg
  <1>4. Connected(c) /\ m.name = pname[c]
    BY DEF CallerOf
  <1>5. /\ pname[c] \in Int /\ pname[c] < Oldest
        /\ \A d \in Clients \ {c} : pname[d] # pname[c]
    BY <1>4, ClientNames DEF SafeInv, Procs
  <1>6. w \in Write
    BY <1>2, <1>5 DEF Send, Write
  <1>7. IsServer(m.server)
    BY DEF WellFormed, Send
  <1>8. WellFormed(w)
    BY <1>1, <1>3, <1>4, <1>5, <1>7 DEF WellFormed, AnswerTypes
  <1>9. Fits(w.msg)'
    <2> SUFFICES ASSUME NEW d \in Clients, Connected(d)',
                        Conversation(w.msg, pname'[d])
                 PROVE  OfRegistration(w.msg, d)' \/ OfCall(w.msg, d)'
      BY DEF Fits
    <2>1. d = c
      BY <1>3, <1>4, <1>5 DEF Conversation
    <2>2. OfCall(w.msg, c)'
      BY <1>3 DEF OfCall, CallerOf
    <2>3. QED BY <2>1, <2>2
  <1>10. ASSUME NEW n, Conversation(w.msg, n) PROVE Conversation(m, n)
    BY <1>3, <1>10 DEF Conversation, Calls
  <1>11. QED BY <1>6, <1>8, <1>9, <1>10

\* A push to a follower is no part of a conversation.
LEMMA PushFits ==
    ASSUME SafeInv, NEW x, NEW m \in Msg, WellFormed(Send(x, m)),
           NEW t \in {"LOCK_NEW", "LOCK_DELETE"}, NEW i \in 1..Len(mqFoers),
           NEW w, w = Send(mqFoers[i], [m EXCEPT !.type = t])
    PROVE  /\ WellFormed(w) /\ Fits(w.msg)'
           /\ \A n : ~Conversation(w.msg, n)
  <1>1. /\ w.to = mqFoers[i] /\ w.msg = [m EXCEPT !.type = t]
        /\ w.msg.type = t /\ w.msg.name = m.name /\ w.msg.server = m.server
    BY DEF Send, Msg
  <1>2. IsServer(m.server) /\ m.name < Oldest
    BY DEF WellFormed, Send
  <1>3. IsFollower(mqFoers[i])
    BY DEF SafeInv, DictInv
  <1>4. mqFoers[i] < Oldest
    BY <1>3, ServerNames DEF SafeInv
  <1>5. \A c \in Clients : Connected(c) => mqFoers[i] # pname[c]
    BY <1>3, ClientNames DEF SafeInv
  <1>6. WellFormed(w)
    BY <1>1, <1>2, <1>4, <1>5 DEF WellFormed, Calls
  <1>7. \A n : ~Conversation(w.msg, n)
    BY <1>1 DEF Conversation
  <1>8. QED BY <1>6, <1>7 DEF Fits

\* An answer alone is what HandlerSafe asks for.
LEMMA AnswerAlone ==
    ASSUME NEW m, NEW w \in Write, WellFormed(w), Fits(w.msg)',
           \A n : Conversation(w.msg, n) => Conversation(m, n)
    PROVE  /\ <<w>> \in Seq(Write)
           /\ \A i \in 1..Len(<<w>>) :
                 WellFormed(<<w>>[i]) /\ Fits(<<w>>[i].msg)'
           /\ \A n : /\ OneOut(<<w>>, n)
                     /\ NoneOut(<<w>>, n) \/ Conversation(m, n)
  <1>1. Len(<<w>>) = 1 /\ <<w>>[1] = w /\ <<w>> \in Seq(Write)
    OBVIOUS
  <1>2. \A n : OneOut(<<w>>, n) /\ (NoneOut(<<w>>, n) \/ Conversation(m, n))
    BY <1>1 DEF OneOut, NoneOut
  <1>3. QED BY <1>1, <1>2

\* The writes v are the answer w, then m to every follower with the type t.
Announced(v, w, m, t) == v = <<w>> \o ToFoers(m, t)

\* An answer followed by pushes.
LEMMA AnswerAndPushes ==
    ASSUME SafeInv, NEW x, NEW m \in Msg, WellFormed(Send(x, m)),
           NEW t \in {"LOCK_NEW", "LOCK_DELETE"},
           NEW w \in Write, WellFormed(w), Fits(w.msg)',
           \A n : Conversation(w.msg, n) => Conversation(m, n),
           NEW v, Announced(v, w, m, t)
    PROVE  /\ v \in Seq(Write)
           /\ \A i \in 1..Len(v) : WellFormed(v[i]) /\ Fits(v[i].msg)'
           /\ \A n : /\ OneOut(v, n)
                     /\ NoneOut(v, n) \/ Conversation(m, n)
  <1>1. t \in MsgTypes /\ TypeOK
    BY DEF MsgTypes, SafeInv, TypeInv
  <1> DEFINE p == ToFoers(m, t)
  <1>2. /\ p \in Seq(Write) /\ Len(p) = Len(mqFoers)
        /\ \A i \in 1..Len(mqFoers) :
              p[i] = Send(mqFoers[i], [m EXCEPT !.type = t])
    BY <1>1, ToFoersType
  <1> HIDE DEF p
  <1>3. /\ v \in Seq(Write) /\ Len(v) = 1 + Len(p) /\ v[1] = w
        /\ \A i \in 1..Len(v) : i # 1 => i - 1 \in 1..Len(p) /\ v[i] = p[i - 1]
    BY <1>2 DEF p, Announced
  <1>4. ASSUME NEW i \in 1..Len(v), i # 1
        PROVE  /\ WellFormed(v[i]) /\ Fits(v[i].msg)'
               /\ \A n : ~Conversation(v[i].msg, n)
    <2>1. i - 1 \in 1..Len(mqFoers)
          /\ v[i] = Send(mqFoers[i - 1], [m EXCEPT !.type = t])
      BY <1>2, <1>3, <1>4
    <2>2. PICK j \in 1..Len(mqFoers) : j = i - 1
      BY <2>1
    <2>3. PICK y : y = v[i]
      OBVIOUS
    <2>4. y = Send(mqFoers[j], [m EXCEPT !.type = t])
      BY <2>1, <2>2, <2>3
    <2>5. /\ WellFormed(y) /\ Fits(y.msg)'
          /\ \A n : ~Conversation(y.msg, n)
      BY <2>4, PushFits
    <2>6. QED BY <2>3, <2>5
  <1>5. \A i \in 1..Len(v) : WellFormed(v[i]) /\ Fits(v[i].msg)'
    BY <1>3, <1>4
  <1>6. ASSUME NEW n
        PROVE  OneOut(v, n) /\ (NoneOut(v, n) \/ Conversation(m, n))
    BY <1>3, <1>4 DEF OneOut, NoneOut
  <1>7. QED BY <1>3, <1>5, <1>6

-----------------------------------------------------------------------------
(* The answer to a call.                                                   *)

\* The call at the head of a server's queue, and the client that made it.
LEMMA CallHandled ==
    ASSUME SafeInv, NEW s \in Servers, HasMsg(s), NEW m, m = Received(s),
           m.type \in Calls
    PROVE  /\ m \in Msg /\ WellFormed(Send(pname[s], m))
           /\ m.lock \in Locks
           /\ \E c \in Clients : CallerOf(m, c)
           /\ m.uuid \in DOMAIN mqDict[Master]
  <1>1. m \in Msg /\ WellFormed(Send(pname[s], m)) /\ Fits(m)
    BY ReceivedFits
  <1>2. PICK c \in Clients : CallerOf(m, c)
    BY <1>1, Caller
  <1>3. m.lock \in Locks
    BY <1>2 DEF CallerOf, SafeInv, TypeInv, QueueInv
  <1>4. QED BY <1>1, <1>2, <1>3 DEF CallerOf

\* How a call about lock l may change the record of k: not at all, or the
\* free lock l is recorded for u, or the record of the call's lock, which is
\* u's, is erased by a release.
RecordStep(m, k) ==
    \/ lockDict'[Master][k] = lockDict[Master][k]
    \/ /\ k = m.lock
       /\ lockDict[Master][k] = 0
       /\ lockDict'[Master][k] = m.uuid
    \/ /\ k = m.lock
       /\ m.type = "LOCK_RELEASE"
       /\ lockDict[Master][k] = m.uuid
       /\ lockDict'[Master][k] = 0

\* What a server writes when it handles the call m: the answer w, and pushes if
\* the record changes.
Answering(v, w, m) ==
    v = <<w>> \/ Announced(v, w, m, "LOCK_NEW") \/ Announced(v, w, m, "LOCK_DELETE")

\* A server answers a call, and the master's table changes by a RecordStep.
LEMMA CallAnswered ==
    ASSUME SafeInv, NEW s \in Servers, HasMsg(s), NEW m, m = Received(s),
           m.type \in Calls, NEW c \in Clients, CallerOf(m, c),
           NEW t \in Answers[m.type],
           NEW w, w = Send(pname[c], [m EXCEPT !.type = t]),
           NEW v, Answering(v, w, m),
           out' = [out EXCEPT ![s] = v],
           queue' = Popped(s) \/ \E y \in Int : queue' = MqOpen(Popped(s), y),
           UNCHANGED <<pname, cstate, cmsg, held>>, Oldest' = Oldest,
           mqDict'[Master] = mqDict[Master],
           \A k \in Locks : RecordStep(m, k),
           t = "LOCK_GRANT" => lockDict'[Master][m.lock] = m.uuid,
           t = "LOCK_IDLE" => lockDict'[Master][m.lock] # m.uuid
    PROVE  FlightInv' /\ SingleInv' /\ ClientInv'
  <1>1. m \in Msg /\ WellFormed(Send(pname[s], m))
    BY CallHandled
  <1>2. /\ w \in Write /\ WellFormed(w) /\ Fits(w.msg)'
        /\ \A n : Conversation(w.msg, n) => Conversation(m, n)
    BY <1>1, AnswerFits
  <1>3. /\ v \in Seq(Write)
        /\ \A i \in 1..Len(v) : WellFormed(v[i]) /\ Fits(v[i].msg)'
        /\ \A n : OneOut(v, n) /\ (NoneOut(v, n) \/ Conversation(m, n))
    <2>1. CASE v = <<w>>
      BY <1>2, <2>1, AnswerAlone
    <2>2. ASSUME NEW u \in {"LOCK_NEW", "LOCK_DELETE"},
                 Announced(v, w, m, u)
          PROVE  /\ v \in Seq(Write)
                 /\ \A i \in 1..Len(v) : WellFormed(v[i]) /\ Fits(v[i].msg)'
                 /\ \A n : OneOut(v, n) /\ (NoneOut(v, n) \/ Conversation(m, n))
      BY <1>1, <1>2, <2>2, AnswerAndPushes
    <2>3. QED BY <2>1, <2>2 DEF Answering
  <1>4. /\ m.uuid = cmsg[c].uuid /\ m.lock = cmsg[c].lock
        /\ m.type = cmsg[c].type /\ cstate[c] = "waiting"
        /\ Conversation(m, pname[c])
    BY DEF CallerOf
  <1>5. ASSUME NEW d \in Clients, cstate[d] \in {"idle", "waiting"},
               NEW k \in Locks, lockDict[Master][k] = cmsg[d].uuid,
               d = c => ~(m.type = "LOCK_RELEASE" /\ m.lock = k)
        PROVE  lockDict'[Master][k] = cmsg[d].uuid
    <2>1. cmsg[d].uuid >= 1 /\ cmsg[d].uuid \in Nat
      BY <1>5, UuidsDistinct
    <2>2. lockDict[Master][k] # 0
      BY <1>5, <2>1
    <2>3. lockDict[Master][k] = m.uuid => d = c
      BY <1>4, <1>5, UuidsDistinct
    <2>4. RecordStep(m, k)
      OBVIOUS
    <2>5. QED BY <1>5, <2>2, <2>3, <2>4 DEF RecordStep
  <1>6. ASSUME NEW d \in Clients \ {c}, cstate[d] \in {"idle", "waiting"},
               NEW k \in Locks, lockDict[Master][k] # cmsg[d].uuid
        PROVE  lockDict'[Master][k] # cmsg[d].uuid
    <2>1. cmsg[d].uuid >= 1 /\ cmsg[d].uuid \in Nat
      BY <1>6, UuidsDistinct
    <2>2. m.uuid # cmsg[d].uuid
      BY <1>4, <1>6, UuidsDistinct
    <2>3. RecordStep(m, k)
      OBVIOUS
    <2>4. QED BY <1>6, <2>1, <2>2, <2>3 DEF RecordStep
  <1>7. ASSUME NEW z, NEW d, d \in Clients, Connected(d),
               Conversation(z, pname[d]), ~Conversation(m, pname[d]),
               OfRegistration(z, d) \/ OfCall(z, d)
        PROVE  OfRegistration(z, d)' \/ OfCall(z, d)'
    <2>1. CASE OfRegistration(z, d)
      BY <2>1 DEF OfRegistration
    <2>2. CASE OfCall(z, d)
      <3>1. d # c /\ cstate[d] = "waiting" /\ z.uuid = cmsg[d].uuid
            /\ z.lock = cmsg[d].lock
        BY <1>4, <1>7, <2>2 DEF OfCall
      <3>2. z.lock \in Locks
        BY <1>7, <3>1 DEF SafeInv, TypeInv, QueueInv
      <3>3. z.type = "LOCK_GRANT" => lockDict'[Master][z.lock] = z.uuid
        BY <1>5, <1>7, <2>2, <3>1, <3>2 DEF OfCall
      <3>4. z.type = "LOCK_IDLE" => lockDict'[Master][z.lock] # z.uuid
        BY <1>6, <1>7, <2>2, <3>1, <3>2 DEF OfCall
      <3>5. QED BY <2>2, <3>3, <3>4 DEF OfCall
    <2>3. QED BY <1>7, <2>1, <2>2
  <1>8. FlightInv' /\ SingleInv'
    BY <1>3, <1>7, HandlerSafe
  <1>9. ClientInv'
    <2>1. ASSUME NEW d \in Clients, NEW l \in held[d]
          PROVE  lockDict'[Master][l] = cmsg[d].uuid
      <3>1. l \in Locks
        BY DEF SafeInv, TypeInv, TypeOK
      <3>2. /\ cstate[d] \in {"idle", "waiting"}
            /\ lockDict[Master][l] = cmsg[d].uuid
            /\ cstate[d] = "waiting" /\ cmsg[d].type = "LOCK_RELEASE" =>
                  cmsg[d].lock # l
        BY DEF SafeInv, ClientInv
      <3>3. QED BY <1>4, <1>5, <3>1, <3>2
    <2>2. QED BY <2>1 DEF SafeInv, ClientInv, IsServer
  <1>10. QED BY <1>8, <1>9

-----------------------------------------------------------------------------
(* The calls a server answers.                                             *)

\* Nothing that DictInv is about changes.
LEMMA SameDicts ==
    ASSUME DictInv, UNCHANGED <<nextUuid, mqFoers, serverNames, pname, mqDict>>
    PROVE  DictInv'
  BY DEF DictInv, IsServer, IsFollower

\* request_lock when the lock is free.
LEMMA GrantSafe ==
    ASSUME SafeInv, MasterGrant, UNCHANGED <<cstate, cmsg, held>>
    PROVE  DictInv' /\ ClientInv' /\ FlightInv' /\ SingleInv'
  <1>1. PICK m : m = Received(Master)
    OBVIOUS
  <1>2. /\ HasMsg(Master) /\ m.type = "LOCK_REQUEST" /\ m.type \in Calls
        /\ lockDict[Master][m.lock] = 0
        /\ queue' = Popped(Master)
        /\ lockDict' = [lockDict EXCEPT ![Master][m.lock] = m.uuid]
        /\ out' = [out EXCEPT ![Master] =
                      <<Reply(Master, m, "LOCK_GRANT")>> \o ToFoers(m, "LOCK_NEW")]
        /\ UNCHANGED <<freeNames, serverNames, nextName, nextUuid, mqDict,
                       mqFoers, pname>>
    BY <1>1 DEF MasterGrant, IsFree, Recorded, Calls
  <1>3. Master \in Servers
    BY DEF Servers
  <1>4. m \in Msg /\ m.lock \in Locks /\ m.uuid \in DOMAIN mqDict[Master]
    BY <1>1, <1>2, <1>3, CallHandled
  <1>5. PICK c \in Clients : CallerOf(m, c)
    BY <1>1, <1>2, <1>3, CallHandled
  <1>6. PICK w : w = Reply(Master, m, "LOCK_GRANT")
    OBVIOUS
  <1>7. w = Send(pname[c], [m EXCEPT !.type = "LOCK_GRANT"])
    BY <1>5, <1>6 DEF Reply, ClientMq, CallerOf
  <1>8. PICK v : v = <<w>> \o ToFoers(m, "LOCK_NEW")
    OBVIOUS
  <1>9. /\ lockDict'[Master][m.lock] = m.uuid
        /\ \A k \in Locks \ {m.lock} :
              lockDict'[Master][k] = lockDict[Master][k]
    BY <1>2, <1>3, <1>4 DEF SafeInv, TypeInv, TypeOK
  <1>10. \A k \in Locks : RecordStep(m, k)
    BY <1>2, <1>9 DEF RecordStep
  <1>11. "LOCK_GRANT" \in Answers[m.type] /\ Answering(v, w, m)
    BY <1>2, <1>8 DEF Answers, Answering, Announced
  <1>12. Oldest' = Oldest
    BY <1>2 DEF Oldest
  <1>13. out' = [out EXCEPT ![Master] = v]
    BY <1>2, <1>6, <1>8
  <1>14. /\ HasMsg(Master) /\ m.type \in Calls /\ queue' = Popped(Master)
         /\ mqDict'[Master] = mqDict[Master]
         /\ UNCHANGED <<pname, cstate, cmsg, held>>
         /\ "LOCK_GRANT" # "LOCK_IDLE"
         /\ lockDict'[Master][m.lock] = m.uuid
    BY <1>2, <1>9
  <1>15. FlightInv' /\ SingleInv' /\ ClientInv'
    BY <1>1, <1>3, <1>5, <1>7, <1>10, <1>11, <1>12, <1>13, <1>14, CallAnswered
  <1>16. DictInv'
    BY <1>2, SameDicts DEF SafeInv
  <1>17. QED BY <1>15, <1>16

\* release_lock by the owner.
LEMMA ReleaseSafe ==
    ASSUME SafeInv, MasterRelease, UNCHANGED <<cstate, cmsg, held>>
    PROVE  DictInv' /\ ClientInv' /\ FlightInv' /\ SingleInv'
  <1>1. PICK m : m = Received(Master)
    OBVIOUS
  <1>2. /\ HasMsg(Master) /\ m.type = "LOCK_RELEASE" /\ m.type \in Calls
        /\ lockDict[Master][m.lock] = m.uuid
        /\ queue' = Popped(Master)
        /\ lockDict' = [lockDict EXCEPT ![Master][m.lock] = 0]
        /\ out' = [out EXCEPT ![Master] =
                      <<Reply(Master, m, "LOCK_IDLE")>> \o ToFoers(m, "LOCK_DELETE")]
        /\ UNCHANGED <<freeNames, serverNames, nextName, nextUuid, mqDict,
                       mqFoers, pname>>
    BY <1>1 DEF MasterRelease, Owns, Recorded, Calls
  <1>3. Master \in Servers
    BY DEF Servers
  <1>4. m \in Msg /\ m.lock \in Locks /\ m.uuid \in DOMAIN mqDict[Master]
    BY <1>1, <1>2, <1>3, CallHandled
  <1>5. PICK c \in Clients : CallerOf(m, c)
    BY <1>1, <1>2, <1>3, CallHandled
  <1>6. PICK w : w = Reply(Master, m, "LOCK_IDLE")
    OBVIOUS
  <1>7. w = Send(pname[c], [m EXCEPT !.type = "LOCK_IDLE"])
    BY <1>5, <1>6 DEF Reply, ClientMq, CallerOf
  <1>8. PICK v : v = <<w>> \o ToFoers(m, "LOCK_DELETE")
    OBVIOUS
  <1>9. /\ lockDict'[Master][m.lock] = 0
        /\ \A k \in Locks \ {m.lock} :
              lockDict'[Master][k] = lockDict[Master][k]
    BY <1>2, <1>3, <1>4 DEF SafeInv, TypeInv, TypeOK
  <1>10. \A k \in Locks : RecordStep(m, k)
    BY <1>2, <1>9 DEF RecordStep
  <1>11. "LOCK_IDLE" \in Answers[m.type] /\ Answering(v, w, m)
    BY <1>2, <1>8 DEF Answers, Answering, Announced
  <1>12. Oldest' = Oldest
    BY <1>2 DEF Oldest
  <1>13. out' = [out EXCEPT ![Master] = v]
    BY <1>2, <1>6, <1>8
  <1>14. m.uuid >= 1
    BY <1>4 DEF SafeInv, DictInv
  <1>15. /\ HasMsg(Master) /\ m.type \in Calls /\ queue' = Popped(Master)
         /\ mqDict'[Master] = mqDict[Master]
         /\ UNCHANGED <<pname, cstate, cmsg, held>>
         /\ "LOCK_IDLE" # "LOCK_GRANT"
         /\ lockDict'[Master][m.lock] # m.uuid
    BY <1>2, <1>9, <1>14
  <1>16. FlightInv' /\ SingleInv' /\ ClientInv'
    BY <1>1, <1>3, <1>5, <1>7, <1>10, <1>11, <1>12, <1>13, <1>15, CallAnswered
  <1>17. DictInv'
    BY <1>2, SameDicts DEF SafeInv
  <1>18. QED BY <1>16, <1>17

\* An answer that changes no record and grants nothing: request_lock of a lock
\* in the table, release_lock by another than the owner, and the inquiries.
LEMMA PlainAnswer ==
    ASSUME SafeInv, NEW s \in Servers, HasMsg(s), NEW m, m = Received(s),
           m.type \in Calls,
           NEW t \in Answers[m.type], t \in {"LOCK_BUSY", "LOCK_OWN"},
           NEW x, NEW w, w = Send(x, [m EXCEPT !.type = t]),
           x = mqDict[Master][m.uuid],
           out' = [out EXCEPT ![s] = <<w>>],
           queue' = Popped(s) \/ \E y \in Int : queue' = MqOpen(Popped(s), y),
           UNCHANGED <<pname, freeNames, nextName, cstate, cmsg, held, lockDict>>,
           mqDict'[Master] = mqDict[Master]
    PROVE  FlightInv' /\ SingleInv' /\ ClientInv'
  <1>1. PICK c \in Clients : CallerOf(m, c)
    BY CallHandled
  <1>2. w = Send(pname[c], [m EXCEPT !.type = t])
    BY <1>1 DEF CallerOf
  <1>3. PICK v : v = <<w>>
    OBVIOUS
  <1>4. Answering(v, w, m) /\ out' = [out EXCEPT ![s] = v]
    BY <1>3 DEF Answering
  <1>5. \A k \in Locks : RecordStep(m, k)
    BY DEF RecordStep
  <1>6. Oldest' = Oldest
    BY DEF Oldest
  <1>7. t # "LOCK_GRANT" /\ t # "LOCK_IDLE" /\ UNCHANGED <<pname, cstate, cmsg, held>>
    OBVIOUS
  <1>8. QED BY <1>1, <1>2, <1>4, <1>5, <1>6, <1>7, CallAnswered

\* request_lock and release_lock answer BUSY.
LEMMA RefuseSafe ==
    ASSUME SafeInv, MasterRefuse, UNCHANGED <<cstate, cmsg, held>>
    PROVE  DictInv' /\ ClientInv' /\ FlightInv' /\ SingleInv'
  <1>1. PICK m : m = Received(Master)
    OBVIOUS
  <1>2. /\ HasMsg(Master) /\ m.type \in {"LOCK_REQUEST", "LOCK_RELEASE"}
        /\ m.type \in Calls /\ queue' = Popped(Master)
        /\ out' = [out EXCEPT ![Master] = <<Reply(Master, m, "LOCK_BUSY")>>]
        /\ UNCHANGED <<freeNames, serverNames, nextName, nextUuid, lockDict,
                       mqDict, mqFoers, pname>>
    BY <1>1 DEF MasterRefuse, Refusal, Calls
  <1>3. Master \in Servers /\ "LOCK_BUSY" \in Answers[m.type]
    BY <1>2 DEF Servers, Answers
  <1>4. m.uuid \in DOMAIN mqDict[Master]
    BY <1>1, <1>2, <1>3, CallHandled
  <1>5. PICK w : w = Reply(Master, m, "LOCK_BUSY")
    OBVIOUS
  <1>6. PICK x : x = mqDict[Master][m.uuid]
    OBVIOUS
  <1>7. w = Send(x, [m EXCEPT !.type = "LOCK_BUSY"])
    BY <1>4, <1>5, <1>6 DEF Reply, ClientMq
  <1>8. /\ HasMsg(Master) /\ m.type \in Calls /\ queue' = Popped(Master)
        /\ out' = [out EXCEPT ![Master] = <<w>>]
        /\ mqDict'[Master] = mqDict[Master]
        /\ UNCHANGED <<pname, freeNames, nextName, cstate, cmsg, held, lockDict>>
    BY <1>2, <1>5
  <1>9. FlightInv' /\ SingleInv' /\ ClientInv'
    BY <1>1, <1>3, <1>6, <1>7, <1>8, PlainAnswer
  <1>10. DictInv'
    BY <1>2, SameDicts DEF SafeInv
  <1>11. QED BY <1>9, <1>10

\* The master answers an inquiry.
LEMMA InquireSafe ==
    ASSUME SafeInv, MasterInquire, UNCHANGED <<cstate, cmsg, held>>
    PROVE  DictInv' /\ ClientInv' /\ FlightInv' /\ SingleInv'
  <1>1. PICK m : m = Received(Master)
    OBVIOUS
  <1>2. PICK t : t = InquiryAnswer(Master, m)
    OBVIOUS
  <1>3. /\ HasMsg(Master) /\ m.type = "LOCK_INQUIRY"
        /\ m.type \in Calls /\ queue' = Popped(Master)
        /\ out' = [out EXCEPT ![Master] = <<Reply(Master, m, t)>>]
        /\ UNCHANGED <<freeNames, serverNames, nextName, nextUuid, lockDict,
                       mqDict, mqFoers, pname>>
    BY <1>1, <1>2 DEF MasterInquire, Calls
  <1>4. /\ Master \in Servers /\ t \in {"LOCK_BUSY", "LOCK_OWN"}
        /\ t \in Answers[m.type]
    BY <1>2, <1>3 DEF Servers, Answers, InquiryAnswer
  <1>5. m.uuid \in DOMAIN mqDict[Master]
    BY <1>1, <1>3, <1>4, CallHandled
  <1>6. PICK w : w = Reply(Master, m, t)
    OBVIOUS
  <1>7. PICK x : x = mqDict[Master][m.uuid]
    OBVIOUS
  <1>8. w = Send(x, [m EXCEPT !.type = t])
    BY <1>5, <1>6, <1>7 DEF Reply, ClientMq
  <1>9. /\ HasMsg(Master) /\ m.type \in Calls /\ queue' = Popped(Master)
        /\ out' = [out EXCEPT ![Master] = <<w>>]
        /\ mqDict'[Master] = mqDict[Master]
        /\ UNCHANGED <<pname, freeNames, nextName, cstate, cmsg, held, lockDict>>
    BY <1>3, <1>6
  <1>10. FlightInv' /\ SingleInv' /\ ClientInv'
    BY <1>1, <1>4, <1>7, <1>8, <1>9, PlainAnswer
  <1>11. DictInv'
    BY <1>3, SameDicts DEF SafeInv
  <1>12. QED BY <1>10, <1>11

\* A follower answers an inquiry.  The queue it records is the one the master
\* knows, and so is one it has recorded before.
LEMMA FollowerInquireSafe ==
    ASSUME SafeInv, NEW f \in Followers, FollowerInquire(f),
           UNCHANGED <<cstate, cmsg, held>>
    PROVE  DictInv' /\ ClientInv' /\ FlightInv' /\ SingleInv'
  <1>1. PICK m : m = Received(f)
    OBVIOUS
  <1>2. PICK t : t = InquiryAnswer(f, m)
    OBVIOUS
  <1>3. /\ HasMsg(f) /\ m.type = "LOCK_INQUIRY" /\ m.type \in Calls
        /\ mqDict' = [mqDict EXCEPT ![f] = Insert(mqDict[f], m.uuid, m.name)]
        /\ queue' = Popped(f) \/ queue' = MqOpen(Popped(f), m.name)
        /\ out' = [out EXCEPT ![f] =
                      <<Send(mqDict'[f][m.uuid], [m EXCEPT !.type = t])>>]
        /\ UNCHANGED <<freeNames, serverNames, nextName, nextUuid, lockDict,
                       mqFoers, pname>>
    BY <1>1, <1>2 DEF FollowerInquire, Calls
  <1>4. /\ f \in Servers /\ t \in {"LOCK_BUSY", "LOCK_OWN"}
        /\ t \in Answers[m.type] /\ f # Master
    BY <1>2, <1>3, ServerAssumption DEF Servers, Answers, InquiryAnswer
  <1>5. m \in Msg /\ m.name \in Int
    BY <1>1, <1>3, <1>4, CallHandled DEF Msg
  <1>6. m.uuid \in DOMAIN mqDict[Master] /\ m.name = mqDict[Master][m.uuid]
    <2>1. PICK c \in Clients : CallerOf(m, c)
      BY <1>1, <1>3, <1>4, CallHandled
    <2>2. QED BY <2>1 DEF CallerOf
  <1>7. DOMAIN mqDict = Servers
    BY DEF SafeInv, TypeInv, TypeOK
  <1>8. /\ mqDict'[f] = Insert(mqDict[f], m.uuid, m.name)
        /\ \A s \in Servers \ {f} : mqDict'[s] = mqDict[s]
    BY <1>3, <1>4, <1>7
  <1>9. \A u \in DOMAIN mqDict[f] :
          u \in DOMAIN mqDict[Master] /\ mqDict[f][u] = mqDict[Master][u]
    BY DEF SafeInv, DictInv
  <1>10. /\ m.uuid \in DOMAIN mqDict'[f]
         /\ \A u \in DOMAIN mqDict'[f] :
               u \in DOMAIN mqDict[Master] /\ mqDict'[f][u] = mqDict[Master][u]
    BY <1>6, <1>8, <1>9 DEF Insert
  <1>11. PICK x : x = mqDict[Master][m.uuid]
    OBVIOUS
  <1>12. PICK w : w = Send(x, [m EXCEPT !.type = t])
    OBVIOUS
  <1>13. /\ HasMsg(f) /\ m.type \in Calls
         /\ queue' = Popped(f) \/ \E y \in Int : queue' = MqOpen(Popped(f), y)
         /\ out' = [out EXCEPT ![f] = <<w>>]
         /\ mqDict'[Master] = mqDict[Master]
         /\ UNCHANGED <<pname, freeNames, nextName, cstate, cmsg, held, lockDict>>
    <2>1. mqDict'[f][m.uuid] = x
      BY <1>10, <1>11
    <2>2. mqDict'[Master] = mqDict[Master]
      BY <1>4, <1>8 DEF Servers
    <2>3. QED BY <1>3, <1>5, <1>12, <2>1, <2>2
  <1>14. FlightInv' /\ SingleInv' /\ ClientInv'
    BY <1>1, <1>4, <1>11, <1>12, <1>13, PlainAnswer
  <1>15. DictInv'
    <2>1. \A g \in Followers : g \in Servers /\ g # Master
      BY ServerAssumption DEF Servers
    <2>2. \A g \in Followers : \A u \in DOMAIN mqDict'[g] :
             u \in DOMAIN mqDict'[Master] /\ mqDict'[g][u] = mqDict'[Master][u]
      BY <1>8, <1>10, <1>13, <2>1 DEF SafeInv, DictInv
    <2>3. QED BY <1>3, <1>13, <2>2 DEF SafeInv, DictInv, IsServer, IsFollower
  <1>16. QED BY <1>14, <1>15

-----------------------------------------------------------------------------
(* What servers forward, push and drop.                                    *)

\* message2master: the message goes on unchanged.
LEMMA ForwardSafe ==
    ASSUME SafeInv, NEW f \in Followers, FollowerForward(f),
           UNCHANGED <<cstate, cmsg, held>>
    PROVE  DictInv' /\ ClientInv' /\ FlightInv' /\ SingleInv'
  <1>1. PICK m : m = Received(f)
    OBVIOUS
  <1>2. PICK w : w = Send(MasterNode, m)
    OBVIOUS
  <1>3. /\ HasMsg(f) /\ queue' = Popped(f)
        /\ out' = [out EXCEPT ![f] = <<w>>]
        /\ UNCHANGED <<freeNames, serverNames, nextName, nextUuid, lockDict,
                       mqDict, mqFoers, pname>>
    BY <1>1, <1>2 DEF FollowerForward, Forwarded
  <1>4. f \in Servers
    BY DEF Servers
  <1>5. m \in Msg /\ WellFormed(Send(pname[f], m)) /\ Fits(m)
    BY <1>1, <1>3, <1>4, ReceivedFits
  <1>6. w.msg = m /\ w.to = MasterNode /\ w \in Write
    BY <1>2, <1>5 DEF Send, Write, MasterNode
  <1>7. WellFormed(w)
    <2>1. MasterNode < Oldest
      BY DEF SafeInv, TypeInv, TypeOK, NameInv, Oldest, MasterNode
    <2>2. \A c \in Clients : Connected(c) => MasterNode # pname[c]
      BY ClientNames DEF SafeInv
    <2>3. QED BY <1>5, <1>6, <2>1, <2>2 DEF WellFormed, Send
  <1>8. /\ \A z, c : OfRegistration(z, c)' <=> OfRegistration(z, c)
        /\ \A z, c : OfCall(z, c)' <=> OfCall(z, c)
        /\ \A z : Fits(z)' <=> Fits(z)
    BY <1>3, SameFits
  <1>9. Fits(w.msg)'
    BY <1>5, <1>6, <1>8
  <1>10. \A n : Conversation(w.msg, n) => Conversation(m, n)
    BY <1>6
  <1>11. PICK v : v = <<w>>
    OBVIOUS
  <1>12. /\ v \in Seq(Write)
         /\ \A i \in 1..Len(v) : WellFormed(v[i]) /\ Fits(v[i].msg)'
         /\ \A n : OneOut(v, n) /\ (NoneOut(v, n) \/ Conversation(m, n))
    BY <1>6, <1>7, <1>9, <1>10, <1>11, AnswerAlone
  <1>13. Oldest' = Oldest
    BY <1>3 DEF Oldest
  <1>14. out' = [out EXCEPT ![f] = v] /\ UNCHANGED <<pname, cstate>>
    BY <1>3, <1>11
  <1>15. FlightInv' /\ SingleInv'
    BY <1>1, <1>3, <1>4, <1>8, <1>12, <1>13, <1>14, HandlerSafe
  <1>16. ClientInv'
    BY <1>3, SameClients DEF SafeInv
  <1>17. DictInv'
    BY <1>3, SameDicts DEF SafeInv
  <1>18. QED BY <1>15, <1>16, <1>17

\* add_lock_record, delete_lock_record and the dropped messages: a follower's
\* table is no other process's.
LEMMA TableSafe ==
    ASSUME SafeInv, NEW f \in Followers,
           FollowerAdd(f) \/ FollowerDelete(f) \/ FollowerIgnore(f),
           UNCHANGED <<cstate, cmsg, held>>
    PROVE  DictInv' /\ ClientInv' /\ FlightInv' /\ SingleInv'
  <1>1. PICK v : v = out[f]
    OBVIOUS
  <1>2. /\ HasMsg(f) /\ queue' = Popped(f) /\ v = <<>> /\ out' = out
        /\ UNCHANGED <<freeNames, serverNames, nextName, nextUuid, mqDict,
                       mqFoers, pname>>
    BY <1>1 DEF FollowerAdd, FollowerDelete, FollowerIgnore, HasMsg
  <1>3. f \in Servers /\ Master \in Servers /\ f # Master
    BY ServerAssumption DEF Servers
  <1>4. lockDict \in [Servers -> [Locks -> Nat]] /\ out \in [Procs -> Seq(Write)]
    BY DEF SafeInv, TypeInv, TypeOK, Write
  <1>5. lockDict'[Master] = lockDict[Master]
    BY <1>3, <1>4 DEF FollowerAdd, FollowerDelete, FollowerIgnore, Forgotten
  <1>6. out' = [out EXCEPT ![f] = v] /\ v \in Seq(Write)
    BY <1>1, <1>2, <1>3, <1>4 DEF Procs
  <1>7. \A n : OneOut(v, n) /\ NoneOut(v, n)
    BY <1>2 DEF OneOut, NoneOut
  <1>8. /\ \A z, c : OfRegistration(z, c)' <=> OfRegistration(z, c)
        /\ \A z, c : OfCall(z, c)' <=> OfCall(z, c)
    BY <1>2, <1>5, SameFits
  <1>9. Oldest' = Oldest
    BY <1>2 DEF Oldest
  <1>10. \A i \in 1..Len(v) : WellFormed(v[i]) /\ Fits(v[i].msg)'
    BY <1>2
  <1>11. FlightInv' /\ SingleInv'
    BY <1>2, <1>3, <1>6, <1>7, <1>8, <1>9, <1>10, HandlerSafe
  <1>12. ClientInv'
    BY <1>2, <1>5, SameClients DEF SafeInv
  <1>13. DictInv'
    BY <1>2, SameDicts DEF SafeInv
  <1>14. QED BY <1>11, <1>12, <1>13

\* A write completes.
LEMMA WriteSafe ==
    ASSUME SafeInv, NEW p \in Procs, MqWrite(p), UNCHANGED <<cstate, cmsg, held>>
    PROVE  DictInv' /\ ClientInv' /\ FlightInv' /\ SingleInv'
  <1>1. UNCHANGED <<freeNames, nextName, nextUuid, lockDict, mqDict, mqFoers, pname>>
    BY DEF MqWrite
  <1>2. /\ Head(out[p]) \in InFlight(queue, out)
        /\ InFlight(queue', out') \subseteq InFlight(queue, out)
        /\ \A n : Single(queue, out, n) => Single(queue', out', n)
    BY WriteFlight DEF SafeInv
  <1>3. /\ \A x : IsServer(x)' <=> IsServer(x)
        /\ \A c : Connected(c)' <=> Connected(c)
        /\ \A w : WellFormed(w)' <=> WellFormed(w)
    <2>1. Oldest' = Oldest
      BY <1>1 DEF Oldest
    <2>2. QED BY <1>1, <2>1, SameNames
  <1>4. \A m : Fits(m)' <=> Fits(m)
    BY <1>1, SameFits
  <1>5. FlightInv'
    BY <1>2, <1>3, <1>4 DEF SafeInv, FlightInv
  <1>6. SingleInv'
    BY <1>1, <1>2, <1>3 DEF SafeInv, SingleInv
  <1>7. ClientInv'
    BY <1>1, SameClients DEF SafeInv
  <1>8. DictInv'
    <2>1. PICK m : m = Head(out[p]).msg
      OBVIOUS
    <2>2. IsServer(m.server)
      BY <1>2, <2>1 DEF SafeInv, FlightInv, WellFormed
    <2>3. serverNames' = serverNames \/ serverNames' = Append(serverNames, m.server)
      BY <2>1 DEF MqWrite
    <2>4. \A i \in 1..Len(serverNames') : IsServer(serverNames'[i])
      <3>1. serverNames \in Seq(Int)
        BY DEF SafeInv, TypeInv, TypeOK
      <3>2. \A i \in 1..Len(serverNames) : IsServer(serverNames[i])
        BY DEF SafeInv, DictInv
      <3>3. QED BY <2>2, <2>3, <3>1, <3>2
    <2>5. QED BY <1>1, <1>3, <2>4 DEF SafeInv, DictInv, IsFollower
  <1>9. QED BY <1>5, <1>6, <1>7, <1>8

-----------------------------------------------------------------------------
(* Registrations.                                                          *)

\* A published name leaves the names in use as they are.
LEMMA PublishedOldest ==
    ASSUME TypeOK, PublishName
    PROVE  Oldest' = Oldest
  <1>1. freeNames \in Seq(Nat) /\ nextName \in Nat
    BY DEF TypeOK
  <1>2. Len(freeNames') = Len(freeNames) + 1 /\ nextName' = nextName + 1
    BY <1>1 DEF PublishName
  <1>3. Len(freeNames) \in Nat
    BY <1>1
  <1>4. QED BY <1>1, <1>2, <1>3 DEF Oldest

\* client_register, a client.
LEMMA RegisterClientSafe ==
    ASSUME SafeInv, MasterRegisterClient, UNCHANGED <<cstate, cmsg, held>>
    PROVE  DictInv' /\ ClientInv' /\ FlightInv' /\ SingleInv'
  <1>1. PICK m : m = Received(Master)
    OBVIOUS
  <1>2. PICK u : u = nextUuid
    OBVIOUS
  <1>3. PICK a : a = Send(m.name, [[m EXCEPT !.uuid = u] EXCEPT !.type = "REGISTER_ACK"])
    OBVIOUS
  <1>4. PICK b : b = Send(DnsNode, [[m EXCEPT !.uuid = u] EXCEPT !.type = "SERVER_NAME"])
    OBVIOUS
  <1>5. PICK v : v = <<a, b>>
    OBVIOUS
  <1>6. /\ HasMsg(Master) /\ m.type = "REGISTER" /\ m.ctype # "FOER"
        /\ queue' = MqOpen(Popped(Master), m.name)
        /\ PublishName
        /\ nextUuid' = u + 1
        /\ mqDict' = [mqDict EXCEPT ![Master] = Insert(mqDict[Master], u, m.name)]
        /\ out' = [out EXCEPT ![Master] = v]
        /\ UNCHANGED <<serverNames, lockDict, mqFoers, pname>>
    BY <1>1, <1>2, <1>3, <1>4, <1>5 DEF MasterRegisterClient, Acknowledge
  <1>7. Master \in Servers /\ u \in Nat /\ u >= 1
    BY <1>2 DEF Servers, SafeInv, TypeInv, TypeOK, DictInv
  <1>8. m \in Msg /\ WellFormed(Send(pname[Master], m)) /\ Fits(m)
    BY <1>1, <1>6, <1>7, ReceivedFits
  <1>9. m.name \in Int /\ m.name < Oldest /\ IsServer(m.server)
    BY <1>8 DEF Msg, WellFormed, Send
  <1>10. /\ a \in Write /\ a.to = m.name /\ a.msg.name = m.name
         /\ a.msg.type = "REGISTER_ACK" /\ a.msg.server = m.server
         /\ a.msg.uuid = u
    BY <1>3, <1>7, <1>8, <1>9 DEF Send, Write, Msg, MsgTypes
  <1>11. /\ b \in Write /\ b.to = DnsNode /\ b.msg.name = m.name
         /\ b.msg.type = "SERVER_NAME" /\ b.msg.server = m.server
    <2>1. [[m EXCEPT !.uuid = u] EXCEPT !.type = "SERVER_NAME"] \in Msg
      BY <1>7, <1>8 DEF Msg, MsgTypes
    <2>2. DnsNode \in Int
      BY DEF DnsNode
    <2>3. b \in Write /\ b.to = DnsNode
      BY <1>4, <2>1, <2>2 DEF Send, Write
    <2>4. QED BY <1>4, <1>8, <2>3 DEF Send, Msg
  <1>12. WellFormed(a)
    BY <1>9, <1>10 DEF WellFormed, Calls, AnswerTypes
  <1>13. WellFormed(b)
    <2>1. DnsNode < Oldest
      BY DEF SafeInv, TypeInv, TypeOK, NameInv, Oldest, DnsNode
    <2>2. \A c \in Clients : Connected(c) => DnsNode # pname[c]
      BY ClientNames DEF SafeInv
    <2>3. QED BY <1>9, <1>11, <2>1, <2>2 DEF WellFormed, Calls
  <1>14. /\ DOMAIN mqDict'[Master] = DOMAIN mqDict[Master] \cup {u}
         /\ \A x \in DOMAIN mqDict[Master] : mqDict'[Master][x] = mqDict[Master][x]
         /\ u \notin DOMAIN mqDict[Master] /\ mqDict'[Master][u] = m.name
         /\ \A s \in Servers \ {Master} : mqDict'[s] = mqDict[s]
    <2>1. DOMAIN mqDict = Servers
      BY DEF SafeInv, TypeInv, TypeOK
    <2>2. u \notin DOMAIN mqDict[Master]
      BY <1>2, <1>7 DEF SafeInv, DictInv
    <2>3. /\ mqDict'[Master] = Insert(mqDict[Master], u, m.name)
          /\ \A s \in Servers \ {Master} : mqDict'[s] = mqDict[s]
      BY <1>6, <1>7, <2>1
    <2>4. QED BY <2>2, <2>3 DEF Insert
  <1>15. Fits(a.msg)'
    <2> SUFFICES ASSUME NEW c \in Clients, Connected(c)',
                        Conversation(a.msg, pname'[c])
                 PROVE  OfRegistration(a.msg, c)'
      BY DEF Fits
    <2>1. m.name = pname[c] /\ Connected(c)
      BY <1>6, <1>10 DEF Conversation, Connected
    <2>2. Conversation(m, pname[c])
      BY <1>6, <2>1 DEF Conversation
    <2>3. cstate[c] = "waiting" => cmsg[c].type \in Calls
      BY DEF SafeInv, ClientInv
    <2>4. ~OfCall(m, c)
      BY <1>6, <2>3 DEF OfCall, Calls, Answers
    <2>5. cstate[c] = "registering"
      BY <1>8, <2>1, <2>2, <2>4 DEF Fits, OfRegistration
    <2>6. QED BY <1>6, <1>10, <1>14, <2>1, <2>5 DEF OfRegistration
  <1>16. Fits(b.msg)' /\ \A n : ~Conversation(b.msg, n)
    BY <1>11 DEF Fits, Conversation
  <1>17. \A n : Conversation(a.msg, n) => Conversation(m, n)
    BY <1>6, <1>10 DEF Conversation
  <1>18. /\ v \in Seq(Write) /\ Len(v) = 2 /\ v[1] = a /\ v[2] = b
         /\ \A i \in 1..Len(v) : i = 1 \/ i = 2
    BY <1>5, <1>10, <1>11
  <1>19. \A i \in 1..Len(v) : WellFormed(v[i]) /\ Fits(v[i].msg)'
    BY <1>12, <1>13, <1>15, <1>16, <1>18
  <1>20. \A n : OneOut(v, n) /\ (NoneOut(v, n) \/ Conversation(m, n))
    BY <1>16, <1>17, <1>18 DEF OneOut, NoneOut
  <1>21. ASSUME NEW z, NEW c, OfRegistration(z, c) \/ OfCall(z, c)
         PROVE  OfRegistration(z, c)' \/ OfCall(z, c)'
    <2>1. CASE OfRegistration(z, c)
      BY <1>6, <1>14, <2>1 DEF OfRegistration
    <2>2. CASE OfCall(z, c)
      BY <1>6, <2>2 DEF OfCall
    <2>3. QED BY <1>21, <2>1, <2>2
  <1>22. Oldest' = Oldest
    BY <1>6, PublishedOldest DEF SafeInv, TypeInv
  <1>23. FlightInv' /\ SingleInv'
    BY <1>1, <1>6, <1>7, <1>9, <1>18, <1>19, <1>20, <1>21, <1>22, HandlerSafe
  <1>24. ClientInv'
    BY <1>6, <1>14 DEF SafeInv, ClientInv, IsServer
  <1>25. DictInv'
    <2>1. \A f \in Followers : f \in Servers \ {Master}
      BY ServerAssumption DEF Servers
    <2>2. nextUuid' >= 1 /\ \A x \in DOMAIN mqDict'[Master] : x >= 1 /\ x < nextUuid'
      <3>1. \A x \in DOMAIN mqDict[Master] : x >= 1 /\ x < u /\ x \in Nat
        BY <1>2, <1>7 DEF SafeInv, TypeInv, TypeOK, DictInv
      <3>2. QED BY <1>6, <1>7, <1>14, <3>1
    <2>3. \A f \in Followers : \A x \in DOMAIN mqDict'[f] :
             x \in DOMAIN mqDict'[Master] /\ mqDict'[f][x] = mqDict'[Master][x]
      BY <1>14, <2>1 DEF SafeInv, DictInv
    <2>4. QED BY <1>6, <2>2, <2>3 DEF SafeInv, DictInv, IsServer, IsFollower
  <1>26. QED BY <1>23, <1>24, <1>25

\* client_register, a follower: no record is sent to a client, or in its name.
LEMMA RegisterFoerSafe ==
    ASSUME SafeInv, MasterRegisterFoer, UNCHANGED <<cstate, cmsg, held>>
    PROVE  DictInv' /\ ClientInv' /\ FlightInv' /\ SingleInv'
  <1>1. PICK m : m = Received(Master)
    OBVIOUS
  <1>2. PICK foers : foers = Append(mqFoers, m.name)
    OBVIOUS
  <1>3. PICK order \in Orders(HeldLocks) :
           out' = [out EXCEPT ![Master] = SyncMsgs(m, order, foers)]
    BY <1>1, <1>2 DEF MasterRegisterFoer
  <1>4. PICK v : v = SyncMsgs(m, order, foers)
    OBVIOUS
  <1>5. /\ HasMsg(Master) /\ m.type = "REGISTER" /\ m.ctype = "FOER"
        /\ queue' = MqOpen(Popped(Master), m.name)
        /\ PublishName
        /\ mqFoers' = foers
        /\ serverNames' = Append(serverNames, m.name)
        /\ out' = [out EXCEPT ![Master] = v]
        /\ UNCHANGED <<nextUuid, lockDict, mqDict, pname>>
    BY <1>1, <1>2, <1>3, <1>4 DEF MasterRegisterFoer
  <1>6. Master \in Servers
    BY DEF Servers
  <1>7. m \in Msg /\ WellFormed(Send(pname[Master], m)) /\ Fits(m)
    BY <1>1, <1>5, <1>6, ReceivedFits
  <1>8. /\ m.name \in Int /\ m.name < Oldest /\ IsServer(m.server)
        /\ IsFollower(m.name)
    BY <1>5, <1>7 DEF Msg, WellFormed, Send
  <1>0. TypeOK
    BY DEF SafeInv, TypeInv
  <1>9. foers \in Seq(Int) /\ mqFoers \in Seq(Int) /\ serverNames \in Seq(Int)
    BY <1>0, <1>2, <1>8 DEF TypeOK
  <1>10. \A i \in 1..Len(foers) : IsFollower(foers[i])
    BY <1>2, <1>8, <1>9 DEF SafeInv, DictInv
  <1>11. v \in Seq(Write) /\ \A k \in 1..Len(v) : IsSync(v[k], m, foers)
    BY <1>0, <1>4, <1>7, <1>9, SyncMsgsType
  <1>12. ASSUME NEW k \in 1..Len(v)
         PROVE  /\ WellFormed(v[k]) /\ Fits(v[k].msg)'
                /\ v[k].msg.name = m.name
    <2>1. PICK w : w = v[k]
      OBVIOUS
    <2>2. PICK i \in 1..Len(foers) : w.to = foers[i]
      BY <1>11, <2>1 DEF IsSync
    <2>3. /\ w.to = foers[i] /\ w.msg.name = m.name /\ w.msg.type = "REGISTER"
          /\ w.msg.ctype = "LOCK_SYNC" /\ w.msg.server = m.server
      BY <1>5, <1>11, <2>1, <2>2 DEF IsSync
    <2>4. /\ foers[i] < Oldest
          /\ \A c \in Clients : Connected(c) =>
                foers[i] # pname[c] /\ m.name # pname[c]
      BY <1>8, <1>10, ServerNames, ClientNames DEF SafeInv
    <2>5. WellFormed(w)
      BY <1>8, <2>3, <2>4 DEF WellFormed, Calls
    <2>6. Fits(w.msg)'
      BY <1>5, <2>3, <2>4 DEF Fits, Conversation, Connected
    <2>7. QED BY <2>1, <2>3, <2>5, <2>6
  <1>13. ASSUME NEW c \in Clients, Connected(c)
         PROVE  OneOut(v, pname[c]) /\ NoneOut(v, pname[c])
    <2>1. m.name # pname[c]
      BY <1>8, <1>13, ClientNames DEF SafeInv
    <2>2. QED BY <1>12, <2>1 DEF OneOut, NoneOut, Conversation
  <1>14. /\ \A z, c : OfRegistration(z, c)' <=> OfRegistration(z, c)
         /\ \A z, c : OfCall(z, c)' <=> OfCall(z, c)
    BY <1>5, SameFits
  <1>15. Oldest' = Oldest
    BY <1>5, PublishedOldest DEF SafeInv, TypeInv
  <1>16. FlightInv' /\ SingleInv'
    <2>1. /\ HasMsg(Master) /\ v \in Seq(Write)
          /\ out' = [out EXCEPT ![Master] = v]
          /\ \E y \in Int : queue' = MqOpen(Popped(Master), y)
          /\ UNCHANGED <<pname, cstate>>
      BY <1>5, <1>8, <1>11
    <2>2. \A i \in 1..Len(v) : WellFormed(v[i]) /\ Fits(v[i].msg)'
      BY <1>12
    <2>3. QED BY <1>6, <1>13, <1>14, <1>15, <2>1, <2>2, HandlerSafe
  <1>17. ClientInv'
    BY <1>5, SameClients DEF SafeInv
  <1>18. DictInv'
    <2>1. IsServer(m.name)
      BY <1>8, FollowerIsServer
    <2>2. \A i \in 1..Len(serverNames') : IsServer(serverNames'[i])
      <3>1. \A i \in 1..Len(serverNames) : IsServer(serverNames[i])
        BY DEF SafeInv, DictInv
      <3>2. QED BY <1>5, <1>8, <1>9, <2>1, <3>1
    <2>3. \A i \in 1..Len(mqFoers') : IsFollower(mqFoers'[i])
      BY <1>5, <1>10
    <2>4. /\ \A x : IsServer(x)' <=> IsServer(x)
          /\ \A x : IsFollower(x)' <=> IsFollower(x)
      BY <1>5 DEF IsServer, IsFollower
    <2>5. QED BY <1>5, <2>2, <2>3, <2>4 DEF SafeInv, DictInv
  <1>19. QED BY <1>16, <1>17, <1>18

\* What is in flight has its type.
LEMMA FlightType ==
    ASSUME TypeOK, NEW w \in InFlight(queue, out)
    PROVE  w.to \in Int /\ w.msg \in Msg
  <1>1. CASE \E x \in DOMAIN queue : \E i \in 1..Len(queue[x]) :
                w = Send(x, queue[x][i])
    <2>1. PICK x \in DOMAIN queue : \E i \in 1..Len(queue[x]) :
                  w = Send(x, queue[x][i])
      BY <1>1
    <2>2. PICK i \in 1..Len(queue[x]) : w = Send(x, queue[x][i])
      BY <2>1
    <2>3. x \in Int /\ queue[x] \in Seq(Msg)
      BY DEF TypeOK
    <2>4. queue[x][i] \in Msg
      BY <2>3
    <2>5. QED BY <2>2, <2>3, <2>4 DEF Send
  <1>2. CASE \E p \in Procs : \E i \in 1..Len(out[p]) : w = out[p][i]
    <2>1. PICK p \in Procs : \E i \in 1..Len(out[p]) : w = out[p][i]
      BY <1>2
    <2>2. PICK i \in 1..Len(out[p]) : w = out[p][i]
      BY <2>1
    <2>3. out[p] \in Seq(Write)
      BY DEF TypeOK, Write
    <2>4. w \in Write
      BY <2>2, <2>3
    <2>5. QED BY <2>4 DEF Write
  <1>3. QED BY <1>1, <1>2, FlightCases

\* The start of follower_run.
LEMMA StartSafe ==
    ASSUME SafeInv, NEW f \in Followers, FollowerStart(f),
           UNCHANGED <<cstate, cmsg, held>>
    PROVE  DictInv' /\ ClientInv' /\ FlightInv' /\ SingleInv'
  <1>1. /\ f \in Servers /\ f \in Procs /\ f # Master /\ f \notin Clients
        /\ f \in Procs \ {Master}
    BY ServerAssumption DEF Servers, Procs
  <1>2. /\ pname \in [Procs -> Int] /\ Outs(out) /\ freeNames \in Seq(Nat)
        /\ nextName \in Nat /\ TypeOK /\ NameInv
    BY DEF SafeInv, TypeInv, TypeOK, Outs, Write
  <1>3. PICK n : n = Head(freeNames)
    OBVIOUS
  <1>4. PICK m : m = [type |-> "REGISTER", ctype |-> "FOER", uuid |-> 0,
                      name |-> n, server |-> NoName, lock |-> NoLock]
    OBVIOUS
  <1>5. PICK w : w = Send(MasterNode, m)
    OBVIOUS
  <1>6. PICK v : v = <<w>>
    OBVIOUS
  <1>7. /\ pname[f] = NoName /\ freeNames # <<>>
        /\ pname' = [pname EXCEPT ![f] = n]
        /\ queue' = MqOpen(queue, n)
        /\ out' = [out EXCEPT ![f] = v]
        /\ freeNames' = Tail(freeNames)
        /\ UNCHANGED <<serverNames, nextName, nextUuid, lockDict, mqDict, mqFoers>>
    BY <1>3, <1>4, <1>5, <1>6 DEF FollowerStart
  <1>8. n = Oldest /\ n >= 1 /\ n \in Int
    <2>1. Head(freeNames) = Oldest /\ Head(freeNames) >= 1
      BY <1>1, <1>2, <1>3, <1>7, NameTaken
    <2>2. Head(freeNames) \in Nat
      BY <1>2, <1>7
    <2>3. QED BY <1>3, <2>1, <2>2
  <1>9. Oldest' = n + 1
    BY <1>2, <1>7, <1>8 DEF Oldest
  <1>10. /\ pname'[f] = n
         /\ \A p \in Procs \ {f} : pname'[p] = pname[p]
         /\ \A c \in Clients : pname'[c] = pname[c]
    BY <1>1, <1>2, <1>7 DEF Procs
  <1>11. /\ \A x : IsServer(x) => IsServer(x)'
         /\ \A x : IsFollower(x) => IsFollower(x)'
         /\ IsFollower(n)' /\ IsServer(NoName)'
    BY <1>1, <1>7, <1>8, <1>10 DEF IsServer, IsFollower, Servers, Procs, NoName
  <1>12. ASSUME NEW z \in InFlight(queue, out)
         PROVE  WellFormed(z)' /\ Fits(z.msg)'
    <2>1. z.to \in Int /\ z.msg.name \in Int /\ WellFormed(z) /\ Fits(z.msg)
      BY <1>2, FlightType DEF SafeInv, FlightInv, Msg
    <2>2. z.msg.name < Oldest' /\ z.to < Oldest'
      BY <1>8, <1>9, <2>1 DEF WellFormed
    <2>3. \A c \in Clients : Connected(c)' <=> Connected(c)
      BY DEF Connected
    <2>4. WellFormed(z)'
      BY <1>10, <1>11, <2>1, <2>2, <2>3 DEF WellFormed
    <2>5. Fits(z.msg)'
      BY <1>7, <1>10, <2>1, <2>3 DEF Fits, OfRegistration, OfCall
    <2>6. QED BY <2>4, <2>5
  <1>13. ASSUME NEW c \in Clients, Connected(c)
         PROVE  pname[c] # n /\ pname[c] # MasterNode
    BY <1>8, <1>13, ClientNames DEF SafeInv
  <1>14. /\ w.to = MasterNode /\ w.msg = m /\ m.name = n /\ m.type = "REGISTER"
         /\ m.server = NoName
    BY <1>4, <1>5 DEF Send
  <1>15. WellFormed(w)' /\ Fits(w.msg)'
    <2>1. n < Oldest' /\ MasterNode < Oldest'
      BY <1>8, <1>9 DEF MasterNode
    <2>2. \A c \in Clients : Connected(c)' <=> Connected(c)
      BY DEF Connected
    <2>3. WellFormed(w)'
      BY <1>10, <1>11, <1>13, <1>14, <2>1, <2>2 DEF WellFormed, Calls
    <2>4. Fits(w.msg)'
      BY <1>10, <1>13, <1>14, <2>2 DEF Fits, Conversation
    <2>5. QED BY <2>3, <2>4
  <1> DEFINE o1 == out'
  <1>16. o1[f] = v /\ \A p \in Procs \ {f} : o1[p] = out[p]
    BY <1>1, <1>2, <1>7 DEF Outs
  <1>17. /\ Len(v) = 1 /\ v[1] = w
         /\ \A k : OneOut(v, k)
         /\ \A c \in Clients : Connected(c) => NoneOut(v, pname[c])
    <2>1. Len(v) = 1 /\ v[1] = w
      BY <1>6
    <2>2. \A k : OneOut(v, k)
      BY <2>1 DEF OneOut
    <2>3. \A c \in Clients : Connected(c) => NoneOut(v, pname[c])
      BY <1>13, <1>14, <2>1 DEF NoneOut, Conversation
    <2>4. QED BY <2>1, <2>2, <2>3
  <1>18. /\ DOMAIN queue \subseteq DOMAIN queue'
         /\ \A x \in DOMAIN queue : queue'[x] = queue[x]
         /\ \A x \in DOMAIN queue' \ DOMAIN queue : queue'[x] = <<>>
    BY <1>7 DEF MqOpen
  <1> HIDE DEF o1
  <1>19. /\ InFlight(queue', out) = InFlight(queue, out)
         /\ \A k : Single(queue, out, k) => Single(queue', out, k)
    BY <1>18, Opened
  <1>20. /\ \A z \in InFlight(queue', o1) :
               z \in InFlight(queue', out) \/ \E i \in 1..Len(o1[f]) : z = o1[f][i]
         /\ \A k : /\ Single(queue', out, k)
                   /\ OneOut(o1[f], k)
                   /\ NoneOut(o1[f], k) \/ Quiet(queue', out, k)
                   => Single(queue', o1, k)
    BY <1>1, <1>2, <1>16, GivenWrites
  <1>21. \A z \in InFlight(queue', o1) : WellFormed(z)' /\ Fits(z.msg)'
    BY <1>12, <1>15, <1>16, <1>17, <1>19, <1>20
  <1>22. FlightInv'
    BY <1>21 DEF FlightInv, o1
  <1>23. SingleInv'
    <2>1. ASSUME NEW c \in Clients, Connected(c)
          PROVE  Single(queue', o1, pname[c])
      BY <1>16, <1>17, <1>19, <1>20, <2>1 DEF SafeInv, SingleInv
    <2>2. QED BY <1>10, <2>1 DEF SingleInv, Connected, o1
  <1>24. DictInv'
    BY <1>7, <1>11 DEF SafeInv, DictInv
  <1>25. ClientInv'
    BY <1>7, <1>10, <1>11 DEF SafeInv, ClientInv
  <1>26. QED BY <1>22, <1>23, <1>24, <1>25

-----------------------------------------------------------------------------
(* The clients.                                                            *)

\* lookup_server.
LEMMA LookupServerSafe ==
    ASSUME SafeInv, NEW c \in Clients, LookupServer(c)
    PROVE  DictInv' /\ ClientInv' /\ FlightInv' /\ SingleInv'
  <1>1. PICK x : x = Head(serverNames)
    OBVIOUS
  <1>2. /\ cstate \in [Clients -> CStates] /\ cmsg \in [Clients -> Msg]
        /\ serverNames \in Seq(Int)
    BY DEF SafeInv, TypeInv, TypeOK
  <1>3. /\ cstate[c] = "start" /\ serverNames # <<>>
        /\ cmsg' = [cmsg EXCEPT ![c].server = x]
        /\ serverNames' = Tail(serverNames)
        /\ cstate' = [cstate EXCEPT ![c] = "lookup"]
        /\ UNCHANGED <<queue, freeNames, nextName, nextUuid, lockDict, mqDict,
                       mqFoers, out, pname, held>>
    BY <1>1 DEF LookupServer
  <1>4. /\ cstate'[c] = "lookup" /\ cmsg'[c].server = x
        /\ \A d \in Clients \ {c} : cstate'[d] = cstate[d] /\ cmsg'[d] = cmsg[d]
    BY <1>2, <1>3 DEF Msg
  <1>5. \A d \in Clients : (Connected(d)' <=> Connected(d)) /\ (Connected(d) => d # c)
    BY <1>3, <1>4 DEF Connected
  <1>6. Oldest' = Oldest
    BY <1>3 DEF Oldest
  <1>7. /\ \A y : IsServer(y)' <=> IsServer(y)
        /\ \A y : IsFollower(y)' <=> IsFollower(y)
    BY <1>3 DEF IsServer, IsFollower
  <1>8. \A i \in 1..Len(serverNames) : IsServer(serverNames[i])
    BY DEF SafeInv, DictInv
  <1>9. IsServer(x) /\ \A i \in 1..Len(serverNames') : IsServer(serverNames'[i])
    <2>1. Len(serverNames) \in Nat /\ Len(serverNames) >= 1 /\ x = serverNames[1]
      BY <1>1, <1>2, <1>3
    <2>2. \A i \in 1..Len(serverNames') : /\ i + 1 \in 1..Len(serverNames)
                                          /\ serverNames'[i] = serverNames[i + 1]
      BY <1>2, <1>3
    <2>3. QED BY <1>8, <2>1, <2>2
  <1>10. FlightInv'
    <2>1. ASSUME NEW w \in InFlight(queue, out)
          PROVE  WellFormed(w)' /\ Fits(w.msg)'
      <3>1. WellFormed(w) /\ Fits(w.msg)
        BY DEF SafeInv, FlightInv
      <3>2. WellFormed(w)'
        BY <1>3, <1>5, <1>6, <1>7, <3>1 DEF WellFormed
      <3>3. Fits(w.msg)'
        BY <1>3, <1>4, <1>5, <3>1 DEF Fits, OfRegistration, OfCall
      <3>4. QED BY <3>2, <3>3
    <2>2. QED BY <1>3, <2>1 DEF FlightInv
  <1>11. SingleInv'
    BY <1>3, <1>5 DEF SafeInv, SingleInv
  <1>12. DictInv'
    BY <1>3, <1>7, <1>9 DEF SafeInv, DictInv
  <1>13. ClientInv'
    BY <1>3, <1>4, <1>7, <1>9 DEF SafeInv, ClientInv
  <1>14. QED BY <1>10, <1>11, <1>12, <1>13

\* lookup_name, the two mq_opens and the REGISTER.
LEMMA LookupNameSafe ==
    ASSUME SafeInv, NEW c \in Clients, LookupName(c)
    PROVE  DictInv' /\ ClientInv' /\ FlightInv' /\ SingleInv'
  <1>1. c \in Procs \ {Master} /\ c \notin Servers
    BY ServerAssumption DEF Servers, Procs
  <1>2. /\ pname \in [Procs -> Int] /\ Outs(out) /\ freeNames \in Seq(Nat)
        /\ nextName \in Nat /\ TypeOK /\ NameInv
        /\ cstate \in [Clients -> CStates] /\ cmsg \in [Clients -> Msg]
    BY DEF SafeInv, TypeInv, TypeOK, Outs, Write
  <1>3. PICK n : n = Head(freeNames)
    OBVIOUS
  <1>4. PICK m : m = [cmsg[c] EXCEPT !.type = "REGISTER", !.ctype = "CLIENT",
                                     !.name = n]
    OBVIOUS
  <1>5. PICK w : w = Send(m.server, m)
    OBVIOUS
  <1>6. PICK v : v = <<w>>
    OBVIOUS
  <1>7. /\ cstate[c] = "lookup" /\ freeNames # <<>>
        /\ pname' = [pname EXCEPT ![c] = n]
        /\ queue' = MqOpen(MqOpen(queue, m.server), n)
        /\ cmsg' = [cmsg EXCEPT ![c] = m]
        /\ out' = [out EXCEPT ![c] = v]
        /\ freeNames' = Tail(freeNames)
        /\ cstate' = [cstate EXCEPT ![c] = "registering"]
        /\ UNCHANGED <<serverNames, nextName, nextUuid, lockDict, mqDict,
                       mqFoers, held>>
    BY <1>3, <1>4, <1>5, <1>6 DEF LookupName
  <1>8. n = Oldest /\ n >= 1 /\ n \in Int
    <2>1. Head(freeNames) = Oldest /\ Head(freeNames) >= 1
      BY <1>1, <1>2, <1>3, <1>7, NameTaken
    <2>2. Head(freeNames) \in Nat
      BY <1>2, <1>7
    <2>3. QED BY <1>3, <2>1, <2>2
  <1>9. Oldest' = n + 1
    BY <1>2, <1>7, <1>8 DEF Oldest
  <1>10. /\ pname'[c] = n /\ cstate'[c] = "registering" /\ cmsg'[c] = m
         /\ \A p \in Procs \ {c} : pname'[p] = pname[p]
         /\ \A d \in Clients \ {c} : /\ cstate'[d] = cstate[d]
                                     /\ cmsg'[d] = cmsg[d]
                                     /\ pname'[d] = pname[d]
    BY <1>1, <1>2, <1>7 DEF Procs
  <1>11. /\ \A x : IsServer(x)' <=> IsServer(x)
         /\ \A x : IsFollower(x)' <=> IsFollower(x)
    BY <1>1, <1>10 DEF IsServer, IsFollower, Servers, Procs
  <1>12. /\ ~Connected(c) /\ Connected(c)'
         /\ \A d \in Clients \ {c} : Connected(d)' <=> Connected(d)
    BY <1>7, <1>10 DEF Connected
  <1>13. /\ m.type = "REGISTER" /\ m.ctype = "CLIENT" /\ m.name = n
         /\ m.server = cmsg[c].server /\ w.to = m.server /\ w.msg = m
    BY <1>2, <1>4, <1>5 DEF Send, Msg
  <1>14. IsServer(m.server) /\ m.server < n /\ m.server \in Int
    <2>1. IsServer(m.server)
      BY <1>7, <1>13 DEF SafeInv, ClientInv
    <2>2. QED BY <1>8, <2>1, ServerNames DEF SafeInv
  <1>15. ASSUME NEW d \in Clients, Connected(d)
         PROVE  d # c /\ pname[d] # n /\ pname[d] # m.server
    BY <1>8, <1>12, <1>14, <1>15, ClientNames DEF SafeInv
  <1>16. ASSUME NEW z \in InFlight(queue, out)
         PROVE  WellFormed(z)' /\ Fits(z.msg)' /\ ~Conversation(z.msg, n)
    <2>1. z.to \in Int /\ z.msg.name \in Int /\ WellFormed(z) /\ Fits(z.msg)
      BY <1>2, FlightType DEF SafeInv, FlightInv, Msg
    <2>2. /\ z.msg.name < Oldest' /\ z.to < Oldest'
          /\ z.msg.name # n /\ z.to # n
      BY <1>8, <1>9, <2>1 DEF WellFormed
    <2>3. WellFormed(z)'
      <3>1. \A d \in Clients : Connected(d)' /\ z.to = pname'[d] =>
               d # c /\ Connected(d) /\ z.to = pname[d]
        BY <1>10, <1>12, <2>2
      <3>2. z.msg.type \in Calls =>
               \E d \in Clients : Connected(d)' /\ z.msg.name = pname'[d]
        BY <1>10, <1>12, <2>1 DEF WellFormed
      <3>3. QED BY <1>11, <2>1, <2>2, <3>1, <3>2 DEF WellFormed
    <2>4. ~Conversation(z.msg, n)
      BY <2>2 DEF Conversation
    <2>5. Fits(z.msg)'
      BY <1>7, <1>10, <1>12, <2>1, <2>4 DEF Fits, OfRegistration, OfCall
    <2>6. QED BY <2>3, <2>4, <2>5
  <1>17. WellFormed(w)' /\ Fits(w.msg)'
    <2>1. n < Oldest' /\ m.server < Oldest'
      BY <1>8, <1>9, <1>14
    <2>2. \A d \in Clients : Connected(d)' => m.server # pname'[d]
      BY <1>8, <1>10, <1>12, <1>14, <1>15
    <2>3. WellFormed(w)'
      BY <1>11, <1>13, <1>14, <2>1, <2>2 DEF WellFormed, Calls
    <2>4. \A d \in Clients \ {c} : Connected(d)' => pname'[d] # n
      BY <1>10, <1>12, <1>15
    <2>5. OfRegistration(m, c)'
      BY <1>10, <1>13 DEF OfRegistration
    <2>6. Fits(w.msg)'
      BY <1>13, <2>4, <2>5 DEF Fits, Conversation
    <2>7. QED BY <2>3, <2>6
  <1> DEFINE o1 == out'
  <1>18. o1[c] = v /\ \A p \in Procs \ {c} : o1[p] = out[p]
    BY <1>1, <1>2, <1>7 DEF Outs
  <1>19. /\ Len(v) = 1 /\ v[1] = w
         /\ \A k : OneOut(v, k)
         /\ \A d \in Clients : Connected(d) => NoneOut(v, pname[d])
    <2>1. Len(v) = 1 /\ v[1] = w
      BY <1>6
    <2>2. \A k : OneOut(v, k)
      BY <2>1 DEF OneOut
    <2>3. \A d \in Clients : Connected(d) => NoneOut(v, pname[d])
      BY <1>13, <1>15, <2>1 DEF NoneOut, Conversation
    <2>4. QED BY <2>1, <2>2, <2>3
  <1>20. /\ DOMAIN queue \subseteq DOMAIN queue'
         /\ \A x \in DOMAIN queue : queue'[x] = queue[x]
         /\ \A x \in DOMAIN queue' \ DOMAIN queue : queue'[x] = <<>>
    BY <1>7 DEF MqOpen
  <1> HIDE DEF o1
  <1>21. /\ InFlight(queue', out) = InFlight(queue, out)
         /\ \A k : Single(queue, out, k) => Single(queue', out, k)
    BY <1>20, Opened
  <1>22. /\ \A z \in InFlight(queue', o1) :
               z \in InFlight(queue', out) \/ \E i \in 1..Len(o1[c]) : z = o1[c][i]
         /\ \A k : /\ Single(queue', out, k)
                   /\ OneOut(o1[c], k)
                   /\ NoneOut(o1[c], k) \/ Quiet(queue', out, k)
                   => Single(queue', o1, k)
    BY <1>1, <1>2, <1>18, GivenWrites
  <1>23. FlightInv'
    <2>1. \A z \in InFlight(queue', o1) : WellFormed(z)' /\ Fits(z.msg)'
      BY <1>16, <1>17, <1>18, <1>19, <1>21, <1>22
    <2>2. QED BY <2>1 DEF FlightInv, o1
  <1>24. SingleInv'
    <2>1. ASSUME NEW d \in Clients, Connected(d)
          PROVE  Single(queue', o1, pname[d])
      BY <1>18, <1>19, <1>21, <1>22, <2>1 DEF SafeInv, SingleInv
    <2>2. Quiet(queue', out, n)
      BY <1>16, <1>21 DEF Quiet
    <2>3. Single(queue', o1, n)
      BY <1>18, <1>19, <1>22, <2>2, QuietSingle
    <2>4. QED BY <1>10, <1>12, <2>1, <2>3 DEF SingleInv, o1
  <1>25. DictInv'
    BY <1>7, <1>11 DEF SafeInv, DictInv
  <1>26. ClientInv'
    BY <1>7, <1>10, <1>11, <1>13, <1>14 DEF SafeInv, ClientInv
  <1>27. QED BY <1>23, <1>24, <1>25, <1>26

\* A client reads the message of its conversation: nothing else is in flight
\* for it any more.
LEMMA ReadSafe ==
    ASSUME SafeInv, NEW c \in Clients, Connected(c), NEW i,
           Without(queue, queue', pname[c], i),
           Conversation(queue[pname[c]][i], pname[c]),
           UNCHANGED <<out, pname, freeNames, nextName, lockDict, mqDict>>,
           cstate'[c] = "idle",
           \A d \in Clients \ {c} : cstate'[d] = cstate[d] /\ cmsg'[d] = cmsg[d]
    PROVE  FlightInv' /\ SingleInv'
  <1>1. Queues(queue) /\ Outs(out)
    BY DEF SafeInv, TypeInv, TypeOK, Queues, Outs, Write
  <1> DEFINE q1 == queue'
             x == pname[c]
  <1> HIDE DEF q1, x
  <1>2. Without(queue, q1, x, i)
    BY DEF q1, x
  <1>3. /\ InFlight(q1, out) \subseteq InFlight(queue, out)
        /\ \A n : Single(queue, out, n) => Single(q1, out, n)
        /\ \A n : Single(queue, out, n) /\ Conversation(queue[x][i], n)
                     => Quiet(q1, out, n)
    BY <1>1, <1>2, TakenOut
  <1>4. Quiet(q1, out, pname[c])
    BY <1>3 DEF x, SafeInv, SingleInv
  <1>5. \A d \in Clients : Connected(d)' <=> Connected(d)
    BY DEF Connected
  <1>6. ASSUME NEW w \in InFlight(q1, out)
        PROVE  WellFormed(w)' /\ Fits(w.msg)'
    <2>1. WellFormed(w) /\ Fits(w.msg) /\ ~Conversation(w.msg, pname[c])
      BY <1>3, <1>4 DEF SafeInv, FlightInv, Quiet
    <2>2. WellFormed(w)'
      BY <1>5, <2>1 DEF WellFormed, Oldest, IsServer, IsFollower
    <2>3. Fits(w.msg)'
      BY <1>5, <2>1 DEF Fits, OfRegistration, OfCall
    <2>4. QED BY <2>2, <2>3
  <1>7. FlightInv'
    BY <1>6 DEF FlightInv, q1
  <1>8. SingleInv'
    BY <1>3, <1>5 DEF SafeInv, SingleInv, q1
  <1>9. QED BY <1>7, <1>8

\* What a client finds in its queue is its own conversation.
LEMMA QueueOfClient ==
    ASSUME SafeInv, NEW c \in Clients, cstate[c] \in {"registering", "waiting"},
           NEW i \in 1..Len(queue[pname[c]]), NEW z, z = queue[pname[c]][i]
    PROVE  /\ Connected(c) /\ z \in Msg /\ Conversation(z, pname[c])
           /\ z.name = pname[c] /\ IsServer(z.server)
           /\ z.type \in AnswerTypes \cup {"REGISTER_ACK"}
           /\ OfRegistration(z, c) \/ OfCall(z, c)
  <1>1. Connected(c)
    BY DEF Connected
  <1>2. pname[c] \in DOMAIN queue /\ queue[pname[c]] \in Seq(Msg)
    BY DEF SafeInv, TypeInv, TypeOK, QueueInv
  <1>3. z \in Msg
    BY <1>2
  <1>4. Send(pname[c], z) \in InFlight(queue, out)
    BY <1>2, FlightCases
  <1>5. WellFormed(Send(pname[c], z)) /\ Fits(Send(pname[c], z).msg)
    BY <1>4 DEF SafeInv, FlightInv
  <1>6. Send(pname[c], z).msg = z /\ Send(pname[c], z).to = pname[c]
    BY DEF Send
  <1>7. /\ z.name = pname[c] /\ IsServer(z.server)
        /\ z.type \in AnswerTypes \cup {"REGISTER_ACK"}
    BY <1>1, <1>5, <1>6 DEF WellFormed
  <1>8. Conversation(z, pname[c])
    BY <1>7 DEF Conversation, AnswerTypes
  <1>9. OfRegistration(z, c) \/ OfCall(z, c)
    BY <1>1, <1>5, <1>6, <1>8 DEF Fits
  <1>10. QED BY <1>1, <1>3, <1>7, <1>8, <1>9

\* The first ACK leaves the queue, wherever in it it was.
LEMMA AckTaken ==
    ASSUME SafeInv, NEW c \in Clients, RecvAck(c)
    PROVE  \E i \in 1..Len(queue[pname[c]]) :
              /\ queue[pname[c]][i].type = "REGISTER_ACK"
              /\ Without(queue, queue', pname[c], i)
              /\ cmsg' = [cmsg EXCEPT ![c] = Buffered(queue[pname[c]][i])]
  <1>2. PICK q : q = queue[pname[c]]
    OBVIOUS
  <1>3. PICK i \in 1..Len(q) :
           /\ q[i].type = "REGISTER_ACK"
           /\ queue' = [queue EXCEPT ![pname[c]] =
                          SubSeq(q, 1, i - 1) \o SubSeq(q, i + 1, Len(q))]
           /\ cmsg' = [cmsg EXCEPT ![c] = Buffered(q[i])]
    BY <1>2 DEF RecvAck
  <1>5. cstate[c] = "registering"
    BY DEF RecvAck
  <1>8. pname[c] \in DOMAIN queue /\ q \in Seq(Msg)
    BY <1>2, <1>5 DEF SafeInv, TypeInv, TypeOK, QueueInv
  <1> DEFINE r == SubSeq(q, 1, i - 1) \o SubSeq(q, i + 1, Len(q))
  <1>9. /\ r \in Seq(Msg) /\ Len(r) = Len(q) - 1
        /\ \A j \in 1..Len(r) : r[j] = q[IF j < i THEN j ELSE j + 1]
    <2>1. Len(q) \in Nat /\ i \in 1..Len(q)
      BY <1>8
    <2>2. /\ SubSeq(q, 1, i - 1) \in Seq(Msg)
          /\ Len(SubSeq(q, 1, i - 1)) = i - 1
          /\ \A j \in 1..(i - 1) : SubSeq(q, 1, i - 1)[j] = q[j]
      BY <1>8, <2>1, SubSeqProperties
    <2>3. /\ SubSeq(q, i + 1, Len(q)) \in Seq(Msg)
          /\ Len(SubSeq(q, i + 1, Len(q))) = Len(q) - i
          /\ \A j \in 1..(Len(q) - i) : SubSeq(q, i + 1, Len(q))[j] = q[i + j]
      BY <1>8, <2>1, SubSeqProperties
    <2> DEFINE s == SubSeq(q, 1, i - 1)
               t == SubSeq(q, i + 1, Len(q))
    <2> HIDE DEF s, t
    <2>4. /\ s \in Seq(Msg) /\ t \in Seq(Msg) /\ r = s \o t
          /\ Len(s) = i - 1 /\ Len(t) = Len(q) - i
          /\ \A j \in 1..(i - 1) : s[j] = q[j]
          /\ \A j \in 1..(Len(q) - i) : t[j] = q[i + j]
      BY <2>2, <2>3 DEF s, t
    <2> HIDE DEF r
    <2>5. /\ r \in Seq(Msg) /\ Len(r) = Len(q) - 1
          /\ \A j \in 1..Len(r) : r[j] = IF j <= i - 1 THEN s[j] ELSE t[j - (i - 1)]
      <3>1. /\ r \in Seq(Msg) /\ Len(r) = Len(s) + Len(t)
            /\ \A j \in 1..(Len(s) + Len(t)) :
                  r[j] = IF j <= Len(s) THEN s[j] ELSE t[j - Len(s)]
        BY <2>4, ConcatProperties
      <3>2. Len(s) + Len(t) = Len(q) - 1
        BY <2>1, <2>4
      <3>3. QED BY <2>4, <3>1, <3>2
    <2>6. \A j \in 1..Len(r) : r[j] = q[IF j < i THEN j ELSE j + 1]
      <3>1. ASSUME NEW j \in 1..Len(r), j < i PROVE r[j] = q[j]
        BY <2>1, <2>4, <2>5, <3>1
      <3>2. ASSUME NEW j \in 1..Len(r), ~(j < i) PROVE r[j] = q[j + 1]
        <4>1. /\ j - (i - 1) \in 1..(Len(q) - i)
              /\ r[j] = t[j - (i - 1)] /\ i + (j - (i - 1)) = j + 1
          BY <2>1, <2>5, <3>2
        <4>2. QED BY <2>4, <4>1
      <3>3. QED BY <3>1, <3>2
    <2>7. QED BY <2>5, <2>6
  <1> HIDE DEF r
  <1>10. Without(queue, queue', pname[c], i)
    <2>1. DOMAIN queue' = DOMAIN queue /\ queue'[pname[c]] = r
          /\ \A y \in DOMAIN queue \ {pname[c]} : queue'[y] = queue[y]
      BY <1>3, <1>8 DEF r
    <2>2. QED BY <1>2, <1>3, <1>8, <1>9, <2>1 DEF Without
  <1>11. QED BY <1>2, <1>3, <1>10

\* The ACK is read.
LEMMA RecvAckSafe ==
    ASSUME SafeInv, NEW c \in Clients, RecvAck(c)
    PROVE  DictInv' /\ ClientInv' /\ FlightInv' /\ SingleInv'
  <1>1. /\ cstate \in [Clients -> CStates] /\ cmsg \in [Clients -> Msg]
        /\ DOMAIN queue \subseteq Int
    BY DEF SafeInv, TypeInv, TypeOK
  <1>2. PICK q : q = queue[pname[c]]
    OBVIOUS
  <1>3. PICK i \in 1..Len(q) :
           /\ q[i].type = "REGISTER_ACK"
           /\ Without(queue, queue', pname[c], i)
           /\ cmsg' = [cmsg EXCEPT ![c] = Buffered(q[i])]
    BY <1>2, AckTaken
  <1>4. PICK z : z = q[i]
    OBVIOUS
  <1>5. /\ cstate[c] = "registering"
        /\ cstate' = [cstate EXCEPT ![c] = "idle"]
        /\ UNCHANGED <<freeNames, serverNames, nextName, nextUuid, lockDict,
                       mqDict, mqFoers, out, pname, held>>
    BY DEF RecvAck
  <1>6. /\ Connected(c) /\ z \in Msg /\ Conversation(z, pname[c])
        /\ z.name = pname[c] /\ IsServer(z.server) /\ z.type = "REGISTER_ACK"
        /\ OfRegistration(z, c) \/ OfCall(z, c)
    BY <1>2, <1>3, <1>4, <1>5, QueueOfClient
  <1>7. z.uuid \in DOMAIN mqDict[Master] /\ mqDict[Master][z.uuid] = pname[c]
    BY <1>5, <1>6 DEF OfRegistration, OfCall
  <1>11. /\ cstate'[c] = "idle" /\ cmsg'[c] = Buffered(z)
         /\ \A d \in Clients \ {c} : cstate'[d] = cstate[d] /\ cmsg'[d] = cmsg[d]
    BY <1>1, <1>3, <1>4, <1>5
  <1>12. FlightInv' /\ SingleInv'
    <2>1. Conversation(queue[pname[c]][i], pname[c])
      BY <1>2, <1>4, <1>6
    <2>2. UNCHANGED <<out, pname, freeNames, nextName, lockDict, mqDict>>
      BY <1>5
    <2>3. QED BY <1>3, <1>6, <1>11, <2>1, <2>2, ReadSafe
  <1>13. DictInv'
    BY <1>5, SameDicts DEF SafeInv
  <1>14. /\ cmsg'[c].name = pname[c] /\ cmsg'[c].server = z.server
         /\ cmsg'[c].uuid = z.uuid
    BY <1>6, <1>11 DEF Buffered, Msg
  <1>15. held[c] = {}
    BY <1>5 DEF SafeInv, ClientInv
  <1>16. \A y : IsServer(y)' <=> IsServer(y)
    BY <1>5 DEF IsServer
  <1>17. ClientInv'
    BY <1>5, <1>6, <1>7, <1>11, <1>14, <1>15, <1>16 DEF SafeInv, ClientInv
  <1>18. QED BY <1>12, <1>13, <1>17

\* Nothing of the conversation of a client that expects no answer is in flight.
LEMMA IdleQuiet ==
    ASSUME SafeInv, NEW c \in Clients, cstate[c] \in {"idle", "closed"}
    PROVE  Quiet(queue, out, pname[c])
  BY DEF SafeInv, FlightInv, Fits, OfRegistration, OfCall, Connected, Quiet

\* The write half of lk_sendrcv.
LEMMA CallSafe ==
    ASSUME SafeInv, NEW c \in Clients, NEW t \in Calls, NEW l \in Locks,
           Call(c, t, l)
    PROVE  DictInv' /\ ClientInv' /\ FlightInv' /\ SingleInv'
  <1>1. /\ cstate \in [Clients -> CStates] /\ cmsg \in [Clients -> Msg]
        /\ held \in [Clients -> SUBSET Locks] /\ Outs(out) /\ c \in Procs
    BY DEF SafeInv, TypeInv, TypeOK, Outs, Write, Procs
  <1>2. PICK m : m = [cmsg[c] EXCEPT !.type = t, !.lock = l]
    OBVIOUS
  <1>3. PICK w : w = Send(m.server, m)
    OBVIOUS
  <1>4. PICK v : v = <<w>>
    OBVIOUS
  <1>5. /\ cstate[c] = "idle"
        /\ cmsg' = [cmsg EXCEPT ![c] = m]
        /\ out' = [out EXCEPT ![c] = v]
        /\ held' = IF t = "LOCK_RELEASE" THEN [held EXCEPT ![c] = @ \ {l}] ELSE held
        /\ cstate' = [cstate EXCEPT ![c] = "waiting"]
        /\ UNCHANGED <<queue, freeNames, serverNames, nextName, nextUuid,
                       lockDict, mqDict, mqFoers, pname>>
    BY <1>2, <1>3, <1>4 DEF Call
  <1>6. /\ m.type = t /\ m.lock = l /\ m.name = cmsg[c].name
        /\ m.uuid = cmsg[c].uuid /\ m.server = cmsg[c].server
        /\ w.to = m.server /\ w.msg = m
    BY <1>1, <1>2, <1>3 DEF Send, Msg
  <1>7. /\ cstate'[c] = "waiting" /\ cmsg'[c] = m
        /\ held'[c] \subseteq held[c] /\ (t = "LOCK_RELEASE" => l \notin held'[c])
        /\ \A d \in Clients \ {c} :
              /\ cstate'[d] = cstate[d] /\ cmsg'[d] = cmsg[d]
              /\ held'[d] = held[d]
    BY <1>1, <1>5
  <1>8. \A d \in Clients : Connected(d)' <=> Connected(d)
    BY <1>5, <1>7 DEF Connected
  <1>9. Connected(c)
    BY <1>5 DEF Connected
  <1>10. /\ \A y : IsServer(y)' <=> IsServer(y)
         /\ \A y : IsFollower(y)' <=> IsFollower(y)
         /\ Oldest' = Oldest
    BY <1>5 DEF IsServer, IsFollower, Oldest
  <1>11. m.name = pname[c] /\ IsServer(m.server)
    BY <1>5, <1>6 DEF SafeInv, ClientInv
  <1>12. Quiet(queue, out, pname[c])
    BY <1>5, IdleQuiet
  <1>13. ASSUME NEW z \in InFlight(queue, out)
         PROVE  WellFormed(z)' /\ Fits(z.msg)'
    <2>1. WellFormed(z) /\ Fits(z.msg) /\ ~Conversation(z.msg, pname[c])
      BY <1>12 DEF SafeInv, FlightInv, Quiet
    <2>2. WellFormed(z)'
      BY <1>5, <1>8, <1>10, <2>1 DEF WellFormed
    <2>3. Fits(z.msg)'
      BY <1>5, <1>7, <1>8, <2>1 DEF Fits, OfRegistration, OfCall
    <2>4. QED BY <2>2, <2>3
  <1>14. \A d \in Clients \ {c} : Connected(d) => pname[d] # pname[c]
    BY <1>9, ClientNames DEF SafeInv, Procs
  <1>15. WellFormed(w)' /\ Fits(w.msg)'
    <2>1. m.server < Oldest /\ m.name < Oldest
      BY <1>9, <1>11, ServerNames, ClientNames DEF SafeInv
    <2>2. \A d \in Clients : Connected(d) => m.server # pname[d]
      BY <1>11, ClientNames DEF SafeInv
    <2>3. WellFormed(w)'
      BY <1>5, <1>6, <1>8, <1>9, <1>10, <1>11, <2>1, <2>2 DEF WellFormed, Calls
    <2>4. OfCall(m, c)'
      <3>1. m.type # "LOCK_GRANT" /\ m.type # "LOCK_IDLE"
        BY <1>6 DEF Calls
      <3>2. QED BY <1>7, <3>1 DEF OfCall
    <2>5. Fits(w.msg)'
      BY <1>5, <1>6, <1>8, <1>11, <1>14, <2>4 DEF Fits, Conversation
    <2>6. QED BY <2>3, <2>5
  <1> DEFINE o1 == out'
  <1>16. o1[c] = v /\ \A p \in Procs \ {c} : o1[p] = out[p]
    BY <1>1, <1>5 DEF Outs
  <1>17. /\ Len(v) = 1 /\ v[1] = w
         /\ \A k : OneOut(v, k)
         /\ \A k : k # pname[c] => NoneOut(v, k)
    BY <1>4, <1>6, <1>11 DEF OneOut, NoneOut, Conversation
  <1> HIDE DEF o1
  <1>18. /\ \A z \in InFlight(queue, o1) :
               z \in InFlight(queue, out) \/ \E i \in 1..Len(o1[c]) : z = o1[c][i]
         /\ \A k : /\ Single(queue, out, k)
                   /\ OneOut(o1[c], k)
                   /\ NoneOut(o1[c], k) \/ Quiet(queue, out, k)
                   => Single(queue, o1, k)
    BY <1>1, <1>16, GivenWrites
  <1>19. FlightInv'
    <2>1. \A z \in InFlight(queue, o1) : WellFormed(z)' /\ Fits(z.msg)'
      BY <1>13, <1>15, <1>16, <1>17, <1>18
    <2>2. QED BY <1>5, <2>1 DEF FlightInv, o1
  <1>20. SingleInv'
    <2>1. ASSUME NEW d \in Clients, Connected(d)
          PROVE  Single(queue, o1, pname[d])
      <3>1. Single(queue, out, pname[d])
        BY <2>1 DEF SafeInv, SingleInv
      <3>2. NoneOut(v, pname[d]) \/ Quiet(queue, out, pname[d])
        BY <1>12, <1>17
      <3>3. QED BY <1>16, <1>17, <1>18, <3>1, <3>2
    <2>2. QED BY <1>5, <1>8, <2>1 DEF SingleInv, o1
  <1>21. DictInv'
    BY <1>5, SameDicts DEF SafeInv
  <1>22. ClientInv'
    BY <1>5, <1>6, <1>7, <1>10, <1>11 DEF SafeInv, ClientInv
  <1>23. QED BY <1>19, <1>20, <1>21, <1>22

\* The first message leaves the queue.
LEMMA AnswerTaken ==
    ASSUME SafeInv, NEW c \in Clients, Return(c)
    PROVE  /\ 1 \in 1..Len(queue[pname[c]])
           /\ Answer(c) = queue[pname[c]][1]
           /\ Without(queue, queue', pname[c], 1)
  <1>1. PICK q : q = queue[pname[c]]
    OBVIOUS
  <1>2. /\ cstate[c] = "waiting" /\ q # <<>>
        /\ queue' = [queue EXCEPT ![pname[c]] = Tail(q)]
        /\ Answer(c) = Head(q)
    BY <1>1 DEF Return, Answer
  <1>3. pname[c] \in DOMAIN queue /\ q \in Seq(Msg)
    BY <1>1, <1>2 DEF SafeInv, TypeInv, TypeOK, QueueInv
  <1>4. /\ Len(q) \in Nat /\ 1 \in 1..Len(q) /\ Head(q) = q[1]
        /\ Tail(q) \in Seq(Msg) /\ Len(Tail(q)) = Len(q) - 1
        /\ \A j \in 1..Len(Tail(q)) : Tail(q)[j] = q[j + 1] /\ ~(j < 1)
    BY <1>2, <1>3
  <1>5. DOMAIN queue' = DOMAIN queue /\ queue'[pname[c]] = Tail(q)
        /\ \A y \in DOMAIN queue \ {pname[c]} : queue'[y] = queue[y]
    BY <1>2, <1>3
  <1>6. QED BY <1>1, <1>2, <1>3, <1>4, <1>5 DEF Without

\* The read half of lk_sendrcv, and what the caller makes of the answer.
LEMMA ReturnSafe ==
    ASSUME SafeInv, NEW c \in Clients, Return(c)
    PROVE  DictInv' /\ ClientInv' /\ FlightInv' /\ SingleInv'
  <1>1. /\ cstate \in [Clients -> CStates] /\ cmsg \in [Clients -> Msg]
        /\ held \in [Clients -> SUBSET Locks]
    BY DEF SafeInv, TypeInv, TypeOK
  <1>2. PICK q : q = queue[pname[c]]
    OBVIOUS
  <1>3. /\ cstate[c] = "waiting" /\ q # <<>>
        /\ queue' = [queue EXCEPT ![pname[c]] = Tail(q)]
        /\ held' = IF cmsg[c].type = "LOCK_REQUEST" /\ Head(q).type = "LOCK_GRANT"
                     THEN [held EXCEPT ![c] = @ \cup {cmsg[c].lock}]
                     ELSE held
        /\ cmsg' = [cmsg EXCEPT ![c] = Buffered(Head(q))]
        /\ cstate' = [cstate EXCEPT ![c] = "idle"]
        /\ UNCHANGED <<freeNames, serverNames, nextName, nextUuid, lockDict,
                       mqDict, mqFoers, out, pname>>
    BY <1>2 DEF Return, Answer
  <1>5. 1 \in 1..Len(q) /\ Head(q) = q[1]
    BY <1>2, AnswerTaken DEF Answer
  <1>6. PICK i \in 1..Len(q) : i = 1
    BY <1>5
  <1>7. PICK z : z = q[i]
    OBVIOUS
  <1>8. /\ Connected(c) /\ z \in Msg /\ Conversation(z, pname[c])
        /\ z.name = pname[c] /\ IsServer(z.server)
        /\ OfRegistration(z, c) \/ OfCall(z, c)
    BY <1>2, <1>3, <1>7, QueueOfClient
  <1>9. /\ z.uuid = cmsg[c].uuid
        /\ z.lock = cmsg[c].lock
        /\ z.type = "LOCK_GRANT" => lockDict[Master][z.lock] = z.uuid
    BY <1>3, <1>8 DEF OfRegistration, OfCall
  <1>10. /\ cstate'[c] = "idle" /\ cmsg'[c] = Buffered(z)
         /\ \A d \in Clients \ {c} : cstate'[d] = cstate[d] /\ cmsg'[d] = cmsg[d]
    BY <1>1, <1>3, <1>5, <1>6, <1>7
  <1>11. Without(queue, queue', pname[c], i)
    BY <1>6, AnswerTaken
  <1>12. FlightInv' /\ SingleInv'
    <2>1. Conversation(queue[pname[c]][i], pname[c])
      BY <1>2, <1>7, <1>8
    <2>2. UNCHANGED <<out, pname, freeNames, nextName, lockDict, mqDict>>
      BY <1>3
    <2>3. QED BY <1>8, <1>10, <1>11, <2>1, <2>2, ReadSafe
  <1>13. DictInv'
    BY <1>3, SameDicts DEF SafeInv
  <1>14. /\ cmsg'[c].name = pname[c] /\ cmsg'[c].server = z.server
         /\ cmsg'[c].uuid = cmsg[c].uuid
    BY <1>8, <1>9, <1>10 DEF Buffered, Msg
  <1>15. /\ \A d \in Clients \ {c} : held'[d] = held[d]
         /\ \A l \in held'[c] : lockDict[Master][l] = cmsg[c].uuid
    <2>1. \A l \in held[c] : lockDict[Master][l] = cmsg[c].uuid
      BY DEF SafeInv, ClientInv
    <2>2. \A l \in held'[c] : l \in held[c] \/ (z.type = "LOCK_GRANT" /\ l = z.lock)
      BY <1>1, <1>3, <1>5, <1>6, <1>7, <1>9
    <2>3. \A l \in held'[c] : lockDict[Master][l] = cmsg[c].uuid
      BY <1>9, <2>1, <2>2
    <2>4. \A d \in Clients \ {c} : held'[d] = held[d]
      BY <1>1, <1>3
    <2>5. QED BY <2>3, <2>4
  <1>16. \A y : IsServer(y)' <=> IsServer(y)
    BY <1>3 DEF IsServer
  <1>17. ClientInv'
    BY <1>3, <1>8, <1>10, <1>14, <1>15, <1>16 DEF SafeInv, ClientInv
  <1>18. QED BY <1>12, <1>13, <1>17

\* ~Dlock().
LEMMA CloseSafe ==
    ASSUME SafeInv, NEW c \in Clients, Close(c)
    PROVE  DictInv' /\ ClientInv' /\ FlightInv' /\ SingleInv'
  <1>1. /\ cstate \in [Clients -> CStates] /\ held \in [Clients -> SUBSET Locks]
    BY DEF SafeInv, TypeInv, TypeOK
  <1>2. /\ cstate[c] = "idle"
        /\ DOMAIN queue' \subseteq DOMAIN queue
        /\ \A x \in DOMAIN queue' : queue'[x] = queue[x]
        /\ held' = [held EXCEPT ![c] = {}]
        /\ cstate' = [cstate EXCEPT ![c] = "closed"]
        /\ UNCHANGED <<freeNames, serverNames, nextName, nextUuid, lockDict,
                       mqDict, mqFoers, out, pname, cmsg>>
    BY DEF Close
  <1>3. /\ cstate'[c] = "closed" /\ held'[c] = {}
        /\ \A d \in Clients \ {c} : cstate'[d] = cstate[d] /\ held'[d] = held[d]
    BY <1>1, <1>2
  <1>4. \A d \in Clients : Connected(d)' <=> Connected(d)
    BY <1>2, <1>3 DEF Connected
  <1>5. /\ InFlight(queue', out) \subseteq InFlight(queue, out)
        /\ \A n : Single(queue, out, n) => Single(queue', out, n)
    BY <1>2, Closed
  <1>6. Quiet(queue, out, pname[c])
    BY <1>2, IdleQuiet
  <1>7. ASSUME NEW w \in InFlight(queue, out)
        PROVE  WellFormed(w)' /\ Fits(w.msg)'
    <2>1. WellFormed(w) /\ Fits(w.msg) /\ ~Conversation(w.msg, pname[c])
      BY <1>6 DEF SafeInv, FlightInv, Quiet
    <2>2. WellFormed(w)'
      BY <1>2, <1>4, <2>1 DEF WellFormed, Oldest, IsServer, IsFollower
    <2>3. Fits(w.msg)'
      BY <1>2, <1>3, <1>4, <2>1 DEF Fits, OfRegistration, OfCall
    <2>4. QED BY <2>2, <2>3
  <1>8. FlightInv'
    BY <1>2, <1>5, <1>7 DEF FlightInv
  <1>9. SingleInv'
    BY <1>2, <1>4, <1>5 DEF SafeInv, SingleInv
  <1>10. DictInv'
    BY <1>2, SameDicts DEF SafeInv
  <1>11. ClientInv'
    BY <1>2, <1>3 DEF SafeInv, ClientInv, IsServer
  <1>12. QED BY <1>8, <1>9, <1>10, <1>11

-----------------------------------------------------------------------------
(* SafeInv is inductive.                                                   *)

\* It holds when the master has opened its queues and nothing is in flight.
LEMMA SafeInit == Init => SafeInv
  <1> SUFFICES ASSUME Init PROVE SafeInv
    OBVIOUS
  <1>1. TypeInv
    BY TypeInit
  <1>2. Master \in Servers /\ Master \in Procs
    BY DEF Servers, Procs
  <1>3. DictInv
    <2>1. IsServer(MasterNode)
      BY <1>2 DEF Init, ServerInit, IsServer, Procs, Servers
    <2>2. nextUuid = 1 /\ mqFoers = <<>> /\ serverNames = <<MasterNode>>
      BY DEF Init, ServerInit
    <2>3. \A s \in Servers : DOMAIN mqDict[s] = {}
      BY DEF Init, ServerInit
    <2>4. \A i \in 1..Len(serverNames) : IsServer(serverNames[i])
      BY <2>1, <2>2
    <2>5. QED BY <1>2, <2>2, <2>3, <2>4 DEF DictInv, Servers
  <1>4. ClientInv
    BY DEF Init, ClientInv
  <1>5. FlightInv
    <2>1. /\ \A x \in DOMAIN queue : Len(queue[x]) = 0
          /\ \A p \in Procs : Len(out[p]) = 0
      BY DEF Init, ServerInit
    <2>2. \A w : w \notin InFlight(queue, out)
      BY <2>1, FlightCases
    <2>3. QED BY <2>2 DEF FlightInv
  <1>6. SingleInv
    BY DEF Init, SingleInv, Connected
  <1>7. QED BY <1>1, <1>3, <1>4, <1>5, <1>6 DEF SafeInv

\* Every step keeps it.
LEMMA SafeNext == SafeInv /\ [Next]_vars => SafeInv'
  <1> SUFFICES ASSUME SafeInv, [Next]_vars PROVE SafeInv'
    OBVIOUS
  <1>1. TypeInv'
    BY TypeNext DEF SafeInv
  <1> DEFINE Others == DictInv' /\ ClientInv' /\ FlightInv' /\ SingleInv'
  <1> SUFFICES Others
    BY <1>1 DEF SafeInv
  <1>2. CASE ServerStep
    <2>1. UNCHANGED <<cstate, cmsg, held>>
      BY <1>2 DEF ServerStep
    <2>2. CASE MasterStep
      <3>1. CASE MasterRegisterClient BY <2>1, <3>1, RegisterClientSafe
      <3>2. CASE MasterRegisterFoer BY <2>1, <3>2, RegisterFoerSafe
      <3>3. CASE MasterGrant BY <2>1, <3>3, GrantSafe
      <3>4. CASE MasterRelease BY <2>1, <3>4, ReleaseSafe
      <3>5. CASE MasterRefuse BY <2>1, <3>5, RefuseSafe
      <3>6. CASE MasterInquire BY <2>1, <3>6, InquireSafe
      <3>7. QED BY <2>2, <3>1, <3>2, <3>3, <3>4, <3>5, <3>6 DEF MasterStep
    <2>3. ASSUME NEW f \in Followers, FollowerStep(f) PROVE Others
      BY <2>1, <2>3, StartSafe, ForwardSafe, FollowerInquireSafe, TableSafe
         DEF FollowerStep
    <2>4. ASSUME NEW s \in Servers, MqWrite(s) PROVE Others
      <3>1. s \in Procs
        BY DEF Procs
      <3>2. QED BY <2>1, <2>4, <3>1, WriteSafe
    <2>5. QED BY <1>2, <2>2, <2>3, <2>4 DEF ServerStep, ServerNext
  <1>3. ASSUME NEW c \in Clients, ClientStep(c) PROVE Others
    BY <1>3, LookupServerSafe, LookupNameSafe, RecvAckSafe, CallSafe, ReturnSafe,
       CloseSafe DEF ClientStep, ClientConnect
  <1>4. ASSUME NEW c \in Clients, ClientWrite(c) PROVE Others
    <2>1. c \in Procs /\ MqWrite(c) /\ UNCHANGED <<cstate, cmsg, held>>
      BY <1>4 DEF ClientWrite, Procs
    <2>2. QED BY <2>1, WriteSafe
  <1>5. CASE UNCHANGED vars
    <2>1. UNCHANGED <<queue, freeNames, serverNames, nextName, nextUuid, lockDict,
                      mqDict, mqFoers, out, pname, cstate, cmsg, held>>
      BY <1>5 DEF vars, serverVars
    <2>2. Oldest' = Oldest
      BY <2>1 DEF Oldest
    <2>3. /\ \A c : Connected(c)' <=> Connected(c)
          /\ \A w : WellFormed(w)' <=> WellFormed(w)
      BY <2>1, <2>2, SameNames
    <2>4. \A m : Fits(m)' <=> Fits(m)
      BY <2>1, SameFits
    <2>5. FlightInv' /\ SingleInv'
      BY <2>1, <2>3, <2>4 DEF SafeInv, FlightInv, SingleInv
    <2>6. DictInv'
      BY <2>1, SameDicts DEF SafeInv
    <2>7. ClientInv'
      BY <2>1, SameClients DEF SafeInv
    <2>8. QED BY <2>5, <2>6, <2>7
  <1>6. QED BY <1>2, <1>3, <1>4, <1>5 DEF Next

\* The inductive invariant: every message about a client that is in flight
\* fits what the client waits for, and there is never a second one.
THEOREM SafeInvariant == Spec => []SafeInv
  BY SafeInit, SafeNext, PTL DEF Spec

-----------------------------------------------------------------------------
(* What follows from it.                                                   *)

\* request_lock and release_lock of server.cpp, and TryLock and TryUnlock of
\* lock.cpp, keep a lock exclusive, whatever the numbers of servers, clients and
\* locks, the capacity of the queues, and the order in which messages arrive.
THEOREM LocksExclusive == Spec => []MutualExclusion
  <1>1. SafeInv => MutualExclusion
    <2> SUFFICES ASSUME SafeInv, NEW c \in Clients, NEW d \in Clients, c # d,
                        NEW l \in held[c], l \in held[d]
                 PROVE  FALSE
      BY DEF MutualExclusion
    <2>1. /\ cstate[c] \in {"idle", "waiting"} /\ lockDict[Master][l] = cmsg[c].uuid
          /\ cstate[d] \in {"idle", "waiting"} /\ lockDict[Master][l] = cmsg[d].uuid
      BY DEF SafeInv, ClientInv
    <2>2. QED BY <2>1, UuidsDistinct
  <1>2. QED BY <1>1, SafeInvariant, PTL

\* The master's lock_dict has the uuid of every client that holds a lock, from
\* request_lock until release_lock.
THEOREM HoldersRecorded == Spec => []HolderRecorded
  <1>1. SafeInv => HolderRecorded
    BY DEF SafeInv, ClientInv, HolderRecorded
  <1>2. QED BY <1>1, SafeInvariant, PTL

\* What is on its way to a process is in flight.
LEMMA MessagesInFlight ==
    ASSUME NEW n, NEW m \in MessagesTo(n), DOMAIN queue \subseteq Int
    PROVE  \E w \in InFlight(queue, out) : w.to = n /\ w.msg = m
  <1>1. CASE \E i \in IF n \in DOMAIN queue THEN 1..Len(queue[n]) ELSE {} :
                m = queue[n][i]
    <2>1. PICK i \in 1..Len(queue[n]) : n \in DOMAIN queue /\ m = queue[n][i]
      BY <1>1
    <2>2. Send(n, m) \in InFlight(queue, out)
      BY <2>1, FlightCases
    <2>3. Send(n, m).to = n /\ Send(n, m).msg = m
      BY DEF Send
    <2>4. QED BY <2>2, <2>3
  <1>2. CASE \E p \in Procs : \E i \in 1..Len(out[p]) :
                out[p][i].to = n /\ m = out[p][i].msg
    <2>1. PICK p \in Procs : \E i \in 1..Len(out[p]) :
                  out[p][i].to = n /\ m = out[p][i].msg
      BY <1>2
    <2>2. PICK i \in 1..Len(out[p]) : out[p][i].to = n /\ m = out[p][i].msg
      BY <2>1
    <2>3. out[p][i] \in InFlight(queue, out)
      BY FlightCases
    <2>4. QED BY <2>2, <2>3
  <1> DEFINE A == {queue[n][i] : i \in IF n \in DOMAIN queue
                                         THEN 1..Len(queue[n]) ELSE {}}
             B(p) == {out[p][i].msg : i \in {j \in 1..Len(out[p]) :
                                               out[p][j].to = n}}
  <1>3. m \in A => \E i \in IF n \in DOMAIN queue THEN 1..Len(queue[n]) ELSE {} :
                       m = queue[n][i]
    OBVIOUS
  <1>4. \A p : m \in B(p) => \E i \in 1..Len(out[p]) :
                               out[p][i].to = n /\ m = out[p][i].msg
    OBVIOUS
  <1> DEFINE U == UNION {B(p) : p \in Procs}
  <1>5. m \in A \cup U
    BY DEF MessagesTo
  <1> HIDE DEF A, B
  <1>6. m \in U => \E p \in Procs : m \in B(p)
    OBVIOUS
  <1> HIDE DEF U
  <1>7. QED BY <1>1, <1>2, <1>3, <1>4, <1>5, <1>6

\* The one message lk_sendrcv reads is the master's, or a follower's, true
\* answer to the call the client made.
THEOREM TrueAnswers == Spec => []AnswersAreTrue
  <1>1. SafeInv => AnswersAreTrue
    <2> SUFFICES ASSUME SafeInv, NEW c \in Clients, cstate[c] = "waiting",
                        NEW m \in MessagesTo(pname[c])
                 PROVE  /\ m.type \in Answers[cmsg[c].type]
                        /\ m.lock = cmsg[c].lock
                        /\ m.uuid = cmsg[c].uuid
                        /\ m.type = "LOCK_GRANT" =>
                               lockDict[Master][m.lock] = cmsg[c].uuid
                        /\ m.type = "LOCK_IDLE" =>
                               lockDict[Master][m.lock] # cmsg[c].uuid
      BY DEF AnswersAreTrue
    <2>1. DOMAIN queue \subseteq Int
      BY DEF SafeInv, TypeInv, TypeOK
    <2>2. PICK w \in InFlight(queue, out) : w.to = pname[c] /\ w.msg = m
      BY <2>1, MessagesInFlight
    <2>3. WellFormed(w) /\ Fits(m) /\ Connected(c)
      BY <2>2 DEF SafeInv, FlightInv, Connected
    <2>4. m.name = pname[c] /\ m.type \in AnswerTypes \cup {"REGISTER_ACK"}
      BY <2>2, <2>3 DEF WellFormed
    <2>5. OfCall(m, c)
      BY <2>3, <2>4 DEF Fits, Conversation, AnswerTypes, OfRegistration
    <2>6. cmsg[c].type \in Calls
      BY DEF SafeInv, ClientInv
    <2>7. m.type # cmsg[c].type
      BY <2>4, <2>6 DEF Calls, AnswerTypes
    <2>8. QED BY <2>5, <2>7 DEF OfCall
  <1>2. QED BY <1>1, SafeInvariant, PTL

\* mq_dict.find never fails in the master's handlers, and the queue it finds is
\* the caller's and exists.
THEOREM CallersKnown == Spec => []CallerKnown
  <1>1. SafeInv => CallerKnown
    <2> SUFFICES ASSUME SafeInv, NEW m \in MessagesTo(MasterNode), m.type \in Calls
                 PROVE  /\ m.uuid \in DOMAIN mqDict[Master]
                        /\ mqDict[Master][m.uuid] = m.name
                        /\ m.name \in DOMAIN queue
      BY DEF CallerKnown
    <2>1. TypeOK /\ DOMAIN queue \subseteq Int
      BY DEF SafeInv, TypeInv, TypeOK
    <2>2. PICK w \in InFlight(queue, out) : w.to = MasterNode /\ w.msg = m
      BY <2>1, MessagesInFlight
    <2>3. m \in Msg
      BY <2>1, <2>2, FlightType
    <2>4. WellFormed(w) /\ Fits(m)
      BY <2>2 DEF SafeInv, FlightInv
    <2>5. WellFormed(Send(MasterNode, m))
      BY <2>2, <2>4 DEF WellFormed, Send
    <2>6. PICK c \in Clients : CallerOf(m, c)
      BY <2>3, <2>4, <2>5, Caller
    <2>7. pname[c] \in DOMAIN queue
      BY <2>6 DEF CallerOf, SafeInv, TypeInv, QueueInv
    <2>8. QED BY <2>6, <2>7 DEF CallerOf
  <1>2. QED BY <1>1, SafeInvariant, PTL

\* Where the messages of a conversation are.
LEMMA SlotCases ==
    ASSUME NEW n
    PROVE  /\ \A s \in QueueSlots(n) : \E x \in DOMAIN queue : \E i \in 1..Len(queue[x]) :
                 s = <<x, i>> /\ Conversation(queue[x][i], n)
           /\ \A s \in OutSlots(n) : \E p \in Procs : \E i \in 1..Len(out[p]) :
                 s = <<p, i>> /\ Conversation(out[p][i].msg, n)
  <1> DEFINE A(x) == {x} \X (1..Len(queue[x]))
             B(p) == {p} \X (1..Len(out[p]))
             U == UNION {A(x) : x \in DOMAIN queue}
             V == UNION {B(p) : p \in Procs}
  <1>1. /\ \A s \in QueueSlots(n) : s \in U /\ Conversation(queue[s[1]][s[2]], n)
        /\ \A s \in OutSlots(n) : s \in V /\ Conversation(out[s[1]][s[2]].msg, n)
    BY DEF QueueSlots, OutSlots
  <1>2. /\ \A x : \A s \in A(x) : \E i \in 1..Len(queue[x]) : s = <<x, i>>
        /\ \A p : \A s \in B(p) : \E i \in 1..Len(out[p]) : s = <<p, i>>
    OBVIOUS
  <1> HIDE DEF A, B
  <1>3. /\ \A s \in U : \E x \in DOMAIN queue : s \in A(x)
        /\ \A s \in V : \E p \in Procs : s \in B(p)
    OBVIOUS
  <1> HIDE DEF U, V
  <1>4. ASSUME NEW s \in QueueSlots(n)
        PROVE  \E x \in DOMAIN queue : \E i \in 1..Len(queue[x]) :
                  s = <<x, i>> /\ Conversation(queue[x][i], n)
    <2>1. PICK x \in DOMAIN queue : s \in A(x)
      BY <1>1, <1>3
    <2>2. PICK i \in 1..Len(queue[x]) : s = <<x, i>>
      BY <1>2, <2>1
    <2>3. s[1] = x /\ s[2] = i
      BY <2>2
    <2>4. QED BY <1>1, <2>2, <2>3
  <1>5. ASSUME NEW s \in OutSlots(n)
        PROVE  \E p \in Procs : \E i \in 1..Len(out[p]) :
                  s = <<p, i>> /\ Conversation(out[p][i].msg, n)
    <2>1. PICK p \in Procs : s \in B(p)
      BY <1>1, <1>3
    <2>2. PICK i \in 1..Len(out[p]) : s = <<p, i>>
      BY <1>2, <2>1
    <2>3. s[1] = p /\ s[2] = i
      BY <2>2
    <2>4. QED BY <1>1, <2>2, <2>3
  <1>6. QED BY <1>4, <1>5

\* The size of a set with at most one element.
LEMMA AtMostOne ==
    ASSUME NEW S, \A s, t \in S : s = t
    PROVE  /\ Cardinality(S) \in {0, 1}
           /\ S = {} => Cardinality(S) = 0
  <1>1. CASE S = {}
    BY <1>1, FS_EmptySet
  <1>2. CASE S # {}
    <2>1. PICK s \in S : S = {s}
      BY <1>2
    <2>2. Cardinality(S) = 1
      BY <2>1, FS_Singleton
    <2>3. QED BY <1>2, <2>2
  <1>3. QED BY <1>1, <1>2

\* message2master moves a call and never copies it, and every answer of
\* server.cpp takes the place of the call it answers.
THEOREM OneMessageEach == Spec => []OneMessagePerCall
  <1>1. SafeInv => OneMessagePerCall
    <2> SUFFICES ASSUME SafeInv, NEW c \in Clients, Connected(c)
                 PROVE  InConversation(pname[c]) <= IF Expecting(c) THEN 1 ELSE 0
      BY DEF OneMessagePerCall, Connected
    <2> DEFINE n == pname[c]
    <2>1. Single(queue, out, n)
      BY DEF SafeInv, SingleInv
    <2> HIDE DEF n
    <2>2. \A s, t \in QueueSlots(n) : s = t
      <3> SUFFICES ASSUME NEW s \in QueueSlots(n), NEW t \in QueueSlots(n)
                   PROVE  s = t
        OBVIOUS
      <3>1. PICK x \in DOMAIN queue : \E i \in 1..Len(queue[x]) :
               s = <<x, i>> /\ Conversation(queue[x][i], n)
        BY SlotCases
      <3>2. PICK i \in 1..Len(queue[x]) : s = <<x, i>> /\ Conversation(queue[x][i], n)
        BY <3>1
      <3>3. PICK y \in DOMAIN queue : \E j \in 1..Len(queue[y]) :
               t = <<y, j>> /\ Conversation(queue[y][j], n)
        BY SlotCases
      <3>4. PICK j \in 1..Len(queue[y]) : t = <<y, j>> /\ Conversation(queue[y][j], n)
        BY <3>3
      <3>5. x = y
        BY <2>1, <3>2, <3>4 DEF Single, NoneIn
      <3>6. i = j
        BY <2>1, <3>2, <3>4, <3>5 DEF Single, OneIn
      <3>7. QED BY <3>2, <3>4, <3>5, <3>6
    <2>3. \A s, t \in OutSlots(n) : s = t
      <3> SUFFICES ASSUME NEW s \in OutSlots(n), NEW t \in OutSlots(n)
                   PROVE  s = t
        OBVIOUS
      <3>1. PICK p \in Procs : \E i \in 1..Len(out[p]) :
               s = <<p, i>> /\ Conversation(out[p][i].msg, n)
        BY SlotCases
      <3>2. PICK i \in 1..Len(out[p]) : s = <<p, i>> /\ Conversation(out[p][i].msg, n)
        BY <3>1
      <3>3. PICK r \in Procs : \E j \in 1..Len(out[r]) :
               t = <<r, j>> /\ Conversation(out[r][j].msg, n)
        BY SlotCases
      <3>4. PICK j \in 1..Len(out[r]) : t = <<r, j>> /\ Conversation(out[r][j].msg, n)
        BY <3>3
      <3>5. p = r
        BY <2>1, <3>2, <3>4 DEF Single, NoneOut
      <3>6. i = j
        BY <2>1, <3>2, <3>4, <3>5 DEF Single, OneOut
      <3>7. QED BY <3>2, <3>4, <3>5, <3>6
    <2>4. QueueSlots(n) = {} \/ OutSlots(n) = {}
      <3> SUFFICES ASSUME NEW s \in QueueSlots(n), NEW t \in OutSlots(n)
                   PROVE  FALSE
        OBVIOUS
      <3>1. PICK x \in DOMAIN queue : \E i \in 1..Len(queue[x]) :
               s = <<x, i>> /\ Conversation(queue[x][i], n)
        BY SlotCases
      <3>2. PICK p \in Procs : \E i \in 1..Len(out[p]) :
               t = <<p, i>> /\ Conversation(out[p][i].msg, n)
        BY SlotCases
      <3>3. QED BY <2>1, <3>1, <3>2 DEF Single, NoneIn, NoneOut
    <2>5. InConversation(n) <= 1 /\ (QueueSlots(n) = {} /\ OutSlots(n) = {}
                                       => InConversation(n) <= 0)
      BY <2>2, <2>3, <2>4, AtMostOne DEF InConversation
    <2>6. CASE ~Expecting(c)
      <3>1. cstate[c] \in {"idle", "closed"}
        BY <2>6 DEF Expecting, Connected, SafeInv, TypeInv, TypeOK, CStates
      <3>2. Quiet(queue, out, n)
        BY <3>1, IdleQuiet DEF n
      <3>3. /\ \A x \in DOMAIN queue : NoneIn(queue[x], n)
            /\ \A p \in Procs : NoneOut(out[p], n)
        BY <3>2, QuietCases
      <3>4. QueueSlots(n) = {}
        <4> SUFFICES ASSUME NEW s \in QueueSlots(n) PROVE FALSE
          OBVIOUS
        <4>1. PICK x \in DOMAIN queue : \E i \in 1..Len(queue[x]) :
                 s = <<x, i>> /\ Conversation(queue[x][i], n)
          BY SlotCases
        <4>2. QED BY <3>3, <4>1 DEF NoneIn
      <3>5. OutSlots(n) = {}
        <4> SUFFICES ASSUME NEW s \in OutSlots(n) PROVE FALSE
          OBVIOUS
        <4>1. PICK p \in Procs : \E i \in 1..Len(out[p]) :
                 s = <<p, i>> /\ Conversation(out[p][i].msg, n)
          BY SlotCases
        <4>2. QED BY <3>3, <4>1 DEF NoneOut
      <3>6. QED BY <2>5, <2>6, <3>4, <3>5 DEF n
    <2>7. CASE Expecting(c)
      BY <2>5, <2>7 DEF n
    <2>8. QED BY <2>6, <2>7
  <1>2. QED BY <1>1, SafeInvariant, PTL
===============================================================================
