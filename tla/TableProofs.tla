----------------------------- MODULE TableProofs -----------------------------
(***************************************************************************)
(* The lock service implements the abstract lock table, and isOwnLock      *)
(* through the master is exact.  SafeInv says that answers are true when   *)
(* they are given; these need to know as well that nothing is recorded for *)
(* a client but what it holds, asks for or gives back.                     *)
(***************************************************************************)
EXTENDS DlockSafety, DlockTable

-----------------------------------------------------------------------------
(* What steps have in common.                                              *)

\* Only the process p is given something to write.
OnlyGiven(o, o1, p) ==
    p \in Procs /\ Outs(o) /\ \A r \in Procs \ {p} : o1[r] = o[r]

\* What was in flight stays, and what the process was given is new.
LEMMA GivenFlight ==
    ASSUME NEW q, NEW o, NEW o1, NEW p, OnlyGiven(o, o1, p)
    PROVE  \A w \in InFlight(q, o1) :
              w \in InFlight(q, o) \/ \E i \in 1..Len(o1[p]) : w = o1[p][i]
  <1>1. p \in Procs /\ Outs(o) /\ \A r \in Procs \ {p} : o1[r] = o[r]
    BY DEF OnlyGiven
  <1>2. QED BY <1>1, GivenWrites

\* A message tells a client the same when the client and its records are the
\* same.
LEMMA SameTells ==
    ASSUME NEW c \in Clients, NEW w, Tells(c, w),
           cstate'[c] = cstate[c], cmsg'[c] = cmsg[c], held'[c] = held[c],
           cstate[c] = "waiting" =>
               (lockDict'[Master][cmsg[c].lock] = cmsg[c].uuid
                  <=> lockDict[Master][cmsg[c].lock] = cmsg[c].uuid)
    PROVE  Tells(c, w)'
  BY DEF Tells

\* What is recorded for clients, when the table and the clients are the same.
LEMMA SameRecords ==
    ASSUME TableInv, UNCHANGED <<cstate, cmsg, held, pname>>,
           lockDict'[Master] = lockDict[Master],
           \A u \in DOMAIN mqDict[Master] :
              /\ u \in DOMAIN mqDict'[Master]
              /\ mqDict'[Master][u] = mqDict[Master][u]
    PROVE  UuidInv' /\ OwnedInv' /\ HeldInv'
  BY DEF TableInv, RecordsInv, UuidInv, OwnedInv, HeldInv

\* A server's handler: it is enough that the records of the other clients and
\* the new messages to waiting clients are right.
LEMMA HandlerTells ==
    ASSUME TableInv, SafeInv', NEW s \in Servers, HasMsg(s), NEW v \in Seq(Write),
           out' = [out EXCEPT ![s] = v],
           queue' = Popped(s) \/ \E y \in Int : queue' = MqOpen(Popped(s), y),
           UNCHANGED <<pname, cstate, cmsg, held>>,
           \A c \in Clients :
              cstate[c] = "waiting" /\ ~Conversation(Received(s), pname[c]) =>
                 (lockDict'[Master][cmsg[c].lock] = cmsg[c].uuid
                    <=> lockDict[Master][cmsg[c].lock] = cmsg[c].uuid),
           \A c \in Clients, i \in 1..Len(v) :
              /\ cstate[c] = "waiting" /\ Conversation(v[i].msg, pname[c])
              /\ OfCall(v[i].msg, c)'
              => Tells(c, v[i])'
    PROVE  TellsInv'
  <1>1. /\ \A w \in InFlight(queue', out') :
              w \in InFlight(queue, out) \/ \E i \in 1..Len(v) : w = v[i]
        /\ \A n : Single(queue, out, n) /\ Conversation(Received(s), n) =>
              \A w \in InFlight(queue', out') :
                 ~Conversation(w.msg, n) \/ \E i \in 1..Len(v) : w = v[i]
    BY HandlerFlight DEF TableInv, SafeInv
  <1> SUFFICES ASSUME NEW c \in Clients, NEW w \in InFlight(queue', out'),
                      Connected(c), Conversation(w.msg, pname[c]),
                      cstate[c] = "waiting"
               PROVE  Tells(c, w)'
    BY DEF TellsInv, Tells, Connected
  <1>2. CASE \E i \in 1..Len(v) : w = v[i]
    <2>1. Fits(w.msg)'
      BY DEF SafeInv, FlightInv
    <2>2. OfCall(w.msg, c)'
      BY <2>1 DEF Fits, Connected, OfRegistration
    <2>3. QED BY <1>2, <2>2
  <1>3. CASE ~\E i \in 1..Len(v) : w = v[i]
    <2>1. w \in InFlight(queue, out)
      BY <1>1, <1>3
    <2>2. Single(queue, out, pname[c])
      BY DEF TableInv, SafeInv, SingleInv
    <2>3. ~Conversation(Received(s), pname[c])
      BY <1>1, <1>3, <2>2
    <2>4. Tells(c, w)
      BY <2>1 DEF TableInv, RecordsInv, TellsInv
    <2>5. QED BY <2>3, <2>4, SameTells
  <1>4. QED BY <1>2, <1>3

\* A waiting client holds the lock of its call just when the master's record of
\* it is the client's, unless it is asking for the lock or giving it back.
LEMMA HeldIsRecorded ==
    ASSUME TableInv, NEW c \in Clients, cstate[c] \in {"idle", "waiting"},
           NEW l \in Locks,
           cstate[c] = "waiting" /\ cmsg[c].lock = l =>
               cmsg[c].type \notin {"LOCK_REQUEST", "LOCK_RELEASE"}
    PROVE  lockDict[Master][l] = cmsg[c].uuid <=> l \in held[c]
  BY DEF TableInv, RecordsInv, HeldInv, SafeInv, ClientInv

-----------------------------------------------------------------------------
(* The handlers that answer a call and leave the table as it is.           *)

\* What the call a server is about to handle tells its caller.
LEMMA ReceivedTells ==
    ASSUME TableInv, NEW s \in Servers, HasMsg(s), NEW m, m = Received(s),
           NEW c \in Clients, CallerOf(m, c)
    PROVE  Tells(c, Send(pname[s], m))
  <1>1. pname[s] \in DOMAIN queue /\ queue[pname[s]] \in Seq(Msg)
        /\ queue[pname[s]] # <<>>
    BY DEF HasMsg, TableInv, SafeInv, TypeInv, TypeOK
  <1>2. 1 \in 1..Len(queue[pname[s]]) /\ m = queue[pname[s]][1]
    BY <1>1 DEF Received
  <1>3. Send(pname[s], m) \in InFlight(queue, out)
    BY <1>1, <1>2, FlightCases
  <1>4. Send(pname[s], m).msg = m
    BY DEF Send
  <1>5. QED BY <1>3, <1>4 DEF TableInv, RecordsInv, TellsInv, CallerOf

\* The one write w a server makes answers the call m of c, and says nothing
\* wrong of the record.
LEMMA AnswerTells ==
    ASSUME TableInv, SafeInv', NEW s \in Servers, HasMsg(s), NEW m, m = Received(s),
           m.type \in Calls, NEW c \in Clients, CallerOf(m, c), NEW w \in Write,
           Tells(c, w)', w.msg.name = m.name,
           out' = [out EXCEPT ![s] = <<w>>],
           queue' = Popped(s) \/ \E y \in Int : queue' = MqOpen(Popped(s), y),
           UNCHANGED <<pname, cstate, cmsg, held>>,
           lockDict'[Master] = lockDict[Master]
    PROVE  TellsInv'
  <1>1. PICK v : v = <<w>>
    OBVIOUS
  <1>2. v \in Seq(Write) /\ Len(v) = 1 /\ v[1] = w /\ out' = [out EXCEPT ![s] = v]
    BY <1>1
  <1>3. \A d \in Clients \ {c} : Connected(d) => pname[d] # pname[c]
    BY ClientNames DEF TableInv, SafeInv, CallerOf, Procs
  <1>4. ASSUME NEW d \in Clients, NEW i \in 1..Len(v),
               cstate[d] = "waiting", Conversation(v[i].msg, pname[d])
        PROVE  Tells(d, v[i])'
    <2>1. v[i] = w
      BY <1>2
    <2>2. d = c
      BY <1>3, <1>4, <2>1 DEF Conversation, Connected, CallerOf
    <2>3. QED BY <2>1, <2>2
  <1>5. QED BY <1>2, <1>4, HandlerTells

\* BUSY to a request of a lock in the table, or to a release by another than
\* the owner.
LEMMA RefuseTells ==
    ASSUME TableInv, SafeInv', MasterRefuse, UNCHANGED <<cstate, cmsg, held>>
    PROVE  RecordsInv'
  <1>0. SafeInv
    BY DEF TableInv
  <1>1. PICK m : m = Received(Master)
    OBVIOUS
  <1>2. PICK w : w = Reply(Master, m, "LOCK_BUSY")
    OBVIOUS
  <1>3. /\ HasMsg(Master) /\ m.type \in Calls /\ Master \in Servers
        /\ \/ m.type = "LOCK_REQUEST" /\ lockDict[Master][m.lock] # 0
           \/ m.type = "LOCK_RELEASE" /\ lockDict[Master][m.lock] # m.uuid
        /\ queue' = Popped(Master)
        /\ out' = [out EXCEPT ![Master] = <<w>>]
        /\ UNCHANGED <<lockDict, mqDict, pname>>
    BY <1>1, <1>2 DEF MasterRefuse, Refusal, Calls, IsFree, Owns, Servers
  <1>4. m \in Msg /\ \E c \in Clients : CallerOf(m, c)
    BY <1>0, <1>1, <1>3, CallHandled
  <1>5. PICK c \in Clients : CallerOf(m, c)
    BY <1>4
  <1>6. w = Send(pname[c], [m EXCEPT !.type = "LOCK_BUSY"])
    BY <1>2, <1>5 DEF Reply, ClientMq, CallerOf
  <1>7. w.msg.type = "LOCK_BUSY" /\ w.msg.name = m.name /\ w \in Write
    <2>1. pname[c] \in Int /\ [m EXCEPT !.type = "LOCK_BUSY"] \in Msg
      BY <1>0, <1>4, <1>5, ClientNames DEF CallerOf, SafeInv, Msg, MsgTypes
    <2>2. QED BY <1>4, <1>6, <2>1 DEF Send, Write, Msg
  <1>8. Tells(c, Send(pname[Master], m))
    BY <1>1, <1>3, <1>5, ReceivedTells
  <1>9. Send(pname[Master], m).msg = m
    BY DEF Send
  <1>10. Tells(c, w)'
    BY <1>3, <1>5, <1>7, <1>8, <1>9 DEF Tells, CallerOf
  <1>11. TellsInv'
    BY <1>1, <1>3, <1>5, <1>7, <1>10, AnswerTells
  <1>12. UuidInv' /\ OwnedInv' /\ HeldInv'
    BY <1>3, SameRecords
  <1>13. QED BY <1>11, <1>12 DEF RecordsInv
\* The master answers an inquiry: what is recorded for the client it holds, and
\* the other way round.
LEMMA InquireTells ==
    ASSUME TableInv, SafeInv', MasterInquire, UNCHANGED <<cstate, cmsg, held>>
    PROVE  RecordsInv'
  <1>0. SafeInv
    BY DEF TableInv
  <1>1. PICK m : m = Received(Master)
    OBVIOUS
  <1>2. PICK t : t = InquiryAnswer(Master, m)
    OBVIOUS
  <1>3. PICK w : w = Reply(Master, m, t)
    OBVIOUS
  <1>4. /\ HasMsg(Master) /\ m.type = "LOCK_INQUIRY" /\ m.type \in Calls
        /\ Master \in Servers
        /\ t = IF lockDict[Master][m.lock] = m.uuid THEN "LOCK_OWN" ELSE "LOCK_BUSY"
        /\ queue' = Popped(Master)
        /\ out' = [out EXCEPT ![Master] = <<w>>]
        /\ UNCHANGED <<lockDict, mqDict, pname>>
    BY <1>1, <1>2, <1>3 DEF MasterInquire, InquiryAnswer, Owns, Calls, Servers
  <1>5. m \in Msg /\ m.lock \in Locks /\ \E c \in Clients : CallerOf(m, c)
    BY <1>0, <1>1, <1>4, CallHandled
  <1>6. PICK c \in Clients : CallerOf(m, c)
    BY <1>5
  <1>7. w = Send(pname[c], [m EXCEPT !.type = t])
    BY <1>3, <1>6 DEF Reply, ClientMq, CallerOf
  <1>8. w.msg.type = t /\ w.msg.name = m.name /\ w \in Write
    <2>1. pname[c] \in Int /\ [m EXCEPT !.type = t] \in Msg
      BY <1>0, <1>4, <1>5, <1>6, ClientNames DEF CallerOf, SafeInv, Msg, MsgTypes
    <2>2. QED BY <1>5, <1>7, <2>1 DEF Send, Write, Msg
  <1>9. lockDict[Master][m.lock] = m.uuid <=> m.lock \in held[c]
    BY <1>4, <1>5, <1>6, HeldIsRecorded DEF CallerOf
  <1>10. Tells(c, w)'
    BY <1>4, <1>6, <1>8, <1>9 DEF Tells, CallerOf
  <1>11. TellsInv'
    BY <1>1, <1>4, <1>6, <1>8, <1>10, AnswerTells
  <1>12. UuidInv' /\ OwnedInv' /\ HeldInv'
    BY <1>4, SameRecords
  <1>13. QED BY <1>11, <1>12 DEF RecordsInv

\* A follower only gets the inquiries of clients whose server it is.
LEMMA FollowerInquireTells ==
    ASSUME TableInv, SafeInv', NEW f \in Followers, FollowerInquire(f),
           UNCHANGED <<cstate, cmsg, held>>
    PROVE  RecordsInv'
  <1>0. SafeInv
    BY DEF TableInv
  <1>1. PICK m : m = Received(f)
    OBVIOUS
  <1>2. PICK t : t = InquiryAnswer(f, m)
    OBVIOUS
  <1>3. PICK x : x = mqDict'[f][m.uuid]
    OBVIOUS
  <1>4. PICK w : w = Send(x, [m EXCEPT !.type = t])
    OBVIOUS
  <1>5. /\ HasMsg(f) /\ m.type = "LOCK_INQUIRY" /\ m.type \in Calls
        /\ f \in Servers /\ f \in Procs /\ f # Master /\ t \in MsgTypes
        /\ mqDict' = [mqDict EXCEPT ![f] = Insert(mqDict[f], m.uuid, m.name)]
        /\ queue' = Popped(f) \/ queue' = MqOpen(Popped(f), m.name)
        /\ out' = [out EXCEPT ![f] = <<w>>]
        /\ UNCHANGED <<lockDict, pname>>
    BY <1>1, <1>2, <1>3, <1>4, ServerAssumption
       DEF FollowerInquire, InquiryAnswer, Calls, Servers, Procs, MsgTypes
  <1>6. m \in Msg /\ \E c \in Clients : CallerOf(m, c)
    BY <1>0, <1>1, <1>5, CallHandled
  <1>7. PICK c \in Clients : CallerOf(m, c)
    BY <1>6
  <1>8. mqDict'[Master] = mqDict[Master] /\ x \in Int
    <2>1. DOMAIN mqDict = Servers /\ m.name \in Int
          /\ \A u \in DOMAIN mqDict[f] : mqDict[f][u] \in Int
      BY <1>0, <1>5, <1>6 DEF SafeInv, TypeInv, TypeOK, Msg
    <2>2. mqDict'[f] = Insert(mqDict[f], m.uuid, m.name)
      BY <1>5, <2>1
    <2>3. x \in Int
      BY <1>3, <2>1, <2>2 DEF Insert
    <2>4. QED BY <1>5, <2>1, <2>3 DEF Servers
  <1>9. w.msg.type = t /\ w.msg.name = m.name /\ w \in Write
    <2>1. [m EXCEPT !.type = t] \in Msg
      BY <1>5, <1>6 DEF Msg
    <2>2. QED BY <1>4, <1>6, <1>8, <2>1 DEF Send, Write, Msg
  <1>10. pname[f] # MasterNode
    <2>1. pname[f] \in DOMAIN queue /\ pname[f] \in Int /\ pname[Master] = MasterNode
      BY <1>0, <1>5 DEF HasMsg, SafeInv, TypeInv, TypeOK, NameInv
    <2>2. Master \in Procs
      BY DEF Procs, Servers
    <2>3. QED BY <1>0, <1>5, <2>1, <2>2 DEF SafeInv, TypeInv, NameInv, MasterNode, NoName
  <1>11. Tells(c, Send(pname[f], m))
    BY <1>1, <1>5, <1>7, ReceivedTells
  <1>12. Send(pname[f], m).msg = m /\ Send(pname[f], m).to = pname[f]
    BY DEF Send
  <1>13. Tells(c, w)'
    BY <1>5, <1>7, <1>9, <1>10, <1>11, <1>12 DEF Tells, CallerOf
  <1>14. TellsInv'
    <2>1. queue' = Popped(f) \/ \E y \in Int : queue' = MqOpen(Popped(f), y)
      BY <1>5, <1>6 DEF Msg
    <2>2. QED BY <1>1, <1>5, <1>7, <1>9, <1>13, <2>1, AnswerTells
  <1>15. UuidInv' /\ OwnedInv' /\ HeldInv'
    BY <1>5, <1>8, SameRecords
  <1>16. QED BY <1>14, <1>15 DEF RecordsInv

-----------------------------------------------------------------------------
(* The handlers that answer nobody.                                        *)

\* message2master: the message tells its client the same.
LEMMA ForwardTells ==
    ASSUME TableInv, SafeInv', NEW f \in Followers, FollowerForward(f),
           UNCHANGED <<cstate, cmsg, held>>
    PROVE  RecordsInv'
  <1>0. SafeInv
    BY DEF TableInv
  <1>1. PICK m : m = Received(f)
    OBVIOUS
  <1>2. PICK w : w = Send(MasterNode, m)
    OBVIOUS
  <1>3. PICK v : v = <<w>>
    OBVIOUS
  <1>4. /\ HasMsg(f) /\ queue' = Popped(f) /\ f \in Servers
        /\ out' = [out EXCEPT ![f] = v]
        /\ UNCHANGED <<lockDict, mqDict, pname>>
    BY <1>1, <1>2, <1>3 DEF FollowerForward, Forwarded, Servers
  <1>5. m \in Msg
    BY <1>0, <1>1, <1>4, ReceivedFits
  <1>6. /\ w.msg = m /\ w.to = MasterNode /\ v \in Seq(Write)
        /\ Len(v) = 1 /\ v[1] = w
    <2>1. w \in Write /\ w.msg = m /\ w.to = MasterNode
      BY <1>2, <1>5 DEF Send, Write, MasterNode
    <2>2. QED BY <1>3, <2>1
  <1>7. ASSUME NEW c \in Clients, NEW i \in 1..Len(v),
               cstate[c] = "waiting", Conversation(v[i].msg, pname[c])
        PROVE  Tells(c, v[i])'
    <2>1. v[i] = w
      BY <1>6
    <2>2. Send(pname[f], m) \in InFlight(queue, out)
      <3>1. pname[f] \in DOMAIN queue /\ queue[pname[f]] \in Seq(Msg)
            /\ queue[pname[f]] # <<>>
        BY <1>0, <1>4 DEF HasMsg, SafeInv, TypeInv, TypeOK
      <3>2. 1 \in 1..Len(queue[pname[f]]) /\ m = queue[pname[f]][1]
        BY <1>1, <3>1 DEF Received
      <3>3. QED BY <3>1, <3>2, FlightCases
    <2>3. Send(pname[f], m).msg = m
      BY DEF Send
    <2>4. Tells(c, Send(pname[f], m))
      BY <1>6, <1>7, <2>1, <2>2, <2>3 DEF TableInv, RecordsInv, TellsInv, Connected
    <2>5. Tells(c, w)
      BY <1>6, <2>3, <2>4 DEF Tells
    <2>6. QED BY <1>4, <2>1, <2>5, SameTells
  <1>8. TellsInv'
    BY <1>4, <1>6, <1>7, HandlerTells
  <1>9. UuidInv' /\ OwnedInv' /\ HeldInv'
    BY <1>4, SameRecords
  <1>10. QED BY <1>8, <1>9 DEF RecordsInv

\* add_lock_record, delete_lock_record and the dropped messages.
LEMMA CopyTells ==
    ASSUME TableInv, SafeInv', NEW f \in Followers,
           FollowerAdd(f) \/ FollowerDelete(f) \/ FollowerIgnore(f),
           UNCHANGED <<cstate, cmsg, held>>
    PROVE  RecordsInv'
  <1>1. PICK v : v = out[f]
    OBVIOUS
  <1>2. /\ HasMsg(f) /\ queue' = Popped(f) /\ v = <<>> /\ out' = out
        /\ UNCHANGED <<mqDict, pname>>
    BY <1>1 DEF FollowerAdd, FollowerDelete, FollowerIgnore, HasMsg
  <1>3. f \in Servers /\ Master \in Servers /\ f # Master
    BY ServerAssumption DEF Servers
  <1>4. lockDict \in [Servers -> [Locks -> Nat]] /\ out \in [Procs -> Seq(Write)]
    BY DEF TableInv, SafeInv, TypeInv, TypeOK, Write
  <1>5. lockDict'[Master] = lockDict[Master]
    BY <1>3, <1>4 DEF FollowerAdd, FollowerDelete, FollowerIgnore, Forgotten
  <1>6. out' = [out EXCEPT ![f] = v] /\ v \in Seq(Write) /\ Len(v) = 0
    BY <1>1, <1>2, <1>3, <1>4 DEF Procs
  <1>7. TellsInv'
    <2>1. \A c \in Clients, i \in 1..Len(v) : Tells(c, v[i])'
      BY <1>6
    <2>2. QED BY <1>2, <1>3, <1>5, <1>6, <2>1, HandlerTells
  <1>8. UuidInv' /\ OwnedInv' /\ HeldInv'
    BY <1>2, <1>5, SameRecords
  <1>9. QED BY <1>7, <1>8 DEF RecordsInv

\* A write completes.
LEMMA WriteTells ==
    ASSUME TableInv, NEW p \in Procs, MqWrite(p), UNCHANGED <<cstate, cmsg, held>>
    PROVE  RecordsInv'
  <1>1. UNCHANGED <<lockDict, mqDict, pname>>
    BY DEF MqWrite
  <1>2. InFlight(queue', out') \subseteq InFlight(queue, out)
    BY WriteFlight DEF TableInv, SafeInv
  <1>3. TellsInv'
    <2> SUFFICES ASSUME NEW c \in Clients, NEW w \in InFlight(queue', out'),
                        Connected(c), Conversation(w.msg, pname[c])
                 PROVE  Tells(c, w)'
      BY <1>1 DEF TellsInv, Connected
    <2>1. Tells(c, w)
      BY <1>2 DEF TableInv, RecordsInv, TellsInv
    <2>2. QED BY <1>1, <2>1, SameTells
  <1>4. UuidInv' /\ OwnedInv' /\ HeldInv'
    BY <1>1, SameRecords
  <1>5. QED BY <1>3, <1>4 DEF RecordsInv
-----------------------------------------------------------------------------
(* Registrations.                                                          *)

\* The ACK is no answer to a call.
LEMMA RegisterClientTells ==
    ASSUME TableInv, SafeInv', MasterRegisterClient, UNCHANGED <<cstate, cmsg, held>>
    PROVE  RecordsInv'
  <1>0. SafeInv
    BY DEF TableInv
  <1>1. PICK m : m = Received(Master)
    OBVIOUS
  <1>2. PICK u : u = nextUuid
    OBVIOUS
  <1>3. PICK a : a = Send(m.name, [[m EXCEPT !.uuid = u] EXCEPT !.type = "REGISTER_ACK"])
    OBVIOUS
  <1>4. PICK b : b = Send(DnsNode, [[m EXCEPT !.uuid = u] EXCEPT !.type = "SERVER_NAME"])
    OBVIOUS
  <1>5. PICK v : v = <<a, b>>
    OBVIOUS
  <1>6. /\ HasMsg(Master) /\ Master \in Servers
        /\ queue' = MqOpen(Popped(Master), m.name)
        /\ mqDict' = [mqDict EXCEPT ![Master] = Insert(mqDict[Master], u, m.name)]
        /\ out' = [out EXCEPT ![Master] = v]
        /\ UNCHANGED <<lockDict, pname>>
    BY <1>1, <1>2, <1>3, <1>4, <1>5 DEF MasterRegisterClient, Acknowledge, Servers
  <1>7. m \in Msg /\ m.name \in Int /\ u \in Nat
    <2>1. m \in Msg
      BY <1>0, <1>1, <1>6, ReceivedFits
    <2>2. u \in Nat
      BY <1>0, <1>2 DEF SafeInv, TypeInv, TypeOK
    <2>3. QED BY <2>1, <2>2 DEF Msg
  <1>8. /\ a \in Write /\ a.msg.type = "REGISTER_ACK"
        /\ b \in Write /\ b.msg.type = "SERVER_NAME"
    <2>1. a \in Write /\ a.msg.type = "REGISTER_ACK"
      BY <1>3, <1>7 DEF Send, Write, Msg, MsgTypes
    <2>2. [[m EXCEPT !.uuid = u] EXCEPT !.type = "SERVER_NAME"] \in Msg
      BY <1>7 DEF Msg, MsgTypes
    <2>3. DnsNode \in Int
      BY DEF DnsNode
    <2>4. b \in Write
      BY <1>4, <2>2, <2>3 DEF Send, Write
    <2>5. b.msg.type = "SERVER_NAME"
      BY <1>4, <1>7 DEF Send, Msg
    <2>6. QED BY <2>1, <2>4, <2>5
  <1>9. /\ v \in Seq(Write) /\ Len(v) = 2
        /\ \A i \in 1..Len(v) : v[i] = a \/ v[i] = b
    BY <1>5, <1>8
  <1>10. ASSUME NEW c \in Clients, NEW i \in 1..Len(v), cstate[c] = "waiting",
                OfCall(v[i].msg, c)'
         PROVE  FALSE
    <2>1. cmsg[c].type \in Calls
      BY <1>0, <1>10 DEF SafeInv, ClientInv
    <2>2. v[i].msg.type \in Calls \cup AnswerTypes
      BY <1>10, <2>1 DEF OfCall, Calls, Answers, AnswerTypes
    <2>3. QED BY <1>8, <1>9, <2>2 DEF Calls, AnswerTypes
  <1>11. TellsInv'
    <2>1. queue' = Popped(Master) \/ \E y \in Int : queue' = MqOpen(Popped(Master), y)
      BY <1>6, <1>7
    <2>2. QED BY <1>6, <1>9, <1>10, <2>1, HandlerTells
  <1>12. \A x \in DOMAIN mqDict[Master] :
            x \in DOMAIN mqDict'[Master] /\ mqDict'[Master][x] = mqDict[Master][x]
    <2>1. DOMAIN mqDict = Servers
      BY <1>0 DEF SafeInv, TypeInv, TypeOK
    <2>2. mqDict'[Master] = Insert(mqDict[Master], u, m.name)
      BY <1>6, <2>1
    <2>3. QED BY <2>2 DEF Insert
  <1>13. UuidInv' /\ OwnedInv' /\ HeldInv'
    BY <1>6, <1>12, SameRecords
  <1>14. QED BY <1>11, <1>13 DEF RecordsInv

\* No record is sent to a client, or in its name.
LEMMA RegisterFoerTells ==
    ASSUME TableInv, SafeInv', MasterRegisterFoer, UNCHANGED <<cstate, cmsg, held>>
    PROVE  RecordsInv'
  <1>0. SafeInv /\ TypeOK
    BY DEF TableInv, SafeInv, TypeInv
  <1>1. PICK m : m = Received(Master)
    OBVIOUS
  <1>2. PICK foers : foers = Append(mqFoers, m.name)
    OBVIOUS
  <1>3. PICK order \in Orders(HeldLocks) :
           out' = [out EXCEPT ![Master] = SyncMsgs(m, order, foers)]
    BY <1>1, <1>2 DEF MasterRegisterFoer
  <1>4. PICK v : v = SyncMsgs(m, order, foers)
    OBVIOUS
  <1>5. /\ HasMsg(Master) /\ m.type = "REGISTER" /\ Master \in Servers
        /\ queue' = MqOpen(Popped(Master), m.name)
        /\ out' = [out EXCEPT ![Master] = v]
        /\ UNCHANGED <<lockDict, mqDict, pname>>
    BY <1>1, <1>3, <1>4 DEF MasterRegisterFoer, Servers
  <1>6. m \in Msg /\ m.name \in Int
    BY <1>0, <1>1, <1>5, ReceivedFits DEF Msg
  <1>7. foers \in Seq(Int)
    BY <1>0, <1>2, <1>6 DEF TypeOK
  <1>8. v \in Seq(Write) /\ \A k \in 1..Len(v) : IsSync(v[k], m, foers)
    BY <1>0, <1>4, <1>6, <1>7, SyncMsgsType
  <1>9. ASSUME NEW c \in Clients, NEW i \in 1..Len(v), cstate[c] = "waiting",
               OfCall(v[i].msg, c)'
        PROVE  FALSE
    <2>1. cmsg[c].type \in Calls
      BY <1>0, <1>9 DEF SafeInv, ClientInv
    <2>2. v[i].msg.type \in Calls \cup AnswerTypes
      BY <1>9, <2>1 DEF OfCall, Calls, Answers, AnswerTypes
    <2>3. QED BY <1>5, <1>8, <2>2 DEF Calls, AnswerTypes, IsSync
  <1>10. TellsInv'
    <2>1. queue' = Popped(Master) \/ \E y \in Int : queue' = MqOpen(Popped(Master), y)
      BY <1>5, <1>6
    <2>2. QED BY <1>5, <1>8, <1>9, <2>1, HandlerTells
  <1>11. UuidInv' /\ OwnedInv' /\ HeldInv'
    BY <1>5, SameRecords
  <1>12. QED BY <1>10, <1>11 DEF RecordsInv

\* The start of follower_run writes a REGISTER.
LEMMA StartFlight ==
    ASSUME SafeInv, NEW f \in Followers, FollowerStart(f)
    PROVE  /\ \A c \in Clients : pname'[c] = pname[c]
           /\ \A z \in InFlight(queue', out') :
                 z \in InFlight(queue, out) \/ z.msg.type = "REGISTER"
  <1>1. /\ f \in Procs /\ f \notin Clients /\ Outs(out)
        /\ pname \in [Procs -> Int]
    BY ServerAssumption DEF Servers, Procs, SafeInv, TypeInv, TypeOK, Outs, Write
  <1>2. PICK n : n = Head(freeNames)
    OBVIOUS
  <1>3. PICK w : w = Send(MasterNode, [type |-> "REGISTER", ctype |-> "FOER",
                            uuid |-> 0, name |-> n, server |-> NoName, lock |-> NoLock])
    OBVIOUS
  <1>4. PICK v : v = <<w>>
    OBVIOUS
  <1>5. /\ pname' = [pname EXCEPT ![f] = n]
        /\ queue' = MqOpen(queue, n)
        /\ out' = [out EXCEPT ![f] = v]
    BY <1>2, <1>3, <1>4 DEF FollowerStart
  <1>6. \A c \in Clients : pname'[c] = pname[c]
    BY <1>1, <1>5 DEF Procs
  <1>7. Len(v) = 1 /\ v[1] = w /\ w.msg.type = "REGISTER"
    BY <1>3, <1>4 DEF Send
  <1> DEFINE o1 == out'
  <1>8. o1[f] = v /\ \A p \in Procs \ {f} : o1[p] = out[p]
    BY <1>1, <1>5 DEF Outs
  <1>9. /\ DOMAIN queue \subseteq DOMAIN queue'
        /\ \A x \in DOMAIN queue : queue'[x] = queue[x]
        /\ \A x \in DOMAIN queue' \ DOMAIN queue : queue'[x] = <<>>
    BY <1>5 DEF MqOpen
  <1> HIDE DEF o1
  <1>10. InFlight(queue', out) = InFlight(queue, out)
    BY <1>9, Opened
  <1>11. \A z \in InFlight(queue', o1) :
            z \in InFlight(queue', out) \/ \E i \in 1..Len(o1[f]) : z = o1[f][i]
    <2>1. OnlyGiven(out, o1, f)
      BY <1>1, <1>8 DEF OnlyGiven
    <2>2. QED BY <2>1, GivenFlight
  <1>12. \A i \in 1..Len(v) : v[i] = w
    BY <1>7
  <1>13. QED BY <1>6, <1>7, <1>8, <1>10, <1>11, <1>12 DEF o1

\* It is no answer.
LEMMA StartTells ==
    ASSUME TableInv, SafeInv', NEW f \in Followers, FollowerStart(f),
           UNCHANGED <<cstate, cmsg, held>>
    PROVE  RecordsInv'
  <1>1. /\ \A c \in Clients : pname'[c] = pname[c]
        /\ \A z \in InFlight(queue', out') :
              z \in InFlight(queue, out) \/ z.msg.type = "REGISTER"
    BY StartFlight DEF TableInv
  <1>2. UNCHANGED <<lockDict, mqDict>>
    BY DEF FollowerStart
  <1>3. TellsInv'
    <2> SUFFICES ASSUME NEW c \in Clients, NEW z \in InFlight(queue', out'),
                        Connected(c), Conversation(z.msg, pname[c])
                 PROVE  Tells(c, z)'
      BY <1>1 DEF TellsInv, Connected
    <2>1. CASE z \in InFlight(queue, out)
      <3>1. Tells(c, z)
        BY <2>1 DEF TableInv, RecordsInv, TellsInv
      <3>2. QED BY <1>2, <3>1, SameTells
    <2>2. CASE z.msg.type = "REGISTER"
      <3>1. Fits(z.msg)'
        BY DEF SafeInv, FlightInv
      <3>2. cstate[c] = "waiting" => OfCall(z.msg, c)'
        BY <1>1, <3>1 DEF Fits, Connected, OfRegistration
      <3>3. cstate[c] = "waiting" => cmsg[c].type \in Calls
        BY DEF TableInv, SafeInv, ClientInv
      <3>4. cstate[c] # "waiting"
        BY <2>2, <3>2, <3>3 DEF OfCall, Calls, Answers
      <3>5. QED BY <3>4 DEF Tells
    <2>3. QED BY <1>1, <2>1, <2>2
  <1>4. UuidInv' /\ OwnedInv' /\ HeldInv'
    BY <1>1, <1>2 DEF TableInv, RecordsInv, UuidInv, OwnedInv, HeldInv
  <1>5. QED BY <1>3, <1>4 DEF RecordsInv
-----------------------------------------------------------------------------
(* The handlers that change the table.                                     *)

\* A change of the record of the caller's lock is no change of the records of
\* another client.
LEMMA OthersRecords ==
    ASSUME SafeInv, NEW m, NEW c \in Clients, CallerOf(m, c),
           NEW d \in Clients \ {c}, cstate[d] \in {"idle", "waiting"},
           NEW k \in Locks, RecordStep(m, k)
    PROVE  lockDict'[Master][k] = cmsg[d].uuid <=> lockDict[Master][k] = cmsg[d].uuid
  <1>1. cmsg[d].uuid >= 1 /\ cmsg[d].uuid \in Nat /\ m.uuid # cmsg[d].uuid
    BY UuidsDistinct DEF CallerOf
  <1>2. QED BY <1>1 DEF RecordStep

\* The master answers m with w, tells its followers, and changes the record.
LEMMA ChangeTells ==
    ASSUME TableInv, SafeInv', HasMsg(Master), NEW m, m = Received(Master),
           m.type \in Calls, NEW c \in Clients, CallerOf(m, c),
           NEW t \in Answers[m.type],
           NEW w, w = Send(pname[c], [m EXCEPT !.type = t]), Tells(c, w)',
           NEW u \in {"LOCK_NEW", "LOCK_DELETE"}, NEW v, Announced(v, w, m, u),
           out' = [out EXCEPT ![Master] = v], queue' = Popped(Master),
           UNCHANGED <<pname, cstate, cmsg, held>>,
           \A k \in Locks : RecordStep(m, k)
    PROVE  TellsInv'
  <1>0. SafeInv /\ TypeOK /\ Master \in Servers
    BY DEF TableInv, SafeInv, TypeInv, Servers
  <1>1. m \in Msg
    BY <1>0, CallHandled
  <1>2. t \in MsgTypes /\ u \in MsgTypes
    BY DEF Answers, Calls, MsgTypes
  <1>3. w.msg.name = m.name /\ w \in Write
    <2>1. pname[c] \in Int /\ [m EXCEPT !.type = t] \in Msg
      BY <1>0, <1>1, <1>2, ClientNames DEF CallerOf, SafeInv, Msg
    <2>2. QED BY <1>1, <2>1 DEF Send, Write, Msg
  <1> DEFINE p == ToFoers(m, u)
  <1>4. /\ p \in Seq(Write) /\ Len(p) = Len(mqFoers)
        /\ \A i \in 1..Len(mqFoers) :
              p[i] = Send(mqFoers[i], [m EXCEPT !.type = u])
    BY <1>0, <1>1, <1>2, ToFoersType
  <1> HIDE DEF p
  <1>5. \A i \in 1..Len(p) : p[i].msg.type = u
    <2>1. [m EXCEPT !.type = u].type = u
      BY <1>1 DEF Msg
    <2>2. \A x : Send(x, [m EXCEPT !.type = u]).msg.type = u
      BY <2>1 DEF Send
    <2>3. QED BY <1>4, <2>2
  <1>6. /\ v \in Seq(Write)
        /\ \A i \in 1..Len(v) : v[i] = w \/ v[i].msg.type = u
    <2>1. /\ v \in Seq(Write) /\ Len(v) = 1 + Len(p) /\ v[1] = w
          /\ \A i \in 1..Len(v) : i # 1 => i - 1 \in 1..Len(p) /\ v[i] = p[i - 1]
      BY <1>3, <1>4 DEF p, Announced
    <2>2. ASSUME NEW i \in 1..Len(v), i # 1 PROVE v[i].msg.type = u
      <3>1. PICK j \in 1..Len(p) : j = i - 1
        BY <2>1, <2>2
      <3>2. QED BY <1>5, <2>1, <2>2, <3>1
    <2>3. QED BY <2>1, <2>2
  <1>7. \A d \in Clients \ {c} : Connected(d) => pname[d] # pname[c]
    BY <1>0, ClientNames DEF SafeInv, CallerOf, Procs
  <1>8. ASSUME NEW d \in Clients, NEW i \in 1..Len(v),
               cstate[d] = "waiting", Conversation(v[i].msg, pname[d])
        PROVE  Tells(d, v[i])'
    <2>1. v[i] = w
      BY <1>6, <1>8 DEF Conversation
    <2>2. d = c
      BY <1>3, <1>7, <1>8, <2>1 DEF Conversation, Connected, CallerOf
    <2>3. QED BY <2>1, <2>2
  <1>9. ASSUME NEW d \in Clients, cstate[d] = "waiting",
               ~Conversation(Received(Master), pname[d])
        PROVE  lockDict'[Master][cmsg[d].lock] = cmsg[d].uuid
                 <=> lockDict[Master][cmsg[d].lock] = cmsg[d].uuid
    <2>1. d # c
      BY <1>9 DEF CallerOf
    <2>2. cmsg[d].lock \in Locks
      BY <1>0, <1>9 DEF SafeInv, TypeInv, QueueInv
    <2>3. QED BY <1>0, <1>9, <2>1, <2>2, OthersRecords
  <1>10. QED BY <1>0, <1>6, <1>8, <1>9, HandlerTells

\* A free lock is recorded for the client that asks for it.
LEMMA GrantTells ==
    ASSUME TableInv, SafeInv', MasterGrant, UNCHANGED <<cstate, cmsg, held>>
    PROVE  RecordsInv'
  <1>0. SafeInv /\ Master \in Servers
    BY DEF TableInv, Servers
  <1>1. PICK m : m = Received(Master)
    OBVIOUS
  <1>2. PICK w : w = Reply(Master, m, "LOCK_GRANT")
    OBVIOUS
  <1>3. PICK v : v = <<w>> \o ToFoers(m, "LOCK_NEW")
    OBVIOUS
  <1>4. /\ HasMsg(Master) /\ m.type = "LOCK_REQUEST" /\ m.type \in Calls
        /\ lockDict[Master][m.lock] = 0
        /\ queue' = Popped(Master)
        /\ lockDict' = [lockDict EXCEPT ![Master][m.lock] = m.uuid]
        /\ out' = [out EXCEPT ![Master] = v]
        /\ UNCHANGED <<mqDict, pname>>
    BY <1>1, <1>2, <1>3 DEF MasterGrant, IsFree, Recorded, Calls
  <1>5. m \in Msg /\ m.lock \in Locks /\ \E c \in Clients : CallerOf(m, c)
    BY <1>0, <1>1, <1>4, CallHandled
  <1>6. PICK c \in Clients : CallerOf(m, c)
    BY <1>5
  <1>7. w = Send(pname[c], [m EXCEPT !.type = "LOCK_GRANT"])
    BY <1>2, <1>6 DEF Reply, ClientMq, CallerOf
  <1>8. /\ lockDict'[Master][m.lock] = m.uuid
        /\ \A k \in Locks \ {m.lock} : lockDict'[Master][k] = lockDict[Master][k]
    BY <1>0, <1>4, <1>5 DEF SafeInv, TypeInv, TypeOK
  <1>9. \A k \in Locks : RecordStep(m, k)
    BY <1>4, <1>8 DEF RecordStep
  <1>10. w.msg.type = "LOCK_GRANT"
    BY <1>5, <1>7 DEF Send, Msg
  <1>11. Tells(c, w)'
    BY <1>4, <1>6, <1>10 DEF Tells, CallerOf
  <1>12. TellsInv'
    <2>1. "LOCK_GRANT" \in Answers[m.type] /\ Announced(v, w, m, "LOCK_NEW")
      BY <1>3, <1>4 DEF Answers, Announced
    <2>2. QED BY <1>1, <1>4, <1>6, <1>7, <1>9, <1>11, <2>1, ChangeTells
  <1>13. UuidInv'
    BY <1>4 DEF TableInv, RecordsInv, UuidInv
  <1>14. OwnedInv'
    BY <1>6, <1>8 DEF TableInv, RecordsInv, OwnedInv, CallerOf
  <1>15. HeldInv'
    <2> SUFFICES ASSUME NEW d \in Clients, NEW l \in Locks,
                        cstate[d] \in {"idle", "waiting"},
                        lockDict'[Master][l] = cmsg[d].uuid
                 PROVE  \/ l \in held[d]
                        \/ /\ cstate[d] = "waiting" /\ cmsg[d].lock = l
                           /\ cmsg[d].type \in {"LOCK_REQUEST", "LOCK_RELEASE"}
      BY DEF HeldInv
    <2>1. CASE d = c /\ l = m.lock
      BY <1>4, <1>6, <2>1 DEF CallerOf
    <2>2. CASE d # c
      BY <1>0, <1>6, <1>9, <2>2, OthersRecords DEF TableInv, RecordsInv, HeldInv
    <2>3. CASE l # m.lock
      BY <1>8, <2>3 DEF TableInv, RecordsInv, HeldInv
    <2>4. QED BY <2>1, <2>2, <2>3
  <1>16. QED BY <1>12, <1>13, <1>14, <1>15 DEF RecordsInv

\* The owner's record is erased.
LEMMA ReleaseTells ==
    ASSUME TableInv, SafeInv', MasterRelease, UNCHANGED <<cstate, cmsg, held>>
    PROVE  RecordsInv'
  <1>0. SafeInv /\ Master \in Servers
    BY DEF TableInv, Servers
  <1>1. PICK m : m = Received(Master)
    OBVIOUS
  <1>2. PICK w : w = Reply(Master, m, "LOCK_IDLE")
    OBVIOUS
  <1>3. PICK v : v = <<w>> \o ToFoers(m, "LOCK_DELETE")
    OBVIOUS
  <1>4. /\ HasMsg(Master) /\ m.type = "LOCK_RELEASE" /\ m.type \in Calls
        /\ lockDict[Master][m.lock] = m.uuid
        /\ queue' = Popped(Master)
        /\ lockDict' = [lockDict EXCEPT ![Master][m.lock] = 0]
        /\ out' = [out EXCEPT ![Master] = v]
        /\ UNCHANGED <<mqDict, pname>>
    BY <1>1, <1>2, <1>3 DEF MasterRelease, Owns, Recorded, Calls
  <1>5. m \in Msg /\ m.lock \in Locks /\ \E c \in Clients : CallerOf(m, c)
    BY <1>0, <1>1, <1>4, CallHandled
  <1>6. PICK c \in Clients : CallerOf(m, c)
    BY <1>5
  <1>7. w = Send(pname[c], [m EXCEPT !.type = "LOCK_IDLE"])
    BY <1>2, <1>6 DEF Reply, ClientMq, CallerOf
  <1>8. /\ lockDict'[Master][m.lock] = 0
        /\ \A k \in Locks \ {m.lock} : lockDict'[Master][k] = lockDict[Master][k]
    BY <1>0, <1>4, <1>5 DEF SafeInv, TypeInv, TypeOK
  <1>9. \A k \in Locks : RecordStep(m, k)
    BY <1>4, <1>8 DEF RecordStep
  <1>10. cmsg[c].uuid \in Nat /\ cmsg[c].uuid >= 1
    BY <1>0, <1>6, UuidsDistinct DEF CallerOf
  <1>11. Tells(c, w)'
    BY <1>4, <1>6, <1>8, <1>10 DEF Tells, CallerOf
  <1>12. TellsInv'
    <2>1. "LOCK_IDLE" \in Answers[m.type] /\ Announced(v, w, m, "LOCK_DELETE")
      BY <1>3, <1>4 DEF Answers, Announced
    <2>2. QED BY <1>1, <1>4, <1>6, <1>7, <1>9, <1>11, <2>1, ChangeTells
  <1>13. UuidInv'
    BY <1>4 DEF TableInv, RecordsInv, UuidInv
  <1>14. OwnedInv'
    BY <1>8 DEF TableInv, RecordsInv, OwnedInv
  <1>15. HeldInv'
    <2> SUFFICES ASSUME NEW d \in Clients, NEW l \in Locks,
                        cstate[d] \in {"idle", "waiting"},
                        lockDict'[Master][l] = cmsg[d].uuid
                 PROVE  lockDict[Master][l] = cmsg[d].uuid
      BY DEF HeldInv, TableInv, RecordsInv
    <2>1. cmsg[d].uuid \in Nat /\ cmsg[d].uuid >= 1
      BY <1>0, UuidsDistinct
    <2>2. QED BY <1>8, <2>1
  <1>16. QED BY <1>12, <1>13, <1>14, <1>15 DEF RecordsInv
-----------------------------------------------------------------------------
(* The steps of clients.                                                   *)

\* A step of client c: it is enough that what is left of its conversation, and
\* what it writes, are right.
LEMMA ClientTells ==
    ASSUME TableInv, NEW c \in Clients, UNCHANGED lockDict,
           \A d \in Clients \ {c} : /\ cstate'[d] = cstate[d] /\ cmsg'[d] = cmsg[d]
                                    /\ held'[d] = held[d] /\ pname'[d] = pname[d],
           \A w \in InFlight(queue', out') :
              \/ w \in InFlight(queue, out)
              \/ \A d \in Clients \ {c} : Connected(d) => ~Conversation(w.msg, pname[d]),
           cstate'[c] = "waiting" =>
              \A w \in InFlight(queue', out') :
                 Conversation(w.msg, pname'[c]) => Tells(c, w)'
    PROVE  TellsInv'
  <1> SUFFICES ASSUME NEW d \in Clients, NEW w \in InFlight(queue', out'),
                      Connected(d)', Conversation(w.msg, pname'[d])
               PROVE  Tells(d, w)'
    BY DEF TellsInv
  <1>1. CASE d = c
    BY <1>1 DEF Tells
  <1>2. CASE d # c
    <2>1. Connected(d) /\ Conversation(w.msg, pname[d])
      BY <1>2 DEF Connected
    <2>2. w \in InFlight(queue, out)
      BY <1>2, <2>1
    <2>3. Tells(d, w)
      BY <2>1, <2>2 DEF TableInv, RecordsInv, TellsInv
    <2>4. QED BY <1>2, <2>3, SameTells
  <1>3. QED BY <1>1, <1>2

\* lookup_server: the client has no uuid yet.
LEMMA LookupServerTells ==
    ASSUME TableInv, NEW c \in Clients, LookupServer(c)
    PROVE  RecordsInv'
  <1>1. cstate \in [Clients -> CStates] /\ cmsg \in [Clients -> Msg]
    BY DEF TableInv, SafeInv, TypeInv, TypeOK
  <1>2. /\ cstate[c] = "start" /\ cstate' = [cstate EXCEPT ![c] = "lookup"]
        /\ cmsg' = [cmsg EXCEPT ![c].server = Head(serverNames)]
        /\ UNCHANGED <<queue, out, lockDict, mqDict, pname, held>>
    BY DEF LookupServer
  <1>3. /\ cstate'[c] = "lookup" /\ cmsg'[c].uuid = cmsg[c].uuid
        /\ \A d \in Clients \ {c} : cstate'[d] = cstate[d] /\ cmsg'[d] = cmsg[d]
    BY <1>1, <1>2 DEF Msg
  <1>4. TellsInv'
    BY <1>2, <1>3, ClientTells
  <1>5. UuidInv' /\ OwnedInv' /\ HeldInv'
    BY <1>2, <1>3 DEF TableInv, RecordsInv, UuidInv, OwnedInv, HeldInv
  <1>6. QED BY <1>4, <1>5 DEF RecordsInv

\* lookup_name and REGISTER: the name is nobody else's.
LEMMA LookupNameFlight ==
    ASSUME SafeInv, NEW c \in Clients, LookupName(c)
    PROVE  \A z \in InFlight(queue', out') :
              \/ z \in InFlight(queue, out)
              \/ \A d \in Clients \ {c} : Connected(d) => ~Conversation(z.msg, pname[d])
  <1>1. /\ pname \in [Procs -> Int] /\ Outs(out) /\ c \in Procs
        /\ cstate \in [Clients -> CStates] /\ cmsg \in [Clients -> Msg]
    BY DEF SafeInv, TypeInv, TypeOK, Outs, Write, Procs
  <1>2. PICK n : n = Head(freeNames)
    OBVIOUS
  <1>3. PICK m : m = [cmsg[c] EXCEPT !.type = "REGISTER", !.ctype = "CLIENT",
                                     !.name = n]
    OBVIOUS
  <1>4. PICK v : v = <<Send(m.server, m)>>
    OBVIOUS
  <1>5. /\ cstate[c] = "lookup" /\ cstate' = [cstate EXCEPT ![c] = "registering"]
        /\ pname' = [pname EXCEPT ![c] = n]
        /\ queue' = MqOpen(MqOpen(queue, m.server), n)
        /\ cmsg' = [cmsg EXCEPT ![c] = m]
        /\ out' = [out EXCEPT ![c] = v]
        /\ UNCHANGED <<lockDict, mqDict, held>>
    BY <1>2, <1>3, <1>4 DEF LookupName
  <1>6. /\ cstate'[c] = "registering" /\ pname'[c] = n
        /\ cmsg'[c].uuid = cmsg[c].uuid /\ m.name = n
        /\ \A d \in Clients \ {c} : /\ cstate'[d] = cstate[d] /\ cmsg'[d] = cmsg[d]
                                     /\ pname'[d] = pname[d]
    BY <1>1, <1>3, <1>5 DEF Msg, Procs
  <1>7. /\ Len(v) = 1 /\ \A i \in 1..Len(v) : v[i].msg = m
    BY <1>4 DEF Send
  <1>8. \A d \in Clients \ {c} : Connected(d) => pname[d] # n
    <2>1. SafeInv /\ TypeOK /\ NameInv /\ freeNames # <<>> /\ c \in Procs \ {Master}
      BY ServerAssumption DEF SafeInv, TypeInv, LookupName, Servers, Procs
    <2>2. n = Oldest
      <3>1. /\ freeNames' = Tail(freeNames) /\ UNCHANGED nextName
            /\ pname' = [pname EXCEPT ![c] = Head(freeNames)]
        BY DEF LookupName
      <3>2. QED BY <1>2, <2>1, <3>1, NameTaken
    <2>3. QED BY <2>1, <2>2, ClientNames DEF SafeInv
  <1> DEFINE o1 == out'
  <1>9. o1[c] = v /\ \A p \in Procs \ {c} : o1[p] = out[p]
    BY <1>1, <1>5 DEF Outs
  <1>10. /\ DOMAIN queue \subseteq DOMAIN queue'
         /\ \A x \in DOMAIN queue : queue'[x] = queue[x]
         /\ \A x \in DOMAIN queue' \ DOMAIN queue : queue'[x] = <<>>
    BY <1>5 DEF MqOpen
  <1> HIDE DEF o1
  <1>11. InFlight(queue', out) = InFlight(queue, out)
    BY <1>10, Opened
  <1>12. \A z \in InFlight(queue', o1) :
            z \in InFlight(queue', out) \/ \E i \in 1..Len(o1[c]) : z = o1[c][i]
    <2>1. OnlyGiven(out, o1, c)
      BY <1>1, <1>9 DEF OnlyGiven
    <2>2. QED BY <2>1, GivenFlight
  <1>13. \A d \in Clients \ {c} : Connected(d) => ~Conversation(m, pname[d])
    BY <1>6, <1>8 DEF Conversation
  <1>14. \A z \in InFlight(queue', o1) : z \in InFlight(queue, out) \/ z.msg = m
    BY <1>7, <1>9, <1>11, <1>12
  <1>15. QED BY <1>13, <1>14 DEF o1

\* The client has no uuid yet.
LEMMA LookupNameTells ==
    ASSUME TableInv, NEW c \in Clients, LookupName(c)
    PROVE  RecordsInv'
  <1>1. /\ pname \in [Procs -> Int] /\ c \in Procs
        /\ cstate \in [Clients -> CStates] /\ cmsg \in [Clients -> Msg]
    BY DEF TableInv, SafeInv, TypeInv, TypeOK, Procs
  <1>2. PICK n, m : m = [cmsg[c] EXCEPT !.type = "REGISTER", !.ctype = "CLIENT",
                                        !.name = n]
                    /\ pname' = [pname EXCEPT ![c] = n]
                    /\ cmsg' = [cmsg EXCEPT ![c] = m]
    BY DEF LookupName
  <1>3. /\ cstate[c] = "lookup" /\ cstate' = [cstate EXCEPT ![c] = "registering"]
        /\ UNCHANGED <<lockDict, mqDict, held>>
    BY DEF LookupName
  <1>4. /\ cstate'[c] = "registering" /\ cmsg'[c].uuid = cmsg[c].uuid
        /\ \A d \in Clients \ {c} : /\ cstate'[d] = cstate[d] /\ cmsg'[d] = cmsg[d]
                                     /\ pname'[d] = pname[d]
    BY <1>1, <1>2, <1>3 DEF Msg, Procs
  <1>5. TellsInv'
    <2>1. /\ UNCHANGED lockDict /\ cstate'[c] # "waiting"
          /\ \A d \in Clients \ {c} : /\ cstate'[d] = cstate[d] /\ cmsg'[d] = cmsg[d]
                                       /\ held'[d] = held[d] /\ pname'[d] = pname[d]
      BY <1>3, <1>4
    <2>2. \A z \in InFlight(queue', out') :
             \/ z \in InFlight(queue, out)
             \/ \A d \in Clients \ {c} : Connected(d) => ~Conversation(z.msg, pname[d])
      BY LookupNameFlight DEF TableInv
    <2>3. QED BY <2>1, <2>2, ClientTells
  <1>6. UuidInv' /\ OwnedInv' /\ HeldInv'
    BY <1>3, <1>4 DEF TableInv, RecordsInv, UuidInv, OwnedInv, HeldInv
  <1>7. QED BY <1>5, <1>6 DEF RecordsInv

\* A client that reads its queue takes a message.
LEMMA ReadFlight ==
    ASSUME SafeInv, NEW c \in Clients, RecvAck(c) \/ Return(c)
    PROVE  InFlight(queue', out') \subseteq InFlight(queue, out)
  <1>1. Queues(queue) /\ Outs(out)
    BY DEF SafeInv, TypeInv, TypeOK, Queues, Outs, Write
  <1>2. PICK i \in 1..Len(queue[pname[c]]) : Without(queue, queue', pname[c], i)
    BY AckTaken, AnswerTaken
  <1>3. UNCHANGED out
    BY DEF RecvAck, Return
  <1> DEFINE q1 == queue'
             x == pname[c]
  <1> HIDE DEF q1, x
  <1>4. Without(queue, q1, x, i) /\ i \in 1..Len(queue[x])
    BY <1>2 DEF q1, x
  <1>5. InFlight(q1, out) \subseteq InFlight(queue, out)
    BY <1>1, <1>4, TakenOut
  <1>6. QED BY <1>3, <1>5 DEF q1

\* The ACK brings a uuid for which nothing is recorded yet.
LEMMA RecvAckTells ==
    ASSUME TableInv, NEW c \in Clients, RecvAck(c)
    PROVE  RecordsInv'
  <1>0. SafeInv /\ Queues(queue) /\ Outs(out)
    BY DEF TableInv, SafeInv, TypeInv, TypeOK, Queues, Outs, Write
  <1>1. cstate \in [Clients -> CStates] /\ cmsg \in [Clients -> Msg]
    BY <1>0 DEF SafeInv, TypeInv, TypeOK
  <1>2. PICK i \in 1..Len(queue[pname[c]]) :
           /\ queue[pname[c]][i].type = "REGISTER_ACK"
           /\ Without(queue, queue', pname[c], i)
           /\ cmsg' = [cmsg EXCEPT ![c] = Buffered(queue[pname[c]][i])]
    BY <1>0, AckTaken
  <1>3. PICK z : z = queue[pname[c]][i]
    OBVIOUS
  <1>4. /\ cstate[c] = "registering" /\ cstate' = [cstate EXCEPT ![c] = "idle"]
        /\ UNCHANGED <<lockDict, mqDict, out, pname, held>>
    BY DEF RecvAck
  <1>5. /\ Connected(c) /\ z \in Msg /\ z.type = "REGISTER_ACK"
        /\ OfRegistration(z, c) \/ OfCall(z, c)
    BY <1>0, <1>2, <1>3, <1>4, QueueOfClient
  <1>6. z.uuid \in DOMAIN mqDict[Master] /\ mqDict[Master][z.uuid] = pname[c]
        /\ z.uuid >= 1 /\ z.uuid \in Nat
    <2>1. z.uuid \in DOMAIN mqDict[Master] /\ mqDict[Master][z.uuid] = pname[c]
      BY <1>4, <1>5 DEF OfRegistration, OfCall
    <2>2. QED BY <1>0, <1>5, <2>1 DEF SafeInv, DictInv, Msg
  <1>7. /\ cstate'[c] = "idle" /\ cmsg'[c].uuid = z.uuid
        /\ \A d \in Clients \ {c} : cstate'[d] = cstate[d] /\ cmsg'[d] = cmsg[d]
    <2>1. Buffered(z).uuid = z.uuid
      BY <1>5 DEF Buffered, Msg
    <2>2. QED BY <1>1, <1>2, <1>3, <1>4, <2>1
  <1>8. \A d \in Clients \ {c} : cmsg[d].uuid # z.uuid
    <2> SUFFICES ASSUME NEW d \in Clients \ {c}, cmsg[d].uuid = z.uuid
                 PROVE  FALSE
      OBVIOUS
    <2>1. cstate[d] \notin {"start", "lookup", "registering"}
      BY <1>6 DEF TableInv, RecordsInv, UuidInv
    <2>2. cstate[d] \in {"idle", "waiting", "closed"}
      BY <1>1, <2>1 DEF CStates
    <2>3. mqDict[Master][z.uuid] = pname[d]
      BY <1>0, <2>2 DEF TableInv, RecordsInv, UuidInv, SafeInv, ClientInv
    <2>4. Connected(d) /\ c \in Procs \ {d}
      BY <2>2 DEF Connected, Procs
    <2>5. pname[c] # pname[d]
      BY <1>0, <2>4, ClientNames DEF SafeInv
    <2>6. QED BY <1>6, <2>3, <2>5
  <1>9. cmsg[c].uuid = 0
    BY <1>4 DEF TableInv, RecordsInv, UuidInv
  <1>10. \A l \in Locks : lockDict[Master][l] # z.uuid
    <2> SUFFICES ASSUME NEW l \in Locks, lockDict[Master][l] = z.uuid PROVE FALSE
      OBVIOUS
    <2>1. PICK d \in Clients : cmsg[d].uuid = z.uuid
      BY <1>6 DEF TableInv, RecordsInv, OwnedInv
    <2>2. QED BY <1>6, <1>8, <1>9, <2>1
  <1>11. TellsInv'
    <2>1. \A w \in InFlight(queue', out') : w \in InFlight(queue, out)
      BY <1>0, ReadFlight
    <2>2. QED BY <1>4, <1>7, <2>1, ClientTells
  <1>12. UuidInv'
    BY <1>4, <1>7 DEF TableInv, RecordsInv, UuidInv
  <1>13. OwnedInv'
    <2> SUFFICES ASSUME NEW l \in Locks, lockDict'[Master][l] # 0
                 PROVE  \E d \in Clients : cmsg'[d].uuid = lockDict'[Master][l]
      BY DEF OwnedInv
    <2>1. PICK d \in Clients : cmsg[d].uuid = lockDict[Master][l]
      BY <1>4 DEF TableInv, RecordsInv, OwnedInv
    <2>2. d # c
      BY <1>4, <1>9, <2>1
    <2>3. QED BY <1>4, <1>7, <2>1, <2>2
  <1>14. HeldInv'
    BY <1>4, <1>7, <1>10 DEF TableInv, RecordsInv, HeldInv
  <1>15. QED BY <1>11, <1>12, <1>13, <1>14 DEF RecordsInv

\* A call is one message, of the caller's conversation.
CallMsg(c, t, l) == [cmsg[c] EXCEPT !.type = t, !.lock = l]

\* What a call adds to the messages in flight.
LEMMA CallFlight ==
    ASSUME SafeInv, NEW c \in Clients, NEW t \in Calls, NEW l \in Locks,
           Call(c, t, l), NEW m, m = CallMsg(c, t, l)
    PROVE  /\ m.name = pname[c] /\ m.type = t
           /\ \A d \in Clients \ {c} : Connected(d) => pname[d] # pname[c]
           /\ \A z \in InFlight(queue', out') :
                 z \in InFlight(queue, out) \/ z = Send(m.server, m)
  <1>1. Outs(out) /\ c \in Procs /\ cmsg[c] \in Msg
    BY DEF SafeInv, TypeInv, TypeOK, Outs, Write, Procs
  <1>2. PICK w : w = Send(m.server, m)
    OBVIOUS
  <1>3. PICK v : v = <<w>>
    OBVIOUS
  <1>4. cstate[c] = "idle" /\ out' = [out EXCEPT ![c] = v] /\ UNCHANGED queue
    BY <1>2, <1>3 DEF Call, CallMsg
  <1>5. m.name = cmsg[c].name /\ m.type = t
    BY <1>1 DEF Msg, CallMsg
  <1>6. m.name = pname[c] /\ Connected(c)
    BY <1>4, <1>5 DEF SafeInv, ClientInv, Connected
  <1>7. \A d \in Clients \ {c} : Connected(d) => pname[d] # pname[c]
    BY <1>6, ClientNames DEF SafeInv, Procs
  <1> DEFINE o1 == out'
  <1>8. o1[c] = v /\ (\A p \in Procs \ {c} : o1[p] = out[p])
        /\ \A i \in 1..Len(v) : v[i] = w
    BY <1>1, <1>3, <1>4 DEF Outs
  <1> HIDE DEF o1
  <1>9. \A z \in InFlight(queue, o1) :
           z \in InFlight(queue, out) \/ \E i \in 1..Len(o1[c]) : z = o1[c][i]
    <2>1. OnlyGiven(out, o1, c)
      BY <1>1, <1>8 DEF OnlyGiven
    <2>2. QED BY <2>1, GivenFlight
  <1>10. \A z \in InFlight(queue', out') : z \in InFlight(queue, out) \/ z = w
    BY <1>4, <1>8, <1>9 DEF o1
  <1>11. QED BY <1>2, <1>5, <1>6, <1>7, <1>10

\* An idle client holds what is recorded for it, and its call is all there is
\* of its conversation.
LEMMA CallTells ==
    ASSUME TableInv, NEW c \in Clients, NEW t \in Calls, NEW l \in Locks,
           Call(c, t, l)
    PROVE  RecordsInv'
  <1>0. SafeInv
    BY DEF TableInv
  <1>1. /\ cstate \in [Clients -> CStates] /\ cmsg \in [Clients -> Msg]
        /\ held \in [Clients -> SUBSET Locks]
    BY <1>0 DEF SafeInv, TypeInv, TypeOK
  <1>2. PICK m : m = CallMsg(c, t, l)
    OBVIOUS
  <1>3. PICK w : w = Send(m.server, m)
    OBVIOUS
  <1>5. /\ cstate[c] = "idle" /\ cstate' = [cstate EXCEPT ![c] = "waiting"]
        /\ cmsg' = [cmsg EXCEPT ![c] = m]
        /\ held' = IF t = "LOCK_RELEASE" THEN [held EXCEPT ![c] = @ \ {l}] ELSE held
        /\ UNCHANGED <<queue, lockDict, mqDict, pname>>
    BY <1>2 DEF Call, CallMsg
  <1>6. /\ m.type = t /\ m.lock = l /\ m.name = cmsg[c].name
        /\ m.uuid = cmsg[c].uuid /\ m.server = cmsg[c].server
        /\ w.to = m.server /\ w.msg = m
    BY <1>1, <1>2, <1>3 DEF Send, Msg, CallMsg
  <1>7. /\ cstate'[c] = "waiting" /\ cmsg'[c] = m
        /\ held'[c] = IF t = "LOCK_RELEASE" THEN held[c] \ {l} ELSE held[c]
        /\ \A d \in Clients \ {c} :
              /\ cstate'[d] = cstate[d] /\ cmsg'[d] = cmsg[d]
              /\ held'[d] = held[d]
    BY <1>1, <1>5
  <1>8. /\ m.name = pname[c]
        /\ \A d \in Clients \ {c} : Connected(d) => pname[d] # pname[c]
        /\ \A z \in InFlight(queue', out') : z \in InFlight(queue, out) \/ z = w
    <2>1. Call(c, t, l)
      OBVIOUS
    <2>2. QED BY <1>0, <1>2, <1>3, <2>1, CallFlight
  <1>9. Quiet(queue, out, pname[c])
    BY <1>0, <1>5, IdleQuiet
  <1>10. \A k \in Locks : lockDict[Master][k] = cmsg[c].uuid => k \in held[c]
    BY <1>5 DEF TableInv, RecordsInv, HeldInv
  <1>11. Tells(c, w)'
    <2>1. t = "LOCK_REQUEST" => ~(lockDict[Master][l] = cmsg[c].uuid /\ l \notin held'[c])
      BY <1>7, <1>10
    <2>2. w.msg.type = t /\ (cmsg[c].server = MasterNode => w.to = MasterNode)
      BY <1>6
    <2>3. QED BY <1>5, <1>6, <1>7, <2>1, <2>2 DEF Tells
  <1>14. TellsInv'
    <2>2. ASSUME NEW z \in InFlight(queue', out')
          PROVE  \/ z \in InFlight(queue, out)
                 \/ \A d \in Clients \ {c} : Connected(d) => ~Conversation(z.msg, pname[d])
      BY <1>6, <1>8 DEF Conversation
    <2>3. ASSUME NEW z \in InFlight(queue', out'), Conversation(z.msg, pname'[c])
          PROVE  Tells(c, z)'
      BY <1>5, <1>8, <1>9, <1>11, <2>3 DEF Quiet
    <2>4. \A d \in Clients \ {c} : /\ cstate'[d] = cstate[d] /\ cmsg'[d] = cmsg[d]
                                   /\ held'[d] = held[d] /\ pname'[d] = pname[d]
      BY <1>5, <1>7
    <2>5. UNCHANGED lockDict
      BY <1>5
    <2>6. QED BY <2>2, <2>3, <2>4, <2>5, ClientTells
  <1>15. UuidInv' /\ OwnedInv'
    BY <1>5, <1>6, <1>7 DEF TableInv, RecordsInv, UuidInv, OwnedInv
  <1>16. HeldInv'
    BY <1>5, <1>6, <1>7, <1>10 DEF TableInv, RecordsInv, HeldInv
  <1>17. QED BY <1>14, <1>15, <1>16 DEF RecordsInv

\* The answer to a request of a lock that is recorded for the client grants it;
\* a lock is not recorded any more when the answer to its release is read.
LEMMA ReturnTells ==
    ASSUME TableInv, NEW c \in Clients, Return(c)
    PROVE  RecordsInv'
  <1>0. SafeInv /\ Queues(queue) /\ Outs(out)
    BY DEF TableInv, SafeInv, TypeInv, TypeOK, Queues, Outs, Write
  <1>1. /\ cstate \in [Clients -> CStates] /\ cmsg \in [Clients -> Msg]
        /\ held \in [Clients -> SUBSET Locks]
    BY <1>0 DEF SafeInv, TypeInv, TypeOK
  <1>2. PICK z : z = Answer(c)
    OBVIOUS
  <1>3. /\ 1 \in 1..Len(queue[pname[c]]) /\ z = queue[pname[c]][1]
        /\ Without(queue, queue', pname[c], 1)
    BY <1>0, <1>2, AnswerTaken
  <1>4. /\ cstate[c] = "waiting" /\ cstate' = [cstate EXCEPT ![c] = "idle"]
        /\ held' = IF cmsg[c].type = "LOCK_REQUEST" /\ z.type = "LOCK_GRANT"
                     THEN [held EXCEPT ![c] = @ \cup {cmsg[c].lock}]
                     ELSE held
        /\ cmsg' = [cmsg EXCEPT ![c] = Buffered(z)]
        /\ UNCHANGED <<lockDict, mqDict, out, pname>>
    BY <1>2 DEF Return
  <1>5. /\ Connected(c) /\ z \in Msg /\ Conversation(z, pname[c])
        /\ z.type \in AnswerTypes \cup {"REGISTER_ACK"}
        /\ OfRegistration(z, c) \/ OfCall(z, c)
    BY <1>0, <1>3, <1>4, QueueOfClient
  <1>6. z.uuid = cmsg[c].uuid
    BY <1>4, <1>5 DEF OfRegistration, OfCall
  <1>7. /\ cstate'[c] = "idle" /\ cmsg'[c].uuid = cmsg[c].uuid
        /\ held'[c] = IF cmsg[c].type = "LOCK_REQUEST" /\ z.type = "LOCK_GRANT"
                        THEN held[c] \cup {cmsg[c].lock} ELSE held[c]
        /\ \A d \in Clients \ {c} : /\ cstate'[d] = cstate[d] /\ cmsg'[d] = cmsg[d]
                                     /\ held'[d] = held[d]
    <2>1. Buffered(z).uuid = z.uuid
      BY <1>5 DEF Buffered, Msg
    <2>2. QED BY <1>1, <1>4, <1>6, <2>1
  <1> DEFINE q1 == queue'
             x == pname[c]
  <1> HIDE DEF q1, x
  <1>8. /\ Send(x, queue[x][1]) \in InFlight(queue, out)
        /\ InFlight(q1, out) \subseteq InFlight(queue, out)
    <2>1. Without(queue, q1, x, 1)
      BY <1>3 DEF q1, x
    <2>2. QED BY <1>0, <2>1, TakenOut
  <1>9. Tells(c, Send(x, z)) /\ Send(x, z).msg = z
    <2>1. Send(x, z) \in InFlight(queue, out) /\ Send(x, z).msg = z
      BY <1>3, <1>8 DEF x, Send
    <2>2. QED BY <1>5, <2>1 DEF TableInv, RecordsInv, TellsInv
  <1>10. TellsInv'
    <2>1. \A w \in InFlight(queue', out') : w \in InFlight(queue, out)
      BY <1>4, <1>8 DEF q1
    <2>2. QED BY <1>4, <1>7, <2>1, ClientTells
  <1>11. UuidInv' /\ OwnedInv'
    BY <1>4, <1>7 DEF TableInv, RecordsInv, UuidInv, OwnedInv
  <1>12. ASSUME NEW l \in Locks, lockDict[Master][l] = cmsg[c].uuid
         PROVE  l \in held'[c]
    <2>1. CASE l \in held[c]
      BY <1>7, <2>1
    <2>2. CASE l \notin held[c]
      <3>1. cmsg[c].lock = l /\ cmsg[c].type \in {"LOCK_REQUEST", "LOCK_RELEASE"}
        BY <1>4, <1>12, <2>2 DEF TableInv, RecordsInv, HeldInv
      <3>2. z.type # "LOCK_RELEASE"
        BY <1>5 DEF AnswerTypes
      <3>3. cmsg[c].type = "LOCK_REQUEST" /\ z.type = "LOCK_GRANT"
        BY <1>4, <1>9, <1>12, <2>2, <3>1, <3>2 DEF Tells
      <3>4. QED BY <1>7, <3>1, <3>3
    <2>3. QED BY <2>1, <2>2
  <1>13. HeldInv'
    BY <1>4, <1>7, <1>12 DEF TableInv, RecordsInv, HeldInv
  <1>14. QED BY <1>10, <1>11, <1>13 DEF RecordsInv

\* ~Dlock: the uuid and its records stay with the master.
LEMMA CloseTells ==
    ASSUME TableInv, NEW c \in Clients, Close(c)
    PROVE  RecordsInv'
  <1>1. cstate \in [Clients -> CStates] /\ held \in [Clients -> SUBSET Locks]
    BY DEF TableInv, SafeInv, TypeInv, TypeOK
  <1>2. /\ cstate[c] = "idle"
        /\ DOMAIN queue' \subseteq DOMAIN queue
        /\ \A x \in DOMAIN queue' : queue'[x] = queue[x]
        /\ held' = [held EXCEPT ![c] = {}]
        /\ cstate' = [cstate EXCEPT ![c] = "closed"]
        /\ UNCHANGED <<lockDict, mqDict, out, pname, cmsg>>
    BY DEF Close
  <1>3. /\ cstate'[c] = "closed"
        /\ \A d \in Clients \ {c} : cstate'[d] = cstate[d] /\ held'[d] = held[d]
    BY <1>1, <1>2
  <1>4. InFlight(queue', out) \subseteq InFlight(queue, out)
    BY <1>2, Closed
  <1>5. TellsInv'
    BY <1>2, <1>3, <1>4, ClientTells
  <1>6. UuidInv'
    BY <1>2, <1>3 DEF TableInv, RecordsInv, UuidInv, SafeInv, ClientInv
  <1>7. OwnedInv' /\ HeldInv'
    BY <1>2, <1>3 DEF TableInv, RecordsInv, OwnedInv, HeldInv
  <1>8. QED BY <1>5, <1>6, <1>7 DEF RecordsInv

-----------------------------------------------------------------------------
(* TableInv is inductive.                                                  *)

\* The master's table is empty, and no client waits for anything.
LEMMA TableInvInit == Init => TableInv
  <1> SUFFICES ASSUME Init PROVE TableInv
    OBVIOUS
  <1>1. SafeInv
    BY SafeInit
  <1>2. /\ \A c \in Clients : cstate[c] = "start" /\ cmsg[c].uuid = 0
        /\ \A l \in Locks : lockDict[Master][l] = 0
    BY DEF Init, ServerInit, NoMsg, Servers
  <1>3. RecordsInv
    BY <1>2 DEF RecordsInv, UuidInv, OwnedInv, HeldInv, TellsInv, Tells
  <1>4. QED BY <1>1, <1>3 DEF TableInv

\* Every step keeps it.
LEMMA TableInvNext == TableInv /\ [Next]_vars => TableInv'
  <1> SUFFICES ASSUME TableInv, [Next]_vars PROVE TableInv'
    OBVIOUS
  <1>1. SafeInv'
    BY SafeNext DEF TableInv
  <1> SUFFICES RecordsInv'
    BY <1>1 DEF TableInv
  <1>2. CASE ServerStep
    <2>1. UNCHANGED <<cstate, cmsg, held>>
      BY <1>2 DEF ServerStep
    <2>2. CASE MasterStep
      <3>1. CASE MasterRegisterClient BY <1>1, <2>1, <3>1, RegisterClientTells
      <3>2. CASE MasterRegisterFoer BY <1>1, <2>1, <3>2, RegisterFoerTells
      <3>3. CASE MasterGrant BY <1>1, <2>1, <3>3, GrantTells
      <3>4. CASE MasterRelease BY <1>1, <2>1, <3>4, ReleaseTells
      <3>5. CASE MasterRefuse BY <1>1, <2>1, <3>5, RefuseTells
      <3>6. CASE MasterInquire BY <1>1, <2>1, <3>6, InquireTells
      <3>7. QED BY <2>2, <3>1, <3>2, <3>3, <3>4, <3>5, <3>6 DEF MasterStep
    <2>3. ASSUME NEW f \in Followers, FollowerStep(f) PROVE RecordsInv'
      BY <1>1, <2>1, <2>3, StartTells, ForwardTells, FollowerInquireTells, CopyTells
         DEF FollowerStep
    <2>4. ASSUME NEW s \in Servers, MqWrite(s) PROVE RecordsInv'
      <3>1. s \in Procs
        BY DEF Procs
      <3>2. QED BY <2>1, <2>4, <3>1, WriteTells
    <2>5. QED BY <1>2, <2>2, <2>3, <2>4 DEF ServerStep, ServerNext
  <1>3. ASSUME NEW c \in Clients, ClientStep(c) PROVE RecordsInv'
    BY <1>1, <1>3, LookupServerTells, LookupNameTells, RecvAckTells, CallTells,
       ReturnTells, CloseTells DEF ClientStep, ClientConnect
  <1>4. ASSUME NEW c \in Clients, ClientWrite(c) PROVE RecordsInv'
    <2>1. c \in Procs /\ MqWrite(c) /\ UNCHANGED <<cstate, cmsg, held>>
      BY <1>4 DEF ClientWrite, Procs
    <2>2. QED BY <2>1, WriteTells
  <1>5. CASE UNCHANGED vars
    <2>1. UNCHANGED <<queue, lockDict, mqDict, out, pname, cstate, cmsg, held>>
      BY <1>5 DEF vars, serverVars
    <2>2. UuidInv' /\ OwnedInv' /\ HeldInv'
      BY <2>1, SameRecords
    <2>3. TellsInv'
      BY <2>1 DEF TableInv, RecordsInv, TellsInv, Tells, Connected
    <2>4. QED BY <2>2, <2>3 DEF RecordsInv
  <1>6. QED BY <1>2, <1>3, <1>4, <1>5 DEF Next

\* Nothing is recorded in the master's lock_dict for a client but what it holds,
\* asks for or gives back, and the answer on its way to it says so.
THEOREM TableInvariant == Spec => []TableInv
  BY TableInvInit, TableInvNext, PTL DEF Spec

-----------------------------------------------------------------------------
(* What follows from it.                                                   *)

\* isOwnLock (lock.cpp) of a client whose server is the master returns true just
\* when the client holds the lock, however many calls of others the master
\* handles while the answer is on its way.
THEOREM InquiriesExact == Spec => InquiryExact
  <1> DEFINE Exact(c) ==
         /\ cstate[c] = "waiting" /\ cstate'[c] = "idle"
         /\ cmsg[c].type = "LOCK_INQUIRY"
         /\ cmsg[c].server = MasterNode
         => (Answer(c).type = "LOCK_OWN" <=> cmsg[c].lock \in held[c])
  <1>1. ASSUME TableInv, NEW c \in Clients, Next PROVE Exact(c)
    <2> SUFFICES ASSUME cstate[c] = "waiting", cstate'[c] = "idle",
                        cmsg[c].type = "LOCK_INQUIRY", cmsg[c].server = MasterNode
                 PROVE  Answer(c).type = "LOCK_OWN" <=> cmsg[c].lock \in held[c]
      OBVIOUS
    <2>0. SafeInv /\ cstate \in [Clients -> CStates]
      BY <1>1 DEF TableInv, SafeInv, TypeInv, TypeOK
    <2>1. Return(c)
      <3>1. PICK d \in Clients : ClientStep(d)
        BY <1>1 DEF Next, ServerStep, ClientWrite
      <3>2. d = c
        BY <2>0, <3>1 DEF ClientStep, ClientConnect, LookupServer, LookupName,
                          RecvAck, Call, Return, Close
      <3>3. QED BY <3>1, <3>2 DEF ClientStep, ClientConnect, LookupServer,
                                  LookupName, RecvAck, Call, Close
    <2>2. PICK z : z = Answer(c)
      OBVIOUS
    <2>3. 1 \in 1..Len(queue[pname[c]]) /\ z = queue[pname[c]][1]
      BY <2>0, <2>1, <2>2, AnswerTaken
    <2>4. /\ Connected(c) /\ Conversation(z, pname[c])
          /\ z.type \in AnswerTypes \cup {"REGISTER_ACK"}
          /\ OfRegistration(z, c) \/ OfCall(z, c)
      BY <2>0, <2>3, QueueOfClient
    <2>5. z.type \in {"LOCK_OWN", "LOCK_BUSY"}
      BY <2>4 DEF OfRegistration, OfCall, Answers, AnswerTypes
    <2>6. Tells(c, Send(pname[c], z)) /\ Send(pname[c], z).msg = z
      <3>1. pname[c] \in DOMAIN queue
        BY <2>0 DEF SafeInv, TypeInv, QueueInv
      <3>2. Send(pname[c], z) \in InFlight(queue, out) /\ Send(pname[c], z).msg = z
        BY <2>3, <3>1, FlightCases DEF Send
      <3>3. QED BY <1>1, <2>4, <3>2 DEF TableInv, RecordsInv, TellsInv
    <2>7. QED BY <2>2, <2>5, <2>6 DEF Tells
  <1>2. TableInv /\ [Next]_vars => [\A c \in Clients : Exact(c)]_vars
    BY <1>1
  <1>3. QED BY <1>2, TableInvariant, PTL DEF Spec, InquiryExact

-----------------------------------------------------------------------------
(* The refinement of the lock table.                                       *)

\* How far the master and the client that a lock is recorded for agree.
PhaseOf(c, l) ==
    IF l \in held[c] THEN "held"
    ELSE IF /\ cstate[c] = "waiting"
            /\ cmsg[c].type = "LOCK_REQUEST" /\ cmsg[c].lock = l
      THEN "granted"
    ELSE "left"

\* The refinement mapping without its CHOOSE: a record is of one client.
Bar(l, o, p) ==
    \/ lockDict[Master][l] = 0 /\ o = NoOne /\ p = "free"
    \/ /\ lockDict[Master][l] # 0
       /\ \E c \in Clients : /\ cmsg[c].uuid = lockDict[Master][l]
                            /\ o = c /\ p = PhaseOf(c, l)

Bars ==
    /\ \A c, d \in Clients :
          c # d /\ cmsg[c].uuid # 0 => cmsg[c].uuid # cmsg[d].uuid
    /\ ownerBar = [l \in Locks |-> ownerBar[l]]
    /\ phaseBar = [l \in Locks |-> phaseBar[l]]
    /\ \A l \in Locks : Bar(l, ownerBar[l], phaseBar[l])

\* Also of Dlocks that are gone the uuids are distinct.
LEMMA OwnersDistinct ==
    ASSUME TableInv, NEW c \in Clients, NEW d \in Clients, c # d,
           cmsg[c].uuid # 0
    PROVE  cmsg[c].uuid # cmsg[d].uuid
  <1> SUFFICES ASSUME cmsg[c].uuid = cmsg[d].uuid PROVE FALSE
    OBVIOUS
  <1>1. /\ cstate[c] \in {"idle", "waiting", "closed"}
        /\ cstate[d] \in {"idle", "waiting", "closed"}
    <2>1. \A e \in Clients : cstate[e] \in CStates
      BY DEF TableInv, SafeInv, TypeInv, TypeOK
    <2>2. QED BY <2>1 DEF TableInv, RecordsInv, UuidInv, CStates
  <1>2. /\ mqDict[Master][cmsg[c].uuid] = pname[c]
        /\ mqDict[Master][cmsg[d].uuid] = pname[d]
    BY <1>1 DEF TableInv, RecordsInv, UuidInv, SafeInv, ClientInv
  <1>3. Connected(c) /\ d \in Procs \ {c}
    BY <1>1 DEF Connected, Procs
  <1>4. pname[d] # pname[c]
    BY <1>3, ClientNames DEF TableInv, SafeInv
  <1>5. QED BY <1>2, <1>4

\* The mapped table is determined by the records and their holders.
LEMMA TableBars == TableInv => Bars
  <1> SUFFICES ASSUME TableInv PROVE Bars
    OBVIOUS
  <1>1. \A c, d \in Clients :
           c # d /\ cmsg[c].uuid # 0 => cmsg[c].uuid # cmsg[d].uuid
    BY OwnersDistinct
  <1>2. ASSUME NEW l \in Locks PROVE Bar(l, ownerBar[l], phaseBar[l])
    <2>1. PICK u : u = lockDict[Master][l]
      OBVIOUS
    <2>2. /\ ownerBar[l] = IF \E c \in Clients : Registered(c, u)
                            THEN CHOOSE c \in Clients : Registered(c, u) ELSE NoOne
          /\ phaseBar[l] = IF u = 0 THEN "free" ELSE PhaseOf(ownerBar[l], l)
      BY <2>1 DEF ownerBar, phaseBar, PhaseOf
    <2>3. CASE u = 0
      BY <2>1, <2>2, <2>3 DEF Bar, Registered
    <2>4. CASE u # 0
      <3>1. PICK c \in Clients : cmsg[c].uuid = u
        BY <2>1, <2>4 DEF TableInv, RecordsInv, OwnedInv
      <3>2. Registered(c, u) /\ \A d \in Clients : Registered(d, u) => d = c
        BY <1>1, <2>4, <3>1 DEF Registered
      <3>3. ownerBar[l] = c
        BY <2>2, <3>2
      <3>4. QED BY <2>1, <2>2, <2>4, <3>1, <3>3 DEF Bar
    <2>5. QED BY <2>3, <2>4
  <1>3. /\ ownerBar = [l \in Locks |-> ownerBar[l]]
        /\ phaseBar = [l \in Locks |-> phaseBar[l]]
    BY DEF ownerBar, phaseBar
  <1>4. QED BY <1>1, <1>2, <1>3 DEF Bars

\* A lock whose record does not change, and whose owner does not change its mind.
LEMMA SameBar ==
    ASSUME Bars, Bars', NEW l \in Locks,
           lockDict'[Master][l] = lockDict[Master][l],
           \A c \in Clients : cmsg[c].uuid # 0 /\ cmsg[c].uuid = lockDict[Master][l] =>
              cmsg'[c].uuid = cmsg[c].uuid /\ PhaseOf(c, l)' = PhaseOf(c, l)
    PROVE  ownerBar'[l] = ownerBar[l] /\ phaseBar'[l] = phaseBar[l]
  <1>1. Bar(l, ownerBar[l], phaseBar[l]) /\ Bar(l, ownerBar[l], phaseBar[l])'
    BY DEF Bars
  <1>2. CASE lockDict[Master][l] = 0
    BY <1>1, <1>2 DEF Bar
  <1>3. CASE lockDict[Master][l] # 0
    <2>1. PICK c \in Clients : /\ cmsg[c].uuid = lockDict[Master][l]
                              /\ ownerBar[l] = c /\ phaseBar[l] = PhaseOf(c, l)
      BY <1>1, <1>3 DEF Bar
    <2>2. PICK d \in Clients : /\ cmsg'[d].uuid = lockDict'[Master][l]
                              /\ ownerBar'[l] = d /\ phaseBar'[l] = PhaseOf(d, l)'
      BY <1>1, <1>3 DEF Bar
    <2>3. cmsg'[c].uuid = cmsg[c].uuid /\ PhaseOf(c, l)' = PhaseOf(c, l)
      BY <1>3, <2>1
    <2>4. d = c
      BY <1>3, <2>1, <2>2, <2>3 DEF Bars
    <2>5. QED BY <2>1, <2>2, <2>3, <2>4
  <1>4. QED BY <1>2, <1>3

\* When that is so of every lock the table does not change.
LEMMA SameTable ==
    ASSUME Bars, Bars', \A l \in Locks : lockDict'[Master][l] = lockDict[Master][l],
           \A c \in Clients, l \in Locks :
              cmsg[c].uuid # 0 /\ cmsg[c].uuid = lockDict[Master][l] =>
                 cmsg'[c].uuid = cmsg[c].uuid /\ PhaseOf(c, l)' = PhaseOf(c, l)
    PROVE  UNCHANGED <<ownerBar, phaseBar>>
  <1>1. \A l \in Locks : ownerBar'[l] = ownerBar[l] /\ phaseBar'[l] = phaseBar[l]
    BY SameBar
  <1>2. PICK o, p, o1, p1 : o = ownerBar /\ p = phaseBar /\ o1 = ownerBar' /\ p1 = phaseBar'
    OBVIOUS
  <1>3. /\ o = [l \in Locks |-> o[l]] /\ o1 = [l \in Locks |-> o1[l]]
        /\ p = [l \in Locks |-> p[l]] /\ p1 = [l \in Locks |-> p1[l]]
    BY <1>2 DEF Bars
  <1>4. o1 = o /\ p1 = p
    BY <1>1, <1>2, <1>3
  <1>5. QED BY <1>2, <1>4

\* The record of a client's own lock.
LEMMA OwnBar ==
    ASSUME Bars, NEW c \in Clients, NEW l \in Locks,
           cmsg[c].uuid # 0, lockDict[Master][l] = cmsg[c].uuid
    PROVE  ownerBar[l] = c /\ phaseBar[l] = PhaseOf(c, l)
  <1>1. Bar(l, ownerBar[l], phaseBar[l])
    BY DEF Bars
  <1>2. PICK d \in Clients : /\ cmsg[d].uuid = lockDict[Master][l]
                            /\ ownerBar[l] = d /\ phaseBar[l] = PhaseOf(d, l)
    BY <1>1 DEF Bar
  <1>3. d = c
    BY <1>2 DEF Bars
  <1>4. QED BY <1>2, <1>3

\* After a step, a lock recorded for a client is mapped to it and its phase.
LEMMA OwnBarNext ==
    ASSUME Bars', NEW c \in Clients, NEW l \in Locks,
           cmsg'[c].uuid # 0, lockDict'[Master][l] = cmsg'[c].uuid
    PROVE  ownerBar'[l] = c /\ phaseBar'[l] = PhaseOf(c, l)'
  <1>1. Bar(l, ownerBar[l], phaseBar[l])'
    BY DEF Bars
  <1>2. PICK d \in Clients : /\ cmsg'[d].uuid = lockDict'[Master][l]
                            /\ ownerBar'[l] = d /\ phaseBar'[l] = PhaseOf(d, l)'
    BY <1>1 DEF Bar
  <1>3. d = c
    BY <1>2 DEF Bars
  <1>4. QED BY <1>2, <1>3

\* A record of the caller's lock, and no other, changes.
LEMMA OneBar ==
    ASSUME Bars, Bars', NEW k \in Locks, NEW c, NEW t,
           UNCHANGED <<cstate, cmsg, held>>,
           \A l \in Locks \ {k} : lockDict'[Master][l] = lockDict[Master][l],
           ownerBar'[k] = c, phaseBar'[k] = t
    PROVE  /\ ownerBar' = [ownerBar EXCEPT ![k] = c]
           /\ phaseBar' = [phaseBar EXCEPT ![k] = t]
  <1>1. \A l \in Locks \ {k} : ownerBar'[l] = ownerBar[l] /\ phaseBar'[l] = phaseBar[l]
    <2> SUFFICES ASSUME NEW l \in Locks \ {k}
                 PROVE  ownerBar'[l] = ownerBar[l] /\ phaseBar'[l] = phaseBar[l]
      OBVIOUS
    <2>1. \A d \in Clients : cmsg'[d].uuid = cmsg[d].uuid /\ PhaseOf(d, l)' = PhaseOf(d, l)
      BY DEF PhaseOf
    <2>2. QED BY <2>1, SameBar
  <1>2. PICK o, p, o1, p1 : o = ownerBar /\ p = phaseBar /\ o1 = ownerBar' /\ p1 = phaseBar'
    OBVIOUS
  <1>3. /\ o = [l \in Locks |-> o[l]] /\ o1 = [l \in Locks |-> o1[l]]
        /\ p = [l \in Locks |-> p[l]] /\ p1 = [l \in Locks |-> p1[l]]
    BY <1>2 DEF Bars
  <1>4. /\ o1[k] = c /\ p1[k] = t
        /\ \A l \in Locks \ {k} : o1[l] = o[l] /\ p1[l] = p[l]
    BY <1>1, <1>2
  <1>5. o1 = [o EXCEPT ![k] = c] /\ p1 = [p EXCEPT ![k] = t]
    BY <1>3, <1>4
  <1>6. QED BY <1>2, <1>5

\* LOCK_GRANT is decided: the lock was free.
LEMMA GrantsTable ==
    ASSUME TableInv, Bars, Bars', MasterGrant, UNCHANGED <<cstate, cmsg, held>>
    PROVE  Table!TableNext
  <1>0. SafeInv /\ Master \in Servers
    BY DEF TableInv, Servers
  <1>1. PICK m : m = Received(Master)
    OBVIOUS
  <1>2. /\ HasMsg(Master) /\ m.type = "LOCK_REQUEST" /\ m.type \in Calls
        /\ lockDict[Master][m.lock] = 0
        /\ lockDict' = [lockDict EXCEPT ![Master][m.lock] = m.uuid]
    BY <1>1 DEF MasterGrant, IsFree, Recorded, Calls
  <1>3. m \in Msg /\ m.lock \in Locks /\ \E c \in Clients : CallerOf(m, c)
    BY <1>0, <1>1, <1>2, CallHandled
  <1>4. PICK c \in Clients : CallerOf(m, c)
    BY <1>3
  <1>5. PICK k \in Locks : k = m.lock
    BY <1>3
  <1>6. /\ lockDict'[Master][k] = m.uuid
        /\ \A l \in Locks \ {k} : lockDict'[Master][l] = lockDict[Master][l]
    BY <1>0, <1>2, <1>5 DEF SafeInv, TypeInv, TypeOK
  <1>7. cmsg[c].uuid \in Nat /\ cmsg[c].uuid >= 1
    BY <1>0, <1>4, UuidsDistinct DEF CallerOf
  <1>8. phaseBar[k] = "free"
    <2>1. Bar(k, ownerBar[k], phaseBar[k])
      BY DEF Bars
    <2>2. QED BY <1>2, <1>5, <2>1 DEF Bar
  <1>9. k \notin held[c]
    BY <1>0, <1>2, <1>5, <1>7 DEF SafeInv, ClientInv
  <1>10. ownerBar'[k] = c /\ phaseBar'[k] = "granted"
    <2>1. ownerBar'[k] = c /\ phaseBar'[k] = PhaseOf(c, k)'
      BY <1>4, <1>6, <1>7, OwnBarNext DEF CallerOf
    <2>2. PhaseOf(c, k)' = "granted"
      BY <1>2, <1>4, <1>5, <1>9 DEF PhaseOf, CallerOf
    <2>3. QED BY <2>1, <2>2
  <1>11. /\ ownerBar' = [ownerBar EXCEPT ![k] = c]
         /\ phaseBar' = [phaseBar EXCEPT ![k] = "granted"]
    BY <1>6, <1>10, OneBar
  <1>12. Table!Grant(c, k)
    BY <1>8, <1>11 DEF Table!Grant
  <1>13. QED BY <1>12 DEF Table!TableNext

\* LOCK_IDLE is decided: the owner had stopped using the lock.
LEMMA ReleasesTable ==
    ASSUME TableInv, Bars, Bars', MasterRelease, UNCHANGED <<cstate, cmsg, held>>
    PROVE  Table!TableNext
  <1>0. SafeInv /\ Master \in Servers
    BY DEF TableInv, Servers
  <1>1. PICK m : m = Received(Master)
    OBVIOUS
  <1>2. /\ HasMsg(Master) /\ m.type = "LOCK_RELEASE" /\ m.type \in Calls
        /\ lockDict[Master][m.lock] = m.uuid
        /\ lockDict' = [lockDict EXCEPT ![Master][m.lock] = 0]
    BY <1>1 DEF MasterRelease, Owns, Recorded, Calls
  <1>3. m \in Msg /\ m.lock \in Locks /\ \E c \in Clients : CallerOf(m, c)
    BY <1>0, <1>1, <1>2, CallHandled
  <1>4. PICK c \in Clients : CallerOf(m, c)
    BY <1>3
  <1>5. PICK k \in Locks : k = m.lock
    BY <1>3
  <1>6. /\ lockDict'[Master][k] = 0
        /\ \A l \in Locks \ {k} : lockDict'[Master][l] = lockDict[Master][l]
    BY <1>0, <1>2, <1>5 DEF SafeInv, TypeInv, TypeOK
  <1>7. cmsg[c].uuid \in Nat /\ cmsg[c].uuid >= 1
    BY <1>0, <1>4, UuidsDistinct DEF CallerOf
  <1>8. k \notin held[c]
    BY <1>0, <1>2, <1>4, <1>5 DEF SafeInv, ClientInv, CallerOf
  <1>9. ownerBar[k] = c /\ phaseBar[k] = "left"
    <2>1. ownerBar[k] = c /\ phaseBar[k] = PhaseOf(c, k)
      BY <1>2, <1>4, <1>5, <1>7, OwnBar DEF CallerOf
    <2>2. PhaseOf(c, k) = "left"
      BY <1>2, <1>4, <1>8 DEF PhaseOf, CallerOf
    <2>3. QED BY <2>1, <2>2
  <1>10. ownerBar'[k] = NoOne /\ phaseBar'[k] = "free"
    <2>1. Bar(k, ownerBar[k], phaseBar[k])'
      BY DEF Bars
    <2>2. QED BY <1>6, <2>1 DEF Bar
  <1>11. /\ ownerBar' = [ownerBar EXCEPT ![k] = NoOne]
         /\ phaseBar' = [phaseBar EXCEPT ![k] = "free"]
    BY <1>6, <1>10, OneBar
  <1>12. Table!Free(c, k)
    BY <1>9, <1>11 DEF Table!Free
  <1>13. QED BY <1>12 DEF Table!TableNext

\* The other steps of servers, and the writes, are none of the lock table.
LEMMA RestOfTable ==
    ASSUME Bars, Bars', UNCHANGED <<cstate, cmsg, held>>,
           lockDict'[Master] = lockDict[Master]
    PROVE  UNCHANGED <<ownerBar, phaseBar>>
  <1>1. \A c \in Clients, l \in Locks :
           cmsg'[c].uuid = cmsg[c].uuid /\ PhaseOf(c, l)' = PhaseOf(c, l)
    BY DEF PhaseOf
  <1>2. QED BY <1>1, SameTable

\* A client's step changes no owner, and the phases of its own locks only.
LEMMA ClientBar ==
    ASSUME Bars, Bars', NEW c \in Clients, UNCHANGED lockDict,
           \A d \in Clients \ {c} : /\ cstate'[d] = cstate[d] /\ cmsg'[d] = cmsg[d]
                                    /\ held'[d] = held[d],
           cmsg[c].uuid # 0 => cmsg'[c].uuid = cmsg[c].uuid
    PROVE  /\ UNCHANGED ownerBar
           /\ \A l \in Locks :
                 IF cmsg[c].uuid # 0 /\ lockDict[Master][l] = cmsg[c].uuid
                   THEN /\ ownerBar[l] = c /\ phaseBar[l] = PhaseOf(c, l)
                        /\ phaseBar'[l] = PhaseOf(c, l)'
                   ELSE phaseBar'[l] = phaseBar[l]
  <1>1. ASSUME NEW l \in Locks, cmsg[c].uuid # 0, lockDict[Master][l] = cmsg[c].uuid
        PROVE  /\ ownerBar[l] = c /\ phaseBar[l] = PhaseOf(c, l)
               /\ ownerBar'[l] = c /\ phaseBar'[l] = PhaseOf(c, l)'
    <2>1. cmsg'[c].uuid # 0 /\ lockDict'[Master][l] = cmsg'[c].uuid
      BY <1>1
    <2>2. QED BY <1>1, <2>1, OwnBar, OwnBarNext
  <1>2. ASSUME NEW l \in Locks,
               ~(cmsg[c].uuid # 0 /\ lockDict[Master][l] = cmsg[c].uuid)
        PROVE  ownerBar'[l] = ownerBar[l] /\ phaseBar'[l] = phaseBar[l]
    <2>1. \A d \in Clients \ {c} :
             cmsg'[d].uuid = cmsg[d].uuid /\ PhaseOf(d, l)' = PhaseOf(d, l)
      BY DEF PhaseOf
    <2>2. \A d \in Clients : cmsg[d].uuid # 0 /\ cmsg[d].uuid = lockDict[Master][l] =>
             cmsg'[d].uuid = cmsg[d].uuid /\ PhaseOf(d, l)' = PhaseOf(d, l)
      BY <1>2, <2>1
    <2>3. QED BY <2>2, SameBar
  <1>3. \A l \in Locks : ownerBar'[l] = ownerBar[l]
    BY <1>1, <1>2
  <1>4. UNCHANGED ownerBar
    <2>1. PICK o, o1 : o = ownerBar /\ o1 = ownerBar'
      OBVIOUS
    <2>2. o = [l \in Locks |-> o[l]] /\ o1 = [l \in Locks |-> o1[l]]
      BY <2>1 DEF Bars
    <2>3. o1 = o
      BY <1>3, <2>1, <2>2
    <2>4. QED BY <2>1, <2>3
  <1>5. QED BY <1>1, <1>2, <1>4

\* When no phase of its locks changes, the table does not.
LEMMA ClientSame ==
    ASSUME Bars, Bars', NEW c \in Clients, UNCHANGED lockDict,
           \A d \in Clients \ {c} : /\ cstate'[d] = cstate[d] /\ cmsg'[d] = cmsg[d]
                                    /\ held'[d] = held[d],
           cmsg[c].uuid # 0 => /\ cmsg'[c].uuid = cmsg[c].uuid
                               /\ \A l \in Locks : lockDict[Master][l] = cmsg[c].uuid =>
                                     PhaseOf(c, l)' = PhaseOf(c, l)
    PROVE  UNCHANGED <<ownerBar, phaseBar>>
  <1>1. \A d \in Clients \ {c}, l \in Locks :
           cmsg'[d].uuid = cmsg[d].uuid /\ PhaseOf(d, l)' = PhaseOf(d, l)
    BY DEF PhaseOf
  <1>2. \A d \in Clients, l \in Locks :
           cmsg[d].uuid # 0 /\ cmsg[d].uuid = lockDict[Master][l] =>
              cmsg'[d].uuid = cmsg[d].uuid /\ PhaseOf(d, l)' = PhaseOf(d, l)
    BY <1>1
  <1>3. QED BY <1>2, SameTable

\* A client that connects has no lock.
LEMMA ConnectsTable ==
    ASSUME TableInv, Bars, Bars', NEW c \in Clients, ClientConnect(c)
    PROVE  UNCHANGED <<ownerBar, phaseBar>>
  <1>1. /\ cstate \in [Clients -> CStates] /\ cmsg \in [Clients -> Msg]
        /\ held \in [Clients -> SUBSET Locks]
    BY DEF TableInv, SafeInv, TypeInv, TypeOK
  <1>2. cstate[c] \in {"start", "lookup", "registering"} /\ UNCHANGED <<lockDict, held>>
    BY DEF ClientConnect, LookupServer, LookupName, RecvAck
  <1>3. cmsg[c].uuid = 0
    BY <1>2 DEF TableInv, RecordsInv, UuidInv
  <1>4. \A d \in Clients \ {c} : /\ cstate'[d] = cstate[d] /\ cmsg'[d] = cmsg[d]
                                  /\ held'[d] = held[d]
    BY <1>1, <1>2 DEF ClientConnect, LookupServer, LookupName, RecvAck
  <1>5. QED BY <1>2, <1>3, <1>4, ClientSame

\* What is recorded for an idle client it holds.
LEMMA IdleHolds ==
    ASSUME TableInv, NEW c \in Clients, cstate[c] = "idle", NEW l \in Locks
    PROVE  lockDict[Master][l] = cmsg[c].uuid <=> l \in held[c]
  BY DEF TableInv, RecordsInv, HeldInv, SafeInv, ClientInv

\* A client that begins to unlock leaves the lock; other calls change nothing.
LEMMA CallsTable ==
    ASSUME TableInv, Bars, Bars', NEW c \in Clients, NEW t \in Calls,
           NEW k \in Locks, Call(c, t, k)
    PROVE  Table!TableNext \/ UNCHANGED <<ownerBar, phaseBar>>
  <1>1. /\ cstate \in [Clients -> CStates] /\ cmsg \in [Clients -> Msg]
        /\ held \in [Clients -> SUBSET Locks]
    BY DEF TableInv, SafeInv, TypeInv, TypeOK
  <1>2. /\ cstate[c] = "idle" /\ UNCHANGED lockDict
        /\ cstate' = [cstate EXCEPT ![c] = "waiting"]
        /\ cmsg' = [cmsg EXCEPT ![c] = [cmsg[c] EXCEPT !.type = t, !.lock = k]]
        /\ held' = IF t = "LOCK_RELEASE" THEN [held EXCEPT ![c] = @ \ {k}] ELSE held
    BY DEF Call
  <1>3. /\ cmsg'[c].uuid = cmsg[c].uuid /\ cmsg'[c].type = t
        /\ held'[c] = IF t = "LOCK_RELEASE" THEN held[c] \ {k} ELSE held[c]
        /\ \A d \in Clients \ {c} : /\ cstate'[d] = cstate[d] /\ cmsg'[d] = cmsg[d]
                                     /\ held'[d] = held[d]
    BY <1>1, <1>2 DEF Msg
  <1>4. cmsg[c].uuid # 0
    BY <1>2, UuidsDistinct DEF TableInv
  <1>5. \A l \in Locks : lockDict[Master][l] = cmsg[c].uuid <=> l \in held[c]
    BY <1>2, IdleHolds
  <1>6. CASE t = "LOCK_RELEASE" /\ k \in held[c]
    <2>1. /\ UNCHANGED ownerBar
          /\ \A l \in Locks :
                IF l \in held[c]
                  THEN /\ ownerBar[l] = c /\ phaseBar[l] = PhaseOf(c, l)
                       /\ phaseBar'[l] = PhaseOf(c, l)'
                  ELSE phaseBar'[l] = phaseBar[l]
      BY <1>2, <1>3, <1>4, <1>5, ClientBar
    <2>2. \A l \in held[c] : PhaseOf(c, l) = "held"
      BY DEF PhaseOf
    <2>3. \A l \in held[c] : PhaseOf(c, l)' = IF l = k THEN "left" ELSE "held"
      BY <1>3, <1>6 DEF PhaseOf
    <2>4. held[c] \subseteq Locks
      BY <1>1
    <2>5. phaseBar[k] = "held" /\ ownerBar[k] = c
      BY <1>6, <2>1, <2>2
    <2>6. \A l \in Locks : phaseBar'[l] = IF l \in {k} THEN "left" ELSE phaseBar[l]
      BY <1>6, <2>1, <2>2, <2>3, <2>4
    <2>7. phaseBar' = [l \in Locks |-> IF l \in {k} THEN "left" ELSE phaseBar[l]]
      <3>1. PICK p, p1 : p = phaseBar /\ p1 = phaseBar'
        OBVIOUS
      <3>2. p1 = [l \in Locks |-> p1[l]]
        BY <3>1 DEF Bars
      <3>3. p1 = [l \in Locks |-> IF l \in {k} THEN "left" ELSE p[l]]
        BY <2>6, <3>1, <3>2
      <3>4. QED BY <3>1, <3>3
    <2>8. Table!Leave(c, {k})
      BY <2>1, <2>5, <2>7 DEF Table!Leave
    <2>9. {k} \in SUBSET Locks
      OBVIOUS
    <2>10. QED BY <2>8, <2>9 DEF Table!TableNext
  <1>7. CASE ~(t = "LOCK_RELEASE" /\ k \in held[c])
    <2>1. held'[c] = held[c]
      BY <1>3, <1>7
    <2>2. \A l \in Locks : lockDict[Master][l] = cmsg[c].uuid =>
             PhaseOf(c, l)' = PhaseOf(c, l)
      BY <1>5, <2>1 DEF PhaseOf
    <2>3. QED BY <1>2, <1>3, <2>2, ClientSame
  <1>8. QED BY <1>6, <1>7

\* The answer that grants is read: the client takes the lock.
LEMMA ReturnsTable ==
    ASSUME TableInv, TableInv', Bars, Bars', NEW c \in Clients, Return(c)
    PROVE  Table!TableNext \/ UNCHANGED <<ownerBar, phaseBar>>
  <1>1. /\ cstate \in [Clients -> CStates] /\ cmsg \in [Clients -> Msg]
        /\ held \in [Clients -> SUBSET Locks]
    BY DEF TableInv, SafeInv, TypeInv, TypeOK
  <1>2. PICK k : k = cmsg[c].lock
    OBVIOUS
  <1>3. /\ cstate[c] = "waiting" /\ UNCHANGED lockDict
        /\ cstate' = [cstate EXCEPT ![c] = "idle"]
        /\ cmsg' = [cmsg EXCEPT ![c] = Buffered(Answer(c))]
        /\ held' = IF cmsg[c].type = "LOCK_REQUEST" /\ Answer(c).type = "LOCK_GRANT"
                     THEN [held EXCEPT ![c] = @ \cup {k}] ELSE held
    BY <1>2 DEF Return
  <1>4. /\ cstate'[c] = "idle"
        /\ held'[c] \subseteq Locks
        /\ \/ held'[c] = held[c]
           \/ held'[c] = held[c] \cup {k} /\ cmsg[c].type = "LOCK_REQUEST"
        /\ \A d \in Clients \ {c} : /\ cstate'[d] = cstate[d] /\ cmsg'[d] = cmsg[d]
                                     /\ held'[d] = held[d]
    <2>1. k \in Locks
      BY <1>2, <1>3 DEF TableInv, SafeInv, TypeInv, QueueInv
    <2>2. cstate'[c] = "idle" /\ \A d \in Clients \ {c} : cstate'[d] = cstate[d] /\ cmsg'[d] = cmsg[d]
      BY <1>1, <1>3
    <2>3. \/ held' = held
          \/ held' = [held EXCEPT ![c] = @ \cup {k}] /\ cmsg[c].type = "LOCK_REQUEST"
      BY <1>3
    <2>4. QED BY <1>1, <2>1, <2>2, <2>3
  <1>5. cmsg'[c].uuid = cmsg[c].uuid /\ cmsg[c].uuid # 0
    <2>1. cmsg[c].uuid # 0 /\ cmsg[c].uuid \in Nat
      BY <1>3, UuidsDistinct DEF TableInv
    <2>2. /\ 1 \in 1..Len(queue[pname[c]]) /\ Answer(c) = queue[pname[c]][1]
      BY AnswerTaken DEF TableInv
    <2>3. /\ Answer(c) \in Msg
          /\ OfRegistration(Answer(c), c) \/ OfCall(Answer(c), c)
      BY <1>3, <2>2, QueueOfClient DEF TableInv
    <2>4. Answer(c).uuid = cmsg[c].uuid
      BY <1>3, <2>3 DEF OfRegistration, OfCall
    <2>5. Buffered(Answer(c)).uuid = Answer(c).uuid
      BY <2>3 DEF Buffered, Msg
    <2>6. QED BY <1>1, <1>3, <2>1, <2>4, <2>5
  <1>6. \A l \in Locks : lockDict[Master][l] = cmsg[c].uuid <=> l \in held'[c]
    BY <1>3, <1>4, <1>5 DEF TableInv, RecordsInv, HeldInv, SafeInv, ClientInv
  <1>7. /\ UNCHANGED ownerBar
        /\ \A l \in Locks :
              IF l \in held'[c]
                THEN /\ ownerBar[l] = c /\ phaseBar[l] = PhaseOf(c, l)
                     /\ phaseBar'[l] = PhaseOf(c, l)'
                ELSE phaseBar'[l] = phaseBar[l]
    BY <1>3, <1>4, <1>5, <1>6, ClientBar
  <1>8. \A l \in held'[c] : PhaseOf(c, l)' = "held"
    BY DEF PhaseOf
  <1>9. \A l \in held[c] : PhaseOf(c, l) = "held"
    BY DEF PhaseOf
  <1>10. CASE held'[c] # held[c]
    <2>1. k \in Locks /\ k \in held'[c] /\ PhaseOf(c, k) = "granted"
      BY <1>2, <1>3, <1>4, <1>10 DEF PhaseOf
    <2>2. /\ phaseBar[k] = "granted" /\ ownerBar[k] = c
          /\ \A l \in Locks : phaseBar'[l] = IF l = k THEN "held" ELSE phaseBar[l]
      BY <1>4, <1>7, <1>8, <1>9, <2>1
    <2>3. phaseBar' = [phaseBar EXCEPT ![k] = "held"]
      <3>1. PICK p, p1 : p = phaseBar /\ p1 = phaseBar'
        OBVIOUS
      <3>2. p = [l \in Locks |-> p[l]] /\ p1 = [l \in Locks |-> p1[l]]
        BY <3>1 DEF Bars
      <3>3. p1 = [p EXCEPT ![k] = "held"]
        BY <2>1, <2>2, <3>1, <3>2
      <3>4. QED BY <3>1, <3>3
    <2>4. Table!Take(c, k)
      BY <1>7, <2>2, <2>3 DEF Table!Take
    <2>5. QED BY <2>1, <2>4 DEF Table!TableNext
  <1>11. CASE held'[c] = held[c]
    <2>1. \A l \in Locks : lockDict[Master][l] = cmsg[c].uuid =>
             PhaseOf(c, l)' = PhaseOf(c, l)
      BY <1>6, <1>8, <1>9, <1>11
    <2>2. QED BY <1>3, <1>4, <1>5, <2>1, ClientSame
  <1>12. QED BY <1>10, <1>11

\* ~Dlock: the client leaves all its locks at once.
LEMMA ClosesTable ==
    ASSUME TableInv, Bars, Bars', NEW c \in Clients, Close(c)
    PROVE  Table!TableNext \/ UNCHANGED <<ownerBar, phaseBar>>
  <1>1. /\ cstate \in [Clients -> CStates] /\ held \in [Clients -> SUBSET Locks]
    BY DEF TableInv, SafeInv, TypeInv, TypeOK
  <1>2. /\ cstate[c] = "idle" /\ UNCHANGED <<lockDict, cmsg>>
        /\ cstate' = [cstate EXCEPT ![c] = "closed"]
        /\ held' = [held EXCEPT ![c] = {}]
    BY DEF Close
  <1>3. /\ cstate'[c] = "closed" /\ held'[c] = {}
        /\ \A d \in Clients \ {c} : cstate'[d] = cstate[d] /\ held'[d] = held[d]
    BY <1>1, <1>2
  <1>4. cmsg[c].uuid # 0
    BY <1>2, UuidsDistinct DEF TableInv
  <1>5. \A l \in Locks : lockDict[Master][l] = cmsg[c].uuid <=> l \in held[c]
    BY <1>2, IdleHolds
  <1>6. /\ UNCHANGED ownerBar
        /\ \A l \in Locks :
              IF l \in held[c]
                THEN /\ ownerBar[l] = c /\ phaseBar[l] = PhaseOf(c, l)
                     /\ phaseBar'[l] = PhaseOf(c, l)'
                ELSE phaseBar'[l] = phaseBar[l]
    BY <1>2, <1>3, <1>4, <1>5, ClientBar
  <1>7. \A l \in held[c] : PhaseOf(c, l) = "held" /\ PhaseOf(c, l)' = "left"
    BY <1>3 DEF PhaseOf
  <1>8. CASE held[c] # {}
    <2>1. PICK S \in SUBSET Locks : S = held[c]
      BY <1>1
    <2>2. /\ \A l \in S : phaseBar[l] = "held" /\ ownerBar[l] = c
          /\ \A l \in Locks : phaseBar'[l] = IF l \in S THEN "left" ELSE phaseBar[l]
      BY <1>6, <1>7, <2>1
    <2>3. phaseBar' = [l \in Locks |-> IF l \in S THEN "left" ELSE phaseBar[l]]
      <3>1. PICK p, p1 : p = phaseBar /\ p1 = phaseBar'
        OBVIOUS
      <3>2. p1 = [l \in Locks |-> p1[l]]
        BY <3>1 DEF Bars
      <3>3. p1 = [l \in Locks |-> IF l \in S THEN "left" ELSE p[l]]
        BY <2>2, <3>1, <3>2
      <3>4. QED BY <3>1, <3>3
    <2>4. Table!Leave(c, S)
      BY <1>6, <1>8, <2>1, <2>2, <2>3 DEF Table!Leave
    <2>5. QED BY <2>4 DEF Table!TableNext
  <1>9. CASE held[c] = {}
    BY <1>2, <1>3, <1>5, <1>9, ClientSame
  <1>10. QED BY <1>8, <1>9

\* Every step of the lock service is a step of the table or leaves it alone.
LEMMA TableStep ==
    ASSUME TableInv, TableInv', Bars, Bars', [Next]_vars
    PROVE  [Table!TableNext]_<<ownerBar, phaseBar>>
  <1> DEFINE Steps == Table!TableNext \/ UNCHANGED <<ownerBar, phaseBar>>
  <1> SUFFICES Steps
    OBVIOUS
  <1>0. Master \notin Followers /\ DOMAIN lockDict = Servers
    BY ServerAssumption DEF TableInv, SafeInv, TypeInv, TypeOK
  <1>1. CASE ServerStep
    <2>1. UNCHANGED <<cstate, cmsg, held>>
      BY <1>1 DEF ServerStep
    <2>2. CASE MasterGrant BY <2>1, <2>2, GrantsTable
    <2>3. CASE MasterRelease BY <2>1, <2>3, ReleasesTable
    <2>4. CASE ~MasterGrant /\ ~MasterRelease
      <3>1. lockDict'[Master] = lockDict[Master]
        <4>1. CASE MasterStep
          BY <2>4, <4>1 DEF MasterStep, MasterRegisterClient, MasterRegisterFoer,
                            MasterRefuse, MasterInquire
        <4>2. ASSUME NEW f \in Followers, FollowerStep(f)
              PROVE  lockDict'[Master] = lockDict[Master]
          <5>1. f # Master
            BY <1>0
          <5>2. CASE FollowerAdd(f) \/ FollowerDelete(f)
            <6>1. \A l, u : [lockDict EXCEPT ![f][l] = u][Master] = lockDict[Master]
              BY <1>0, <5>1 DEF Servers
            <6>2. \E l, u : lockDict' = lockDict \/ lockDict' = [lockDict EXCEPT ![f][l] = u]
              BY <5>2 DEF FollowerAdd, FollowerDelete, Forgotten
            <6>3. QED BY <6>1, <6>2
          <5>3. CASE ~(FollowerAdd(f) \/ FollowerDelete(f))
            BY <4>2, <5>3 DEF FollowerStep, FollowerStart, FollowerForward,
                              FollowerInquire, FollowerIgnore
          <5>4. QED BY <5>2, <5>3
        <4>3. ASSUME NEW s \in Servers, MqWrite(s) PROVE UNCHANGED lockDict
          BY <4>3 DEF MqWrite
        <4>4. QED BY <1>1, <4>1, <4>2, <4>3 DEF ServerStep, ServerNext
      <3>2. QED BY <2>1, <3>1, RestOfTable
    <2>5. QED BY <2>2, <2>3, <2>4
  <1>2. ASSUME NEW c \in Clients, ClientStep(c) PROVE Steps
    BY <1>2, ConnectsTable, CallsTable, ReturnsTable, ClosesTable DEF ClientStep
  <1>3. ASSUME NEW c \in Clients, ClientWrite(c) PROVE Steps
    <2>1. UNCHANGED <<cstate, cmsg, held, lockDict>>
      BY <1>3 DEF ClientWrite, MqWrite
    <2>2. QED BY <2>1, RestOfTable
  <1>4. CASE UNCHANGED vars
    <2>1. UNCHANGED <<cstate, cmsg, held, lockDict>>
      BY <1>4 DEF vars, serverVars
    <2>2. QED BY <2>1, RestOfTable
  <1>5. QED BY <1>1, <1>2, <1>3, <1>4 DEF Next

\* The servers of server.cpp and the library of lock.cpp implement the lock
\* table: a lock is granted only while it is free, its owner learns of it later,
\* and it becomes free only after its owner has stopped using it.
THEOREM LockTableImplemented == Spec => ImplementsLockTable
  <1>1. Init => Table!TableInit
    <2> SUFFICES ASSUME Init PROVE Table!TableInit
      OBVIOUS
    <2>1. \A l \in Locks : lockDict[Master][l] = 0
      BY DEF Init, ServerInit, Servers
    <2>2. \A l \in Locks : ownerBar[l] = NoOne /\ phaseBar[l] = "free"
      BY <2>1 DEF ownerBar, phaseBar, Registered
    <2>3. QED BY <2>2 DEF Table!TableInit, ownerBar, phaseBar
  <1>2. TableInv' => Bars'
    BY TableBars, PTL
  <1>3. TableInv /\ TableInv' /\ [Next]_vars => [Table!TableNext]_<<ownerBar, phaseBar>>
    BY <1>2, TableBars, TableStep
  <1>4. QED BY <1>1, <1>3, TableInvariant, PTL
            DEF Spec, ImplementsLockTable, Table!TableSpec, Table!tableVars
=============================================================================
