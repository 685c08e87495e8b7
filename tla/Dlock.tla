-------------------------------- MODULE Dlock --------------------------------
(***************************************************************************)
(* Clients that use the lock servers through the library class Dlock       *)
(* (lock.cpp): the constructor finds a server and a name in the DNS queue  *)
(* and registers, each of TryLock, TryUnlock and isOwnLock sends one       *)
(* message and waits for one answer, the destructor removes the client's   *)
(* queue and tells nobody.                                                 *)
(***************************************************************************)
EXTENDS LockServer

VARIABLES
    cstate,  \* where each client is
    cmsg,    \* the Dlock's msg: one buffer for what is sent and received
    held     \* locks a client was granted and has not begun to give back

vars == <<serverVars, cstate, cmsg, held>>

CStates == {"start", "lookup", "registering", "idle", "waiting", "closed"}

\* A buffer nothing has been written to.
NoMsg == [type |-> "REGISTER", ctype |-> "CLIENT", uuid |-> 0,
          name |-> NoName, server |-> NoName, lock |-> NoLock]

Calls == {"LOCK_REQUEST", "LOCK_RELEASE", "LOCK_INQUIRY"}

-----------------------------------------------------------------------------
\* Dlock(): lookup_server takes the first server name, or waits for one.
LookupServer(c) ==
    /\ cstate[c] = "start"
    /\ serverNames # <<>>
    /\ cmsg' = [cmsg EXCEPT ![c].server = Head(serverNames)]
    /\ serverNames' = Tail(serverNames)
    /\ cstate' = [cstate EXCEPT ![c] = "lookup"]
    /\ UNCHANGED <<queue, freeNames, nextName, nextUuid, lockDict, mqDict,
                   mqFoers, out, pname, held>>

\* Dlock(): lookup_name, both mq_opens, and the REGISTER to the server.
LookupName(c) ==
    /\ cstate[c] = "lookup"
    /\ freeNames # <<>>
    /\ LET n == Head(freeNames)
           m == [cmsg[c] EXCEPT !.type = "REGISTER", !.ctype = "CLIENT",
                                !.name = n]
       IN  /\ pname' = [pname EXCEPT ![c] = n]
           /\ queue' = MqOpen(MqOpen(queue, m.server), n)
           /\ cmsg' = [cmsg EXCEPT ![c] = m]
           /\ out' = [out EXCEPT ![c] = <<Send(m.server, m)>>]
    /\ freeNames' = Tail(freeNames)
    /\ cstate' = [cstate EXCEPT ![c] = "registering"]
    /\ UNCHANGED <<serverNames, nextName, nextUuid, lockDict, mqDict, mqFoers,
                   held>>

\* What a client reads into its buffer.  Type and lock are dropped: lk_sendrcv
\* sets both before the buffer is used again.
Buffered(m) == [m EXCEPT !.type = "REGISTER", !.lock = NoLock]

\* Dlock(): mq_read of the first REGISTER_ACK, past whatever is before it.
RecvAck(c) ==
    /\ cstate[c] = "registering"
    /\ out[c] = <<>>
    /\ LET q == queue[pname[c]]
       IN  \E i \in 1..Len(q) :
              /\ q[i].type = "REGISTER_ACK"
              /\ \A j \in 1..(i - 1) : q[j].type # "REGISTER_ACK"
              /\ queue' = [queue EXCEPT ![pname[c]] =
                             SubSeq(q, 1, i - 1) \o SubSeq(q, i + 1, Len(q))]
              /\ cmsg' = [cmsg EXCEPT ![c] = Buffered(q[i])]
    /\ cstate' = [cstate EXCEPT ![c] = "idle"]
    /\ UNCHANGED <<freeNames, serverNames, nextName, nextUuid, lockDict,
                   mqDict, mqFoers, out, pname, held>>

\* TryLock, TryUnlock or isOwnLock: the write half of lk_sendrcv.  From here
\* on a client that unlocks no longer uses the lock.
Call(c, t, l) ==
    /\ cstate[c] = "idle"
    /\ LET m == [cmsg[c] EXCEPT !.type = t, !.lock = l]
       IN  /\ cmsg' = [cmsg EXCEPT ![c] = m]
           /\ out' = [out EXCEPT ![c] = <<Send(m.server, m)>>]
    /\ held' = IF t = "LOCK_RELEASE"
                 THEN [held EXCEPT ![c] = @ \ {l}]
                 ELSE held
    /\ cstate' = [cstate EXCEPT ![c] = "waiting"]
    /\ UNCHANGED <<queue, freeNames, serverNames, nextName, nextUuid, lockDict,
                   mqDict, mqFoers, pname>>

\* The read half of lk_sendrcv and the caller's test of msg.type.
Answer(c) == Head(queue[pname[c]])

Return(c) ==
    /\ cstate[c] = "waiting"
    /\ out[c] = <<>>
    /\ queue[pname[c]] # <<>>
    /\ queue' = [queue EXCEPT ![pname[c]] = Tail(@)]
    /\ held' = IF cmsg[c].type = "LOCK_REQUEST" /\ Answer(c).type = "LOCK_GRANT"
                 THEN [held EXCEPT ![c] = @ \cup {cmsg[c].lock}]
                 ELSE held
    /\ cmsg' = [cmsg EXCEPT ![c] = Buffered(Answer(c))]
    /\ cstate' = [cstate EXCEPT ![c] = "idle"]
    /\ UNCHANGED <<freeNames, serverNames, nextName, nextUuid, lockDict,
                   mqDict, mqFoers, out, pname>>

\* ~Dlock(): mq_close of the client's own queue.  No UNREGISTER is sent.
Close(c) ==
    /\ cstate[c] = "idle"
    /\ queue' = [n \in DOMAIN queue \ {pname[c]} |-> queue[n]]
    /\ held' = [held EXCEPT ![c] = {}]
    /\ cstate' = [cstate EXCEPT ![c] = "closed"]
    /\ UNCHANGED <<freeNames, serverNames, nextName, nextUuid, lockDict,
                   mqDict, mqFoers, out, pname, cmsg>>

ClientConnect(c) == LookupServer(c) \/ LookupName(c) \/ RecvAck(c)

ClientStep(c) ==
    \/ ClientConnect(c)
    \/ \E t \in Calls, l \in Locks : Call(c, t, l)
    \/ Return(c)
    \/ Close(c)

-----------------------------------------------------------------------------
Init ==
    /\ ServerInit
    /\ cstate = [c \in Clients |-> "start"]
    /\ cmsg = [c \in Clients |-> NoMsg]
    /\ held = [c \in Clients |-> {}]

ServerStep == ServerNext /\ UNCHANGED <<cstate, cmsg, held>>
ClientWrite(c) == MqWrite(c) /\ UNCHANGED <<cstate, cmsg, held>>

Next ==
    \/ ServerStep
    \/ \E c \in Clients : ClientStep(c) \/ ClientWrite(c)

Spec == Init /\ [][Next]_vars

\* Every process keeps running its loop: the operating system schedules a
\* process that can run, and a blocked mq_read wakes up when a message comes.
\* Every client is created at some time.  Nothing obliges it to make a call
\* or to destroy its Dlock.
Fairness ==
    /\ WF_vars(MasterStep /\ UNCHANGED <<cstate, cmsg, held>>)
    /\ \A f \in Followers :
          WF_vars(FollowerStep(f) /\ UNCHANGED <<cstate, cmsg, held>>)
    /\ \A s \in Servers : SF_vars(MqWrite(s) /\ UNCHANGED <<cstate, cmsg, held>>)
    /\ \A c \in Clients :
          /\ SF_vars(ClientWrite(c))
          /\ WF_vars(LookupServer(c))
          /\ WF_vars(LookupName(c))
          /\ WF_vars(RecvAck(c))
          /\ WF_vars(Return(c))

-----------------------------------------------------------------------------
(* What the lock service promises.                                         *)

\* Every variable has its type; a server's copy of the lock table is total.
TypeOK ==
    /\ DOMAIN queue \subseteq Int
    /\ \A n \in DOMAIN queue : queue[n] \in Seq(Msg)
    /\ freeNames \in Seq(Nat)
    /\ serverNames \in Seq(Int)
    /\ nextName \in Nat
    /\ nextUuid \in Nat
    /\ lockDict \in [Servers -> [Locks -> Nat]]
    /\ DOMAIN mqDict = Servers
    /\ \A s \in Servers : /\ DOMAIN mqDict[s] \subseteq Nat
                          /\ \A u \in DOMAIN mqDict[s] : mqDict[s][u] \in Int
    /\ mqFoers \in Seq(Int)
    /\ out \in [Procs -> Seq([to : Int, msg : Msg])]
    /\ pname \in [Procs -> Int]
    /\ cstate \in [Clients -> CStates]
    /\ cmsg \in [Clients -> Msg]
    /\ held \in [Clients -> SUBSET Locks]

\* Two clients never both believe they hold a lock: from TryLock returning
\* true until TryUnlock is called the lock is that client's alone (lock.cpp
\* TryLock and TryUnlock, server.cpp request_lock and release_lock).
MutualExclusion ==
    \A c, d \in Clients : c # d => held[c] \cap held[d] = {}

\* A lock a client believes it holds is recorded under that client's uuid in
\* the master's lock_dict, whatever answers and syncs are still on their way.
HolderRecorded ==
    \A c \in Clients : \A l \in held[c] :
        lockDict[Master][l] = cmsg[c].uuid

\* The messages of one client's conversation carry that client's queue name:
\* its registration or call on the way to the master, or the answer to it.
Conversation(m, n) ==
    m.name = n /\ m.type \notin {"SERVER_NAME", "LOCK_NEW", "LOCK_DELETE"}

QueueSlots(n) ==
    {s \in UNION {{q} \X (1..Len(queue[q])) : q \in DOMAIN queue} :
        Conversation(queue[s[1]][s[2]], n)}
OutSlots(n) ==
    {s \in UNION {{p} \X (1..Len(out[p])) : p \in Procs} :
        Conversation(out[s[1]][s[2]].msg, n)}
InConversation(n) == Cardinality(QueueSlots(n)) + Cardinality(OutSlots(n))

Expecting(c) == cstate[c] \in {"registering", "waiting"}

\* However its call is forwarded, a client never has two messages of one
\* conversation about, and none when it expects no answer: no answer is
\* duplicated, and none is left over to be taken for that of a later call.
OneMessagePerCall ==
    \A c \in Clients :
        cstate[c] \notin {"start", "lookup"} =>
            InConversation(pname[c]) <= IF Expecting(c) THEN 1 ELSE 0

\* What is written, or on its way, to n.
MessagesTo(n) ==
    {queue[n][i] : i \in IF n \in DOMAIN queue THEN 1..Len(queue[n]) ELSE {}}
      \cup UNION {{out[p][i].msg : i \in {j \in 1..Len(out[p]) :
                                             out[p][j].to = n}} : p \in Procs}

Answers == [LOCK_REQUEST |-> {"LOCK_GRANT", "LOCK_BUSY"},
            LOCK_RELEASE |-> {"LOCK_IDLE", "LOCK_BUSY"},
            LOCK_INQUIRY |-> {"LOCK_OWN", "LOCK_BUSY"}]

\* Whatever is on its way to a waiting client answers the call the client
\* made, about the same lock (lk_sendrcv takes any message for the answer).
\* When it grants, the master still has the client as owner; when it says
\* idle, the master has not.
AnswersAreTrue ==
    \A c \in Clients : cstate[c] = "waiting" =>
        \A m \in MessagesTo(pname[c]) :
            /\ m.type \in Answers[cmsg[c].type]
            /\ m.lock = cmsg[c].lock
            /\ m.uuid = cmsg[c].uuid
            /\ m.type = "LOCK_GRANT" =>
                   lockDict[Master][m.lock] = cmsg[c].uuid
            /\ m.type = "LOCK_IDLE" =>
                   lockDict[Master][m.lock] # cmsg[c].uuid

\* A call that reaches the master, directly or through a follower, names a
\* uuid whose queue the master knows, and that queue is the caller's and
\* exists: mq_dict.find never fails, and the answer is never written for ever.
CallerKnown ==
    \A m \in MessagesTo(MasterNode) :
        m.type \in Calls =>
            /\ m.uuid \in DOMAIN mqDict[Master]
            /\ mqDict[Master][m.uuid] = m.name
            /\ m.name \in DOMAIN queue

\* No two processes share a queue, and no free name is in use or offered
\* twice (publish_name and lookup_name).
NamesDistinct ==
    /\ \A p, q \in Procs :
          p # q /\ pname[p] # NoName => pname[p] # pname[q]
    /\ \A i \in 1..Len(freeNames) :
          /\ \A p \in Procs : freeNames[i] # pname[p]
          /\ \A j \in 1..Len(freeNames) : i # j => freeNames[i] # freeNames[j]

\* lookup_server takes a server out of the rotation and client_register puts
\* it back after the ACK.  A registered server is never offered twice, nor
\* dropped: its name is in one place, in the DNS queue, with a client that
\* has not registered yet, or in the write that puts it back.
Tokens(n) ==
    Cardinality({i \in 1..Len(serverNames) : serverNames[i] = n})
      + Cardinality({c \in Clients :
            /\ cmsg[c].server = n
            /\ \/ cstate[c] = "lookup"
               \/ \E s \in QueueSlots(pname[c]) :
                     queue[s[1]][s[2]].type = "REGISTER"
               \/ \E s \in OutSlots(pname[c]) :
                     out[s[1]][s[2]].msg.type = "REGISTER"})
      + Cardinality({i \in 1..Len(out[Master]) :
            /\ out[Master][i].to = DnsNode
            /\ out[Master][i].msg.server = n})

OneTokenPerServer ==
    \A s \in Servers :
        (s = Master \/ \E i \in 1..Len(mqFoers) : mqFoers[i] = pname[s])
            => Tokens(pname[s]) = 1

\* isOwnLock through the master is exact: it returns true just when the
\* client holds the lock.
InquiryExact ==
    [][\A c \in Clients :
          /\ cstate[c] = "waiting" /\ cstate'[c] = "idle"
          /\ cmsg[c].type = "LOCK_INQUIRY"
          /\ cmsg[c].server = MasterNode
          => (Answer(c).type = "LOCK_OWN" <=> cmsg[c].lock \in held[c])]_vars

\* The master never spins on the full queue of a follower that spins on the
\* master's full queue (mq_write retries for ever, and neither reads while it
\* writes).
Blocked(p, n) ==
    out[p] # <<>> /\ Head(out[p]).to = n /\ n \in DOMAIN queue
      /\ Full(n)
NoSendCycle ==
    \A f \in Followers : ~(Blocked(Master, pname[f]) /\ Blocked(f, MasterNode))

\* Every client gets its registration acknowledged, and every call returns.
ClientRegisters == \A c \in Clients : <>(cstate[c] \in {"idle", "closed"})
CallReturns ==
    \A c \in Clients : cstate[c] = "waiting" ~> cstate[c] = "idle"
=============================================================================
