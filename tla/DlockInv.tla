------------------------------- MODULE DlockInv -------------------------------
(***************************************************************************)
(* The inductive invariant behind the safety of the lock service: names    *)
(* are handed out once, every message in flight fits what the client it is *)
(* about waits for, and a client's conversation is one message at a time.  *)
(***************************************************************************)
EXTENDS Dlock

\* Free names are consecutive numbers below nextName; the names in use are
\* smaller.
Oldest == nextName - Len(freeNames)
NameInv ==
    /\ Oldest >= 1
    /\ \A i \in 1..Len(freeNames) : freeNames[i] = Oldest + i - 1
    /\ pname[Master] = MasterNode
    /\ \A p \in Procs \ {Master} :
          pname[p] # NoName => pname[p] >= 1 /\ pname[p] < Oldest
    /\ \A p, q \in Procs :
          p # q /\ pname[p] # NoName => pname[p] # pname[q]

\* A connected client has a name, the queue of that name exists, and the call
\* it waits for is about a lock.
QueueInv ==
    \A c \in Clients :
        /\ cstate[c] \in {"start", "lookup"} <=> pname[c] = NoName
        /\ cstate[c] \in {"registering", "idle", "waiting"} =>
               pname[c] \in DOMAIN queue
        /\ cstate[c] = "waiting" => cmsg[c].lock \in Locks

TypeInv == TypeOK /\ NameInv /\ QueueInv

Write == [to : Int, msg : Msg]

-----------------------------------------------------------------------------
\* Every message in the queues q, or still to be written by the writes o, with
\* the queue it is for.
InFlight(q, o) ==
    (UNION {{Send(x, q[x][i]) : i \in 1..Len(q[x])} : x \in DOMAIN q})
      \cup (UNION {{o[p][i] : i \in 1..Len(o[p])} : p \in Procs})

\* Messages of the conversation n in one queue, and among some writes.
NoneIn(ms, n) == \A i \in 1..Len(ms) : ~Conversation(ms[i], n)
OneIn(ms, n) ==
    \A i, j \in 1..Len(ms) :
        Conversation(ms[i], n) /\ Conversation(ms[j], n) => i = j
NoneOut(v, n) == \A i \in 1..Len(v) : ~Conversation(v[i].msg, n)
OneOut(v, n) ==
    \A i, j \in 1..Len(v) :
        Conversation(v[i].msg, n) /\ Conversation(v[j].msg, n) => i = j

\* There is at most one message of the conversation n in all of q and o.
Single(q, o, n) ==
    /\ \A x \in DOMAIN q : OneIn(q[x], n)
    /\ \A p \in Procs : OneOut(o[p], n)
    /\ \A x, y \in DOMAIN q : x # y => NoneIn(q[x], n) \/ NoneIn(q[y], n)
    /\ \A p, r \in Procs : p # r => NoneOut(o[p], n) \/ NoneOut(o[r], n)
    /\ \A x \in DOMAIN q, p \in Procs : NoneIn(q[x], n) \/ NoneOut(o[p], n)

-----------------------------------------------------------------------------
\* Names of servers, the name no process has among them; names of followers.
IsServer(x) == x = NoName \/ \E s \in Servers : x = pname[s]
IsFollower(x) == x # NoName /\ \E f \in Followers : x = pname[f]

\* Clients that have a name.
Connected(c) == cstate[c] \notin {"start", "lookup"}

AnswerTypes == {"LOCK_GRANT", "LOCK_BUSY", "LOCK_IDLE", "LOCK_OWN"}

\* What holds of a write whoever the client is: only names that were handed
\* out are used, calls come from clients, and clients are only sent what
\* answers them.
WellFormed(w) ==
    /\ w.msg.name < Oldest
    /\ w.to < Oldest
    /\ IsServer(w.msg.server)
    /\ w.msg.type = "REGISTER" /\ w.msg.ctype = "FOER" => IsFollower(w.msg.name)
    /\ w.msg.type \in Calls =>
          \E c \in Clients : Connected(c) /\ w.msg.name = pname[c]
    /\ \A c \in Clients : Connected(c) /\ w.to = pname[c] =>
          /\ w.msg.name = w.to
          /\ w.msg.type \in AnswerTypes \cup {"REGISTER_ACK"}

\* A message of the registration of c.
OfRegistration(m, c) ==
    /\ cstate[c] = "registering"
    /\ \/ m.type = "REGISTER" /\ m.ctype # "FOER"
       \/ /\ m.type = "REGISTER_ACK"
          /\ m.uuid \in DOMAIN mqDict[Master]
          /\ mqDict[Master][m.uuid] = pname[c]

\* The call c made, or a true answer to it.
OfCall(m, c) ==
    /\ cstate[c] = "waiting"
    /\ m.uuid = cmsg[c].uuid
    /\ m.lock = cmsg[c].lock
    /\ m.type = cmsg[c].type \/ m.type \in Answers[cmsg[c].type]
    /\ m.type = "LOCK_GRANT" => lockDict[Master][m.lock] = m.uuid
    /\ m.type = "LOCK_IDLE" => lockDict[Master][m.lock] # m.uuid

\* Every message of a client's conversation fits what the client waits for.
Fits(m) ==
    \A c \in Clients : Connected(c) /\ Conversation(m, pname[c]) =>
        OfRegistration(m, c) \/ OfCall(m, c)

FlightInv == \A w \in InFlight(queue, out) : WellFormed(w) /\ Fits(w.msg)
SingleInv == \A c \in Clients : Connected(c) => Single(queue, out, pname[c])

\* Uuids are handed out once, followers know the queues the master knows, and
\* only servers are in the rotation and among the followers.
DictInv ==
    /\ nextUuid >= 1
    /\ \A u \in DOMAIN mqDict[Master] : u >= 1 /\ u < nextUuid
    /\ \A f \in Followers : \A u \in DOMAIN mqDict[f] :
          u \in DOMAIN mqDict[Master] /\ mqDict[f][u] = mqDict[Master][u]
    /\ \A i \in 1..Len(mqFoers) : IsFollower(mqFoers[i])
    /\ \A i \in 1..Len(serverNames) : IsServer(serverNames[i])

\* A registered client has its own uuid, and what it holds is recorded under
\* it and not being given back.
ClientInv ==
    \A c \in Clients :
        /\ cstate[c] # "start" => IsServer(cmsg[c].server)
        /\ cstate[c] \in {"idle", "waiting"} =>
              /\ cmsg[c].name = pname[c]
              /\ cmsg[c].uuid \in DOMAIN mqDict[Master]
              /\ mqDict[Master][cmsg[c].uuid] = pname[c]
        /\ cstate[c] = "waiting" => cmsg[c].type \in Calls
        /\ \A l \in held[c] :
              /\ cstate[c] \in {"idle", "waiting"}
              /\ lockDict[Master][l] = cmsg[c].uuid
              /\ cstate[c] = "waiting" /\ cmsg[c].type = "LOCK_RELEASE" =>
                    cmsg[c].lock # l

\* The invariant that the proofs of the safety properties rest on.  It says
\* why no answer of server.cpp is ever taken for another by lk_sendrcv.
SafeInv == TypeInv /\ DictInv /\ ClientInv /\ FlightInv /\ SingleInv
-----------------------------------------------------------------------------
(* The records of the master's table: whose they are, and what the message *)
(* that is on its way says of them.                                        *)

\* A Dlock has no uuid before its ACK; the master never forgets a uuid, also
\* when the Dlock is gone.
UuidInv ==
    \A c \in Clients :
        /\ cstate[c] \in {"start", "lookup", "registering"} => cmsg[c].uuid = 0
        /\ cstate[c] = "closed" =>
              /\ cmsg[c].uuid \in DOMAIN mqDict[Master]
              /\ mqDict[Master][cmsg[c].uuid] = pname[c]

\* Every record is of a client.
OwnedInv ==
    \A l \in Locks : lockDict[Master][l] # 0 =>
        \E c \in Clients : cmsg[c].uuid = lockDict[Master][l]

\* What is recorded for a client it holds, or it is asking for it or giving it
\* back.
HeldInv ==
    \A c \in Clients, l \in Locks :
        cstate[c] \in {"idle", "waiting"} /\ lockDict[Master][l] = cmsg[c].uuid =>
            \/ l \in held[c]
            \/ /\ cstate[c] = "waiting" /\ cmsg[c].lock = l
               /\ cmsg[c].type \in {"LOCK_REQUEST", "LOCK_RELEASE"}

\* The write w tells the client c, or asks for it, what fits the record.  A
\* request of a lock that is recorded for c already is granted; one being given
\* back has not reached the master; the master's answer to an inquiry is true.
Tells(c, w) ==
    cstate[c] = "waiting" =>
        LET l == cmsg[c].lock
            own == lockDict[Master][l] = cmsg[c].uuid
        IN  /\ cmsg[c].type = "LOCK_REQUEST" /\ own /\ l \notin held[c] =>
                   w.msg.type = "LOCK_GRANT"
            /\ cmsg[c].type = "LOCK_RELEASE" /\ own =>
                   w.msg.type = "LOCK_RELEASE"
            /\ cmsg[c].type = "LOCK_INQUIRY" /\ cmsg[c].server = MasterNode =>
                   /\ w.msg.type = "LOCK_INQUIRY" => w.to = MasterNode
                   /\ w.msg.type = "LOCK_OWN" => l \in held[c]
                   /\ w.msg.type = "LOCK_BUSY" => l \notin held[c]

TellsInv ==
    \A c \in Clients, w \in InFlight(queue, out) :
        Connected(c) /\ Conversation(w.msg, pname[c]) => Tells(c, w)

\* The invariant behind the refinement of the lock table.
RecordsInv == UuidInv /\ OwnedInv /\ HeldInv /\ TellsInv
TableInv == SafeInv /\ RecordsInv
-----------------------------------------------------------------------------
(* Registrations.                                                          *)

\* The registration of a follower.
IsFoerReg(m) == m.type = "REGISTER" /\ m.ctype = "FOER"

\* What registers is a follower, or a client with the server it drew.  The
\* master gets registrations and calls only.
Registers(w) ==
    /\ w.msg.type = "REGISTER" =>
          \/ w.msg.server = NoName /\ IsFollower(w.msg.name)
          \/ \E c \in Clients : /\ Connected(c)
                                /\ w.msg.name = pname[c]
                                /\ w.msg.server = cmsg[c].server
                                /\ w.to \in {cmsg[c].server, MasterNode}
    /\ w.to = MasterNode => w.msg.type \in Calls \cup {"REGISTER"}

\* Who has nothing to write: a client that expects no answer, and a follower
\* that has not started.
IdleInv ==
    /\ \A c \in Clients :
          /\ cstate[c] = "start" => cmsg[c].server = NoName
          /\ cstate[c] \notin {"registering", "waiting"} => out[c] = <<>>
    /\ \A f \in Followers : pname[f] = NoName => out[f] = <<>>

\* Every queue has a proper name, and only the master puts servers back.
RegisterInv ==
    /\ \A x \in DOMAIN queue : x >= 0
    /\ \A p \in Procs \ {Master} : \A i \in 1..Len(out[p]) : out[p][i].to # DnsNode
    /\ \A w \in InFlight(queue, out) : Registers(w)
    /\ IdleInv

\* A follower that has the name nm[p] registers once: the registration is in
\* one place, the follower's own write or the master's queue.
FoerOnce(q, o, nm) ==
    /\ \A p \in Procs : \A i \in 1..Len(o[p]) : IsFoerReg(o[p][i].msg) =>
          /\ p \in Followers /\ Len(o[p]) = 1
          /\ o[p][i].to = MasterNode /\ o[p][i].msg.name = nm[p]
          /\ \A x \in DOMAIN q : \A j \in 1..Len(q[x]) :
                IsFoerReg(q[x][j]) => q[x][j].name # nm[p]
    /\ \A x \in DOMAIN q : \A i \in 1..Len(q[x]) : IsFoerReg(q[x][i]) =>
          /\ x = MasterNode
          /\ \A j \in 1..Len(q[x]) :
                IsFoerReg(q[x][j]) /\ q[x][j].name = q[x][i].name => j = i

In(s, n) == \E i \in 1..Len(s) : s[i] = n

\* And the master does not know the follower yet.
FoerInv ==
    /\ FoerOnce(queue, out, pname)
    /\ \A w \in InFlight(queue, out) : IsFoerReg(w.msg) => ~In(mqFoers, w.msg.name)

-----------------------------------------------------------------------------
(* Where the name of each server is.                                       *)

\* A registration of the process named n is among the writes F.
OnItsWay(F, n) == \E w \in F : w.msg.type = "REGISTER" /\ w.msg.name = n

\* The client c has drawn the server n, and its registration has not arrived.
Carries(c, n) ==
    /\ cmsg[c].server = n
    /\ \/ cstate[c] = "lookup"
       \/ cstate[c] = "registering" /\ OnItsWay(InFlight(queue, out), pname[c])

\* n is once at most in the rotation s; among the writes v one puts it back.
Once(s, n) == \A i, j \in 1..Len(s) : s[i] = n /\ s[j] = n => i = j
PutsBack(w, n) == w.to = DnsNode /\ w.msg.server = n
PutBy(v, n) == \E i \in 1..Len(v) : PutsBack(v[i], n)
PutOnceBy(v, n) ==
    \A i, j \in 1..Len(v) : PutsBack(v[i], n) /\ PutsBack(v[j], n) => i = j

Carried(n) == \E c \in Clients : Carries(c, n)
CarriedOnce(n) == \A c, d \in Clients : Carries(c, n) /\ Carries(d, n) => c = d
Enrolled(n) == n = MasterNode \/ In(mqFoers, n)

\* The server n is in one place once it has registered, and in none before.
Token(n) ==
    /\ Once(serverNames, n) /\ CarriedOnce(n) /\ PutOnceBy(out[Master], n)
    /\ ~(In(serverNames, n) /\ Carried(n))
    /\ ~(In(serverNames, n) /\ PutBy(out[Master], n))
    /\ ~(Carried(n) /\ PutBy(out[Master], n))
    /\ Enrolled(n) <=> In(serverNames, n) \/ Carried(n) \/ PutBy(out[Master], n)

ServerKeys == {pname[s] : s \in Servers} \ {NoName}
TokensOnce == \A n \in ServerKeys : Token(n)

\* The invariant behind OneTokenPerServer.
TokenInv == SafeInv /\ RegisterInv /\ FoerInv /\ TokensOnce

-----------------------------------------------------------------------------
(* Deployments in which every follower has registered before a client      *)
(* starts.                                                                 *)

FollowersUp == \A f \in Followers : In(mqFoers, pname[f])
NobodyStarted == \A c \in Clients : cstate[c] = "start"

OrderedNext == Next /\ (FollowersUp \/ UNCHANGED cstate)
OrderedSpec == Init /\ [][OrderedNext]_vars

\* No lock is held when a follower registers, so none is sent to it as one
\* more registration.
OrderInv ==
    /\ NobodyStarted \/ FollowersUp
    /\ NobodyStarted => out[Master] = <<>>
    /\ \A w \in InFlight(queue, out) : w.msg.type = "REGISTER" =>
          IsFoerReg(w.msg) \/ \E c \in Clients : Connected(c) /\ w.msg.name = pname[c]

\* The invariant behind NoSendCycle.
CycleInv == TableInv /\ RegisterInv /\ FoerInv /\ OrderInv
=============================================================================
