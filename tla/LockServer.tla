----------------------------- MODULE LockServer -----------------------------
(***************************************************************************)
(* The lock servers of project1 (server.cpp) and the System V message      *)
(* queues they and their clients talk through (mqueue.cpp).                *)
(*                                                                         *)
(* One server is the master, the others are followers.  Every process      *)
(* reads one queue of its own, in order.  The master alone decides who     *)
(* owns a lock, answers the client directly, and then writes the change to *)
(* the queue of every follower.  A follower forwards registrations,        *)
(* requests and releases to the master and answers inquiries from its own  *)
(* copy of the lock table.  Names of queues and names of servers are       *)
(* handed out through one more queue, the DNS queue.                       *)
(*                                                                         *)
(* The clients are in the modules that extend this one.                    *)
(***************************************************************************)
EXTENDS Integers, Sequences, FiniteSets

CONSTANTS
    Master,     \* `server 0`
    Followers,  \* `server 1`, `server 2`, ...
    Clients,    \* the processes that use the lock service
    Locks,      \* the names of locks
    NoLock,     \* the lock field of a message that is about no lock
    InitNames,  \* free names the master publishes when it starts (9)
    Cap         \* client_t messages one queue holds: 16384 \div 200 = 81

Servers == {Master} \cup Followers
Procs == Servers \cup Clients

ASSUME ServerAssumption ==
    /\ Master \notin Followers
    /\ Servers \cap Clients = {}
    /\ NoLock \notin Locks
    /\ IsFiniteSet(Locks)
    /\ InitNames \in Nat \ {0}
    /\ Cap \in Nat \ {0}

-----------------------------------------------------------------------------
(* Names of queues.  publish_name counts down from DNS_NODE - 1; the model *)
(* counts the same names up from 1.                                        *)

MasterNode == 0
DnsNode == -1
\* The key of a string no process listens on: a server field nobody wrote.
NoName == -2

MsgTypes == {"SERVER_NAME", "REGISTER", "REGISTER_ACK", "LOCK_SYNC",
             "LOCK_NEW", "LOCK_DELETE", "LOCK_REQUEST", "LOCK_RELEASE",
             "LOCK_INQUIRY", "LOCK_GRANT", "LOCK_BUSY", "LOCK_IDLE",
             "LOCK_OWN"}

\* msg_t with the client_t it carries.  ctype is client_t.type, which
\* client_register sets to MSG_LOCK_SYNC, one of the message types.
Msg == [type : MsgTypes, ctype : {"CLIENT", "FOER", "LOCK_SYNC"}, uuid : Nat,
        name : Int, server : Int, lock : Locks \cup {NoLock}]

VARIABLES
    queue,        \* the existing queues: name -> messages in order
    freeNames,    \* MSG_FREE_NAME messages in the DNS queue
    serverNames,  \* MSG_SERVER_NAME messages in the DNS queue
    nextName,     \* publish_name's static counter
    nextUuid,     \* master_run's static uuid
    lockDict,     \* lock_dict of each server: lock -> uuid, 0 when absent
    mqDict,       \* mq_dict of each server: uuid -> queue
    mqFoers,      \* the master's mq_foers
    out,          \* the mq_writes each process has still to complete
    pname         \* the name of each process's own queue

serverVars == <<queue, freeNames, serverNames, nextName, nextUuid, lockDict,
                mqDict, mqFoers, out, pname>>

-----------------------------------------------------------------------------
(* The queues.                                                             *)

\* mq_open: every call adds IPC_CREAT, so a missing queue is created.
MqOpen(q, n) ==
    [x \in DOMAIN q \cup ({n} \ {NoName}) |->
        IF x \in DOMAIN q THEN q[x] ELSE <<>>]

Send(n, m) == [to |-> n, msg |-> m]

\* Mutant: room for one message fewer.
FullOneEarly(n) == Len(queue[n]) >= Cap - 1
Full(n) == Len(queue[n]) >= Cap

\* mq_write: retried until there is room, so a process with a write pending
\* does nothing else.  The DNS queue holds a few short messages and is never
\* full.  A queue nobody listens on swallows the message.
MqWrite(p) ==
    /\ out[p] # <<>>
    /\ LET n == Head(out[p]).to
           m == Head(out[p]).msg
       IN  \/ /\ n = DnsNode
              /\ serverNames' = Append(serverNames, m.server)
              /\ UNCHANGED queue
           \/ /\ n = NoName
              /\ UNCHANGED <<queue, serverNames>>
           \/ /\ n \in DOMAIN queue
              /\ ~Full(n)
              /\ queue' = [queue EXCEPT ![n] = Append(@, m)]
              /\ UNCHANGED serverNames
    /\ out' = [out EXCEPT ![p] = Tail(@)]
    /\ UNCHANGED <<freeNames, nextName, nextUuid, lockDict, mqDict, mqFoers,
                   pname>>

\* The message server s is about to handle, and the queues once it is read.
HasMsg(s) ==
    /\ out[s] = <<>>
    /\ pname[s] \in DOMAIN queue
    /\ queue[pname[s]] # <<>>
Received(s) == Head(queue[pname[s]])
Popped(s) == [queue EXCEPT ![pname[s]] = Tail(@)]

\* Mutant: the counter stays.
PublishNameAgain ==
    /\ freeNames' = Append(freeNames, nextName)
    /\ nextName' = nextName

\* publish_name(mq): the next number becomes a free name.
PublishName ==
    /\ freeNames' = Append(freeNames, nextName)
    /\ nextName' = nextName + 1

-----------------------------------------------------------------------------
(* What the master and the followers share.                                *)

\* mq_dict.find(uuid)->second; the result for an unknown uuid is arbitrary.
ClientMq(s, u) == IF u \in DOMAIN mqDict[s] THEN mqDict[s][u] ELSE NoName

\* pmsg->type = t, and pmsg back to the client it names.
Reply(s, m, t) == Send(ClientMq(s, m.uuid), [m EXCEPT !.type = t])

\* Mutant: followers are not told.
ToNobody(m, t) == <<>>

\* The same message to every follower, in the order they registered.
ToFoers(m, t) ==
    [i \in 1..Len(mqFoers) |-> Send(mqFoers[i], [m EXCEPT !.type = t])]

\* Mutant: any record will do.
InTable(s, m) == lockDict[s][m.lock] # 0

\* The lock of m is recorded, and under the uuid in m.
Owns(s, m) == lockDict[s][m.lock] = m.uuid

InquiryAnswer(s, m) == IF Owns(s, m) THEN "LOCK_OWN" ELSE "LOCK_BUSY"

\* Mutant: nothing is recorded.
InsertNothing(dict, u, n) == dict

\* map::insert, which keeps an entry that is there already.
Insert(dict, u, n) ==
    [x \in DOMAIN dict \cup {u} |-> IF x \in DOMAIN dict THEN dict[x] ELSE n]

-----------------------------------------------------------------------------
(* The master.                                                             *)

\* Mutants: the server is not put back, the client gets no answer.
JustAcknowledge(m) == <<Send(m.name, [m EXCEPT !.type = "REGISTER_ACK"])>>
JustRepublish(m) == <<Send(DnsNode, [m EXCEPT !.type = "SERVER_NAME"])>>

\* The ACK, and after it the client's server back into the rotation.
Acknowledge(m) ==
    <<Send(m.name, [m EXCEPT !.type = "REGISTER_ACK"]),
      Send(DnsNode, [m EXCEPT !.type = "SERVER_NAME"])>>

\* client_register, a client: a new free name, a uuid, the ACK.
MasterRegisterClient ==
    LET m == Received(Master)
    IN  /\ HasMsg(Master)
        /\ m.type = "REGISTER"
        /\ m.ctype # "FOER"
        /\ queue' = MqOpen(Popped(Master), m.name)
        /\ PublishName
        /\ nextUuid' = nextUuid + 1
        /\ mqDict' = [mqDict EXCEPT ![Master] = Insert(@, nextUuid, m.name)]
        /\ out' = [out EXCEPT ![Master] =
                     Acknowledge([m EXCEPT !.uuid = nextUuid])]
        /\ UNCHANGED <<serverNames, lockDict, mqFoers, pname>>

\* The locks in the master's table, in any order.
Orders(S) ==
    {o \in [1..Cardinality(S) -> S] :
        \A l \in S : \E i \in 1..Cardinality(S) : o[i] = l}

HeldLocks == {l \in Locks : lockDict[Master][l] # 0}

\* What client_register writes for the records it holds: the code sets
\* lk->type, a field of the payload, so the message is still a REGISTER.
SyncMsgs(m, order, foers) ==
    [k \in 1..(Len(order) * Len(foers)) |->
        LET l == order[((k - 1) \div Len(foers)) + 1]
            n == foers[((k - 1) % Len(foers)) + 1]
        IN  Send(n, [m EXCEPT !.ctype = "LOCK_SYNC", !.lock = l,
                              !.uuid = lockDict[Master][l]])]

\* client_register, a follower.
MasterRegisterFoer ==
    LET m == Received(Master)
        foers == Append(mqFoers, m.name)
    IN  /\ HasMsg(Master)
        /\ m.type = "REGISTER"
        /\ m.ctype = "FOER"
        /\ queue' = MqOpen(Popped(Master), m.name)
        /\ PublishName
        /\ mqFoers' = foers
        /\ serverNames' = Append(serverNames, m.name)
        /\ \E order \in Orders(HeldLocks) :
              out' = [out EXCEPT ![Master] = SyncMsgs(m, order, foers)]
        /\ UNCHANGED <<nextUuid, lockDict, mqDict, pname>>

\* Mutant: a lock is granted again.
AlwaysFree(l) == TRUE
IsFree(l) == lockDict[Master][l] = 0

\* Mutants: nothing is recorded, a record is erased with a mark.
NotRecorded(l, u) == lockDict
MarkedErased(l, u) ==
    [lockDict EXCEPT ![Master][l] = IF u = 0 THEN -1 ELSE u]

\* The master's table with l recorded for u, or erased when u is 0.
Recorded(l, u) == [lockDict EXCEPT ![Master][l] = u]

\* request_lock, the lock is free: record the owner, answer, tell followers.
MasterGrant ==
    LET m == Received(Master)
    IN  /\ HasMsg(Master)
        /\ m.type = "LOCK_REQUEST"
        /\ IsFree(m.lock)
        /\ queue' = Popped(Master)
        /\ lockDict' = Recorded(m.lock, m.uuid)
        /\ out' = [out EXCEPT ![Master] =
                     <<Reply(Master, m, "LOCK_GRANT")>>
                       \o ToFoers(m, "LOCK_NEW")]
        /\ UNCHANGED <<freeNames, serverNames, nextName, nextUuid, mqDict,
                       mqFoers, pname>>

\* release_lock, by the owner: answer, forget the record, tell followers.
MasterRelease ==
    LET m == Received(Master)
    IN  /\ HasMsg(Master)
        /\ m.type = "LOCK_RELEASE"
        /\ Owns(Master, m)
        /\ queue' = Popped(Master)
        /\ lockDict' = Recorded(m.lock, 0)
        /\ out' = [out EXCEPT ![Master] =
                     <<Reply(Master, m, "LOCK_IDLE")>>
                       \o ToFoers(m, "LOCK_DELETE")]
        /\ UNCHANGED <<freeNames, serverNames, nextName, nextUuid, mqDict,
                       mqFoers, pname>>

\* Mutant: no answer.
Silence(m) == <<>>
Refusal(m) == <<Reply(Master, m, "LOCK_BUSY")>>

\* request_lock of a lock in the table, release_lock by another than its
\* owner: BUSY.
MasterRefuse ==
    LET m == Received(Master)
    IN  /\ HasMsg(Master)
        /\ \/ m.type = "LOCK_REQUEST" /\ ~IsFree(m.lock)
           \/ m.type = "LOCK_RELEASE" /\ ~Owns(Master, m)
        /\ queue' = Popped(Master)
        /\ out' = [out EXCEPT ![Master] = Refusal(m)]
        /\ UNCHANGED <<freeNames, serverNames, nextName, nextUuid, lockDict,
                       mqDict, mqFoers, pname>>

MasterInquire ==
    LET m == Received(Master)
    IN  /\ HasMsg(Master)
        /\ m.type = "LOCK_INQUIRY"
        /\ queue' = Popped(Master)
        /\ out' = [out EXCEPT ![Master] =
                     <<Reply(Master, m, InquiryAnswer(Master, m))>>]
        /\ UNCHANGED <<freeNames, serverNames, nextName, nextUuid, lockDict,
                       mqDict, mqFoers, pname>>

MasterStep ==
    \/ MasterRegisterClient
    \/ MasterRegisterFoer
    \/ MasterGrant
    \/ MasterRelease
    \/ MasterRefuse
    \/ MasterInquire

-----------------------------------------------------------------------------
(* The followers.                                                          *)

\* The start of follower_run.  The server field is never written.
FollowerStart(f) ==
    /\ pname[f] = NoName
    /\ freeNames # <<>>
    /\ LET n == Head(freeNames)
           m == [type |-> "REGISTER", ctype |-> "FOER", uuid |-> 0,
                 name |-> n, server |-> NoName, lock |-> NoLock]
       IN  /\ pname' = [pname EXCEPT ![f] = n]
           /\ queue' = MqOpen(queue, n)
           /\ out' = [out EXCEPT ![f] = <<Send(MasterNode, m)>>]
    /\ freeNames' = Tail(freeNames)
    /\ UNCHANGED <<serverNames, nextName, nextUuid, lockDict, mqDict, mqFoers>>

\* Mutants: a write that succeeded is retried, only requests are forwarded.
ForwardedTwice(m) == <<Send(MasterNode, m), Send(MasterNode, m)>>
ForwardedMaybe(m) ==
    IF m.type = "LOCK_RELEASE" THEN <<>> ELSE <<Send(MasterNode, m)>>

\* message2master.
Forwarded(m) == <<Send(MasterNode, m)>>

FollowerForward(f) ==
    LET m == Received(f)
    IN  /\ HasMsg(f)
        /\ m.type \in {"REGISTER", "LOCK_REQUEST", "LOCK_RELEASE"}
        /\ queue' = Popped(f)
        /\ out' = [out EXCEPT ![f] = Forwarded(m)]
        /\ UNCHANGED <<freeNames, serverNames, nextName, nextUuid, lockDict,
                       mqDict, mqFoers, pname>>

\* record_client (whose test for uuid -1 no message meets), then the inquiry
\* answered from the follower's own table.
FollowerInquire(f) ==
    LET m == Received(f)
    IN  /\ HasMsg(f)
        /\ m.type = "LOCK_INQUIRY"
        /\ mqDict' = [mqDict EXCEPT ![f] = Insert(@, m.uuid, m.name)]
        /\ queue' = IF m.uuid \in DOMAIN mqDict[f]
                      THEN Popped(f)
                      ELSE MqOpen(Popped(f), m.name)
        /\ out' = [out EXCEPT ![f] =
                     <<Send(mqDict'[f][m.uuid],
                            [m EXCEPT !.type = InquiryAnswer(f, m)])>>]
        /\ UNCHANGED <<freeNames, serverNames, nextName, nextUuid, lockDict,
                       mqFoers, pname>>

\* add_lock_record, also through sync_lock_record: insert keeps a record
\* that is there already.
FollowerAdd(f) ==
    LET m == Received(f)
    IN  /\ HasMsg(f)
        /\ m.type \in {"LOCK_SYNC", "LOCK_NEW"}
        /\ queue' = Popped(f)
        /\ lockDict' = IF lockDict[f][m.lock] = 0
                         THEN [lockDict EXCEPT ![f][m.lock] = m.uuid]
                         ELSE lockDict
        /\ UNCHANGED <<freeNames, serverNames, nextName, nextUuid, mqDict,
                       mqFoers, out, pname>>

\* Mutant: the record stays.
Unforgotten(f, l) == lockDict
Forgotten(f, l) == [lockDict EXCEPT ![f][l] = 0]

\* delete_lock_record.
FollowerDelete(f) ==
    LET m == Received(f)
    IN  /\ HasMsg(f)
        /\ m.type = "LOCK_DELETE"
        /\ queue' = Popped(f)
        /\ lockDict' = Forgotten(f, m.lock)
        /\ UNCHANGED <<freeNames, serverNames, nextName, nextUuid, mqDict,
                       mqFoers, out, pname>>

\* default: the message is dropped.
FollowerIgnore(f) ==
    LET m == Received(f)
    IN  /\ HasMsg(f)
        /\ m.type = "REGISTER_ACK"
        /\ queue' = Popped(f)
        /\ UNCHANGED <<freeNames, serverNames, nextName, nextUuid, lockDict,
                       mqDict, mqFoers, out, pname>>

FollowerStep(f) ==
    \/ FollowerStart(f)
    \/ FollowerForward(f)
    \/ FollowerInquire(f)
    \/ FollowerAdd(f)
    \/ FollowerDelete(f)
    \/ FollowerIgnore(f)

-----------------------------------------------------------------------------
\* The master has opened its queues and published the first names and itself;
\* nobody else has started.
ServerInit ==
    /\ queue = [n \in {MasterNode} |-> <<>>]
    /\ freeNames = [i \in 1..InitNames |-> i]
    /\ serverNames = <<MasterNode>>
    /\ nextName = InitNames + 1
    /\ nextUuid = 1
    /\ lockDict = [s \in Servers |-> [l \in Locks |-> 0]]
    /\ mqDict = [s \in Servers |-> [u \in {} |-> NoName]]
    /\ mqFoers = <<>>
    /\ out = [p \in Procs |-> <<>>]
    /\ pname = [p \in Procs |-> IF p = Master THEN MasterNode ELSE NoName]

ServerNext ==
    \/ MasterStep
    \/ \E f \in Followers : FollowerStep(f)
    \/ \E s \in Servers : MqWrite(s)
=============================================================================
