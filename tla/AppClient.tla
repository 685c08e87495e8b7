------------------------------ MODULE AppClient ------------------------------
(***************************************************************************)
(* The interactive clients of the lock service (client.cpp) and what the   *)
(* servers do only for them.                                               *)
(*                                                                         *)
(* main registers as the Dlock constructor does; app_run then forks.  The  *)
(* parent writes one message for every command that is typed and waits for *)
(* no answer; the child reads and prints the answers.  quit sends an       *)
(* UNREGISTER, on which the master erases the client's locks and its       *)
(* queue's record and publishes its name again.                            *)
(*                                                                         *)
(* The lock table and the queues are those of LockServer, the connection   *)
(* is that of Dlock.  held are the locks the user may count on: printed as *)
(* owned, and no release typed since the request.                          *)
(***************************************************************************)
EXTENDS Dlock

CONSTANT MaxCommands    \* commands a user types before quit

ASSUME AppAssumption == MaxCommands \in Nat

VARIABLES
    asked,   \* commands of each client whose answer is not printed yet
    typed    \* how many commands each user has typed

appVars == <<vars, asked, typed>>

\* app_run's own msg: type, uuid and lock are written, name and server never
\* are.  What is on the stack there names no queue of the service.
AppMsg(c, t, l) ==
    [type |-> t, ctype |-> "CLIENT", uuid |-> cmsg[c].uuid,
     name |-> NoName, server |-> NoName, lock |-> l]

-----------------------------------------------------------------------------
(* The client.                                                             *)

\* main up to the ACK.  A client that drew a name that names no queue waits
\* for its ACK for ever.
AppConnect(c) ==
    /\ LookupServer(c) \/ LookupName(c) \/ (pname[c] # NoName /\ RecvAck(c))
    /\ UNCHANGED <<asked, typed>>

\* The parent's loop goes on: the last command is written, quit not typed.
Prompt(c) == cstate[c] = "idle" /\ out[c] = <<>>

\* A follower takes the queue of the answer to an inquiry from the message's
\* name, so an inquiry made through one is never answered.
Answered(c, t) == t # "LOCK_INQUIRY" \/ cmsg[c].server = MasterNode

\* req, release and inquire.
Command(c, t, l) ==
    /\ Prompt(c)
    /\ typed[c] < MaxCommands
    /\ typed' = [typed EXCEPT ![c] = @ + 1]
    /\ out' = [out EXCEPT ![c] = <<Send(cmsg[c].server, AppMsg(c, t, l))>>]
    /\ asked' = IF Answered(c, t)
                  THEN [asked EXCEPT ![c] = Append(@, [type |-> t, lock |-> l])]
                  ELSE asked
    /\ held' = IF t = "LOCK_RELEASE" THEN [held EXCEPT ![c] = @ \ {l}] ELSE held
    /\ UNCHANGED <<queue, freeNames, serverNames, nextName, nextUuid, lockDict,
                   mqDict, mqFoers, pname, cstate, cmsg>>

\* The child prints the next answer.
Printed(c) ==
    /\ cstate[c] \in {"idle", "quitting"}
    /\ queue[pname[c]] # <<>>
    /\ LET m == Answer(c)
           later == Tail(asked[c])
       IN  /\ asked' = [asked EXCEPT ![c] = later]
           /\ held' = IF /\ m.type = "LOCK_GRANT"
                         /\ cstate[c] = "idle"
                         /\ [type |-> "LOCK_RELEASE", lock |-> m.lock]
                              \notin {later[i] : i \in 1..Len(later)}
                        THEN [held EXCEPT ![c] = @ \cup {m.lock}]
                        ELSE held
    /\ queue' = [queue EXCEPT ![pname[c]] = Tail(@)]
    /\ UNCHANGED <<freeNames, serverNames, nextName, nextUuid, lockDict, mqDict,
                   mqFoers, out, pname, cstate, cmsg, typed>>

\* quit: the UNREGISTER.  Its lock field is the second word that was typed,
\* which nobody reads.
Quit(c) ==
    /\ Prompt(c)
    /\ cstate' = [cstate EXCEPT ![c] = "quitting"]
    /\ out' = [out EXCEPT ![c] =
                 <<Send(cmsg[c].server, AppMsg(c, "UNREGISTER", NoLock))>>]
    /\ held' = [held EXCEPT ![c] = {}]
    /\ UNCHANGED <<queue, freeNames, serverNames, nextName, nextUuid, lockDict,
                   mqDict, mqFoers, pname, cmsg, asked, typed>>

\* The child is killed and the queue removed, once the UNREGISTER is written.
CloseAfterQuit(c) ==
    /\ cstate[c] = "quitting"
    /\ out[c] = <<>>
    /\ cstate' = [cstate EXCEPT ![c] = "closed"]
    /\ queue' = [n \in DOMAIN queue \ {pname[c]} |-> queue[n]]
    /\ UNCHANGED <<freeNames, serverNames, nextName, nextUuid, lockDict, mqDict,
                   mqFoers, out, pname, cmsg, held, asked, typed>>

\* The end of the input, or SIGINT at the prompt: the queue is removed and
\* nobody is told.
EndOfInput(c) == Prompt(c) /\ Close(c) /\ UNCHANGED <<asked, typed>>

AppStep(c) ==
    \/ AppConnect(c)
    \/ \E t \in Calls, l \in Locks : Command(c, t, l)
    \/ Printed(c)
    \/ Quit(c)
    \/ CloseAfterQuit(c)
    \/ EndOfInput(c)

-----------------------------------------------------------------------------
(* UNREGISTER at the servers.                                              *)

\* Mutant: whosever the records are.
WalksOfAll(u) == {o \in Orders(HeldLocks) : HeldLocks # {}}

\* client_unregister erases from the map it walks and then steps on from the
\* erased node.  What follows the first erasure is undefined: the walk may
\* reach the other records or end early (a crash is a master that makes no
\* further step).
Walks(u) ==
    LET mine == {l \in Locks : lockDict[Master][l] = u}
    IN  UNION {Orders(S) : S \in SUBSET mine \ IF mine = {} THEN {} ELSE {{}}}

\* What is written for the erased records: LOCK_DELETE goes into the payload,
\* so the followers get one more UNREGISTER each.
DeleteMsgs(m, walk) ==
    [k \in 1..(Len(walk) * Len(mqFoers)) |->
        Send(mqFoers[((k - 1) % Len(mqFoers)) + 1],
             [m EXCEPT !.ctype = "LOCK_DELETE",
                       !.lock = walk[((k - 1) \div Len(mqFoers)) + 1]])]

\* mq_dict.erase(uuid).
Dropped(s, u) ==
    [mqDict EXCEPT ![s] = [x \in DOMAIN @ \ {u} |-> @[x]]]

\* client_unregister, up to publish_name(ns_id, p->name), which is written
\* after the followers' messages.
MasterUnregister ==
    LET m == Received(Master)
    IN  /\ HasMsg(Master)
        /\ m.type = "UNREGISTER"
        /\ queue' = Popped(Master)
        /\ \E walk \in Walks(m.uuid) :
              /\ lockDict' = [lockDict EXCEPT ![Master] =
                    [l \in Locks |->
                        IF l \in {walk[i] : i \in 1..Len(walk)} THEN 0 ELSE @[l]]]
              /\ out' = [out EXCEPT ![Master] =
                    Append(DeleteMsgs(m, walk),
                           Send(DnsNode, [m EXCEPT !.type = "FREE_NAME"]))]
        /\ mqDict' = Dropped(Master, m.uuid)
        /\ UNCHANGED <<freeNames, serverNames, nextName, nextUuid, mqFoers,
                       pname>>

\* publish_name(mq, name) reaches the DNS queue.
PublishReturned ==
    /\ out[Master] # <<>>
    /\ Head(out[Master]).msg.type = "FREE_NAME"
    /\ freeNames' = Append(freeNames, Head(out[Master]).msg.name)
    /\ out' = [out EXCEPT ![Master] = Tail(@)]
    /\ UNCHANGED <<queue, serverNames, nextName, nextUuid, lockDict, mqDict,
                   mqFoers, pname>>

\* remove_client_in_record, and on into the forwarding of a REGISTER.
FollowerUnregister(f) ==
    LET m == Received(f)
    IN  /\ HasMsg(f)
        /\ m.type = "UNREGISTER"
        /\ queue' = Popped(f)
        /\ mqDict' = Dropped(f, m.uuid)
        /\ out' = [out EXCEPT ![f] = Forwarded(m)]
        /\ UNCHANGED <<freeNames, serverNames, nextName, nextUuid, lockDict,
                       mqFoers, pname>>

Writes(p) ==
    MqWrite(p) /\ Head(out[p]).msg.type # "FREE_NAME"

AppServerNext ==
    \/ MasterStep
    \/ MasterUnregister
    \/ PublishReturned
    \/ \E f \in Followers : FollowerStep(f) \/ FollowerUnregister(f)
    \/ \E s \in Servers : Writes(s)

-----------------------------------------------------------------------------
AppInit ==
    /\ Init
    /\ asked = [c \in Clients |-> <<>>]
    /\ typed = [c \in Clients |-> 0]

AppNext ==
    \/ AppServerNext /\ UNCHANGED <<cstate, cmsg, held, asked, typed>>
    \/ \E c \in Clients :
          \/ AppStep(c)
          \/ Writes(c) /\ UNCHANGED <<cstate, cmsg, held, asked, typed>>

AppSpec == AppInit /\ [][AppNext]_appVars

-----------------------------------------------------------------------------
\* However many commands are typed before the first answer is printed, the
\* answers come in the order of the commands: the next message in a client's
\* queue answers the oldest command that has none, about its lock, under the
\* client's uuid (app_run's child prints an answer without knowing which
\* command it belongs to).
AnswersInOrder ==
    \A c \in Clients :
        cstate[c] = "idle" /\ queue[pname[c]] # <<>> =>
            /\ asked[c] # <<>>
            /\ Answer(c).type \in Answers[Head(asked[c]).type]
            /\ Answer(c).lock = Head(asked[c]).lock
            /\ Answer(c).uuid = cmsg[c].uuid

\* A server only ever retries its write to a client's removed queue for ever
\* (mq_write) if that client left with an answer outstanding: whoever quits
\* after the last answer is never written to again, by any server, however its
\* commands and its UNREGISTER were forwarded (client_unregister,
\* message2master).
SpinsOnlyForUnanswered ==
    \A s \in Servers : \A i \in 1..Len(out[s]) :
        LET w == out[s][i] IN
        w.to \notin DOMAIN queue \cup {DnsNode, NoName} =>
            \E c \in Clients :
                /\ cmsg[c].uuid = w.msg.uuid
                /\ cstate[c] = "closed"
                /\ asked[c] # <<>>
=============================================================================
