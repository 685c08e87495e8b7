------------------------------- MODULE DSRing -------------------------------
(***************************************************************************)
(* Data servers of project2 and project3 join the ring of neighbours:      *)
(* DSRegister of the name server, in a thread per data server, and         *)
(* updateMyNeighbors of the data servers.  DSRegister takes no lock.       *)
(*                                                                         *)
(* push_back is one step here.  When two threads push at once the vector   *)
(* may also lose an entry; the runs in which registrations overlap show    *)
(* that the ring breaks even when it does not.                             *)
(***************************************************************************)
EXTENDS Integers, Sequences, FiniteSets

CONSTANTS Servers, NoServer

VARIABLES
    srvs,     \* the name server's vector, in the order of registration
    nsAt,     \* where the thread of a data server's connection is
    toDs,     \* DATASERVERINFO messages on the way to each data server
    front,    \* fDataServer of each data server, NoServer if it has none
    behind    \* eDataServer

vars == <<srvs, nsAt, toDs, front, behind>>

\* dataserverinfo: a field that is not set is NoServer.
Info == [f : Servers \cup {NoServer}, e : Servers \cup {NoServer}]

Init ==
    /\ srvs = <<>>
    /\ nsAt = [s \in Servers |-> "off"]
    /\ toDs = [s \in Servers |-> <<>>]
    /\ front = [s \in Servers |-> NoServer]
    /\ behind = [s \in Servers |-> NoServer]

Goto(s, place) == nsAt' = [nsAt EXCEPT ![s] = place]
Write(s, m) == toDs' = [toDs EXCEPT ![s] = Append(@, m)]

\* The data server s connects and sends its registration.
Register(s) ==
    /\ nsAt[s] = "off"
    /\ Goto(s, "push")
    /\ UNCHANGED <<srvs, toDs, front, behind>>

Pushed(s) == Append(srvs, s)

PushBack(s) ==
    /\ nsAt[s] = "push"
    /\ srvs' = Pushed(s)
    /\ Goto(s, "new")
    /\ UNCHANGED <<toDs, front, behind>>

\* Mutant: the last entry, which is the new server itself.
JustAdded == srvs[Len(srvs)]

\* srvs[srvs.size() - 2], whoever has been added since.
LastBut1 == srvs[Len(srvs) - 1]

TellNew(s) ==
    /\ nsAt[s] = "new"
    /\ \/ /\ Len(srvs) < 2
          /\ Goto(s, "done")
          /\ UNCHANGED toDs
       \/ /\ Len(srvs) >= 2
          /\ Write(s, [f |-> LastBut1, e |-> srvs[1]])
          /\ Goto(s, "front")
    /\ UNCHANGED <<srvs, front, behind>>

TellFront(s) ==
    /\ nsAt[s] = "front"
    /\ Write(LastBut1, [f |-> NoServer, e |-> s])
    /\ Goto(s, "first")
    /\ UNCHANGED <<srvs, front, behind>>

ToFirst(s) == Write(srvs[1], [f |-> s, e |-> NoServer])

TellFirst(s) ==
    /\ nsAt[s] = "first"
    /\ ToFirst(s)
    /\ Goto(s, "done")
    /\ UNCHANGED <<srvs, front, behind>>

\* Mutant: whether the field is set is not tested.
Overwritten(old, field) == field

\* A field that is set replaces the neighbour.
Updated(old, field) == IF field = NoServer THEN old ELSE field

UpdateMyNeighbors(s) ==
    /\ toDs[s] # <<>>
    /\ front' = [front EXCEPT ![s] = Updated(@, Head(toDs[s]).f)]
    /\ behind' = [behind EXCEPT ![s] = Updated(@, Head(toDs[s]).e)]
    /\ toDs' = [toDs EXCEPT ![s] = Tail(@)]
    /\ UNCHANGED <<srvs, nsAt>>

DSRegister(s) == PushBack(s) \/ TellNew(s) \/ TellFront(s) \/ TellFirst(s)

Next ==
    \E s \in Servers : Register(s) \/ DSRegister(s) \/ UpdateMyNeighbors(s)

\* All data servers register at any time, as main.cc starts them.
Spec == Init /\ [][Next]_vars

\* A data server is started when the name server is done with the others; the
\* messages to data servers may still be on the way.
Idle == \A s \in Servers : nsAt[s] \in {"off", "done"}
SerialNext ==
    \E s \in Servers :
        (Idle /\ Register(s)) \/ DSRegister(s) \/ UpdateMyNeighbors(s)
SerialSpec == Init /\ [][SerialNext]_vars

-----------------------------------------------------------------------------
\* A server is in the vector srvs at most once; neighbours are servers.
TypeOK ==
    /\ srvs \in Seq(Servers)
    /\ \A i, j \in 1..Len(srvs) : srvs[i] = srvs[j] => i = j
    /\ nsAt \in [Servers -> {"off", "push", "new", "front", "first", "done"}]
    /\ toDs \in [Servers -> Seq(Info)]
    /\ front \in [Servers -> Servers \cup {NoServer}]
    /\ behind \in [Servers -> Servers \cup {NoServer}]

Settled == Idle /\ \A s \in Servers : toDs[s] = <<>>

\* Once all messages have arrived, the neighbours of the data servers form a
\* ring in the order of registration: the messages of several DSRegister calls
\* to one server each update what is to change, and in the order of the calls.
RingClosed ==
    Settled /\ Len(srvs) >= 2 =>
        \A i \in 1..Len(srvs) :
            LET next == (i % Len(srvs)) + 1 IN
            /\ behind[srvs[i]] = srvs[next]
            /\ front[srvs[next]] = srvs[i]

\* The ring changes only where the new server goes in: updateMyNeighbors gives a
\* server other than the first a front neighbour only once, and a neighbour
\* behind that is the first server or the one registered after it, so that
\* copies passed to the neighbours stay where they are expected.
NeighboursStay ==
    [][\A s \in Servers :
          /\ front[s] # NoServer /\ s # srvs[1] => front'[s] = front[s]
          /\ behind'[s] # behind[s] =>
                \/ behind'[s] = srvs[1]
                \/ \E i \in 1..(Len(srvs) - 1) :
                       s = srvs[i] /\ behind'[s] = srvs[i + 1]]_vars
=============================================================================
