------------------------------- MODULE MetaInv -------------------------------
(***************************************************************************)
(* The inductive invariants behind the metadata name server: how idmap and *)
(* files differ while a thread that has floc_lock is between its changes   *)
(* to the one and to the other, and what is on a connection while a user   *)
(* has its socket_lock.                                                    *)
(***************************************************************************)
EXTENDS MetaTable

\* Places of a thread that has taken floc_lock and not yet given it back, and
\* those where its floc names a file.
InLock == {"map", "place", "unmap", "erase"}
AboutFile == InLock \cup {"find", "delete"}

\* Requests other than for a listing are about a file.
RequestInv ==
    /\ \A c \in Conns : \A i \in 1..Len(toNs[c]) :
          toNs[c][i].type # "ALLINFORMATION" => toNs[c][i].floc.file \in Files
    /\ \A c \in Conns : nsAt[c] \in AboutFile => nsFloc[c].file \in Files
    /\ \A u \in Users :
          userAt[u] = "ask" /\ command[u] # "cluster" => request[u].file \in Files
    /\ \A u \in Users : userAt[u] = "list" => records[u] > 0

\* Ids that are used were given out.
IdInv ==
    /\ \A f \in DOMAIN idmap : idmap[f] < fileidcounter
    /\ \A c \in Conns : nsAt[c] = "place" =>
          nsFloc[c].fd >= 0 /\ nsFloc[c].fd < fileidcounter

TypeInv == TypeOK /\ RequestInv /\ IdInv

-----------------------------------------------------------------------------
\* Only one thread is between taking and releasing the lock.
LockInv == \A c \in Conns : nsAt[c] \in InLock => flocLock = c

\* The thread at c is about to give the file f a place, or has unmapped the
\* id and is about to erase its place.
Placing(c, f) ==
    /\ nsAt[c] = "place"
    /\ nsFloc[c].file = f
    /\ f \in DOMAIN idmap
    /\ nsFloc[c].fd = idmap[f]
Erasing(c, id) == nsAt[c] = "erase" /\ nsFloc[c].fd = id

\* idmap and files agree but for what the thread in the lock has to do.
TableInv ==
    /\ \A f, g \in DOMAIN idmap : idmap[f] = idmap[g] => f = g
    /\ \A f \in DOMAIN idmap :
          \/ idmap[f] \in DOMAIN files /\ files[idmap[f]].file = f
          \/ /\ idmap[f] \notin DOMAIN files
             /\ \E c \in Conns : Placing(c, f)
    /\ \A id \in DOMAIN files :
          \/ \E f \in DOMAIN idmap : idmap[f] = id
          \/ \E c \in Conns : Erasing(c, id)
    /\ \A c \in Conns : nsAt[c] = "place" => Placing(c, nsFloc[c].file)
    /\ \A c \in Conns : nsAt[c] = "erase" =>
          /\ nsFloc[c].fd \in DOMAIN files
          /\ \A f \in DOMAIN idmap : idmap[f] # nsFloc[c].fd

\* The invariant the proofs about the tables rest on.  It says how far
\* FindFile and DeleteFile may leave idmap and files apart inside the lock.
MetaInvariant == TypeInv /\ LockInv /\ TableInv
-----------------------------------------------------------------------------
\* A location is recorded under its own id, and the id of a file that has no
\* location yet is the last one given out.
PlaceInv ==
    /\ \A id \in DOMAIN files : files[id].fd = id
    /\ \A c \in Conns : nsAt[c] = "place" /\ nsFloc[c].fd \notin DOMAIN files =>
           nsFloc[c].fd = fileidcounter - 1

\* Nobody asked anything yet.
Untouched ==
    /\ \A u \in Users : userAt[u] = "idle"
    /\ \A c \in Conns : nsAt[c] = "read" /\ toNs[c] = <<>>
    /\ DOMAIN files = {} /\ DOMAIN idmap = {} /\ fileidcounter = 0

\* PlaceFile deals the files to the servers in the order of the ids (the index
\* follows the ids), since no file comes before the servers do.
TurnInv ==
    /\ srvs # <<>> => currentSvr = IdsGiven % Len(srvs)
    /\ RoundRobin
    /\ ServersReady \/ Untouched

-----------------------------------------------------------------------------
Locating == {"find", "map", "place", "found"}
ListPlaces == {"count", "begin", "send", "next"}

\* Users and the socket_lock they take, and their commands.
SocketInv ==
    /\ \A c \in Conns : socketLock[c] # Nobody =>
           ConnOf[socketLock[c]] = c /\ userAt[socketLock[c]] \in {"wait", "list"}
    /\ \A u \in Users :
           /\ userAt[u] \in {"wait", "list"} => socketLock[ConnOf[u]] = u
           /\ userAt[u] # "idle" => command[u] \in Commands
           /\ userAt[u] = "wait" => command[u] # "rm"
           /\ userAt[u] = "list" => command[u] = "cluster"
           /\ userAt[u] = "transfer" => command[u] \in {"touch", "stat"}
           /\ command[u] \in {"touch", "stat"} => request[u].file \in Files

\* The ids of the records the thread of c has yet to send.
Ahead(c) ==
    CASE nsAt[c] = "begin" -> DOMAIN files
      [] nsAt[c] = "send" -> {id \in DOMAIN files : id >= nsIt[c]}
      [] nsAt[c] = "next" -> {id \in DOMAIN files : id > nsIt[c]}
      [] OTHER -> {}

\* The thread of c will write nothing before it has read another request.
Resting(c) ==
    /\ nsAt[c] \in {"read", "delete", "unmap", "erase", "begin", "next"}
    /\ Ahead(c) = {}

\* The location m was given to its file, and its id is not another file's now.
OwnId(m) ==
    /\ m.fd < fileidcounter
    /\ \A f \in DOMAIN idmap : idmap[f] = m.fd => f = m.file

\* What is on the connection c when none of its users waits.
Quiet(c) ==
    /\ Resting(c)
    /\ toClient[c] = <<>>
    /\ \A i \in 1..Len(toNs[c]) : toNs[c][i].type = "DELETEFILE"

\* The request of u is on the connection, behind deletions.
Asking(u, c) ==
    /\ userAt[u] = "wait"
    /\ Resting(c)
    /\ toClient[c] = <<>>
    /\ toNs[c] # <<>>
    /\ LET n == Len(toNs[c]) IN
       /\ toNs[c][n].type = TypeOf(command[u])
       /\ toNs[c][n].floc.file = request[u].file
       /\ \A i \in 1..n : i # n => toNs[c][i].type = "DELETEFILE"

\* FindFile runs for u.
Finding(u, c) ==
    /\ userAt[u] = "wait" /\ command[u] # "cluster"
    /\ toNs[c] = <<>> /\ toClient[c] = <<>>
    /\ nsAt[c] \in Locating
    /\ nsFloc[c].file = request[u].file
    /\ nsAt[c] = "found" => OwnId(nsFloc[c])

\* The answer to u is on the connection.
Answered(u, c) ==
    /\ userAt[u] = "wait" /\ command[u] # "cluster"
    /\ toNs[c] = <<>>
    /\ nsAt[c] = "read"
    /\ Len(toClient[c]) = 1
    /\ toClient[c][1].type = "FILELOCATION"
    /\ toClient[c][1].floc.file = request[u].file
    /\ OwnId(toClient[c][1].floc)

\* SendAllInfo runs or ran for u: the records on the connection and those the
\* thread will send are as many as u expects or is about to be told.
Listed(u, c) ==
    /\ command[u] = "cluster"
    /\ toNs[c] = <<>>
    /\ \/ userAt[u] = "wait" /\ nsAt[c] = "count" /\ toClient[c] = <<>>
       \/ /\ userAt[u] = "wait"
          /\ nsAt[c] \in {"read", "begin", "send", "next"}
          /\ toClient[c] # <<>>
          /\ toClient[c][1].type = "ALLINFORMATION"
          /\ toClient[c][1].num = Len(toClient[c]) - 1 + Cardinality(Ahead(c))
          /\ \A i \in 1..Len(toClient[c]) :
                 i # 1 => toClient[c][i].type = "FILELOCATION"
       \/ /\ userAt[u] = "list"
          /\ nsAt[c] \in {"read", "begin", "send", "next"}
          /\ records[u] = Len(toClient[c]) + Cardinality(Ahead(c))
          /\ \A i \in 1..Len(toClient[c]) : toClient[c][i].type = "FILELOCATION"

Talk(c) ==
    IF socketLock[c] = Nobody THEN Quiet(c)
    ELSE LET u == socketLock[c] IN
         Asking(u, c) \/ Finding(u, c) \/ Answered(u, c) \/ Listed(u, c)

\* A listing is only asked for if there is one connection, or never.
ListingsAlone == "cluster" \in Commands => \A c, d \in Conns : c = d

\* What is on the connections, and what users make of it: between a request and
\* its answer there is nothing that is not part of them.
TalkInv ==
    /\ SocketInv
    /\ \A c \in Conns : Talk(c)
    /\ \A c \in Conns : nsAt[c] \in ListPlaces => "cluster" \in Commands
    /\ \A c \in Conns : nsAt[c] \in {"send", "next"} => nsIt[c] \in DOMAIN files
    /\ \A u \in Users : userAt[u] = "transfer" =>
           userFloc[u].file = request[u].file /\ OwnId(userFloc[u])
=============================================================================
