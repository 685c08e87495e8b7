------------------------------- MODULE MetaDFS -------------------------------
(***************************************************************************)
(* Clients of project3 (miniDFS.cc, main.cc) with the name server they     *)
(* ask.  A user is a thread that runs main.cc's commands one after the     *)
(* other; threads that share a minidfs share its connection and take       *)
(* socket_lock for a request and its answer.                               *)
(*                                                                         *)
(* What follows an answer, the connection to the data server, changes      *)
(* nothing the name server knows.  Transfer is its end; MetaStore says what *)
(* happens there, and that it may end the whole program.                   *)
(***************************************************************************)
EXTENDS MetaServer

CONSTANTS
    Users,        \* threads that use a minidfs
    ConnOf,       \* the connection of each user's minidfs
    Commands,     \* the commands of main.cc they give
    MaxCommands   \* bound on the commands given in all

ASSUME UserAssumption ==
    /\ ConnOf \in [Users -> Conns]
    /\ Nobody \notin Users
    /\ Commands \subseteq {"touch", "stat", "rm", "cluster"}
    /\ 0 \notin Lengths
    /\ MaxCommands \in Nat

VARIABLES
    socketLock,   \* the user that has the socket_lock of a minidfs
    userAt,       \* where a user is
    command,      \* its command
    request,      \* the file and the length it asks about
    userFloc,     \* the location it was sent
    records,      \* records of a listing it still expects
    given         \* how many commands were given

uservars == <<socketLock, userAt, command, request, userFloc, records, given>>
vars == <<nsvars, uservars>>

-----------------------------------------------------------------------------
UserGoto(u, place) == userAt' = [userAt EXCEPT ![u] = place]
Release(u) == socketLock' = [socketLock EXCEPT ![ConnOf[u]] = Nobody]

\* The command is over, and its local variables with it.
Done(u) ==
    /\ UserGoto(u, "idle")
    /\ command' = [command EXCEPT ![u] = "none"]
    /\ request' = [request EXCEPT ![u] = NoFloc]
    /\ userFloc' = [userFloc EXCEPT ![u] = NoFloc]

\* A line of main.cc's client.  A file that is read is asked for with the
\* default length 0.
Give(u, cmd, f, n) ==
    /\ userAt[u] = "idle"
    /\ given < MaxCommands
    /\ cmd \in Commands
    /\ given' = given + 1
    /\ command' = [command EXCEPT ![u] = cmd]
    /\ request' = [request EXCEPT ![u] = [NoFloc EXCEPT !.file = f, !.len = n]]
    /\ UserGoto(u, "ask")
    /\ UNCHANGED <<nsvars, socketLock, userFloc, records>>

Command(u) ==
    \/ \E f \in Files, n \in Lengths : Give(u, "touch", f, n)
    \/ \E cmd \in {"stat", "rm"}, f \in Files : Give(u, cmd, f, 0)
    \/ Give(u, "cluster", NoFile, 0)

TypeOf(cmd) ==
    CASE cmd = "rm" -> "DELETEFILE"
      [] cmd = "cluster" -> "ALLINFORMATION"
      [] OTHER -> "FILELOCATION"

\* Mutant: the request is written without the lock.
NoSocketLock(u) == TRUE

SocketFree(u) == socketLock[ConnOf[u]] = Nobody

\* socket_lock is taken and the request written.  A deletion is not answered:
\* the lock goes back at once.
Ask(u) ==
    LET c == ConnOf[u]
        type == TypeOf(command[u]) IN
    /\ userAt[u] = "ask"
    /\ SocketFree(u)
    /\ toNs' = [toNs EXCEPT ![c] =
                   Append(@, [type |-> type, floc |-> request[u], num |-> 0])]
    /\ IF command[u] = "rm"
       THEN Done(u) /\ UNCHANGED socketLock
       ELSE /\ UserGoto(u, "wait")
            /\ socketLock' = [socketLock EXCEPT ![c] = u]
            /\ UNCHANGED <<command, request, userFloc>>
    /\ UNCHANGED <<tables, flocLock, threads, toClient, records, given>>

\* readmsg, whatever the message is.
Take(u) ==
    /\ toClient[ConnOf[u]] # <<>>
    /\ toClient' = [toClient EXCEPT ![ConnOf[u]] = Tail(@)]
    /\ UNCHANGED <<tables, flocLock, threads, toNs>>
Taken(u) == Head(toClient[ConnOf[u]])

\* RequireLocation returns the message; only a location is used.
TakeLocation(u) ==
    /\ userAt[u] = "wait"
    /\ command[u] \in {"touch", "stat"}
    /\ Take(u)
    /\ Release(u)
    /\ \/ /\ Taken(u).type = "FILELOCATION"
          /\ userFloc' = [userFloc EXCEPT ![u] = Taken(u).floc]
          /\ UserGoto(u, "transfer")
          /\ UNCHANGED <<command, request>>
       \/ Taken(u).type # "FILELOCATION" /\ Done(u)
    /\ UNCHANGED <<records, given>>

\* UploadFile or ReadFile is through with the data server it was told.
Transfer(u) ==
    /\ userAt[u] = "transfer"
    /\ Done(u)
    /\ UNCHANGED <<nsvars, socketLock, records, given>>

\* Mutant: GetClusterInfo waits for one record too many.
OneTooMany(u) == IF records[u] = 1 THEN 1 ELSE records[u] - 1

StillExpected(u) == records[u] - 1

\* The loop of GetClusterInfo ends, with the lock, when no record is left.
Listing(u, n) ==
    /\ records' = [records EXCEPT ![u] = n]
    /\ IF n = 0
       THEN Release(u) /\ Done(u)
       ELSE UserGoto(u, "list") /\ UNCHANGED <<socketLock, command, request, userFloc>>
    /\ UNCHANGED given

TakeCount(u) ==
    /\ userAt[u] = "wait"
    /\ command[u] = "cluster"
    /\ Take(u)
    /\ Listing(u, Taken(u).num)

TakeRecord(u) ==
    /\ userAt[u] = "list"
    /\ Take(u)
    /\ Listing(u, StillExpected(u))

UserStep(u) ==
    \/ Ask(u) \/ TakeLocation(u) \/ Transfer(u) \/ TakeCount(u) \/ TakeRecord(u)

-----------------------------------------------------------------------------
Init ==
    /\ NsInit
    /\ socketLock = [c \in Conns |-> Nobody]
    /\ userAt = [u \in Users |-> "idle"]
    /\ command = [u \in Users |-> "none"]
    /\ request = [u \in Users |-> NoFloc]
    /\ userFloc = [u \in Users |-> NoFloc]
    /\ records = [u \in Users |-> 0]
    /\ given = 0

Next ==
    \/ NsStep /\ UNCHANGED uservars
    \/ \E u \in Users : UserStep(u) \/ Command(u)

Spec == Init /\ [][Next]_vars

\* main.cc starts the client seconds after the data servers.
ServersReady == Range(srvs) = Servers
OrderedNext ==
    \/ NsStep /\ UNCHANGED uservars
    \/ \E u \in Users : UserStep(u) \/ (ServersReady /\ Command(u))
OrderedSpec == Init /\ [][OrderedNext]_vars

-----------------------------------------------------------------------------
TablesOK ==
    /\ DOMAIN idmap \subseteq Files /\ Range(idmap) \subseteq Nat
    /\ fileidcounter \in Nat
    /\ DOMAIN files \subseteq 0..(fileidcounter - 1)
    /\ Range(files) \subseteq Floc
    /\ srvs \in Seq(Servers)
    /\ currentSvr \in Nat /\ (currentSvr = 0 \/ currentSvr < Len(srvs))

ThreadsOK ==
    /\ flocLock \in Conns \cup {Nobody}
    /\ nsAt \in [Conns -> {"read", "find", "delete", "map", "place", "found",
                           "unmap", "erase", "count", "begin", "send", "next"}]
    /\ nsFloc \in [Conns -> Floc]
    /\ nsIt \in [Conns -> Int]
    /\ toNs \in [Conns -> Seq(Msg)]
    /\ toClient \in [Conns -> Seq(Msg)]

UsersOK ==
    /\ socketLock \in [Conns -> Users \cup {Nobody}]
    /\ userAt \in [Users -> {"idle", "ask", "wait", "transfer", "list"}]
    /\ command \in [Users -> {"none", "touch", "stat", "rm", "cluster"}]
    /\ request \in [Users -> Floc]
    /\ userFloc \in [Users -> Floc]
    /\ records \in [Users -> Nat]
    /\ given \in Nat

\* The tables of the name server, its threads and connections, and the users
\* have their types; ids on record were given out, and currentSvr is the index
\* of a server once there is one.
TypeOK == TablesOK /\ ThreadsOK /\ UsersOK

\* When no thread is changing the tables, idmap and files describe the same
\* files: FindFile and DeleteFile change them one after the other, in threads
\* that interleave, and DeleteFile returns without the second change.
TablesAgree ==
    flocLock = Nobody =>
        /\ Range(idmap) = DOMAIN files
        /\ \A f \in DOMAIN idmap : files[idmap[f]].file = f
        /\ \A f, g \in DOMAIN idmap : idmap[f] = idmap[g] => f = g

\* A deletion that found the id of its file finds the location as well, so the
\* second early return of DeleteFile, which would keep the lock too, is never
\* taken.
DeletionFindsPlace ==
    \A c \in Conns : nsAt[c] = "erase" => nsFloc[c].fd \in DOMAIN files

\* A client never names a file to a data server under an id that is on record
\* for another file, also when its own was deleted while the location was on
\* the way: the data server's name for the data is file and id together, so
\* what is stored under such a pair is under no name a later lookup gives, and
\* a read of it finds nothing.
NoForeignId ==
    \A u \in Users, f \in DOMAIN idmap :
        userAt[u] = "transfer" /\ idmap[f] = userFloc[u].fd => f = request[u].file

\* What a client reads from the connection answers its own request, although
\* threads share it and readmsg takes whatever comes: a location is that of
\* the file asked for (RequireLocation), a count comes before a listing and
\* only records come in it (GetClusterInfo).
AnswersFit ==
    \A u \in Users :
        toClient[ConnOf[u]] # <<>> =>
            LET m == Taken(u) IN
            /\ userAt[u] = "wait" /\ command[u] = "cluster" =>
                   m.type = "ALLINFORMATION"
            /\ userAt[u] = "wait" /\ command[u] # "cluster" =>
                   m.type = "FILELOCATION" /\ m.floc.file = request[u].file
            /\ userAt[u] = "list" => m.type = "FILELOCATION"

\* When no user waits for an answer on a connection, none is left there to be
\* taken for the answer to the next request: GetClusterInfo reads as many
\* records as SendAllInfo sends.
NothingLeft ==
    \A c \in Conns : socketLock[c] = Nobody => toClient[c] = <<>>

\* Files are dealt to the data servers in turn, in the order of their ids,
\* whatever threads ask for them: the id and the server are taken under one
\* lock.
RoundRobin ==
    \A id \in DOMAIN files : files[id].server = srvs[(id % Len(srvs)) + 1]
=============================================================================
