----------------------------- MODULE MetaServer -----------------------------
(***************************************************************************)
(* The name server of project3 (nameserver.cc).  It keeps, for each file   *)
(* of metadata, an id (idmap) and under the id a location (files).  Every  *)
(* connection has a thread of its own, which reads one request after the   *)
(* other.  floc_lock guards both tables, but SendAllInfo does not take it, *)
(* and DeleteFile does not give it back when it finds nothing to delete.   *)
(*                                                                         *)
(* A connection is a queue of messages in each direction.  The threads of  *)
(* clients are in the modules that extend this one.                        *)
(***************************************************************************)
EXTENDS Integers, Sequences, FiniteSets, Functions

CONSTANTS
    Files,       \* names of files of metadata
    Conns,       \* connections to the name server, each with its thread
    Servers,     \* data servers
    Lengths,     \* lengths of files
    NoFile,      \* the file of a message that is about no file
    NoServer,    \* the place of a message that names none
    Nobody       \* holds a lock that is free

ASSUME MetaAssumption ==
    /\ NoFile \notin Files
    /\ NoServer \notin Servers
    /\ Nobody \notin Conns
    /\ Lengths \subseteq Nat

\* filelocation: an address is the data server at it.
Floc == [file : Files \cup {NoFile}, fd : Int, server : Servers \cup {NoServer},
         len : Nat]
NoFloc == [file |-> NoFile, fd |-> -1, server |-> NoServer, len |-> 0]

\* msgcontainer, with acluster.clusternum as num.
Msg == [type : {"FILELOCATION", "DELETEFILE", "ALLINFORMATION"}, floc : Floc,
        num : Nat]

VARIABLES
    idmap,          \* ids of files
    fileidcounter,  \* the next id
    files,          \* locations by id
    srvs,           \* data servers in the order they registered
    currentSvr,     \* index (from 0) of the server for the next file
    flocLock,       \* the connection whose thread took floc_lock
    nsAt,           \* where the thread of a connection is
    nsFloc,         \* its floc, and tmpFloc of SendAllInfo
    nsIt,           \* the id its iterator in SendAllInfo stands on
    toNs, toClient  \* messages on a connection, in each direction

tables == <<idmap, fileidcounter, files, srvs, currentSvr>>
threads == <<nsAt, nsFloc, nsIt>>
nsvars == <<tables, flocLock, threads, toNs, toClient>>

-----------------------------------------------------------------------------
Put(f, x, y) == [z \in DOMAIN f \cup {x} |-> IF z = x THEN y ELSE f[z]]
Without(f, x) == Restrict(f, DOMAIN f \ {x})

\* writemsg from the thread of c.
Write(c, m) == toClient' = [toClient EXCEPT ![c] = Append(@, m)]
Goto(c, place) == nsAt' = [nsAt EXCEPT ![c] = place]

\* The handler returns, and its local variables end.
Return(c) ==
    /\ Goto(c, "read")
    /\ nsFloc' = [nsFloc EXCEPT ![c] = NoFloc]
    /\ nsIt' = [nsIt EXCEPT ![c] = -1]

\* Where message_process takes a request.
HandlerOf(type) ==
    CASE type = "FILELOCATION" -> "find"
      [] type = "DELETEFILE" -> "delete"
      [] OTHER -> "count"

ReadRequest(c) ==
    /\ nsAt[c] = "read"
    /\ toNs[c] # <<>>
    /\ nsFloc' = [nsFloc EXCEPT ![c] = Head(toNs[c]).floc]
    /\ toNs' = [toNs EXCEPT ![c] = Tail(@)]
    /\ Goto(c, HandlerOf(Head(toNs[c]).type))
    /\ UNCHANGED <<tables, flocLock, nsIt, toClient>>

\* Mutant: floc_lock not taken.
NotLocked(c) == UNCHANGED flocLock

Locked(c) == flocLock = Nobody /\ flocLock' = c

\* The first statement of FindFile and of DeleteFile.  A thread that has the
\* lock already, as DeleteUnknown leaves it, waits for itself.
TakeLock(c) ==
    /\ nsAt[c] \in {"find", "delete"}
    /\ Locked(c)
    /\ Goto(c, IF nsAt[c] = "find" THEN "map" ELSE "unmap")
    /\ UNCHANGED <<tables, nsFloc, nsIt, toNs, toClient>>

-----------------------------------------------------------------------------
(* FindFile.                                                               *)

\* Mutant: ids of deleted files are used again.
IdByCount == Cardinality(DOMAIN idmap)

NewId == fileidcounter

\* The file gets its id, a new one if it has none.
MapFile(c) ==
    LET f == nsFloc[c].file IN
    /\ nsAt[c] = "map"
    /\ IF f \in DOMAIN idmap
       THEN UNCHANGED <<idmap, fileidcounter>>
       ELSE /\ idmap' = Put(idmap, f, NewId)
            /\ fileidcounter' = fileidcounter + 1
    /\ nsFloc' = [nsFloc EXCEPT ![c].fd = idmap'[f]]
    /\ Goto(c, "place")
    /\ UNCHANGED <<files, srvs, currentSvr, flocLock, nsIt, toNs, toClient>>

\* Mutant: the index runs over the end.
ServerAfter == currentSvr + 1

NextServer == (currentSvr + 1) % Len(srvs)

\* A file that has no location gets the current server, as soon as there is
\* one.  The length of a file that has a location stays what it was.
PlaceFile(c) ==
    LET id == nsFloc[c].fd IN
    /\ nsAt[c] = "place"
    /\ IF id \in DOMAIN files
       THEN UNCHANGED <<files, currentSvr>>
       ELSE /\ srvs # <<>>
            /\ files' = Put(files, id,
                            [nsFloc[c] EXCEPT !.server = srvs[currentSvr + 1]])
            /\ currentSvr' = NextServer
    /\ nsFloc' = [nsFloc EXCEPT ![c] = files'[id]]
    /\ flocLock' = Nobody
    /\ Goto(c, "found")
    /\ UNCHANGED <<idmap, fileidcounter, srvs, nsIt, toNs, toClient>>

Reply(c) == Write(c, [type |-> "FILELOCATION", floc |-> nsFloc[c], num |-> 0])

SendLocation(c) ==
    /\ nsAt[c] = "found"
    /\ Reply(c)
    /\ Return(c)
    /\ UNCHANGED <<tables, flocLock, toNs>>

-----------------------------------------------------------------------------
(* DeleteFile.  Nothing is answered.                                       *)

\* An unknown file: the function returns, and the lock stays taken.
DeleteUnknown(c) ==
    /\ nsAt[c] = "unmap"
    /\ nsFloc[c].file \notin DOMAIN idmap
    /\ Return(c)
    /\ UNCHANGED <<tables, flocLock, toNs, toClient>>

UnmapFile(c) ==
    LET f == nsFloc[c].file IN
    /\ nsAt[c] = "unmap"
    /\ f \in DOMAIN idmap
    /\ nsFloc' = [nsFloc EXCEPT ![c].fd = idmap[f]]
    /\ idmap' = Without(idmap, f)
    /\ Goto(c, "erase")
    /\ UNCHANGED <<fileidcounter, files, srvs, currentSvr, flocLock, nsIt, toNs,
                   toClient>>

\* Mutant: the location is kept.
NotErased(id) == files

Erased(id) == Without(files, id)

\* The location goes, and the lock with it; a missing one keeps the lock.
EraseFile(c) ==
    LET id == nsFloc[c].fd IN
    /\ nsAt[c] = "erase"
    /\ IF id \in DOMAIN files
       THEN files' = Erased(id) /\ flocLock' = Nobody
       ELSE UNCHANGED <<files, flocLock>>
    /\ Return(c)
    /\ UNCHANGED <<idmap, fileidcounter, srvs, currentSvr, toNs, toClient>>

-----------------------------------------------------------------------------
(* SendAllInfo, without the lock.                                          *)

\* The iterator of c moves on to one of the ids in S, the first, or to the
\* end, and the record it stands on is copied to tmpFloc.
Advance(c, S) ==
    \/ S = {} /\ Return(c)
    \/ \E id \in S :
          /\ \A other \in S : id <= other
          /\ nsIt' = [nsIt EXCEPT ![c] = id]
          /\ nsFloc' = [nsFloc EXCEPT ![c] = files[id]]
          /\ Goto(c, "send")

\* Mutant: one record fewer is announced.
CountOther == Cardinality(DOMAIN files \ {0})

ItemNum == Cardinality(DOMAIN files)

SendCount(c) ==
    /\ nsAt[c] = "count"
    /\ Write(c, [type |-> "ALLINFORMATION", floc |-> NoFloc, num |-> ItemNum])
    /\ Goto(c, "begin")
    /\ UNCHANGED <<tables, flocLock, nsFloc, nsIt, toNs>>

BeginWalk(c) ==
    /\ nsAt[c] = "begin"
    /\ Advance(c, DOMAIN files)
    /\ UNCHANGED <<tables, flocLock, toNs, toClient>>

SendRecord(c) ==
    /\ nsAt[c] = "send"
    /\ Reply(c)
    /\ Goto(c, "next")
    /\ UNCHANGED <<tables, flocLock, nsFloc, nsIt, toNs>>

\* ++it.  When its record was erased meanwhile, the iterator may get anywhere.
NextRecord(c) ==
    /\ nsAt[c] = "next"
    /\ IF nsIt[c] \in DOMAIN files
       THEN Advance(c, {id \in DOMAIN files : id > nsIt[c]})
       ELSE \E S \in {{}} \cup {{id} : id \in DOMAIN files} : Advance(c, S)
    /\ UNCHANGED <<tables, flocLock, toNs, toClient>>

-----------------------------------------------------------------------------
\* DSRegister, as far as it touches srvs.
RegisterServer(s) ==
    /\ s \notin Range(srvs)
    /\ srvs' = Append(srvs, s)
    /\ UNCHANGED <<idmap, fileidcounter, files, currentSvr, flocLock, threads,
                   toNs, toClient>>

\* message_process in the thread of c.
ThreadStep(c) ==
    \/ ReadRequest(c) \/ TakeLock(c)
    \/ MapFile(c) \/ PlaceFile(c) \/ SendLocation(c)
    \/ DeleteUnknown(c) \/ UnmapFile(c) \/ EraseFile(c)
    \/ SendCount(c) \/ BeginWalk(c) \/ SendRecord(c) \/ NextRecord(c)

NsStep ==
    \/ \E c \in Conns : ThreadStep(c)
    \/ \E s \in Servers : RegisterServer(s)

NsInit ==
    /\ idmap = <<>> /\ files = <<>>
    /\ fileidcounter = 0
    /\ srvs = <<>>
    /\ currentSvr = 0
    /\ flocLock = Nobody
    /\ nsAt = [c \in Conns |-> "read"]
    /\ nsFloc = [c \in Conns |-> NoFloc]
    /\ nsIt = [c \in Conns |-> -1]
    /\ toNs = [c \in Conns |-> <<>>]
    /\ toClient = [c \in Conns |-> <<>>]
=============================================================================
