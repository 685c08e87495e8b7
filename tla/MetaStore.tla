------------------------------ MODULE MetaStore ------------------------------
(***************************************************************************)
(* What the clients of project3 do at the data server they were told       *)
(* (UploadFile and ReadFile of miniDFS.cc, message_process_getdata of      *)
(* dataserver.cc), on top of MetaDFS.                                      *)
(*                                                                         *)
(* A data server keeps what it is sent in a file named after the file and  *)
(* its id.  An upload is not answered.  A read of a file that is not there *)
(* calls exit(0), and since main.cc runs the name server, all data servers *)
(* and the client as threads of one program, that is the end of them all.  *)
(*                                                                         *)
(* The directories are empty at first.  The copies a data server passes to *)
(* its neighbours are left out: they are in directories of their own, and  *)
(* a reader is told the server the file was placed on.  So is the moment   *)
(* in which a file that is stored once more is truncated.                  *)
(***************************************************************************)
EXTENDS MetaInv

VARIABLES
    uploads,   \* files on their way to a data server
    disks,     \* files in the directory of each data server
    reading,   \* users who have asked a data server for a file
    running    \* nobody has called exit

storeVars == <<uploads, disks, reading, running>>
allVars == <<vars, storeVars>>

\* segmentFileName.
Segment(u) == <<request[u].file, userFloc[u].fd>>

-----------------------------------------------------------------------------
\* UploadFile: FILEWRITE and the data are sent, and the command is over.
Upload(u) ==
    /\ command[u] = "touch"
    /\ Transfer(u)
    /\ uploads' = uploads \cup {[at |-> userFloc[u].server, seg |-> Segment(u)]}
    /\ UNCHANGED <<disks, reading, running>>

\* A thread of the data server has read all of it (saveToLocalFile).
StoreSegment(x) ==
    /\ disks' = [disks EXCEPT ![x.at] = @ \cup {x.seg}]
    /\ uploads' = uploads \ {x}
    /\ UNCHANGED <<vars, reading, running>>

\* ReadFile: FILEREAD is sent.
AskData(u) ==
    /\ userAt[u] = "transfer"
    /\ command[u] = "stat"
    /\ u \notin reading
    /\ reading' = reading \cup {u}
    /\ UNCHANGED <<vars, uploads, disks, running>>

\* readLocalFile opens the file, or it cannot.
Stored(u) == Segment(u) \in disks[userFloc[u].server]

SendData(u) ==
    /\ u \in reading
    /\ Stored(u)
    /\ Transfer(u)
    /\ reading' = reading \ {u}
    /\ UNCHANGED <<uploads, disks, running>>

FileMissing(u) ==
    /\ u \in reading
    /\ ~Stored(u)
    /\ running' = FALSE
    /\ UNCHANGED <<vars, uploads, disks, reading>>

\* UserStep with Transfer as it is here.
StoreUserStep(u) ==
    \/ (Ask(u) \/ TakeLocation(u) \/ TakeCount(u) \/ TakeRecord(u)) /\ UNCHANGED storeVars
    \/ Upload(u) \/ AskData(u) \/ SendData(u) \/ FileMissing(u)

-----------------------------------------------------------------------------
StoreInit ==
    /\ Init
    /\ uploads = {}
    /\ disks = [s \in Servers |-> {}]
    /\ reading = {}
    /\ running = TRUE

StoreNext ==
    /\ running
    /\ \/ NsStep /\ UNCHANGED <<uservars, storeVars>>
       \/ \E u \in Users : StoreUserStep(u) \/ (Command(u) /\ UNCHANGED storeVars)
       \/ \E x \in uploads : StoreSegment(x)

StoreSpec == StoreInit /\ [][StoreNext]_allVars

\* Threads run as long as the program does, and a thread that waits for a mutex
\* which is unlocked time and again gets it.  The data servers start by
\* themselves, and what was sent to one arrives.
NsRuns(step) == running /\ step /\ UNCHANGED <<uservars, storeVars>>
Fairness ==
    /\ \A c \in Conns : WF_allVars(NsRuns(ThreadStep(c))) /\ SF_allVars(NsRuns(TakeLock(c)))
    /\ \A s \in Servers : WF_allVars(NsRuns(RegisterServer(s)))
    /\ \A u \in Users :
          /\ WF_allVars(running /\ StoreUserStep(u))
          /\ SF_allVars(running /\ Ask(u) /\ UNCHANGED storeVars)
    /\ WF_allVars(running /\ \E x \in uploads : StoreSegment(x))
LiveSpec == StoreSpec /\ Fairness

-----------------------------------------------------------------------------
(* Who knows which server an id was placed on: the name server, its        *)
(* threads, answers on the way, clients, and the data servers by what they *)
(* were sent.                                                              *)
RecordedPlaces == {PlaceOf(files[id]) : id \in DOMAIN files}

ThreadPlaces ==
    {PlaceOf(nsFloc[c]) : c \in {d \in Conns : nsAt[d] \in {"found", "send", "next"}}}

AnswersTo(c) ==
    {i \in 1..Len(toClient[c]) : toClient[c][i].type = "FILELOCATION"}
AnswerPlaces ==
    UNION {{PlaceOf(toClient[c][i].floc) : i \in AnswersTo(c)} : c \in Conns}

UserPlaces == {PlaceOf(userFloc[u]) : u \in {v \in Users : userAt[v] = "transfer"}}

UploadPlaces == {[fd |-> x.seg[2], server |-> x.at] : x \in uploads}
DiskPlaces ==
    UNION {{[fd |-> seg[2], server |-> s] : seg \in disks[s]} : s \in Servers}

KnownPlaces ==
    RecordedPlaces \cup ThreadPlaces \cup AnswerPlaces \cup UserPlaces
        \cup UploadPlaces \cup DiskPlaces

\* An id stands for one server for ever, and the next one is not yet known: so
\* a location that is out of date is of an id that no file has any more.
StoreInv ==
    /\ DOMAIN disks = Servers
    /\ \A p \in KnownPlaces : p.fd \in Int /\ p.fd < IdsGiven
    /\ \A p, q \in KnownPlaces : p.fd = q.fd => p.server = q.server

-----------------------------------------------------------------------------
\* Wherever data of a file was ever sent or stored under an id, whoever is told
\* that file and id is told the same server, although the file may have been
\* deleted, given a new id and placed elsewhere while the location, the upload
\* or the read was on the way: ReadFile ends the program only if nothing was
\* stored.
ReadsWhereStored ==
    \A u \in Users, s \in Servers :
        /\ userAt[u] = "transfer"
        /\ Segment(u) \in disks[s] \cup {x.seg : x \in {y \in uploads : y.at = s}}
        => s = userFloc[u].server

\* Every command ends, or has ended the program: the name server answers, and a
\* listing has as many records as announced.
CommandsEnd == \A u \in Users : userAt[u] # "idle" ~> userAt[u] = "idle" \/ ~running
=============================================================================
