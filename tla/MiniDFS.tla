------------------------------ MODULE MiniDFS ------------------------------
(***************************************************************************)
(* miniDFS (project2): clients cut files into segments and upload them,    *)
(* the name server gives every segment a data server, and a data server    *)
(* stores what a client sends and passes it to its neighbours of the ring  *)
(* of DSRing, one after the other.  A data server has a thread for every   *)
(* connection; here the threads that store a segment are tasks.  The data  *)
(* server of project3 is the same with one segment per file.               *)
(*                                                                         *)
(* A byte of a file is the file and its position; a byte of a buffer that  *)
(* was not filled is Zero.  Two system calls that other threads can see    *)
(* between are two steps: a file is emptied when it is opened for writing. *)
(***************************************************************************)
EXTENDS Integers, Sequences, FiniteSets

CONSTANTS
    Servers,     \* the data servers, numbered as main.cc starts them
    NoServer,
    Clients,     \* each has a file of its own, named as the client
    FileLen,     \* the length of each client's file
    SEG_SHIFT    \* a segment has 2^SEG_SHIFT bytes

SEG_SIZE == 2^SEG_SHIFT

\* (The last follows from the one before it, which the provers do not know.)
ASSUME DFSAssumption ==
    /\ Servers \subseteq Nat /\ NoServer \notin Servers /\ IsFiniteSet(Servers)
    /\ FileLen \in [Clients -> Nat]
    /\ SEG_SHIFT \in Nat
    /\ SEG_SIZE \in Nat \ {0}

VARIABLES
    srvs, nsAt, toDs, front, behind,    \* the ring, as in DSRing
    idmap,       \* the name server's file ids
    files,       \* and the data server of each segment it knows
    currentSvr,  \* current_svr
    tasks,       \* the data servers' threads that store a segment
    store,       \* per data server, the contents of its files
    cl,          \* the clients
    down         \* a thread called exit(0): the program has ended

ringVars == <<srvs, nsAt, toDs, front, behind>>
nsVars == <<idmap, files, currentSvr>>
vars == <<ringVars, nsVars, tasks, store, cl, down>>

Ring == INSTANCE DSRing

Zero == <<"zero", 0>>
Content(c) == [p \in 1..FileLen[c] |-> <<c, p>>]

Smaller(a, b) == IF a < b THEN a ELSE b

\* The function f with the value v at k.
With(f, k, v) == [j \in DOMAIN f \cup {k} |-> IF j = k THEN v ELSE f[j]]

-----------------------------------------------------------------------------
(* Name server *)

\* Mutant: the next server is counted from the segment's number.
RoundBySegment(segno) == segno % Len(srvs)

\* round robin
NextServer(segno) == (currentSvr + 1) % Len(srvs)

\* fileless: locations are ordered, and so found, by file and segment.
Key(id, segno) == <<id, segno>>

\* The answer of FindSegment to a client that names a file, or gives its id:
\* where the segment is, from now on if the name server did not know it.
FindSegment(named, file, fd, segno) ==
    LET ids == IF named /\ file \notin DOMAIN idmap
               THEN With(idmap, file, Cardinality(DOMAIN idmap)) ELSE idmap
        key == Key(IF named THEN ids[file] ELSE fd, segno)
    IN  /\ srvs # <<>>
        /\ idmap' = ids
        /\ IF key \in DOMAIN files THEN UNCHANGED <<files, currentSvr>>
           ELSE /\ files' = With(files, key, srvs[currentSvr + 1])
                /\ currentSvr' = NextServer(segno)

-----------------------------------------------------------------------------
(* Clients: UploadFile, then Read *)

\* Mutant: i < (length >> SEG_SHIFT)
SegmentBefore(c) == FileLen[c] \div SEG_SIZE - 1

\* i <= (length >> SEG_SHIFT)
LastSegment(c) == FileLen[c] \div SEG_SIZE

SegmentData(c, i) ==
    SubSeq(Content(c), i * SEG_SIZE + 1, i * SEG_SIZE + Smaller(SEG_SIZE, FileLen[c] - i * SEG_SIZE))

\* UploadSegment asks where segment i goes.  A file without bytes cannot be
\* mapped, and is not uploaded.
LocateUpload(c) ==
    /\ cl[c].at = "locate"
    /\ IF FileLen[c] = 0
       THEN /\ cl' = [cl EXCEPT ![c].at = "uploaded"]
            /\ UNCHANGED nsVars
       ELSE /\ FindSegment(TRUE, c, 0, cl[c].seg)
            /\ cl' = [cl EXCEPT ![c].at = "send", ![c].id = idmap'[c]]
    /\ UNCHANGED <<ringVars, tasks, store, down>>

\* It connects to the data server, sends the range and the bytes, and closes:
\* nobody tells it when they are stored.
UploadSegment(c) ==
    LET i == cl[c].seg
        key == Key(cl[c].id, i)
    IN  /\ cl[c].at = "send"
        /\ tasks' = tasks \cup {[seg |-> key, ds |-> files[key], role |-> "primary",
                                 data |-> SegmentData(c, i), at |-> "open"]}
        /\ cl' = [cl EXCEPT ![c].seg = i + 1,
                            ![c].at = IF i < LastSegment(c) THEN "locate" ELSE "uploaded"]
        /\ UNCHANGED <<ringVars, nsVars, store, down>>

\* main.cc reads the file back from its start.
StartRead(c) ==
    /\ cl[c].at = "uploaded"
    /\ cl' = [cl EXCEPT ![c].at = IF FileLen[c] > 0 THEN "read" ELSE "done"]
    /\ UNCHANGED <<ringVars, nsVars, tasks, store, down>>

\* readLocalFile: what the file has from the offset on, in a buffer of zeros.
FromFile(bytes, offset, length) ==
    [p \in 1..length |-> IF offset + p <= Len(bytes) THEN bytes[offset + p] ELSE Zero]

\* One turn of Read's loop: ReadSegment asks where the segment is and gets the
\* bytes.  A data server without the file ends the program.
ReadSegment(c) ==
    LET offset == Len(cl[c].buff)
        length == FileLen[c] - offset
        offInSeg == offset % SEG_SIZE
        segno == offset \div SEG_SIZE
        lenInSeg == Smaller(length - offInSeg, SEG_SIZE - offInSeg)
        key == Key(cl[c].id, segno)
    IN  /\ cl[c].at = "read"
        /\ FindSegment(FALSE, c, cl[c].id, segno)
        /\ IF key \notin DOMAIN store[files'[key]]
           THEN /\ down' = TRUE
                /\ UNCHANGED cl
           ELSE /\ cl' = [cl EXCEPT
                            ![c].buff = @ \o FromFile(store[files'[key]][key], offInSeg, lenInSeg),
                            ![c].at = IF lenInSeg < length THEN "read" ELSE "done"]
                /\ UNCHANGED down
        /\ UNCHANGED <<ringVars, tasks, store>>

-----------------------------------------------------------------------------
(* Data servers: message_process_getdata *)

Becomes(t, place) == tasks' = (tasks \ {t}) \cup {[t EXCEPT !.at = place]}

\* saveToLocalFile: open with O_TRUNC, which empties or creates the file.
OpenSegment(t) ==
    /\ t.at = "open"
    /\ store' = [store EXCEPT ![t.ds] = With(@, t.seg, <<>>)]
    /\ Becomes(t, "write")
    /\ UNCHANGED <<ringVars, nsVars, cl, down>>

\* Bytes that another thread wrote further on stay.
Overlaid(old, data) == data \o SubSeq(old, Len(data) + 1, Len(old))

WriteSegment(t) ==
    /\ t.at = "write"
    /\ store' = [store EXCEPT ![t.ds][t.seg] = Overlaid(@, t.data)]
    /\ Becomes(t, IF t.role = "primary" THEN "front" ELSE "answer")
    /\ UNCHANGED <<ringVars, nsVars, cl, down>>

\* Mutant: the second copy goes to the front neighbour too.
FrontTwice(t) == front[t.ds]

NeighbourFor(t) == IF t.at = "front" THEN front[t.ds] ELSE behind[t.ds]

After(place) == IF place = "front" THEN "behind" ELSE "end"

\* deliverToNeighbor connects to the neighbour, if there is one, and sends.
DeliverToNeighbor(t) ==
    LET n == NeighbourFor(t)
        copy == [t EXCEPT !.ds = n, !.role = t.at, !.at = "open"]
    IN  /\ t.role = "primary" /\ t.at \in {"front", "behind"}
        /\ IF n = NoServer THEN Becomes(t, After(t.at))
           ELSE tasks' = (tasks \ {t}) \cup
                         {[t EXCEPT !.at = IF @ = "front" THEN "waitFront" ELSE "waitBehind"], copy}
        /\ UNCHANGED <<ringVars, nsVars, store, cl, down>>

\* Mutant: a read of no bytes is taken for the end of the stream.
AnsweredIfAny(t, r) == r.seg = t.seg /\ r.at = "answer" /\ r.data # <<>>

\* The neighbour's checksum of what it received has come.
Answered(t, r) == r.seg = t.seg /\ r.at = "answer"

\* The checksum is right, as the stream brought the same bytes: the connection
\* is closed and the neighbour's thread reads its end, unless it reads no bytes
\* at a time: then it never sees the end and stores the empty segment for ever.
Delivered(t) ==
    \E r \in tasks :
        /\ t.at \in {"waitFront", "waitBehind"} /\ Answered(t, r)
        /\ r.role = IF t.at = "waitFront" THEN "front" ELSE "behind"
        /\ tasks' = (tasks \ {t, r})
                    \cup {[t EXCEPT !.at = IF @ = "waitFront" THEN "behind" ELSE "end"]}
                    \cup (IF r.data = <<>> THEN {[r EXCEPT !.at = "again"]} ELSE {})
        /\ UNCHANGED <<ringVars, nsVars, store, cl, down>>

StoreAgain(t) ==
    /\ t.at = "again"
    /\ store' = [store EXCEPT ![t.ds] = With(@, t.seg, <<>>)]
    /\ UNCHANGED <<ringVars, nsVars, tasks, cl, down>>

EndThread(t) ==
    /\ t.at = "end"
    /\ tasks' = tasks \ {t}
    /\ UNCHANGED <<ringVars, nsVars, store, cl, down>>

TaskStep(t) ==
    \/ OpenSegment(t) \/ WriteSegment(t)
    \/ DeliverToNeighbor(t) \/ Delivered(t) \/ StoreAgain(t) \/ EndThread(t)

-----------------------------------------------------------------------------
\* main.cc starts the name server, then the data servers, and the client seconds
\* later: with sleeps that let each be done with what it starts.  The threads of
\* the data servers are taken to register one at a time in the order in which
\* they are started, which main.cc does not arrange: DSRing has what can follow.
Init ==
    /\ Ring!Init
    /\ idmap = <<>> /\ files = <<>> /\ currentSvr = 0
    /\ tasks = {}
    /\ store = [s \in Servers |-> <<>>]
    /\ cl = [c \in Clients |-> [at |-> "locate", seg |-> 0, id |-> 0, buff |-> <<>>]]
    /\ down = FALSE

RingStep(s) ==
    /\ \/ /\ Ring!Idle /\ \A r \in Servers : r < s => nsAt[r] # "off"
          /\ Ring!Register(s)
       \/ Ring!DSRegister(s)
       \/ Ring!UpdateMyNeighbors(s)
    /\ UNCHANGED <<nsVars, tasks, store, cl, down>>

RingReady == Ring!Settled /\ \A s \in Servers : nsAt[s] = "done"

\* Nothing is on the way to a data server's disk.
Quiet == \A t \in tasks : t.at = "again"

ClientStep(c) ==
    RingReady /\ (LocateUpload(c) \/ UploadSegment(c) \/ StartRead(c) \/ ReadSegment(c))

\* A client as in main.cc, which reads as soon as it has uploaded.
Next ==
    /\ ~down
    /\ \/ \E s \in Servers : RingStep(s)
       \/ \E c \in Clients : ClientStep(c)
       \/ \E t \in tasks : TaskStep(t)

Spec == Init /\ [][Next]_vars

\* A client that uploads, and reads when all that was uploaded is stored.
PatientStep(c) == (cl[c].at = "uploaded" => Quiet) /\ ClientStep(c)

PatientNext ==
    /\ ~down
    /\ \/ \E s \in Servers : RingStep(s)
       \/ \E c \in Clients : PatientStep(c)
       \/ \E t \in tasks : TaskStep(t)

\* The threads of the program run: those of the ring, the clients', and every
\* thread that serves a connection, known by its segment and its role.
Segments == (0..(Cardinality(Clients) - 1)) \X UNION {0..LastSegment(c) : c \in Clients}
Fairness ==
    /\ \A s \in Servers : WF_vars(~down /\ RingStep(s))
    /\ \A c \in Clients : WF_vars(~down /\ PatientStep(c))
    /\ \A g \in Segments, r \in {"primary", "front", "behind"} :
         WF_vars(~down /\ \E t \in tasks : t.seg = g /\ t.role = r /\ TaskStep(t))

PatientSpec == Init /\ [][PatientNext]_vars /\ Fairness

-----------------------------------------------------------------------------
(* Properties *)

\* Once all messages of registrations have arrived, the neighbours of the data
\* servers form a ring in the order of registration (nameserver.cc DSRegister).
RingClosed == Ring!RingClosed

\* The ring changes only where a new server goes in (DSRegister and the data
\* servers' updateMyNeighbors), so that copies stay where they are expected.
NeighboursStay == Ring!NeighboursStay

\* The file a client reads back is the file it uploaded, byte for byte, through
\* UploadFile's cut into segments, the name server's table, the data servers'
\* files and Read's arithmetic (main.cc compares the two with diff).
ReadBack == \A c \in Clients : ~down /\ (cl[c].at = "done" => cl[c].buff = Content(c))

\* When nothing is on its way, each segment of a file that was uploaded is
\* on the data server the name server names and on both its neighbours of the
\* ring, and what they have are the bytes of the file (message_process_getdata).
ThreeCopies ==
    Quiet => \A c \in Clients : \A i \in 0..(cl[c].seg - 1) :
                cl[c].at # "send" =>
                  LET key == <<cl[c].id, i>> IN
                  \A s \in {files[key], front[files[key]], behind[files[key]]} :
                      key \in DOMAIN store[s] /\ store[s][key] = SegmentData(c, i)

\* A segment's data server is never another one, and the segments go to the data
\* servers in turn, whichever files they are of (FindSegment).
PlacedInTurn ==
    [][\A k \in DOMAIN files' :
         IF k \in DOMAIN files THEN files'[k] = files[k]
         ELSE files'[k] = srvs[(Cardinality(DOMAIN files) % Len(srvs)) + 1]]_vars

\* All neighbours are told, every client is done in the end, and so is every
\* delivery to a neighbour that deliverToNeighbor waits for: no data server waits
\* on another one for ever, although each passes segments to both its neighbours.
AllEnds == <>[](Quiet /\ \A c \in Clients : cl[c].at = "done")
=============================================================================
