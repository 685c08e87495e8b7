------------------------ MODULE MessageExchange ------------------------
(***************************************************************************)
(* Who builds which message in which object, in project2 and project3: a   *)
(* client, the name server's thread of each connection, the data servers'  *)
(* registration connections, a thread of a data server that serves the     *)
(* client and one of a neighbour that takes the copy.  What is looked up   *)
(* for an answer is left open (MetaServer has the tables); what is         *)
(* followed is every object: locals are lent to a container with           *)
(* set_allocated and taken back with release, and a thread of the name     *)
(* server, like a data server's registration thread, reads every message   *)
(* into one container that it never replaces.                              *)
(***************************************************************************)
EXTENDS Protobuf

CONSTANTS Projects,      \* of "miniDFS" and "metadata", those to check
          DataServers,   \* the data servers, each with a registration connection
          Files,         \* file names, as byte sequences
          Numbers,       \* the values an int32 field takes
          MaxCalls       \* bound: calls of the client library

Mini == INSTANCE MiniMessages
Meta == INSTANCE MetaMessages

Address == <<49>>                    \* "127.0.0.1"
PortOf(d) == 6666
NoMemory == << >>

Program(x) == <<x, "program">>
NameServer(x) == <<x, "nameserver">>
Client == Program("client")
GetData == Program("data server")
TakeCopy == Program("neighbour")
Threads == ({"client"} \cup DataServers) \X {"program", "nameserver"}
           \cup {GetData, TakeCopy}

VARIABLES project,   \* which of the two programs
          thr,       \* each thread's [mem, obj]: the container it uses and the messages alive
          wire,      \* per thread, the bytes on their way to it
          mail,      \* per thread, the messages those bytes and the one being handled were built from
          busy,      \* the threads between readmsg and the end of the handler
          call,      \* what the client waits for: "none", "location", "count" or "items"
          left,      \* calls left; entries GetClusterInfo still reads
          srvs       \* the data servers in the order in which they registered

vars == <<project, thr, wire, mail, busy, call, left, srvs>>

msgcontainer == IF project = "metadata" THEN Meta!msgcontainer ELSE Mini!msgcontainer
filelocation == IF project = "metadata" THEN Meta!filelocation ELSE Mini!filelocation
filerange == IF project = "metadata" THEN Meta!filerange ELSE Mini!filerange
types == IF project = "metadata" THEN Meta!type ELSE Mini!type
Type(name) == (CHOOSE i \in DOMAIN types : types[i] = name) - 1
IsOfType(t, name) == /\ \E i \in DOMAIN types : types[i] = name
                     /\ thr[t].obj.val["msgtype"] = Type(name)

\* A message of a class with the given fields set.
With(class, values) == [has |-> DOMAIN values, val |-> values @@ New(class).val]

\* A new container, constructed in a thread's memory.
NewContainer(mem) == [mem |-> mem, obj |-> New(msgcontainer)]
\* Mutant: the type is not set.
Untyped(mem, name) == NewContainer(mem)
Typed(mem, name) == LET s == NewContainer(mem)
                    IN  [s EXCEPT !.obj = Set(@, "msgtype", Type(name))]
Destroyed(s) == NewContainer(Destroy(msgcontainer, s))

\* A local variable is declared and lent to the container; it is taken back
\* and goes out of scope.
Lend(s, name, m) ==
    SetAllocated([s EXCEPT !.mem = Local(name) :> m @@ @], name, Local(name))
\* Mutant: it goes out of scope, and the container keeps pointing to it.
NotTakenBack(s, name) == [s EXCEPT !.mem = Restrict(@, DOMAIN @ \ {Local(name)})]

TakeBack(s, name) ==
    LET r == Release(msgcontainer, s, name)
    IN  [r EXCEPT !.mem = Restrict(@, DOMAIN @ \ {Local(name)})]

\* What a message says, wherever its parts are kept.
Value(s) == [n \in s.obj.has |->
                IF FieldOf(msgcontainer, n).kind = "message"
                THEN Restrict(s.mem[s.obj.val[n]].val, s.mem[s.obj.val[n]].has)
                ELSE s.obj.val[n]]

-----------------------------------------------------------------------------
(* msgdelivery.cc: four decimal digits, then the message *)

\* The array that takes the bytes has 512 of them; the names sent are shorter.
writemsg(s) ==
    LET n == ByteSize(msgcontainer, s.obj, s.mem)
    IN  [i \in 1..4 |-> 48 + ((n \div 10^(4 - i)) % 10)]
        \o SubSeq(SerializeToArray(msgcontainer, s.obj, s.mem) \o [i \in 1..512 |-> 0], 1, n)

\* The containers ss are written, one after the other, to the threads ts.
Written(w, ts, ss) ==
    [t \in Threads |-> w[t] \o FlattenSeq([i \in DOMAIN ts |->
                                  IF ts[i] = t THEN writemsg(ss[i]) ELSE << >>])]
Mailed(m, ts, ss) ==
    [t \in Threads |-> m[t] \o FlattenSeq([i \in DOMAIN ts |->
                                  IF ts[i] = t THEN <<Value(ss[i])>> ELSE << >>])]

Announced(in) == (in[1] - 48) * 1000 + (in[2] - 48) * 100 + (in[3] - 48) * 10 + in[4] - 48

readmsg(t) ==
    /\ t \notin busy
    /\ Len(wire[t]) >= 4
    /\ LET n == Announced(wire[t]) IN
         /\ Len(wire[t]) >= 4 + n
         /\ thr' = [thr EXCEPT ![t] = ParseFromArray(msgcontainer, @, SubSeq(wire[t], 5, 4 + n))]
         /\ wire' = [wire EXCEPT ![t] = SubSeq(@, 5 + n, Len(@))]
    /\ busy' = busy \cup {t}
    /\ UNCHANGED <<project, mail, call, left, srvs>>

\* The handler of what t has read ends with its memory s, having written ss to ts.
Handled(t, s, ts, ss) ==
    /\ t \in busy
    /\ busy' = busy \ {t}
    /\ thr' = [thr EXCEPT ![t] = s]
    /\ wire' = Written(wire, ts, ss)
    /\ mail' = Mailed([mail EXCEPT ![t] = Tail(@)], ts, ss)

\* Thread t, which reads nothing, ends a call with its memory s, having written ss to ts.
Sends(t, s, ts, ss) ==
    /\ thr' = [thr EXCEPT ![t] = s]
    /\ wire' = Written(wire, ts, ss)
    /\ mail' = Mailed(mail, ts, ss)
    /\ UNCHANGED busy

-----------------------------------------------------------------------------
(* The client library (miniDFS.cc); main starts the client seconds after the
   data servers, when the registrations are over *)

Calls(waits) ==
    /\ call = "none" /\ left.calls > 0
    /\ Range(srvs) = DataServers /\ \A d \in DataServers : mail[Program(d)] = << >>
    /\ left' = [left EXCEPT !.calls = @ - 1]
    /\ call' = waits
    /\ UNCHANGED <<project, srvs>>

RequireLocation ==
    \E file \in Files, n \in Numbers :
      LET floc == With(filelocation,
                    IF project = "metadata" THEN [file |-> file, filelen |-> n]
                    ELSE [file |-> file, segno |-> n, fd |-> n])
          s == Lend(Typed(thr[Client].mem, "FILELOCATION"), "floc", floc)
      IN  /\ Calls("location")
          /\ Sends(Client, TakeBack(s, "floc"), <<NameServer("client")>>, <<s>>)

\* UploadFile, ReadFile, UploadSegment, ReadSegment with the answer: a data server
\* is connected, told the range, and the answer destroyed.
notify_filerange ==
    \E file \in Files, n \in Numbers, op \in {"FILEWRITE", "FILEREAD"} :
      LET floc == Get(msgcontainer, thr[Client], "floc")
          range == [file |-> file, fileID |-> floc.val["fd"], length |-> n, isMsgFromCL |-> TRUE]
          frange == With(filerange, IF project = "metadata" THEN range
                                    ELSE [segno |-> n, offset |-> 0] @@ range)
          s == Lend(Typed(NoMemory, op), "frange", frange)
      IN  /\ call = "location" /\ IsOfType(Client, "FILELOCATION")
          /\ mail[GetData] = << >>
          /\ call' = "none"
          /\ Handled(Client,
                     [Destroyed(thr[Client]) EXCEPT
                         !.mem = @ @@ Destroyed(TakeBack(s, "frange")).mem],
                     <<GetData>>, <<s>>)
          /\ UNCHANGED <<project, left, srvs>>

\* DeleteFile
ClientDeleteFile ==
    \E file \in Files :
      LET s == Lend(Typed(thr[Client].mem, "DELETEFILE"), "filedel",
                    With(Meta!filedelete, [file |-> file]))
      IN  /\ project = "metadata"
          /\ Calls("none")
          /\ Sends(Client, Destroyed(TakeBack(s, "filedel")), <<NameServer("client")>>, <<s>>)

GetClusterInfo ==
    LET s == Lend(Typed(thr[Client].mem, "ALLINFORMATION"), "acluster", New(Meta!clusterdata))
    IN  /\ project = "metadata"
        /\ Calls("count")
        /\ Sends(Client, TakeBack(s, "acluster"), <<NameServer("client")>>, <<s>>)

\* itemNum, and then a new container for every entry.
GetClusterCount ==
    LET n == Get(msgcontainer, thr[Client], "acluster").val["clusternum"]
    IN  /\ call = "count"
        /\ call' = IF n > 0 THEN "items" ELSE "none"
        /\ left' = [left EXCEPT !.items = n]
        /\ Handled(Client, Destroyed(thr[Client]), << >>, << >>)
        /\ UNCHANGED <<project, srvs>>

GetClusterItem ==
    /\ call = "items"
    /\ left' = [left EXCEPT !.items = @ - 1]
    /\ call' = IF left.items > 1 THEN "items" ELSE "none"
    /\ Handled(Client, Destroyed(thr[Client]), << >>, << >>)
    /\ UNCHANGED <<project, srvs>>

-----------------------------------------------------------------------------
(* The name server's threads (nameserver.cc) *)

\* An entry of files, as some client's request and the server's choice filled it in.
Entries == {With(filelocation,
              [file |-> file, ip |-> Address, port |-> 6666, fd |-> n]
              @@ IF project = "metadata" THEN [filelen |-> n] ELSE [segno |-> n]) :
              file \in Files, n \in Numbers}

FindFile(x) ==
    \E floc \in Entries :
      LET t == NameServer(x)
          s == Lend(thr[t], "floc", floc)
      IN  /\ IsOfType(t, "FILELOCATION")
          /\ Handled(t, TakeBack(s, "floc"), <<Program(x)>>, <<s>>)
          /\ UNCHANGED <<project, call, left, srvs>>

\* The file is unknown, and the function returns at once, or it is erased.  (That
\* it returns with floc_lock taken is MetaServer's subject.)
DeleteFile(x) ==
    \E known \in BOOLEAN :
      LET t == NameServer(x)
      IN  /\ IsOfType(t, "DELETEFILE")
          /\ Handled(t, IF known THEN Release(msgcontainer, thr[t], "floc") ELSE thr[t],
                     << >>, << >>)
          /\ UNCHANGED <<project, call, left, srvs>>

SendAllInfo(x) ==
    \E files \in {<< >>} \cup {<<e>> : e \in Entries} \cup {<<e, e>> : e \in Entries} :
      LET t == NameServer(x)
          acluster == Set(Get(msgcontainer, thr[t], "acluster"), "clusternum", Len(files))
          s == Lend(thr[t], "acluster", acluster)
          tmpMsg(i) == Lend(Typed(NoMemory, "FILELOCATION"), "floc", files[i])
          after(i) == Destroyed(TakeBack(tmpMsg(i), "floc")).mem
      IN  /\ IsOfType(t, "ALLINFORMATION")
          /\ Handled(t, [TakeBack(s, "acluster") EXCEPT
                            !.mem = FoldLeft(LAMBDA m, i : m @@ after(i), @,
                                             [i \in DOMAIN files |-> i])],
                     <<Program(x)>> \o [i \in DOMAIN files |-> Program(x)],
                     <<s>> \o [i \in DOMAIN files |-> tmpMsg(i)])
          /\ UNCHANGED <<project, call, left, srvs>>

\* The new server hears of both neighbours, the last one of the server behind it
\* and the first one of the server in front of it, through one dinfo.
DSRegister(d) ==
    LET t == NameServer(d)
        dregister == Get(msgcontainer, thr[t], "dregister").val
        known == Append(srvs, d)
        dinfo1 == With(Meta!dataserverinfo, [fip |-> Address, fport |-> PortOf(srvs[Len(srvs)]),
                                             eip |-> Address, eport |-> PortOf(known[1])])
        dinfo2 == Set(Set(ClearField(Meta!dataserverinfo,
                            ClearField(Meta!dataserverinfo, dinfo1, "fip"), "fport"),
                          "eip", dregister["ip"]), "eport", dregister["port"])
        dinfo3 == ClearField(Meta!dataserverinfo,
                    ClearField(Meta!dataserverinfo,
                      Set(Set(dinfo2, "fip", dregister["ip"]), "fport", dregister["port"]),
                      "eip"), "eport")
        m1 == Lend(Typed(NoMemory, "DATASERVERINFO"), "dinfo", dinfo1)
        m2 == Lend(TakeBack(m1, "dinfo"), "dinfo", dinfo2)
        m3 == Lend(TakeBack(m2, "dinfo"), "dinfo", dinfo3)
        after == Destroyed(TakeBack(m3, "dinfo")).mem
    IN  /\ IsOfType(t, "DATASERVERREGISTER")
        /\ srvs' = known
        /\ IF srvs = << >> THEN Handled(t, thr[t], << >>, << >>)
           ELSE Handled(t, [thr[t] EXCEPT !.mem = @ @@ after],
                        <<Program(d), Program(srvs[Len(srvs)]), Program(known[1])>>,
                        <<m1, m2, m3>>)
        /\ UNCHANGED <<project, call, left>>

\* The client disconnects after its last call; the thread reads the end and
\* destroys its container.
ThreadEnds ==
    LET t == NameServer("client")
    IN  /\ call = "none" /\ left.calls = 0
        /\ t \notin busy /\ wire[t] = << >>
        /\ thr' = [thr EXCEPT ![t] = Destroyed(@)]
        /\ call' = "closed"
        /\ UNCHANGED <<project, wire, mail, busy, left, srvs>>

-----------------------------------------------------------------------------
(* Data servers (dataserver.cc) *)

Register(d) ==
    LET s == Lend(Typed(thr[Program(d)].mem, "DATASERVERREGISTER"), "dregister",
                  With(Meta!dataserverregister, [ip |-> Address, port |-> PortOf(d)]))
        t == NameServer(d)
    IN  /\ d \notin Range(srvs) /\ t \notin busy /\ mail[t] = << >>
        /\ Sends(Program(d), Destroyed(TakeBack(s, "dregister")), <<t>>, <<s>>)
        /\ UNCHANGED <<project, call, left, srvs>>

updateMyNeighbors(d) ==
    /\ Handled(Program(d), thr[Program(d)], << >>, << >>)
    /\ UNCHANGED <<project, call, left, srvs>>

\* A client's data are stored and passed to the neighbours there are; one stands
\* for both, as newmsg is written to each in the same way.
message_process_getdata ==
    \E neighbours \in BOOLEAN :
      LET frange == Get(msgcontainer, thr[GetData], "frange")
          newmsg == Lend(Typed(NoMemory, "FILEWRITE"), "frange",
                         Set(frange, "isMsgFromCL", FALSE))
          forwards == IsOfType(GetData, "FILEWRITE") /\ frange.val["isMsgFromCL"]
          after == IF forwards THEN Destroyed(TakeBack(newmsg, "frange")).mem ELSE NoMemory
          end == [Destroyed(thr[GetData]) EXCEPT !.mem = @ @@ after]
      IN  /\ mail[TakeCopy] = << >>
          /\ IF forwards /\ neighbours THEN Handled(GetData, end, <<TakeCopy>>, <<newmsg>>)
             ELSE Handled(GetData, end, << >>, << >>)
          /\ UNCHANGED <<project, call, left, srvs>>

\* The neighbour's thread finds a range that does not come from a client.
TakesCopy ==
    /\ IsOfType(TakeCopy, "FILEWRITE")
    /\ ~Get(msgcontainer, thr[TakeCopy], "frange").val["isMsgFromCL"]
    /\ Handled(TakeCopy, Destroyed(thr[TakeCopy]), << >>, << >>)
    /\ UNCHANGED <<project, call, left, srvs>>

-----------------------------------------------------------------------------
Init ==
    /\ project \in Projects
    /\ thr = [t \in Threads |-> NewContainer(NoMemory)]
    /\ wire = [t \in Threads |-> << >>]
    /\ mail = [t \in Threads |-> << >>]
    /\ busy = {}
    /\ call = "none"
    /\ left = [calls |-> MaxCalls, items |-> 0]
    /\ srvs = << >>

Next ==
    \/ \E t \in Threads : readmsg(t)
    \/ RequireLocation \/ notify_filerange \/ ClientDeleteFile
    \/ GetClusterInfo \/ GetClusterCount \/ GetClusterItem
    \/ FindFile("client") \/ DeleteFile("client") \/ SendAllInfo("client")
    \/ ThreadEnds
    \/ \E d \in DataServers : Register(d) \/ DSRegister(d) \/ updateMyNeighbors(d)
    \/ message_process_getdata \/ TakesCopy

Spec == Init /\ [][Next]_vars

-----------------------------------------------------------------------------
(* Properties *)

\* What a handler finds in its container is the message that was written, all of
\* it and nothing else, although the container still holds the allocations of
\* every message that the thread read before (readmsg into one msgcontainer,
\* nameserver.cc message_process and dataserver.cc message_process_nameserver).
ReadsWhatWasSent == \A t \in busy : Value(thr[t]) = Head(mail[t])

\* Between two messages the messages alive in a thread's memory are those its
\* container points to: no local is left in a container whose destructor would
\* delete it, nothing the container dropped stays allocated, and nothing was
\* deleted that `new` had not returned (every set_allocated_x(&local) is followed
\* by release_x on every path).
OwnershipKept ==
    \A t \in Threads :
      DOMAIN thr[t].mem = {thr[t].obj.val[f.name] : f \in {g \in Range(msgcontainer) : g.kind = "message"}}
                          \ {Null}

\* Every message written has its required fields, which SerializeToArray asserts
\* and ParseFromArray reports.
SentComplete ==
    \A t \in Threads : \A i \in DOMAIN mail[t] : LET m == mail[t][i] IN
      /\ "msgtype" \in DOMAIN m
      /\ \A f \in Range(msgcontainer) : f.name \in DOMAIN m =>
           \A j \in DOMAIN f.of : f.kind = "message" /\ f.of[j].required => f.of[j].name \in DOMAIN m[f.name]
=============================================================================
